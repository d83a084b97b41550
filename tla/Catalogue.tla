---------------------------- MODULE Catalogue -------------------------------
(***************************************************************************)
(* The catalogue and what serves it: the tree of groups, the plugins that  *)
(* are loaded, the page views, the list of resources of a dataset and what *)
(* changed between two of its versions.  The parts share no state, and     *)
(* each is an instance of its own module.                                  *)
(***************************************************************************)
EXTENDS Naturals, FiniteSets

CONSTANT Unset

CONSTANTS HiGroups, HiRequests, HiMaxRecurses
VARIABLES hiParents, hiDeleted, hiCall, hiStale
hi == <<hiParents, hiDeleted, hiCall, hiStale>>
HI == INSTANCE Hierarchy WITH
  Groups <- HiGroups, Requests <- HiRequests, Idle <- Unset,
  MaxRecurses <- HiMaxRecurses, parents <- hiParents, deleted <- hiDeleted,
  call <- hiCall, stale <- hiStale

CONSTANTS PlNames, PlConfigured, PlChained, PlMaxService, PlThreads
VARIABLES
  plPlugins, plService, plActions, plTables, plCall, plBroken, plMixed
pl == <<
  plPlugins, plService, plActions, plTables, plCall, plBroken, plMixed>>
PL == INSTANCE Plugins WITH
  Names <- PlNames, Configured <- PlConfigured, Chained <- PlChained,
  MaxService <- PlMaxService, Threads <- PlThreads, Nothing <- Unset,
  plugins <- plPlugins, service <- plService, actions <- plActions,
  tables <- plTables, call <- plCall, broken <- plBroken, mixed <- plMixed

CONSTANTS TrRequests, TrVisitors, TrWindow, TrMaxDay, TrMaxViews, TrMaxRuns
VARIABLES
  trToday, trViews, trRows, trRun, trStarted, trIndexed, trFailed, trDone,
  trExcuse
tr == <<
  trToday, trViews, trRows, trRun, trStarted, trIndexed, trFailed, trDone,
  trExcuse>>
TR == INSTANCE Tracking WITH
  Requests <- TrRequests, Nothing <- Unset, Visitors <- TrVisitors,
  Window <- TrWindow, MaxDay <- TrMaxDay, MaxViews <- TrMaxViews,
  MaxRuns <- TrMaxRuns, today <- trToday, views <- trViews, rows <- trRows,
  run <- trRun, started <- trStarted, indexed <- trIndexed,
  failed <- trFailed, done <- trDone, excuse <- trExcuse

CONSTANTS ChPairs
VARIABLES chPair, chTold
ch == <<chPair, chTold>>
CH == INSTANCE Changes WITH
  Pairs <- ChPairs, NoValue <- Unset, Nothing <- Unset, pair <- chPair,
  told <- chTold

CONSTANTS PsRequests, PsEarly, PsIds, PsContents, PsMaxSent
VARIABLES psRows, psHolder, psCall, psOld, psTorn
ps == <<psRows, psHolder, psCall, psOld, psTorn>>
PS == INSTANCE PackageSave WITH
  Requests <- PsRequests, Early <- PsEarly, Ids <- PsIds,
  Contents <- PsContents, MaxSent <- PsMaxSent, Nothing <- Unset,
  rows <- psRows, holder <- psHolder, call <- psCall, old <- psOld,
  torn <- psTorn

-----------------------------------------------------------------------------
(* Properties *)

(* Hierarchy: An update that no other overlaps never closes a loop of at   *)
(* most MaxRecurses + 2 links, whatever was deleted by id or by name and   *)
(* brought back before (the recursive queries would follow it to their     *)
(* limit, group.py:444).                                                   *)
UpdateClosesNoLoop == HI!UpdateClosesNoLoop

(* Plugins: The registers agree, and what get_action returns calls the     *)
(* plugins that are in, in the order of the configuration, wrapped by the  *)
(* audit of authorization.                                                 *)
ActionsFollowPlugins == PL!ActionsFollowPlugins

(* Tracking: Once an update has come to its end, every day before its last *)
(* one has one row with its distinct visitors and the total up to that     *)
(* day, the index has the last total, and no row says more than the raw    *)
(* views do, wherever earlier updates were cut.                            *)
SummaryFollowsViews == TR!SummaryFollowsViews

(* Changes: The list tells of all that changed.                            *)
ChangesAreTold == CH!ChangesAreTold

(* PackageSave: Unless another request has committed since it first read,  *)
(* a request that saves a list of resources leaves just that list, in its  *)
(* order and at positions without a gap, whatever it could copy and        *)
(* whatever was deleted or purged.                                         *)
SavesWhatWasSent == PS!SavesWhatWasSent
=============================================================================
