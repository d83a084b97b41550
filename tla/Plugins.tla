------------------------------ MODULE Plugins ------------------------------
(***************************************************************************)
(* The registers of plugins of one process (ckan/plugins/core.py) and the  *)
(* table of actions that is built from them when it is asked for an action *)
(* and found empty (get_action; authz builds its table in the same way).   *)
(* One action, which core implements, stands for all of them.              *)
(***************************************************************************)
EXTENDS Naturals, FiniteSets, Sequences, SequencesExt

CONSTANTS
  Names,      \* of plugins
  Configured, \* ckan.plugins, a sequence of names
  Chained,    \* plugins whose action calls the one that follows
  MaxService, \* plugins entered at a time (bound)
  Threads,    \* that call get_action
  Nothing     \* no action, no call

VARIABLES
  plugins,  \* _PLUGINS
  service,  \* _PLUGINS_SERVICE: names in the order they were entered
  actions,  \* the entry of the action: [calls, wrapped], or Nothing
  tables,   \* the database has its tables
  call,     \* [pc, fetched] of the threads in get_action
  broken,   \* plugins whose load or unload stopped half way
  mixed     \* the entry may be of a broken or overlapping build

vars == <<plugins, service, actions, tables, call, broken, mixed>>

\* The elements of s that are in S, in their order.
Only(s, S) ==
  LET found[n \in 0 .. Len(s)] ==
        IF n = 0 THEN <<>>
        ELSE IF s[n] \in S THEN Append(found[n - 1], s[n]) ELSE found[n - 1]
  IN found[Len(s)]

(* PluginImplementations.__iter__: the configured plugins in their order,  *)
(* then the others in the order they were entered.                         *)
Implementations(s) ==
  Only(Configured, ToSet(s)) \o Only(s, Names \ ToSet(Configured))

ChainedOf(s) == Only(Implementations(s), Chained)
PlainOf(s) == Only(Implementations(s), Names \ Chained)

Conflict(s) == Len(PlainOf(s)) > 1

Core == [calls |-> <<"core">>, wrapped |-> FALSE]

\* Mutant: the chain is made in the order of the plugins.
FetchedUnreversed(s, core) ==
  IF ChainedOf(s) \o PlainOf(s) = <<>> THEN Nothing
  ELSE [calls |-> Reverse(ChainedOf(s)) \o
          (IF PlainOf(s) = <<>> THEN core.calls ELSE PlainOf(s)), wrapped |-> FALSE]

(* What the plugins make of the action: a chain of partial functions that  *)
(* ends in the one of a plugin or, failing that, in the entry of the       *)
(* table, which is core's.                                                 *)
Fetched(s, core) ==
  IF ChainedOf(s) \o PlainOf(s) = <<>> THEN Nothing
  ELSE [calls |-> ChainedOf(s) \o
          (IF PlainOf(s) = <<>> THEN core.calls ELSE PlainOf(s)), wrapped |-> FALSE]

Wrapped(a) == [calls |-> a.calls, wrapped |-> TRUE]

\* What update_config leaves: get_site_user builds the table if it can.
Built(s) ==
  CASE ~tables -> Nothing
    [] tables /\ Conflict(s) -> Core
    [] OTHER -> LET f == Fetched(s, Core) IN Wrapped(IF f = Nothing THEN Core ELSE f)

Building == {t \in Threads : call[t] # Nothing}

(* The caches are cleared near the end of update_config, which may raise   *)
(* before it.                                                              *)
PluginsUpdate(s, fails) ==
  IF fails
  THEN UNCHANGED actions /\ mixed' = TRUE
  ELSE actions' = Built(s) /\ mixed' = (Building # {} \/ (tables /\ Conflict(s)))

Enter(s, p) == IF p \in ToSet(s) THEN s ELSE Append(s, p)
Without(s, p) == Only(s, Names \ {p})

(* load: an observer may raise before the plugin is entered, after it is   *)
(* entered in one register, and the update of the configuration may raise. *)
Load(p, fail) ==
  /\ p \notin ToSet(plugins) /\ Len(Enter(service, p)) <= MaxService
  /\ service' = Enter(service, p)
  /\ plugins' = IF fail = "observer" THEN plugins ELSE Append(plugins, p)
  /\ broken' = IF fail = "observer" THEN broken \cup {p} ELSE broken \ {p}
  /\ PluginsUpdate(service', fail # "none")
  /\ UNCHANGED <<tables, call>>

\* unload: both registers are left before the observers are called.
Unload(p, fail) ==
  /\ p \in ToSet(plugins)
  /\ plugins' = Without(plugins, p)
  /\ service' = Without(service, p)
  /\ broken' = broken \ {p}
  /\ PluginsUpdate(service', fail # "none")
  /\ UNCHANGED <<tables, call>>

\* load_all: everything in _PLUGINS is unloaded, then the configuration loaded.
LoadAll ==
  /\ plugins' = Configured
  /\ LET kept == Only(service, Names \ ToSet(plugins)) IN
     /\ Len(kept \o Configured) <= MaxService + Cardinality(ToSet(kept) \cap ToSet(Configured))
     /\ service' = kept \o Only(Configured, Names \ ToSet(kept))
  /\ broken' = broken \ ToSet(Configured)
  /\ PluginsUpdate(service', FALSE)
  /\ UNCHANGED <<tables, call>>

InitDatabase ==
  /\ ~tables /\ tables' = TRUE
  /\ UNCHANGED <<plugins, service, actions, call, broken, mixed>>

-----------------------------------------------------------------------------
(* get_action of a thread, when the table was found empty.  The loops over *)
(* modules and plugins run without a lock.                                 *)

At(t, pc) == call[t] # Nothing /\ call[t].pc = pc

FindEmpty(t) ==
  /\ call[t] = Nothing /\ actions = Nothing
  /\ call' = [call EXCEPT ![t] = [pc |-> "core", fetched |-> Nothing]]
  /\ mixed' = (mixed \/ Building # {})
  /\ UNCHANGED <<plugins, service, actions, tables, broken>>

EnterCore(t) ==
  /\ At(t, "core")
  /\ actions' = Core
  /\ call' = [call EXCEPT ![t].pc = "fetch"]
  /\ UNCHANGED <<plugins, service, tables, broken, mixed>>

\* A conflict of two plugins raises, and leaves what core has.
Fetch(t) ==
  /\ At(t, "fetch")
  /\ IF Conflict(service)
     THEN call' = [call EXCEPT ![t] = Nothing] /\ mixed' = TRUE
     ELSE /\ call' = [call EXCEPT ![t] =
               [pc |-> "wrap",
                fetched |-> Fetched(service, IF actions = Nothing THEN Core ELSE actions)]]
          /\ UNCHANGED mixed
  /\ UNCHANGED <<plugins, service, actions, tables, broken>>

UpdateAndWrap(t) ==
  /\ At(t, "wrap")
  /\ actions' = LET f == call[t].fetched IN
                IF f # Nothing THEN Wrapped(f)
                ELSE IF actions = Nothing THEN Nothing ELSE Wrapped(actions)
  /\ call' = [call EXCEPT ![t] = Nothing]
  /\ UNCHANGED <<plugins, service, tables, broken, mixed>>

Init ==
  /\ plugins = <<>>
  /\ service = <<>>
  /\ actions = Nothing
  /\ tables = FALSE
  /\ call = [t \in Threads |-> Nothing]
  /\ broken = {}
  /\ mixed = FALSE

Next ==
  \/ \E p \in Names, fail \in {"none", "observer", "update"} :
       Load(p, fail) \/ Unload(p, fail)
  \/ LoadAll
  \/ InitDatabase
  \/ \E t \in Threads : FindEmpty(t) \/ EnterCore(t) \/ Fetch(t) \/ UpdateAndWrap(t)

Spec == Init /\ [][Next]_vars

-----------------------------------------------------------------------------
(* Properties *)

TypeOK ==
  /\ plugins \in Seq(Names) /\ service \in Seq(Names)
  /\ actions # Nothing => actions.calls \in Seq(Names \cup {"core"})
  /\ tables \in BOOLEAN /\ mixed \in BOOLEAN
  /\ broken \subseteq Names

(* The two registers name the same plugins, each once, except a plugin     *)
(* whose load an observer broke off after it was entered in one of them.   *)
RegistersAgree ==
  /\ IsInjective(plugins) /\ IsInjective(service)
  /\ ToSet(service) \ ToSet(plugins) = broken
  /\ ToSet(plugins) \subseteq ToSet(service)

Expected ==
  LET chain == Only(Configured, ToSet(service) \cap Chained)
               \o Only(service, Chained \ ToSet(Configured))
      plain == ToSet(service) \ Chained
  IN chain \o (IF plain = {} THEN <<"core">> ELSE <<CHOOSE p \in plain : TRUE>>)

(* The registers agree, and what get_action returns calls the plugins that *)
(* are in, in the order of the configuration, wrapped by the audit of      *)
(* authorization; unless the table is of a build that was broken off, that *)
(* overlapped another one, or that a thread is making (which others do not *)
(* wait for).                                                              *)
ActionsFollowPlugins ==
  /\ RegistersAgree
  /\ actions # Nothing /\ ~mixed /\ Building = {}
     => actions = [calls |-> Expected, wrapped |-> TRUE]
=============================================================================
