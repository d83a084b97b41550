# Verification of the CKAN catalogue server

This directory holds TLA+ models of the parts of this repository (a CKAN
whose job queue, search index, key/value store and sessions live in
PostgreSQL) in which several processes share state, or in which one function
is long enough to be wrong for inputs nobody tried.  TLC checks the models on
small instances (`*.cfg`), TLAPS checks the theorems (`*_proof.tla`).
`PROJECT.json` lists the runs, the mutants that show that each property can
fail, the source lines behind each definition, the hazards and the findings.

    tlc -workers 2 -config JobsTime.cfg MCJobQueue.tla     # a run
    tlapm JobQueue_proof.tla                               # the proofs

Sections: 1 the system, 2 plan and layout, 3 jobs, 4 catalogue and index,
5 permissions, 6 services, 7 extensions and algorithms, 8 what differs from
the documentation, 9 what is proved and what is only model-checked, 10 what is
not modelled.

## 1. The system

Web processes handle requests by calling *actions* (`ckan/logic/action`),
functions that check authorization (`ckan/logic/auth`, `ckan/authz.py`),
validate their input (`ckan/lib/navl`), change model objects (`ckan/model`,
SQLAlchemy) and commit.  Worker processes (`ckan jobs worker`) run background
jobs.  All of them share one database; plugins hook into most steps.

| component | state it keeps | hard behaviour | modules |
|---|---|---|---|
| background jobs (`ckan/lib/jobs.py`, `ckan/lib/jobqueue`) | `background_job` table; in each worker the job in hand, its horse, the deadline | workers race for rows, horses and workers die, time-outs, ids used again | JobQueue, JobPromise |
| catalogue, index, `package_show` cache (`ckan/logic/action`, `ckan/lib/search`) | rows of package and member; `package_search_index` | index and dataset are written by two transactions; locks held by some operations only; a cache written before the commit | PackageIndex |
| the resources of a dataset (`ckan/lib/dictization/model_save.py`) | `resource` rows: position, state, content | saves by position on what was read before a lock; deleted rows that are revived or purged | PackageSave |
| authorization, organizations (`ckan/authz.py`, `ckan/logic/auth`) | roles, hierarchy, owners, collaborators | two look-ups of one permission, one up the hierarchy and one down | Access |
| members and hierarchy as rows (`member_create`, `group_member_save`, `no_loops_in_hierarchy`) | `member` rows | nothing in the table keeps them unique; a check commits later | Membership, Hierarchy |
| invitations and resets (`user_invite`, `ckan/lib/mailer.py`, `ckan/views/user.py`) | users, reset keys, mails | several commits, undone by a further one; a mail may arrive although sending it failed | Accounts |
| files and uploads (`ckan/logic/action/file.py`, `ckan/lib/files`, `ckan/lib/uploader.py`) | storages; `file`, `file_owner` rows | storage and database are written one after the other | Files, FileOwners, Uploads |
| key/value store (`ckan/lib/kvstore.py`) | `kv_store` rows with an expiry | clocks read before a statement that may wait | KVStore, ExpiringMap |
| sessions (`ckan/config/middleware`) | `session_store` rows; the cookies of a browser | whole-session upserts of concurrent requests; a remember cookie is a second way in | Sessions |
| plugins (`ckan/plugins/core.py`, `get_action`) | registers of plugins, table of actions | observers that raise; a table that threads build at once | Plugins |
| options changed at runtime (`ckan/lib/app_globals.py`) | `system_info`, a copy in each process, a stamp | a stamp must tell every process of every change | ConfigSync |
| DataPusher (`ckanext/datapusher`) | a `task_status` row; the service's jobs | a job is submitted before the save it is for is committed; its hook may come before the answer of the submission | DataPusher |
| DataStore (`ckanext/datastore`) | a table per resource; count, flag and time beside it | two databases, two background jobs; upserts that bypass triggers and sequences | Datastore, DatastoreTable |
| page views (`ckanext/tracking`) | raw views, a summary by day | a batch that commits day by day, is cut, overlaps | Tracking |
| activities (`ckanext/activity`) | activities, times of the dashboard row | times set after a list was read; the list of changes between versions | Notifications, Changes |
| search queries (`package_search`, `ckan/lib/search`) | none | filters joined as text and parsed together; SQL's third truth value | Search |
| `package_revise` (`ckan/lib/navl/dictization_functions.py`) | none | patterns into nested lists | Revise |
| validation of nested data (`ckan/lib/navl`) | none | keys of nested items are flattened, matched by prefix, and nested again | Validation |

Interactions: actions enqueue jobs (`toolkit.enqueue_job`), every dataset
action writes the index, `package_show` reads it back, DataPusher's plugin is
called before the commit of a resource (`IResourceUrlChange`) and after it
(`after_resource_create/update`) inside the request of the dataset and calls
back through the API, jobs call actions.

## 2. Plan and layout

Done: the two core components with their proofs (JobQueue, PackageIndex), an
abstract specification for the queue (JobPromise) and for the key/value store
(ExpiringMap), and a model of each component of the table above.

Proved: every invariant and action property that a passing run checks, but for
those of the three components that use recursive operators (Revise, Search,
Validation); among them that KVStore implements ExpiringMap and JobQueue
implements JobPromise, and that Services as a whole is well typed (section 9).

Left to model: PackageIndex and PackageSave composed.

Modules named after a component hold its state, actions and properties; `MC*`
modules instantiate them.  Components that share no state with each other are
put side by side: `Services` and `MCExtensions` have a variable `part`, and
the initial state chooses which component runs while all the others stand
still.  The graph that TLC explores is the sum of their graphs, not the
product, and a property of a component is checked in the states in which it
runs.  `Services` extends two groups of components, `Users` (sessions,
memberships, accounts, notifications) and `Stores` (files and their owners,
uploads, DataPusher, options, the DataStore), and holds the key/value store
and the index itself.  `MCExtensions` extends two more, `Catalogue` (hierarchy,
plugins, page views, lists of resources, lists of changes) and `Jobs` (the
queue), and has instances of the components that use recursive operators
(Revise, Search, Validation).  A group declares the constants, the variables
and the instance of each of its parts, with the alias of the part as prefix,
and says their properties.  `Users_proof`, `Stores_proof` and `Catalogue_proof`
have one section per part of their group; `Services_proof` carries the theorems
over to `Services`, and those of the queue to `Jobs`.  `MCServices` and
`Services.cfg`, `MCExtensions` and `Extensions.cfg` give the constants their
values.
(`SettledInSync` and `ClaimsFollowListing` are the properties of PackageIndex and
JobQueue under another next-state relation and other constants, as parts `px`
and `jq`.)

Some properties hold except after a race or a crash that the code does not
guard against.  A model then records that it happened, in a *history variable*
(`torn`, `stale`, `cut`, `excuse`, `late`...), set by the very step that goes
wrong and named in the property as its exception.  Such a variable is no state
of the program and no guard reads it; the property says that nothing else
goes wrong.  What the exceptions are is listed in section 8.

## 3. Jobs: JobQueue, JobPromise

`ckan/lib/jobqueue/postgres.py` sends every statement in a transaction of its
own, so an action of the model is one statement.  `enqueue` is `Enqueue`
(INSERT ... ON CONFLICT) and `EnqueueFetch` (the SELECT and its `assert`).
`dequeue` takes a row lock (FOR UPDATE SKIP LOCKED) that others can meet
before it commits: `Claim` and `CommitClaim`; the statements of others that
wait for such a lock have `~Locked(i)` in their guards.

| code | model |
|---|---|
| `background_job` row | `job[i]`, a record; `ticket` numbers the enqueue calls, it is no column |
| `Worker.work` | `pc[w]`: idle, claiming, launch, wait, fail, empty (between an empty poll and the next), dead, off |
| `execute_job`, `os.fork` | `Fork`; `run[w]` is the Job object both processes have |
| `_wait_for_horse` | `Kill` (hard time-out), `Reap`, `ParentFail` |
| `perform_job` | `Return`, `Raise`, `Finish`, `HorseFail`, `HorseExit` on `horse[w]` |
| `fail_stale` | `FailStale`, by an idle worker when STALE_CHECK_INTERVAL has passed |
| SIGKILL, power loss, database errors | `WorkerDies` for the workers in `Mortal`, `HorseDies` for any horse |
| job_cancel, job_clear | `Cancel`, `Clear` |

A worker's identity is never used again: a restart after a death is another
element of `Workers`; a burst worker that stops and starts again is the same.
The soft time-out is one of the ways `Raise` happens, at any moment; the model
does not need to know when.  Payload, `meta` and log are left out.

*Bounds.* One or two ids, two workers (one mortal), one or two queues, two
enqueue calls, clocks of 1 to 6 ticks.  Two workers and two jobs are
enough for every race over a row, since a statement touches one row and
compares two; the clock of `JobsTime` covers a time-out of 1 with its deadline,
slack 1, and one tick beyond it.  `Grace`, `StaleSlack` and `MaxPickup` keep
the order of the constants in the code (10 s grace, 60 s slack); the
assumption `SlackAssumption` says what is needed of them: a fork follows its
dequeue within 50 s.  The code does not enforce it.  `CHECK_DEADLOCK FALSE`
since calls and clock are bounded, and the system then may stop.

*Fairness* (`PromptSpec`).  Weak fairness of a worker's own steps (start, poll,
fork, reap), of a horse's steps after its job function, and of the clock.  A
worker is a loop in an operating-system process that supervisord starts
again; horses are processes too.  Nothing is assumed of callers, of deaths, or
of job functions, which may run for ever.  Steps of workers are fast against a
tick (`Prompt`: the clock moves only while every worker sleeps with nothing to
claim, watches a horse or is dead): without that a tick could pass between
any two steps and the bounded clock would run out before anything is
resolved.  `TimeLeft` is the part of that clock a resolution takes.  A burst
worker that finds nothing may stop and be started again within one tick, for ever, and so
keep the clock from moving; `JobsResolved` has no such worker (`MayStop = {}`),
`JobsTime` has one.

| run | shows |
|---|---|
| JobsTime | types; no job in two hands, with a mortal worker (`RunAtMostOnce`); a live horse's job is never stale; started rows and tracebacks are kept; the queue implements `JobPromise` (a waiting job leaves only on request, and never comes back) |
| JobsResolved | `JobsGetDone` under `PromptSpec`: every waiting job is picked up or withdrawn (`EveryJobPickedUp`), a started one with a timeout is resolved (`TimedJobResolved`) |
| Extensions, part `jq` | claims follow `list_jobs` (`ClaimsFollowListing`), with two workers that list two queues in opposite orders and an id that is used again |
| JobsReuseOutcome | violated: with a reused `job_id`, finish or fail of the old run hits the row of the new job (`finish` and `fail` look at the id only) |
| JobsEnqueueRace | violated: the job may be over before `enqueue` fetches it back, and `assert job` fails |

Two more differences from the documentation came up and have no run:
`job_cancel` deletes a started job's row too (`ckan/cli/jobs.py:115` says it
cannot), and a started job without a time-out stays started when worker and
horse die (`fail_stale` looks at `timeout > 0`).  Both are in the model:
`Cancel` has no guard on the status, `IsStale` has one on the time-out.

*Proved* (`JobQueue_proof`; no bound on ids, workers, queues, clock or enqueue
calls beyond the named assumptions):

- `TypeCorrect`, `AtMostOnce`.  `RunAtMostOnce` is not
  inductive: it says nothing of rows whose ticket was given out but not
  claimed.  `Inv` adds: tickets of rows are at most `tickets`, and a row with
  a status other than queued has a claimed ticket (`RowsOK`); claimed tickets
  were given out (`ClaimedOK`); pc and horse fit together (`HorseOK`); a
  claiming worker's row is queued, has its ticket, and nobody else claims it
  (`LocksOK`); a ticket past its claim is in `claimed`, and two hands hold
  different tickets (`HandsOK`).
- `OutcomesAreKept`, `QueueKeepsPromise`, for `CallerIds = {}`, that is when
  no id is used again: `OwnOK` adds that a ticket belongs to one id for ever.
  For `OutcomesAreKept` a lemma says that a row changes in one of six ways, and
  none of them loses a started job or a traceback: a worker that records
  that its horse died found the row unresolved, and nobody else has written it
  since.
  The refinement is a step simulation: every action maps to `Submit`,
  `Withdraw`, `Take`, `End` or a stutter.
- `StaleIsGone`: `TimesOK` bounds the time since the
  dequeue and since the fork by `MaxPickup` and the deadline.

- `ClaimsDoFollow` (ClaimsFollowListing), when the ids are finitely many, as
  those that one table holds are: `list_jobs` reads all rows that are due.
  A finite set in which any two elements are ordered has a least one
  (`WellFoundedInduction`), so there is a list to choose.  What comes before a
  job in the list has a higher priority, or the same and is older, and it is
  due: `dequeue` takes it first unless its row is locked, and it is locked only
  between the claim of another worker and its commit.

Liveness (`JobsGetDone`) is model-checked only: it is beyond the prover.

## 4. Catalogue: PackageIndex, PackageSave

One dataset: its committed row (`row`, a function from columns to values), the
groups it is a member of, its document in the index.  A value of a column is
the request that wrote it, so a property can tell who wrote what.  A request
has an operation and goes through it with what is not committed in local
variables: `obj` (the Package object in its SQLAlchemy session), `dict` (what
package_show gave it or its caller sent), `plan` (memberships to add and
drop), `dirty` (columns its UPDATE sets), `built` (the document to index).

| code | model |
|---|---|
| `package_create` up to the index | `Create` |
| `package_update`: validation, comparison | `Update`, `ReadMembers`, `Flush` |
| `package_show(for_update)`: SELECT FOR UPDATE, cache, dictize | `Lock`, `Show` |
| `resource_update`, `resource_delete` | `Load`, `Lock`, `Show`, `ReadMembers`, `Flush` |
| `package_delete`, `dataset_purge` up to the index | `Delete` |
| `member_create`, `member_delete` (commit, then rebuild) | `Load`, `Join`, `Build`, `WriteIndex` |
| `search.rebuild` of one dataset | `Load`, `Build`, `WriteIndex` |
| `package_show_default_and_custom_schemas` | `Build` |
| `index_*_dicts`, a transaction of its own | `WriteIndex` |
| `model.repo.commit` | `Commit`; `RowGone` when the UPDATE finds no row |
| exception, lost connection, killed process | `Fail` |

What SQLAlchemy does is part of the model: `autoflush` and
`expire_on_commit` are off (`ckan/model/meta.py`); an UPDATE sets the columns
whose attributes changed; the session's identity map returns an object it
holds without refreshing it, also for SELECT ... FOR UPDATE, so an object
loaded before the lock keeps its values (`Lock`, operation "resource");
PostgreSQL is READ COMMITTED and an UPDATE locks its row until the end of the
transaction.

`stamp` is `metadata_modified`, by which `package_show` tells whether the
document in the index is that of the row.  A save gets a new one where its
data has none (update.py:410, create.py:202).  The schema drops the one that is
sent (`ignore_not_sysadmin`) but for sysadmins and callers that `ignore_auth`;
the requests in `MaySend` are theirs, and may send any that was given out, the
row's own included (`Sends`, `Stamps`).  Resource operations pop it.  The history
variable `sent` has what the save of a request carries, and keeps it when that
fails.  Left out: two saves within the 10 ms that `package_show` compares, and a
`package_update` that changes nothing, which ends early (update.py:298).

`package_delete` looks memberships up by the id it was given, which finds none
when that is the dataset's name: `Delete` ends all of them or none.

*Bounds.* Two columns, one group, and requests of any of the nine operations:
two columns show a mixture of two rows, and a third request observes what a
race of two left.  `IndexMixed` (`MixedSpec`) has four requests that set both
columns when all of them lock the row (creations, patches and shows), and
otherwise three, of any operation, that set one.  Any of them may fail, and
may send a `metadata_modified`.  Requests are symmetric.  Only safety is
checked: a request may fail or be killed at any moment.  `CHECK_DEADLOCK FALSE` because every request
ends.

| run | shows |
|---|---|
| IndexMixed | shown columns were committed, whatever runs; a purged dataset never comes back; and among requests that hold the row lock from their first read to their commit, the index agrees whenever nobody is between the two writes, what is shown was committed together (`IndexInSync`), and a patch keeps the columns it was not asked to change - although the rest of its dict may come from the index (`PatchKeepsOthers`).  Exempt is what has the `metadata_modified` that a save sent which is under way or has failed (`Resent`, `Mistaken`) |
| Services, part `px` | one request after the other: a request that ends well leaves index and dataset in agreement, also when one before failed between the two writes (`SettledInSync`) |
| IndexDelete | violated: `package_delete` writes the index before it holds the lock; a patch under way re-indexes the dataset |
| IndexResource | violated: resource operations save an object loaded before they waited for the lock |
| IndexResent | violated: a patch that sends the row's own `metadata_modified` writes the index and fails; the next patch takes that document for the row, and commits columns nobody asked it to change (`PatchesOnlyItsOwn`) |

Not kept as runs, but visible in the model: a patch drops memberships that
were committed while it was under way; after the race of IndexDelete a patch
takes the phantom document for the dataset and makes it active again
(`metadata_modified` is not changed by a deletion); a rebuild that overlaps an
update may leave the older document.

*Proved* (`PackageIndex_proof`, for any number of requests, columns and
groups, any mixture of the nine operations, and any requests failing):

- `TypeCorrect`: TypeOK, which says among the types that the index never
  holds the document of a deleted dataset.  `Typed` adds to it the domains of
  the local variables.
- `PurgedIsGone`: PurgedStaysGone.  The invariant it needs, `PurgesAll`, says
  that a purge under way has the empty row in hand and writes every column of
  it; that a stale update writes nothing is the guard `UpdatesNothing` of
  `Commit`, which the action property alone can use.
- `ShowsCommittedValues`: ShowsNothingUncommitted.  It is not inductive: the
  index may hold a document that was never committed, and the argument is that
  package_show does not take it, but for a stamp that was sent.  `ShowInv` says
  why.  One request at a time saves: it holds the lock, or there is no row yet
  (`AloneOK`).  Its stamp is one that no committed row has, or one it was sent
  (`SentOK`), and it writes each column it changed (`SavesOwn`).  A document
  (`DocOK`) has committed values, or is the row of a request that is saving and
  was sent its stamp, or has a stamp that no row has (`Used`), or one that a
  save was sent which has failed (`Left`); and what package_show answered is of
  the first, second or fourth kind (`Answer`).  The lemma `DocStep` is the step:
  a saver that ends has either committed its row, so its document has committed
  values, or given up, so its stamp is no row's or one that it was sent.
  `OtherSaves` and `OwnSave` keep the rest.  TLC checked `ShowInv` on the
  instance of IndexMixed before it was proved.

- `LockedIndexInSync` (IndexInSync) and `LockedPatchKeepsOthers`
  (PatchKeepsOthers), for operations that lock the row.  `LockInv`: a patch
  has the row as it is (`HasRow`, `HasRead`), is shown that row unless a save
  that sent its stamp has failed (`Excused`), and is about to write what it
  indexed (`HasSaved`), together `HolderOK`; a document with the
  `metadata_modified` of a row that was committed is the whole of that row, or
  of the save that sends it, or was left by one that sent it (`WholeRow`,
  `CacheOK`); and whoever leaves the index out of step is between the two
  writes or has failed (`LeftInSync`).
- `SerialInSync` (SettledInSync), for requests of any operation, one at a
  time from first read to end.  `SerialInv` says of every request that it
  plans nothing before it comes to its writes (`Unplanned`) and that what it
  is about to index and commit is what it has in hand (`InHand`).  Whatever a
  request that failed left in the index, and whether the next one takes it for
  the row or not, that one indexes what it commits.  `SerialTypes` is TypeOK
  under that next-state relation.

`PackageSave`, part `ps` of run Extensions, looks below the row: the table of
resources of one dataset and how a request that was sent a list makes the rows
say it.  `package_update` compares what was sent with the current dict *by
position* and hands `package_resource_list_save` a list in which unchanged
resources are only names of rows to keep (`Copies`, `CopyOf`); that function
sets positions, marks what is left over as deleted, and purges what was
deleted before (`Saved`). Requests differ in what they read before the lock of
the dataset's row: `package_patch`, `resource_create` and
`package_resource_reorder` nothing; `resource_update` and `resource_delete`
the resource; `package_update` all of it.  `SavesWhatWasSent` says that the
rows are then just the list sent, in order and without gaps, that what is
removed stays as a deleted row, and that a request for one resource which
another overtook still leaves all others as they are.  What overtaken
`package_update`s do is exempt (`old`, `torn`); see section 8.  Three ids, two
contents, lists of at most two and two requests, of which one may read early:
a list can lose, gain, swap and revive an item.

*Proved* (`Catalogue_proof`, for any number of requests, ids and contents and
lists of any length): `SavesLeaveWhatWasSent`.  As long as nothing is torn, the
active rows can be read as one list (`PsNeat`: distinct ids, positions from 0
without a gap; positions are what `PsSavesAs` computes for each row).  The
invariant says of every request that is not overtaken, depending on how far it
is, that the list it was shown is the one the rows have (`PsWasShown`), that
what its session holds is the rows, but perhaps for the one resource that it
loaded before the lock (`PsHasRead`, `PsSees`), and that the rows it is about
to commit are those of its list (`PsEnding`).  Lemmas about one save, without
requests, carry the weight: what is copied by position is the resource that was
sent, every row that was sent gets its position, every other one is deleted or
purged.

## 5. Permissions: Access

The tables that decide who may do what: users, organizations with their
hierarchy, roles, owners of datasets and collaborators.  A request is one
step; its guard is the auth function and the validators that run before the
action, its effect all the rows the action changes (deleting an organization
gives up its datasets, and so on).  Races of these tables are in Membership
and Hierarchy.

| code | model |
|---|---|
| `has_user_permission_for_group_or_org` and `_has_user_permission_for_groups`, upwards with the cascade | `HasPermission` |
| `get_dataset_labels`, `get_user_dataset_labels`, `organization_list_for_user`, downwards | `DatasetLabels`, `UserLabels`, and `MayShow`, which compares them |
| `ckan.auth.*` | constants, constrained by `SettingsAssumption` |
| organization_create, update, delete, purge; member_create, member_delete; bulk_update_* | `OrganizationCreate`, ..., `MemberCreate`, ..., `BulkUpdate` |
| package_create, update, delete, owner_org_update; the owner_org and private validators | `PackageCreate`, ..., `OwnerAccepted`, `PrivateAccepted` |
| package_collaborator_create, delete; user_delete and its undoing | `CollaboratorCreate`, `CollaboratorDelete`, `UserDelete`, `UserRestore` |

`ShowMatchesRoles` compares the two look-ups: search and `package_show` ask
for labels, everything else asks for roles, and they must let the same users
read a dataset that is not public; whoever may update it may see it.
`PowerIsGiven`: nobody comes to administer an organization except by a step of
one who administers it or one above it, deleted ones included.  That it is one
who did *before* would be false: the administrator of a deleted organization
may move what is below it under another, and so hand it to others.
`PrivateUnownedByLoss`: no request turns an ownerless dataset private.

*Bounds.*  Two organizations (one above the other, beside it, or deleted), one
dataset, an ordinary user and a sysadmin, one level of hierarchy.  A property
mentions one dataset, one user and the chain above one organization.
Organizations are symmetric.  `VIEW Tables` leaves out who made the last
request and the roles of sysadmins, which no look-up reads; properties about
the actor are action properties, which TLC evaluates on every step it
generates, so the view hides no step from them.

*Proved* (`Access_proof`, for any number of users, organizations and datasets,
any hierarchy, any depth of look-ups and any settings that satisfy
`SettingsAssumption`): `TypeCorrect`, `LabelsFollowRoles` (ShowMatchesRoles),
`PowerComesFromPower` (PowerIsGiven), `PrivateNeedsOwner`.  The invariant is
TypeOK with `NoStray`: rows name organizations that exist.  The hard part is
that the look-up upwards and the one downwards meet.  Both follow the
hierarchy level by level, a recursive function over the levels; a `Path` is a
sequence of organizations of which each leads to the next, and `ReachIsLed`
says that a look-up finds just where paths of bounded length lead; a path
backwards is a path of the inverse relation.  The induction over levels is a
lemma about sets of numbers (`Induction`), which needs no operator parameter.

AccessMove is violated: a collaborator who may edit a dataset takes it away
from its organization with an empty `owner_org` (section 8).

## 6. Services: components checked one beside the other

Run `Services` (module `MCServices`); the alias of the part in brackets.  After
each component: the inductive invariant with which its properties are proved,
for all values of its constants (`Users_proof`, `Stores_proof`,
`KVStore_proof`; the names carry the alias as a prefix).

**KVStore [kv], ExpiringMap.**  Every call reads the clock (`Begin`) and later
sends its statement (`Set`, `Delete`, `Incr`, `Expire`, `Clear`, and `Purge`,
the second statement of set and clear), which decides by the time it was
given.  ExpiringMap is what callers may rely on: no clocks, every write
indivisible; of the calls it knows the increments under way, and which of them
will add to a value (`asks`, `sees`).  An increment adds to what was live when it
was asked for (`Add`), though it may have expired since; where nothing was, it
starts at 0 (`Start`) - unless a write under way in the meantime brings a value
that it sees.  `ActsAsMap` is the refinement: what is kept is
the rows, what is live is what a reader sees now, and an increment sees a row
whose time was not over when it read the clock.  It shows that `incr` in one
statement loses nothing and never counts on from a value that was over when it
was asked for, that only set, incr and expire bring a key to light, and that a
late purge removes nothing live.  One key (statements on different keys do not
touch; Clear and Purge take sets of keys), two callers, a lifetime of 1, three
times.  *Proved* as a step simulation: every statement maps to a write of
ExpiringMap or to a stutter, and `Begin` of an increment to `Ask`.  The
invariant is TypeOK, `LookedBefore` - what a call takes for expired by the clock
it read has expired for everybody - and `OneKey`, an increment is of one key.

**Sessions [se].**  A request of one browser opens the session of its cookie,
changes its copy, and stores the whole of it.  A login with a password takes a
new session id (`regenerate_session`); a logout keeps the id.  A remember
cookie (`remember`, set by a login that asks for it, taken back by a logout to
which it was sent) makes a session without a user the user's again
(`identify_user` and Flask-Login's loader), and keeps its id.
`SessionsFollowLogins`: an overlapping request that stores its old copy does not
log anybody in under an id from before the login; and a session that was stored
without a user, at a logout or once it had expired, is a user's again only when
a request stores what it had loaded before that.  Exempt are the ids under
which a request came in with a remember cookie (`recalled`).  Three requests,
three ids, two times: a login, a logout and a bystander.
*Proved* with: only ids that were given out are in use (`SeGiven`); a request
that was given its user by the remember cookie has it until it logs out
(`SeRemembered`); a user is stored under ids of a user only (`SeOwn`); and a
request that loaded a user's session is known to be stale once that is stored
without one (`SeKnown`).

**Membership [me].**  The rows of one user in one group, by the four actions
that write them, each a read and a later write.  `RolesAreSingle`: without a
race there is one active row, and whatever removes the user leaves none,
although `member_delete` deletes only one row.  *Proved* with `MeSound`: the
rows are single, and so will they be, or empty, when any one of the requests
under way has committed that is not stale.

**Accounts [ac].**  Invitation: user, membership, mail, and the undoing of both
when the mail fails; reset keys and the form that activates the user.  A mail
may be delivered although the connection broke, and none is sent, with no
error, when there is no mail server (mailer.py:225).  `InvitationsAreWhole`: a
pending member has a mail with the key that is his now, or it is being mailed,
unless no mail of that key was sent (`unsent`); and one whose inviter was told
"not created" has no role, not even when the mail's link is used later.  Two
accounts, two requests, two keys; the process may stop anywhere.  *Proved*
with: an account is invited once (`AcInvitedOnce`); who was refused has no role
and is not pending (`AcRefusedOut`); a pending account is being invited or is a
member (`AcPending`); past its first step an invitation has made the member
(`AcJoined`); a pending account without a key is at the first steps of its
invitation (`AcKeyed`), calls are about accounts that are there and a form does
not spend the key of a pending one (`AcServed`), and of every key of a pending
account a mail tells, or is about to, or none was sent (`AcAllTold`).

**Files [fi], FileOwners [fo].**  One location: look for the record, write or
remove the file, commit the record, in three steps.  `RecordsMatchFiles`:
record and file agree whenever no request is between its two writes, unless
one was cut there or acted on an old look.  *Proved* with `FiFresh` - no id
and no file is handed out twice - and `FiMatch`: a record without its file is
about to be deleted, a file without a record is about to get one, and a
deletion removes the file of the record it found.
FileOwners: pins are respected and the history is the owners in their order
(`TransfersAreRecorded`), for requests whose row did not change after they
loaded it.  *Proved* with: what a request loaded is there still, or the request
is stale (`FoLoaded`), and a transfer of what was pinned then is forced
(`FoAllowed`).

**Uploads [up].**  The file of a resource on disk and the row that speaks of it.
`UploadsAreWholeAndOwn`: although all uploads of a resource share one
temporary file, a reader finds one whole upload, because the flush of the row
comes first and its lock keeps writers apart; and the row speaks of the file
that is there, unless a failure came between rename and commit.  Two chunks
show a mixture.  *Proved* with: who has
flushed the row is the one that holds its lock (`UpLockHeld`); only uploads
write and only "clear" removes (`UpRoutes`); the temporary file is not the file
readers open (`UpApart`) and has what the copy wrote so far (`UpCopied`); the
file is the whole of some upload (`UpWhole`), of the one that is about to commit
(`UpPlaced`), and otherwise of the one the row speaks of (`UpOwn`).

**DataPusher [dp].**  A save that changes the URL submits the resource before its
commit (`model_save.py` sets `url_changed`, the session extension calls the
plugin in `before_commit`), and `resource_update` calls the plugin once more
after it, `package_update` does not (`again` of `Commit`).  The save under way
is `draft`; it may roll back with its job submitted.  An upload sets
`last_modified`, a new link does not.  Submission, answer, hook and the
service's jobs are steps of their own.  The hook compares the job's time with
`last_modified`, and its URL only where there is none (`ModifiedSince`).
`TasksFollowSaves`: when all is quiet and the task is complete, the DataStore
holds the resource as it is, and no task is left submitting or pending, on
whose account every later save would be skipped.  The exceptions are in
`excuse`, each set by the step that goes wrong: a job that overlaps another
("overlap"); one that read the resource before a save was committed that the
hook does not make out ("read early"), or that was over by then when nothing
is submitted after the commit ("over early"); a save between the hook's look
and its write ("looked early"); a hook that was lost, or came before the
answer to its submission was recorded ("lost", "overtaken").  *Proved*
with: a task that is submitting or pending is somebody's to end, a job's, a
request's or a hook's (`DpCared`); and, unless a step was excused, an upload has
a time that no job has (`DpApart`), there is one job at a time or its hook
(`DpOneJob`), what a job has read is the resource as it is or the hook will
make out that it is not (`DpJobsTold`, `DpHooksTold`), and a complete task is of
the current version or some request is about to submit (`DpDone`).

**Datastore [ds], DatastoreTable [dt].**  Datastore: what is kept *beside* the
table - count, `datastore_active`, `last_modified` and their background jobs -
agrees with it once requests are over (`MetadataFollowsTable`).
DatastoreTable: columns, indexes, the sequence, rows and their full text
within one table (`TableServesItsRows`); a request is a transaction.
*Proved* with: what does not follow the table yet will be set, a flag or a count
by a request under way, the time by a request, a job that waits or the worker
(`DsFlagDue`, `DsCountDue`, `DsTimeDue`); and, for the table: an `_id` is unique
(`DtOneEach`) and was given by the sequence or chosen (`DtGiven`), a row has
the text of its values or was changed without (`DtTold`), and the key is the one
asked for or its name was taken (`DtKeyAsked`).

**Notifications [no].**  `ActivitiesAreToldOnce`: what is older than the times of
the dashboard row was mailed or shown, and nothing is mailed twice.  A run
looks back no further than `ckan.email_notifications_since` (`limit`, which may
fall between any two activities and only moves on), and moves the time of the
last mail on all the same: what it lets go by in this way, or because the user
wants no mails or there is nowhere to send them, is in `dropped`.  Two
activities, two runs or visits, lists of one.
*Proved* with: of what the times have passed the user was told, or there is a
known reason why not (`NoPassed`), and so of what a call has seen, or the call
will tell (`NoSeen`); what was mailed is behind the time of the last mail or
its call is about to set that (`NoStamped`); and what a call is to mail no other
call has mailed or will mail (`NoAlone`).

**ConfigSync [cs].**  `StampTellsOfOptions`: a process that knows the latest stamp
has the options of the database.  Two processes, two requests, one option.
*Proved* for any number of them, with: a process that will not read again
without a further stamp has an option of the database, or a request is about
to write or read it (`CsStampTells`); a stamp that is known was one once
(`CsStampsPassed`); one reset at a time holds the lock of a process
(`CsOneReset`).

**PackageIndex [px].**  Section 4, with requests that come one after the other.

Requests come from a set of three, of which components with two requests
have `r2` and `r3`.  These two differ in nothing (`RequestSymmetry`).

## 7. Extensions and algorithms

Run `Extensions` (module `MCExtensions`), which also has PackageSave [ps] and
claims in the order of `list_jobs` [jq] (sections 4 and 3).  What is proved of
Hierarchy, Plugins, Tracking and Changes is in `Catalogue_proof`, for every value
of their constants.

**Hierarchy [hi].**  `no_loops_in_hierarchy` looks for loops with a recursive
query of bounded depth, and the update commits later.  `UpdateClosesNoLoop`:
an update nobody overlaps closes no loop of up to `MaxRecurses + 2` links,
also after deletions (by id and by name) and revivals.  Three groups and
`MAX_RECURSES` 0, so that loops at, below and above the bound exist.
*Proved* for any number of groups and any bound (`UpdatesCloseNoLoop`): what
a request that is not stale has validated is still allowed.  The query is a
recursive function over levels; `Upto` constructs it, level by level, and what
leads to a group by at most `MaxRecurses + 1` links is in one of the levels.  A
loop that is new leads through the group that was updated: cut where it last
leaves the group by a new parent, it is an old walk from that parent back to
the group, which the query would have found.

**Plugins [pl].**  The two registers, and the table of actions that is filled
when it is found empty.  `ActionsFollowPlugins`: registers agree after any
sequence of loads, unloads and broken loads, and `get_action` answers with the
plugins that are in, chained in the configured order, wrapped.  Two chained
plugins and two plain ones.
*Proved* for any configuration that names a plugin once
(`ActionsDoFollowPlugins`), with: the registers hold the same, and unless a
two threads built the table at once, it is empty, or right, or one thread is
building it and has fetched what belongs on top of core's (`PlSound`).  Most of
the proof is about lists: what a recursive function chooses from a list keeps
its order and names everything once (`PlImplementationsSet`), so the chain is in
the order of the configuration (`PlChainIs`), and where there is no conflict at
most one plugin ends it (`PlPlainIs`).

**Tracking [tr].**  "ckan tracking update" commits twice per day; it may be cut
after each commit, overlap, or be given a start date.  `SummaryFollowsViews`:
a later update that ends repairs what a cut one left, up to the day before its
last.  An error while the dataset is indexed again is shown and swallowed
(`RebuildFails`); while the last one failed, nothing is said of the index.  The
window is 1 day instead of 2, with three days.
*Proved* for finitely many visitors and any window, days and runs
(`SummaryDoesFollowViews`), with: unless an update was excused, there is one at
a time and one row a day; the row of every day but the last counts the day's
distinct visitors and has the total up to it, or none yet (`TrSettled`), which
for the last days is so as far as the update under way has come (`TrUnder`);
and an update that ends leaves no row without a total, and the last total in
the index unless it failed to write it (`TrAtEnd`).  Sums over sets are
recursive functions that pick an element; `TrSums` constructs them, and any
element may be taken first.

**Revise [re].**  The functions behind `package_revise` on trees of three kinds of
nodes.  `RevisesAsAsked` compares them with definitions by recursion over the
tree, on all filters of one or two patterns (MCRevise): the first pattern
that names a part decides; a match asks for what an update would leave alone;
an update of a part by its key (`update__resources__1__...`) changes the part it
names, by position, -1, beginning of an id or `extend`, and nothing else
(`KeyIsFollowed`).  Filters that the code takes in another way are exempt
(`Plain`, section 8).  The translation was compared with the Python functions
on the same 1482 filters.

**Changes [ch].**  `changes.py` compares two versions field by field into a list of
changes.  `ChangesAreTold` is a round trip: whoever applies the list to the old
version has the new one.  All pairs of versions that differ in one aspect, and
some that differ in all (`Pairs` in MCExtensions).
*Proved* for all pairs of versions and without any assumption
(`ListDoesTellChanges`): the kinds of changes are told apart by their type, so
what a reader picks from the list is just what one branch of the code wrote
(`ChCovers`, `ChKinds`), and each branch is right: a field that differs has one
entry with the new value, what was added and removed in one or in several is
the difference of the names (`ChExtrasRead`), a resource in both versions has
the changes of its fields (`ChFieldsOfResource`).  The invariant is that the
list is not there yet, is the error, or is the result of these two versions.

**Search [sq].**  The query that `package_search` assembles from the caller's and
its own conditions, the recursive-descent parser, and the compiled SQL with
its three truth values.  `FindsWhatIsAsked` compares it with a grammar - all
derivations of a token sequence - and two truth values: a search refuses
exactly what the grammar does not derive, finds nothing the user may not see or
the whole filter does not mean, and for a closed filter finds what matches it
and the defaults, all of it where no field is missing.  All token sequences up
to a length (MCSearch), as `q` and as `fq`, and the default options.  The
parser was compared with `lucene.py` on 25 303 queries.

**Validation [va].**  `validate`: data is flattened into a function of keys, what
the schema does not know becomes extras or junk, the validators of each key
run pass by pass, errors and data are nested again.  The validators are those
of `lib/navl` that handle missing and empty values.  `ValidatesInPlace` is a
metamorphic property: validating nested data is validating every item as a
document of its own - same data, errors at the same places, nothing given is
lost unless a rule drops it - and data with items that the schema would not
be applied to is never accepted.  A schema of two levels of lists with four
ways to treat unknown fields, and items that are full, empty, without a field
of their own, or emptied by a validator (MCValidation).  The translation was
compared with the Python functions on these inputs.

*Fairness* is assumed nowhere in sections 4 to 7: their properties are about
safety, requests may stop anywhere.  `CHECK_DEADLOCK FALSE` since calls are
bounded.

*Bounds.*  Requests are two or three, where a race of two and an observer
suffice: every action touches the rows of one resource, user, file or option,
and what goes wrong between two requests shows in the state they leave.
Counters (times, ids, versions) are bounded by constants named `Max...`.

## 8. What differs from the documentation

With a run and an entry under `findings`: JobsReuseOutcome, JobsEnqueueRace,
IndexDelete, IndexResource, IndexResent, AccessMove.

Without a run, but in the models (the place in the code in brackets):

- *Jobs.*  `job_cancel` deletes a started job's row too (`ckan/cli/jobs.py:115`
  says it cannot).  A started job without a time-out stays started when worker
  and horse die.
- *Index.*  A patch drops memberships committed while it was under way; after
  the race of IndexDelete a patch revives the deleted dataset; a rebuild that
  overlaps an update may leave the older document; a save that sends a
  `metadata_modified` and has not committed may be shown, and patched, as if it
  had (exempt as `Resent` and `Mistaken`, shown by IndexResent);
  `package_delete` by name keeps the memberships (delete.py:99).
- *Resources.*  An overtaken `package_update` copies by stale positions and may
  keep or delete other resources than were sent, or end in IndexError
  (model_save.py:110); gaps or ties in positions make later patches fail; an id
  given twice leaves one row at position 1; `resource_update` takes
  `datastore_active` from the row it loaded early (update.py:100).
- *Permissions.*  A dataset becomes private and unowned through `owner_org` ''
  (validators.py:911); an organization deleted by name keeps its member rows
  (delete.py:417); with `allow_admin_collaborators` off, an admin collaborator
  of before still manages collaborators (authz.py:478), which
  `doc/maintaining/authorization.rst:109` denies.
- *Members.*  Two overlapping requests leave two active rows;
  `group_member_save`'s dictionary by id and capacity keeps an active row when
  users=[] is saved (against test_update.py:457); two updates of the hierarchy
  that overlap close a loop.  Requests that write on what another has changed
  since they read are exempt (`torn` of Membership, `stale` of Hierarchy).
- *Key/value store.*  `expire` brings an expired key back (kvstore.py:117).
- *Invitations.*  The undoing after a failed mail is refused to an ordinary
  admin, and a pending member is left (create.py:1099); so is one whose request
  is cut (`adrift`).  Without a mail server no mail is sent and nobody is told
  (mailer.py:225), and a reset whose mail fails has taken the place of the key
  that was mailed before (`unsent`).
- *Sessions.*  A request with a remember cookie makes the session of its cookie a
  user's without a new id (`recalled`; views/user.py:553 knows this case), also
  one that was just logged out by a request that overlaps it.
- *Files.*  Two uploads of one location both pass the check; the one that loses
  leaves a file without a record, or a record of another file (`raced`, and `cut`
  when a request ends between its two writes).  A transfer of ownership acts on
  the row as it loaded it, although another has changed it or pinned the file
  since (`stale` of FileOwners).
- *DataPusher.*  A hook that comes before the answer of its submission, or is
  lost, leaves a task submitting or pending.  The plugin then skips every save
  (plugin.py:109); only a submission by hand, once the task is stale, ends it.
  A job submitted before the commit may read the resource before it, and the
  hook does not make that out: `last_modified` of an upload was taken before the
  job, the job was told the new link already, and where there is a
  `last_modified` a new link is not looked at (action.py:274).  The DataStore
  then keeps the old file with a task that is complete.
- *DataStore.*  An upsert does not renew `_full_text` (postgres.py:1341 against
  set_permissions.sql:76); an `_id` ahead of the sequence makes later inserts
  fail; `primary_key` on a column with an ordinary index is silently not
  created; `calculate_record_count` does not refresh a count that is there,
  and fails after a drop, which leaves `datastore_active` set.
- *Plugins.*  A thread that calls `get_action` while another fills the table
  finds a part of it, and two that fill it at once mix what they build
  (`mixed`); an observer that raises leaves a plugin in one register (`broken`).
- *Page views.*  Updates that overlap double rows, which stay once they are
  older than the window; a start date may leave days out for good ("overlap",
  "skipped"); an update whose rebuild fails says so and ends well (`failed`).
- *Mails.*  An activity that commits after the list was read is never mailed
  (`late`), nor one that a list had no room for (`cut`), nor one that is older
  than `ckan.email_notifications_since` when a run comes (`dropped`); a mail that
  fails ends the run for all users after it, and may be sent again (`again`).
- *Options.*  An admin's reset sets no stamp, so other processes keep the old
  options (admin.py:70); an exception in `reset` leaves the mutex locked
  (app_globals.py:203).
- *Changes.*  A field that goes from None to "" is told as removed; a change of
  organization fails for a version whose organization was deleted.
- *Search.*  `-field:*` finds no dataset without the field, since jsonb_typeof
  is NULL (compiler.py:295; against test_lucene.py:73); an OR at the top of a
  caller's `fq` takes the defaults for states and private datasets to one of
  its sides (get.py:1846; the permission labels still hold); `+state` without
  a colon makes the backend add `+state:active` (query.py:343).
- *Validation.*  An item `{}` counts as absent: its required fields are not asked
  for, and the errors and the data of later items move up
  (dictization_functions.py:126, :476).  Validators after one that raised
  Invalid still run, on the value as it was (dictization_functions.py:259).  An
  empty list given for a sub-schema becomes an unknown field
  (dictization_functions.py:203).
- *package_revise.*  Keys of `update__` are sorted by `s[0][-6]` (update.py:609).
  Patterns of a filter do not all do what the docstring says
  (dictization_functions.py:621): a `*` before the last key of a path is taken
  for the last (:637, :669), so that it clears or keeps more than was named; in
  lists `-1` names no item to remove; patterns into a list within an item are
  applied again with every later pattern (:693), on what is left; and an `id`
  that was removed hides its item from later patterns.  `Plain` exempts these.

## 9. What is proved, and what is only model-checked

Eight modules hold theorems: `JobQueue_proof`, `PackageIndex_proof`,
`Access_proof`, `KVStore_proof`, `Users_proof`, `Stores_proof`,
`Catalogue_proof` and `Services_proof`.  They prove every invariant and action
property of the runs JobsTime, IndexMixed, Access and Services, and those of
Extensions that are not about recursive operators, for every value of the
constants.

*Hypotheses.*  The named assumptions of the modules (`BoundsAssumption`,
`SlackAssumption`, `OpsAssumption`, `NobodyAssumption`, `ColsAssumption`,
`SettingsAssumption`), and for the parts of the groups a formula
`...ConstantsOK` each: bounds are numbers, and the constant that stands for
"no row", "no call" or "not given" is none of the values it is told from (for
PackageSave: it has no field `pc`).  Beyond that:

- Tracking counts visitors and needs finitely many of them;
- the listing of jobs needs finitely many ids;
- the configuration of Plugins names no plugin twice (`load` raises
  otherwise);
- PackageSave numbers new resources from 1, and has the ids for a list that is
  sent;
- `CallerIds = {}` (no caller chooses a job id) is the hypothesis of
  `OutcomesAreKept` and `QueueKeepsPromise`: with it, ids are not used again.
  What happens when they are is the violation of JobsReuseOutcome.

No bound is used as one: the proofs go through for every value of the `Max...`
constants.  Changes needs no hypothesis.

*Argument.*  Each component has an inductive invariant, named with its
theorems in sections 3 to 7.  TLC checked it on the instance of its run before it
was proved; a lemma for each action says that it keeps the invariant, and the
property follows from the invariant, or for an action property from the
invariant and the step.  A behaviour of Services is a behaviour of each of
its components, which runs or stands still (`Runs...`), so the theorems of a
component hold in Services (`Serves...`); all together give `ServesTypes`,
TypeOK of Services.

*Recursion.*  A recursive function of the models (the levels of the hierarchy,
a walk through a list, a sum over a set) is a CHOOSE of a solution to its
equation.  The proofs construct the solution step by step along the numbers and show
that there is just one; the induction is a lemma about sets of numbers
(`Induction`), which needs no operator parameter.

*What proving corrected.*  Two properties held on their instances and were
false: PowerIsGiven (section 5), and SessionsFollowLogins, which said that
a logged-out session is a user's again only through a request that was under
way at the logout - with a fourth request, one that comes later
can store what it loaded before the session expired and was stored empty.
Both say now what is true, and are proved.

*Only model-checked:*

- `JobsGetDone`, since liveness and ENABLED are beyond the prover;
- `RevisesAsAsked`, `FindsWhatIsAsked` and `ValidatesInPlace`: Revise, Search and
  Validation walk over trees and token sequences with recursive operators, and
  what these compute for every input is an induction over data;
- TypeOK of Extensions, which has these three among its parts.

The violations are TLC's, too.

Each property has a mutant: a plausible bug in a mapped definition, with
which TLC finds the property violated in the same run.

## 10. What is not modelled

`PROJECT.json` lists every component with what is left out.  In short:

- the *connection pool* (`ckan/model/meta.py`): a dataset write holds one
  connection and asks for a second one; SQLAlchemy's pool ends the wait with
  an error after 30 s, so there is load to measure but no deadlock to find;
- *tags, extras and relationships* as rows of their own (a column of `Cols`
  stands for any of them), several datasets in one request (`bulk_update_*`),
  `defer_commit`, plugins that veto or change a save;
- API tokens, views of resources, vocabularies, term translations, followers:
  single rows, written by one statement or one transaction each;
- the validators of `ckan/logic/validators.py` one by one: they look at a single
  value, or at the database, where the model of the action that calls them has
  the check (AccessMove, Hierarchy, PackageSave);
- ranges, phrases and free text of searches, sorting and facets; the count,
  the documents and the facets of a search are read in three transactions;
- web views, templates, helpers, command line, the declaration of options and
  most extensions: they render, parse and call the actions, and keep no
  shared state.

These last parts are most of the lines of the repository; the models cover
the parts where processes meet, about a tenth of it.
