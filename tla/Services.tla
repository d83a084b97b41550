---------------------------- MODULE Services --------------------------------
(***************************************************************************)
(* Components that share no state with each other, side by side.  The      *)
(* initial state chooses the one that runs (part), so that the state graph *)
(* is the sum of theirs and not the product.  Users and Stores hold the    *)
(* parts they name; the others are declared here, those whose theorems     *)
(* have a module of their own with them.                                   *)
(***************************************************************************)
EXTENDS Naturals, FiniteSets, Users, Stores

VARIABLE part  \* the component that runs

CONSTANTS KvKeys, KvCallers, KvTtls, KvMaxTime, KvMaxValue
VARIABLES kvRow, kvClock, kvCall
kv == <<kvRow, kvClock, kvCall>>
KV == INSTANCE KVStore_proof WITH
  Keys <- KvKeys, Callers <- KvCallers, Missing <- Nothing, Idle <- Nothing,
  Ttls <- KvTtls, MaxTime <- KvMaxTime, MaxValue <- KvMaxValue,
  row <- kvRow, clock <- kvClock, call <- kvCall

CONSTANTS PxRequests, PxOps, PxCols, PxGroups, PxMayFail, PxMaySend
VARIABLES
  pxOp, pxRow, pxGroups, pxDoc, pxLock, pxClock, pxSent, pxCommitted, pxPc,
  pxObj, pxDict, pxPlan, pxDirty, pxBuilt
px == <<
  pxOp, pxRow, pxGroups, pxDoc, pxLock, pxClock, pxSent, pxCommitted, pxPc,
  pxObj, pxDict, pxPlan, pxDirty, pxBuilt>>
PX == INSTANCE PackageIndex_proof WITH
  Requests <- PxRequests, Ops <- PxOps, Cols <- PxCols, Groups <- PxGroups,
  MayFail <- PxMayFail, MaySend <- PxMaySend, Nobody <- Nothing, op <- pxOp,
  row <- pxRow, groups <- pxGroups, doc <- pxDoc, lock <- pxLock,
  clock <- pxClock, sent <- pxSent, committed <- pxCommitted, pc <- pxPc,
  obj <- pxObj, dict <- pxDict, plan <- pxPlan, dirty <- pxDirty,
  built <- pxBuilt

all ==
  <<
    se, me, ac, no, fi, fo, up, dp, ds, cs, dt, kv, px>>

(* Every component but one stands still. *)
Only(name) == part = name /\ UNCHANGED part

Init ==
  /\ part \in {
       "se", "me", "ac", "no", "fi", "fo", "up", "dp", "ds", "cs", "dt",
       "kv", "px"}
  /\ SE!Init
  /\ ME!Init
  /\ AC!Init
  /\ NO!Init
  /\ FI!Init
  /\ FO!Init
  /\ UP!Init
  /\ DP!Init
  /\ DS!Init
  /\ CS!Init
  /\ DT!Init
  /\ KV!Init
  /\ IF part = "px" THEN TRUE ELSE pxOp = [r \in PxRequests |-> "rebuild"]
  /\ PX!Init

Next ==
  \/ Only("se") /\ SE!Next /\ UNCHANGED <<
       me, ac, no, fi, fo, up, dp, ds, cs, dt, kv, px>>
  \/ Only("me") /\ ME!Next /\ UNCHANGED <<
       se, ac, no, fi, fo, up, dp, ds, cs, dt, kv, px>>
  \/ Only("ac") /\ AC!Next /\ UNCHANGED <<
       se, me, no, fi, fo, up, dp, ds, cs, dt, kv, px>>
  \/ Only("no") /\ NO!Next /\ UNCHANGED <<
       se, me, ac, fi, fo, up, dp, ds, cs, dt, kv, px>>
  \/ Only("fi") /\ FI!Next /\ UNCHANGED <<
       se, me, ac, no, fo, up, dp, ds, cs, dt, kv, px>>
  \/ Only("fo") /\ FO!Next /\ UNCHANGED <<
       se, me, ac, no, fi, up, dp, ds, cs, dt, kv, px>>
  \/ Only("up") /\ UP!Next /\ UNCHANGED <<
       se, me, ac, no, fi, fo, dp, ds, cs, dt, kv, px>>
  \/ Only("dp") /\ DP!Next /\ UNCHANGED <<
       se, me, ac, no, fi, fo, up, ds, cs, dt, kv, px>>
  \/ Only("ds") /\ DS!Next /\ UNCHANGED <<
       se, me, ac, no, fi, fo, up, dp, cs, dt, kv, px>>
  \/ Only("cs") /\ CS!Next /\ UNCHANGED <<
       se, me, ac, no, fi, fo, up, dp, ds, dt, kv, px>>
  \/ Only("dt") /\ DT!Next /\ UNCHANGED <<
       se, me, ac, no, fi, fo, up, dp, ds, cs, kv, px>>
  \/ Only("kv") /\ KV!Next /\ UNCHANGED <<
       se, me, ac, no, fi, fo, up, dp, ds, cs, dt, px>>
  \/ Only("px") /\ PX!SerialNext /\ UNCHANGED <<
       se, me, ac, no, fi, fo, up, dp, ds, cs, dt, kv>>

Spec == Init /\ [][Next]_<<part, all>>

(* Every component is well typed. *)
TypeOK ==
  /\ part = "se" => SE!TypeOK
  /\ part = "me" => ME!TypeOK
  /\ part = "ac" => AC!TypeOK
  /\ part = "no" => NO!TypeOK
  /\ part = "fi" => FI!TypeOK
  /\ part = "fo" => FO!TypeOK
  /\ part = "up" => UP!TypeOK
  /\ part = "dp" => DP!TypeOK
  /\ part = "ds" => DS!TypeOK
  /\ part = "cs" => CS!TypeOK
  /\ part = "dt" => DT!TypeOK
  /\ part = "kv" => KV!TypeOK
  /\ part = "px" => PX!TypeOK

(* KVStore: The store keeps the promise of ExpiringMap whatever calls      *)
(* overlap and however long a statement waits after its caller looked at   *)
(* the clock.                                                              *)
ActsAsMap == KV!ActsAsMap

(* PackageIndex: A request that ends well leaves the index in agreement    *)
(* with the dataset, also when the index was left wrong by one that failed *)
(* before.                                                                 *)
SettledInSync == PX!SettledInSync
=============================================================================
