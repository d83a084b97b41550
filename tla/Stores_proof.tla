---------------------------- MODULE Stores_proof ----------------------------
(* The parts of Stores keep their invariants, for every value of the       *)
(* constants: one section for each, from its type invariant and inductive  *)
(* invariant to the property.                                              *)
EXTENDS Stores, Sequences, FiniteSetTheorems, TLAPS

-----------------------------------------------------------------------------
(* Files: the record of a file describes the file                          *)

FiPcs == {"upload", "analyze", "insert", "remove", "delete"}
FiRecord == [id : 1 .. FiMaxId, file : 1 .. FiMaxId]
FiCall == [pc : FiPcs, id : 1 .. FiMaxId, file : 1 .. FiMaxId \cup {Missing}]

\* Nothing is no number, no record and no request.
FiConstantsOK == FiMaxId \in Nat /\ Missing \notin Nat \cup FiRecord \cup FiCall

FiTyped ==
  /\ fiRecord \in FiRecord \cup {Missing}
  /\ fiStored \in 1 .. FiMaxId \cup {Missing}
  /\ fiMade \in 0 .. FiMaxId
  /\ fiCall \in [FiRequests -> FiCall \cup {Missing}]
  /\ fiRaced \in BOOLEAN /\ fiCut \in BOOLEAN

\* Only a request that has not analyzed its file yet has none in hand.
FiHasFile == \A r \in FI!Busy : fiCall[r].pc # "analyze" => fiCall[r].file # Missing

\* No id and no file is handed out twice.
FiHandedOut ==
  /\ fiRecord # Missing => fiRecord.id <= fiMade /\ fiRecord.file <= fiMade
  /\ fiStored # Missing => fiStored <= fiMade
  /\ \A r \in FI!Busy :
       /\ fiCall[r].id <= fiMade
       /\ fiCall[r].file # Missing => fiCall[r].file <= fiMade

\* Requests that are on their way to a record.
FiCreating(r) == r \in FI!Busy /\ fiCall[r].pc \in {"upload", "analyze", "insert"}

\* The id of a record to be is nobody else's.
FiOwnId ==
  \A r \in FiRequests : FiCreating(r) =>
    /\ \A s \in FI!Busy \ {r} : fiCall[s].id # fiCall[r].id
    /\ fiRecord # Missing => fiRecord.id # fiCall[r].id

\* The file of an upload to be is nobody else's, and not in the storage yet.
FiOwnFile ==
  \A r \in FiRequests : FI!At(r, "upload") =>
    /\ fiStored # fiCall[r].file
    /\ \A s \in FI!Busy \ {r} : fiCall[s].file # fiCall[r].file
    /\ fiRecord # Missing => fiRecord.file # fiCall[r].file

(* A deletion that is about to remove the file in the storage removes the  *)
(* file of the record it found.                                            *)
FiRemovesItsFile ==
  \A r \in FiRequests : FI!At(r, "remove") /\ fiStored = fiCall[r].file =>
    fiRecord # Missing /\ fiRecord.id = fiCall[r].id

\* The record of a deletion under way tells of a file that is gone.
FiDeletesGone ==
  \A r \in FiRequests :
    FI!At(r, "delete") /\ fiRecord # Missing /\ fiRecord.id = fiCall[r].id =>
      fiStored = Missing

\* A record without its file is about to be deleted.
FiRecordGoes ==
  fiRecord # Missing /\ fiStored # fiRecord.file =>
    \E r \in FiRequests : FI!At(r, "delete") /\ fiCall[r].id = fiRecord.id

\* A file without a record is about to get one.
FiRecordComes ==
  fiRecord = Missing /\ fiStored # Missing =>
    \E r \in FiRequests : FI!At(r, "insert") /\ fiCall[r].file = fiStored

FiFresh == FiHasFile /\ FiHandedOut /\ FiOwnId /\ FiOwnFile

FiMatch == FiRemovesItsFile /\ FiDeletesGone /\ FiRecordGoes /\ FiRecordComes

FiInv == FiTyped /\ FiFresh /\ (~fiCut /\ ~fiRaced => FiMatch)

-----------------------------------------------------------------------------
(* Steps of requests *)

\* What an assignment to the call of one request does.
LEMMA FiCallSet ==
  ASSUME FiTyped, NEW r \in FiRequests, NEW d \in FiCall \cup {Missing},
         fiCall' = [fiCall EXCEPT ![r] = d]
  PROVE  /\ fiCall' \in [FiRequests -> FiCall \cup {Missing}]
         /\ fiCall'[r] = d
         /\ \A s \in FiRequests \ {r} : fiCall'[s] = fiCall[s]
BY DEF FiTyped

\* A request under way has a call with a place, an id and perhaps a file.
LEMMA FiCallParts ==
  ASSUME FiConstantsOK, FiTyped, NEW r \in FiRequests
  PROVE  /\ r \in FI!Busy <=> fiCall[r] \in FiCall
         /\ r \in FI!Busy => fiCall[r].pc \in FiPcs /\ fiCall[r].id \in 1 .. FiMaxId
         /\ r \in FI!Busy => fiCall[r].file \in 1 .. FiMaxId \cup {Missing}
BY DEF FiConstantsOK, FiTyped, FI!Busy, FiCall

\* Ids and files that are in use have been handed out.
LEMMA FiHanded ==
  ASSUME FiConstantsOK, FiTyped, FiHandedOut
  PROVE  /\ \A s \in FI!Busy : /\ fiCall[s].id \in 1 .. fiMade
                               /\ fiCall[s].file \in 1 .. fiMade \cup {Missing}
         /\ fiRecord # Missing =>
              fiRecord.id \in 1 .. fiMade /\ fiRecord.file \in 1 .. fiMade
         /\ fiStored \in 1 .. fiMade \cup {Missing}
<1>1. \A s \in FiRequests : s \in FI!Busy =>
        fiCall[s].id \in 1 .. FiMaxId /\ fiCall[s].file \in 1 .. FiMaxId \cup {Missing}
  BY FiCallParts
<1>2. FI!Busy \subseteq FiRequests
  BY DEF FI!Busy
<1> QED BY <1>1, <1>2 DEF FiHandedOut, FiTyped, FiRecord, FiConstantsOK

\* At first there is nothing.
LEMMA FiInvInit == FiConstantsOK /\ FI!Init => FiInv
<1> SUFFICES ASSUME FiConstantsOK, FI!Init PROVE FiInv
  OBVIOUS
<1>1. FI!Busy = {} /\ \A r \in FiRequests : fiCall[r] = Missing
  BY DEF FI!Init, FI!Busy
<1>2. FiTyped
  <2>1. fiMade \in 0 .. FiMaxId
    BY DEF FiConstantsOK, FI!Init
  <2>2. fiCall \in [FiRequests -> FiCall \cup {Missing}]
    BY DEF FI!Init
  <2> QED BY <2>1, <2>2 DEF FI!Init, FiTyped
<1>3. FiFresh
  BY <1>1 DEF FI!Init, FiFresh, FiHasFile, FiHandedOut, FiOwnId, FiOwnFile,
       FiCreating, FI!At
<1>4. FiMatch
  BY <1>1 DEF FI!Init, FiMatch, FiRemovesItsFile, FiDeletesGone, FiRecordGoes,
              FiRecordComes, FI!At
<1> QED BY <1>2, <1>3, <1>4 DEF FiInv

(* A request that starts with the next id, and the next file or none, is   *)
(* on its way to a record that nobody else has.                            *)
LEMMA FiLookInv ==
  ASSUME FiConstantsOK, FiInv, NEW r \in FiRequests,
         FI!LookForCreate(r) \/ FI!LookForRegister(r)
  PROVE  FiInv'
<1>1. PICK d \in FiCall :
        /\ d = [pc |-> "upload", id |-> fiMade + 1, file |-> fiMade + 1]
           \/ d = [pc |-> "analyze", id |-> fiMade + 1, file |-> Missing]
        /\ fiCall' = [fiCall EXCEPT ![r] = d]
  BY DEF FI!LookForCreate, FI!LookForRegister, FI!Start, FiInv, FiTyped,
       FiConstantsOK, FiCall,
         FiPcs
<1>2. /\ fiCall[r] = Missing /\ fiMade' = fiMade + 1 /\ fiMade \in Nat
      /\ fiRecord' = fiRecord /\ fiStored' = fiStored
      /\ fiRaced' = fiRaced /\ fiCut' = fiCut
  BY DEF FI!LookForCreate, FI!LookForRegister, FiInv, FiTyped
<1>3. FiTyped'
  BY <1>1, FiCallSet DEF FI!LookForCreate, FI!LookForRegister, FiInv, FiTyped,
       FiConstantsOK
<1>4. /\ fiCall'[r] = d /\ r \in FI!Busy' /\ FI!Busy' \ {r} = FI!Busy
      /\ \A s \in FiRequests \ {r} : fiCall'[s] = fiCall[s]
  BY <1>1, <1>2, FiCallSet DEF FI!Busy, FiInv, FiConstantsOK
<1>5. /\ \A s \in FI!Busy : /\ fiCall[s].id \in 1 .. fiMade
                            /\ fiCall[s].file \in 1 .. fiMade \cup {Missing}
      /\ fiRecord # Missing => fiRecord.id \in 1 .. fiMade /\ fiRecord.file \in 1 .. fiMade
      /\ fiStored \in 1 .. fiMade \cup {Missing}
  BY FiHanded DEF FiInv, FiFresh
<1>6. (FiHasFile /\ FiHandedOut)'
  BY <1>1, <1>2, <1>4, <1>5 DEF FiInv, FiFresh, FiHasFile, FiHandedOut,
       FiConstantsOK
<1>7. FiOwnId'
  BY <1>1, <1>2, <1>4, <1>5 DEF FiInv, FiFresh, FiOwnId, FiCreating,
       FiConstantsOK
<1>8. FiOwnFile'
  <2> SUFFICES ASSUME NEW s \in FiRequests, FI!At(s, "upload")'
               PROVE  /\ fiStored # fiCall'[s].file
                      /\ \A t \in FI!Busy' \ {s} : fiCall'[t].file # fiCall'[s].file
                      /\ fiRecord # Missing => fiRecord.file # fiCall'[s].file
    BY <1>2 DEF FiOwnFile
  <2> QED BY <1>1, <1>2, <1>4, <1>5
          DEF FiInv, FiFresh, FiOwnFile, FiHasFile, FI!Busy, FI!At, FiConstantsOK
<1>9. ~fiCut /\ ~fiRaced /\ FiMatch => FiMatch'
  BY <1>1, <1>2, <1>4
     DEF FiMatch, FiRemovesItsFile, FiDeletesGone, FiRecordGoes, FiRecordComes, FI!At
<1> QED BY <1>2, <1>3, <1>6, <1>7, <1>8, <1>9 DEF FiInv, FiFresh


(* A request that ends leaves the ids and files of the others as they are, *)
(* also when its own become the record's, or the record goes.              *)
LEMMA FiEndFresh ==
  ASSUME FiConstantsOK, FiInv, NEW r \in FiRequests, FI!End(r),
         UNCHANGED <<fiStored, fiMade>>,
         \/ fiRecord' \in {fiRecord, Missing}
         \/ /\ FI!At(r, "insert")
            /\ fiRecord' = [id |-> fiCall[r].id, file |-> fiCall[r].file]
  PROVE  /\ FiFresh' /\ r \notin FI!Busy' /\ FI!Busy' = FI!Busy \ {r}
         /\ fiCall' \in [FiRequests -> FiCall \cup {Missing}]
         /\ \A s \in FiRequests \ {r} : fiCall'[s] = fiCall[s]
         /\ fiCall'[r] = Missing
         /\ fiRecord' \in FiRecord \cup {Missing}
<1>1. /\ fiCall' \in [FiRequests -> FiCall \cup {Missing}]
      /\ \A s \in FiRequests \ {r} : fiCall'[s] = fiCall[s]
      /\ fiCall'[r] = Missing
  BY FiCallSet DEF FI!End, FiInv
<1>2. FI!Busy' = FI!Busy \ {r} /\ FI!Busy \subseteq FiRequests
  BY <1>1 DEF FI!Busy
<1>3. /\ FI!At(r, "insert") => r \in FI!Busy
      /\ FI!At(r, "insert") => fiCall[r].id \in 1 .. fiMade /\ fiCall[r].file \in 1 .. fiMade
      /\ fiMade \in 0 .. FiMaxId
  BY FiHanded DEF FiInv, FiFresh, FiHasFile, FI!At, FI!Busy, FiTyped
<1>4. fiRecord' \in FiRecord \cup {Missing}
  BY <1>3 DEF FiInv, FiTyped, FiRecord, FiConstantsOK
<1>5. (FiHasFile /\ FiHandedOut)'
  BY <1>1, <1>2, <1>3 DEF FiInv, FiFresh, FiHasFile, FiHandedOut
<1>6. FiOwnId'
  BY <1>1, <1>2, <1>3 DEF FiInv, FiFresh, FiOwnId, FiCreating
<1>7. FiOwnFile'
  <2> SUFFICES ASSUME NEW s \in FiRequests, FI!At(s, "upload")'
               PROVE  /\ fiStored # fiCall'[s].file
                      /\ \A t \in FI!Busy' \ {s} : fiCall'[t].file # fiCall'[s].file
                      /\ fiRecord' # Missing => fiRecord'.file # fiCall'[s].file
    BY DEF FiOwnFile
  <2>1. s # r /\ FI!At(s, "upload") /\ fiCall'[s] = fiCall[s]
    BY <1>1 DEF FI!At
  <2> QED BY <1>1, <1>2, <1>3, <2>1 DEF FiInv, FiFresh, FiOwnFile
<1> QED BY <1>1, <1>2, <1>4, <1>5, <1>6, <1>7 DEF FiFresh

(* A request that goes on with its id, with its file or the one in the     *)
(* storage, leaves the ids and files of the others as they are.            *)
LEMMA FiMoveFresh ==
  ASSUME FiConstantsOK, FiInv, NEW r \in FI!Busy, NEW d \in FiCall,
         fiCall' = [fiCall EXCEPT ![r] = d], UNCHANGED <<fiRecord, fiMade>>,
         fiStored' = fiStored \/ fiStored' = Missing,
         d.id = fiCall[r].id, d.file # Missing,
         d.file = fiCall[r].file \/ d.file = fiStored,
         d.pc = "delete" \/ (d.pc = "insert" /\ fiCall[r].pc = "analyze")
  PROVE  /\ FiFresh' /\ FI!Busy' = FI!Busy
         /\ fiCall' \in [FiRequests -> FiCall \cup {Missing}]
         /\ \A s \in FiRequests \ {r} : fiCall'[s] = fiCall[s]
         /\ fiCall'[r] = d
<1>1. r \in FiRequests /\ FI!Busy \subseteq FiRequests
  BY DEF FI!Busy
<1>2. /\ fiCall' \in [FiRequests -> FiCall \cup {Missing}]
      /\ \A s \in FiRequests \ {r} : fiCall'[s] = fiCall[s]
      /\ fiCall'[r] = d
  BY <1>1, FiCallSet DEF FiInv
<1>3. FI!Busy' = FI!Busy
  BY <1>1, <1>2 DEF FI!Busy, FiConstantsOK
<1>4. (FiHasFile /\ FiHandedOut)'
  BY <1>1, <1>2, <1>3 DEF FiInv, FiFresh, FiHasFile, FiHandedOut
<1>5. FiOwnId'
  BY <1>1, <1>2, <1>3 DEF FiInv, FiFresh, FiOwnId, FiCreating
<1>6. FiOwnFile'
  <2> SUFFICES ASSUME NEW s \in FiRequests, FI!At(s, "upload")'
               PROVE  /\ fiStored' # fiCall'[s].file
                      /\ \A t \in FI!Busy' \ {s} : fiCall'[t].file # fiCall'[s].file
                      /\ fiRecord # Missing => fiRecord.file # fiCall'[s].file
    BY DEF FiOwnFile
  <2>1. s # r /\ FI!At(s, "upload") /\ fiCall'[s] = fiCall[s] /\ s \in FI!Busy
    BY <1>1, <1>2 DEF FI!At, FI!Busy
  <2>2. fiCall[s].file # Missing
    BY <2>1 DEF FI!At, FiInv, FiFresh, FiHasFile
  <2> QED BY <1>1, <1>2, <1>3, <2>1, <2>2 DEF FiInv, FiFresh, FiOwnFile
<1> QED BY <1>2, <1>3, <1>4, <1>5, <1>6 DEF FiFresh

(* An upload onto nothing, of a file that nobody else has in hand, leaves  *)
(* a request on its way to the record of that file.                        *)
LEMMA FiUploadInv ==
  ASSUME FiConstantsOK, FiInv, NEW r \in FiRequests, FI!Upload(r)
  PROVE  FiInv'
<1>1. CASE fiStored # Missing /\ ~FiOverrides
  <2>1. FI!End(r) /\ UNCHANGED <<fiRecord, fiStored, fiMade, fiRaced, fiCut>>
    BY <1>1 DEF FI!Upload, FiInv, FiTyped
  <2>2. FiTyped' /\ FiFresh'
    BY <2>1, FiEndFresh DEF FiInv, FiTyped
  <2>3. ~fiCut /\ ~fiRaced /\ FiMatch => FiMatch'
    BY <2>1, FiEndFresh DEF FI!Upload, FI!At, FiMatch, FiRemovesItsFile,
         FiDeletesGone,
                          FiRecordGoes, FiRecordComes
  <2> QED BY <2>1, <2>2, <2>3 DEF FiInv
<1>2. CASE ~(fiStored # Missing /\ ~FiOverrides)
  <2>1. /\ fiCall[r] \in FiCall /\ fiCall[r].pc = "upload" /\ r \in FI!Busy
        /\ fiCall[r].file \in 1 .. fiMade /\ fiCall[r].id \in 1 .. fiMade
    <3>1. fiCall[r] \in FiCall /\ fiCall[r].pc = "upload" /\ r \in FI!Busy
      BY FiCallParts DEF FI!Upload, FI!At, FiInv, FI!Busy
    <3> QED BY <3>1, FiHanded DEF FiInv, FiFresh, FiHasFile
  <2>2. PICK d \in FiCall :
          /\ fiCall' = [fiCall EXCEPT ![r] = d]
          /\ d.pc = "insert" /\ d.id = fiCall[r].id /\ d.file = fiCall[r].file
    BY <1>2, <2>1 DEF FI!Upload, FI!Go, FiCall, FiPcs
  <2>3. /\ fiStored' = fiCall[r].file /\ fiRecord' = fiRecord /\ fiMade' = fiMade
        /\ fiCut' = fiCut
        /\ ~fiRaced' => ~fiRaced /\ fiRecord = Missing /\ fiStored = Missing
    <3>1. fiStored' = fiCall[r].file /\ fiRecord' = fiRecord /\ fiMade' = fiMade /\ fiCut' = fiCut
      BY <1>2 DEF FI!Upload
    <3>2. fiStored' # fiStored
      BY <3>1, <2>1 DEF FI!Upload, FiInv, FiFresh, FiOwnFile
    <3> QED BY <3>1, <3>2 DEF FI!Upload
  <2>4. /\ fiCall' \in [FiRequests -> FiCall \cup {Missing}]
        /\ fiCall'[r] = d /\ FI!Busy' = FI!Busy /\ FI!Busy \subseteq FiRequests
        /\ \A s \in FiRequests \ {r} : fiCall'[s] = fiCall[s]
    <3>1. /\ fiCall' \in [FiRequests -> FiCall \cup {Missing}]
          /\ fiCall'[r] = d
          /\ \A s \in FiRequests \ {r} : fiCall'[s] = fiCall[s]
      BY <2>2, FiCallSet DEF FiInv
    <3> QED BY <2>1, <2>2, <3>1 DEF FI!Busy, FiConstantsOK
  <2>5. FiTyped'
    BY <2>1, <2>3, <2>4 DEF FI!Upload, FiInv, FiTyped, FiConstantsOK
  <2>6. (FiHasFile /\ FiHandedOut)'
    BY <2>1, <2>2, <2>3, <2>4 DEF FiInv, FiFresh, FiHasFile, FiHandedOut
  <2>7. FiOwnId'
    BY <2>1, <2>2, <2>3, <2>4 DEF FiInv, FiFresh, FiOwnId, FiCreating
  <2>8. FiOwnFile'
    BY <2>1, <2>2, <2>3, <2>4 DEF FI!Upload, FiInv, FiFresh, FiOwnFile, FI!At,
         FI!Busy
  <2>9. ~fiCut' /\ ~fiRaced' /\ FiMatch => FiMatch'
    <3> SUFFICES ASSUME ~fiCut', ~fiRaced', FiMatch PROVE FiMatch'
      OBVIOUS
    <3>1. FiRemovesItsFile'
      BY <2>1, <2>2, <2>3, <2>4 DEF FiRemovesItsFile, FI!At, FI!Busy,
           FI!Upload, FiInv, FiFresh, FiOwnFile
    <3>2. (FiDeletesGone /\ FiRecordGoes)'
      BY <2>3 DEF FiDeletesGone, FiRecordGoes
    <3>3. FiRecordComes'
      BY <2>2, <2>3, <2>4, <2>1 DEF FiRecordComes, FI!At, FiConstantsOK
    <3> QED BY <3>1, <3>2, <3>3 DEF FiMatch
  <2> QED BY <2>3, <2>5, <2>6, <2>7, <2>8, <2>9 DEF FiInv, FiFresh
<1> QED BY <1>1, <1>2


\* A request that finds the file in the storage has that file in hand.
LEMMA FiAnalyzeInv ==
  ASSUME FiConstantsOK, FiInv, NEW r \in FiRequests, FI!Analyze(r)
  PROVE  FiInv'
<1>0. UNCHANGED <<fiRecord, fiStored, fiMade, fiRaced, fiCut>>
  BY DEF FI!Analyze
<1>1. CASE fiStored = Missing
  <2>1. FI!End(r)
    BY <1>1 DEF FI!Analyze
  <2>2. FiTyped' /\ FiFresh'
    BY <1>0, <2>1, FiEndFresh DEF FiInv, FiTyped
  <2>3. ~fiCut /\ ~fiRaced /\ FiMatch => FiMatch'
    BY <1>0, <2>1, FiEndFresh
       DEF FI!Analyze, FI!At, FiMatch, FiRemovesItsFile, FiDeletesGone, FiRecordGoes,
           FiRecordComes
  <2> QED BY <1>0, <2>2, <2>3 DEF FiInv
<1>2. CASE fiStored # Missing
  <2>1. fiCall[r] \in FiCall /\ fiCall[r].pc = "analyze" /\ r \in FI!Busy
    BY FiCallParts DEF FI!Analyze, FI!At, FiInv, FI!Busy
  <2>2. PICK d \in FiCall :
          /\ fiCall' = [fiCall EXCEPT ![r] = d]
          /\ d.pc = "insert" /\ d.id = fiCall[r].id /\ d.file = fiStored
    BY <1>2, <2>1 DEF FI!Analyze, FiCall, FiPcs, FiInv, FiTyped
  <2>3. /\ FiFresh' /\ FI!Busy' = FI!Busy
        /\ fiCall' \in [FiRequests -> FiCall \cup {Missing}]
        /\ \A s \in FiRequests \ {r} : fiCall'[s] = fiCall[s]
        /\ fiCall'[r] = d
    BY <1>0, <1>2, <2>1, <2>2, FiMoveFresh
  <2>4. FiTyped'
    BY <1>0, <2>3 DEF FiInv, FiTyped
  <2>5. ~fiCut /\ ~fiRaced /\ FiMatch => FiMatch'
    BY <1>0, <2>1, <2>2, <2>3
       DEF FI!At, FiMatch, FiRemovesItsFile, FiDeletesGone, FiRecordGoes, FiRecordComes
  <2> QED BY <1>0, <2>3, <2>4, <2>5 DEF FiInv
<1> QED BY <1>1, <1>2

(* The record of a file is made while its file is in the storage, or what  *)
(* is known of the match of the two is lost.                               *)
LEMMA FiInsertInv ==
  ASSUME FiConstantsOK, FiInv, NEW r \in FiRequests, FI!Insert(r)
  PROVE  FiInv'
<1>1. /\ FI!At(r, "insert") /\ FI!End(r) /\ UNCHANGED <<fiStored, fiMade, fiCut>>
      /\ fiRecord' = IF fiRecord # Missing THEN fiRecord
                   ELSE [id |-> fiCall[r].id, file |-> fiCall[r].file]
      /\ fiRaced' = (fiRaced \/ fiStored # fiCall[r].file)
  BY DEF FI!Insert
<1>2. /\ FiFresh' /\ r \notin FI!Busy' /\ FI!Busy' = FI!Busy \ {r}
      /\ fiCall' \in [FiRequests -> FiCall \cup {Missing}]
      /\ \A s \in FiRequests \ {r} : fiCall'[s] = fiCall[s]
      /\ fiCall'[r] = Missing
      /\ fiRecord' \in FiRecord \cup {Missing}
  BY <1>1, FiEndFresh
<1>3. FiTyped'
  BY <1>1, <1>2 DEF FiInv, FiTyped
<1>4. /\ fiRecord' # Missing
      /\ \/ fiRecord' = fiRecord
         \/ /\ fiRecord = Missing
            /\ fiRecord'.id = fiCall[r].id /\ fiRecord'.file = fiCall[r].file
  <2>1. r \in FI!Busy
    BY <1>1 DEF FI!At, FI!Busy
  <2>2. fiCall[r].id \in 1 .. fiMade /\ fiCall[r].file \in 1 .. fiMade /\ fiMade \in 0 .. FiMaxId
    BY <1>1, <2>1, FiHanded DEF FiInv, FiFresh, FiHasFile, FI!At, FiTyped
  <2>3. [id |-> fiCall[r].id, file |-> fiCall[r].file] \in FiRecord
    BY <2>2 DEF FiRecord, FiConstantsOK
  <2> QED BY <1>1, <2>3 DEF FiConstantsOK
<1>5. ASSUME ~fiCut', ~fiRaced', FiMatch PROVE FiMatch'
  <2>1. fiStored = fiCall[r].file /\ ~fiCut /\ ~fiRaced
    BY <1>1, <1>5 DEF FiInv, FiTyped
  <2>2. FiRemovesItsFile'
    BY <1>1, <1>2, <1>4, <1>5, <2>1 DEF FiMatch, FiRemovesItsFile, FI!At
  <2>3. FiDeletesGone'
    <3> SUFFICES ASSUME NEW s \in FiRequests, FI!At(s, "delete")',
                        fiRecord'.id = fiCall'[s].id
                 PROVE  fiStored' = Missing
      BY DEF FiDeletesGone
    <3>1. s # r /\ FI!At(s, "delete") /\ fiCall'[s] = fiCall[s] /\ s \in FI!Busy
      BY <1>2 DEF FI!At, FI!Busy
    <3>2. fiRecord' = fiRecord
      BY <1>1, <1>4, <3>1 DEF FiInv, FiFresh, FiOwnId, FiCreating, FI!At,
           FI!Busy
    <3> QED BY <1>1, <1>4, <1>5, <3>1, <3>2 DEF FiMatch, FiDeletesGone
  <2>4. FiRecordGoes'
    BY <1>1, <1>2, <1>4, <1>5, <2>1 DEF FiMatch, FiRecordGoes, FI!At
  <2>5. FiRecordComes'
    BY <1>4 DEF FiRecordComes
  <2> QED BY <2>2, <2>3, <2>4, <2>5 DEF FiMatch
<1>6. ~fiCut' /\ ~fiRaced' => ~fiCut /\ ~fiRaced
  BY <1>1
<1> QED BY <1>2, <1>3, <1>5, <1>6 DEF FiInv


\* A deletion has the id and the file of the record in hand.
LEMMA FiLookForDeleteInv ==
  ASSUME FiConstantsOK, FiInv, NEW r \in FiRequests, FI!LookForDelete(r)
  PROVE  FiInv'
<1>1. /\ fiCall[r] = Missing /\ fiRecord # Missing
      /\ UNCHANGED <<fiRecord, fiStored, fiMade, fiRaced, fiCut>>
  BY DEF FI!LookForDelete
<1>2. PICK d \in FiCall :
        /\ fiCall' = [fiCall EXCEPT ![r] = d]
        /\ d.pc = "remove" /\ d.id = fiRecord.id /\ d.file = fiRecord.file
  <2>1. fiRecord.id \in 1 .. FiMaxId /\ fiRecord.file \in 1 .. FiMaxId
    BY <1>1 DEF FiInv, FiTyped, FiRecord
  <2>2. [pc |-> "remove", id |-> fiRecord.id, file |-> fiRecord.file] \in FiCall
    BY <2>1 DEF FiCall, FiPcs
  <2> QED BY <2>2 DEF FI!LookForDelete, FI!Start
<1>3. /\ fiCall' \in [FiRequests -> FiCall \cup {Missing}]
      /\ fiCall'[r] = d
      /\ \A s \in FiRequests \ {r} : fiCall'[s] = fiCall[s]
  BY <1>2, FiCallSet DEF FiInv
<1>4. /\ r \notin FI!Busy /\ FI!Busy' = FI!Busy \cup {r} /\ FI!Busy \subseteq FiRequests
      /\ fiRecord.id \in Nat /\ fiRecord.file \in Nat
  BY <1>1, <1>3 DEF FI!Busy, FiConstantsOK, FiInv, FiTyped, FiRecord
<1>5. FiTyped'
  BY <1>1, <1>3 DEF FiInv, FiTyped
<1>6. (FiHasFile /\ FiHandedOut)'
  BY <1>1, <1>2, <1>3, <1>4 DEF FiInv, FiFresh, FiHasFile, FiHandedOut,
       FiConstantsOK
<1>7. FiOwnId'
  BY <1>1, <1>2, <1>3, <1>4 DEF FiInv, FiFresh, FiOwnId, FiCreating
<1>8. FiOwnFile'
  <2> SUFFICES ASSUME NEW s \in FiRequests, FI!At(s, "upload")'
               PROVE  /\ fiStored # fiCall'[s].file
                      /\ \A t \in FI!Busy' \ {s} : fiCall'[t].file # fiCall'[s].file
                      /\ fiRecord.file # fiCall'[s].file
    BY <1>1 DEF FiOwnFile
  <2>1. s # r /\ FI!At(s, "upload") /\ fiCall'[s] = fiCall[s]
    BY <1>2, <1>3 DEF FI!At
  <2> QED BY <1>1, <1>2, <1>3, <1>4, <2>1 DEF FiInv, FiFresh, FiOwnFile
<1>9. ~fiCut /\ ~fiRaced /\ FiMatch => FiMatch'
  BY <1>1, <1>2, <1>3
     DEF FI!At, FiMatch, FiRemovesItsFile, FiDeletesGone, FiRecordGoes, FiRecordComes
<1> QED BY <1>1, <1>5, <1>6, <1>7, <1>8, <1>9 DEF FiInv, FiFresh

(* A deletion removes its own file, and then the record of it is the one   *)
(* it goes on to delete.                                                   *)
LEMMA FiRemoveInv ==
  ASSUME FiConstantsOK, FiInv, NEW r \in FiRequests, FI!Remove(r)
  PROVE  FiInv'
<1>0. /\ FI!At(r, "remove") /\ UNCHANGED <<fiRecord, fiMade, fiCut>>
      /\ fiRaced' = (fiRaced \/ (fiStored' # fiStored /\ fiStored # fiCall[r].file))
  BY DEF FI!Remove
<1>1. CASE fiStored # Missing /\ UNCHANGED fiStored /\ FI!End(r)
  <2>1. FiTyped' /\ FiFresh'
    BY <1>0, <1>1, FiEndFresh DEF FiInv, FiTyped
  <2>2. ~fiCut /\ ~fiRaced /\ FiMatch => FiMatch'
    BY <1>0, <1>1, FiEndFresh
       DEF FI!At, FiMatch, FiRemovesItsFile, FiDeletesGone, FiRecordGoes, FiRecordComes
  <2> QED BY <1>0, <1>1, <2>1, <2>2 DEF FiInv
<1>2. CASE fiStored' = Missing /\ FI!Go(r, "delete")
  <2>1. fiCall[r] \in FiCall /\ fiCall[r].pc = "remove" /\ r \in FI!Busy
    BY <1>0, FiCallParts DEF FI!At, FiInv, FI!Busy
  <2>2. PICK d \in FiCall :
          /\ fiCall' = [fiCall EXCEPT ![r] = d]
          /\ d.pc = "delete" /\ d.id = fiCall[r].id /\ d.file = fiCall[r].file
    <3> DEFINE e == [fiCall[r] EXCEPT !.pc = "delete"]
    <3>1. e \in FiCall /\ e.pc = "delete" /\ e.id = fiCall[r].id /\ e.file = fiCall[r].file
      BY <2>1 DEF FiCall, FiPcs
    <3>2. fiCall' = [fiCall EXCEPT ![r] = e]
      BY <1>2 DEF FI!Go
    <3> QED BY <3>1, <3>2
  <2>3. fiCall[r].file # Missing
    BY <2>1 DEF FiInv, FiFresh, FiHasFile
  <2>4. /\ FiFresh' /\ FI!Busy' = FI!Busy
        /\ fiCall' \in [FiRequests -> FiCall \cup {Missing}]
        /\ \A s \in FiRequests \ {r} : fiCall'[s] = fiCall[s]
        /\ fiCall'[r] = d
    <3>1. (fiStored' = fiStored \/ fiStored' = Missing) /\ UNCHANGED <<fiRecord, fiMade>>
      BY <1>0, <1>2
    <3> QED BY <2>1, <2>2, <2>3, <3>1, FiMoveFresh
  <2>5. FiTyped'
    BY <1>0, <1>2, <2>4 DEF FiInv, FiTyped
  <2>6. ASSUME ~fiCut', ~fiRaced', FiMatch PROVE FiMatch'
    <3>1. ~fiCut /\ ~fiRaced /\ (fiStored = Missing \/ fiStored = fiCall[r].file)
      BY <1>0, <1>2, <2>6 DEF FiInv, FiTyped
    <3>2. (FiRemovesItsFile /\ FiDeletesGone /\ FiRecordComes)'
      <4>1. FiRemovesItsFile'
        <5> SUFFICES ASSUME NEW s \in FiRequests, FI!At(s, "remove")',
                            fiCall'[s].file = Missing
                     PROVE  FALSE
          BY <1>2 DEF FiRemovesItsFile
        <5> QED BY <2>4 DEF FiFresh, FiHasFile, FI!At, FI!Busy
      <4> QED BY <1>2, <4>1 DEF FiDeletesGone, FiRecordComes
    <3>3. FiRecordGoes'
      <4> SUFFICES ASSUME fiRecord # Missing
                   PROVE  \E s \in FiRequests :
                            FI!At(s, "delete")' /\ fiCall'[s].id = fiRecord.id
        BY <1>0 DEF FiRecordGoes
      <4>1. CASE fiStored = Missing
        <5>1. fiStored # fiRecord.file
          BY <4>1 DEF FiInv, FiTyped, FiRecord, FiConstantsOK
        <5>2. PICK s \in FiRequests : FI!At(s, "delete") /\ fiCall[s].id = fiRecord.id
          BY <2>6, <5>1 DEF FiMatch, FiRecordGoes
        <5> QED BY <2>1, <2>4, <5>2 DEF FI!At
      <4>2. CASE fiStored = fiCall[r].file
        <5>1. fiRecord.id = fiCall[r].id
          BY <1>0, <2>6, <4>2 DEF FiMatch, FiRemovesItsFile
        <5> QED BY <2>2, <2>4, <5>1 DEF FI!At, FiConstantsOK
      <4> QED BY <3>1, <4>1, <4>2
    <3> QED BY <3>2, <3>3 DEF FiMatch
  <2>7. ~fiCut' /\ ~fiRaced' => ~fiCut /\ ~fiRaced
    BY <1>0
  <2> QED BY <2>4, <2>5, <2>6, <2>7 DEF FiInv
<1> QED BY <1>1, <1>2 DEF FI!Remove

\* The record that goes is one whose file is gone.
LEMMA FiDeleteInv ==
  ASSUME FiConstantsOK, FiInv, NEW r \in FiRequests, FI!Delete(r)
  PROVE  FiInv'
<1>1. /\ FI!At(r, "delete") /\ FI!End(r) /\ UNCHANGED <<fiStored, fiMade, fiRaced, fiCut>>
      /\ \/ fiRecord' = fiRecord /\ (fiRecord # Missing => fiRecord.id # fiCall[r].id)
         \/ fiRecord # Missing /\ fiRecord.id = fiCall[r].id /\ fiRecord' = Missing
  BY DEF FI!Delete
<1>2. /\ FiFresh' /\ FI!Busy' = FI!Busy \ {r}
      /\ fiCall' \in [FiRequests -> FiCall \cup {Missing}]
      /\ \A s \in FiRequests \ {r} : fiCall'[s] = fiCall[s]
      /\ fiCall'[r] = Missing
  BY <1>1, FiEndFresh
<1>3. FiTyped'
  BY <1>1, <1>2 DEF FiInv, FiTyped
<1>4. ASSUME ~fiCut, ~fiRaced, FiMatch PROVE FiMatch'
  <2>1. CASE fiRecord' = fiRecord /\ (fiRecord # Missing => fiRecord.id # fiCall[r].id)
    BY <1>1, <1>2, <1>4, <2>1
       DEF FI!At, FiMatch, FiRemovesItsFile, FiDeletesGone, FiRecordGoes, FiRecordComes
  <2>2. CASE fiRecord # Missing /\ fiRecord.id = fiCall[r].id /\ fiRecord' = Missing
    <3>1. fiStored = Missing
      BY <1>1, <1>4, <2>2 DEF FiMatch, FiDeletesGone
    <3>2. FiRemovesItsFile'
      BY <1>1, <1>2, <3>1 DEF FiRemovesItsFile, FI!At, FiFresh, FiHasFile,
           FI!Busy
    <3> QED BY <1>1, <2>2, <3>1, <3>2 DEF FiMatch, FiDeletesGone,
         FiRecordGoes, FiRecordComes
  <2> QED BY <1>1, <2>1, <2>2
<1> QED BY <1>1, <1>2, <1>3, <1>4 DEF FiInv

\* A request that has not touched the storage may stop.
LEMMA FiStopInv ==
  ASSUME FiConstantsOK, FiInv, NEW r \in FiRequests, FI!Stop(r)
  PROVE  FiInv'
<1>1. /\ FI!End(r) /\ UNCHANGED <<fiRecord, fiStored, fiMade, fiRaced>>
      /\ fiCall[r] # Missing
      /\ fiCut' = (fiCut \/ fiCall[r].pc \in {"insert", "delete"})
  BY DEF FI!Stop
<1>2. /\ FiFresh' /\ FI!Busy' = FI!Busy \ {r}
      /\ fiCall' \in [FiRequests -> FiCall \cup {Missing}]
      /\ \A s \in FiRequests \ {r} : fiCall'[s] = fiCall[s]
      /\ fiCall'[r] = Missing
  BY <1>1, FiEndFresh
<1>3. FiTyped'
  BY <1>1, <1>2 DEF FiInv, FiTyped
<1>4. ~fiCut' /\ ~fiRaced /\ FiMatch => FiMatch'
  BY <1>1, <1>2
     DEF FI!At, FiMatch, FiRemovesItsFile, FiDeletesGone, FiRecordGoes, FiRecordComes
<1>5. ~fiCut' => ~fiCut
  BY <1>1
<1> QED BY <1>1, <1>2, <1>3, <1>4, <1>5 DEF FiInv

\* No step of a request breaks the invariant.
LEMMA FiInvNext == FiConstantsOK /\ FiInv /\ [FI!Next]_(FI!vars) => FiInv'
<1> SUFFICES ASSUME FiConstantsOK, FiInv, [FI!Next]_(FI!vars) PROVE FiInv'
  OBVIOUS
<1>1. CASE UNCHANGED FI!vars
  BY <1>1 DEF FI!vars, FiInv, FiTyped, FiFresh, FiMatch, FiHasFile,
       FiHandedOut, FiOwnId,
              FiOwnFile, FiRemovesItsFile, FiDeletesGone, FiRecordGoes, FiRecordComes,
              FiCreating, FI!At, FI!Busy
<1>2. CASE FI!Next
  BY <1>2, FiLookInv, FiUploadInv, FiAnalyzeInv, FiInsertInv,
       FiLookForDeleteInv,
     FiRemoveInv, FiDeleteInv, FiStopInv DEF FI!Next
<1> QED BY <1>1, <1>2

\* The invariant holds always.
LEMMA FiInvHolds == ASSUME FiConstantsOK PROVE FI!Spec => []FiInv
<1>1. FI!Init => FiInv
  BY FiInvInit
<1>2. FiInv /\ [FI!Next]_(FI!vars) => FiInv'
  BY FiInvNext
<1> QED BY <1>1, <1>2, PTL DEF FI!Spec

\* The type invariant holds always.
LEMMA FiTypeCorrect == ASSUME FiConstantsOK PROVE FI!Spec => []FI!TypeOK
<1>1. FiInv => FI!TypeOK
  BY DEF FiInv, FiTyped, FI!TypeOK, FiRecord, FiCall, FiPcs, FI!Busy
<1> QED BY <1>1, FiInvHolds, PTL

(* The record describes the file that is in the storage, except while a    *)
(* deletion has removed the file and not yet its record; and no file is    *)
(* left without a record once no request is under way: file_create,        *)
(* file_register and file_delete keep the two in step, on storages that    *)
(* replace files and on those that do not, as long as no request stopped   *)
(* between the two and none acted on an old look.                          *)
THEOREM FiRecordsFollowFiles ==
  ASSUME FiConstantsOK PROVE FI!Spec => []FI!RecordsMatchFiles
<1>1. ASSUME FiInv PROVE FI!RecordsMatchFiles
  BY <1>1 DEF FiInv, FiMatch, FiRecordGoes, FiRecordComes,
       FI!RecordsMatchFiles, FI!At, FI!Busy
<1>2. FiInv => FI!RecordsMatchFiles
  BY <1>1
<1> QED BY <1>2, FiInvHolds, PTL

-----------------------------------------------------------------------------
(* FileOwners: transfers of a file, one after the other or at once         *)

FoRows == [to : FoOwners, pinned : BOOLEAN]
FoCalls == [loaded : FoRows \cup {Missing}, to : FoOwners, pin : BOOLEAN, force : BOOLEAN]

\* Nothing is neither a row nor a call.
FoConstantsOK ==
  /\ FoMaxHistory \in Nat
  /\ Missing \notin FoRows \cup FoCalls

FoTyped ==
  /\ foOwner \in FoRows \cup {Missing}
  /\ foHistory \in Seq(FoOwners) /\ Len(foHistory) <= FoMaxHistory
  /\ foPast \in Seq(FoOwners)
  /\ foCall \in [FoRequests -> FoCalls \cup {Missing}]
  /\ foStale \subseteq FoRequests

\* What was loaded is there still, or the request is stale; a row once
\* there stays.
FoLoaded ==
  \A r \in FoRequests : foCall[r] # Missing =>
    /\ r \notin foStale => foCall[r].loaded = foOwner
    /\ foCall[r].loaded # Missing => foOwner # Missing

\* A transfer of what was pinned when it was loaded is forced.
FoAllowed ==
  \A r \in FoRequests : foCall[r] # Missing =>
    /\ foCall[r].loaded # Missing /\ foCall[r].loaded.pinned
       /\ foCall[r].to # foCall[r].loaded.to
       => foCall[r].force

FoInv == FoTyped /\ FoLoaded /\ FoAllowed

\* At first the file has no owner.
LEMMA FoInitInv == ASSUME FoConstantsOK, FO!Init PROVE FoInv
BY DEF FoConstantsOK, FO!Init, FoInv, FoTyped, FoLoaded, FoAllowed

\* A pin or a transfer under way has loaded the row that is there.
LEMMA FoLoadInv ==
  ASSUME FoConstantsOK, FoInv, NEW r \in FoRequests, NEW to \in FoOwners,
         NEW pin \in BOOLEAN, NEW force \in BOOLEAN, FO!Load(r, to, pin, force),
         foOwner # Missing /\ foOwner.pinned /\ to # foOwner.to => force
  PROVE  FoInv'
<1> DEFINE c == [loaded |-> foOwner, to |-> to, pin |-> pin, force |-> force]
<1>1. c \in FoCalls /\ c # Missing
  BY DEF FoInv, FoTyped, FoCalls, FoConstantsOK
<1>2. /\ foCall'[r] = c
      /\ \A q \in FoRequests \ {r} : foCall'[q] = foCall[q]
      /\ foCall' \in [FoRequests -> FoCalls \cup {Missing}]
  BY <1>1 DEF FO!Load, FoInv, FoTyped
<1>3. FoTyped'
  BY <1>2 DEF FO!Load, FoInv, FoTyped
<1>4. FoLoaded'
  BY <1>2 DEF FO!Load, FoInv, FoLoaded
<1>5. FoAllowed'
  BY <1>1, <1>2 DEF FO!Load, FoInv, FoAllowed
<1> QED BY <1>3, <1>4, <1>5 DEF FoInv

\* A commit keeps the row a row, and one that changes it makes the others
\* stale.
LEMMA FoCommitInv ==
  ASSUME FoConstantsOK, FoInv, NEW r \in FoRequests, FO!Commit(r)
  PROVE  FoInv'
<1> DEFINE c == foCall[r]
<1>1. /\ c \in FoCalls /\ c # Missing
      /\ foCall'[r] = Missing
      /\ \A q \in FoRequests \ {r} : foCall'[q] = foCall[q]
      /\ foCall' \in [FoRequests -> FoCalls \cup {Missing}]
  BY DEF FO!Commit, FoInv, FoTyped
<1>2. foOwner' \in FoRows /\ (foOwner # Missing => foOwner' # Missing)
  <2>1. CASE c.loaded = Missing
    BY <1>1, <2>1 DEF FO!Commit, FoCalls, FoRows, FoInv, FoTyped, FoConstantsOK
  <2>2. CASE c.loaded # Missing
    <3>1. foOwner \in FoRows /\ c.loaded \in FoRows
      BY <1>1, <2>2 DEF FoInv, FoTyped, FoLoaded, FoCalls
    <3>2. foOwner' = [to |-> FO!Written(c.loaded.to, foOwner.to, c.to),
                    pinned |-> FO!Written(c.loaded.pinned, foOwner.pinned, c.pin)]
      BY <2>2 DEF FO!Commit
    <3>3. /\ FO!Written(c.loaded.to, foOwner.to, c.to) \in FoOwners
          /\ FO!Written(c.loaded.pinned, foOwner.pinned, c.pin) \in BOOLEAN
      BY <3>1, <1>1 DEF FO!Written, FoRows, FoCalls
    <3> QED BY <3>2, <3>3, <1>1 DEF FoRows, FoConstantsOK
  <2> QED BY <2>1, <2>2
<1>3. foHistory' \in Seq(FoOwners) /\ Len(foHistory') <= FoMaxHistory
  <2>1. CASE foHistory' = foHistory
    BY <2>1 DEF FoInv, FoTyped
  <2>2. CASE /\ foHistory' = foHistory \o <<c.loaded.to>>
             /\ c.loaded # Missing
    <3>1. c.loaded.to \in FoOwners
      BY <2>2, <1>1 DEF FoCalls, FoRows
    <3>2. Len(foHistory) < FoMaxHistory /\ foHistory \in Seq(FoOwners)
      BY DEF FO!Commit, FoInv, FoTyped
    <3> QED BY <2>2, <3>1, <3>2 DEF FoConstantsOK
  <2>3. CASE foHistory' = foHistory \o <<>>
    BY <2>3 DEF FoInv, FoTyped
  <2>4. \/ foHistory' = foHistory
        \/ foHistory' = foHistory \o <<>>
        \/ foHistory' = foHistory \o <<c.loaded.to>> /\ c.loaded # Missing
    BY DEF FO!Commit, FO!Archived
  <2> QED BY <2>1, <2>2, <2>3, <2>4
<1>4. foPast' \in Seq(FoOwners)
  BY DEF FO!Commit, FoInv, FoTyped, FoRows
<1>5. foStale' \subseteq FoRequests
  BY DEF FO!Commit, FoInv, FoTyped, FO!Busy
<1>6. FoTyped'
  BY <1>1, <1>2, <1>3, <1>4, <1>5 DEF FoTyped
<1>7. FoLoaded'
  BY <1>1, <1>2 DEF FO!Commit, FoInv, FoLoaded, FO!Busy, FoConstantsOK
<1>8. FoAllowed'
  BY <1>1 DEF FoInv, FoAllowed
<1> QED BY <1>6, <1>7, <1>8 DEF FoInv

\* Every step keeps the invariant.
LEMMA FoInvNext == ASSUME FoConstantsOK, FoInv, [FO!Next]_(FO!vars)
                   PROVE FoInv'
<1>1. ASSUME NEW r \in FoRequests, NEW pin \in BOOLEAN, FO!Pin(r, pin)
      PROVE FoInv'
  BY <1>1, FoLoadInv DEF FO!Pin, FoInv, FoTyped, FoRows
<1>2. ASSUME NEW r \in FoRequests, NEW to \in FoOwners, NEW pin \in BOOLEAN,
             NEW force \in BOOLEAN, FO!Transfer(r, to, pin, force)
      PROVE  FoInv'
  BY <1>2, FoLoadInv DEF FO!Transfer
<1>3. ASSUME NEW r \in FoRequests, FO!Commit(r) PROVE FoInv'
  BY <1>3, FoCommitInv
<1>4. CASE UNCHANGED FO!vars
  BY <1>4 DEF FO!vars, FoInv, FoTyped, FoLoaded, FoAllowed
<1> QED BY <1>1, <1>2, <1>3, <1>4 DEF FO!Next

\* The invariant holds always.
LEMMA FoInvHolds == ASSUME FoConstantsOK PROVE FO!Spec => []FoInv
BY FoInitInv, FoInvNext, PTL DEF FO!Spec

\* What is stored and under way is well typed.
LEMMA FoTypeCorrect == ASSUME FoConstantsOK PROVE FO!Spec => []FO!TypeOK
<1>1. FoInv => FO!TypeOK
  BY DEF FoInv, FoTyped, FO!TypeOK, FoCalls, FO!Busy, FoRows
<1> QED BY <1>1, FoInvHolds, PTL

\* The request that a step ends is the one that commits.
LEMMA FoEnds ==
  ASSUME FoConstantsOK, FoInv, [FO!Next]_(FO!vars),
         NEW r \in FoRequests, foCall[r] # Missing, foCall'[r] = Missing
  PROVE  FO!Commit(r)
<1>1. ASSUME NEW q \in FoRequests, NEW pin \in BOOLEAN, FO!Pin(q, pin)
      PROVE FALSE
  BY <1>1 DEF FO!Pin, FO!Load, FoInv, FoTyped, FoRows, FoCalls, FoConstantsOK
<1>2. ASSUME NEW q \in FoRequests, NEW to \in FoOwners, NEW pin \in BOOLEAN,
             NEW force \in BOOLEAN, FO!Transfer(q, to, pin, force)
      PROVE  FALSE
  BY <1>2 DEF FO!Transfer, FO!Load, FoInv, FoTyped, FoRows, FoCalls,
       FoConstantsOK
<1>3. ASSUME NEW q \in FoRequests, FO!Commit(q) PROVE q = r
  BY <1>3 DEF FO!Commit, FoInv, FoTyped
<1> QED BY <1>1, <1>2, <1>3 DEF FO!Next, FO!vars

\* A pin is heeded, and the history goes on as the past does.
LEMMA FoTransfersRecorded == ASSUME FoConstantsOK
                             PROVE FO!Spec => FO!TransfersAreRecorded
<1> DEFINE Recorded ==
      \A r \in FoRequests \ foStale :
        foCall[r] # Missing /\ foCall'[r] = Missing =>
          /\ foOwner # Missing /\ foOwner.pinned /\ foOwner'.to # foOwner.to
             => foCall[r].force
          /\ foHistory = foPast => foHistory' = foPast'
<1>1. ASSUME FoInv, [FO!Next]_(FO!vars) PROVE Recorded
  <2> SUFFICES ASSUME NEW r \in FoRequests \ foStale,
                      foCall[r] # Missing, foCall'[r] = Missing
               PROVE  /\ foOwner # Missing /\ foOwner.pinned /\ foOwner'.to # foOwner.to
                         => foCall[r].force
                      /\ foHistory = foPast => foHistory' = foPast'
    OBVIOUS
  <2> DEFINE c == foCall[r]
  <2>1. FO!Commit(r)
    BY <1>1, FoEnds
  <2>2. c \in FoCalls /\ c.loaded = foOwner
    BY <1>1 DEF FoInv, FoTyped, FoLoaded
  <2>3. CASE foOwner = Missing
    BY <2>1, <2>2, <2>3 DEF FO!Commit
  <2>4. CASE foOwner # Missing
    <3>1. foOwner \in FoRows
      BY <1>1, <2>4 DEF FoInv, FoTyped
    <3>2. foOwner'.to = c.to
      BY <2>1, <2>2, <2>4 DEF FO!Commit, FO!Written
    <3>3. foOwner.pinned /\ foOwner'.to # foOwner.to => c.force
      BY <3>2, <2>2, <2>4, <1>1 DEF FoInv, FoAllowed
    <3>4. foHistory' = foHistory \o FO!Archived(c)
      BY <2>1, <2>2, <2>4 DEF FO!Commit
    <3>5. CASE c.to # foOwner.to
      <4>1. foPast' = Append(foPast, foOwner.to)
        BY <2>1, <3>2, <3>5, <2>4 DEF FO!Commit
      <4>2. FO!Archived(c) = <<foOwner.to>>
        BY <2>2, <2>4, <3>5 DEF FO!Archived
      <4>3. foHistory \in Seq(FoOwners) /\ foOwner.to \in FoOwners
        BY <3>1, <1>1 DEF FoInv, FoTyped, FoRows
      <4>4. foHistory \o <<foOwner.to>> = Append(foHistory, foOwner.to)
        BY <4>3
      <4>5. foHistory' = Append(foHistory, foOwner.to)
        BY <3>4, <4>2, <4>4
      <4> QED BY <4>1, <4>5, <3>3, <2>4
    <3>6. CASE c.to = foOwner.to
      <4>1. foPast' = foPast
        BY <2>1, <3>2, <3>6 DEF FO!Commit
      <4>2. FO!Archived(c) = <<>>
        BY <2>2, <3>6 DEF FO!Archived
      <4>3. foHistory' = foHistory
        BY <3>4, <4>2, <1>1 DEF FoInv, FoTyped
      <4> QED BY <4>1, <4>3, <3>3
    <3> QED BY <3>5, <3>6
  <2> QED BY <2>3, <2>4
<1>2. FoInv /\ [FO!Next]_(FO!vars) => [Recorded]_(FO!vars)
  BY <1>1
<1> QED BY <1>2, FoInvHolds, PTL DEF FO!Spec, FO!TransfersAreRecorded

-----------------------------------------------------------------------------
(* Uploads: a reader finds one whole upload                                *)

UpPcs == {"flush", "open", "copy", "remove", "commit"}
UpCall == [pc : UpPcs, kind : UP!Kinds, upload : 0 .. UpMaxUpload, open : Nat,
         done : 0 .. UpChunks]

\* A file has a piece at least; Nothing is no request and no call.
UpConstantsOK ==
  /\ UpChunks \in Nat \ {0} /\ UpMaxUpload \in Nat
  /\ Missing \notin UpRequests \cup UpCall

UpTyped ==
  /\ upRow \in [type : {"link", "upload"}, upload : 0 .. UpMaxUpload]
  /\ upContent \in Seq(Seq(0 .. UpMaxUpload))
  /\ upFile \in 0 .. Len(upContent) /\ upTmp \in 0 .. Len(upContent)
  /\ upLock \in UpRequests \cup {Missing}
  /\ upCall \in [UpRequests -> UpCall \cup {Missing}]
  /\ upMade \in 0 .. UpMaxUpload
  /\ upUndone \in BOOLEAN

\* The request that has flushed the row is the one that holds its lock.
UpLockHeld ==
  /\ \A r \in UpRequests : upCall[r] # Missing /\ ~UP!At(r, "flush") => upLock = r
  /\ upLock # Missing => upCall[upLock] # Missing /\ ~UP!At(upLock, "flush")

\* Only uploads write, only "clear" removes; no piece is written early.
UpRoutes ==
  \A r \in UpRequests : upCall[r] # Missing =>
    /\ UP!At(r, "open") \/ UP!At(r, "copy") => upCall[r].kind = "upload"
    /\ UP!At(r, "remove") => upCall[r].kind = "clear"
    /\ upCall[r].kind = "upload" => upCall[r].upload \in 1 .. upMade
    /\ UP!At(r, "flush") \/ UP!At(r, "open") => upCall[r].done = 0

\* The first k pieces of an upload.
UpPieces(u, k) == [i \in 1 .. k |-> u]

\* The temporary file is not the file that readers open.
UpApart == upTmp # 0 => upTmp # upFile

\* What a copy has written so far is all that is in the temporary file.
UpCopied ==
  \A r \in UpRequests : UP!At(r, "copy") =>
    /\ upTmp # 0 /\ upCall[r].open = upTmp
    /\ upContent[upTmp] = UpPieces(upCall[r].upload, upCall[r].done)

\* The file is the whole of some upload.
UpWhole == upFile # 0 => \E u \in 1 .. upMade : upContent[upFile] = UpPieces(u, UpChunks)

\* An upload that is about to commit is the file.
UpPlaced ==
  \A r \in UpRequests : UP!At(r, "commit") /\ upCall[r].kind = "upload" =>
    upFile # 0 /\ upContent[upFile] = UpPieces(upCall[r].upload, UpChunks)

\* A request that changed the file and has not committed the row.
UpChanged(r) == UP!At(r, "commit") /\ upCall[r].kind \in {"upload", "clear"}

\* But for such requests the file is the one the row speaks of.
UpOwn ==
  upRow.type = "upload" /\ ~upUndone /\ (\A r \in UpRequests : ~UpChanged(r)) =>
    upFile # 0 /\ upContent[upFile][1] = upRow.upload

UpInv == UpTyped /\ UpLockHeld /\ UpRoutes /\ UpApart /\ UpCopied /\ UpWhole /\ UpPlaced /\ UpOwn

-----------------------------------------------------------------------------
(* Facts about states *)

\* What an assignment to the call of one request does.
LEMMA UpCallSet ==
  ASSUME UpTyped, NEW r \in UpRequests, NEW d \in UpCall \cup {Missing},
         upCall' = [upCall EXCEPT ![r] = d]
  PROVE  /\ upCall' \in [UpRequests -> UpCall \cup {Missing}]
         /\ upCall'[r] = d
         /\ \A s \in UpRequests \ {r} : upCall'[s] = upCall[s]
BY DEF UpTyped

\* A request under way has a call with a place and a kind.
LEMMA UpCallParts ==
  ASSUME UpConstantsOK, UpTyped, NEW r \in UpRequests, upCall[r] # Missing
  PROVE  /\ upCall[r] \in UpCall /\ upCall[r].pc \in UpPcs
         /\ upCall[r].kind \in UP!Kinds /\ upCall[r].upload \in 0 .. UpMaxUpload
         /\ upCall[r].open \in Nat /\ upCall[r].done \in 0 .. UpChunks
         /\ \A p : UP!At(r, p) <=> upCall[r].pc = p
BY DEF UpConstantsOK, UpTyped, UpCall, UP!At

\* While a request is past its flush all others are at theirs.
LEMMA UpAlone ==
  ASSUME UpConstantsOK, UpInv, NEW r \in UpRequests,
         upCall[r] # Missing, ~UP!At(r, "flush")
  PROVE  /\ upLock = r
         /\ \A s \in UpRequests \ {r} : upCall[s] = Missing \/ UP!At(s, "flush")
BY DEF UpInv, UpLockHeld

\* At first there is no file, and nobody holds the row.
LEMMA UpInvInit == UpConstantsOK /\ UP!Init => UpInv
<1> SUFFICES ASSUME UpConstantsOK, UP!Init PROVE UpInv
  OBVIOUS
<1>1. UpTyped
  <2>1. upContent \in Seq(Seq(0 .. UpMaxUpload)) /\ Len(upContent) = 0
    BY DEF UP!Init
  <2>2. upMade \in 0 .. UpMaxUpload /\ 0 \in 0 .. UpMaxUpload
    BY DEF UpConstantsOK, UP!Init
  <2>3. upRow \in [type : {"link", "upload"}, upload : 0 .. UpMaxUpload]
    BY <2>2 DEF UP!Init
  <2>4. upCall \in [UpRequests -> UpCall \cup {Missing}]
    BY DEF UP!Init
  <2>5. upFile \in 0 .. Len(upContent) /\ upTmp \in 0 .. Len(upContent)
    BY <2>1 DEF UP!Init
  <2> QED BY <2>1, <2>2, <2>3, <2>4, <2>5 DEF UP!Init, UpTyped
<1>2. \A r \in UpRequests : upCall[r] = Missing
  BY DEF UP!Init
<1>3. UpLockHeld /\ UpRoutes /\ UpApart /\ UpCopied /\ UpWhole /\ UpPlaced /\ UpOwn
  BY <1>2 DEF UP!Init, UpLockHeld, UpRoutes, UpApart, UpCopied, UpWhole,
       UpPlaced, UpOwn, UP!At
<1> QED BY <1>1, <1>3 DEF UpInv

-----------------------------------------------------------------------------
(* Steps of requests *)

(* A request that is new is at its flush, with an upload of its own if it  *)
(* has one.                                                                *)
LEMMA UpRequestInv ==
  ASSUME UpConstantsOK, UpInv, NEW r \in UpRequests, NEW kind \in UP!Kinds,
         UP!Request(r, kind)
  PROVE  UpInv'
<1>1. PICK d \in UpCall :
        /\ d = [pc |-> "flush", kind |-> kind, upload |-> upMade', open |-> 0,
                done |-> 0]
        /\ upCall' = [upCall EXCEPT ![r] = d]
  <2>1. upMade' \in 0 .. UpMaxUpload
    BY DEF UP!Request, UpInv, UpTyped, UpConstantsOK
  <2>2. 0 \in 0 .. UpChunks /\ 0 \in Nat
    BY DEF UpConstantsOK
  <2> QED BY <2>1, <2>2 DEF UP!Request, UpCall, UpPcs
<1>2. /\ upCall[r] = Missing /\ upMade' \in 0 .. UpMaxUpload /\ upMade \in 0 .. upMade'
      /\ kind = "upload" => upMade' \in 1 .. upMade'
      /\ upRow' = upRow /\ upFile' = upFile /\ upTmp' = upTmp /\ upContent' = upContent
      /\ upLock' = upLock /\ upUndone' = upUndone
  BY DEF UP!Request, UpInv, UpTyped, UpConstantsOK
<1>3. /\ upCall' \in [UpRequests -> UpCall \cup {Missing}] /\ upCall'[r] = d
      /\ \A s \in UpRequests \ {r} : upCall'[s] = upCall[s]
  BY <1>1, UpCallSet DEF UpInv
<1>4. d # Missing /\ d.pc = "flush" /\ d.kind = kind /\ d.upload = upMade'
      /\ d.done = 0
  BY <1>1 DEF UpConstantsOK
<1>5. UpTyped'
  BY <1>2, <1>3 DEF UpInv, UpTyped
<1>6. UpLockHeld'
  <2>1. upLock # r /\ upLock \in UpRequests \cup {Missing}
    BY <1>2 DEF UpInv, UpTyped, UpLockHeld, UpConstantsOK
  <2>2. \A s \in UpRequests : upCall'[s] # Missing /\ ~UP!At(s, "flush")' => upLock' = s
    BY <1>2, <1>3, <1>4 DEF UpInv, UpLockHeld, UP!At
  <2>3. upLock' # Missing => upCall'[upLock'] # Missing /\ ~UP!At(upLock, "flush")'
    BY <1>2, <1>3, <2>1 DEF UpInv, UpLockHeld, UP!At
  <2> QED BY <2>2, <2>3 DEF UpLockHeld
<1>7. UpRoutes'
  <2> SUFFICES ASSUME NEW s \in UpRequests, upCall'[s] # Missing
               PROVE  /\ UP!At(s, "open")' \/ UP!At(s, "copy")' => upCall'[s].kind = "upload"
                      /\ UP!At(s, "remove")' => upCall'[s].kind = "clear"
                      /\ upCall'[s].kind = "upload" => upCall'[s].upload \in 1 .. upMade'
                      /\ UP!At(s, "flush")' \/ UP!At(s, "open")' => upCall'[s].done = 0
    BY DEF UpRoutes
  <2>1. CASE s = r
    BY <1>2, <1>3, <1>4, <2>1 DEF UP!At
  <2>2. CASE s # r
    <3>1. upCall'[s] = upCall[s]
      BY <1>3, <2>2
    <3>2. \A u : u \in 1 .. upMade => u \in 1 .. upMade'
      BY <1>2
    <3> QED BY <3>1, <3>2 DEF UpInv, UpRoutes, UP!At
  <2> QED BY <2>1, <2>2
<1>8. UpApart' /\ UpWhole'
  <2>1. \A u : u \in 1 .. upMade => u \in 1 .. upMade'
    BY <1>2
  <2> QED BY <1>2, <2>1 DEF UpInv, UpApart, UpWhole
<1>9. UpCopied' /\ UpPlaced' /\ UpOwn'
  BY <1>2, <1>3, <1>4 DEF UpInv, UpCopied, UpPlaced, UpOwn, UpChanged, UP!At
<1> QED BY <1>5, <1>6, <1>7, <1>8, <1>9 DEF UpInv

(* A request that moves on, with the row locked, but neither writes nor    *)
(* renames: what was so of the file stays so.                              *)
LEMMA UpFlushInv ==
  ASSUME UpConstantsOK, UpInv, NEW r \in UpRequests, UP!Flush(r)
  PROVE  UpInv'
<1>1. upCall[r] # Missing /\ upCall[r].pc = "flush" /\ upLock = Missing /\ upLock' = r
      /\ upRow' = upRow /\ upFile' = upFile /\ upTmp' = upTmp /\ upContent' = upContent
      /\ upMade' = upMade /\ upUndone' = upUndone
  BY DEF UP!Flush, UP!At
<1>2. PICK d \in UpCall :
        /\ d = [upCall[r] EXCEPT !.pc = UP!FirstStep[upCall[r].kind]]
        /\ upCall' = [upCall EXCEPT ![r] = d]
  <2>1. upCall[r] \in UpCall /\ UP!FirstStep[upCall[r].kind] \in UpPcs
    BY <1>1, UpCallParts DEF UpInv, UP!FirstStep, UpPcs, UP!Kinds
  <2>2. [upCall[r] EXCEPT !.pc = UP!FirstStep[upCall[r].kind]] \in UpCall
    BY <2>1 DEF UpCall
  <2> QED BY <2>2 DEF UP!Flush, UP!Go
<1>3. /\ upCall' \in [UpRequests -> UpCall \cup {Missing}] /\ upCall'[r] = d
      /\ \A s \in UpRequests \ {r} : upCall'[s] = upCall[s]
  BY <1>2, UpCallSet DEF UpInv
<1>4. /\ d # Missing /\ d.pc = UP!FirstStep[d.kind] /\ d.kind = upCall[r].kind
      /\ d.upload = upCall[r].upload /\ d.done = upCall[r].done
      /\ d.kind \in UP!Kinds
  BY <1>1, <1>2, UpCallParts DEF UpConstantsOK, UpCall, UpInv
<1>5. /\ d.pc # "flush" /\ d.pc # "copy"
      /\ d.pc = "open" => d.kind = "upload"
      /\ d.pc = "remove" => d.kind = "clear"
      /\ d.pc = "commit" => d.kind \in {"link", "other"}
  BY <1>4 DEF UP!FirstStep, UP!Kinds
<1>6. \A s \in UpRequests \ {r} : upCall[s] = Missing \/ UP!At(s, "flush")
  BY <1>1 DEF UpInv, UpLockHeld, UpConstantsOK
<1>7. UpTyped'
  BY <1>1, <1>3 DEF UpInv, UpTyped
<1>8. UpLockHeld'
  BY <1>1, <1>3, <1>4, <1>5, <1>6 DEF UpLockHeld, UP!At
<1>9. UpRoutes'
  BY <1>1, <1>3, <1>4, <1>5 DEF UpInv, UpRoutes, UP!At
<1>10. UpApart' /\ UpWhole'
  BY <1>1 DEF UpInv, UpApart, UpWhole
<1>11. UpCopied' /\ UpPlaced'
  BY <1>1, <1>3, <1>4, <1>5 DEF UpInv, UpCopied, UpPlaced, UP!At
<1>12. UpOwn'
  <2>1. ~UpChanged(r) /\ \A s \in UpRequests \ {r} : ~UpChanged(s)
    BY <1>1, <1>6 DEF UpChanged, UP!At
  <2> QED BY <1>1, <2>1 DEF UpInv, UpOwn
<1> QED BY <1>7, <1>8, <1>9, <1>10, <1>11, <1>12 DEF UpInv

-----------------------------------------------------------------------------
(* Steps with the row locked *)

\* The request that holds the lock moves on, and nobody else does.
LEMMA UpHolderGoesOn ==
  ASSUME UpConstantsOK, UpInv, NEW r \in UpRequests,
         upCall[r] # Missing, ~UP!At(r, "flush"),
         NEW d \in UpCall, upCall' = [upCall EXCEPT ![r] = d],
         d.pc # "flush", d.pc # "open", d.pc # "remove",
         d.pc = "copy" => d.kind = "upload",
         d.kind = upCall[r].kind, d.upload = upCall[r].upload,
         upLock' = upLock, upMade' = upMade
  PROVE  /\ upCall' \in [UpRequests -> UpCall \cup {Missing}]
         /\ upCall'[r] = d /\ d # Missing
         /\ \A s \in UpRequests \ {r} : /\ ~UP!At(s, "copy") /\ ~UP!At(s, "copy")'
                                        /\ ~UP!At(s, "commit") /\ ~UP!At(s, "commit")'
         /\ UpLockHeld' /\ UpRoutes'
<1>1. /\ upCall' \in [UpRequests -> UpCall \cup {Missing}] /\ upCall'[r] = d
      /\ \A s \in UpRequests \ {r} : upCall'[s] = upCall[s]
  BY UpCallSet DEF UpInv
<1>2. /\ upLock = r
      /\ \A s \in UpRequests \ {r} : upCall[s] = Missing \/ UP!At(s, "flush")
  BY UpAlone
<1>3. d # Missing
  BY DEF UpConstantsOK
<1>4. UpLockHeld'
  BY <1>1, <1>2, <1>3 DEF UpLockHeld, UP!At
<1>5. UpRoutes'
  BY <1>1, <1>3 DEF UpInv, UpRoutes, UP!At
<1>6. \A s \in UpRequests \ {r} : /\ ~UP!At(s, "copy") /\ ~UP!At(s, "copy")'
                                  /\ ~UP!At(s, "commit") /\ ~UP!At(s, "commit")'
  BY <1>1, <1>2 DEF UP!At
<1> QED BY <1>1, <1>3, <1>4, <1>5, <1>6

\* A request ends, with the lock if it had it, and nobody else does.
LEMMA UpRequestEnds ==
  ASSUME UpConstantsOK, UpInv, NEW r \in UpRequests, upCall[r] # Missing,
         UP!Rollback(r), upMade' = upMade
  PROVE  /\ upCall' \in [UpRequests -> UpCall \cup {Missing}]
         /\ upCall'[r] = Missing /\ upLock' \in UpRequests \cup {Missing}
         /\ \A s \in UpRequests \ {r} : upCall'[s] = upCall[s]
         /\ UpLockHeld' /\ UpRoutes'
<1>1. /\ upCall' \in [UpRequests -> UpCall \cup {Missing}] /\ upCall'[r] = Missing
      /\ \A s \in UpRequests \ {r} : upCall'[s] = upCall[s]
  BY UpCallSet DEF UpInv, UP!Rollback
<1>2. upLock' \in UpRequests \cup {Missing} /\ upLock' = IF upLock = r THEN Missing ELSE upLock
  BY DEF UpInv, UpTyped, UP!Rollback, UP!Unlocked
<1>3. UpLockHeld'
  <2>1. \A s \in UpRequests : upCall'[s] # Missing /\ ~UP!At(s, "flush")' => upLock' = s
    BY <1>1, <1>2 DEF UpInv, UpLockHeld, UP!At
  <2>2. upLock' # Missing => upCall'[upLock'] # Missing /\ ~UP!At(upLock, "flush")'
    BY <1>1, <1>2 DEF UpInv, UpLockHeld, UP!At
  <2> QED BY <2>1, <2>2 DEF UpLockHeld
<1>4. UpRoutes'
  BY <1>1 DEF UpInv, UpRoutes, UP!At
<1> QED BY <1>1, <1>2, <1>3, <1>4

\* An upload starts with an empty file, whose name is not the one in use.
LEMMA UpOpenInv ==
  ASSUME UpConstantsOK, UpInv, NEW r \in UpRequests, UP!Open(r)
  PROVE  UpInv'
<1>1. PICK n : n = IF upTmp = 0 THEN Len(upContent) + 1 ELSE upTmp
  OBVIOUS
<1>2. /\ upCall[r] # Missing /\ upCall[r].pc = "open" /\ upTmp' = n
      /\ upContent' = IF n > Len(upContent) THEN Append(upContent, <<>>)
                    ELSE [upContent EXCEPT ![n] = <<>>]
      /\ upCall' = [upCall EXCEPT ![r].pc = "copy", ![r].open = n]
      /\ upRow' = upRow /\ upFile' = upFile /\ upLock' = upLock /\ upMade' = upMade
      /\ upUndone' = upUndone
  BY <1>1 DEF UP!Open, UP!At
<1>3. /\ upContent \in Seq(Seq(0 .. UpMaxUpload)) /\ Len(upContent) \in Nat
      /\ upFile \in 0 .. Len(upContent) /\ upTmp \in 0 .. Len(upContent)
      /\ n \in Nat \ {0} /\ n <= Len(upContent) + 1 /\ n # upFile
  BY <1>1 DEF UpInv, UpTyped, UpApart
<1>4. /\ upContent' \in Seq(Seq(0 .. UpMaxUpload))
      /\ Len(upContent') \in Nat /\ Len(upContent) <= Len(upContent')
      /\ n <= Len(upContent') /\ upContent'[n] = <<>>
      /\ upFile # 0 => upContent'[upFile] = upContent[upFile]
  <2>1. CASE n > Len(upContent)
    <3>1. n = Len(upContent) + 1 /\ upContent' = Append(upContent, <<>>)
      BY <1>2, <1>3, <2>1
    <3>2. <<>> \in Seq(0 .. UpMaxUpload)
      OBVIOUS
    <3>3. Len(upContent') = Len(upContent) + 1 /\ upContent' \in Seq(Seq(0 .. UpMaxUpload))
      BY <1>3, <3>1, <3>2
    <3> QED BY <1>3, <3>1, <3>3
  <2>2. CASE ~(n > Len(upContent))
    <3>1. n \in 1 .. Len(upContent) /\ upContent' = [upContent EXCEPT ![n] = <<>>]
      BY <1>2, <1>3, <2>2
    <3>2. <<>> \in Seq(0 .. UpMaxUpload)
      OBVIOUS
    <3>3. Len(upContent') = Len(upContent) /\ upContent' \in Seq(Seq(0 .. UpMaxUpload))
      BY <1>3, <3>1, <3>2
    <3> QED BY <1>3, <3>1, <3>3
  <2> QED BY <2>1, <2>2
<1>5. /\ upCall[r] \in UpCall /\ upCall[r].kind = "upload" /\ upCall[r].done = 0
      /\ ~UP!At(r, "flush")
  BY <1>2, UpCallParts DEF UpInv, UpRoutes, UP!At
<1>6. PICK d \in UpCall :
        /\ d = [upCall[r] EXCEPT !.pc = "copy", !.open = n]
        /\ upCall' = [upCall EXCEPT ![r] = d]
  <2>1. [upCall[r] EXCEPT !.pc = "copy", !.open = n] \in UpCall
    BY <1>3, <1>5 DEF UpCall, UpPcs
  <2> QED BY <1>2, <2>1
<1>7. /\ d.pc = "copy" /\ d.open = n /\ d.kind = "upload" /\ d.done = 0
      /\ d.upload = upCall[r].upload
  BY <1>5, <1>6 DEF UpCall
<1>8. /\ upCall' \in [UpRequests -> UpCall \cup {Missing}]
      /\ upCall'[r] = d /\ d # Missing
      /\ \A s \in UpRequests \ {r} : /\ ~UP!At(s, "copy") /\ ~UP!At(s, "copy")'
                                     /\ ~UP!At(s, "commit") /\ ~UP!At(s, "commit")'
      /\ UpLockHeld' /\ UpRoutes'
  BY <1>2, <1>5, <1>6, <1>7, UpHolderGoesOn
<1>9. UpTyped'
  BY <1>2, <1>3, <1>4, <1>8 DEF UpInv, UpTyped
<1>10. UpApart' /\ UpWhole'
  BY <1>2, <1>3, <1>4 DEF UpInv, UpApart, UpWhole
<1>11. UpCopied'
  <2>1. UpPieces(d.upload, 0) = <<>>
    BY DEF UpPieces
  <2> QED BY <1>2, <1>3, <1>4, <1>7, <1>8, <2>1 DEF UpCopied, UP!At
<1>12. UpPlaced'
  BY <1>7, <1>8 DEF UpPlaced, UP!At
<1>13. UpOwn'
  <2>1. \A s \in UpRequests : ~UpChanged(s)
    BY <1>2, <1>8 DEF UpChanged, UP!At
  <2> QED BY <1>2, <1>4, <2>1 DEF UpInv, UpOwn
<1> QED BY <1>8, <1>9, <1>10, <1>11, <1>12, <1>13 DEF UpInv

\* One more piece of an upload.
LEMMA UpPutNext ==
  ASSUME NEW u, NEW k \in Nat
  PROVE  UP!Put(UpPieces(u, k), k + 1, u) = UpPieces(u, k + 1)
<1>1. Len(UpPieces(u, k)) = k /\ DOMAIN UpPieces(u, k) = 1 .. k
  <2>1. UpPieces(u, k) \in Seq({u})
    BY DEF UpPieces
  <2> QED BY <2>1 DEF UpPieces
<1>2. UP!Put(UpPieces(u, k), k + 1, u) =
        [i \in 1 .. k + 1 |-> IF i = k + 1 THEN u
                              ELSE IF i \in 1 .. k THEN UpPieces(u, k)[i]
                              ELSE Missing]
  BY <1>1 DEF UP!Put
<1>3. \A i \in 1 .. k + 1 :
        (IF i = k + 1 THEN u ELSE IF i \in 1 .. k THEN UpPieces(u, k)[i]
                                  ELSE Missing) = u
  BY DEF UpPieces
<1> QED BY <1>2, <1>3 DEF UpPieces

\* A copy adds a piece to its own upload.
LEMMA UpCopyFileInv ==
  ASSUME UpConstantsOK, UpInv, NEW r \in UpRequests, UP!CopyFile(r)
  PROVE  UpInv'
<1>1. /\ upCall[r] # Missing /\ upCall[r].pc = "copy" /\ upCall[r].done < UpChunks
      /\ upContent' = [upContent EXCEPT ![upCall[r].open] =
                       UP!Put(upContent[upCall[r].open], upCall[r].done + 1,
                           upCall[r].upload)]
      /\ upCall' = [upCall EXCEPT ![r].done = @ + 1]
      /\ upRow' = upRow /\ upFile' = upFile /\ upTmp' = upTmp /\ upLock' = upLock
      /\ upMade' = upMade /\ upUndone' = upUndone
  BY DEF UP!CopyFile, UP!At
<1>2. PICK u, k : u = upCall[r].upload /\ k = upCall[r].done
  OBVIOUS
<1>3. /\ upCall[r] \in UpCall /\ upCall[r].kind = "upload" /\ ~UP!At(r, "flush")
      /\ u \in 0 .. UpMaxUpload /\ k \in Nat /\ k + 1 \in 0 .. UpChunks
      /\ upCall[r].open = upTmp /\ upTmp # 0 /\ upContent[upTmp] = UpPieces(u, k)
  BY <1>1, <1>2, UpCallParts DEF UpInv, UpRoutes, UpCopied, UP!At,
       UpConstantsOK
<1>4. /\ upContent \in Seq(Seq(0 .. UpMaxUpload)) /\ Len(upContent) \in Nat
      /\ upFile \in 0 .. Len(upContent) /\ upTmp \in 1 .. Len(upContent) /\ upTmp # upFile
  BY <1>3 DEF UpInv, UpTyped, UpApart
<1>5. upContent' = [upContent EXCEPT ![upTmp] = UpPieces(u, k + 1)]
  BY <1>1, <1>2, <1>3, UpPutNext
<1>6. UpPieces(u, k + 1) \in Seq(0 .. UpMaxUpload)
  <2> SUFFICES \A n \in Nat : UpPieces(u, n) \in Seq(0 .. UpMaxUpload)
    BY <1>3
  <2>1. u \in 0 .. UpMaxUpload
    BY <1>3
  <2> QED BY <2>1 DEF UpPieces
<1>7. /\ upContent' \in Seq(Seq(0 .. UpMaxUpload)) /\ Len(upContent') = Len(upContent)
      /\ upContent'[upTmp] = UpPieces(u, k + 1)
      /\ upFile # 0 => upContent'[upFile] = upContent[upFile]
  BY <1>4, <1>5, <1>6
<1>8. PICK d \in UpCall :
        d = [upCall[r] EXCEPT !.done = k + 1] /\ upCall' = [upCall EXCEPT ![r] = d]
  <2>1. [upCall[r] EXCEPT !.done = k + 1] \in UpCall
    BY <1>3 DEF UpCall
  <2>2. upCall' = [upCall EXCEPT ![r] = [upCall[r] EXCEPT !.done = k + 1]]
    BY <1>1, <1>2
  <2> QED BY <2>1, <2>2
<1>9. /\ d.pc = "copy" /\ d.open = upTmp /\ d.kind = "upload" /\ d.done = k + 1
      /\ d.upload = u
  BY <1>1, <1>2, <1>3, <1>8 DEF UpCall
<1>10. /\ upCall' \in [UpRequests -> UpCall \cup {Missing}]
       /\ upCall'[r] = d /\ d # Missing
       /\ \A s \in UpRequests \ {r} : /\ ~UP!At(s, "copy") /\ ~UP!At(s, "copy")'
                                      /\ ~UP!At(s, "commit") /\ ~UP!At(s, "commit")'
       /\ UpLockHeld' /\ UpRoutes'
  BY <1>1, <1>2, <1>3, <1>8, <1>9, UpHolderGoesOn
<1>11. UpTyped'
  BY <1>1, <1>4, <1>7, <1>10 DEF UpInv, UpTyped
<1>12. UpApart' /\ UpWhole'
  BY <1>1, <1>4, <1>7 DEF UpInv, UpApart, UpWhole
<1>13. UpCopied'
  BY <1>1, <1>3, <1>7, <1>9, <1>10 DEF UpCopied, UP!At
<1>14. UpPlaced'
  BY <1>9, <1>10 DEF UpPlaced, UP!At
<1>15. UpOwn'
  <2>1. \A s \in UpRequests : ~UpChanged(s)
    BY <1>1, <1>10 DEF UpChanged, UP!At
  <2> QED BY <1>1, <1>7, <2>1 DEF UpInv, UpOwn
<1> QED BY <1>10, <1>11, <1>12, <1>13, <1>14, <1>15 DEF UpInv

\* A file that is too large leaves the one in use alone.
LEMMA UpTooLargeInv ==
  ASSUME UpConstantsOK, UpInv, NEW r \in UpRequests, UP!TooLarge(r)
  PROVE  UpInv'
<1>1. /\ upCall[r] # Missing /\ upCall[r].pc = "copy" /\ upTmp' = 0 /\ UP!Rollback(r)
      /\ upRow' = upRow /\ upFile' = upFile /\ upContent' = upContent /\ upMade' = upMade
      /\ upUndone' = upUndone
  BY DEF UP!TooLarge, UP!At
<1>2. ~UP!At(r, "flush") /\ ~UpChanged(r)
  BY <1>1 DEF UP!At, UpChanged
<1>3. /\ upCall' \in [UpRequests -> UpCall \cup {Missing}]
      /\ upCall'[r] = Missing /\ upLock' \in UpRequests \cup {Missing}
      /\ \A s \in UpRequests \ {r} : upCall'[s] = upCall[s]
      /\ UpLockHeld' /\ UpRoutes'
  BY <1>1, UpRequestEnds
<1>4. \A s \in UpRequests \ {r} : ~UP!At(s, "copy") /\ ~UP!At(s, "commit")
  BY <1>1, <1>2, UpAlone DEF UP!At
<1>5. UpTyped'
  BY <1>1, <1>3 DEF UpInv, UpTyped
<1>6. UpApart' /\ UpWhole'
  BY <1>1 DEF UpInv, UpApart, UpWhole
<1>7. UpCopied' /\ UpPlaced'
  BY <1>3, <1>4 DEF UpCopied, UpPlaced, UP!At
<1>8. UpOwn'
  <2>1. \A s \in UpRequests : ~UpChanged(s)
    BY <1>2, <1>4 DEF UpChanged, UP!At
  <2> QED BY <1>1, <2>1 DEF UpInv, UpOwn
<1> QED BY <1>3, <1>5, <1>6, <1>7, <1>8 DEF UpInv

\* The temporary file is renamed when it is the whole upload.
LEMMA UpRenameInv ==
  ASSUME UpConstantsOK, UpInv, NEW r \in UpRequests, UP!Rename(r)
  PROVE  UpInv'
<1>1. /\ upCall[r] # Missing /\ upCall[r].pc = "copy" /\ upCall[r].done = UpChunks
      /\ upRow' = upRow /\ upContent' = upContent /\ upMade' = upMade /\ upUndone' = upUndone
  BY DEF UP!Rename, UP!At
<1>2. /\ upCall[r] \in UpCall /\ upCall[r].kind = "upload" /\ ~UP!At(r, "flush")
      /\ upCall[r].upload \in 1 .. upMade
      /\ upTmp # 0 /\ upContent[upTmp] = UpPieces(upCall[r].upload, UpChunks)
  BY <1>1, UpCallParts DEF UpInv, UpRoutes, UpCopied, UP!At
<1>3. /\ upFile' = upTmp /\ upTmp' = 0 /\ upLock' = upLock
      /\ upCall' = [upCall EXCEPT ![r].pc = "commit"]
  BY <1>2 DEF UP!Rename, UP!Go
<1>4. PICK d \in UpCall :
        /\ d = [upCall[r] EXCEPT !.pc = "commit"]
        /\ upCall' = [upCall EXCEPT ![r] = d]
  <2>1. [upCall[r] EXCEPT !.pc = "commit"] \in UpCall
    BY <1>2 DEF UpCall, UpPcs
  <2> QED BY <1>3, <2>1
<1>5. d.pc = "commit" /\ d.kind = "upload" /\ d.upload = upCall[r].upload
  BY <1>2, <1>4 DEF UpCall
<1>6. /\ upCall' \in [UpRequests -> UpCall \cup {Missing}]
      /\ upCall'[r] = d /\ d # Missing
      /\ \A s \in UpRequests \ {r} : /\ ~UP!At(s, "copy") /\ ~UP!At(s, "copy")'
                                     /\ ~UP!At(s, "commit") /\ ~UP!At(s, "commit")'
      /\ UpLockHeld' /\ UpRoutes'
  BY <1>1, <1>2, <1>3, <1>4, <1>5, UpHolderGoesOn
<1>7. UpTyped'
  BY <1>1, <1>3, <1>6 DEF UpInv, UpTyped
<1>8. UpApart' /\ UpWhole'
  BY <1>1, <1>2, <1>3 DEF UpApart, UpWhole
<1>9. UpCopied' /\ UpPlaced'
  BY <1>1, <1>2, <1>3, <1>5, <1>6 DEF UpCopied, UpPlaced, UP!At
<1>10. UpOwn'
  BY <1>5, <1>6 DEF UpOwn, UpChanged, UP!At
<1> QED BY <1>6, <1>7, <1>8, <1>9, <1>10 DEF UpInv

\* A request that removes the file has no other writer beside it.
LEMMA UpRemoveInv ==
  ASSUME UpConstantsOK, UpInv, NEW r \in UpRequests, UP!Remove(r)
  PROVE  UpInv'
<1>1. /\ upCall[r] # Missing /\ upCall[r].pc = "remove" /\ upFile' = 0
      /\ upCall' = [upCall EXCEPT ![r].pc = "commit"]
      /\ upRow' = upRow /\ upTmp' = upTmp /\ upContent' = upContent /\ upLock' = upLock
      /\ upMade' = upMade /\ upUndone' = upUndone
  BY DEF UP!Remove, UP!Go, UP!At
<1>2. upCall[r] \in UpCall /\ upCall[r].kind = "clear" /\ ~UP!At(r, "flush")
  BY <1>1, UpCallParts DEF UpInv, UpRoutes, UP!At
<1>3. PICK d \in UpCall :
        /\ d = [upCall[r] EXCEPT !.pc = "commit"]
        /\ upCall' = [upCall EXCEPT ![r] = d]
  <2>1. [upCall[r] EXCEPT !.pc = "commit"] \in UpCall
    BY <1>2 DEF UpCall, UpPcs
  <2> QED BY <1>1, <2>1
<1>4. d.pc = "commit" /\ d.kind = "clear" /\ d.upload = upCall[r].upload
  BY <1>2, <1>3 DEF UpCall
<1>5. /\ upCall' \in [UpRequests -> UpCall \cup {Missing}]
      /\ upCall'[r] = d /\ d # Missing
      /\ \A s \in UpRequests \ {r} : /\ ~UP!At(s, "copy") /\ ~UP!At(s, "copy")'
                                     /\ ~UP!At(s, "commit") /\ ~UP!At(s, "commit")'
      /\ UpLockHeld' /\ UpRoutes'
  BY <1>1, <1>2, <1>3, <1>4, UpHolderGoesOn
<1>6. UpTyped'
  BY <1>1, <1>5 DEF UpInv, UpTyped
<1>7. UpApart' /\ UpWhole' /\ UpCopied' /\ UpPlaced'
  BY <1>1, <1>4, <1>5 DEF UpApart, UpWhole, UpCopied, UpPlaced, UP!At
<1>8. UpOwn'
  BY <1>4, <1>5 DEF UpOwn, UpChanged, UP!At
<1> QED BY <1>5, <1>6, <1>7, <1>8 DEF UpInv

(* The row that is committed speaks of the file as it is: an upload put it *)
(* there, "clear" and "link" speak of none, and others found it so.        *)
LEMMA UpCommitInv ==
  ASSUME UpConstantsOK, UpInv, NEW r \in UpRequests, UP!Commit(r)
  PROVE  UpInv'
<1>1. /\ upCall[r] # Missing /\ upCall[r].pc = "commit" /\ UP!Rollback(r)
      /\ upRow' = UP!RowOf(upCall[r]) /\ upUndone' = (upUndone /\ upCall[r].kind = "other")
      /\ upFile' = upFile /\ upTmp' = upTmp /\ upContent' = upContent /\ upMade' = upMade
  BY DEF UP!Commit, UP!At
<1>2. /\ upCall' \in [UpRequests -> UpCall \cup {Missing}]
      /\ upCall'[r] = Missing /\ upLock' \in UpRequests \cup {Missing}
      /\ \A s \in UpRequests \ {r} : upCall'[s] = upCall[s]
      /\ UpLockHeld' /\ UpRoutes'
  BY <1>1, UpRequestEnds
<1>3. \A s \in UpRequests \ {r} : ~UP!At(s, "copy") /\ ~UP!At(s, "commit")
  <2>1. ~UP!At(r, "flush")
    BY <1>1 DEF UP!At
  <2> QED BY <1>1, <2>1, UpAlone DEF UP!At
<1>4. /\ upCall[r].kind \in UP!Kinds /\ upCall[r].upload \in 0 .. UpMaxUpload
      /\ 0 \in 0 .. UpMaxUpload
  BY <1>1, UpCallParts DEF UpInv, UpConstantsOK
<1>5. UpTyped'
  <2>1. upRow' \in [type : {"link", "upload"}, upload : 0 .. UpMaxUpload]
    BY <1>1, <1>4 DEF UP!RowOf, UpInv, UpTyped
  <2>2. upUndone' \in BOOLEAN
    BY <1>1
  <2> QED BY <1>1, <1>2, <2>1, <2>2 DEF UpInv, UpTyped
<1>6. UpApart' /\ UpWhole'
  BY <1>1 DEF UpInv, UpApart, UpWhole
<1>7. UpCopied' /\ UpPlaced'
  BY <1>2, <1>3 DEF UpCopied, UpPlaced, UP!At
<1>8. UpOwn'
  <2>1. CASE upCall[r].kind = "upload"
    <3>1. upRow'.upload = upCall[r].upload
      BY <1>1, <2>1 DEF UP!RowOf
    <3>2. upFile # 0 /\ upContent[upFile] = UpPieces(upCall[r].upload, UpChunks)
      BY <1>1, <2>1 DEF UpInv, UpPlaced, UP!At
    <3>3. 1 \in 1 .. UpChunks
      BY DEF UpConstantsOK
    <3>4. upContent[upFile][1] = upCall[r].upload
      BY <3>2, <3>3 DEF UpPieces
    <3> QED BY <1>1, <3>1, <3>2, <3>4 DEF UpOwn
  <2>2. CASE upCall[r].kind \in {"clear", "link"}
    <3>1. upRow'.type = "link"
      BY <1>1, <2>2 DEF UP!RowOf
    <3> QED BY <3>1 DEF UpOwn
  <2>3. CASE upCall[r].kind = "other"
    <3>1. upRow' = upRow /\ (upUndone' <=> upUndone)
      BY <1>1, <2>3 DEF UP!RowOf
    <3>2. \A s \in UpRequests : ~UpChanged(s)
      BY <1>3, <2>3 DEF UpChanged
    <3> QED BY <1>1, <3>1, <3>2 DEF UpInv, UpOwn
  <2> QED BY <1>4, <2>1, <2>2, <2>3 DEF UP!Kinds
<1> QED BY <1>2, <1>5, <1>6, <1>7, <1>8 DEF UpInv

(* A request that fails leaves the row, and says so if it had changed the  *)
(* file.                                                                   *)
LEMMA UpFailInv ==
  ASSUME UpConstantsOK, UpInv, NEW r \in UpRequests, UP!Fail(r)
  PROVE  UpInv'
<1>1. /\ upCall[r] # Missing /\ UP!Rollback(r)
      /\ upUndone' = (upUndone \/ (upCall[r].pc = "commit" /\
                                   upCall[r].kind \in {"upload", "clear"}))
      /\ upRow' = upRow /\ upFile' = upFile /\ upTmp' = upTmp /\ upContent' = upContent
      /\ upMade' = upMade
  BY DEF UP!Fail
<1>2. /\ upCall' \in [UpRequests -> UpCall \cup {Missing}]
      /\ upCall'[r] = Missing /\ upLock' \in UpRequests \cup {Missing}
      /\ \A s \in UpRequests \ {r} : upCall'[s] = upCall[s]
      /\ UpLockHeld' /\ UpRoutes'
  BY <1>1, UpRequestEnds
<1>3. UpTyped'
  <2>1. upUndone' \in BOOLEAN
    BY <1>1 DEF UpInv, UpTyped
  <2> QED BY <1>1, <1>2, <2>1 DEF UpInv, UpTyped
<1>4. UpApart' /\ UpWhole'
  BY <1>1 DEF UpInv, UpApart, UpWhole
<1>5. UpCopied' /\ UpPlaced'
  BY <1>1, <1>2 DEF UpInv, UpCopied, UpPlaced, UP!At
<1>6. UpOwn'
  <2>1. ~upUndone' => ~upUndone /\ ~UpChanged(r)
    BY <1>1 DEF UpChanged, UP!At
  <2>2. (\A s \in UpRequests : ~UpChanged(s)') =>
          \A s \in UpRequests \ {r} : ~UpChanged(s)
    BY <1>2 DEF UpChanged, UP!At
  <2> QED BY <1>1, <2>1, <2>2 DEF UpInv, UpOwn
<1> QED BY <1>2, <1>3, <1>4, <1>5, <1>6 DEF UpInv

-----------------------------------------------------------------------------
(* The theorem *)

\* What holds of requests on their way holds of what readers find.
LEMMA UpInvWholeAndOwn ==
  ASSUME UpConstantsOK, UpInv
  PROVE  UP!UploadsAreWholeAndOwn
<1>1. upFile # 0 => \E u \in 1 .. upMade : upContent[upFile] = [i \in (1 .. UpChunks) |-> u]
  BY DEF UpInv, UpWhole, UpPieces
<1>2. ASSUME upLock = Missing, ~upUndone, upRow.type = "upload"
      PROVE  upFile # 0 /\ upContent[upFile][1] = upRow.upload
  <2>1. \A r \in UpRequests : ~UpChanged(r)
    BY <1>2 DEF UpInv, UpLockHeld, UpConstantsOK, UpChanged, UP!At
  <2> QED BY <1>2, <2>1 DEF UpInv, UpOwn
<1> QED BY <1>1, <1>2 DEF UP!UploadsAreWholeAndOwn

LEMMA UpStepInv ==
  ASSUME UpConstantsOK, UpInv, [UP!Next]_(UP!vars)
  PROVE  UpInv'
<1>1. CASE UP!Next
  <2>1. PICK r \in UpRequests :
          \/ \E kind \in UP!Kinds : UP!Request(r, kind)
          \/ UP!Flush(r) \/ UP!Open(r) \/ UP!CopyFile(r) \/ UP!TooLarge(r) \/ UP!Rename(r)
          \/ UP!Remove(r) \/ UP!Commit(r) \/ UP!Fail(r)
    BY <1>1 DEF UP!Next
  <2> QED BY <2>1, UpRequestInv, UpFlushInv, UpOpenInv, UpCopyFileInv,
       UpTooLargeInv,
             UpRenameInv, UpRemoveInv, UpCommitInv, UpFailInv
<1>2. CASE UNCHANGED UP!vars
  <2> USE <1>2 DEF UP!vars
  <2>1. UpTyped' /\ UpRoutes' /\ UpApart' /\ UpWhole'
    BY DEF UpInv, UpTyped, UpRoutes, UpApart, UpWhole, UP!At
  <2>2. UpLockHeld' /\ UpCopied' /\ UpPlaced'
    BY DEF UpInv, UpLockHeld, UpCopied, UpPlaced, UP!At
  <2>3. UpOwn'
    BY DEF UpInv, UpOwn, UpChanged, UP!At
  <2> QED BY <2>1, <2>2, <2>3 DEF UpInv
<1> QED BY <1>1, <1>2

\* The invariant holds always.
LEMMA UpInvHolds == ASSUME UpConstantsOK PROVE UP!Spec => []UpInv
<1>1. UP!Init => UpInv
  BY UpInvInit
<1>2. UpInv /\ [UP!Next]_(UP!vars) => UpInv'
  BY UpStepInv
<1> QED BY <1>1, <1>2, PTL DEF UP!Spec

\* What a request has opened is one of the files there have been.
UpOpened ==
  \A r \in UpRequests : upCall[r] # Missing => upCall[r].open \in 0 .. Len(upContent)

\* A request keeps what it has opened, or has opened nothing or a file there is.
LEMMA UpOpenedKept ==
  ASSUME UpConstantsOK, UpInv, UpOpened, NEW r \in UpRequests,
         NEW d \in UpCall \cup {Missing}, upCall' = [upCall EXCEPT ![r] = d],
         0 .. Len(upContent) \subseteq 0 .. Len(upContent'),
         d # Missing => \/ d.open \in 0 .. Len(upContent')
                        \/ upCall[r] # Missing /\ d.open = upCall[r].open
  PROVE  UpOpened'
<1>1. /\ upCall'[r] = d
      /\ \A s \in UpRequests \ {r} : upCall'[s] = upCall[s]
  BY UpCallSet DEF UpInv
<1> QED BY <1>1 DEF UpOpened

\* A request that has gone on has opened what it had.
LEMMA UpGone ==
  ASSUME UpConstantsOK, UpInv, NEW r \in UpRequests, upCall[r] # Missing, NEW p \in UpPcs
  PROVE  LET d == [upCall[r] EXCEPT !.pc = p] IN d \in UpCall /\ d.open = upCall[r].open
BY UpCallParts DEF UpInv, UpCall

\* Every step keeps it: files are added and none is taken away.
LEMMA UpOpenedNext ==
  ASSUME UpConstantsOK, UpInv, UpOpened, [UP!Next]_(UP!vars)
  PROVE  UpOpened'
<1>0. Len(upContent) \in Nat /\ upContent \in Seq(Seq(0 .. UpMaxUpload))
  BY DEF UpInv, UpTyped
<1>1. ASSUME NEW r \in UpRequests, NEW kind \in UP!Kinds, UP!Request(r, kind)
      PROVE UpOpened'
  <2> DEFINE d == [pc |-> "flush", kind |-> kind, upload |-> upMade', open |-> 0, done |-> 0]
  <2>1. upMade' \in 0 .. UpMaxUpload
    BY <1>1, UpRequestInv DEF UpInv, UpTyped
  <2>2. d \in UpCall /\ d.open = 0
    BY <2>1 DEF UpCall, UpPcs, UpConstantsOK
  <2>3. upCall' = [upCall EXCEPT ![r] = d] /\ upContent' = upContent
    BY <1>1 DEF UP!Request
  <2> HIDE DEF d
  <2>4. 0 .. Len(upContent) \subseteq 0 .. Len(upContent') /\ 0 \in 0 .. Len(upContent')
    BY <1>0, <2>3
  <2> QED BY <2>2, <2>3, <2>4, UpOpenedKept
<1>2. ASSUME NEW r \in UpRequests, UP!Rollback(r), UNCHANGED upContent
      PROVE UpOpened'
  <2>1. upCall' = [upCall EXCEPT ![r] = Missing]
    BY <1>2 DEF UP!Rollback
  <2>2. 0 .. Len(upContent) \subseteq 0 .. Len(upContent')
    BY <1>2
  <2> QED BY <2>1, <2>2, UpOpenedKept
<1>3. ASSUME NEW r \in UpRequests, upCall[r] # Missing, NEW p \in UpPcs, UP!Go(r, p),
             UNCHANGED upContent
      PROVE  UpOpened'
  <2> DEFINE d == [upCall[r] EXCEPT !.pc = p]
  <2>1. d \in UpCall /\ d.open = upCall[r].open
    BY <1>3, UpGone
  <2>2. upCall' = [upCall EXCEPT ![r] = d]
    BY <1>3 DEF UP!Go
  <2> HIDE DEF d
  <2>3. 0 .. Len(upContent) \subseteq 0 .. Len(upContent')
    BY <1>3
  <2> QED BY <1>3, <2>1, <2>2, <2>3, UpOpenedKept
<1>4. ASSUME NEW r \in UpRequests, UP!Flush(r) PROVE UpOpened'
  <2>1. upCall[r] # Missing /\ upContent' = upContent /\ UP!Go(r, UP!FirstStep[upCall[r].kind])
    BY <1>4 DEF UP!Flush, UP!At
  <2>2. UP!FirstStep[upCall[r].kind] \in UpPcs
    BY <2>1, UpCallParts DEF UpInv, UP!Kinds, UP!FirstStep, UpPcs
  <2> QED BY <1>3, <2>1, <2>2
<1>5. ASSUME NEW r \in UpRequests, UP!Open(r) PROVE UpOpened'
  <2> DEFINE n == IF upTmp = 0 THEN Len(upContent) + 1 ELSE upTmp
             d == [upCall[r] EXCEPT !.pc = "copy", !.open = n]
  <2>1. upCall[r] # Missing /\ upCall' = [upCall EXCEPT ![r] = d]
    BY <1>5 DEF UP!Open, UP!At
  <2>2. upContent' = IF n > Len(upContent) THEN Append(upContent, <<>>)
                   ELSE [upContent EXCEPT ![n] = <<>>]
    BY <1>5 DEF UP!Open
  <2>3. n \in Nat /\ n <= Len(upContent) + 1
    BY <1>0 DEF UpInv, UpTyped
  <2> HIDE DEF n
  <2>4. /\ Len(upContent') \in Nat /\ Len(upContent) <= Len(upContent')
        /\ n \in 0 .. Len(upContent')
    BY <1>0, <2>2, <2>3
  <2>6. 0 .. Len(upContent) \subseteq 0 .. Len(upContent')
    BY <1>0, <2>4
  <2>5. d \in UpCall /\ d.open = n
    BY <2>1, <2>3, UpCallParts DEF UpInv, UpCall, UpPcs
  <2> HIDE DEF d
  <2> QED BY <2>1, <2>4, <2>5, <2>6, UpOpenedKept
<1>6. ASSUME NEW r \in UpRequests, UP!CopyFile(r) PROVE UpOpened'
  <2> DEFINE d == [upCall[r] EXCEPT !.done = @ + 1]
  <2>1. upCall[r] # Missing /\ upCall[r].done < UpChunks /\ upCall' = [upCall EXCEPT ![r] = d]
    BY <1>6 DEF UP!CopyFile, UP!At
  <2>2. Len(upContent') = Len(upContent)
    BY <1>0, <1>6 DEF UP!CopyFile
  <2>3. d \in UpCall /\ d.open = upCall[r].open
    BY <2>1, UpCallParts DEF UpInv, UpCall, UpConstantsOK
  <2> HIDE DEF d
  <2>4. 0 .. Len(upContent) \subseteq 0 .. Len(upContent')
    BY <2>2
  <2> QED BY <2>1, <2>3, <2>4, UpOpenedKept
<1>7. ASSUME NEW r \in UpRequests, UP!TooLarge(r) \/ UP!Commit(r) \/ UP!Fail(r)
      PROVE UpOpened'
  BY <1>2, <1>7 DEF UP!TooLarge, UP!Commit, UP!Fail
<1>8. ASSUME NEW r \in UpRequests, UP!Rename(r) \/ UP!Remove(r) PROVE UpOpened'
  BY <1>2, <1>3, <1>8 DEF UP!Rename, UP!Remove, UP!At, UpPcs
<1>9. CASE UNCHANGED UP!vars
  BY <1>9 DEF UP!vars, UpOpened
<1> QED BY <1>1, <1>4, <1>5, <1>6, <1>7, <1>8, <1>9 DEF UP!Next

\* The type invariant holds always.
LEMMA UpTypeCorrect == ASSUME UpConstantsOK PROVE UP!Spec => []UP!TypeOK
<1>1. UP!Init => UpOpened
  BY DEF UP!Init, UpOpened
<1>2. UpConstantsOK /\ UpInv /\ UpOpened /\ [UP!Next]_(UP!vars) => UpOpened'
  BY UpOpenedNext
<1>3. UpConstantsOK /\ UpInv /\ UpOpened => UP!TypeOK
  BY UpCallParts DEF UpInv, UpTyped, UP!TypeOK, UpOpened
<1> QED BY <1>1, <1>2, <1>3, UpInvHolds, PTL DEF UP!Spec


(* A reader of a resource's file finds the whole of one upload, and between *)
(* transactions the one the row speaks of, whatever failed before: the lock *)
(* that the flush of the row takes keeps the writers of the one temporary   *)
(* file apart (ResourceUpload.upload in ckan/lib/uploader.py).              *)
THEOREM UpUploadsKept ==
  ASSUME UpConstantsOK
  PROVE  UP!Spec => []UP!UploadsAreWholeAndOwn
<1>1. UpConstantsOK /\ UpInv => UP!UploadsAreWholeAndOwn
  BY UpInvWholeAndOwn
<1> QED BY <1>1, UpInvHolds, PTL

-----------------------------------------------------------------------------
(* DataPusher: a complete task tells of what the DataStore holds           *)

DpPcs == {"check", "commit", "submit", "mark", "post", "accepted", "failed",
        "hook", "hook_write"}
DpOutcomes == {"complete", "error"}
DpTasks == {"none", "submitting", "pending", "complete", "error"}
DpCall == [pc : DpPcs, stamp : 0 .. DpMaxTime, url : 0 .. DpMaxVersion,
         resubmit : BOOLEAN, status : DpOutcomes \cup {Missing},
         seen : 0 .. DpMaxVersion]
DpJob == [created : 1 .. DpMaxTime, url : 1 .. DpMaxVersion, loaded : 0 .. DpMaxVersion]
DpDraft == [by : DpRequests, kind : {"upload", "link"}, stamp : 0 .. DpMaxTime]

DpConstantsOK ==
  /\ DpMaxTime \in Nat /\ DpMaxVersion \in Nat \ {0}
  /\ Missing \notin DpCall \cup DpDraft

DpAtAny(r, pcs) == dpCall[r] # Missing /\ dpCall[r].pc \in pcs

-----------------------------------------------------------------------------
(* Types *)

\* A call: its stamp is taken and its version seen before they are used, and
\* only a hook knows an outcome.
DpCallOK(c, now, last) ==
  /\ c.stamp <= now /\ c.seen <= last
  /\ c.pc \in {"hook", "hook_write"} => c.status \in DpOutcomes
  /\ c.pc \in {"mark", "post", "hook"} => c.stamp # 0 /\ c.url # 0

\* A save under way has its time, and a version left for it.
DpDraftOK(d, now, last) ==
  d \in DpDraft \cup {Missing} /\ (d # Missing => d.stamp <= now /\ last < DpMaxVersion)

DpTyped ==
  /\ dpTime \in 0 .. DpMaxTime /\ dpModified \in 0 .. dpTime
  /\ dpVersion \in 1 .. DpMaxVersion /\ dpUrl \in 1 .. dpVersion
  /\ dpLoaded \in 0 .. DpMaxVersion /\ dpTask \in DpTasks
  /\ dpJobs \subseteq DpJob /\ \A j \in dpJobs : j.created <= dpTime
  /\ dpCall \in [DpRequests -> DpCall \cup {Missing}]
  /\ \A r \in DpRequests : dpCall[r] # Missing => DpCallOK(dpCall[r], dpTime, dpVersion)
  /\ DpDraftOK(dpDraft, dpTime, dpVersion)
  /\ \A r \in DpRequests : DP!At(r, "commit") => DP!Drafts(r)

LEMMA DpTypedInit == ASSUME DpConstantsOK PROVE DP!Init => DpTyped
BY DEF DP!Init, DpTyped, DpConstantsOK, DpDraftOK, DpTasks, DP!At

LEMMA DpTypedMoves ==
  ASSUME DpConstantsOK, DpTyped,
         NEW r \in DpRequests, NEW c \in DpCall \cup {Missing},
         dpCall' = [dpCall EXCEPT ![r] = c], c # Missing => DpCallOK(c, dpTime', dpVersion'),
         dpTime' \in dpTime .. DpMaxTime, dpModified' \in 0 .. dpTime',
         dpVersion' \in dpVersion .. DpMaxVersion, dpUrl' \in 1 .. dpVersion',
         dpLoaded' \in 0 .. DpMaxVersion, dpTask' \in DpTasks,
         dpJobs' \subseteq DpJob, \A j \in dpJobs' : j.created <= dpTime',
         DpDraftOK(dpDraft', dpTime', dpVersion'),
         c # Missing /\ c.pc = "commit" => DP!Drafts(r)',
         \A q \in DpRequests : q # r /\ DP!Drafts(q) => DP!Drafts(q)'
  PROVE  DpTyped'
<1>1. dpTime' \in 0 .. DpMaxTime /\ dpVersion' \in 1 .. DpMaxVersion
      /\ dpTime <= dpTime' /\ dpVersion <= dpVersion'
  BY DEF DpTyped, DpConstantsOK
<1>2. dpCall' \in [DpRequests -> DpCall \cup {Missing}]
  BY DEF DpTyped
<1>3. ASSUME NEW q \in DpRequests, dpCall'[q] # Missing
      PROVE  DpCallOK(dpCall'[q], dpTime', dpVersion')
  <2>1. CASE q = r
    BY <1>3, <2>1 DEF DpTyped
  <2>2. CASE q # r
    <3>1. dpCall'[q] = dpCall[q] /\ dpCall[q] \in DpCall /\ DpCallOK(dpCall[q], dpTime, dpVersion)
      BY <1>3, <2>2 DEF DpTyped
    <3>2. dpCall[q].stamp \in Nat /\ dpCall[q].seen \in Nat
      BY <3>1 DEF DpCall, DpConstantsOK
    <3>3. dpTime \in Nat /\ dpTime' \in Nat /\ dpVersion \in Nat /\ dpVersion' \in Nat
      BY <1>1 DEF DpTyped, DpConstantsOK
    <3> QED BY <1>1, <3>1, <3>2, <3>3 DEF DpCallOK
  <2> QED BY <2>1, <2>2
<1>4. \A q \in DpRequests : DP!At(q, "commit")' => DP!Drafts(q)'
  BY DEF DP!At, DpTyped
<1> QED BY <1>1, <1>2, <1>3, <1>4 DEF DpTyped

\* A step that neither stamps nor saves.
LEMMA DpTypedGoes ==
  ASSUME DpConstantsOK, DpTyped,
         NEW r \in DpRequests, NEW c \in DpCall \cup {Missing},
         dpCall' = [dpCall EXCEPT ![r] = c],
         c # Missing => DpCallOK(c, dpTime, dpVersion) /\ (c.pc = "commit" => DP!Drafts(r)),
         UNCHANGED <<dpTime, DP!resource>>,
         dpLoaded' \in 0 .. DpMaxVersion, dpTask' \in DpTasks,
         dpJobs' \subseteq DpJob, \A j \in dpJobs' : j.created <= dpTime
  PROVE  DpTyped'
<1>1. UNCHANGED <<dpTime, dpVersion, dpUrl, dpModified, dpDraft>>
  BY DEF DP!resource
<1>2. /\ dpTime' \in dpTime .. DpMaxTime /\ dpModified' \in 0 .. dpTime'
      /\ dpVersion' \in dpVersion .. DpMaxVersion /\ dpUrl' \in 1 .. dpVersion'
  BY <1>1 DEF DpTyped, DpConstantsOK
<1>3. \A q \in DpRequests : DP!Drafts(q)' <=> DP!Drafts(q)
  BY <1>1 DEF DP!Drafts
<1>4. DpDraftOK(dpDraft', dpTime', dpVersion')
  BY <1>1 DEF DpTyped
<1> QED BY <1>1, <1>2, <1>3, <1>4, DpTypedMoves

\* A call at its beginning.
LEMMA DpDoingIs ==
  ASSUME DpConstantsOK, DpTyped, NEW pc \in DpPcs, NEW s \in 0 .. DpMaxTime,
         NEW u \in 0 .. DpMaxVersion, NEW status \in DpOutcomes \cup {Missing}
  PROVE  LET c == DP!Doing(pc, s, u, status)
         IN  /\ c \in DpCall /\ c # Missing
             /\ c.pc = pc /\ c.stamp = s /\ c.url = u /\ c.status = status
             /\ c.seen = 0
<1> DEFINE c == DP!Doing(pc, s, u, status)
<1>1. /\ c.pc = pc /\ c.stamp = s /\ c.url = u /\ c.status = status
      /\ c.seen = 0
  BY DEF DP!Doing
<1>2. 0 \in 0 .. DpMaxVersion
  BY DEF DpConstantsOK
<1>3. c \in DpCall
  BY <1>2 DEF DP!Doing, DpCall
<1>4. c # Missing
  BY <1>3 DEF DpConstantsOK
<1> QED BY <1>1, <1>3, <1>4

\* A call at its next step.
LEMMA DpGoIs ==
  ASSUME DpConstantsOK, DpTyped, NEW r \in DpRequests, dpCall[r] # Missing,
         NEW pc \in DpPcs
  PROVE  /\ dpCall[r] \in DpCall /\ DpCallOK(dpCall[r], dpTime, dpVersion)
         /\ [dpCall[r] EXCEPT !.pc = pc] \in DpCall
         /\ LET c == [dpCall[r] EXCEPT !.pc = pc]
            IN c.pc = pc /\ c.stamp = dpCall[r].stamp /\ c.seen = dpCall[r].seen
               /\ c.status = dpCall[r].status /\ c.url = dpCall[r].url
         /\ DP!Go(r, pc) <=> dpCall' = [dpCall EXCEPT ![r] = [dpCall[r] EXCEPT !.pc = pc]]
<1>1. dpCall[r] \in DpCall /\ DpCallOK(dpCall[r], dpTime, dpVersion)
  BY DEF DpTyped
<1>2. [dpCall[r] EXCEPT !.pc = pc] \in DpCall
  BY <1>1 DEF DpCall
<1>3. LET c == [dpCall[r] EXCEPT !.pc = pc]
      IN c.pc = pc /\ c.stamp = dpCall[r].stamp /\ c.seen = dpCall[r].seen
         /\ c.status = dpCall[r].status /\ c.url = dpCall[r].url
  BY <1>1 DEF DpCall
<1>4. DP!Go(r, pc) <=> dpCall' = [dpCall EXCEPT ![r] = [dpCall[r] EXCEPT !.pc = pc]]
  BY DEF DP!Go
<1> QED BY <1>1, <1>2, <1>3, <1>4

\* A call that ends, or returns to its save.
LEMMA DpEndIs ==
  ASSUME DpConstantsOK, DpTyped, NEW r \in DpRequests, DP!End(r)
  PROVE  \E c \in DpCall \cup {Missing} :
           /\ dpCall' = [dpCall EXCEPT ![r] = c]
           /\ c # Missing => /\ DpCallOK(c, dpTime, dpVersion) /\ DP!Drafts(r)
                             /\ c.pc = "commit"
<1>1. CASE ~DP!Drafts(r)
  BY <1>1 DEF DP!End
<1>2. CASE DP!Drafts(r)
  <2> DEFINE c == DP!Doing("commit", 0, 0, Missing)
  <2>1. c \in DpCall /\ c.pc = "commit" /\ c.stamp = 0 /\ c.seen = 0
    BY DpDoingIs DEF DpPcs, DpConstantsOK
  <2>2. dpCall' = [dpCall EXCEPT ![r] = c]
    BY <1>2 DEF DP!End
  <2> HIDE DEF c
  <2>3. DpCallOK(c, dpTime, dpVersion)
    BY <2>1 DEF DpCallOK, DpTyped
  <2> QED BY <1>2, <2>1, <2>2, <2>3
<1> QED BY <1>1, <1>2

\* The typing of the beginning of a call.
LEMMA DpBeginTyped ==
  ASSUME DpConstantsOK, DpTyped, NEW r \in DpRequests,
         NEW pc \in DpPcs \ {"commit"}, NEW s \in 0 .. DpMaxTime,
         NEW u \in 0 .. DpMaxVersion, NEW status \in DpOutcomes \cup {Missing},
         DP!Begin(r, pc, s, u, status), s <= dpTime,
         pc \in {"hook", "hook_write"} => status \in DpOutcomes,
         pc \in {"mark", "post", "hook"} => s # 0 /\ u # 0,
         UNCHANGED <<dpTime, DP!resource>>,
         dpLoaded' \in 0 .. DpMaxVersion, dpTask' \in DpTasks,
         dpJobs' \subseteq DpJob, \A j \in dpJobs' : j.created <= dpTime
  PROVE  DpTyped'
<1> DEFINE c == DP!Doing(pc, s, u, status)
<1>1. c \in DpCall /\ c.pc = pc /\ c.stamp = s /\ c.url = u /\ c.status = status
      /\ c.seen = 0
  BY DpDoingIs
<1>2. dpCall' = [dpCall EXCEPT ![r] = c]
  BY DEF DP!Begin
<1> HIDE DEF c
<1>3. DpCallOK(c, dpTime, dpVersion) /\ c.pc # "commit"
  BY <1>1 DEF DpCallOK, DpTyped
<1> QED BY <1>1, <1>2, <1>3, DpTypedGoes

LEMMA DpTypedSaves ==
  ASSUME DpConstantsOK, DpTyped, NEW r \in DpRequests,
         \/ \E kind \in {"upload", "link"} : DP!Modify(r, kind)
         \/ DP!Rollback(r)
         \/ \E again \in BOOLEAN : DP!Commit(r, again)
  PROVE  DpTyped'
<1> USE DEF DpConstantsOK
<1>1. /\ dpTime \in 0 .. DpMaxTime /\ dpVersion \in 1 .. DpMaxVersion
      /\ dpModified \in 0 .. dpTime /\ dpUrl \in 1 .. dpVersion
      /\ dpJobs \subseteq DpJob /\ \A j \in dpJobs : j.created <= dpTime
      /\ dpLoaded \in 0 .. DpMaxVersion /\ dpTask \in DpTasks
  BY DEF DpTyped
<1>2. ASSUME NEW kind \in {"upload", "link"}, DP!Modify(r, kind) PROVE DpTyped'
  <2> DEFINE c == DP!Doing("check", 0, 0, Missing)
             d == [by |-> r, kind |-> kind, stamp |-> dpTime']
  <2>1. c \in DpCall /\ c.pc = "check" /\ c.stamp = 0 /\ c.seen = 0
    BY DpDoingIs DEF DpPcs
  <2>2. dpCall' = [dpCall EXCEPT ![r] = c] /\ dpDraft' = d
        /\ UNCHANGED <<dpVersion, dpUrl, dpModified, dpTask, dpJobs, dpLoaded>>
        /\ dpDraft = Missing /\ dpVersion < DpMaxVersion
    BY <1>2 DEF DP!Modify, DP!Begin
  <2>3. dpTime' \in dpTime .. DpMaxTime
    BY <1>1, <1>2 DEF DP!Modify, DP!Stamp
  <2>4. d \in DpDraft /\ d.stamp = dpTime'
    BY <1>1, <2>3 DEF DpDraft
  <2> HIDE DEF c, d
  <2>5. DpCallOK(c, dpTime', dpVersion') /\ DpDraftOK(dpDraft', dpTime', dpVersion')
    BY <1>1, <2>1, <2>2, <2>3, <2>4 DEF DpCallOK, DpDraftOK
  <2>6. \A q \in DpRequests : ~DP!Drafts(q)
    BY <2>2 DEF DP!Drafts
  <2>7. dpModified' \in 0 .. dpTime' /\ \A j \in dpJobs' : j.created <= dpTime'
    BY <1>1, <2>2, <2>3 DEF DpJob
  <2>8. dpVersion' \in dpVersion .. DpMaxVersion /\ dpUrl' \in 1 .. dpVersion'
    BY <1>1, <2>2
  <2> QED BY <1>1, <2>1, <2>2, <2>3, <2>5, <2>6, <2>7, <2>8, DpTypedMoves
<1>3. ASSUME DP!At(r, "commit"), dpDraft' = Missing,
             NEW c \in DpCall \cup {Missing}, dpCall' = [dpCall EXCEPT ![r] = c],
             c # Missing => DpCallOK(c, dpTime, dpVersion') /\ c.pc # "commit",
             dpModified' \in 0 .. dpTime, dpVersion' \in dpVersion .. DpMaxVersion,
             dpUrl' \in 1 .. dpVersion', UNCHANGED <<dpTime, dpTask, dpJobs, dpLoaded>>
      PROVE  DpTyped'
  <2>1. \A q \in DpRequests : q # r => ~DP!Drafts(q)
    BY <1>3 DEF DpTyped, DP!Drafts
  <2>2. DpDraftOK(dpDraft', dpTime', dpVersion') /\ dpTime' \in dpTime .. DpMaxTime
    BY <1>1, <1>3 DEF DpDraftOK
  <2> QED BY <1>1, <1>3, <2>1, <2>2, DpTypedMoves
<1>4. CASE DP!Rollback(r)
  <2>1. dpModified' \in 0 .. dpTime /\ dpVersion' \in dpVersion .. DpMaxVersion
        /\ dpUrl' \in 1 .. dpVersion'
    BY <1>1, <1>4 DEF DP!Rollback
  <2> QED BY <1>3, <1>4, <2>1 DEF DP!Rollback
<1>5. ASSUME NEW again \in BOOLEAN, DP!Commit(r, again) PROVE DpTyped'
  <2>1. /\ DP!At(r, "commit") /\ dpCall[r] # Missing /\ dpDraft # Missing
        /\ dpDraft \in DpDraft /\ dpDraft.stamp <= dpTime /\ dpVersion < DpMaxVersion
    BY <1>5 DEF DP!Commit, DP!At, DpTyped, DpDraftOK, DP!Drafts
  <2>2. dpDraft.stamp \in Nat
    BY <2>1 DEF DpDraft
  <2>3. /\ dpVersion' = dpVersion + 1 /\ dpVersion' \in dpVersion .. DpMaxVersion
        /\ dpModified' \in 0 .. dpTime /\ dpUrl' \in 1 .. dpVersion'
        /\ dpDraft' = Missing /\ UNCHANGED <<dpTime, dpTask, dpJobs, dpLoaded>>
    <3>1. /\ dpVersion' = dpVersion + 1 /\ dpDraft' = Missing
          /\ UNCHANGED <<dpTime, dpTask, dpJobs, dpLoaded>>
          /\ dpModified' = dpModified \/ dpModified' = dpDraft.stamp
          /\ dpUrl' = dpUrl \/ dpUrl' = dpVersion + 1
      BY <1>5 DEF DP!Commit
    <3>2. dpVersion \in Nat /\ dpTime \in Nat /\ DpMaxVersion \in Nat
      BY <1>1
    <3> QED BY <1>1, <2>1, <2>2, <3>1, <3>2
  <2>4. CASE ~again
    BY <1>3, <1>5, <2>1, <2>3, <2>4 DEF DP!Commit
  <2>5. CASE again
    <3> DEFINE c == [dpCall[r] EXCEPT !.pc = "check"]
    <3>1. /\ c \in DpCall /\ c.pc = "check" /\ c.stamp = dpCall[r].stamp
          /\ c.seen = dpCall[r].seen /\ DpCallOK(dpCall[r], dpTime, dpVersion)
          /\ dpCall[r] \in DpCall /\ dpCall' = [dpCall EXCEPT ![r] = c]
      BY <1>5, <2>1, <2>5, DpGoIs DEF DP!Commit, DpPcs
    <3> HIDE DEF c
    <3>2. dpCall[r].seen \in Nat /\ dpCall[r].seen <= dpVersion
          /\ dpCall[r].stamp <= dpTime
      BY <3>1 DEF DpCall, DpCallOK
    <3>3. DpCallOK(c, dpTime, dpVersion')
      BY <1>1, <2>3, <3>1, <3>2 DEF DpCallOK
    <3> QED BY <1>3, <2>1, <2>3, <3>1, <3>3
  <2> QED BY <2>4, <2>5
<1> QED BY <1>2, <1>4, <1>5

LEMMA DpTypedSubmits ==
  ASSUME DpConstantsOK, DpTyped, NEW r \in DpRequests,
         \/ DP!Edit(r) \/ DP!Check(r) \/ DP!SubmitByUser(r) \/ DP!SkipDuplicate(r) \/ DP!Look(r)
         \/ DP!Mark(r) \/ DP!Post(r) \/ DP!PostFails(r) \/ DP!Failed(r) \/ DP!Accepted(r)
  PROVE  DpTyped'
<1> USE DEF DpConstantsOK
<1>1. /\ dpTime \in 0 .. DpMaxTime /\ dpVersion \in 1 .. DpMaxVersion
      /\ dpModified \in 0 .. dpTime /\ dpUrl \in 1 .. dpVersion
      /\ dpJobs \subseteq DpJob /\ \A j \in dpJobs : j.created <= dpTime
      /\ dpLoaded \in 0 .. DpMaxVersion /\ dpTask \in DpTasks
      /\ {"submitting", "pending", "error"} \subseteq DpTasks
  BY DEF DpTyped, DpTasks
\* Steps that end a call, or go on with it without an outcome.
<1>2. ASSUME NEW pc \in DpPcs \ {"commit", "hook", "hook_write"},
             dpCall[r] # Missing,
             pc \in {"mark", "post"} => dpCall[r].stamp # 0 /\ dpCall[r].url # 0,
             DP!Go(r, pc) \/ DP!End(r), UNCHANGED <<dpTime, DP!resource, dpLoaded>>,
             dpTask' \in DpTasks,
             dpJobs' \subseteq DpJob, \A j \in dpJobs' : j.created <= dpTime
      PROVE  DpTyped'
  <2>1. CASE DP!Go(r, pc)
    <3> DEFINE c == [dpCall[r] EXCEPT !.pc = pc]
    <3>1. /\ c \in DpCall /\ c.pc = pc /\ c.stamp = dpCall[r].stamp
          /\ c.url = dpCall[r].url
          /\ c.seen = dpCall[r].seen /\ DpCallOK(dpCall[r], dpTime, dpVersion)
          /\ dpCall' = [dpCall EXCEPT ![r] = c]
      BY <1>2, <2>1, DpGoIs
    <3> HIDE DEF c
    <3>2. DpCallOK(c, dpTime, dpVersion) /\ c.pc # "commit"
      BY <1>2, <3>1 DEF DpCallOK
    <3> QED BY <1>1, <1>2, <3>1, <3>2, DpTypedGoes
  <2>2. CASE DP!End(r)
    <3>1. PICK c \in DpCall \cup {Missing} :
            /\ dpCall' = [dpCall EXCEPT ![r] = c]
            /\ c # Missing => /\ DpCallOK(c, dpTime, dpVersion) /\ DP!Drafts(r)
                              /\ c.pc = "commit"
      BY <2>2, DpEndIs
    <3> QED BY <1>1, <1>2, <3>1, DpTypedGoes
  <2> QED BY <1>2, <2>1, <2>2
<1>3. CASE DP!Edit(r) \/ DP!SubmitByUser(r)
  BY <1>1, <1>3, DpBeginTyped DEF DP!Edit, DP!SubmitByUser, DpPcs
<1>4. CASE DP!Check(r)
  BY <1>1, <1>2, <1>4 DEF DP!Check, DP!At, DpPcs
<1>5. CASE DP!SkipDuplicate(r)
  BY <1>1, <1>2, <1>5 DEF DP!SkipDuplicate, DP!At, DpPcs
<1>6. CASE DP!Look(r)
  <2>1. DP!At(r, "submit") /\ dpCall[r] \in DpCall /\ DpCallOK(dpCall[r], dpTime, dpVersion)
        /\ dpTime' = dpTime + 1 /\ dpTime' \in dpTime .. DpMaxTime
        /\ UNCHANGED <<dpVersion, dpUrl, dpModified, dpDraft, dpTask, dpJobs, dpLoaded>>
    BY <1>1, <1>6 DEF DP!Look, DP!At, DpTyped, DP!Stamp, DP!resource
  <2>2. PICK u \in 1 .. DpMaxVersion :
          u = IF DP!Drafts(r) /\ dpDraft.kind = "link" THEN dpVersion + 1 ELSE dpUrl
    BY <1>1 DEF DpTyped, DpDraftOK, DP!Drafts
  <2> DEFINE c == [dpCall[r] EXCEPT !.pc = "mark", !.stamp = dpTime + 1, !.url = u]
  <2>3. c \in DpCall /\ c.pc = "mark" /\ c.stamp = dpTime + 1 /\ c.url = u
        /\ c.seen = dpCall[r].seen
    <3>1. dpTime + 1 \in 0 .. DpMaxTime /\ "mark" \in DpPcs /\ u \in 0 .. DpMaxVersion
      BY <1>1, <2>1 DEF DpPcs
    <3> QED BY <2>1, <3>1 DEF DpCall
  <2>4. dpCall' = [dpCall EXCEPT ![r] = c]
    BY <1>6, <2>2 DEF DP!Look
  <2> HIDE DEF c
  <2>5. DpCallOK(c, dpTime', dpVersion')
    BY <1>1, <2>1, <2>2, <2>3 DEF DpCallOK
  <2>6. \A j \in dpJobs' : j.created <= dpTime'
    BY <1>1, <2>1 DEF DpJob
  <2>7. dpModified' \in 0 .. dpTime' /\ dpVersion' \in dpVersion .. DpMaxVersion
        /\ dpUrl' \in 1 .. dpVersion'
    BY <1>1, <2>1
  <2>8. DpDraftOK(dpDraft', dpTime', dpVersion')
        /\ \A q \in DpRequests : DP!Drafts(q)' <=> DP!Drafts(q)
    BY <1>1, <2>1 DEF DpTyped, DpDraftOK, DP!Drafts, DpDraft
  <2> QED BY <1>1, <2>1, <2>3, <2>4, <2>5, <2>6, <2>7, <2>8, DpTypedMoves
<1>7. CASE DP!Mark(r)
  <2>1. dpCall[r].stamp # 0 /\ dpCall[r].url # 0
    BY <1>7 DEF DP!Mark, DP!At, DpTyped, DpCallOK
  <2> QED BY <1>1, <1>2, <1>7, <2>1 DEF DP!Mark, DP!At, DpPcs
<1>8. ASSUME DP!At(r, "post"), DP!Accept(r)
      PROVE  dpJobs' \subseteq DpJob /\ \A j \in dpJobs' : j.created <= dpTime
  <2>1. dpCall[r] \in DpCall /\ DpCallOK(dpCall[r], dpTime, dpVersion)
        /\ dpCall[r].stamp # 0 /\ dpCall[r].url # 0
    BY <1>8 DEF DP!At, DpTyped, DpCallOK
  <2> DEFINE j == [created |-> dpCall[r].stamp, url |-> dpCall[r].url, loaded |-> 0]
  <2>2. j \in DpJob /\ j.created <= dpTime
    BY <2>1 DEF DpJob, DpCall, DpCallOK
  <2>3. dpJobs' = dpJobs \cup {j}
    BY <1>8 DEF DP!Accept
  <2> HIDE DEF j
  <2> QED BY <1>1, <2>2, <2>3
<1>9. CASE DP!Post(r)
  BY <1>1, <1>2, <1>8, <1>9 DEF DP!Post, DP!At, DpPcs
<1>10. CASE DP!PostFails(r)
  BY <1>1, <1>2, <1>8, <1>10 DEF DP!PostFails, DP!At, DpPcs
<1>11. CASE DP!Failed(r)
  BY <1>1, <1>2, <1>11 DEF DP!Failed, DP!At, DpPcs
<1>12. CASE DP!Accepted(r)
  BY <1>1, <1>2, <1>12 DEF DP!Accepted, DP!At, DpPcs
<1> QED BY <1>3, <1>4, <1>5, <1>6, <1>7, <1>9, <1>10, <1>11, <1>12

\* A step of DataPusher that calls nobody.
LEMMA DpTypedStays ==
  ASSUME DpTyped, UNCHANGED <<dpTime, DP!resource, dpTask, dpCall>>,
         dpLoaded' \in 0 .. DpMaxVersion,
         dpJobs' \subseteq DpJob, \A j \in dpJobs' : j.created <= dpTime
  PROVE  DpTyped'
BY DEF DpTyped, DP!resource, DP!At, DP!Drafts

LEMMA DpTypedService ==
  ASSUME DpConstantsOK, DpTyped, NEW j \in dpJobs,
         \/ DP!Fetch(j)
         \/ \E r \in DpRequests, status \in DpOutcomes : DP!Report(j, r, status)
  PROVE  DpTyped'
<1> USE DEF DpConstantsOK
<1>1. /\ dpTime \in Nat /\ dpVersion \in 1 .. DpMaxVersion
      /\ dpLoaded \in 0 .. DpMaxVersion /\ dpJobs \subseteq DpJob
      /\ \A k \in dpJobs : k.created <= dpTime
      /\ dpTask \in DpTasks
  BY DEF DpTyped
<1>2. j \in DpJob /\ j.created \in 1 .. DpMaxTime /\ j.created <= dpTime
      /\ j.loaded \in 0 .. DpMaxVersion /\ j.url \in 1 .. DpMaxVersion
  BY <1>1 DEF DpJob
<1>3. CASE DP!Fetch(j)
  <2> DEFINE k == [j EXCEPT !.loaded = dpVersion]
  <2>1. k \in DpJob /\ k.created <= dpTime
    BY <1>1, <1>2 DEF DpJob
  <2>2. dpJobs' = (dpJobs \ {j}) \cup {k}
    BY <1>3 DEF DP!Fetch
  <2> HIDE DEF k
  <2> QED BY <1>1, <1>3, <2>1, <2>2, DpTypedStays DEF DP!Fetch
<1>4. ASSUME NEW r \in DpRequests, NEW status \in DpOutcomes, DP!Report(j, r, status)
      PROVE  DpTyped'
  <2>1. /\ dpJobs' = dpJobs \ {j} /\ dpLoaded' \in 0 .. DpMaxVersion
        /\ UNCHANGED <<dpTime, DP!resource, dpTask>>
    BY <1>1, <1>2, <1>4 DEF DP!Report
  <2>2. CASE UNCHANGED dpCall
    BY <1>1, <2>1, <2>2, DpTypedStays
  <2>3. CASE DP!Begin(r, "hook", j.created, j.url, status)
    BY <1>1, <1>2, <2>1, <2>3, DpBeginTyped DEF DpPcs
  <2> QED BY <1>4, <2>2, <2>3 DEF DP!Report
<1> QED BY <1>3, <1>4

LEMMA DpTypedHooks ==
  ASSUME DpConstantsOK, DpTyped, NEW r \in DpRequests, DP!Hook(r) \/ DP!HookWrite(r)
  PROVE  DpTyped'
<1> USE DEF DpConstantsOK
<1>1. /\ dpTime \in Nat /\ dpVersion \in 1 .. DpMaxVersion
      /\ dpLoaded \in 0 .. DpMaxVersion /\ dpJobs \subseteq DpJob
      /\ \A k \in dpJobs : k.created <= dpTime
      /\ dpTask \in DpTasks /\ DpOutcomes \subseteq DpTasks
  BY DEF DpTyped, DpTasks, DpOutcomes
<1>2. dpCall[r] \in DpCall /\ DpCallOK(dpCall[r], dpTime, dpVersion)
      /\ dpCall[r] # Missing /\ dpCall[r].status \in DpOutcomes
  BY DEF DpTyped, DP!Hook, DP!HookWrite, DP!At, DpCallOK
<1>3. CASE DP!Hook(r)
  <2>1. PICK b \in BOOLEAN :
          b = (dpCall[r].status = "complete"
                 /\ DP!ModifiedSince(dpCall[r].stamp, dpCall[r].url))
    OBVIOUS
  <2> DEFINE c == [dpCall[r] EXCEPT !.pc = "hook_write", !.seen = dpVersion,
                                  !.resubmit = b]
  <2>2. c \in DpCall /\ c.pc = "hook_write" /\ c.stamp = dpCall[r].stamp
        /\ c.seen = dpVersion /\ c.status = dpCall[r].status
    <3>1. dpVersion \in 0 .. DpMaxVersion /\ "hook_write" \in DpPcs
      BY <1>1 DEF DpPcs
    <3> QED BY <1>2, <2>1, <3>1 DEF DpCall
  <2>3. dpCall' = [dpCall EXCEPT ![r] = c]
    BY <1>3, <2>1 DEF DP!Hook
  <2> HIDE DEF c
  <2>4. DpCallOK(c, dpTime, dpVersion) /\ c.pc # "commit"
    BY <1>1, <1>2, <2>2 DEF DpCallOK
  <2> QED BY <1>1, <1>2, <1>3, <2>2, <2>3, <2>4, DpTypedGoes DEF DP!Hook
<1>4. CASE DP!HookWrite(r)
  <2>1. dpTask' \in DpTasks /\ UNCHANGED <<dpTime, DP!resource, dpJobs, dpLoaded>>
    BY <1>1, <1>2, <1>4 DEF DP!HookWrite
  <2>2. CASE DP!End(r)
    <3>1. PICK c \in DpCall \cup {Missing} :
            /\ dpCall' = [dpCall EXCEPT ![r] = c]
            /\ c # Missing => /\ DpCallOK(c, dpTime, dpVersion) /\ DP!Drafts(r)
                              /\ c.pc = "commit"
      BY <2>2, DpEndIs
    <3> QED BY <1>1, <2>1, <3>1, DpTypedGoes
  <2>3. CASE DP!Go(r, "submit")
    <3> DEFINE c == [dpCall[r] EXCEPT !.pc = "submit"]
    <3>1. /\ c \in DpCall /\ c.pc = "submit" /\ c.stamp = dpCall[r].stamp
          /\ c.seen = dpCall[r].seen /\ dpCall' = [dpCall EXCEPT ![r] = c]
      BY <1>2, <2>3, DpGoIs DEF DpPcs
    <3> HIDE DEF c
    <3>2. DpCallOK(c, dpTime, dpVersion) /\ c.pc # "commit"
      BY <1>2, <3>1 DEF DpCallOK
    <3> QED BY <1>1, <1>2, <2>1, <3>1, <3>2, DpTypedGoes
  <2> QED BY <1>4, <2>2, <2>3 DEF DP!HookWrite
<1> QED BY <1>3, <1>4

LEMMA DpTypedStep == ASSUME DpConstantsOK
                     PROVE DpTyped /\ [DP!Next]_(DP!vars) => DpTyped'
<1> SUFFICES ASSUME DpTyped, [DP!Next]_(DP!vars) PROVE DpTyped'
  OBVIOUS
<1>1. CASE UNCHANGED DP!vars
  BY <1>1, DpTypedStays DEF DP!vars, DpTyped, DP!resource
<1>2. CASE DP!Next
  BY <1>2, DpTypedSaves, DpTypedSubmits, DpTypedService, DpTypedHooks
     DEF DP!Next, DpOutcomes
<1> QED BY <1>1, <1>2

LEMMA DpTypedHolds == ASSUME DpConstantsOK PROVE DP!Spec => []DpTyped
<1>1. DP!Init => DpTyped
  BY DpTypedInit
<1>2. DpTyped /\ [DP!Next]_(DP!vars) => DpTyped'
  BY DpTypedStep
<1> QED BY <1>1, <1>2, PTL DEF DP!Spec

(* Timestamps, versions, drafts, tasks and jobs have their types; one save *)
(* at a time is under way, with a version left for it.                     *)
THEOREM DpTypeCorrect == ASSUME DpConstantsOK PROVE DP!Spec => []DP!TypeOK
<1>1. DpTyped => DP!TypeOK
  <2> SUFFICES ASSUME DpTyped PROVE DP!TypeOK
    OBVIOUS
  <2>1. \A j \in dpJobs : j \in [created : 1 .. dpTime, url : 1 .. DpMaxVersion,
                               loaded : 0 .. DpMaxVersion]
    BY DEF DpTyped, DpJob, DpConstantsOK
  <2>2. dpDraft = Missing \/ dpDraft \in
          [by : DpRequests, kind : {"upload", "link"}, stamp : 0 .. dpTime]
    BY DEF DpTyped, DpDraftOK, DpDraft, DpConstantsOK
  <2> QED BY <2>1, <2>2 DEF DpTyped, DP!TypeOK, DpTasks
<1> QED BY <1>1, DpTypedHolds, PTL

-----------------------------------------------------------------------------
(* The inductive invariant                                                 *)

\* A task that is submitting or pending is somebody's to end: of a job, of a
\* request that is to post one or to write that it failed, or of a hook.
DpClosing == {"post", "failed", "hook", "hook_write"}
DpCared ==
  dpExcuse \cap {"lost", "overtaken"} = {} /\ dpTask \in DP!Pending =>
    dpJobs # {} \/ \E r \in DpRequests : DpAtAny(r, DpClosing)

\* The stamp of an upload is no job's.
DpStamped == {"mark", "post", "hook"}
DpApart ==
  dpDraft # Missing /\ dpDraft.kind = "upload" =>
    /\ \A j \in dpJobs : j.created # dpDraft.stamp
    /\ \A q \in DpRequests : DpAtAny(q, DpStamped) => dpCall[q].stamp # dpDraft.stamp

\* One job at a time, or the hook of one.
DpHooking == {"hook", "hook_write"}
DpOneJob ==
  /\ \A j, k \in dpJobs : j = k
  /\ \A r \in DpRequests : DpAtAny(r, DpHooking) => dpJobs = {}
  /\ \A r, q \in DpRequests : DpAtAny(r, DpHooking) /\ DpAtAny(q, DpHooking) => r = q

\* A request that will submit a job, if the task is complete.
DpResubmitting == {"check", "submit", "mark"}
DpRescued == \E r \in DpRequests : DpAtAny(r, DpResubmitting)

\* What a job has read is the resource as it is, or a save after it tells.
DpJobsTold ==
  \A j \in dpJobs : j.loaded \notin {0, dpVersion} =>
    DP!ModifiedSince(j.created, j.url) /\ (dpTask = "complete" => DpRescued)

\* The same of what its hook reports, until the task is written.
DpHookTold(r) ==
  \/ dpLoaded = dpVersion
  \/ DP!At(r, "hook") /\ DP!ModifiedSince(dpCall[r].stamp, dpCall[r].url)
  \/ DP!At(r, "hook_write") /\ (dpCall[r].resubmit \/ dpCall[r].seen # dpVersion)
DpHooksTold ==
  \A r \in DpRequests :
    DpAtAny(r, DpHooking) /\ dpCall[r].status = "complete" => DpHookTold(r)

DpDone == dpTask = "complete" => dpLoaded = dpVersion \/ DpRescued

DpExcused == ~(dpExcuse \subseteq {"lost", "overtaken"})
DpTold == DpApart /\ DpOneJob /\ DpJobsTold /\ DpHooksTold /\ DpDone

DpInv == DpTyped /\ DpCared /\ (DpExcused \/ DpTold)

LEMMA DpInvInit == ASSUME DpConstantsOK PROVE DP!Init => DpInv
<1> SUFFICES ASSUME DP!Init PROVE DpInv
  OBVIOUS
<1>1. \A r \in DpRequests : dpCall[r] = Missing
  BY DEF DP!Init
<1>2. DpCared /\ DpTold
  BY <1>1 DEF DP!Init, DpCared, DP!Pending, DpTold, DpApart, DpOneJob,
       DpJobsTold, DpHooksTold,
              DpDone, DP!At, DpAtAny
<1> QED BY <1>2, DpTypedInit DEF DpInv

\* A step of one request leaves the others where they are.
DpAlone(r) == \A q \in DpRequests : q # r => dpCall'[q] = dpCall[q]

\* A request that is over, or has returned to its save, is nowhere else.
DpLeft(r) == dpCall'[r] = Missing \/ dpCall'[r].pc = "commit"

LEMMA DpMovesAlone ==
  ASSUME DpConstantsOK, DpTyped, NEW r \in DpRequests
  PROVE  /\ \A c : dpCall' = [dpCall EXCEPT ![r] = c] => dpCall'[r] = c /\ DpAlone(r)
         /\ DP!End(r) => DpLeft(r) /\ DpAlone(r)
         /\ \A pc \in DpPcs : dpCall[r] # Missing /\ DP!Go(r, pc) =>
              /\ dpCall'[r] # Missing /\ dpCall'[r].pc = pc
              /\ dpCall'[r].stamp = dpCall[r].stamp /\ dpCall'[r].url = dpCall[r].url
              /\ DpAlone(r)
<1>1. ASSUME NEW c, dpCall' = [dpCall EXCEPT ![r] = c]
      PROVE  dpCall'[r] = c /\ DpAlone(r)
  BY <1>1 DEF DpTyped, DpAlone
<1>2. ASSUME NEW pc \in DpPcs, dpCall[r] # Missing, DP!Go(r, pc)
      PROVE  /\ dpCall'[r] # Missing /\ dpCall'[r].pc = pc
             /\ dpCall'[r].stamp = dpCall[r].stamp /\ dpCall'[r].url = dpCall[r].url
             /\ DpAlone(r)
  <2> DEFINE c == [dpCall[r] EXCEPT !.pc = pc]
  <2>1. /\ c \in DpCall /\ c.pc = pc /\ c.stamp = dpCall[r].stamp
        /\ c.url = dpCall[r].url /\ dpCall' = [dpCall EXCEPT ![r] = c]
    BY <1>2, DpGoIs
  <2> HIDE DEF c
  <2> QED BY <1>1, <2>1 DEF DpConstantsOK
<1>3. ASSUME DP!End(r) PROVE DpLeft(r) /\ DpAlone(r)
  <2>1. PICK c \in DpCall \cup {Missing} :
          dpCall' = [dpCall EXCEPT ![r] = c] /\ (c # Missing => c.pc = "commit")
    BY <1>3, DpEndIs
  <2> QED BY <1>1, <2>1 DEF DpLeft
<1> QED BY <1>1, <1>2, <1>3

\* The beginning of a call.
LEMMA DpBeginIs ==
  ASSUME DpConstantsOK, DpTyped, NEW r \in DpRequests, NEW pc \in DpPcs,
         NEW s \in 0 .. DpMaxTime, NEW u \in 0 .. DpMaxVersion,
         NEW status \in DpOutcomes \cup {Missing}, DP!Begin(r, pc, s, u, status)
  PROVE  /\ dpCall[r] = Missing /\ dpCall'[r] # Missing /\ dpCall'[r].pc = pc
         /\ dpCall'[r].stamp = s /\ dpCall'[r].url = u
         /\ dpCall'[r].status = status /\ DpAlone(r)
<1> DEFINE c == DP!Doing(pc, s, u, status)
<1>1. /\ c \in DpCall /\ c # Missing /\ c.pc = pc /\ c.stamp = s /\ c.url = u
      /\ c.status = status
  BY DpDoingIs
<1>2. dpCall' = [dpCall EXCEPT ![r] = c] /\ dpCall[r] = Missing
  BY DEF DP!Begin
<1> HIDE DEF c
<1> QED BY <1>1, <1>2, DpMovesAlone

-----------------------------------------------------------------------------
(* Steps that touch neither the resource nor the jobs                      *)

\* Where a request comes from and goes to in such a step; it may begin a
\* save, or give one up.
LEMMA DpQuietStep ==
  ASSUME DpConstantsOK, DpTyped, DpTyped', NEW r \in DpRequests, DpAlone(r),
         UNCHANGED <<dpVersion, dpUrl, dpModified, dpJobs, dpLoaded>>,
         ~DpAtAny(r, DpHooking), ~DpAtAny(r, DpHooking)',
         \/ dpDraft' = dpDraft \/ dpDraft' = Missing
         \/ dpDraft'.kind = "upload" => dpDraft'.stamp = dpTime + 1,
         DpAtAny(r, DpStamped)' =>
           \/ dpCall'[r].stamp = dpTime + 1 /\ dpDraft' = dpDraft
           \/ DpAtAny(r, DpStamped) /\ dpCall'[r].stamp = dpCall[r].stamp,
         dpTask' = "complete" =>
           dpTask = "complete" /\ (DpAtAny(r, DpResubmitting) => DpAtAny(r, DpResubmitting)'),
         DpTold
  PROVE  DpTold'
<1>1. \A q \in DpRequests \ {r} : \A pcs : DpAtAny(q, pcs)' <=> DpAtAny(q, pcs)
  BY DEF DpAlone, DpAtAny
<1>2. \A q \in DpRequests \ {r} : \A pc : DP!At(q, pc)' <=> DP!At(q, pc)
  BY DEF DpAlone, DP!At
<1>3. dpTime \in Nat /\ \A j \in dpJobs : j.created \in Nat /\ j.created <= dpTime
  BY DEF DpTyped, DpConstantsOK, DpJob
<1>4. \A q \in DpRequests : dpCall[q] # Missing =>
        dpCall[q].stamp \in Nat /\ dpCall[q].stamp <= dpTime
  BY DEF DpTyped, DpCall, DpCallOK
<1>5. DpOneJob'
  BY <1>1 DEF DpTold, DpOneJob
<1>6. DpRescued /\ dpTask' = "complete" => DpRescued'
  BY <1>1 DEF DpRescued
<1>7. \A s, u : DP!ModifiedSince(s, u)' <=> DP!ModifiedSince(s, u)
  BY DEF DP!ModifiedSince
<1>8. DpJobsTold' /\ DpDone'
  BY <1>6, <1>7 DEF DpTold, DpJobsTold, DpDone
<1>9. DpHooksTold'
  <2> SUFFICES ASSUME NEW q \in DpRequests, DpAtAny(q, DpHooking)',
                      dpCall'[q].status = "complete"
               PROVE  DpHookTold(q)'
    BY DEF DpHooksTold
  <2>1. q # r /\ dpCall'[q] = dpCall[q] /\ DpAtAny(q, DpHooking)
    BY <1>1 DEF DpAlone
  <2>2. DpHookTold(q)
    BY <2>1 DEF DpTold, DpHooksTold
  <2> QED BY <1>2, <1>7, <2>1, <2>2 DEF DpHookTold
<1>10. DpApart'
  <2> SUFFICES ASSUME dpDraft' # Missing, dpDraft'.kind = "upload"
               PROVE  /\ \A j \in dpJobs : j.created # dpDraft'.stamp
                      /\ \A q \in DpRequests :
                           DpAtAny(q, DpStamped)' => dpCall'[q].stamp # dpDraft'.stamp
    BY DEF DpApart
  <2>1. CASE dpDraft' = dpDraft
    <3>1. /\ \A j \in dpJobs : j.created # dpDraft.stamp
          /\ \A q \in DpRequests : DpAtAny(q, DpStamped) => dpCall[q].stamp # dpDraft.stamp
      BY <2>1 DEF DpTold, DpApart
    <3>2. dpDraft.stamp \in Nat /\ dpDraft.stamp <= dpTime
      BY <2>1 DEF DpTyped, DpDraftOK, DpDraft
    <3>3. ASSUME NEW q \in DpRequests, DpAtAny(q, DpStamped)'
          PROVE  dpCall'[q].stamp # dpDraft.stamp
      <4>1. CASE q # r
        BY <1>1, <3>1, <3>3, <4>1 DEF DpAlone
      <4>2. CASE q = r
        BY <1>3, <3>1, <3>2, <3>3, <4>2
      <4> QED BY <4>1, <4>2
    <3> QED BY <2>1, <3>1, <3>3
  <2>2. CASE dpDraft' # dpDraft
    <3>1. dpDraft'.stamp = dpTime + 1
      BY <2>2
    <3>2. ASSUME NEW q \in DpRequests, DpAtAny(q, DpStamped)'
          PROVE  dpCall'[q].stamp # dpDraft'.stamp
      <4>1. CASE q # r
        <5>1. dpCall'[q] = dpCall[q] /\ dpCall[q] # Missing
          BY <3>2, <4>1 DEF DpAlone, DpAtAny
        <5> QED BY <1>3, <1>4, <3>1, <5>1
      <4>2. CASE q = r
        <5>1. DpAtAny(r, DpStamped) /\ dpCall'[r].stamp = dpCall[r].stamp
          BY <2>2, <3>2, <4>2
        <5>2. dpCall[r] # Missing
          BY <5>1 DEF DpAtAny
        <5> QED BY <1>3, <1>4, <3>1, <4>2, <5>1, <5>2
      <4> QED BY <4>1, <4>2
    <3> QED BY <1>3, <3>1, <3>2
  <2> QED BY <2>1, <2>2
<1> QED BY <1>5, <1>8, <1>9, <1>10 DEF DpTold

LEMMA DpCaredKept ==
  ASSUME NEW r \in DpRequests, DpAlone(r), ~DpAtAny(r, DpClosing),
         dpJobs' = dpJobs, dpExcuse \subseteq dpExcuse',
         "overtaken" \notin dpExcuse' /\ dpTask' \in DP!Pending => dpTask \in DP!Pending,
         DpCared
  PROVE  DpCared'
<1>1. \A q \in DpRequests : DpAtAny(q, DpClosing) => DpAtAny(q, DpClosing)'
  BY DEF DpAlone, DpAtAny
<1> QED BY <1>1 DEF DpCared

LEMMA DpQuietInv ==
  ASSUME DpConstantsOK, DpInv, DpTyped', NEW r \in DpRequests,
         \/ \E kind \in {"upload", "link"} : DP!Modify(r, kind)
         \/ DP!Edit(r) \/ DP!Check(r) \/ DP!Rollback(r) \/ DP!SubmitByUser(r)
         \/ DP!SkipDuplicate(r) \/ DP!Look(r) \/ DP!Mark(r) \/ DP!Failed(r) \/ DP!Accepted(r)
  PROVE  DpCared' /\ (DpTold => DpTold')
<1> USE DEF DpAtAny, DP!At, DpClosing, DpHooking, DpResubmitting, DpStamped
<1>1. DpTyped
  BY DEF DpInv
<1>2. DpCared
  BY DEF DpInv
<1>3. ASSUME NEW kind \in {"upload", "link"}, DP!Modify(r, kind)
      PROVE  DpCared' /\ (DpTold => DpTold')
  <2>1. /\ dpCall[r] = Missing /\ dpCall'[r] # Missing /\ dpCall'[r].pc = "check"
        /\ DpAlone(r)
    BY <1>1, <1>3, DpBeginIs DEF DP!Modify, DpPcs, DpConstantsOK
  <2>2. /\ UNCHANGED <<dpVersion, dpUrl, dpModified, dpJobs, dpLoaded, dpTask, dpExcuse>>
        /\ kind = "upload" => dpDraft'.stamp = dpTime + 1
        /\ dpDraft'.kind = kind
    BY <1>3 DEF DP!Modify, DP!Stamp
  <2>3. DpCared'
    BY <1>2, <2>1, <2>2, DpCaredKept
  <2>4. DpTold => DpTold'
    BY <1>1, <2>1, <2>2, DpQuietStep
  <2> QED BY <2>3, <2>4
<1>4. CASE DP!Edit(r) \/ DP!SubmitByUser(r)
  <2>1. /\ dpCall[r] = Missing /\ dpCall'[r] # Missing /\ DpAlone(r)
        /\ dpCall'[r].pc = "check" \/ dpCall'[r].pc = "submit"
    BY <1>1, <1>4, DpBeginIs DEF DP!Edit, DP!SubmitByUser, DpPcs, DpConstantsOK
  <2>2. UNCHANGED <<dpVersion, dpUrl, dpModified, dpDraft, dpJobs, dpLoaded, dpTask, dpExcuse>>
    BY <1>4 DEF DP!Edit, DP!SubmitByUser, DP!resource
  <2>3. DpCared'
    BY <1>2, <2>1, <2>2, DpCaredKept
  <2>4. DpTold => DpTold'
    BY <1>1, <2>1, <2>2, DpQuietStep
  <2> QED BY <2>3, <2>4
<1>5. CASE DP!Check(r)
  <2>1. /\ dpCall[r] # Missing /\ dpCall[r].pc = "check" /\ DpAlone(r)
        /\ \/ dpTask \in DP!Pending /\ DpLeft(r)
           \/ dpTask \notin DP!Pending /\ dpCall'[r] # Missing
              /\ dpCall'[r].pc = "submit"
    BY <1>1, <1>5, DpMovesAlone DEF DP!Check, DpPcs
  <2>2. UNCHANGED <<dpVersion, dpUrl, dpModified, dpDraft, dpJobs, dpLoaded, dpTask, dpExcuse>>
    BY <1>5 DEF DP!Check, DP!resource
  <2>3. DpCared'
    BY <1>2, <2>1, <2>2, DpCaredKept
  <2>4. DpTold => DpTold'
    BY <1>1, <2>1, <2>2, DpQuietStep DEF DP!Pending, DpLeft
  <2> QED BY <2>3, <2>4
<1>6. CASE DP!Rollback(r)
  <2>1. /\ dpCall[r] # Missing /\ dpCall[r].pc = "commit" /\ DpAlone(r)
        /\ dpCall'[r] = Missing
    BY <1>1, <1>6, DpMovesAlone DEF DP!Rollback
  <2>2. /\ UNCHANGED <<dpVersion, dpUrl, dpModified, dpJobs, dpLoaded, dpTask, dpExcuse>>
        /\ dpDraft' = Missing
    BY <1>6 DEF DP!Rollback
  <2>3. DpCared'
    BY <1>2, <2>1, <2>2, DpCaredKept
  <2>4. DpTold => DpTold'
    BY <1>1, <2>1, <2>2, DpQuietStep
  <2> QED BY <2>3, <2>4
<1>7. CASE DP!SkipDuplicate(r)
  <2>1. /\ dpCall[r] # Missing /\ dpCall[r].pc = "submit" /\ DpAlone(r)
        /\ DpLeft(r) /\ dpTask = "pending"
    BY <1>1, <1>7, DpMovesAlone DEF DP!SkipDuplicate
  <2>2. UNCHANGED <<dpVersion, dpUrl, dpModified, dpDraft, dpJobs, dpLoaded, dpTask, dpExcuse>>
    BY <1>7 DEF DP!SkipDuplicate, DP!resource
  <2>3. DpCared'
    BY <1>2, <2>1, <2>2, DpCaredKept
  <2>4. DpTold => DpTold'
    BY <1>1, <2>1, <2>2, DpQuietStep DEF DpLeft
  <2> QED BY <2>3, <2>4
<1>8. CASE DP!Look(r)
  <2>1. dpCall[r] # Missing /\ dpCall[r].pc = "submit" /\ dpCall[r] \in DpCall
    BY <1>1, <1>8 DEF DP!Look, DpTyped
  <2>2. /\ DpAlone(r) /\ dpCall'[r].pc = "mark" /\ dpCall'[r].stamp = dpTime + 1
        /\ dpCall'[r] # Missing
    <3> DEFINE u == IF DP!Drafts(r) /\ dpDraft.kind = "link" THEN dpVersion + 1 ELSE dpUrl
               c == [dpCall[r] EXCEPT !.pc = "mark", !.stamp = dpTime + 1, !.url = u]
    <3>1. dpCall' = [dpCall EXCEPT ![r] = c]
      BY <1>8 DEF DP!Look
    <3>2. c.pc = "mark" /\ c.stamp = dpTime + 1
      BY <2>1 DEF DpCall
    <3>3. c \in DpCall
      <4>1. dpTime + 1 \in 0 .. DpMaxTime /\ "mark" \in DpPcs /\ u \in 0 .. DpMaxVersion
        BY <1>1, <1>8
           DEF DP!Look, DP!Stamp, DpTyped, DpConstantsOK, DpPcs, DpDraftOK, DP!Drafts
      <4> HIDE DEF u
      <4> QED BY <2>1, <4>1 DEF DpCall
    <3> HIDE DEF c
    <3>4. c # Missing
      BY <3>3 DEF DpConstantsOK
    <3> QED BY <1>1, <3>1, <3>2, <3>4, DpMovesAlone
  <2>3. UNCHANGED <<dpVersion, dpUrl, dpModified, dpDraft, dpJobs, dpLoaded, dpTask, dpExcuse>>
    BY <1>8 DEF DP!Look, DP!resource
  <2>4. DpCared'
    BY <1>2, <2>1, <2>2, <2>3, DpCaredKept
  <2>5. DpTold => DpTold'
    BY <1>1, <2>1, <2>2, <2>3, DpQuietStep
  <2> QED BY <2>4, <2>5
<1>9. CASE DP!Mark(r)
  <2>1. /\ dpCall[r] # Missing /\ dpCall[r].pc = "mark" /\ DpAlone(r)
        /\ dpCall'[r] # Missing /\ dpCall'[r].pc = "post"
        /\ dpCall'[r].stamp = dpCall[r].stamp
    BY <1>1, <1>9, DpMovesAlone DEF DP!Mark, DpPcs
  <2>2. UNCHANGED <<dpVersion, dpUrl, dpModified, dpDraft, dpJobs, dpLoaded, dpExcuse>>
        /\ dpTask' = "submitting"
    BY <1>9 DEF DP!Mark, DP!resource
  <2>3. DpCared'
    BY <2>1 DEF DpCared
  <2>4. DpTold => DpTold'
    BY <1>1, <2>1, <2>2, DpQuietStep
  <2> QED BY <2>3, <2>4
<1>10. CASE DP!Failed(r)
  <2>1. /\ dpCall[r] # Missing /\ dpCall[r].pc = "failed" /\ DpAlone(r)
        /\ DpLeft(r)
    BY <1>1, <1>10, DpMovesAlone DEF DP!Failed
  <2>2. UNCHANGED <<dpVersion, dpUrl, dpModified, dpDraft, dpJobs, dpLoaded, dpExcuse>>
        /\ dpTask' = "error"
    BY <1>10 DEF DP!Failed, DP!resource
  <2>3. DpCared'
    BY <2>2 DEF DpCared, DP!Pending
  <2>4. DpTold => DpTold'
    BY <1>1, <2>1, <2>2, DpQuietStep DEF DpLeft
  <2> QED BY <2>3, <2>4
<1>11. CASE DP!Accepted(r)
  <2>1. /\ dpCall[r] # Missing /\ dpCall[r].pc = "accepted" /\ DpAlone(r)
        /\ DpLeft(r)
    BY <1>1, <1>11, DpMovesAlone DEF DP!Accepted
  <2>2. UNCHANGED <<dpVersion, dpUrl, dpModified, dpDraft, dpJobs, dpLoaded>>
        /\ dpTask' = "pending" /\ dpExcuse \subseteq dpExcuse'
        /\ ("overtaken" \notin dpExcuse' => dpTask \in DP!Pending)
    BY <1>11 DEF DP!Accepted, DP!resource
  <2>3. DpCared'
    BY <1>2, <2>1, <2>2, DpCaredKept
  <2>4. DpTold => DpTold'
    BY <1>1, <2>1, <2>2, DpQuietStep DEF DpLeft
  <2> QED BY <2>3, <2>4
<1> QED BY <1>3, <1>4, <1>5, <1>6, <1>7, <1>8, <1>9, <1>10, <1>11

-----------------------------------------------------------------------------
(* Saves and jobs                                                          *)

LEMMA DpSaveUnderWay ==
  ASSUME DpTyped, NEW r \in DpRequests, DP!At(r, "commit")
  PROVE  dpDraft # Missing /\ dpDraft \in DpDraft
<1>1. DP!Drafts(r)
  BY DEF DpTyped
<1> QED BY <1>1 DEF DpTyped, DpDraftOK, DP!Drafts

\* A save that is committed is made out from what was read before it, or has
\* an excuse.
LEMMA DpCommitTells ==
  ASSUME DpConstantsOK, DpTyped, NEW r \in DpRequests, NEW again \in BOOLEAN,
         DP!Commit(r, again), NEW s \in Nat, NEW u \in 0 .. DpMaxVersion,
         ~DP!Missed(s, u), dpDraft.kind = "upload" => s # dpDraft.stamp
  PROVE  DP!ModifiedSince(s, u)'
<1>1. dpDraft # Missing /\ dpDraft \in DpDraft
  BY DpSaveUnderWay DEF DP!Commit
<1>2. dpDraft.stamp \in Nat /\ dpDraft.kind \in {"upload", "link"}
  BY <1>1 DEF DpDraft
<1>3. CASE dpDraft.kind = "upload"
  <2>1. dpModified' = dpDraft.stamp /\ ~(s > dpDraft.stamp) /\ s # dpDraft.stamp
    BY <1>3 DEF DP!Commit, DP!Missed
  <2> QED BY <1>2, <2>1 DEF DP!ModifiedSince
<1>4. CASE dpDraft.kind = "link"
  <2>1. dpModified' = 0 /\ dpUrl' = dpVersion + 1 /\ u # dpVersion + 1
    BY <1>4 DEF DP!Commit, DP!Missed
  <2> QED BY <2>1 DEF DP!ModifiedSince
<1> QED BY <1>2, <1>3, <1>4

LEMMA DpCommitInv ==
  ASSUME DpConstantsOK, DpInv, DpTyped', NEW r \in DpRequests, NEW again \in BOOLEAN,
         DP!Commit(r, again)
  PROVE  DpCared' /\ (DpTold /\ ~DpExcused' => DpTold')
<1>1. DpTyped /\ dpVersion \in Nat /\ dpDraft # Missing
  <2>1. DpTyped
    BY DEF DpInv
  <2>2. dpVersion \in Nat
    BY <2>1 DEF DpTyped, DpConstantsOK
  <2> QED BY <2>1, <2>2, DpSaveUnderWay DEF DP!Commit
<1>2. /\ dpCall[r] # Missing /\ dpCall[r].pc = "commit" /\ DpAlone(r)
      /\ \/ again /\ dpCall'[r] # Missing /\ dpCall'[r].pc = "check"
         \/ ~again /\ dpCall'[r] = Missing
  BY <1>1, DpMovesAlone DEF DP!Commit, DP!At, DpPcs
<1>3. /\ UNCHANGED <<dpTime, dpTask, dpJobs, dpLoaded>> /\ dpExcuse \subseteq dpExcuse'
      /\ dpVersion' = dpVersion + 1 /\ dpDraft' = Missing
  BY DEF DP!Commit
<1>4. DpCared'
  <2>1. ~DpAtAny(r, DpClosing)
    BY <1>2 DEF DpAtAny, DpClosing
  <2> QED BY <1>2, <1>3, <2>1, DpCaredKept DEF DpInv
<1>5. ASSUME DpTold, ~DpExcused' PROVE DpTold'
  <2>1. ~DP!ReadEarly /\ (dpTask = "complete" => again)
    BY <1>5 DEF DP!Commit, DpExcused
  <2>2. dpTask = "complete" => DpRescued'
    BY <1>2, <2>1 DEF DpRescued, DpAtAny, DpResubmitting
  <2>3. \A q \in DpRequests : \A pcs : r # q => (DpAtAny(q, pcs)' <=> DpAtAny(q, pcs))
    BY <1>2 DEF DpAlone, DpAtAny
  <2>4. \A q \in DpRequests, pc \in DpPcs : r # q => (DP!At(q, pc)' <=> DP!At(q, pc))
    BY <1>2 DEF DpAlone, DP!At
  <2>5. ~DpAtAny(r, DpHooking)'
    BY <1>2 DEF DpAtAny, DpHooking
  <2>6. DpJobsTold' /\ DpDone'
    <3>1. ASSUME NEW j \in dpJobs, j.loaded # 0
          PROVE  DP!ModifiedSince(j.created, j.url)'
      <4>1. j.created \in Nat /\ j.url \in 0 .. DpMaxVersion
        BY <1>1 DEF DpTyped, DpJob, DpConstantsOK
      <4>2. dpDraft.kind = "upload" => j.created # dpDraft.stamp
        BY <1>1, <1>5 DEF DpTold, DpApart
      <4>3. ~DP!Missed(j.created, j.url)
        BY <2>1, <3>1 DEF DP!ReadEarly
      <4> QED BY <1>1, <4>1, <4>2, <4>3, DpCommitTells
    <3> QED BY <1>3, <2>2, <3>1 DEF DpJobsTold, DpDone, DP!ModifiedSince
  <2>7. DpOneJob'
    BY <1>3, <1>5, <2>3, <2>5 DEF DpTold, DpOneJob
  <2>8. DpApart'
    BY <1>3 DEF DpApart
  <2>9. DpHooksTold'
    <3> SUFFICES ASSUME NEW q \in DpRequests, DpAtAny(q, DpHooking)'
                 PROVE  DpHookTold(q)'
      BY DEF DpHooksTold
    <3>1. q # r /\ dpCall'[q] = dpCall[q] /\ DpAtAny(q, DpHooking)
      BY <1>2, <2>3, <2>5 DEF DpAlone
    <3>2. dpCall[q] \in DpCall /\ DpCallOK(dpCall[q], dpTime, dpVersion)
      BY <1>1, <3>1 DEF DpTyped, DpAtAny
    <3>3. CASE DP!At(q, "hook")
      <4>1. DpAtAny(q, DpStamped) /\ dpCall[q].stamp \in Nat
            /\ dpCall[q].url \in 0 .. DpMaxVersion
        BY <3>2, <3>3 DEF DP!At, DpAtAny, DpCall, DpStamped
      <4>2. dpDraft.kind = "upload" => dpCall[q].stamp # dpDraft.stamp
        BY <1>1, <1>5, <4>1 DEF DpTold, DpApart
      <4>3. ~DP!Missed(dpCall[q].stamp, dpCall[q].url)
        BY <2>1, <3>3 DEF DP!ReadEarly
      <4>4. PICK s \in Nat, u \in 0 .. DpMaxVersion :
              s = dpCall[q].stamp /\ u = dpCall[q].url
        BY <4>1
      <4>5. DP!ModifiedSince(s, u)'
        BY <1>1, <4>2, <4>3, <4>4, DpCommitTells
      <4>6. DP!At(q, "hook")'
        BY <2>4, <3>1, <3>3 DEF DpPcs
      <4> QED BY <3>1, <4>4, <4>5, <4>6 DEF DpHookTold, DP!ModifiedSince
    <3>4. CASE DP!At(q, "hook_write")
      <4>1. dpCall[q].seen # dpVersion'
        BY <1>1, <1>3, <3>2 DEF DpCall, DpCallOK, DpConstantsOK
      <4> QED BY <2>4, <3>1, <3>4, <4>1 DEF DpPcs, DpHookTold
    <3> QED BY <3>1, <3>3, <3>4 DEF DpAtAny, DP!At, DpHooking
  <2> QED BY <2>6, <2>7, <2>8, <2>9 DEF DpTold
<1> QED BY <1>4, <1>5

\* A job is accepted, or not, and its submission goes on.
LEMMA DpPostInv ==
  ASSUME DpConstantsOK, DpInv, DpTyped', NEW r \in DpRequests, DP!Post(r) \/ DP!PostFails(r)
  PROVE  DpCared' /\ (DpTold /\ ~DpExcused' => DpTold')
<1>1. DpTyped
  BY DEF DpInv
<1>2. /\ dpCall[r] # Missing /\ dpCall[r].pc = "post" /\ DP!At(r, "post")
  BY DEF DP!Post, DP!PostFails, DP!At
<1>3. /\ DpAlone(r) /\ dpCall'[r] # Missing
      /\ dpCall'[r].pc = "accepted" \/ dpCall'[r].pc = "failed"
      /\ DP!Accept(r) \/ (UNCHANGED <<dpJobs, dpExcuse>> /\ dpCall'[r].pc = "failed")
  BY <1>1, <1>2, DpMovesAlone DEF DP!Post, DP!PostFails, DpPcs
<1>4. UNCHANGED <<dpTime, dpVersion, dpUrl, dpModified, dpDraft, dpTask, dpLoaded>>
  BY DEF DP!Post, DP!PostFails, DP!resource
<1>5. /\ DpAtAny(r, DpStamped)
      /\ ~DpAtAny(r, DpHooking) /\ ~DpAtAny(r, DpResubmitting)
      /\ ~DpAtAny(r, DpHooking)' /\ ~DpAtAny(r, DpResubmitting)'
      /\ ~DpAtAny(r, DpStamped)'
  BY <1>2, <1>3 DEF DpAtAny, DP!At, DpHooking, DpResubmitting, DpStamped
<1>6. CASE UNCHANGED <<dpJobs, dpExcuse>> /\ dpCall'[r].pc = "failed"
  <2>1. DpCared'
    BY <1>3, <1>6 DEF DpCared, DpAtAny, DpClosing
  <2>2. DpTold => DpTold'
    BY <1>1, <1>3, <1>4, <1>5, <1>6, DpQuietStep
  <2> QED BY <2>1, <2>2
<1>7. CASE DP!Accept(r)
  <2> DEFINE j == [created |-> dpCall[r].stamp, url |-> dpCall[r].url, loaded |-> 0]
  <2>1. j.created = dpCall[r].stamp /\ j.loaded = 0
    OBVIOUS
  <2>2. dpJobs' = dpJobs \cup {j} /\ dpExcuse \subseteq dpExcuse'
    BY <1>7 DEF DP!Accept
  <2> HIDE DEF j
  <2>3. DpCared'
    BY <2>2 DEF DpCared
  <2>4. ASSUME DpTold, ~DpExcused' PROVE DpTold'
    <3>1. dpJobs = {} /\ \A q \in DpRequests : ~DP!At(q, "hook") /\ ~DP!At(q, "hook_write")
      BY <1>7, <2>4 DEF DP!Accept, DpExcused
    <3>2. \A q \in DpRequests : ~DpAtAny(q, DpHooking)
      BY <3>1 DEF DpAtAny, DP!At, DpHooking
    <3>3. \A q \in DpRequests : ~DpAtAny(q, DpHooking)'
      BY <1>3, <1>5, <3>2 DEF DpAlone, DpAtAny
    <3>4. dpJobs' = {j}
      BY <2>2, <3>1
    <3>5. DpOneJob' /\ DpHooksTold'
      BY <3>3, <3>4 DEF DpOneJob, DpHooksTold
    <3>6. DpJobsTold'
      BY <2>1, <3>4 DEF DpJobsTold
    <3>7. DpRescued => DpRescued'
      BY <1>3, <1>5 DEF DpRescued, DpAlone, DpAtAny
    <3>8. DpDone'
      BY <1>4, <2>4, <3>7 DEF DpTold, DpDone
    <3>9. DpApart'
      <4> SUFFICES ASSUME dpDraft # Missing, dpDraft.kind = "upload"
                   PROVE  /\ \A k \in dpJobs' : k.created # dpDraft.stamp
                          /\ \A q \in DpRequests : DpAtAny(q, DpStamped)' =>
                               dpCall'[q].stamp # dpDraft.stamp
        BY <1>4 DEF DpApart
      <4>1. j.created # dpDraft.stamp
        BY <1>5, <2>1, <2>4 DEF DpTold, DpApart
      <4>2. ASSUME NEW q \in DpRequests, DpAtAny(q, DpStamped)'
            PROVE  DpAtAny(q, DpStamped) /\ dpCall'[q] = dpCall[q]
        BY <1>3, <1>5, <4>2 DEF DpAlone, DpAtAny
      <4> QED BY <2>4, <3>4, <4>1, <4>2 DEF DpTold, DpApart
    <3> QED BY <3>5, <3>6, <3>8, <3>9 DEF DpTold
  <2> QED BY <2>3, <2>4
<1> QED BY <1>3, <1>6, <1>7

LEMMA DpFetchInv ==
  ASSUME DpConstantsOK, DpInv, DpTyped', NEW j \in dpJobs, DP!Fetch(j)
  PROVE  DpCared' /\ (DpTold => DpTold')
<1> DEFINE k == [j EXCEPT !.loaded = dpVersion]
<1>1. j \in DpJob
  BY DEF DpInv, DpTyped
<1>2. k.created = j.created /\ k.loaded = dpVersion
  BY <1>1 DEF DpJob
<1>3. /\ dpJobs' = (dpJobs \ {j}) \cup {k}
      /\ UNCHANGED <<dpTime, dpVersion, dpUrl, dpModified, dpDraft, dpTask, dpLoaded, dpCall, dpExcuse>>
  BY DEF DP!Fetch, DP!resource
<1> HIDE DEF k
<1>4. DpCared'
  BY <1>3 DEF DpCared
<1>5. ASSUME DpTold PROVE DpTold'
  <2>1. dpJobs' = {k} /\ \A q \in DpRequests : ~DpAtAny(q, DpHooking)
    BY <1>3, <1>5 DEF DpTold, DpOneJob
  <2>2. DpOneJob'
    BY <1>3, <2>1 DEF DpOneJob, DpAtAny
  <2>3. DpJobsTold'
    BY <1>2, <1>3, <2>1 DEF DpJobsTold
  <2>4. DpHooksTold' /\ DpDone'
    BY <1>3, <1>5, <2>1 DEF DpTold, DpHooksTold, DpDone, DpRescued, DpAtAny
  <2>5. DpApart'
    BY <1>2, <1>3, <1>5, <2>1 DEF DpTold, DpApart, DpAtAny
  <2> QED BY <2>2, <2>3, <2>4, <2>5 DEF DpTold
<1> QED BY <1>4, <1>5

\* What the hook is told was told of the job.
LEMMA DpReportInv ==
  ASSUME DpConstantsOK, DpInv, DpTyped', NEW j \in dpJobs, NEW r \in DpRequests,
         NEW status \in DpOutcomes, DP!Report(j, r, status)
  PROVE  DpCared' /\ (DpTold => DpTold')
<1>1. DpTyped /\ j \in DpJob
  BY DEF DpInv, DpTyped
<1>2. /\ dpJobs' = dpJobs \ {j}
      /\ UNCHANGED <<dpTime, dpVersion, dpUrl, dpModified, dpDraft, dpTask>>
      /\ status = "complete" => j.loaded # 0 /\ dpLoaded' = j.loaded
      /\ status # "complete" => dpLoaded' = dpLoaded
      /\ \/ DP!Begin(r, "hook", j.created, j.url, status)
         \/ "lost" \in dpExcuse' /\ UNCHANGED dpCall
      /\ dpExcuse \subseteq dpExcuse'
  BY DEF DP!Report, DP!resource
<1>3. ASSUME DpTold
      PROVE  /\ dpJobs' = {} /\ \A q \in DpRequests : ~DpAtAny(q, DpHooking)
             /\ dpTask = "complete" => dpLoaded' = dpVersion \/ DpRescued
             /\ status = "complete" =>
                  dpLoaded' = dpVersion \/ DP!ModifiedSince(j.created, j.url)
  BY <1>2, <1>3 DEF DpTold, DpOneJob, DpJobsTold, DpDone
<1>4. CASE "lost" \in dpExcuse' /\ UNCHANGED dpCall
  <2>1. DpCared'
    BY <1>4 DEF DpCared
  <2>2. ASSUME DpTold PROVE DpTold'
    <3>1. DpOneJob' /\ DpJobsTold' /\ DpHooksTold'
      BY <1>3, <1>4, <2>2 DEF DpOneJob, DpJobsTold, DpHooksTold, DpAtAny
    <3>2. DpDone'
      BY <1>2, <1>3, <1>4, <2>2 DEF DpDone, DpRescued, DpAtAny
    <3>3. DpApart'
      BY <1>2, <1>3, <1>4, <2>2 DEF DpTold, DpApart, DpAtAny
    <3> QED BY <3>1, <3>2, <3>3 DEF DpTold
  <2> QED BY <2>1, <2>2
<1>5. CASE DP!Begin(r, "hook", j.created, j.url, status)
  <2>1. /\ dpCall[r] = Missing /\ DpAlone(r) /\ dpCall'[r] # Missing
        /\ dpCall'[r].pc = "hook" /\ dpCall'[r].status = status
        /\ dpCall'[r].stamp = j.created /\ dpCall'[r].url = j.url
    BY <1>1, <1>5, DpBeginIs DEF DpPcs, DpJob, DpConstantsOK
  <2>2. DpCared'
    BY <2>1 DEF DpCared, DpAtAny, DpClosing
  <2>3. ASSUME DpTold PROVE DpTold'
    <3>1. \A q \in DpRequests : DpAtAny(q, DpHooking)' => q = r
      BY <1>3, <2>1, <2>3 DEF DpAlone, DpAtAny
    <3>2. DpOneJob' /\ DpJobsTold'
      BY <1>3, <2>3, <3>1 DEF DpOneJob, DpJobsTold
    <3>4. DpHooksTold'
      BY <1>2, <1>3, <2>1, <2>3, <3>1
         DEF DpHooksTold, DpHookTold, DP!At, DP!ModifiedSince
    <3>5. DpRescued => DpRescued'
      BY <2>1 DEF DpRescued, DpAlone, DpAtAny
    <3>6. DpDone'
      BY <1>2, <1>3, <2>3, <3>5 DEF DpDone
    <3>7. DpApart'
      <4> SUFFICES ASSUME dpDraft # Missing, dpDraft.kind = "upload",
                          NEW q \in DpRequests, DpAtAny(q, DpStamped)'
                   PROVE  dpCall'[q].stamp # dpDraft.stamp
        BY <1>2, <1>3, <2>3 DEF DpApart
      <4>1. CASE q = r
        BY <2>1, <2>3, <4>1 DEF DpTold, DpApart
      <4>2. CASE q # r
        BY <2>1, <2>3, <4>2 DEF DpTold, DpApart, DpAlone, DpAtAny
      <4> QED BY <4>1, <4>2
    <3> QED BY <3>2, <3>4, <3>6, <3>7 DEF DpTold
  <2> QED BY <2>2, <2>3
<1> QED BY <1>2, <1>4, <1>5

-----------------------------------------------------------------------------
(* datapusher_hook                                                         *)

\* A request that was with its hook is not about to submit a job it stamped.
LEMMA DpHookLeaves ==
  ASSUME DpTyped, NEW r \in DpRequests, DpAlone(r), DpAtAny(r, DpHooking), DpTold,
         UNCHANGED <<dpVersion, dpUrl, dpModified, dpDraft, dpJobs, dpLoaded>>,
         ~DpAtAny(r, DpStamped)'
  PROVE  /\ DpApart' /\ DpJobsTold' /\ dpJobs' = {}
         /\ \A q \in DpRequests : q # r => ~DpAtAny(q, DpHooking)'
         /\ DpOneJob'
         /\ DpRescued => DpRescued'
<1>1. dpJobs' = {} /\ \A q \in DpRequests : DpAtAny(q, DpHooking) => q = r
  BY DEF DpTold, DpOneJob
<1>2. \A q \in DpRequests : q # r => ~DpAtAny(q, DpHooking)'
  BY <1>1 DEF DpAlone, DpAtAny
<1>3. DpOneJob' /\ DpJobsTold'
  BY <1>1, <1>2 DEF DpOneJob, DpJobsTold
<1>4. DpRescued => DpRescued'
  BY DEF DpRescued, DpAlone, DpAtAny, DpHooking, DpResubmitting
<1>5. DpApart'
  <2> SUFFICES ASSUME dpDraft # Missing, dpDraft.kind = "upload",
                      NEW q \in DpRequests, DpAtAny(q, DpStamped)'
               PROVE  dpCall'[q].stamp # dpDraft.stamp
    BY <1>1 DEF DpApart
  <2>1. q # r /\ DpAtAny(q, DpStamped) /\ dpCall'[q] = dpCall[q]
    BY DEF DpAlone, DpAtAny
  <2> QED BY <2>1 DEF DpTold, DpApart
<1> QED BY <1>1, <1>2, <1>3, <1>4, <1>5

LEMMA DpHookInv ==
  ASSUME DpConstantsOK, DpInv, DpTyped', NEW r \in DpRequests, DP!Hook(r)
  PROVE  DpCared' /\ (DpTold => DpTold')
<1>1. DpTyped /\ dpCall[r] # Missing /\ dpCall[r].pc = "hook" /\ dpCall[r] \in DpCall
      /\ DpAtAny(r, DpHooking) /\ DP!At(r, "hook")
  BY DEF DpInv, DpTyped, DP!Hook, DP!At, DpAtAny, DpHooking
<1>2. UNCHANGED <<dpTime, dpVersion, dpUrl, dpModified, dpDraft, dpTask, dpJobs, dpLoaded, dpExcuse>>
  BY DEF DP!Hook, DP!resource
<1>3. PICK b \in BOOLEAN :
        b = (dpCall[r].status = "complete"
               /\ DP!ModifiedSince(dpCall[r].stamp, dpCall[r].url))
  OBVIOUS
<1> DEFINE c == [dpCall[r] EXCEPT !.pc = "hook_write", !.seen = dpVersion,
                                !.resubmit = b]
<1>4. dpCall' = [dpCall EXCEPT ![r] = c]
  BY <1>3 DEF DP!Hook
<1>5. c \in DpCall /\ c.pc = "hook_write" /\ c.status = dpCall[r].status
      /\ c.resubmit = b
  <2>1. dpVersion \in 0 .. DpMaxVersion /\ "hook_write" \in DpPcs
    BY <1>1 DEF DpTyped, DpPcs, DpConstantsOK
  <2> QED BY <1>1, <2>1 DEF DpCall
<1> HIDE DEF c
<1>6. /\ DpAlone(r) /\ dpCall'[r] # Missing /\ dpCall'[r].pc = "hook_write"
      /\ dpCall'[r].status = dpCall[r].status /\ dpCall'[r].resubmit = b
  <2>1. c # Missing
    BY <1>5 DEF DpConstantsOK
  <2> QED BY <1>1, <1>4, <1>5, <2>1, DpMovesAlone
<1>7. DpCared'
  BY <1>6, <1>2 DEF DpInv, DpCared, DpAlone, DpAtAny, DpClosing
<1>8. ASSUME DpTold PROVE DpTold'
  <2>1. ~DpAtAny(r, DpStamped)' /\ DP!At(r, "hook_write")'
    BY <1>6 DEF DP!At, DpAtAny, DpStamped
  <2>2. /\ DpApart' /\ DpJobsTold' /\ DpOneJob' /\ (DpRescued => DpRescued')
        /\ \A q \in DpRequests : q # r => ~DpAtAny(q, DpHooking)'
    BY <1>1, <1>2, <1>6, <1>8, <2>1, DpHookLeaves
  <2>3. DpDone'
    BY <1>2, <1>8, <2>2 DEF DpTold, DpDone
  <2>4. dpCall[r].status = "complete" =>
          dpLoaded = dpVersion \/ DP!ModifiedSince(dpCall[r].stamp, dpCall[r].url)
    BY <1>1, <1>8 DEF DpTold, DpHooksTold, DpHookTold, DP!At
  <2>5. DpHooksTold'
    BY <1>2, <1>3, <1>6, <2>1, <2>2, <2>4 DEF DpHooksTold, DpHookTold
  <2> QED BY <2>2, <2>3, <2>5 DEF DpTold
<1> QED BY <1>7, <1>8

LEMMA DpHookWriteInv ==
  ASSUME DpConstantsOK, DpInv, DpTyped', NEW r \in DpRequests, DP!HookWrite(r)
  PROVE  DpCared' /\ (DpTold /\ ~DpExcused' => DpTold')
<1>1. DpTyped /\ dpCall[r] # Missing /\ dpCall[r].pc = "hook_write"
      /\ DpAtAny(r, DpHooking) /\ DP!At(r, "hook_write") /\ dpCall[r].status \in DpOutcomes
  BY DEF DpInv, DpTyped, DP!HookWrite, DP!At, DpAtAny, DpHooking, DpCallOK
<1>2. /\ UNCHANGED <<dpTime, dpVersion, dpUrl, dpModified, dpDraft, dpJobs, dpLoaded>>
      /\ dpTask' = dpCall[r].status
      /\ ~DpExcused' => dpCall[r].seen = dpVersion
      /\ IF dpCall[r].resubmit THEN DP!Go(r, "submit") ELSE DP!End(r)
  BY DEF DP!HookWrite, DpExcused, DP!resource
<1>3. /\ DpAlone(r)
      /\ ~dpCall[r].resubmit => DpLeft(r)
      /\ dpCall[r].resubmit => dpCall'[r] # Missing /\ dpCall'[r].pc = "submit"
  BY <1>1, <1>2, DpMovesAlone DEF DpPcs
<1>4. DpCared'
  BY <1>1, <1>2 DEF DpCared, DP!Pending, DpOutcomes
<1>5. ASSUME DpTold, ~DpExcused' PROVE DpTold'
  <2>1. ~DpAtAny(r, DpStamped)' /\ ~DpAtAny(r, DpHooking)'
    BY <1>3 DEF DP!At, DpAtAny, DpHooking, DpStamped, DpLeft
  <2>2. /\ DpApart' /\ DpJobsTold' /\ DpOneJob' /\ (DpRescued => DpRescued')
        /\ \A q \in DpRequests : q # r => ~DpAtAny(q, DpHooking)'
    BY <1>1, <1>2, <1>3, <1>5, <2>1, DpHookLeaves
  <2>3. DpHooksTold'
    BY <2>1, <2>2 DEF DpHooksTold
  <2>4. DpDone'
    <3> SUFFICES ASSUME dpTask' = "complete"
                 PROVE dpLoaded' = dpVersion' \/ DpRescued'
      BY DEF DpDone
    <3>1. CASE dpCall[r].resubmit
      BY <1>3, <3>1 DEF DpRescued, DpAtAny, DpResubmitting
    <3>2. CASE ~dpCall[r].resubmit
      <4>1. dpLoaded = dpVersion
        BY <1>1, <1>2, <1>5, <3>2 DEF DpTold, DpHooksTold, DpHookTold, DP!At
      <4> QED BY <1>2, <4>1
    <3> QED BY <3>1, <3>2
  <2> QED BY <2>2, <2>3, <2>4 DEF DpTold
<1> QED BY <1>4, <1>5

-----------------------------------------------------------------------------
(* The theorem                                                             *)

LEMMA DpExcusesStay == [DP!Next]_(DP!vars) => dpExcuse \subseteq dpExcuse'
<1> SUFFICES ASSUME [DP!Next]_(DP!vars) PROVE dpExcuse \subseteq dpExcuse'
  OBVIOUS
<1>1. ASSUME NEW r \in DpRequests,
             \/ \E kind \in {"upload", "link"} : DP!Modify(r, kind)
             \/ DP!Edit(r) \/ DP!Check(r) \/ DP!Rollback(r) \/ DP!SubmitByUser(r)
             \/ DP!SkipDuplicate(r) \/ DP!Look(r) \/ DP!Mark(r) \/ DP!Failed(r) \/ DP!Hook(r)
      PROVE  dpExcuse' = dpExcuse
  BY <1>1 DEF DP!Modify, DP!Edit, DP!Check, DP!Rollback, DP!SubmitByUser,
       DP!SkipDuplicate, DP!Look,
              DP!Mark, DP!Failed, DP!Hook
<1>2. ASSUME NEW r \in DpRequests,
             \/ \E again \in BOOLEAN : DP!Commit(r, again)
             \/ DP!Accepted(r) \/ DP!HookWrite(r) \/ DP!Post(r) \/ DP!PostFails(r)
      PROVE  dpExcuse \subseteq dpExcuse'
  BY <1>2 DEF DP!Commit, DP!Accepted, DP!HookWrite, DP!Post, DP!PostFails,
       DP!Accept
<1>3. ASSUME NEW j \in dpJobs, DP!Fetch(j) PROVE dpExcuse' = dpExcuse
  BY <1>3 DEF DP!Fetch
<1>4. ASSUME NEW j \in dpJobs, NEW r \in DpRequests, NEW status,
             DP!Report(j, r, status)
      PROVE  dpExcuse \subseteq dpExcuse'
  BY <1>4 DEF DP!Report
<1>5. CASE UNCHANGED DP!vars
  BY <1>5 DEF DP!vars
<1> QED BY <1>1, <1>2, <1>3, <1>4, <1>5 DEF DP!Next

LEMMA DpInvStep == ASSUME DpConstantsOK
                   PROVE DpInv /\ [DP!Next]_(DP!vars) => DpInv'
<1> SUFFICES ASSUME DpInv, [DP!Next]_(DP!vars) PROVE DpInv'
  OBVIOUS
<1>1. DpTyped' /\ (DpExcused => DpExcused')
  BY DpTypedStep, DpExcusesStay DEF DpInv, DpExcused
<1>2. CASE UNCHANGED DP!vars
  <2>1. DpCared' /\ (DpTold => DpTold')
    BY <1>2 DEF DP!vars, DpInv, DpCared, DpTold, DpApart, DpOneJob,
         DpJobsTold, DpHooksTold,
                DpHookTold, DP!ModifiedSince, DpDone, DpRescued, DP!At, DpAtAny
  <2> QED BY <1>1, <2>1 DEF DpInv
<1>3. CASE DP!Next
  <2>1. DpCared' /\ (DpTold /\ ~DpExcused' => DpTold')
    BY <1>1, <1>3, DpQuietInv, DpCommitInv, DpPostInv, DpFetchInv,
         DpReportInv, DpHookInv,
       DpHookWriteInv DEF DP!Next, DpOutcomes
  <2> QED BY <1>1, <2>1 DEF DpInv
<1> QED BY <1>2, <1>3

(* When nothing is under way, a complete task means that the DataStore     *)
(* holds the resource as it is, and no task is left submitting or pending: *)
(* for any number of saves, submissions before and after their commits,    *)
(* jobs and hooks that overlap, fail and time out, apart from what         *)
(* TasksFollowSaves excepts.                                               *)
THEOREM DpTasksAreKept == ASSUME DpConstantsOK PROVE DP!Spec => []DP!TasksFollowSaves
<1>1. DP!Init => DpInv
  BY DpInvInit
<1>2. DpInv /\ [DP!Next]_(DP!vars) => DpInv'
  BY DpInvStep
<1>3. DpInv => DP!TasksFollowSaves
  <2> SUFFICES ASSUME DpInv, DP!Quiet PROVE DP!TasksFollowSaves
    BY DEF DP!TasksFollowSaves
  <2>1. dpJobs = {} /\ \A r \in DpRequests : \A pcs : ~DpAtAny(r, pcs)
    BY DEF DP!Quiet, DpAtAny
  <2>2. dpExcuse \cap {"lost", "overtaken"} = {} => dpTask \notin DP!Pending
    BY <2>1 DEF DpInv, DpCared
  <2>3. dpTask = "complete" /\ dpExcuse \subseteq {"lost", "overtaken"}
          => dpLoaded = dpVersion
    BY <2>1 DEF DpInv, DpExcused, DpTold, DpDone, DpRescued
  <2> QED BY <2>2, <2>3 DEF DP!TasksFollowSaves
<1> QED BY <1>1, <1>2, <1>3, PTL DEF DP!Spec

-----------------------------------------------------------------------------
(* ConfigSync: the stamp tells every process of every change               *)

CsPcs == {"check", "serve", "reset", "write", "apply", "delete", "admin_reset"}
CsCalls == [pc : CsPcs, at : CsProcesses, todo : SUBSET CsOptions, value : 0 .. CsMaxValue,
         held : (0 .. CsMaxStamp) \cup CsOptions]

\* Nothing is no call.
CsConstantsOK ==
  /\ CsMaxStamp \in Nat /\ CsMaxValue \in Nat
  /\ Missing \notin CsCalls

CsTyped ==
  /\ csDb \in [CsOptions -> 0 .. CsMaxValue]
  /\ csStamp \in 0 .. CsMaxStamp
  /\ csConfig \in [CsProcesses -> [CsOptions -> 0 .. CsMaxValue]]
  /\ csKnown \in [CsProcesses -> 0 .. CS!Unread]
  /\ csMutex \subseteq CsProcesses
  /\ csCall \in [CsRequests -> CsCalls \cup {Missing}]
  /\ csBehind \subseteq CsProcesses

CsWriting(r) == CS!At(r, "write") \/ CS!At(r, "apply")
CsResetting(r, p) == CS!At(r, "reset") /\ csCall[r].at = p

\* What is known was a stamp once.
CsStampsPassed ==
  /\ \A p \in CsProcesses : csKnown[p] \in (0 .. csStamp) \cup {CS!Unread}
  /\ \A r \in CsRequests : CS!At(r, "check") \/ CS!At(r, "reset") => csCall[r].held \in 0 .. csStamp

\* What is being applied is an option that was just written.
CsApplied == \A r \in CsRequests : CS!At(r, "apply") => csCall[r].held \in CsOptions

\* One reset at a time in a process, and it has the lock.
CsOneReset ==
  /\ \A r \in CsRequests : CS!At(r, "reset") => csCall[r].at \in csMutex
  /\ \A r, q \in CsRequests :
       CS!At(r, "reset") /\ CS!At(q, "reset") /\ csCall[r].at = csCall[q].at => r = q

\* An option that differs from the database will be read again, or
\* a stamp is to come.
CsFollowed(p, o) ==
  \/ csConfig[p][o] = csDb[o]
  \/ \E r \in CsRequests : CsWriting(r)
  \/ \E r \in CsRequests : CsResetting(r, p) /\ o \in csCall[r].todo

\* Nothing but a further stamp will make the process read again.
CsUpToDate(p) ==
  \/ csKnown[p] = csStamp
  \/ \E r \in CsRequests : CsResetting(r, p) /\ csCall[r].held = csStamp

CsStampTells ==
  \A p \in CsProcesses \ csBehind :
    CsUpToDate(p) => \A o \in CsOptions : CsFollowed(p, o)

CsInv == CsTyped /\ CsStampsPassed /\ CsApplied /\ CsOneReset /\ CsStampTells

\* At first every copy is the configuration file.
LEMMA CsInitInv == ASSUME CsConstantsOK, CS!Init PROVE CsInv
BY DEF CsConstantsOK, CS!Init, CsInv, CsTyped, CsStampsPassed, CsApplied,
       CsOneReset, CsStampTells, CsFollowed, CS!At, CS!Unread

\* Every step keeps the types.
LEMMA CsTypedNext ==
  ASSUME CsConstantsOK, CsTyped, CsApplied, CsStampsPassed, [CS!Next]_(CS!vars)
  PROVE  CsTyped'
<1>0. ASSUME NEW r \in CsRequests, NEW c \in CsCalls \cup {Missing},
             csCall' = [csCall EXCEPT ![r] = c]
      PROVE  csCall' \in [CsRequests -> CsCalls \cup {Missing}]
  BY <1>0 DEF CsTyped
<1> USE DEF CsTyped, CS!At, CS!Go, CS!End, CS!Unread
<1>1. ASSUME NEW r \in CsRequests, NEW q \in CsProcesses, CS!Begin(r, q)
      PROVE CsTyped'
  <2>1. [pc |-> "check", at |-> q, todo |-> {}, value |-> 0, held |-> csStamp] \in CsCalls
    BY DEF CsCalls, CsPcs, CsConstantsOK
  <2>2. csCall' \in [CsRequests -> CsCalls \cup {Missing}]
    BY <2>1, <1>0, <1>1 DEF CS!Begin
  <2>3. /\ csDb' \in [CsOptions -> 0 .. CsMaxValue] /\ csStamp' \in 0 .. CsMaxStamp
        /\ csConfig' \in [CsProcesses -> [CsOptions -> 0 .. CsMaxValue]]
        /\ csKnown' \in [CsProcesses -> 0 .. CS!Unread]
        /\ csMutex' \subseteq CsProcesses /\ csBehind' \subseteq CsProcesses
    BY <1>1 DEF CS!Begin, CsConstantsOK
  <2> QED BY <2>2, <2>3
<1>2. ASSUME NEW r \in CsRequests, NEW o \in CsOptions, CS!ResetOption(r, o)
      PROVE CsTyped'
  <2>1. csCall[r] \in CsCalls
    BY <1>2 DEF CS!ResetOption
  <2>2. csCall' \in [CsRequests -> CsCalls \cup {Missing}]
    <3>1. csCall'[r] = [pc |-> csCall[r].pc, at |-> csCall[r].at, todo |-> csCall[r].todo \ {o},
                      value |-> csCall[r].value, held |-> csCall[r].held]
      BY <2>1, <1>2 DEF CS!ResetOption, CsCalls
    <3>2. csCall'[r] \in CsCalls
      BY <3>1, <2>1 DEF CsCalls, CsPcs
    <3>3. csCall' = [csCall EXCEPT ![r] = csCall'[r]]
      BY <1>2 DEF CS!ResetOption
    <3> QED BY <3>2, <3>3, <1>0
  <2>4. csCall[r].at \in CsProcesses /\ csCall[r].value \in 0 .. CsMaxValue
    BY <2>1 DEF CsCalls
  <2>3. /\ csDb' \in [CsOptions -> 0 .. CsMaxValue] /\ csStamp' \in 0 .. CsMaxStamp
        /\ csConfig' \in [CsProcesses -> [CsOptions -> 0 .. CsMaxValue]]
        /\ csKnown' \in [CsProcesses -> 0 .. CS!Unread]
        /\ csMutex' \subseteq CsProcesses /\ csBehind' \subseteq CsProcesses
    BY <2>1, <2>4, <1>2 DEF CS!ResetOption, CsConstantsOK
  <2> QED BY <2>2, <2>3
<1>3. ASSUME NEW r \in CsRequests, NEW o \in CsOptions, CS!WriteOption(r, o)
      PROVE CsTyped'
  <2>1. csCall[r] \in CsCalls
    BY <1>3 DEF CS!WriteOption
  <2>2. csCall' \in [CsRequests -> CsCalls \cup {Missing}]
    <3>1. csCall'[r] = [pc |-> "apply", at |-> csCall[r].at, todo |-> csCall[r].todo \ {o},
                      value |-> csCall[r].value, held |-> o]
      BY <2>1, <1>3 DEF CS!WriteOption, CsCalls
    <3>2. csCall'[r] \in CsCalls
      BY <3>1, <2>1 DEF CsCalls, CsPcs
    <3>3. csCall' = [csCall EXCEPT ![r] = csCall'[r]]
      BY <1>3 DEF CS!WriteOption
    <3> QED BY <3>2, <3>3, <1>0
  <2>4. csCall[r].at \in CsProcesses /\ csCall[r].value \in 0 .. CsMaxValue
    BY <2>1 DEF CsCalls
  <2>3. /\ csDb' \in [CsOptions -> 0 .. CsMaxValue] /\ csStamp' \in 0 .. CsMaxStamp
        /\ csConfig' \in [CsProcesses -> [CsOptions -> 0 .. CsMaxValue]]
        /\ csKnown' \in [CsProcesses -> 0 .. CS!Unread]
        /\ csMutex' \subseteq CsProcesses /\ csBehind' \subseteq CsProcesses
    BY <2>1, <2>4, <1>3 DEF CS!WriteOption, CsConstantsOK
  <2> QED BY <2>2, <2>3
<1>4. ASSUME NEW r \in CsRequests, NEW o \in CsOptions, CS!DeleteOption(r, o)
      PROVE CsTyped'
  <2>1. csCall[r] \in CsCalls
    BY <1>4 DEF CS!DeleteOption
  <2>2. csCall' \in [CsRequests -> CsCalls \cup {Missing}]
    <3>1. csCall'[r] = [pc |-> csCall[r].pc, at |-> csCall[r].at, todo |-> csCall[r].todo \ {o},
                      value |-> csCall[r].value, held |-> csCall[r].held]
      BY <2>1, <1>4 DEF CS!DeleteOption, CsCalls
    <3>2. csCall'[r] \in CsCalls
      BY <3>1, <2>1 DEF CsCalls, CsPcs
    <3>3. csCall' = [csCall EXCEPT ![r] = csCall'[r]]
      BY <1>4 DEF CS!DeleteOption
    <3> QED BY <3>2, <3>3, <1>0
  <2>4. csCall[r].at \in CsProcesses /\ csCall[r].value \in 0 .. CsMaxValue
    BY <2>1 DEF CsCalls
  <2>3. /\ csDb' \in [CsOptions -> 0 .. CsMaxValue] /\ csStamp' \in 0 .. CsMaxStamp
        /\ csConfig' \in [CsProcesses -> [CsOptions -> 0 .. CsMaxValue]]
        /\ csKnown' \in [CsProcesses -> 0 .. CS!Unread]
        /\ csMutex' \subseteq CsProcesses /\ csBehind' \subseteq CsProcesses
    BY <2>1, <2>4, <1>4 DEF CS!DeleteOption, CsConstantsOK
  <2> QED BY <2>2, <2>3
<1>5. ASSUME NEW r \in CsRequests, NEW v \in 1 .. CsMaxValue,
             NEW os \in (SUBSET CsOptions) \ {{}}, CS!Update(r, v, os) PROVE CsTyped'
  <2>1. csCall[r] \in CsCalls
    BY <1>5 DEF CS!Update
  <2>2. csCall' \in [CsRequests -> CsCalls \cup {Missing}]
    <3>1. csCall'[r] = [pc |-> "write", at |-> csCall[r].at, todo |-> os,
                      value |-> v, held |-> csCall[r].held]
      BY <2>1, <1>5 DEF CS!Update, CsCalls
    <3>2. csCall'[r] \in CsCalls
      BY <3>1, <2>1 DEF CsCalls, CsPcs
    <3>3. csCall' = [csCall EXCEPT ![r] = csCall'[r]]
      BY <1>5 DEF CS!Update
    <3> QED BY <3>2, <3>3, <1>0
  <2>4. csCall[r].at \in CsProcesses /\ csCall[r].value \in 0 .. CsMaxValue
    BY <2>1 DEF CsCalls
  <2>3. /\ csDb' \in [CsOptions -> 0 .. CsMaxValue] /\ csStamp' \in 0 .. CsMaxStamp
        /\ csConfig' \in [CsProcesses -> [CsOptions -> 0 .. CsMaxValue]]
        /\ csKnown' \in [CsProcesses -> 0 .. CS!Unread]
        /\ csMutex' \subseteq CsProcesses /\ csBehind' \subseteq CsProcesses
    BY <2>1, <2>4, <1>5 DEF CS!Update, CsConstantsOK
  <2> QED BY <2>2, <2>3
<1>6. ASSUME NEW r \in CsRequests, CS!Check(r) PROVE CsTyped'
  <2>1. csCall[r] \in CsCalls
    BY <1>6 DEF CS!Check
  <2>2. csCall' \in [CsRequests -> CsCalls \cup {Missing}]
    <3>1. \/ csCall'[r] = [pc |-> "reset", at |-> csCall[r].at, todo |-> CsOptions,
                         value |-> csCall[r].value, held |-> csCall[r].held]
          \/ csCall'[r] = [pc |-> "serve", at |-> csCall[r].at, todo |-> csCall[r].todo,
                         value |-> csCall[r].value, held |-> csCall[r].held]
      BY <2>1, <1>6 DEF CS!Check, CsCalls
    <3>2. csCall'[r] \in CsCalls
      BY <3>1, <2>1 DEF CsCalls, CsPcs
    <3>3. csCall' = [csCall EXCEPT ![r] = csCall'[r]]
      BY <1>6 DEF CS!Check
    <3> QED BY <3>2, <3>3, <1>0
  <2>4. csCall[r].at \in CsProcesses /\ csCall[r].value \in 0 .. CsMaxValue
    BY <2>1 DEF CsCalls
  <2>3. /\ csDb' \in [CsOptions -> 0 .. CsMaxValue] /\ csStamp' \in 0 .. CsMaxStamp
        /\ csConfig' \in [CsProcesses -> [CsOptions -> 0 .. CsMaxValue]]
        /\ csKnown' \in [CsProcesses -> 0 .. CS!Unread]
        /\ csMutex' \subseteq CsProcesses /\ csBehind' \subseteq CsProcesses
    BY <2>1, <2>4, <1>6 DEF CS!Check, CsConstantsOK
  <2> QED BY <2>2, <2>3
<1>7. ASSUME NEW r \in CsRequests, CS!ResetDone(r) PROVE CsTyped'
  <2>1. csCall[r] \in CsCalls
    BY <1>7 DEF CS!ResetDone
  <2>2. csCall' \in [CsRequests -> CsCalls \cup {Missing}]
    <3>1. csCall'[r] = [pc |-> "serve", at |-> csCall[r].at, todo |-> csCall[r].todo,
                      value |-> csCall[r].value, held |-> csCall[r].held]
      BY <2>1, <1>7 DEF CS!ResetDone, CsCalls
    <3>2. csCall'[r] \in CsCalls
      BY <3>1, <2>1 DEF CsCalls, CsPcs
    <3>3. csCall' = [csCall EXCEPT ![r] = csCall'[r]]
      BY <1>7 DEF CS!ResetDone
    <3> QED BY <3>2, <3>3, <1>0
  <2>4. csCall[r].at \in CsProcesses /\ csCall[r].value \in 0 .. CsMaxValue
    BY <2>1 DEF CsCalls
  <2>3. /\ csDb' \in [CsOptions -> 0 .. CsMaxValue] /\ csStamp' \in 0 .. CsMaxStamp
        /\ csConfig' \in [CsProcesses -> [CsOptions -> 0 .. CsMaxValue]]
        /\ csKnown' \in [CsProcesses -> 0 .. CS!Unread]
        /\ csMutex' \subseteq CsProcesses /\ csBehind' \subseteq CsProcesses
    BY <2>1, <2>4, <1>7 DEF CS!ResetDone, CsConstantsOK, CsStampsPassed
  <2> QED BY <2>2, <2>3
<1>8. ASSUME NEW r \in CsRequests, CS!ResetFails(r) PROVE CsTyped'
  <2>1. csCall[r].at \in CsProcesses
    BY <1>8 DEF CS!ResetFails, CsCalls
  <2>2. csCall' \in [CsRequests -> CsCalls \cup {Missing}]
    BY <1>0, <1>8 DEF CS!ResetFails
  <2>3. /\ csDb' \in [CsOptions -> 0 .. CsMaxValue] /\ csStamp' \in 0 .. CsMaxStamp
        /\ csConfig' \in [CsProcesses -> [CsOptions -> 0 .. CsMaxValue]]
        /\ csKnown' \in [CsProcesses -> 0 .. CS!Unread]
        /\ csMutex' \subseteq CsProcesses /\ csBehind' \subseteq CsProcesses
    BY <2>1, <1>8 DEF CS!ResetFails, CsConstantsOK
  <2> QED BY <2>2, <2>3
<1>9. ASSUME NEW r \in CsRequests, CS!ApplyOption(r) PROVE CsTyped'
  <2>1. csCall[r] \in CsCalls
    BY <1>9 DEF CS!ApplyOption
  <2>2. csCall' \in [CsRequests -> CsCalls \cup {Missing}]
    <3>1. csCall'[r] = [pc |-> "write", at |-> csCall[r].at, todo |-> csCall[r].todo,
                      value |-> csCall[r].value, held |-> csCall[r].held]
      BY <2>1, <1>9 DEF CS!ApplyOption, CsCalls
    <3>2. csCall'[r] \in CsCalls
      BY <3>1, <2>1 DEF CsCalls, CsPcs
    <3>3. csCall' = [csCall EXCEPT ![r] = csCall'[r]]
      BY <1>9 DEF CS!ApplyOption
    <3> QED BY <3>2, <3>3, <1>0
  <2>4. csCall[r].at \in CsProcesses /\ csCall[r].value \in 0 .. CsMaxValue
    BY <2>1 DEF CsCalls
  <2>3. /\ csDb' \in [CsOptions -> 0 .. CsMaxValue] /\ csStamp' \in 0 .. CsMaxStamp
        /\ csConfig' \in [CsProcesses -> [CsOptions -> 0 .. CsMaxValue]]
        /\ csKnown' \in [CsProcesses -> 0 .. CS!Unread]
        /\ csMutex' \subseteq CsProcesses /\ csBehind' \subseteq CsProcesses
    BY <2>1, <2>4, <1>9 DEF CS!ApplyOption, CsConstantsOK, CsApplied
  <2> QED BY <2>2, <2>3
<1>10. ASSUME NEW r \in CsRequests, CS!Stamp(r) PROVE CsTyped'
  <2>2. csCall' \in [CsRequests -> CsCalls \cup {Missing}]
    BY <1>0, <1>10 DEF CS!Stamp
  <2>3. /\ csDb' \in [CsOptions -> 0 .. CsMaxValue] /\ csStamp' \in 0 .. CsMaxStamp
        /\ csConfig' \in [CsProcesses -> [CsOptions -> 0 .. CsMaxValue]]
        /\ csKnown' \in [CsProcesses -> 0 .. CS!Unread]
        /\ csMutex' \subseteq CsProcesses /\ csBehind' \subseteq CsProcesses
    BY <1>10 DEF CS!Stamp, CsConstantsOK
  <2> QED BY <2>2, <2>3
<1>11. ASSUME NEW r \in CsRequests, CS!AdminReset(r) PROVE CsTyped'
  <2>1. csCall[r] \in CsCalls
    BY <1>11 DEF CS!AdminReset
  <2>2. csCall' \in [CsRequests -> CsCalls \cup {Missing}]
    <3>1. csCall'[r] = [pc |-> "delete", at |-> csCall[r].at, todo |-> CsOptions,
                      value |-> csCall[r].value, held |-> csCall[r].held]
      BY <2>1, <1>11 DEF CS!AdminReset, CsCalls
    <3>2. csCall'[r] \in CsCalls
      BY <3>1, <2>1 DEF CsCalls, CsPcs
    <3>3. csCall' = [csCall EXCEPT ![r] = csCall'[r]]
      BY <1>11 DEF CS!AdminReset
    <3> QED BY <3>2, <3>3, <1>0
  <2>4. csCall[r].at \in CsProcesses /\ csCall[r].value \in 0 .. CsMaxValue
    BY <2>1 DEF CsCalls
  <2>3. /\ csDb' \in [CsOptions -> 0 .. CsMaxValue] /\ csStamp' \in 0 .. CsMaxStamp
        /\ csConfig' \in [CsProcesses -> [CsOptions -> 0 .. CsMaxValue]]
        /\ csKnown' \in [CsProcesses -> 0 .. CS!Unread]
        /\ csMutex' \subseteq CsProcesses /\ csBehind' \subseteq CsProcesses
    BY <2>1, <2>4, <1>11 DEF CS!AdminReset, CsConstantsOK
  <2> QED BY <2>2, <2>3
<1>12. ASSUME NEW r \in CsRequests, CS!ResetOwn(r) PROVE CsTyped'
  <2>1. csCall[r] \in CsCalls
    BY <1>12 DEF CS!ResetOwn
  <2>2. csCall' \in [CsRequests -> CsCalls \cup {Missing}]
    <3>1. csCall'[r] = [pc |-> "admin_reset", at |-> csCall[r].at, todo |-> CsOptions,
                      value |-> csCall[r].value, held |-> csCall[r].held]
      BY <2>1, <1>12 DEF CS!ResetOwn, CsCalls
    <3>2. csCall'[r] \in CsCalls
      BY <3>1, <2>1 DEF CsCalls, CsPcs
    <3>3. csCall' = [csCall EXCEPT ![r] = csCall'[r]]
      BY <1>12 DEF CS!ResetOwn
    <3> QED BY <3>2, <3>3, <1>0
  <2>4. csCall[r].at \in CsProcesses /\ csCall[r].value \in 0 .. CsMaxValue
    BY <2>1 DEF CsCalls
  <2>3. /\ csDb' \in [CsOptions -> 0 .. CsMaxValue] /\ csStamp' \in 0 .. CsMaxStamp
        /\ csConfig' \in [CsProcesses -> [CsOptions -> 0 .. CsMaxValue]]
        /\ csKnown' \in [CsProcesses -> 0 .. CS!Unread]
        /\ csMutex' \subseteq CsProcesses /\ csBehind' \subseteq CsProcesses
    BY <2>1, <2>4, <1>12 DEF CS!ResetOwn, CsConstantsOK
  <2> QED BY <2>2, <2>3
<1>13. ASSUME NEW r \in CsRequests, CS!Answer(r) PROVE CsTyped'
  <2>2. csCall' \in [CsRequests -> CsCalls \cup {Missing}]
    BY <1>0, <1>13 DEF CS!Answer
  <2>3. /\ csDb' \in [CsOptions -> 0 .. CsMaxValue] /\ csStamp' \in 0 .. CsMaxStamp
        /\ csConfig' \in [CsProcesses -> [CsOptions -> 0 .. CsMaxValue]]
        /\ csKnown' \in [CsProcesses -> 0 .. CS!Unread]
        /\ csMutex' \subseteq CsProcesses /\ csBehind' \subseteq CsProcesses
    BY <1>13 DEF CS!Answer, CsConstantsOK
  <2> QED BY <2>2, <2>3
<1>14. ASSUME NEW q \in CsProcesses, CS!Restart(q) PROVE CsTyped'
  <2>1. csCall' \in [CsRequests -> CsCalls \cup {Missing}]
    BY <1>14 DEF CS!Restart
  <2>2. /\ csConfig' \in [CsProcesses -> [CsOptions -> 0 .. CsMaxValue]]
        /\ csKnown' \in [CsProcesses -> 0 .. CS!Unread]
    BY <1>14 DEF CS!Restart, CsConstantsOK
  <2>3. csMutex' \subseteq CsProcesses /\ csBehind' \subseteq CsProcesses
    BY <1>14 DEF CS!Restart
  <2> QED BY <2>1, <2>2, <2>3, <1>14 DEF CS!Restart
<1>15. CASE UNCHANGED CS!vars
  BY <1>15 DEF CS!vars
<1> QED
  BY <1>1, <1>2, <1>3, <1>4, <1>5, <1>6, <1>7, <1>8, <1>9, <1>10, <1>11,
       <1>12, <1>13, <1>14, <1>15 DEF CS!Next

\* What is known was a stamp once, and what is applied was written.
LEMMA CsStampsNext ==
  ASSUME CsConstantsOK, CsTyped, CsApplied, CsStampsPassed, [CS!Next]_(CS!vars)
  PROVE  CsStampsPassed' /\ CsApplied'
<1> USE DEF CsTyped, CsConstantsOK, CS!At, CS!Go, CS!End, CS!Unread, CsCalls,
     CsPcs, CsApplied, CsStampsPassed
<1>1. ASSUME NEW r \in CsRequests, NEW p \in CsProcesses, CS!Begin(r, p)
      PROVE CsStampsPassed' /\ CsApplied'
  BY <1>1 DEF CS!Begin
<1>2. ASSUME NEW r \in CsRequests, NEW o \in CsOptions, CS!ResetOption(r, o)
      PROVE CsStampsPassed' /\ CsApplied'
  BY <1>2 DEF CS!ResetOption
<1>3. ASSUME NEW r \in CsRequests, NEW o \in CsOptions, CS!WriteOption(r, o)
      PROVE CsStampsPassed' /\ CsApplied'
  BY <1>3 DEF CS!WriteOption
<1>4. ASSUME NEW r \in CsRequests, NEW o \in CsOptions, CS!DeleteOption(r, o)
      PROVE CsStampsPassed' /\ CsApplied'
  BY <1>4 DEF CS!DeleteOption
<1>5. ASSUME NEW r \in CsRequests, NEW v \in 1 .. CsMaxValue,
             NEW os \in (SUBSET CsOptions) \ {{}}, CS!Update(r, v, os)
      PROVE CsStampsPassed' /\ CsApplied'
  BY <1>5 DEF CS!Update
<1>6. ASSUME NEW r \in CsRequests, CS!Check(r)
      PROVE CsStampsPassed' /\ CsApplied'
  BY <1>6 DEF CS!Check
<1>7. ASSUME NEW r \in CsRequests, CS!ResetDone(r)
      PROVE CsStampsPassed' /\ CsApplied'
  BY <1>7 DEF CS!ResetDone
<1>8. ASSUME NEW r \in CsRequests, CS!ResetFails(r)
      PROVE CsStampsPassed' /\ CsApplied'
  BY <1>8 DEF CS!ResetFails
<1>9. ASSUME NEW r \in CsRequests, CS!ApplyOption(r)
      PROVE CsStampsPassed' /\ CsApplied'
  BY <1>9 DEF CS!ApplyOption
<1>10. ASSUME NEW r \in CsRequests, CS!Stamp(r)
       PROVE CsStampsPassed' /\ CsApplied'
  BY <1>10 DEF CS!Stamp
<1>11. ASSUME NEW r \in CsRequests, CS!AdminReset(r)
       PROVE CsStampsPassed' /\ CsApplied'
  BY <1>11 DEF CS!AdminReset
<1>12. ASSUME NEW r \in CsRequests, CS!ResetOwn(r)
       PROVE CsStampsPassed' /\ CsApplied'
  BY <1>12 DEF CS!ResetOwn
<1>13. ASSUME NEW r \in CsRequests, CS!Answer(r)
       PROVE CsStampsPassed' /\ CsApplied'
  BY <1>13 DEF CS!Answer
<1>14. ASSUME NEW p \in CsProcesses, CS!Restart(p)
       PROVE CsStampsPassed' /\ CsApplied'
  BY <1>14 DEF CS!Restart, CS!Here
<1>15. CASE UNCHANGED CS!vars
  BY <1>15 DEF CS!vars
<1> QED
  BY <1>1, <1>2, <1>3, <1>4, <1>5, <1>6, <1>7, <1>8, <1>9, <1>10, <1>11,
       <1>12, <1>13, <1>14, <1>15 DEF CS!Next

\* The lock keeps a second reset out.
LEMMA CsOneResetNext ==
  ASSUME CsConstantsOK, CsTyped, CsOneReset, [CS!Next]_(CS!vars)
  PROVE  CsOneReset'
<1> USE DEF CsTyped, CsConstantsOK, CS!At, CS!Go, CS!End, CsCalls, CsPcs,
     CsOneReset
<1>1. ASSUME NEW r \in CsRequests, NEW p \in CsProcesses, CS!Begin(r, p)
      PROVE CsOneReset'
  BY <1>1 DEF CS!Begin
<1>2. ASSUME NEW r \in CsRequests, NEW o \in CsOptions, CS!ResetOption(r, o)
      PROVE CsOneReset'
  BY <1>2 DEF CS!ResetOption
<1>3. ASSUME NEW r \in CsRequests, NEW o \in CsOptions, CS!WriteOption(r, o)
      PROVE CsOneReset'
  BY <1>3 DEF CS!WriteOption
<1>4. ASSUME NEW r \in CsRequests, NEW o \in CsOptions, CS!DeleteOption(r, o)
      PROVE CsOneReset'
  BY <1>4 DEF CS!DeleteOption
<1>5. ASSUME NEW r \in CsRequests, NEW v \in 1 .. CsMaxValue,
             NEW os \in (SUBSET CsOptions) \ {{}}, CS!Update(r, v, os)
      PROVE CsOneReset'
  BY <1>5 DEF CS!Update
<1>6. ASSUME NEW r \in CsRequests, CS!Check(r) PROVE CsOneReset'
  <2>1. CASE csKnown[csCall[r].at] # csCall[r].held /\ csCall[r].at \notin csMutex
    <3>1. csCall'[r] = [pc |-> "reset", at |-> csCall[r].at, todo |-> CsOptions, value |-> csCall[r].value,
                  held |-> csCall[r].held]
      BY <1>6, <2>1 DEF CS!Check
    <3>2. \A q \in CsRequests \ {r} : csCall'[q] = csCall[q]
      BY <1>6 DEF CS!Check
    <3>3. csMutex' = csMutex \cup {csCall[r].at}
      BY <1>6, <2>1 DEF CS!Check
    <3>4. ASSUME NEW s \in CsRequests, CS!At(s, "reset")'
          PROVE  csCall'[s].at \in csMutex' /\ (s # r => CS!At(s, "reset") /\ csCall'[s] = csCall[s])
      BY <3>1, <3>2, <3>3, <3>4
    <3>5. ASSUME NEW s \in CsRequests, NEW q \in CsRequests, CS!At(s, "reset")', CS!At(q, "reset")',
                 csCall'[s].at = csCall'[q].at
          PROVE  s = q
      BY <3>1, <3>4, <3>5, <2>1
    <3> QED BY <3>4, <3>5
  <2>2. CASE ~ (csKnown[csCall[r].at] # csCall[r].held /\ csCall[r].at \notin csMutex)
    <3>1. ~CS!At(r, "reset")' /\ ~CS!At(r, "reset")
      BY <1>6, <2>2 DEF CS!Check
    <3>2. \A q \in CsRequests \ {r} : csCall'[q] = csCall[q]
      BY <1>6 DEF CS!Check
    <3>3. csMutex' = csMutex
      BY <1>6, <2>2 DEF CS!Check
    <3> QED BY <3>1, <3>2, <3>3
  <2> QED BY <2>1, <2>2
<1>7. ASSUME NEW r \in CsRequests, CS!ResetDone(r) PROVE CsOneReset'
  BY <1>7 DEF CS!ResetDone
<1>8. ASSUME NEW r \in CsRequests, CS!ResetFails(r) PROVE CsOneReset'
  BY <1>8 DEF CS!ResetFails
<1>9. ASSUME NEW r \in CsRequests, CS!ApplyOption(r) PROVE CsOneReset'
  BY <1>9 DEF CS!ApplyOption
<1>10. ASSUME NEW r \in CsRequests, CS!Stamp(r) PROVE CsOneReset'
  BY <1>10 DEF CS!Stamp
<1>11. ASSUME NEW r \in CsRequests, CS!AdminReset(r) PROVE CsOneReset'
  BY <1>11 DEF CS!AdminReset
<1>12. ASSUME NEW r \in CsRequests, CS!ResetOwn(r) PROVE CsOneReset'
  BY <1>12 DEF CS!ResetOwn
<1>13. ASSUME NEW r \in CsRequests, CS!Answer(r) PROVE CsOneReset'
  BY <1>13 DEF CS!Answer
<1>14. ASSUME NEW p \in CsProcesses, CS!Restart(p) PROVE CsOneReset'
  BY <1>14 DEF CS!Restart, CS!Here
<1>15. CASE UNCHANGED CS!vars
  BY <1>15 DEF CS!vars
<1> QED
  BY <1>1, <1>2, <1>3, <1>4, <1>5, <1>6, <1>7, <1>8, <1>9, <1>10, <1>11,
       <1>12, <1>13, <1>14, <1>15 DEF CS!Next

\* No step leaves a process behind without a stamp to tell it.
LEMMA CsStampTellsNext ==
  ASSUME CsConstantsOK, CsInv, [CS!Next]_(CS!vars), CsTyped'
  PROVE  CsStampTells'
<1> SUFFICES ASSUME NEW p \in CsProcesses, p \notin csBehind', CsUpToDate(p)',
                    NEW o \in CsOptions
             PROVE  CsFollowed(p, o)'
  BY DEF CsStampTells
<1> USE DEF CsInv, CsTyped, CS!At, CS!Go, CS!End, CS!Unread, CsCalls,
     CsResetting
<1>0. (p \notin csBehind /\ CsUpToDate(p)) => CsFollowed(p, o)
  BY DEF CsStampTells
<1>1. ASSUME NEW r \in CsRequests, NEW q \in CsProcesses, CS!Begin(r, q)
      PROVE CsFollowed(p, o)'
  <2>1. \A s \in CsRequests : csCall[s] # Missing => csCall'[s] = csCall[s]
    BY <1>1 DEF CS!Begin
  <2>2. \A s \in CsRequests : ~CS!At(s, "check")' => csCall'[s] = csCall[s]
    BY <1>1 DEF CS!Begin, CsConstantsOK
  <2>3. CsUpToDate(p)
    BY <2>2, <1>1 DEF CS!Begin, CsUpToDate
  <2> QED BY <2>1, <2>3, <1>0, <1>1 DEF CS!Begin, CsFollowed, CsWriting
<1>2. ASSUME NEW r \in CsRequests, NEW x \in CsOptions, CS!ResetOption(r, x)
      PROVE  CsFollowed(p, o)'
  <2>1. /\ csCall'[r].pc = csCall[r].pc /\ csCall'[r].at = csCall[r].at
        /\ csCall'[r].held = csCall[r].held /\ csCall'[r].todo = csCall[r].todo \ {x}
        /\ csCall'[r] # Missing
        /\ \A s \in CsRequests \ {r} : csCall'[s] = csCall[s]
    <3>1. csCall'[r] = [pc |-> csCall[r].pc, at |-> csCall[r].at, value |-> csCall[r].value,
                      todo |-> csCall[r].todo \ {x}, held |-> csCall[r].held]
      BY <1>2 DEF CS!ResetOption
    <3>2. csCall'[r] # Missing
      BY <3>1, <1>2 DEF CS!ResetOption, CsConstantsOK
    <3> QED BY <3>1, <3>2, <1>2 DEF CS!ResetOption
  <2>2. CsUpToDate(p) /\ p \notin csBehind
    BY <2>1, <1>2 DEF CS!ResetOption, CsUpToDate
  <2>3. CASE \E s \in CsRequests : CsWriting(s)
    BY <2>3, <2>1, <1>2 DEF CS!ResetOption, CsFollowed, CsWriting
  <2>4. CASE csConfig[p][o] = csDb[o]
    BY <2>4, <1>2 DEF CS!ResetOption, CsFollowed
  <2>5. CASE \E s \in CsRequests : CsResetting(s, p) /\ o \in csCall[s].todo
    <3>1. PICK s \in CsRequests : CsResetting(s, p) /\ o \in csCall[s].todo
      BY <2>5
    <3>2. CASE s = r /\ o = x
      BY <3>1, <3>2, <1>2 DEF CS!ResetOption, CsFollowed
    <3>3. CASE ~ (s = r /\ o = x)
      BY <3>1, <3>3, <2>1, <1>2 DEF CS!ResetOption, CsFollowed
    <3> QED BY <3>2, <3>3
  <2> QED BY <2>2, <2>3, <2>4, <2>5, <1>0 DEF CsFollowed
<1>3. ASSUME NEW r \in CsRequests, NEW x \in CsOptions, CS!WriteOption(r, x)
      PROVE  CsFollowed(p, o)'
  BY <1>3 DEF CS!WriteOption, CsFollowed, CsWriting
<1>4. ASSUME NEW r \in CsRequests, NEW x \in CsOptions, CS!DeleteOption(r, x)
      PROVE  CsFollowed(p, o)'
  <2>1. \A s \in CsRequests : (CS!At(s, "reset")' \/ CsWriting(s)' \/ CS!At(s, "reset") \/ CsWriting(s))
                            => csCall'[s] = csCall[s]
    BY <1>4 DEF CS!DeleteOption, CsWriting
  <2>2. csDb' = csDb /\ p \notin csBehind
    BY <1>4 DEF CS!DeleteOption
  <2> QED BY <2>1, <2>2, <1>0, <1>4 DEF CS!DeleteOption, CsFollowed,
       CsWriting, CsUpToDate
<1>5. ASSUME NEW r \in CsRequests, NEW v \in 1 .. CsMaxValue,
             NEW os \in (SUBSET CsOptions) \ {{}}, CS!Update(r, v, os)
      PROVE  CsFollowed(p, o)'
  <2>1. csCall'[r] = [pc |-> "write", at |-> csCall[r].at, todo |-> os, value |-> v,
                  held |-> csCall[r].held]
    <3>1. csCall[r] \in CsCalls
      BY <1>5 DEF CS!Update
    <3> QED BY <3>1, <1>5 DEF CS!Update
  <2>2. csCall'[r] # Missing
    BY <2>1, <1>5 DEF CS!Update, CsConstantsOK, CsPcs
  <2>3. CsWriting(r)'
    BY <2>1, <2>2 DEF CsWriting
  <2> QED BY <2>3 DEF CsFollowed
<1>6. ASSUME NEW r \in CsRequests, CS!Check(r) PROVE CsFollowed(p, o)'
  <2> DEFINE q == csCall[r].at
  <2>1. \A s \in CsRequests \ {r} : csCall'[s] = csCall[s]
    BY <1>6 DEF CS!Check
  <2>2. CASE csKnown[q] # csCall[r].held /\ q \notin csMutex
    <3>1. /\ CS!At(r, "reset")' /\ csCall'[r].at = csCall[r].at
          /\ csCall'[r].todo = CsOptions
      <4>1. csCall'[r] = [pc |-> "reset", at |-> csCall[r].at, todo |-> CsOptions, value |-> csCall[r].value,
                  held |-> csCall[r].held]
        BY <2>2, <1>6 DEF CS!Check
      <4>2. csCall[r] \in CsCalls
        BY <1>6 DEF CS!Check
      <4>3. csCall'[r] # Missing
        BY <4>1, <4>2 DEF CsConstantsOK, CsPcs
      <4> QED BY <4>1, <4>3
    <3>2. CASE p = q
      <4>1. CsResetting(r, p)' /\ o \in csCall'[r].todo
        BY <3>1, <3>2
      <4> QED BY <4>1 DEF CsFollowed
    <3>3. CASE p # q
      <4>1. p \notin csBehind /\ ~CsWriting(r) /\ ~CsResetting(r, p) /\ ~CsResetting(r, p)'
        BY <3>1, <3>3, <2>2, <1>6 DEF CS!Check, CsWriting
      <4>2. UNCHANGED <<csDb, csStamp, csConfig, csKnown>>
        BY <1>6 DEF CS!Check
      <4> QED BY <4>1, <4>2, <2>1, <1>0 DEF CsFollowed, CsWriting, CsUpToDate
    <3> QED BY <3>2, <3>3
  <2>3. CASE ~ (csKnown[q] # csCall[r].held /\ q \notin csMutex)
    <3>1. ~CS!At(r, "reset")' /\ ~CS!At(r, "reset") /\ ~CsWriting(r)
      BY <2>3, <1>6 DEF CS!Check, CsWriting
    <3> QED
      BY <3>1, <2>1, <2>3, <1>0, <1>6 DEF CS!Check, CsFollowed, CsWriting,
           CsUpToDate
  <2> QED BY <2>2, <2>3
<1>7. ASSUME NEW r \in CsRequests, CS!ResetDone(r) PROVE CsFollowed(p, o)'
  <2> DEFINE q == csCall[r].at
  <2>1. /\ \A s \in CsRequests \ {r} : csCall'[s] = csCall[s]
        /\ ~CS!At(r, "reset")' /\ ~CsWriting(r)
    BY <1>7 DEF CS!ResetDone, CsWriting
  <2>2. CASE p = q
    <3>1. \A s \in CsRequests : CsResetting(s, p) => s = r
      BY <2>2, <1>7 DEF CS!ResetDone, CsOneReset
    <3>2. CsUpToDate(p) /\ p \notin csBehind
      BY <2>1, <2>2, <3>1, <1>7 DEF CS!ResetDone, CsUpToDate
    <3> QED BY <3>1, <3>2, <2>1, <1>0, <1>7 DEF CS!ResetDone, CsFollowed,
         CsWriting
  <2>3. CASE p # q
    BY <2>1, <2>3, <1>0, <1>7 DEF CS!ResetDone, CsFollowed, CsWriting,
         CsUpToDate
  <2> QED BY <2>2, <2>3
<1>8. ASSUME NEW r \in CsRequests, CS!ResetFails(r) PROVE CsFollowed(p, o)'
  <2>1. /\ \A s \in CsRequests \ {r} : csCall'[s] = csCall[s]
        /\ csCall'[r] = Missing /\ csCall[r].at # p /\ ~CsWriting(r)
    BY <1>8 DEF CS!ResetFails, CsWriting
  <2> QED BY <2>1, <1>0, <1>8 DEF CS!ResetFails, CsFollowed, CsWriting,
       CsUpToDate
<1>9. ASSUME NEW r \in CsRequests, CS!ApplyOption(r) PROVE CsFollowed(p, o)'
  <2>1. csCall'[r] = [pc |-> "write", at |-> csCall[r].at, todo |-> csCall[r].todo, value |-> csCall[r].value,
                  held |-> csCall[r].held]
    BY <1>9 DEF CS!ApplyOption
  <2>2. csCall'[r] # Missing
    BY <2>1, <1>9 DEF CS!ApplyOption, CsConstantsOK, CsPcs
  <2>3. CsWriting(r)'
    BY <2>1, <2>2 DEF CsWriting
  <2> QED BY <2>3 DEF CsFollowed
<1>10. ASSUME NEW r \in CsRequests, CS!Stamp(r) PROVE CsFollowed(p, o)'
  <2>1. csStamp' = csStamp + 1 /\ csStamp + 1 \in 1 .. CsMaxStamp
    BY <1>10 DEF CS!Stamp, CsConstantsOK
  <2>2. csKnown'[p] # csStamp'
    BY <2>1, <1>10 DEF CS!Stamp, CsStampsPassed, CsConstantsOK
  <2>3. ASSUME NEW s \in CsRequests, CsResetting(s, p)', csCall'[s].held = csStamp'
        PROVE  FALSE
    <3>1. csCall'[s] = csCall[s] /\ csCall[s].held \in 0 .. csStamp
      BY <2>3, <1>10 DEF CS!Stamp, CsStampsPassed
    <3> QED BY <3>1, <2>1, <2>3
  <2> QED BY <2>2, <2>3 DEF CsUpToDate
<1>11. ASSUME NEW r \in CsRequests, CS!AdminReset(r) PROVE CsFollowed(p, o)'
  <2>1. /\ \A s \in CsRequests \ {r} : csCall'[s] = csCall[s]
        /\ ~CS!At(r, "reset")' /\ ~CS!At(r, "reset") /\ ~CsWriting(r)
    BY <1>11 DEF CS!AdminReset, CsWriting
  <2> QED BY <2>1, <1>0, <1>11 DEF CS!AdminReset, CsFollowed, CsWriting,
       CsUpToDate
<1>12. ASSUME NEW r \in CsRequests, CS!ResetOwn(r) PROVE CsFollowed(p, o)'
  <2>1. /\ \A s \in CsRequests \ {r} : csCall'[s] = csCall[s]
        /\ ~CS!At(r, "reset")' /\ ~CS!At(r, "reset") /\ ~CsWriting(r)
    BY <1>12 DEF CS!ResetOwn, CsWriting
  <2> QED BY <2>1, <1>0, <1>12 DEF CS!ResetOwn, CsFollowed, CsWriting,
       CsUpToDate
<1>13. ASSUME NEW r \in CsRequests, CS!Answer(r) PROVE CsFollowed(p, o)'
  <2>1. /\ \A s \in CsRequests \ {r} : csCall'[s] = csCall[s]
        /\ ~CS!At(r, "reset")' /\ ~CS!At(r, "reset") /\ ~CsWriting(r)
    BY <1>13 DEF CS!Answer, CsWriting
  <2> QED BY <2>1, <1>0, <1>13 DEF CS!Answer, CsFollowed, CsWriting, CsUpToDate
<1>14. ASSUME NEW q \in CsProcesses, CS!Restart(q) PROVE CsFollowed(p, o)'
  <2>1. CASE p = q
    BY <2>1, <1>14 DEF CS!Restart, CsFollowed
  <2>2. CASE p # q
    <3>1. /\ p \notin csBehind
          /\ \A s \in CsRequests : CsWriting(s) => csCall'[s] = csCall[s]
          /\ \A s \in CsRequests : csCall[s] # Missing /\ csCall[s].at = p => csCall'[s] = csCall[s]
          /\ \A s \in CsRequests : csCall'[s] # Missing => csCall'[s] = csCall[s]
      BY <2>2, <1>14 DEF CS!Restart, CS!Here, CsWriting
    <3> QED BY <3>1, <2>2, <1>0, <1>14 DEF CS!Restart, CsFollowed, CsWriting,
         CsUpToDate
  <2> QED BY <2>1, <2>2
<1>15. CASE UNCHANGED CS!vars
  BY <1>15, <1>0 DEF CS!vars, CsFollowed, CsWriting, CsUpToDate
<1> QED
  BY <1>1, <1>2, <1>3, <1>4, <1>5, <1>6, <1>7, <1>8, <1>9, <1>10, <1>11,
     <1>12, <1>13, <1>14, <1>15 DEF CS!Next

\* The invariant holds of every behaviour.
LEMMA CsInvHolds == ASSUME CsConstantsOK PROVE CS!Spec => []CsInv
<1>1. CsInv /\ [CS!Next]_(CS!vars) => CsInv'
  BY CsTypedNext, CsStampsNext, CsOneResetNext, CsStampTellsNext DEF CsInv
<1> QED BY <1>1, CsInitInv, PTL DEF CS!Spec

(* What is stored, known and under way is well typed. *)
LEMMA CsTypeCorrect == ASSUME CsConstantsOK PROVE CS!Spec => []CS!TypeOK
<1>1. CsInv => CS!TypeOK
  BY DEF CsInv, CsTyped, CS!TypeOK, CsCalls
<1> QED BY <1>1, CsInvHolds, PTL

(* A process that knows the latest stamp has the options of the database. *)
LEMMA CsStampTellsAll == ASSUME CsConstantsOK
                         PROVE CS!Spec => []CS!StampTellsOfOptions
<1>1. ASSUME CsInv PROVE CS!StampTellsOfOptions
  <2> SUFFICES ASSUME NEW p \in CsProcesses, csKnown[p] = csStamp, p \notin csBehind,
                      ~ \E r \in CsRequests : CS!Changing(r)
               PROVE  csConfig[p] = csDb
    BY DEF CS!StampTellsOfOptions
  <2>1. \A o \in CsOptions : csConfig[p][o] = csDb[o]
    BY <1>1 DEF CsInv, CsStampTells, CsUpToDate, CsFollowed, CsWriting,
         CsResetting, CS!Changing
  <2> QED BY <1>1, <2>1 DEF CsInv, CsTyped
<1> QED BY <1>1, CsInvHolds, PTL

-----------------------------------------------------------------------------
(* Datastore: what is kept beside a table follows it                       *)

DsPcs == {"change", "count", "flag", "schedule", "store"}
DsCalls == [pc : DsPcs, kind : DS!Kinds \cup {"search"}, count : {"no", "now", "later"},
          active : BOOLEAN, cancelled : BOOLEAN, seen : Nat]

\* Bounds are numbers; what stands for nothing is none of what it is not.
DsConstantsOK ==
  DsMaxRows \in Nat /\ DsMaxChanges \in Nat /\ Missing \notin Nat \cup DsCalls

\* TypeOK with the calls: a count is stored by searches, what it stores is a
\* number of rows, and a time that is to be set has been.
DsTyped ==
  /\ dsTable \in 0 .. DsMaxRows \cup {Missing}
  /\ dsStats \in 0 .. DsMaxRows \cup {Missing}
  /\ dsChanges \in 0 .. DsMaxChanges /\ dsModified \in 0 .. dsChanges
  /\ dsPatchJob \in 0 .. dsChanges \cup {Missing}
  /\ dsPatching \in 0 .. dsChanges \cup {Missing}
  /\ dsActive \in BOOLEAN /\ dsCountJob \in BOOLEAN
  /\ dsCall \in [DsRequests -> DsCalls \cup {Missing}]
  /\ \A r \in DsRequests :
       /\ DS!At(r, "store") => dsCall[r].seen \in 0 .. DsMaxRows
       /\ DS!At(r, "schedule") => dsCall[r].seen \in 0 .. dsChanges
       /\ dsCall[r] # Missing => (dsCall[r].kind = "search" <=> dsCall[r].pc = "store")

\* A request that has changed the table and not yet looked at the flag.
DsOwes(r) == DS!At(r, "count") \/ DS!At(r, "flag")

(* A flag that does not tell whether there is a table will be set by a     *)
(* request that has made, or dropped, it.                                  *)
DsFlagDue ==
  (dsActive <=> dsTable = Missing) =>
    \E r \in DsRequests :
      DsOwes(r) /\ dsCall[r].kind = IF dsTable = Missing THEN "drop" ELSE "create"

(* The time of the last change is that of the resource, or is on its way   *)
(* to it: with a request, in the job that waits, or with the worker.       *)
DsTimeDue ==
  \/ \E r \in DsRequests : DsOwes(r) \/ (DS!At(r, "schedule") /\ dsCall[r].seen = dsChanges)
  \/ dsPatchJob = dsChanges
  \/ dsPatchJob = Missing /\ dsPatching = dsChanges
  \/ dsPatchJob = Missing /\ dsPatching = Missing /\ dsModified = dsChanges

\* A count that is not the number of rows will be dropped or made anew.
DsCountDue ==
  dsTable # Missing /\ dsStats # Missing /\ dsStats # dsTable =>
    \E r \in DsRequests : DS!At(r, "count")

DsUncrossed(e) == e \cap {"crash", "no table to count", "crossed"} = {}
DsCountedWell(e) == e \cap {"crash", "count kept", "counted early"} = {}

DsInv ==
  /\ DsTyped
  /\ DsUncrossed(dsExcuse) => DsFlagDue /\ DsTimeDue
  /\ DsCountedWell(dsExcuse) => DsCountDue

\* The invariant holds at first.
LEMMA DsInitInv == ASSUME DsConstantsOK, DS!Init PROVE DsInv
<1>1. DsTyped
  <2>1. /\ dsCall \in [DsRequests -> DsCalls \cup {Missing}]
        /\ \A r \in DsRequests : dsCall[r] = Missing
    BY DEF DS!Init
  <2>2. 0 \in 0 .. 0 /\ 0 \in 0 .. DsMaxChanges
    BY DEF DsConstantsOK
  <2> QED BY <2>1, <2>2 DEF DS!Init, DsTyped, DS!At
<1>3. DsFlagDue
  BY DEF DS!Init, DsFlagDue
<1>4. DsTimeDue /\ DsCountDue
  BY DEF DS!Init, DsTimeDue, DsCountDue
<1> QED BY <1>1, <1>3, <1>4 DEF DsInv

\* What was excused before stays excused.
LEMMA DsExcuses ==
  ASSUME NEW what, NEW is \in BOOLEAN, DS!Excused(what, is)
  PROVE  /\ DsUncrossed(dsExcuse') => DsUncrossed(dsExcuse)
         /\ DsCountedWell(dsExcuse') => DsCountedWell(dsExcuse)
         /\ is /\ what \in {"crash", "no table to count", "crossed"}
            => ~DsUncrossed(dsExcuse')
         /\ is /\ what \in {"crash", "count kept", "counted early"}
            => ~DsCountedWell(dsExcuse')
<1>1. dsExcuse' = IF is THEN dsExcuse \cup {what} ELSE dsExcuse
  BY DEF DS!Excused
<1>2. dsExcuse \subseteq dsExcuse'
  BY <1>1
<1>3. is => what \in dsExcuse'
  BY <1>1
<1> QED BY <1>2, <1>3 DEF DsUncrossed, DsCountedWell

\* A request that starts, goes on or ends: only its own call changes.
LEMMA DsMoved ==
  ASSUME DsTyped, NEW r \in DsRequests, NEW c \in DsCalls \cup {Missing},
         dsCall' = [dsCall EXCEPT ![r] = c]
  PROVE  /\ dsCall' \in [DsRequests -> DsCalls \cup {Missing}]
         /\ dsCall'[r] = c
         /\ \A q \in DsRequests \ {r} : dsCall'[q] = dsCall[q]
BY DEF DsTyped

\* The other requests are where they were.
LEMMA DsOthers ==
  ASSUME NEW r \in DsRequests, \A q \in DsRequests \ {r} : dsCall'[q] = dsCall[q]
  PROVE  \A q \in DsRequests \ {r} :
           /\ \A pc : DS!At(q, pc)' <=> DS!At(q, pc)
           /\ DsOwes(q)' <=> DsOwes(q)
BY DEF DS!At, DsOwes

\* A call whose fields are set.
LEMMA DsTurned ==
  ASSUME NEW c \in DsCalls, NEW p \in DsPcs
  PROVE  LET d == [c EXCEPT !.pc = p] IN
         /\ d \in DsCalls /\ d.pc = p /\ d.kind = c.kind /\ d.count = c.count
         /\ d.active = c.active /\ d.seen = c.seen
BY DEF DsCalls

LEMMA DsCancelledSet ==
  ASSUME NEW c \in DsCalls, NEW b \in BOOLEAN
  PROVE  LET d == [c EXCEPT !.cancelled = b] IN
         /\ d \in DsCalls /\ d.pc = c.pc /\ d.kind = c.kind /\ d.count = c.count
         /\ d.active = c.active /\ d.seen = c.seen
BY DEF DsCalls

LEMMA DsCountSet ==
  ASSUME NEW c \in DsCalls, NEW n \in {"no", "now", "later"}
  PROVE  LET d == [c EXCEPT !.count = n] IN
         /\ d \in DsCalls /\ d.pc = c.pc /\ d.kind = c.kind
         /\ d.active = c.active /\ d.seen = c.seen
BY DEF DsCalls

LEMMA DsSeenSet ==
  ASSUME NEW c \in DsCalls, NEW n \in Nat
  PROVE  LET d == [c EXCEPT !.seen = n] IN
         /\ d \in DsCalls /\ d.pc = c.pc /\ d.kind = c.kind
         /\ d.active = c.active /\ d.seen = n
BY DEF DsCalls

\* A step that moves only a request which owes nothing and will owe nothing.
LEMMA DsPlainStep ==
  ASSUME DsInv, DsTyped', NEW r \in DsRequests,
         \A q \in DsRequests \ {r} : dsCall'[q] = dsCall[q],
         ~DsOwes(r), ~DS!At(r, "schedule"),
         UNCHANGED <<dsTable, dsChanges, dsStats, dsActive, dsModified, dsPatchJob, dsPatching,
                     dsExcuse>>
  PROVE  DsInv'
<1>1. \A q \in DsRequests : DsOwes(q) => q # r /\ dsCall'[q] = dsCall[q] /\ DsOwes(q)'
  BY DsOthers
<1>2. \A q \in DsRequests : DS!At(q, "schedule") => dsCall'[q] = dsCall[q] /\ DS!At(q, "schedule")'
  BY DsOthers
<1>3. \A q \in DsRequests : DS!At(q, "count") => DS!At(q, "count")'
  BY <1>1, DsOthers DEF DsOwes
<1>4. DsFlagDue => DsFlagDue'
  BY <1>1 DEF DsFlagDue
<1>5. DsTimeDue => DsTimeDue'
  BY <1>1, <1>2 DEF DsTimeDue
<1>6. DsCountDue => DsCountDue'
  BY <1>3 DEF DsCountDue
<1> QED BY <1>4, <1>5, <1>6 DEF DsInv

\* Types of a step in which one request moves.
LEMMA DsTypedStep ==
  ASSUME DsTyped, NEW r \in DsRequests, NEW c \in DsCalls \cup {Missing},
         dsCall' = [dsCall EXCEPT ![r] = c],
         c # Missing => /\ c.pc = "store" => c.seen \in 0 .. DsMaxRows
                        /\ c.pc = "schedule" => c.seen \in 0 .. dsChanges'
                        /\ c.kind = "search" <=> c.pc = "store",
         dsTable' \in 0 .. DsMaxRows \cup {Missing},
         dsStats' \in 0 .. DsMaxRows \cup {Missing},
         dsChanges' \in 0 .. DsMaxChanges, dsChanges <= dsChanges',
         dsModified' \in 0 .. dsChanges',
         dsPatchJob' \in 0 .. dsChanges' \cup {Missing},
         dsPatching' \in 0 .. dsChanges' \cup {Missing},
         dsActive' \in BOOLEAN, dsCountJob' \in BOOLEAN
  PROVE  DsTyped'
<1>1. /\ dsCall' \in [DsRequests -> DsCalls \cup {Missing}] /\ dsCall'[r] = c
      /\ \A q \in DsRequests \ {r} : dsCall'[q] = dsCall[q]
  BY DsMoved
<1>2. ASSUME NEW q \in DsRequests
      PROVE  /\ DS!At(q, "store")' => dsCall'[q].seen \in 0 .. DsMaxRows
             /\ DS!At(q, "schedule")' => dsCall'[q].seen \in 0 .. dsChanges'
             /\ dsCall'[q] # Missing => (dsCall'[q].kind = "search" <=> dsCall'[q].pc = "store")
  <2>1. CASE q = r
    BY <1>1, <2>1 DEF DS!At
  <2>2. CASE q # r
    <3>1. dsCall'[q] = dsCall[q]
      BY <1>1, <2>2
    <3>2. dsChanges \in Nat
      BY DEF DsTyped
    <3>3. DS!At(q, "schedule") => dsCall[q].seen \in 0 .. dsChanges'
      BY <3>2 DEF DsTyped
    <3> QED BY <3>1, <3>3 DEF DsTyped, DS!At
  <2> QED BY <2>1, <2>2
<1> QED BY <1>1, <1>2 DEF DsTyped

\* Types of a step that leaves the table.
LEMMA DsTypedKept ==
  ASSUME DsTyped, NEW r \in DsRequests, NEW c \in DsCalls \cup {Missing},
         dsCall' = [dsCall EXCEPT ![r] = c],
         c # Missing => /\ c.pc = "store" => c.seen \in 0 .. DsMaxRows
                        /\ c.pc = "schedule" => c.seen \in 0 .. dsChanges
                        /\ c.kind = "search" <=> c.pc = "store",
         UNCHANGED <<dsTable, dsChanges>>,
         dsStats' \in 0 .. DsMaxRows \cup {Missing},
         dsModified' \in 0 .. dsChanges,
         dsPatchJob' \in 0 .. dsChanges \cup {Missing},
         dsPatching' \in 0 .. dsChanges \cup {Missing},
         dsActive' \in BOOLEAN, dsCountJob' \in BOOLEAN
  PROVE  DsTyped'
<1>1. /\ dsTable' \in 0 .. DsMaxRows \cup {Missing}
      /\ dsChanges' \in 0 .. DsMaxChanges /\ dsChanges <= dsChanges'
  BY DEF DsTyped
<1>2. c # Missing => /\ c.pc = "store" => c.seen \in 0 .. DsMaxRows
                     /\ c.pc = "schedule" => c.seen \in 0 .. dsChanges'
                     /\ c.kind = "search" <=> c.pc = "store"
  OBVIOUS
<1>3. /\ dsModified' \in 0 .. dsChanges'
      /\ dsPatchJob' \in 0 .. dsChanges' \cup {Missing}
      /\ dsPatching' \in 0 .. dsChanges' \cup {Missing}
  OBVIOUS
<1> QED BY <1>1, <1>2, <1>3, DsTypedStep

\* Types of a step that touches only a request and the job that counts.
LEMMA DsTypedStays ==
  ASSUME DsTyped, NEW r \in DsRequests, NEW c \in DsCalls \cup {Missing},
         dsCall' = [dsCall EXCEPT ![r] = c],
         c # Missing => /\ c.pc = "store" => c.seen \in 0 .. DsMaxRows
                        /\ c.pc = "schedule" => c.seen \in 0 .. dsChanges
                        /\ c.kind = "search" <=> c.pc = "store",
         dsCountJob' \in BOOLEAN,
         UNCHANGED <<dsTable, dsChanges, dsStats, dsActive, dsModified, dsPatchJob, dsPatching>>
  PROVE  DsTyped'
<1>1. /\ dsStats' \in 0 .. DsMaxRows \cup {Missing}
      /\ dsModified' \in 0 .. dsChanges
      /\ dsPatchJob' \in 0 .. dsChanges \cup {Missing}
      /\ dsPatching' \in 0 .. dsChanges \cup {Missing}
      /\ dsActive' \in BOOLEAN
  BY DEF DsTyped
<1> QED BY <1>1, DsTypedKept

\* Such a step keeps the invariant: Write.
LEMMA DsWriteInv ==
  ASSUME DsConstantsOK, DsInv, NEW r \in DsRequests, NEW kind \in DS!Kinds,
         NEW count \in {"no", "now", "later"}, DS!Write(r, kind, count)
  PROVE  DsInv'
<1> DEFINE c == [pc |-> "change", kind |-> kind, count |-> count, active |-> dsActive,
                 cancelled |-> dsCountJob /\ count # "no", seen |-> 0]
<1>1. dsCall' = [dsCall EXCEPT ![r] = c] /\ dsCall[r] = Missing
  BY DEF DS!Write, DS!Begun
<1>2. c \in DsCalls /\ c.pc = "change" /\ c.kind \in DS!Kinds
  BY DEF DsInv, DsTyped, DsCalls, DsPcs, DS!Kinds
<1>3. DsTyped'
  <2>1. dsCountJob' \in BOOLEAN
    BY DEF DS!Write, DsInv, DsTyped
  <2>2. c # Missing => c.pc # "store" /\ c.pc # "schedule" /\ c.kind # "search"
    BY <1>2 DEF DS!Kinds
  <2> HIDE DEF c
  <2> QED BY <1>1, <1>2, <2>1, <2>2, DsTypedStays DEF DS!Write, DsInv
<1>4. \A q \in DsRequests \ {r} : dsCall'[q] = dsCall[q]
  BY <1>1, <1>2, DsMoved DEF DsInv
<1> QED BY <1>1, <1>3, <1>4, DsPlainStep DEF DS!Write, DsOwes, DS!At

\* Such a step keeps the invariant: ChangeFails.
LEMMA DsChangeFailsInv ==
  ASSUME DsConstantsOK, DsInv, NEW r \in DsRequests, DS!ChangeFails(r)
  PROVE  DsInv'
<1>1. dsCall' = [dsCall EXCEPT ![r] = Missing] /\ DS!At(r, "change")
  BY DEF DS!ChangeFails, DS!End
<1>2. dsCall[r] \in DsCalls
  BY <1>1 DEF DsInv, DsTyped, DS!At
<1>3. DsTyped'
  <2>1. dsCountJob' \in BOOLEAN
    BY <1>2 DEF DS!ChangeFails, DsInv, DsTyped, DsCalls
  <2> QED BY <1>1, <2>1, DsTypedStays DEF DS!ChangeFails, DsInv
<1>4. \A q \in DsRequests \ {r} : dsCall'[q] = dsCall[q]
  BY <1>1, DsMoved DEF DsInv
<1> QED BY <1>1, <1>3, <1>4, DsPlainStep DEF DS!ChangeFails, DsOwes, DS!At

\* Such a step keeps the invariant: Count, by a search or by the job.
LEMMA DsCountInv ==
  ASSUME DsConstantsOK, DsInv, NEW r \in DsRequests, DS!Count(r), dsCountJob' \in BOOLEAN,
         UNCHANGED <<dsTable, dsChanges, dsStats, dsActive, dsModified, dsPatchJob, dsPatching,
                     dsExcuse>>
  PROVE  DsInv'
<1> DEFINE c == [pc |-> "store", kind |-> "search", count |-> "no",
                 active |-> dsActive, cancelled |-> FALSE, seen |-> dsTable]
<1>1. dsCall' = [dsCall EXCEPT ![r] = c] /\ dsCall[r] = Missing /\ dsTable # Missing
  BY DEF DS!Count
<1>2. /\ c \in DsCalls /\ c.pc = "store" /\ c.kind = "search"
      /\ c.seen \in 0 .. DsMaxRows
  BY <1>1 DEF DsInv, DsTyped, DsCalls, DsPcs, DsConstantsOK
<1> HIDE DEF c
<1>3. DsTyped'
  BY <1>1, <1>2, DsTypedStays DEF DsInv
<1>4. \A q \in DsRequests \ {r} : dsCall'[q] = dsCall[q]
  BY <1>1, <1>2, DsMoved DEF DsInv
<1> QED BY <1>1, <1>3, <1>4, DsPlainStep DEF DsOwes, DS!At

\* Such a step keeps the invariant: Change.  The request owes from then on.
LEMMA DsChangeInv ==
  ASSUME DsConstantsOK, DsInv, NEW r \in DsRequests, DS!Change(r)
  PROVE  DsInv'
<1> DEFINE a == [dsCall[r] EXCEPT !.pc = "count"]
           c == [a EXCEPT !.cancelled = FALSE]
<1>1. /\ dsCall[r] \in DsCalls /\ dsCall[r].pc = "change" /\ dsCall[r].kind \in DS!Kinds
      /\ dsCall \in [DsRequests -> DsCalls \cup {Missing}]
  <2>1. dsCall[r] # Missing /\ dsCall[r].pc = "change"
    BY DEF DS!Change, DS!At
  <2>2. /\ dsCall \in [DsRequests -> DsCalls \cup {Missing}]
        /\ dsCall[r].kind = "search" <=> dsCall[r].pc = "store"
    BY <2>1 DEF DsInv, DsTyped
  <2> QED BY <2>1, <2>2 DEF DsCalls
<1>2. dsCall' = [dsCall EXCEPT ![r] = c]
  BY <1>1 DEF DS!Change
<1>3. /\ c \in DsCalls /\ c.pc = "count" /\ c.kind = dsCall[r].kind
  <2>1. "count" \in DsPcs
    BY DEF DsPcs
  <2>2. a \in DsCalls /\ a.pc = "count" /\ a.kind = dsCall[r].kind
    BY <1>1, <2>1, DsTurned
  <2> HIDE DEF a
  <2> QED BY <2>2, DsCancelledSet
<1> HIDE DEF c
<1>4. /\ dsCall'[r] = c /\ \A q \in DsRequests \ {r} : dsCall'[q] = dsCall[q]
  BY <1>2, <1>3, DsMoved DEF DsInv
<1>5. DS!At(r, "count")' /\ DsOwes(r)'
  BY <1>3, <1>4 DEF DS!At, DsOwes, DsConstantsOK
<1>6. /\ dsChanges' = dsChanges + 1 /\ dsChanges' \in 0 .. DsMaxChanges
      /\ dsChanges \in Nat
      /\ dsTable' \in 0 .. DsMaxRows \cup {Missing}
  BY DEF DS!Change, DsInv, DsTyped, DsConstantsOK
<1>7. DsTyped'
  <2>1. /\ dsModified \in 0 .. dsChanges'
        /\ dsPatchJob \in 0 .. dsChanges' \cup {Missing}
        /\ dsPatching \in 0 .. dsChanges' \cup {Missing}
    BY <1>6 DEF DsInv, DsTyped
  <2>2. /\ dsStats' \in 0 .. DsMaxRows \cup {Missing} /\ dsModified' \in 0 .. dsChanges'
        /\ dsPatchJob' \in 0 .. dsChanges' \cup {Missing}
        /\ dsPatching' \in 0 .. dsChanges' \cup {Missing}
        /\ dsActive' \in BOOLEAN /\ dsCountJob' \in BOOLEAN
    BY <2>1 DEF DS!Change, DsInv, DsTyped
  <2>3. c.pc # "store" /\ c.pc # "schedule" /\ c.kind # "search"
    BY <1>1, <1>3 DEF DS!Kinds
  <2>4. dsChanges <= dsChanges'
    BY <1>6
  <2>5. DsTyped /\ c \in DsCalls \cup {Missing}
    BY <1>3 DEF DsInv
  <2> QED BY <1>2, <1>6, <2>2, <2>3, <2>4, <2>5, DsTypedStep
<1>8. DsFlagDue => DsFlagDue'
  <2>1. CASE dsCall[r].kind = "create"
    <3>1. dsTable' # Missing
      BY <1>6, <2>1 DEF DS!Change, DS!Changed, DsConstantsOK, DsInv, DsTyped
    <3>2. (dsActive <=> dsTable = Missing)' => dsCall'[r].kind = "create"
      BY <1>3, <1>4, <2>1
    <3> QED BY <1>5, <3>1, <3>2 DEF DsFlagDue
  <2>2. CASE dsCall[r].kind = "drop"
    <3>1. dsTable' = Missing
      BY <2>2 DEF DS!Change, DS!Changed
    <3> QED BY <1>3, <1>4, <1>5, <2>2, <3>1 DEF DsFlagDue
  <2>3. CASE dsCall[r].kind = "write"
    <3>1. dsTable' # Missing /\ dsTable # Missing
      BY <1>6, <2>3 DEF DS!Change, DS!Changed, DsConstantsOK
    <3>2. \A q \in DsRequests : DsOwes(q) => DsOwes(q)' /\ dsCall'[q] = dsCall[q]
      BY <1>1, <1>4, DsOthers DEF DsOwes, DS!At
    <3> QED BY <3>1, <3>2 DEF DsFlagDue, DS!Change
  <2> QED BY <1>1, <2>1, <2>2, <2>3 DEF DS!Kinds
<1>9. DsTimeDue' /\ DsCountDue'
  BY <1>5 DEF DsTimeDue, DsCountDue
<1> QED BY <1>7, <1>8, <1>9 DEF DsInv, DS!Change

\* Such a step keeps the invariant: Recount.  A count that it leaves is the
\* number of rows, or is excused.
LEMMA DsRecountInv ==
  ASSUME DsConstantsOK, DsInv, NEW r \in DsRequests, DS!Recount(r)
  PROVE  DsInv'
<1> DEFINE a == [dsCall[r] EXCEPT !.pc = "flag"]
           c == [a EXCEPT !.count = "no"]
<1>1. /\ dsCall[r] \in DsCalls /\ dsCall[r].pc = "count" /\ dsCall[r].kind # "search"
      /\ dsCall \in [DsRequests -> DsCalls \cup {Missing}]
  <2>1. dsCall[r] # Missing /\ dsCall[r].pc = "count"
    BY DEF DS!Recount, DS!At
  <2> QED BY <2>1 DEF DsInv, DsTyped
<1>2. /\ c \in DsCalls /\ c.pc = "flag" /\ c.kind = dsCall[r].kind
  <2>1. "flag" \in DsPcs
    BY DEF DsPcs
  <2>2. a \in DsCalls /\ a.pc = "flag" /\ a.kind = dsCall[r].kind
    BY <1>1, <2>1, DsTurned
  <2> HIDE DEF a
  <2> QED BY <2>2, DsCountSet
<1>3. UNCHANGED <<dsTable, dsChanges, dsActive, dsModified, dsPatchJob, dsPatching>>
  BY DEF DS!Recount
<1>4. dsCountJob' \in BOOLEAN
  BY DEF DS!Recount, DsInv, DsTyped
<1>5. dsStats' \in 0 .. DsMaxRows \cup {Missing}
  BY DEF DS!Recount, DsInv, DsTyped
<1>6. (DsUncrossed(dsExcuse') => DsUncrossed(dsExcuse)) /\ (DsCountedWell(dsExcuse') => DsCountedWell(dsExcuse))
  <2>1. CASE UNCHANGED dsExcuse
    BY <2>1
  <2>2. CASE DS!Excused("no table to count", TRUE)
    BY <2>2, DsExcuses
  <2>3. CASE DS!Excused("count kept", dsStats' # dsTable)
    BY <2>3, DsExcuses
  <2> QED BY <2>1, <2>2, <2>3 DEF DS!Recount
<1>9. /\ dsModified' \in 0 .. dsChanges
      /\ dsPatchJob' \in 0 .. dsChanges \cup {Missing}
      /\ dsPatching' \in 0 .. dsChanges \cup {Missing}
      /\ dsActive' \in BOOLEAN
  BY <1>3 DEF DsInv, DsTyped
<1>7. CASE dsCall[r].count = "now" /\ dsTable = Missing
  <2>1. dsCall' = [dsCall EXCEPT ![r] = Missing] /\ DS!Excused("no table to count", TRUE)
    BY <1>7 DEF DS!Recount, DS!End
  <2>2. ~DsUncrossed(dsExcuse')
    BY <2>1, DsExcuses
  <2>3. DsTyped'
    <3>1. DsTyped /\ Missing \in DsCalls \cup {Missing}
      BY DEF DsInv
    <3> QED BY <1>3, <1>4, <1>5, <1>9, <2>1, <3>1, DsTypedKept
  <2>4. DsCountDue'
    BY <1>3, <1>7 DEF DsCountDue
  <2> QED BY <2>2, <2>3, <2>4 DEF DsInv
<1>8. CASE ~(dsCall[r].count = "now" /\ dsTable = Missing)
  <2>1. dsCall' = [dsCall EXCEPT ![r] = c]
    BY <1>1, <1>8 DEF DS!Recount, DS!Counted
  <2>2. /\ dsCall'[r] = c /\ \A q \in DsRequests \ {r} : dsCall'[q] = dsCall[q]
    BY <1>2, <2>1, DsMoved DEF DsInv
  <2> HIDE DEF c
  <2>3. DsTyped'
    <3>1. c.pc # "store" /\ c.pc # "schedule" /\ c.kind # "search"
      BY <1>1, <1>2
    <3>2. DsTyped /\ c \in DsCalls \cup {Missing}
      BY <1>2 DEF DsInv
    <3> QED BY <1>3, <1>4, <1>5, <1>9, <2>1, <3>1, <3>2, DsTypedKept
  <2>4. \A q \in DsRequests : DsOwes(q) => DsOwes(q)' /\ dsCall'[q].kind = dsCall[q].kind
    BY <1>2, <2>2, DsOthers DEF DsOwes, DS!At, DsConstantsOK
  <2>5. \A q \in DsRequests : DS!At(q, "schedule") => DS!At(q, "schedule")' /\ dsCall'[q] = dsCall[q]
    BY <1>1, <2>2 DEF DS!At
  <2>6. (DsFlagDue => DsFlagDue') /\ (DsTimeDue => DsTimeDue')
    BY <1>3, <2>4, <2>5 DEF DsFlagDue, DsTimeDue
  <2>7. DsCountedWell(dsExcuse') => dsStats' = Missing \/ dsStats' = dsTable
    <3>1. CASE dsCall[r].count = "now"
      <4>1. DS!Excused("count kept", dsStats' # dsTable)
        BY <1>8, <3>1 DEF DS!Recount
      <4> QED BY <4>1, DsExcuses
    <3>2. CASE dsCall[r].count # "now"
      BY <3>2 DEF DS!Recount
    <3> QED BY <3>1, <3>2
  <2>8. DsCountedWell(dsExcuse') => DsCountDue'
    BY <1>3, <2>7 DEF DsCountDue
  <2> QED BY <1>6, <2>3, <2>6, <2>8 DEF DsInv
<1> QED BY <1>7, <1>8

\* Such a step keeps the invariant: PatchFlag.
LEMMA DsPatchFlagInv ==
  ASSUME DsConstantsOK, DsInv, NEW r \in DsRequests, DS!PatchFlag(r)
  PROVE  DsInv'
<1> DEFINE crossed == \/ DS!Sets(dsCall[r]) = (dsTable = Missing)
                      \/ {dsPatchJob', dsPatching} # {Missing}
<1>1. /\ dsCall' = [dsCall EXCEPT ![r] = Missing] /\ DS!At(r, "flag")
      /\ DS!Excused("crossed", crossed)
      /\ dsActive' = DS!Sets(dsCall[r]) /\ dsModified' = dsChanges
      /\ dsPatchJob' = IF DS!Clears(dsCall[r]) THEN Missing ELSE dsPatchJob
      /\ UNCHANGED <<dsTable, dsChanges, dsStats, dsCountJob, dsPatching>>
  BY DEF DS!PatchFlag, DS!End
<1>2. dsCall[r] \in DsCalls
  BY <1>1 DEF DS!At, DsInv, DsTyped
<1>3. DsTyped'
  <2>1. /\ dsModified' \in 0 .. dsChanges /\ dsCountJob' \in BOOLEAN
        /\ dsStats' \in 0 .. DsMaxRows \cup {Missing}
    BY <1>1 DEF DsInv, DsTyped
  <2>2. dsActive' \in BOOLEAN
    BY <1>1, <1>2 DEF DS!Sets, DsCalls
  <2>3. /\ dsPatchJob' \in 0 .. dsChanges \cup {Missing}
        /\ dsPatching' \in 0 .. dsChanges \cup {Missing}
    BY <1>1 DEF DsInv, DsTyped
  <2>4. DsTyped /\ Missing \in DsCalls \cup {Missing}
    BY DEF DsInv
  <2> QED BY <1>1, <2>1, <2>2, <2>3, <2>4, DsTypedKept
<1>4. /\ DsUncrossed(dsExcuse') => DsUncrossed(dsExcuse) /\ ~crossed
      /\ DsCountedWell(dsExcuse') => DsCountedWell(dsExcuse)
  <2> HIDE DEF crossed
  <2>1. crossed \in BOOLEAN
    BY DEF crossed
  <2> QED BY <1>1, <2>1, DsExcuses
<1>5. ~crossed => DsFlagDue' /\ DsTimeDue'
  <2>1. ~crossed => ~(dsActive' <=> dsTable' = Missing)
    BY <1>1, <1>2 DEF DS!Sets, DsCalls
  <2>2. ~crossed => dsPatchJob' = Missing /\ dsPatching' = Missing /\ dsModified' = dsChanges'
    BY <1>1
  <2> QED BY <2>1, <2>2 DEF DsFlagDue, DsTimeDue
<1>6. DsCountDue => DsCountDue'
  <2>1. \A q \in DsRequests : DS!At(q, "count") => DS!At(q, "count")'
    BY <1>1, DsMoved DEF DS!At, DsInv
  <2> QED BY <1>1, <2>1 DEF DsCountDue
<1> QED BY <1>3, <1>4, <1>5, <1>6 DEF DsInv

\* Such a step keeps the invariant: TakeTime.  The time is the last change's.
LEMMA DsTakeTimeInv ==
  ASSUME DsConstantsOK, DsInv, NEW r \in DsRequests, DS!TakeTime(r)
  PROVE  DsInv'
<1> DEFINE a == [dsCall[r] EXCEPT !.pc = "schedule"]
           c == [a EXCEPT !.seen = dsChanges]
           crossed == dsCall[r].kind \in {"create", "drop"} /\ dsActive # dsCall[r].active
<1>1. /\ dsCall[r] # Missing /\ dsCall[r].pc = "flag"
      /\ ~DS!Sets(dsCall[r]) /\ ~DS!Clears(dsCall[r])
      /\ DS!Excused("crossed", crossed)
      /\ UNCHANGED <<dsTable, dsChanges, dsStats, dsActive, dsModified, dsCountJob, dsPatchJob, dsPatching>>
  BY DEF DS!TakeTime, DS!At
<1>2. /\ dsCall \in [DsRequests -> DsCalls \cup {Missing}]
      /\ dsCall[r] \in DsCalls /\ dsCall[r].kind # "search" /\ dsActive \in BOOLEAN
      /\ dsChanges \in 0 .. DsMaxChanges /\ dsChanges \in Nat
  BY <1>1 DEF DsInv, DsTyped, DsConstantsOK
<1>3. dsCall' = [dsCall EXCEPT ![r] = c]
  BY <1>2 DEF DS!TakeTime
<1>4. /\ c \in DsCalls /\ c.pc = "schedule" /\ c.kind = dsCall[r].kind /\ c.seen = dsChanges
  <2>1. "schedule" \in DsPcs
    BY DEF DsPcs
  <2>2. a \in DsCalls /\ a.pc = "schedule" /\ a.kind = dsCall[r].kind
    BY <1>2, <2>1, DsTurned
  <2> HIDE DEF a
  <2> QED BY <1>2, <2>2, DsSeenSet
<1> HIDE DEF c
<1>5. /\ dsCall'[r] = c /\ \A q \in DsRequests \ {r} : dsCall'[q] = dsCall[q]
  BY <1>3, <1>4, DsMoved DEF DsInv
<1>6. DsTyped'
  <2>1. c.seen \in 0 .. dsChanges /\ c.pc # "store" /\ c.kind # "search"
    BY <1>2, <1>4
  <2>2. DsTyped /\ c \in DsCalls \cup {Missing} /\ dsCountJob' \in BOOLEAN
    BY <1>1, <1>4 DEF DsInv, DsTyped
  <2> QED BY <1>1, <1>3, <2>1, <2>2, DsTypedStays
<1>7. /\ DsUncrossed(dsExcuse') => DsUncrossed(dsExcuse) /\ ~crossed
      /\ DsCountedWell(dsExcuse') => DsCountedWell(dsExcuse)
  <2> HIDE DEF crossed
  <2>1. crossed \in BOOLEAN
    BY DEF crossed
  <2> QED BY <1>1, <2>1, DsExcuses
<1>8. DsFlagDue /\ ~crossed => DsFlagDue'
  <2> SUFFICES ASSUME DsFlagDue, ~crossed, dsActive <=> dsTable = Missing
               PROVE  \E q \in DsRequests :
                        DsOwes(q)' /\ dsCall'[q].kind = IF dsTable = Missing THEN "drop" ELSE "create"
    BY <1>1 DEF DsFlagDue
  <2>1. PICK q \in DsRequests :
          DsOwes(q) /\ dsCall[q].kind = IF dsTable = Missing THEN "drop" ELSE "create"
    BY DEF DsFlagDue
  <2>2. q # r
    BY <1>1, <1>2, <2>1 DEF DS!Sets, DS!Clears, DsCalls
  <2> QED BY <1>5, <2>1, <2>2, DsOthers
<1>9. DsTimeDue'
  BY <1>1, <1>4, <1>5 DEF DsTimeDue, DS!At, DsConstantsOK
<1>10. DsCountDue => DsCountDue'
  <2>1. \A q \in DsRequests : DS!At(q, "count") => DS!At(q, "count")'
    BY <1>1, <1>5, DsOthers DEF DS!At
  <2> QED BY <1>1, <2>1 DEF DsCountDue
<1> QED BY <1>6, <1>7, <1>8, <1>9, <1>10 DEF DsInv

\* Such a step keeps the invariant: Schedule.  A time that is set too early
\* is excused.
LEMMA DsScheduleInv ==
  ASSUME DsConstantsOK, DsInv, NEW r \in DsRequests, DS!Schedule(r)
  PROVE  DsInv'
<1> DEFINE crossed == \/ dsPatchJob # Missing /\ dsPatchJob > dsCall[r].seen
                      \/ dsPatching # Missing /\ dsPatching > dsCall[r].seen
                      \/ dsModified > dsCall[r].seen
<1>1. /\ dsCall' = [dsCall EXCEPT ![r] = Missing] /\ DS!At(r, "schedule")
      /\ dsPatchJob' = dsCall[r].seen /\ DS!Excused("crossed", crossed)
      /\ UNCHANGED <<dsTable, dsChanges, dsStats, dsActive, dsModified, dsCountJob, dsPatching>>
  BY DEF DS!Schedule, DS!End
<1>2. /\ dsCall[r].seen \in 0 .. dsChanges /\ dsChanges \in Nat /\ dsModified \in 0 .. dsChanges
      /\ dsPatchJob \in 0 .. dsChanges \cup {Missing}
      /\ dsPatching \in 0 .. dsChanges \cup {Missing}
  BY <1>1 DEF DsInv, DsTyped
<1>3. /\ dsCall'[r] = Missing /\ \A q \in DsRequests \ {r} : dsCall'[q] = dsCall[q]
  BY <1>1, DsMoved DEF DsInv
<1>4. DsTyped'
  <2>1. /\ dsModified' \in 0 .. dsChanges /\ dsCountJob' \in BOOLEAN /\ dsActive' \in BOOLEAN
        /\ dsStats' \in 0 .. DsMaxRows \cup {Missing}
        /\ dsPatchJob' \in 0 .. dsChanges \cup {Missing}
        /\ dsPatching' \in 0 .. dsChanges \cup {Missing}
    BY <1>1, <1>2 DEF DsInv, DsTyped
  <2>2. DsTyped /\ Missing \in DsCalls \cup {Missing}
    BY DEF DsInv
  <2> QED BY <1>1, <2>1, <2>2, DsTypedKept
<1>5. /\ DsUncrossed(dsExcuse') => DsUncrossed(dsExcuse) /\ ~crossed
      /\ DsCountedWell(dsExcuse') => DsCountedWell(dsExcuse)
  <2> HIDE DEF crossed
  <2>1. crossed \in BOOLEAN
    BY DEF crossed
  <2> QED BY <1>1, <2>1, DsExcuses
<1>6. \A q \in DsRequests : DsOwes(q) => DsOwes(q)' /\ dsCall'[q] = dsCall[q]
  BY <1>1, <1>3, DsOthers DEF DsOwes, DS!At
<1>7. DsFlagDue => DsFlagDue'
  BY <1>1, <1>6 DEF DsFlagDue
<1>8. DsTimeDue /\ ~crossed => DsTimeDue'
  <2> SUFFICES ASSUME DsTimeDue, ~crossed PROVE DsTimeDue'
    OBVIOUS
  <2>1. CASE dsCall[r].seen = dsChanges
    BY <1>1, <2>1 DEF DsTimeDue
  <2>2. CASE dsCall[r].seen # dsChanges
    <3>1. PICK q \in DsRequests : DsOwes(q) \/ (DS!At(q, "schedule") /\ dsCall[q].seen = dsChanges)
      BY <1>2, <2>2 DEF DsTimeDue, DsConstantsOK
    <3>2. q # r
      BY <1>1, <2>2, <3>1 DEF DsOwes, DS!At
    <3>3. DsOwes(q)' \/ (DS!At(q, "schedule")' /\ dsCall'[q].seen = dsChanges')
      BY <1>1, <1>3, <3>1, <3>2, DsOthers
    <3> QED BY <3>3 DEF DsTimeDue
  <2> QED BY <2>1, <2>2
<1>9. DsCountDue => DsCountDue'
  BY <1>1, <1>3, <1>6, DsOthers DEF DsCountDue, DS!At
<1> QED BY <1>4, <1>5, <1>7, <1>8, <1>9 DEF DsInv

\* Such a step keeps the invariant: StoreCount.
LEMMA DsStoreCountInv ==
  ASSUME DsConstantsOK, DsInv, NEW r \in DsRequests, DS!StoreCount(r)
  PROVE  DsInv'
<1> DEFINE early == dsCall[r].seen # dsTable
<1>1. /\ dsCall' = [dsCall EXCEPT ![r] = Missing] /\ DS!At(r, "store")
      /\ dsStats' = dsCall[r].seen /\ DS!Excused("counted early", early)
      /\ UNCHANGED <<dsTable, dsChanges, dsActive, dsModified, dsCountJob, dsPatchJob, dsPatching>>
  BY DEF DS!StoreCount, DS!End
<1>2. /\ dsCall'[r] = Missing /\ \A q \in DsRequests \ {r} : dsCall'[q] = dsCall[q]
  BY <1>1, DsMoved DEF DsInv
<1>3. DsTyped'
  <2>1. /\ dsModified' \in 0 .. dsChanges /\ dsCountJob' \in BOOLEAN /\ dsActive' \in BOOLEAN
        /\ dsPatchJob' \in 0 .. dsChanges \cup {Missing}
        /\ dsPatching' \in 0 .. dsChanges \cup {Missing}
    BY <1>1 DEF DsInv, DsTyped
  <2>2. /\ DsTyped /\ Missing \in DsCalls \cup {Missing}
        /\ dsStats' \in 0 .. DsMaxRows \cup {Missing}
    BY <1>1 DEF DsInv, DsTyped
  <2> QED BY <1>1, <2>1, <2>2, DsTypedKept
<1>4. /\ DsUncrossed(dsExcuse') => DsUncrossed(dsExcuse)
      /\ DsCountedWell(dsExcuse') => ~early
  <2> HIDE DEF early
  <2>1. early \in BOOLEAN
    BY DEF early
  <2> QED BY <1>1, <2>1, DsExcuses
<1>5. \A q \in DsRequests : DsOwes(q) => DsOwes(q)' /\ dsCall'[q] = dsCall[q]
  BY <1>1, <1>2, DsOthers DEF DsOwes, DS!At
<1>6. \A q \in DsRequests : DS!At(q, "schedule") => DS!At(q, "schedule")' /\ dsCall'[q] = dsCall[q]
  BY <1>1, <1>2, DsOthers DEF DS!At
<1>7. (DsFlagDue => DsFlagDue') /\ (DsTimeDue => DsTimeDue')
  BY <1>1, <1>5, <1>6 DEF DsFlagDue, DsTimeDue
<1>8. ~early => DsCountDue'
  BY <1>1 DEF DsCountDue
<1> QED BY <1>3, <1>4, <1>7, <1>8 DEF DsInv

\* Such a step keeps the invariant: Crash.  A search owes nothing.
LEMMA DsCrashInv ==
  ASSUME DsConstantsOK, DsInv, NEW r \in DsRequests, DS!Crash(r)
  PROVE  DsInv'
<1> DEFINE request == dsCall[r].kind # "search"
<1>1. /\ dsCall' = [dsCall EXCEPT ![r] = Missing] /\ dsCall[r] # Missing
      /\ DS!Excused("crash", request)
      /\ UNCHANGED <<dsTable, dsChanges, dsStats, dsActive, dsModified, dsCountJob, dsPatchJob, dsPatching>>
  BY DEF DS!Crash, DS!End
<1>2. DsTyped'
  <2>1. /\ DsTyped /\ Missing \in DsCalls \cup {Missing} /\ dsCountJob' \in BOOLEAN
    BY <1>1 DEF DsInv, DsTyped
  <2> QED BY <1>1, <2>1, DsTypedStays
<1>3. CASE request
  <2>1. TRUE \in BOOLEAN /\ DS!Excused("crash", TRUE)
    BY <1>1, <1>3 DEF DS!Excused
  <2>2. ~DsUncrossed(dsExcuse') /\ ~DsCountedWell(dsExcuse')
    BY <2>1, DsExcuses
  <2> QED BY <1>2, <2>2 DEF DsInv
<1>4. CASE ~request
  <2>1. UNCHANGED dsExcuse
    BY <1>1, <1>4 DEF DS!Excused
  <2>2. ~DsOwes(r) /\ ~DS!At(r, "schedule")
    BY <1>1, <1>4 DEF DsInv, DsTyped, DsOwes, DS!At
  <2>3. \A q \in DsRequests \ {r} : dsCall'[q] = dsCall[q]
    BY <1>1, DsMoved DEF DsInv
  <2> QED BY <1>1, <1>2, <2>1, <2>2, <2>3, DsPlainStep
<1> QED BY <1>3, <1>4

\* Steps of the worker and steps that change nothing keep the invariant.
LEMMA DsWorkerInv ==
  ASSUME DsConstantsOK, DsInv, DS!StartPatch \/ DS!Patch
  PROVE  DsInv'
<1>1. UNCHANGED <<dsTable, dsChanges, dsStats, dsActive, dsCountJob, dsCall, dsExcuse>>
  BY DEF DS!StartPatch, DS!Patch
<1>2. DsTyped'
  BY <1>1 DEF DS!StartPatch, DS!Patch, DsInv, DsTyped, DS!At
<1>3. DsTimeDue => DsTimeDue'
  BY <1>1 DEF DS!StartPatch, DS!Patch, DsTimeDue, DsOwes, DS!At, DsInv, DsTyped
<1>4. (DsFlagDue => DsFlagDue') /\ (DsCountDue => DsCountDue')
  BY <1>1 DEF DsFlagDue, DsCountDue, DsOwes, DS!At
<1> QED BY <1>1, <1>2, <1>3, <1>4 DEF DsInv

\* Every step keeps the invariant.
LEMMA DsInvNext == ASSUME DsConstantsOK, DsInv, [DS!Next]_(DS!vars)
                   PROVE DsInv'
<1>1. CASE UNCHANGED DS!vars
  BY <1>1 DEF DS!vars, DsInv, DsTyped, DsFlagDue, DsTimeDue, DsCountDue,
       DsOwes, DS!At
<1>2. ASSUME NEW r \in DsRequests, DS!CalculateRecordCount(r) PROVE DsInv'
  <2>1. CASE DS!Count(r)
    <3>1. dsCountJob' \in BOOLEAN
      BY <1>2 DEF DS!CalculateRecordCount
    <3> QED BY <1>2, <2>1, <3>1, DsCountInv DEF DS!CalculateRecordCount
  <2>2. CASE UNCHANGED dsCall
    BY <1>2, <2>2
       DEF DS!CalculateRecordCount, DsInv, DsTyped, DsFlagDue, DsTimeDue, DsCountDue, DsOwes, DS!At
  <2> QED BY <1>2, <2>1, <2>2 DEF DS!CalculateRecordCount
<1>3. ASSUME NEW r \in DsRequests, DS!Search(r) PROVE DsInv'
  <2>1. dsCountJob' \in BOOLEAN
    BY <1>3 DEF DS!Search, DsInv, DsTyped
  <2> QED BY <1>3, <2>1, DsCountInv DEF DS!Search
<1> QED
  BY <1>1, <1>2, <1>3, DsWriteInv, DsChangeInv, DsChangeFailsInv,
       DsRecountInv, DsPatchFlagInv,
     DsTakeTimeInv, DsScheduleInv, DsStoreCountInv, DsCrashInv, DsWorkerInv
  DEF DS!Next

\* The invariant holds always.
LEMMA DsInvHolds == ASSUME DsConstantsOK PROVE DS!Spec => []DsInv
<1>1. DsConstantsOK /\ DsInv /\ [DS!Next]_(DS!vars) => DsInv'
  BY DsInvNext
<1> QED BY <1>1, DsInitInv, PTL DEF DS!Spec

\* The type invariant holds always.
LEMMA DsTypeCorrect == ASSUME DsConstantsOK PROVE DS!Spec => []DS!TypeOK
<1>1. DsInv => DS!TypeOK
  BY DEF DsInv, DsTyped, DS!TypeOK, DsCalls
<1> QED BY <1>1, DsInvHolds, PTL

\* Once nothing is under way, nothing is due.
LEMMA DsMetadataFollows == ASSUME DsConstantsOK
                           PROVE DS!Spec => []DS!MetadataFollowsTable
<1>1. ASSUME DsConstantsOK, DsInv PROVE DS!MetadataFollowsTable
  <2> SUFFICES ASSUME DS!Quiet, "crash" \notin dsExcuse
               PROVE  /\ dsExcuse \cap {"no table to count", "crossed"} = {} =>
                           /\ dsActive = (dsTable # Missing)
                           /\ dsPatchJob = Missing /\ dsPatching = Missing => dsModified = dsChanges
                      /\ /\ dsTable # Missing /\ dsStats # Missing
                         /\ dsExcuse \cap {"count kept", "counted early"} = {}
                         => dsStats = dsTable
    BY DEF DS!MetadataFollowsTable
  <2>1. \A r \in DsRequests : ~DsOwes(r) /\ ~DS!At(r, "count") /\ ~DS!At(r, "schedule")
    BY DEF DS!Quiet, DsOwes, DS!At
  <2>2. ASSUME dsExcuse \cap {"no table to count", "crossed"} = {}
        PROVE  /\ dsActive = (dsTable # Missing)
               /\ dsPatchJob = Missing /\ dsPatching = Missing => dsModified = dsChanges
    <3>1. DsFlagDue /\ DsTimeDue
      BY <1>1, <2>2 DEF DsInv, DsUncrossed
    <3>2. ~(dsActive <=> dsTable = Missing) /\ dsActive \in BOOLEAN
      BY <1>1, <2>1, <3>1 DEF DsFlagDue, DsInv, DsTyped
    <3>3. dsChanges # Missing
      BY <1>1 DEF DsInv, DsTyped, DsConstantsOK
    <3> QED BY <2>1, <3>1, <3>2, <3>3 DEF DsTimeDue
  <2>3. ASSUME dsTable # Missing, dsStats # Missing,
               dsExcuse \cap {"count kept", "counted early"} = {}
        PROVE  dsStats = dsTable
    BY <1>1, <2>1, <2>3 DEF DsInv, DsCountedWell, DsCountDue
  <2> QED BY <2>2, <2>3
<1>2. DsConstantsOK /\ DsInv => DS!MetadataFollowsTable
  BY <1>1
<1> QED BY <1>2, DsInvHolds, PTL

-----------------------------------------------------------------------------
(* DatastoreTable: a table serves its rows                                 *)

DtIds == 1 .. DtMaxId
DtVals == [DtColumns -> DtValues \cup {DtNull}]
DtRows == [id : DtIds, vals : DtVals, text : DtVals]
DtTables == [cols : SUBSET DtColumns, key : SUBSET DtColumns, plain : SUBSET DtColumns,
           last : 0 .. DtMaxId]

\* A row has an _id; what stands for no table or for a parameter that is not
\* given is none that is.
DtConstantsOK ==
  /\ DtMaxId \in Nat /\ DtMaxId # 0
  /\ Missing \notin DtTables /\ Missing \notin Nat
  /\ Missing \notin DT!Records(DtColumns) /\ Missing \notin SUBSET DtColumns

\* An index is on columns of the table.
DtOnColumns(t) == t.key \subseteq t.cols /\ t.plain \subseteq t.cols

\* No two rows have one _id.
DtOneEach(rs) == \A x, y \in rs : x.id = y.id => x = y

\* An _id is one the sequence has given or one a request chose.
DtGiven(rs, last) == \A x \in rs : x.id <= last \/ x.id \in dtAhead

\* A row has the text of its values, or one of the ids.
DtTold(rs, ids) == \A x \in rs : x.text = x.vals \/ x.id \in ids

\* The key is the one asked for, or none: its name was taken.
DtKeyAsked(key, pk, taken) == key # pk => taken /\ key = {}

DtTyped ==
  /\ dtTable \in DtTables \cup {Missing}
  /\ dtTable # Missing => DtOnColumns(dtTable)
  /\ dtRows \subseteq DtRows
  /\ dtAsked \subseteq DtColumns /\ dtHidden \in BOOLEAN
  /\ dtKept \subseteq DtIds /\ dtAhead \subseteq DtIds
  /\ dtClash \in 0 .. DtMaxId

DtInv ==
  /\ DtTyped
  /\ dtTable = Missing => dtRows = {} /\ dtAsked = {}
  /\ DtOneEach(dtRows) /\ DtTold(dtRows, dtKept)
  /\ dtTable # Missing => DtGiven(dtRows, dtTable.last)
  /\ dtClash # 0 => dtClash \in dtAhead
  /\ dtTable # Missing => DtKeyAsked(dtTable.key, dtAsked, dtHidden)

\* The invariant holds at first.
LEMMA DtInitInv == ASSUME DtConstantsOK, DT!Init PROVE DtInv
<1>1. DtTyped
  <2>1. 0 \in 0 .. DtMaxId /\ FALSE \in BOOLEAN
    BY DEF DtConstantsOK
  <2> QED BY <2>1 DEF DT!Init, DtTyped
<1>2. /\ dtTable = Missing /\ dtRows = {} /\ dtAsked = {} /\ dtClash = 0
      /\ DtOneEach(dtRows) /\ DtTold(dtRows, dtKept)
  BY DEF DT!Init, DtOneEach, DtTold
<1> QED BY <1>1, <1>2 DEF DtInv

\* A record that a request brings, laid over values.
LEMMA DtMergedVals ==
  ASSUME NEW rec \in DT!Records(DtColumns), NEW vals \in DtVals
  PROVE  DT!Merged(vals, rec) \in DtVals
<1>1. PICK some \in (SUBSET DtColumns) \ {{}} : rec \in [some -> DtValues]
  BY DEF DT!Records
<1>2. \A c \in DtColumns : (IF c \in DOMAIN rec THEN rec[c] ELSE vals[c]) \in DtValues \cup {DtNull}
  BY <1>1 DEF DtVals
<1> QED BY <1>2 DEF DT!Merged, DtVals

\* A new row tells of its values.
LEMMA DtNewRow ==
  ASSUME NEW rec \in DT!Records(DtColumns), NEW id \in DtIds
  PROVE  /\ DT!Row(id, rec) \in DtRows
         /\ DT!Row(id, rec).id = id /\ DT!Row(id, rec).text = DT!Row(id, rec).vals
<1>1. DT!Blank \in DtVals
  BY DEF DT!Blank, DtVals
<1>2. DT!Merged(DT!Blank, rec) \in DtVals
  BY <1>1, DtMergedVals
<1> QED BY <1>2 DEF DT!Row, DT!Words, DtRows

\* The columns of a record are columns.
LEMMA DtRecordColumns == ASSUME NEW rec \in DT!Records(DtColumns)
                         PROVE DOMAIN rec \subseteq DtColumns
BY DEF DT!Records

\* A record of a table's columns is a record.
LEMMA DtFewerColumns ==
  ASSUME NEW cols \in SUBSET DtColumns
  PROVE DT!Records(cols) \subseteq DT!Records(DtColumns)
BY DEF DT!Records

\* A row added under an _id that no row has.
LEMMA DtAdded ==
  ASSUME DtConstantsOK, NEW rs \in SUBSET DtRows, DtOneEach(rs), NEW ids, DtTold(rs, ids),
         NEW rec \in DT!Records(DtColumns), NEW id \in DtIds, \A x \in rs : x.id # id
  PROVE  LET all == rs \cup {DT!Row(id, rec)} IN
         all \subseteq DtRows /\ DtOneEach(all) /\ DtTold(all, ids)
BY DtNewRow DEF DtOneEach, DtTold

\* The indexes of a table whose columns and sequence stay.
LEMMA DtIndexedTable ==
  ASSUME DtConstantsOK, NEW t \in DtTables, DtOnColumns(t),
         NEW pk \in (SUBSET DtColumns) \cup {Missing}, NEW idx \in (SUBSET DtColumns) \cup {Missing},
         ~DT!BadIndexes(t, pk, idx)
  PROVE  LET new == DT!Indexed(t, pk, idx) IN
         /\ new \in DtTables /\ DtOnColumns(new)
         /\ new.cols = t.cols
         /\ pk = Missing => new.key = t.key
         /\ pk # Missing => DtKeyAsked(new.key, pk, DT!Hidden(t, pk, idx))
<1> DEFINE key == DT!Indexed(t, pk, idx).key
           plain == DT!Indexed(t, pk, idx).plain
<1>1. /\ DT!Indexed(t, pk, idx) = [t EXCEPT !.key = key, !.plain = plain]
      /\ key = IF pk # Missing /\ pk # t.key
               THEN IF DT!Hidden(t, pk, idx) THEN {} ELSE pk ELSE t.key
      /\ plain \subseteq t.plain \cup (IF idx = Missing THEN {} ELSE idx)
  BY DEF DT!Indexed, DtTables
<1>2. /\ pk # Missing => pk \subseteq t.cols
      /\ idx # Missing => idx \subseteq t.cols
  BY DEF DT!BadIndexes
<1>3. key \subseteq t.cols /\ plain \subseteq t.cols
  BY <1>1, <1>2 DEF DtOnColumns
<1> HIDE DEF key, plain
<1>4. t.cols \subseteq DtColumns
  BY DEF DtTables
<1>5. key \in SUBSET DtColumns /\ plain \in SUBSET DtColumns
  BY <1>3, <1>4
<1> QED BY <1>1, <1>3, <1>5 DEF DtTables, DtOnColumns, DtKeyAsked

\* The sequence does not depend on the indexes.
LEMMA DtIndexedLast ==
  ASSUME NEW t \in DtTables, NEW pk, NEW idx
  PROVE  DT!Indexed(t, pk, idx).last = t.last
BY DEF DT!Indexed, DtTables

(* A request that makes or alters a table keeps the invariant, when what   *)
(* it finishes, the table t with the rows rs, has it.                      *)
LEMMA DtFinishInv ==
  ASSUME DtConstantsOK, DtInv,
         NEW t \in DtTables, DtOnColumns(t), dtTable # Missing => t.last = dtTable.last,
         NEW rs \in SUBSET DtRows, DtOneEach(rs), DtGiven(rs, t.last),
         NEW stale \in SUBSET DtIds, DtTold(rs, dtKept \cup stale),
         NEW rec \in DT!Records(DtColumns) \cup {Missing},
         rec # Missing => t.last + 1 <= DtMaxId,
         NEW pk \in (SUBSET DtColumns) \cup {Missing}, NEW idx \in (SUBSET DtColumns) \cup {Missing},
         DtKeyAsked(t.key, IF dtAsked \subseteq t.cols THEN dtAsked ELSE {}, dtHidden),
         DT!Finish(t, rs, rec, pk, idx, stale)
  PROVE  DtInv'
<1> DEFINE id == t.last + 1
           all == IF rec = Missing THEN rs ELSE rs \cup {DT!Row(id, rec)}
           u == IF rec = Missing THEN t ELSE [t EXCEPT !.last = id]
           new == DT!Indexed(u, pk, idx)
           taken == rec # Missing /\ \E x \in rs : x.id = id
           bad == taken \/ DT!BadIndexes(t, pk, idx) \/ ~DT!Unique(all, t.key) \/ ~DT!Unique(all, new.key)
<1>1. /\ t.last \in 0 .. DtMaxId /\ DtMaxId \in Nat
      /\ rec # Missing => id \in DtIds
  BY DEF DtTables, DtConstantsOK, DtIds
<1>2. u \in DtTables /\ DtOnColumns(u) /\ u.cols = t.cols /\ u.key = t.key /\ u.plain = t.plain
  BY <1>1 DEF DtTables, DtOnColumns, DtIds
<1>3. u.last = IF rec = Missing THEN t.last ELSE id
  BY DEF DtTables
<1>4. new.last = u.last
  BY <1>2, DtIndexedLast
<1>5. CASE bad
  <2>1. /\ dtClash' = IF taken THEN id ELSE 0
        /\ dtTable' = IF dtTable = Missing THEN Missing ELSE [dtTable EXCEPT !.last = new.last]
        /\ UNCHANGED <<dtRows, dtAsked, dtHidden, dtKept, dtAhead>>
    BY <1>5 DEF DT!Finish
  <2>2. taken => id \in dtAhead /\ id \in DtIds
    BY <1>1 DEF DtGiven, DtRows, DtIds
  <2>3. new.last \in 0 .. DtMaxId /\ t.last <= new.last
    BY <1>1, <1>3, <1>4 DEF DtIds
  <2>4. dtTable # Missing =>
          /\ dtTable \in DtTables
          /\ dtTable' \in DtTables /\ dtTable'.cols = dtTable.cols
          /\ dtTable'.key = dtTable.key /\ dtTable'.plain = dtTable.plain /\ dtTable'.last = new.last
    <3> HIDE DEF new
    <3> QED BY <2>1, <2>3 DEF DtInv, DtTyped, DtTables
  <2>5. dtTable' = Missing <=> dtTable = Missing
    BY <2>1, <2>4 DEF DtConstantsOK
  <2>6. DtTyped'
    <3>1. dtClash' \in 0 .. DtMaxId
      BY <1>1, <2>1, <2>2 DEF DtIds
    <3>2. dtTable' \in DtTables \cup {Missing} /\ (dtTable' # Missing => DtOnColumns(dtTable)')
      BY <2>1, <2>4, <2>5 DEF DtInv, DtTyped, DtOnColumns
    <3> QED BY <2>1, <3>1, <3>2 DEF DtInv, DtTyped
  <2>7. dtTable' # Missing => DtGiven(dtRows, dtTable.last)'
    <3> SUFFICES ASSUME dtTable' # Missing, NEW x \in dtRows
                 PROVE x.id <= new.last \/ x.id \in dtAhead
      BY <2>1, <2>4, <2>5 DEF DtGiven
    <3>1. x.id <= t.last \/ x.id \in dtAhead
      BY <2>5 DEF DtInv, DtGiven
    <3>2. x.id \in Nat
      BY DEF DtInv, DtTyped, DtRows, DtIds
    <3> HIDE DEF new
    <3> QED BY <1>1, <2>3, <3>1, <3>2
  <2>8. dtClash' # 0 => dtClash' \in dtAhead'
    BY <2>1, <2>2
  <2>9. /\ dtTable' = Missing => dtRows' = {} /\ dtAsked' = {}
        /\ DtOneEach(dtRows)' /\ DtTold(dtRows, dtKept)'
        /\ dtTable' # Missing => DtKeyAsked(dtTable.key, dtAsked, dtHidden)'
    BY <2>1, <2>4, <2>5 DEF DtInv, DtOneEach, DtTold, DtKeyAsked
  <2> QED BY <2>6, <2>7, <2>8, <2>9 DEF DtInv
<1>6. CASE ~bad
  <2>1. /\ dtTable' = new /\ dtRows' = all
        /\ dtAsked' = IF pk # Missing THEN pk ELSE IF dtAsked \subseteq t.cols THEN dtAsked ELSE {}
        /\ dtHidden' = IF pk # Missing THEN DT!Hidden(t, pk, idx) ELSE dtHidden
        /\ dtKept' = dtKept \cup stale /\ dtClash' = 0 /\ dtAhead' = dtAhead
    BY <1>6 DEF DT!Finish
  <2>2. ~DT!BadIndexes(u, pk, idx) /\ DT!Hidden(u, pk, idx) = DT!Hidden(t, pk, idx)
    BY <1>2, <1>6 DEF DT!BadIndexes, DT!Hidden
  <2>3. /\ new \in DtTables /\ DtOnColumns(new)
        /\ pk = Missing => new.key = t.key
        /\ pk # Missing => DtKeyAsked(new.key, pk, DT!Hidden(t, pk, idx))
    <3> HIDE DEF u
    <3> QED BY <1>2, <2>2, DtIndexedTable
  <2>4. all \subseteq DtRows /\ DtOneEach(all) /\ DtTold(all, dtKept \cup stale)
    <3>1. CASE rec = Missing
      BY <3>1
    <3>2. CASE rec # Missing
      <4>1. \A x \in rs : x.id # id
        BY <1>6, <3>2
      <4> HIDE DEF id
      <4> QED BY <1>1, <3>2, <4>1, DtAdded
    <3> QED BY <3>1, <3>2
  <2>5. DtGiven(all, new.last)
    <3> SUFFICES ASSUME NEW x \in all
                 PROVE x.id <= new.last \/ x.id \in dtAhead
      BY DEF DtGiven
    <3>1. x.id \in Nat
      BY <2>4 DEF DtRows, DtIds
    <3>2. CASE x \in rs
      <4>1. x.id <= t.last \/ x.id \in dtAhead
        BY <3>2 DEF DtGiven
      <4> HIDE DEF new, u
      <4> QED BY <1>1, <1>3, <1>4, <3>1, <4>1
    <3>3. CASE x \notin rs
      <4>1. rec # Missing /\ x = DT!Row(id, rec)
        BY <3>3
      <4>2. x.id = id
        <5> HIDE DEF id
        <5> QED BY <1>1, <4>1, DtNewRow
      <4> HIDE DEF new, u
      <4> QED BY <1>1, <1>3, <1>4, <4>1, <4>2
    <3> QED BY <3>2, <3>3
  <2> HIDE DEF new, all
  <2>6. DtTyped'
    <3>1. dtAsked' \subseteq DtColumns
      BY <2>1 DEF DtInv, DtTyped
    <3>2. dtHidden' \in BOOLEAN
      BY <2>1 DEF DtInv, DtTyped, DT!Hidden
    <3>3. 0 \in 0 .. DtMaxId
      BY <1>1
    <3> QED BY <2>1, <2>3, <2>4, <3>1, <3>2, <3>3 DEF DtInv, DtTyped
  <2>7. dtTable' # Missing
    BY <2>1, <2>3 DEF DtConstantsOK
  <2>8. DtKeyAsked(new.key, dtAsked', dtHidden')
    BY <2>1, <2>3 DEF DtKeyAsked
  <2>9. DtTold(dtRows, dtKept)' /\ DtOneEach(dtRows)' /\ DtGiven(dtRows, dtTable.last)'
    BY <2>1, <2>4, <2>5 DEF DtTold, DtOneEach, DtGiven
  <2> QED BY <2>1, <2>6, <2>7, <2>8, <2>9 DEF DtInv, DtKeyAsked
<1> QED BY <1>5, <1>6

\* Such a step keeps the invariant: CreateTable.
LEMMA DtCreateTableInv ==
  ASSUME DtConstantsOK, DtInv, NEW fields \in SUBSET DtColumns,
         NEW rec \in DT!Records(DtColumns) \cup {Missing},
         NEW pk \in (SUBSET DtColumns) \cup {Missing}, NEW idx \in (SUBSET DtColumns) \cup {Missing},
         DT!CreateTable(fields, rec, pk, idx)
  PROVE  DtInv'
<1> DEFINE cols == fields \cup (IF rec = Missing THEN {} ELSE DOMAIN rec)
           t == [cols |-> cols, key |-> {}, plain |-> {}, last |-> 0]
<1>1. dtTable = Missing /\ DT!Finish(t, {}, rec, pk, idx, {})
  BY DEF DT!CreateTable
<1>2. cols \subseteq DtColumns
  BY DtRecordColumns
<1>3. t \in DtTables /\ DtOnColumns(t) /\ t.key = {} /\ t.last = 0
  <2> HIDE DEF cols
  <2> QED BY <1>2 DEF DtTables, DtOnColumns, DtConstantsOK
<1>4. t.last + 1 <= DtMaxId
  BY <1>3 DEF DtConstantsOK
<1>5. DtKeyAsked(t.key, IF dtAsked \subseteq t.cols THEN dtAsked ELSE {}, dtHidden)
  BY <1>1, <1>3 DEF DtInv, DtKeyAsked
<1>6. DtOneEach({}) /\ DtGiven({}, t.last) /\ DtTold({}, dtKept \cup {})
  BY DEF DtOneEach, DtGiven, DtTold
<1> HIDE DEF t
<1> QED BY <1>1, <1>3, <1>4, <1>5, <1>6, DtFinishInv

\* A request that fails leaves everything but the clash.
LEMMA DtFailsInv == ASSUME DtConstantsOK, DtInv, DT!Fails PROVE DtInv'
BY DEF DtConstantsOK, DT!Fails, DtInv, DtTyped, DtOnColumns, DtOneEach,
     DtTold, DtGiven, DtKeyAsked

\* Such a step keeps the invariant: AlterTable.
LEMMA DtAlterTableInv ==
  ASSUME DtConstantsOK, DtInv, NEW fields \in SUBSET DtColumns, NEW delete \in BOOLEAN,
         NEW rec \in DT!Records(DtColumns) \cup {Missing}, rec # Missing => DT!Room,
         NEW pk \in (SUBSET DtColumns) \cup {Missing}, NEW idx \in (SUBSET DtColumns) \cup {Missing},
         DT!AlterTable(fields, delete, rec, pk, idx)
  PROVE  DtInv'
<1> DEFINE given == IF fields = {} THEN dtTable.cols ELSE fields
           inRec == IF rec = Missing THEN {} ELSE DOMAIN rec
           gone == IF delete THEN dtTable.cols \ (given \cup inRec) ELSE {}
           Shrunk(x) == [x EXCEPT !.vals = [c \in DtColumns |-> IF c \in gone THEN DtNull ELSE @[c]]]
           cut == {x \in dtRows : \E c \in gone : x.vals[c] # DtNull}
           t == [dtTable EXCEPT !.cols = (@ \cup given \cup inRec) \ gone,
                              !.key = IF @ \cap gone = {} THEN @ ELSE {},
                              !.plain = @ \ gone]
           rs == {Shrunk(x) : x \in dtRows}
           stale == {x.id : x \in cut}
<1>1. CASE DT!Fails
  BY <1>1, DtFailsInv
<1>2. CASE DT!Finish(t, rs, rec, pk, idx, stale)
  <2>1. /\ dtTable # Missing /\ dtTable \in DtTables /\ DtOnColumns(dtTable)
        /\ dtRows \subseteq DtRows /\ DtOneEach(dtRows) /\ DtTold(dtRows, dtKept)
        /\ DtGiven(dtRows, dtTable.last) /\ DtKeyAsked(dtTable.key, dtAsked, dtHidden)
    BY DEF DT!AlterTable, DtInv, DtTyped
  <2>2. given \subseteq DtColumns /\ inRec \subseteq DtColumns
    BY <2>1, DtRecordColumns DEF DtTables
  <2>3. /\ t.cols = (dtTable.cols \cup given \cup inRec) \ gone
        /\ t.key = IF dtTable.key \cap gone = {} THEN dtTable.key ELSE {}
        /\ t.plain = dtTable.plain \ gone /\ t.last = dtTable.last
        /\ t \in DtTables /\ DtOnColumns(t)
    <3> HIDE DEF given, inRec, gone
    <3> QED BY <2>1, <2>2 DEF DtTables, DtOnColumns
  <2>4. gone \subseteq dtTable.cols
    OBVIOUS
  <2> HIDE DEF given, inRec, gone, t
  <2>5. \A x \in dtRows :
          /\ Shrunk(x) \in DtRows /\ Shrunk(x).id = x.id /\ Shrunk(x).text = x.text
          /\ x \notin cut => Shrunk(x).vals = x.vals
    <3> SUFFICES ASSUME NEW x \in dtRows
                 PROVE  /\ Shrunk(x) \in DtRows /\ Shrunk(x).id = x.id /\ Shrunk(x).text = x.text
                        /\ x \notin cut => Shrunk(x).vals = x.vals
      OBVIOUS
    <3> DEFINE v == [c \in DtColumns |-> IF c \in gone THEN DtNull ELSE x.vals[c]]
    <3>1. x \in DtRows /\ x.vals \in DtVals
      BY <2>1 DEF DtRows
    <3>2. v \in DtVals
      BY <3>1 DEF DtVals
    <3>3. x \notin cut => v = x.vals
      BY <3>1 DEF DtVals
    <3>4. Shrunk(x) = [x EXCEPT !.vals = v]
      BY <3>1 DEF DtRows
    <3> HIDE DEF v
    <3> QED BY <3>1, <3>2, <3>3, <3>4 DEF DtRows
  <2>6. rs \subseteq DtRows /\ DtOneEach(rs) /\ DtGiven(rs, t.last)
    <3> HIDE DEF Shrunk
    <3> QED BY <2>1, <2>3, <2>5 DEF DtOneEach, DtGiven
  <2>7. stale \in SUBSET DtIds
    BY <2>1 DEF DtRows
  <2>8. DtTold(rs, dtKept \cup stale)
    <3> HIDE DEF Shrunk
    <3> QED BY <2>1, <2>5 DEF DtTold
  <2>9. rec # Missing => t.last + 1 <= DtMaxId
    BY <2>1, <2>3 DEF DT!Room, DtTables, DtConstantsOK
  <2>10. DtKeyAsked(t.key, IF dtAsked \subseteq t.cols THEN dtAsked ELSE {}, dtHidden)
    BY <2>1, <2>3, <2>4 DEF DtKeyAsked, DtOnColumns
  <2> HIDE DEF rs, stale
  <2> QED BY <1>2, <2>1, <2>3, <2>6, <2>7, <2>8, <2>9, <2>10, DtFinishInv
<1> QED BY <1>1, <1>2 DEF DT!AlterTable

\* The sequence gives the next _id.
LEMMA DtDrawn ==
  ASSUME DtConstantsOK, DtInv, dtTable # Missing, DT!Room, DT!Draw
  PROVE  /\ dtTable' \in DtTables /\ dtTable' # Missing /\ DtOnColumns(dtTable')
         /\ dtTable'.last = dtTable.last + 1 /\ dtTable'.last \in DtIds /\ dtTable'.key = dtTable.key
         /\ DtGiven(dtRows, dtTable'.last)
<1>1. /\ dtTable \in DtTables /\ DtOnColumns(dtTable) /\ dtTable.last < DtMaxId
      /\ dtTable.last \in Nat /\ DtMaxId \in Nat
  BY DEF DtInv, DtTyped, DT!Room, DtTables, DtConstantsOK
<1>2. dtTable' = [dtTable EXCEPT !.last = dtTable.last + 1]
  BY DEF DT!Draw
<1>3. dtTable.last + 1 \in 0 .. DtMaxId /\ dtTable.last + 1 \in DtIds
  BY <1>1 DEF DtIds
<1>4. dtTable' \in DtTables /\ DtOnColumns(dtTable') /\ dtTable'.last = dtTable.last + 1 /\ dtTable'.key = dtTable.key
  BY <1>1, <1>2, <1>3 DEF DtTables, DtOnColumns
<1>5. \A x \in dtRows : x.id \in Nat
  BY DEF DtInv, DtTyped, DtRows, DtIds
<1>6. DtGiven(dtRows, dtTable'.last)
  BY <1>1, <1>4, <1>5 DEF DtInv, DtGiven
<1> QED BY <1>3, <1>4, <1>6 DEF DtConstantsOK

\* Such a step keeps the invariant: Insert.
LEMMA DtInsertInv ==
  ASSUME DtConstantsOK, DtInv, dtTable # Missing, DT!Room, NEW rec \in DT!Records(DtColumns), DT!Insert(rec)
  PROVE  DtInv'
<1> DEFINE id == dtTable.last + 1
           taken == \E x \in dtRows : x.id = id
           all == dtRows \cup {DT!Row(id, rec)}
<1>1. /\ dtTable' \in DtTables /\ dtTable' # Missing /\ DtOnColumns(dtTable')
      /\ dtTable'.last = id /\ id \in DtIds /\ dtTable'.key = dtTable.key
      /\ DtGiven(dtRows, dtTable'.last)
  BY DtDrawn DEF DT!Insert
<1>2. UNCHANGED <<dtAsked, dtHidden, dtAhead, dtKept>>
  BY DEF DT!Insert
<1>3. DtKeyAsked(dtTable.key, dtAsked, dtHidden)'
  BY <1>1, <1>2 DEF DtInv, DtKeyAsked
<1>4. CASE dtClash' = (IF taken THEN id ELSE 0) /\ UNCHANGED dtRows
  <2>1. taken => id \in dtAhead
    <3> SUFFICES ASSUME NEW x \in dtRows, x.id = id PROVE id \in dtAhead
      OBVIOUS
    <3>1. x.id <= dtTable.last \/ x.id \in dtAhead
      BY DEF DtInv, DtGiven
    <3>2. dtTable.last \in Nat
      BY DEF DtInv, DtTyped, DtTables, DtConstantsOK
    <3> QED BY <3>1, <3>2
  <2>2. dtClash' \in 0 .. DtMaxId
    BY <1>1, <1>4 DEF DtIds, DtConstantsOK
  <2>3. DtGiven(dtRows, dtTable.last)'
    BY <1>1, <1>2, <1>4 DEF DtGiven
  <2>4. DtTyped'
    BY <1>1, <1>2, <1>4, <2>2 DEF DtInv, DtTyped
  <2> QED BY <1>1, <1>2, <1>3, <1>4, <2>1, <2>3, <2>4 DEF DtInv, DtOneEach,
       DtTold
<1>5. CASE ~taken /\ dtClash' = 0 /\ dtRows' = all
  <2>1. dtRows \in SUBSET DtRows /\ DtOneEach(dtRows) /\ DtTold(dtRows, dtKept) /\ \A x \in dtRows : x.id # id
    BY <1>5 DEF DtInv, DtTyped
  <2> HIDE DEF id
  <2>2. all \subseteq DtRows /\ DtOneEach(all) /\ DtTold(all, dtKept)
    BY <1>1, <2>1, DtAdded
  <2>3. DT!Row(id, rec).id = id
    BY <1>1, DtNewRow
  <2>4. DtGiven(dtRows, dtTable.last)'
    BY <1>1, <1>2, <1>5, <2>3 DEF DtGiven, DtIds
  <2>5. DtTyped'
    BY <1>1, <1>2, <1>5, <2>2 DEF DtInv, DtTyped, DtConstantsOK
  <2> QED BY <1>1, <1>2, <1>3, <1>5, <2>2, <2>4, <2>5 DEF DtInv, DtOneEach,
       DtTold
<1> QED BY <1>4, <1>5 DEF DT!Insert

(* What changes the rows and the sequence, and no index, keeps the         *)
(* invariant when the new rows have it.                                    *)
LEMMA DtRowsInv ==
  ASSUME DtConstantsOK, DtInv, dtTable # Missing,
         \/ UNCHANGED dtTable
         \/ DT!Draw /\ DT!Room,
         dtRows' \subseteq DtRows, DtOneEach(dtRows'), DtTold(dtRows', dtKept'), dtKept' \subseteq DtIds,
         \A x \in dtRows' : \E y \in dtRows : x.id = y.id,
         dtClash' = 0, UNCHANGED <<dtAsked, dtHidden, dtAhead>>
  PROVE  DtInv'
<1>1. /\ dtTable' \in DtTables /\ dtTable' # Missing /\ DtOnColumns(dtTable') /\ dtTable'.key = dtTable.key
      /\ DtGiven(dtRows, dtTable'.last)
  BY DtDrawn DEF DtInv, DtTyped
<1>2. DtGiven(dtRows, dtTable.last)'
  BY <1>1 DEF DtGiven
<1>3. DtTyped'
  BY <1>1 DEF DtInv, DtTyped, DtConstantsOK
<1> QED BY <1>1, <1>2, <1>3 DEF DtInv, DtOneEach, DtTold, DtKeyAsked

\* A row that a record changes.
LEMMA DtChangeInv ==
  ASSUME DtConstantsOK, DtInv, dtTable # Missing, NEW x \in dtRows, NEW rec \in DT!Records(DtColumns),
         NEW renew \in BOOLEAN, DT!Change(x, rec, renew),
         \/ UNCHANGED dtTable
         \/ DT!Draw /\ DT!Room,
         UNCHANGED <<dtAsked, dtHidden, dtAhead>>
  PROVE  DtInv'
<1> DEFINE vals == DT!Merged(x.vals, rec)
           new == [x EXCEPT !.vals = vals, !.text = IF renew THEN DT!Words(vals) ELSE @]
<1>1. dtRows \subseteq DtRows /\ DtOneEach(dtRows) /\ DtTold(dtRows, dtKept) /\ dtKept \subseteq DtIds
  BY DEF DtInv, DtTyped
<1>2. x \in DtRows /\ vals \in DtVals
  BY <1>1, DtMergedVals DEF DtRows
<1>3. new \in DtRows /\ new.id = x.id /\ (renew => new.text = new.vals)
  <2> HIDE DEF vals
  <2> QED BY <1>2 DEF DtRows, DT!Words
<1>4. CASE /\ dtRows' = (dtRows \ {x}) \cup {new} /\ dtClash' = 0
           /\ dtKept' = IF renew THEN dtKept \ {x.id} ELSE dtKept \cup {x.id}
  <2> HIDE DEF new
  <2>1. dtRows' \subseteq DtRows /\ \A y \in dtRows' : \E z \in dtRows : y.id = z.id
    BY <1>1, <1>3, <1>4
  <2>2. DtOneEach(dtRows')
    BY <1>1, <1>3, <1>4 DEF DtOneEach
  <2>3. DtTold(dtRows', dtKept')
    <3>1. \A y \in dtRows \ {x} : y.id # x.id
      BY <1>1 DEF DtOneEach
    <3> QED BY <1>1, <1>3, <1>4, <3>1 DEF DtTold
  <2>4. dtKept' \subseteq DtIds
    BY <1>1, <1>2, <1>4 DEF DtRows
  <2> QED BY <1>4, <2>1, <2>2, <2>3, <2>4, DtRowsInv
<1>5. CASE dtClash' = 0 /\ UNCHANGED <<dtRows, dtKept>>
  <2>1. DtOneEach(dtRows') /\ DtTold(dtRows', dtKept')
    BY <1>1, <1>5 DEF DtOneEach, DtTold
  <2> QED BY <1>1, <1>5, <2>1, DtRowsInv
<1> QED BY <1>4, <1>5 DEF DT!Change

\* Nothing but the clash changes.
LEMMA DtSameInv ==
  ASSUME DtConstantsOK, DtInv, dtClash' = 0,
         UNCHANGED <<dtTable, dtRows, dtAsked, dtHidden, dtKept, dtAhead>>
  PROVE  DtInv'
BY DtFailsInv DEF DT!Fails

\* Such a step keeps the invariant: Update.
LEMMA DtUpdateInv ==
  ASSUME DtConstantsOK, DtInv, dtTable # Missing, NEW rec \in DT!Records(DtColumns),
         NEW id \in DtIds \cup {Missing}, DT!Update(rec, id)
  PROVE  DtInv'
<1>1. UNCHANGED <<dtTable, dtAsked, dtHidden, dtAhead>>
  BY DEF DT!Update
<1>2. DT!Meant(rec, id) \subseteq dtRows
  BY DEF DT!Meant
<1>3. CASE \E x \in DT!Meant(rec, id) : DT!Change(x, rec, TRUE)
  BY <1>1, <1>2, <1>3, DtChangeInv
<1>4. CASE dtClash' = 0 /\ UNCHANGED <<dtRows, dtKept>>
  BY <1>1, <1>4, DtSameInv
<1> QED BY <1>3, <1>4 DEF DT!Update, DT!UpdateRow

\* Such a step keeps the invariant: Upsert.
LEMMA DtUpsertInv ==
  ASSUME DtConstantsOK, DtInv, dtTable # Missing, DT!Room, NEW rec \in DT!Records(DtColumns),
         NEW id \in DtIds \cup {Missing}, DT!Upsert(rec, id)
  PROVE  DtInv'
<1>1. CASE DT!Fails
  BY <1>1, DtFailsInv
<1>2. CASE /\ \E x \in DT!Meant(rec, id) : DT!Change(x, rec, FALSE)
           /\ IF id = Missing THEN DT!Draw ELSE UNCHANGED dtTable
           /\ UNCHANGED <<dtAsked, dtHidden, dtAhead>>
  <2>1. DT!Meant(rec, id) \subseteq dtRows
    BY DEF DT!Meant
  <2> QED BY <1>2, <2>1, DtChangeInv
<1>3. CASE DT!Insert(rec)
  BY <1>3, DtInsertInv
<1>4. CASE /\ id # Missing /\ DT!Meant(rec, id) = {}
           /\ IF DT!Unique(dtRows \cup {DT!Row(id, rec)}, dtTable.key)
              THEN dtRows' = dtRows \cup {DT!Row(id, rec)} /\ dtAhead' = dtAhead \cup {id}
              ELSE UNCHANGED <<dtRows, dtAhead>>
           /\ dtClash' = 0
           /\ UNCHANGED <<dtTable, dtAsked, dtHidden, dtKept>>
  <2>1. CASE UNCHANGED <<dtRows, dtAhead>>
    BY <1>4, <2>1, DtSameInv
  <2>2. CASE dtRows' = dtRows \cup {DT!Row(id, rec)} /\ dtAhead' = dtAhead \cup {id}
    <3>1. id \in DtIds /\ \A x \in dtRows : x.id # id
      BY <1>4 DEF DT!Meant
    <3>2. dtRows \in SUBSET DtRows /\ DtOneEach(dtRows) /\ DtTold(dtRows, dtKept)
      BY DEF DtInv, DtTyped
    <3>3. dtRows' \subseteq DtRows /\ DtOneEach(dtRows') /\ DtTold(dtRows', dtKept)
      BY <2>2, <3>1, <3>2, DtAdded
    <3>4. DT!Row(id, rec).id = id
      BY <3>1, DtNewRow
    <3>5. DtGiven(dtRows, dtTable.last)'
      BY <1>4, <2>2, <3>4 DEF DtInv, DtGiven
    <3>6. DtTyped'
      BY <1>4, <2>2, <3>1, <3>3 DEF DtInv, DtTyped, DtOnColumns, DtConstantsOK
    <3> QED BY <1>4, <3>3, <3>5, <3>6 DEF DtInv, DtOneEach, DtTold, DtKeyAsked
  <2> QED BY <1>4, <2>1, <2>2
<1> QED BY <1>1, <1>2, <1>3, <1>4 DEF DT!Upsert

\* Such a step keeps the invariant: DeleteRows.
LEMMA DtDeleteRowsInv ==
  ASSUME DtConstantsOK, DtInv, dtTable # Missing, NEW c, NEW v, DT!DeleteRows(c, v)
  PROVE  DtInv'
<1> DEFINE gone == {x \in dtRows : x.vals[c] = v}
<1>1. /\ dtRows' = dtRows \ gone /\ dtKept' = dtKept \ {x.id : x \in gone} /\ dtClash' = 0
      /\ UNCHANGED <<dtTable, dtAsked, dtHidden, dtAhead>>
  BY DEF DT!DeleteRows
<1>2. dtRows \subseteq DtRows /\ DtOneEach(dtRows) /\ DtTold(dtRows, dtKept) /\ dtKept \subseteq DtIds
  BY DEF DtInv, DtTyped
<1>3. DtOneEach(dtRows')
  BY <1>1, <1>2 DEF DtOneEach
<1>4. \A x \in dtRows', y \in gone : x.id # y.id
  BY <1>1, <1>2 DEF DtOneEach
<1>5. DtTold(dtRows', dtKept')
  BY <1>1, <1>2, <1>4 DEF DtTold
<1>6. dtRows' \subseteq DtRows /\ dtKept' \subseteq DtIds /\ \A x \in dtRows' : \E y \in dtRows : x.id = y.id
  BY <1>1, <1>2
<1> QED BY <1>1, <1>3, <1>5, <1>6, DtRowsInv

\* Such a step keeps the invariant: Drop.
LEMMA DtDropInv == ASSUME DtConstantsOK, DT!Drop PROVE DtInv'
<1>1. DtTyped'
  <2>1. 0 \in 0 .. DtMaxId /\ FALSE \in BOOLEAN
    BY DEF DtConstantsOK
  <2> QED BY <2>1 DEF DT!Drop, DtTyped
<1>2. /\ dtTable' = Missing /\ dtRows' = {} /\ dtAsked' = {} /\ dtClash' = 0
      /\ DtOneEach(dtRows)' /\ DtTold(dtRows, dtKept)'
  BY DEF DT!Drop, DtOneEach, DtTold
<1> QED BY <1>1, <1>2 DEF DtInv

\* Every step keeps the invariant.
LEMMA DtInvNext ==
  ASSUME DtConstantsOK, DtIndexable \subseteq DtColumns, DtInv,
         [DT!Next]_(DT!vars)
  PROVE DtInv'
<1>1. CASE UNCHANGED DT!vars
  <2>1. DtTyped'
    BY <1>1 DEF DT!vars, DtInv, DtTyped, DtOnColumns
  <2>2. /\ DtOneEach(dtRows)' /\ DtTold(dtRows, dtKept)'
        /\ dtTable' # Missing => DtGiven(dtRows, dtTable.last)'
    BY <1>1 DEF DT!vars, DtInv, DtOneEach, DtTold, DtGiven
  <2>3. /\ dtTable' = dtTable /\ dtRows' = dtRows /\ dtAsked' = dtAsked /\ dtHidden' = dtHidden
        /\ dtAhead' = dtAhead /\ dtClash' = dtClash
    BY <1>1 DEF DT!vars
  <2>4. dtTable' # Missing => DtKeyAsked(dtTable.key, dtAsked, dtHidden)'
    BY <2>3 DEF DtInv, DtKeyAsked
  <2> QED BY <2>1, <2>2, <2>3, <2>4 DEF DtInv
<1>2. \A k \in DT!Some(DtIndexable) : k \in (SUBSET DtColumns) \cup {Missing}
  BY DEF DT!Some
<1>3. ASSUME NEW fields \in SUBSET DtColumns, NEW pk \in DT!Some(DtIndexable), NEW delete \in BOOLEAN,
             NEW rec \in IF DT!Room THEN DT!Records(DtColumns) \cup {Missing} ELSE {Missing},
             NEW idx \in IF rec = Missing THEN DT!Some(DtIndexable) ELSE {Missing},
             \/ DT!CreateTable(fields, rec, pk, idx)
             \/ DT!AlterTable(fields, delete, rec, pk, idx)
      PROVE  DtInv'
  <2>1. /\ rec \in DT!Records(DtColumns) \cup {Missing} /\ (rec # Missing => DT!Room)
        /\ pk \in (SUBSET DtColumns) \cup {Missing} /\ idx \in (SUBSET DtColumns) \cup {Missing}
    BY <1>2
  <2> QED BY <1>3, <2>1, DtCreateTableInv, DtAlterTableInv
<1>4. ASSUME dtTable # Missing, NEW rec \in DT!Records(dtTable.cols),
             \/ DT!Room /\ DT!Insert(rec)
             \/ \E id \in 1 .. DtMaxId \cup {Missing} :
                  DT!Update(rec, id) \/ (DT!Room /\ DT!Upsert(rec, id))
      PROVE  DtInv'
  <2>1. rec \in DT!Records(DtColumns)
    BY <1>4, DtFewerColumns DEF DtInv, DtTyped, DtTables
  <2>2. CASE DT!Room /\ DT!Insert(rec)
    BY <1>4, <2>1, <2>2, DtInsertInv
  <2>3. ASSUME NEW id \in DtIds \cup {Missing}, DT!Update(rec, id) PROVE DtInv'
    BY <1>4, <2>1, <2>3, DtUpdateInv
  <2>4. ASSUME NEW id \in DtIds \cup {Missing}, DT!Room, DT!Upsert(rec, id)
        PROVE DtInv'
    BY <1>4, <2>1, <2>4, DtUpsertInv
  <2> QED BY <1>4, <2>2, <2>3, <2>4 DEF DtIds
<1>5. ASSUME dtTable # Missing,
             \E c \in DtColumns, v \in DtValues : DT!DeleteRows(c, v)
      PROVE  DtInv'
  BY <1>5, DtDeleteRowsInv
<1>6. ASSUME dtTable # Missing,
             \/ \E rec \in DT!Records(dtTable.cols) :
                  \/ DT!Room /\ DT!Insert(rec)
                  \/ \E id \in 1 .. DtMaxId \cup {Missing} :
                       DT!Update(rec, id) \/ (DT!Room /\ DT!Upsert(rec, id))
             \/ \E c \in DtColumns, v \in DtValues : DT!DeleteRows(c, v)
             \/ DT!Drop
      PROVE  DtInv'
  BY <1>4, <1>5, <1>6, DtDropInv
<1>7. ASSUME NEW fields \in SUBSET DtColumns, NEW pk \in DT!Some(DtIndexable), NEW delete \in BOOLEAN,
             NEW rec \in IF DT!Room THEN DT!Records(DtColumns) \cup {Missing} ELSE {Missing},
             \E idx \in IF rec = Missing THEN DT!Some(DtIndexable) ELSE {Missing} :
               \/ ~delete /\ DT!CreateTable(fields, rec, pk, idx)
               \/ (delete => fields # {}) /\ DT!AlterTable(fields, delete, rec, pk, idx)
      PROVE  DtInv'
  BY <1>3, <1>7
<1> QED BY <1>1, <1>6, <1>7 DEF DT!Next

\* The invariant holds always.
LEMMA DtInvHolds == ASSUME DtConstantsOK, DtIndexable \subseteq DtColumns
                    PROVE DT!Spec => []DtInv
<1>1. DtConstantsOK /\ DtIndexable \subseteq DtColumns /\ DtInv /\ [DT!Next]_(DT!vars) => DtInv'
  BY DtInvNext
<1> QED BY <1>1, DtInitInv, PTL DEF DT!Spec

\* The type invariant holds always.
LEMMA DtTypeCorrect == ASSUME DtConstantsOK, DtIndexable \subseteq DtColumns
                       PROVE DT!Spec => []DT!TypeOK
<1>1. DtInv => DT!TypeOK
  BY DEF DtInv, DtTyped, DT!TypeOK, DtOnColumns, DtTables, DtRows, DtIds,
       DtVals
<1> QED BY <1>1, DtInvHolds, PTL

\* A table serves its rows always.
LEMMA DtTableServes ==
  ASSUME DtConstantsOK, DtIndexable \subseteq DtColumns
  PROVE DT!Spec => []DT!TableServesItsRows
<1>1. DtInv => DT!TableServesItsRows
  BY DEF DtInv, DT!TableServesItsRows, DtTold, DtKeyAsked, DT!Words
<1> QED BY <1>1, DtInvHolds, PTL
=============================================================================
