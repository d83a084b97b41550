--------------------------- MODULE DatastoreTable ---------------------------
(***************************************************************************)
(* The table of one resource in the DataStore (ckanext/datastore/backend/  *)
(* postgres.py): its columns, its indexes, the sequence of _id, and rows   *)
(* with the words by which a full text search finds them.  A request is    *)
(* one transaction, which either does all of what follows or, apart from   *)
(* the sequence, nothing.                                                  *)
(***************************************************************************)
EXTENDS Naturals, FiniteSets

CONSTANTS
  Columns,
  Indexable, \* columns that requests ask indexes for (bound)
  Values,
  Null,
  Nothing,   \* no table, a parameter that is not given
  MaxRows, MaxId  \* bounds

VARIABLES
  table,   \* [cols, key, plain, last]: key has a unique index, each column of
           \* plain an ordinary one; last is the value of the sequence
  rows,    \* [id, vals, text]
  asked,   \* the primary_key asked for last
  hidden,  \* when it was, an ordinary index had its name
  kept,    \* ids of rows of which a change left the text as it was
  ahead,   \* ids that a request chose
  clash    \* the id on which the last insert failed, or 0

vars == <<table, rows, asked, hidden, kept, ahead, clash>>

Blank == [c \in Columns |-> Null]

\* The trigger's text: the values in the order of the columns.
Words(vals) == vals
Merged(vals, rec) == [c \in Columns |-> IF c \in DOMAIN rec THEN rec[c] ELSE vals[c]]
Row(id, rec) ==
  LET vals == Merged(Blank, rec) IN [id |-> id, vals |-> vals, text |-> Words(vals)]

\* What a unique index on the columns refuses; null equals nothing.
SameKey(v, w, key) ==
  key # {} /\ \A c \in key : v[c] # Null /\ v[c] = w[c]
Unique(rs, key) ==
  \A x, y \in rs : x.id # y.id => ~SameKey(x.vals, y.vals, key)

Fails ==
  /\ clash' = 0
  /\ UNCHANGED <<table, rows, asked, hidden, kept, ahead>>

\* nextval is not undone with the transaction.
Draw == table' = [table EXCEPT !.last = @ + 1]

-----------------------------------------------------------------------------
(* datastore_create *)

\* The index of a column has one name, whether it is unique or not.
NameTaken(key, plain) == \E c \in plain : key = {c}

\* A new key whose index would have the name of an ordinary one that stays.
Hidden(t, pk, idx) == idx = Nothing /\ pk # t.key /\ NameTaken(pk, t.plain)

(* create_indexes: asking for indexes drops the ordinary ones, a new key   *)
(* drops the unique one; an index whose name exists is not created.        *)
Indexed(t, pk, idx) ==
  LET old == IF idx = Nothing THEN t.plain ELSE {}
      new == pk # Nothing /\ pk # t.key
      key == IF new THEN IF Hidden(t, pk, idx) THEN {} ELSE pk ELSE t.key
      had == IF new THEN {} ELSE t.key
      add == IF idx = Nothing THEN {} ELSE {c \in idx : had # {c}}
  IN [t EXCEPT !.key = key, !.plain = old \cup add]

\* An index with a wrong column, or two of one name in one request.
BadIndexes(t, pk, idx) ==
  \/ pk # Nothing /\ ~(pk \subseteq t.cols)
  \/ idx # Nothing /\ ~(idx \subseteq t.cols)
  \/ pk # Nothing /\ idx # Nothing /\ pk # t.key /\ NameTaken(pk, idx)

(* The records that come with the request (one or none) are inserted, then *)
(* the indexes made.                                                       *)
Finish(t, rs, rec, pk, idx, stale) ==
  LET id == t.last + 1
      all == IF rec = Nothing THEN rs ELSE rs \cup {Row(id, rec)}
      new == Indexed(IF rec = Nothing THEN t ELSE [t EXCEPT !.last = id], pk, idx)
      taken == rec # Nothing /\ \E x \in rs : x.id = id
  IN IF taken \/ BadIndexes(t, pk, idx) \/ ~Unique(all, t.key) \/ ~Unique(all, new.key)
     THEN /\ clash' = IF taken THEN id ELSE 0
          /\ table' = IF table = Nothing THEN Nothing ELSE [table EXCEPT !.last = new.last]
          /\ UNCHANGED <<rows, asked, hidden, kept, ahead>>
     ELSE /\ table' = new
          /\ rows' = all
          /\ asked' = IF pk # Nothing THEN pk
                      ELSE IF asked \subseteq t.cols THEN asked ELSE {}
          /\ hidden' = IF pk # Nothing THEN Hidden(t, pk, idx) ELSE hidden
          /\ kept' = kept \cup stale
          /\ clash' = 0 /\ UNCHANGED ahead

CreateTable(fields, rec, pk, idx) ==
  /\ table = Nothing
  /\ Finish([cols |-> fields \cup (IF rec = Nothing THEN {} ELSE DOMAIN rec),
             key |-> {}, plain |-> {}, last |-> 0], {}, rec, pk, idx, {})

(* alter_table: columns of the first record are added unless they are among *)
(* the fields of the request, so that a column which the table has and the  *)
(* request leaves out is added a second time, which fails.                  *)
AlterTable(fields, delete, rec, pk, idx) ==
  LET given == IF fields = {} THEN table.cols ELSE fields
      inRec == IF rec = Nothing THEN {} ELSE DOMAIN rec
      gone == IF delete THEN table.cols \ (given \cup inRec) ELSE {}
      Shrunk(x) == [x EXCEPT !.vals = [c \in Columns |-> IF c \in gone THEN Null ELSE @[c]]]
      cut == {x \in rows : \E c \in gone : x.vals[c] # Null}
  IN /\ table # Nothing
     /\ IF (inRec \ given) \cap table.cols # {} THEN Fails
        ELSE Finish([table EXCEPT !.cols = (@ \cup given \cup inRec) \ gone,
                                  !.key = IF @ \cap gone = {} THEN @ ELSE {},
                                  !.plain = @ \ gone],
                    {Shrunk(x) : x \in rows}, rec, pk, idx, {x.id : x \in cut})

-----------------------------------------------------------------------------
(* datastore_upsert *)

Insert(rec) ==
  LET id == table.last + 1
      taken == \E x \in rows : x.id = id
      all == rows \cup {Row(id, rec)}
  IN /\ Draw
     /\ IF taken \/ ~Unique(all, table.key)
        THEN clash' = (IF taken THEN id ELSE 0) /\ UNCHANGED <<rows, kept>>
        ELSE clash' = 0 /\ rows' = all /\ UNCHANGED kept
     /\ UNCHANGED <<asked, hidden, ahead>>

\* The row a record means: by its _id, or by all columns of the key.
Meant(rec, id) ==
  IF id # Nothing THEN {x \in rows : x.id = id}
  ELSE {x \in rows : SameKey(Merged(Blank, rec), x.vals, table.key)}

HasKey(rec, id) == id # Nothing \/ (table.key # {} /\ table.key \subseteq DOMAIN rec)

\* The row changes; its text is made anew by the trigger when it is null.
Change(x, rec, renew) ==
  LET vals == Merged(x.vals, rec)
      new == [x EXCEPT !.vals = vals, !.text = IF renew THEN Words(vals) ELSE @]
      all == (rows \ {x}) \cup {new}
  IN IF Unique(all, table.key)
     THEN /\ rows' = all /\ clash' = 0
          /\ kept' = IF renew THEN kept \ {x.id} ELSE kept \cup {x.id}
     ELSE clash' = 0 /\ UNCHANGED <<rows, kept>>

\* Mutant: the text is not set to null.
UpdateText(x, rec) ==
  /\ rows' = (rows \ {x}) \cup {[x EXCEPT !.vals = Merged(@, rec)]}
  /\ clash' = 0 /\ UNCHANGED kept

UpdateRow(x, rec) == Change(x, rec, TRUE)

Update(rec, id) ==
  /\ IF HasKey(rec, id) /\ Meant(rec, id) # {}
     THEN \E x \in Meant(rec, id) : UpdateRow(x, rec)
     ELSE clash' = 0 /\ UNCHANGED <<rows, kept>>
  /\ UNCHANGED <<table, asked, hidden, ahead>>

(* INSERT ... ON CONFLICT DO UPDATE sets the columns of the record only,   *)
(* so that the trigger keeps the text.  By key it has drawn an _id.        *)
Upsert(rec, id) ==
  IF ~HasKey(rec, id) THEN Fails
  ELSE IF Meant(rec, id) # {}
  THEN /\ \E x \in Meant(rec, id) : Change(x, rec, FALSE)
       /\ IF id = Nothing THEN Draw ELSE UNCHANGED table
       /\ UNCHANGED <<asked, hidden, ahead>>
  ELSE IF id = Nothing THEN Insert(rec)
  ELSE /\ IF Unique(rows \cup {Row(id, rec)}, table.key)
          THEN rows' = rows \cup {Row(id, rec)} /\ ahead' = ahead \cup {id}
          ELSE UNCHANGED <<rows, ahead>>
       /\ clash' = 0
       /\ UNCHANGED <<table, asked, hidden, kept>>

-----------------------------------------------------------------------------
(* datastore_delete *)

DeleteRows(c, v) ==
  LET gone == {x \in rows : x.vals[c] = v} IN
  /\ c \in table.cols
  /\ rows' = rows \ gone
  /\ kept' = kept \ {x.id : x \in gone}
  /\ clash' = 0
  /\ UNCHANGED <<table, asked, hidden, ahead>>

Drop ==
  /\ table' = Nothing /\ rows' = {}
  /\ asked' = {} /\ hidden' = FALSE /\ kept' = {} /\ ahead' = {} /\ clash' = 0

Init ==
  /\ table = Nothing /\ rows = {}
  /\ asked = {} /\ hidden = FALSE /\ kept = {} /\ ahead = {} /\ clash = 0

\* Room for another row (bound).
Room == Cardinality(rows) < MaxRows /\ (table = Nothing \/ table.last < MaxId)

Records(cols) == UNION {[cs -> Values] : cs \in (SUBSET cols) \ {{}}}

Some(S) == {{c} : c \in S} \cup {{}, Nothing}

\* A request with records makes no ordinary indexes (bound): neither looks at
\* the other.
\* To name all columns of the table is to name none.
Next ==
  \/ \E fields \in SUBSET Columns, pk \in Some(Indexable), delete \in BOOLEAN,
        rec \in IF Room THEN Records(Columns) \cup {Nothing} ELSE {Nothing} :
     \E idx \in IF rec = Nothing THEN Some(Indexable) ELSE {Nothing} :
       \/ ~delete /\ CreateTable(fields, rec, pk, idx)
       \/ /\ table # Nothing /\ fields # table.cols /\ (delete => fields # {})
          /\ AlterTable(fields, delete, rec, pk, idx)
  \/ /\ table # Nothing
     /\ \/ \E rec \in Records(table.cols) :
             \/ Room /\ Insert(rec)
             \/ \E id \in 1 .. MaxId \cup {Nothing} :
                  Update(rec, id) \/ (Room /\ Upsert(rec, id))
        \/ \E c \in Columns, v \in Values : DeleteRows(c, v)
        \/ Drop

Spec == Init /\ [][Next]_vars

-----------------------------------------------------------------------------
(* Properties *)

TypeOK ==
  /\ table # Nothing =>
       /\ table.cols \subseteq Columns
       /\ table.key \subseteq table.cols /\ table.plain \subseteq table.cols
       /\ table.last \in 0 .. MaxId
  /\ rows \subseteq [id : 1 .. MaxId, vals : [Columns -> Values \cup {Null}],
                     text : [Columns -> Values \cup {Null}]]
  /\ asked \subseteq Columns /\ hidden \in BOOLEAN
  /\ kept \cup ahead \subseteq 1 .. MaxId
  /\ clash \in 0 .. MaxId

(* A search finds a row by its values, except a row that an upsert has     *)
(* changed, or a dropped column, whose text is the one of before.  An      *)
(* insert without _id fails on an _id only where an upsert had chosen it   *)
(* ahead of the sequence.  And the unique key is the one asked for last,   *)
(* unless the name of its index was taken by an ordinary one.              *)
TableServesItsRows ==
  /\ \A x \in rows : x.text = Words(x.vals) \/ x.id \in kept
  /\ clash # 0 => clash \in ahead
  /\ table # Nothing /\ table.key # asked => hidden /\ table.key = {}
=============================================================================
