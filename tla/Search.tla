------------------------------- MODULE Search -------------------------------
(***************************************************************************)
(* package_search: what is added to the filter of the caller, how queries  *)
(* in the Lucene subset are parsed (backends/postgres/lucene.py) and how    *)
(* the tree is evaluated as SQL (compiler.py).  A query is a sequence of   *)
(* tokens.  Each condition is decided for one document of the index, so    *)
(* the index holds one document of each kind.                              *)
(***************************************************************************)
EXTENDS Naturals, FiniteSets, Sequences, SequencesExt, TLC

CONSTANTS
  Words,      \* words of callers' queries
  Requests,   \* [q, fq, private, states, labels]; labels = {}: a sysadmin
  Documents,  \* [doc, text, capacity, state, site, labels]; doc: its fields
  Site,       \* ckan.site_id; a literal in quotes is a word
  Nothing

VARIABLES
  asked,   \* a request
  answer   \* [refused, found]: an error, or the documents found

vars == <<asked, answer>>

-----------------------------------------------------------------------------
(* Trees *)

Bad == [op |-> "bad"]   \* SearchQueryError
All == [op |-> "all"]
Term(f, v) == [op |-> "term", field |-> f, value |-> v]
And(l, r) == [op |-> "and", left |-> l, right |-> r]
Or(l, r) == [op |-> "or", left |-> l, right |-> r]
Not(e) == [op |-> "not", left |-> e]

NoField == ""   \* the default field
Signs == {"(", ")", ":", "+", "-", "AND", "OR", "NOT"}
IsWord(t) == t \notin Signs

-----------------------------------------------------------------------------
(* The parser: what it has read and what is left.                          *)

Read(node, rest) == [node |-> node, rest |-> rest]
Stop == Read(Bad, <<>>)
At(s, T) == s # <<>> /\ Head(s) \in T
AtWord(s) == s # <<>> /\ IsWord(Head(s))

RECURSIVE Expression(_, _), MoreOr(_, _, _), Conjunction(_, _),
          MoreAnd(_, _, _), Clause(_, _), Primary(_, _), Value(_, _)

Expression(s, f) ==
  LET c == Conjunction(s, f) IN MoreOr(c.node, c.rest, f)

MoreOr(left, s, f) ==
  IF left = Bad \/ ~At(s, {"OR"}) THEN Read(left, s)
  ELSE LET c == Conjunction(Tail(s), f) IN
       IF c.node = Bad THEN Stop ELSE MoreOr(Or(left, c.node), c.rest, f)

Conjunction(s, f) ==
  LET c == Clause(s, f) IN MoreAnd(c.node, c.rest, f)

\* Two clauses in a row are a conjunction.
MoreAnd(left, s, f) ==
  IF left = Bad \/ s = <<>> \/ At(s, {"OR", ")"}) THEN Read(left, s)
  ELSE LET c == Clause(IF At(s, {"AND"}) THEN Tail(s) ELSE s, f) IN
       IF c.node = Bad THEN Stop ELSE MoreAnd(And(left, c.node), c.rest, f)

Clause(s, f) ==
  IF At(s, {"NOT"})
  THEN LET c == Clause(Tail(s), f)
       IN IF c.node = Bad THEN Stop ELSE Read(Not(c.node), c.rest)
  ELSE IF At(s, {"+", "-"}) /\ At(Tail(s), {"+", "-"}) THEN Stop
  ELSE IF At(s, {"-"})
  THEN LET p == Primary(Tail(s), f)
       IN IF p.node = Bad THEN Stop ELSE Read(Not(p.node), p.rest)
  ELSE Primary(IF At(s, {"+"}) THEN Tail(s) ELSE s, f)

\* Mutant: within parentheses the field is forgotten.
GroupOfAny(s, f) ==
  LET e == Expression(s, NoField)
  IN IF e.node # Bad /\ At(e.rest, {")"}) THEN Read(e.node, Tail(e.rest))
     ELSE Stop

Group(s, f) ==
  LET e == Expression(s, f)
  IN IF e.node # Bad /\ At(e.rest, {")"}) THEN Read(e.node, Tail(e.rest))
     ELSE Stop

Primary(s, f) ==
  IF ~(AtWord(s) /\ At(Tail(s), {":"})) THEN Value(s, f)
  ELSE IF f # NoField THEN Stop
  ELSE LET rest == Tail(Tail(s)) IN
       IF Head(s) = "*" /\ At(rest, {"*"}) THEN Read(All, Tail(rest))
       ELSE Value(rest, Head(s))

Value(s, f) ==
  IF At(s, {"("}) THEN Group(Tail(s), f)
  ELSE IF At(s, {"-"}) /\ AtWord(Tail(s))
  THEN Read(Term(f, "-" \o s[2]), Tail(Tail(s)))
  ELSE IF ~AtWord(s) THEN Stop
  ELSE Read(IF f = NoField /\ Head(s) = "*" THEN All ELSE Term(f, Head(s)),
            Tail(s))

Parse(s) ==
  IF s = <<>> THEN All
  ELSE LET e == Expression(s, NoField)
       IN IF e.rest = <<>> THEN e.node ELSE Bad

-----------------------------------------------------------------------------
(* The tree as SQL, in three truth values.  A field that is not a column   *)
(* is read from the JSON document, where it may be missing; what compares  *)
(* never answers NULL.                                                     *)

Columns == {"capacity", "state", "site_id", "permission_labels"}

Truth(b) == IF b THEN "true" ELSE "false"

Contents(d, f) ==
  CASE f = "capacity" -> {d.capacity}
    [] f = "state" -> {d.state}
    [] f = "site_id" -> {d.site}
    [] f = "permission_labels" -> d.labels
    [] OTHER -> IF f \in DOMAIN d.doc THEN {d.doc[f]} ELSE {}

\* jsonb_typeof of a missing field is NULL, and so is NULL IN (...).
Exists(d, f) ==
  IF f \notin Columns \cup DOMAIN d.doc THEN "null"
  ELSE Truth(Contents(d, f) # {})

TermSql(t, d) ==
  CASE t.field = NoField -> Truth(t.value \in d.text)
    [] t.field # NoField /\ t.value = "*" -> Exists(d, t.field)
    [] OTHER -> Truth(t.value \in Contents(d, t.field))

\* AND and OR: the strong value decides, then NULL, then the weak one.
Joined(vs, strong, weak) ==
  CASE strong \in vs -> strong
    [] strong \notin vs /\ "null" \in vs -> "null"
    [] OTHER -> weak

RECURSIVE Sql(_, _)
Sql(t, d) ==
  CASE t.op = "all" -> "true"
    [] t.op = "term" -> TermSql(t, d)
    [] t.op = "not" ->
         LET v == Sql(t.left, d)
         IN IF v = "null" THEN v ELSE Truth(v = "false")
    [] OTHER ->
         LET vs == {Sql(t.left, d), Sql(t.right, d)}
         IN IF t.op = "and" THEN Joined(vs, "false", "true")
            ELSE Joined(vs, "true", "false")

\* Names of fields that check_field refuses.
RECURSIVE Compiles(_)
Compiles(t) ==
  CASE t.op = "bad" -> FALSE
    [] t.op = "all" -> TRUE
    [] t.op = "term" -> t.field # "*"
    [] t.op = "not" -> Compiles(t.left)
    [] OTHER -> Compiles(t.left) /\ Compiles(t.right)

-----------------------------------------------------------------------------
(* package_search and PackageSearchQuery.run *)

\* <<a, "OR", b, "OR", c>>
Alternatives(names) ==
  FoldLeft(LAMBDA s, n : IF s = <<>> THEN <<n>> ELSE s \o <<"OR", n>>,
           <<>>, SetToSeq(names))

Required(f, s) == <<"+", f, ":">> \o s
In(names) == <<"(">> \o Alternatives(names) \o <<")">>

Has(s, part) == \E i \in 1..Len(s) - Len(part) + 1 :
                  SubSeq(s, i, i + Len(part) - 1) = part
\* The text "+state", blanks apart.
NamesState(s) == Has(s, <<"+", "state">>)

Filter(r) ==
  LET given == IF r.private THEN r.fq
               ELSE Required("capacity", <<"public">>) \o r.fq
  IN IF NamesState(given) THEN given
     ELSE given \o Required("state", In(r.states))

FiltersState(s) == Has(s, <<"+", "state", ":">>)

\* What a query asks for, each compiled on its own.  "+state" without a
\* colon keeps Filter, but not PackageSearchQuery.run, from a filter on it.
Conditions(r) ==
  LET fq == Filter(r)
  IN {r.q, fq, Required("site_id", <<Site>>)}
       \cup (IF FiltersState(fq) THEN {}
             ELSE {Required("state", <<"active">>)})
       \cup (IF r.labels = {} THEN {}
             ELSE {Required("permission_labels", In(r.labels))})

Result(r) ==
  LET trees == {Parse(s) : s \in Conditions(r)} IN
  IF \E t \in trees : ~Compiles(t) THEN [refused |-> TRUE, found |-> {}]
  ELSE [refused |-> FALSE,
        found |-> {d \in Documents : \A t \in trees : Sql(t, d) = "true"}]

-----------------------------------------------------------------------------
Init == asked = Nothing /\ answer = Nothing

Ask ==
  /\ asked = Nothing
  /\ asked' \in Requests
  /\ UNCHANGED answer

Answer ==
  /\ asked # Nothing
  /\ answer = Nothing
  /\ answer' = Result(asked)
  /\ UNCHANGED asked

Next == Ask \/ Answer

Spec == Init /\ [][Next]_vars

-----------------------------------------------------------------------------
(* Properties.  What a query means, by a grammar: the derivations of a     *)
(* sequence.                                                               *)

Cuts(s) == 1..Len(s) - 1
Left(s, k) == SubSeq(s, 1, k)
Right(s, k) == SubSeq(s, k + 1, Len(s))

RECURSIVE Disjunctions(_, _), Conjunctions(_, _), Clauses(_, _),
          Primaries(_, _)

\* disjunction ::= conjunction | disjunction OR conjunction
Disjunctions(s, f) ==
  Conjunctions(s, f) \cup
    UNION {{Or(l, r) : l \in Disjunctions(Left(s, k - 1), f),
                       r \in Conjunctions(Right(s, k), f)}
           : k \in {i \in Cuts(s) : s[i] = "OR"}}

\* conjunction ::= clause | conjunction [AND] clause
Conjunctions(s, f) ==
  Clauses(s, f) \cup
    UNION {{And(l, r) : l \in Conjunctions(
                              Left(s, IF s[k] = "AND" THEN k - 1 ELSE k), f),
                        r \in Clauses(Right(s, k), f)}
           : k \in {i \in Cuts(s) : Clauses(Right(s, i), f) # {}}}

\* clause ::= NOT clause | [+ | -] primary
Clauses(s, f) ==
  Primaries(s, f) \cup
    (IF At(s, {"NOT"}) THEN {Not(t) : t \in Clauses(Tail(s), f)} ELSE {}) \cup
    (IF At(s, {"+"}) THEN Primaries(Tail(s), f) ELSE {}) \cup
    (IF At(s, {"-"}) THEN {Not(t) : t \in Primaries(Tail(s), f)} ELSE {})

\* primary ::= word | ( disjunction ) | name : word | name : - word
\*           | name : ( disjunction ), without names in it
Primaries(s, f) ==
  LET named == f = NoField /\ Len(s) > 2 /\ IsWord(s[1]) /\ s[2] = ":"
      in == IF named THEN s[1] ELSE f
      it == IF named THEN Right(s, 2) ELSE s
  IN CASE Len(it) = 1 /\ IsWord(it[1]) ->
            {IF it[1] = "*" /\ (in = NoField \/ (named /\ in = "*"))
             THEN All ELSE Term(in, it[1])}
       [] Len(it) = 2 /\ named /\ it[1] = "-" /\ IsWord(it[2]) ->
            {Term(in, "-" \o it[2])}
       [] Len(it) > 2 /\ it[1] = "(" /\ it[Len(it)] = ")" ->
            Disjunctions(SubSeq(it, 2, Len(it) - 1), in)
       [] OTHER -> {}

Meanings(s) == IF s = <<>> THEN {All} ELSE Disjunctions(s, NoField)

\* Two truth values: what is not there does not match.
RECURSIVE Holds(_, _)
Holds(t, d) ==
  CASE t.op = "all" -> TRUE
    [] t.op = "and" -> Holds(t.left, d) /\ Holds(t.right, d)
    [] t.op = "or" -> Holds(t.left, d) \/ Holds(t.right, d)
    [] t.op = "not" -> ~Holds(t.left, d)
    [] OTHER ->
         LET has == IF t.field = NoField THEN d.text ELSE Contents(d, t.field)
         IN t.value \in has \/ (t.value = "*" /\ t.field # NoField /\ has # {})

Matches(trees, d) == \A t \in trees : Holds(t, d)

-----------------------------------------------------------------------------
TypeOK ==
  /\ asked \in Requests \cup {Nothing}
  /\ answer = Nothing
       \/ answer \in [refused : BOOLEAN, found : SUBSET Documents]

Visible(r, d) ==
  d.site = Site /\ (r.labels = {} \/ r.labels \cap d.labels # {})

\* Every field that a query may name has a value.
Full(d) == Words \ (Columns \cup {"*"}) \subseteq DOMAIN d.doc

\* A filter that can be put between others: a sentence, with each OR in
\* parentheses.
Depth(s, n) ==
  LET Count(t) == Cardinality({i \in 1..n : s[i] = t})
  IN Count("(") - Count(")")

Closed(s) ==
  Meanings(s) # {} /\ \A i \in 1..Len(s) : s[i] = "OR" => Depth(s, i) > 0

\* What the caller's filter leaves to the defaults.
Defaults(r, d) ==
  /\ r.private \/ d.capacity = "public"
  /\ FiltersState(r.fq)
       \/ d.state \in (IF NamesState(r.fq) THEN {"active"} ELSE r.states)

AskedFor(r) ==
  LET trees == Meanings(r.q) \cup Meanings(r.fq)
  IN {d \in Documents : Visible(r, d) /\ Defaults(r, d) /\ Matches(trees, d)}

(* A search refuses what the grammar does not derive and nothing else,     *)
(* finds no dataset that the user may not see or that q and the whole      *)
(* filter do not mean, and when the caller's filter is closed it finds     *)
(* those that match it and the defaults, all of them where no field is     *)
(* missing.                                                                *)
FindsWhatIsAsked ==
  answer # Nothing =>
    LET q == Meanings(asked.q)
        whole == Meanings(Filter(asked))
    IN /\ answer.refused <=> \E ts \in {q, whole} : \A t \in ts : ~Compiles(t)
       /\ \A d \in answer.found :
            Visible(asked, d) /\ Matches(q \cup whole, d)
       /\ ~answer.refused /\ Closed(asked.fq) =>
            /\ answer.found \subseteq AskedFor(asked)
            /\ {d \in AskedFor(asked) : Full(d)} \subseteq answer.found
=============================================================================
