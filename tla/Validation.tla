----------------------------- MODULE Validation -----------------------------
(***************************************************************************)
(* validate (the first half of ckan/lib/navl/dictization_functions.py):    *)
(* nested data is flattened to a function of keys, what the schema does    *)
(* not know is set aside, the validators of every key run pass by pass,    *)
(* and what is left is nested again.  A key is a sequence of names of      *)
(* fields and numbers of items, as text.                                   *)
(***************************************************************************)
EXTENDS Naturals, FiniteSets, Sequences, SequencesExt, TLC

CONSTANTS
  Inputs,    \* <<data, schema>>; a schema is [rules, subs] by names of fields
  Alphabet   \* the names and numbers in the order of sorted()

VARIABLES
  input,
  result     \* [data, errors], Error or Nothing

vars == <<input, result>>

-----------------------------------------------------------------------------
(* Data.  What is neither a dict nor a list is a string, None or missing.  *)

Value(v) == [kind |-> "value", kids |-> <<v>>]
Null == [kind |-> "none", kids |-> <<>>]
Dict(f) == [kind |-> "dict", kids |-> f]
List(s) == [kind |-> "list", kids |-> s]
Missing == [kind |-> "missing", kids |-> <<>>]
Nothing == [kind |-> "nothing", kids |-> <<>>]
Error == [kind |-> "error", kids |-> <<>>]   \* DataError

Text == Value("text")  \* a list as JSON
Empty(v) ==
  \/ v \in {Missing, Null, Value("")}
  \/ v.kind \in {"dict", "list"} /\ DOMAIN v.kids = {}

Without(f, K) == [k \in DOMAIN f \ K |-> f[k]]

-----------------------------------------------------------------------------
(* Keys *)

Place(n) == CHOOSE i \in DOMAIN Alphabet : Alphabet[i] = n
Number(i) == ToString(i)

Before(k, l) ==
  \/ Len(k) < Len(l)
  \/ /\ Len(k) = Len(l)
     /\ \E i \in DOMAIN k : /\ k[i] # l[i] /\ Place(k[i]) < Place(l[i])
                            /\ \A j \in 1 .. i - 1 : k[j] = l[j]
RECURSIVE Sorted(_)
Sorted(K) ==
  IF K = {} THEN <<>>
  ELSE LET first == CHOOSE k \in K : \A l \in K \ {k} : Before(k, l)
       IN <<first>> \o Sorted(K \ {first})

Own(k) == Last(k)
Item(k) == Front(k)
Names(k) == [i \in 1 .. (Len(k) + 1) \div 2 |-> k[2 * i - 1]]
Special == {"__before", "__extras", "__after", "__junk"}

\* The schema of the item of a key, {} when there is none.
RECURSIVE SubSchemas(_, _)
SubSchemas(sch, names) ==
  IF names = <<>> THEN {sch}
  ELSE IF Head(names) \in DOMAIN sch.subs
  THEN SubSchemas(sch.subs[Head(names)], Tail(names)) ELSE {}

-----------------------------------------------------------------------------
(* flatten_dict, unflatten *)

\* A list of dicts that the schema knows as one.
Listed(d, sch, f) ==
  /\ f \in DOMAIN sch.subs
  /\ d.kids[f].kind = "list" /\ d.kids[f].kids # <<>>
  /\ d.kids[f].kids[1].kind = "dict"

RECURSIVE Flatten(_, _, _)
Flatten(d, sch, at) ==
  LET lists == {f \in DOMAIN d.kids : Listed(d, sch, f)}
      here == {<<at \o <<f>>, d.kids[f]>> : f \in DOMAIN d.kids \ lists}
      OfItem(f, i) == LET x == d.kids[f].kids[i] n == at \o <<f, Number(i - 1)>>
                    IN IF x.kind = "dict" THEN Flatten(x, sch.subs[f], n)
                       ELSE {<<n, Error>>}
  IN here \cup UNION {UNION {OfItem(f, i) : i \in DOMAIN d.kids[f].kids} : f \in lists}

AsFunction(pairs) ==
  [k \in {p[1] : p \in pairs} |-> (CHOOSE p \in pairs : p[1] = k)[2]]

\* Items that were skipped are put in empty, and taken out in the end.
RECURSIVE Put(_, _, _)
Put(d, k, v) ==
  IF Len(k) = 1 THEN Dict(Head(k) :> v @@ d.kids)
  ELSE LET f == Head(k)
           n == CHOOSE i \in 0 .. 9 : Number(i) = k[2]
           had == IF f \in DOMAIN d.kids THEN d.kids[f].kids ELSE <<>>
           padded == had \o [i \in 1 .. (n + 1 - Len(had)) |-> Dict(<<>>)]
           new == [padded EXCEPT ![n + 1] = Put(@, SubSeq(k, 3, Len(k)), v)]
       IN Dict(f :> [kind |-> "items", kids |-> new] @@ d.kids)

RECURSIVE Cleaned(_)
Cleaned(d) ==
  LET Left(items) == SelectSeq(items, LAMBDA x : DOMAIN x.kids # {})
  IN Dict([f \in DOMAIN d.kids |->
       IF d.kids[f].kind # "items" THEN d.kids[f]
       ELSE List([i \in DOMAIN Left(d.kids[f].kids) |->
                    Cleaned(Left(d.kids[f].kids)[i])])])

Unflatten(flat) ==
  Cleaned(FoldLeft(LAMBDA d, k : Put(d, k, flat[k]), Dict(<<>>),
                   Sorted(DOMAIN flat)))

-----------------------------------------------------------------------------
(* What the schema says of the keys there are *)

\* Mutant: the item around is not looked at.
CombinationsOfAny(flat, sch) ==
  {<<>>} \cup {Item(k) : k \in {k \in DOMAIN flat :
                \E s \in SubSchemas(sch, Names(Item(k))) : DOMAIN s.rules # {}}}

\* The items: only below one that has a value of its own.
Combinations(flat, sch) ==
  FoldLeft(LAMBDA known, k :
             IF /\ \E s \in SubSchemas(sch, Names(Item(k))) : DOMAIN s.rules # {}
                /\ SubSeq(k, 1, Len(k) - 3) \in known
             THEN known \cup {Item(k)} ELSE known,
           {<<>>}, Sorted(DOMAIN flat))

FullSchema(combinations, sch) ==
  AsFunction(UNION {UNION {{<<c \o <<f>>, s.rules[f]>> : f \in DOMAIN s.rules}
                             : s \in SubSchemas(sch, Names(c))} : c \in combinations})

\* A key of the schema, or the start of one.
InSchema(names, sch) ==
  \E s \in SubSchemas(sch, Front(names)) :
    Last(names) \in DOMAIN s.rules \cup DOMAIN s.subs

Refused(flat, full, sch) ==
  \E k \in DOMAIN flat \ DOMAIN full :
    InSchema(Names(k), sch) /\ flat[k] # List(<<>>)

AugmentData(flat, full, combinations) ==
  LET unknown == DOMAIN flat \ DOMAIN full
      extra == {k \in unknown : Item(k) \in combinations}
      junk == unknown \ extra
      items == {Item(k) : k \in extra}
      extras == [e \in {c \o <<"__extras">> : c \in items} |->
                   Dict([f \in {Own(k) : k \in {x \in extra : Item(x) = Item(e)}}
                           |-> flat[Append(Item(e), f)]])]
      added == {k \in DOMAIN full \ DOMAIN flat : Own(k) \notin Special}
      aside == IF junk = {} THEN <<>>
               ELSE <<"__junk">> :> Dict([k \in junk |-> flat[k]])
  IN Without(extras @@ aside @@ flat, unknown) @@ [k \in added |-> Missing]

-----------------------------------------------------------------------------
(* Validators.  st: [data, errors, stop], stop is StopOnError.             *)

Get(st, k) == IF k \in DOMAIN st.data THEN st.data[k] ELSE Null
Set(st, k, v) == [st EXCEPT !.data = k :> v @@ @]
Pop(st, k) == [st EXCEPT !.data = Without(@, {k})]
Tell(st, k, e) == [st EXCEPT !.errors[k] = Append(@, e)]
Stop(st) == [st EXCEPT !.stop = TRUE]

NotMissing(st, k) ==
  IF Get(st, k) # Missing THEN st ELSE Stop(Tell(st, k, "missing"))

NotEmpty(st, k) ==
  IF ~Empty(Get(st, k)) THEN st ELSE Stop(Tell(st, k, "missing"))

IgnoreMissing(st, k) ==
  IF Get(st, k) \notin {Missing, Null} THEN st ELSE Stop(Pop(st, k))

IgnoreEmpty(st, k) ==
  IF ~Empty(Get(st, k)) THEN st ELSE Stop(Pop(st, k))

Ignore(st, k) == Stop(Pop(st, k))

EmptyRule(st, k) ==
  IF Empty(Get(st, k)) THEN Pop(st, k)
  ELSE Tell(Pop(st, k), k, "not expected")

Default(st, k) ==
  IF Get(st, k) \in {Missing, Null, Value("")} THEN Set(st, k, Value("default"))
  ELSE st

\* The other field is "name".
IfEmptySameAs(st, k) ==
  IF ~Empty(Get(st, k)) THEN st
  ELSE Set(st, k, st.data[Append(Item(k), "name")])

UnicodeSafe(st, k) ==
  LET v == Get(st, k) IN
  CASE v \in {Missing, Null} -> Set(st, k, Value(""))
    [] v.kind = "value" -> st
    [] OTHER -> Set(st, k, Text)

\* Invalid does not stop what comes after.
UnicodeOnly(st, k) ==
  IF Get(st, k).kind = "value" THEN st ELSE Tell(st, k, "no string")

KeepExtras(st, k) ==
  IF k \notin DOMAIN st.data THEN st
  ELSE LET fs == st.data[k].kids
           kept == [l \in {Append(Item(k), f) : f \in DOMAIN fs} |-> fs[Own(l)]]
       IN [st EXCEPT !.data = kept @@ Without(@, {k})]

Convert(rule, st, k) ==
  CASE rule = "not_missing" -> NotMissing(st, k)
    [] rule = "not_empty" -> NotEmpty(st, k)
    [] rule = "ignore_missing" -> IgnoreMissing(st, k)
    [] rule = "ignore_empty" -> IgnoreEmpty(st, k)
    [] rule = "ignore" -> Ignore(st, k)
    [] rule = "empty" -> EmptyRule(st, k)
    [] rule = "default" -> Default(st, k)
    [] rule = "if_empty_same_as" -> IfEmptySameAs(st, k)
    [] rule = "unicode_safe" -> UnicodeSafe(st, k)
    [] rule = "unicode_only" -> UnicodeOnly(st, k)
    [] rule = "keep_extras" -> KeepExtras(st, k)

-----------------------------------------------------------------------------
(* _validate and validate *)

RunKey(st, k, rules) ==
  FoldLeft(LAMBDA s, rule : IF s.stop THEN s ELSE Convert(rule, s, k),
           [st EXCEPT !.stop = FALSE], rules)

\* The passes, one after the other.
Passes(full) ==
  LET Keys(own) == Sorted({k \in DOMAIN full : Own(k) \in own})
  IN Keys({"__before"}) \o Keys({Own(k) : k \in DOMAIN full} \ Special)
       \o Keys({"__extras"}) \o Reverse(Keys({"__after"}))
       \o SelectSeq(<< <<"__junk">> >>, LAMBDA k : k \in DOMAIN full)

Run(data, full) ==
  FoldLeft(LAMBDA st, k : RunKey(st, k, full[k]),
           [data |-> data, errors |-> [k \in DOMAIN full |-> <<>>], stop |-> FALSE],
           Passes(full))

\* Without the fields that passed, and the lists in which all did.
RECURSIVE Told(_)
Told(errors) ==
  LET ofItems(f) == [i \in DOMAIN errors.kids[f].kids |-> Told(errors.kids[f].kids[i])]
      fields == {f \in DOMAIN errors.kids :
                   errors.kids[f].kind = "value" /\ errors.kids[f].kids[1] # <<>>}
      lists == {f \in DOMAIN errors.kids :
                   /\ errors.kids[f].kind = "list"
                   /\ \E i \in DOMAIN ofItems(f) : DOMAIN ofItems(f)[i].kids # {}}
  IN Dict([f \in fields \cup lists |->
             IF f \in fields THEN errors.kids[f] ELSE List(ofItems(f))])

Checked(d, sch) ==
  LET flat == AsFunction(Flatten(d, sch, <<>>))
      combinations == Combinations(flat, sch)
      full == FullSchema(combinations, sch)
      st == Run(AugmentData(flat, full, combinations), full)
  IN IF \/ \E k \in DOMAIN flat : flat[k] = Error
        \/ Refused(flat, full, sch) THEN Error
     ELSE [data |-> Unflatten(st.data),
           errors |-> Told(Unflatten([k \in DOMAIN st.errors |-> Value(st.errors[k])]))]

\* Empty lists of the top are put back when nothing took their place.
PutBack(r, d) ==
  LET empty == {f \in DOMAIN d.kids : d.kids[f] = List(<<>>)}
  IN IF r = Error THEN Error
     ELSE [r EXCEPT !.data = Dict(@.kids @@ [f \in empty |-> List(<<>>)])]

Validate(d, sch) == PutBack(Checked(d, sch), d)

-----------------------------------------------------------------------------
Init == input \in Inputs /\ result = Nothing

Answer ==
  /\ result = Nothing
  /\ result' = Validate(input[1], input[2])
  /\ UNCHANGED input

Next == Answer

Spec == Init /\ [][Next]_vars

-----------------------------------------------------------------------------
(* Properties *)

\* What the schema knows as lists of items, and what is left without them.
Lists(d, sch) == {f \in DOMAIN d.kids : Listed(d, sch, f)}
OwnPart(d, sch) == Dict(Without(d.kids, Lists(d, sch)))

\* An item without any field, however deep, counts as absent.
Items(d, sch, f) ==
  SelectSeq(d.kids[f].kids,
            LAMBDA x : x.kind # "dict" \/ Flatten(x, sch.subs[f], <<>>) # {})

\* Every item has fields besides its lists.
RECURSIVE Whole(_, _)
Whole(d, sch) ==
  \A f \in DOMAIN d.kids \cap DOMAIN sch.subs :
    \/ d.kids[f] = List(<<>>)
    \/ /\ Listed(d, sch, f)
       /\ \A x \in Range(Items(d, sch, f)) :
            /\ x.kind = "dict"
            /\ DOMAIN OwnPart(x, sch.subs[f]).kids # {}
            /\ Whole(x, sch.subs[f])

\* The items one by one, each as a document of its own.
RECURSIVE OneByOne(_, _)
OneByOne(d, sch) ==
  LET lists == Lists(d, sch)
      top == Checked(OwnPart(d, sch), sch)
      of == [f \in lists |-> [i \in DOMAIN Items(d, sch, f) |->
                                OneByOne(Items(d, sch, f)[i], sch.subs[f])]]
      left == [f \in lists |->
                SelectSeq([i \in DOMAIN of[f] |-> of[f][i].data],
                          LAMBDA x : DOMAIN x.kids # {})]
      told == [f \in lists |-> [i \in DOMAIN of[f] |-> of[f][i].errors]]
  IN [data |-> Dict(top.data.kids
                    @@ [f \in {f \in lists : left[f] # <<>>} |-> List(left[f])]),
      errors |-> Dict(top.errors.kids
                      @@ [f \in {f \in lists : \E i \in DOMAIN told[f] :
                                   DOMAIN told[f][i].kids # {}} |-> List(told[f])])]

\* A field is where it was or among the extras, unless a rule may drop it.
RECURSIVE NothingLost(_, _)
NothingLost(d, sch) ==
  LET own == OwnPart(d, sch)
      new == Checked(own, sch).data.kids
      Dropped(f) == /\ f \in DOMAIN sch.rules
                    /\ \E i \in DOMAIN sch.rules[f] : sch.rules[f][i] \in
                         {"ignore", "empty", "ignore_missing", "ignore_empty"}
  IN /\ \A f \in DOMAIN own.kids :
          \/ f \in DOMAIN new
          \/ "__extras" \in DOMAIN new /\ f \in DOMAIN new["__extras"].kids
          \/ Dropped(IF f \in DOMAIN sch.rules THEN f ELSE "__extras")
     /\ \A f \in Lists(d, sch) : \A x \in Range(Items(d, sch, f)) :
          NothingLost(x, sch.subs[f])

\* Each item is validated as it would be by itself: no validator sees or
\* reports a field of another item, errors are told at the places of their
\* items, and nothing given is lost.  Items that are not reached, because
\* those around them have no field of their own, are never accepted.
ValidatesInPlace ==
  result # Nothing =>
    LET d == input[1] sch == input[2] IN
    IF Whole(d, sch)
    THEN result = PutBack(OneByOne(d, sch), d) /\ NothingLost(d, sch)
    ELSE result = Error \/ "__junk" \in DOMAIN result.errors.kids

TypeOK ==
  /\ input[1].kind = "dict" /\ DOMAIN input[2] = {"rules", "subs"}
  /\ \/ result \in {Nothing, Error}
     \/ DOMAIN result = {"data", "errors"} /\ result.data.kind = "dict"
=============================================================================
