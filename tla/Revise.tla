------------------------------- MODULE Revise -------------------------------
(***************************************************************************)
(* package_revise on one dataset: match, filter and update are functions   *)
(* of nested dictionaries and lists (the second half of                    *)
(* ckan/lib/navl/dictization_functions.py).  Part of a dataset is named by *)
(* a string key, which is cut into names of fields, positions of items     *)
(* ("-1": the last) and beginnings of ids; a filter may also have "*".     *)
(***************************************************************************)
EXTENDS Integers, FiniteSets, Sequences, SequencesExt, TLC

CONSTANTS
  Datasets,   \* datasets before the request
  Filters(_), \* lists of patterns [keep, path] for a dataset
  Updates,    \* dictionaries given as match or update
  Keyed       \* updates of a part: pairs of a string key and a value

VARIABLES
  data,     \* the dataset as package_show gave it
  request,  \* [match, filter, update, keyed]
  result    \* what package_update is called with

vars == <<data, request, result>>

Leaf(v) == [kind |-> "leaf", kids |-> <<v>>]
Dict(f) == [kind |-> "dict", kids |-> f]
List(s) == [kind |-> "list", kids |-> s]
Error == [kind |-> "error", kids |-> <<>>]   \* an exception
Nothing == [kind |-> "nothing", kids |-> <<>>]

Keys(d) == IF d.kind = "leaf" THEN {} ELSE DOMAIN d.kids
Has(d, k) == d.kind = "dict" /\ k \in DOMAIN d.kids
Sub(s, left) ==
  FoldLeft(LAMBDA r, i : IF i \in left THEN Append(r, s[i]) ELSE r,
           <<>>, [i \in DOMAIN s |-> i])
Without(f, K) == [k \in DOMAIN f \ K |-> f[k]]

-----------------------------------------------------------------------------
(* String keys *)

Number == ("0" :> 0) @@ ("1" :> 1) @@ ("-1" :> -1)
NoItem == 99   \* no such item

(* The index of an item as the code has it: from 0, or negative as given.  *)
(* A search by id ends at the first item without one.                      *)
Index(s, k) ==
  IF k \in DOMAIN Number
  THEN IF Number[k] >= -Len(s) /\ Number[k] < Len(s) THEN Number[k] ELSE NoItem
  ELSE LET ends == {i \in DOMAIN s : ~Has(s[i], "id") \/ s[i].kids["id"] = Leaf(k)}
           i == CHOOSE i \in ends : \A j \in ends : i <= j
       IN IF ends # {} /\ Has(s[i], "id") THEN i - 1 ELSE NoItem

\* The place in the sequence.
At(s, n) == IF n < 0 THEN Len(s) + n + 1 ELSE n + 1

-----------------------------------------------------------------------------
(* filter_glob_match: the protection of an item or a field holds against   *)
(* later patterns, and a removal against later protections.                *)

DictStep(st, g) ==
  LET k == Head(g.path) IN
  CASE k = "*" /\ g.keep -> [st EXCEPT !.safe = st.kids @@ @]
    [] k = "*" /\ ~g.keep -> [st EXCEPT !.kids = <<>>]
    [] k # "*" /\ k \notin DOMAIN st.kids -> st
    [] k # "*" /\ k \in DOMAIN st.kids /\ Len(g.path) > 1 ->
         [st EXCEPT !.inner = (k :> Append(IF k \in DOMAIN @ THEN @[k] ELSE <<>>,
                                           [g EXCEPT !.path = Tail(@)])) @@ @]
    [] OTHER -> IF g.keep THEN [st EXCEPT !.safe = (k :> st.kids[k]) @@ @]
                ELSE [st EXCEPT !.kids = Without(@, {k})]

\* Mutant: a later protection takes the item back.
ListMarkLast(st, keep, ns) ==
  IF keep THEN [st EXCEPT !.safe = @ \cup ns, !.gone = @ \ ns]
  ELSE [st EXCEPT !.gone = @ \cup (ns \ st.safe)]

ListMark(st, keep, ns) ==
  IF keep THEN [st EXCEPT !.safe = @ \cup (ns \ st.gone)]
  ELSE [st EXCEPT !.gone = @ \cup (ns \ st.safe)]

RECURSIVE Filtered(_, _)

\* The patterns so far that lead into items are applied with every pattern.
Descend(st) ==
  FoldLeft(LAMBDA s, n :
             IF n \in s.gone \ s.safe THEN s
             ELSE [s EXCEPT !.kids[At(s.kids, n)] = Filtered(@, s.inner[n])],
           st, st.order)

ListStep(st, g) ==
  LET k == Head(g.path)
      n == Index(st.kids, k)
  IN CASE k = "*" -> ListMark(st, g.keep, 0 .. Len(st.kids) - 1)
       [] k # "*" /\ n = NoItem -> st
       [] k # "*" /\ n # NoItem /\ Len(g.path) = 1 -> Descend(ListMark(st, g.keep, {n}))
       [] OTHER ->
            LET had == n \in DOMAIN st.inner IN
            Descend([st EXCEPT
              !.order = IF had THEN @ ELSE Append(@, n),
              !.inner = (n :> Append(IF had THEN @[n] ELSE <<>>,
                                     [g EXCEPT !.path = Tail(@)])) @@ @])

Filtered(d, globs) ==
  CASE d.kind = "dict" ->
         LET st == FoldLeft(DictStep, [kids |-> d.kids, safe |-> <<>>, inner |-> <<>>], globs)
             kids == st.safe @@ st.kids
         IN Dict([k \in DOMAIN kids |-> IF k \in DOMAIN st.inner
                                        THEN Filtered(kids[k], st.inner[k]) ELSE kids[k]])
    [] d.kind = "list" ->
         LET st == FoldLeft(ListStep, [kids |-> d.kids, safe |-> {}, gone |-> {},
                                       inner |-> <<>>, order |-> <<>>], globs)
             left == {i \in DOMAIN st.kids : i - 1 \notin st.gone \ st.safe}
         IN List(Sub(st.kids, left))
    [] OTHER -> d

-----------------------------------------------------------------------------
(* check_dict, check_list *)

RECURSIVE Matches(_, _)
Matches(d, m) ==
  CASE m.kind = "dict" ->
         d.kind = "dict" /\ \A k \in DOMAIN m.kids : Has(d, k) /\ Matches(d.kids[k], m.kids[k])
    [] m.kind = "list" ->
         d.kind = "list" /\ \A i \in DOMAIN m.kids :
                              i <= Len(d.kids) /\ Matches(d.kids[i], m.kids[i])
    [] OTHER -> d = m

(* update_merge_dict, update_merge_list: an error half way is an error of  *)
(* the whole.                                                              *)
RECURSIVE Merged(_, _)

MergedKid(d, k, v) == IF d.kids[k].kind = "leaf" THEN v ELSE Merged(d.kids[k], v)

Merged(d, u) ==
  IF d.kind # u.kind THEN Error
  ELSE LET kids == [k \in DOMAIN d.kids \cup DOMAIN u.kids |->
                      IF k \notin DOMAIN u.kids THEN d.kids[k]
                      ELSE IF k \notin DOMAIN d.kids THEN u.kids[k]
                      ELSE MergedKid(d, k, u.kids[k])]
       IN IF \E k \in DOMAIN kids : kids[k] = Error THEN Error ELSE [d EXCEPT !.kids = kids]

(* update_merge_string_key *)
RECURSIVE MergedAt(_, _, _)
MergedAt(d, path, v) ==
  LET k == Head(path)
      n == IF d.kind = "list" /\ k # "extend" THEN Index(d.kids, k) ELSE NoItem
      p == At(d.kids, n)
      Put(key, c) == IF c = Error THEN Error ELSE [d EXCEPT !.kids[key] = c]
  IN CASE d.kind = "dict" /\ Len(path) = 1 -> Merged(d, Dict(k :> v))
       [] d.kind = "dict" /\ Len(path) > 1 ->
            IF Has(d, k) THEN Put(k, MergedAt(d.kids[k], Tail(path), v)) ELSE Error
       [] d.kind = "list" /\ k = "extend" /\ Len(path) = 1 ->
            IF v.kind = "list" THEN List(d.kids \o v.kids) ELSE Error
       [] d.kind = "list" /\ n # NoItem ->
            Put(p, IF Len(path) > 1 THEN MergedAt(d.kids[p], Tail(path), v)
                   ELSE MergedKid(d, p, v))
       [] OTHER -> Error

-----------------------------------------------------------------------------
(* The request, from the locked package_show to package_update.            *)

Keep(d, k) == IF Has(data, k) THEN [d EXCEPT !.kids = (k :> data.kids[k]) @@ @] ELSE d

Revise(match, filter, update, keyed) ==
  /\ result = Nothing
  /\ request' = [match |-> match, filter |-> filter, update |-> update, keyed |-> keyed]
  /\ LET filtered == IF filter = <<>> THEN data ELSE Keep(Filtered(data, filter), "id")
         updated == IF update = Nothing THEN filtered ELSE Merged(filtered, update)
     IN result' = IF match # Nothing /\ ~Matches(data, match) THEN Error
                  ELSE IF updated = Error \/ keyed = <<>> THEN updated
                  ELSE MergedAt(updated, keyed[1], keyed[2])
  /\ UNCHANGED data

Init ==
  /\ data \in Datasets
  /\ request = Nothing
  /\ result = Nothing

Next ==
  \/ \E f \in Filters(data) : Revise(Nothing, f, Nothing, <<>>)
  \/ \E m, u \in Updates \cup {Nothing} : Revise(m, <<>>, u, <<>>)
  \/ \E p \in Keyed : Revise(Nothing, <<>>, Nothing, p)

Spec == Init /\ [][Next]_vars
-----------------------------------------------------------------------------
(* Properties *)

TypeOK ==
  /\ data.kind = "dict"
  /\ result = Nothing \/ result = Error \/ result.kind = "dict"

Meets(d, g, c) ==
  LET k == Head(g.path) IN
  \/ k = "*"
  \/ d.kind = "dict" /\ k = c
  \/ d.kind = "list" /\ Index(d.kids, k) # NoItem /\ At(d.kids, Index(d.kids, k)) = c

(* What a filter is to leave: a part for which no pattern was given, or    *)
(* whose first pattern keeps it, without what the patterns that go deeper  *)
(* take away from it.                                                      *)
RECURSIVE Expected(_, _)
Expected(d, globs) ==
  LET Of(c) == SelectSeq(globs, LAMBDA g : Meets(d, g, c))
      Here(c) == SelectSeq(Of(c), LAMBDA g : Len(g.path) = 1)
      Below(c) == LET more == SelectSeq(Of(c), LAMBDA g : Len(g.path) > 1)
                  IN [i \in DOMAIN more |-> [more[i] EXCEPT !.path = Tail(@)]]
      left == {c \in Keys(d) : Here(c) = <<>> \/ Here(c)[1].keep}
      kids == [c \in Keys(d) |-> Expected(d.kids[c], Below(c))]
  IN CASE d.kind = "dict" -> Dict([c \in left |-> kids[c]])
       [] d.kind = "list" -> List(Sub(kids, left))
       [] OTHER -> d

(* Filters that the code takes another way: "*" with more behind it is     *)
(* taken as if nothing came behind; "-1" names no item to remove or keep,  *)
(* and for what is in an item it is kept apart from the item's position; a *)
(* pattern into a list within an item is applied once more with every      *)
(* later pattern, on what is left; and an id that was removed hides its    *)
(* item and all later ones from patterns by id.                            *)
Plain(filter) ==
  \A i \in DOMAIN filter :
    LET g == filter[i] IN
    /\ \A j \in 1 .. Len(g.path) - 1 : g.path[j] # "*"
    /\ \A j \in DOMAIN g.path :
         g.path[j] # "-1" /\ (g.path[j] \in DOMAIN Number => j <= 2)
    /\ ~g.keep /\ Len(g.path) = 3 /\ g.path[3] \in {"id", "*"} =>
         \A j \in DOMAIN filter : j > i /\ Len(filter[j].path) > 1 =>
                                    filter[j].path[2] \in DOMAIN Number \cup {"*"}

FilterIsFollowed == result = Keep(Expected(data, request.filter), "id")

\* The place a string key names in d, as a sequence of its own keys.
RECURSIVE Place(_, _)
Place(d, path) ==
  IF path = <<>> THEN <<>>
  ELSE LET k == Head(path)
           key == IF d.kind = "list" THEN At(d.kids, Index(d.kids, k)) ELSE k
       IN <<key>> \o (IF Len(path) = 1 THEN <<>> ELSE Place(d.kids[key], Tail(path)))

RECURSIVE Places(_)
Places(d) ==
  {<<>>} \cup UNION {{<<k>> \o p : p \in Places(d.kids[k])} : k \in Keys(d)}

Part(d, place) == FoldLeft(LAMBDA part, k : part.kids[k], d, place)

(* An update by key does what it says at the place of the key and nothing  *)
(* elsewhere; "extend" puts its items behind those of a list.              *)
KeyIsFollowed(path, v) ==
  LET extends == /\ Last(path) = "extend"
                 /\ Part(data, Place(data, Front(path))).kind = "list"
      place == Place(data, IF extends THEN Front(path) ELSE path)
  IN /\ IF extends THEN Part(result, place).kids = Part(data, place).kids \o v.kids
        ELSE Matches(Part(result, place), v)
     /\ \A p \in Places(data) :
          ~IsPrefix(p, place) /\ ~IsPrefix(place, p) => Part(result, p) = Part(data, p)

(* Match, filter and update agree with each other: a filter that is plain  *)
(* removes what its patterns name, the first one that names a part         *)
(* deciding; a match asks for what an update with the same values would    *)
(* leave as it is; an update leaves what a match with its values finds;    *)
(* and an update by key changes only what the key names.                   *)
RevisesAsAsked ==
  result \notin {Nothing, Error} =>
    IF request.filter # <<>> THEN Plain(request.filter) => FilterIsFollowed
    ELSE IF request.keyed # <<>>
    THEN KeyIsFollowed(request.keyed[1], request.keyed[2])
    ELSE /\ request.update # Nothing => Matches(result, request.update)
         /\ request.match = request.update => result = data
=============================================================================
