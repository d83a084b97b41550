------------------------------ MODULE MCRevise ------------------------------
(* A dataset with two resources of three tags each, all filters of one or  *)
(* two patterns on it, values put into a part of it by key, and small      *)
(* dictionaries that are matched with, and merged into, each other.        *)
EXTENDS Integers, Sequences, TLC

VARIABLES data, request, result

Node(k, v) == [kind |-> k, kids |-> v]
L(v) == Node("leaf", <<v>>)
D(f) == Node("dict", f)
S(s) == Node("list", s)

Resource(id) ==
  D(("id" :> L(id)) @@ ("url" :> L("u")) @@
    ("tags" :> S(<<L("t1"), L("t2"), L("t3")>>)))
Dataset ==
  D(("id" :> L("d")) @@ ("title" :> L("t")) @@
    ("resources" :> S(<<Resource("aaaaa"), Resource("bbbbb")>>)))

Below ==
  {<<"*">>, <<"0">>, <<"-1">>, <<"aaaaa">>, <<"bbbbb">>,
   <<"0", "url">>, <<"0", "id">>, <<"0", "*">>, <<"bbbbb", "url">>,
   <<"*", "url">>, <<"-1", "url">>, <<"0", "tags">>,
   <<"0", "tags", "0">>, <<"aaaaa", "tags", "1">>, <<"1", "tags", "1">>}
Paths ==
  {<<"*">>, <<"title">>, <<"id">>, <<"resources">>}
    \cup {<<"resources">> \o p : p \in Below}
Patterns == [keep : BOOLEAN, path : Paths]
Globs(d) ==
  {<<g>> : g \in Patterns}
    \cup (IF d = Dataset THEN {<<g, h>> : g, h \in Patterns} ELSE {})

Small ==
  {D("title" :> L("1")), D("title" :> L("2"))} \cup
  {D("resources" :> x) : x \in
     {L("1"), D("u" :> L("1")), S(<<>>), S(<<L("1")>>), S(<<D("w" :> L("2"))>>),
      S(<<D(("u" :> L("1")) @@ ("w" :> L("2")))>>)}}

StringKeys == {<<"title">>, <<"new">>, <<"extend">>, <<"resources">>, <<"title", "w">>} \cup
  {<<"resources">> \o p : p \in
     {<<"0">>, <<"-1">>, <<"-1", "tags", "-1">>, <<"bbbbb">>, <<"ccccc">>, <<"2">>, <<"extend">>,
      <<"aaaaa", "id">>, <<"1", "tags">>, <<"0", "tags", "1">>,
      <<"bbbbb", "tags", "extend">>}}
Values ==
  {L("1"), S(<<>>), S(<<L("1"), L("2")>>), D("w" :> L("2")), D("url" :> L("1"))}

INSTANCE Revise WITH
  Datasets <- {Dataset} \cup Small, Filters <- Globs, Updates <- Small,
  Keyed <- StringKeys \X Values
=============================================================================
