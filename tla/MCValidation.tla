---------------------------- MODULE MCValidation ----------------------------
(* Instances of Validation for TLC.                                        *)
EXTENDS Naturals, Sequences, TLC

VARIABLES input, result

Alphabet == <<"0", "1", "__extras", "__junk", "a", "name", "r", "s", "size",
              "title", "u", "x", "y", "z">>

V(v) == [kind |-> "value", kids |-> <<v>>]
D(f) == [kind |-> "dict", kids |-> f]
L(s) == [kind |-> "list", kids |-> s]
N == [kind |-> "none", kids |-> <<>>]

Fields(F, vs) == UNION {[K -> vs] : K \in SUBSET F}

S == [rules |-> "y" :> <<"default", "unicode_only">> @@ "z" :> <<"ignore">>,
      subs |-> <<>>]
R == [rules |-> "name" :> <<"not_empty">>
                @@ "x" :> <<"ignore_empty", "unicode_only">>,
      subs |-> "s" :> S]

E(sch, rules) == IF rules = <<>> THEN sch
                 ELSE [sch EXCEPT !.rules = "__extras" :> rules @@ @]

\* What is done with unknown fields, of the top and of items of r.
Extras == {<< <<>>, <<"empty">> >>, << <<"empty">>, <<"keep_extras">> >>,
           << <<"keep_extras">>, <<>> >>, << <<"ignore">>, <<"ignore">> >>}
Schemas ==
  {E([rules |-> "name" :> <<"not_empty", "unicode_safe">>
                @@ "title" :> <<"if_empty_same_as", "unicode_safe">>
                @@ "size" :> <<"ignore_missing", "unicode_only">>
                @@ "__junk" :> <<"empty">>,
      subs |-> "r" :> E(R, e[2]) @@ "s" :> S], e[1]) : e \in Extras}

\* Items of s, of r, and the lists of them.
Ss == {D(f) : f \in Fields({"y", "z"}, {V(""), V("a")})} \cup {D("u" :> V("a"))}
SLists == {<<i>> : i \in Ss} \cup {<<D("y" :> N), i>> : i \in Ss}
Rs == {D(f) : f \in Fields({"name", "x"}, {V(""), L(<<V("a")>>)})}
       \cup {D("u" :> V("a")), D("u" :> V("a") @@ "name" :> V("a"))}
Deep == {D(f @@ "s" :> L(s)) : f \in {<<>>, "name" :> V("a")}, s \in SLists}
Full == D("name" :> V("a"))
RLists == {<<i>> : i \in Rs \cup Deep} \cup {<<i, j>> : i \in Rs, j \in Rs}
           \cup {<<i, j>> : i \in {Full, D(<<>>)}, j \in Deep}
           \cup {<<j, Full>> : j \in Deep}

Plain == {D(f @@ g) : f \in Fields({"name", "title"}, {V(""), V("a")}),
                      g \in {<<>>, "size" :> N, "size" :> L(<<>>),
                             "u" :> V("a")}}
Data ==
  Plain
  \cup {D("name" :> V("a") @@ "r" :> L(r)) : r \in RLists}
  \cup {D("name" :> V("a") @@ "s" :> v)
        : v \in {L(s) : s \in SLists} \cup {L(<<>>), V("a"), L(<<D(<<>>), V("a")>>)}}
  \cup {D("u" :> V("a") @@ "r" :> L(<<r>>) @@ "s" :> L(s))
        : r \in {Full, D(<<>>), D("x" :> V(""))}, s \in SLists}

Inputs == Data \X Schemas

INSTANCE Validation
=============================================================================
