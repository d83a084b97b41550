----------------------------- MODULE MCSearch -----------------------------
(* Instances of Search for TLC: queries of all kinds up to a length.       *)
EXTENDS Naturals, Sequences, TLC

CONSTANT Nothing

VARIABLES asked, answer

Words == {"f", "draft", "state", "*"}
Tokens == Words \cup {"(", ")", ":", "+", "-", "AND", "OR", "NOT"}
Site == "here"

Upto(W, n) == UNION {[1..k -> W] : k \in 0..n}
Few == {"f", "*", ":", "-", "OR", "(", ")"}
Fewer == Few \ {"*"}

User == {"public", "creator-1"}

(* Short queries with all options, as q and as fq; longer filters of an    *)
(* ordinary search.                                                        *)
Requests ==
  [q : {<<>>}, fq : Upto(Tokens, 2), private : BOOLEAN,
   states : {{"active"}, {"active", "draft"}}, labels : {{}, User}]
  \cup
  [q : {q \in Upto(Tokens, 3) : \E i \in DOMAIN q : q[i] = ":"},
   fq : {<<>>}, private : {TRUE}, states : {{"active"}}, labels : {User}]
  \cup
  [q : {<<>>},
   fq : [1..3 -> Tokens] \cup [1..4 -> Few] \cup [1..5 -> Fewer]
          \cup {<<"f", ":", "(">> \o s \o <<")">> : s \in [1..3 -> Few]},
   private : {FALSE}, states : {{"active"}}, labels : {User}]

Labels(capacity, state, owner) ==
  IF capacity = "public" /\ state = "active" THEN {"public"} ELSE {owner}

Documents ==
  {d \in {[doc |-> doc, text |-> text, capacity |-> capacity, state |-> state,
           site |-> site, labels |-> Labels(capacity, state, owner)]
          : doc \in {<<>>, "f" :> "draft", "f" :> "f" @@ "draft" :> "draft"},
            text \in {{}, {"draft"}}, capacity \in {"public", "private"},
            state \in {"active", "draft"}, site \in {Site, "there"},
            owner \in {"creator-1", "creator-2"}}
   : d.site = Site \/ (d.doc = <<>> /\ d.labels = {"public"})}

INSTANCE Search
=============================================================================
