---------------------------- MODULE MCExtensions ----------------------------
(* Instances for TLC of components that share no state with each other.    *)
(* The initial state chooses the component that runs, so that the state    *)
(* graph is the sum of theirs and not the product.  Catalogue and Jobs     *)
(* hold those about which theorems are proved.                             *)
EXTENDS Naturals, FiniteSets, TLC, Jobs, Catalogue

CONSTANTS None, r1, r2

Serves == (r1 :> <<"high", "low">> @@ r2 :> <<"low", "high">>)
Configured == <<"a", "b">>

(* Versions of a dataset: pairs that differ in one field, in the owner, the *)
(* tags, the extras or the resources, in every way that small values allow, *)
(* and pairs that differ in everything at once.                             *)
Values == {Unset, "", "x", "y"}

\* Functions from some of the names to the values.
Some(names, values) == UNION {[ns -> values] : ns \in SUBSET names}

BaseResource ==
  ("name" :> "x") @@ ("format" :> "x") @@ ("description" :> "x") @@ ("url" :> "x")
    @@ ("k1" :> "x")

ResourceVersions ==
  {[BaseResource EXCEPT ![f] = v] :
     f \in {"name", "format", "description", "url"}, v \in Values}
    \cup {[f \in {"url"} \cup DOMAIN e |-> IF f = "url" THEN "x" ELSE e[f]] :
            e \in Some({"k1", "k2"}, {"", "x"})}

Base ==
  ("title" :> "x") @@ ("name" :> "x") @@ ("license_title" :> "x") @@ ("private" :> TRUE)
    @@ ("owner_org" :> "x") @@ ("organization" :> "x") @@ ("maintainer" :> "x")
    @@ ("notes" :> "x") @@ ("url" :> "x") @@ ("tags" :> {"x"})
    @@ ("resources" :> ("r1" :> BaseResource)) @@ ("from_extension" :> "x")

With(f, vs) == {[g \in DOMAIN Base \cup {f} |-> IF g = f THEN v ELSE Base[g]] : v \in vs}
Without(f) == {[g \in DOMAIN Base \ {f} |-> Base[g]]}

Aspects ==
  {With(f, Values) : f \in {"title", "name", "license_title", "maintainer", "notes", "url"}}
    \cup {With("private", BOOLEAN), With("tags", SUBSET {"x", "y", "z"}),
          With("from_extension", {"x", "y"}) \cup Without("from_extension"),
          With("extras", Some({"k1", "k2"}, {"", "x", "y"})) \cup {Base},
          {[v EXCEPT !["organization"] = o] :
             v \in With("owner_org", {Unset, "x", "y"}), o \in {Unset, "x"}},
          With("resources", {("r1" :> r) : r \in ResourceVersions}),
          With("resources", Some({"r1", "r2", "r3"}, {BaseResource}))}

Other ==
  [f \in DOMAIN Base \cup {"extras"} |->
     CASE f = "private" -> FALSE
       [] f = "tags" -> {"y", "z"}
       [] f = "organization" -> "x"
       [] f = "extras" -> ("k1" :> "x") @@ ("k2" :> "")
       [] f = "resources" -> ("r1" :> [BaseResource EXCEPT !["name"] = "y"])
                               @@ ("r2" :> BaseResource)
       [] OTHER -> "y"]

Pairs == UNION {a \X a : a \in Aspects} \cup {Base, Other} \X {Base, Other}

VARIABLE part  \* the component that runs

VARIABLES reData, reRequest, reResult
re == <<reData, reRequest, reResult>>
RE == INSTANCE MCRevise WITH
  data <- reData, request <- reRequest, result <- reResult

VARIABLES vaInput, vaResult
va == <<vaInput, vaResult>>
VA == INSTANCE MCValidation WITH
  input <- vaInput, result <- vaResult

VARIABLES sqAsked, sqAnswer
sq == <<sqAsked, sqAnswer>>
SQ == INSTANCE MCSearch WITH
  Nothing <- None, asked <- sqAsked, answer <- sqAnswer

all ==
  <<
    jq, hi, pl, tr, ch, ps, re, va, sq>>

(* Every component but one stands still. *)
Only(name) == part = name /\ UNCHANGED part

Init ==
  /\ part \in {
       "jq", "hi", "pl", "tr", "ch", "ps", "re", "va", "sq"}
  /\ JQ!Init
  /\ HI!Init
  /\ PL!Init
  /\ TR!Init
  /\ IF part = "ch" THEN TRUE ELSE chPair = <<Base, Base>>
  /\ CH!Init
  /\ IF part = "ps" THEN TRUE ELSE psRows = PS!FirstRows(1, {})
  /\ PS!Init
  /\ IF part = "re" THEN TRUE ELSE reData = RE!D("title" :> RE!L("1"))
  /\ RE!Init
  /\ IF part = "va" THEN TRUE ELSE vaInput = <<VA!Full, CHOOSE s \in VA!Schemas : TRUE>>
  /\ VA!Init
  /\ SQ!Init

Next ==
  \/ Only("jq") /\ JQ!Next /\ UNCHANGED <<
       hi, pl, tr, ch, ps, re, va, sq>>
  \/ Only("hi") /\ HI!Next /\ UNCHANGED <<
       jq, pl, tr, ch, ps, re, va, sq>>
  \/ Only("pl") /\ PL!Next /\ UNCHANGED <<
       jq, hi, tr, ch, ps, re, va, sq>>
  \/ Only("tr") /\ TR!Next /\ UNCHANGED <<
       jq, hi, pl, ch, ps, re, va, sq>>
  \/ Only("ch") /\ CH!Next /\ UNCHANGED <<
       jq, hi, pl, tr, ps, re, va, sq>>
  \/ Only("ps") /\ PS!Next /\ UNCHANGED <<
       jq, hi, pl, tr, ch, re, va, sq>>
  \/ Only("re") /\ RE!Next /\ UNCHANGED <<
       jq, hi, pl, tr, ch, ps, va, sq>>
  \/ Only("va") /\ VA!Next /\ UNCHANGED <<
       jq, hi, pl, tr, ch, ps, re, sq>>
  \/ Only("sq") /\ SQ!Next /\ UNCHANGED <<
       jq, hi, pl, tr, ch, ps, re, va>>

Spec == Init /\ [][Next]_<<part, all>>

(* Every component is well typed. *)
TypeOK ==
  /\ part = "jq" => JQ!TypeOK
  /\ part = "hi" => HI!TypeOK
  /\ part = "pl" => PL!TypeOK
  /\ part = "tr" => TR!TypeOK
  /\ part = "ch" => CH!TypeOK
  /\ part = "ps" => PS!TypeOK
  /\ part = "re" => RE!TypeOK
  /\ part = "va" => VA!TypeOK
  /\ part = "sq" => SQ!TypeOK

(* Revise: Match, filter and update agree with each other.                 *)
RevisesAsAsked == part = "re" => RE!RevisesAsAsked

(* Validation: Each item is validated as it would be by itself.            *)
ValidatesInPlace == part = "va" => VA!ValidatesInPlace

(* Search: A search refuses what the grammar does not derive and nothing   *)
(* else, finds no dataset that the user may not see or that q and the      *)
(* whole filter do not mean, and when the caller's filter is closed it     *)
(* finds those that match it and the defaults, all of them where no field  *)
(* is missing.                                                             *)
FindsWhatIsAsked == part = "sq" => SQ!FindsWhatIsAsked
=============================================================================
