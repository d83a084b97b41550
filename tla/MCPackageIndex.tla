--------------------------- MODULE MCPackageIndex ---------------------------
(* Instances of PackageIndex for TLC.                                      *)
EXTENDS PackageIndex, FiniteSets, TLC

\* Requests differ in nothing but the operation the initial state gives them.
RequestSymmetry == Permutations(Requests)

\* Four requests that lock the row and set both columns, or three of any
\* operation that set the title: the fourth, a show, never begins.
Begun == {r \in Requests : pc[r] # "start"}

MixedInit == Init /\ (RowLocked \/ \E r \in Requests : op[r] = "show")

MixedNext ==
  \E r \in Requests :
    /\ Step(r)
    /\ RowLocked \/ /\ Cardinality(Begun \cup {r}) < 4
                    /\ dict'[r].row["notes"] # r

MixedSpec == MixedInit /\ [][MixedNext]_vars
=============================================================================
