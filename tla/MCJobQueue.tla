----------------------------- MODULE MCJobQueue -----------------------------
(* Instances of JobQueue for TLC.                                          *)
EXTENDS JobQueue

\* Every worker listens on the one queue.
ServesOne == [w \in Workers |-> <<"default">>]
=============================================================================
