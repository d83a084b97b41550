---------------------------- MODULE MCServices ------------------------------
(* An instance of Services for TLC.                                        *)
EXTENDS Services, TLC

(* A component has two requests, which differ in nothing, or these two and *)
(* a third one, which alone may fail in part px.                           *)
RequestSymmetry == Permutations(SeRequests \cap MeRequests)

=============================================================================
