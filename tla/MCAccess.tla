------------------------------ MODULE MCAccess ------------------------------
(* Instances of Access for TLC.                                            *)
EXTENDS Access, TLC

\* Nothing tells two organizations apart that do not exist yet.
OrgSymmetry == Permutations(Orgs)

\* Two states have the same future that differ only in who made the last
\* request, or in the roles of sysadmins, which no look-up reads; properties
\* about the actor are checked on every step.
Tables ==
  <<account, org, parents, [o \in Orgs |-> [u \in Users \ Sysadmins |-> role[o][u]]],
    dataset, collaborator>>
=============================================================================
