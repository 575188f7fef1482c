----------------------------- MODULE MCServices -----------------------------
(***************************************************************************)
(* Instances of Services for TLC.                                          *)
(***************************************************************************)
EXTENDS Services

\* Every service has the name of its deployment.
SameName == [d \in Name |-> d]
=============================================================================
