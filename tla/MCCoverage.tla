----------------------------- MODULE MCCoverage -----------------------------
(***************************************************************************)
(* An instance of Coverage for TLC.                                        *)
(***************************************************************************)
EXTENDS Coverage

CONSTANT s1

\* One service has all the pods; the other is scaled to none.
AllOfOne == [p \in Pod |-> s1]
=============================================================================
