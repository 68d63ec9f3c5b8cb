----------------------------- MODULE MCReplicas -----------------------------
(***************************************************************************)
(* Instances of Replicas for TLC.                                          *)
(***************************************************************************)
EXTENDS Replicas

CONSTANTS r1, r2, s1, s2, bad

NoStatusYet == [of |-> "none", from |-> 0]
=============================================================================
