---------------------------- MODULE MCOcppCharger ----------------------------
(***************************************************************************)
(* Instances of OcppCharger.  u1 and u2 are idTags of one family, with the *)
(* parent p; u3 has no parent.                                             *)
(***************************************************************************)
EXTENDS OcppCharger, TLC

CONSTANTS u1, u2, u3, p

Plugged == {"B"}
Plug == {"A", "B"}
Draw == {"A", "B", "C"}

Parents == [u \in Uid |-> IF u \in {u1, u2} /\ p \in Pid THEN p ELSE NoPid]

Symmetry == Permutations({u1, u2})
=============================================================================
