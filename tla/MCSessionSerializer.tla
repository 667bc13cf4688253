-------------------------- MODULE MCSessionSerializer --------------------------
(* Instances of SessionSerializer for TLC.                                   *)
EXTENDS SessionSerializer, TLC

\* Tasks and serialized sessions are interchangeable.
Symmetry ==
    Permutations(Tasks) \cup Permutations(Sessions \ Bypassed)
=============================================================================
