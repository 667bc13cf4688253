---------------------------- MODULE MCMemoryGraph ----------------------------
(* Instances of MemoryGraph for TLC.                                         *)
EXTENDS MemoryGraph, TLC

CONSTANTS t1, t2, t3, w1, w2

\* Two threads of one worker, and one of another.
ThreadWorker == [t \in Threads |-> IF t = t3 THEN w2 ELSE w1]

Symmetry == Permutations({t1, t2})

\* From the fact to the user; Remember links them the other way.
Related == {<<"fact", User>>}
=============================================================================
