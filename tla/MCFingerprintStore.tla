-------------------------- MODULE MCFingerprintStore --------------------------
(* Instances of FingerprintStore for TLC.                                    *)
EXTENDS FingerprintStore, TLC

CONSTANTS a, b, c, d, t1, t2, t3, w1, w2

\* Two threads of one worker, and one of another.
ThreadWorker == [t \in Threads |-> IF t = t3 THEN w2 ELSE w1]

Symmetry == Permutations({t1, t2}) \cup Permutations(Ids \ Summaries)
=============================================================================
