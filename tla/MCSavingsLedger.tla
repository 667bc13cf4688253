---------------------------- MODULE MCSavingsLedger ----------------------------
(* Instances of SavingsLedger for TLC.                                       *)
EXTENDS SavingsLedger, TLC

\* Processes and inodes are alike.
Symmetry == Permutations(Processes) \cup Permutations(Files)
=============================================================================
