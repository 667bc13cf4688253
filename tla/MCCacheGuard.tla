----------------------------- MODULE MCCacheGuard -----------------------------
(* Instances of CacheGuard for TLC.                                          *)
EXTENDS CacheGuard, TLC

\* Two conversations that have nothing in common.
TwoConversations == [c1 |-> <<"sys", "a", "b">>, c2 |-> <<"x", "y">>]

Symmetry == Permutations(Workers)
=============================================================================
