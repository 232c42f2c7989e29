---------------------------- MODULE MCWalletSync ----------------------------
(* Instances of WalletSync: t1 is sent by the wallet from a1, with change to a2;
   t2 is received on a1.                                                       *)
EXTENDS WalletSync, TLC

CONSTANTS a1, a2, t1, t2, j1, j2, j3

MCTouches == [t \in Tx |-> IF t = t1 THEN Addr ELSE {a1}]

Symmetry == Permutations(Job)
=============================================================================
