---------------------------- MODULE MCKeyAccounts ----------------------------
(* Instances of KeyAccounts: k2 only looks like a key.                          *)
EXTENDS KeyAccounts

CONSTANTS k1, k2, q1

\* one key, one key twice, a key that comes after one that is none
MCLists == {<<k1>>, <<k1, k1>>, <<k2, k1>>}
=============================================================================
