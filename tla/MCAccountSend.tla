--------------------------- MODULE MCAccountSend ---------------------------
(* Instances of AccountSend: an address with ether and a token.                *)
EXTENDS AccountSend, TLC

CONSTANTS a1, r1, r2, v1, eth, tok, s1, s2, s3

Pay(asset, to, dry) == [asset |-> asset, from |-> a1, to |-> to, value |-> v1, dryRun |-> dry]

\* ether, a dry run of another payment in ether, and a token
MCRequest == {Pay(eth, r1, FALSE), Pay(eth, r2, TRUE), Pay(tok, r1, FALSE)}

Symmetry == Permutations(Send)
=============================================================================
