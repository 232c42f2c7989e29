---------------------------- MODULE MCUtxoSpend ----------------------------
(* Instances of UtxoSpend: two coins, and two PROTECT_OP coins for the wallet.  *)
EXTENDS UtxoSpend, TLC

CONSTANTS a1, r1, donate, s1, s2

Coin(n, value, heir, lock) ==
    [id |-> <<NoTx, n>>, value |-> value, benefactor |-> FALSE, beneficiary |-> heir, lock |-> lock]

MCGenesis == {Coin(1, 20000, FALSE, 0), Coin(2, 6000, FALSE, 0),
              Coin(3, 5000, TRUE, 1), Coin(4, 4000, TRUE, 2)}

AskFor(heir, to, value, hours, claims) ==
    [to |-> to, value |-> value, hours |-> hours, heir |-> heir, claims |-> claims]

Ask(to, value, hours, claims) == AskFor(r1, to, value, hours, claims)

\* leftovers below the fee and around it, a payment to oneself, a PROTECT_OP whose
\* change is below dust, one the wallet leaves to itself, one with too many hours and one paid
\* to a stranger, and a claim
MCRequest == {Ask(r1, 19600, 0, FALSE), Ask(r1, 19750, 0, FALSE), Ask(a1, 12000, 0, FALSE),
              Ask(a1, 19200, 1, FALSE), AskFor(a1, a1, 2438, 2, FALSE), Ask(a1, 2438, 8, FALSE),
              Ask(r1, 2438, 1, FALSE), Ask(a1, 0, 0, TRUE)}

\* a PROTECT_OP the wallet leaves to itself, and a claim
MCHeir == {AskFor(a1, a1, 2438, 2, FALSE), Ask(a1, 0, 0, TRUE)}

MCProtect == {Ask(a1, 2438, 1, FALSE), Ask(a1, 12000, 0, FALSE)}

Symmetry == Permutations(Send)
=============================================================================
