------------------------------- MODULE Ledger -------------------------------
(***************************************************************************)
(* What the store promises a user about the transactions of an asset,      *)
(* whatever refreshes overlap and whichever answers come late: a list      *)
(* never gets shorter, a payment reported as done is pending or listed     *)
(* from then on, and what is listed is no longer pending.                  *)
(***************************************************************************)
CONSTANT Transaction

VARIABLES
    pending,   \* the wallet's own, not seen on the network yet
    listed,    \* those of the wallet's addresses
    reported   \* payments their caller has been told of

vars == <<pending, listed, reported>>

Init == pending = {} /\ listed = {} /\ reported = {}

\* transactions are found; those that were pending are settled
List(found) ==
    /\ listed' = listed \cup found
    /\ pending' = pending \ listed'
    /\ UNCHANGED reported

\* a payment is reported; it is pending unless it has been found before
Report(t) ==
    /\ reported' = reported \cup {t}
    /\ pending' = (pending \cup {t}) \ listed
    /\ UNCHANGED listed

Next ==
    \/ \E found \in SUBSET Transaction : List(found)
    \/ \E t \in Transaction : Report(t)

Spec == Init /\ [][Next]_vars
=============================================================================
