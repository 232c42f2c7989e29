---------------------------- MODULE RequestReply ----------------------------
(***************************************************************************)
(* What isosocket_send_Blockbook promises its callers, whatever happens to *)
(* sockets, ids, timers and the limiter: the callback of a request that    *)
(* was made is called exactly once, with the server's reply to that very   *)
(* request or with an error. Every promise of worker-blockbook that wraps  *)
(* a send (getAddressFull, enrichTx, getSyncInfo, pushes) settles because  *)
(* of it.                                                                  *)
(***************************************************************************)
EXTENDS Sequences

CONSTANT Request

VARIABLES
    submitted, \* requests made
    answers    \* what each callback was called with

vars == <<submitted, answers>>

Init == submitted = {} /\ answers = [r \in Request |-> <<>>]

\* in one step, any number of requests made by then get their only answer
Answering ==
    \A r \in Request :
        \/ answers'[r] = answers[r]
        \/ /\ r \in submitted'
           /\ answers[r] = <<>>
           /\ answers'[r] \in {<<r>>, <<"error">>}

Next ==
    /\ submitted \subseteq submitted'
    /\ submitted' \subseteq Request
    /\ DOMAIN answers' = Request
    /\ Answering

Spec == Init /\ [][Next]_vars

Settles(r) == r \in submitted ~> answers[r] # <<>>

FairSpec == Spec /\ \A r \in Request : Settles(r)
=============================================================================
