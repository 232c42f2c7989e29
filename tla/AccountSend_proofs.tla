-------------------------- MODULE AccountSend_proofs --------------------------
(***************************************************************************)
(* Proofs about AccountSend, for any requests, addresses and number of     *)
(* sends: however the answers of overlapping sends cross, no payment is    *)
(* made more often than it was asked for, what is shown has been accepted, *)
(* and sends made one after the other get fresh nonces.                    *)
(***************************************************************************)
EXTENDS AccountSend, FiniteSetTheorems, TLAPS

\* the requests that are to be broadcast
Payable == {q \in Request : ~q.dryRun}

IsTx(tx) == \E q \in Request, n \in Nat : tx = TxOf(q, n)

Question == {"st", "count", "tx"}

(* The part of the types that the proofs need.                              *)
Typed ==
    /\ DOMAIN req = Send /\ DOMAIN pc = Send /\ DOMAIN fee = Send
    /\ DOMAIN sign = Send /\ DOMAIN push = Send /\ DOMAIN told = Send
    /\ \A s \in Send :
         /\ pc[s] # "new" => req[s] \in Request
         /\ DOMAIN sign[s] = Question /\ sign[s].count \in Nat
         /\ sign[s].st # "none" => pc[s] # "new"
         /\ sign[s].st = "ready" /\ sign[s].tx # NoTx => IsTx(sign[s].tx)
         /\ DOMAIN push[s] = Question
    /\ sent \in [From -> Nat]
    /\ IsFiniteSet(accepted)

Live == {"asked", "sent", "acked", "failed"}

(* A send has one broadcast, of what the guard has found to be its payment. *)
Guarded ==
    \A s \in Send :
        /\ pc[s] \in {"new", "fee", "hex"} => push[s].st = "none"
        /\ push[s].st # "none" => req[s] \in Payable
        /\ push[s].st \in Live => \E n \in Nat : push[s].tx = TxOf(req[s], n)

(* What has been sent is accepted, and so is what callers were told.        *)
Shown ==
    /\ ShownIsAccepted
    /\ \A s \in Send : push[s].st \in {"sent", "acked"} => push[s].tx \in accepted

\* the sends of a payment that may have broadcast it
Paying(q) == {s \in Send : req[s] = q /\ push[s].st \in {"sent", "acked", "failed", "done"}}

(* Every accepted payment has a send of its own.                            *)
Paid ==
    /\ \A tx \in accepted : \E q \in Payable, n \in Nat : tx = TxOf(q, n)
    /\ \A q \in Payable : Cardinality(Payments(q)) <= Cardinality(Paying(q))

-----------------------------------------------------------------------------
\* The fields of a question not asked, and of one that is over.
LEMMA QuestionFields ==
    /\ DOMAIN NotAsked = Question /\ NotAsked.st = "none" /\ NotAsked.count = 0
    /\ DOMAIN Over = Question /\ Over.st = "done" /\ Over.count = 0
BY DEF NotAsked, Over, Question

\* The contents of a transaction determine the request, but for dry runs.
LEMMA TxOfFields ==
    ASSUME NEW q, NEW n
    PROVE  /\ TxOf(q, n).asset = q.asset /\ TxOf(q, n).from = q.from
           /\ TxOf(q, n).to = q.to /\ TxOf(q, n).value = q.value /\ TxOf(q, n).nonce = n
BY DEF TxOf

\* A transaction that passes the guard pays what was asked for.
LEMMA GuardPays ==
    ASSUME NEW q \in Request, NEW tx, IsTx(tx), Guard(q, tx)
    PROVE  \E n \in Nat : tx = TxOf(q, n)
<1>1. PICK p \in Request, n \in Nat : tx = TxOf(p, n)
  BY DEF IsTx
<1>2. p.asset = q.asset /\ p.from = q.from /\ p.to = q.to /\ p.value = q.value
  BY <1>1, TxOfFields DEF Guard
<1>3. tx = TxOf(q, n)
  BY <1>1, <1>2 DEF TxOf
<1> QED BY <1>3

\* The number the worker gives is natural, and not below the recorded one.
LEMMA NextNonceType ==
    ASSUME Typed, NEW s \in Send, pc[s] # "new"
    PROVE  NextNonce(s) \in Nat /\ NextNonce(s) >= sent[req[s].from] /\ req[s].from \in From
<1>1. req[s].from \in From
  BY RequestAssumption DEF Typed
<1> QED BY <1>1 DEF Typed, NextNonce

\* What a node has of an address is counted by a natural number.
LEMMA CountType ==
    ASSUME Typed, NEW a
    PROVE  CountOf(a) \in Nat
<1>1. IsFiniteSet({tx \in accepted : tx.from = a})
  BY FS_Subset DEF Typed
<1> QED BY <1>1, FS_CardinalityType DEF CountOf

-----------------------------------------------------------------------------
\* The types are inductive.
LEMMA TypedStep ==
    ASSUME Typed, Guarded, [Next]_vars
    PROVE  Typed'
<1>1. ASSUME NEW s \in Send, NEW q \in Request, Start(s, q) PROVE Typed'
  BY <1>1 DEF Typed, Start
<1>2. ASSUME NEW s \in Send, FeeDone(s) PROVE Typed'
  <2>1. PICK refused \in SUBSET Hearing("fee", req[s].asset) :
           LET on == Hearing("fee", req[s].asset) \ refused
           IN  /\ pc' = [t \in Send |-> IF t \in refused THEN "err"
                                        ELSE IF t \in on THEN "hex" ELSE pc[t]]
               /\ sign' = [t \in Send |-> IF t \in on THEN [NotAsked EXCEPT !.st = "asked"]
                                          ELSE sign[t]]
    BY <1>2 DEF FeeDone
  <2>2. ASSUME NEW t \in Send PROVE pc'[t] = "new" <=> pc[t] = "new"
    BY <2>1 DEF Hearing
  <2>3. ASSUME NEW t \in Send
        PROVE  \/ sign'[t] = sign[t]
               \/ sign'[t] = [NotAsked EXCEPT !.st = "asked"] /\ pc'[t] = "hex"
    BY <2>1
  <2>4. ASSUME NEW t \in Send
        PROVE  /\ DOMAIN sign'[t] = Question /\ sign'[t].count \in Nat
               /\ sign'[t].st # "none" => pc'[t] # "new"
               /\ sign'[t].st = "ready" /\ sign'[t].tx # NoTx => IsTx(sign'[t].tx)
    <3>1. CASE sign'[t] = sign[t]
      BY <2>2, <3>1 DEF Typed
    <3>2. CASE sign'[t] = [NotAsked EXCEPT !.st = "asked"] /\ pc'[t] = "hex"
      BY <3>2, QuestionFields DEF Question
    <3> QED BY <2>3, <3>1, <3>2
  <2> QED BY <1>2, <2>1, <2>2, <2>4 DEF Typed, FeeDone
<1>3. ASSUME NEW s \in Send, HexDone(s) PROVE Typed'
  <2> DEFINE tx == sign[s].tx
             heard == Hearing("hex", req[s].asset)
  <2>1. PICK on \in SUBSET heard :
           push' = [t \in Send |-> IF t \in on THEN [NotAsked EXCEPT !.st = "asked", !.tx = tx]
                                   ELSE push[t]]
    BY <1>3 DEF HexDone
  <2>2. DOMAIN pc' = Send /\ \A t \in Send : pc'[t] = "new" <=> pc[t] = "new"
    BY <1>3 DEF HexDone, Hearing
  <2>3. \A t \in Send : DOMAIN push'[t] = Question
    BY <2>1, QuestionFields DEF Typed
  <2>4. ASSUME NEW t \in Send PROVE sign'[t] = sign[t] \/ (sign'[t] = Over /\ pc[t] # "new")
    BY <1>3 DEF Typed, HexDone
  <2> QED BY <1>3, <2>1, <2>2, <2>3, <2>4, QuestionFields DEF Typed, HexDone
<1>4. ASSUME NEW s \in Send, PushDone(s) \/ PushFailed(s) PROVE Typed'
  <2>1. DOMAIN pc' = Send /\ \A t \in Send : pc'[t] = "new" <=> pc[t] = "new"
    BY <1>4 DEF PushDone, PushFailed, Hearing
  <2>2. DOMAIN push' = Send /\ \A t \in Send : DOMAIN push'[t] = Question
    BY <1>4, QuestionFields DEF Typed, PushDone, PushFailed
  <2> QED BY <1>4, <2>1, <2>2 DEF Typed, PushDone, PushFailed
<1>5. ASSUME NEW s \in Send, FeeAnswer(s) PROVE Typed'
  BY <1>5 DEF Typed, FeeAnswer
<1>6. ASSUME NEW s \in Send, Count(s) PROVE Typed'
  <2>1. ASSUME NEW n \in 0 .. CountOf(req[s].from),
               sign' = [sign EXCEPT ![s].st = "counted", ![s].count = n]
        PROVE  Typed'
    <3>1. n \in Nat
      BY CountType
    <3>2. /\ DOMAIN sign' = Send /\ \A t \in Send \ {s} : sign'[t] = sign[t]
          /\ DOMAIN sign'[s] = Question /\ sign'[s].count = n /\ sign'[s].st = "counted"
      BY <2>1 DEF Typed, Question
    <3>3. pc[s] # "new"
      BY <1>6 DEF Typed, Count
    <3> QED BY <1>6, <3>1, <3>2, <3>3 DEF Typed, Count
  <2>2. CASE sign' = [sign EXCEPT ![s].st = "lost"]
    BY <1>6, <2>2 DEF Typed, Count, Question
  <2> QED BY <1>6, <2>1, <2>2 DEF Count
<1>7. ASSUME NEW s \in Send, Build(s) PROVE Typed'
  <2>1. pc[s] # "new" /\ req[s] \in Request
    BY <1>7 DEF Build, Typed
  <2>2. IsTx(TxOf(req[s], NextNonce(s)))
    BY <2>1, NextNonceType DEF IsTx
  <2>3. \E st \in {"ready", "lost"}, tx \in {TxOf(req[s], NextNonce(s)), NoTx} :
           sign' = [sign EXCEPT ![s] = [st |-> st, count |-> 0, tx |-> tx]]
    BY <1>7 DEF Build
  <2> HIDE DEF IsTx
  <2> QED BY <1>7, <2>1, <2>2, <2>3 DEF Typed, Build, Question
<1>8. ASSUME NEW s \in Send, Accepts(s) \/ Refused(s) PROVE Typed'
  <2>0. PICK st : push' = [push EXCEPT ![s].st = st]
    BY <1>8 DEF Accepts, Refused
  <2>1. DOMAIN push' = Send /\ \A t \in Send : DOMAIN push'[t] = Question
    BY <2>0 DEF Typed
  <2>2. IsFiniteSet(accepted')
    <3>1. PICK x : accepted' = accepted \cup {x} \/ accepted' = accepted
      BY <1>8 DEF Accepts, Refused
    <3>2. IsFiniteSet(accepted \cup {x})
      BY FS_AddElement DEF Typed
    <3> QED BY <3>1, <3>2 DEF Typed
  <2> QED BY <1>8, <2>1, <2>2 DEF Typed, Accepts, Refused
<1>9. CASE UNCHANGED vars
  BY <1>9 DEF Typed, vars
<1>10. ASSUME NEW s \in Send, Acked(s) PROVE Typed'
  <2> DEFINE tx == push[s].tx
  <2>1. sent' \in [From -> Nat]
    <3>1. PICK n \in Nat : tx = TxOf(req[s], n)
      BY <1>10 DEF Acked, Guarded, Live
    <3>2. tx.nonce \in Nat
      BY <3>1, TxOfFields
    <3>3. sent' = [sent EXCEPT ![tx.from] = tx.nonce + 1]
      BY <1>10 DEF Acked
    <3>4. sent \in [From -> Nat]
      BY DEF Typed
    <3> HIDE DEF tx
    <3>5. tx.nonce + 1 \in Nat
      BY <3>2
    <3> QED BY <3>3, <3>4, <3>5
  <2>2. DOMAIN push' = Send /\ \A t \in Send : DOMAIN push'[t] = Question
    BY <1>10 DEF Typed, Acked
  <2> QED BY <1>10, <2>1, <2>2 DEF Typed, Acked
<1> QED BY <1>1, <1>2, <1>3, <1>4, <1>5, <1>6, <1>7, <1>8, <1>9, <1>10 DEF Next, Main, Worker

-----------------------------------------------------------------------------
(* What may be broadcast.                                                   *)

Early == {"new", "fee", "hex"}

Ended == {"sent", "acked", "failed", "done"}

\* a step that leaves alone what a send has to broadcast,
Stays(s) ==
    /\ push'[s] = push[s]
    /\ req'[s] = req[s] \/ pc[s] = "new"
    /\ pc'[s] \in Early => pc[s] \in Early

\* asks for a broadcast that the guard has passed,
Asks(s) ==
    /\ pc[s] = "hex" /\ pc'[s] = "push" /\ req'[s] = req[s]
    /\ push'[s].st = "asked" /\ req[s] \in Payable
    /\ \E n \in Nat : push'[s].tx = TxOf(req[s], n)

\* or takes it on
Goes(s) ==
    /\ push[s].st \in Live /\ push'[s].st \in Ended
    /\ push'[s].st \in Live => push'[s].tx = push[s].tx
    /\ req'[s] = req[s]
    /\ pc'[s] \in Early => pc[s] \in Early

\* How a step changes the questions for a broadcast.
LEMMA PushStep ==
    ASSUME Typed, Guarded, [Next]_vars, NEW s \in Send
    PROVE  Stays(s) \/ Asks(s) \/ Goes(s)
<1>1. ASSUME NEW t \in Send, NEW q \in Request, Start(t, q) PROVE Stays(s)
  BY <1>1 DEF Start, Typed, Stays, Early
<1>2. ASSUME NEW t \in Send, FeeDone(t) PROVE Stays(s)
  <2>1. PICK refused \in SUBSET Hearing("fee", req[t].asset) :
           LET on == Hearing("fee", req[t].asset) \ refused
           IN  pc' = [u \in Send |-> IF u \in refused THEN "err"
                                      ELSE IF u \in on THEN "hex" ELSE pc[u]]
    BY <1>2 DEF FeeDone
  <2>2. pc'[s] \in Early => pc[s] \in Early
    BY <2>1 DEF Hearing, Early
  <2> QED BY <1>2, <2>2 DEF FeeDone, Stays
<1>3. ASSUME NEW t \in Send, HexDone(t) PROVE Stays(s) \/ Asks(s)
  <2> DEFINE tx == sign[t].tx
             heard == Hearing("hex", req[t].asset)
             on == {u \in heard : Pushes(u, tx)}
  <2>1. /\ sign[t].st = "ready"
        /\ pc' = [u \in Send |->
                    CASE u \in on -> "push"
                      [] u \in heard \ on /\ Guard(req[u], tx) -> "dry"
                      [] u \in heard \ on /\ ~Guard(req[u], tx) -> "err"
                      [] OTHER -> pc[u]]
        /\ push' = [u \in Send |-> IF u \in on THEN [NotAsked EXCEPT !.st = "asked", !.tx = tx]
                                   ELSE push[u]]
        /\ req' = req
    BY <1>3 DEF HexDone
  <2>2. CASE s \in on
    <3>1. pc[s] = "hex" /\ Guard(req[s], tx) /\ ~req[s].dryRun
      BY <2>2 DEF Hearing, Pushes
    <3>2. req[s] \in Payable /\ req[s] \in Request
      BY <3>1 DEF Typed, Payable
    <3>3. IsTx(tx)
      BY <2>1, <3>1 DEF Typed, Guard
    <3>4. \E n \in Nat : tx = TxOf(req[s], n)
      BY <3>1, <3>2, <3>3, GuardPays
    <3>5. push'[s].st = "asked" /\ push'[s].tx = tx
      BY <2>1, <2>2, QuestionFields DEF Question
    <3>6. pc'[s] = "push"
      BY <2>1, <2>2
    <3> QED BY <2>1, <3>1, <3>2, <3>4, <3>5, <3>6 DEF Asks
  <2>3. CASE s \notin on
    <3>1. pc'[s] \in {"dry", "err"} \/ pc'[s] = pc[s]
      BY <2>1, <2>3
    <3> QED BY <2>1, <2>3, <3>1 DEF Stays, Early
  <2> QED BY <2>2, <2>3
<1>4. ASSUME NEW t \in Send, PushDone(t) \/ PushFailed(t) PROVE Stays(s) \/ Goes(s)
  <2>1. push[t].st \in Live /\ push' = [push EXCEPT ![t] = Over] /\ req' = req
    BY <1>4 DEF PushDone, PushFailed, Live
  <2>2. pc'[s] \in Early => pc[s] \in Early
    BY <1>4 DEF PushDone, PushFailed, Early
  <2>3. CASE s = t
    <3>1. push'[s].st = "done"
      BY <2>1, <2>3, QuestionFields DEF Typed
    <3> QED BY <2>1, <2>2, <2>3, <3>1 DEF Goes, Live, Ended
  <2>4. CASE s # t
    BY <2>1, <2>2, <2>4 DEF Typed, Stays
  <2> QED BY <2>3, <2>4
<1>5. ASSUME NEW t \in Send, FeeAnswer(t) \/ Count(t) \/ Build(t) PROVE Stays(s)
  BY <1>5 DEF FeeAnswer, Count, Build, Stays
<1>6. ASSUME NEW t \in Send, Accepts(t) \/ Refused(t) \/ Acked(t) PROVE Stays(s) \/ Goes(s)
  <2>1. PICK st \in Ended : push' = [push EXCEPT ![t].st = st]
    BY <1>6 DEF Accepts, Refused, Acked, Ended
  <2>2. push[t].st \in Live /\ UNCHANGED <<pc, req>>
    BY <1>6 DEF Accepts, Refused, Acked, Live
  <2>3. CASE s = t
    <3>1. push'[s].st = st /\ push'[s].tx = push[s].tx
      BY <2>1, <2>3 DEF Typed, Question
    <3> QED BY <2>2, <2>3, <3>1 DEF Goes
  <2>4. CASE s # t
    BY <2>1, <2>2, <2>4 DEF Typed, Stays
  <2> QED BY <2>3, <2>4
<1>7. CASE UNCHANGED vars
  BY <1>7 DEF vars, Stays
<1> QED BY <1>1, <1>2, <1>3, <1>4, <1>5, <1>6, <1>7 DEF Next, Main, Worker

\* What is broadcast has passed the guard of the send that broadcasts it.
LEMMA GuardedStep ==
    ASSUME Typed, Guarded, [Next]_vars
    PROVE  Guarded'
<1> SUFFICES ASSUME NEW s \in Send
             PROVE  /\ pc'[s] \in {"new", "fee", "hex"} => push'[s].st = "none"
                    /\ push'[s].st # "none" => req'[s] \in Payable
                    /\ push'[s].st \in Live => \E n \in Nat : push'[s].tx = TxOf(req'[s], n)
  BY DEF Guarded
<1>1. CASE Stays(s)
  BY <1>1 DEF Guarded, Stays, Early, Live
<1>2. CASE Asks(s)
  BY <1>2 DEF Guarded, Asks
<1>3. CASE Goes(s)
  BY <1>3 DEF Guarded, Goes, Early, Live
<1> QED BY <1>1, <1>2, <1>3, PushStep

\* The sends that may have broadcast a payment get more, never fewer.
LEMMA PayingGrows ==
    ASSUME Typed, Guarded, [Next]_vars, NEW q
    PROVE  Paying(q) \subseteq Paying(q)'
<1> SUFFICES ASSUME NEW s \in Paying(q) PROVE s \in Paying(q)'
  OBVIOUS
<1>1. s \in Send /\ req[s] = q /\ push[s].st \in Ended
  BY DEF Paying, Ended
<1>2. pc[s] \notin Early
  BY <1>1 DEF Guarded, Early, Ended
<1>3. req'[s] = q /\ push'[s].st \in Ended
  BY <1>1, <1>2, PushStep DEF Stays, Asks, Goes, Early
<1> QED BY <1>1, <1>3 DEF Paying, Ended

-----------------------------------------------------------------------------
(* What is shown, and what is paid.                                         *)

\* What a step may add to the node's transactions.
LEMMA AcceptedStep ==
    ASSUME [Next]_vars
    PROVE  \/ accepted' = accepted
           \/ \E s \in Send : Accepts(s)
BY DEF Next, Main, Worker, vars, Start, FeeDone, HexDone, PushDone, PushFailed, FeeAnswer,
       Count, Build, Refused, Acked

\* A broadcast comes to be sent when the node accepts it, and acknowledged when it is sent.
LEMMA OnlyAccepted ==
    ASSUME Typed, [Next]_vars, NEW s \in Send, push[s].st \in Live, push[s].st \notin {"sent", "acked"},
           push'[s].st \in {"sent", "acked"}
    PROVE  push'[s].st = "sent" /\ push[s].tx \in accepted'
<1>1. ASSUME NEW t \in Send, push' = [push EXCEPT ![t] = Over] PROVE FALSE
  <2>1. push'[s] = push[s] \/ push'[s].st = "done"
    BY <1>1, QuestionFields DEF Typed
  <2> QED BY <2>1
<1>2. ASSUME NEW t \in Send, NEW st, push' = [push EXCEPT ![t].st = st]
      PROVE  t = s /\ push'[s].st = st
  BY <1>2 DEF Typed, Question
<1>3. ASSUME NEW t \in Send, HexDone(t) PROVE FALSE
  <2>1. PICK on \in SUBSET Send :
           push' = [u \in Send |-> IF u \in on THEN [NotAsked EXCEPT !.st = "asked", !.tx = sign[t].tx]
                                   ELSE push[u]]
    BY <1>3 DEF HexDone, Hearing
  <2>2. push'[s] = push[s] \/ push'[s].st = "asked"
    BY <2>1, QuestionFields DEF Question
  <2> QED BY <2>2
<1>4. ASSUME NEW t \in Send, Accepts(t) PROVE push'[s].st = "sent" /\ push[s].tx \in accepted'
  <2>1. t = s /\ push'[s].st = "sent"
    BY <1>2, <1>4 DEF Accepts
  <2> QED BY <1>4, <2>1 DEF Accepts
<1>5. ASSUME NEW t \in Send, Refused(t) PROVE FALSE
  <2>1. push'[s].st = "failed"
    BY <1>2, <1>5 DEF Refused
  <2> QED BY <2>1
<1>6. ASSUME NEW t \in Send, Acked(t) PROVE FALSE
  <2>1. t = s
    BY <1>2, <1>6 DEF Acked
  <2> QED BY <1>6, <2>1 DEF Acked
<1>7. CASE push' = push
  BY <1>7
<1> QED BY <1>1, <1>3, <1>4, <1>5, <1>6, <1>7 DEF Next, Main, Worker, vars, Start, FeeDone,
       PushDone, PushFailed, FeeAnswer, Count, Build

\* What is told and shown has been accepted.
LEMMA ShownStep ==
    ASSUME Typed, Guarded, Shown, [Next]_vars
    PROVE  Shown'
<1>1. accepted \subseteq accepted'
  BY AcceptedStep DEF Accepts
<1>2. ASSUME NEW s \in Send, push'[s].st \in {"sent", "acked"} PROVE push'[s].tx \in accepted'
  <2>1. CASE Stays(s)
    BY <1>1, <1>2, <2>1 DEF Stays, Shown
  <2>2. CASE Goes(s)
    <3>1. CASE push[s].st \in {"sent", "acked"}
      BY <1>1, <1>2, <2>2, <3>1 DEF Goes, Shown, Live
    <3>2. CASE push[s].st \notin {"sent", "acked"}
      <4>1. push'[s].st = "sent" /\ push[s].tx \in accepted'
        BY <1>2, <2>2, <3>2, OnlyAccepted DEF Goes, Live
      <4> QED BY <2>2, <4>1 DEF Goes, Live
    <3> QED BY <3>1, <3>2
  <2> QED BY <1>2, <2>1, <2>2, PushStep DEF Asks
<1>3. ASSUME NEW t \in Send, PushDone(t) PROVE ShownIsAccepted'
  <2>1. push[t].tx \in accepted
    BY <1>3 DEF PushDone, Shown
  <2>2. \A s \in Send : pc'[s] = "ok" => told'[s] \in accepted
    BY <1>3, <2>1 DEF PushDone, Shown, ShownIsAccepted
  <2>3. \A e \in LocalTxs(push[t].tx) : e[2] \in accepted
    BY <2>1 DEF LocalTxs
  <2>4. \A e \in local' : e[2] \in accepted
    BY <1>3, <2>3 DEF PushDone, Shown, ShownIsAccepted
  <2> QED BY <1>1, <2>2, <2>4 DEF ShownIsAccepted
<1>4. ASSUME UNCHANGED <<local, told>>, \A s \in Send : pc'[s] = "ok" => pc[s] = "ok"
      PROVE  ShownIsAccepted'
  BY <1>1, <1>4 DEF Shown, ShownIsAccepted
<1>5. ASSUME NEW t \in Send, (\E q \in Request : Start(t, q)) \/ FeeDone(t) \/ HexDone(t) \/ PushFailed(t)
      PROVE  ShownIsAccepted'
  <2>1. UNCHANGED <<local, told>>
    BY <1>5 DEF Start, FeeDone, HexDone, PushFailed
  <2>2. ASSUME NEW s \in Send PROVE pc'[s] = "ok" => pc[s] = "ok"
    BY <1>5 DEF Typed, Start, FeeDone, HexDone, PushFailed
  <2> QED BY <1>4, <2>1, <2>2
<1>6. ASSUME UNCHANGED <<pc, local, told>> PROVE ShownIsAccepted'
  BY <1>4, <1>6
<1>7. ASSUME NEW t \in Send, Worker(t) PROVE UNCHANGED <<pc, local, told>>
  BY <1>7 DEF Worker, FeeAnswer, Count, Build, Accepts, Refused, Acked
<1>8. ShownIsAccepted'
  BY <1>3, <1>5, <1>6, <1>7 DEF Next, Main, vars
<1> QED BY <1>2, <1>8 DEF Shown

\* A request that is paid is the one of its transaction.
LEMMA SamePayment ==
    ASSUME NEW p \in Payable, NEW q \in Payable, NEW n, NEW m, TxOf(p, n) = TxOf(q, m)
    PROVE  p = q
<1>1. p.asset = q.asset /\ p.from = q.from /\ p.to = q.to /\ p.value = q.value
  BY TxOfFields
<1>2. p.dryRun = FALSE /\ q.dryRun = FALSE
  BY RequestAssumption DEF Payable
<1>3. p = [asset |-> p.asset, from |-> p.from, to |-> p.to, value |-> p.value, dryRun |-> p.dryRun]
      /\ q = [asset |-> q.asset, from |-> q.from, to |-> q.to, value |-> q.value, dryRun |-> q.dryRun]
  BY RequestAssumption DEF Payable
<1> QED BY <1>1, <1>2, <1>3

\* Each payment the node accepts is one more send that may have made it.
LEMMA PaidStep ==
    ASSUME Typed, Guarded, Paid, [Next]_vars
    PROVE  Paid'
<1>1. ASSUME NEW q \in Payable
      PROVE  /\ IsFiniteSet(Paying(q)) /\ IsFiniteSet(Paying(q)') /\ IsFiniteSet(Payments(q))
             /\ Cardinality(Paying(q)) <= Cardinality(Paying(q)')
             /\ Cardinality(Payments(q)) \in Nat /\ Cardinality(Paying(q)) \in Nat
             /\ Cardinality(Paying(q)') \in Nat
  <2>1. Paying(q) \subseteq Send /\ Paying(q)' \subseteq Send /\ Payments(q) \subseteq accepted
    BY DEF Paying, Payments
  <2>2. IsFiniteSet(Paying(q)) /\ IsFiniteSet(Paying(q)') /\ IsFiniteSet(Payments(q))
    BY <2>1, SendAssumption, FS_Subset DEF Typed
  <2>3. Paying(q) \subseteq Paying(q)'
    BY PayingGrows
  <2> QED BY <2>2, <2>3, FS_Subset, FS_CardinalityType
<1>2. CASE accepted' = accepted
  <2>1. ASSUME NEW q \in Payable PROVE Cardinality(Payments(q))' <= Cardinality(Paying(q))'
    <3>1. Payments(q)' = Payments(q)
      BY <1>2 DEF Payments
    <3>2. Cardinality(Payments(q)) <= Cardinality(Paying(q))
      BY DEF Paid
    <3> QED BY <1>1, <3>1, <3>2
  <2> QED BY <1>2, <2>1 DEF Paid
<1>3. ASSUME NEW s \in Send, Accepts(s) PROVE Paid'
  <2> DEFINE tx == push[s].tx
             p == req[s]
  <2>1. PICK n \in Nat : tx = TxOf(p, n)
    BY <1>3 DEF Guarded, Accepts, Live
  <2>2. p \in Payable
    BY <1>3 DEF Guarded, Accepts
  <2>3. accepted' = accepted \cup {tx}
    BY <1>3 DEF Accepts
  <2>4. ASSUME NEW t \in accepted' PROVE \E q \in Payable, m \in Nat : t = TxOf(q, m)
    BY <2>1, <2>2, <2>3, <2>4 DEF Paid
  <2>5. ASSUME NEW q \in Payable PROVE Cardinality(Payments(q))' <= Cardinality(Paying(q))'
    <3>1. Cardinality(Payments(q)) <= Cardinality(Paying(q))
      BY DEF Paid
    <3>2. CASE q = p
      <4>1. Payments(q)' \subseteq Payments(q) \cup {tx}
        BY <2>3 DEF Payments
      <4>2. s \notin Paying(q)
        BY <1>3 DEF Accepts, Paying
      <4>3. s \in Paying(q)'
        BY <1>3, <3>2 DEF Accepts, Paying, Typed, Question
      <4>4. Paying(q) \cup {s} \subseteq Paying(q)'
        BY <4>3, PayingGrows
      <4>5. Cardinality(Paying(q)) + 1 <= Cardinality(Paying(q)')
        <5>1. Cardinality(Paying(q) \cup {s}) = Cardinality(Paying(q)) + 1
          BY <1>1, <4>2, FS_AddElement
        <5>2. IsFiniteSet(Paying(q)')
          BY <1>1
        <5>3. Cardinality(Paying(q) \cup {s}) <= Cardinality(Paying(q)')
          BY <4>4, <5>2, FS_Subset
        <5> QED BY <5>1, <5>3
      <4>6. IsFiniteSet(Payments(q) \cup {tx}) /\ Cardinality(Payments(q) \cup {tx}) <= Cardinality(Payments(q)) + 1
        <5> HIDE DEF tx
        <5>1. IsFiniteSet(Payments(q)) /\ Cardinality(Payments(q)) \in Nat
          BY <1>1
        <5>2. /\ IsFiniteSet(Payments(q) \cup {tx})
              /\ \/ Cardinality(Payments(q) \cup {tx}) = Cardinality(Payments(q))
                 \/ Cardinality(Payments(q) \cup {tx}) = Cardinality(Payments(q)) + 1
          BY <5>1, FS_AddElement
        <5> QED BY <5>1, <5>2
      <4>7. IsFiniteSet(Payments(q)') /\ Cardinality(Payments(q)') <= Cardinality(Payments(q) \cup {tx})
        BY <4>1, <4>6, FS_Subset
      <4>8. Cardinality(Payments(q)') \in Nat /\ Cardinality(Payments(q) \cup {tx}) \in Nat
        BY <4>6, <4>7, FS_CardinalityType
      <4>9. Cardinality(Payments(q))' = Cardinality(Payments(q)') /\ Cardinality(Paying(q))' = Cardinality(Paying(q)')
        OBVIOUS
      <4> QED BY <1>1, <3>1, <4>5, <4>6, <4>7, <4>8, <4>9
    <3>3. CASE q # p
      <4>1. tx # TxOf(q, tx.nonce)
        BY <2>1, <2>2, <3>3, SamePayment
      <4>2. Payments(q)' = Payments(q)
        BY <2>3, <4>1 DEF Payments
      <4> QED BY <1>1, <3>1, <4>2
    <3> QED BY <3>2, <3>3
  <2> QED BY <2>4, <2>5 DEF Paid
<1> QED BY <1>2, <1>3, AcceptedStep

-----------------------------------------------------------------------------
(* Sends made one after the other.                                          *)

\* a transaction whose nonce the address has, and has not, reached yet
Used(tx) == tx.from \in From /\ tx.nonce \in Nat /\ tx.nonce < sent[tx.from]

NotUsed(tx) == tx.from \in From /\ tx.nonce \in Nat /\ tx.nonce >= sent[tx.from]

\* the question that is open is the one awaited
Turn(s) ==
    /\ fee[s] \in {"asked", "ready"} => pc[s] = "fee"
    /\ sign[s].st \in {"asked", "counted", "ready"} => pc[s] = "hex"
    /\ push[s].st \in Live => pc[s] = "push"

Numbered(s) ==
    /\ sign[s].st = "ready" /\ sign[s].tx # NoTx => NotUsed(sign[s].tx)
    /\ push[s].st \in {"asked", "sent"} => NotUsed(push[s].tx)
    /\ push[s].st = "acked" => Used(push[s].tx)
    /\ pc[s] = "ok" => Used(told[s])

(* One send is under way at a time, so what it hears answers its question.  *)
Serial ==
    ~overlap =>
        /\ \A s, t \in UnderWay : s = t
        /\ \A s \in Send : Turn(s) /\ Numbered(s)

\* A send that is under way alone is the one that hears the answer.
LEMMA HearsItsOwn ==
    ASSUME Serial, ~overlap, NEW s \in Send, NEW kind \in Awaiting, pc[s] = kind
    PROVE  Hearing(kind, req[s].asset) = {s}
<1>1. s \in UnderWay
  BY DEF UnderWay
<1>2. Hearing(kind, req[s].asset) \subseteq UnderWay
  BY DEF Hearing, UnderWay
<1>3. s \in Hearing(kind, req[s].asset)
  BY DEF Hearing
<1> QED BY <1>1, <1>2, <1>3 DEF Serial

\* A broadcast pays from an address of the wallet.
LEMMA BroadcastFrom ==
    ASSUME Typed, Guarded, NEW s \in Send, push[s].st \in Live
    PROVE  push[s].tx.from \in From /\ push[s].tx.nonce \in Nat
<1>1. PICK n \in Nat : push[s].tx = TxOf(req[s], n)
  BY DEF Guarded
<1>2. req[s] \in Request
  BY DEF Guarded, Payable, Live
<1> QED BY <1>1, <1>2, TxOfFields, RequestAssumption

\* Without overlap, answers and nonces stay in order.
LEMMA SerialStep ==
    ASSUME Typed, Guarded, Serial, [Next]_vars
    PROVE  Serial'
<1> SUFFICES ASSUME ~overlap'
             PROVE  /\ \A s, t \in UnderWay' : s = t
                    /\ \A s \in Send : Turn(s)' /\ Numbered(s)'
  BY DEF Serial
<1>0. ~overlap
  BY DEF Next, Main, Worker, vars, Start, FeeDone, HexDone, PushDone, PushFailed, FeeAnswer,
         Count, Build, Accepts, Refused, Acked
<1> DEFINE Alone == \A s, t \in UnderWay' : s = t
           InTurn == \A s \in Send : Turn(s)'
           Nonces == \A s \in Send : Numbered(s)'
<1>a. /\ \A s, t \in UnderWay : s = t
      /\ \A s \in Send : Turn(s) /\ Numbered(s)
  BY <1>0 DEF Serial
<1>b. ASSUME \A s \in Send : pc'[s] \in Awaiting => pc[s] \in Awaiting PROVE Alone
  BY <1>a, <1>b DEF UnderWay
<1>1. ASSUME NEW s \in Send, NEW q \in Request, Start(s, q) PROVE Alone /\ InTurn /\ Nonces
  <2>1. UnderWay = {} /\ pc[s] = "new"
    BY <1>1 DEF Start
  <2>2. /\ pc'[s] = "fee" /\ \A t \in Send \ {s} : pc'[t] = pc[t] /\ fee'[t] = fee[t]
        /\ UNCHANGED <<sign, push, sent, told>>
    BY <1>1 DEF Start, Typed
  <2>3. Alone
    BY <2>1, <2>2 DEF UnderWay
  <2>4. ASSUME NEW t \in Send PROVE Turn(t)'
    BY <1>a, <2>1, <2>2 DEF Turn, Live
  <2>5. ASSUME NEW t \in Send PROVE Numbered(t)'
    BY <1>a, <2>2 DEF Numbered, Used, NotUsed
  <2> QED BY <2>3, <2>4, <2>5
<1>2. ASSUME NEW s \in Send, FeeDone(s) PROVE Alone /\ InTurn /\ Nonces
  <2>1. pc[s] = "fee"
    BY <1>2, <1>a DEF FeeDone, Turn
  <2>2. Hearing("fee", req[s].asset) = {s}
    BY <1>0, <2>1, HearsItsOwn DEF Awaiting
  <2>3. PICK refused \in SUBSET {s} :
           LET on == {s} \ refused
           IN  /\ pc' = [t \in Send |-> IF t \in refused THEN "err"
                                        ELSE IF t \in on THEN "hex" ELSE pc[t]]
               /\ sign' = [t \in Send |-> IF t \in on THEN [NotAsked EXCEPT !.st = "asked"]
                                          ELSE sign[t]]
    BY <1>2, <2>2 DEF FeeDone
  <2>4. \/ pc'[s] = "err" /\ sign'[s] = sign[s]
        \/ pc'[s] = "hex" /\ sign'[s].st = "asked"
    BY <2>3, QuestionFields DEF Question
  <2>5. \A t \in Send \ {s} : pc'[t] = pc[t] /\ sign'[t] = sign[t]
    BY <2>3
  <2>6. fee'[s] = "done" /\ (\A t \in Send \ {s} : fee'[t] = fee[t]) /\ UNCHANGED <<push, sent, told>>
    BY <1>2 DEF FeeDone, Typed
  <2>7. Alone
    BY <1>b, <2>1, <2>4, <2>5 DEF Awaiting
  <2>8. ASSUME NEW t \in Send PROVE Turn(t)'
    BY <1>a, <2>1, <2>4, <2>5, <2>6 DEF Turn, Live
  <2>9. ASSUME NEW t \in Send PROVE Numbered(t)'
    BY <1>a, <2>4, <2>5, <2>6 DEF Numbered, Used, NotUsed
  <2> QED BY <2>7, <2>8, <2>9
<1>3. ASSUME NEW s \in Send, HexDone(s) PROVE Alone /\ InTurn /\ Nonces
  <2> DEFINE tx == sign[s].tx
             on == {t \in {s} : Pushes(t, tx)}
  <2>1. pc[s] = "hex" /\ sign[s].st = "ready"
    BY <1>3, <1>a DEF HexDone, Turn
  <2>2. Hearing("hex", req[s].asset) = {s}
    BY <1>0, <2>1, HearsItsOwn DEF Awaiting
  <2>3. /\ pc' = [t \in Send |->
                    CASE t \in on -> "push"
                      [] t \in {s} \ on /\ Guard(req[t], tx) -> "dry"
                      [] t \in {s} \ on /\ ~Guard(req[t], tx) -> "err"
                      [] OTHER -> pc[t]]
        /\ push' = [t \in Send |-> IF t \in on THEN [NotAsked EXCEPT !.st = "asked", !.tx = tx]
                                   ELSE push[t]]
    BY <1>3, <2>2 DEF HexDone
  <2>4. \A t \in Send \ {s} : pc'[t] = pc[t] /\ push'[t] = push[t] /\ sign'[t] = sign[t]
    BY <1>3, <2>3 DEF HexDone, Typed
  <2>5. sign'[s].st = "done" /\ UNCHANGED <<fee, sent, told>>
    BY <1>3, QuestionFields DEF HexDone, Typed
  <2>6. \/ /\ pc'[s] = "push" /\ push'[s].st = "asked"
           /\ push'[s].tx = tx /\ tx # NoTx
        \/ pc'[s] \in {"dry", "err"} /\ push'[s] = push[s]
    <3>1. CASE s \in on
      <4>1. pc'[s] = "push" /\ push'[s] = [NotAsked EXCEPT !.st = "asked", !.tx = tx]
        BY <2>3, <3>1
      <4>2. tx # NoTx
        BY <3>1 DEF Pushes, Guard
      <4> QED BY <4>1, <4>2, QuestionFields DEF Question
    <3>2. CASE s \notin on
      BY <2>3, <3>2
    <3> QED BY <3>1, <3>2
  <2> HIDE DEF tx
  <2>7. Alone
    BY <1>b, <2>1, <2>4, <2>6 DEF Awaiting
  <2>8. ASSUME NEW t \in Send PROVE Turn(t)'
    BY <1>a, <2>1, <2>4, <2>5, <2>6 DEF Turn, Live
  <2>9. ASSUME NEW t \in Send PROVE Numbered(t)'
    <3>1. tx # NoTx => NotUsed(tx)
      BY <1>a, <2>1 DEF Numbered, tx
    <3>2. CASE t = s
      <4>1. push[s].st \notin Live
        BY <1>a, <2>1 DEF Turn
      <4> QED BY <2>5, <2>6, <3>1, <3>2, <4>1 DEF Numbered, Used, NotUsed, Live
    <3>3. CASE t # s
      BY <1>a, <2>4, <2>5, <3>3 DEF Numbered, Used, NotUsed
    <3> QED BY <3>2, <3>3
  <2> QED BY <2>7, <2>8, <2>9
<1>4. ASSUME NEW s \in Send, PushDone(s) \/ PushFailed(s) PROVE Alone /\ InTurn /\ Nonces
  <2>1. pc[s] = "push" /\ push[s].st \in {"acked", "failed"}
    BY <1>4, <1>a DEF PushDone, PushFailed, Turn, Live
  <2>2. Hearing("push", req[s].asset) = {s}
    BY <1>0, <2>1, HearsItsOwn DEF Awaiting
  <2>3. /\ \A t \in Send \ {s} : pc'[t] = pc[t] /\ told'[t] = told[t] /\ push'[t] = push[t]
        /\ push'[s].st = "done" /\ UNCHANGED <<fee, sign, sent>>
    BY <1>4, <2>2, QuestionFields DEF PushDone, PushFailed, Typed
  <2>4. \/ pc'[s] = "ok" /\ told'[s] = push[s].tx /\ push[s].st = "acked"
        \/ pc'[s] = "err"
    BY <1>4, <2>2 DEF PushDone, PushFailed
  <2>5. Alone
    BY <1>b, <2>3, <2>4 DEF Awaiting
  <2>6. ASSUME NEW t \in Send PROVE Turn(t)'
    BY <1>a, <2>1, <2>3 DEF Turn, Live
  <2>7. ASSUME NEW t \in Send PROVE Numbered(t)'
    <3>1. CASE t = s
      BY <1>a, <2>3, <2>4, <3>1 DEF Numbered, Used, NotUsed
    <3>2. CASE t # s
      BY <1>a, <2>3, <3>2 DEF Numbered, Used, NotUsed
    <3> QED BY <3>1, <3>2
  <2> QED BY <2>5, <2>6, <2>7
<1>5. ASSUME NEW s \in Send, FeeAnswer(s) PROVE Alone /\ InTurn /\ Nonces
  <2>1. /\ fee[s] = "asked" /\ UNCHANGED <<pc, sign, push, sent, told>>
        /\ \A t \in Send \ {s} : fee'[t] = fee[t]
    BY <1>5 DEF FeeAnswer
  <2>2. Alone
    BY <1>b, <2>1
  <2>3. ASSUME NEW t \in Send PROVE Turn(t)'
    BY <1>a, <2>1 DEF Turn
  <2>4. ASSUME NEW t \in Send PROVE Numbered(t)'
    BY <1>a, <2>1 DEF Numbered, Used, NotUsed
  <2> QED BY <2>2, <2>3, <2>4
<1>6. ASSUME NEW s \in Send, Count(s) PROVE Alone /\ InTurn /\ Nonces
  <2>1. /\ sign[s].st = "asked" /\ UNCHANGED <<pc, fee, push, sent, told>>
        /\ \A t \in Send \ {s} : sign'[t] = sign[t]
        /\ sign'[s].st \in {"counted", "lost"}
    BY <1>6 DEF Count, Typed, Question
  <2>2. Alone
    BY <1>b, <2>1
  <2>3. ASSUME NEW t \in Send PROVE Turn(t)'
    BY <1>a, <2>1 DEF Turn
  <2>4. ASSUME NEW t \in Send PROVE Numbered(t)'
    BY <1>a, <2>1 DEF Numbered, Used, NotUsed
  <2> QED BY <2>2, <2>3, <2>4
<1>7. ASSUME NEW s \in Send, Build(s) PROVE Alone /\ InTurn /\ Nonces
  <2>1. /\ sign[s].st = "counted" /\ UNCHANGED <<pc, fee, push, sent, told>>
        /\ \A t \in Send \ {s} : sign'[t] = sign[t]
    BY <1>7 DEF Build, Typed
  <2>2. sign'[s].tx = NoTx \/ sign'[s].tx = TxOf(req[s], NextNonce(s))
    BY <1>7 DEF Build, Typed
  <2>3. NotUsed(TxOf(req[s], NextNonce(s)))
    <3>1. pc[s] # "new"
      BY <2>1 DEF Typed
    <3> QED BY <3>1, NextNonceType, TxOfFields DEF NotUsed
  <2>4. Alone
    BY <1>b, <2>1
  <2>5. ASSUME NEW t \in Send PROVE Turn(t)'
    BY <1>a, <2>1 DEF Turn
  <2>6. ASSUME NEW t \in Send PROVE Numbered(t)'
    <3>1. ASSUME NEW tx PROVE NotUsed(tx) => NotUsed(tx)'
      BY <2>1 DEF NotUsed
    <3>2. CASE t = s
      BY <1>a, <2>1, <2>2, <2>3, <3>2 DEF Numbered, Used, NotUsed
    <3>3. CASE t # s
      BY <1>a, <2>1, <3>3 DEF Numbered, Used, NotUsed
    <3> QED BY <3>2, <3>3
  <2> QED BY <2>4, <2>5, <2>6
<1>8. ASSUME NEW s \in Send, Accepts(s) \/ Refused(s) PROVE Alone /\ InTurn /\ Nonces
  <2>0. PICK st \in {"sent", "failed"} : push' = [push EXCEPT ![s].st = st]
    BY <1>8 DEF Accepts, Refused
  <2>1. /\ push[s].st \in {"asked", "sent"} /\ UNCHANGED <<pc, fee, sign, sent, told>>
        /\ \A t \in Send \ {s} : push'[t] = push[t]
        /\ push'[s].st \in {"sent", "failed"} /\ push'[s].tx = push[s].tx
    BY <1>8, <2>0 DEF Accepts, Refused, Typed, Question
  <2>2. Alone
    BY <1>b, <2>1
  <2>3. ASSUME NEW t \in Send PROVE Turn(t)'
    BY <1>a, <2>1 DEF Turn, Live
  <2>4. ASSUME NEW t \in Send PROVE Numbered(t)'
    BY <1>a, <2>1 DEF Numbered, Used, NotUsed
  <2> QED BY <2>2, <2>3, <2>4
<1>9. ASSUME NEW s \in Send, Acked(s) PROVE Alone /\ InTurn /\ Nonces
  <2> DEFINE tx == push[s].tx
  <2>1. /\ push[s].st = "sent" /\ UNCHANGED <<pc, fee, sign, told>>
        /\ \A t \in Send \ {s} : push'[t] = push[t]
        /\ push'[s].st = "acked" /\ push'[s].tx = tx
    BY <1>9 DEF Acked, Typed, Question
  <2>2. NotUsed(tx)
    BY <1>a, <2>1 DEF Numbered
  <2>3. sent' = [sent EXCEPT ![tx.from] = tx.nonce + 1]
    BY <1>9 DEF Acked
  <2> HIDE DEF tx
  <2>4. ASSUME NEW a \in From PROVE sent'[a] >= sent[a] /\ sent[a] \in Nat /\ sent'[a] \in Nat
    BY <2>2, <2>3 DEF Typed, NotUsed
  <2>5. tx.from \in From /\ tx.nonce \in Nat /\ tx.nonce < sent'[tx.from]
    BY <2>2, <2>3 DEF Typed, NotUsed
  <2>6. ASSUME NEW x, Used(x) PROVE x.from \in From /\ x.nonce \in Nat /\ x.nonce < sent'[x.from]
    BY <2>4, <2>6 DEF Used
  <2>7. pc[s] = "push"
    BY <1>a, <2>1 DEF Turn, Live
  <2>8. ASSUME NEW t \in Send PROVE Turn(t)'
    BY <1>a, <2>1 DEF Turn, Live
  <2>9. ASSUME NEW t \in Send PROVE Numbered(t)'
    <3>1. CASE t = s
      <4>1. sign'[t].st # "ready" /\ pc'[t] # "ok"
        BY <1>a, <2>1, <2>7, <3>1 DEF Turn
      <4> QED BY <2>1, <2>5, <3>1, <4>1 DEF Numbered, Used
    <3>2. CASE t # s
      <4>1. t \notin UnderWay
        BY <1>a, <2>7, <3>2 DEF UnderWay, Awaiting
      <4>2. sign'[t].st # "ready" /\ push'[t].st \notin Live
        BY <1>a, <2>1, <3>2, <4>1 DEF Turn, UnderWay, Awaiting
      <4>3. pc[t] = "ok" => Used(told[t])
        BY <1>a DEF Numbered
      <4> QED BY <2>1, <2>6, <4>2, <4>3 DEF Numbered, Used, Live
    <3> QED BY <3>1, <3>2
  <2>10. Alone
    BY <1>b, <2>1
  <2> QED BY <2>8, <2>9, <2>10
<1>10. CASE UNCHANGED vars
  <2>1. UNCHANGED <<pc, fee, sign, push, sent, told>>
    BY <1>10 DEF vars
  <2> QED BY <1>a, <2>1 DEF UnderWay, Turn, Numbered, Used, NotUsed
<1> QED BY <1>1, <1>2, <1>3, <1>4, <1>5, <1>6, <1>7, <1>8, <1>9, <1>10 DEF Next, Main, Worker

-----------------------------------------------------------------------------
(* The theorems.                                                            *)

IInv == Typed /\ Guarded /\ Shown /\ Paid /\ Serial

\* IInv holds at first and after every step.
THEOREM Invariance == Spec => []IInv
<1>1. Init => IInv
  <2> SUFFICES ASSUME Init PROVE IInv
    OBVIOUS
  <2>1. Typed
    BY FS_EmptySet, QuestionFields DEF Init, Typed
  <2>2. Guarded
    BY QuestionFields DEF Init, Guarded, Live
  <2>3. Shown
    BY QuestionFields DEF Init, Shown, ShownIsAccepted
  <2>4. Paid
    <3>1. ASSUME NEW q \in Payable PROVE Cardinality(Payments(q)) <= Cardinality(Paying(q))
      <4>1. Payments(q) = {} /\ Paying(q) = {}
        BY QuestionFields DEF Init, Payments, Paying
      <4> QED BY <4>1, FS_EmptySet
    <3> QED BY <3>1 DEF Init, Paid
  <2>5. Serial
    BY QuestionFields DEF Init, Serial, UnderWay, Awaiting, Turn, Numbered, Live
  <2> QED BY <2>1, <2>2, <2>3, <2>4, <2>5 DEF IInv
<1>2. IInv /\ [Next]_vars => IInv'
  BY TypedStep, GuardedStep, ShownStep, PaidStep, SerialStep DEF IInv
<1> QED BY <1>1, <1>2, PTL DEF Spec

\* What a caller is told as done, and what the wallet shows as pending, is a transaction the
\* node has accepted.
THEOREM ShownAreAccepted == Spec => []ShownIsAccepted
<1>1. IInv => ShownIsAccepted
  BY DEF IInv, Shown
<1> QED BY <1>1, Invariance, PTL

\* A payment is made no more often than it was asked for, and none that nobody, or only a
\* dry run, asked for.
THEOREM NeverOverpays == Spec => []NeverPaysMore
<1>1. IInv => NeverPaysMore
  <2> SUFFICES ASSUME IInv, NEW tx \in accepted
               PROVE  LET q == [asset |-> tx.asset, from |-> tx.from, to |-> tx.to,
                                value |-> tx.value, dryRun |-> FALSE]
                      IN  Cardinality(Payments(q)) <= Cardinality(Asking(q))
    BY DEF NeverPaysMore
  <2>1. PICK p \in Payable, n \in Nat : tx = TxOf(p, n)
    BY DEF IInv, Paid
  <2>2. p = [asset |-> tx.asset, from |-> tx.from, to |-> tx.to, value |-> tx.value, dryRun |-> FALSE]
    <3>1. p = [asset |-> p.asset, from |-> p.from, to |-> p.to, value |-> p.value, dryRun |-> p.dryRun]
          /\ p.dryRun = FALSE
      BY RequestAssumption DEF Payable
    <3> QED BY <2>1, <3>1, TxOfFields
  <2>3. Paying(p) \subseteq Asking(p)
    BY DEF IInv, Guarded, Paying, Asking
  <2>4. Asking(p) \subseteq Send /\ Payments(p) \subseteq accepted
    BY DEF Asking, Payments
  <2>5. IsFiniteSet(Asking(p)) /\ IsFiniteSet(Payments(p))
    BY <2>4, SendAssumption, FS_Subset DEF IInv, Typed
  <2>6. IsFiniteSet(Paying(p)) /\ Cardinality(Paying(p)) <= Cardinality(Asking(p))
    BY <2>3, <2>5, FS_Subset
  <2>7. Cardinality(Payments(p)) <= Cardinality(Paying(p))
    BY DEF IInv, Paid
  <2>8. Cardinality(Payments(p)) \in Nat /\ Cardinality(Paying(p)) \in Nat /\ Cardinality(Asking(p)) \in Nat
    BY <2>5, <2>6, FS_CardinalityType
  <2>9. Cardinality(Payments(p)) <= Cardinality(Asking(p))
    BY <2>6, <2>7, <2>8
  <2> QED BY <2>2, <2>9
<1> QED BY <1>1, Invariance, PTL

\* Sends made one after the other number their transactions above those of the payments
\* reported before.
THEOREM NoncesAreFresh == Spec => FreshNonces
<1>1. IInv /\ [Next]_vars => [~overlap => \A s \in Send : FreshNonce(s)]_vars
  <2> SUFFICES ASSUME IInv, [Next]_vars, ~overlap, NEW s \in Send,
                      sign[s].st = "counted", sign'[s].st = "ready", sign'[s].tx # NoTx,
                      NEW t \in Send, pc[t] = "ok", told[t].from = sign'[s].tx.from
               PROVE  told[t].nonce < sign'[s].tx.nonce
    BY DEF FreshNonce
  <2>1. Build(s) /\ sign'[s].tx = TxOf(req[s], NextNonce(s))
    <3>1. ASSUME NEW u \in Send, FeeDone(u) PROVE FALSE
      <4>1. PICK on \in SUBSET Send :
               sign' = [v \in Send |-> IF v \in on THEN [NotAsked EXCEPT !.st = "asked"] ELSE sign[v]]
        BY <3>1 DEF FeeDone, Hearing
      <4>2. sign'[s] = sign[s] \/ sign'[s].st = "asked"
        BY <4>1, QuestionFields DEF Question
      <4> QED BY <4>2
    <3>2. ASSUME NEW u \in Send, HexDone(u) PROVE FALSE
      <4>1. sign'[s] = sign[s] \/ sign'[s].st = "done"
        BY <3>2, QuestionFields DEF HexDone, IInv, Typed
      <4> QED BY <4>1
    <3>3. ASSUME NEW u \in Send, Count(u) PROVE FALSE
      <4>1. sign'[s] = sign[s] \/ sign'[s].st \in {"counted", "lost"}
        BY <3>3 DEF Count, IInv, Typed, Question
      <4> QED BY <4>1
    <3>4. ASSUME sign' = sign PROVE FALSE
      BY <3>4
    <3>5. ASSUME NEW u \in Send, Build(u) PROVE u = s
      BY <3>5 DEF Build, IInv, Typed
    <3>6. Build(s)
      BY <3>1, <3>2, <3>3, <3>4, <3>5 DEF Next, Main, Worker, vars, Start, PushDone, PushFailed,
         FeeAnswer, Accepts, Refused, Acked
    <3> QED BY <3>6 DEF Build, IInv, Typed
  <2>2. /\ NextNonce(s) \in Nat /\ NextNonce(s) >= sent[req[s].from] /\ req[s].from \in From
        /\ sent[req[s].from] \in Nat
    <3>1. Typed /\ pc[s] # "new"
      BY DEF IInv, Typed
    <3> QED BY <3>1, NextNonceType DEF Typed
  <2>3. Used(told[t])
    BY DEF IInv, Serial, Numbered
  <2>4. told[t].from = req[s].from
    BY <2>1, TxOfFields
  <2> QED BY <2>1, <2>2, <2>3, <2>4, TxOfFields DEF Used
<1> QED BY <1>1, Invariance, PTL DEF Spec, FreshNonces
=============================================================================
