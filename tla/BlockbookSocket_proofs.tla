----------------------- MODULE BlockbookSocket_proofs -----------------------
(***************************************************************************)
(* Theorems about BlockbookSocket, for any sets of requests and sockets    *)
(* and any cap: type correctness, the exactness of the limiter, that the   *)
(* pending maps, the queues and the ids of successive sockets implement    *)
(* RequestReply, that nobody is forgotten, and the order of what is sent.  *)
(***************************************************************************)
EXTENDS BlockbookSocket, FiniteSetTheorems, SequenceTheorems, TLAPS

\* A socket that does not exist yet or has had its close event holds nothing,
\* and nothing is on the wire of one that does not exist yet.
UnusedEmpty ==
    \A s \in Socket :
        /\ readyState[s] \in {"none", "closed"} => pending[s] = {} /\ queue[s] = <<>>
        /\ readyState[s] = "none" => wire[s] = {}

\* Of the socket in the slot, the ids given are below the next one.
IdsBelow ==
    \A s \in Socket : cur = s =>
        \A p \in pending[s] \cup wire[s] : p[1] < messageID

\* Of any socket, an id stands for one request.
IdsUnique ==
    \A s \in Socket : \A p \in pending[s] : \A f \in pending[s] \cup wire[s] :
        p[1] = f[1] => p = f

\* What is held was submitted and has not been answered.
HeldUnanswered ==
    /\ \A r \in Request : r \notin submitted => answers[r] = <<>>
    /\ \A s \in Socket : \A p \in pending[s] :
          p[2] \in submitted /\ answers[p[2]] = <<>>
    /\ \A s \in Socket : \A i \in 1..Len(queue[s]) :
          queue[s][i] \in submitted /\ answers[queue[s][i]] = <<>>

\* A request is held in one place only.
HeldOnce ==
    /\ \A s, t \in Socket : \A p \in pending[s], q \in pending[t] :
          p[2] = q[2] => s = t /\ p = q
    /\ \A s, t \in Socket : \A p \in pending[s] : \A i \in 1..Len(queue[t]) :
          p[2] # queue[t][i]
    /\ \A s, t \in Socket : \A i \in 1..Len(queue[s]), j \in 1..Len(queue[t]) :
          queue[s][i] = queue[t][j] => s = t /\ i = j

\* Pending maps are finite, so that their heavy entries can be counted.
PendingFinite == \A s \in Socket : IsFiniteSet(pending[s])

\* The inductive invariant: types, what makes an id identify a request, what makes a
\* request have one holder, and the exact limiter.
IInv ==
    /\ TypeOK
    /\ UnusedEmpty
    /\ IdsBelow
    /\ IdsUnique
    /\ HeldUnanswered
    /\ HeldOnce
    /\ PendingFinite
    /\ LimiterExact

\* Before any socket exists nothing is held, so the invariant holds.
LEMMA InitInv == Init => IInv
  <1> SUFFICES ASSUME Init PROVE IInv
    OBVIOUS
  <1> USE DEF Init
  <1>1. TypeOK
    BY NoSocketAssumption, HeavyAssumption DEF TypeOK, ReadyState, Pair, Answer
  <1>2. UnusedEmpty /\ IdsBelow /\ IdsUnique /\ HeldUnanswered /\ HeldOnce
    BY NoSocketAssumption DEF UnusedEmpty, IdsBelow, IdsUnique, HeldUnanswered, HeldOnce
  <1>3. PendingFinite
    BY FS_EmptySet DEF PendingFinite
  <1>4. LimiterExact
    <2>1. \A s \in Socket : HeavyOf(pending[s]) = {}
      BY DEF HeavyOf
    <2>2. Cardinality({}) = 0
      BY FS_EmptySet
    <2>3. ASSUME NEW s \in Socket
          PROVE  inFlight[s] = Cardinality(HeavyOf(pending[s]))
                 /\ inFlight[s] <= Cap /\ queue[s] = <<>>
      <3>1. inFlight[s] = 0 /\ queue[s] = <<>>
        OBVIOUS
      <3> QED
        BY <2>1, <2>2, <3>1, CapAssumption
    <2> QED
      BY <2>3 DEF LimiterExact
  <1> QED
    BY <1>1, <1>2, <1>3, <1>4 DEF IInv

-----------------------------------------------------------------------------
(* What settling a request amounts to, given the invariant: a freed slot is *)
(* taken by at most the head of the queue.                                  *)

\* nothing waits in the queue for the slot (or no slot was held)
Plain(s, p, data, unanswered) ==
    /\ p[2] \in Heavy => queue[s] = <<>>
    /\ pending' = [pending EXCEPT ![s] = @ \ {p}]
    /\ wire' = [wire EXCEPT ![s] = unanswered]
    /\ answers' = Call({p[2]}, data)
    /\ inFlight' = [inFlight EXCEPT ![s] = IF p[2] \in Heavy THEN @ - 1 ELSE @]
    /\ UNCHANGED <<queue, messageID>>

\* the head of the queue takes the slot
Handover(s, p, data, unanswered) ==
    LET n == <<messageID, Head(queue[s])>>
    IN  /\ p[2] \in Heavy /\ queue[s] # <<>> /\ Live(s)
        /\ pending' = [pending EXCEPT ![s] = (@ \ {p}) \cup {n}]
        /\ wire' = [wire EXCEPT ![s] = unanswered \cup {n}]
        /\ answers' = Call({p[2]}, data)
        /\ messageID' = messageID + 1
        /\ queue' = [queue EXCEPT ![s] = Tail(@)]
        /\ UNCHANGED inFlight

\* the socket cannot send: the whole queue is refused
Refusal(s, p, data, unanswered) ==
    /\ p[2] \in Heavy /\ queue[s] # <<>> /\ ~Live(s)
    /\ pending' = [pending EXCEPT ![s] = @ \ {p}]
    /\ wire' = [wire EXCEPT ![s] = unanswered]
    /\ answers' = [r \in Request |->
                     IF r = p[2] THEN Append(answers[r], data)
                     ELSE IF r \in Queued(s) THEN Append(answers[r], "error")
                     ELSE answers[r]]
    /\ inFlight' = [inFlight EXCEPT ![s] = @ - 1]
    /\ queue' = [queue EXCEPT ![s] = <<>>]
    /\ UNCHANGED messageID

\* Calling a filed callback (a reply or a timer) is a plain settling, a handover of the
\* slot to the head of the queue, or a refusal of the whole queue; never more than one
\* queued request takes the freed slot.
LEMMA SettleForms ==
  ASSUME IInv, NEW s \in Socket, NEW p \in pending[s], NEW data, NEW unanswered,
         Settle(s, p, data, unanswered)
  PROVE  /\ \/ Plain(s, p, data, unanswered)
            \/ Handover(s, p, data, unanswered)
            \/ Refusal(s, p, data, unanswered)
         /\ UNCHANGED <<cur, readyState, submitted>>
  <1> USE DEF IInv, TypeOK
  <1>1. UNCHANGED <<cur, readyState, submitted>>
    BY DEF Settle
  <1>2. CASE SettleCheap(s, p, data, unanswered)
    <2>1. inFlight = [inFlight EXCEPT ![s] = IF p[2] \in Heavy THEN @ - 1 ELSE @]
      BY <1>2 DEF SettleCheap
    <2> QED
      BY <1>1, <1>2, <2>1 DEF SettleCheap, Plain
  <1>3. CASE SettleHeavy(s, p, data, unanswered)
    <2> DEFINE freed == inFlight[s] - 1
               k     == DrainCount(s, freed)
    <2>1. p[2] \in Heavy
      BY <1>3 DEF SettleHeavy
    <2>2. queue[s] \in Seq(Heavy) /\ Len(queue[s]) \in Nat /\ freed \in Int
          /\ freed < Cap /\ Cap \in Nat
          /\ (queue[s] # <<>> => freed = Cap - 1)
      BY LenProperties, CapAssumption DEF LimiterExact
    <2>3. CASE queue[s] = <<>>
      <3>1. Len(queue[s]) = 0
        BY <2>3
      <3>2. k = 0
        BY <2>2, <3>1 DEF DrainCount, Lesser
      <3>3. Drop(queue[s], k) = <<>> /\ Numbered(s, k) = {}
            /\ {queue[s][i] : i \in 1..k} = {}
        <4>1. 1..k = {}
          BY <3>2
        <4>2. Drop(queue[s], k) = <<>>
          BY <3>1, <3>2, SubSeqEmpty DEF Drop
        <4> QED
          BY <4>1, <4>2 DEF Numbered
      <3>4. /\ queue' = [queue EXCEPT ![s] = <<>>]
            /\ pending' = [pending EXCEPT ![s] = @ \ {p}]
            /\ wire' = [wire EXCEPT ![s] = unanswered]
            /\ inFlight' = [inFlight EXCEPT ![s] = freed]
            /\ messageID' = messageID
        <4> HIDE DEF k, freed
        <4>0. freed + k = freed /\ messageID + k = messageID
              /\ (pending[s] \ {p}) \cup {} = pending[s] \ {p}
              /\ unanswered \cup {} = unanswered
          BY <3>2, <2>2
        <4>1. CASE Live(s)
          BY <4>0, <4>1, <1>3, <3>3 DEF SettleHeavy, k, freed
        <4>2. CASE ~Live(s)
          BY <4>0, <4>2, <1>3, <3>3 DEF SettleHeavy, k, freed
        <4> QED
          BY <4>1, <4>2
      <3>5. answers' = Call({p[2]}, data)
        <4>1. CASE Live(s)
          BY <4>1, <1>3 DEF SettleHeavy
        <4>2. CASE ~Live(s)
          <5>1. answers' = [r \in Request |->
                             IF r = p[2] THEN Append(answers[r], data)
                             ELSE IF r \in {queue[s][i] : i \in 1..k} THEN Append(answers[r], "error")
                             ELSE answers[r]]
            BY <4>2, <1>3 DEF SettleHeavy
          <5> QED
            BY <5>1, <3>3 DEF Call
        <4> QED
          BY <4>1, <4>2
      <3>6. queue' = queue
        BY <3>4, <2>3
      <3> QED
        BY <1>1, <2>1, <2>3, <3>4, <3>5, <3>6 DEF Plain
    <2>4. CASE queue[s] # <<>> /\ Live(s)
      <3>1. Len(queue[s]) >= 1
        BY <2>2, <2>4, EmptySeq
      <3>2. k = 1
        <4>1. Cap - freed = 1
          BY <2>2, <2>4
        <4>2. k = Lesser(Len(queue[s]), 1)
          BY <4>1, <2>4 DEF DrainCount
        <4> QED
          BY <4>2, <3>1, <2>2 DEF Lesser
      <3>3. Drop(queue[s], k) = Tail(queue[s])
        BY <2>2, <2>4, <3>2, TailIsSubSeq DEF Drop
      <3>4. Numbered(s, k) = {<<messageID, Head(queue[s])>>}
        <4>1. 1..k = {1} /\ messageID + 1 - 1 = messageID
          BY <3>2
        <4>2. Head(queue[s]) = queue[s][1]
          BY <2>2, <2>4
        <4> QED
          BY <4>1, <4>2 DEF Numbered
      <3>5. [inFlight EXCEPT ![s] = freed + k] = inFlight
        BY <3>2
      <3> QED
        BY <1>1, <1>3, <2>1, <2>4, <3>2, <3>3, <3>4, <3>5 DEF SettleHeavy, Handover
    <2>5. CASE queue[s] # <<>> /\ ~Live(s)
      <3>1. k = Len(queue[s])
        BY <2>2, <2>5 DEF DrainCount
      <3>2. Drop(queue[s], k) = <<>>
        BY <2>2, <3>1, SubSeqEmpty DEF Drop
      <3> QED
        BY <1>1, <1>3, <2>1, <2>5, <3>1, <3>2 DEF SettleHeavy, Refusal, Queued
    <2> QED
      BY <2>3, <2>4, <2>5
  <1> QED
    BY <1>2, <1>3 DEF Settle

-----------------------------------------------------------------------------
(* The heavy entries of a pending map, with an entry less or an entry more. *)

\* The heavy entries of a pending map are finitely many: the limiter's counter can equal
\* their number.
LEMMA HeavyFinite ==
  ASSUME NEW S, IsFiniteSet(S)
  PROVE  IsFiniteSet(HeavyOf(S)) /\ Cardinality(HeavyOf(S)) \in Nat
  <1>1. HeavyOf(S) \in SUBSET S
    BY DEF HeavyOf
  <1> QED
    BY <1>1, FS_Subset, FS_CardinalityType

\* Removing a filed request takes one from the heavy entries if it is heavy, none if not:
\* the arithmetic of the decrement in sendHeavy's wrapper.
LEMMA HeavyLess ==
  ASSUME NEW S, IsFiniteSet(S), NEW p \in S
  PROVE  /\ IsFiniteSet(S \ {p})
         /\ Cardinality(HeavyOf(S)) \in Nat
         /\ Cardinality(HeavyOf(S \ {p})) =
              IF p[2] \in Heavy THEN Cardinality(HeavyOf(S)) - 1
              ELSE Cardinality(HeavyOf(S))
  <1>1. IsFiniteSet(HeavyOf(S)) /\ IsFiniteSet(S \ {p})
    <2>1. HeavyOf(S) \in SUBSET S /\ S \ {p} \in SUBSET S
      BY DEF HeavyOf
    <2> QED
      BY <2>1, FS_Subset
  <1>2. HeavyOf(S \ {p}) = HeavyOf(S) \ {p}
    BY DEF HeavyOf
  <1>3. p \in HeavyOf(S) <=> p[2] \in Heavy
    BY DEF HeavyOf
  <1> QED
    BY <1>1, <1>2, <1>3, FS_RemoveElement, FS_CardinalityType

\* Filing a new request adds one to the heavy entries if it is heavy, none if not: the
\* arithmetic of the increment in sendHeavy.
LEMMA HeavyMore ==
  ASSUME NEW S, IsFiniteSet(S), NEW n, n \notin S
  PROVE  /\ IsFiniteSet(S \cup {n})
         /\ Cardinality(HeavyOf(S)) \in Nat
         /\ Cardinality(HeavyOf(S \cup {n})) =
              IF n[2] \in Heavy THEN Cardinality(HeavyOf(S)) + 1
              ELSE Cardinality(HeavyOf(S))
  <1>1. IsFiniteSet(HeavyOf(S)) /\ IsFiniteSet(S \cup {n})
    <2>1. HeavyOf(S) \in SUBSET S
      BY DEF HeavyOf
    <2> QED
      BY <2>1, FS_Subset, FS_AddElement
  <1>2. CASE n[2] \in Heavy
    <2>1. HeavyOf(S \cup {n}) = HeavyOf(S) \cup {n} /\ n \notin HeavyOf(S)
      BY <1>2 DEF HeavyOf
    <2> QED
      BY <1>1, <1>2, <2>1, FS_AddElement, FS_CardinalityType
  <1>3. CASE n[2] \notin Heavy
    <2>1. HeavyOf(S \cup {n}) = HeavyOf(S)
      BY <1>3 DEF HeavyOf
    <2> QED
      BY <1>1, <1>3, <2>1, FS_CardinalityType
  <1> QED
    BY <1>2, <1>3

\* Taking entries out of pending maps and emptying queues keeps HeldOnce.
LEMMA HeldOnceShrinks ==
  ASSUME HeldOnce, NEW s \in Socket,
         \A t \in Socket : pending'[t] \subseteq pending[t],
         \A t \in Socket : t # s => queue'[t] = queue[t],
         queue'[s] = <<>>
  PROVE  HeldOnce'
  <1>1. 1..Len(queue'[s]) = {}
    OBVIOUS
  <1>2. \A t \in Socket : \A i \in 1..Len(queue'[t]) :
           t # s /\ i \in 1..Len(queue[t]) /\ queue'[t][i] = queue[t][i]
    <2> SUFFICES ASSUME NEW t \in Socket, NEW i \in 1..Len(queue'[t])
                 PROVE  t # s /\ i \in 1..Len(queue[t]) /\ queue'[t][i] = queue[t][i]
      OBVIOUS
    <2>1. t # s
      BY <1>1
    <2> QED
      BY <2>1
  <1>3. \A t, u \in Socket : \A p \in pending'[t], q \in pending'[u] :
           p[2] = q[2] => t = u /\ p = q
    BY DEF HeldOnce
  <1>4. \A t, u \in Socket : \A p \in pending'[t] : \A i \in 1..Len(queue'[u]) :
           p[2] # queue'[u][i]
    BY <1>2 DEF HeldOnce
  <1>5. \A t, u \in Socket : \A i \in 1..Len(queue'[t]), j \in 1..Len(queue'[u]) :
           queue'[t][i] = queue'[u][j] => t = u /\ i = j
    <2>1. \A t, u \in Socket : \A i \in 1..Len(queue[t]), j \in 1..Len(queue[u]) :
             queue[t][i] = queue[u][j] => t = u /\ i = j
      BY DEF HeldOnce
    <2> QED
      BY <1>2, <2>1
  <1> QED
    BY <1>3, <1>4, <1>5 DEF HeldOnce

-----------------------------------------------------------------------------
(* Each form of settling preserves the invariant. *)

\* A settling that sends nothing from the queue preserves the invariant.
LEMMA PlainInv ==
  ASSUME IInv, NEW s \in Socket, NEW p \in pending[s], NEW data \in Answer,
         NEW unanswered \in SUBSET wire[s],
         Plain(s, p, data, unanswered), UNCHANGED <<cur, readyState, submitted>>
  PROVE  IInv'
  <1> USE DEF IInv
  <1>0. p[2] \in Request /\ answers[p[2]] \in Seq(Answer) /\ p[2] \in submitted
    BY DEF TypeOK, Pair, HeldUnanswered
  <1>1. PendingFinite'
    <2>1. IsFiniteSet(pending[s] \ {p})
      BY HeavyLess DEF PendingFinite
    <2> QED
      BY <2>1 DEF PendingFinite, Plain, TypeOK
  <1>2. LimiterExact'
    <2>1. \A t \in Socket : t # s => pending'[t] = pending[t] /\ inFlight'[t] = inFlight[t]
      BY DEF Plain, TypeOK
    <2>2. pending'[s] = pending[s] \ {p}
          /\ inFlight'[s] = IF p[2] \in Heavy THEN inFlight[s] - 1 ELSE inFlight[s]
      BY DEF Plain, TypeOK
    <2>3. /\ Cardinality(HeavyOf(pending[s])) \in Nat
          /\ Cardinality(HeavyOf(pending[s] \ {p})) =
              IF p[2] \in Heavy THEN Cardinality(HeavyOf(pending[s])) - 1
              ELSE Cardinality(HeavyOf(pending[s]))
      BY HeavyLess DEF PendingFinite
    <2>4. inFlight'[s] = Cardinality(HeavyOf(pending'[s])) /\ inFlight'[s] <= Cap
          /\ (queue'[s] # <<>> => inFlight'[s] = Cap)
      <3>1. inFlight[s] = Cardinality(HeavyOf(pending[s])) /\ inFlight[s] <= Cap
            /\ (queue[s] # <<>> => inFlight[s] = Cap)
        BY DEF LimiterExact
      <3>2. inFlight'[s] = Cardinality(HeavyOf(pending'[s])) /\ inFlight'[s] <= Cap
        BY <2>2, <2>3, <3>1, CapAssumption
      <3>3. queue' = queue /\ (p[2] \in Heavy => queue[s] = <<>>)
        BY DEF Plain
      <3> QED
        BY <2>2, <3>1, <3>2, <3>3
    <2>5. \A t \in Socket : t # s =>
             inFlight'[t] = Cardinality(HeavyOf(pending'[t])) /\ inFlight'[t] <= Cap
          /\ (queue'[t] # <<>> => inFlight'[t] = Cap)
      BY <2>1 DEF LimiterExact, Plain
    <2> QED
      BY <2>4, <2>5 DEF LimiterExact, HeavyOf
  <1>3. TypeOK'
    <2>1. inFlight'[s] \in Nat
      <3>1. /\ Cardinality(HeavyOf(pending[s])) \in Nat
            /\ Cardinality(HeavyOf(pending[s] \ {p})) \in Nat
        BY HeavyLess, FS_Subset, FS_CardinalityType, HeavyFinite DEF PendingFinite
      <3> QED
        BY <3>1, <1>2 DEF LimiterExact, Plain, TypeOK
    <2>2. inFlight' \in [Socket -> Nat]
      BY <2>1 DEF Plain, TypeOK
    <2>3. answers' \in [Request -> Seq(Answer)]
      BY <1>0 DEF Plain, TypeOK, Call
    <2> QED
      BY <2>2, <2>3 DEF Plain, TypeOK
  <1>4. UnusedEmpty' /\ IdsBelow' /\ IdsUnique'
    BY DEF UnusedEmpty, IdsBelow, IdsUnique, Plain, TypeOK
  <1>5. HeldUnanswered'
    BY <1>0 DEF HeldUnanswered, HeldOnce, Plain, TypeOK, Call, Pair
  <1>6. HeldOnce'
    BY DEF HeldOnce, Plain, TypeOK
  <1> QED
    BY <1>1, <1>2, <1>3, <1>4, <1>5, <1>6

\* A settling after which drainHeavy sends the head of the queue in the freed slot, under
\* the next id, preserves the invariant.
LEMMA HandoverInv ==
  ASSUME IInv, NEW s \in Socket, NEW p \in pending[s], NEW data \in Answer,
         NEW unanswered \in SUBSET wire[s],
         Handover(s, p, data, unanswered), UNCHANGED <<cur, readyState, submitted>>
  PROVE  IInv'
  <1> DEFINE h == Head(queue[s])
             n == <<messageID, h>>
  <1> USE DEF IInv
  <1>0. /\ p[2] \in Request /\ answers[p[2]] \in Seq(Answer) /\ p[2] \in submitted
        /\ s = cur /\ readyState[s] = "open"
    BY DEF TypeOK, Pair, HeldUnanswered, Handover, Live
  <1>1. /\ Tail(queue[s]) \in Seq(Heavy)
        /\ Len(queue[s]) \in Nat \ {0}
        /\ Len(Tail(queue[s])) = Len(queue[s]) - 1
        /\ \A i \in 1..Len(Tail(queue[s])) : Tail(queue[s])[i] = queue[s][i+1]
        /\ h = queue[s][1]
        /\ h \in Heavy /\ h \in Request
    <2>1. queue[s] \in Seq(Heavy) /\ queue[s] # <<>>
      BY DEF TypeOK, Handover
    <2> QED
      BY <2>1, HeavyAssumption
  <1>2. n[1] = messageID /\ n[2] = h /\ n \in Pair
    BY <1>1 DEF Pair, TypeOK
  <1>3. \A q \in pending[s] \cup wire[s] : q[1] < messageID
    BY <1>0 DEF IdsBelow
  <1>4. n \notin pending[s]
    BY <1>2, <1>3 DEF TypeOK
  <1>5. /\ pending' = [pending EXCEPT ![s] = (@ \ {p}) \cup {n}]
        /\ wire' = [wire EXCEPT ![s] = unanswered \cup {n}]
        /\ answers' = Call({p[2]}, data)
        /\ messageID' = messageID + 1
        /\ queue' = [queue EXCEPT ![s] = Tail(@)]
        /\ inFlight' = inFlight
        /\ p[2] \in Heavy /\ queue[s] # <<>>
    BY DEF Handover
  <1> HIDE DEF n, h
  <1>6. /\ \A t \in Socket : t # s => pending'[t] = pending[t] /\ queue'[t] = queue[t]
                                        /\ wire'[t] = wire[t]
        /\ pending'[s] = (pending[s] \ {p}) \cup {n}
        /\ wire'[s] = unanswered \cup {n}
        /\ queue'[s] = Tail(queue[s])
    BY <1>5 DEF TypeOK
  <1>7. PendingFinite' /\ LimiterExact'
    <2>1. n \notin pending[s] \ {p}
      BY <1>4
    <2>2. IsFiniteSet(pending[s])
      BY DEF PendingFinite
    <2>3. /\ IsFiniteSet(pending[s] \ {p})
          /\ Cardinality(HeavyOf(pending[s] \ {p})) = Cardinality(HeavyOf(pending[s])) - 1
          /\ Cardinality(HeavyOf(pending[s])) \in Nat
      BY <1>5, <2>2, HeavyLess
    <2>4. /\ IsFiniteSet(pending'[s])
          /\ Cardinality(HeavyOf(pending'[s])) = Cardinality(HeavyOf(pending[s] \ {p})) + 1
      BY <1>1, <1>2, <1>6, <2>1, <2>3, HeavyMore
    <2>5. Cardinality(HeavyOf(pending'[s])) = Cardinality(HeavyOf(pending[s]))
      BY <2>3, <2>4
    <2>6. inFlight[s] = Cap
      BY <1>5 DEF LimiterExact
    <2>8. LimiterExact'
      <3> SUFFICES ASSUME NEW t \in Socket
                   PROVE  /\ inFlight'[t] = Cardinality(HeavyOf(pending'[t]))
                          /\ inFlight'[t] <= Cap
                          /\ queue'[t] # <<>> => inFlight'[t] = Cap
        BY DEF LimiterExact, HeavyOf
      <3>1. /\ inFlight[t] = Cardinality(HeavyOf(pending[t]))
            /\ inFlight[t] <= Cap
            /\ queue[t] # <<>> => inFlight[t] = Cap
        BY DEF LimiterExact
      <3>2. CASE t = s
        BY <3>1, <3>2, <1>5, <2>5, <2>6
      <3>3. CASE t # s
        BY <3>1, <3>3, <1>5, <1>6
      <3> QED
        BY <3>2, <3>3
    <2> QED
      BY <1>6, <2>4, <2>8 DEF PendingFinite
  <1>8. TypeOK'
    <2>1. answers' \in [Request -> Seq(Answer)]
      BY <1>0, <1>5 DEF TypeOK, Call
    <2> QED
      <3>1. pending' \in [Socket -> SUBSET Pair] /\ wire' \in [Socket -> SUBSET Pair]
        BY <1>2, <1>5 DEF TypeOK
      <3>2. queue' \in [Socket -> Seq(Heavy)] /\ messageID' \in Nat
            /\ inFlight' \in [Socket -> Nat]
        BY <1>1, <1>5 DEF TypeOK
      <3> QED
        BY <2>1, <3>1, <3>2 DEF TypeOK
  <1>9. UnusedEmpty'
    BY <1>0, <1>6 DEF UnusedEmpty
  <1>10. IdsBelow'
    <2>1. \A q \in pending'[s] \cup wire'[s] : q[1] < messageID'
      <3> SUFFICES ASSUME NEW q \in pending'[s] \cup wire'[s]
                   PROVE  q[1] < messageID + 1
        BY <1>5
      <3>1. q = n \/ q \in pending[s] \cup wire[s]
        BY <1>6
      <3>2. CASE q = n
        BY <3>2, <1>2 DEF TypeOK
      <3>3. CASE q \in pending[s] \cup wire[s]
        <4>1. q[1] < messageID /\ q[1] \in Nat /\ messageID \in Nat
          BY <3>3, <1>3 DEF TypeOK, Pair
        <4> QED
          BY <4>1
      <3> QED
        BY <3>1, <3>2, <3>3
    <2> QED
      BY <1>0, <2>1 DEF IdsBelow
  <1>11. IdsUnique'
    <2>1. \A q \in pending[s] \cup wire[s] : q[1] # n[1]
      <3>1. \A q \in pending[s] \cup wire[s] : q[1] < messageID /\ q[1] \in Nat
        BY <1>3 DEF TypeOK, Pair
      <3> QED
        BY <3>1, <1>2 DEF TypeOK
    <2> QED
      BY <1>6, <2>1 DEF IdsUnique
  <1>12. HeldUnanswered'
    <2>1. h \in submitted /\ answers[h] = <<>> /\ h # p[2]
      BY <1>1 DEF HeldUnanswered, HeldOnce
    <2>2. \A t \in Socket : \A i \in 1..Len(queue'[t]) :
             queue'[t][i] \in submitted' /\ answers'[queue'[t][i]] = <<>>
      <3> SUFFICES ASSUME NEW t \in Socket, NEW i \in 1..Len(queue'[t])
                   PROVE  queue'[t][i] \in submitted' /\ answers'[queue'[t][i]] = <<>>
        OBVIOUS
      <3>1. \E j \in 1..Len(queue[t]) : queue'[t][i] = queue[t][j]
        <4>1. CASE t = s
          BY <4>1, <1>1, <1>6
        <4>2. CASE t # s
          BY <4>2, <1>6
        <4> QED
          BY <4>1, <4>2
      <3>2. PICK j \in 1..Len(queue[t]) : queue'[t][i] = queue[t][j]
        BY <3>1
      <3>3. queue[t][j] \in submitted /\ answers[queue[t][j]] = <<>> /\ queue[t][j] # p[2]
            /\ queue[t][j] \in Request
        BY HeavyAssumption DEF HeldUnanswered, HeldOnce, TypeOK
      <3> QED
        BY <1>5, <3>2, <3>3 DEF Call
    <2>3. \A t \in Socket : \A q \in pending'[t] :
             q[2] \in submitted' /\ answers'[q[2]] = <<>>
      <3> SUFFICES ASSUME NEW t \in Socket, NEW q \in pending'[t]
                   PROVE  q[2] \in submitted' /\ answers'[q[2]] = <<>>
        OBVIOUS
      <3>1. CASE q = n
        BY <1>1, <1>2, <1>5, <2>1, <3>1 DEF Call
      <3>2. CASE q \in pending[t] /\ (t # s \/ q # p)
        <4>1. q[2] # p[2] /\ q[2] \in submitted /\ answers[q[2]] = <<>> /\ q[2] \in Request
          BY <3>2 DEF HeldOnce, HeldUnanswered, TypeOK, Pair
        <4> QED
          BY <1>5, <4>1 DEF Call
      <3> QED
        BY <1>6, <3>1, <3>2
    <2>4. \A r \in Request : r \notin submitted' => answers'[r] = <<>>
      BY <1>0, <1>5 DEF HeldUnanswered, Call
    <2> QED
      BY <2>2, <2>3, <2>4 DEF HeldUnanswered
  <1>13. HeldOnce'
    \* everything held before, less p, with h moved from the head of the queue
    <2>1. \A t \in Socket : \A q \in pending'[t] :
             \/ t = s /\ q = n
             \/ q \in pending[t] /\ (t # s \/ q # p)
      BY <1>6
    <2>2. \A t \in Socket : \A i \in 1..Len(queue'[t]) :
             \/ t # s /\ i \in 1..Len(queue[t]) /\ queue'[t][i] = queue[t][i]
             \/ t = s /\ i+1 \in 2..Len(queue[s]) /\ queue'[s][i] = queue[s][i+1]
      <3> SUFFICES ASSUME NEW t \in Socket, NEW i \in 1..Len(queue'[t])
                   PROVE  \/ t # s /\ i \in 1..Len(queue[t]) /\ queue'[t][i] = queue[t][i]
                          \/ t = s /\ i+1 \in 2..Len(queue[s]) /\ queue'[s][i] = queue[s][i+1]
        OBVIOUS
      <3>1. CASE t = s
        <4>1. i \in 1..(Len(queue[s]) - 1)
          BY <3>1, <1>1, <1>6
        <4>2. i + 1 \in 2..Len(queue[s])
          BY <4>1, <1>1
        <4> QED
          BY <3>1, <4>2, <1>1, <1>6
      <3>2. CASE t # s
        BY <3>2, <1>6
      <3> QED
        BY <3>1, <3>2
    <2>3. \A t \in Socket : \A q \in pending[t] : q[2] # h
      BY <1>1 DEF HeldOnce
    <2>4. \A t \in Socket : \A i \in 1..Len(queue'[t]) : queue'[t][i] # h
      <3> SUFFICES ASSUME NEW t \in Socket, NEW i \in 1..Len(queue'[t])
                   PROVE  queue'[t][i] # h
        OBVIOUS
      <3>1. \A j \in 2..Len(queue[s]) : queue[s][j] # queue[s][1]
        BY <1>1 DEF HeldOnce
      <3>2. \A u \in Socket : \A j \in 1..Len(queue[u]) : u # s => queue[u][j] # queue[s][1]
        BY <1>1 DEF HeldOnce
      <3> QED
        BY <1>1, <2>2, <3>1, <3>2
    <2>5. \A t, u \in Socket : \A q1 \in pending'[t], q2 \in pending'[u] :
             q1[2] = q2[2] => t = u /\ q1 = q2
      BY <1>2, <2>1, <2>3 DEF HeldOnce
    <2>6. \A t, u \in Socket : \A q \in pending'[t] : \A i \in 1..Len(queue'[u]) :
             q[2] # queue'[u][i]
      BY <1>1, <1>2, <2>1, <2>2, <2>4 DEF HeldOnce
    <2>7. \A t, u \in Socket : \A i \in 1..Len(queue'[t]), j \in 1..Len(queue'[u]) :
             queue'[t][i] = queue'[u][j] => t = u /\ i = j
      <3> SUFFICES ASSUME NEW t \in Socket, NEW u \in Socket,
                          NEW i \in 1..Len(queue'[t]), NEW j \in 1..Len(queue'[u]),
                          queue'[t][i] = queue'[u][j]
                   PROVE  t = u /\ i = j
        OBVIOUS
      <3>1. \A k, l \in Nat : k + 1 = l + 1 => k = l
        OBVIOUS
      <3>2. i \in Nat /\ j \in Nat
        BY <1>1, <1>6
      <3>3. PICK k \in 1..Len(queue[t]) : queue'[t][i] = queue[t][k]
                                          /\ k = IF t = s THEN i + 1 ELSE i
        BY <2>2, <1>1
      <3>4. PICK l \in 1..Len(queue[u]) : queue'[u][j] = queue[u][l]
                                          /\ l = IF u = s THEN j + 1 ELSE j
        BY <2>2, <1>1
      <3>5. t = u /\ k = l
        <4>1. \A v, w \in Socket : \A m \in 1..Len(queue[v]), o \in 1..Len(queue[w]) :
                 queue[v][m] = queue[w][o] => v = w /\ m = o
          BY DEF HeldOnce
        <4>2. queue[t][k] = queue[u][l]
          BY <3>3, <3>4
        <4> QED
          BY <4>1, <4>2
      <3> QED
        BY <3>1, <3>2, <3>3, <3>4, <3>5
    <2> QED
      BY <2>5, <2>6, <2>7 DEF HeldOnce
  <1> QED
    BY <1>7, <1>8, <1>9, <1>10, <1>11, <1>12, <1>13

\* A settling after which drainHeavy refuses the queue of a socket that was replaced or
\* is no longer open preserves the invariant.
LEMMA RefusalInv ==
  ASSUME IInv, NEW s \in Socket, NEW p \in pending[s], NEW data \in Answer,
         NEW unanswered \in SUBSET wire[s],
         Refusal(s, p, data, unanswered), UNCHANGED <<cur, readyState, submitted>>
  PROVE  IInv'
  <1> USE DEF IInv
  <1>0. /\ p[2] \in Request /\ p[2] \in submitted
        /\ answers \in [Request -> Seq(Answer)] /\ "error" \in Answer
    BY DEF TypeOK, Pair, HeldUnanswered, Answer
  <1>1. /\ pending' = [pending EXCEPT ![s] = @ \ {p}]
        /\ wire' = [wire EXCEPT ![s] = unanswered]
        /\ answers' = [r \in Request |->
                         IF r = p[2] THEN Append(answers[r], data)
                         ELSE IF r \in Queued(s) THEN Append(answers[r], "error")
                         ELSE answers[r]]
        /\ inFlight' = [inFlight EXCEPT ![s] = @ - 1]
        /\ queue' = [queue EXCEPT ![s] = <<>>]
        /\ messageID' = messageID
        /\ p[2] \in Heavy
    BY DEF Refusal
  <1>2. /\ \A t \in Socket : t # s => pending'[t] = pending[t] /\ queue'[t] = queue[t]
                                        /\ wire'[t] = wire[t] /\ inFlight'[t] = inFlight[t]
        /\ pending'[s] = pending[s] \ {p}
        /\ wire'[s] = unanswered
        /\ queue'[s] = <<>>
        /\ inFlight'[s] = inFlight[s] - 1
    BY <1>1 DEF TypeOK
  <1>3. /\ IsFiniteSet(pending[s] \ {p})
        /\ Cardinality(HeavyOf(pending[s] \ {p})) = Cardinality(HeavyOf(pending[s])) - 1
        /\ Cardinality(HeavyOf(pending[s])) \in Nat
        /\ Cardinality(HeavyOf(pending[s] \ {p})) \in Nat
    BY <1>1, HeavyLess, HeavyFinite DEF PendingFinite
  <1>4. PendingFinite'
    BY <1>2, <1>3 DEF PendingFinite
  <1>5. LimiterExact'
    <2> SUFFICES ASSUME NEW t \in Socket
                 PROVE  /\ inFlight'[t] = Cardinality(HeavyOf(pending'[t]))
                        /\ inFlight'[t] <= Cap
                        /\ queue'[t] # <<>> => inFlight'[t] = Cap
      BY DEF LimiterExact, HeavyOf
    <2>1. /\ inFlight[t] = Cardinality(HeavyOf(pending[t]))
          /\ inFlight[t] <= Cap
          /\ queue[t] # <<>> => inFlight[t] = Cap
      BY DEF LimiterExact
    <2>2. CASE t = s
      BY <2>1, <2>2, <1>2, <1>3, CapAssumption
    <2>3. CASE t # s
      BY <2>1, <2>3, <1>2
    <2> QED
      BY <2>2, <2>3
  <1>6. TypeOK'
    <2>1. inFlight' \in [Socket -> Nat]
      <3>1. inFlight[s] - 1 \in Nat
        BY <1>3 DEF LimiterExact
      <3> QED
        BY <1>1, <3>1 DEF TypeOK
    <2>2. answers' \in [Request -> Seq(Answer)]
      BY <1>0, <1>1
    <2>3. queue' \in [Socket -> Seq(Heavy)]
      BY <1>1 DEF TypeOK
    <2>4. pending' \in [Socket -> SUBSET Pair] /\ wire' \in [Socket -> SUBSET Pair]
      BY <1>1 DEF TypeOK
    <2> QED
      BY <1>1, <2>1, <2>2, <2>3, <2>4 DEF TypeOK
  <1>7. UnusedEmpty' /\ IdsBelow' /\ IdsUnique'
    BY <1>1, <1>2 DEF UnusedEmpty, IdsBelow, IdsUnique
  <1>8. HeldUnanswered'
    <2>1. \A t \in Socket : \A q \in pending'[t] :
             /\ q \in pending[t] /\ q[2] # p[2] /\ q[2] \notin Queued(s)
             /\ q[2] \in Request
      <3> SUFFICES ASSUME NEW t \in Socket, NEW q \in pending'[t]
                   PROVE  /\ q \in pending[t] /\ q[2] # p[2] /\ q[2] \notin Queued(s)
                          /\ q[2] \in Request
        OBVIOUS
      <3>1. q \in pending[t] /\ (t # s \/ q # p)
        BY <1>2
      <3>2. q[2] # p[2] /\ q[2] \in Request
        BY <3>1 DEF HeldOnce, TypeOK, Pair
      <3>3. \A i \in 1..Len(queue[s]) : q[2] # queue[s][i]
        BY <3>1 DEF HeldOnce
      <3> QED
        BY <3>1, <3>2, <3>3 DEF Queued
    <2>2. \A t \in Socket : \A q \in pending'[t] :
             q[2] \in submitted' /\ answers'[q[2]] = <<>>
      BY <1>1, <2>1 DEF HeldUnanswered
    <2>3. \A t \in Socket : \A i \in 1..Len(queue'[t]) :
             queue'[t][i] \in submitted' /\ answers'[queue'[t][i]] = <<>>
      <3> SUFFICES ASSUME NEW t \in Socket, NEW i \in 1..Len(queue'[t])
                   PROVE  queue'[t][i] \in submitted' /\ answers'[queue'[t][i]] = <<>>
        OBVIOUS
      <3>1. t # s /\ i \in 1..Len(queue[t]) /\ queue'[t][i] = queue[t][i]
        BY <1>2
      <3>2. queue[t][i] \in submitted /\ answers[queue[t][i]] = <<>>
        BY <3>1 DEF HeldUnanswered
      <3>3. queue[t][i] # p[2] /\ queue[t][i] \in Request
        BY <3>1, HeavyAssumption DEF HeldOnce, TypeOK
      <3>4. queue[t][i] \notin Queued(s)
        <4>1. \A v, w \in Socket : \A m \in 1..Len(queue[v]), o \in 1..Len(queue[w]) :
                 queue[v][m] = queue[w][o] => v = w /\ m = o
          BY DEF HeldOnce
        <4> QED
          BY <3>1, <4>1 DEF Queued
      <3> QED
        BY <1>1, <3>1, <3>2, <3>3, <3>4
    <2>4. \A r \in Request : r \notin submitted' => answers'[r] = <<>>
      <3>1. \A r \in Queued(s) : r \in submitted
        BY DEF HeldUnanswered, Queued
      <3> QED
        BY <1>0, <1>1, <3>1 DEF HeldUnanswered
    <2> QED
      BY <2>2, <2>3, <2>4 DEF HeldUnanswered
  <1>9. HeldOnce'
    <2>1. /\ \A t \in Socket : pending'[t] \subseteq pending[t]
          /\ \A t \in Socket : t # s => queue'[t] = queue[t]
          /\ queue'[s] = <<>>
      BY <1>2
    <2> QED
      BY <2>1, HeldOnceShrinks
  <1> QED
    BY <1>4, <1>5, <1>6, <1>7, <1>8, <1>9

\* Whatever settles a filed callback (a reply or a timer) preserves the invariant.
LEMMA SettleInv ==
  ASSUME IInv, NEW s \in Socket, NEW p \in pending[s], NEW data \in Answer,
         NEW unanswered \in SUBSET wire[s],
         Settle(s, p, data, unanswered)
  PROVE  IInv'
  BY SettleForms, PlainInv, HandoverInv, RefusalInv

-----------------------------------------------------------------------------
(* The actions that settle nothing. *)

\* Constructing, opening, disconnecting and losing a socket, and taking ids for
\* subscriptions, preserve the invariant: ids restart only on a socket that holds nothing.
LEMMA LifecycleInv ==
  ASSUME IInv,
         \/ \E s \in Socket : Setup(s) \/ OnOpen(s) \/ RemoteClose(s)
         \/ Disconnect
         \/ Subscribe
  PROVE  IInv'
  <1> USE DEF IInv
  <1>1. UNCHANGED <<inFlight, queue, wire, submitted, answers>>
    BY DEF Setup, OnOpen, RemoteClose, Disconnect, Subscribe
  <1>2. pending' = pending
    <2>1. \A s \in Socket : readyState[s] = "none" => pending[s] = {}
      BY DEF UnusedEmpty
    <2>2. pending \in [Socket -> SUBSET Pair]
      BY DEF TypeOK
    <2>3. ASSUME NEW s \in Socket, Setup(s) PROVE pending' = pending
      BY <2>1, <2>2, <2>3 DEF Setup
    <2> QED
      BY <2>3 DEF OnOpen, RemoteClose, Disconnect, Subscribe
  <1>3. PendingFinite' /\ LimiterExact' /\ HeldUnanswered' /\ HeldOnce' /\ IdsUnique'
    <2>1. PendingFinite'
      BY <1>2 DEF PendingFinite
    <2>2. LimiterExact'
      BY <1>1, <1>2 DEF LimiterExact, HeavyOf
    <2>3. HeldUnanswered'
      BY <1>1, <1>2 DEF HeldUnanswered
    <2>4. HeldOnce'
      BY <1>1, <1>2 DEF HeldOnce
    <2>5. IdsUnique'
      BY <1>1, <1>2 DEF IdsUnique
    <2> QED
      BY <2>1, <2>2, <2>3, <2>4, <2>5
  <1>4. ASSUME NEW s \in Socket, Setup(s) PROVE TypeOK' /\ UnusedEmpty' /\ IdsBelow'
    <2>1. pending[s] = {} /\ wire[s] = {}
      BY <1>4 DEF UnusedEmpty, Setup
    <2> QED
      BY <1>1, <1>2, <1>4, <2>1 DEF Setup, TypeOK, UnusedEmpty, IdsBelow, ReadyState
  <1>5. ASSUME NEW s \in Socket, OnOpen(s) PROVE TypeOK' /\ UnusedEmpty' /\ IdsBelow'
    <2>1. messageID' \in Nat /\ messageID <= messageID'
      BY <1>5 DEF OnOpen, TypeOK
    <2>2. TypeOK'
      BY <1>1, <1>2, <1>5, <2>1 DEF OnOpen, TypeOK, ReadyState
    <2>3. UnusedEmpty'
      BY <1>1, <1>2, <1>5 DEF OnOpen, TypeOK, UnusedEmpty
    <2>4. IdsBelow'
      <3>1. \A t \in Socket : \A p \in pending[t] \cup wire[t] : p[1] \in Nat
        BY DEF TypeOK, Pair
      <3> QED
        BY <1>1, <1>2, <1>5, <2>1, <3>1 DEF OnOpen, IdsBelow, TypeOK
    <2> QED
      BY <2>2, <2>3, <2>4
  <1>6. ASSUME NEW s \in Socket, RemoteClose(s) PROVE TypeOK' /\ UnusedEmpty' /\ IdsBelow'
    BY <1>1, <1>2, <1>6 DEF RemoteClose, TypeOK, UnusedEmpty, IdsBelow, ReadyState
  <1>7. ASSUME Disconnect PROVE TypeOK' /\ UnusedEmpty' /\ IdsBelow'
    BY <1>1, <1>2, <1>7, NoSocketAssumption
       DEF Disconnect, TypeOK, UnusedEmpty, IdsBelow, ReadyState, SocketsIn
  <1>8. ASSUME Subscribe PROVE TypeOK' /\ UnusedEmpty' /\ IdsBelow'
    <2>1. messageID' = messageID + 1 /\ cur' = cur /\ readyState' = readyState
      BY <1>8 DEF Subscribe
    <2>2. \A t \in Socket : \A p \in pending[t] \cup wire[t] : p[1] \in Nat
      BY DEF TypeOK, Pair
    <2>3. IdsBelow'
      BY <1>1, <1>2, <2>1, <2>2 DEF IdsBelow, TypeOK
    <2> QED
      BY <1>1, <1>2, <2>1, <2>3 DEF TypeOK, UnusedEmpty
  <1> QED
    BY <1>3, <1>4, <1>5, <1>6, <1>7, <1>8

\* A close event, which fails the queue and the pending map of its socket, preserves the
\* invariant: the slots freed are exactly the heavy entries failed.
LEMMA OnCloseInv ==
  ASSUME IInv, NEW s \in Socket, OnClose(s)
  PROVE  IInv'
  <1> USE DEF IInv, OnClose
  <1>1. /\ \A t \in Socket : t # s => pending'[t] = pending[t] /\ queue'[t] = queue[t]
                                        /\ inFlight'[t] = inFlight[t]
        /\ pending'[s] = {} /\ queue'[s] = <<>>
        /\ inFlight'[s] = 0
        /\ wire' = wire /\ submitted' = submitted /\ messageID' = messageID
    <2>1. inFlight[s] = Cardinality(HeavyOf(pending[s])) /\ inFlight[s] \in Nat
      BY DEF LimiterExact, TypeOK
    <2>2. inFlight'[s] = inFlight[s] - Cardinality(HeavyOf(pending[s]))
      BY DEF TypeOK
    <2>3. inFlight'[s] = 0
      BY <2>1, <2>2
    <2> QED
      BY <2>3 DEF TypeOK
  <1>2. PendingFinite'
    BY <1>1, FS_EmptySet DEF PendingFinite
  <1>3. LimiterExact'
    <2> SUFFICES ASSUME NEW t \in Socket
                 PROVE  /\ inFlight'[t] = Cardinality(HeavyOf(pending'[t]))
                        /\ inFlight'[t] <= Cap
                        /\ queue'[t] # <<>> => inFlight'[t] = Cap
      BY DEF LimiterExact, HeavyOf
    <2>1. /\ inFlight[t] = Cardinality(HeavyOf(pending[t]))
          /\ inFlight[t] <= Cap
          /\ queue[t] # <<>> => inFlight[t] = Cap
      BY DEF LimiterExact
    <2>2. CASE t = s
      <3>1. HeavyOf({}) = {}
        BY DEF HeavyOf
      <3>2. Cardinality({}) = 0
        BY FS_EmptySet
      <3> QED
        <4>1. inFlight'[t] = 0 /\ pending'[t] = {} /\ queue'[t] = <<>>
          BY <2>2, <1>1
        <4>2. Cardinality(HeavyOf(pending'[t])) = 0
          BY <4>1, <3>1, <3>2
        <4> QED
          BY <4>1, <4>2, CapAssumption
    <2>3. CASE t # s
      BY <2>1, <2>3, <1>1
    <2> QED
      BY <2>2, <2>3
  <1>4. TypeOK'
    <2>1. answers' \in [Request -> Seq(Answer)]
      BY DEF Call, TypeOK, Answer
    <2>2. inFlight' \in [Socket -> Nat]
      BY <1>1 DEF TypeOK
    <2>3. queue' \in [Socket -> Seq(Heavy)] /\ pending' \in [Socket -> SUBSET Pair]
      BY DEF TypeOK
    <2> QED
      BY <2>1, <2>2, <2>3 DEF TypeOK, ReadyState
  <1>5. UnusedEmpty'
    BY <1>1 DEF UnusedEmpty, TypeOK
  <1>6. IdsBelow' /\ IdsUnique'
    BY <1>1, NoSocketAssumption DEF IdsBelow, IdsUnique
  <1>7. /\ \A t \in Socket : pending'[t] \subseteq pending[t]
        /\ \A t \in Socket : t # s => queue'[t] = queue[t]
    BY <1>1
  <1>8. HeldOnce'
    BY <1>1, <1>7, HeldOnceShrinks
  <1>9. HeldUnanswered'
    <2> DEFINE failed == {queue[s][i] : i \in 1..Len(queue[s])} \cup {p[2] : p \in pending[s]}
    <2>1. \A r \in failed : r \in submitted
      BY DEF HeldUnanswered
    <2>2. answers' = Call(failed, "error")
      OBVIOUS
    <2>3. \A t \in Socket : t # s => \A q \in pending[t] : q[2] \notin failed
      BY DEF HeldOnce
    <2>4. \A t \in Socket : t # s => \A i \in 1..Len(queue[t]) : queue[t][i] \notin failed
      BY DEF HeldOnce
    <2> HIDE DEF failed
    <2>5. \A r \in Request : r \notin failed => answers'[r] = answers[r]
      BY <2>2 DEF Call
    <2>6. \A t \in Socket : \A q \in pending'[t] :
             q[2] \in submitted' /\ answers'[q[2]] = <<>>
      <3> SUFFICES ASSUME NEW t \in Socket, NEW q \in pending'[t]
                   PROVE  q[2] \in submitted' /\ answers'[q[2]] = <<>>
        OBVIOUS
      <3>1. t # s /\ q \in pending[t]
        BY <1>1
      <3>2. q[2] \in Request /\ q[2] \notin failed
        BY <3>1, <2>3 DEF TypeOK, Pair
      <3> QED
        BY <1>1, <2>5, <3>1, <3>2 DEF HeldUnanswered
    <2>7. \A t \in Socket : \A i \in 1..Len(queue'[t]) :
             queue'[t][i] \in submitted' /\ answers'[queue'[t][i]] = <<>>
      <3> SUFFICES ASSUME NEW t \in Socket, NEW i \in 1..Len(queue'[t])
                   PROVE  queue'[t][i] \in submitted' /\ answers'[queue'[t][i]] = <<>>
        OBVIOUS
      <3>1. t # s /\ i \in 1..Len(queue[t]) /\ queue'[t][i] = queue[t][i]
        <4>1. 1..Len(queue'[s]) = {}
          BY <1>1
        <4>2. t # s
          BY <4>1
        <4> QED
          BY <4>2, <1>7
      <3>2. queue[t][i] \in Request
        BY <3>1, HeavyAssumption DEF TypeOK
      <3> QED
        BY <1>1, <2>4, <2>5, <3>1, <3>2 DEF HeldUnanswered
    <2> QED
      BY <1>1, <2>1, <2>5, <2>6, <2>7 DEF HeldUnanswered
  <1> QED
    BY <1>2, <1>3, <1>4, <1>5, <1>6, <1>8, <1>9

-----------------------------------------------------------------------------
(* Sending. *)

\* A request refused for want of an open socket preserves the invariant.
LEMMA SendRefusedInv ==
  ASSUME IInv, NEW r \in Request, r \notin submitted,
         submitted' = submitted \cup {r}, SendRefused(r)
  PROVE  IInv'
  <1> USE DEF IInv
  <1>1. /\ UNCHANGED <<cur, messageID, readyState, pending, inFlight, queue, wire>>
        /\ answers' = Call({r}, "error")
    BY DEF SendRefused
  <1>2. PendingFinite' /\ LimiterExact' /\ HeldOnce' /\ IdsUnique' /\ IdsBelow' /\ UnusedEmpty'
    BY <1>1 DEF PendingFinite, LimiterExact, HeldOnce, IdsUnique, IdsBelow, UnusedEmpty, HeavyOf
  <1>3. TypeOK'
    BY <1>1 DEF TypeOK, Call, Answer
  <1>4. HeldUnanswered'
    <2>1. \A q \in Request : q # r => answers'[q] = answers[q]
      BY <1>1 DEF Call
    <2>2. \A s \in Socket : \A i \in 1..Len(queue[s]) :
             queue[s][i] # r /\ queue[s][i] \in Request
      BY HeavyAssumption DEF HeldUnanswered, TypeOK
    <2> QED
      BY <1>1, <2>1, <2>2 DEF HeldUnanswered, TypeOK, Pair
  <1> QED
    BY <1>2, <1>3, <1>4

\* A heavy request queued behind a full limiter preserves the invariant.
LEMMA SendQueuedInv ==
  ASSUME IInv, NEW r \in Request, r \notin submitted,
         submitted' = submitted \cup {r}, SendQueued(r)
  PROVE  IInv'
  <1> USE DEF IInv
  <1>1. /\ UNCHANGED <<cur, messageID, readyState, pending, inFlight, wire, answers>>
        /\ queue' = [queue EXCEPT ![cur] = Append(@, r)]
        /\ cur \in Socket /\ readyState[cur] = "open" /\ r \in Heavy /\ inFlight[cur] >= Cap
    BY DEF SendQueued, isOpen, SocketsIn
  <1>2. /\ \A t \in Socket : t # cur => queue'[t] = queue[t]
        /\ queue'[cur] = Append(queue[cur], r)
        /\ queue[cur] \in Seq(Heavy)
    BY <1>1 DEF TypeOK
  <1>3. /\ Len(queue'[cur]) = Len(queue[cur]) + 1
        /\ Len(queue[cur]) \in Nat
        /\ \A i \in 1..Len(queue[cur]) : queue'[cur][i] = queue[cur][i]
        /\ queue'[cur][Len(queue[cur]) + 1] = r
        /\ queue'[cur] \in Seq(Heavy)
    BY <1>1, <1>2, AppendProperties
  <1>4. \A t \in Socket : \A i \in 1..Len(queue'[t]) :
           \/ i \in 1..Len(queue[t]) /\ queue'[t][i] = queue[t][i]
           \/ t = cur /\ i = Len(queue[cur]) + 1 /\ queue'[t][i] = r
    <2> SUFFICES ASSUME NEW t \in Socket, NEW i \in 1..Len(queue'[t])
                 PROVE  \/ i \in 1..Len(queue[t]) /\ queue'[t][i] = queue[t][i]
                        \/ t = cur /\ i = Len(queue[cur]) + 1 /\ queue'[t][i] = r
      OBVIOUS
    <2>1. CASE t = cur
      BY <2>1, <1>3
    <2>2. CASE t # cur
      BY <2>2, <1>2
    <2> QED
      BY <2>1, <2>2
  <1>5. PendingFinite' /\ IdsUnique' /\ IdsBelow'
    BY <1>1 DEF PendingFinite, IdsUnique, IdsBelow
  <1>6. LimiterExact'
    <2>1. inFlight[cur] = Cap
      BY <1>1, CapAssumption DEF LimiterExact, TypeOK
    <2> QED
      BY <1>1, <1>2, <2>1 DEF LimiterExact, HeavyOf
  <1>7. UnusedEmpty'
    BY <1>1, <1>2 DEF UnusedEmpty
  <1>8. TypeOK'
    <2>1. queue' \in [Socket -> Seq(Heavy)]
      BY <1>1, <1>3 DEF TypeOK
    <2> QED
      BY <1>1, <2>1 DEF TypeOK
  <1>9. HeldUnanswered'
    BY <1>1, <1>4 DEF HeldUnanswered, TypeOK
  <1>10. HeldOnce'
    <2>1. \A s \in Socket : \A p \in pending[s] : p[2] # r
      BY DEF HeldUnanswered
    <2>2. \A s \in Socket : \A i \in 1..Len(queue[s]) : queue[s][i] # r
      BY DEF HeldUnanswered
    <2>3. \A t, u \in Socket : \A i \in 1..Len(queue'[t]), j \in 1..Len(queue'[u]) :
             queue'[t][i] = queue'[u][j] => t = u /\ i = j
      <3>1. \A t, u \in Socket : \A i \in 1..Len(queue[t]), j \in 1..Len(queue[u]) :
               queue[t][i] = queue[u][j] => t = u /\ i = j
        BY DEF HeldOnce
      <3> QED
        BY <1>4, <2>2, <3>1
    <2>4. \A t, u \in Socket : \A p \in pending'[t] : \A i \in 1..Len(queue'[u]) :
             p[2] # queue'[u][i]
      BY <1>1, <1>4, <2>1 DEF HeldOnce
    <2> QED
      BY <1>1, <2>3, <2>4 DEF HeldOnce
  <1> QED
    BY <1>5, <1>6, <1>7, <1>8, <1>9, <1>10

\* A request sent at once, under the next id of the slot's socket, preserves the invariant.
LEMMA SendNowInv ==
  ASSUME IInv, NEW r \in Request, r \notin submitted,
         submitted' = submitted \cup {r}, SendNow(r)
  PROVE  IInv'
  <1> DEFINE n == <<messageID, r>>
  <1> USE DEF IInv
  <1>1. /\ UNCHANGED <<cur, readyState, queue, answers>>
        /\ cur \in Socket /\ readyState[cur] = "open"
        /\ r \in Heavy => inFlight[cur] < Cap
        /\ messageID' = messageID + 1
        /\ pending' = [pending EXCEPT ![cur] = @ \cup {n}]
        /\ wire' = [wire EXCEPT ![cur] = @ \cup {n}]
        /\ inFlight' = IF r \in Heavy THEN [inFlight EXCEPT ![cur] = @ + 1] ELSE inFlight
    BY DEF SendNow, isOpen, SocketsIn
  <1>2. n[1] = messageID /\ n[2] = r /\ n \in Pair
    BY DEF Pair, TypeOK
  <1> HIDE DEF n
  <1>3. /\ \A t \in Socket : t # cur => /\ pending'[t] = pending[t]
                                          /\ wire'[t] = wire[t]
                                          /\ inFlight'[t] = inFlight[t]
        /\ pending'[cur] = pending[cur] \cup {n}
        /\ wire'[cur] = wire[cur] \cup {n}
        /\ inFlight'[cur] = IF r \in Heavy THEN inFlight[cur] + 1 ELSE inFlight[cur]
    BY <1>1 DEF TypeOK
  <1>4. \A q \in pending[cur] \cup wire[cur] : q[1] < messageID /\ q[1] \in Nat
    BY <1>1 DEF IdsBelow, TypeOK, Pair
  <1>5. /\ \A s \in Socket : \A q \in pending[s] : q[2] # r
        /\ \A s \in Socket : \A i \in 1..Len(queue[s]) : queue[s][i] # r
    BY DEF HeldUnanswered
  <1>6. n \notin pending[cur]
    BY <1>1, <1>2, <1>5
  <1>7. /\ IsFiniteSet(pending'[cur])
        /\ Cardinality(HeavyOf(pending[cur])) \in Nat
        /\ Cardinality(HeavyOf(pending'[cur])) =
             IF r \in Heavy THEN Cardinality(HeavyOf(pending[cur])) + 1
             ELSE Cardinality(HeavyOf(pending[cur]))
    BY <1>1, <1>2, <1>3, <1>6, HeavyMore DEF PendingFinite
  <1>8. PendingFinite'
    BY <1>3, <1>7 DEF PendingFinite
  <1>9. LimiterExact'
    <2> SUFFICES ASSUME NEW t \in Socket
                 PROVE  /\ inFlight'[t] = Cardinality(HeavyOf(pending'[t]))
                        /\ inFlight'[t] <= Cap
                        /\ queue'[t] # <<>> => inFlight'[t] = Cap
      BY DEF LimiterExact, HeavyOf
    <2>1. /\ inFlight[t] = Cardinality(HeavyOf(pending[t]))
          /\ inFlight[t] <= Cap
          /\ queue[t] # <<>> => inFlight[t] = Cap
      BY DEF LimiterExact
    <2>2. CASE t = cur
      BY <2>1, <2>2, <1>1, <1>3, <1>7, CapAssumption
    <2>3. CASE t # cur
      BY <2>1, <2>3, <1>1, <1>3
    <2> QED
      BY <2>2, <2>3
  <1>10. TypeOK'
    <2>1. messageID' \in Nat /\ inFlight' \in [Socket -> Nat]
      BY <1>1 DEF TypeOK
    <2>2. pending' \in [Socket -> SUBSET Pair] /\ wire' \in [Socket -> SUBSET Pair]
      BY <1>1, <1>2 DEF TypeOK
    <2> QED
      BY <1>1, <2>1, <2>2 DEF TypeOK
  <1>11. UnusedEmpty'
    BY <1>1, <1>3 DEF UnusedEmpty
  <1>12. IdsBelow'
    <2>1. messageID \in Nat
      BY DEF TypeOK
    <2>2. \A q \in pending'[cur] \cup wire'[cur] : q[1] < messageID + 1
      BY <1>2, <1>3, <1>4, <2>1
    <2> QED
      BY <1>1, <2>2 DEF IdsBelow
  <1>13. IdsUnique'
    <2>1. \A q \in pending[cur] \cup wire[cur] : q[1] # n[1]
      BY <1>2, <1>4 DEF TypeOK
    <2> QED
      BY <1>3, <2>1 DEF IdsUnique
  <1>14. HeldUnanswered'
    BY <1>1, <1>2, <1>3 DEF HeldUnanswered, TypeOK
  <1>15. HeldOnce'
    <2>1. \A t \in Socket : \A q \in pending'[t] :
             \/ q \in pending[t]
             \/ t = cur /\ q = n /\ q[2] = r
      BY <1>2, <1>3
    <2>2. \A t, u \in Socket : \A q1 \in pending'[t], q2 \in pending'[u] :
             q1[2] = q2[2] => t = u /\ q1 = q2
      BY <1>5, <2>1 DEF HeldOnce
    <2>3. \A t, u \in Socket : \A q \in pending'[t] : \A i \in 1..Len(queue[u]) :
             q[2] # queue[u][i]
      BY <1>5, <2>1 DEF HeldOnce
    <2> QED
      BY <1>1, <2>2, <2>3 DEF HeldOnce
  <1> QED
    BY <1>8, <1>9, <1>10, <1>11, <1>12, <1>13, <1>14, <1>15

-----------------------------------------------------------------------------
\* A frame calls the callback filed under its own id on its own socket, or touches none:
\* an id stands for one request (IdsUnique), so the callback is the one of that request.
LEMMA OnMessageForms ==
  ASSUME IInv, NEW s \in Socket, NEW f \in wire[s], OnMessage(s, f)
  PROVE  \/ f \in pending[s] /\ f[2] \in Answer /\ Settle(s, f, f[2], wire[s] \ {f})
         \/ /\ wire' = [wire EXCEPT ![s] = @ \ {f}]
            /\ UNCHANGED <<cur, messageID, readyState, pending, inFlight, queue,
                           submitted, answers>>
  <1>1. ASSUME NEW p \in Waiting(s, f[1]) PROVE p = f /\ p \in pending[s]
    BY DEF Waiting, IInv, IdsUnique
  <1>2. f[2] \in Answer
    BY DEF IInv, TypeOK, Pair, Answer
  <1> QED
    BY <1>1, <1>2 DEF OnMessage

\* Every step of the sockets, the callers, the server and the timers preserves the
\* invariant.
LEMMA NextInv ==
  ASSUME IInv, [Next]_vars
  PROVE  IInv'
  <1>1. CASE UNCHANGED vars
    <2>1. UNCHANGED <<cur, messageID, readyState, pending, inFlight, queue, wire,
                      submitted, answers>>
      BY <1>1 DEF vars
    <2>2. TypeOK'
      BY <2>1 DEF IInv, TypeOK
    <2>3. UnusedEmpty' /\ IdsBelow' /\ IdsUnique' /\ HeldUnanswered'
      BY <2>1 DEF IInv, UnusedEmpty, IdsBelow, IdsUnique, HeldUnanswered
    <2> QED
      BY <2>1, <2>2, <2>3 DEF IInv, HeldOnce, PendingFinite, LimiterExact, HeavyOf
  <1>2. ASSUME NEW s \in Socket, Setup(s) \/ OnOpen(s) \/ RemoteClose(s) PROVE IInv'
    BY <1>2, LifecycleInv
  <1>3. CASE Disconnect \/ Subscribe
    BY <1>3, LifecycleInv
  <1>4. ASSUME NEW s \in Socket, OnClose(s) PROVE IInv'
    BY <1>4, OnCloseInv
  <1>5. ASSUME NEW r \in Request, Send(r) PROVE IInv'
    BY <1>5, SendRefusedInv, SendQueuedInv, SendNowInv DEF Send
  <1>6. ASSUME NEW s \in Socket, NEW f \in wire[s], OnMessage(s, f) PROVE IInv'
    <2>1. CASE f \in pending[s] /\ f[2] \in Answer /\ Settle(s, f, f[2], wire[s] \ {f})
      BY <2>1, SettleInv
    <2>2. CASE /\ wire' = [wire EXCEPT ![s] = @ \ {f}]
               /\ UNCHANGED <<cur, messageID, readyState, pending, inFlight, queue,
                              submitted, answers>>
      <3>1. \A t \in Socket : wire'[t] \subseteq wire[t]
        BY <2>2 DEF IInv, TypeOK
      <3>2. TypeOK'
        BY <2>2 DEF IInv, TypeOK
      <3> QED
        BY <2>2, <3>1, <3>2 DEF IInv, UnusedEmpty, IdsBelow, IdsUnique, HeldUnanswered,
                HeldOnce, PendingFinite, LimiterExact, HeavyOf
    <2> QED
      BY <1>6, <2>1, <2>2, OnMessageForms
  <1>7. ASSUME NEW s \in Socket, NEW p \in pending[s], OnTimeout(s, p) PROVE IInv'
    <2>1. "error" \in Answer /\ wire[s] \in SUBSET wire[s] /\ Settle(s, p, "error", wire[s])
      BY <1>7 DEF Answer, OnTimeout
    <2> QED
      BY <2>1, SettleInv
  <1> QED
    BY <1>1, <1>2, <1>3, <1>4, <1>5, <1>6, <1>7 DEF Next

\* The inductive invariant holds in every reachable state, for any requests, sockets and
\* limiter cap.
THEOREM Invariance == Spec => []IInv
  BY InitInv, NextInv, PTL DEF Spec

\* Types hold in every reachable state.
THEOREM TypeCorrect == Spec => []TypeOK
  <1>1. IInv => TypeOK
    BY DEF IInv
  <1> QED
    BY <1>1, Invariance, PTL

\* Whatever replies, timeouts, closes and reconnects do, the heavy counter of a
\* socket is the number of heavy requests waiting on it, at most the cap, and
\* only a full socket has a queue.
THEOREM LimiterIsExact == Spec => []LimiterExact
  <1>1. IInv => LimiterExact
    BY DEF IInv
  <1> QED
    BY <1>1, Invariance, PTL

-----------------------------------------------------------------------------
(* BlockbookSocket implements RequestReply. *)

\* what a step may do to the callbacks
Answers == Promise!Answering

\* Calling callbacks that were not called yet, with an answer that is theirs, is a step of
\* RequestReply.
LEMMA CallAnswers ==
  ASSUME IInv, NEW R, NEW data,
         \A r \in R \cap Request : /\ r \in submitted'
                                   /\ answers[r] = <<>>
                                   /\ data \in {r, "error"},
         answers' = Call(R, data)
  PROVE  Answers
  <1> SUFFICES ASSUME NEW r \in Request
               PROVE  \/ answers'[r] = answers[r]
                      \/ /\ r \in submitted'
                         /\ answers[r] = <<>>
                         /\ answers'[r] \in {<<r>>, <<"error">>}
    BY DEF Answers, Promise!Answering
  <1>1. CASE r \in R
    <2>1. answers'[r] = Append(answers[r], data)
      BY <1>1 DEF Call
    <2>2. Append(<<>>, data) = <<data>>
      OBVIOUS
    <2> QED
      BY <1>1, <2>1, <2>2
  <1>2. CASE r \notin R
    BY <1>2 DEF Call
  <1> QED
    BY <1>1, <1>2

\* Settling a filed callback, with those of the queue it may refuse, is a step of
\* RequestReply.
LEMMA SettleAnswers ==
  ASSUME IInv, NEW s \in Socket, NEW p \in pending[s], NEW data \in {p[2], "error"},
         NEW unanswered, Settle(s, p, data, unanswered)
  PROVE  Answers /\ submitted' = submitted
  <1>1. submitted' = submitted
    BY DEF Settle
  <1>2. p[2] \in submitted /\ answers[p[2]] = <<>> /\ p[2] \in Request
    BY DEF IInv, HeldUnanswered, TypeOK, Pair
  <1>3. CASE Plain(s, p, data, unanswered) \/ Handover(s, p, data, unanswered)
    <2>1. answers' = Call({p[2]}, data)
      BY <1>3 DEF Plain, Handover
    <2> QED
      BY <1>1, <1>2, <2>1, CallAnswers
  <1>4. CASE Refusal(s, p, data, unanswered)
    <2>1. answers' = [r \in Request |->
                     IF r = p[2] THEN Append(answers[r], data)
                     ELSE IF r \in Queued(s) THEN Append(answers[r], "error")
                     ELSE answers[r]]
      BY <1>4 DEF Refusal
    <2>2. \A r \in Queued(s) : r \in submitted /\ answers[r] = <<>>
      BY DEF IInv, HeldUnanswered, Queued
    <2>3. ASSUME NEW r \in Request
          PROVE  \/ answers'[r] = answers[r]
                 \/ /\ r \in submitted'
                    /\ answers[r] = <<>>
                    /\ answers'[r] \in {<<r>>, <<"error">>}
      <3>1. \A d : Append(<<>>, d) = <<d>>
        OBVIOUS
      <3> QED
        BY <1>1, <1>2, <2>1, <2>2, <3>1
    <2> QED
      BY <1>1, <2>3 DEF Answers, Promise!Answering
  <1> QED
    BY <1>1, <1>3, <1>4, SettleForms

\* Every step of the sockets is a step of RequestReply or leaves it unchanged.
LEMMA StepAnswers ==
  ASSUME IInv, Next
  PROVE  Answers /\ submitted \subseteq submitted' /\ submitted' \subseteq Request
  <1>0. submitted \subseteq Request
    BY DEF IInv, TypeOK
  <1>1. ASSUME answers' = answers PROVE Answers
    BY <1>1 DEF Answers, Promise!Answering
  <1>2. CASE \/ \E s \in Socket : Setup(s) \/ OnOpen(s) \/ RemoteClose(s)
             \/ Disconnect \/ Subscribe
    <2>1. UNCHANGED <<submitted, answers>>
      BY <1>2 DEF Setup, OnOpen, RemoteClose, Disconnect, Subscribe
    <2> QED
      BY <1>0, <1>1, <2>1
  <1>3. ASSUME NEW s \in Socket, OnClose(s) PROVE Answers /\ submitted' = submitted
    <2> DEFINE failed == {queue[s][i] : i \in 1..Len(queue[s])} \cup {p[2] : p \in pending[s]}
    <2>1. \A r \in failed : r \in submitted /\ answers[r] = <<>>
      BY DEF IInv, HeldUnanswered
    <2>2. answers' = Call(failed, "error") /\ submitted' = submitted
      BY <1>3 DEF OnClose
    <2> HIDE DEF failed
    <2> QED
      BY <2>1, <2>2, CallAnswers
  <1>4. ASSUME NEW r \in Request, Send(r)
        PROVE  Answers /\ submitted' = submitted \cup {r}
    <2>1. submitted' = submitted \cup {r} /\ answers[r] = <<>>
      BY <1>4 DEF Send, IInv, HeldUnanswered
    <2>2. CASE answers' = answers
      BY <1>1, <2>1, <2>2
    <2>3. CASE answers' = Call({r}, "error")
      BY <2>1, <2>3, CallAnswers
    <2> QED
      BY <1>4, <2>1, <2>2, <2>3 DEF Send, SendRefused, SendQueued, SendNow
  <1>5. ASSUME NEW s \in Socket, NEW f \in wire[s], OnMessage(s, f)
        PROVE  Answers /\ submitted' = submitted
    <2>1. CASE f \in pending[s] /\ Settle(s, f, f[2], wire[s] \ {f})
      BY <2>1, SettleAnswers
    <2>2. CASE UNCHANGED <<submitted, answers>>
      BY <1>1, <2>2
    <2> QED
      BY <1>5, <2>1, <2>2, OnMessageForms
  <1>6. ASSUME NEW s \in Socket, NEW p \in pending[s], OnTimeout(s, p)
        PROVE  Answers /\ submitted' = submitted
    BY <1>6, SettleAnswers DEF OnTimeout
  <1> QED
    BY <1>0, <1>2, <1>3, <1>4, <1>5, <1>6 DEF Next

\* Each callback is called at most once, after its request was made, with the reply to
\* that request or an error: the sockets implement RequestReply.
THEOREM Implements == Spec => Contract
  <1>1. Init => Promise!Init
    BY DEF Init, Promise!Init
  <1>2. ASSUME IInv, IInv', [Next]_vars PROVE [Promise!Next]_(Promise!vars)
    <2>1. CASE Next
      <3>1. DOMAIN answers' = Request
        BY <1>2 DEF IInv, TypeOK
      <3> QED
        BY <1>2, <2>1, <3>1, StepAnswers DEF Answers, Promise!Next
    <2>2. CASE UNCHANGED vars
      BY <2>2 DEF vars, Promise!vars
    <2> QED
      BY <1>2, <2>1, <2>2
  <1> QED
    BY <1>1, <1>2, Invariance, PTL DEF Spec, Contract, Promise!Spec

-----------------------------------------------------------------------------
(* Nobody is forgotten, and the order of what is sent. *)

\* some socket holds the request, in its pending map or in its queue
Held(r) == \E s \in Socket : r \in Queued(s) \/ \E p \in pending[s] : p[2] = r

\* Whoever waits is held: NoneForgotten but for the state of the socket, which UnusedEmpty gives.
WaitersHeld == \A r \in submitted : answers[r] = <<>> => Held(r)

\* Settling a callback answers it, and with it those of the queue that are neither sent nor left in it.
LEMMA SettleHolds ==
  ASSUME IInv, NEW s \in Socket, NEW p \in pending[s], NEW data \in Answer, NEW unanswered,
         Settle(s, p, data, unanswered), WaitersHeld
  PROVE  WaitersHeld'
  <1>1. submitted' = submitted /\ submitted \subseteq Request /\ p[2] \in Request
    BY DEF Settle, IInv, TypeOK, Pair
  <1>2. answers \in [Request -> Seq(Answer)] /\ pending \in [Socket -> SUBSET Pair] /\ queue \in [Socket -> Seq(Heavy)]
    BY DEF IInv, TypeOK
  <1>3. \A seq \in Seq(Answer) : Append(seq, data) # <<>>
    <2>1. \A seq \in Seq(Answer) : Append(seq, data) \in Seq(Answer) /\ Len(Append(seq, data)) = Len(seq) + 1
      BY AppendProperties
    <2>2. \A seq \in Seq(Answer) : Len(seq) \in Nat
      OBVIOUS
    <2> QED
      BY <2>1, <2>2
  <1>4. SUFFICES ASSUME NEW r \in submitted, answers'[r] = <<>>
                 PROVE  Held(r)'
    BY <1>1 DEF WaitersHeld
  <1>5. CASE Plain(s, p, data, unanswered)
    <2>1. answers'[r] = answers[r] /\ r # p[2]
      BY <1>1, <1>2, <1>3, <1>4, <1>5 DEF Plain, Call
    <2>2. Held(r)
      BY <1>4, <2>1 DEF WaitersHeld
    <2>3. queue' = queue /\ \A t \in Socket : \A q \in pending[t] : q # p => q \in pending'[t]
      BY <1>2, <1>5 DEF Plain
    <2> QED
      BY <2>1, <2>2, <2>3 DEF Held, Queued
  <1>6. CASE Handover(s, p, data, unanswered)
    <2> DEFINE n == <<messageID, Head(queue[s])>>
    <2>1. answers'[r] = answers[r] /\ r # p[2]
      BY <1>1, <1>2, <1>3, <1>4, <1>6 DEF Handover, Call
    <2>2. Held(r)
      BY <1>4, <2>1 DEF WaitersHeld
    <2>3. /\ \A t \in Socket : \A q \in pending[t] : q # p => q \in pending'[t]
          /\ n \in pending'[s] /\ n[2] = queue[s][1]
          /\ \A t \in Socket : t # s => queue'[t] = queue[t]
          /\ queue'[s] = Tail(queue[s]) /\ queue[s] # <<>> /\ queue[s] \in Seq(Heavy)
      BY <1>2, <1>6 DEF Handover
    <2>4. \A i \in 1..Len(queue[s]) : i = 1 \/ (i - 1 \in 1..Len(queue'[s]) /\ queue'[s][i - 1] = queue[s][i])
      BY <2>3
    <2>5. CASE \E t \in Socket : \E q \in pending[t] : q[2] = r
      BY <2>1, <2>3, <2>5 DEF Held
    <2>6. CASE \E t \in Socket : t # s /\ r \in Queued(t)
      BY <2>3, <2>6 DEF Held, Queued
    <2>7. CASE r \in Queued(s)
      <3>1. PICK i \in 1..Len(queue[s]) : queue[s][i] = r
        BY <2>7 DEF Queued
      <3>2. i = 1 => \E q \in pending'[s] : q[2] = r
        BY <2>3, <3>1
      <3>3. i # 1 => r \in Queued(s)'
        BY <2>4, <3>1 DEF Queued
      <3> QED
        BY <3>2, <3>3 DEF Held
    <2> QED
      BY <2>2, <2>5, <2>6, <2>7 DEF Held
  <1>7. CASE Refusal(s, p, data, unanswered)
    <2>0. \A seq \in Seq(Answer) : Append(seq, "error") # <<>>
      BY DEF Answer
    <2>1. answers'[r] = answers[r] /\ r # p[2] /\ r \notin Queued(s)
      BY <1>1, <1>2, <1>3, <1>4, <1>7, <2>0 DEF Refusal
    <2>2. Held(r)
      BY <1>4, <2>1 DEF WaitersHeld
    <2>3. /\ \A t \in Socket : t # s => queue'[t] = queue[t]
          /\ \A t \in Socket : \A q \in pending[t] : q # p => q \in pending'[t]
      BY <1>2, <1>7 DEF Refusal
    <2> QED
      BY <2>1, <2>2, <2>3 DEF Held, Queued
  <1> QED
    BY <1>5, <1>6, <1>7, SettleForms

\* Whatever happens, a request is answered when the last to hold it lets it go.
LEMMA StepHolds ==
  ASSUME IInv, [Next]_vars, WaitersHeld
  PROVE  WaitersHeld'
  <1> USE DEF WaitersHeld
  <1>0. answers \in [Request -> Seq(Answer)] /\ pending \in [Socket -> SUBSET Pair]
        /\ queue \in [Socket -> Seq(Heavy)] /\ submitted \subseteq Request
    BY DEF IInv, TypeOK
  <1>1. CASE UNCHANGED <<pending, queue, submitted, answers>>
    BY <1>1 DEF Held, Queued
  <1>2. ASSUME NEW s \in Socket, Setup(s) PROVE WaitersHeld'
    <2>1. pending' = pending
      BY <1>0, <1>2 DEF Setup, IInv, UnusedEmpty
    <2> QED
      BY <1>2, <2>1, <1>1 DEF Setup
  <1>3. ASSUME NEW s \in Socket, OnClose(s) PROVE WaitersHeld'
    <2> DEFINE failed == {queue[s][i] : i \in 1..Len(queue[s])} \cup {p[2] : p \in pending[s]}
    <2>1. /\ answers' = Call(failed, "error") /\ submitted' = submitted
          /\ \A t \in Socket : t # s => queue'[t] = queue[t] /\ pending'[t] = pending[t]
      BY <1>0, <1>3 DEF OnClose
    <2>2. SUFFICES ASSUME NEW r \in submitted, answers'[r] = <<>>
                   PROVE  Held(r)'
      BY <2>1
    <2>3. \A seq \in Seq(Answer) : Append(seq, "error") # <<>>
      OBVIOUS
    <2> HIDE DEF failed
    <2>4. answers[r] = <<>> /\ r \notin failed
      BY <1>0, <2>1, <2>2, <2>3 DEF Call
    <2>5. r \notin Queued(s) /\ \A p \in pending[s] : p[2] # r
      BY <2>4 DEF failed, Queued
    <2> QED
      BY <2>1, <2>4, <2>5 DEF Held, Queued
  <1>4. ASSUME NEW r \in Request, Send(r) PROVE WaitersHeld'
    <2>1. submitted' = submitted \cup {r}
      BY <1>4 DEF Send
    <2>2. CASE SendRefused(r)
      <3>1. answers' = Call({r}, "error") /\ UNCHANGED <<pending, queue>>
        BY <2>2 DEF SendRefused
      <3>2. \A seq \in Seq(Answer) : Append(seq, "error") # <<>>
        OBVIOUS
      <3>3. \A q \in submitted' : answers'[q] = <<>> => q \in submitted /\ answers[q] = <<>>
        BY <1>0, <2>1, <3>1, <3>2 DEF Call
      <3> QED
        BY <3>1, <3>3 DEF Held, Queued
    <2>3. CASE SendQueued(r)
      <3>1. cur \in Socket /\ queue' = [queue EXCEPT ![cur] = Append(@, r)] /\ UNCHANGED <<pending, answers>> /\ r \in Heavy
        BY <2>3 DEF SendQueued, isOpen, SocketsIn
      <3>2. /\ \A t \in Socket : t # cur => queue'[t] = queue[t]
            /\ queue'[cur] = Append(queue[cur], r) /\ queue[cur] \in Seq(Heavy)
        BY <1>0, <3>1
      <3>3. /\ Len(queue'[cur]) \in 1..Len(queue'[cur]) /\ queue'[cur][Len(queue'[cur])] = r
            /\ \A i \in 1..Len(queue[cur]) : i \in 1..Len(queue'[cur]) /\ queue'[cur][i] = queue[cur][i]
        BY <3>1, <3>2
      <3>4. Held(r)'
        BY <3>1, <3>3 DEF Held, Queued
      <3>5. \A t \in Socket : Queued(t) \subseteq Queued(t)'
        BY <3>2, <3>3 DEF Queued
      <3>6. \A q \in submitted : Held(q) => Held(q)'
        BY <3>1, <3>5 DEF Held
      <3> QED
        BY <2>1, <3>1, <3>4, <3>6
    <2>4. CASE SendNow(r)
      <3>1. /\ cur \in Socket /\ UNCHANGED <<queue, answers>>
            /\ pending' = [pending EXCEPT ![cur] = @ \cup {<<messageID, r>>}]
        BY <2>4 DEF SendNow, isOpen, SocketsIn
      <3>2. <<messageID, r>> \in pending'[cur] /\ <<messageID, r>>[2] = r
        BY <1>0, <3>1
      <3>3. \A t \in Socket : pending[t] \subseteq pending'[t]
        BY <1>0, <3>1
      <3> QED
        BY <2>1, <3>1, <3>2, <3>3 DEF Held, Queued
    <2> QED
      BY <1>4, <2>2, <2>3, <2>4 DEF Send
  <1>5. ASSUME NEW s \in Socket, NEW f \in wire[s], OnMessage(s, f) PROVE WaitersHeld'
    BY <1>1, <1>5, OnMessageForms, SettleHolds
  <1>6. ASSUME NEW s \in Socket, NEW p \in pending[s], OnTimeout(s, p) PROVE WaitersHeld'
    BY <1>6, SettleHolds DEF OnTimeout, Answer
  <1>7. (Disconnect \/ Subscribe \/ \E s \in Socket : OnOpen(s) \/ RemoteClose(s)) \/ UNCHANGED vars
           => UNCHANGED <<pending, queue, submitted, answers>>
    BY DEF Disconnect, Subscribe, OnOpen, RemoteClose, vars
  <1> QED
    BY <1>1, <1>2, <1>3, <1>4, <1>5, <1>6, <1>7 DEF Next

\* A request that has no answer yet is held by a socket whose close event is to come:
\* closing, replacing or draining a socket forgets nobody.
THEOREM NobodyForgotten == Spec => []NoneForgotten
  <1>1. Init => WaitersHeld
    BY DEF Init, WaitersHeld
  <1>2. IInv /\ WaitersHeld => NoneForgotten
    <2> SUFFICES ASSUME IInv, WaitersHeld, NEW r \in submitted, answers[r] = <<>>
                 PROVE  \E s \in Socket : /\ readyState[s] # "closed"
                                          /\ r \in Queued(s) \/ \E p \in pending[s] : p[2] = r
      BY DEF NoneForgotten
    <2>1. PICK s \in Socket : r \in Queued(s) \/ \E p \in pending[s] : p[2] = r
      BY DEF WaitersHeld, Held
    <2>2. readyState[s] # "closed"
      <3>1. queue[s] = <<>> => Queued(s) = {}
        BY DEF Queued
      <3> QED
        BY <2>1, <3>1 DEF IInv, UnusedEmpty
    <2> QED
      BY <2>1, <2>2
  <1> QED
    BY <1>1, <1>2, StepHolds, Invariance, PTL DEF Spec

\* What a step puts on a wire: a request sent at once, which found a slot if it is heavy, or
\* the head of the queue as it takes the slot of a request that is settled.
LEMMA StepSends ==
  ASSUME IInv, [Next]_vars, NEW s \in Socket, NEW p \in wire'[s] \ wire[s]
  PROVE  /\ Live(s)
         /\ p[2] \in Heavy /\ queue[s] # <<>> => p[2] = Head(queue[s])
  <1>0. wire \in [Socket -> SUBSET Pair] /\ queue \in [Socket -> Seq(Heavy)]
    BY DEF IInv, TypeOK
  <1>1. CASE UNCHANGED wire
    BY <1>1
  <1>2. ASSUME NEW r \in Request, SendNow(r)
        PROVE  Live(s) /\ (p[2] \in Heavy /\ queue[s] # <<>> => p[2] = Head(queue[s]))
    <2>1. cur \in Socket /\ readyState[cur] = "open" /\ wire' = [wire EXCEPT ![cur] = @ \cup {<<messageID, r>>}]
      BY <1>2 DEF SendNow, isOpen, SocketsIn
    <2>2. s = cur /\ p = <<messageID, r>>
      BY <1>0, <2>1
    <2>3. r \in Heavy => queue[s] = <<>>
      <3>1. r \in Heavy => inFlight[s] < Cap
        BY <1>2, <2>2 DEF SendNow
      <3>2. queue[s] # <<>> => inFlight[s] = Cap
        BY DEF IInv, LimiterExact
      <3>3. ~(Cap < Cap)
        BY CapAssumption
      <3> QED
        BY <3>1, <3>2, <3>3
    <2> QED
      BY <2>1, <2>2, <2>3 DEF Live
  <1>3. ASSUME NEW t \in Socket, NEW q \in pending[t], NEW data, NEW unanswered \in SUBSET wire[t],
               Settle(t, q, data, unanswered)
        PROVE  Live(s) /\ (p[2] \in Heavy /\ queue[s] # <<>> => p[2] = Head(queue[s]))
    <2>1. CASE Plain(t, q, data, unanswered) \/ Refusal(t, q, data, unanswered)
      BY <1>0, <2>1 DEF Plain, Refusal
    <2>2. CASE Handover(t, q, data, unanswered)
      <3> DEFINE n == <<messageID, Head(queue[t])>>
      <3>1. wire' = [wire EXCEPT ![t] = unanswered \cup {n}] /\ Live(t)
        BY <2>2 DEF Handover
      <3>2. s = t /\ p = n
        BY <1>0, <1>3, <3>1
      <3> QED
        BY <3>1, <3>2
    <2> QED
      BY <1>3, <2>1, <2>2, SettleForms
  <1>4. ASSUME NEW t \in Socket, NEW f \in wire[t], OnMessage(t, f)
        PROVE  Live(s) /\ (p[2] \in Heavy /\ queue[s] # <<>> => p[2] = Head(queue[s]))
    <2>1. CASE wire' = [wire EXCEPT ![t] = @ \ {f}]
      BY <1>0, <2>1
    <2>2. CASE f \in pending[t] /\ Settle(t, f, f[2], wire[t] \ {f})
      <3>1. wire[t] \ {f} \in SUBSET wire[t]
        OBVIOUS
      <3> QED
        BY <1>3, <2>2, <3>1
    <2> QED
      BY <1>4, <2>1, <2>2, OnMessageForms
  <1>5. ASSUME NEW t \in Socket, NEW q \in pending[t], OnTimeout(t, q)
        PROVE  Live(s) /\ (p[2] \in Heavy /\ queue[s] # <<>> => p[2] = Head(queue[s]))
    <2>1. wire[t] \in SUBSET wire[t] /\ Settle(t, q, "error", wire[t])
      BY <1>5 DEF OnTimeout
    <2> QED
      BY <1>3, <2>1
  <1>6. ASSUME NEW r \in Request, Send(r)
        PROVE  Live(s) /\ (p[2] \in Heavy /\ queue[s] # <<>> => p[2] = Head(queue[s]))
    BY <1>1, <1>2, <1>6 DEF Send, SendRefused, SendQueued
  <1>7. (Disconnect \/ Subscribe \/ \E t \in Socket : Setup(t) \/ OnOpen(t) \/ RemoteClose(t) \/ OnClose(t))
        \/ UNCHANGED vars => UNCHANGED wire
    BY DEF Disconnect, Subscribe, Setup, OnOpen, RemoteClose, OnClose, vars
  <1> QED
    BY <1>1, <1>4, <1>5, <1>6, <1>7 DEF Next

\* A request goes out only on the socket in the slot, and open: a freed slot of a closing or
\* replaced socket never sends what was queued on it.
THEOREM SendsOnLiveSocket == Spec => SentOnLiveSocket
  <1>1. IInv /\ [Next]_vars =>
          [\A s \in Socket : wire'[s] \subseteq wire[s] \/ (cur = s /\ readyState[s] = "open")]_vars
    BY StepSends DEF Live
  <1> QED
    BY <1>1, Invariance, PTL DEF Spec, SentOnLiveSocket

\* A heavy request goes out only when nothing queued before it stays queued: it found a
\* free slot, and so an empty queue, or it is the head of the queue.
THEOREM NobodyOvertakes == Spec => NoOvertaking
  <1>1. ASSUME IInv, [Next]_vars, NEW s \in Socket, NEW p \in HeavyOf(wire'[s] \ wire[s]),
               NEW i \in 1..Len(queue[s]), \A j \in 1..i : queue[s][j] # p[2]
        PROVE  queue[s][i] \notin Queued(s)'
    <2>1. p \in wire'[s] \ wire[s] /\ p[2] \in Heavy
      BY DEF HeavyOf
    <2>2. queue[s] # <<>> /\ Head(queue[s]) = queue[s][1] /\ 1 \in 1..i
      BY DEF IInv, TypeOK
    <2> QED
      BY <1>1, <2>1, <2>2, StepSends
  <1>2. IInv /\ [Next]_vars =>
          [\A s \in Socket : \A p \in HeavyOf(wire'[s] \ wire[s]) :
             \A i \in 1..Len(queue[s]) :
                (\A j \in 1..i : queue[s][j] # p[2]) => queue[s][i] \notin Queued(s)']_vars
    BY <1>1
  <1> QED
    BY <1>2, Invariance, PTL DEF Spec, NoOvertaking
=============================================================================
