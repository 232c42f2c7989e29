-------------------------- MODULE UtxoSpend_proofs --------------------------
(***************************************************************************)
(* For any coins, requests, rates and number of sends: a claim spends only *)
(* what it was for, and success is told only of what the network has taken *)
(* (IInv); what is made, guarded, posted and taken pays exactly what it    *)
(* should and is found again by the scan (JInv, which takes sums over sets *)
(* and sequences); and the marks of addresses tell the PROTECT_OP coins of *)
(* every view they are taken with, so payments leave them alone and what   *)
(* is posted is taken (MInv, which rests on the other two).                *)
(***************************************************************************)
EXTENDS UtxoSpend, FiniteSetTheorems, TLAPS

Before == {"idle", "mtp", "fee"}

Shaped ==
    /\ DOMAIN st = Send
    /\ DOMAIN work = Send
    /\ \A s \in Send : /\ DOMAIN st[s] = DOMAIN Idle
                       /\ DOMAIN st[s].q = DOMAIN Idle.q

\* Before its transaction is made a send has none, and the worker nothing to do.
NoneYet == \A s \in Send : st[s].pc \in Before => st[s].tx = NoTx /\ work[s] = "none"

\* A send whose fee is awaited names the coins it claims, if it claims any.
ClaimNamed ==
    \A s \in Send : st[s].pc = "fee" =>
        IF st[s].q.claims THEN st[s].q.claim # {} ELSE st[s].q.claim = {}

\* Only a claim waits for the median time past.
ClaimWaits == \A s \in Send : st[s].pc = "mtp" => st[s].q.claims

\* What the worker has had an answer for the network has taken.
SentIsTaken == \A s \in Send : work[s] = "sent" => st[s].tx \in accepted

\* A claim spends only the coins it is for.
ClaimKept ==
    \A s \in Send : st[s].tx # NoTx /\ st[s].q.claims => \A c \in st[s].tx.ins : c.id \in st[s].q.claim

IInv == Shaped /\ NoneYet /\ ClaimNamed /\ ClaimWaits /\ SentIsTaken /\ ToldTruth /\ ClaimKept

\* A step of other actors leaves a send as it is, or answers it.
LEMMA Answered ==
    ASSUME Shaped, NEW s \in Send, NEW how, Answer(s, how)
    PROVE  /\ DOMAIN st' = Send
           /\ \A t \in Send : \/ st'[t] = st[t]
                              \/ /\ st[t].pc = "push" /\ st[t].tx = st[s].tx
                                 /\ st'[t] = [st[t] EXCEPT !.pc = how]
  BY DEF Answer, Shaped

\* What an answer leaves alone, and that success is told only of what has been taken.
LEMMA AnswerKeeps ==
    ASSUME IInv, NEW s \in Send, NEW how, Answer(s, how),
           how \notin Before, how = "ok" => st[s].tx \in accepted'
    PROVE  /\ DOMAIN st' = Send
           /\ \A t \in Send : /\ DOMAIN st'[t] = DOMAIN Idle
                              /\ st'[t].q = st[t].q /\ st'[t].tx = st[t].tx
                              /\ st'[t].pc = st[t].pc \/ st'[t].pc = how
                              /\ st'[t].pc # st[t].pc /\ how = "ok" => st[t].tx \in accepted'
<1>1. DOMAIN st' = Send
  BY Answered DEF IInv
<1>2. ASSUME NEW t \in Send
      PROVE  /\ DOMAIN st'[t] = DOMAIN Idle
             /\ st'[t].q = st[t].q /\ st'[t].tx = st[t].tx
             /\ st'[t].pc = st[t].pc \/ st'[t].pc = how
             /\ st'[t].pc # st[t].pc /\ how = "ok" => st[t].tx \in accepted'
  <2>1. DOMAIN st[t] = {"pc", "q", "view", "marks", "tx", "value", "quoted"}
    BY DEF IInv, Shaped, Idle
  <2>2. CASE st'[t] = st[t]
    BY <2>1, <2>2 DEF Idle
  <2>3. CASE st[t].pc = "push" /\ st[t].tx = st[s].tx /\ st'[t] = [st[t] EXCEPT !.pc = how]
    BY <2>1, <2>3 DEF Idle
  <2> QED BY <2>2, <2>3, Answered DEF IInv
<1> QED BY <1>1, <1>2

\* A step of the worker that answers keeps the invariant.
LEMMA AnswerStep ==
    ASSUME IInv, NEW s \in Send, NEW how, Answer(s, how),
           how \notin Before, how = "ok" => st[s].tx \in accepted',
           accepted \subseteq accepted', DOMAIN work' = Send,
           work[s] # "none", \A t \in Send : t # s => work'[t] = work[t],
           work'[s] = "sent" => st[s].tx \in accepted'
    PROVE  IInv'
<1>1. /\ DOMAIN st' = Send
      /\ \A t \in Send : /\ DOMAIN st'[t] = DOMAIN Idle
                         /\ st'[t].q = st[t].q /\ st'[t].tx = st[t].tx
                         /\ st'[t].pc = st[t].pc \/ st'[t].pc = how
                         /\ st'[t].pc # st[t].pc /\ how = "ok" => st[t].tx \in accepted'
  BY AnswerKeeps
<1>2. st[s].pc \notin Before
  BY DEF IInv, NoneYet
<1>3. Shaped'
  BY <1>1 DEF IInv, Shaped
<1>4. NoneYet'
  BY <1>1, <1>2 DEF IInv, NoneYet
<1>5. ClaimNamed'
  BY <1>1 DEF IInv, ClaimNamed, Before
<1>6. ClaimWaits'
  BY <1>1 DEF IInv, ClaimWaits, Before
<1>7. SentIsTaken'
  BY <1>1 DEF IInv, SentIsTaken
<1>8. ToldTruth'
  BY <1>1 DEF IInv, ToldTruth
<1>9. ClaimKept'
  BY <1>1 DEF IInv, ClaimKept
<1> QED BY <1>3, <1>4, <1>5, <1>6, <1>7, <1>8, <1>9 DEF IInv

\* A step of send s alone, before the worker has its transaction: what it must keep.
LEMMA OwnStep ==
    ASSUME IInv, NEW s \in Send, NEW new,
           st' = [st EXCEPT ![s] = new], accepted' = accepted,
           DOMAIN work' = Send, \A t \in Send : t # s => work'[t] = work[t],
           DOMAIN new = DOMAIN Idle, DOMAIN new.q = DOMAIN Idle.q,
           work'[s] # "sent",
           new.pc \in Before => new.tx = NoTx /\ work'[s] = "none",
           new.pc = "fee" => IF new.q.claims THEN new.q.claim # {} ELSE new.q.claim = {},
           new.pc = "mtp" => new.q.claims,
           new.pc = "ok" => new.tx = NoTx,
           new.tx # NoTx /\ new.q.claims => \A c \in new.tx.ins : c.id \in new.q.claim
    PROVE  IInv'
<1>1. /\ DOMAIN st' = Send /\ DOMAIN work' = Send
      /\ st'[s] = new
      /\ \A t \in Send : t # s => st'[t] = st[t] /\ work'[t] = work[t]
  BY DEF IInv, Shaped
<1>2. Shaped'
  BY <1>1 DEF IInv, Shaped
<1>3. NoneYet'
  BY <1>1 DEF IInv, NoneYet
<1>4. ClaimNamed'
  BY <1>1 DEF IInv, ClaimNamed
<1>5. ClaimWaits'
  BY <1>1 DEF IInv, ClaimWaits
<1>6. SentIsTaken'
  BY <1>1 DEF IInv, SentIsTaken
<1>7. ToldTruth'
  BY <1>1 DEF IInv, ToldTruth
<1>8. ClaimKept'
  BY <1>1 DEF IInv, ClaimKept
<1> QED BY <1>2, <1>3, <1>4, <1>5, <1>6, <1>7, <1>8 DEF IInv

\* A call begins.
LEMMA StartStep ==
    ASSUME IInv, NEW s \in Send, NEW r, Start(s, r)
    PROVE  IInv'
<1> DEFINE pc == IF r.claims THEN "mtp" ELSE "fee"
           new == [Idle EXCEPT !.pc = pc, !.q = Asked(r, {}, r.value), !.view = listed,
                                !.marks = Marks]
<1>1. st[s].pc = "idle" /\ st' = [st EXCEPT ![s] = new] /\ UNCHANGED <<work, accepted>>
  BY DEF Start, Network
<1>2. work'[s] = "none" /\ DOMAIN work' = Send /\ \A t \in Send : t # s => work'[t] = work[t]
  BY <1>1 DEF IInv, NoneYet, Shaped, Before
<1>3. new.pc = pc /\ new.q = Asked(r, {}, r.value) /\ new.tx = NoTx /\ DOMAIN new = DOMAIN Idle
  BY DEF Idle
<1>4. DOMAIN new.q = DOMAIN Idle.q /\ new.q.claims = r.claims /\ new.q.claim = {}
  BY <1>3 DEF Idle, Asked
<1>5. pc # "ok" /\ (pc = "fee" => ~r.claims) /\ (pc = "mtp" => r.claims)
  OBVIOUS
<1> HIDE DEF new, pc
<1>6. new.pc = "fee" => IF new.q.claims THEN new.q.claim # {} ELSE new.q.claim = {}
  BY <1>3, <1>4, <1>5
<1>7. accepted' = accepted /\ new.pc # "ok" /\ (new.pc = "mtp" => new.q.claims)
  BY <1>1, <1>3, <1>4, <1>5
<1> QED BY OwnStep, <1>1, <1>2, <1>3, <1>4, <1>6, <1>7

\* The wait for the median time past is over.
LEMMA TimePastStep ==
    ASSUME IInv, NEW s \in Send, TimePast(s)
    PROVE  IInv'
<1>1. st[s].pc = "mtp" /\ UNCHANGED <<work, accepted>>
  BY DEF TimePast, Network
<1> DEFINE Named(C) == {c.id : c \in C}
           New(C) == IF C = {} THEN [st[s] EXCEPT !.pc = "ok"]
                     ELSE [st[s] EXCEPT !.pc = "fee", !.view = listed, !.marks = Marks,
                                        !.q = Asked(st[s].q, Named(C), Total(C))]
<1>2. PICK claim : st' = [st EXCEPT ![s] = New(claim)]
  BY Zenon DEF TimePast
<1> DEFINE q == Asked(st[s].q, Named(claim), Total(claim))
           new == New(claim)
<1>3. st' = [st EXCEPT ![s] = new]
  BY <1>2
<1>4. work'[s] = "none" /\ DOMAIN work' = Send /\ \A t \in Send : t # s => work'[t] = work[t]
  BY <1>1 DEF IInv, NoneYet, Shaped, Before
<1>5. DOMAIN q = DOMAIN Idle.q /\ q.claims = st[s].q.claims /\ q.claim = Named(claim)
  BY DEF Idle, Asked
<1> HIDE DEF q
<1>6. st[s].tx = NoTx /\ DOMAIN st[s] = DOMAIN Idle /\ DOMAIN st[s].q = DOMAIN Idle.q
  BY <1>1 DEF IInv, NoneYet, Shaped, Before
<1>7. CASE claim = {}
  <2>1. new.pc = "ok" /\ new.q = st[s].q /\ new.tx = st[s].tx /\ DOMAIN new = DOMAIN Idle
    BY <1>6, <1>7 DEF Idle
  <2> HIDE DEF new
  <2> QED BY OwnStep, <1>1, <1>3, <1>4, <1>6, <2>1 DEF Before
<1>8. CASE claim # {}
  <2>1. new.pc = "fee" /\ new.q = q /\ new.tx = st[s].tx /\ DOMAIN new = DOMAIN Idle
    BY <1>6, <1>8 DEF Idle, q
  <2> HIDE DEF new
  <2>2. Named(claim) # {}
    BY <1>8
  <2>3. st[s].q.claims
    BY <1>1 DEF IInv, ClaimWaits
  <2>4. IF new.q.claims THEN new.q.claim # {} ELSE new.q.claim = {}
    BY <1>5, <2>1, <2>2, <2>3
  <2> QED BY OwnStep, <1>1, <1>3, <1>4, <1>5, <1>6, <2>1, <2>4
<1> QED BY <1>7, <1>8

\* How a send ends its wait for the rates: it fails, or makes a transaction of its candidates.
Ends(s, new) ==
    /\ st' = [st EXCEPT ![s] = new]
    /\ DOMAIN new = DOMAIN Idle /\ new.q = st[s].q /\ new.pc \notin Before \cup {"ok"}
    /\ new.tx = NoTx \/ new.tx.ins \subseteq Candidates(st[s].view, st[s].marks, st[s].q)
    /\ DOMAIN work' = Send /\ work'[s] # "sent" /\ \A t \in Send : t # s => work'[t] = work[t]

\* The fee has come: the send ends, or its transaction is made and posted if the guard agrees.
LEMMA QuotedEnds ==
    ASSUME IInv, NEW s \in Send, NEW rate \in Rates, Quoted(s, rate)
    PROVE  \E new : Ends(s, new)
<1> DEFINE q == st[s].q
           C == Candidates(st[s].view, st[s].marks, q)
<1>1. st[s].pc = "fee"
  BY DEF Quoted
<1>2. /\ DOMAIN st = Send /\ DOMAIN work = Send /\ work[s] = "none"
      /\ st[s].tx = NoTx /\ DOMAIN st[s] = DOMAIN Idle
  BY <1>1 DEF IInv, NoneYet, Shaped, Before
<1>3. ASSUME NEW how \in {"none", "builder", "balance"}, Fails(s, how)
      PROVE  \E new : Ends(s, new)
  <2> DEFINE new == [st[s] EXCEPT !.pc = how]
  <2>1. st' = [st EXCEPT ![s] = new] /\ work' = work
    BY <1>3 DEF Fails
  <2>2. new.pc = how /\ new.q = q /\ new.tx = NoTx /\ DOMAIN new = DOMAIN Idle
    BY <1>2 DEF Idle
  <2> HIDE DEF new
  <2>3. Ends(s, new)
    BY <1>2, <2>1, <2>2 DEF Before, Ends
  <2> QED BY <2>3
<1>4. ASSUME NEW value, NEW intended, NEW S \in Selections(C, value + intended),
             LET tx == MakeTx(S, q, q.to, value, intended, q.hours)
                 ok == Guard(tx, q, value, intended)
             IN  /\ st' = [st EXCEPT ![s] = [st[s] EXCEPT !.pc = IF ok THEN "push" ELSE "guard",
                                                          !.tx = tx, !.value = value,
                                                          !.quoted = intended]]
                 /\ IF ok THEN Post(s) ELSE UNCHANGED work
      PROVE  \E new : Ends(s, new)
  <2> DEFINE tx == MakeTx(S, q, q.to, value, intended, q.hours)
             ok == Guard(tx, q, value, intended)
             new == [st[s] EXCEPT !.pc = IF ok THEN "push" ELSE "guard", !.tx = tx,
                                  !.value = value, !.quoted = intended]
  <2>1. st' = [st EXCEPT ![s] = new]
    BY <1>4
  <2>2. tx.ins = S /\ S \subseteq C
    BY DEF MakeTx, Selections
  <2>3. DOMAIN work' = Send /\ work'[s] # "sent" /\ \A t \in Send : t # s => work'[t] = work[t]
    BY <1>2, <1>4 DEF Post
  <2> HIDE DEF tx, ok
  <2>4. new.pc \in {"push", "guard"} /\ new.q = q /\ new.tx = tx /\ DOMAIN new = DOMAIN Idle
    BY <1>2 DEF Idle
  <2> HIDE DEF new
  <2>5. Ends(s, new)
    BY <2>1, <2>2, <2>3, <2>4 DEF Before, Ends
  <2> QED BY <2>5
<1> DEFINE FeeFor(E) == LET est == Estimate(q, E, rate) IN FeeOf(SizeOf(est.ins, est.outs), rate)
           ValueFor(E) == IF q.claims THEN q.value - FeeFor(E) ELSE q.value
           Makes(value, intended) ==
             \E S \in Selections(C, value + intended) :
               LET tx == MakeTx(S, q, q.to, value, intended, q.hours)
                   ok == Guard(tx, q, value, intended)
               IN  /\ st' = [st EXCEPT ![s] = [st[s] EXCEPT !.pc = IF ok THEN "push" ELSE "guard",
                                                            !.tx = tx, !.value = value,
                                                            !.quoted = intended]]
                   /\ IF ok THEN Post(s) ELSE UNCHANGED work
<1>6. ASSUME NEW value, NEW intended, Makes(value, intended)
      PROVE  \E new : Ends(s, new)
  BY <1>4, <1>6
<1> DEFINE Outcome(E) ==
             LET value == ValueFor(E)
                 enough == value \in 0 .. Total(st[s].view) - FeeFor(E)
             IN  \/ ~enough /\ Fails(s, "balance")
                 \/ enough /\ BuilderFails(q, q.to, value, q.hours) /\ Fails(s, "builder")
                 \/ /\ enough /\ ~BuilderFails(q, q.to, value, q.hours)
                    /\ Makes(value, FloorSats(FeeFor(E)))
<1>7. \/ Fails(s, "none")
      \/ Fails(s, "builder")
      \/ \E E \in Selections(C, q.value + rate \div 4) : Outcome(E)
  BY ZenonT(60) DEF Quoted
<1>8. CASE \E E \in Selections(C, q.value + rate \div 4) : Outcome(E)
  <2>1. PICK E \in Selections(C, q.value + rate \div 4) : Outcome(E)
    BY <1>8
  <2>2. Fails(s, "balance") \/ Fails(s, "builder") \/ Makes(ValueFor(E), FloorSats(FeeFor(E)))
    <3> HIDE DEF Makes, FeeFor, ValueFor
    <3> QED BY <2>1, Zenon
  <2> HIDE DEF Makes
  <2> QED BY <1>3, <1>6, <2>2, Zenon
<1> QED BY <1>3, <1>7, <1>8, Zenon

\* However the wait ends, the invariant holds.
LEMMA QuotedStep ==
    ASSUME IInv, NEW s \in Send, NEW rate \in Rates, Quoted(s, rate)
    PROVE  IInv'
<1>1. st[s].pc = "fee" /\ accepted' = accepted
  BY DEF Quoted, Network
<1>2. PICK new : Ends(s, new)
  BY QuotedEnds
<1>3. /\ DOMAIN st[s].q = DOMAIN Idle.q
      /\ st[s].q.claims => st[s].q.claim # {}
  BY <1>1 DEF IInv, Shaped, ClaimNamed
<1>4. new.tx # NoTx /\ new.q.claims => \A c \in new.tx.ins : c.id \in new.q.claim
  BY <1>2, <1>3 DEF Ends, Candidates
<1> QED BY OwnStep, <1>1, <1>2, <1>3, <1>4 DEF Ends, Before

\* The network takes a transaction, and answers or not.
LEMMA TakenStep ==
    ASSUME IInv, NEW s \in Send, NetworkTakes(s)
    PROVE  IInv'
<1>1. work[s] = "posted" /\ accepted' = accepted \cup {st[s].tx}
  BY DEF NetworkTakes
<1>2. CASE work' = [work EXCEPT ![s] = "sent"] /\ UNCHANGED st
  BY <1>1, <1>2 DEF IInv, Shaped, NoneYet, ClaimNamed, ClaimWaits, SentIsTaken, ToldTruth, ClaimKept
<1>3. CASE work' = [work EXCEPT ![s] = "over"] /\ Answer(s, "timeout")
  BY <1>1, <1>3, AnswerStep DEF IInv, Shaped, Before
<1> QED BY <1>2, <1>3 DEF NetworkTakes

\* The network refuses it.
LEMMA RefusedStep ==
    ASSUME IInv, NEW s \in Send, NetworkRefuses(s)
    PROVE  IInv'
<1>1. work[s] = "posted" /\ work' = [work EXCEPT ![s] = "over"] /\ accepted' = accepted
  BY DEF NetworkRefuses, Network
<1>2. Answer(s, "refused")
  BY DEF NetworkRefuses
<1> QED BY <1>1, <1>2, AnswerStep DEF IInv, Shaped, Before

\* What was sent is fetched, or not.
LEMMA FetchedStep ==
    ASSUME IInv, NEW s \in Send, TxFetched(s)
    PROVE  IInv'
<1>1. work[s] = "sent" /\ work' = [work EXCEPT ![s] = "over"] /\ accepted' = accepted
  BY DEF TxFetched, Network
<1>2. st[s].tx \in accepted'
  BY <1>1 DEF IInv, SentIsTaken
<1>3. CASE Answer(s, "ok")
  BY <1>1, <1>2, <1>3, AnswerStep DEF IInv, Shaped, Before
<1>4. CASE Answer(s, "unfetched")
  BY <1>1, <1>4, AnswerStep DEF IInv, Shaped, Before
<1>5. CASE UNCHANGED st
  BY <1>1, <1>5 DEF IInv, Shaped, NoneYet, ClaimNamed, ClaimWaits, SentIsTaken, ToldTruth, ClaimKept
<1> QED BY <1>3, <1>4, <1>5 DEF TxFetched

\* The invariant holds in every reachable state.
THEOREM Invariance == Spec => []IInv
<1>1. Init => IInv
  BY DEF Init, Idle, Asked, NoRequest, IInv, Shaped, NoneYet, ClaimNamed, ClaimWaits, SentIsTaken,
         ToldTruth, ClaimKept, Before
<1>2. IInv /\ [Next]_vars => IInv'
  <2> SUFFICES ASSUME IInv, [Next]_vars PROVE IInv'
    OBVIOUS
  <2>1. ASSUME NEW s \in Send, NEW r \in Request, Start(s, r) PROVE IInv'
    BY <2>1, StartStep
  <2>2. ASSUME NEW s \in Send, TimePast(s) PROVE IInv'
    BY <2>2, TimePastStep
  <2>3. ASSUME NEW s \in Send, NEW rate \in Rates, Quoted(s, rate) PROVE IInv'
    BY <2>3, QuotedStep
  <2>4. ASSUME NEW s \in Send, NetworkTakes(s) PROVE IInv'
    BY <2>4, TakenStep
  <2>5. ASSUME NEW s \in Send, NetworkRefuses(s) PROVE IInv'
    BY <2>5, RefusedStep
  <2>6. ASSUME NEW s \in Send, TxFetched(s) PROVE IInv'
    BY <2>6, FetchedStep
  <2>7. CASE UNCHANGED <<st, work, accepted>>
    BY <2>7 DEF IInv, Shaped, NoneYet, ClaimNamed, ClaimWaits, SentIsTaken, ToldTruth, ClaimKept
  <2>8. ScanNonStdOutputs \/ Refresh \/ Tick \/ UNCHANGED vars => UNCHANGED <<st, work, accepted>>
    BY DEF ScanNonStdOutputs, Refresh, Tick, vars, Network
  <2> QED BY <2>1, <2>2, <2>3, <2>4, <2>5, <2>6, <2>7, <2>8 DEF Next
<1> QED BY <1>1, <1>2, PTL DEF Spec

\* A caller hears of success only for a transaction the network has taken (worker-pushtx.js),
\* though every listener with the same hex takes the first answer.
THEOREM SuccessIsTrue == Spec => []ToldTruth
<1>1. IInv => ToldTruth
  BY DEF IInv
<1> QED BY <1>1, Invariance, PTL
-----------------------------------------------------------------------------
(***************************************************************************)
(* Sums over finite sets: the functions that folds define are those of the *)
(* recursion equation, for any function c that chooses an element of each. *)
(***************************************************************************)
Chooses(c, S) == \A E \in SUBSET S : E # {} => c[E] \in E

SumIs(f, S, v, c) ==
    f = [E \in SUBSET S |-> IF E = {} THEN 0 ELSE v[c[E]] + f[E \ {c[E]}]]

\* The least set of those that have something wrong with them.
LEMMA LeastSet ==
    ASSUME NEW S, IsFiniteSet(S), NEW T, T \subseteq SUBSET S, T # {}
    PROVE  \E D \in T : \A E \in T : ~(E \subseteq D /\ E # D)
<1> DEFINE R == StrictSubsetOrdering(S)
<1>1. IsWellFoundedOn(R, FiniteSubsetsOf(S))
  BY FS_StrictSubsetOrderingWellFounded
<1>2. T \subseteq FiniteSubsetsOf(S)
  BY FS_Subset DEF FiniteSubsetsOf
<1> HIDE DEF R
<1>3. PICK D \in T : \A E \in T : <<E, D>> \notin R
  BY <1>1, <1>2, WFMin
<1>4. ASSUME NEW E \in T, E \subseteq D, E # D PROVE <<E, D>> \in R
  BY <1>4 DEF R, StrictSubsetOrdering
<1>5. \A E \in T : ~(E \subseteq D /\ E # D)
  BY <1>3, <1>4
<1> QED BY <1>5

\* Two such functions agree where both are defined.
LEMMA SumUnique ==
    ASSUME NEW S, IsFiniteSet(S), NEW v, NEW c, Chooses(c, S),
           NEW D \in SUBSET S, NEW E \in SUBSET D, NEW f, NEW g,
           SumIs(f, D, v, c), SumIs(g, E, v, c)
    PROVE  \A X \in SUBSET E : f[X] = g[X]
<1> DEFINE T == {X \in SUBSET E : f[X] # g[X]}
<1> SUFFICES ASSUME T # {} PROVE FALSE
  OBVIOUS
<1>1. T \subseteq SUBSET S
  OBVIOUS
<1>2. PICK X \in T : \A Y \in T : ~(Y \subseteq X /\ Y # X)
  <2> HIDE DEF T
  <2> QED BY <1>1, LeastSet
<1>3. f[X] = IF X = {} THEN 0 ELSE v[c[X]] + f[X \ {c[X]}]
  BY DEF SumIs
<1>4. g[X] = IF X = {} THEN 0 ELSE v[c[X]] + g[X \ {c[X]}]
  BY DEF SumIs
<1>5. X # {} /\ X \in SUBSET E /\ f[X] # g[X]
  BY <1>3, <1>4
<1>6. c[X] \in X
  BY <1>5 DEF Chooses
<1> DEFINE Y == X \ {c[X]}
<1>7. Y \in SUBSET E /\ Y \subseteq X /\ Y # X
  BY <1>5, <1>6
<1>8. f[Y] = g[Y]
  BY <1>2, <1>7
<1> QED BY <1>3, <1>4, <1>5, <1>8

\* There is one.
LEMMA SumExists ==
    ASSUME NEW S, IsFiniteSet(S), NEW v, NEW c, Chooses(c, S)
    PROVE  \E f : SumIs(f, S, v, c)
<1> DEFINE T == {D \in SUBSET S : ~\E f : SumIs(f, D, v, c)}
<1> SUFFICES ASSUME T # {} PROVE FALSE
  OBVIOUS
<1>0. T \subseteq SUBSET S
  OBVIOUS
<1>1. PICK D \in T : \A E \in T : ~(E \subseteq D /\ E # D)
  <2> HIDE DEF T
  <2> QED BY <1>0, LeastSet
<1> DEFINE F(E) == CHOOSE f : SumIs(f, E, v, c)
           h == [E \in SUBSET D |-> IF E = {} THEN 0 ELSE v[c[E]] + F(E \ {c[E]})[E \ {c[E]}]]
<1>2. ASSUME NEW E \in SUBSET D, E # D PROVE SumIs(F(E), E, v, c)
  <2>1. E \notin T /\ E \in SUBSET S
    BY <1>1, <1>2
  <2>2. \E f : SumIs(f, E, v, c)
    BY <2>1
  <2> QED BY <2>2, Zenon
<1> HIDE DEF F
<1>3. ASSUME NEW E \in SUBSET D, E # D PROVE h[E] = F(E)[E]
  <2>1. h[E] = IF E = {} THEN 0 ELSE v[c[E]] + F(E \ {c[E]})[E \ {c[E]}]
    OBVIOUS
  <2>2. F(E)[E] = IF E = {} THEN 0 ELSE v[c[E]] + F(E)[E \ {c[E]}]
    BY <1>2, <1>3 DEF SumIs
  <2>3. CASE E # {}
    <3> DEFINE Y == E \ {c[E]}
    <3>1. c[E] \in E
      BY <2>3 DEF Chooses
    <3>2. Y \in SUBSET E /\ Y \in SUBSET D /\ Y # D
      BY <1>3, <3>1
    <3>3. SumIs(F(E), E, v, c) /\ SumIs(F(Y), Y, v, c)
      BY <1>2, <1>3, <3>2
    <3>4. E \in SUBSET S /\ Y \in SUBSET Y
      OBVIOUS
    <3> HIDE DEF Y
    <3>5. F(E)[Y] = F(Y)[Y]
      <4>1. PICK f, g : f = F(E) /\ g = F(Y)
        OBVIOUS
      <4>2. SumIs(f, E, v, c) /\ SumIs(g, Y, v, c)
        BY <3>3, <4>1
      <4>3. \A X \in SUBSET Y : f[X] = g[X]
        BY <3>2, <3>4, <4>2, SumUnique
      <4> QED BY <3>4, <4>1, <4>3
    <3> QED BY <2>1, <2>2, <3>5 DEF Y
  <2> QED BY <2>1, <2>2, <2>3
<1>4. \A E \in SUBSET D : h[E] = IF E = {} THEN 0 ELSE v[c[E]] + h[E \ {c[E]}]
  <2> SUFFICES ASSUME NEW E \in SUBSET D, E # {}
               PROVE  h[E] = v[c[E]] + h[E \ {c[E]}]
    OBVIOUS
  <2>1. c[E] \in E
    BY DEF Chooses
  <2> DEFINE Y == E \ {c[E]}
  <2>2. Y \in SUBSET D /\ Y # D
    BY <2>1
  <2>3. h[Y] = F(Y)[Y]
    BY <1>3, <2>2
  <2> QED BY <2>3
<1>5. h = [E \in SUBSET D |-> h[E]]
  OBVIOUS
<1> HIDE DEF h
<1>6. h = [E \in SUBSET D |-> IF E = {} THEN 0 ELSE v[c[E]] + h[E \ {c[E]}]]
  BY <1>4, <1>5
<1>7. SumIs(h, D, v, c)
  BY <1>6 DEF SumIs
<1> QED BY <1>7

\* A sum of integers, or of natural numbers, is one.
LEMMA SumType ==
    ASSUME NEW S, IsFiniteSet(S), NEW v, NEW c, Chooses(c, S), NEW f, SumIs(f, S, v, c),
           NEW V \in {Int, Nat}, \A x \in S : v[x] \in V
    PROVE  f[S] \in V
<1> DEFINE T == {X \in SUBSET S : f[X] \notin V}
<1> SUFFICES ASSUME T # {} PROVE FALSE
  OBVIOUS
<1>0. T \subseteq SUBSET S
  OBVIOUS
<1>1. PICK X \in T : \A Y \in T : ~(Y \subseteq X /\ Y # X)
  <2> HIDE DEF T
  <2> QED BY <1>0, LeastSet
<1>2. f[X] = IF X = {} THEN 0 ELSE v[c[X]] + f[X \ {c[X]}]
  BY DEF SumIs
<1>3. X # {}
  BY <1>1, <1>2
<1>4. c[X] \in X
  BY <1>3 DEF Chooses
<1> DEFINE Y == X \ {c[X]}
<1>5. f[Y] \in V
  BY <1>1, <1>4
<1>6. v[c[X]] \in V
  BY <1>4
<1>7. \A a, b \in V : a + b \in V
  OBVIOUS
<1> QED BY <1>2, <1>3, <1>5, <1>6, <1>7

\* The value of finitely many coins is an integer.
LEMMA TotalType ==
    ASSUME NEW C, IsFiniteSet(C), \A x \in C : x.value \in Int
    PROVE  Total(C) \in Int
<1> DEFINE v == [x \in C |-> x.value]
           c == [E \in (SUBSET C) \ {{}} |-> CHOOSE x \in E : TRUE]
           Eq(f) == f = [E \in SUBSET C |-> IF E = {} THEN 0
                          ELSE (CHOOSE x \in E : TRUE).value + f[E \ {CHOOSE x \in E : TRUE}]]
<1>1. Total(C) = (CHOOSE f : Eq(f))[C]
  BY DEF Total, MapThenSumSet, MapThenFoldSet
<1>2. Chooses(c, C)
  BY DEF Chooses
<1>3. ASSUME NEW E \in SUBSET C, E # {}
      PROVE  c[E] = (CHOOSE x \in E : TRUE) /\ v[c[E]] = (CHOOSE x \in E : TRUE).value
  BY <1>3
<1> HIDE DEF v, c
<1>4. ASSUME NEW f PROVE SumIs(f, C, v, c) <=> Eq(f)
  <2>1. [E \in SUBSET C |-> IF E = {} THEN 0 ELSE v[c[E]] + f[E \ {c[E]}]]
        = [E \in SUBSET C |-> IF E = {} THEN 0
             ELSE (CHOOSE x \in E : TRUE).value + f[E \ {CHOOSE x \in E : TRUE}]]
    BY <1>3
  <2> QED BY <2>1 DEF SumIs
<1> HIDE DEF Eq
<1>5. \E f : Eq(f)
  BY <1>2, <1>4, SumExists
<1>6. PICK f : f = (CHOOSE g : Eq(g)) /\ Eq(f)
  BY <1>5
<1>7. SumIs(f, C, v, c)
  BY <1>4, <1>6
<1>8. \A x \in C : v[x] \in Int
  BY DEF v
<1>9. f[C] \in Int
  BY <1>2, <1>7, <1>8, SumType
<1> QED BY <1>1, <1>6, <1>9

\* The same of the sizes of inputs.
LEMMA InSizesType ==
    ASSUME NEW C, IsFiniteSet(C)
    PROVE  MapThenSumSet(LAMBDA x : IF Standard(x) THEN InSize ELSE ProtectedInSize, C) \in Nat
<1> DEFINE size(x) == IF Standard(x) THEN InSize ELSE ProtectedInSize
           v == [x \in C |-> size(x)]
           c == [E \in (SUBSET C) \ {{}} |-> CHOOSE x \in E : TRUE]
           Eq(f) == f = [E \in SUBSET C |-> IF E = {} THEN 0
                          ELSE size(CHOOSE x \in E : TRUE) + f[E \ {CHOOSE x \in E : TRUE}]]
<1>1. MapThenSumSet(LAMBDA x : size(x), C) = (CHOOSE f : Eq(f))[C]
  BY DEF MapThenSumSet, MapThenFoldSet
<1>2. Chooses(c, C)
  BY DEF Chooses
<1>8. \A x \in C : v[x] \in Nat
  BY DEF InSize, ProtectedInSize
<1>3. ASSUME NEW E \in SUBSET C, E # {}
      PROVE  c[E] = (CHOOSE x \in E : TRUE) /\ v[c[E]] = size(CHOOSE x \in E : TRUE)
  BY <1>3
<1> HIDE DEF v, c, size
<1>4. ASSUME NEW f PROVE SumIs(f, C, v, c) <=> Eq(f)
  <2>1. [E \in SUBSET C |-> IF E = {} THEN 0 ELSE v[c[E]] + f[E \ {c[E]}]]
        = [E \in SUBSET C |-> IF E = {} THEN 0
             ELSE size(CHOOSE x \in E : TRUE) + f[E \ {CHOOSE x \in E : TRUE}]]
    BY <1>3
  <2> QED BY <2>1 DEF SumIs
<1> HIDE DEF Eq
<1>5. \E f : Eq(f)
  BY <1>2, <1>4, SumExists
<1>6. PICK f : f = (CHOOSE g : Eq(g)) /\ Eq(f)
  BY <1>5
<1>7. SumIs(f, C, v, c)
  BY <1>4, <1>6
<1>9. f[C] \in Nat
  BY <1>2, <1>7, <1>8, SumType
<1> QED BY <1>1, <1>6, <1>9 DEF size

\* The greatest element of a finite set of natural numbers.
LEMMA MaxExists ==
    ASSUME NEW S, S \subseteq Nat, S # {}, IsFiniteSet(S)
    PROVE  Max(S) \in S /\ \A y \in S : Max(S) >= y
<1> DEFINE R == StrictSubsetOrdering(S)
           Above(k) == {x \in S : x > k}
           T == {Above(k) : k \in S}
<1>1. IsWellFoundedOn(R, FiniteSubsetsOf(S))
  BY FS_StrictSubsetOrderingWellFounded
<1>2. ASSUME NEW k \in S PROVE Above(k) \in FiniteSubsetsOf(S)
  BY FS_Subset DEF FiniteSubsetsOf
<1>3. T \subseteq FiniteSubsetsOf(S) /\ T # {}
  BY <1>2
<1> HIDE DEF R
<1>4. \E t \in T : \A u \in T : <<u, t>> \notin R
  BY <1>1, <1>3, WFMin
<1>5. PICK m \in S : \A k \in S : <<Above(k), Above(m)>> \notin R
  BY <1>4
<1>6. ASSUME NEW y \in S PROVE m >= y
  <2>1. m \in Nat /\ y \in Nat
    OBVIOUS
  <2> SUFFICES ASSUME y > m PROVE FALSE
    BY <2>1
  <2>2. ASSUME NEW x \in Above(y) PROVE x \in Above(m)
    <3>1. x \in Nat /\ x > y
      OBVIOUS
    <3> QED BY <2>1, <3>1
  <2>6. y \in Above(m)
    BY <2>1
  <2>5. y \notin Above(y)
    BY <2>1
  <2>3. Above(y) \in SUBSET S /\ Above(m) \in SUBSET S
    OBVIOUS
  <2>4. <<Above(y), Above(m)>> \in R
    BY <2>2, <2>5, <2>6, <2>3 DEF R, StrictSubsetOrdering
  <2> QED BY <1>5, <2>4
<1> QED BY <1>6 DEF Max

\* The sum of one number, of two and of five.
LEMMA SumOfFew ==
    ASSUME NEW n \in Nat, NEW v, DOMAIN v = 1..n
    PROVE  /\ n = 1 => SumOf(v) = v[1] + 0
           /\ n = 2 => SumOf(v) = v[2] + (v[1] + 0)
           /\ n = 5 => SumOf(v) = v[5] + (v[4] + (v[3] + (v[2] + (v[1] + 0))))
           /\ (\A i \in 1..n : v[i] \in Nat) => SumOf(v) \in Nat
<1> DEFINE I == 1..n
           c == [E \in (SUBSET I) \ {{}} |-> Max(E)]
           Eq(f) == f = [E \in SUBSET I |-> IF E = {} THEN 0 ELSE v[Max(E)] + f[E \ {Max(E)}]]
<1>1. SumOf(v) = (CHOOSE f : Eq(f))[I]
  BY DEF SumOf, FoldLeft, MapThenFoldSet
<1>2. IsFiniteSet(I)
  BY FS_Interval
<1>3. ASSUME NEW E \in SUBSET I, E # {} PROVE c[E] = Max(E) /\ Max(E) \in E
  <2>1. IsFiniteSet(E)
    BY <1>2, FS_Subset
  <2>2. E \subseteq Nat
    OBVIOUS
  <2>3. Max(E) \in E
    BY <1>3, <2>1, <2>2, MaxExists
  <2> QED BY <1>3, <2>3
<1>4. Chooses(c, I)
  BY <1>3 DEF Chooses
<1> HIDE DEF c
<1>5. ASSUME NEW f PROVE SumIs(f, I, v, c) <=> Eq(f)
  <2>1. [E \in SUBSET I |-> IF E = {} THEN 0 ELSE v[c[E]] + f[E \ {c[E]}]]
        = [E \in SUBSET I |-> IF E = {} THEN 0 ELSE v[Max(E)] + f[E \ {Max(E)}]]
    BY <1>3
  <2> QED BY <2>1 DEF SumIs
<1> HIDE DEF Eq
<1>6. \E f : Eq(f)
  <2>1. \E f : SumIs(f, I, v, c)
    BY <1>2, <1>4, SumExists
  <2> QED BY <1>5, <2>1
<1>7. PICK f : f = (CHOOSE g : Eq(g)) /\ Eq(f)
  BY <1>6
<1>8. f[{}] = 0
  BY <1>7 DEF Eq
<1>9. ASSUME NEW k \in 1..n PROVE f[1..k] = v[k] + f[1..(k - 1)]
  <2>1. 1..k \in SUBSET I /\ k \in 1..k /\ (1..k) \ {k} = 1..(k - 1) /\ 1..k # {}
    OBVIOUS
  <2>2. Max(1..k) = k
    <3>1. k \in Nat /\ \A x \in 1..k : x <= k
      OBVIOUS
    <3>2. 1..k \subseteq Nat /\ IsFiniteSet(1..k)
      BY FS_Interval
    <3>3. Max(1..k) \in 1..k /\ Max(1..k) >= k
      BY <2>1, <3>2, MaxExists
    <3> QED BY <3>1, <3>3
  <2>3. f[1..k] = v[Max(1..k)] + f[(1..k) \ {Max(1..k)}]
    BY <1>7, <2>1 DEF Eq
  <2> QED BY <2>1, <2>2, <2>3
<1>10. SumOf(v) = f[1..n]
  BY <1>1, <1>7
<1>11. 1..0 = {}
  OBVIOUS
<1>12. n = 1 => SumOf(v) = v[1] + 0
  BY <1>8, <1>9, <1>10, <1>11
<1>13. n = 2 => SumOf(v) = v[2] + (v[1] + 0)
  <2> SUFFICES ASSUME n = 2 PROVE SumOf(v) = v[2] + (v[1] + 0)
    OBVIOUS
  <2>1. f[1..2] = v[2] + f[1..1] /\ f[1..1] = v[1] + f[1..0]
    BY <1>9
  <2> QED BY <1>8, <1>10, <1>11, <2>1
<1>14. n = 5 => SumOf(v) = v[5] + (v[4] + (v[3] + (v[2] + (v[1] + 0))))
  <2> SUFFICES ASSUME n = 5 PROVE SumOf(v) = v[5] + (v[4] + (v[3] + (v[2] + (v[1] + 0))))
    OBVIOUS
  <2>1. /\ f[1..5] = v[5] + f[1..4] /\ f[1..4] = v[4] + f[1..3] /\ f[1..3] = v[3] + f[1..2]
        /\ f[1..2] = v[2] + f[1..1] /\ f[1..1] = v[1] + f[1..0]
    BY <1>9
  <2> QED BY <1>8, <1>10, <1>11, <2>1
<1>15. (\A i \in 1..n : v[i] \in Nat) => SumOf(v) \in Nat
  <2>1. SumIs(f, I, v, c)
    BY <1>5, <1>7
  <2>2. (\A i \in I : v[i] \in Nat) => f[I] \in Nat
    BY <1>2, <1>4, <2>1, SumType
  <2> QED BY <1>10, <2>2
<1> QED BY <1>12, <1>13, <1>14, <1>15

(***************************************************************************)
(* What is known of a transaction from when it is made.                    *)
(***************************************************************************)

\* Every coin there has been: the first ones, and the outputs of what the network has taken.
Known == Genesis \cup UNION {{Made(tx, i) : i \in DOMAIN tx.outs} : tx \in accepted}

\* Coins are listed, scanned, kept and offered to sends only if they are known.
CoinsKnown ==
    /\ IsFiniteSet(Known)
    /\ \A c \in Known : c.value \in Int /\ c.lock \in Nat
    /\ coins \subseteq Known /\ listed \subseteq Known /\ scanned \subseteq Known
    /\ \A s \in Send : st[s].view \subseteq Known

\* The median time past is at most an hour behind the wall clock.
Clocks == wall \in Nat /\ mtp \in Nat /\ mtp >= wall - 1

\* What the wallet can spend as its beneficiary only.
ByHeir(c) == c.beneficiary /\ ~c.benefactor

\* The lock of what is claimed by its beneficiary is in the past, by the median time.
ClaimsFinal ==
    \A s \in Send : \A id \in st[s].q.claim :
        \E c \in Known : c.id = id /\ (ByHeir(c) => c.lock < mtp)

\* The transaction of a send is what the builder makes of its request, value and quoted fee.
Built(t) ==
    LET tx == t.tx
        outs == Skeleton(tx.ins, t.q, t.q.to, t.value, t.quoted)
    IN  /\ tx.ins \subseteq t.view
        /\ t.value \in Nat /\ t.quoted \in Nat \ {0}
        /\ tx.lock = LockOf(tx.ins)
        /\ tx.outs = IF t.q.hours > 0 THEN Expand(outs, t.q.heir) ELSE outs
        /\ IF t.q.hours > 0
           THEN t.value >= P_OP_MIN_GROSS /\ tx.cltv \in Nat /\ tx.data = Written(tx.cltv)
           ELSE tx.cltv = 0

AllBuilt == \A s \in Send : st[s].q.hours \in Nat /\ (st[s].tx # NoTx => Built(st[s]))

\* The worker is given only what the guard has passed: it has a fee, and of enough per byte.
Passed == \A s \in Send : work[s] # "none" =>
             st[s].tx # NoTx /\ Fee(st[s].tx) > 0 /\ RateOk(st[s].tx)

\* What the guard has refused it would refuse again.
Refused == \A s \in Send : st[s].pc = "guard" =>
              /\ st[s].tx # NoTx
              /\ ~Guard(st[s].tx, st[s].q, st[s].value, st[s].quoted)

\* The network has only what the worker was given.
AcceptedPosted == \A tx \in accepted : \E s \in Send : work[s] # "none" /\ st[s].tx = tx

JInv == /\ CoinsKnown /\ Clocks /\ ClaimsFinal /\ AllBuilt /\ Passed /\ Refused /\ AcceptedPosted

\* A transaction is not the absence of one.
LEMMA MadeIsTx ==
    ASSUME NEW S, NEW q, NEW to, NEW value, NEW fee, NEW hours
    PROVE  MakeTx(S, q, to, value, fee, hours) # NoTx
<1>1. DOMAIN MakeTx(S, q, to, value, fee, hours) = {"ins", "outs", "lock", "data", "cltv"}
  BY DEF MakeTx
<1>2. DOMAIN NoTx = {}
  BY DEF NoTx
<1> QED BY <1>1, <1>2

\* The lock time written is the one read.
LEMMA WrittenRead == ASSUME NEW time \in Nat PROVE ReadBack(Written(time)) = time
<1>1. Byte \in Nat /\ Byte > 0
  BY ByteAssumption
<1>2. time = Byte * (time \div Byte) + (time % Byte)
  BY <1>1
<1>3. (time \div Byte) \in Int /\ Byte * (time \div Byte) = (time \div Byte) * Byte
  BY <1>1
<1> QED BY <1>2, <1>3 DEF ReadBack, Written

\* Coins are told apart by their ids.
LEMMA IdsDiffer ==
    ASSUME Passed, AcceptedPosted
    PROVE  \A c, d \in Known : c.id = d.id => c = d
<1>1. NoTx \notin accepted
  BY DEF Passed, AcceptedPosted
<1>2. ASSUME NEW c \in Known
      PROVE  \/ c \in Genesis /\ c.id[1] = NoTx
             \/ \E tx \in accepted : \E i \in DOMAIN tx.outs : c = Made(tx, i) /\ c.id = <<tx, i>>
  BY GenesisAssumption DEF Known, Made
<1>3. ASSUME NEW c \in Known, NEW d \in Known, c.id = d.id PROVE c = d
  <2>1. CASE c \in Genesis /\ c.id[1] = NoTx
    <3>1. d \in Genesis
      BY <1>1, <1>2, <1>3, <2>1
    <3> QED BY <1>3, <2>1, <3>1, GenesisAssumption
  <2>2. CASE \E tx \in accepted : \E i \in DOMAIN tx.outs : c = Made(tx, i) /\ c.id = <<tx, i>>
    <3>1. PICK tx \in accepted : \E i \in DOMAIN tx.outs : c = Made(tx, i) /\ c.id = <<tx, i>>
      BY <2>2
    <3>2. PICK ux \in accepted : \E j \in DOMAIN ux.outs : d = Made(ux, j) /\ d.id = <<ux, j>>
      BY <1>1, <1>2, <1>3, <3>1
    <3> QED BY <1>3, <3>1, <3>2
  <2> QED BY <1>2, <2>1, <2>2
<1> QED BY <1>3

\* The lock time of a transaction suits its inputs, and is one of theirs if it is not zero.
LEMMA LockSuits ==
    ASSUME NEW S, IsFiniteSet(S), \A c \in S : c.lock \in Nat
    PROVE  /\ LockOf(S) \in Nat
           /\ \A c \in S : c.beneficiary => LockOf(S) >= c.lock
           /\ LockOf(S) # 0 => \E c \in S : c.beneficiary /\ LockOf(S) = c.lock
<1> DEFINE B == {d \in S : d.beneficiary}
           locks == {c.lock : c \in B}
           f == [c \in B |-> c.lock]
<1>1. f \in Surjection(B, locks)
  BY DEF Surjection
<1>2. IsFiniteSet(B)
  BY FS_Subset
<1> HIDE DEF f
<1>3. IsFiniteSet(locks)
  <2> HIDE DEF B, locks
  <2> QED BY <1>1, <1>2, FS_Surjection
<1>4. locks \subseteq Nat
  OBVIOUS
<1>5. LockOf(S) = IF locks = {} THEN 0 ELSE Max(locks)
  BY DEF LockOf
<1>6. ASSUME locks # {} PROVE Max(locks) \in locks /\ \A y \in locks : Max(locks) >= y
  <2> HIDE DEF locks
  <2> QED BY <1>3, <1>4, <1>6, MaxExists
<1>7. \A c \in S : c.beneficiary => c.lock \in locks
  OBVIOUS
<1>8. ASSUME NEW k \in locks PROVE \E c \in S : c.beneficiary /\ k = c.lock
  OBVIOUS
<1> HIDE DEF locks, B
<1>9. CASE locks = {}
  BY <1>5, <1>7, <1>9
<1>10. CASE locks # {}
  BY <1>4, <1>5, <1>6, <1>7, <1>8, <1>10
<1> QED BY <1>9, <1>10

\* The fee of a payment: the outputs are the receiver's and perhaps the change, which
\* takes all but the fee, or goes to the miner with it.
LEMMA PaymentBuilt ==
    ASSUME NEW t, Built(t), ~(t.q.hours > 0), Total(t.tx.ins) \in Int
    PROVE  LET outs == t.tx.outs
               rest == Unspent(t.tx.ins, t.value, t.quoted)
           IN  /\ outs[1] = [to |-> t.q.to, value |-> t.value]
               /\ Fee(t.tx) \in Int /\ rest \in Int
               /\ \/ Len(outs) = 1 /\ DOMAIN outs = 1..1 /\ Paid(outs) = t.value
                     /\ Fee(t.tx) = rest + t.quoted /\ rest <= t.quoted
                  \/ Len(outs) = 2 /\ DOMAIN outs = 1..2 /\ outs[2] = [to |-> Change, value |-> rest]
                     /\ Paid(outs) = t.value + rest
                     /\ Fee(t.tx) = t.quoted /\ rest > t.quoted
<1> DEFINE outs == t.tx.outs
           rest == Unspent(t.tx.ins, t.value, t.quoted)
           pay == [to |-> t.q.to, value |-> t.value]
           values == [i \in DOMAIN outs |-> outs[i].value]
<1>1. t.value \in Nat /\ t.quoted \in Nat /\ t.quoted > 0
  BY DEF Built
<1>2. outs = IF rest > t.quoted THEN <<pay, [to |-> Change, value |-> Larger(0, rest)]>> ELSE <<pay>>
  BY DEF Built, Skeleton
<1>3. rest \in Int /\ rest = Total(t.tx.ins) - t.value - t.quoted
  BY <1>1 DEF Unspent
<1>4. Fee(t.tx) = Total(t.tx.ins) - SumOf(values)
  BY DEF Fee, Paid
<1> HIDE DEF rest
<1>5. CASE rest > t.quoted
  <2>1. Larger(0, rest) = rest
    BY <1>1, <1>3, <1>5 DEF Larger
  <2>2. outs = <<pay, [to |-> Change, value |-> rest]>>
    BY <1>2, <1>5, <2>1
  <2>3. /\ Len(outs) = 2 /\ DOMAIN outs = 1..2 /\ outs[1] = pay
        /\ outs[2] = [to |-> Change, value |-> rest]
    BY <2>2
  <2> HIDE DEF outs
  <2>4. DOMAIN values = 1..2 /\ values[1] = t.value /\ values[2] = rest
    BY <2>3
  <2> HIDE DEF values
  <2>5. SumOf(values) = rest + (t.value + 0)
    BY <2>4, SumOfFew
  <2>6. SumOf(values) = t.value + rest
    BY <1>1, <1>3, <2>5
  <2>7. Fee(t.tx) = t.quoted /\ Paid(outs) = t.value + rest
    BY <1>1, <1>3, <1>4, <2>6 DEF Paid, values
  <2> QED BY <1>1, <1>3, <1>5, <2>3, <2>7 DEF outs, rest
<1>6. CASE ~(rest > t.quoted)
  <2>2. outs = <<pay>>
    BY <1>2, <1>6
  <2>3. Len(outs) = 1 /\ DOMAIN outs = 1..1 /\ outs[1] = pay
    BY <2>2
  <2> HIDE DEF outs
  <2>4. DOMAIN values = 1..1 /\ values[1] = t.value
    BY <2>3
  <2> HIDE DEF values
  <2>5. SumOf(values) = t.value + 0
    BY <2>4, SumOfFew
  <2>6. SumOf(values) = t.value
    BY <1>1, <2>5
  <2>7. Fee(t.tx) = rest + t.quoted /\ Paid(outs) = t.value
    BY <1>1, <1>3, <1>4, <2>6 DEF Paid, values
  <2> QED BY <1>1, <1>3, <1>6, <2>3, <2>7 DEF outs, rest
<1> QED BY <1>5, <1>6

\* The five outputs of a PROTECT_OP: the fee of the transaction is the quoted one if the
\* inputs cover it, and padding the change comes off the protected value.
LEMMA ProtectBuilt ==
    ASSUME NEW t, Built(t), t.q.hours > 0, Total(t.tx.ins) \in Int
    PROVE  LET outs == t.tx.outs
               rest == Unspent(t.tx.ins, t.value, t.quoted)
               change == Larger(0, rest)
               pad == Larger(0, P_OP_DUST - change)
               dev == DevFee(t.value)
           IN  /\ Len(outs) = 5 /\ DOMAIN outs = 1..5
               /\ outs[1] = [to |-> Protected, value |-> t.value - dev - P_OP_DUST - pad]
               /\ outs[2] = [to |-> Data, value |-> 0]
               /\ outs[3] = [to |-> t.q.heir, value |-> P_OP_DUST]
               /\ outs[4] = [to |-> Change, value |-> change + pad]
               /\ outs[5] = [to |-> Donate, value |-> dev]
               /\ rest \in Int /\ change \in Nat /\ pad \in 0..P_OP_DUST /\ dev \in Nat
               /\ dev >= P_OP_DUST /\ dev <= Larger((t.value + 199) \div 200, P_OP_DUST)
               /\ t.value - dev - P_OP_DUST - pad > 0
               /\ change + pad >= P_OP_DUST
               /\ Paid(outs) = t.value + change
               /\ Fee(t.tx) = rest + t.quoted - change
<1> DEFINE outs == t.tx.outs
           rest == Unspent(t.tx.ins, t.value, t.quoted)
           change == Larger(0, rest)
           pad == Larger(0, P_OP_DUST - change)
           dev == DevFee(t.value)
           skel == Skeleton(t.tx.ins, t.q, t.q.to, t.value, t.quoted)
           values == [i \in DOMAIN outs |-> outs[i].value]
<1>1. t.value \in Nat /\ t.quoted \in Nat /\ t.value >= P_OP_MIN_GROSS
  BY DEF Built
<1>2. skel = <<[to |-> t.q.to, value |-> t.value], [to |-> Change, value |-> change]>>
  BY DEF Skeleton
<1>3. skel[1].value = t.value /\ skel[2].value = change
  BY <1>2
<1>4. outs = Anatomy(skel, t.q.heir, PadOf(skel), PadOf(skel))
  BY DEF Built, Expand
<1>5. PadOf(skel) = pad
  BY <1>3 DEF PadOf
<1> HIDE DEF skel
<1>6. outs = << [to |-> Protected, value |-> t.value - dev - P_OP_DUST - pad],
                [to |-> Data, value |-> 0],
                [to |-> t.q.heir, value |-> P_OP_DUST],
                [to |-> Change, value |-> change + pad],
                [to |-> Donate, value |-> dev] >>
  BY <1>3, <1>4, <1>5 DEF Anatomy
<1>7. rest \in Int /\ rest = Total(t.tx.ins) - t.value - t.quoted
  BY <1>1 DEF Unspent
<1> HIDE DEF rest
<1>8. change \in Nat /\ pad \in 0..P_OP_DUST /\ change + pad >= P_OP_DUST
  BY <1>7 DEF Larger, P_OP_DUST
<1>9. dev \in Nat /\ dev >= P_OP_DUST /\ dev <= Larger((t.value + 199) \div 200, P_OP_DUST)
  BY <1>1 DEF DevFee, Larger, P_OP_DUST
<1>10. t.value - dev - 2 * P_OP_DUST > 0
  BY <1>1 DEF DevFee, Larger, P_OP_DUST, P_OP_MIN_GROSS
<1> HIDE DEF change, pad, dev
<1>11. t.value - dev - P_OP_DUST - pad > 0
  BY <1>1, <1>8, <1>9, <1>10 DEF P_OP_DUST
<1>12. /\ Len(outs) = 5 /\ DOMAIN outs = 1..5
       /\ outs[1] = [to |-> Protected, value |-> t.value - dev - P_OP_DUST - pad]
       /\ outs[2] = [to |-> Data, value |-> 0]
       /\ outs[3] = [to |-> t.q.heir, value |-> P_OP_DUST]
       /\ outs[4] = [to |-> Change, value |-> change + pad]
       /\ outs[5] = [to |-> Donate, value |-> dev]
  BY <1>6
<1>13. Fee(t.tx) = Total(t.tx.ins) - SumOf(values)
  BY DEF Fee, Paid
<1>14. Paid(outs) = SumOf(values)
  BY DEF Paid
<1> HIDE DEF outs
<1>15. /\ DOMAIN values = 1..5 /\ values[1] = t.value - dev - P_OP_DUST - pad /\ values[2] = 0
       /\ values[3] = P_OP_DUST /\ values[4] = change + pad /\ values[5] = dev
  BY <1>12
<1> HIDE DEF values
<1>16. SumOf(values) = values[5] + (values[4] + (values[3] + (values[2] + (values[1] + 0))))
  BY <1>15, SumOfFew
<1>17. SumOf(values) = t.value + change
  BY <1>1, <1>8, <1>9, <1>15, <1>16 DEF P_OP_DUST
<1>18. Paid(outs) = t.value + change /\ Fee(t.tx) = rest + t.quoted - change
  BY <1>1, <1>7, <1>8, <1>13, <1>14, <1>17
<1> QED BY <1>7, <1>8, <1>9, <1>11, <1>12, <1>18 DEF outs, rest, change, pad, dev

\* The size of a transaction of one, two or five outputs, of any coins.
LEMMA SizeType ==
    ASSUME NEW C, IsFiniteSet(C), NEW n \in Nat, NEW outs, DOMAIN outs = 1..n
    PROVE  SizeOf(C, outs) \in Nat /\ SizeOf(C, outs) >= BaseSize
<1> DEFINE values == [i \in DOMAIN outs |-> IF outs[i].to = Data THEN DataSize ELSE OutSize]
           ins == MapThenSumSet(LAMBDA x : IF Standard(x) THEN InSize ELSE ProtectedInSize, C)
<1>1. SizeOf(C, outs) = BaseSize + ins + SumOf(values)
  BY DEF SizeOf
<1>2. ins \in Nat
  BY InSizesType
<1>3. DOMAIN values = 1..n /\ \A i \in 1..n : values[i] \in Nat
  BY DEF DataSize, OutSize
<1> HIDE DEF values, ins
<1>4. SumOf(values) \in Nat
  BY <1>3, SumOfFew
<1> QED BY <1>1, <1>2, <1>4 DEF BaseSize

\* The size of what was built.
LEMMA MadeSize ==
    ASSUME NEW u, Built(u), IsFiniteSet(u.tx.ins), Total(u.tx.ins) \in Int
    PROVE  SizeOf(u.tx.ins, u.tx.outs) \in Nat
<1>1. CASE ~(u.q.hours > 0)
  <2>1. DOMAIN u.tx.outs = 1..1 \/ DOMAIN u.tx.outs = 1..2
    BY <1>1, PaymentBuilt
  <2>2. PICK C, outs : C = u.tx.ins /\ outs = u.tx.outs
    OBVIOUS
  <2> QED BY <2>1, <2>2, SizeType
<1>2. CASE u.q.hours > 0
  <2>1. DOMAIN u.tx.outs = 1..5
    BY <1>2, ProtectBuilt
  <2>2. PICK C, outs : C = u.tx.ins /\ outs = u.tx.outs
    OBVIOUS
  <2> QED BY <2>1, <2>2, SizeType
<1> QED BY <1>1, <1>2

\* What a transaction spends is known.
LEMMA InsKnown ==
    ASSUME JInv, NEW s \in Send, st[s].tx # NoTx
    PROVE  /\ Built(st[s])
           /\ st[s].tx.ins \subseteq Known /\ IsFiniteSet(st[s].tx.ins)
           /\ Total(st[s].tx.ins) \in Int
<1>1. Built(st[s]) /\ st[s].tx.ins \subseteq Known
  BY DEF JInv, AllBuilt, Built, CoinsKnown
<1>2. IsFiniteSet(st[s].tx.ins)
  BY <1>1, FS_Subset DEF JInv, CoinsKnown
<1>3. \A c \in st[s].tx.ins : c.value \in Int
  BY <1>1 DEF JInv, CoinsKnown
<1>4. PICK S : S = st[s].tx.ins
  OBVIOUS
<1>5. Total(S) \in Int
  BY <1>2, <1>3, <1>4, TotalType
<1> QED BY <1>1, <1>2, <1>4, <1>5

\* The outputs are what the guard expects, whatever the coins.
LEMMA OutputsAgree ==
    ASSUME JInv, NEW s \in Send, st[s].tx # NoTx
    PROVE  IF st[s].q.hours > 0 THEN ProtectOk(st[s].tx.outs, st[s].value)
                                ELSE PaymentOk(st[s].tx.outs, st[s].q.to, st[s].value)
<1>1. PICK u : u = st[s]
  OBVIOUS
<1>2. Built(u) /\ Total(u.tx.ins) \in Int
  BY <1>1, InsKnown
<1> DEFINE outs == u.tx.outs
           rest == Unspent(u.tx.ins, u.value, u.quoted)
           pad == Larger(0, P_OP_DUST - Larger(0, rest))
           dev == DevFee(u.value)
<1>3. CASE ~(u.q.hours > 0)
  <2>1. /\ outs[1] = [to |-> u.q.to, value |-> u.value]
        /\ \/ Len(outs) = 1 /\ DOMAIN outs = 1..1
           \/ Len(outs) = 2 /\ DOMAIN outs = 1..2 /\ outs[2] = [to |-> Change, value |-> rest]
    BY <1>2, <1>3, PaymentBuilt
  <2> HIDE DEF outs, rest
  <2>2. 1 \in DOMAIN outs
    BY <2>1
  <2>5. Len(outs) <= 2
    <3>1. PICK n : n = Len(outs)
      OBVIOUS
    <3>2. n = 1 \/ n = 2
      BY <2>1, <3>1
    <3>3. n <= 2
      BY <3>2
    <3> QED BY <3>1, <3>3
  <2>3. \A i \in DOMAIN outs \ {1} : outs[i].to = Change
    BY <2>1
  <2>4. PaymentOk(outs, u.q.to, u.value)
    BY <2>1, <2>2, <2>3, <2>5 DEF PaymentOk
  <2> QED BY <1>1, <1>3, <2>4 DEF outs
<1>4. CASE u.q.hours > 0
  <2>1. /\ Len(outs) = 5
        /\ outs[1] = [to |-> Protected, value |-> u.value - dev - P_OP_DUST - pad]
        /\ outs[2] = [to |-> Data, value |-> 0]
        /\ outs[3] = [to |-> u.q.heir, value |-> P_OP_DUST]
        /\ outs[4] = [to |-> Change, value |-> Larger(0, rest) + pad]
        /\ outs[5] = [to |-> Donate, value |-> dev]
    BY <1>2, <1>4, ProtectBuilt
  <2>2. /\ pad \in 0..P_OP_DUST /\ dev \in Nat
        /\ dev <= Larger((u.value + 199) \div 200, P_OP_DUST)
    BY <1>2, <1>4, ProtectBuilt
  <2>3. u.value \in Nat
    BY <1>2 DEF Built
  <2> HIDE DEF outs, rest, pad, dev
  <2>4. outs[1].value + outs[3].value + outs[5].value <= u.value
    BY <2>1, <2>2, <2>3 DEF P_OP_DUST
  <2>5. ProtectOk(outs, u.value)
    BY <2>1, <2>2, <2>4, AddressAssumption DEF ProtectOk
  <2> QED BY <1>1, <1>4, <2>5 DEF outs
<1> QED BY <1>3, <1>4

\* Only the quoted fee, what is left over below it, and the guard's limits decide.
LEMMA Agrees == JInv => GuardAgrees
<1> SUFFICES ASSUME JInv, NEW s \in Send, st[s].pc = "guard",
                    ~(Total(st[s].tx.ins) < st[s].value + st[s].quoted), RateOk(st[s].tx),
                    ~(Fee(st[s].tx) > MaxFeeSats),
                    ~(Fee(st[s].tx) > MaxFeeSatVb * SizeOf(st[s].tx.ins, st[s].tx.outs))
             PROVE  FALSE
  BY DEF GuardAgrees
<1>1. st[s].tx # NoTx /\ ~Guard(st[s].tx, st[s].q, st[s].value, st[s].quoted)
  BY DEF JInv, Refused
<1>2. PICK u : u = st[s]
  OBVIOUS
<1>3. Built(u) /\ IsFiniteSet(u.tx.ins) /\ Total(u.tx.ins) \in Int
  BY <1>1, <1>2, InsKnown
<1> DEFINE rest == Unspent(u.tx.ins, u.value, u.quoted)
<1>4. u.value \in Nat /\ u.quoted \in Nat /\ u.quoted > 0
  BY <1>3 DEF Built
<1>5. rest \in Int /\ rest >= 0
  BY <1>2, <1>3, <1>4 DEF Unspent
<1>6. Fee(u.tx) \in Int /\ Fee(u.tx) > 0 /\ Fee(u.tx) <= 2 * u.quoted
  <2>1. CASE ~(u.q.hours > 0)
    <3>1. \/ Fee(u.tx) = rest + u.quoted /\ rest <= u.quoted
          \/ Fee(u.tx) = u.quoted
      BY <1>3, <2>1, PaymentBuilt
    <3> HIDE DEF rest
    <3> QED BY <1>4, <1>5, <3>1
  <2>2. CASE u.q.hours > 0
    <3>1. Fee(u.tx) = rest + u.quoted - Larger(0, rest)
      BY <1>3, <2>2, ProtectBuilt
    <3> HIDE DEF rest
    <3>2. Larger(0, rest) = rest
      BY <1>5 DEF Larger
    <3> QED BY <1>4, <1>5, <3>1, <3>2
  <2> QED BY <2>1, <2>2
<1>7. MaxFeeSats \in Int
  BY DEF MaxFeeSats
<1>8. Fee(u.tx) <= MaxFeeSats
  BY <1>2, <1>6, <1>7
<1>9. FeeOk(u.tx, u.quoted)
  <2>1. Fee(u.tx) <= 2 * u.quoted + 1
    BY <1>4, <1>6
  <2>2. Fee(u.tx) <= MaxFeeSatVb * SizeOf(u.tx.ins, u.tx.outs)
    <3>1. MaxFeeSatVb \in Nat /\ SizeOf(u.tx.ins, u.tx.outs) \in Nat
      BY <1>3, MadeSize DEF MaxFeeSatVb
    <3>2. MaxFeeSatVb * SizeOf(u.tx.ins, u.tx.outs) \in Nat
      BY <3>1
    <3> QED BY <1>2, <1>6, <3>2
  <2> QED BY <1>6, <1>8, <2>1, <2>2 DEF FeeOk
<1>10. IF u.q.hours > 0 THEN ProtectOk(u.tx.outs, u.value) ELSE PaymentOk(u.tx.outs, u.q.to, u.value)
  BY <1>1, <1>2, OutputsAgree
<1>11. Guard(u.tx, u.q, u.value, u.quoted)
  BY <1>2, <1>9, <1>10 DEF Guard
<1> QED BY <1>1, <1>2, <1>11

\* A transaction the network has taken is that of a send whose worker had it.
LEMMA TakenMade ==
    ASSUME JInv, NEW tx \in accepted
    PROVE  /\ Fee(tx) > 0
           /\ \E u : /\ u.tx = tx /\ Built(u) /\ Total(tx.ins) \in Int
                     /\ u.q.hours \in Nat
<1>1. PICK s \in Send : work[s] # "none" /\ st[s].tx = tx
  BY DEF JInv, AcceptedPosted
<1>2. tx # NoTx /\ Fee(tx) > 0
  BY <1>1 DEF JInv, Passed
<1>3. Built(st[s]) /\ Total(tx.ins) \in Int
  BY <1>1, <1>2, InsKnown
<1>4. st[s].q.hours \in Nat
  BY DEF JInv, AllBuilt
<1> QED BY <1>1, <1>2, <1>3, <1>4

\* What is recognised of what was built.
LEMMA BuiltRecognised ==
    ASSUME NEW u, Built(u), Total(u.tx.ins) \in Int, u.q.hours \in Nat
    PROVE  /\ u.tx.cltv \in Nat
           /\ u.tx.cltv # 0 => Recognised(u.tx)
           /\ Recognised(u.tx) => ReadBack(u.tx.data) = u.tx.cltv /\ u.tx.outs[1].to = Protected
           /\ \A i \in DOMAIN u.tx.outs : u.tx.outs[i].value \in Int
           /\ 1 \in DOMAIN u.tx.outs /\ \E n \in Nat : DOMAIN u.tx.outs = 1..n
<1>1. PICK tx : u.tx = tx
  OBVIOUS
<1> DEFINE outs == u.tx.outs
           rest == Unspent(u.tx.ins, u.value, u.quoted)
           change == Larger(0, rest)
           pad == Larger(0, P_OP_DUST - change)
           dev == DevFee(u.value)
<1>2. u.value \in Nat
  BY <1>1 DEF Built
<1>3. CASE ~(u.q.hours > 0)
  <2>1. tx.cltv = 0
    BY <1>1, <1>3 DEF Built
  <2>2. /\ outs[1] = [to |-> u.q.to, value |-> u.value] /\ rest \in Int
        /\ \/ Len(outs) = 1 /\ DOMAIN outs = 1..1
           \/ Len(outs) = 2 /\ DOMAIN outs = 1..2 /\ outs[2] = [to |-> Change, value |-> rest]
    BY <1>1, <1>3, PaymentBuilt
  <2> HIDE DEF outs, rest
  <2>3. ~Recognised(tx)
    BY <1>1, <2>2 DEF Recognised, outs
  <2>4. \A i \in DOMAIN outs : outs[i].value \in Int
    BY <1>2, <2>2
  <2>5. \E n \in Nat : DOMAIN outs = 1..n
    BY <2>2
  <2>6. 1 \in DOMAIN outs
    BY <2>2
  <2> QED BY <1>1, <2>1, <2>3, <2>4, <2>5, <2>6 DEF outs
<1>4. CASE u.q.hours > 0
  <2>1. tx.cltv \in Nat /\ ReadBack(tx.data) = tx.cltv
    BY <1>1, <1>4, WrittenRead DEF Built
  <2>2. /\ Len(outs) = 5 /\ DOMAIN outs = 1..5
        /\ outs[1] = [to |-> Protected, value |-> u.value - dev - P_OP_DUST - pad]
        /\ outs[2] = [to |-> Data, value |-> 0]
        /\ outs[3] = [to |-> u.q.heir, value |-> P_OP_DUST]
        /\ outs[4] = [to |-> Change, value |-> change + pad]
        /\ outs[5] = [to |-> Donate, value |-> dev]
        /\ change \in Nat /\ pad \in Nat /\ dev \in Nat
        /\ dev >= P_OP_DUST /\ u.value - dev - P_OP_DUST - pad > 0 /\ change + pad >= P_OP_DUST
    BY <1>1, <1>4, ProtectBuilt
  <2> HIDE DEF outs, rest, change, pad, dev
  <2>3. Recognised(tx) /\ outs[1].to = Protected
    BY <1>1, <2>2 DEF Recognised, outs
  <2>4. /\ outs[1].value \in Int /\ outs[2].value \in Int /\ outs[3].value \in Int
        /\ outs[4].value \in Int /\ outs[5].value \in Int
    BY <1>2, <2>2 DEF P_OP_DUST
  <2>5. \A i \in DOMAIN outs : outs[i].value \in Int
    BY <2>2, <2>4
  <2>6. \E n \in Nat : DOMAIN outs = 1..n
    BY <2>2
  <2>7. 1 \in DOMAIN outs
    BY <2>2
  <2> QED BY <1>1, <2>1, <2>3, <2>5, <2>6, <2>7 DEF outs
<1> QED BY <1>1, <1>3, <1>4

\* The same of what the network has taken.
LEMMA RecognisedMade ==
    ASSUME JInv, NEW tx \in accepted
    PROVE  /\ tx.cltv # 0 => Recognised(tx)
           /\ Recognised(tx) => /\ ReadBack(tx.data) = tx.cltv /\ tx.outs[1].to = Protected
                                /\ 1 \in DOMAIN tx.outs
<1>1. PICK u : u.tx = tx /\ Built(u) /\ Total(tx.ins) \in Int /\ u.q.hours \in Nat
  BY TakenMade
<1>2. /\ tx.cltv # 0 => Recognised(tx)
      /\ Recognised(tx) => ReadBack(tx.data) = tx.cltv /\ tx.outs[1].to = Protected
  BY <1>1, BuiltRecognised
<1>3. 1 \in DOMAIN tx.outs
  BY <1>1, BuiltRecognised
<1> QED BY <1>2, <1>3

\* The wallet finds its PROTECT_OPs again.
LEMMA Recovers == JInv => Recoverable
  BY RecognisedMade DEF Recoverable

\* What the outputs of a payment pay to the receiver, and to the receiver and the wallet.
LEMMA PaymentPays ==
    ASSUME NEW u, Built(u), ~(u.q.hours > 0), Total(u.tx.ins) \in Int
    PROVE  /\ u.q.to \notin Own => PaidTo(u.tx.outs, {u.q.to}) = u.value
           /\ PaidTo(u.tx.outs, {u.q.to} \cup Own) = Paid(u.tx.outs)
<1> DEFINE outs == u.tx.outs
           rest == Unspent(u.tx.ins, u.value, u.quoted)
           paid(A) == [i \in DOMAIN outs |-> IF outs[i].to \in A THEN outs[i].value ELSE 0]
<1>1. u.value \in Nat
  BY DEF Built
<1>2. /\ outs[1] = [to |-> u.q.to, value |-> u.value] /\ rest \in Int
      /\ \/ DOMAIN outs = 1..1 /\ Paid(outs) = u.value
         \/ /\ DOMAIN outs = 1..2 /\ outs[2] = [to |-> Change, value |-> rest]
            /\ Paid(outs) = u.value + rest
  BY PaymentBuilt
<1>3. \A A : PaidTo(outs, A) = SumOf(paid(A))
  BY DEF PaidTo
<1> HIDE DEF outs, rest
<1>4. Change \in Own
  BY AddressAssumption
<1>5. ASSUME NEW A, u.q.to \in A, DOMAIN outs = 1..1 PROVE PaidTo(outs, A) = u.value
  <2>1. PICK v : v = paid(A)
    OBVIOUS
  <2>2. DOMAIN v = 1..1 /\ v[1] = u.value
    BY <1>2, <1>5, <2>1
  <2>3. SumOf(v) = v[1] + 0
    BY <2>2, SumOfFew
  <2>4. SumOf(v) = u.value
    BY <1>1, <2>2, <2>3
  <2> QED BY <1>3, <2>1, <2>4
<1>6. ASSUME NEW A, u.q.to \in A, DOMAIN outs = 1..2, outs[2] = [to |-> Change, value |-> rest]
      PROVE  PaidTo(outs, A) = IF Change \in A THEN u.value + rest ELSE u.value
  <2>1. PICK v : v = paid(A)
    OBVIOUS
  <2>2. DOMAIN v = 1..2 /\ v[1] = u.value /\ v[2] = IF Change \in A THEN rest ELSE 0
    BY <1>2, <1>6, <2>1
  <2>3. SumOf(v) = v[2] + (v[1] + 0)
    BY <2>2, SumOfFew
  <2>4. SumOf(v) = IF Change \in A THEN u.value + rest ELSE u.value
    BY <1>1, <1>2, <2>2, <2>3
  <2> QED BY <1>3, <2>1, <2>4
<1>7. ASSUME u.q.to \notin Own PROVE PaidTo(outs, {u.q.to}) = u.value
  <2>1. Change \notin {u.q.to}
    BY <1>4, <1>7
  <2> QED BY <1>2, <1>5, <1>6, <2>1
<1>8. PaidTo(outs, {u.q.to} \cup Own) = Paid(outs)
  <2>1. Change \in {u.q.to} \cup Own /\ u.q.to \in {u.q.to} \cup Own
    BY <1>4
  <2> QED BY <1>2, <1>5, <1>6, <2>1
<1> QED BY <1>7, <1>8 DEF outs

\* What the network has taken has paid what was to be paid.
LEMMA Pays == JInv => PaysExactly
<1> SUFFICES ASSUME JInv, NEW s \in Send, st[s].tx \in accepted
             PROVE  LET tx == st[s].tx
                        q == st[s].q
                        gross == tx.outs[1].value + tx.outs[3].value + tx.outs[5].value
                    IN  IF q.hours > 0
                        THEN /\ Fee(tx) \in 1 .. st[s].quoted
                             /\ gross \in st[s].value - P_OP_DUST .. st[s].value
                        ELSE /\ Fee(tx) \in 1 .. 2 * st[s].quoted + 1
                             /\ q.to \notin Own => PaidTo(tx.outs, {q.to}) = st[s].value
                             /\ PaidTo(tx.outs, {q.to} \cup Own) = Paid(tx.outs)
  BY DEF PaysExactly
<1>1. st[s].tx # NoTx /\ Fee(st[s].tx) > 0
  BY DEF JInv, AcceptedPosted, Passed
<1>2. PICK u : u = st[s]
  OBVIOUS
<1>3. Built(u) /\ Total(u.tx.ins) \in Int /\ Fee(u.tx) > 0
  BY <1>1, <1>2, InsKnown
<1> DEFINE outs == u.tx.outs
           rest == Unspent(u.tx.ins, u.value, u.quoted)
           pad == Larger(0, P_OP_DUST - Larger(0, rest))
           dev == DevFee(u.value)
<1>4. u.value \in Nat /\ u.quoted \in Nat
  BY <1>3 DEF Built
<1>5. CASE ~(u.q.hours > 0)
  <2>1. /\ Fee(u.tx) \in Int /\ rest \in Int
        /\ (Fee(u.tx) = rest + u.quoted /\ rest <= u.quoted) \/ Fee(u.tx) = u.quoted
    BY <1>3, <1>5, PaymentBuilt
  <2> HIDE DEF rest
  <2>2. Fee(u.tx) \in 1 .. 2 * u.quoted + 1
    BY <1>3, <1>4, <2>1
  <2>3. /\ u.q.to \notin Own => PaidTo(u.tx.outs, {u.q.to}) = u.value
        /\ PaidTo(u.tx.outs, {u.q.to} \cup Own) = Paid(u.tx.outs)
    BY <1>3, <1>5, PaymentPays
  <2> QED BY <1>2, <1>5, <2>2, <2>3
<1>6. CASE u.q.hours > 0
  <2>1. /\ outs[1] = [to |-> Protected, value |-> u.value - dev - P_OP_DUST - pad]
        /\ outs[3] = [to |-> u.q.heir, value |-> P_OP_DUST]
        /\ outs[5] = [to |-> Donate, value |-> dev]
        /\ Fee(u.tx) = rest + u.quoted - Larger(0, rest)
    BY <1>3, <1>6, ProtectBuilt
  <2>2. rest \in Int /\ pad \in 0..P_OP_DUST /\ dev \in Nat
    BY <1>3, <1>6, ProtectBuilt
  <2> HIDE DEF outs, rest, pad, dev
  <2>3. Fee(u.tx) \in 1 .. u.quoted
    BY <1>3, <1>4, <2>1, <2>2 DEF Larger
  <2>4. outs[1].value + outs[3].value + outs[5].value \in u.value - P_OP_DUST .. u.value
    BY <1>4, <2>1, <2>2 DEF P_OP_DUST
  <2> QED BY <1>2, <1>6, <2>3, <2>4 DEF outs
<1> QED BY <1>5, <1>6

\* A step of send s alone, before the worker has its transaction: what it must keep of it.
LEMMA OwnStepKnown ==
    ASSUME IInv, JInv, NEW s \in Send, NEW new,
           st' = [st EXCEPT ![s] = new], UNCHANGED <<listed, scanned, Network>>,
           work[s] = "none", DOMAIN work' = Send, \A t \in Send : t # s => work'[t] = work[t],
           new.view \subseteq Known, new.q.hours \in Nat,
           \A id \in new.q.claim :
               \E c \in Known : c.id = id /\ (ByHeir(c) => c.lock < mtp),
           new.tx # NoTx => Built(new),
           work'[s] # "none" => new.tx # NoTx /\ Fee(new.tx) > 0 /\ RateOk(new.tx),
           new.pc = "guard" => new.tx # NoTx /\ ~Guard(new.tx, new.q, new.value, new.quoted)
    PROVE  JInv'
<1>1. /\ DOMAIN st' = Send /\ st'[s] = new
      /\ \A t \in Send : t # s => st'[t] = st[t]
  BY DEF IInv, Shaped
<1>2. UNCHANGED <<coins, listed, scanned, accepted, wall, mtp>>
  BY DEF Network
<1>3. Known' = Known
  BY <1>2 DEF Known
<1>4. CoinsKnown'
  BY <1>1, <1>2, <1>3 DEF JInv, CoinsKnown
<1>5. Clocks'
  BY <1>2 DEF JInv, Clocks
<1>6. ClaimsFinal'
  BY <1>1, <1>2, <1>3 DEF JInv, ClaimsFinal
<1>7. AllBuilt'
  <2>1. ASSUME NEW t \in Send
        PROVE  st'[t].q.hours \in Nat /\ (st'[t].tx # NoTx => Built(st'[t]))
    <3>1. CASE t = s
      BY <1>1, <3>1
    <3>2. CASE t # s
      BY <1>1, <3>2 DEF JInv, AllBuilt
    <3> QED BY <3>1, <3>2
  <2> QED BY <2>1 DEF AllBuilt, Built
<1>8. Passed'
  <2>1. ASSUME NEW t \in Send, work'[t] # "none"
        PROVE  st'[t].tx # NoTx /\ Fee(st'[t].tx) > 0 /\ RateOk(st'[t].tx)
    <3>1. CASE t = s
      BY <1>1, <2>1, <3>1
    <3>2. CASE t # s
      BY <1>1, <2>1, <3>2 DEF JInv, Passed
    <3> QED BY <3>1, <3>2
  <2> QED BY <2>1 DEF Passed
<1>9. Refused'
  <2>1. ASSUME NEW t \in Send, st'[t].pc = "guard"
        PROVE  st'[t].tx # NoTx /\ ~Guard(st'[t].tx, st'[t].q, st'[t].value, st'[t].quoted)
    <3>1. CASE t = s
      BY <1>1, <2>1, <3>1
    <3>2. CASE t # s
      BY <1>1, <2>1, <3>2 DEF JInv, Refused
    <3> QED BY <3>1, <3>2
  <2> QED BY <2>1 DEF Refused
<1>10. AcceptedPosted'
  BY <1>1, <1>2 DEF JInv, AcceptedPosted
<1> QED BY <1>4, <1>5, <1>6, <1>7, <1>8, <1>9, <1>10 DEF JInv

\* A step that changes of the sends only where some stand, not to a refusal by the guard.
LEMMA StandKnown ==
    ASSUME IInv, JInv,
           DOMAIN st' = Send,
           \A t \in Send : /\ st'[t].q = st[t].q /\ st'[t].tx = st[t].tx /\ st'[t].view = st[t].view
                           /\ st'[t].value = st[t].value /\ st'[t].quoted = st[t].quoted
                           /\ st'[t].pc = "guard" => st[t].pc = "guard"
    PROVE  /\ AllBuilt' /\ Refused'
           /\ Known \subseteq Known' /\ mtp \in Nat /\ mtp' \in Nat /\ mtp <= mtp' => ClaimsFinal'
           /\ UNCHANGED accepted /\ DOMAIN work' = Send
              /\ (\A t \in Send : (work'[t] = "none") <=> (work[t] = "none"))
                => Passed' /\ AcceptedPosted'
           /\ Known' = Known /\ UNCHANGED <<coins, listed, scanned>> => CoinsKnown'
<1>1. AllBuilt'
  <2>1. ASSUME NEW t \in Send
        PROVE  st'[t].q.hours \in Nat /\ (st'[t].tx # NoTx => Built(st'[t]))
    BY DEF JInv, AllBuilt, Built
  <2> QED BY <2>1 DEF AllBuilt, Built
<1>2. Refused'
  BY DEF JInv, Refused
<1>3. ASSUME Known \subseteq Known', mtp \in Nat, mtp' \in Nat, mtp <= mtp' PROVE ClaimsFinal'
  <2>1. ASSUME NEW t \in Send, NEW id \in st'[t].q.claim
        PROVE  \E c \in Known' : c.id = id /\ (ByHeir(c) => c.lock < mtp')
    <3>1. PICK c \in Known : c.id = id /\ (ByHeir(c) => c.lock < mtp)
      BY <2>1 DEF JInv, ClaimsFinal
    <3>2. c.lock \in Nat /\ c \in Known'
      BY <1>3 DEF JInv, CoinsKnown
    <3> QED BY <1>3, <3>1, <3>2
  <2> QED BY <2>1 DEF ClaimsFinal
<1>4. ASSUME UNCHANGED accepted, \A t \in Send : (work'[t] = "none") <=> (work[t] = "none")
      PROVE  Passed' /\ AcceptedPosted'
  BY <1>4 DEF JInv, Passed, AcceptedPosted
<1>5. ASSUME Known' = Known, UNCHANGED <<coins, listed, scanned>> PROVE CoinsKnown'
  BY <1>5 DEF JInv, CoinsKnown
<1> QED BY <1>1, <1>2, <1>3, <1>4, <1>5

\* A call begins.
LEMMA StartKnown ==
    ASSUME IInv, JInv, NEW s \in Send, NEW r \in Request, Start(s, r)
    PROVE  JInv'
<1> DEFINE pc == IF r.claims THEN "mtp" ELSE "fee"
           new == [Idle EXCEPT !.pc = pc, !.q = Asked(r, {}, r.value), !.view = listed,
                                !.marks = Marks]
<1>1. /\ st[s].pc = "idle" /\ st' = [st EXCEPT ![s] = new]
      /\ UNCHANGED work /\ UNCHANGED <<listed, scanned, Network>>
  BY DEF Start
<1>2. work[s] = "none" /\ DOMAIN work' = Send /\ \A t \in Send : t # s => work'[t] = work[t]
  BY <1>1 DEF IInv, NoneYet, Shaped, Before
<1>3. new.pc = pc /\ new.q = Asked(r, {}, r.value) /\ new.tx = NoTx /\ new.view = listed
  BY DEF Idle
<1>4. new.q.hours \in Nat /\ new.q.claim = {}
  BY <1>3, RequestAssumption DEF Asked
<1>5. new.view \subseteq Known
  BY <1>3 DEF JInv, CoinsKnown
<1>6. new.pc # "guard" /\ work'[s] = "none"
  BY <1>1, <1>2, <1>3
<1> HIDE DEF new, pc
<1> QED BY OwnStepKnown, <1>1, <1>2, <1>3, <1>4, <1>5, <1>6

\* The wait for the median time past is over.
LEMMA TimePastKnown ==
    ASSUME IInv, JInv, NEW s \in Send, TimePast(s)
    PROVE  JInv'
<1>1. st[s].pc = "mtp" /\ UNCHANGED work /\ UNCHANGED <<listed, scanned, Network>>
  BY DEF TimePast
<1> DEFINE Named(C) == {c.id : c \in C}
           New(C) == IF C = {} THEN [st[s] EXCEPT !.pc = "ok"]
                     ELSE [st[s] EXCEPT !.pc = "fee", !.view = listed, !.marks = Marks,
                                        !.q = Asked(st[s].q, Named(C), Total(C))]
<1>2. PICK known \in BOOLEAN : st' = [st EXCEPT ![s] = New(Claimable(st[s].view, known))]
  BY Zenon DEF TimePast
<1> DEFINE claim == Claimable(st[s].view, known)
           q == Asked(st[s].q, Named(claim), Total(claim))
           new == New(claim)
<1>3. st' = [st EXCEPT ![s] = new]
  BY <1>2
<1>4. work[s] = "none" /\ DOMAIN work' = Send /\ \A t \in Send : t # s => work'[t] = work[t]
  BY <1>1 DEF IInv, NoneYet, Shaped, Before
<1>5. q.hours = st[s].q.hours /\ q.claim = Named(claim)
  BY DEF Asked
<1>6. st[s].tx = NoTx /\ DOMAIN st[s] = DOMAIN Idle /\ st[s].q.hours \in Nat /\ work'[s] = "none"
  BY <1>1, <1>4 DEF IInv, NoneYet, Shaped, Before, JInv, AllBuilt
<1>7. ASSUME NEW c \in claim PROVE c \in Known /\ (ByHeir(c) => c.lock < mtp)
  <2>1. c \in st[s].view /\ (ByHeir(c) => Final(c.lock, known))
    BY DEF Claimable, ByHeir
  <2>2. c \in Known /\ c.lock \in Nat
    BY <2>1 DEF JInv, CoinsKnown
  <2>3. wall \in Nat /\ mtp \in Nat /\ mtp >= wall - 1
    BY DEF JInv, Clocks
  <2>4. Final(c.lock, known) => c.lock < mtp
    BY <2>2, <2>3 DEF Final
  <2> QED BY <2>1, <2>2, <2>4
<1> HIDE DEF q, claim
<1>8. CASE claim = {}
  <2>1. new.pc = "ok" /\ new.q = st[s].q /\ new.tx = NoTx /\ new.view = st[s].view
    BY <1>6, <1>8 DEF Idle
  <2>2. new.view \subseteq Known
    BY <2>1 DEF JInv, CoinsKnown
  <2>3. \A id \in new.q.claim :
          \E c \in Known : c.id = id /\ (ByHeir(c) => c.lock < mtp)
    BY <2>1 DEF JInv, ClaimsFinal
  <2> HIDE DEF new
  <2> QED BY OwnStepKnown, <1>1, <1>3, <1>4, <1>6, <2>1, <2>2, <2>3
<1>9. CASE claim # {}
  <2>1. new.pc = "fee" /\ new.q = q /\ new.tx = NoTx /\ new.view = listed
    BY <1>6, <1>9 DEF Idle, q
  <2>2. new.view \subseteq Known
    BY <2>1 DEF JInv, CoinsKnown
  <2>3. \A id \in new.q.claim :
          \E c \in Known : c.id = id /\ (ByHeir(c) => c.lock < mtp)
    BY <1>5, <1>7, <2>1
  <2>4. new.q.hours \in Nat
    BY <1>5, <1>6, <2>1
  <2> HIDE DEF new
  <2> QED BY OwnStepKnown, <1>1, <1>3, <1>4, <1>6, <2>1, <2>2, <2>3, <2>4
<1> QED BY <1>8, <1>9

\* A fee of at least the minimum rate is some satoshis, also with one lost.
LEMMA FeePositive ==
    ASSUME NEW size \in Nat, size >= BaseSize, NEW rate \in Rates
    PROVE  FloorSats(FeeOf(size, rate)) \in Nat \ {0} /\ FeeOf(size, rate) \in Nat
<1>1. rate \in Nat /\ rate >= 1000
  BY RateAssumption
<1>2. PICK more \in Nat : rate = 1000 + more
  BY <1>1
<1>3. size * rate \in Nat /\ size * more \in Nat
  BY <1>1
<1>4. size * rate = size * 1000 + size * more
  BY <1>2
<1>5. size * rate >= 11000
  BY <1>3, <1>4 DEF BaseSize
<1> DEFINE product == size * rate
<1>6. product \in Nat /\ product >= 11000
  BY <1>3, <1>5
<1> HIDE DEF product
<1>7. (product + 999) \div 1000 \in Nat /\ (product + 999) \div 1000 >= 2
  BY <1>6
<1>8. FeeOf(size, rate) \in Nat /\ FeeOf(size, rate) >= 2
  BY <1>7 DEF FeeOf, product
<1> QED BY <1>8 DEF FloorSats

\* The outputs of an estimate are one, two or five.
LEMMA EstimateSized ==
    ASSUME NEW q, NEW S, IsFiniteSet(S), NEW rate \in Rates
    PROVE  LET est == Estimate(q, S, rate)
           IN  SizeOf(est.ins, est.outs) \in Nat /\ SizeOf(est.ins, est.outs) >= BaseSize
<1> DEFINE est == Estimate(q, S, rate)
           skel == Skeleton(S, q, Donate, q.value, rate \div 4)
<1>1. est.ins = S /\ est.outs = IF q.hours > 0 THEN Expand(skel, q.heir) ELSE skel
  BY DEF Estimate, MakeTx
<1>2. DOMAIN skel = 1..1 \/ DOMAIN skel = 1..2
  BY DEF Skeleton
<1>3. DOMAIN Expand(skel, q.heir) = 1..5
  BY DEF Expand, Anatomy
<1> HIDE DEF skel, est
<1>4. PICK outs : outs = est.outs
  OBVIOUS
<1>5. DOMAIN outs = 1..1 \/ DOMAIN outs = 1..2 \/ DOMAIN outs = 1..5
  BY <1>1, <1>2, <1>3, <1>4
<1>6. SizeOf(S, outs) \in Nat /\ SizeOf(S, outs) >= BaseSize
  BY <1>5, SizeType
<1> QED BY <1>1, <1>4, <1>6 DEF est

\* What is selected is of what may be selected, of what was listed.
LEMMA SelectedKnown ==
    ASSUME JInv, NEW s \in Send, NEW need,
           NEW S \in Selections(Candidates(st[s].view, st[s].marks, st[s].q), need)
    PROVE  S \subseteq st[s].view /\ IsFiniteSet(S)
<1>1. S \subseteq st[s].view
  BY DEF Selections, Candidates
<1>2. st[s].view \subseteq Known /\ IsFiniteSet(Known)
  BY DEF JInv, CoinsKnown
<1> QED BY <1>1, <1>2, FS_Subset

\* The transaction is what the builder makes.
LEMMA MakesBuilt ==
    ASSUME JInv, NEW q, q.hours \in Nat, NEW view, NEW S, S \subseteq view,
           NEW value \in Nat, NEW intended \in Nat \ {0}, ~BuilderFails(q, q.to, value, q.hours),
           NEW t, t.q = q, t.view = view, t.value = value, t.quoted = intended,
           t.tx = MakeTx(S, q, q.to, value, intended, q.hours)
    PROVE  Built(t)
<1>1. wall \in Nat
  BY DEF JInv, Clocks
<1>2. /\ t.tx.ins = S /\ t.tx.lock = LockOf(S)
      /\ t.tx.outs = IF q.hours > 0 THEN Expand(Skeleton(S, q, q.to, value, intended), q.heir)
                                    ELSE Skeleton(S, q, q.to, value, intended)
      /\ t.tx.data = IF q.hours > 0 THEN Written(wall + q.hours) ELSE Written(0)
      /\ t.tx.cltv = IF q.hours > 0 THEN wall + q.hours ELSE 0
  BY DEF MakeTx
<1>3. q.hours > 0 => value >= P_OP_MIN_GROSS
  BY DEF BuilderFails, P_OP_MIN_GROSS, P_OP_DUST
<1>4. q.hours > 0 => t.tx.cltv \in Nat /\ t.tx.data = Written(t.tx.cltv)
  BY <1>1, <1>2
<1> QED BY <1>2, <1>3, <1>4 DEF Built

\* The fee has come: the send ends, or its transaction is made and posted if the guard agrees.
LEMMA QuotedKnown ==
    ASSUME IInv, JInv, NEW s \in Send, NEW rate \in Rates, Quoted(s, rate)
    PROVE  JInv'
<1> DEFINE q == st[s].q
           view == st[s].view
           C == Candidates(view, st[s].marks, q)
<1>1. st[s].pc = "fee" /\ UNCHANGED <<listed, scanned, Network>>
  BY DEF Quoted
<1>2. /\ DOMAIN st = Send /\ DOMAIN work = Send /\ work[s] = "none"
      /\ st[s].tx = NoTx /\ DOMAIN st[s] = DOMAIN Idle
  BY <1>1 DEF IInv, NoneYet, Shaped, Before
<1>3. /\ view \subseteq Known /\ q.hours \in Nat
      /\ \A id \in q.claim : \E c \in Known : c.id = id /\ (ByHeir(c) => c.lock < mtp)
  BY DEF JInv, CoinsKnown, AllBuilt, ClaimsFinal
<1>4. ASSUME NEW how \in {"none", "builder", "balance"}, Fails(s, how)
      PROVE  JInv'
  <2> DEFINE new == [st[s] EXCEPT !.pc = how]
  <2>1. st' = [st EXCEPT ![s] = new] /\ work' = work
    BY <1>4 DEF Fails
  <2>2. new.pc = how /\ new.q = q /\ new.tx = NoTx /\ new.view = view
    BY <1>2 DEF Idle
  <2> HIDE DEF new, q, view
  <2> QED BY OwnStepKnown, <1>1, <1>2, <1>3, <2>1, <2>2
<1> DEFINE Makes(value, intended, S) ==
             LET tx == MakeTx(S, q, q.to, value, intended, q.hours)
                 ok == Guard(tx, q, value, intended)
             IN  /\ st' = [st EXCEPT ![s] = [st[s] EXCEPT !.pc = IF ok THEN "push" ELSE "guard",
                                                          !.tx = tx, !.value = value,
                                                          !.quoted = intended]]
                 /\ IF ok THEN Post(s) ELSE UNCHANGED work
<1>5. ASSUME NEW value \in Nat, NEW intended \in Nat \ {0}, ~BuilderFails(q, q.to, value, q.hours),
             NEW S \in Selections(C, value + intended), Makes(value, intended, S)
      PROVE  JInv'
  <2> DEFINE tx == MakeTx(S, q, q.to, value, intended, q.hours)
             ok == Guard(tx, q, value, intended)
             pc == IF ok THEN "push" ELSE "guard"
             new == [st[s] EXCEPT !.pc = pc, !.tx = tx, !.value = value, !.quoted = intended]
  <2>1. st' = [st EXCEPT ![s] = new]
    BY <1>5
  <2>2. DOMAIN work' = Send /\ \A t \in Send : t # s => work'[t] = work[t]
    BY <1>2, <1>5 DEF Post
  <2>3. ~ok => work'[s] = "none"
    BY <1>2, <1>5
  <2>4. S \subseteq view
    BY SelectedKnown
  <2>5. tx # NoTx
    BY MadeIsTx
  <2>6. ok => Fee(tx) > 0 /\ RateOk(tx)
    BY DEF Guard, FeeOk
  <2>7. /\ new.pc = pc /\ new.q = q /\ new.view = view /\ new.tx = tx
        /\ new.value = value /\ new.quoted = intended
    BY <1>2 DEF Idle
  <2>8. PICK t : t = new
    OBVIOUS
  <2> HIDE DEF new
  <2>9. Built(t)
    <3>1. PICK asked, shown : asked = q /\ shown = view
      OBVIOUS
    <3>2. /\ t.q = asked /\ t.view = shown /\ t.value = value /\ t.quoted = intended
          /\ t.tx = MakeTx(S, asked, asked.to, value, intended, asked.hours)
      BY <2>7, <2>8, <3>1
    <3>3. asked.hours \in Nat /\ S \subseteq shown /\ ~BuilderFails(asked, asked.to, value, asked.hours)
      BY <1>3, <1>5, <2>4, <3>1
    <3> QED BY <3>2, <3>3, MakesBuilt
  <2>10. work'[s] # "none" => t.tx # NoTx /\ Fee(t.tx) > 0 /\ RateOk(t.tx)
    BY <2>3, <2>5, <2>6, <2>7, <2>8
  <2>11. t.pc = "guard" => t.tx # NoTx /\ ~Guard(t.tx, t.q, t.value, t.quoted)
    BY <2>5, <2>7, <2>8
  <2> HIDE DEF tx, ok, pc
  <2>12. /\ t.view \subseteq Known /\ t.q.hours \in Nat
         /\ \A id \in t.q.claim : \E c \in Known : c.id = id /\ (ByHeir(c) => c.lock < mtp)
    BY <1>3, <2>7, <2>8
  <2>13. st' = [st EXCEPT ![s] = t]
    BY <2>1, <2>8
  <2> QED BY OwnStepKnown, <1>1, <1>2, <2>2, <2>9, <2>10, <2>11, <2>12, <2>13
<1> DEFINE FeeFor(E) == LET est == Estimate(q, E, rate) IN FeeOf(SizeOf(est.ins, est.outs), rate)
           ValueFor(E) == IF q.claims THEN q.value - FeeFor(E) ELSE q.value
<1>6. \/ \E how \in {"none", "builder", "balance"} : Fails(s, how)
      \/ \E E \in Selections(C, q.value + rate \div 4) :
            /\ ValueFor(E) \in 0 .. Total(view) - FeeFor(E)
            /\ ~BuilderFails(q, q.to, ValueFor(E), q.hours)
            /\ \E S \in Selections(C, ValueFor(E) + FloorSats(FeeFor(E))) :
                  Makes(ValueFor(E), FloorSats(FeeFor(E)), S)
  BY Zenon DEF Quoted
<1>7. ASSUME NEW E \in Selections(C, q.value + rate \div 4),
             ValueFor(E) \in 0 .. Total(view) - FeeFor(E),
             ~BuilderFails(q, q.to, ValueFor(E), q.hours),
             \E S \in Selections(C, ValueFor(E) + FloorSats(FeeFor(E))) :
                Makes(ValueFor(E), FloorSats(FeeFor(E)), S)
      PROVE  JInv'
  <2>1. IsFiniteSet(E)
    BY SelectedKnown
  <2>2. FloorSats(FeeFor(E)) \in Nat \ {0} /\ FeeFor(E) \in Nat
    <3> DEFINE est == Estimate(q, E, rate)
    <3>1. PICK size : size = SizeOf(est.ins, est.outs)
      OBVIOUS
    <3>2. size \in Nat /\ size >= BaseSize
      BY <2>1, <3>1, EstimateSized
    <3>3. FloorSats(FeeOf(size, rate)) \in Nat \ {0} /\ FeeOf(size, rate) \in Nat
      BY <3>2, FeePositive
    <3> QED BY <3>1, <3>3
  <2>3. Total(view) \in Int
    <3>1. IsFiniteSet(view) /\ \A c \in view : c.value \in Int
      BY <1>3, FS_Subset DEF JInv, CoinsKnown
    <3>2. PICK V : V = view
      OBVIOUS
    <3> QED BY <3>1, <3>2, TotalType
  <2>4. PICK value, intended : value = ValueFor(E) /\ intended = FloorSats(FeeFor(E))
    OBVIOUS
  <2>5. value \in Nat /\ intended \in Nat \ {0}
    <3> HIDE DEF ValueFor, FeeFor, view
    <3> QED BY <1>7, <2>2, <2>3, <2>4
  <2> HIDE DEF FeeFor, ValueFor, Makes
  <2>6. \E S \in Selections(C, value + intended) : Makes(value, intended, S)
    BY <1>7, <2>4
  <2>7. ~BuilderFails(q, q.to, value, q.hours)
    BY <1>7, <2>4
  <2> HIDE DEF C, q, view
  <2> QED BY <1>5, <2>5, <2>6, <2>7
<1> QED BY <1>4, <1>6, <1>7

\* An answer only moves the sends that have the transaction.
LEMMA AnswerStands ==
    ASSUME Shaped, NEW s \in Send, NEW how, how # "guard", Answer(s, how)
    PROVE  /\ DOMAIN st' = Send
           /\ \A t \in Send : /\ st'[t].q = st[t].q /\ st'[t].tx = st[t].tx /\ st'[t].view = st[t].view
                              /\ st'[t].value = st[t].value /\ st'[t].quoted = st[t].quoted
                              /\ st'[t].pc = "guard" => st[t].pc = "guard"
<1>1. ASSUME NEW t \in Send
      PROVE  /\ st'[t].q = st[t].q /\ st'[t].tx = st[t].tx /\ st'[t].view = st[t].view
             /\ st'[t].value = st[t].value /\ st'[t].quoted = st[t].quoted
             /\ st'[t].pc = "guard" => st[t].pc = "guard"
  <2>1. DOMAIN st[t] = {"pc", "q", "view", "marks", "tx", "value", "quoted"}
    BY DEF Shaped, Idle
  <2>2. CASE st'[t] = st[t]
    BY <2>2
  <2>3. CASE st'[t] = [st[t] EXCEPT !.pc = how]
    BY <2>1, <2>3
  <2> QED BY <2>2, <2>3, Answered
<1>2. DOMAIN st' = Send
  BY Answered
<1> QED BY <1>1, <1>2

\* What the worker was given the network may take: its outputs become known.
LEMMA TakenKnown ==
    ASSUME IInv, JInv, NEW s \in Send, NetworkTakes(s)
    PROVE  JInv'
<1> DEFINE tx == st[s].tx
           new == {Made(tx, i) : i \in DOMAIN tx.outs}
<1>1. /\ work[s] = "posted" /\ accepted' = accepted \cup {tx}
      /\ UNCHANGED <<listed, scanned, wall, mtp>>
      /\ coins' = IF tx \in accepted THEN coins ELSE (coins \ tx.ins) \cup NewCoins(tx)
  BY DEF NetworkTakes
<1>2. /\ DOMAIN st' = Send
      /\ \A t \in Send : /\ st'[t].q = st[t].q /\ st'[t].tx = st[t].tx /\ st'[t].view = st[t].view
                         /\ st'[t].value = st[t].value /\ st'[t].quoted = st[t].quoted
                         /\ st'[t].pc = "guard" => st[t].pc = "guard"
  <2>1. UNCHANGED st \/ Answer(s, "timeout")
    BY DEF NetworkTakes
  <2>2. CASE UNCHANGED st
    BY <2>2 DEF IInv, Shaped
  <2>3. CASE Answer(s, "timeout")
    BY <2>3, AnswerStands DEF IInv
  <2> QED BY <2>1, <2>2, <2>3
<1>3. DOMAIN work' = Send /\ \A t \in Send : (work'[t] = "none") <=> (work[t] = "none")
  BY <1>1 DEF NetworkTakes, IInv, Shaped
<1>4. PICK u : u = st[s]
  OBVIOUS
<1>5. Built(u) /\ Total(u.tx.ins) \in Int /\ u.q.hours \in Nat
  BY <1>1, <1>4, InsKnown DEF JInv, Passed, AllBuilt
<1>6. /\ tx.cltv \in Nat /\ \A i \in DOMAIN tx.outs : tx.outs[i].value \in Int
      /\ \E n \in Nat : DOMAIN tx.outs = 1..n
  BY <1>4, <1>5, BuiltRecognised
<1>7. \A c \in new : c.value \in Int /\ c.lock \in Nat
  BY <1>6 DEF Made
<1>8. IsFiniteSet(new)
  <2> DEFINE f == [i \in DOMAIN tx.outs |-> Made(tx, i)]
  <2>1. f \in Surjection(DOMAIN tx.outs, new)
    BY DEF Surjection
  <2>2. IsFiniteSet(DOMAIN tx.outs)
    BY <1>6, FS_Interval
  <2>3. PICK D, g, N : D = DOMAIN tx.outs /\ g = f /\ N = new
    OBVIOUS
  <2>4. IsFiniteSet(N)
    BY <2>1, <2>2, <2>3, FS_Surjection
  <2> QED BY <2>3, <2>4
<1>9. Known' = Known \cup new
  BY <1>1 DEF Known, Made
<1>10. coins' \subseteq Known'
  <2>1. NewCoins(tx) \subseteq new
    BY DEF NewCoins
  <2>2. coins \subseteq Known
    BY DEF JInv, CoinsKnown
  <2> QED BY <1>1, <1>9, <2>1, <2>2
<1> HIDE DEF new
<1>11. IsFiniteSet(Known')
  BY <1>8, <1>9, FS_Union DEF JInv, CoinsKnown
<1>12. CoinsKnown'
  BY <1>1, <1>2, <1>7, <1>9, <1>10, <1>11 DEF JInv, CoinsKnown
<1>13. Clocks'
  BY <1>1 DEF JInv, Clocks
<1>14. ClaimsFinal' /\ AllBuilt' /\ Refused'
  <2>1. Known \subseteq Known' /\ mtp \in Nat /\ mtp' \in Nat /\ mtp <= mtp'
    BY <1>1, <1>9 DEF JInv, Clocks
  <2> QED BY <1>2, <2>1, StandKnown
<1>15. Passed'
  BY <1>2, <1>3 DEF JInv, Passed
<1>16. AcceptedPosted'
  BY <1>1, <1>2, <1>3 DEF JInv, AcceptedPosted
<1> QED BY <1>12, <1>13, <1>14, <1>15, <1>16 DEF JInv

\* A step of the worker that only answers.
LEMMA AnswerKnown ==
    ASSUME IInv, JInv, NEW s \in Send, NEW how, how # "guard", Answer(s, how) \/ UNCHANGED st,
           work[s] # "none", work' = [work EXCEPT ![s] = "over"], UNCHANGED <<listed, scanned, Network>>
    PROVE  JInv'
<1>1. /\ DOMAIN st' = Send
      /\ \A t \in Send : /\ st'[t].q = st[t].q /\ st'[t].tx = st[t].tx /\ st'[t].view = st[t].view
                         /\ st'[t].value = st[t].value /\ st'[t].quoted = st[t].quoted
                         /\ st'[t].pc = "guard" => st[t].pc = "guard"
  <2>2. CASE UNCHANGED st
    BY <2>2 DEF IInv, Shaped
  <2>3. CASE Answer(s, how)
    BY <2>3, AnswerStands DEF IInv
  <2> QED BY <2>2, <2>3
<1>2. UNCHANGED <<coins, listed, scanned, accepted, wall, mtp>>
  BY DEF Network
<1>3. Known' = Known
  BY <1>2 DEF Known
<1>4. DOMAIN work' = Send /\ \A t \in Send : (work'[t] = "none") <=> (work[t] = "none")
  BY DEF IInv, Shaped
<1>5. Clocks' /\ mtp \in Nat /\ mtp' \in Nat /\ mtp <= mtp'
  BY <1>2 DEF JInv, Clocks
<1> QED BY <1>1, <1>2, <1>3, <1>4, <1>5, StandKnown DEF JInv

\* A step that leaves the sends, the worker and what the network has taken.
LEMMA OthersKnown ==
    ASSUME IInv, JInv, UNCHANGED <<st, work, accepted>>,
           coins' = coins, listed' \subseteq Known, scanned' \subseteq Known, Clocks', mtp <= mtp'
    PROVE  JInv'
<1>1. Known' = Known
  BY DEF Known
<1>2. CoinsKnown'
  BY <1>1 DEF JInv, CoinsKnown
<1>3. mtp \in Nat /\ mtp' \in Nat
  BY DEF JInv, Clocks
<1>4. ClaimsFinal' /\ AllBuilt' /\ Refused' /\ Passed' /\ AcceptedPosted'
  BY <1>1, <1>3, StandKnown DEF IInv, Shaped
<1> QED BY <1>2, <1>4 DEF JInv

\* The scan finds known coins: the lock it reads is the one that was written.
LEMMA ScanKnown ==
    ASSUME IInv, JInv, ScanNonStdOutputs
    PROVE  JInv'
<1>1. ASSUME NEW tx \in accepted, Recognised(tx)
      PROVE  [Made(tx, 1) EXCEPT !.lock = ReadBack(tx.data)] \in Known
  <2>1. ReadBack(tx.data) = tx.cltv /\ tx.outs[1].to = Protected /\ 1 \in DOMAIN tx.outs
    BY <1>1, RecognisedMade
  <2>2. [Made(tx, 1) EXCEPT !.lock = ReadBack(tx.data)] = Made(tx, 1)
    BY <2>1 DEF Made
  <2>3. Made(tx, 1) \in Known
    BY <2>1 DEF Known
  <2> QED BY <2>2, <2>3
<1>2. scanned' \subseteq Known
  BY <1>1 DEF ScanNonStdOutputs, JInv, CoinsKnown
<1>3. UNCHANGED <<st, work, listed, coins, accepted, wall, mtp>>
  BY DEF ScanNonStdOutputs, Network
<1>4. listed' \subseteq Known /\ Clocks' /\ mtp <= mtp'
  BY <1>3 DEF JInv, CoinsKnown, Clocks
<1> QED BY <1>2, <1>3, <1>4, OthersKnown

\* A refresh lists known coins.
LEMMA RefreshKnown ==
    ASSUME IInv, JInv, Refresh
    PROVE  JInv'
<1>1. listed' \subseteq Known
  BY DEF Refresh, JInv, CoinsKnown
<1>2. UNCHANGED <<st, work, scanned, coins, accepted, wall, mtp>>
  BY DEF Refresh, Network
<1>3. scanned' \subseteq Known /\ Clocks' /\ mtp <= mtp'
  BY <1>2 DEF JInv, CoinsKnown, Clocks
<1> QED BY <1>1, <1>2, <1>3, OthersKnown

\* Time passes.
LEMMA TickKnown ==
    ASSUME IInv, JInv, Tick
    PROVE  JInv'
<1>1. wall \in Nat /\ mtp \in Nat
  BY DEF JInv, Clocks
<1>2. MaxTime \in Nat
  BY BoundAssumption
<1>3. wall' = wall + 1 /\ mtp' \in mtp .. MaxTime + 1 /\ mtp' >= wall' - 1
  BY DEF Tick
<1>4. Clocks' /\ mtp <= mtp'
  BY <1>1, <1>2, <1>3 DEF Clocks
<1>5. UNCHANGED <<st, work, scanned, listed, coins, accepted>>
  BY DEF Tick
<1>6. scanned' \subseteq Known /\ listed' \subseteq Known
  BY <1>5 DEF JInv, CoinsKnown
<1> QED BY <1>4, <1>5, <1>6, OthersKnown

\* What is known of a transaction stays known.
THEOREM KnownInvariance == Spec => []JInv
<1>1. Init => JInv
  <2> SUFFICES ASSUME Init PROVE JInv
    OBVIOUS
  <2>1. Known = Genesis
    BY DEF Init, Known
  <2>2. CoinsKnown
    BY <2>1, GenesisAssumption DEF Init, CoinsKnown, Idle
  <2>3. Clocks
    BY DEF Init, Clocks
  <2>4. \A s \in Send : /\ st[s].q.claim = {} /\ st[s].q.hours = 0 /\ st[s].tx = NoTx
                        /\ st[s].pc = "idle" /\ work[s] = "none"
    BY DEF Init, Idle, Asked, NoRequest
  <2>5. ClaimsFinal /\ AllBuilt /\ Passed /\ Refused
    BY <2>4 DEF ClaimsFinal, AllBuilt, Passed, Refused
  <2>6. AcceptedPosted
    BY DEF Init, AcceptedPosted
  <2> QED BY <2>2, <2>3, <2>5, <2>6 DEF JInv
<1>2. IInv /\ JInv /\ [Next]_vars => JInv'
  <2> SUFFICES ASSUME IInv, JInv, [Next]_vars PROVE JInv'
    OBVIOUS
  <2>1. ASSUME NEW s \in Send, NEW r \in Request, Start(s, r) PROVE JInv'
    BY <2>1, StartKnown
  <2>2. ASSUME NEW s \in Send, TimePast(s) PROVE JInv'
    BY <2>2, TimePastKnown
  <2>3. ASSUME NEW s \in Send, NEW rate \in Rates, Quoted(s, rate) PROVE JInv'
    BY <2>3, QuotedKnown
  <2>4. ASSUME NEW s \in Send, NetworkTakes(s) PROVE JInv'
    BY <2>4, TakenKnown
  <2>5. ASSUME NEW s \in Send, NetworkRefuses(s) PROVE JInv'
    <3>1. /\ work[s] # "none" /\ work' = [work EXCEPT ![s] = "over"] /\ Answer(s, "refused")
          /\ UNCHANGED <<listed, scanned, Network>>
      BY <2>5 DEF NetworkRefuses
    <3> QED BY <3>1, AnswerKnown
  <2>6. ASSUME NEW s \in Send, TxFetched(s) PROVE JInv'
    <3>1. work[s] # "none" /\ work' = [work EXCEPT ![s] = "over"]
          /\ UNCHANGED <<listed, scanned, Network>>
      BY <2>6 DEF TxFetched
    <3>2. PICK how \in {"ok", "unfetched"} : Answer(s, how) \/ UNCHANGED st
      BY <2>6 DEF TxFetched
    <3> QED BY <3>1, <3>2, AnswerKnown
  <2>7. CASE ScanNonStdOutputs
    BY <2>7, ScanKnown
  <2>8. CASE Refresh
    BY <2>8, RefreshKnown
  <2>9. CASE Tick
    BY <2>9, TickKnown
  <2>10. CASE UNCHANGED vars
    <3>1. UNCHANGED <<st, work, coins, listed, scanned, accepted, wall, mtp>>
      BY <2>10 DEF vars
    <3>2. listed' \subseteq Known /\ scanned' \subseteq Known /\ Clocks' /\ mtp <= mtp'
      BY <3>1 DEF JInv, CoinsKnown, Clocks
    <3> QED BY <3>1, <3>2, OthersKnown
  <2> QED BY <2>1, <2>2, <2>3, <2>4, <2>5, <2>6, <2>7, <2>8, <2>9, <2>10 DEF Next
<1> QED BY <1>1, <1>2, Invariance, PTL DEF Spec

\* The guard refuses nothing the builder makes from coins that cover the value and the
\* quoted fee but for the rate and the caps of the fee (verifySignedBtcTx, createTxHex).
THEOREM GuardNeverDisagrees == Spec => []GuardAgrees
<1> QED BY Agrees, KnownInvariance, PTL

\* The scan recognises every PROTECT_OP the network has taken, whatever its value and change,
\* and reads the lock time of its script (createTxHex_BTC_P2SH, scan_NonStdOutputs).
THEOREM ProtectedRecovered == Spec => []Recoverable
<1> QED BY Recovers, KnownInvariance, PTL

\* What the network has taken pays the receiver what was asked, and the miner no more
\* than the quote allows (createTxHex, getUtxo_InputsOutputs), for any values and rates.
THEOREM ExactlyPaid == Spec => []PaysExactly
<1> QED BY Pays, KnownInvariance, PTL
-----------------------------------------------------------------------------
(***************************************************************************)
(* The marks of addresses and the coins listed, across the scan, the       *)
(* refreshes and the sends that took them at some moment.                  *)
(***************************************************************************)

\* The scan adds PROTECT_OP coins only.
ScannedProtected == \A c \in scanned : ~Standard(c)

\* What is listed is standard, or has been scanned.
ListedScanned == \A c \in listed : Standard(c) \/ c \in scanned

\* The marks of some moment tell the PROTECT_OP coins of a view of that moment.
Tells(view, marks) == \A c \in view : Standard(c) <=> c.id \notin marks

MarksTell == \A s \in Send : st[s].pc = "fee" => Tells(st[s].view, st[s].marks)

\* A payment spends standard coins.
PaymentKept ==
    \A s \in Send : st[s].tx # NoTx /\ ~st[s].q.claims => \A c \in st[s].tx.ins : Standard(c)

MInv == ScannedProtected /\ ListedScanned /\ MarksTell /\ PaymentKept

\* At every moment the marks tell what is listed.
LEMMA MarksExact ==
    ASSUME JInv, MInv
    PROVE  Tells(listed, Marks)
<1>1. \A c, d \in Known : c.id = d.id => c = d
  BY IdsDiffer DEF JInv
<1>2. listed \subseteq Known /\ scanned \subseteq Known
  BY DEF JInv, CoinsKnown
<1>3. ASSUME NEW c \in listed, Standard(c) PROVE c.id \notin Marks
  <2> SUFFICES ASSUME NEW d \in scanned, d.id = c.id PROVE FALSE
    BY DEF Marks
  <2>1. d = c
    BY <1>1, <1>2
  <2> QED BY <1>3, <2>1 DEF MInv, ScannedProtected
<1>4. ASSUME NEW c \in listed, ~Standard(c) PROVE c.id \in Marks
  BY <1>4 DEF MInv, ListedScanned, Marks
<1> QED BY <1>3, <1>4 DEF Tells

\* A step of one send keeps the marks right if they tell its view and it spends what it may.
LEMMA OwnStepMarked ==
    ASSUME IInv, MInv, NEW s \in Send, NEW new,
           st' = [st EXCEPT ![s] = new], listed' = listed, scanned' = scanned,
           new.pc = "fee" => Tells(new.view, new.marks),
           new.tx # NoTx /\ ~new.q.claims => \A c \in new.tx.ins : Standard(c)
    PROVE  MInv'
<1>1. st'[s] = new /\ \A t \in Send : t # s => st'[t] = st[t]
  BY DEF IInv, Shaped
<1>2. ScannedProtected' /\ ListedScanned'
  BY DEF MInv, ScannedProtected, ListedScanned
<1>3. MarksTell'
  BY <1>1 DEF MInv, MarksTell, Tells
<1>4. PaymentKept'
  BY <1>1 DEF MInv, PaymentKept
<1> QED BY <1>2, <1>3, <1>4 DEF MInv

\* A call begins, with what is listed and marked at that moment.
LEMMA StartMarked ==
    ASSUME IInv, JInv, MInv, NEW s \in Send, NEW r, Start(s, r)
    PROVE  MInv'
<1> DEFINE pc == IF r.claims THEN "mtp" ELSE "fee"
           new == [Idle EXCEPT !.pc = pc, !.q = Asked(r, {}, r.value), !.view = listed,
                               !.marks = Marks]
<1>1. st' = [st EXCEPT ![s] = new] /\ listed' = listed /\ scanned' = scanned
  BY DEF Start
<1>2. new.view = listed /\ new.marks = Marks /\ new.tx = NoTx
  BY DEF Idle
<1> HIDE DEF new
<1> QED BY <1>1, <1>2, MarksExact, OwnStepMarked

\* The wait for the median time past is over, and the listing is read again with the marks.
LEMMA TimePastMarked ==
    ASSUME IInv, JInv, MInv, NEW s \in Send, TimePast(s)
    PROVE  MInv'
<1> DEFINE Named(C) == {c.id : c \in C}
           New(C) == IF C = {} THEN [st[s] EXCEPT !.pc = "ok"]
                     ELSE [st[s] EXCEPT !.pc = "fee", !.view = listed, !.marks = Marks,
                                        !.q = Asked(st[s].q, Named(C), Total(C))]
<1>1. st[s].pc = "mtp" /\ listed' = listed /\ scanned' = scanned
  BY DEF TimePast
<1>2. PICK claim : st' = [st EXCEPT ![s] = New(claim)]
  BY Zenon DEF TimePast
<1> DEFINE new == New(claim)
<1>3. st' = [st EXCEPT ![s] = new]
  BY <1>2
<1>4. st[s].tx = NoTx /\ DOMAIN st[s] = DOMAIN Idle
  BY <1>1 DEF IInv, NoneYet, Shaped, Before
<1>5. CASE claim = {}
  <2>1. new.pc = "ok" /\ new.tx = NoTx
    BY <1>4, <1>5 DEF Idle
  <2> HIDE DEF new
  <2> QED BY <1>1, <1>3, <2>1, OwnStepMarked
<1>6. CASE claim # {}
  <2>1. new.view = listed /\ new.marks = Marks /\ new.tx = NoTx
    BY <1>4, <1>6 DEF Idle
  <2> HIDE DEF new
  <2> QED BY <1>1, <1>3, <2>1, MarksExact, OwnStepMarked
<1> QED BY <1>5, <1>6

\* The rates have come: what a payment selects is not marked, so it is standard.
LEMMA QuotedMarked ==
    ASSUME IInv, MInv, NEW s \in Send, NEW rate \in Rates, Quoted(s, rate)
    PROVE  MInv'
<1>1. st[s].pc = "fee" /\ listed' = listed /\ scanned' = scanned
  BY DEF Quoted
<1>2. PICK new : Ends(s, new)
  BY QuotedEnds
<1>3. st' = [st EXCEPT ![s] = new] /\ new.pc # "fee"
  BY <1>2 DEF Ends, Before
<1>4. Tells(st[s].view, st[s].marks)
  BY <1>1 DEF MInv, MarksTell
<1>5. ~st[s].q.claims => st[s].q.claim = {}
  BY <1>1 DEF IInv, ClaimNamed
<1>6. new.tx # NoTx /\ ~new.q.claims => \A c \in new.tx.ins : Standard(c)
  BY <1>2, <1>4, <1>5 DEF Ends, Candidates, Tells
<1> QED BY <1>1, <1>3, <1>6, OwnStepMarked

\* An answer, or none, leaves what a send has taken and made.
LEMMA AnswerMarked ==
    ASSUME IInv, MInv, NEW s \in Send, NEW how \in {"ok", "refused", "timeout", "unfetched"},
           Answer(s, how) \/ UNCHANGED st, listed' = listed, scanned' = scanned
    PROVE  MInv'
<1>1. ASSUME NEW t \in Send
      PROVE  /\ st'[t].q = st[t].q /\ st'[t].tx = st[t].tx
             /\ st'[t].view = st[t].view /\ st'[t].marks = st[t].marks
             /\ st'[t].pc = "fee" => st[t].pc = "fee"
  <2>1. DOMAIN st[t] = {"pc", "q", "view", "marks", "tx", "value", "quoted"}
    BY DEF IInv, Shaped, Idle
  <2>2. CASE st'[t] = st[t]
    BY <2>2
  <2>3. CASE st'[t] = [st[t] EXCEPT !.pc = how]
    BY <2>1, <2>3
  <2> QED BY <2>2, <2>3, Answered DEF IInv
<1>2. ScannedProtected' /\ ListedScanned'
  BY DEF MInv, ScannedProtected, ListedScanned
<1>3. MarksTell'
  BY <1>1 DEF MInv, MarksTell, Tells
<1>4. PaymentKept'
  BY <1>1 DEF MInv, PaymentKept
<1> QED BY <1>2, <1>3, <1>4 DEF MInv

\* The scan adds and marks PROTECT_OP coins only, and a refresh lists them only once they are marked.
LEMMA StoreMarked ==
    ASSUME JInv, MInv, ScanNonStdOutputs \/ Refresh
    PROVE  MInv'
<1>1. st' = st
  BY DEF ScanNonStdOutputs, Refresh
<1>2. MarksTell' /\ PaymentKept'
  BY <1>1 DEF MInv, MarksTell, PaymentKept, Tells
<1>3. CASE ScanNonStdOutputs
  <2>1. ASSUME NEW tx \in accepted, Recognised(tx)
        PROVE  ~Standard([Made(tx, 1) EXCEPT !.lock = ReadBack(tx.data)])
    <3>1. tx.outs[1].to = Protected
      BY <2>1, RecognisedMade
    <3> QED BY <3>1 DEF Made, Standard
  <2>2. ScannedProtected'
    BY <1>3, <2>1 DEF ScanNonStdOutputs, MInv, ScannedProtected
  <2>3. ListedScanned'
    BY <1>3 DEF ScanNonStdOutputs, MInv, ListedScanned
  <2> QED BY <1>2, <2>2, <2>3 DEF MInv
<1>4. CASE Refresh
  <2>1. ScannedProtected' /\ ListedScanned'
    BY <1>4 DEF Refresh, MInv, ScannedProtected, ListedScanned
  <2> QED BY <1>2, <2>1 DEF MInv
<1> QED BY <1>3, <1>4

\* The marks tell the PROTECT_OP coins of every view they were taken with.
THEOREM MarksInvariance == Spec => []MInv
<1>1. Init => MInv
  BY DEF Init, Idle, Asked, NoRequest, MInv, ScannedProtected, ListedScanned, MarksTell, PaymentKept
<1>2. IInv /\ JInv /\ MInv /\ [Next]_vars => MInv'
  <2> SUFFICES ASSUME IInv, JInv, MInv, [Next]_vars PROVE MInv'
    OBVIOUS
  <2>1. ASSUME NEW s \in Send, NEW r \in Request, Start(s, r) PROVE MInv'
    BY <2>1, StartMarked
  <2>2. ASSUME NEW s \in Send, TimePast(s) PROVE MInv'
    BY <2>2, TimePastMarked
  <2>3. ASSUME NEW s \in Send, NEW rate \in Rates, Quoted(s, rate) PROVE MInv'
    BY <2>3, QuotedMarked
  <2>4. ASSUME NEW s \in Send, NetworkTakes(s) PROVE MInv'
    BY <2>4, AnswerMarked DEF NetworkTakes
  <2>5. ASSUME NEW s \in Send, NetworkRefuses(s) PROVE MInv'
    BY <2>5, AnswerMarked DEF NetworkRefuses
  <2>6. ASSUME NEW s \in Send, TxFetched(s) PROVE MInv'
    BY <2>6, AnswerMarked DEF TxFetched
  <2>7. CASE ScanNonStdOutputs \/ Refresh
    BY <2>7, StoreMarked
  <2>8. CASE Tick \/ UNCHANGED vars
    <3>1. UNCHANGED <<st, listed, scanned>>
      BY <2>8 DEF Tick, vars
    <3> QED BY <3>1 DEF MInv, ScannedProtected, ListedScanned, MarksTell, PaymentKept, Tells
  <2> QED BY <2>1, <2>2, <2>3, <2>4, <2>5, <2>6, <2>7, <2>8 DEF Next
<1> QED BY <1>1, <1>2, Invariance, KnownInvariance, PTL DEF Spec

\* The marks a send took with the listing (createTxHex) tell the PROTECT_OP coins of its view
\* exactly, whatever is scanned or listed while it waits: a payment spends none of them and a
\* claim only the coins it was for.
THEOREM ProtectedCoinsKept == Spec => []ProtectedKept
<1>1. IInv /\ MInv => ProtectedKept
  BY DEF IInv, ClaimKept, MInv, MarksTell, Tells, PaymentKept, ProtectedKept
<1> QED BY <1>1, Invariance, MarksInvariance, PTL

\* The network takes what the worker is given, while its inputs are unspent.
LEMMA IsTaken == IInv /\ JInv /\ MInv => PostedIsTaken
<1> SUFFICES ASSUME IInv, JInv, MInv, NEW s \in Send, Unspoilt(s),
                    \A c \in st[s].tx.ins : ~LockedToSelf(c)
             PROVE  Valid(st[s].tx)
  BY DEF PostedIsTaken
<1> DEFINE S == st[s].tx.ins
<1>1. st[s].tx # NoTx /\ RateOk(st[s].tx)
  BY DEF JInv, Passed, Unspoilt
<1>2. S \subseteq Known /\ IsFiniteSet(S) /\ Built(st[s])
  BY <1>1, InsKnown
<1>3. st[s].tx.lock = LockOf(S)
  BY <1>2 DEF Built
<1>4. \A c, d \in Known : c.id = d.id => c = d
  BY IdsDiffer DEF JInv
<1>5. coins \subseteq Known /\ \A c \in Known : c.lock \in Nat
  BY DEF JInv, CoinsKnown
<1>6. S \subseteq coins
  BY <1>2, <1>4, <1>5 DEF Unspoilt
<1>7. ASSUME NEW c \in S, c.beneficiary PROVE c.lock < mtp
  <2>0. mtp \in Nat /\ c.lock \in Nat
    BY <1>2, <1>5 DEF JInv, Clocks
  <2>1. CASE c.benefactor
    BY <1>7, <2>0, <2>1 DEF LockedToSelf
  <2>2. CASE ~c.benefactor
    <3>1. c.id \in st[s].q.claim
      BY <1>1, <1>7 DEF IInv, ClaimKept, MInv, PaymentKept, Standard
    <3>2. PICK d \in Known : d.id = c.id /\ (ByHeir(d) => d.lock < mtp)
      BY <3>1 DEF JInv, ClaimsFinal
    <3>3. d = c
      BY <1>2, <1>4, <3>2
    <3> QED BY <1>7, <2>2, <3>2, <3>3 DEF ByHeir
  <2> QED BY <2>1, <2>2
<1> HIDE DEF S
<1>8. \A c \in S : c.lock \in Nat
  BY <1>2, <1>5
<1>9. PICK lock : lock = LockOf(S)
  OBVIOUS
<1>10. /\ lock \in Nat
       /\ \A c \in S : c.beneficiary => lock >= c.lock
       /\ lock # 0 => \E c \in S : c.beneficiary /\ lock = c.lock
  BY <1>2, <1>8, <1>9, LockSuits
<1>11. lock = 0 \/ lock < mtp
  BY <1>7, <1>10
<1> QED BY <1>1, <1>3, <1>6, <1>9, <1>10, <1>11 DEF Valid, S

\* What the worker is given the network takes while its inputs are unspent: the lock times of
\* a claim are final and suit its inputs (p_op_isFinal, createTxHex_BTC_P2SH), but for coins
\* the wallet has left to itself, whose lock is not over.
THEOREM PostedTaken == Spec => []PostedIsTaken
<1> QED BY IsTaken, Invariance, KnownInvariance, MarksInvariance, PTL
=============================================================================
