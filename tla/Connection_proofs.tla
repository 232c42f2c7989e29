------------------------- MODULE Connection_proofs -------------------------
(***************************************************************************)
(* A connected wallet, for any assets, calls, sockets, blocks, logouts,    *)
(* registrations and faults.                                               *)
(*                                                                         *)
(* Loading: a logout ends the calls it catches, and the Geth sockets make  *)
(* a block refresh the wallet once. AddrMonitor: the server of an asset's  *)
(* socket follows the addresses the wallet has registered, and only those. *)
(***************************************************************************)
EXTENDS Loading, AddrMonitor, SequenceTheorems, TLAPS
-----------------------------------------------------------------------------
(* Loading                                                                  *)

\* What the proofs need of the types.
Typed ==
    /\ answers \in Seq({"aborted", "done"})
    /\ DOMAIN phase = Calls
    /\ refreshes \in [Blocks -> Nat] /\ told \in [Blocks -> Nat]

\* What a call caught by the last logout hears first is the abort: it is posted, or it is
\* still pending and nothing has been posted.
CaughtHearAbort ==
    /\ \A c \in cancelled : c \in Calls /\ phase[c] = "waiting"
    /\ cancelled # {} => IF answers = <<>> THEN aborted ELSE Head(answers) = "aborted"

\* No Geth socket has made a block refresh the wallet that the worker has not seen.
UnseenUnused == \A b \in Blocks : refreshes[b] <= told[b] + (IF b \in seen THEN 1 ELSE 0)

IInv == Typed /\ CaughtHearAbort /\ UnseenUnused
-----------------------------------------------------------------------------
\* A step that leaves the calls, the answers and the blocks alone.
LEMMA QuietStep ==
    ASSUME IInv, UNCHANGED <<answers, aborted, cancelled, phase, told, refreshes, seen>>
    PROVE  IInv'
BY DEF IInv, Typed, CaughtHearAbort, UnseenUnused

\* A call begins, or the sockets are set up again: a pending abort and whom it was for are forgotten.
LEMMA SetupStep ==
    ASSUME IInv, InitSockets, UNCHANGED <<answers, told, refreshes, seen>>,
           \/ UNCHANGED phase
           \/ \E c \in Calls : phase[c] = "new" /\ phase' = [phase EXCEPT ![c] = "waiting"]
    PROVE  IInv'
<1>1. Typed'
  BY DEF IInv, Typed
<1>2. \A c \in cancelled : c \in Calls /\ phase[c] = "waiting" /\ phase'[c] = "waiting"
  BY DEF IInv, Typed, CaughtHearAbort
<1>3. CaughtHearAbort'
  BY <1>2 DEF IInv, CaughtHearAbort, InitSockets
<1> QED BY <1>1, <1>3 DEF IInv, UnseenUnused

\* What a tick of the poll posts begins with the abort, if there is one.
LEMMA TickStep ==
    ASSUME IInv, NEW c \in Calls, Tick(c)
    PROVE  IInv'
<1>1. PICK timeout \in BOOLEAN : PollPosts(timeout) # <<>> /\ answers' = answers \o PollPosts(timeout)
  BY DEF Tick
<1> DEFINE posts == PollPosts(timeout)
<1> DEFINE first == IF aborted THEN <<"aborted">> ELSE <<>>
           rest == IF (\A x \in Chains : slot[x] \in {"absent", "open"}) \/ timeout THEN <<"done">> ELSE <<>>
<1>2. posts \in Seq({"aborted", "done"}) /\ (aborted => Head(posts) = "aborted")
  <2>1. posts = first \o rest
    BY DEF PollPosts
  <2>2. (aborted /\ first = <<"aborted">>) \/ (~aborted /\ first = <<>>)
    OBVIOUS
  <2>3. rest = <<"done">> \/ rest = <<>>
    OBVIOUS
  <2> HIDE DEF first, rest, posts
  <2>4. first \in Seq({"aborted", "done"}) /\ rest \in Seq({"aborted", "done"})
    <3>1. <<"aborted">> \in Seq({"aborted", "done"}) /\ <<"done">> \in Seq({"aborted", "done"})
      OBVIOUS
    <3>2. <<>> \in Seq({"aborted", "done"})
      OBVIOUS
    <3> QED BY <2>2, <2>3, <3>1, <3>2, Zenon
  <2>5. posts \in Seq({"aborted", "done"})
    BY <2>1, <2>4
  <2>6. ASSUME aborted PROVE Head(posts) = "aborted"
    <3>1. first = <<"aborted">> /\ Len(first) = 1 /\ first[1] = "aborted"
      BY <2>2, <2>6
    <3> QED BY <2>1, <2>3, <3>1
  <2> QED BY <2>5, <2>6
<1> HIDE DEF posts
<1>3. answers \in Seq({"aborted", "done"})
  BY DEF IInv, Typed
<1>4. answers' \in Seq({"aborted", "done"}) /\ answers' # <<>>
  BY <1>1, <1>2, <1>3 DEF posts
<1>5. Head(answers') = IF answers = <<>> THEN Head(posts) ELSE Head(answers)
  BY <1>1, <1>2, <1>3 DEF posts
<1>6. UNCHANGED <<aborted, cancelled, phase, told, refreshes, seen>>
  BY DEF Tick, loads, heads
<1> QED BY <1>2, <1>4, <1>5, <1>6 DEF IInv, Typed, CaughtHearAbort, UnseenUnused

\* A logout catches the calls that wait, if nothing has been posted.
LEMMA LogoutStep ==
    ASSUME IInv, Logout
    PROVE  IInv'
<1>1. UNCHANGED <<answers, phase, told, refreshes, seen>> /\ aborted'
  BY DEF Logout, loads, heads
<1>2. cancelled' = IF answers = <<>> THEN Waiting ELSE {}
  BY DEF Logout
<1> QED BY <1>1, <1>2 DEF IInv, Typed, CaughtHearAbort, UnseenUnused, Waiting

\* An answer is taken by all that wait.
LEMMA TakeStep ==
    ASSUME IInv, Take
    PROVE  IInv'
<1>1. answers' = Tail(answers) /\ answers # <<>> /\ cancelled' = {} /\ UNCHANGED <<told, refreshes, seen>>
  BY DEF Take, heads
<1>2. DOMAIN phase' = Calls
  BY DEF Take, IInv, Typed
<1> QED BY <1>1, <1>2 DEF IInv, Typed, CaughtHearAbort, UnseenUnused

\* A call that loads goes on: none that waits.
LEMMA LoadStep ==
    ASSUME IInv, NEW c \in Calls, EtherLoaded(c) \/ AllLoaded(c)
    PROVE  IInv'
<1>1. phase[c] # "waiting" /\ \E v : phase' = [phase EXCEPT ![c] = v]
  BY DEF EtherLoaded, AllLoaded
<1>2. UNCHANGED <<answers, aborted, cancelled, told, refreshes, seen>>
  BY DEF EtherLoaded, AllLoaded, sockets, heads
<1> QED BY <1>1, <1>2 DEF IInv, Typed, CaughtHearAbort, UnseenUnused

\* A socket tells of a block: of Geth's, only the first refreshes.
LEMMA BlockStep ==
    ASSUME IInv, NEW b \in Blocks, OnBlockbookBlock(b) \/ \E g \in GethSockets : OnBlock(g, b)
    PROVE  IInv'
<1>1. UNCHANGED <<answers, aborted, cancelled, phase>>
  BY DEF OnBlock, OnBlockbookBlock, sockets, loads
<1>2. refreshes \in [Blocks -> Nat] /\ told \in [Blocks -> Nat] /\ UnseenUnused
  BY DEF IInv, Typed
<1>3. CASE OnBlockbookBlock(b)
  <2>1. /\ told' = [told EXCEPT ![b] = @ + 1] /\ refreshes' = [refreshes EXCEPT ![b] = @ + 1]
        /\ seen' = seen
    BY <1>3 DEF OnBlockbookBlock
  <2>2. refreshes' \in [Blocks -> Nat] /\ told' \in [Blocks -> Nat] /\ UnseenUnused'
    BY <1>2, <2>1 DEF UnseenUnused
  <2> QED BY <1>1, <2>2 DEF IInv, Typed, CaughtHearAbort
<1>4. ASSUME NEW g \in GethSockets, OnBlock(g, b) PROVE IInv'
  <2>1. /\ refreshes' = refreshes \/ (b \notin seen /\ refreshes' = [refreshes EXCEPT ![b] = @ + 1])
        /\ seen' = seen \cup {b} /\ told' = told
    BY <1>4 DEF OnBlock, IsNew
  <2>2. refreshes' \in [Blocks -> Nat] /\ told' \in [Blocks -> Nat] /\ UnseenUnused'
    BY <1>2, <2>1 DEF UnseenUnused
  <2> QED BY <1>1, <2>2 DEF IInv, Typed, CaughtHearAbort
<1> QED BY <1>3, <1>4
-----------------------------------------------------------------------------
\* The calls, the answers and the blocks stay as IInv says, whatever happens.
THEOREM Invariance == Spec => []IInv
<1>1. Init => IInv
  BY DEF Init, IInv, Typed, CaughtHearAbort, UnseenUnused
<1>2. IInv /\ [Next]_vars => IInv'
  <2> SUFFICES ASSUME IInv, [Next]_vars PROVE IInv'
    OBVIOUS
  <2>1. ASSUME NEW c \in Calls, Connect(c) PROVE IInv'
    BY <2>1, SetupStep DEF Connect, heads
  <2>2. CASE Reinit
    BY <2>2, SetupStep DEF Reinit, heads, loads
  <2>3. ASSUME NEW c \in Calls, Retry(c) PROVE IInv'
    BY <2>3, QuietStep DEF Retry, sockets, heads
  <2>4. ASSUME NEW x \in Chains, Open(x) \/ Close(x) PROVE IInv'
    BY <2>4, QuietStep DEF Open, Close, loads, heads
  <2>5. ASSUME NEW b, Finish(b) \/ \E a \in b.todo : Fetched(b, a) \/ NotFetched(b, a) PROVE IInv'
    BY <2>5, QuietStep DEF Finish, Fetched, NotFetched, sockets, heads
  <2>6. ASSUME NEW a \in Watched, Notify(a) PROVE IInv'
    BY <2>6, QuietStep DEF Notify, sockets, heads
  <2>7. ASSUME NEW g \in GethSockets, OpenGeth(g) \/ CloseGeth(g) PROVE IInv'
    BY <2>7, QuietStep DEF OpenGeth, CloseGeth, sockets, loads, heads
  <2>8. CASE UNCHANGED vars
    BY <2>8, QuietStep DEF vars, sockets, loads, heads
  <2> QED
    BY <2>1, <2>2, <2>3, <2>4, <2>5, <2>6, <2>7, <2>8, TickStep, LogoutStep, TakeStep,
       LoadStep, BlockStep DEF Next
<1> QED BY <1>1, <1>2, PTL DEF Spec

\* However many Geth sockets tell of a block, and however often, they refresh the wallet at most
\* once: what exceeds that are Blockbook's own messages.
THEOREM BlocksRefreshOnce == Spec => []GethRefreshesOnce
<1>1. IInv => GethRefreshesOnce
  BY DEF IInv, Typed, UnseenUnused, GethRefreshesOnce
<1> QED BY <1>1, Invariance, PTL

\* A call that a logout catches waiting hears of the abort first, and does not load.
THEOREM LogoutsAbort == Spec => LogoutAborts
<1>1. IInv /\ [Next]_vars => [\A c \in cancelled : phase'[c] # "ether"]_vars
  <2> SUFFICES ASSUME IInv, Next, NEW c \in cancelled PROVE phase'[c] # "ether"
    OBVIOUS
  <2>1. c \in Calls /\ phase[c] = "waiting" /\ DOMAIN phase = Calls
    BY DEF IInv, Typed, CaughtHearAbort
  <2>2. CASE Take
    <3>1. Head(answers) = "aborted"
      BY <2>2 DEF IInv, CaughtHearAbort, Take
    <3> QED BY <2>1, <2>2, <3>1 DEF Take
  <2>3. CASE UNCHANGED phase
    BY <2>1, <2>3
  <2>4. ASSUME NEW d \in Calls, Connect(d) \/ EtherLoaded(d) \/ AllLoaded(d) PROVE phase'[c] # "ether"
    BY <2>1, <2>4 DEF Connect, EtherLoaded, AllLoaded
  <2>5. UNCHANGED phase \/ Take \/ \E d \in Calls : Connect(d) \/ EtherLoaded(d) \/ AllLoaded(d)
    BY DEF Next, Tick, Retry, Reinit, Logout, Open, Close, Finish, Fetched, NotFetched, Notify,
           OpenGeth, CloseGeth, OnBlockbookBlock, OnBlock, loads
  <2> QED BY <2>2, <2>3, <2>4, <2>5
<1> QED BY <1>1, Invariance, PTL DEF Spec, LogoutAborts
-----------------------------------------------------------------------------
(* AddrMonitor                                                              *)

\* the requests of a connection
Requests == [op : {"sub", "unsub"}, id : Int, of : Nat]

\* What the proofs need of the types, and the order of registrations and unsubscriptions.
MonitorTyped ==
    /\ cur \in Socket \cup {0} /\ DOMAIN readyState = Socket /\ messageID \in Nat
    /\ unsub \in 0..MaxReg /\ regs \in 0..MaxReg /\ reg \in {0, regs}
    /\ unsub \in {regs, regs + 1} /\ (reg # 0 => unsub = regs)
    /\ DOMAIN waiting = Reg /\ \A k \in Reg : k > regs => waiting[k] = 0
    /\ reg # 0 => waiting[reg] \in {0, unsub}
    /\ DOMAIN asked = Unsub
    /\ inbox \in Seq(Requests) /\ active \in Nat
    /\ \A i \in 1..Len(inbox) : inbox[i].op = "unsub" => inbox[i].of \in 1..unsub
    /\ acks \subseteq 1..unsub

\* A server without an open connection has nothing.
Silent == ~isOpen => inbox = <<>> /\ active = NoReg /\ acks = {}

\* All that is on its way is the last unsubscribe, and its promise is pending: the registration
\* made since, if any, waits for it.
Unsubscribing ==
    /\ Len(inbox) = 1 /\ inbox[1].op = "unsub" /\ inbox[1].of = unsub
    /\ unsub # 0 /\ asked[unsub] = cur /\ unsub \notin acks
    /\ reg = 0 \/ waiting[reg] = unsub

\* All that is on its way are subscribes of the registered addresses.
Subscribing ==
    /\ inbox # <<>> /\ reg # 0
    /\ \A i \in 1..Len(inbox) : inbox[i].op = "sub" /\ inbox[i].of = reg

\* Nothing is on its way, and only what has yet to be sent is missing.
Quiet ==
    /\ inbox = <<>>
    /\ active = reg \/ (active = NoReg /\ reg # 0 /\ waiting[reg] # 0)

\* Whatever the order in which it is applied, what is on its way leaves the server with the
\* registered addresses.
WillFollow == isOpen /\ ~hurried => Unsubscribing \/ Subscribing \/ Quiet

MonitorInv == MonitorTyped /\ Silent /\ WillFollow

\* A request is added at the end.
LEMMA Sent ==
    ASSUME NEW q \in Seq(Requests), NEW r \in Requests
    PROVE  /\ Append(q, r) \in Seq(Requests) /\ Append(q, r) # <<>>
           /\ Append(q, r)[Len(Append(q, r))] = r
           /\ \A i \in 1..Len(Append(q, r)) : Append(q, r)[i] = r \/ \E j \in 1..Len(q) : q[j] = Append(q, r)[i]
<1>1. Len(q) \in Nat /\ Append(q, r) \in Seq(Requests) /\ Len(Append(q, r)) = Len(q) + 1
  BY AppendProperties
<1>2. Append(q, r)[Len(q) + 1] = r /\ \A i \in 1..Len(q) : Append(q, r)[i] = q[i]
  BY AppendProperties
<1>3. \A i \in 1 .. Len(q) + 1 : i = Len(q) + 1 \/ i \in 1..Len(q)
  BY <1>1
<1>4. Append(q, r) # <<>>
  BY <1>1
<1> QED BY <1>1, <1>2, <1>3, <1>4

\* A request is taken out.
LEMMA Taken ==
    ASSUME NEW q \in Seq(Requests), NEW i \in 1..Len(q)
    PROVE  /\ Remove(q, i) \in Seq(Requests) /\ Len(Remove(q, i)) = Len(q) - 1
           /\ \A k \in 1..Len(Remove(q, i)) : Remove(q, i)[k] = q[IF k < i THEN k ELSE k + 1]
<1> DEFINE left == SubSeq(q, 1, i - 1)
           right == SubSeq(q, i + 1, Len(q))
<1>1. Len(q) \in Nat /\ i \in Nat /\ 1 <= i /\ i <= Len(q) /\ \A k \in 1..Len(q) : q[k] \in Requests
  OBVIOUS
<1>2. /\ left \in Seq(Requests) /\ Len(left) = i - 1
      /\ \A k \in 1 .. i - 1 : left[k] = q[k]
  BY <1>1, SubSeqProperties
<1>3. /\ right \in Seq(Requests) /\ Len(right) = Len(q) - i
      /\ \A k \in 1 .. Len(q) - i : right[k] = q[k + i]
  BY <1>1, SubSeqProperties
<1>4. Remove(q, i) = left \o right
  BY DEF Remove
<1> HIDE DEF left, right
<1>5. /\ left \o right \in Seq(Requests) /\ Len(left \o right) = Len(left) + Len(right)
      /\ \A k \in 1 .. Len(left) + Len(right) :
            (left \o right)[k] = IF k <= Len(left) THEN left[k] ELSE right[k - Len(left)]
  BY <1>2, <1>3, ConcatProperties
<1>6. Remove(q, i) \in Seq(Requests) /\ Len(Remove(q, i)) = Len(q) - 1
  BY <1>1, <1>2, <1>3, <1>4, <1>5
<1>7. ASSUME NEW k \in 1..Len(Remove(q, i)) PROVE Remove(q, i)[k] = q[IF k < i THEN k ELSE k + 1]
  <2>1. k \in 1 .. Len(left) + Len(right) /\ k \in Nat /\ 1 <= k /\ k <= Len(q) - 1
    BY <1>1, <1>2, <1>3, <1>6
  <2>2. CASE k < i
    BY <1>1, <1>2, <1>4, <1>5, <2>1, <2>2
  <2>3. CASE ~(k < i)
    <3>1. k - Len(left) \in 1 .. Len(q) - i /\ (k - Len(left)) + i = k + 1 /\ ~(k <= Len(left))
      BY <1>1, <1>2, <2>1, <2>3
    <3> QED BY <1>3, <1>4, <1>5, <2>1, <2>3, <3>1
  <2> QED BY <2>2, <2>3
<1> QED BY <1>6, <1>7

\* What follows of the types.
LEMMA Counts ==
    ASSUME MonitorTyped
    PROVE  /\ regs \in Nat /\ unsub \in Nat /\ unsub <= MaxReg /\ reg \in Nat /\ messageID \in Nat
           /\ inbox \in Seq(Requests) /\ Len(inbox) \in Nat /\ (inbox = <<>> <=> Len(inbox) = 0)
           /\ 0 \notin Socket /\ 0 \notin Reg
BY BoundsAssumption DEF MonitorTyped, Socket, Reg

\* The server's side of the invariant, of a step that leaves the types to others.
LEMMA StillFollows ==
    ASSUME MonitorInv, MonitorTyped', UNCHANGED <<inbox, active, reg, unsub, hurried>>,
           acks' \subseteq acks, isOpen' = isOpen, isOpen => cur' = cur,
           Unsubscribing => asked'[unsub] = asked[unsub],
           reg # 0 => waiting'[reg] = waiting[reg]
    PROVE  MonitorInv'
<1>1. Silent'
  BY DEF MonitorInv, Silent
<1>2. ASSUME isOpen, Unsubscribing PROVE Unsubscribing'
  BY <1>2 DEF Unsubscribing
<1>3. Subscribing => Subscribing'
  BY DEF Subscribing
<1>4. Quiet => Quiet'
  BY DEF Quiet
<1>5. WillFollow'
  BY <1>2, <1>3, <1>4 DEF MonitorInv, WillFollow
<1> QED BY <1>1, <1>5 DEF MonitorInv

\* The registered addresses are subscribed, on an open socket or not.
LEMMA SubscribeStep ==
    ASSUME MonitorInv, NEW k \in Reg, reg' = k, Subscribe(k), reg \in {0, k}, ~Unsubscribing,
           reg = 0 => ~Subscribing,
           UNCHANGED <<cur, readyState, active, acks, hurried, asked, unsub>>
    PROVE  /\ Silent' /\ WillFollow' /\ inbox' \in Seq(Requests) /\ messageID' \in Nat
           /\ \A i \in 1..Len(inbox') : inbox'[i].op = "unsub" => inbox'[i].of \in 1..unsub
<1>1. isOpen' = isOpen
  BY DEF isOpen
<1>2. CASE isOpen
  <2> DEFINE r == SubRequest(messageID, k)
  <2>1. inbox' = Append(inbox, r) /\ messageID' = messageID + 1
    BY <1>2 DEF Subscribe
  <2>2. r \in Requests /\ r.op = "sub" /\ r.of = k
    BY DEF MonitorInv, MonitorTyped, SubRequest, Requests, Reg
  <2> HIDE DEF r
  <2>3. /\ inbox' \in Seq(Requests) /\ inbox' # <<>>
        /\ \A i \in 1..Len(inbox') : inbox'[i] = r \/ \E j \in 1..Len(inbox) : inbox[j] = inbox'[i]
    BY <2>1, <2>2, Sent DEF MonitorInv, MonitorTyped
  <2>4. ASSUME ~hurried PROVE Subscribing'
    <3>1. Subscribing \/ Quiet
      BY <1>2, <2>4 DEF MonitorInv, WillFollow
    <3>2. \A j \in 1..Len(inbox) : inbox[j].op = "sub" /\ inbox[j].of = k
      <4>1. CASE Subscribing
        BY <4>1 DEF Subscribing
      <4>2. CASE Quiet
        BY <4>2 DEF Quiet
      <4> QED BY <3>1, <4>1, <4>2
    <3>3. reg' # 0
      BY Counts DEF MonitorInv
    <3> QED BY <2>2, <2>3, <3>2, <3>3 DEF Subscribing
  <2>5. \A i \in 1..Len(inbox') : inbox'[i].op = "unsub" => inbox'[i].of \in 1..unsub
    BY <2>2, <2>3 DEF MonitorInv, MonitorTyped
  <2> QED BY <1>1, <1>2, <2>1, <2>3, <2>4, <2>5 DEF WillFollow, Silent, MonitorInv, MonitorTyped
<1>3. CASE ~isOpen
  <2>1. UNCHANGED <<inbox, messageID>>
    BY <1>3 DEF Subscribe
  <2> QED BY <1>1, <1>3, <2>1 DEF MonitorInv, MonitorTyped, Silent, WillFollow
<1> QED BY <1>2, <1>3

\* A connection is gone: the server has nothing.
LEMMA GoneStep ==
    ASSUME MonitorInv, Gone, ~isOpen', cur' \in Socket \cup {0}, DOMAIN readyState' = Socket,
           UNCHANGED <<messageID, monitor>>
    PROVE  MonitorInv'
<1>1. MonitorTyped'
  BY DEF MonitorInv, MonitorTyped, Gone, NoReg, monitor
<1> QED BY <1>1 DEF MonitorInv, Silent, WillFollow, Gone

\* The socket of the slot changes, or one of its states.
LEMMA SocketStep ==
    ASSUME MonitorInv, NEW s \in Socket, Setup(s) \/ RemoteClose(s) \/ OnClose(s)
    PROVE  MonitorInv'
<1>0. s # 0 /\ cur \in Socket \cup {0} /\ DOMAIN readyState = Socket /\ DOMAIN asked = Unsub
  BY Counts DEF MonitorInv, MonitorTyped
<1>1. CASE Setup(s)
  <2>1. /\ cur # 0 => readyState[cur] \in {"closing", "closed"}
        /\ cur' = s /\ readyState' = [readyState EXCEPT ![s] = "connecting"] /\ messageID' = 0
        /\ UNCHANGED <<reg, subId, unsub, regs, waiting, asked, inbox, active, acks, hurried>>
    BY <1>1 DEF Setup, monitor, server
  <2>2. MonitorTyped'
    BY <2>1 DEF MonitorInv, MonitorTyped
  <2>3. ~isOpen /\ ~isOpen'
    BY <1>0, <2>1 DEF isOpen
  <2> QED BY <2>1, <2>2, <2>3 DEF MonitorInv, Silent, WillFollow
<1>2. CASE RemoteClose(s)
  <2>1. /\ readyState' = [readyState EXCEPT ![s] = "closing"] /\ UNCHANGED <<cur, messageID, monitor>>
        /\ IF cur = s THEN Gone ELSE UNCHANGED server
    BY <1>2 DEF RemoteClose
  <2>2. CASE cur = s
    BY <1>0, <2>1, <2>2, GoneStep DEF isOpen
  <2>3. CASE cur # s
    <3>1. isOpen' = isOpen
      BY <1>0, <2>1, <2>3 DEF isOpen
    <3>2. MonitorTyped'
      BY <1>0, <2>1, <2>3 DEF MonitorInv, MonitorTyped, server, monitor
    <3> QED BY <2>1, <2>3, <3>1, <3>2, StillFollows DEF server, monitor
  <2> QED BY <2>2, <2>3
<1>3. CASE OnClose(s)
  <2>1. /\ readyState[s] = "closing" /\ readyState' = [readyState EXCEPT ![s] = "closed"]
        /\ asked' = Settled(s) /\ cur' = (IF cur = s THEN 0 ELSE cur)
        /\ UNCHANGED <<messageID, reg, unsub, regs, waiting, inbox, active, acks, hurried>>
    BY <1>3 DEF OnClose, server
  <2>2. isOpen' = isOpen
    BY <1>0, <2>1 DEF isOpen
  <2>3. isOpen => cur # s /\ cur' = cur
    BY <2>1 DEF isOpen
  <2>4. MonitorTyped'
    BY <1>0, <2>1 DEF MonitorInv, MonitorTyped, Settled
  <2>5. CASE isOpen
    <3>1. ASSUME Unsubscribing PROVE asked'[unsub] = asked[unsub]
      <4>1. unsub \in Unsub /\ asked[unsub] # s
        BY <2>3, <2>5, <3>1, Counts DEF MonitorInv, Unsubscribing, Unsub
      <4> QED BY <2>1, <4>1 DEF Settled
    <3> QED BY <2>1, <2>2, <2>3, <2>4, <3>1, StillFollows
  <2>6. CASE ~isOpen
    BY <2>1, <2>2, <2>4, <2>6 DEF MonitorInv, Silent, WillFollow
  <2> QED BY <2>5, <2>6
<1> QED BY <1>1, <1>2, <1>3

\* A socket opens: the slot's own finds the server silent, a dropped one acts on the slot's.
LEMMA OpenStep ==
    ASSUME MonitorInv, NEW s \in Socket, OnOpen(s)
    PROVE  MonitorInv'
<1> DEFINE live == cur = s \/ isOpen
           r == SubRequest(messageID, reg)
<1>1. /\ readyState[s] = "connecting" /\ readyState' = [readyState EXCEPT ![s] = "open"]
      /\ inbox' = (IF live /\ reg # 0 THEN Append(inbox, r) ELSE inbox)
      /\ hurried => hurried'
      /\ live /\ reg # 0 /\ (\E u \in Unsub : Underway(u)) => hurried'
      /\ messageID' \in {messageID, messageID + 1, messageID + 1 + 1}
      /\ UNCHANGED <<cur, reg, unsub, regs, waiting, asked, active, acks>>
  BY DEF OnOpen, Resubscribes
<1>2. isOpen' = live
  BY <1>1 DEF isOpen, MonitorInv, MonitorTyped, Socket
<1>3. r \in Requests /\ r.op = "sub" /\ r.of = reg
  BY DEF MonitorInv, MonitorTyped, SubRequest, Requests
<1>4. cur = s => ~isOpen
  BY <1>1 DEF isOpen
<1> HIDE DEF r
<1>5. CASE live /\ reg # 0
  <2>1. /\ inbox' \in Seq(Requests) /\ inbox' # <<>>
        /\ \A i \in 1..Len(inbox') : inbox'[i] = r \/ \E j \in 1..Len(inbox) : inbox[j] = inbox'[i]
    BY <1>1, <1>3, <1>5, Sent DEF MonitorInv, MonitorTyped
  <2>2. \A i \in 1..Len(inbox') : inbox'[i].op = "unsub" => inbox'[i].of \in 1..unsub
    BY <1>3, <2>1 DEF MonitorInv, MonitorTyped
  <2>3. MonitorTyped'
    BY <1>1, <2>1, <2>2 DEF MonitorInv, MonitorTyped
  <2>4. ASSUME ~hurried' PROVE Subscribing'
    <3>1. ~Unsubscribing \/ ~isOpen
      <4>1. ASSUME Unsubscribing PROVE \E u \in Unsub : Underway(u)
        BY <4>1, Counts DEF Unsubscribing, Underway, Unsub, MonitorInv
      <4> QED BY <1>1, <1>5, <2>4, <4>1
    <3>2. inbox = <<>> \/ Subscribing
      BY <1>1, <2>4, <3>1 DEF MonitorInv, Silent, WillFollow, Quiet
    <3>3. \A j \in 1..Len(inbox) : inbox[j].op = "sub" /\ inbox[j].of = reg
      BY <3>2 DEF Subscribing
    <3> QED BY <1>1, <1>3, <1>5, <2>1, <3>3 DEF Subscribing
  <2> QED BY <1>2, <1>5, <2>3, <2>4 DEF MonitorInv, Silent, WillFollow
<1>6. CASE ~(live /\ reg # 0)
  <2>1. inbox' = inbox /\ (hurried => hurried')
    BY <1>1, <1>6
  <2>2. MonitorTyped'
    BY <1>1, <2>1 DEF MonitorInv, MonitorTyped
  <2>3. CASE live /\ ~isOpen
    <3>1. Quiet'
      BY <1>1, <1>6, <2>1, <2>3 DEF MonitorInv, Silent, Quiet, NoReg
    <3> QED BY <1>2, <2>2, <2>3, <3>1 DEF MonitorInv, Silent, WillFollow
  <2>4. CASE live <=> isOpen
    <3>1. Unsubscribing' = Unsubscribing /\ Subscribing' = Subscribing /\ Quiet' = Quiet
      BY <1>1, <2>1 DEF Unsubscribing, Subscribing, Quiet
    <3> QED BY <1>1, <1>2, <2>1, <2>2, <2>4, <3>1 DEF MonitorInv, Silent, WillFollow
  <2> QED BY <1>4, <2>3, <2>4
<1> QED BY <1>5, <1>6

\* The wallet registers its addresses, or a registration that waited goes on.
LEMMA RegisterStep ==
    ASSUME MonitorInv, Sub \/ \E k \in Reg : Resume(k)
    PROVE  MonitorInv'
<1>0. /\ regs \in Nat /\ unsub \in Nat /\ unsub <= MaxReg /\ DOMAIN waiting = Reg
      /\ \A k \in Reg : k > regs => waiting[k] = 0
      /\ unsub \in {regs, regs + 1} /\ reg \in {0, regs} /\ (reg # 0 => unsub = regs /\ waiting[reg] \in {0, unsub})
  BY Counts DEF MonitorInv, MonitorTyped
<1>1. CASE Sub
  <2>1. /\ regs < unsub /\ unsub = regs + 1 /\ reg = 0 /\ regs' = regs + 1 /\ reg' = regs + 1 /\ regs + 1 \in Reg
        /\ UNCHANGED <<cur, readyState, unsub, asked, active, acks, hurried>>
    BY <1>0, <1>1 DEF Sub, Reg
  <2>2. CASE UnsubPending
    <3>1. /\ waiting' = [waiting EXCEPT ![regs + 1] = unsub]
          /\ UNCHANGED <<inbox, messageID>>
      BY <1>1, <2>2 DEF Sub
    <3>2. waiting'[reg'] = unsub /\ reg' # 0 /\ unsub # 0
      BY <1>0, <2>1, <3>1
    <3>3. MonitorTyped'
      BY <1>0, <2>1, <3>1, <3>2 DEF MonitorInv, MonitorTyped, Reg
    <3>4. isOpen' = isOpen
      BY <2>1 DEF isOpen
    <3>5. Silent'
      BY <2>1, <3>1, <3>4 DEF MonitorInv, Silent
    <3>6. Unsubscribing => Unsubscribing'
      BY <2>1, <3>1, <3>2 DEF Unsubscribing
    <3>7. Quiet => Quiet'
      BY <2>1, <3>1, <3>2 DEF Quiet, NoReg
    <3>8. ~Subscribing
      BY <2>1 DEF Subscribing
    <3> QED BY <2>1, <3>3, <3>4, <3>5, <3>6, <3>7, <3>8 DEF MonitorInv, WillFollow
  <2>3. CASE ~UnsubPending
    <3>1. Subscribe(regs + 1) /\ UNCHANGED waiting
      BY <1>1, <2>3 DEF Sub
    <3>2. waiting[regs + 1] = 0
      BY <1>0, <2>1
    <3>3. ~Subscribing
      BY <2>1 DEF Subscribing
    <3>4. isOpen => ~Unsubscribing
      BY <2>3 DEF Unsubscribing, UnsubPending, isOpen
    <3>5. /\ Silent' /\ WillFollow' /\ inbox' \in Seq(Requests) /\ messageID' \in Nat
          /\ \A i \in 1..Len(inbox') : inbox'[i].op = "unsub" => inbox'[i].of \in 1..unsub
      <4>1. ~Unsubscribing
        BY <3>4 DEF MonitorInv, Silent, Unsubscribing
      <4> QED BY <2>1, <3>1, <3>3, <4>1, SubscribeStep
    <3>6. MonitorTyped'
      BY <1>0, <2>1, <3>1, <3>2, <3>5 DEF MonitorInv, MonitorTyped, Reg
    <3> QED BY <3>5, <3>6 DEF MonitorInv
  <2> QED BY <2>2, <2>3
<1>2. ASSUME NEW k \in Reg, Resume(k) PROVE MonitorInv'
  <2>1. /\ waiting' = [waiting EXCEPT ![k] = 0] /\ waiting[k] # 0 /\ asked[waiting[k]] = 0
        /\ UNCHANGED <<cur, readyState, reg, unsub, regs, asked, active, acks, hurried>>
    BY <1>2 DEF Resume, Runnable
  <2>2. CASE reg = k
    <3>1. Subscribe(k) /\ k # 0
      BY <1>2, <2>2, Counts DEF Resume, Current, MonitorInv
    <3>2. waiting'[k] = 0 /\ asked[unsub] = 0
      BY <1>0, <2>1, <2>2, <3>1
    <3>3. ~Unsubscribing
      BY <3>2 DEF Unsubscribing, MonitorInv, Silent, isOpen
    <3>4. /\ Silent' /\ WillFollow' /\ inbox' \in Seq(Requests) /\ messageID' \in Nat
          /\ \A i \in 1..Len(inbox') : inbox'[i].op = "unsub" => inbox'[i].of \in 1..unsub
      BY <2>1, <2>2, <3>1, <3>3, SubscribeStep
    <3>5. MonitorTyped'
      BY <1>0, <2>1, <2>2, <3>2, <3>4 DEF MonitorInv, MonitorTyped
    <3> QED BY <3>4, <3>5 DEF MonitorInv
  <2>3. CASE reg # k
    <3>1. UNCHANGED <<subId, inbox, messageID>>
      BY <1>2, <2>3 DEF Resume, Current
    <3>2. reg # 0 => waiting'[reg] = waiting[reg]
      BY <1>0, <2>1, <2>3
    <3>3. MonitorTyped'
      BY <1>0, <2>1, <3>1, <3>2 DEF MonitorInv, MonitorTyped
    <3>4. isOpen' = isOpen
      BY <2>1 DEF isOpen
    <3> QED BY <2>1, <3>1, <3>2, <3>3, <3>4, StillFollows
  <2> QED BY <2>2, <2>3
<1> QED BY <1>1, <1>2

\* The wallet unregisters its addresses.
LEMMA UnregisterStep ==
    ASSUME MonitorInv, UnsubAddr
    PROVE  MonitorInv'
<1>0. /\ regs \in Nat /\ unsub \in Nat /\ messageID \in Nat /\ inbox \in Seq(Requests) /\ DOMAIN asked = Unsub
  BY DEF MonitorInv, MonitorTyped
<1>1. /\ unsub < MaxReg /\ unsub = regs /\ unsub' = unsub + 1 /\ reg' = 0 /\ unsub + 1 \in Unsub
      /\ hurried' = (hurried \/ inbox # <<>>)
      /\ UNCHANGED <<cur, readyState, regs, waiting, active, acks>>
  BY <1>0, BoundsAssumption DEF UnsubAddr, Unsub
<1>2. isOpen' = isOpen
  BY <1>1 DEF isOpen
<1>3. CASE isOpen
  <2> DEFINE r == UnsubRequest(messageID, unsub + 1)
  <2>1. inbox' = Append(inbox, r) /\ messageID' = messageID + 1 /\ asked' = [asked EXCEPT ![unsub + 1] = cur]
    BY <1>3 DEF UnsubAddr
  <2>2. r \in Requests /\ r.op = "unsub" /\ r.of = unsub + 1
    BY <1>0 DEF UnsubRequest, Requests
  <2> HIDE DEF r
  <2>3. /\ inbox' \in Seq(Requests) /\ inbox'[Len(inbox')] = r /\ Len(inbox') = Len(inbox) + 1
        /\ \A i \in 1..Len(inbox') : inbox'[i] = r \/ \E j \in 1..Len(inbox) : inbox[j] = inbox'[i]
    BY <1>0, <2>1, <2>2, Sent, AppendProperties
  <2>4. \A i \in 1..Len(inbox') : inbox'[i].op = "unsub" => inbox'[i].of \in 1..unsub + 1
    <3>1. \A j \in 1..Len(inbox) : inbox[j].op = "unsub" => inbox[j].of \in 1..unsub + 1
      BY <1>0 DEF MonitorInv, MonitorTyped
    <3>2. unsub + 1 \in 1..unsub + 1
      BY <1>0
    <3> QED BY <2>2, <2>3, <3>1, <3>2
  <2>5. acks' \subseteq 1..unsub'
    BY <1>0, <1>1 DEF MonitorInv, MonitorTyped
  <2>6. MonitorTyped'
    BY <1>0, <1>1, <2>1, <2>3, <2>4, <2>5, BoundsAssumption DEF MonitorInv, MonitorTyped
  <2>7. ASSUME ~hurried' PROVE Unsubscribing'
    <3>1. inbox = <<>> /\ Len(inbox) = 0
      BY <1>1, <2>7
    <3>2. Len(inbox') = 1 /\ inbox'[1] = r
      BY <2>3, <3>1
    <3>3. unsub + 1 \notin acks /\ unsub + 1 # 0
      BY <1>0 DEF MonitorInv, MonitorTyped
    <3> QED BY <1>1, <2>1, <2>2, <3>2, <3>3, <1>0 DEF Unsubscribing
  <2> QED BY <1>2, <1>3, <2>6, <2>7 DEF MonitorInv, Silent, WillFollow
<1>4. CASE ~isOpen
  <2>1. UNCHANGED <<asked, inbox, messageID>>
    BY <1>4 DEF UnsubAddr
  <2>2. inbox = <<>> /\ acks = {}
    BY <1>4 DEF MonitorInv, Silent
  <2>3. MonitorTyped'
    BY <1>0, <1>1, <2>1, <2>2, BoundsAssumption DEF MonitorInv, MonitorTyped
  <2> QED BY <1>1, <1>2, <1>4, <2>1, <2>3 DEF MonitorInv, Silent, WillFollow
<1> QED BY <1>3, <1>4

\* The unsubscribe is acknowledged, or its timer runs out.
LEMMA AnswerStep ==
    ASSUME MonitorInv, NEW u \in Unsub, AckUnsub(u) \/ UnsubTimeout(u)
    PROVE  MonitorInv'
<1>1. /\ asked' = [asked EXCEPT ![u] = 0] /\ acks' \subseteq acks
      /\ UNCHANGED <<cur, readyState, messageID, reg, unsub, regs, waiting, inbox, active>>
  BY DEF AckUnsub, UnsubTimeout, connection
<1>2. MonitorTyped'
  BY <1>1 DEF MonitorInv, MonitorTyped
<1>3. isOpen' = isOpen
  BY <1>1 DEF isOpen
<1>4. Unsubscribing => Underway(unsub) /\ unsub \notin acks
  <2> SUFFICES ASSUME Unsubscribing PROVE Underway(unsub) /\ unsub \notin acks
    OBVIOUS
  <2>1. 1 \in 1..Len(inbox)
    BY DEF Unsubscribing
  <2> QED BY <2>1 DEF Unsubscribing, Underway
<1>5. CASE Unsubscribing /\ u = unsub
  <2>1. hurried'
    BY <1>4, <1>5 DEF AckUnsub, UnsubTimeout
  <2> QED BY <1>1, <1>2, <1>3, <2>1 DEF MonitorInv, Silent, WillFollow
<1>6. CASE ~(Unsubscribing /\ u = unsub)
  <2>1. hurried => hurried'
    BY DEF AckUnsub, UnsubTimeout
  <2>2. Unsubscribing => Unsubscribing'
    BY <1>1, <1>6 DEF Unsubscribing
  <2>3. Subscribing' = Subscribing /\ Quiet' = Quiet
    BY <1>1 DEF Subscribing, Quiet
  <2> QED BY <1>1, <1>2, <1>3, <2>1, <2>2, <2>3 DEF MonitorInv, Silent, WillFollow
<1> QED BY <1>5, <1>6

\* Whatever request the server comes to, it ends with what the invariant says.
LEMMA ServeStep ==
    ASSUME MonitorInv, NEW i \in 1..Len(inbox), Serve(i)
    PROVE  MonitorInv'
<1>1. /\ isOpen /\ inbox' = Remove(inbox, i) /\ inbox \in Seq(Requests)
      /\ active' = (IF inbox[i].op = "sub" THEN inbox[i].of ELSE NoReg)
      /\ acks' = (IF inbox[i].op = "sub" THEN acks ELSE acks \cup {inbox[i].of})
      /\ inbox[i].op \in {"sub", "unsub"} /\ inbox[i].of \in Nat
      /\ UNCHANGED <<cur, readyState, messageID, reg, subId, unsub, regs, waiting, asked, hurried>>
  <2>1. inbox \in Seq(Requests) /\ inbox[i] \in Requests
    BY DEF MonitorInv, MonitorTyped
  <2> QED BY <2>1 DEF Serve, connection, monitor, Requests
<1>2. Len(inbox) \in Nat /\ Len(inbox) >= 1 /\ i \in Nat
  BY <1>1
<1>3. /\ inbox' \in Seq(Requests) /\ Len(inbox') = Len(inbox) - 1
      /\ \A k \in 1..Len(inbox') : inbox'[k] = inbox[IF k < i THEN k ELSE k + 1]
  BY <1>1, Taken
<1>4. \A k \in 1..Len(inbox') : \E j \in 1..Len(inbox) : inbox'[k] = inbox[j]
  BY <1>2, <1>3
<1>5. MonitorTyped'
  <2>1. \A k \in 1..Len(inbox') : inbox'[k].op = "unsub" => inbox'[k].of \in 1..unsub
    BY <1>4 DEF MonitorInv, MonitorTyped
  <2>2. acks' \subseteq 1..unsub
    BY <1>1 DEF MonitorInv, MonitorTyped
  <2>3. active' \in Nat
    BY <1>1 DEF NoReg
  <2> QED BY <1>1, <1>3, <2>1, <2>2, <2>3 DEF MonitorInv, MonitorTyped
<1>6. isOpen'
  BY <1>1 DEF isOpen
<1>7. ASSUME Unsubscribing PROVE Quiet'
  <2>1. i = 1 /\ inbox' = <<>> /\ active' = 0
    BY <1>1, <1>2, <1>3, <1>7 DEF Unsubscribing, NoReg
  <2> QED BY <1>1, <1>7, <2>1 DEF Unsubscribing, Quiet, NoReg
<1>8. ASSUME Subscribing PROVE Subscribing' \/ Quiet'
  <2>1. active' = reg
    BY <1>1, <1>8 DEF Subscribing
  <2>2. CASE inbox' = <<>>
    BY <1>1, <2>1, <2>2 DEF Quiet
  <2>3. CASE inbox' # <<>>
    BY <1>1, <1>4, <1>8, <2>3 DEF Subscribing
  <2> QED BY <2>2, <2>3
<1>9. ~Quiet
  BY <1>2 DEF Quiet
<1> QED BY <1>1, <1>5, <1>6, <1>7, <1>8, <1>9 DEF MonitorInv, Silent, WillFollow

\* MonitorInv is inductive, in whatever order the server applies the requests of a connection.
THEOREM MonitorInvariance == MonitorSpec => []MonitorInv
<1>1. MonitorInit => MonitorInv
  <2> SUFFICES ASSUME MonitorInit PROVE MonitorInv
    OBVIOUS
  <2>1. MonitorTyped
    BY BoundsAssumption DEF MonitorInit, MonitorTyped, NoReg
  <2>2. ~isOpen /\ Silent
    BY DEF MonitorInit, isOpen, Silent
  <2> QED BY <2>1, <2>2 DEF MonitorInv, WillFollow
<1>2. ASSUME MonitorInv, [MonitorNext]_monitorVars PROVE MonitorInv'
  <2>1. ASSUME Disconnect PROVE MonitorInv'
    BY <1>2, <2>1, GoneStep DEF Disconnect, isOpen, MonitorInv, MonitorTyped
  <2>2. ASSUME UNCHANGED monitorVars PROVE MonitorInv'
    <3>1. UNCHANGED <<cur, readyState, messageID, reg, subId, unsub, regs, waiting, asked, inbox, active,
                      acks, hurried>>
      BY <2>2 DEF monitorVars
    <3>2. MonitorTyped' /\ isOpen' = isOpen
      BY <1>2, <3>1 DEF MonitorInv, MonitorTyped, isOpen
    <3> QED BY <1>2, <3>1, <3>2, StillFollows
  <2> QED BY <1>2, <2>1, <2>2, SocketStep, OpenStep, RegisterStep, UnregisterStep, AnswerStep, ServeStep
          DEF MonitorNext, Handler
<1> QED BY <1>1, <1>2, PTL DEF MonitorSpec

\* ServerFollows, for any number of registrations and connections and a server that applies the
\* requests of a connection in any order: re-registering, reconnecting and a lost acknowledgement
\* leave the server subscribed for the registered addresses as soon as nothing is under way on an
\* open connection, unless the worker went on before the server had come to its last unsubscribe.
THEOREM ServerKeepsUp == MonitorSpec => []ServerFollows
<1>1. MonitorInv => ServerFollows
  <2> SUFFICES ASSUME MonitorInv, isOpen, ~Settling, ~hurried PROVE active = reg
    BY DEF ServerFollows
  <2>1. inbox = <<>>
    BY DEF Settling
  <2>2. ~Unsubscribing /\ ~Subscribing
    BY <2>1 DEF Unsubscribing, Subscribing
  <2>3. Quiet
    BY <2>2 DEF MonitorInv, WillFollow
  <2> QED BY <2>3 DEF Quiet, Settling
<1> QED BY <1>1, MonitorInvariance, PTL

\* OnlyCurrentSubscribes: whatever overlapped, and in whatever order the server answers, the worker
\* only sends a subscribe for the registration in force.
THEOREM StaleNeverSubscribes == MonitorSpec => OnlyCurrentSubscribes
<1> DEFINE fresh(r) == r.op = "sub" => r.of = reg'
           step == \A i \in 1..Len(inbox') : (\A j \in 1..Len(inbox) : inbox[j] # inbox'[i]) => fresh(inbox'[i])
<1>1. ASSUME MonitorInv, [MonitorNext]_monitorVars PROVE step
  <2>0. inbox \in Seq(Requests) /\ messageID \in Nat /\ regs \in Nat /\ unsub \in Nat /\ reg \in Nat
    BY <1>1 DEF MonitorInv, MonitorTyped
  <2>1. ASSUME UNCHANGED inbox \/ inbox' = <<>> PROVE step
    BY <2>1
  <2>2. ASSUME NEW r \in Requests, inbox' = Append(inbox, r), fresh(r) PROVE step
    BY <2>0, <2>2, Sent
  <2>3. ASSUME NEW k \in Nat, reg' = k, Subscribe(k) PROVE step
    <3>1. SubRequest(messageID, k) \in Requests /\ fresh(SubRequest(messageID, k))
      BY <2>0, <2>3 DEF SubRequest, Requests
    <3> HIDE DEF fresh
    <3>2. UNCHANGED inbox \/ inbox' = Append(inbox, SubRequest(messageID, k))
      BY <2>3 DEF Subscribe
    <3> QED BY <2>1, <2>2, <3>1, <3>2
  <2>4. ASSUME Sub PROVE step
    <3>1. reg' = regs + 1 /\ regs + 1 \in Nat /\ (UNCHANGED inbox \/ Subscribe(regs + 1))
      BY <2>0, <2>4 DEF Sub
    <3> QED BY <2>1, <2>3, <3>1
  <2>5. ASSUME NEW k \in Reg, Resume(k) PROVE step
    <3>1. k \in Nat /\ (UNCHANGED inbox \/ (reg' = k /\ Subscribe(k)))
      BY <2>5 DEF Resume, Current, Reg
    <3> QED BY <2>1, <2>3, <3>1
  <2>6. ASSUME UnsubAddr PROVE step
    <3>1. UnsubRequest(messageID, unsub + 1) \in Requests /\ fresh(UnsubRequest(messageID, unsub + 1))
      BY <2>0 DEF UnsubRequest, Requests
    <3> HIDE DEF fresh
    <3>2. UNCHANGED inbox \/ inbox' = Append(inbox, UnsubRequest(messageID, unsub + 1))
      BY <2>6 DEF UnsubAddr
    <3> QED BY <2>1, <2>2, <3>1, <3>2
  <2>7. ASSUME NEW s \in Socket, OnOpen(s) PROVE step
    <3>1. UNCHANGED inbox \/ inbox' = Append(inbox, SubRequest(messageID, reg))
      BY <2>7 DEF OnOpen
    <3>2. SubRequest(messageID, reg) \in Requests /\ fresh(SubRequest(messageID, reg))
      BY <2>0, <2>7 DEF SubRequest, Requests, OnOpen
    <3> HIDE DEF fresh
    <3> QED BY <2>1, <2>2, <3>1, <3>2
  <2>8. ASSUME NEW i \in 1..Len(inbox), Serve(i) PROVE step
    <3>1. inbox' = Remove(inbox, i)
      BY <2>8 DEF Serve
    <3>2. /\ Len(inbox') = Len(inbox) - 1 /\ Len(inbox) \in Nat
          /\ \A k \in 1..Len(inbox') : inbox'[k] = inbox[IF k < i THEN k ELSE k + 1]
      BY <2>0, <3>1, Taken
    <3>3. \A k \in 1..Len(inbox') : \E j \in 1..Len(inbox) : inbox[j] = inbox'[k]
      BY <3>2
    <3> QED BY <3>3
  <2>9. ASSUME \/ \E s \in Socket : Setup(s) \/ RemoteClose(s) \/ OnClose(s)
               \/ Disconnect \/ (\E u \in Unsub : AckUnsub(u) \/ UnsubTimeout(u))
               \/ UNCHANGED monitorVars
        PROVE  step
    <3>1. UNCHANGED inbox \/ inbox' = <<>>
      BY <2>9 DEF Setup, RemoteClose, OnClose, Disconnect, Gone, AckUnsub, UnsubTimeout, server, monitorVars
    <3> QED BY <2>1, <3>1
  <2> HIDE DEF step
  <2> QED BY <1>1, <2>4, <2>5, <2>6, <2>7, <2>8, <2>9 DEF MonitorNext, Handler
<1>2. ASSUME MonitorInv, [MonitorNext]_monitorVars
      PROVE  [\A i \in 1..Len(inbox') :
                /\ inbox'[i].op = "sub"
                /\ \A j \in 1..Len(inbox) : inbox[j] # inbox'[i]
                => inbox'[i].of = reg']_monitorVars
  BY <1>1, <1>2
<1> QED BY <1>2, MonitorInvariance, PTL DEF MonitorSpec, OnlyCurrentSubscribes
=============================================================================
