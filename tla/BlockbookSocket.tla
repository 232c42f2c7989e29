-------------------------- MODULE BlockbookSocket --------------------------
(***************************************************************************)
(* Request/response over the Blockbook websockets of ONE asset symbol x    *)
(* (app-worker/worker-blockbook.js): the slot self.bb_Sockets[x], the      *)
(* socket objects that come and go in it, the pending map that pairs a     *)
(* numbered request with its callback, and the limiter that caps and       *)
(* queues the heavy requests.                                              *)
(*                                                                         *)
(* The worker is single threaded: a handler runs to completion, so each    *)
(* handler (send, onopen, onmessage, onclose, a timer) is one action.      *)
(* What interleaves is the callers, the timers, the server and the life    *)
(* of several socket objects: a replaced socket keeps its timers, and its  *)
(* close event comes after its successor is in use, with ids that start    *)
(* again at 0.                                                             *)
(***************************************************************************)
EXTENDS Integers, Sequences, FiniteSets

CONSTANTS
    Request,   \* calls of isosocket_send_Blockbook, each made once
    Heavy,     \* those whose method is in BB_HEAVY_METHODS
    Socket,    \* websocket objects
    NoSocket,  \* "undefined" in the slot
    Cap,       \* bb_config.heavyMaxInFlight
    MaxId      \* bound: no subscription is sent once this id is reached

ASSUME HeavyAssumption == Heavy \subseteq Request
ASSUME CapAssumption == Cap \in Nat \ {0}
ASSUME MaxIdAssumption == MaxId \in Nat
ASSUME NoSocketAssumption == NoSocket \notin Socket
ASSUME ErrorAssumption == "error" \notin Request

VARIABLES
    \* the symbol's entry in the worker's globals
    cur,        \* self.bb_Sockets[x]
    messageID,  \* self.bb_Sockets_messageID[x]
    \* per socket object
    readyState, \* "none" before it is constructed
    pending,    \* socket.bb_pending: pairs <<id, request>>
    inFlight,   \* socket.bb_heavy.inFlight
    queue,      \* socket.bb_heavy.queue
    \* outside the worker
    wire,       \* requests of a socket the server has not answered yet
    submitted,  \* requests the callers have made
    answers     \* what each request's callback was called with, in order

vars == <<cur, messageID, readyState, pending, inFlight, queue, wire,
          submitted, answers>>

ReadyState == {"none", "connecting", "open", "closing", "closed"}
Answer == Request \cup {"error"}   \* the server's reply to a request, or an error

-----------------------------------------------------------------------------
(* Helpers *)

SocketsIn(states) == {s \in Socket : readyState[s] \in states}

\* the slot holds a socket, and it is open
isOpen == cur \in SocketsIn({"open"})

\* mutant: one pending map for the symbol, whichever socket the frame came on
WaitingOfSymbol(s, id) == IF cur = NoSocket THEN {} ELSE {p \in pending[cur] : p[1] = id}

\* the callbacks filed under an id in a socket's own pending map
Waiting(s, id) == {p \in pending[s] : p[1] = id}

\* mutant: every request that fails on close gives a slot back
AllOf(pairs) == pairs

HeavyOf(pairs) == {p \in pairs : p[2] \in Heavy}

\* mutant: drainHeavy does not look at the socket before it sends
AlwaysLive(s) == TRUE

\* a socket the limiter may still send on
Live(s) == cur = s /\ readyState[s] = "open"

Lesser(m, n) == IF m <= n THEN m ELSE n

\* mutant: the slot that is being freed is counted twice
DrainCountOffByOne(s, inflight) ==
    IF Live(s) THEN Lesser(Len(queue[s]), Cap - inflight + 1) ELSE Len(queue[s])

\* mutant: a freed slot is left to the next send
NoDrain(s, inflight) == IF Live(s) THEN 0 ELSE Len(queue[s])

\* how many queued requests drainHeavy takes when inflight slots are in use:
\* up to the free slots while it can send, all of them once it cannot
\* (refusing one occupies no slot)
DrainCount(s, inflight) ==
    IF Live(s) THEN Lesser(Len(queue[s]), Cap - inflight)
    ELSE IF inflight < Cap THEN Len(queue[s]) ELSE 0

\* the pairs sendNow files for the first k queued requests
Numbered(s, k) == {<<messageID + i - 1, queue[s][i]>> : i \in 1..k}

\* mutant: the queue is swapped for an empty one, as in failAll
DropAll(q, k) == IF k = 0 THEN q ELSE <<>>

Drop(q, k) == SubSeq(q, k + 1, Len(q))

\* callback(data) for every request of rs
Call(rs, data) == [r \in Request |-> IF r \in rs THEN Append(answers[r], data)
                                     ELSE answers[r]]
-----------------------------------------------------------------------------
Init ==
    /\ cur = NoSocket
    /\ messageID = 0
    /\ readyState = [s \in Socket |-> "none"]
    /\ pending = [s \in Socket |-> {}]
    /\ inFlight = [s \in Socket |-> 0]
    /\ queue = [s \in Socket |-> <<>>]
    /\ wire = [s \in Socket |-> {}]
    /\ submitted = {}
    /\ answers = [r \in Request |-> <<>>]

(* isosocket_Setup_Blockbook: an empty slot, or one that holds a closing or *)
(* closed socket, gets a new socket object; ids restart at 0 and the new    *)
(* socket gets a pending map of its own.                                    *)
Setup(s) ==
    /\ cur \notin SocketsIn({"connecting", "open"})
    /\ readyState[s] = "none"
    /\ cur' = s
    /\ readyState' = [readyState EXCEPT ![s] = "connecting"]
    /\ messageID' = 0
    /\ pending' = [pending EXCEPT ![s] = {}]
    /\ UNCHANGED <<inFlight, queue, wire, submitted, answers>>

(* DISCONNECT_BLOCKBOOK_ISOSOCKETS: the slots are emptied before            *)
(* isosocket_Disconnect_Blockbook looks at them, so that the socket is      *)
(* dropped as it is, never closed.                                          *)
Disconnect ==
    /\ cur # NoSocket
    /\ cur' = NoSocket
    /\ UNCHANGED <<messageID, readyState, pending, inFlight, queue, wire, submitted, answers>>

(* socket.onopen: resubscribes the addresses and the blocks, each of which  *)
(* takes an id and no entry in the pending map. A socket that was dropped   *)
(* before it opened subscribes on the one in the slot, if that is open.     *)
OnOpen(s) ==
    /\ readyState[s] = "connecting"
    /\ readyState' = [readyState EXCEPT ![s] = "open"]
    /\ \E subs \in (IF cur = s \/ isOpen THEN 0..2 ELSE {0}) : messageID' = messageID + subs
    /\ UNCHANGED <<cur, pending, inFlight, queue, wire, submitted, answers>>

(* isosocket_sub_Blockbook, from the address monitors.                      *)
Subscribe ==
    /\ isOpen
    /\ messageID < MaxId
    /\ messageID' = messageID + 1
    /\ UNCHANGED <<cur, readyState, pending, inFlight, queue, wire, submitted, answers>>

(* The server or the network ends a connection: the socket is closing, its  *)
(* close event has not been delivered.                                      *)
RemoteClose(s) ==
    /\ readyState[s] \in {"connecting", "open"}
    /\ readyState' = [readyState EXCEPT ![s] = "closing"]
    /\ UNCHANGED <<cur, messageID, pending, inFlight, queue, wire, submitted, answers>>

(* socket.onclose: isosocket_failAll_Blockbook empties the queue, then the  *)
(* pending map, calling every callback with an error (a heavy one frees its *)
(* slot on the way and finds the queue empty); the slot is cleared unless a *)
(* newer socket is in it.                                                   *)
OnClose(s) ==
    /\ readyState[s] = "closing"
    /\ readyState' = [readyState EXCEPT ![s] = "closed"]
    /\ queue' = [queue EXCEPT ![s] = <<>>]
    /\ pending' = [pending EXCEPT ![s] = {}]
    /\ inFlight' = [inFlight EXCEPT ![s] = @ - Cardinality(HeavyOf(pending[s]))]
    /\ answers' = Call({queue[s][i] : i \in 1..Len(queue[s])} \cup {p[2] : p \in pending[s]},
                       "error")
    /\ cur' = IF cur = s THEN NoSocket ELSE cur
    /\ UNCHANGED <<messageID, wire, submitted>>

-----------------------------------------------------------------------------
(* isosocket_send_Blockbook *)

\* no socket, or one that is not open: the callback is called at once
SendRefused(r) ==
    /\ ~isOpen
    /\ answers' = Call({r}, "error")
    /\ UNCHANGED <<cur, messageID, readyState, pending, inFlight, queue, wire>>

\* the limiter is full: last in the socket's queue
SendQueued(r) ==
    /\ isOpen
    /\ r \in Heavy
    /\ inFlight[cur] >= Cap
    /\ queue' = [queue EXCEPT ![cur] = Append(@, r)]
    /\ UNCHANGED <<cur, messageID, readyState, pending, inFlight, wire, answers>>

\* mutant: a heavy request is sent whatever is in flight
SendNowUncapped(r) ==
    /\ isOpen
    /\ messageID' = messageID + 1
    /\ pending' = [pending EXCEPT ![cur] = @ \cup {<<messageID, r>>}]
    /\ wire' = [wire EXCEPT ![cur] = @ \cup {<<messageID, r>>}]
    /\ inFlight' = IF r \in Heavy THEN [inFlight EXCEPT ![cur] = @ + 1] ELSE inFlight
    /\ UNCHANGED <<cur, readyState, queue, answers>>

\* isosocket_sendNow_Blockbook, for a heavy request through sendHeavy
SendNow(r) ==
    /\ isOpen
    /\ r \in Heavy => inFlight[cur] < Cap
    /\ messageID' = messageID + 1
    /\ pending' = [pending EXCEPT ![cur] = @ \cup {<<messageID, r>>}]
    /\ wire' = [wire EXCEPT ![cur] = @ \cup {<<messageID, r>>}]
    /\ inFlight' = IF r \in Heavy THEN [inFlight EXCEPT ![cur] = @ + 1] ELSE inFlight
    /\ UNCHANGED <<cur, readyState, queue, answers>>

Send(r) ==
    /\ r \notin submitted
    /\ submitted' = submitted \cup {r}
    /\ SendRefused(r) \/ SendQueued(r) \/ SendNow(r)

-----------------------------------------------------------------------------
(* The callback filed in pending[s] as p is called with data, "unanswered"  *)
(* being what is then left on the wire. For a heavy request this is the     *)
(* wrapper of sendHeavy: it frees the slot, then drainHeavy sends what it   *)
(* can from the queue, or refuses all of it when the socket has been        *)
(* replaced or is no longer open.                                           *)
SettleCheap(s, p, data, unanswered) ==
    /\ p[2] \notin Heavy
    /\ pending' = [pending EXCEPT ![s] = @ \ {p}]
    /\ answers' = Call({p[2]}, data)
    /\ wire' = [wire EXCEPT ![s] = unanswered]
    /\ UNCHANGED <<messageID, inFlight, queue>>

SettleHeavy(s, p, data, unanswered) ==
    LET freed == inFlight[s] - 1
        k     == DrainCount(s, freed)
        taken == {queue[s][i] : i \in 1..k}
    IN  /\ p[2] \in Heavy
        /\ queue' = [queue EXCEPT ![s] = Drop(@, k)]
        /\ IF Live(s)
           THEN /\ pending' = [pending EXCEPT ![s] = (@ \ {p}) \cup Numbered(s, k)]
                /\ wire' = [wire EXCEPT ![s] = unanswered \cup Numbered(s, k)]
                /\ inFlight' = [inFlight EXCEPT ![s] = freed + k]
                /\ messageID' = messageID + k
                /\ answers' = Call({p[2]}, data)
           ELSE /\ pending' = [pending EXCEPT ![s] = @ \ {p}]
                /\ wire' = [wire EXCEPT ![s] = unanswered]
                /\ inFlight' = [inFlight EXCEPT ![s] = freed]
                /\ messageID' = messageID
                /\ answers' = [r \in Request |->
                                 IF r = p[2] THEN Append(answers[r], data)
                                 ELSE IF r \in taken THEN Append(answers[r], "error")
                                 ELSE answers[r]]

Settle(s, p, data, unanswered) ==
    /\ SettleCheap(s, p, data, unanswered) \/ SettleHeavy(s, p, data, unanswered)
    /\ UNCHANGED <<cur, readyState, submitted>>

(* The server's reply f to a request arrives (isosocket_onMessage_Blockbook):*)
(* looked up by its id in the pending map of the socket it arrived on; when  *)
(* nothing is filed there (the request timed out) no request is touched. A   *)
(* websocket that is closing may still deliver what was received before.     *)
OnMessage(s, f) ==
    /\ readyState[s] \in {"open", "closing"}
    /\ f \in wire[s]
    /\ \/ \E p \in Waiting(s, f[1]) : Settle(s, p, f[2], wire[s] \ {f})
       \/ /\ Waiting(s, f[1]) = {}
          /\ wire' = [wire EXCEPT ![s] = @ \ {f}]
          /\ UNCHANGED <<cur, messageID, readyState, pending, inFlight, queue,
                         submitted, answers>>

(* The timer of a request fires with its entry still in the map.            *)
OnTimeout(s, p) ==
    /\ p \in pending[s]
    /\ Settle(s, p, "error", wire[s])

TimeoutOf(r) == \E s \in Socket : \E p \in pending[s] : p[2] = r /\ OnTimeout(s, p)

-----------------------------------------------------------------------------
Next ==
    \/ \E s \in Socket : Setup(s) \/ OnOpen(s) \/ RemoteClose(s) \/ OnClose(s)
    \/ Disconnect
    \/ Subscribe
    \/ \E r \in Request : Send(r)
    \/ \E s \in Socket : \E f \in wire[s] : OnMessage(s, f)
    \/ \E s \in Socket : \E p \in pending[s] : OnTimeout(s, p)

Spec == Init /\ [][Next]_vars

(* The only fairness taken: setTimeout fires. Neither a reply, nor the      *)
(* close event, nor a reconnect is promised.                                *)
FairSpec == Spec /\ \A r \in Request : WF_vars(TimeoutOf(r))

-----------------------------------------------------------------------------
(* Properties *)

Pair == Nat \X Request
Queued(s) == {queue[s][i] : i \in 1..Len(queue[s])}

\* Types of the slot, the socket objects and the callers' view of them.
TypeOK ==
    /\ cur \in Socket \cup {NoSocket}
    /\ messageID \in Nat
    /\ readyState \in [Socket -> ReadyState]
    /\ pending \in [Socket -> SUBSET Pair]
    /\ inFlight \in [Socket -> Nat]
    /\ queue \in [Socket -> Seq(Heavy)]
    /\ wire \in [Socket -> SUBSET Pair]
    /\ submitted \subseteq Request
    /\ answers \in [Request -> Seq(Answer)]

\* The limiter's counter is the number of heavy requests really waiting on the
\* socket, never above the cap, and a request queues only behind a full socket:
\* no slot leaks through a reply, a timeout or a close, so none is lost for good.
LimiterExact ==
    \A s \in Socket :
        /\ inFlight[s] = Cardinality(HeavyOf(pending[s]))
        /\ inFlight[s] <= Cap
        /\ queue[s] # <<>> => inFlight[s] = Cap

\* A request whose callback has not been called is still held by a socket whose
\* close event is to come, in the pending map (a timer will call it) or in the
\* queue: closing, replacing or draining a socket forgets nobody.
NoneForgotten ==
    \A r \in submitted :
        answers[r] = <<>> =>
            \E s \in Socket :
                /\ readyState[s] # "closed"
                /\ r \in Queued(s) \/ \E p \in pending[s] : p[2] = r

\* A request is put on the wire only of the socket in the slot, and open: a freed
\* slot of a closing or replaced socket never sends what was queued on it.
SentOnLiveSocket ==
    [][\A s \in Socket : wire'[s] \subseteq wire[s]
                          \/ (cur = s /\ readyState[s] = "open")]_vars

\* A heavy request goes out only when nothing queued before it stays queued.
NoOvertaking ==
    [][\A s \in Socket : \A p \in HeavyOf(wire'[s] \ wire[s]) :
         \A i \in 1..Len(queue[s]) :
            (\A j \in 1..i : queue[s][j] # p[2]) => queue[s][i] \notin Queued(s)']_vars

\* Every callback is called at most once, with the reply to its own request (ids
\* restart with every socket) or an error.
Promise == INSTANCE RequestReply WITH Request <- Request, submitted <- submitted, answers <- answers
Contract == Promise!Spec

\* Every request made is answered in the end, if timers fire: queued ones too,
\* and those of a socket that died without a close event.
Answered == \A r \in Request : Promise!Settles(r)
=============================================================================
