---------------------------- MODULE AddrMonitor ----------------------------
(***************************************************************************)
(* Address activity monitoring of one asset symbol x over its Blockbook    *)
(* websocket: subAddr_Blockbook / unsubAddr_Blockbook                      *)
(* (app-worker/worker-addr-monitor.js), the re-subscription in             *)
(* socket.onopen and isosocket_sub_Blockbook (worker-blockbook.js), and    *)
(* the server, which keeps ONE address subscription per connection and     *)
(* applies the requests of a connection in any order (worker-addr-monitor, *)
(* "processes websocket requests concurrently").                           *)
(*                                                                         *)
(* A registration is one CONNECT_ADDRESS_MONITORS: the set of addresses    *)
(* the wallet had then. It matters that the one the server works for is    *)
(* the latest, that the callback filed under its id is there, and that     *)
(* neither is lost when the wallet re-registers or the socket reconnects.  *)
(***************************************************************************)
EXTENDS Integers, Sequences, FiniteSets

CONSTANTS
    MaxReg,    \* bound: pairs of DISCONNECT_ and CONNECT_ADDRESS_MONITORS
    MaxSocket, \* bound: websocket objects
    SubBlocks  \* configWS.blockbook_ws_config[x].subBlocks

ASSUME BoundsAssumption == MaxReg \in Nat /\ MaxSocket \in Nat
ASSUME FlagAssumption == SubBlocks \in BOOLEAN

VARIABLES
    \* the worker's globals for x
    cur,        \* self.bb_Sockets[x]; 0 when undefined
    readyState, \* of each socket object
    messageID,  \* self.bb_Sockets_messageID[x]
    subs,       \* self.bb_Sockets_subscriptions[x]: id -> callback
    blockId,    \* self.bb_Sockets_subId_NewBlock[x]
    reg,        \* the registration in self.bb_addrSubs[x]; 0 when deleted
    subId,      \* its subId
    unsub,      \* the number of the promise in self.bb_addrUnsub[x]
    \* continuations and callbacks
    regs,       \* registrations made
    waiting,    \* registration -> the promise it waits for (0: it waits for none)
    asked,      \* promise -> the socket its unsubscribeAddresses is pending on (0: none)
    \* the server's side of the connection in the slot
    inbox,      \* requests on their way: records [op, id, of]
    active,     \* the registration whose addresses it is subscribed for; 0: none
    acks,       \* promises whose unsubscribe has been applied, reply under way
    hurried     \* history: the worker has not waited for this connection's server

monitorVars == <<cur, readyState, messageID, subs, blockId, reg, subId, unsub, regs,
                 waiting, asked, inbox, active, acks, hurried>>

connection == <<cur, readyState, messageID, subs, blockId>>
monitor == <<reg, subId, unsub, regs, waiting, asked>>
server  == <<inbox, active, acks, hurried>>

Socket == 1..MaxSocket
Reg == 1..MaxReg
Unsub == 1..MaxReg
MaxId == 2 * MaxSocket + 3 * MaxReg  \* more ids than a connection can use
Id == 0..MaxId
NoId == -1       \* undefined, or "" for blockId
Block == 0       \* the new-block callback; an address callback is its registration
NoCallback == -1
NoReg == 0       \* no registration, or no subscription at the server

-----------------------------------------------------------------------------
isOpen == cur # 0 /\ readyState[cur] = "open"

\* registrations whose promise is settled: their continuation runs before any
\* other handler (a microtask)
Runnable == {k \in Reg : waiting[k] # 0 /\ asked[waiting[k]] = 0}

Idle == Runnable = {}

\* the subscribe request numbered id for registration k
SubRequest(id, k) == [op |-> "sub", id |-> id, of |-> k]
UnsubRequest(id, u) == [op |-> "unsub", id |-> id, of |-> u]

\* the promises that wait for a reply on socket s are settled
Settled(s) == [u \in Unsub |-> IF asked[u] = s THEN 0 ELSE asked[u]]

\* an unsubscribe of promise u is on its way
Underway(u) == \E i \in 1..Len(inbox) : inbox[i].op = "unsub" /\ inbox[i].of = u

Remove(q, i) == SubSeq(q, 1, i - 1) \o SubSeq(q, i + 1, Len(q))
-----------------------------------------------------------------------------
MonitorInit ==
    /\ cur = 0
    /\ readyState = [s \in Socket |-> "none"]
    /\ messageID = 0
    /\ subs = [i \in Id |-> NoCallback]
    /\ blockId = NoId
    /\ reg = 0
    /\ subId = NoId
    /\ unsub = 0
    /\ regs = 0
    /\ waiting = [k \in Reg |-> 0]
    /\ asked = [u \in Unsub |-> 0]
    /\ inbox = <<>>
    /\ active = NoReg
    /\ acks = {}
    /\ hurried = FALSE

\* the connection in the slot ends, and what was on its way with it
Gone == inbox' = <<>> /\ active' = NoReg /\ acks' = {} /\ hurried' = FALSE

(* isosocket_Setup_Blockbook: a new connection, an empty subscription map.  *)
Setup(s) ==
    /\ cur # 0 => readyState[cur] \in {"closing", "closed"}
    /\ readyState[s] = "none"
    /\ cur' = s
    /\ readyState' = [readyState EXCEPT ![s] = "connecting"]
    /\ messageID' = 0
    /\ subs' = [i \in Id |-> NoCallback]
    /\ UNCHANGED <<blockId, monitor, server>>

(* DISCONNECT_BLOCKBOOK_ISOSOCKETS: the slot is emptied, its socket lives on *)
Disconnect ==
    /\ cur # 0
    /\ cur' = 0
    /\ Gone
    /\ UNCHANGED <<readyState, messageID, subs, blockId, monitor>>

(* The connection ends; the close event comes later.                        *)
RemoteClose(s) ==
    /\ readyState[s] \in {"connecting", "open"}
    /\ readyState' = [readyState EXCEPT ![s] = "closing"]
    /\ IF cur = s THEN Gone ELSE UNCHANGED server
    /\ UNCHANGED <<cur, messageID, subs, blockId, monitor>>

(* socket.onclose: every pending request fails, so an unsubscribe waiting   *)
(* on this socket settles its promise.                                      *)
OnClose(s) ==
    /\ readyState[s] = "closing"
    /\ readyState' = [readyState EXCEPT ![s] = "closed"]
    /\ asked' = Settled(s)
    /\ cur' = IF cur = s THEN 0 ELSE cur
    /\ UNCHANGED <<messageID, subs, blockId, reg, subId, unsub, regs, waiting, server>>

\* mutant: a reconnection only subscribes the blocks
NeverResubscribes == FALSE

\* there are registered addresses to subscribe again
Resubscribes == reg # 0

(* socket.onopen: subscribes the registered addresses, then the blocks, on  *)
(* the socket in the slot, be it this one or its successor; nothing is sent *)
(* while that is not open. Before the blocks, the id they had last, on      *)
(* whichever connection, is deleted from the subscription map.              *)
OnOpen(s) ==
    LET live    == cur = s \/ isOpen
        again   == live /\ Resubscribes
        addrId  == messageID
        newId   == IF again THEN messageID + 1 ELSE messageID
        added   == IF again THEN [subs EXCEPT ![addrId] = reg] ELSE subs
        cleared == IF blockId # NoId THEN [added EXCEPT ![blockId] = NoCallback] ELSE added
    IN  /\ readyState[s] = "connecting"
        /\ readyState' = [readyState EXCEPT ![s] = "open"]
        /\ subId' = IF ~Resubscribes THEN subId ELSE IF live THEN addrId ELSE NoId
        /\ inbox' = IF again THEN Append(inbox, SubRequest(addrId, reg)) ELSE inbox
        /\ hurried' = (hurried \/ (again /\ \E u \in Unsub : Underway(u)))
        /\ IF SubBlocks
           THEN /\ subs' = IF live THEN [cleared EXCEPT ![newId] = Block] ELSE cleared
                /\ blockId' = IF live THEN newId ELSE NoId
                /\ messageID' = IF live THEN newId + 1 ELSE messageID
           ELSE /\ subs' = added
                /\ messageID' = newId
                /\ UNCHANGED blockId
        /\ UNCHANGED <<cur, reg, unsub, regs, waiting, asked, active, acks>>

-----------------------------------------------------------------------------
\* isosocket_sub_Blockbook for registration k: no id without an open socket
Subscribe(k) ==
    IF isOpen
    THEN /\ subs' = [subs EXCEPT ![messageID] = k]
         /\ subId' = messageID
         /\ inbox' = Append(inbox, SubRequest(messageID, k))
         /\ messageID' = messageID + 1
    ELSE /\ subId' = NoId
         /\ UNCHANGED <<subs, inbox, messageID>>

\* mutant: the subscription does not wait for the unsubscribe
Hasty == FALSE

\* the promise of the last unsubscribe is pending; no other is looked at
UnsubPending == unsub # 0 /\ asked[unsub] # 0

(* subAddr_Blockbook: registers, and subscribes once the pending            *)
(* unsubscribe's promise is settled (as a microtask when it already is).    *)
(* The main thread posts CONNECT after every DISCONNECT, never otherwise.   *)
Sub ==
    /\ regs < unsub
    /\ regs' = regs + 1
    /\ reg' = regs + 1
    /\ IF UnsubPending
       THEN /\ waiting' = [waiting EXCEPT ![regs + 1] = unsub]
            /\ subId' = NoId
            /\ UNCHANGED <<subs, inbox, messageID>>
       ELSE /\ Subscribe(regs + 1)
            /\ UNCHANGED waiting
    /\ UNCHANGED <<cur, readyState, blockId, unsub, asked, active, acks, hurried>>

\* mutant: the continuation does not look at the registration again
AnyRegistration(k) == TRUE

\* "superseded / unsubscribed meanwhile" fails to hold
Current(k) == reg = k

(* The continuation of a registration whose promise is settled.             *)
Resume(k) ==
    /\ k \in Runnable
    /\ waiting' = [waiting EXCEPT ![k] = 0]
    /\ IF Current(k) THEN Subscribe(k) ELSE UNCHANGED <<subs, subId, inbox, messageID>>
    /\ UNCHANGED <<cur, readyState, blockId, reg, unsub, regs, asked, active, acks, hurried>>

(* unsubAddr_Blockbook: drops the registration and its callback, then sends *)
(* unsubscribeAddresses, whose reply or failure settles a new promise.      *)
UnsubAddr ==
    /\ unsub < MaxReg
    /\ unsub = regs
    /\ unsub' = unsub + 1
    /\ reg' = 0
    /\ subId' = NoId
    /\ subs' = IF reg # 0 /\ subId # NoId THEN [subs EXCEPT ![subId] = NoCallback] ELSE subs
    /\ IF isOpen
       THEN /\ asked' = [asked EXCEPT ![unsub + 1] = cur]
            /\ inbox' = Append(inbox, UnsubRequest(messageID, unsub + 1))
            /\ messageID' = messageID + 1
       ELSE UNCHANGED <<asked, inbox, messageID>>   \* refused: settled at once
    /\ hurried' = (hurried \/ inbox # <<>>)         \* it waits for no subscribe
    /\ UNCHANGED <<cur, readyState, blockId, regs, waiting, active, acks>>

(* The reply to unsubscribeAddresses, or its timeout (3s for the request,   *)
(* 5s for the promise): either settles the promise.                         *)
AckUnsub(u) ==
    /\ isOpen
    /\ u \in acks
    /\ acks' = acks \ {u}
    /\ asked' = [asked EXCEPT ![u] = 0]
    /\ UNCHANGED <<connection, reg, subId, unsub, regs, waiting, inbox, active, hurried>>

UnsubTimeout(u) ==
    /\ asked[u] # 0
    /\ asked' = [asked EXCEPT ![u] = 0]
    /\ hurried' = (hurried \/ Underway(u))
    /\ UNCHANGED <<connection, reg, subId, unsub, regs, waiting, inbox, active, acks>>

(* The server applies a request of the connection, whichever. A new address *)
(* subscription replaces the previous one.                                  *)
Serve(i) ==
    /\ isOpen
    /\ i \in 1..Len(inbox)
    /\ inbox' = Remove(inbox, i)
    /\ \/ /\ inbox[i].op = "sub"
          /\ active' = inbox[i].of
          /\ UNCHANGED acks
       \/ /\ inbox[i].op = "unsub"
          /\ active' = NoReg
          /\ acks' = acks \cup {inbox[i].of}
    /\ UNCHANGED <<connection, monitor, hurried>>

Handler ==
    \/ \E s \in Socket : Setup(s) \/ RemoteClose(s) \/ OnClose(s) \/ OnOpen(s)
    \/ Disconnect
    \/ Sub
    \/ UnsubAddr
    \/ \E u \in Unsub : AckUnsub(u) \/ UnsubTimeout(u)
    \/ \E i \in 1..Len(inbox) : Serve(i)

MonitorNext == (Idle /\ Handler) \/ \E k \in Reg : Resume(k)

MonitorSpec == MonitorInit /\ [][MonitorNext]_monitorVars

(* Fairness: microtasks run, timers fire, and the server gets to every      *)
(* request of a connection that stays open.                                 *)
FairMonitorSpec ==
    /\ MonitorSpec
    /\ \A k \in Reg : WF_monitorVars(Resume(k))
    /\ \A u \in Unsub : WF_monitorVars(Idle /\ UnsubTimeout(u))
    /\ WF_monitorVars(Idle /\ Serve(1))

-----------------------------------------------------------------------------
(* Properties *)

MonitorTypeOK ==
    /\ cur \in 0..MaxSocket
    /\ readyState \in [Socket -> {"none", "connecting", "open", "closing", "closed"}]
    /\ messageID \in Id
    /\ subs \in [Id -> {NoCallback, Block} \cup Reg]
    /\ blockId \in Id \cup {NoId}
    /\ reg \in 0..MaxReg /\ regs \in 0..MaxReg
    /\ subId \in Id \cup {NoId}
    /\ unsub \in 0..MaxReg
    /\ waiting \in [Reg -> 0..MaxReg]
    /\ asked \in [Unsub -> 0..MaxSocket]
    /\ inbox \in Seq([op : {"sub", "unsub"}, id : Id, of : Nat])
    /\ active \in 0..MaxReg
    /\ acks \subseteq Unsub
    /\ hurried \in BOOLEAN

\* nothing is under way between the worker and the server of an open connection
Settling == inbox # <<>> \/ (reg # 0 /\ waiting[reg] # 0)

\* When nothing is under way on an open connection, the server is subscribed for the
\* registered addresses (none when there are none), in whatever order it applied what it was
\* sent: re-registering, reconnecting and a lost acknowledgement never leave the connection
\* silently unsubscribed, nor subscribed for a wallet that unsubscribed. Excepted are
\* connections whose server was hurried: a timer ran out before it came to the unsubscribe,
\* or the next unsubscribe or a late onopen came on top of what it had not applied.
ServerFollows ==
    isOpen /\ ~Settling /\ ~hurried => active = reg

\* A subscribe is only ever sent for the registration in force: a continuation that
\* waited for an acknowledgement finds out that it has been superseded.
OnlyCurrentSubscribes ==
    [][\A i \in 1..Len(inbox') :
         /\ inbox'[i].op = "sub"
         /\ \A j \in 1..Len(inbox) : inbox[j] # inbox'[i]
         => inbox'[i].of = reg']_monitorVars

\* A registered wallet gets its subscription in the end, unless the connection is lost or
\* hurried or the wallet unsubscribes first: an acknowledgement that never comes cannot
\* strand it, nor can the order in which the server applies its requests.
Monitored == (reg # 0 /\ isOpen) ~> (reg = 0 \/ ~isOpen \/ hurried \/ active = reg)

\* "a subscribe sent right after an unsubscribe can be applied FIRST [...] So subscribe only
\* once any pending unsubscribe is acked" (worker-addr-monitor.js:68): no subscribe is on its
\* way behind an unsubscribe whose promise is pending. Only the last promise is kept.
SubscribesAfterAck ==
    \A i, j \in 1..Len(inbox) :
        i < j /\ inbox[i].op = "unsub" /\ inbox[j].op = "sub" => asked[inbox[i].of] = 0

\* "Blockbook subscriptions don't survive a reconnect: re-establish any address
\* subscription": once the registered addresses are subscribed on the connection in the
\* slot, their callback is filed under the id the server notifies.
CallbackInPlace == isOpen /\ reg # 0 /\ subId # NoId => subs[subId] = reg
=============================================================================
