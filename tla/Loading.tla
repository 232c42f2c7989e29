------------------------------ MODULE Loading ------------------------------
(***************************************************************************)
(* Connecting a wallet: walletConnect (sw-functions.js), loadAllAssets     *)
(* (actions/wallet.js), the socket messages and the batched refresh of the *)
(* app worker (worker.js), the volatile Blockbook and Geth sockets.        *)
(*                                                                         *)
(* A call posts INIT_BLOCKBOOK_ISOSOCKETS; the worker polls the sockets    *)
(* and answers once they are ready, the time is out or a disconnect has    *)
(* aborted the wait. Every call that waits takes the first answer to any.  *)
(* Then the call loads the wallet: ether and the UTXO assets first, the    *)
(* tokens once ether is there; UTXO assets still missing are asked again.  *)
(* A fetch that meets a socket that is not open leaves its asset unloaded; *)
(* any other error counts as loaded.                                       *)
(*                                                                         *)
(* What a refresh fetches is in WalletSync and AccountHistory; here an     *)
(* asset is loaded or not. What main posts to the worker is handled at     *)
(* once, and two refreshes of the same assets at the same point are one.   *)
(***************************************************************************)
EXTENDS Naturals, Sequences

CONSTANTS
    Calls,        \* calls of walletConnect
    Coins,        \* UTXO assets of the wallet, each with a Blockbook socket
    Ether,        \* the account asset, with a Blockbook and a Geth socket
    Tokens,       \* its tokens, on the same sockets
    Watched,      \* bound: assets whose addresses a transaction may reach
    GethSockets,  \* bound: Geth sockets alive at a time
    Blocks,       \* bound: blocks of ether announced
    MaxLogouts,   \* bound: DISCONNECT_BLOCKBOOK_ISOSOCKETS from the client
    MaxFaults,    \* bound: sockets that close, requests that time out
    None          \* no Geth socket

Chains == Coins \cup {Ether}
Accounts == Tokens \cup {Ether}
Assets == Coins \cup Accounts

ASSUME AssetAssumption == Ether \notin Coins \cup Tokens /\ Coins \cap Tokens = {} /\ Watched \subseteq Assets
ASSUME BoundAssumption == MaxLogouts \in Nat /\ MaxFaults \in Nat /\ None \notin GethSockets

VARIABLES
    slot,       \* bb_Sockets: chain -> its socket, "absent" without a key
    aborted,    \* bb_Sockets_aborted
    polls,      \* calls whose sockets the worker polls
    answers,    \* BLOCKBOOK_ISOSOCKETS_DONE on their way to main, first polls only
    phase,      \* call -> where it is
    cancelled,  \* history: calls the last logout caught before any answer
    loaded,     \* assets with lastAssetUpdateAt
    batches,    \* refreshAssetsFull under way
    geth,       \* geth_Sockets[ETH], a Geth socket or None
    feeds,      \* Geth socket -> its state
    seen,       \* geth_BlockNos
    told,       \* block -> Blockbook sockets that have told a loaded wallet of it
    refreshes,  \* block -> how often it has made the wallet refresh
    logouts, faults

sockets == <<slot, aborted, polls, answers, cancelled>>
loads == <<phase, loaded, batches>>
heads == <<seen, told, refreshes>>
bounds == <<logouts, faults>>
vars == <<sockets, loads, geth, feeds, heads, bounds>>

Live == {"connecting", "open"}

Init ==
    /\ slot = [x \in Chains |-> "absent"]
    /\ aborted = FALSE
    /\ polls = {}
    /\ answers = <<>>
    /\ phase = [c \in Calls |-> "new"]
    /\ cancelled = {}
    /\ loaded = {}
    /\ batches = {}
    /\ geth = None
    /\ feeds = [g \in GethSockets |-> "none"]
    /\ seen = {}
    /\ told = [b \in Blocks |-> 0]
    /\ refreshes = [b \in Blocks |-> 0]
    /\ logouts = 0
    /\ faults = 0

\* the assets that a refresh is asked for, and refreshes of them
Requested == (SUBSET Coins \cup {{a} : a \in Accounts} \cup {Tokens}) \ {{}}
Batches == UNION {[assets: {as}, todo: SUBSET as, got: SUBSET as] : as \in Requested}

Waiting == {c \in Calls : phase[c] = "waiting"}

\* the Blockbook connection that a refresh of an asset uses
ChainOf(a) == IF a \in Tokens THEN Ether ELSE a
-----------------------------------------------------------------------------
(* The sockets                                                              *)

\* mutant: only a slot that was never set up is
SetupAbsent ==
    slot' = [x \in Chains |-> IF slot[x] = "absent" THEN "connecting" ELSE slot[x]]

\* isosocket_Setup_Blockbook: a slot without a socket gets a new one
SetupBlockbook ==
    slot' = [x \in Chains |-> IF slot[x] \in {"absent", "down"} THEN "connecting" ELSE slot[x]]

\* isosocket_Setup_Geth: likewise, while the bound leaves a socket
SetupGeth ==
    \/ /\ geth = None
       /\ \E g \in GethSockets :
            /\ feeds[g] = "none"
            /\ geth' = g
            /\ feeds' = [feeds EXCEPT ![g] = "connecting"]
    \/ /\ geth # None \/ \A g \in GethSockets : feeds[g] # "none"
       /\ UNCHANGED <<geth, feeds>>

\* INIT_BLOCKBOOK_ISOSOCKETS and INIT_GETH_ISOSOCKETS: a pending abort is
\* forgotten, and with it the calls whose poll has not seen it yet
InitSockets ==
    /\ aborted' = FALSE
    /\ SetupBlockbook
    /\ SetupGeth
    /\ cancelled' = IF answers = <<>> THEN {} ELSE cancelled

\* walletConnect
Connect(c) ==
    /\ phase[c] = "new"
    /\ InitSockets
    /\ polls' = polls \cup {c}
    /\ phase' = [phase EXCEPT ![c] = "waiting"]
    /\ UNCHANGED <<answers, loaded, batches, heads, bounds>>

\* the timer of the volatile sockets, which a first walletConnect starts
Reinit ==
    /\ \E c \in Calls : phase[c] # "new"
    /\ \/ aborted
       \/ geth = None
       \/ \E x \in Chains : slot[x] \in {"absent", "down"}
    /\ InitSockets
    /\ UNCHANGED <<polls, answers, loads, heads, bounds>>

\* DISCONNECT_BLOCKBOOK_ISOSOCKETS: the sockets are dropped, not closed
Logout ==
    /\ logouts < MaxLogouts
    /\ logouts' = logouts + 1
    /\ aborted' = TRUE
    /\ slot' = [x \in Chains |-> "absent"]
    /\ cancelled' = IF answers = <<>> THEN Waiting ELSE {}
    /\ UNCHANGED <<polls, answers, loads, geth, feeds, heads, faults>>

\* onopen subscribes to new blocks: an open slot is a feed
Open(x) ==
    /\ slot[x] = "connecting"
    /\ slot' = [slot EXCEPT ![x] = "open"]
    /\ UNCHANGED <<aborted, polls, answers, cancelled, loads, geth, feeds, heads, bounds>>

\* onclose of the chain's socket; the Geth socket of the chain is forgotten,
\* whatever its state
CloseOf(x) ==
    /\ slot' = [slot EXCEPT ![x] = "down"]
    /\ geth' = IF x = Ether THEN None ELSE geth

\* the slot's socket closes, or one that a logout has dropped: that leaves a
\* successor alone
Close(x) ==
    /\ slot[x] \in Live \/ logouts > 0
    /\ faults < MaxFaults
    /\ faults' = faults + 1
    /\ CloseOf(x)
    /\ UNCHANGED <<aborted, polls, answers, cancelled, loads, feeds, heads, logouts>>
-----------------------------------------------------------------------------
(* The answer                                                               *)

\* mutant: the answer goes out before the abort is looked at
DoneFirst(timeout) ==
    LET ready == \A x \in Chains : slot[x] \in {"absent", "open"}
    IN  (IF ready \/ timeout THEN <<"done">> ELSE <<>>) \o (IF aborted THEN <<"aborted">> ELSE <<>>)

\* what a tick of the poll posts: an abort does not end the tick, and with no
\* socket at all every socket is ready
PollPosts(timeout) ==
    LET ready == \A x \in Chains : slot[x] \in {"absent", "open"}
    IN  (IF aborted THEN <<"aborted">> ELSE <<>>) \o (IF ready \/ timeout THEN <<"done">> ELSE <<>>)

Tick(c) ==
    /\ c \in polls
    /\ \E timeout \in BOOLEAN :
         /\ PollPosts(timeout) # <<>>
         /\ answers' = answers \o PollPosts(timeout)
    /\ polls' = polls \ {c}
    /\ UNCHANGED <<slot, aborted, cancelled, loads, geth, feeds, heads, bounds>>

Batch(as) == [assets |-> as, todo |-> as, got |-> {}]

\* REFRESH_MULTI_ASSET_FULL; a refresh of no asset does nothing
Request(bs) == batches' = batches \cup {b \in bs : b.assets # {}}

\* the listener of each waiting call takes the answer; unless it is an abort
\* loadAllAssets asks for ether and the UTXO assets
Take ==
    /\ answers # <<>>
    /\ answers' = Tail(answers)
    /\ IF Head(answers) = "done"
       THEN /\ phase' = [c \in Calls |-> IF c \in Waiting THEN "ether" ELSE phase[c]]
            /\ Request(IF Waiting = {} THEN {} ELSE {Batch({Ether}), Batch(Coins)})
       ELSE /\ phase' = [c \in Calls |-> IF c \in Waiting THEN "failed" ELSE phase[c]]
            /\ UNCHANGED batches
    /\ cancelled' = {}
    /\ UNCHANGED <<slot, aborted, polls, loaded, geth, feeds, heads, bounds>>
-----------------------------------------------------------------------------
(* The load                                                                 *)

Replace(b, b2) == batches' = (batches \ {b}) \cup {b2}

\* an asset is fetched, or its fetch fails for good, which counts as loaded.
\* A refresh of an account may find the list of transactions cached.
Fetched(b, a) ==
    /\ b \in batches
    /\ a \in b.todo
    /\ slot[ChainOf(a)] = "open" \/ a \in Accounts
    /\ Replace(b, [b EXCEPT !.todo = @ \ {a}, !.got = @ \cup {a}])
    /\ UNCHANGED <<sockets, phase, loaded, geth, feeds, heads, bounds>>

\* a transient error: the socket is not open, or a request times out
NotFetched(b, a) ==
    /\ b \in batches
    /\ a \in b.todo
    /\ IF slot[ChainOf(a)] = "open"
       THEN faults < MaxFaults /\ faults' = faults + 1
       ELSE UNCHANGED faults
    /\ Replace(b, [b EXCEPT !.todo = @ \ {a}])
    /\ UNCHANGED <<sockets, phase, loaded, geth, feeds, heads, logouts>>

\* what a batch dispatches once every asset of it is done
Dispatched(b) == b.got

Finish(b) ==
    /\ b \in batches
    /\ b.todo = {}
    /\ loaded' = loaded \cup Dispatched(b)
    /\ batches' = batches \ {b}
    /\ UNCHANGED <<sockets, phase, geth, feeds, heads, bounds>>

\* a refresh of these assets goes on
Fetches(as) == \E b \in batches, a \in as : b.assets = as /\ (Fetched(b, a) \/ NotFetched(b, a))
Finishes(as) == \E b \in batches : b.assets = as /\ Finish(b)

\* the first interval of loadAllAssets: once ether is there, the tokens
EtherLoaded(c) ==
    /\ phase[c] = "ether"
    /\ Ether \in loaded
    /\ phase' = [phase EXCEPT ![c] = "rest"]
    /\ Request({Batch(Tokens)})
    /\ UNCHANGED <<sockets, loaded, geth, feeds, heads, bounds>>

\* its second interval: done once the rest is there
AllLoaded(c) ==
    /\ phase[c] = "rest"
    /\ Coins \cup Tokens \subseteq loaded
    /\ phase' = [phase EXCEPT ![c] = "ok"]
    /\ UNCHANGED <<sockets, loaded, batches, geth, feeds, heads, bounds>>

\* mutant: the first request is the only one
NoRetry == {}

\* the assets that its tenth tick asks for again
RetryOf == Coins \ loaded

Retry(c) ==
    /\ phase[c] = "rest"
    /\ RetryOf # {}
    /\ Request({Batch(RetryOf)})
    /\ UNCHANGED <<sockets, phase, loaded, geth, feeds, heads, bounds>>

\* an address monitor notifies: the asset is refreshed, loaded or not
Notify(a) ==
    /\ a \in Watched
    /\ slot[ChainOf(a)] = "open"
    /\ \E c \in Calls : phase[c] \notin {"new", "waiting"}
    /\ Request({Batch({a})})
    /\ UNCHANGED <<sockets, phase, loaded, geth, feeds, heads, bounds>>
-----------------------------------------------------------------------------
(* Blocks of ether, on the Geth and the Blockbook sockets                   *)

\* onopen subscribes to new blocks
OpenGeth(g) ==
    /\ feeds[g] = "connecting"
    /\ feeds' = [feeds EXCEPT ![g] = "open"]
    /\ UNCHANGED <<sockets, loads, geth, heads, bounds>>

\* mutant: the slot keeps its socket
SlotKept == geth

\* onclose and onerror of any Geth socket forget the current one
SlotAfterClose == None

CloseGeth(g) ==
    /\ faults < MaxFaults
    /\ feeds[g] # "none"
    /\ faults' = faults + 1
    /\ feeds' = [feeds EXCEPT ![g] = "none"]
    /\ geth' = SlotAfterClose
    /\ UNCHANGED <<sockets, loads, heads, logouts>>

\* mutant: a block is not looked up
AlwaysNew(b) == TRUE

IsNew(b) == b \notin seen

\* the state that a new block asks for is refreshed once the whole wallet is loaded
RefreshesOnBlock == loaded = Assets

\* a Geth socket tells of a block, maybe not for the first time
OnBlock(g, b) ==
    /\ feeds[g] = "open"
    /\ seen' = seen \cup {b}
    /\ refreshes' = IF IsNew(b) /\ RefreshesOnBlock THEN [refreshes EXCEPT ![b] = @ + 1] ELSE refreshes
    /\ UNCHANGED <<sockets, loads, geth, feeds, told, bounds>>

\* the Blockbook sockets of ether that may be subscribed: the slot's, and those
\* that logouts have dropped
Tellers == logouts + (IF slot[Ether] = "open" THEN 1 ELSE 0)

\* each of them tells of a block: the same refreshes, seen or not
OnBlockbookBlock(b) ==
    /\ RefreshesOnBlock
    /\ told[b] < Tellers
    /\ told' = [told EXCEPT ![b] = @ + 1]
    /\ refreshes' = [refreshes EXCEPT ![b] = @ + 1]
    /\ UNCHANGED <<sockets, loads, geth, feeds, seen, bounds>>
-----------------------------------------------------------------------------
Next ==
    \/ \E c \in Calls : Connect(c) \/ Tick(c) \/ EtherLoaded(c) \/ AllLoaded(c) \/ Retry(c)
    \/ Reinit \/ Logout \/ Take
    \/ \E x \in Chains : Open(x) \/ Close(x)
    \/ \E b \in batches : Finish(b) \/ \E a \in b.todo : Fetched(b, a) \/ NotFetched(b, a)
    \/ \E a \in Watched : Notify(a)
    \/ \E g \in GethSockets : OpenGeth(g) \/ CloseGeth(g)
    \/ \E b \in Blocks : OnBlockbookBlock(b) \/ \E g \in GethSockets : OnBlock(g, b)

Spec == Init /\ [][Next]_vars

\* Intervals tick, servers accept connections, and a request that has been
\* sent is answered or fails. Nothing makes a client call, log out or a server
\* close, and no transaction need ever arrive.
Fairness ==
    /\ WF_vars(Reinit)
    /\ WF_vars(Take)
    /\ \A c \in Calls : WF_vars(Tick(c)) /\ WF_vars(EtherLoaded(c) \/ AllLoaded(c)) /\ WF_vars(Retry(c))
    /\ WF_vars(\E x \in Chains : Open(x))
    /\ WF_vars(\E g \in GethSockets : OpenGeth(g))
    /\ \A as \in Requested : WF_vars(Fetches(as)) /\ WF_vars(Finishes(as))

LiveSpec == Spec /\ Fairness
-----------------------------------------------------------------------------
(* Properties                                                               *)

FeedStates == {"none", "connecting", "open"}

\* Types, and what the slots say of each other: a Geth slot that is set holds
\* a socket that lives, since every close forgets the slot.
TypeOK ==
    /\ slot \in [Chains -> {"absent", "down"} \cup Live]
    /\ told \in [Blocks -> 0 .. MaxLogouts + 1]
    /\ aborted \in BOOLEAN /\ polls \subseteq Calls /\ cancelled \subseteq Calls
    /\ answers \in Seq({"aborted", "done"})
    /\ phase \in [Calls -> {"new", "waiting", "ether", "rest", "ok", "failed"}]
    /\ loaded \subseteq Assets /\ batches \subseteq Batches
    /\ geth \in GethSockets \cup {None} /\ feeds \in [GethSockets -> FeedStates]
    /\ geth # None => feeds[geth] # "none"
    /\ seen \subseteq Blocks
    /\ refreshes \in [Blocks -> Nat] /\ logouts \in 0..MaxLogouts /\ faults \in 0..MaxFaults

\* A logout ends the calls it catches waiting with nothing answered: unless the
\* sockets are set up again first, such a call does not go on to load, though
\* the dropped sockets all look ready and the same tick answers twice
\* (worker.js, INIT_BLOCKBOOK_ISOSOCKETS).
LogoutAborts == [][\A c \in cancelled : phase'[c] # "ether"]_vars

\* Of all that the Geth sockets tell of a block, one message refreshes the wallet, though a
\* socket that the slot has forgotten stays subscribed next to its successor (geth_BlockNos,
\* worker-geth.js): what comes on top are the messages of Blockbook's own sockets, which
\* repeat it by design ("this *duplicates* functionality in worker-geth", worker-blockbook.js).
GethRefreshesOnce == \A b \in Blocks : refreshes[b] <= told[b] + 1

\* an account asset that a call waits for, that nothing is about to load
Stranded(c) ==
    \E a \in (CASE phase[c] = "ether" -> {Ether} [] phase[c] = "rest" -> Tokens [] OTHER -> {}) :
        a \notin loaded /\ \A b \in batches : a \notin b.todo \cup b.got

\* A call that waits is answered, and loads its UTXO assets over any failed
\* fetch: it ends, unless an account asset was left behind (loadAllAssets).
ConnectsUnlessStranded ==
    \A c \in Calls : phase[c] = "waiting" ~> (phase[c] \in {"ok", "failed"} \/ Stranded(c))

\* Once sockets stop closing, every chain has its Blockbook socket open again,
\* and ether a Geth socket (the volatile sockets' timer).
Reconnected ==
    <>[]((\E c \in Calls : phase[c] # "new") =>
         /\ \A x \in Chains : slot[x] = "open"
         /\ geth # None /\ feeds[geth] = "open")

\* "nothing would ever re-request it and the wallet would never become
\* "connected". Retry every 10s." (actions/wallet.js): a call that waits ends.
Connects == \A c \in Calls : phase[c] = "waiting" ~> phase[c] \in {"ok", "failed"}
=============================================================================
