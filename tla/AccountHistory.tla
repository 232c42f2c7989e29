--------------------------- MODULE AccountHistory ---------------------------
(***************************************************************************)
(* The transaction history of an account address (worker-account.js, with  *)
(* the enriched-transactions handler of reducers/wallet.js).               *)
(*                                                                         *)
(* Ether and the tokens of a wallet share one address, one list of         *)
(* transaction ids and one cache of transactions. A job refreshes one      *)
(* asset: it reads the node's height and the balance, takes the list of    *)
(* ids cached for that height or asks Blockbook for one, turns every id    *)
(* into the asset's view of the transaction, and merges the views into the *)
(* wallet. Jobs overlap, and share the fetch of a transaction that is      *)
(* under way. A transaction that Blockbook fails to deliver is read from   *)
(* the web3 node.                                                          *)
(*                                                                         *)
(* A view is what changes in it: whether it is confirmed, and whether its  *)
(* other party is one of the wallet's own addresses. Heights matter by     *)
(* equality only, so a new block takes any height that nothing refers to   *)
(* and their number is not bounded. Balances are in WalletSync, whose      *)
(* accept filter is the same for all assets. The chain does not reorganise.*)
(***************************************************************************)
EXTENDS Naturals, Sequences, SequencesExt

CONSTANTS
    Jobs,       \* bound: the refreshes under way at a time
    Txs,        \* transactions of the address, none of them there at first
    TokenTxs,   \* those that move the token, and no ether
    DirectTxs,  \* those of them that are a transfer() of the token's contract
    PartyTxs,   \* those whose other party is the address the wallet may import
    Heights,    \* names of block heights, to reuse
    Cap,        \* WALLET_MAX_TX_HISTORY
    MaxFaults,  \* bound: answers of the servers that fail
    CanImport,  \* whether the wallet imports the other party's address
    None        \* no view, bundle, fetch or list

ASSUME TxAssumption == DirectTxs \subseteq TokenTxs /\ TokenTxs \subseteq Txs /\ PartyTxs \subseteq Txs
ASSUME CapAssumption == Cap \in Nat \ {0} /\ MaxFaults \in Nat /\ CanImport \in BOOLEAN

VARIABLES
    height,     \* the node's height
    mempool,    \* Blockbook: the address's pending transactions, newest first
    mined,      \* Blockbook: its mined ones, newest first
    reached,    \* what Blockbook knew when the node reached its height
    imported,   \* the wallet has imported the other party's address
    cache,      \* cache_bb_addressTxs: the last list of ids and its height
    db,         \* transaction -> its bundle in the transaction database
    inflight,   \* bb_txInflight: transaction -> the fetch under way
    jobs,       \* job -> its progress
    store,      \* asset -> transaction -> its view in the wallet
    faults      \* answers that failed

vars == <<height, mempool, mined, reached, imported, cache, db, inflight, jobs, store, faults>>

chain == <<height, mempool, mined, reached>>

Assets == {"ether", "token"}

\* whether a transaction is in the history of an asset
Moves(asset, tx) == asset = "ether" \/ tx \in TokenTxs

View == [conf: BOOLEAN, self: BOOLEAN]

NoViews == [tx \in Txs |-> None]

Idle == [at |-> "idle", asset |-> "ether", self |-> FALSE, have |-> {}, height |-> None, owed |-> {},
         txids |-> <<>>, todo |-> {}, wait |-> {}, views |-> NoViews, lost |-> {}]

Init ==
    /\ height \in Heights
    /\ mempool = <<>>
    /\ mined = <<>>
    /\ reached = {}
    /\ imported = FALSE
    /\ cache = None
    /\ db = NoViews
    /\ inflight = NoViews
    /\ jobs = [j \in Jobs |-> Idle]
    /\ store = [a \in Assets |-> NoViews]
    /\ faults = 0

Known == Range(mempool) \cup Range(mined)
-----------------------------------------------------------------------------
(* The chain and its index                                                  *)

\* a transaction of the address enters the mempool
Arrive(tx) ==
    /\ tx \notin Known
    /\ mempool' = <<tx>> \o mempool
    /\ UNCHANGED <<height, mined, reached, imported, cache, db, inflight, jobs, store, faults>>

\* Blockbook processes the block that a transaction is in
Mine(tx) ==
    /\ tx \notin Range(mined)
    /\ mined' = <<tx>> \o mined
    /\ \/ tx \notin Range(mempool) /\ UNCHANGED mempool
       \/ \E i \in DOMAIN mempool : mempool[i] = tx /\ mempool' = RemoveAt(mempool, i)
    /\ UNCHANGED <<height, reached, imported, cache, db, inflight, jobs, store, faults>>

\* the heights something refers to
Referenced == {height} \cup {jobs[j].height : j \in Jobs} \cup (IF cache = None THEN {} ELSE {cache.height})

\* the node has a new block, which Blockbook may be yet to process
NewBlock ==
    /\ height' \in Heights \ Referenced
    /\ reached' = Known
    /\ UNCHANGED <<mempool, mined, imported, cache, db, inflight, jobs, store, faults>>
-----------------------------------------------------------------------------
(* A job: the height, the balance and the list of ids                       *)

Confirmed(asset, tx) == store[asset][tx] # None /\ store[asset][tx].conf

\* getAddressFull_Account_v2, with the wallet as it is now
Start(j, asset) ==
    /\ jobs[j].at = "idle"
    /\ jobs' = [jobs EXCEPT ![j] = [Idle EXCEPT !.at = "height", !.asset = asset, !.self = imported,
                                                !.have = {tx \in Txs : Confirmed(asset, tx)}]]
    /\ UNCHANGED <<chain, imported, cache, db, inflight, store, faults>>

\* web3.eth.getBlockNumber answers
ReadHeight(j) ==
    /\ jobs[j].at = "height"
    /\ jobs' = [jobs EXCEPT ![j].at = "balance", ![j].height = height, ![j].owed = reached]
    /\ UNCHANGED <<chain, imported, cache, db, inflight, store, faults>>

\* mutant: the cached list serves any height
AnyHeight(h) == cache # None

\* whether the cached list may be used
CacheHit(h) == cache # None /\ cache.height = h

\* the job has its list: enrich every transaction on it
Listed(job, txids) == [job EXCEPT !.at = "enrich", !.height = None, !.txids = txids, !.todo = Range(txids)]

\* the balance has been read: the cached list of this height, or a new one
ReadBalance(j) ==
    /\ jobs[j].at = "balance"
    /\ jobs' = [jobs EXCEPT ![j] = IF CacheHit(@.height) THEN Listed(@, cache.txids)
                                   ELSE [@ EXCEPT !.at = "list"]]
    /\ UNCHANGED <<chain, imported, cache, db, inflight, store, faults>>

\* Blockbook answers getAddressTxids: pending ones first, the newest ones up to the cap
AnswerList(j) ==
    /\ jobs[j].at = "list"
    /\ LET all == mempool \o mined
       IN  jobs' = [jobs EXCEPT ![j].at = "listed",
                                ![j].txids = IF Len(all) > Cap THEN SubSeq(all, 1, Cap) ELSE all]
    /\ UNCHANGED <<chain, imported, cache, db, inflight, store, faults>>

\* the answer arrives: it replaces the cached list
TakeList(j) ==
    /\ jobs[j].at = "listed"
    /\ cache' = [height |-> jobs[j].height, txids |-> jobs[j].txids]
    /\ jobs' = [jobs EXCEPT ![j] = Listed(@, @.txids)]
    /\ UNCHANGED <<chain, imported, db, inflight, store, faults>>

\* the node or Blockbook fails, or does not answer in time: the job ends with an error
Fail(j) ==
    /\ jobs[j].at \in {"height", "balance", "list", "listed"}
    /\ faults < MaxFaults
    /\ faults' = faults + 1
    /\ jobs' = [jobs EXCEPT ![j] = Idle]
    /\ UNCHANGED <<chain, imported, cache, db, inflight, store>>
-----------------------------------------------------------------------------
(* Enriching a transaction                                                  *)

\* a transaction as it is now: a view for each of the assets it is seen to move
BundleOf(server, tx, self, assets) ==
    LET view == [conf |-> tx \in Range(mined), self |-> self /\ tx \in PartyTxs]
    IN  [from |-> server, conf |-> view.conf,
         views |-> [a \in Assets |-> IF a \in assets THEN view ELSE None]]

\* what Blockbook's transaction is mapped to
TxBundle(tx, self) == BundleOf("blockbook", tx, self, {a \in Assets : Moves(a, tx)})

\* what the node's is mapped to: a token is seen only in a direct transfer
Web3Bundle(tx, self) ==
    BundleOf("web3", tx, self, {a \in Assets : a = "ether" \/ tx \in DirectTxs})

\* enrichTx: the database, else the fetch under way, else a new one
Enrich(j, tx) ==
    /\ jobs[j].at = "enrich" /\ tx \in jobs[j].todo
    /\ IF db[tx] # None
       THEN /\ jobs' = [jobs EXCEPT ![j].todo = @ \ {tx}, ![j].views[tx] = db[tx].views[jobs[j].asset]]
            /\ UNCHANGED inflight
       ELSE /\ jobs' = [jobs EXCEPT ![j].todo = @ \ {tx}, ![j].wait = @ \cup {tx}]
            /\ inflight' = IF inflight[tx] # None THEN inflight
                           ELSE [inflight EXCEPT ![tx] = [at |-> "blockbook", self |-> jobs[j].self, bundle |-> None]]
    /\ UNCHANGED <<chain, imported, cache, db, store, faults>>

\* Blockbook reads the transaction
AnswerTx(tx) ==
    /\ inflight[tx] # None /\ inflight[tx].at = "blockbook"
    /\ inflight' = [inflight EXCEPT ![tx].at = "answered", ![tx].bundle = TxBundle(tx, inflight[tx].self)]
    /\ UNCHANGED <<chain, imported, cache, db, jobs, store, faults>>

\* mutant: a request that Blockbook fails is forgotten
DropFailed(tx) ==
    /\ inflight[tx] # None /\ inflight[tx].at = "blockbook"
    /\ faults < MaxFaults
    /\ faults' = faults + 1
    /\ inflight' = [inflight EXCEPT ![tx] = None]
    /\ UNCHANGED <<chain, imported, cache, db, jobs, store>>

\* Blockbook fails the request: the web3 node is asked
FailTx(tx) ==
    /\ inflight[tx] # None /\ inflight[tx].at = "blockbook"
    /\ faults < MaxFaults
    /\ faults' = faults + 1
    /\ inflight' = [inflight EXCEPT ![tx].at = "web3"]
    /\ UNCHANGED <<chain, imported, cache, db, jobs, store>>

\* the node answers: with the transaction, or in a way that maps to nothing
AnswerTx_web3(tx) ==
    /\ inflight[tx] # None /\ inflight[tx].at = "web3"
    /\ \E b \in {None, Web3Bundle(tx, inflight[tx].self)} :
           inflight' = [inflight EXCEPT ![tx].at = "answered", ![tx].bundle = b]
    /\ UNCHANGED <<chain, imported, cache, db, jobs, store, faults>>

\* mutant: the node is asked without a timer
NoTimer(tx) == FALSE

\* WEB3_FALLBACK_TIMEOUT_MS have passed
FallbackTimeout(tx) ==
    /\ inflight[tx] # None /\ inflight[tx].at = "web3"
    /\ inflight' = [inflight EXCEPT ![tx].at = "answered"]
    /\ UNCHANGED <<chain, imported, cache, db, jobs, store, faults>>

\* mutant: pending transactions are cached too
CachePending(b) == b # None /\ b.from = "blockbook"

\* mutant: what the node said is cached too
CacheWeb3(b) == b # None /\ b.conf

\* what is worth keeping: Blockbook's word on a confirmed transaction
Cacheable(b) == b # None /\ b.from = "blockbook" /\ b.conf

\* mutant: an ended fetch stays in bb_txInflight
KeepFetch(f) == f

\* what bb_txInflight holds of a fetch that has ended
AfterFetch(f) == None

\* a job is given the bundle it waits for; lost are the transactions Blockbook did not deliver
Given(job, tx, b) ==
    IF tx \notin job.wait THEN job
    ELSE [job EXCEPT !.wait = @ \ {tx},
                     !.views[tx] = IF b = None THEN None ELSE b.views[job.asset],
                     !.lost = IF b = None \/ b.from = "web3" THEN @ \cup {tx} ELSE @]

\* the fetch ends: its bundle is cached, which may fail, and given to the jobs that wait for it
EndFetch(tx) ==
    /\ inflight[tx] # None /\ inflight[tx].at = "answered"
    /\ LET b == inflight[tx].bundle
       IN  /\ \/ Cacheable(b) /\ db' = [db EXCEPT ![tx] = b] /\ UNCHANGED faults
              \/ Cacheable(b) /\ faults < MaxFaults /\ faults' = faults + 1 /\ UNCHANGED db
              \/ ~Cacheable(b) /\ UNCHANGED <<db, faults>>
           /\ jobs' = [j \in Jobs |-> Given(jobs[j], tx, b)]
           /\ inflight' = [inflight EXCEPT ![tx] = AfterFetch(@)]
    /\ UNCHANGED <<chain, imported, cache, store>>

\* the transactions a job has something new on, for the wallet as it was when the job began
ToUpdate(job) == {tx \in Range(job.txids) : job.views[tx] # None /\ tx \notin job.have}

\* every transaction is there: SET_ENRICHED_TXS inserts or overwrites the ones to update
Finish(j) ==
    /\ jobs[j].at = "enrich" /\ jobs[j].todo = {} /\ jobs[j].wait = {}
    /\ store' = [store EXCEPT ![jobs[j].asset] =
                    [tx \in Txs |-> IF tx \in ToUpdate(jobs[j]) THEN jobs[j].views[tx] ELSE @[tx]]]
    /\ jobs' = [jobs EXCEPT ![j] = Idle]
    /\ UNCHANGED <<chain, imported, cache, db, inflight, faults>>

\* an address is imported into the wallet
Import ==
    /\ CanImport /\ ~imported
    /\ imported' = TRUE
    /\ UNCHANGED <<chain, cache, db, inflight, jobs, store, faults>>

JobStep(j) ==
    \/ ReadHeight(j)
    \/ ReadBalance(j)
    \/ AnswerList(j)
    \/ TakeList(j)
    \/ Fail(j)
    \/ \E tx \in Txs : Enrich(j, tx)
    \/ Finish(j)

FetchStep(tx) ==
    \/ AnswerTx(tx)
    \/ FailTx(tx)
    \/ FallbackTimeout(tx)
    \/ EndFetch(tx)

Next ==
    \/ NewBlock
    \/ Import
    \/ \E tx \in Txs : Arrive(tx) \/ Mine(tx) \/ FetchStep(tx) \/ AnswerTx_web3(tx)
    \/ \E j \in Jobs : JobStep(j) \/ \E a \in Assets : Start(j, a)

Spec == Init /\ [][Next]_vars

\* what is asked is answered or times out, what can run runs, the chain goes on
\* and the wallet refreshes every asset again and again
Fairness ==
    /\ WF_vars(NewBlock)
    /\ \A tx \in Txs : WF_vars(FetchStep(tx))
    /\ \A j \in Jobs : WF_vars(JobStep(j))
    /\ \A a \in Assets : SF_vars(\E j \in Jobs : Start(j, a))

LiveSpec == Spec /\ Fairness
-----------------------------------------------------------------------------
(* Properties                                                               *)

Bundles == [from: {"blockbook", "web3"}, conf: BOOLEAN, views: [Assets -> View \cup {None}]]

Fetches == [at: {"blockbook", "web3", "answered"}, self: BOOLEAN, bundle: Bundles \cup {None}]

ASSUME NoneAssumption == None \notin Fetches \cup View

IsJob(job) ==
    /\ job.at \in {"idle", "height", "balance", "list", "listed", "enrich"}
    /\ job.asset \in Assets /\ job.self \in BOOLEAN
    /\ job.height \in Heights \cup {None} /\ job.owed \subseteq Txs
    /\ job.have \subseteq Txs /\ Range(job.txids) \subseteq Txs
    /\ job.todo \subseteq Range(job.txids) /\ job.wait \subseteq Range(job.txids)
    /\ job.lost \subseteq Range(job.txids)
    /\ job.views \in [Txs -> View \cup {None}]

\* Type invariant: the chain, the lists, the shared fetches and the jobs have their types,
\* and what the database keeps came from Blockbook (fetchTxBundle caches nothing else)
TypeOK ==
    /\ height \in Heights /\ reached \subseteq Txs
    /\ Known \subseteq Txs
    /\ imported \in BOOLEAN /\ faults \in 0..MaxFaults
    /\ cache # None => cache.height \in Heights /\ Range(cache.txids) \subseteq Txs
    /\ \A tx \in Txs :
         /\ db[tx] # None => db[tx] \in Bundles /\ db[tx].from = "blockbook"
         /\ inflight[tx] # None => inflight[tx] \in Fetches
    /\ \A j \in Jobs : IsJob(jobs[j])
    /\ store \in [Assets -> [Txs -> View \cup {None}]]

\* What the database keeps for good is a confirmed transaction that Blockbook has mined, and a
\* transaction the wallet shows as confirmed is mined, whatever overlapped (fetchTxBundle, enrichTx)
FinalIsMined ==
    /\ \A tx \in Txs : db[tx] # None => db[tx].conf /\ tx \in Range(mined)
    /\ \A a \in Assets, tx \in Txs : Confirmed(a, tx) => tx \in Range(mined)

\* A job that waits for a transaction waits for a fetch that is under way, which it or the job of
\* another asset began: bb_txInflight never forgets a fetch somebody waits for
WaitedIsFetched == \A j \in Jobs : \A tx \in jobs[j].wait : inflight[tx] # None

\* job j ends with a result in this step
Finishes(j) == jobs[j].at = "enrich" /\ jobs'[j].at = "idle"

\* A refresh that ends without an error leaves in the wallet every transaction of the asset that
\* Blockbook knew when the node reached the height the job read, though list and fetches are shared
\* with other jobs: but for those Blockbook did not deliver, and the ones beyond the cap
RefreshComplete ==
    [][\A j \in Jobs : Finishes(j) =>
         \A tx \in jobs[j].owed \ jobs[j].lost :
             \/ ~Moves(jobs[j].asset, tx)
             \/ store'[jobs[j].asset][tx] # None
             \/ Len(jobs[j].txids) = Cap /\ tx \notin Range(jobs[j].txids)]_vars

\* "only update state for new tx's, known tx's that aren't yet enriched, or unconfirmed tx's"
\* (worker-account.js:204): a confirmed transaction of the wallet never turns unconfirmed
NeverUnconfirmed ==
    [][\A a \in Assets, tx \in Txs : Confirmed(a, tx) => Confirmed(a, tx)']_vars

\* "wallet owner is part of cache key because of relative fields: tx.sendToSelf and tx.isIncoming"
\* (worker-account.js:304): a refresh that begins once an address is imported shows the transactions
\* with it as the wallet's own at both ends
RelativeToWallet ==
    \A j \in Jobs : \A tx \in PartyTxs :
        jobs[j].self /\ jobs[j].views[tx] # None => jobs[j].views[tx].self

\* "to support erc20's we have to cap *after* filtering out the ETH tx's" (worker-account.js:146):
\* a token's refresh finds the token's transactions, as long as they are fewer than the cap
TokensNotCrowdedOut ==
    [][\A j \in Jobs : Finishes(j) /\ jobs[j].asset = "token" =>
         \A tx \in (jobs[j].owed \cap TokenTxs) \ jobs[j].lost :
             store'["token"][tx] # None]_vars

\* Every refresh calls back (getAddressFull_Account_v2: "the callback was never called, hanging the fetch")
Answered == \A j \in Jobs : jobs[j].at # "idle" ~> jobs[j].at = "idle"

\* A mined transaction ends up confirmed in the wallet for every asset it moves, and whenever an
\* overlapping refresh has undone that, does so again (enrichTx asks anew for what is not final)
Settles ==
    \A a \in Assets, tx \in Txs :
        tx \in Range(mined) /\ Moves(a, tx) ~> Confirmed(a, tx)
=============================================================================
