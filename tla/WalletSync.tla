----------------------------- MODULE WalletSync -----------------------------
(***************************************************************************)
(* How one UTXO asset of the wallet store follows the chain: the refresh   *)
(* jobs of the app worker (refreshAssetsFull, refreshAssetBalance,         *)
(* getAddressFull_Blockbook_v3, getAddressFull_ProcessResult), the reducer *)
(* that applies their batches (reducers/wallet.js) and the wallet's own    *)
(* sends (createAndPushTx, blockbook_pushTx).                              *)
(*                                                                         *)
(* A job works on a SNAPSHOT of the store, reads each address of the asset *)
(* from Blockbook in several requests while the chain moves, and posts one *)
(* batch when its last address is done. Jobs overlap and end in any order. *)
(*                                                                         *)
(* A balance is the set of the transactions it counts; a transaction of an *)
(* address is unknown ("none"), a bare txid ("minimal"), or enriched and   *)
(* unconfirmed or confirmed. The addresses of the asset do not change      *)
(* here. utxos and the transactions' details are left out.                 *)
(***************************************************************************)
EXTENDS Naturals, FiniteSets

CONSTANTS
    Addr,        \* the asset's addresses
    Tx,          \* transactions
    Own,         \* those the wallet sends
    Touches,     \* transaction -> the addresses in whose history it is
    Job,         \* bound: refreshes, one per element
    Flaky        \* those whose details may fail to be fetched

ASSUME OwnAssumption == Own \subseteq Tx
ASSUME TouchesAssumption == Touches \in [Tx -> SUBSET Addr]
ASSUME FlakyAssumption == Flaky \subseteq Tx

VARIABLES
    chain,    \* transaction -> "unseen", "mempool" or "mined", as Blockbook sees it
    wallet,   \* the store: asset.addresses, by address
    local,    \* asset.local_txs, as a set of transactions
    loaded,   \* asset.lastAssetUpdateAt is set
    job,      \* the refreshes and the sends under way
    reported  \* transactions a send has reported as done to its caller

vars == <<chain, wallet, local, loaded, job, reported>>

Status == {"none", "minimal", "unconf", "conf"}

\* an address of the store: its txs, balance and unconfirmedBalance (undefined until
\* hasBalance), lastAddrFetchAt # undefined, fetchError # undefined
Address == [txs : [Tx -> Status], hasBalance : BOOLEAN, conf : SUBSET Tx,
            unconf : SUBSET Tx, fetched : BOOLEAN, failed : BOOLEAN]

\* what a job has of an address: it has still to ask the balance (light jobs) or the
\* account info, it failed, or it has read the balance
Reading == [st : {"balance", "info", "error", "transient", "read"},
            conf : SUBSET Tx, unconf : SUBSET Tx]

Jobs == [phase : {"free", "sending", "sent", "fetching", "done"}, kind : {"full", "light"},
         of : SUBSET Own, snap : [Addr -> Address], read : [Addr -> Reading]]

NewAddress == [txs |-> [t \in Tx |-> "none"], hasBalance |-> FALSE, conf |-> {},
               unconf |-> {}, fetched |-> FALSE, failed |-> FALSE]

\* newAddr of a generated address: no balance, no transactions
NewWallet == [a \in Addr |-> NewAddress]

ToRead(st) == [a \in Addr |-> [st |-> st, conf |-> {}, unconf |-> {}]]

FreeJob == [phase |-> "free", kind |-> "full", of |-> {}, snap |-> NewWallet,
            read |-> ToRead("info")]

Init ==
    /\ chain = [t \in Tx |-> "unseen"]
    /\ wallet = NewWallet
    /\ local = {}
    /\ loaded = FALSE
    /\ job = [j \in Job |-> FreeJob]
    /\ reported = {}

\* the transactions listed for an address
Known(r) == {t \in Tx : r.txs[t] # "none"}

External == UNION {Known(wallet[a]) : a \in Addr}

OnChain(a, s) == {t \in Tx : a \in Touches[t] /\ chain[t] = s}
-----------------------------------------------------------------------------
(* The reducer                                                              *)

\* mutant: a fetched list replaces the one in the store
ReplacedTxs(r, new) == [t \in Tx |-> IF t \in new THEN "minimal" ELSE "none"]

\* "no update of existing tx's: only adding new"
MergedTxs(r, new) ==
    [t \in Tx |-> IF t \in new /\ r.txs[t] = "none" THEN "minimal" ELSE r.txs[t]]

\* WCORE_SET_ADDRESSES_FULL_MULTI for an address
SetFull(r, read, new) ==
    [txs |-> MergedTxs(r, new), hasBalance |-> TRUE, conf |-> read.conf,
     unconf |-> read.unconf, fetched |-> TRUE, failed |-> FALSE]

Details == {"unconf", "conf"}

\* mutant: the transactions whose details were not found are not filtered out
UnfilteredEnriched(r, read, got) ==
    [txs |-> [t \in Tx |-> IF got[t] # "absent" THEN got[t] ELSE r.txs[t]],
     hasBalance |-> TRUE, conf |-> read.conf, unconf |-> read.unconf,
     fetched |-> r.fetched, failed |-> FALSE]

\* WCORE_SET_ENRICHED_TXS_MULTI for an address: inserts or overwrites the transactions
SetEnriched(r, read, got) ==
    [txs |-> [t \in Tx |-> IF got[t] \in Details THEN got[t] ELSE r.txs[t]],
     hasBalance |-> TRUE, conf |-> read.conf, unconf |-> read.unconf,
     fetched |-> r.fetched, failed |-> FALSE]

\* WCORE_SET_ADDRESS_FETCH_ERROR
SetError(r) == [r EXCEPT !.failed = TRUE, !.fetched = TRUE]

\* mutant: an update does not touch local_txs
NotReconciled(l, w, updated) == l

\* mutant: an update empties local_txs
Emptied(l, w, updated) == IF updated = {} THEN l ELSE {}

\* SetAddressFull_ReconcileLocalTxs: "remove entries from local_txs[] if they're present
\* in txs[]", for the updated addresses of w
Reconciled(l, w, updated) == l \ UNION {Known(w[a]) : a \in updated}

\* mutant: an external transaction is pushed again
PushedAnyway(t) == local \cup {t}

\* WCORE_PUSH_LOCAL_TX: "don't push the local tx if it's already in the external tx list"
PushLocal(t) == IF t \in External THEN local ELSE local \cup {t}
-----------------------------------------------------------------------------
(* The chain, as Blockbook serves it                                        *)

Arrive(t) ==
    /\ t \in Tx \ Own
    /\ chain[t] = "unseen"
    /\ chain' = [chain EXCEPT ![t] = "mempool"]
    /\ UNCHANGED <<wallet, local, loaded, job, reported>>

Mined(t) ==
    /\ chain[t] = "mempool"
    /\ chain' = [chain EXCEPT ![t] = "mined"]
    /\ UNCHANGED <<wallet, local, loaded, job, reported>>
-----------------------------------------------------------------------------
(* Refreshes                                                                *)

\* REFRESH_ASSET_FULL, REFRESH_MULTI_ASSET_FULL, an address notification, a new block
\* with pending transactions ("full"); REFRESH_ASSET_BALANCE, any other block ("light")
Start(j, kind) ==
    /\ job[j].phase = "free"
    /\ job' = [job EXCEPT ![j].phase = "fetching", ![j].kind = kind, ![j].snap = wallet,
                          ![j].read = ToRead(IF kind = "full" THEN "info" ELSE "balance")]
    /\ UNCHANGED <<chain, wallet, local, loaded, reported>>

\* getAddressBalance_External: a BigNumber compared to the store's string with !==, so
\* every answer counts as a change and the full fetch follows
Balance(j, a) ==
    /\ job[j].phase = "fetching"
    /\ job[j].read[a].st = "balance"
    /\ job' = [job EXCEPT ![j].read[a].st = "info"]
    /\ UNCHANGED <<chain, wallet, local, loaded, reported>>

\* getAccountInfo: balance and txids as they are now
Info(j, a) ==
    /\ job[j].phase = "fetching"
    /\ job[j].read[a].st = "info"
    /\ job' = [job EXCEPT ![j].read[a] = [st |-> "read", conf |-> OnChain(a, "mined"),
                                          unconf |-> OnChain(a, "mempool")]]
    /\ UNCHANGED <<chain, wallet, local, loaded, reported>>

\* a request of the address fails; refreshAssetsFull tells a transient socket state apart
Fails(j, a) ==
    /\ job[j].phase = "fetching"
    /\ job[j].read[a].st \in {"balance", "info"}
    /\ \E st \in (IF job[j].kind = "full" THEN {"error", "transient"} ELSE {"error"}) :
         job' = [job EXCEPT ![j].read[a].st = st]
    /\ UNCHANGED <<chain, wallet, local, loaded, reported>>

\* What the job has of transaction t of address a in the end. It is not asked for
\* ("absent") unless it is in the account info or, later, among the utxos, and is not
\* already enriched and confirmed in the snapshot. Its details are read after the info.
CanGet(j, a, t, e) ==
    LET read == job[j].read[a]
        due  == job[j].snap[a].txs[t] # "conf"
    IN  \/ e = "absent" /\ (t \notin read.conf \cup read.unconf \/ ~due)
        \/ /\ e \in Details \cup {"failed"}
           /\ due /\ a \in Touches[t] /\ chain[t] # "unseen"
           /\ e = "failed" => t \in Flaky
           /\ e = "unconf" => t \notin read.conf
           /\ e = "conf" => chain[t] = "mined"

Results(j, a) ==
    {e \in [Tx -> Details \cup {"absent", "failed"}] : \A t \in Tx : CanGet(j, a, t, e[t])}

\* getAddressFull_ProcessResult: is the full update of an address accepted? (The value of
\* new txs is always 0 for utxo types, so the last case asks for an unchanged balance.)
Accepts(s, read, new) ==
    \/ ~s.fetched
    \/ s.failed
    \/ /\ s.hasBalance /\ s.conf = read.conf /\ s.unconf # read.unconf
       /\ \E t \in new : s.txs[t] = "none"

New(e) == {t \in Tx : e[t] # "absent"}

Got(e) == {t \in Tx : e[t] \in Details}

\* the addresses the job failed to read, and those it has read
Errors(j) == {a \in Addr : job[j].read[a].st = "error"}

ReadOk(j) == {a \in Addr : job[j].read[a].st = "read"}

\* the addresses with a full update, and with enriched transactions, in its batch
FullUpdates(j, e) ==
    {a \in ReadOk(j) : Accepts(job[j].snap[a], job[j].read[a], New(e[a]))}

Enrichments(j, e) == {a \in ReadOk(j) : Got(e[a]) # {}}

\* an address after the batch: errors, then the full updates, then the enriched txs
Updated(j, e, a) ==
    LET full == IF a \in FullUpdates(j, e)
                THEN SetFull(wallet[a], job[j].read[a], New(e[a])) ELSE wallet[a]
    IN  IF a \in Errors(j) THEN SetError(wallet[a])
        ELSE IF a \in Enrichments(j, e) THEN SetEnriched(full, job[j].read[a], e[a])
        ELSE full

\* the job's batch is posted, and applied by the reducer in one go
Apply(j, e) ==
    /\ wallet' = [a \in Addr |-> Updated(j, e, a)]
    /\ local' = Reconciled(local, wallet', FullUpdates(j, e) \cup Enrichments(j, e))
    /\ loaded' = (loaded \/ Errors(j) \cup FullUpdates(j, e) \cup Enrichments(j, e) # {})

\* the last address is done
Finish(j) ==
    /\ job[j].phase = "fetching"
    /\ \A a \in Addr : job[j].read[a].st \in {"error", "transient", "read"}
    /\ \E e \in [ReadOk(j) -> UNION {Results(j, a) : a \in ReadOk(j)}] :
         (\A a \in ReadOk(j) : e[a] \in Results(j, a)) /\ Apply(j, e)
    /\ job' = [job EXCEPT ![j] = [FreeJob EXCEPT !.phase = "done"]]
    /\ UNCHANGED <<chain, reported>>
-----------------------------------------------------------------------------
(* Sends                                                                    *)

\* txPush: the wallet and the asset it has now are those it refreshes with afterwards
Send(j, t) ==
    /\ job[j].phase = "free"
    /\ t \in Own
    /\ \A k \in Job : t \notin job[k].of
    /\ chain[t] = "unseen"
    /\ job' = [job EXCEPT ![j].phase = "sending", ![j].of = {t}, ![j].snap = wallet]
    /\ UNCHANGED <<chain, wallet, local, loaded, reported>>

\* the node accepts sendTransaction
Broadcast(j) ==
    /\ job[j].phase = "sending"
    /\ chain' = [t \in Tx |-> IF t \in job[j].of THEN "mempool" ELSE chain[t]]
    /\ job' = [job EXCEPT ![j].phase = "sent"]
    /\ UNCHANGED <<wallet, local, loaded, reported>>

\* an error, or no answer, to sendTransaction or to getTransaction
PushFails(j) ==
    /\ job[j].phase \in {"sending", "sent"}
    /\ job' = [job EXCEPT ![j] = [FreeJob EXCEPT !.phase = "done"]]
    /\ UNCHANGED <<chain, wallet, local, loaded, reported>>

\* PUSH_TX_BLOCKBOOK_DONE: the local tx is pushed, the caller told, and a full refresh
\* requested with the snapshot of before the send
PushDone(j) ==
    /\ job[j].phase = "sent"
    /\ \E t \in job[j].of : local' = PushLocal(t) /\ reported' = reported \cup {t}
    /\ job' = [job EXCEPT ![j].phase = "fetching"]
    /\ UNCHANGED <<chain, wallet, loaded>>
-----------------------------------------------------------------------------
Next ==
    \/ \E t \in Tx : Arrive(t) \/ Mined(t)
    \/ \E j \in Job :
         \/ \E kind \in {"full", "light"} : Start(j, kind)
         \/ \E a \in Addr : Balance(j, a) \/ Info(j, a) \/ Fails(j, a)
         \/ Finish(j)
         \/ \E t \in Own : Send(j, t)
         \/ Broadcast(j) \/ PushFails(j) \/ PushDone(j)

Spec == Init /\ [][Next]_vars
-----------------------------------------------------------------------------
(* Properties *)

TypeOK ==
    /\ chain \in [Tx -> {"unseen", "mempool", "mined"}]
    /\ wallet \in [Addr -> Address]
    /\ local \subseteq Own
    /\ loaded \in BOOLEAN
    /\ job \in [Job -> Jobs]
    /\ reported \subseteq Own

\* The store keeps its promise to the user: in whatever order the answers to sends and the
\* batches of overlapping refreshes reach the reducer, what the user sees is a Ledger.
Payments == INSTANCE Ledger WITH Transaction <- Tx, pending <- local, listed <- External,
                                 reported <- reported
KeepsLedger == Payments!Spec

\* A transaction is never listed twice, as a pending local one and as one of an address.
NoOverlap == local \cap External = {}

\* A payment reported as done to its caller stays in sight of the user: it is pending in
\* local_txs or it is listed for an address.
ReportedVisible == reported \subseteq local \cup External

\* A late batch never takes a transaction off an address's list, nor its details.
KnownStay ==
    [][\A a \in Addr, t \in Tx :
         /\ wallet[a].txs[t] # "none" => wallet'[a].txs[t] # "none"
         /\ wallet[a].txs[t] \in Details => wallet'[a].txs[t] \in Details]_vars

\* A balance counts only transactions that are listed for its address, those whose details
\* could not be fetched aside.
CountedIsListed ==
    \A a \in Addr : (wallet[a].conf \cup wallet[a].unconf) \ Flaky \subseteq Known(wallet[a])

\* get_combinedBalance adds the pending local transactions to the balances of the addresses,
\* so no address may count one of them: whatever the order of batches and answers, a
\* transaction is counted at most once, if its details can be fetched.
CountedOnce ==
    \A a \in Addr : (local \cap (wallet[a].conf \cup wallet[a].unconf)) \ Flaky = {}

\* "don't record a fetch error - that would mark the asset loaded with no data": an asset
\* that loadAllAssets takes as loaded has, for every address, a balance or an error.
LoadedHasData ==
    loaded => \A a \in Addr : wallet[a].hasBalance \/ wallet[a].failed

\* "delta on tx's value and the balance are in sync": a transaction shown as confirmed is
\* counted in the confirmed balance of its address.
InSync ==
    \A a \in Addr : {t \in Tx : wallet[a].txs[t] = "conf"} \subseteq wallet[a].conf
=============================================================================
