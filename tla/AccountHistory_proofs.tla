------------------------ MODULE AccountHistory_proofs ------------------------
(***************************************************************************)
(* Proofs about AccountHistory, for any transactions, jobs, heights and    *)
(* faults: a fetch that a job waits for is under way, nothing but a mined  *)
(* transaction is shown or cached as confirmed, and a refresh that ends    *)
(* without an error has put in the wallet what it owes.                    *)
(***************************************************************************)
EXTENDS AccountHistory, SequenceTheorems, TLAPS

JobFields == {"at", "asset", "self", "have", "height", "owed", "txids", "todo", "wait", "views", "lost"}

(* The part of the types that the proofs need.                              *)
Typed ==
    /\ mined \in Seq(Txs)
    /\ imported \in BOOLEAN
    /\ db \in [Txs -> Bundles \cup {None}]
    /\ DOMAIN inflight = Txs
    /\ \A tx \in Txs : inflight[tx] \in Fetches \cup {None}
    /\ store \in [Assets -> [Txs -> View \cup {None}]]
    /\ DOMAIN jobs = Jobs
    /\ \A j \in Jobs :
         /\ DOMAIN jobs[j] = JobFields
         /\ jobs[j].asset \in Assets /\ jobs[j].self \in BOOLEAN
         /\ jobs[j].wait \subseteq Txs
         /\ jobs[j].views \in [Txs -> View \cup {None}]

\* A transaction said to be confirmed is mined.
Says(view, tx) == view # None /\ view.conf => tx \in Range(mined)

\* a bundle, and each view in it, says so of mined transactions only
Sound(b, tx) ==
    b # None => /\ b.conf => tx \in Range(mined)
                /\ \A a \in Assets : Says(b.views[a], tx)

(* What is under way about a transaction is true of it, as what is kept is. *)
AllMined ==
    \A tx \in Txs :
        /\ db[tx] # None => db[tx].conf
        /\ Sound(db[tx], tx)
        /\ inflight[tx] # None => Sound(inflight[tx].bundle, tx)
        /\ \A j \in Jobs : Says(jobs[j].views[tx], tx)
        /\ \A a \in Assets : Says(store[a][tx], tx)

-----------------------------------------------------------------------------
\* The mined transactions get more, never fewer.
LEMMA MinedGrows ==
    ASSUME mined \in Seq(Txs), NEW tx \in Txs, Mine(tx)
    PROVE  mined' \in Seq(Txs) /\ Range(mined) \subseteq Range(mined')
<1>1. <<tx>> \in Seq(Txs) /\ mined' = <<tx>> \o mined
  BY DEF Mine
<1>2. mined' \in Seq(Txs)
  BY <1>1, ConcatProperties
<1>3. ASSUME NEW i \in DOMAIN mined PROVE mined[i] = mined'[i + 1] /\ i + 1 \in DOMAIN mined'
  BY <1>1, <1>2, <1>3
<1> QED BY <1>2, <1>3 DEF Range

\* What Blockbook, or the node, says of a transaction now.
LEMMA BundleSound ==
    ASSUME NEW tx \in Txs, NEW self \in BOOLEAN, NEW assets, NEW server \in {"blockbook", "web3"}
    PROVE  /\ BundleOf(server, tx, self, assets) \in Bundles
           /\ BundleOf(server, tx, self, assets).from = server
           /\ Sound(BundleOf(server, tx, self, assets), tx)
<1>1. PICK c \in BOOLEAN : c <=> tx \in Range(mined)
  OBVIOUS
<1>2. PICK s \in BOOLEAN : s <=> (self /\ tx \in PartyTxs)
  OBVIOUS
<1> DEFINE view == [conf |-> c, self |-> s]
           views == [a \in Assets |-> IF a \in assets THEN view ELSE None]
<1>3. BundleOf(server, tx, self, assets) = [from |-> server, conf |-> c, views |-> views]
  <2>1. c = (tx \in Range(mined)) /\ s = (self /\ tx \in PartyTxs)
    BY <1>1, <1>2, Zenon
  <2> QED BY <2>1, Zenon DEF BundleOf
<1>4. view \in View
  BY DEF View
<1>5. views \in [Assets -> View \cup {None}]
  BY <1>4
<1>6. ASSUME NEW a \in Assets PROVE Says(views[a], tx)
  BY <1>1, <1>6 DEF Says
<1> HIDE DEF views
<1> QED BY <1>1, <1>3, <1>5, <1>6 DEF Bundles, Sound

-----------------------------------------------------------------------------
\* The inductive invariant: what is under way, not only what is shown, is about mined
\* transactions, since every view comes from a fetch, the database or a shared fetch.
IInv == Typed /\ AllMined /\ WaitedIsFetched

\* A job that goes on without new views and without waiting for more.
Quiet(new, old) ==
    /\ DOMAIN new = JobFields
    /\ new.asset \in Assets /\ new.self \in BOOLEAN
    /\ new.views = old.views \/ new.views = NoViews
    /\ new.wait \subseteq old.wait

\* The fields of a job that has not begun.
LEMMA IdleFields ==
    DOMAIN Idle = JobFields /\ Idle.views = NoViews /\ Idle.wait = {}
      /\ Idle.asset \in Assets /\ Idle.self \in BOOLEAN
BY DEF Idle, JobFields, Assets

\* A step in which jobs go on quietly, and what the store gets is true.
LEMMA QuietStep ==
    ASSUME IInv, UNCHANGED <<mined, db, inflight>>, imported' \in BOOLEAN,
           DOMAIN jobs' = Jobs, \A i \in Jobs : Quiet(jobs'[i], jobs[i]),
           store' \in [Assets -> [Txs -> View \cup {None}]],
           \A a \in Assets, tx \in Txs : Says(store'[a][tx], tx)
    PROVE  IInv'
<1>1. NoViews \in [Txs -> View \cup {None}] /\ \A tx \in Txs : Says(NoViews[tx], tx)
  BY DEF NoViews, Says
<1>2. Typed'
  BY <1>1 DEF IInv, Typed, Quiet
<1>3. ASSUME NEW tx \in Txs, NEW i \in Jobs PROVE Says(jobs'[i].views[tx], tx)
  BY <1>1 DEF IInv, AllMined, Quiet
<1>4. AllMined'
  BY <1>3 DEF IInv, AllMined, Sound, Says
<1>5. WaitedIsFetched'
  BY DEF IInv, WaitedIsFetched, Quiet
<1> QED BY <1>2, <1>4, <1>5 DEF IInv

\* A step of one job, up to the enrichment.
LEMMA ListingStep ==
    ASSUME IInv, NEW j \in Jobs,
           \/ \E a \in Assets : Start(j, a)
           \/ ReadHeight(j) \/ ReadBalance(j) \/ AnswerList(j) \/ TakeList(j) \/ Fail(j)
    PROVE  IInv'
<1>0. DOMAIN jobs = Jobs /\ \A i \in Jobs : DOMAIN jobs[i] = JobFields /\ Quiet(jobs[i], jobs[i])
  BY DEF IInv, Typed, Quiet
<1> DEFINE goesOn == DOMAIN jobs' = Jobs /\ \A i \in Jobs : Quiet(jobs'[i], jobs[i])
<1>1. ASSUME NEW a \in Assets, Start(j, a) PROVE goesOn
  <2>1. DOMAIN jobs' = Jobs /\ \A i \in Jobs \ {j} : jobs'[i] = jobs[i]
    BY <1>0, <1>1 DEF Start
  <2>2. jobs'[j] = [Idle EXCEPT !.at = "height", !.asset = a, !.self = imported,
                                !.have = {tx \in Txs : Confirmed(a, tx)}]
    BY <1>0, <1>1 DEF Start
  <2>3. Quiet(jobs'[j], jobs[j])
    BY <2>2, IdleFields DEF IInv, Typed, Quiet, JobFields
  <2> QED BY <1>0, <2>1, <2>3
<1>2. ASSUME ReadHeight(j) PROVE goesOn
  BY <1>0, <1>2 DEF ReadHeight, Quiet, JobFields
<1>3. ASSUME ReadBalance(j) PROVE goesOn
  <2>1. DOMAIN jobs' = Jobs /\ \A i \in Jobs \ {j} : jobs'[i] = jobs[i]
    BY <1>0, <1>3 DEF ReadBalance
  <2>2. \/ jobs'[j] = Listed(jobs[j], cache.txids)
        \/ jobs'[j] = [jobs[j] EXCEPT !.at = "list"]
    BY <1>0, <1>3 DEF ReadBalance
  <2>3. Quiet(jobs'[j], jobs[j])
    BY <1>0, <2>2 DEF Listed, Quiet, JobFields
  <2> QED BY <1>0, <2>1, <2>3
<1>4. ASSUME AnswerList(j) PROVE goesOn
  BY <1>0, <1>4 DEF AnswerList, Quiet, JobFields
<1>5. ASSUME TakeList(j) PROVE goesOn
  <2>1. DOMAIN jobs' = Jobs /\ \A i \in Jobs \ {j} : jobs'[i] = jobs[i]
    BY <1>0, <1>5 DEF TakeList
  <2>2. jobs'[j] = Listed(jobs[j], jobs[j].txids)
    BY <1>0, <1>5 DEF TakeList
  <2>3. Quiet(jobs'[j], jobs[j])
    BY <1>0, <2>2 DEF Listed, Quiet, JobFields
  <2> QED BY <1>0, <2>1, <2>3
<1>6. ASSUME Fail(j) PROVE goesOn
  <2>1. DOMAIN jobs' = Jobs /\ \A i \in Jobs \ {j} : jobs'[i] = jobs[i]
    BY <1>0, <1>6 DEF Fail
  <2>2. jobs'[j] = Idle
    BY <1>0, <1>6 DEF Fail
  <2> QED BY <1>0, <2>1, <2>2, IdleFields DEF Quiet
<1>7. goesOn
  BY <1>1, <1>2, <1>3, <1>4, <1>5, <1>6
<1>8. UNCHANGED <<mined, imported, db, inflight, store>>
  BY DEF Start, ReadHeight, ReadBalance, AnswerList, TakeList, Fail, chain
<1> QED BY <1>7, <1>8, QuietStep DEF IInv, Typed, AllMined

\* The chain, and the import of an address.
LEMMA OutsideStep ==
    ASSUME IInv,
           \/ NewBlock \/ Import \/ \E tx \in Txs : Arrive(tx) \/ Mine(tx)
           \/ UNCHANGED vars
    PROVE  IInv'
<1>1. \A i \in Jobs : Quiet(jobs[i], jobs[i])
  BY DEF IInv, Typed, Quiet
<1>2. ASSUME NEW tx \in Txs, Mine(tx) PROVE IInv'
  <2>1. mined' \in Seq(Txs) /\ Range(mined) \subseteq Range(mined')
    BY <1>2, MinedGrows DEF IInv, Typed
  <2>2. UNCHANGED <<imported, db, inflight, jobs, store>>
    BY <1>2 DEF Mine
  <2>3. AllMined'
    BY <2>1, <2>2 DEF IInv, AllMined, Sound, Says
  <2> QED BY <2>1, <2>2, <2>3 DEF IInv, Typed, WaitedIsFetched
<1>3. ASSUME UNCHANGED <<mined, db, inflight, jobs, store>>, imported' \in BOOLEAN PROVE IInv'
  BY <1>1, <1>3, QuietStep DEF IInv, Typed, AllMined
<1> QED BY <1>2, <1>3 DEF NewBlock, Import, Arrive, vars, chain, IInv, Typed

\* A job ends: what it has of a transaction is true, and the store gets some of it.
LEMMA FinishStep ==
    ASSUME IInv, NEW j \in Jobs, Finish(j)
    PROVE  IInv'
<1> DEFINE a == jobs[j].asset
           new == [tx \in Txs |-> IF tx \in ToUpdate(jobs[j]) THEN jobs[j].views[tx] ELSE store[a][tx]]
<1>1. store' = [store EXCEPT ![a] = new] /\ a \in Assets
  BY DEF Finish, IInv, Typed
<1>2. new \in [Txs -> View \cup {None}] /\ \A tx \in Txs : Says(new[tx], tx)
  BY <1>1 DEF IInv, Typed, AllMined
<1> HIDE DEF new, a
<1>3. store' \in [Assets -> [Txs -> View \cup {None}]]
  BY <1>1, <1>2 DEF IInv, Typed
<1>4. ASSUME NEW b \in Assets, NEW tx \in Txs PROVE Says(store'[b][tx], tx)
  BY <1>1, <1>2 DEF IInv, Typed, AllMined
<1>5. DOMAIN jobs' = Jobs /\ \A i \in Jobs : Quiet(jobs'[i], jobs[i])
  BY IdleFields DEF Finish, IInv, Typed, Quiet
<1> QED BY <1>3, <1>4, <1>5, QuietStep DEF Finish, chain, IInv, Typed

\* A fetch changes: what it holds then is true of its transaction.
LEMMA FetchStep_changes ==
    ASSUME IInv, NEW tx \in Txs, UNCHANGED <<mined, imported, db, jobs, store>>,
           DOMAIN inflight' = Txs, inflight'[tx] \in Fetches,
           Sound(inflight'[tx].bundle, tx),
           \A t \in Txs \ {tx} : inflight'[t] = inflight[t]
    PROVE  IInv'
<1>1. Typed'
  BY DEF IInv, Typed
<1>2. AllMined'
  BY DEF IInv, AllMined, Sound, Says
<1>3. WaitedIsFetched'
  BY NoneAssumption DEF IInv, Typed, WaitedIsFetched
<1> QED BY <1>1, <1>2, <1>3 DEF IInv

\* The answers of Blockbook and of the node, and their absence.
LEMMA AnswerStep ==
    ASSUME IInv, NEW tx \in Txs,
           AnswerTx(tx) \/ FailTx(tx) \/ AnswerTx_web3(tx) \/ FallbackTimeout(tx)
    PROVE  IInv'
<1> DEFINE f == inflight[tx]
<1>1. f \in Fetches /\ DOMAIN inflight = Txs /\ Sound(f.bundle, tx)
  BY DEF IInv, Typed, AllMined, AnswerTx, FailTx, AnswerTx_web3, FallbackTimeout
<1>2. UNCHANGED <<mined, imported, db, jobs, store>>
  BY DEF AnswerTx, FailTx, AnswerTx_web3, FallbackTimeout, chain
<1>3. f.self \in BOOLEAN /\ f.bundle \in Bundles \cup {None}
      /\ f.at \in {"blockbook", "web3", "answered"}
      /\ DOMAIN f = {"at", "self", "bundle"}
  BY <1>1 DEF Fetches
<1> DEFINE changed(b) ==
             /\ DOMAIN inflight' = Txs
             /\ \A t \in Txs \ {tx} : inflight'[t] = inflight[t]
             /\ inflight'[tx] \in Fetches
             /\ inflight'[tx].bundle = b /\ Sound(b, tx)
<1>4. ASSUME AnswerTx(tx) PROVE \E b : changed(b)
  <2> DEFINE b == TxBundle(tx, f.self)
  <2>1. b \in Bundles /\ Sound(b, tx)
    BY <1>3, BundleSound DEF TxBundle
  <2> HIDE DEF b
  <2>2. inflight' = [inflight EXCEPT ![tx].at = "answered", ![tx].bundle = b]
    BY <1>4 DEF AnswerTx, b
  <2>3. changed(b)
    BY <1>1, <2>1, <2>2 DEF Fetches
  <2> QED BY <2>3
<1>5. ASSUME FailTx(tx) PROVE \E b : changed(b)
  <2>1. changed(f.bundle)
    BY <1>1, <1>5 DEF FailTx, Fetches
  <2> QED BY <2>1
<1>6. ASSUME AnswerTx_web3(tx) PROVE \E b : changed(b)
  <2>1. PICK b \in {None, Web3Bundle(tx, f.self)} :
           inflight' = [inflight EXCEPT ![tx].at = "answered", ![tx].bundle = b]
    BY <1>6 DEF AnswerTx_web3
  <2>2. b \in Bundles \cup {None} /\ Sound(b, tx)
    <3>1. CASE b = None
      BY <3>1 DEF Sound
    <3>2. CASE b = Web3Bundle(tx, f.self)
      BY <1>3, <3>2, BundleSound DEF Web3Bundle
    <3> QED BY <2>1, <3>1, <3>2
  <2>3. changed(b)
    BY <1>1, <2>1, <2>2 DEF Fetches
  <2> QED BY <2>3
<1>7. ASSUME FallbackTimeout(tx) PROVE \E b : changed(b)
  <2>1. changed(f.bundle)
    BY <1>1, <1>7 DEF FallbackTimeout, Fetches
  <2> QED BY <2>1
<1>8. PICK b : changed(b)
  BY <1>4, <1>5, <1>6, <1>7
<1> QED BY <1>2, <1>8, FetchStep_changes

\* A job takes a transaction from the database, waits for the fetch under way, or begins one.
LEMMA EnrichStep ==
    ASSUME IInv, NEW j \in Jobs, NEW tx \in Txs, Enrich(j, tx)
    PROVE  IInv'
<1>0. UNCHANGED <<mined, imported, db, store>>
  BY DEF Enrich, chain
<1>1. CASE db[tx] # None
  <2> DEFINE v == db[tx].views[jobs[j].asset]
  <2>1. v \in View \cup {None} /\ Says(v, tx)
    BY <1>1 DEF IInv, Typed, AllMined, Sound, Bundles
  <2>2. /\ jobs' = [jobs EXCEPT ![j].todo = @ \ {tx}, ![j].views[tx] = v]
        /\ UNCHANGED inflight
    BY <1>1 DEF Enrich
  <2> HIDE DEF v
  <2>3. /\ DOMAIN jobs' = Jobs
        /\ \A i \in Jobs \ {j} : jobs'[i] = jobs[i]
        /\ DOMAIN jobs'[j] = JobFields
        /\ jobs'[j].asset = jobs[j].asset /\ jobs'[j].self = jobs[j].self
        /\ jobs'[j].wait = jobs[j].wait
        /\ jobs'[j].views = [jobs[j].views EXCEPT ![tx] = v]
    BY <2>2 DEF IInv, Typed, JobFields
  <2>4. jobs'[j].views \in [Txs -> View \cup {None}]
    BY <2>1, <2>3 DEF IInv, Typed
  <2>5. \A t \in Txs : Says(jobs'[j].views[t], t)
    BY <2>1, <2>3 DEF IInv, Typed, AllMined
  <2>6. Typed' /\ WaitedIsFetched'
    BY <1>0, <2>2, <2>3, <2>4 DEF IInv, Typed, WaitedIsFetched
  <2>7. AllMined'
    BY <1>0, <2>2, <2>3, <2>5 DEF IInv, AllMined, Sound, Says
  <2> QED BY <2>6, <2>7 DEF IInv
<1>2. CASE db[tx] = None
  <2> DEFINE fetch == [at |-> "blockbook", self |-> jobs[j].self, bundle |-> None]
  <2>1. fetch \in Fetches /\ Sound(fetch.bundle, tx)
    BY DEF IInv, Typed, Fetches, Sound
  <2>2. /\ jobs' = [jobs EXCEPT ![j].todo = @ \ {tx}, ![j].wait = @ \cup {tx}]
        /\ inflight' = IF inflight[tx] # None THEN inflight ELSE [inflight EXCEPT ![tx] = fetch]
    BY <1>2 DEF Enrich
  <2> HIDE DEF fetch
  <2>3. /\ DOMAIN jobs' = Jobs
        /\ \A i \in Jobs \ {j} : jobs'[i] = jobs[i]
        /\ DOMAIN jobs'[j] = JobFields
        /\ jobs'[j].asset = jobs[j].asset /\ jobs'[j].self = jobs[j].self
        /\ jobs'[j].wait = jobs[j].wait \cup {tx}
        /\ jobs'[j].views = jobs[j].views
    BY <2>2 DEF IInv, Typed, JobFields
  <2>4. /\ DOMAIN inflight' = Txs
        /\ \A t \in Txs \ {tx} : inflight'[t] = inflight[t]
        /\ inflight'[tx] \in Fetches /\ Sound(inflight'[tx].bundle, tx)
    BY <2>1, <2>2 DEF IInv, Typed, AllMined
  <2>5. Typed'
    BY <1>0, <2>3, <2>4 DEF IInv, Typed
  <2>6. WaitedIsFetched'
    BY <2>3, <2>4, NoneAssumption DEF IInv, Typed, WaitedIsFetched
  <2>7. \A i \in Jobs : jobs'[i].views = jobs[i].views
    BY <2>3
  <2>8. AllMined'
    BY <1>0, <2>4, <2>7 DEF IInv, AllMined, Sound, Says
  <2> QED BY <2>5, <2>6, <2>8 DEF IInv
<1> QED BY <1>1, <1>2

\* A fetch ends: the database and the jobs that wait for it get what it holds.
LEMMA EndStep ==
    ASSUME IInv, NEW tx \in Txs, EndFetch(tx)
    PROVE  IInv'
<1> DEFINE b == inflight[tx].bundle
<1>0. UNCHANGED <<mined, imported, store>>
  BY DEF EndFetch, chain
<1>1. b \in Bundles \cup {None} /\ Sound(b, tx)
  BY DEF EndFetch, IInv, Typed, AllMined, Fetches
<1>2. /\ db' = db \/ (db' = [db EXCEPT ![tx] = b] /\ b # None /\ b.conf)
      /\ jobs' = [i \in Jobs |-> Given(jobs[i], tx, b)]
      /\ inflight' = [inflight EXCEPT ![tx] = None]
  BY DEF EndFetch, Cacheable, AfterFetch
<1> HIDE DEF b
<1>3. db' \in [Txs -> Bundles \cup {None}]
      /\ \A t \in Txs : Sound(db'[t], t) /\ (db'[t] # None => db'[t].conf)
  BY <1>1, <1>2 DEF IInv, Typed, AllMined
<1>4. /\ DOMAIN inflight' = Txs /\ inflight'[tx] = None
      /\ \A t \in Txs \ {tx} : inflight'[t] = inflight[t]
  BY <1>2 DEF IInv, Typed
<1>5. ASSUME NEW i \in Jobs
      PROVE  /\ DOMAIN jobs'[i] = JobFields
             /\ jobs'[i].asset = jobs[i].asset /\ jobs'[i].self = jobs[i].self
             /\ jobs'[i].wait = jobs[i].wait \ {tx}
             /\ jobs'[i].views \in [Txs -> View \cup {None}]
             /\ \A t \in Txs : Says(jobs'[i].views[t], t)
  <2> DEFINE v == IF b = None THEN None ELSE b.views[jobs[i].asset]
  <2>1. jobs'[i] = Given(jobs[i], tx, b) /\ jobs[i].asset \in Assets
    BY <1>2 DEF IInv, Typed
  <2>2. v \in View \cup {None} /\ Says(v, tx)
    BY <1>1, <2>1 DEF Bundles, Sound, Says
  <2>3. CASE tx \in jobs[i].wait
    <3>1. PICK l : jobs'[i] = [jobs[i] EXCEPT !.wait = @ \ {tx}, !.views[tx] = v, !.lost = l]
      BY <2>1, <2>3 DEF Given
    <3> HIDE DEF v
    <3>2. /\ DOMAIN jobs'[i] = JobFields
          /\ jobs'[i].asset = jobs[i].asset /\ jobs'[i].self = jobs[i].self
          /\ jobs'[i].wait = jobs[i].wait \ {tx}
          /\ jobs'[i].views = [jobs[i].views EXCEPT ![tx] = v]
      BY <3>1 DEF IInv, Typed, JobFields
    <3> QED BY <2>2, <3>2 DEF IInv, Typed, AllMined
  <2>4. CASE tx \notin jobs[i].wait
    BY <2>1, <2>4 DEF Given, IInv, Typed, AllMined
  <2> QED BY <2>3, <2>4
<1>6. DOMAIN jobs' = Jobs
  BY <1>2
<1>7. Typed'
  BY <1>0, <1>3, <1>4, <1>5, <1>6 DEF IInv, Typed
<1>8. WaitedIsFetched'
  BY <1>4, <1>5 DEF IInv, Typed, WaitedIsFetched
<1>9. AllMined'
  BY <1>0, <1>3, <1>4, <1>5 DEF IInv, AllMined, Sound, Says
<1> QED BY <1>7, <1>8, <1>9 DEF IInv

\* The inductive invariant holds in every reachable state.
THEOREM Invariance == Spec => []IInv
<1>1. Init => IInv
  <2> SUFFICES ASSUME Init PROVE IInv
    OBVIOUS
  <2>1. Typed
    <3>1. \A j \in Jobs : jobs[j] = Idle
      BY DEF Init
    <3>2. NoViews \in [Txs -> View \cup {None}] /\ <<>> \in Seq(Txs)
      BY DEF NoViews
    <3>3. db = NoViews /\ inflight = NoViews /\ DOMAIN NoViews = Txs /\ \A tx \in Txs : NoViews[tx] = None
      BY DEF Init, NoViews
    <3>4. store \in [Assets -> [Txs -> View \cup {None}]]
      BY <3>2 DEF Init
    <3>5. db \in [Txs -> Bundles \cup {None}]
      BY DEF Init, NoViews
    <3>6. mined \in Seq(Txs) /\ imported \in BOOLEAN /\ DOMAIN jobs = Jobs
      BY <3>2 DEF Init
    <3>7. DOMAIN inflight = Txs /\ \A tx \in Txs : inflight[tx] \in Fetches \cup {None}
      BY <3>3
    <3>8. ASSUME NEW j \in Jobs
          PROVE  /\ DOMAIN jobs[j] = JobFields
                 /\ jobs[j].asset \in Assets /\ jobs[j].self \in BOOLEAN
                 /\ jobs[j].wait \subseteq Txs
                 /\ jobs[j].views \in [Txs -> View \cup {None}]
      BY <3>1, <3>2, IdleFields
    <3> QED BY <3>4, <3>5, <3>6, <3>7, <3>8 DEF Typed
  <2>2. AllMined
    BY IdleFields DEF Init, AllMined, Sound, Says, NoViews
  <2>3. WaitedIsFetched
    BY IdleFields DEF Init, WaitedIsFetched
  <2> QED BY <2>1, <2>2, <2>3 DEF IInv
<1>2. IInv /\ [Next]_vars => IInv'
  <2> SUFFICES ASSUME IInv, [Next]_vars PROVE IInv'
    OBVIOUS
  <2>1. CASE NewBlock \/ Import \/ (\E tx \in Txs : Arrive(tx) \/ Mine(tx)) \/ UNCHANGED vars
    BY <2>1, OutsideStep
  <2>2. ASSUME NEW tx \in Txs, FetchStep(tx) \/ AnswerTx_web3(tx) PROVE IInv'
    BY <2>2, AnswerStep, EndStep DEF FetchStep
  <2>3. ASSUME NEW j \in Jobs, JobStep(j) PROVE IInv'
    BY <2>3, ListingStep, EnrichStep, FinishStep DEF JobStep
  <2>4. ASSUME NEW j \in Jobs, NEW a \in Assets, Start(j, a) PROVE IInv'
    BY <2>4, ListingStep
  <2> QED BY <2>1, <2>2, <2>3, <2>4 DEF Next
<1> QED BY <1>1, <1>2, PTL DEF Spec

\* WaitedIsFetched: bb_txInflight never forgets a fetch that a job waits for, whichever jobs
\* share it and however it ends.
THEOREM FetchesAreKept == Spec => []WaitedIsFetched
<1>1. IInv => WaitedIsFetched
  BY DEF IInv
<1> QED BY <1>1, Invariance, PTL

\* FinalIsMined: nothing is kept for good, or shown as confirmed, that is not mined, over
\* any overlap of refreshes, failures and imports.
THEOREM FinalIsTrue == Spec => []FinalIsMined
<1>1. IInv => FinalIsMined
  BY DEF IInv, AllMined, Sound, Says, FinalIsMined, Confirmed
<1> QED BY <1>1, Invariance, PTL

(***************************************************************************)
(* What a refresh owes.                                                    *)
(***************************************************************************)

\* A list has what is owed, or as many ids as the cap allows.
Covers(txids, owed) == owed \subseteq Range(txids) \/ Len(txids) = Cap

\* A job that has read the height and not its list yet.
Reading(j) == jobs[j].at \in {"balance", "list", "listed"}

\* What is owed at a height is the same for all that have read it, and is on every list of that height.
ListsCover ==
    /\ mempool \in Seq(Txs) /\ reached \subseteq Known
    /\ \A j \in Jobs : Reading(j) =>
          /\ jobs[j].owed \subseteq Known
          /\ jobs[j].height = height => jobs[j].owed = reached
          /\ \A i \in Jobs : Reading(i) /\ jobs[i].height = jobs[j].height =>
                jobs[i].owed = jobs[j].owed
          /\ cache # None /\ cache.height = jobs[j].height => Covers(cache.txids, jobs[j].owed)
    /\ cache # None /\ cache.height = height => Covers(cache.txids, reached)
    /\ \A j \in Jobs : jobs[j].at \in {"listed", "enrich"} => Covers(jobs[j].txids, jobs[j].owed)

\* Blockbook's word on a transaction has a view for every asset it moves.
Whole(b, tx) ==
    b # None /\ b.from = "blockbook" =>
        \A a \in Assets : Moves(a, tx) => b.views[a] # None

BundlesWhole ==
    \A tx \in Txs :
        /\ db[tx] # None => db[tx].from = "blockbook"
        /\ Whole(db[tx], tx)
        /\ inflight[tx] # None => Whole(inflight[tx].bundle, tx)

\* Every transaction on its list a job is yet to enrich, waits for, has lost or has a view of.
Accounted ==
    \A j \in Jobs : jobs[j].at = "enrich" =>
        \A tx \in Range(jobs[j].txids) :
            \/ tx \in jobs[j].todo \cup jobs[j].wait \cup jobs[j].lost
            \/ ~Moves(jobs[j].asset, tx)
            \/ jobs[j].views[tx] # None

\* What a job had at first the wallet still has.
HadStays == \A j \in Jobs : \A tx \in jobs[j].have : store[jobs[j].asset][tx] # None

\* What is owed, and what a job had, are transactions.
Listable == reached \subseteq Txs /\ \A j \in Jobs : jobs[j].have \subseteq Txs /\ jobs[j].owed \subseteq Txs

Owing == ListsCover /\ BundlesWhole /\ Accounted /\ HadStays /\ Listable

\* What Blockbook knows it goes on knowing.
LEMMA KnownGrows ==
    ASSUME mempool \in Seq(Txs), mined \in Seq(Txs), NEW tx \in Txs, Arrive(tx) \/ Mine(tx)
    PROVE  mempool' \in Seq(Txs) /\ Known \subseteq Known'
<1>1. <<tx>> \in Seq(Txs)
  OBVIOUS
<1>2. CASE Arrive(tx)
  <2>1. mempool' = <<tx>> \o mempool /\ mined' = mined
    BY <1>2 DEF Arrive
  <2>2. Range(mempool') = Range(<<tx>>) \cup Range(mempool)
    BY <1>1, <2>1, RangeConcatenation
  <2>3. mempool' \in Seq(Txs)
    BY <1>1, <2>1, ConcatProperties
  <2> QED BY <2>1, <2>2, <2>3 DEF Known
<1>3. CASE Mine(tx)
  <2>1. mined' = <<tx>> \o mined
    BY <1>3 DEF Mine
  <2>2. Range(mined') = Range(<<tx>>) \cup Range(mined)
    BY <1>1, <2>1, RangeConcatenation
  <2>3. tx \in Range(<<tx>>)
    <3>1. 1 \in DOMAIN <<tx>> /\ <<tx>>[1] = tx
      OBVIOUS
    <3> QED BY <3>1 DEF Range
  <2>4. CASE UNCHANGED mempool
    BY <2>2, <2>4 DEF Known
  <2>5. CASE \E i \in DOMAIN mempool : mempool[i] = tx /\ mempool' = RemoveAt(mempool, i)
    <3>1. PICK i \in DOMAIN mempool : mempool[i] = tx /\ mempool' = RemoveAt(mempool, i)
      BY <2>5
    <3>2. /\ DOMAIN mempool = 1..Len(mempool) /\ Len(mempool) \in Nat /\ i \in 1..Len(mempool)
          /\ \A k \in 1..Len(mempool) : mempool[k] \in Txs
      BY <3>1
    <3> DEFINE left == SubSeq(mempool, 1, i - 1)
               right == SubSeq(mempool, i + 1, Len(mempool))
    <3>3. /\ left \in Seq(Txs) /\ Len(left) = i - 1
          /\ \A k \in 1 .. i - 1 : left[k] = mempool[k]
      BY <3>2, SubSeqProperties
    <3>4. /\ right \in Seq(Txs) /\ Len(right) = Len(mempool) - i
          /\ \A k \in 1 .. Len(mempool) - i : right[k] = mempool[k + i]
      BY <3>2, SubSeqProperties
    <3>5. mempool' = left \o right
      BY <3>1 DEF RemoveAt
    <3> HIDE DEF left, right
    <3>6. mempool' \in Seq(Txs) /\ Range(mempool') = Range(left) \cup Range(right)
      BY <3>3, <3>4, <3>5, ConcatProperties, RangeConcatenation
    <3>7. ASSUME NEW t \in Range(mempool), t # tx PROVE t \in Range(mempool')
      <4>1. PICK k \in 1..Len(mempool) : mempool[k] = t
        BY <3>2, <3>7 DEF Range
      <4>2. CASE k < i
        <5>1. k \in DOMAIN left /\ left[k] = t
          BY <3>2, <3>3, <4>1, <4>2
        <5> QED BY <3>6, <5>1 DEF Range
      <4>3. CASE k > i
        <5>1. k - i \in 1 .. Len(mempool) - i /\ (k - i) + i = k
          BY <3>2, <4>1, <4>3
        <5>2. k - i \in DOMAIN right /\ right[k - i] = t
          BY <3>4, <4>1, <5>1
        <5> QED BY <3>6, <5>2 DEF Range
      <4>4. k # i
        BY <3>1, <3>7, <4>1
      <4> QED BY <3>2, <4>1, <4>2, <4>3, <4>4
    <3> QED BY <2>2, <2>3, <3>6, <3>7 DEF Known
  <2> QED BY <1>3, <2>4, <2>5 DEF Mine
<1> QED BY <1>2, <1>3

\* A step of one job keeps the lists covering, if it keeps what it has read, or reads the height.
LEMMA OneJobCovers ==
    ASSUME ListsCover, NEW j \in Jobs, UNCHANGED chain,
           \A i \in Jobs \ {j} : jobs'[i] = jobs[i],
           Reading(j)' => \/ Reading(j) /\ jobs'[j].owed = jobs[j].owed /\ jobs'[j].height = jobs[j].height
                          \/ jobs'[j].owed = reached /\ jobs'[j].height = height,
           jobs'[j].at \in {"listed", "enrich"} => Covers(jobs'[j].txids, jobs'[j].owed),
           \/ cache' = cache
           \/ /\ Reading(j) /\ cache'.height = jobs[j].height
              /\ Covers(cache'.txids, jobs[j].owed)
    PROVE  ListsCover'
<1>1. UNCHANGED <<height, mempool, mined, reached>> /\ Known' = Known
  BY DEF chain, Known
<1> DEFINE owedAt(h, o) == /\ o \subseteq Known
                           /\ h = height => o = reached
                           /\ \A i \in Jobs : Reading(i) /\ jobs[i].height = h => jobs[i].owed = o
                           /\ cache # None /\ cache.height = h => Covers(cache.txids, o)
<1>2. owedAt(height, reached)
  BY DEF ListsCover
<1>3. \A i \in Jobs : Reading(i) => owedAt(jobs[i].height, jobs[i].owed)
  BY DEF ListsCover
<1>4. ASSUME NEW i \in Jobs, Reading(i)'
      PROVE  owedAt(jobs'[i].height, jobs'[i].owed)
  <2>1. CASE i = j
    BY <1>2, <1>3, <1>4, <2>1
  <2>2. CASE i # j
    BY <1>3, <1>4, <2>2 DEF Reading
  <2> QED BY <2>1, <2>2
<1>5. ASSUME NEW i \in Jobs, Reading(i)', NEW k \in Jobs, Reading(k)', jobs'[i].height = jobs'[k].height
      PROVE  jobs'[i].owed = jobs'[k].owed
  <2>1. owedAt(jobs'[i].height, jobs'[i].owed) /\ owedAt(jobs'[k].height, jobs'[k].owed)
    BY <1>4, <1>5
  <2>2. ASSUME NEW l \in Jobs, Reading(l)'
        PROVE  \/ Reading(l) /\ jobs'[l].owed = jobs[l].owed /\ jobs'[l].height = jobs[l].height
               \/ jobs'[l].owed = reached /\ jobs'[l].height = height
    BY <2>2 DEF Reading
  <2> QED BY <1>5, <2>1, <2>2
<1>6. ASSUME NEW h, NEW o, owedAt(h, o), cache' # None, cache'.height = h
      PROVE  Covers(cache'.txids, o)
  BY <1>6
<1>7. \A i \in Jobs : jobs'[i].at \in {"listed", "enrich"} => Covers(jobs'[i].txids, jobs'[i].owed)
  BY DEF ListsCover
<1>8. mempool' \in Seq(Txs) /\ reached' \subseteq Known'
  BY <1>1 DEF ListsCover
<1>9. ASSUME NEW i \in Jobs, Reading(i)'
      PROVE  /\ jobs'[i].owed \subseteq Known'
             /\ jobs'[i].height = height' => jobs'[i].owed = reached'
             /\ cache' # None /\ cache'.height = jobs'[i].height => Covers(cache'.txids, jobs'[i].owed)
  <2>1. owedAt(jobs'[i].height, jobs'[i].owed)
    BY <1>4, <1>9
  <2> QED BY <1>1, <1>6, <2>1
<1>10. cache' # None /\ cache'.height = height' => Covers(cache'.txids, reached')
  BY <1>1, <1>2, <1>6
<1> HIDE DEF owedAt
<1> QED BY <1>5, <1>7, <1>8, <1>9, <1>10 DEF ListsCover, Covers

\* A step that leaves the lists alone.
LEMMA SameListsCover ==
    ASSUME ListsCover, UNCHANGED chain, UNCHANGED cache,
           \A i \in Jobs : /\ jobs'[i].at = jobs[i].at /\ jobs'[i].height = jobs[i].height
                           /\ jobs'[i].owed = jobs[i].owed /\ jobs'[i].txids = jobs[i].txids
    PROVE  ListsCover'
<1>1. UNCHANGED <<height, mempool, mined, reached>> /\ Known' = Known
  BY DEF chain, Known
<1>2. \A i \in Jobs : Reading(i)' <=> Reading(i)
  BY DEF Reading
<1> QED BY <1>1, <1>2 DEF ListsCover, Covers

\* The chain goes on.
LEMMA ChainCovers ==
    ASSUME IInv, ListsCover, NewBlock \/ \E tx \in Txs : Arrive(tx) \/ Mine(tx)
    PROVE  ListsCover'
<1>1. ASSUME NEW tx \in Txs, Arrive(tx) \/ Mine(tx) PROVE ListsCover'
  <2>1. mempool' \in Seq(Txs) /\ Known \subseteq Known'
    BY <1>1, KnownGrows DEF IInv, Typed, ListsCover
  <2>2. UNCHANGED <<height, reached, cache, jobs>>
    BY <1>1 DEF Arrive, Mine
  <2> QED BY <2>1, <2>2 DEF ListsCover, Covers, Reading
<1>2. CASE NewBlock
  <2>1. /\ reached' = Known /\ UNCHANGED <<mempool, mined, cache, jobs>>
        /\ cache # None => cache.height # height'
        /\ \A j \in Jobs : jobs[j].height # height'
    BY <1>2 DEF NewBlock, Referenced
  <2>2. Known' = Known
    BY <2>1 DEF Known
  <2> QED BY <2>1, <2>2 DEF ListsCover, Covers, Reading
<1> QED BY <1>1, <1>2

\* The list Blockbook answers has what is owed, or is as long as the cap.
LEMMA AnswerCovers ==
    ASSUME IInv, ListsCover, NEW j \in Jobs, AnswerList(j)
    PROVE  Covers(jobs'[j].txids, jobs'[j].owed)
<1> DEFINE all == mempool \o mined
           txids == IF Len(all) > Cap THEN SubSeq(all, 1, Cap) ELSE all
<1>1. jobs' = [jobs EXCEPT ![j].at = "listed", ![j].txids = txids] /\ Reading(j)
  BY DEF AnswerList, Reading
<1>2. jobs'[j].txids = txids /\ jobs'[j].owed = jobs[j].owed
  <2> HIDE DEF txids
  <2> QED BY <1>1 DEF IInv, Typed, JobFields
<1>3. jobs[j].owed \subseteq Known
  BY <1>1 DEF ListsCover
<1>4. mempool \in Seq(Txs) /\ mined \in Seq(Txs)
  BY DEF ListsCover, IInv, Typed
<1>5. all \in Seq(Txs) /\ Range(all) = Known
  BY <1>4, ConcatProperties, RangeConcatenation DEF Known
<1>6. Cap \in Nat
  BY CapAssumption
<1> HIDE DEF all
<1>7. CASE Len(all) > Cap
  <2>1. \A i \in 1..Cap : all[i] \in Txs
    BY <1>5, <1>6, <1>7
  <2>2. Len(SubSeq(all, 1, Cap)) = IF 1 <= Cap THEN Cap - 1 + 1 ELSE 0
    BY <1>6, <2>1, SubSeqProperties
  <2>3. Len(SubSeq(all, 1, Cap)) = Cap
    BY <1>6, <2>2
  <2> QED BY <1>2, <1>7, <2>3 DEF Covers
<1>8. CASE ~(Len(all) > Cap)
  BY <1>2, <1>3, <1>5, <1>8 DEF Covers
<1> QED BY <1>7, <1>8

\* The steps of a job up to the enrichment.
LEMMA ListingCovers ==
    ASSUME IInv, ListsCover, NEW j \in Jobs,
           \/ \E a \in Assets : Start(j, a)
           \/ ReadHeight(j) \/ ReadBalance(j) \/ AnswerList(j) \/ TakeList(j) \/ Fail(j)
    PROVE  ListsCover'
<1>0. DOMAIN jobs = Jobs /\ DOMAIN jobs[j] = JobFields /\ Idle.at = "idle"
  BY DEF IInv, Typed, Idle
<1>1. UNCHANGED chain /\ \A i \in Jobs \ {j} : jobs'[i] = jobs[i]
  BY <1>0 DEF Start, ReadHeight, ReadBalance, AnswerList, TakeList, Fail
<1>2. ASSUME NEW a \in Assets, Start(j, a) PROVE ListsCover'
  <2>1. jobs' = [jobs EXCEPT ![j] = [Idle EXCEPT !.at = "height", !.asset = a, !.self = imported,
                                                 !.have = {tx \in Txs : Confirmed(a, tx)}]]
    BY <1>2 DEF Start
  <2>2. jobs'[j].at = "height" /\ cache' = cache
    BY <1>0, <1>2, <2>1, IdleFields DEF Start, JobFields
  <2> QED BY <1>1, <2>2, OneJobCovers DEF Reading
<1>3. ASSUME ReadHeight(j) PROVE ListsCover'
  <2>1. jobs' = [jobs EXCEPT ![j].at = "balance", ![j].height = height, ![j].owed = reached]
    BY <1>3 DEF ReadHeight
  <2>2. /\ jobs'[j].at = "balance" /\ jobs'[j].height = height /\ jobs'[j].owed = reached
        /\ cache' = cache
    BY <1>0, <1>3, <2>1 DEF ReadHeight, JobFields
  <2> QED BY <1>1, <2>2, OneJobCovers
<1>4. ASSUME ReadBalance(j) PROVE ListsCover'
  <2>1. Reading(j) /\ cache' = cache
    BY <1>4 DEF ReadBalance, Reading
  <2>2. CASE CacheHit(jobs[j].height)
    <3>1. jobs'[j] = Listed(jobs[j], cache.txids)
      BY <1>0, <1>4, <2>2 DEF ReadBalance
    <3>2. jobs'[j].at = "enrich" /\ jobs'[j].txids = cache.txids /\ jobs'[j].owed = jobs[j].owed
      BY <1>0, <3>1 DEF Listed, JobFields
    <3>3. Covers(cache.txids, jobs[j].owed)
      BY <2>1, <2>2 DEF CacheHit, ListsCover
    <3> QED BY <1>1, <2>1, <3>2, <3>3, OneJobCovers DEF Reading
  <2>3. CASE ~CacheHit(jobs[j].height)
    <3>1. jobs'[j] = [jobs[j] EXCEPT !.at = "list"]
      BY <1>0, <1>4, <2>3 DEF ReadBalance
    <3>2. jobs'[j].at = "list" /\ jobs'[j].height = jobs[j].height /\ jobs'[j].owed = jobs[j].owed
      BY <1>0, <3>1 DEF JobFields
    <3> QED BY <1>1, <2>1, <3>2, OneJobCovers
  <2> QED BY <2>2, <2>3
<1>5. ASSUME AnswerList(j) PROVE ListsCover'
  <2> DEFINE all == mempool \o mined
             txids == IF Len(all) > Cap THEN SubSeq(all, 1, Cap) ELSE all
  <2>1. jobs' = [jobs EXCEPT ![j].at = "listed", ![j].txids = txids]
    BY <1>5 DEF AnswerList
  <2> HIDE DEF txids
  <2>2. /\ Reading(j) /\ cache' = cache
        /\ jobs'[j].height = jobs[j].height /\ jobs'[j].owed = jobs[j].owed
    BY <1>0, <1>5, <2>1 DEF AnswerList, JobFields, Reading
  <2>3. Covers(jobs'[j].txids, jobs'[j].owed)
    BY <1>5, AnswerCovers
  <2> QED BY <1>1, <2>2, <2>3, OneJobCovers
<1>6. ASSUME TakeList(j) PROVE ListsCover'
  <2>1. /\ jobs[j].at = "listed" /\ cache' = [height |-> jobs[j].height, txids |-> jobs[j].txids]
        /\ jobs'[j] = Listed(jobs[j], jobs[j].txids)
    BY <1>0, <1>6 DEF TakeList
  <2>2. jobs'[j].at = "enrich" /\ jobs'[j].txids = jobs[j].txids /\ jobs'[j].owed = jobs[j].owed
    BY <1>0, <2>1 DEF Listed, JobFields
  <2>3. Covers(jobs[j].txids, jobs[j].owed)
    BY <2>1 DEF ListsCover
  <2>4. /\ Reading(j) /\ cache'.height = jobs[j].height /\ cache'.txids = jobs[j].txids
    BY <2>1 DEF Reading
  <2> QED BY <1>1, <2>2, <2>3, <2>4, OneJobCovers DEF Reading
<1>7. ASSUME Fail(j) PROVE ListsCover'
  <2>1. jobs'[j] = Idle /\ cache' = cache
    BY <1>0, <1>7 DEF Fail
  <2>2. jobs'[j].at = "idle"
    BY <1>0, <2>1
  <2> QED BY <1>1, <2>1, <2>2, OneJobCovers DEF Reading
<1> QED BY <1>2, <1>3, <1>4, <1>5, <1>6, <1>7

\* A job ends.
LEMMA FinishCovers ==
    ASSUME IInv, ListsCover, NEW j \in Jobs, Finish(j)
    PROVE  ListsCover'
<1>0. DOMAIN jobs = Jobs /\ Idle.at = "idle"
  BY DEF IInv, Typed, Idle
<1>1. UNCHANGED chain /\ UNCHANGED cache /\ \A i \in Jobs \ {j} : jobs'[i] = jobs[i]
  BY <1>0 DEF Finish
<1>2. jobs'[j].at = "idle"
  BY <1>0 DEF Finish
<1> QED BY <1>1, <1>2, OneJobCovers DEF Reading

\* The steps about a transaction.
LEMMA FetchCovers ==
    ASSUME IInv, ListsCover, NEW tx \in Txs,
           \/ FetchStep(tx) \/ AnswerTx_web3(tx) \/ \E j \in Jobs : Enrich(j, tx)
    PROVE  ListsCover'
<1>0. DOMAIN jobs = Jobs /\ \A i \in Jobs : DOMAIN jobs[i] = JobFields
  BY DEF IInv, Typed
<1>1. UNCHANGED chain /\ UNCHANGED cache
  BY DEF FetchStep, AnswerTx, FailTx, FallbackTimeout, EndFetch, AnswerTx_web3, Enrich
<1> DEFINE same == \A i \in Jobs : /\ jobs'[i].at = jobs[i].at /\ jobs'[i].height = jobs[i].height
                                   /\ jobs'[i].owed = jobs[i].owed /\ jobs'[i].txids = jobs[i].txids
<1>2. ASSUME AnswerTx(tx) \/ FailTx(tx) \/ FallbackTimeout(tx) \/ AnswerTx_web3(tx) PROVE same
  BY <1>2 DEF AnswerTx, FailTx, FallbackTimeout, AnswerTx_web3
<1>3. ASSUME EndFetch(tx) PROVE same
  <2>1. PICK b : jobs' = [i \in Jobs |-> Given(jobs[i], tx, b)]
    BY <1>3 DEF EndFetch
  <2>2. ASSUME NEW i \in Jobs
        PROVE  /\ jobs'[i].at = jobs[i].at /\ jobs'[i].height = jobs[i].height
               /\ jobs'[i].owed = jobs[i].owed /\ jobs'[i].txids = jobs[i].txids
    <3>1. jobs'[i] = Given(jobs[i], tx, b)
      BY <2>1
    <3>2. CASE tx \in jobs[i].wait
      <4>1. PICK v, l : jobs'[i] = [jobs[i] EXCEPT !.wait = @ \ {tx}, !.views[tx] = v, !.lost = l]
        BY <3>1, <3>2 DEF Given
      <4> QED BY <1>0, <4>1 DEF JobFields
    <3>3. CASE tx \notin jobs[i].wait
      BY <3>1, <3>3 DEF Given
    <3> QED BY <3>2, <3>3
  <2> QED BY <2>2
<1>4. ASSUME NEW j \in Jobs, Enrich(j, tx) PROVE same
  <2>1. \/ \E v : jobs' = [jobs EXCEPT ![j].todo = @ \ {tx}, ![j].views[tx] = v]
        \/ jobs' = [jobs EXCEPT ![j].todo = @ \ {tx}, ![j].wait = @ \cup {tx}]
    BY <1>4 DEF Enrich
  <2>2. CASE \E v : jobs' = [jobs EXCEPT ![j].todo = @ \ {tx}, ![j].views[tx] = v]
    <3>1. PICK v : jobs' = [jobs EXCEPT ![j].todo = @ \ {tx}, ![j].views[tx] = v]
      BY <2>2
    <3> QED BY <1>0, <3>1 DEF JobFields
  <2>3. CASE jobs' = [jobs EXCEPT ![j].todo = @ \ {tx}, ![j].wait = @ \cup {tx}]
    BY <1>0, <2>3 DEF JobFields
  <2> QED BY <2>1, <2>2, <2>3
<1>5. same
  BY <1>2, <1>3, <1>4 DEF FetchStep
<1> QED BY <1>1, <1>5, SameListsCover

\* Blockbook's word is whole; the node's need not be.
LEMMA BundleWhole ==
    ASSUME NEW tx \in Txs, NEW self \in BOOLEAN
    PROVE  Whole(TxBundle(tx, self), tx) /\ Whole(Web3Bundle(tx, self), tx)
<1> DEFINE c == tx \in Range(mined)
           view == [conf |-> c, self |-> self /\ tx \in PartyTxs]
           views(assets) == [a \in Assets |-> IF a \in assets THEN view ELSE None]
<1>1. view \in View
  <2>1. c \in BOOLEAN /\ (self /\ tx \in PartyTxs) \in BOOLEAN
    OBVIOUS
  <2> QED BY <2>1 DEF View
<1>2. view # None
  BY <1>1, NoneAssumption
<1>3. TxBundle(tx, self).views = views({a \in Assets : Moves(a, tx)})
  BY Zenon DEF TxBundle, BundleOf
<1>4. Web3Bundle(tx, self).from = "web3"
  BY BundleSound DEF Web3Bundle
<1> HIDE DEF view
<1>5. \A a \in Assets : Moves(a, tx) => TxBundle(tx, self).views[a] = view
  BY <1>3
<1> QED BY <1>2, <1>4, <1>5 DEF Whole

\* What the database and the fetches hold stays whole.
LEMMA BundlesStep ==
    ASSUME IInv, BundlesWhole, [Next]_vars
    PROVE  BundlesWhole'
<1>1. DOMAIN inflight = Txs /\ DOMAIN db = Txs
  BY DEF IInv, Typed
<1>2. ASSUME UNCHANGED <<db, inflight>> PROVE BundlesWhole'
  BY <1>2 DEF BundlesWhole, Whole
<1>3. ASSUME NEW tx \in Txs, NEW f, UNCHANGED db, inflight' = [inflight EXCEPT ![tx] = f],
             Whole(f.bundle, tx)
      PROVE  BundlesWhole'
  BY <1>1, <1>3 DEF BundlesWhole, Whole
<1>4. ASSUME NEW tx \in Txs, AnswerTx(tx) PROVE BundlesWhole'
  <2> DEFINE f == [inflight[tx] EXCEPT !.at = "answered", !.bundle = TxBundle(tx, inflight[tx].self)]
  <2>1. inflight' = [inflight EXCEPT ![tx] = f] /\ UNCHANGED db
    BY <1>1, <1>4 DEF AnswerTx
  <2>2. inflight[tx] \in Fetches
    BY <1>4 DEF AnswerTx, IInv, Typed
  <2>3. f.bundle = TxBundle(tx, inflight[tx].self) /\ inflight[tx].self \in BOOLEAN
    BY <2>2 DEF Fetches
  <2>4. Whole(f.bundle, tx)
    BY <2>3, BundleWhole
  <2> HIDE DEF f
  <2> QED BY <1>3, <2>1, <2>4
<1>5. ASSUME NEW tx \in Txs, FailTx(tx) \/ FallbackTimeout(tx) PROVE BundlesWhole'
  <2>1. PICK at : inflight' = [inflight EXCEPT ![tx].at = at] /\ UNCHANGED db /\ inflight[tx] # None
    BY <1>5 DEF FailTx, FallbackTimeout
  <2> DEFINE f == [inflight[tx] EXCEPT !.at = at]
  <2>2. inflight' = [inflight EXCEPT ![tx] = f]
    BY <1>1, <2>1
  <2>3. inflight[tx] \in Fetches
    BY <2>1 DEF IInv, Typed
  <2>4. f.bundle = inflight[tx].bundle
    BY <2>3 DEF Fetches
  <2>5. Whole(f.bundle, tx)
    BY <2>1, <2>4 DEF BundlesWhole
  <2> HIDE DEF f
  <2> QED BY <1>3, <2>1, <2>2, <2>5
<1>6. ASSUME NEW tx \in Txs, AnswerTx_web3(tx) PROVE BundlesWhole'
  <2>1. PICK b \in {None, Web3Bundle(tx, inflight[tx].self)} :
           inflight' = [inflight EXCEPT ![tx].at = "answered", ![tx].bundle = b]
    BY <1>6 DEF AnswerTx_web3
  <2> DEFINE f == [inflight[tx] EXCEPT !.at = "answered", !.bundle = b]
  <2>2. inflight' = [inflight EXCEPT ![tx] = f] /\ UNCHANGED db
    BY <1>1, <1>6, <2>1 DEF AnswerTx_web3
  <2>3. inflight[tx] \in Fetches
    BY <1>6 DEF AnswerTx_web3, IInv, Typed
  <2>4. f.bundle = b /\ inflight[tx].self \in BOOLEAN
    BY <2>3 DEF Fetches
  <2>5. Whole(b, tx)
    BY <2>1, <2>4, BundleWhole DEF Whole
  <2>6. Whole(f.bundle, tx)
    BY <2>4, <2>5
  <2> HIDE DEF f
  <2> QED BY <1>3, <2>2, <2>6
<1>7. ASSUME NEW tx \in Txs, EndFetch(tx) PROVE BundlesWhole'
  <2> DEFINE b == inflight[tx].bundle
  <2>1. /\ db' = db \/ (db' = [db EXCEPT ![tx] = b] /\ b.from = "blockbook")
        /\ inflight' = [inflight EXCEPT ![tx] = None] /\ inflight[tx] # None
    BY <1>7 DEF EndFetch, Cacheable, AfterFetch
  <2>2. Whole(b, tx)
    BY <2>1 DEF BundlesWhole
  <2> HIDE DEF b
  <2>3. \A t \in Txs : (db'[t] # None => db'[t].from = "blockbook") /\ Whole(db'[t], t)
    BY <1>1, <2>1, <2>2 DEF BundlesWhole
  <2>4. \A t \in Txs : inflight'[t] # None => inflight'[t] = inflight[t]
    BY <1>1, <2>1
  <2> QED BY <2>3, <2>4 DEF BundlesWhole, Whole
<1>8. ASSUME NEW j \in Jobs, NEW tx \in Txs, Enrich(j, tx) PROVE BundlesWhole'
  <2> DEFINE f == [at |-> "blockbook", self |-> jobs[j].self, bundle |-> None]
  <2>1. UNCHANGED db /\ (UNCHANGED inflight \/ inflight' = [inflight EXCEPT ![tx] = f])
    BY <1>8 DEF Enrich
  <2>2. Whole(f.bundle, tx)
    BY DEF Whole
  <2> HIDE DEF f
  <2> QED BY <1>2, <1>3, <2>1, <2>2
<1>9. CASE NewBlock \/ Import \/ (\E tx \in Txs : Arrive(tx) \/ Mine(tx)) \/ UNCHANGED vars
  BY <1>2, <1>9 DEF NewBlock, Import, Arrive, Mine, vars
<1>10. ASSUME NEW j \in Jobs,
              \/ \E a \in Assets : Start(j, a)
              \/ ReadHeight(j) \/ ReadBalance(j) \/ AnswerList(j) \/ TakeList(j) \/ Fail(j) \/ Finish(j)
       PROVE  BundlesWhole'
  BY <1>2, <1>10 DEF Start, ReadHeight, ReadBalance, AnswerList, TakeList, Fail, Finish
<1> QED BY <1>4, <1>5, <1>6, <1>7, <1>8, <1>9, <1>10 DEF Next, FetchStep, JobStep

\* What of a job the account of its list is about.
AccountedIn(job) ==
    job.at = "enrich" =>
        \A tx \in Range(job.txids) :
            \/ tx \in job.todo \cup job.wait \cup job.lost
            \/ ~Moves(job.asset, tx)
            \/ job.views[tx] # None

\* A job that is not enriching, or begins to, has its list accounted for.
LEMMA ListingAccounted ==
    ASSUME IInv, Accounted, NEW j \in Jobs,
           \/ \E a \in Assets : Start(j, a)
           \/ ReadHeight(j) \/ ReadBalance(j) \/ AnswerList(j) \/ TakeList(j) \/ Fail(j) \/ Finish(j)
    PROVE  Accounted'
<1>0. DOMAIN jobs = Jobs /\ DOMAIN jobs[j] = JobFields /\ Idle.at = "idle"
  BY DEF IInv, Typed, Idle
<1>1. \A i \in Jobs \ {j} : jobs'[i] = jobs[i]
  BY <1>0 DEF Start, ReadHeight, ReadBalance, AnswerList, TakeList, Fail, Finish
<1>2. ASSUME NEW job, NEW txids, DOMAIN job = JobFields
      PROVE  AccountedIn(Listed(job, txids))
  <2>1. Listed(job, txids).todo = Range(txids) /\ Listed(job, txids).txids = txids
    BY <1>2 DEF Listed, JobFields
  <2> QED BY <2>1 DEF AccountedIn
<1>3. AccountedIn(jobs'[j])
  <2>1. ASSUME NEW a \in Assets, Start(j, a) PROVE jobs'[j].at # "enrich"
    <3>1. jobs'[j] = [Idle EXCEPT !.at = "height", !.asset = a, !.self = imported,
                                  !.have = {tx \in Txs : Confirmed(a, tx)}]
      BY <1>0, <2>1 DEF Start
    <3> QED BY <3>1, IdleFields DEF JobFields
  <2>2. ASSUME ReadHeight(j) PROVE jobs'[j].at # "enrich"
    BY <1>0, <2>2 DEF ReadHeight, JobFields
  <2>3. ASSUME AnswerList(j) PROVE jobs'[j].at # "enrich"
    BY <1>0, <2>3 DEF AnswerList, JobFields
  <2>4. ASSUME Fail(j) \/ Finish(j) PROVE jobs'[j].at # "enrich"
    BY <1>0, <2>4 DEF Fail, Finish
  <2>5. ASSUME ReadBalance(j)
        PROVE  jobs'[j].at # "enrich" \/ jobs'[j] = Listed(jobs[j], cache.txids)
    BY <1>0, <2>5 DEF ReadBalance, JobFields
  <2>6. ASSUME TakeList(j) PROVE jobs'[j] = Listed(jobs[j], jobs[j].txids)
    BY <1>0, <2>6 DEF TakeList
  <2>7. jobs'[j].at # "enrich" \/ \E txids : jobs'[j] = Listed(jobs[j], txids)
    BY <2>1, <2>2, <2>3, <2>4, <2>5, <2>6
  <2>8. CASE jobs'[j].at # "enrich"
    BY <2>8 DEF AccountedIn
  <2>9. CASE \E txids : jobs'[j] = Listed(jobs[j], txids)
    BY <1>0, <1>2, <2>9
  <2> QED BY <2>7, <2>8, <2>9
<1>4. \A i \in Jobs : AccountedIn(jobs'[i])
  BY <1>1, <1>3 DEF Accounted, AccountedIn
<1> QED BY <1>4 DEF Accounted, AccountedIn

\* A transaction is enriched, or its fetch ends: it is seen, or waited for, or lost.
LEMMA FetchAccounted ==
    ASSUME IInv, BundlesWhole, Accounted, NEW tx \in Txs,
           EndFetch(tx) \/ \E j \in Jobs : Enrich(j, tx)
    PROVE  Accounted'
<1>0. DOMAIN jobs = Jobs /\ \A i \in Jobs : DOMAIN jobs[i] = JobFields /\ DOMAIN jobs[i].views = Txs
                                            /\ jobs[i].asset \in Assets
  BY DEF IInv, Typed
<1>1. \A i \in Jobs : AccountedIn(jobs[i])
  BY DEF Accounted, AccountedIn
<1>2. ASSUME NEW i \in Jobs, EndFetch(tx) PROVE AccountedIn(jobs'[i])
  <2> DEFINE b == inflight[tx].bundle
             v == IF b = None THEN None ELSE b.views[jobs[i].asset]
             l == IF b = None \/ b.from = "web3" THEN jobs[i].lost \cup {tx} ELSE jobs[i].lost
  <2>1. jobs'[i] = Given(jobs[i], tx, b) /\ inflight[tx] # None
    BY <1>2 DEF EndFetch
  <2>2. CASE tx \in jobs[i].wait
    <3>1. jobs'[i] = [jobs[i] EXCEPT !.wait = @ \ {tx}, !.views[tx] = v, !.lost = l]
      BY <2>1, <2>2 DEF Given
    <3>2. inflight[tx] \in Fetches
      BY <2>1 DEF IInv, Typed
    <3>3. Whole(b, tx) /\ (b # None => b.from \in {"blockbook", "web3"})
      BY <2>1, <3>2 DEF BundlesWhole, Fetches, Bundles
    <3>4. tx \in l \/ ~Moves(jobs[i].asset, tx) \/ v # None
      BY <1>0, <3>3 DEF Whole
    <3>5. jobs[i].lost \subseteq l
      OBVIOUS
    <3> HIDE DEF v, l
    <3>6. /\ jobs'[i].at = jobs[i].at /\ jobs'[i].asset = jobs[i].asset
          /\ jobs'[i].txids = jobs[i].txids /\ jobs'[i].todo = jobs[i].todo
          /\ jobs'[i].wait = jobs[i].wait \ {tx} /\ jobs'[i].lost = l
          /\ jobs'[i].views = [jobs[i].views EXCEPT ![tx] = v]
      BY <1>0, <3>1 DEF JobFields
    <3>7. jobs'[i].views[tx] = v /\ \A t : t # tx => jobs'[i].views[t] = jobs[i].views[t]
      BY <1>0, <3>6
    <3> QED BY <1>1, <3>4, <3>5, <3>6, <3>7 DEF AccountedIn
  <2>3. CASE tx \notin jobs[i].wait
    BY <1>1, <2>1, <2>3 DEF Given
  <2> QED BY <2>2, <2>3
<1>3. ASSUME NEW j \in Jobs, Enrich(j, tx) PROVE \A i \in Jobs : AccountedIn(jobs'[i])
  <2>1. CASE db[tx] # None
    <3> DEFINE v == db[tx].views[jobs[j].asset]
    <3>1. jobs' = [jobs EXCEPT ![j].todo = @ \ {tx}, ![j].views[tx] = v]
      BY <1>3, <2>1 DEF Enrich
    <3>2. ~Moves(jobs[j].asset, tx) \/ v # None
      BY <1>0, <2>1 DEF BundlesWhole, Whole
    <3> HIDE DEF v
    <3>3. /\ \A i \in Jobs \ {j} : jobs'[i] = jobs[i]
          /\ jobs'[j].at = jobs[j].at /\ jobs'[j].asset = jobs[j].asset
          /\ jobs'[j].txids = jobs[j].txids /\ jobs'[j].todo = jobs[j].todo \ {tx}
          /\ jobs'[j].wait = jobs[j].wait /\ jobs'[j].lost = jobs[j].lost
          /\ jobs'[j].views = [jobs[j].views EXCEPT ![tx] = v]
      BY <1>0, <3>1 DEF JobFields
    <3>4. jobs'[j].views[tx] = v /\ \A t : t # tx => jobs'[j].views[t] = jobs[j].views[t]
      BY <1>0, <3>3
    <3>5. AccountedIn(jobs'[j])
      <4> SUFFICES ASSUME jobs'[j].at = "enrich", NEW t \in Range(jobs'[j].txids)
                   PROVE  \/ t \in jobs'[j].todo \cup jobs'[j].wait \cup jobs'[j].lost
                          \/ ~Moves(jobs'[j].asset, t)
                          \/ jobs'[j].views[t] # None
        BY DEF AccountedIn
      <4>1. CASE t = tx
        BY <3>2, <3>3, <3>4, <4>1
      <4>2. CASE t # tx
        <5>1. \/ t \in jobs[j].todo \cup jobs[j].wait \cup jobs[j].lost
              \/ ~Moves(jobs[j].asset, t)
              \/ jobs[j].views[t] # None
          BY <1>1, <3>3 DEF AccountedIn
        <5> QED BY <3>3, <3>4, <4>2, <5>1
      <4> QED BY <4>1, <4>2
    <3> QED BY <1>1, <3>3, <3>5
  <2>2. CASE db[tx] = None
    <3>1. jobs' = [jobs EXCEPT ![j].todo = @ \ {tx}, ![j].wait = @ \cup {tx}]
      BY <1>3, <2>2 DEF Enrich
    <3>3. /\ \A i \in Jobs \ {j} : jobs'[i] = jobs[i]
          /\ jobs'[j].at = jobs[j].at /\ jobs'[j].asset = jobs[j].asset
          /\ jobs'[j].txids = jobs[j].txids /\ jobs'[j].todo = jobs[j].todo \ {tx}
          /\ jobs'[j].wait = jobs[j].wait \cup {tx} /\ jobs'[j].lost = jobs[j].lost
          /\ jobs'[j].views = jobs[j].views
      BY <1>0, <3>1 DEF JobFields
    <3>5. AccountedIn(jobs'[j])
      BY <1>1, <3>3 DEF AccountedIn
    <3> QED BY <1>1, <3>3, <3>5
  <2> QED BY <2>1, <2>2
<1> QED BY <1>2, <1>3 DEF Accounted, AccountedIn

\* A job keeps the asset, what it had at first and what it is owed, or begins, reads a height or ends.
Goes(new, old) ==
    /\ \/ new.have = {}
       \/ new.asset = old.asset /\ new.have = old.have
       \/ new.asset \in Assets /\ new.have = {tx \in Txs : Confirmed(new.asset, tx)}
    /\ new.owed \in {{}, old.owed, reached}

\* Every job goes on like that.
LEMMA JobsGo ==
    ASSUME IInv, [Next]_vars
    PROVE  \A i \in Jobs : Goes(jobs'[i], jobs[i])
<1>1. /\ DOMAIN jobs = Jobs /\ \A i \in Jobs : DOMAIN jobs[i] = JobFields
      /\ Idle.have = {} /\ Idle.owed = {}
  BY DEF IInv, Typed, Idle
<1> DEFINE go == \A i \in Jobs : Goes(jobs'[i], jobs[i])
<1>2. ASSUME NEW new, NEW old, new.have = old.have, new.asset = old.asset, new.owed \in {old.owed, reached}
      PROVE  Goes(new, old)
  BY <1>2 DEF Goes
<1>3. ASSUME NEW j \in Jobs, NEW new, jobs' = [jobs EXCEPT ![j] = new], Goes(new, jobs[j])
      PROVE  go
  BY <1>1, <1>2, <1>3
<1>4. ASSUME UNCHANGED jobs PROVE go
  BY <1>2, <1>4
<1>5. ASSUME NEW j \in Jobs, NEW a \in Assets, Start(j, a) PROVE go
  <2> DEFINE had == {tx \in Txs : Confirmed(a, tx)}
             new == [Idle EXCEPT !.at = "height", !.asset = a, !.self = imported, !.have = had]
  <2>1. jobs' = [jobs EXCEPT ![j] = new]
    BY <1>5 DEF Start
  <2>2. new.asset = a /\ new.have = had /\ new.owed = {}
    BY <1>1, IdleFields DEF JobFields
  <2> HIDE DEF new
  <2>3. Goes(new, jobs[j])
    BY <2>2 DEF Goes
  <2> QED BY <1>3, <2>1, <2>3
<1>6. ASSUME NEW j \in Jobs, ReadHeight(j) PROVE go
  <2> DEFINE new == [jobs[j] EXCEPT !.at = "balance", !.height = height, !.owed = reached]
  <2>1. jobs' = [jobs EXCEPT ![j] = new]
    BY <1>1, <1>6 DEF ReadHeight
  <2>2. new.asset = jobs[j].asset /\ new.have = jobs[j].have /\ new.owed = reached
    BY <1>1 DEF JobFields
  <2> HIDE DEF new
  <2> QED BY <1>2, <1>3, <2>1, <2>2
<1>7. ASSUME NEW j \in Jobs, NEW txids PROVE Goes(Listed(jobs[j], txids), jobs[j])
  <2>1. /\ Listed(jobs[j], txids).asset = jobs[j].asset /\ Listed(jobs[j], txids).have = jobs[j].have
        /\ Listed(jobs[j], txids).owed = jobs[j].owed
    BY <1>1 DEF Listed, JobFields
  <2> QED BY <1>2, <2>1
<1>8. ASSUME NEW j \in Jobs, ReadBalance(j) PROVE go
  <2> DEFINE new == IF CacheHit(jobs[j].height) THEN Listed(jobs[j], cache.txids)
                    ELSE [jobs[j] EXCEPT !.at = "list"]
  <2>1. jobs' = [jobs EXCEPT ![j] = new]
    BY <1>1, <1>8 DEF ReadBalance
  <2>2. CASE CacheHit(jobs[j].height)
    BY <1>3, <1>7, <2>1, <2>2
  <2>3. CASE ~CacheHit(jobs[j].height)
    <3> DEFINE waiting == [jobs[j] EXCEPT !.at = "list"]
    <3>1. waiting.asset = jobs[j].asset /\ waiting.have = jobs[j].have /\ waiting.owed = jobs[j].owed
      BY <1>1 DEF JobFields
    <3>2. jobs' = [jobs EXCEPT ![j] = waiting]
      BY <2>1, <2>3
    <3> HIDE DEF waiting
    <3> QED BY <1>2, <1>3, <3>1, <3>2
  <2> QED BY <2>2, <2>3
<1>9. ASSUME NEW j \in Jobs, AnswerList(j) PROVE go
  <2> DEFINE all == mempool \o mined
             txids == IF Len(all) > Cap THEN SubSeq(all, 1, Cap) ELSE all
             new == [jobs[j] EXCEPT !.at = "listed", !.txids = txids]
  <2>1. jobs' = [jobs EXCEPT ![j] = new]
    BY <1>1, <1>9 DEF AnswerList
  <2> HIDE DEF txids
  <2>2. new.asset = jobs[j].asset /\ new.have = jobs[j].have /\ new.owed = jobs[j].owed
    BY <1>1 DEF JobFields
  <2> HIDE DEF new
  <2> QED BY <1>2, <1>3, <2>1, <2>2
<1>10. ASSUME NEW j \in Jobs, TakeList(j) PROVE go
  <2>1. jobs' = [jobs EXCEPT ![j] = Listed(jobs[j], jobs[j].txids)]
    BY <1>1, <1>10 DEF TakeList
  <2> QED BY <1>3, <1>7, <2>1
<1>11. ASSUME NEW j \in Jobs, Fail(j) \/ Finish(j) PROVE go
  <2>1. jobs' = [jobs EXCEPT ![j] = Idle]
    BY <1>11 DEF Fail, Finish
  <2>2. Goes(Idle, jobs[j])
    BY <1>1 DEF Goes
  <2> QED BY <1>3, <2>1, <2>2
<1>12. ASSUME NEW j \in Jobs, NEW tx \in Txs, Enrich(j, tx) PROVE go
  <2>1. CASE db[tx] # None
    <3> DEFINE v == db[tx].views[jobs[j].asset]
               new == [jobs[j] EXCEPT !.todo = @ \ {tx}, !.views[tx] = v]
    <3>1. jobs' = [jobs EXCEPT ![j] = new]
      BY <1>1, <1>12, <2>1 DEF Enrich
    <3> HIDE DEF v
    <3>2. new.asset = jobs[j].asset /\ new.have = jobs[j].have /\ new.owed = jobs[j].owed
      BY <1>1 DEF JobFields
    <3> HIDE DEF new
    <3> QED BY <1>2, <1>3, <3>1, <3>2
  <2>2. CASE db[tx] = None
    <3> DEFINE new == [jobs[j] EXCEPT !.todo = @ \ {tx}, !.wait = @ \cup {tx}]
    <3>1. jobs' = [jobs EXCEPT ![j] = new]
      BY <1>1, <1>12, <2>2 DEF Enrich
    <3>2. new.asset = jobs[j].asset /\ new.have = jobs[j].have /\ new.owed = jobs[j].owed
      BY <1>1 DEF JobFields
    <3> HIDE DEF new
    <3> QED BY <1>2, <1>3, <3>1, <3>2
  <2> QED BY <2>1, <2>2
<1>13. ASSUME NEW tx \in Txs, EndFetch(tx) PROVE go
  <2> DEFINE b == inflight[tx].bundle
  <2>1. jobs' = [i \in Jobs |-> Given(jobs[i], tx, b)]
    BY <1>13 DEF EndFetch
  <2> HIDE DEF b
  <2>2. ASSUME NEW i \in Jobs PROVE Goes(Given(jobs[i], tx, b), jobs[i])
    <3>1. /\ Given(jobs[i], tx, b).asset = jobs[i].asset /\ Given(jobs[i], tx, b).have = jobs[i].have
          /\ Given(jobs[i], tx, b).owed = jobs[i].owed
      BY <1>1 DEF Given, JobFields
    <3> QED BY <1>2, <3>1
  <2> QED BY <2>1, <2>2
<1>14. ASSUME \/ NewBlock \/ Import \/ UNCHANGED vars
              \/ \E tx \in Txs : \/ Arrive(tx) \/ Mine(tx) \/ AnswerTx(tx) \/ FailTx(tx)
                                 \/ FallbackTimeout(tx) \/ AnswerTx_web3(tx)
       PROVE  go
  <2>1. UNCHANGED jobs
    BY <1>14 DEF NewBlock, Import, Arrive, Mine, AnswerTx, FailTx, FallbackTimeout, AnswerTx_web3, vars
  <2> QED BY <1>4, <2>1
<1> HIDE DEF go
<1>15. ASSUME NEW j \in Jobs, JobStep(j) \/ \E a \in Assets : Start(j, a) PROVE go
  BY <1>5, <1>6, <1>8, <1>9, <1>10, <1>11, <1>12, <1>15 DEF JobStep
<1>16. ASSUME NEW tx \in Txs, Arrive(tx) \/ Mine(tx) \/ FetchStep(tx) \/ AnswerTx_web3(tx) PROVE go
  BY <1>13, <1>14, <1>16 DEF FetchStep
<1>17. ASSUME Next PROVE go
  BY <1>14, <1>15, <1>16, <1>17 DEF Next
<1>18. go
  BY <1>14, <1>17
<1> QED BY <1>18 DEF go

\* The wallet's history of an asset gets more, never less.
LEMMA StoreGrows ==
    ASSUME IInv, [Next]_vars, NEW a \in Assets, NEW tx \in Txs, store[a][tx] # None
    PROVE  store'[a][tx] # None
<1>1. ASSUME NEW j \in Jobs, Finish(j) PROVE store'[a][tx] # None
  <2> DEFINE b == jobs[j].asset
             new == [t \in Txs |-> IF t \in ToUpdate(jobs[j]) THEN jobs[j].views[t] ELSE store[b][t]]
  <2>1. DOMAIN store = Assets /\ DOMAIN jobs[j] = JobFields /\ b \in Assets
    BY DEF IInv, Typed
  <2>2. store' = [store EXCEPT ![b] = new]
    BY <1>1 DEF Finish
  <2>3. a = b => new[tx] # None
    BY DEF ToUpdate
  <2> HIDE DEF new, b
  <2> QED BY <2>1, <2>2, <2>3
<1>2. ASSUME UNCHANGED store PROVE store'[a][tx] # None
  BY <1>2
<1>3. ASSUME NEW j \in Jobs, \/ ReadHeight(j) \/ ReadBalance(j) \/ AnswerList(j) \/ TakeList(j) \/ Fail(j)
                             \/ (\E t \in Txs : Enrich(j, t)) \/ \E b \in Assets : Start(j, b)
      PROVE  UNCHANGED store
  BY <1>3 DEF ReadHeight, ReadBalance, AnswerList, TakeList, Fail, Enrich, Start
<1>4. ASSUME NEW t \in Txs, \/ Arrive(t) \/ Mine(t) \/ AnswerTx(t) \/ FailTx(t) \/ FallbackTimeout(t)
                            \/ EndFetch(t) \/ AnswerTx_web3(t)
      PROVE  UNCHANGED store
  BY <1>4 DEF Arrive, Mine, AnswerTx, FailTx, FallbackTimeout, EndFetch, AnswerTx_web3
<1>5. NewBlock \/ Import \/ UNCHANGED vars => UNCHANGED store
  BY DEF NewBlock, Import, vars
<1> QED BY <1>1, <1>2, <1>3, <1>4, <1>5 DEF Next, FetchStep, JobStep

\* A job leaves the history with what it had, or more.
LEMMA HadStep ==
    ASSUME IInv, ListsCover, HadStays, Listable, [Next]_vars
    PROVE  HadStays' /\ Listable'
<1>1. \A i \in Jobs : Goes(jobs'[i], jobs[i])
  BY JobsGo
<1>2. \A a \in Assets, tx \in Txs : store[a][tx] # None => store'[a][tx] # None
  BY StoreGrows
<1>3. reached' \in {reached, Known}
  BY DEF Next, FetchStep, JobStep, vars, chain, NewBlock, Import, Arrive, Mine, AnswerTx, FailTx,
         FallbackTimeout, EndFetch, AnswerTx_web3, ReadHeight, ReadBalance, AnswerList, TakeList,
         Fail, Enrich, Finish, Start
<1>4. Known \subseteq Txs
  BY DEF Known, Range, ListsCover, IInv, Typed
<1>5. Listable'
  <2>1. ASSUME NEW i \in Jobs PROVE jobs'[i].have \subseteq Txs /\ jobs'[i].owed \subseteq Txs
    <3>1. Goes(jobs'[i], jobs[i]) /\ jobs[i].have \subseteq Txs /\ jobs[i].owed \subseteq Txs /\ reached \subseteq Txs
      BY <1>1 DEF Listable
    <3>2. jobs'[i].owed \in {{}, jobs[i].owed, reached}
      BY <3>1 DEF Goes
    <3>3. jobs'[i].have \subseteq Txs
      BY <3>1 DEF Goes
    <3> QED BY <3>1, <3>2, <3>3
  <2>2. reached' \subseteq Txs
    BY <1>3, <1>4 DEF Listable
  <2> QED BY <2>1, <2>2 DEF Listable
<1>6. HadStays'
  <2>1. ASSUME NEW i \in Jobs, NEW tx \in jobs'[i].have PROVE store'[jobs'[i].asset][tx] # None
    <3>1. tx \in Txs
      BY <1>5, <2>1 DEF Listable
    <3>2. CASE jobs'[i].asset = jobs[i].asset /\ jobs'[i].have = jobs[i].have
      <4>1. jobs[i].asset \in Assets /\ store[jobs[i].asset][tx] # None
        BY <2>1, <3>2 DEF HadStays, IInv, Typed
      <4> QED BY <1>2, <3>1, <3>2, <4>1
    <3>3. CASE jobs'[i].asset \in Assets /\ jobs'[i].have = {t \in Txs : Confirmed(jobs'[i].asset, t)}
      <4>1. store[jobs'[i].asset][tx] # None
        BY <2>1, <3>3 DEF Confirmed
      <4> QED BY <1>2, <3>1, <3>3, <4>1
    <3> QED BY <1>1, <2>1, <3>2, <3>3 DEF Goes
  <2> QED BY <2>1 DEF HadStays
<1> QED BY <1>5, <1>6

\* Owing is an inductive invariant, given IInv: no overlap of refreshes loses what one of them owes.
THEOREM Owed == Spec => []Owing
<1>1. Init => Owing
  <2> SUFFICES ASSUME Init PROVE Owing
    OBVIOUS
  <2>1. \A j \in Jobs : jobs[j].at = "idle" /\ jobs[j].have = {} /\ jobs[j].owed = {}
    BY DEF Init, Idle
  <2>2. mempool = <<>> /\ reached = {} /\ cache = None /\ \A tx \in Txs : db[tx] = None /\ inflight[tx] = None
    BY DEF Init, NoViews
  <2>3. ListsCover
    BY <2>1, <2>2 DEF ListsCover, Reading
  <2>4. BundlesWhole
    BY <2>2 DEF BundlesWhole, Whole
  <2> QED BY <2>1, <2>2, <2>3, <2>4 DEF Owing, Accounted, HadStays, Listable
<1>2. ASSUME IInv, Owing, [Next]_vars PROVE Owing'
  <2> USE <1>2 DEF Owing
  <2>1. BundlesWhole'
    BY BundlesStep
  <2>2. HadStays' /\ Listable'
    BY HadStep
  <2>3. ASSUME UNCHANGED <<chain, cache, jobs>> PROVE ListsCover' /\ Accounted'
    BY <2>3, SameListsCover DEF Accounted
  <2>4. ASSUME NEW tx \in Txs, Arrive(tx) \/ Mine(tx) PROVE ListsCover' /\ Accounted'
    <3>1. UNCHANGED jobs
      BY <2>4 DEF Arrive, Mine
    <3> QED BY <2>4, <3>1, ChainCovers DEF Accounted
  <2>5. ASSUME NewBlock PROVE ListsCover' /\ Accounted'
    <3>1. UNCHANGED jobs
      BY <2>5 DEF NewBlock
    <3> QED BY <2>5, <3>1, ChainCovers DEF Accounted
  <2>6. ASSUME NEW tx \in Txs, FetchStep(tx) \/ AnswerTx_web3(tx) PROVE ListsCover' /\ Accounted'
    <3>1. ListsCover'
      BY <2>6, FetchCovers
    <3>2. CASE EndFetch(tx)
      BY <3>1, <3>2, FetchAccounted
    <3>3. CASE ~EndFetch(tx)
      <4>1. UNCHANGED jobs
        BY <2>6, <3>3 DEF FetchStep, AnswerTx, FailTx, FallbackTimeout, AnswerTx_web3
      <4> QED BY <3>1, <4>1 DEF Accounted
    <3> QED BY <3>2, <3>3
  <2>7. ASSUME NEW j \in Jobs, JobStep(j) \/ \E a \in Assets : Start(j, a) PROVE ListsCover' /\ Accounted'
    <3>1. CASE \E tx \in Txs : Enrich(j, tx)
      BY <3>1, FetchCovers, FetchAccounted
    <3>2. CASE Finish(j)
      BY <3>2, FinishCovers, ListingAccounted
    <3>3. CASE \/ \E a \in Assets : Start(j, a)
               \/ ReadHeight(j) \/ ReadBalance(j) \/ AnswerList(j) \/ TakeList(j) \/ Fail(j)
      <4>1. ListsCover'
        BY <3>3, ListingCovers
      <4>2. Accounted'
        BY <3>3, ListingAccounted
      <4> QED BY <4>1, <4>2
    <3> QED BY <2>7, <3>1, <3>2, <3>3 DEF JobStep
  <2>8. CASE UNCHANGED vars \/ Import
    <3>1. UNCHANGED <<chain, cache, jobs>>
      BY <2>8 DEF vars, chain, Import
    <3> QED BY <2>1, <2>2, <2>3, <3>1
  <2> QED BY <2>1, <2>2, <2>4, <2>5, <2>6, <2>7, <2>8 DEF Next
<1> QED BY <1>1, <1>2, Invariance, PTL DEF Spec

\* Only the end of a refresh ends it with a result.
LEMMA OnlyFinish ==
    ASSUME IInv, [Next]_vars, NEW j \in Jobs, Finishes(j)
    PROVE  Finish(j)
<1>0. DOMAIN jobs = Jobs /\ (\A i \in Jobs : DOMAIN jobs[i] = JobFields) /\ jobs[j].at = "enrich" /\ jobs'[j].at = "idle"
  BY DEF IInv, Typed, Finishes
<1>1. ~UNCHANGED jobs
  BY <1>0
<1>2. ASSUME NEW i \in Jobs, jobs'[j] # jobs[j],
             \/ ReadHeight(i) \/ ReadBalance(i) \/ AnswerList(i) \/ TakeList(i) \/ Fail(i)
             \/ \E a \in Assets : Start(i, a)
      PROVE  FALSE
  <2>1. jobs[i].at # "enrich" /\ \A k \in Jobs \ {i} : jobs'[k] = jobs[k]
    BY <1>0, <1>2 DEF ReadHeight, ReadBalance, AnswerList, TakeList, Fail, Start
  <2> QED BY <1>0, <1>2, <2>1
<1>3. ASSUME NEW i \in Jobs, NEW tx \in Txs, Enrich(i, tx) PROVE FALSE
  <2>1. \A k \in Jobs : jobs'[k].at = jobs[k].at
    <3>1. CASE db[tx] # None
      <4> DEFINE v == db[tx].views[jobs[i].asset]
      <4>1. jobs' = [jobs EXCEPT ![i].todo = @ \ {tx}, ![i].views[tx] = v]
        BY <1>3, <3>1 DEF Enrich
      <4> HIDE DEF v
      <4> QED BY <1>0, <4>1 DEF JobFields
    <3>2. CASE db[tx] = None
      <4>1. jobs' = [jobs EXCEPT ![i].todo = @ \ {tx}, ![i].wait = @ \cup {tx}]
        BY <1>3, <3>2 DEF Enrich
      <4> QED BY <1>0, <4>1 DEF JobFields
    <3> QED BY <3>1, <3>2
  <2> QED BY <1>0, <2>1
<1>4. ASSUME NEW tx \in Txs, EndFetch(tx) PROVE FALSE
  <2> DEFINE b == inflight[tx].bundle
  <2>1. jobs'[j] = Given(jobs[j], tx, b)
    BY <1>4 DEF EndFetch
  <2> HIDE DEF b
  <2>2. Given(jobs[j], tx, b).at = jobs[j].at
    BY <1>0 DEF Given, JobFields
  <2> QED BY <1>0, <2>1, <2>2
<1>5. ASSUME NEW i \in Jobs, Finish(i), i # j PROVE FALSE
  BY <1>0, <1>5 DEF Finish
<1>6. ASSUME NEW tx \in Txs, \/ Arrive(tx) \/ Mine(tx) \/ AnswerTx(tx) \/ FailTx(tx)
                             \/ FallbackTimeout(tx) \/ AnswerTx_web3(tx)
      PROVE  FALSE
  BY <1>1, <1>6 DEF Arrive, Mine, AnswerTx, FailTx, FallbackTimeout, AnswerTx_web3
<1>7. ~(NewBlock \/ Import \/ UNCHANGED vars)
  BY <1>1 DEF NewBlock, Import, vars
<1>8. jobs'[j] # jobs[j]
  BY <1>0
<1>9. PICK i \in Jobs : JobStep(i) \/ \E a \in Assets : Start(i, a)
  BY <1>4, <1>6, <1>7 DEF Next, FetchStep
<1>10. Finish(i)
  BY <1>2, <1>3, <1>8, <1>9 DEF JobStep
<1> QED BY <1>5, <1>10

\* RefreshComplete: a refresh that ends without an error has put in the wallet every transaction it
\* owes, of any number of jobs, transactions and faults: but for the lost ones and those beyond the cap.
THEOREM RefreshesComplete == Spec => RefreshComplete
<1> DEFINE step(j) == \A tx \in jobs[j].owed \ jobs[j].lost :
                         \/ ~Moves(jobs[j].asset, tx)
                         \/ store'[jobs[j].asset][tx] # None
                         \/ Len(jobs[j].txids) = Cap /\ tx \notin Range(jobs[j].txids)
<1>1. ASSUME IInv, Owing, [Next]_vars, NEW j \in Jobs, Finishes(j) PROVE step(j)
  <2> SUFFICES ASSUME NEW tx \in jobs[j].owed \ jobs[j].lost, Moves(jobs[j].asset, tx),
                      ~(Len(jobs[j].txids) = Cap /\ tx \notin Range(jobs[j].txids))
               PROVE  store'[jobs[j].asset][tx] # None
    OBVIOUS
  <2> DEFINE a == jobs[j].asset
             new == [t \in Txs |-> IF t \in ToUpdate(jobs[j]) THEN jobs[j].views[t] ELSE store[a][t]]
  <2>1. jobs[j].at = "enrich" /\ jobs[j].todo = {} /\ jobs[j].wait = {}
        /\ store' = [store EXCEPT ![a] = new]
    BY <1>1, OnlyFinish DEF Finish
  <2>2. a \in Assets /\ DOMAIN store = Assets
    BY <1>1 DEF IInv, Typed
  <2>3. tx \in Range(jobs[j].txids)
    BY <1>1, <2>1 DEF Owing, ListsCover, Covers
  <2>4. tx \in Txs
    BY <1>1 DEF Owing, Listable
  <2>5. jobs[j].views[tx] # None
    BY <1>1, <2>1, <2>3 DEF Owing, Accounted
  <2>6. tx \in jobs[j].have => store[a][tx] # None
    BY <1>1 DEF Owing, HadStays
  <2>7. new[tx] # None
    BY <2>3, <2>4, <2>5, <2>6 DEF ToUpdate
  <2> HIDE DEF new
  <2> QED BY <2>1, <2>2, <2>7
<1>2. ASSUME IInv, Owing, [Next]_vars
      PROVE  [\A j \in Jobs : Finishes(j) =>
                \A tx \in jobs[j].owed \ jobs[j].lost :
                    \/ ~Moves(jobs[j].asset, tx)
                    \/ store'[jobs[j].asset][tx] # None
                    \/ Len(jobs[j].txids) = Cap /\ tx \notin Range(jobs[j].txids)]_vars
  BY <1>1, <1>2
<1> QED BY <1>2, Invariance, Owed, PTL DEF Spec, RefreshComplete
=============================================================================
