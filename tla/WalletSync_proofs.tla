------------------------- MODULE WalletSync_proofs -------------------------
(***************************************************************************)
(* Proofs about WalletSync, for any set of addresses, transactions and     *)
(* jobs: no transaction is listed twice, a reported payment stays visible, *)
(* late batches take nothing off a list, and balances count listed         *)
(* transactions only (those aside whose details may fail to be fetched).   *)
(*                                                                         *)
(* Everything rests on one fact about a batch (BatchForms): it only adds  *)
(* to the lists, and local_txs loses exactly what the updated addresses    *)
(* list. For the balances it takes one more: what a job's snapshot knows,  *)
(* the store still knows (SnapshotKnown).                                  *)
(***************************************************************************)
EXTENDS WalletSync, TLAPS

\* the list of r2 has all the list of r1 has, and no less detail
Grows(r1, r2) ==
    \A t \in Tx : /\ r1.txs[t] # "none" => r2.txs[t] # "none"
                  /\ r1.txs[t] \in Details => r2.txs[t] \in Details

\* what a job's snapshot knows, the store knows
SnapshotKnown ==
    \A j \in Job, a \in Addr : Known(job[j].snap[a]) \subseteq Known(wallet[a])

\* The reducer's two updates of an address are well typed and only add to its list.
LEMMA SetFullGrows ==
    ASSUME NEW r \in Address, NEW read \in Reading, NEW new \in SUBSET Tx
    PROVE  /\ SetFull(r, read, new) \in Address
           /\ Grows(r, SetFull(r, read, new))
<1>1. MergedTxs(r, new) \in [Tx -> Status]
  BY DEF MergedTxs, Address, Status
<1>2. SetFull(r, read, new) \in Address
  BY <1>1 DEF SetFull, Address, Reading
<1>3. SetFull(r, read, new).txs = MergedTxs(r, new)
  BY DEF SetFull, Address
<1>4. Grows(r, SetFull(r, read, new))
  BY <1>3 DEF Grows, MergedTxs, Details, Address
<1> QED BY <1>2, <1>4

\* WCORE_SET_ENRICHED_TXS_MULTI leaves an address well typed and takes nothing off its list:
\* a result without details does not overwrite what the store has.
LEMMA SetEnrichedGrows ==
    ASSUME NEW r \in Address, NEW read \in Reading,
           NEW got \in [Tx -> Details \cup {"absent", "failed"}]
    PROVE  /\ SetEnriched(r, read, got) \in Address
           /\ Grows(r, SetEnriched(r, read, got))
<1> DEFINE txs == [t \in Tx |-> IF got[t] \in Details THEN got[t] ELSE r.txs[t]]
<1>1. txs \in [Tx -> Status]
  BY DEF Address, Status, Details
<1>2. SetEnriched(r, read, got) \in Address
  BY <1>1 DEF SetEnriched, Address, Reading
<1>3. SetEnriched(r, read, got).txs = txs
  BY DEF SetEnriched, Address
<1>4. Grows(r, SetEnriched(r, read, got))
  BY <1>3 DEF Grows, Details, Address
<1> QED BY <1>2, <1>4

\* What a batch does to the store: it touches some addresses, whose lists grow, and takes
\* from local_txs what they list then.
LEMMA BatchForms ==
    ASSUME TypeOK, NEW j \in Job, Finish(j)
    PROVE  \E touched \in SUBSET Addr :
             /\ wallet' \in [Addr -> Address]
             /\ \A a \in Addr : Grows(wallet[a], wallet'[a])
             /\ \A a \in Addr \ touched : wallet'[a].txs = wallet[a].txs
             /\ local' = Reconciled(local, wallet', touched)
             /\ loaded' \in BOOLEAN
<1>1. PICK e \in [ReadOk(j) -> UNION {Results(j, a) : a \in ReadOk(j)}] :
         (\A a \in ReadOk(j) : e[a] \in Results(j, a)) /\ Apply(j, e)
  BY DEF Finish
<1>2. ASSUME NEW a \in Addr
      PROVE  /\ Updated(j, e, a) \in Address
             /\ Grows(wallet[a], Updated(j, e, a))
             /\ a \notin FullUpdates(j, e) \cup Enrichments(j, e)
                  => Updated(j, e, a).txs = wallet[a].txs
  <2> DEFINE read == job[j].read[a]
             full == IF a \in FullUpdates(j, e) THEN SetFull(wallet[a], read, New(e[a]))
                                                ELSE wallet[a]
  <2>1. wallet[a] \in Address /\ read \in Reading
    BY DEF TypeOK, Jobs
  <2>2. full \in Address /\ Grows(wallet[a], full)
    <3>1. New(e[a]) \in SUBSET Tx
      BY DEF New
    <3>2. Grows(wallet[a], wallet[a])
      BY DEF Grows
    <3> QED BY <2>1, <3>1, <3>2, SetFullGrows
  <2>3. CASE a \in Errors(j)
    <3>1. Updated(j, e, a) = SetError(wallet[a])
      BY <2>3 DEF Updated
    <3>2. SetError(wallet[a]) \in Address /\ SetError(wallet[a]).txs = wallet[a].txs
      BY <2>1 DEF SetError, Address
    <3> QED BY <3>1, <3>2 DEF Grows
  <2>4. CASE a \notin Errors(j) /\ a \in Enrichments(j, e)
    <3>1. Updated(j, e, a) = SetEnriched(full, read, e[a])
      BY <2>4 DEF Updated
    <3>2. e[a] \in [Tx -> Details \cup {"absent", "failed"}]
      BY <1>1, <2>4 DEF Enrichments, Results
    <3>3. /\ SetEnriched(full, read, e[a]) \in Address
          /\ Grows(full, SetEnriched(full, read, e[a]))
      BY <2>1, <2>2, <3>2, SetEnrichedGrows
    <3>4. Grows(wallet[a], SetEnriched(full, read, e[a]))
      BY <2>2, <3>3 DEF Grows
    <3> QED BY <2>4, <3>1, <3>3, <3>4
  <2>5. CASE a \notin Errors(j) /\ a \notin Enrichments(j, e)
    <3>1. Updated(j, e, a) = full
      BY <2>5 DEF Updated
    <3> QED BY <2>2, <3>1
  <2> QED BY <2>3, <2>4, <2>5
<1> DEFINE touched == FullUpdates(j, e) \cup Enrichments(j, e)
<1>3. touched \in SUBSET Addr
  BY DEF FullUpdates, Enrichments, ReadOk
<1>4. wallet' = [a \in Addr |-> Updated(j, e, a)]
  BY <1>1 DEF Apply
<1>5. wallet' \in [Addr -> Address]
  BY <1>2, <1>4
<1>6. \A a \in Addr : Grows(wallet[a], wallet'[a])
  BY <1>2, <1>4
<1>7. \A a \in Addr \ touched : wallet'[a].txs = wallet[a].txs
  BY <1>2, <1>4
<1>8. local' = Reconciled(local, wallet', touched)
  BY <1>1 DEF Apply
<1>9. loaded' \in BOOLEAN
  BY <1>1 DEF Apply, TypeOK
<1> HIDE DEF touched
<1> QED BY <1>3, <1>5, <1>6, <1>7, <1>8, <1>9

\* The records the jobs are made of have their types.
LEMMA FreeJobType ==
    /\ NewWallet \in [Addr -> Address]
    /\ \A st \in {"balance", "info"} : ToRead(st) \in [Addr -> Reading]
    /\ FreeJob \in Jobs
    /\ [FreeJob EXCEPT !.phase = "done"] \in Jobs
<1>1. NewAddress \in Address
  BY DEF NewAddress, Address, Status
<1>2. NewWallet \in [Addr -> Address]
  BY <1>1 DEF NewWallet
<1>3. \A st \in {"balance", "info"} : ToRead(st) \in [Addr -> Reading]
  BY DEF ToRead, Reading
<1> QED BY <1>2, <1>3 DEF FreeJob, Jobs

\* Every step keeps the types.
LEMMA TypeStep == TypeOK /\ [Next]_vars => TypeOK'
<1> SUFFICES ASSUME TypeOK, [Next]_vars PROVE TypeOK'
  OBVIOUS
<1>1. CASE UNCHANGED vars
  BY <1>1 DEF vars, TypeOK
<1>2. ASSUME NEW t \in Tx, Arrive(t) \/ Mined(t) PROVE TypeOK'
  BY <1>2 DEF TypeOK, Arrive, Mined
<1>3. ASSUME NEW j \in Job, NEW kind \in {"full", "light"}, Start(j, kind) PROVE TypeOK'
  <2>1. ToRead(IF kind = "full" THEN "info" ELSE "balance") \in [Addr -> Reading]
    BY FreeJobType
  <2>2. job[j] \in Jobs /\ wallet \in [Addr -> Address]
    BY DEF TypeOK
  <2>3. job'[j] \in Jobs /\ job' = [job EXCEPT ![j] = job'[j]]
    BY <1>3, <2>1, <2>2 DEF Start, TypeOK, Jobs
  <2> QED BY <1>3, <2>3 DEF Start, TypeOK
<1>4. ASSUME NEW j \in Job, NEW a \in Addr, Balance(j, a) \/ Info(j, a) \/ Fails(j, a)
      PROVE  TypeOK'
  <2>1. job[j] \in Jobs /\ job[j].read[a] \in Reading
    BY DEF TypeOK, Jobs
  <2>2. OnChain(a, "mined") \in SUBSET Tx /\ OnChain(a, "mempool") \in SUBSET Tx
    BY DEF OnChain
  <2>3. PICK r \in Reading : job' = [job EXCEPT ![j].read[a] = r]
    <3>1. CASE Balance(j, a)
      <4>1. [job[j].read[a] EXCEPT !.st = "info"] \in Reading
        BY <2>1 DEF Reading
      <4> QED BY <3>1, <4>1 DEF Balance
    <3>2. CASE Info(j, a)
      <4>1. [st |-> "read", conf |-> OnChain(a, "mined"), unconf |-> OnChain(a, "mempool")]
              \in Reading
        BY <2>2 DEF Reading
      <4> QED BY <3>2, <4>1 DEF Info
    <3>3. CASE Fails(j, a)
      <4>1. PICK st \in {"error", "transient"} : job' = [job EXCEPT ![j].read[a].st = st]
        BY <3>3 DEF Fails
      <4>2. [job[j].read[a] EXCEPT !.st = st] \in Reading
        BY <2>1 DEF Reading
      <4> QED BY <4>1, <4>2
    <3> QED BY <1>4, <3>1, <3>2, <3>3
  <2>4. job' \in [Job -> Jobs]
    BY <2>1, <2>3 DEF TypeOK, Jobs
  <2> QED BY <1>4, <2>4 DEF TypeOK, Balance, Info, Fails
<1>5. ASSUME NEW j \in Job, Finish(j) PROVE TypeOK'
  <2>1. job' \in [Job -> Jobs]
    BY <1>5, FreeJobType DEF Finish, TypeOK
  <2>2. PICK touched \in SUBSET Addr :
          /\ wallet' \in [Addr -> Address]
          /\ local' = Reconciled(local, wallet', touched)
          /\ loaded' \in BOOLEAN
    BY <1>5, BatchForms
  <2> QED BY <1>5, <2>1, <2>2 DEF Finish, TypeOK, Reconciled
<1>6. ASSUME NEW j \in Job, NEW t \in Own, Send(j, t) PROVE TypeOK'
  <2>1. job[j] \in Jobs /\ wallet \in [Addr -> Address]
    BY DEF TypeOK
  <2>2. job'[j] \in Jobs /\ job' = [job EXCEPT ![j] = job'[j]]
    BY <1>6, <2>1 DEF Send, TypeOK, Jobs
  <2> QED BY <1>6, <2>2 DEF Send, TypeOK
<1>7. ASSUME NEW j \in Job, Broadcast(j) \/ PushFails(j) PROVE TypeOK'
  <2>1. CASE Broadcast(j)
    <3>1. job' \in [Job -> Jobs]
      BY <2>1 DEF Broadcast, TypeOK, Jobs
    <3>2. chain' \in [Tx -> {"unseen", "mempool", "mined"}]
      BY <2>1 DEF Broadcast, TypeOK
    <3> QED BY <2>1, <3>1, <3>2 DEF Broadcast, TypeOK
  <2>2. CASE PushFails(j)
    BY <2>2, FreeJobType DEF PushFails, TypeOK
  <2> QED BY <1>7, <2>1, <2>2
<1>8. ASSUME NEW j \in Job, PushDone(j) PROVE TypeOK'
  <2>1. job' \in [Job -> Jobs] /\ job[j].of \subseteq Own
    BY <1>8 DEF PushDone, TypeOK, Jobs
  <2>2. local' \subseteq Own
    BY <1>8, <2>1 DEF PushDone, PushLocal, TypeOK
  <2> QED BY <1>8, <2>1, <2>2 DEF PushDone, TypeOK
<1> QED BY <1>1, <1>2, <1>3, <1>4, <1>5, <1>6, <1>7, <1>8 DEF Next

\* The store and its local txs change in two ways only: a batch, or a pushed local tx.
LEMMA StoreStep ==
    ASSUME TypeOK, [Next]_vars
    PROVE  \/ \E j \in Job : Finish(j)
           \/ \E j \in Job : PushDone(j)
           \/ UNCHANGED <<wallet, local, reported>>
BY DEF Next, vars, Arrive, Mined, Start, Balance, Info, Fails, Send, Broadcast, PushFails

\* A step never takes a transaction off a list.
LEMMA GrowsStep ==
    ASSUME TypeOK, [Next]_vars, NEW a \in Addr
    PROVE  Grows(wallet[a], wallet'[a])
<1>1. CASE UNCHANGED wallet
  BY <1>1 DEF Grows
<1>2. ASSUME NEW j \in Job, Finish(j) PROVE Grows(wallet[a], wallet'[a])
  BY <1>2, BatchForms
<1> QED BY <1>1, <1>2, StoreStep DEF PushDone

\* The two invariants about local_txs are inductive together with the types.
LEMMA LocalStep ==
    TypeOK /\ NoOverlap /\ ReportedVisible /\ [Next]_vars => NoOverlap' /\ ReportedVisible'
<1> SUFFICES ASSUME TypeOK, NoOverlap, ReportedVisible, [Next]_vars
             PROVE  NoOverlap' /\ ReportedVisible'
  OBVIOUS
<1>1. CASE UNCHANGED <<wallet, local, reported>>
  BY <1>1 DEF NoOverlap, ReportedVisible, External, Known
<1>2. ASSUME NEW j \in Job, PushDone(j) PROVE NoOverlap' /\ ReportedVisible'
  <2>1. PICK t \in job[j].of : local' = PushLocal(t) /\ reported' = reported \cup {t}
    BY <1>2 DEF PushDone
  <2>2. External' = External
    BY <1>2 DEF PushDone, External, Known
  <2>3. NoOverlap'
    BY <2>1, <2>2 DEF NoOverlap, PushLocal
  <2>4. ReportedVisible'
    BY <2>1, <2>2 DEF ReportedVisible, PushLocal
  <2> QED BY <2>3, <2>4
<1>3. ASSUME NEW j \in Job, Finish(j) PROVE NoOverlap' /\ ReportedVisible'
  <2>1. PICK touched \in SUBSET Addr :
             /\ wallet' \in [Addr -> Address]
             /\ \A a \in Addr : Grows(wallet[a], wallet'[a])
             /\ \A a \in Addr \ touched : wallet'[a].txs = wallet[a].txs
             /\ local' = Reconciled(local, wallet', touched)
    BY <1>3, BatchForms
  <2>2. ASSUME NEW t \in local', NEW a \in Addr PROVE t \notin Known(wallet'[a])
    <3>1. CASE a \in touched
      BY <2>1, <2>2, <3>1 DEF Reconciled
    <3>2. CASE a \notin touched
      BY <2>1, <2>2, <3>2 DEF Reconciled, NoOverlap, External, Known
    <3> QED BY <3>1, <3>2
  <2>3. ASSUME NEW t \in reported, t \notin local'
        PROVE  \E a \in Addr : t \in Known(wallet'[a])
    <3>1. CASE t \in local
      BY <2>1, <2>3, <3>1 DEF Reconciled
    <3>2. CASE t \notin local
      <4>1. PICK a \in Addr : t \in Known(wallet[a])
        BY <2>3, <3>2 DEF ReportedVisible, External
      <4> QED BY <2>1, <4>1 DEF Known, Grows
    <3> QED BY <3>1, <3>2
  <2>4. External' = UNION {Known(wallet'[a]) : a \in Addr}
    BY DEF External, Known
  <2>5. reported' = reported
    BY <1>3 DEF Finish
  <2> QED BY <2>2, <2>3, <2>4, <2>5 DEF NoOverlap, ReportedVisible
<1> QED BY <1>1, <1>2, <1>3, StoreStep

\* What the reducer does of a batch is a List of the ledger, a pushed local tx a Report.
LEMMA LedgerStep ==
    TypeOK /\ NoOverlap /\ ReportedVisible /\ [Next]_vars => [Payments!Next]_(Payments!vars)
<1> SUFFICES ASSUME TypeOK, NoOverlap, ReportedVisible, [Next]_vars
             PROVE  Payments!Next \/ UNCHANGED <<local, External, reported>>
  BY DEF Payments!vars
<1>1. CASE UNCHANGED <<wallet, local, reported>>
  BY <1>1 DEF External, Known
<1>2. ASSUME NEW j \in Job, PushDone(j) PROVE Payments!Next
  <2>1. PICK t \in job[j].of : local' = PushLocal(t) /\ reported' = reported \cup {t}
    BY <1>2 DEF PushDone
  <2>2. t \in Tx
    BY OwnAssumption DEF TypeOK, Jobs
  <2>3. External' = External
    BY <1>2 DEF PushDone, External, Known
  <2>4. local' = (local \cup {t}) \ External
    BY <2>1 DEF NoOverlap, PushLocal
  <2>5. Payments!Report(t)
    BY <2>1, <2>3, <2>4 DEF Payments!Report
  <2> QED BY <2>2, <2>5 DEF Payments!Next
<1>3. ASSUME NEW j \in Job, Finish(j) PROVE Payments!Next
  <2>1. PICK touched \in SUBSET Addr :
             /\ wallet' \in [Addr -> Address]
             /\ \A a \in Addr : Grows(wallet[a], wallet'[a])
             /\ \A a \in Addr \ touched : wallet'[a].txs = wallet[a].txs
             /\ local' = Reconciled(local, wallet', touched)
    BY <1>3, BatchForms
  <2>2. External' = UNION {Known(wallet'[a]) : a \in Addr}
    BY DEF External, Known
  <2>3. External \subseteq External' /\ External' \subseteq Tx
    BY <2>1, <2>2 DEF External, Known, Grows
  <2>4. ASSUME NEW t \in local, t \in External' PROVE t \notin local'
    <3>1. PICK a \in Addr : t \in Known(wallet'[a])
      BY <2>2, <2>4
    <3>2. a \in touched
      BY <2>1, <3>1 DEF NoOverlap, External, Known
    <3> QED BY <2>1, <3>1, <3>2 DEF Reconciled
  <2>5. ASSUME NEW t \in local, t \notin External' PROVE t \in local'
    BY <2>1, <2>2, <2>5 DEF Reconciled
  <2>6. local' \subseteq local
    BY <2>1 DEF Reconciled
  <2>7. local' = local \ External'
    BY <2>4, <2>5, <2>6
  <2>8. Payments!List(External')
    BY <1>3, <2>3, <2>7 DEF Payments!List, Finish
  <2> QED BY <2>3, <2>8 DEF Payments!Next
<1> QED BY <1>1, <1>2, <1>3, StoreStep

\* A snapshot is of an earlier store, and lists only grow.
LEMMA SnapshotStep == TypeOK /\ SnapshotKnown /\ [Next]_vars => SnapshotKnown'
<1> SUFFICES ASSUME TypeOK, SnapshotKnown, [Next]_vars, NEW k \in Job, NEW a \in Addr
             PROVE  Known(job'[k].snap[a]) \subseteq Known(wallet'[a])
  BY DEF SnapshotKnown, Known
<1>1. Known(wallet[a]) \subseteq Known(wallet'[a])
  BY GrowsStep DEF Known, Grows
<1>2. Known(NewWallet[a]) = {}
  BY DEF NewWallet, NewAddress, Known
<1> DEFINE Snaps == {job[k].snap, wallet, NewWallet}
<1>3. job'[k].snap \in Snaps
  <2>1. job \in [Job -> Jobs]
    BY DEF TypeOK
  <2>2. CASE UNCHANGED job
    BY <2>2
  <2>3. ASSUME NEW j \in Job, NEW kind \in {"full", "light"}, Start(j, kind)
        PROVE  job'[k].snap \in Snaps
    BY <2>1, <2>3 DEF Start, Jobs
  <2>4. ASSUME NEW j \in Job, NEW b \in Addr, Balance(j, b) \/ Info(j, b) \/ Fails(j, b)
        PROVE  job'[k].snap \in Snaps
    BY <2>1, <2>4 DEF Balance, Info, Fails, Jobs
  <2>5. ASSUME NEW j \in Job, Finish(j) \/ PushFails(j) PROVE job'[k].snap \in Snaps
    <3>1. [FreeJob EXCEPT !.phase = "done"].snap = NewWallet
      BY DEF FreeJob
    <3>2. job' = [job EXCEPT ![j] = [FreeJob EXCEPT !.phase = "done"]]
      BY <2>5 DEF Finish, PushFails
    <3>3. job'[k] \in {job[k], [FreeJob EXCEPT !.phase = "done"]}
      BY <2>1, <3>2
    <3> QED BY <3>1, <3>3
  <2>6. ASSUME NEW j \in Job, NEW t \in Own, Send(j, t) PROVE job'[k].snap \in Snaps
    BY <2>1, <2>6 DEF Send, Jobs
  <2>7. ASSUME NEW j \in Job, Broadcast(j) \/ PushDone(j) PROVE job'[k].snap \in Snaps
    <3>1. PICK phase \in {"sent", "fetching"} : job' = [job EXCEPT ![j].phase = phase]
      BY <2>7 DEF Broadcast, PushDone
    <3>2. job'[k].snap = job[k].snap
      BY <2>1, <3>1 DEF Jobs
    <3> QED BY <3>2
  <2> QED
    BY <2>2, <2>3, <2>4, <2>5, <2>6, <2>7 DEF Next, vars, Arrive, Mined
<1> QED BY <1>1, <1>2, <1>3 DEF SnapshotKnown

\* Of the transactions whose details can be fetched, the balance a batch stores counts those
\* the batch lists and those the job's snapshot, and so the store, already lists.
LEMMA CountedStep ==
    TypeOK /\ SnapshotKnown /\ CountedIsListed /\ [Next]_vars => CountedIsListed'
<1> SUFFICES ASSUME TypeOK, SnapshotKnown, CountedIsListed, [Next]_vars, NEW a \in Addr
             PROVE  (wallet'[a].conf \cup wallet'[a].unconf) \ Flaky \subseteq Known(wallet'[a])
  BY DEF CountedIsListed, Known
<1> DEFINE counted(r) == (r.conf \cup r.unconf) \ Flaky
<1>1. CASE UNCHANGED wallet
  BY <1>1 DEF CountedIsListed, Known
<1>2. ASSUME NEW j \in Job, Finish(j)
      PROVE  counted(wallet'[a]) \subseteq Known(wallet'[a])
  <2>1. PICK e \in [ReadOk(j) -> UNION {Results(j, b) : b \in ReadOk(j)}] :
           (\A b \in ReadOk(j) : e[b] \in Results(j, b)) /\ Apply(j, e)
    BY <1>2 DEF Finish
  <2> DEFINE read == job[j].read[a]
             full == IF a \in FullUpdates(j, e) THEN SetFull(wallet[a], read, New(e[a]))
                                                ELSE wallet[a]
  <2>2. wallet[a] \in Address /\ read \in Reading /\ job[j] \in Jobs
    BY DEF TypeOK, Jobs
  <2>3. wallet'[a] = Updated(j, e, a)
    BY <2>1 DEF Apply
  <2>4. counted(wallet[a]) \subseteq Known(wallet[a])
    BY DEF CountedIsListed
  <2>5. Known(wallet[a]) \subseteq Known(wallet'[a])
    BY <2>1, GrowsStep DEF Known, Grows
  <2>6. CASE a \notin ReadOk(j)
    <3>1. a \notin FullUpdates(j, e) /\ a \notin Enrichments(j, e)
      BY <2>6 DEF FullUpdates, Enrichments
    <3>2. wallet'[a] \in {wallet[a], SetError(wallet[a])}
      BY <2>3, <3>1 DEF Updated
    <3>3. counted(wallet'[a]) = counted(wallet[a])
      BY <2>2, <3>2 DEF SetError, Address
    <3> QED BY <2>4, <2>5, <3>3
  <2>7. CASE a \in ReadOk(j)
    <3>1. a \notin Errors(j)
      BY <2>7 DEF ReadOk, Errors
    <3>2. \A t \in Tx : CanGet(j, a, t, e[a][t])
      BY <2>1, <2>7 DEF Results
    <3>3. counted(read) \subseteq Got(e[a]) \cup Known(wallet[a])
      <4> SUFFICES ASSUME NEW t \in Tx, t \in counted(read), t \notin Got(e[a])
                   PROVE  t \in Known(wallet[a])
        BY <2>2 DEF Reading
      <4>1. job[j].snap[a].txs[t] = "conf"
        BY <3>2 DEF CanGet, Got, Details
      <4>2. t \in Known(job[j].snap[a])
        BY <4>1 DEF Known
      <4> QED BY <4>2 DEF SnapshotKnown
    <3>4. CASE a \in Enrichments(j, e)
      <4>1. wallet'[a] = SetEnriched(full, read, e[a])
        BY <2>3, <3>1, <3>4 DEF Updated
      <4>2. counted(wallet'[a]) = counted(read)
        BY <4>1 DEF SetEnriched
      <4>3. Got(e[a]) \subseteq Known(wallet'[a])
        BY <4>1 DEF SetEnriched, Got, Known, Details
      <4> QED BY <2>5, <3>3, <4>2, <4>3
    <3>5. CASE a \notin Enrichments(j, e)
      <4>1. wallet'[a] = full
        BY <2>3, <3>1, <3>5 DEF Updated
      <4>2. Got(e[a]) = {}
        BY <2>7, <3>5 DEF Enrichments
      <4>3. counted(wallet'[a]) \in {counted(read), counted(wallet[a])}
        BY <4>1 DEF SetFull
      <4> QED BY <2>4, <2>5, <3>3, <4>2, <4>3
    <3> QED BY <3>4, <3>5
  <2> QED BY <2>6, <2>7
<1> QED BY <1>1, <1>2, StoreStep DEF PushDone

\* The store starts with no transaction and no balance.
LEMMA InitHolds ==
    Init => TypeOK /\ NoOverlap /\ ReportedVisible /\ SnapshotKnown /\ CountedIsListed
<1> SUFFICES ASSUME Init
             PROVE  TypeOK /\ NoOverlap /\ ReportedVisible /\ SnapshotKnown /\ CountedIsListed
  OBVIOUS
<1>1. TypeOK
  BY FreeJobType DEF Init, TypeOK
<1>2. NoOverlap /\ ReportedVisible
  BY DEF Init, NoOverlap, ReportedVisible
<1>3. SnapshotKnown
  BY DEF Init, SnapshotKnown, FreeJob
<1>4. CountedIsListed
  BY DEF Init, CountedIsListed, NewWallet, NewAddress
<1> QED BY <1>1, <1>2, <1>3, <1>4

\* Type correctness of the store, the jobs and the sends.
THEOREM TypeCorrect == Spec => []TypeOK
<1>1. Init => TypeOK
  BY InitHolds
<1> QED BY <1>1, TypeStep, PTL DEF Spec

\* No transaction is ever both pending in local_txs and listed for an address, and no
\* payment reported to its caller disappears from both, in whatever order the answers to
\* sends and the batches of overlapping refreshes are applied.
THEOREM LocalTxs == Spec => [](NoOverlap /\ ReportedVisible)
<1>1. Init => NoOverlap /\ ReportedVisible
  BY InitHolds
<1> QED BY <1>1, TypeCorrect, LocalStep, PTL DEF Spec

\* The store implements the Ledger: batches and answers, in any order, never take a listed
\* transaction or a reported payment out of the user's sight, nor show one twice.
THEOREM Implements == Spec => KeepsLedger
<1>1. Init => Payments!Init
  BY DEF Init, Payments!Init, External, Known, NewWallet, NewAddress
<1> QED BY <1>1, LedgerStep, TypeCorrect, LocalTxs, PTL DEF Spec, KeepsLedger, Payments!Spec

\* No step takes a transaction, or its details, off the list of an address.
THEOREM NothingLost == Spec => KnownStay
<1>1. TypeOK /\ [Next]_vars =>
        [\A a \in Addr, t \in Tx :
           /\ wallet[a].txs[t] # "none" => wallet'[a].txs[t] # "none"
           /\ wallet[a].txs[t] \in Details => wallet'[a].txs[t] \in Details]_vars
  BY GrowsStep DEF Grows
<1> QED BY <1>1, TypeCorrect, PTL DEF Spec, KnownStay

\* A balance counts only transactions that are listed, so get_combinedBalance counts no
\* pending local transaction twice: those aside whose details may fail to be fetched.
THEOREM Balances == Spec => [](CountedIsListed /\ CountedOnce)
<1>1. Init => SnapshotKnown /\ CountedIsListed
  BY InitHolds
<1>2. NoOverlap /\ CountedIsListed => CountedOnce
  BY DEF NoOverlap, CountedIsListed, CountedOnce, External
<1> QED BY <1>1, <1>2, SnapshotStep, CountedStep, TypeCorrect, LocalTxs, PTL DEF Spec
=============================================================================
