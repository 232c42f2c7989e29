------------------------------ MODULE Exchange ------------------------------
(***************************************************************************)
(* Conversions of one asset by the exchange service (assetConvert of       *)
(* sw-asset.js, exchange.js, reducers/user-data.js, sw-server-persist.js). *)
(*                                                                         *)
(* A call of assetConvert looks at the asset's record for a conversion     *)
(* that is in process, then waits for fee, quotes, the service and the     *)
(* broadcast, and only then writes a record of its own and starts to poll  *)
(* the service for its status. There is one record per asset, but a poll   *)
(* goes on for the conversion it was started for, and writes what it reads *)
(* to the asset's record. Loading the wallet starts a poll for the record  *)
(* it finds, whether or not one is running.                                *)
(*                                                                         *)
(* Amounts and quotes are left out, and that a post of the user data to    *)
(* the server may fail: what is loaded is the last record.                 *)
(***************************************************************************)
EXTENDS Naturals

CONSTANTS
    Call,       \* bound: the conversions asked for, one call each
    Past,       \* a conversion of an earlier session
    Poll,       \* bound: the polls that can be started
    Statuses,   \* bound: what the service may say of a conversion
    MaxLoads    \* bound: loads of the wallet

\* statuses of the service with the conversion on its way, and at its end
Going == {"waiting", "confirming", "exchanging", "sending"}

Ending == {"finished", "failed", "refunded", "overdue", "hold", "expired"}

ASSUME StatusAssumption == Statuses \subseteq Going \cup Ending /\ "waiting" \in Statuses

\* mutant: a conversion that is being paid out is not counted
PaidOut == {"waiting", "confirming", "exchanging"}

\* isStatusExchangePending: none of the other statuses
Pending == {"waiting", "confirming", "exchanging", "receiving"}

VARIABLES
    pc,         \* call -> how far it has come
    service,    \* call -> the status of its conversion at the service
    record,     \* cur_xsTx[asset]: conversion and status
    poll,       \* poll -> its conversion and what it waits for
    loads,      \* the loads so far
    overlap,    \* two calls have been under way together
    doubled     \* two polls have been running for one conversion

vars == <<pc, service, record, poll, loads, overlap, doubled>>

NoRecord == [of |-> Past, status |-> "none"]

NoPoll == [of |-> Past, st |-> "free"]

Init ==
    /\ pc = [x \in Call |-> "new"]
    /\ service = [x \in Call |-> "none"]
    /\ record \in {NoRecord, [of |-> Past, status |-> "done"]}
    /\ poll = [p \in Poll |-> NoPoll]
    /\ loads = 0 /\ overlap = FALSE /\ doubled = FALSE

UnderWay == {x \in Call : pc[x] \in {"open", "created"}}

Running(p) == poll[p].st \in {"asked", "timer"}

\* pollExchangeStatus for x, its first request under way
Polling(x) == [of |-> x, st |-> "asked"]
-----------------------------------------------------------------------------
\* assetConvert as far as its check: without a record it throws; a conversion in process
\* aborts it, and other validations may
Convert(x) ==
    /\ pc[x] = "new"
    /\ \/ pc' = [pc EXCEPT ![x] = "err"] /\ UNCHANGED overlap
       \/ /\ record # NoRecord /\ record.status \notin Pending
          /\ pc' = [pc EXCEPT ![x] = "open"]
          /\ overlap' = (overlap \/ UnderWay # {})
    /\ UNCHANGED <<service, record, poll, loads, doubled>>

\* fee, quotes and createTransactionApi; a failure ends the call, or an exception in the
\* promise's asynchronous executor leaves it without an answer
Create(x) ==
    /\ pc[x] = "open"
    /\ \/ /\ pc' = [pc EXCEPT ![x] = "created"]
          /\ service' = [service EXCEPT ![x] = "waiting"]
       \/ pc' = [pc EXCEPT ![x] = "err"] /\ UNCHANGED service
    /\ UNCHANGED <<record, poll, loads, overlap, doubled>>

\* createAndPushTx reports success: the new record replaces the asset's, and is polled
Pushed(x) ==
    /\ pc[x] = "created"
    /\ pc' = [pc EXCEPT ![x] = "ok"]
    /\ record' = [of |-> x, status |-> "waiting"]
    /\ \E p \in Poll : poll[p].st = "free" /\ poll' = [poll EXCEPT ![p] = Polling(x)]
    /\ UNCHANGED <<service, loads, overlap, doubled>>

\* it reports an error: the status of the asset's record is cleared, whosever it is
PushFailed(x) ==
    /\ pc[x] = "created"
    /\ pc' = [pc EXCEPT ![x] = "err"]
    /\ record' = [record EXCEPT !.status = "done"]
    /\ UNCHANGED <<service, poll, loads, overlap, doubled>>

\* the service goes on, to an end that is final
Progress(x) ==
    /\ service[x] \in Going
    /\ \E s \in Statuses : service' = [service EXCEPT ![x] = s]
    /\ UNCHANGED <<pc, record, poll, loads, overlap, doubled>>
-----------------------------------------------------------------------------
\* the statuses that end a poll
Concludes(s) == s \in {"finished", "failed", "refunded", "overdue", "hold"}

\* a status as the wallet shows it
Shown(s) == IF s = "sending" THEN "receiving" ELSE s

\* getStatusApi answers with a status: it is written to the asset's record, and the poll
\* goes on unless it is an end
Read(p) ==
    LET s == Shown(service[poll[p].of])
    IN  /\ poll[p].st = "asked"
        /\ record' = [record EXCEPT !.status = s]
        /\ poll' = [poll EXCEPT ![p].st = IF Concludes(s) THEN "ended" ELSE "timer"]
        /\ UNCHANGED <<pc, service, loads, overlap, doubled>>

\* it answers without data: the poll goes on; with an error, or it rejects: it does not
Unread(p) ==
    /\ poll[p].st = "asked"
    /\ \E st \in {"timer", "cut"} : poll' = [poll EXCEPT ![p].st = st]
    /\ UNCHANGED <<pc, service, record, loads, overlap, doubled>>

\* the timer of 10 s
Timer(p) ==
    /\ poll[p].st = "timer"
    /\ poll' = [poll EXCEPT ![p].st = "asked"]
    /\ UNCHANGED <<pc, service, record, loads, overlap, doubled>>

\* mutant: the polls of a record in process are not taken up
NeverResumed(x) == FALSE

\* does a load start a poll for x, the record's conversion?
Resumed(x) == x \in Call /\ record.status \in Pending

\* walletServerLoad, in the process that goes on or in a new one, where no call and no poll
\* of the old one has been left
Load(polls, calls) ==
    /\ loads < MaxLoads
    /\ loads' = loads + 1
    /\ pc' = calls
    /\ IF Resumed(record.of)
       THEN \E p \in Poll : /\ polls[p].st = "free"
                            /\ poll' = [polls EXCEPT ![p] = Polling(record.of)]
       ELSE poll' = polls
    /\ UNCHANGED <<service, record, overlap>>

LoadAgain ==
    /\ Load(poll, pc)
    /\ doubled' = (doubled \/ \E p \in Poll : Running(p) /\ Resumed(poll[p].of) /\ poll[p].of = record.of)

Restart ==
    /\ Load([p \in Poll |-> NoPoll], [x \in Call |-> IF x \in UnderWay THEN "lost" ELSE pc[x]])
    /\ UNCHANGED doubled
-----------------------------------------------------------------------------
Next ==
    \/ \E x \in Call : Convert(x) \/ Create(x) \/ Pushed(x) \/ PushFailed(x) \/ Progress(x)
    \/ \E p \in Poll : Read(p) \/ Unread(p) \/ Timer(p)
    \/ LoadAgain \/ Restart

Spec == Init /\ [][Next]_vars

\* timers fire, and of the requests of a poll that goes on one is answered in the end
LiveSpec == Spec /\ \A p \in Poll : WF_vars(Timer(p)) /\ SF_vars(Read(p))
-----------------------------------------------------------------------------
(* Properties *)

TypeOK ==
    /\ pc \in [Call -> {"new", "open", "created", "ok", "err", "lost"}]
    /\ service \in [Call -> Statuses \cup {"none"}]
    /\ record \in [of : Call \cup {Past}, status : Pending \cup Ending \cup {"none", "done"}]
    /\ poll \in [Poll -> [of : Call \cup {Past}, st : {"free", "asked", "timer", "cut", "ended"}]]
    /\ loads \in 0 .. MaxLoads /\ overlap \in BOOLEAN /\ doubled \in BOOLEAN

\* a conversion the wallet has recorded and the service has not ended
InProcess(x) == pc[x] = "ok" /\ service[x] \in Going

Passes(x) == pc[x] = "new" /\ pc'[x] = "open"

\* A call passes the check only when no recorded conversion of the asset is in process
\* (sw-asset.js:84), if calls do not overlap, no conversion has two polls, and none has
\* expired: the poll of an expired one never ends, and writes to the record of the next.
OneInProcess ==
    [][\A x \in Call :
         Passes(x) /\ ~overlap /\ ~doubled /\ (\A y \in Call : service[y] # "expired") =>
             \A y \in Call : ~InProcess(y)]_vars

\* "abort if XS tx already in process for this asset" (sw-asset.js:82), for calls one after
\* the other in one session.
AbortsIfInProcess ==
    [][\A x \in Call : Passes(x) /\ ~overlap /\ loads = 0 => \A y \in Call : ~InProcess(y)]_vars

\* A conversion that has ended at the service ends in the wallet, and so the asset can be
\* converted again, unless an error cut its poll off (pollExchangeStatus, walletServerLoad) or
\* calls overlapped: the poll of the other one may write "waiting" to its record after it.
Concluded ==
    \A x \in Call :
        record.of = x /\ service[x] \in Ending ~>
            \/ record.of # x \/ record.status \notin Pending \/ overlap
            \/ \E p \in Poll : poll[p] = [of |-> x, st |-> "cut"]
=============================================================================
