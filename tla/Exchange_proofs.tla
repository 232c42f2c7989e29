--------------------------- MODULE Exchange_proofs ---------------------------
(***************************************************************************)
(* No conversion passes the check while another one is in process, for any *)
(* number of calls, polls, loads and restarts, and any order of their      *)
(* steps (OneInProcess).                                                   *)
(***************************************************************************)
EXTENDS Exchange, TLAPS

\* What the property excepts has not happened; once it has, it stays so.
Orderly == ~overlap /\ ~doubled /\ \A x \in Call : service[x] # "expired"

Typed ==
    /\ pc \in [Call -> {"new", "open", "created", "ok", "err", "lost"}]
    /\ service \in [Call -> Statuses \cup {"none"}]
    /\ DOMAIN record = {"of", "status"}
    /\ DOMAIN poll = Poll
    /\ \A p \in Poll : DOMAIN poll[p] = {"of", "st"}
    /\ overlap \in BOOLEAN /\ doubled \in BOOLEAN

\* The service has a conversion of a call from its creation on.
ServiceHas ==
    \A x \in Call : /\ pc[x] \in {"new", "open"} => service[x] = "none"
                    /\ pc[x] \in {"created", "ok"} => service[x] # "none"

\* A record that is in process, or anything polled, is of a conversion that the service has.
RecordKnown ==
    record.status \in Pending \/ (\E p \in Poll : Running(p)) =>
        record.of \in Call /\ service[record.of] # "none"

\* A running poll is of a conversion that the service has.
PollKnown == \A p \in Poll : Running(p) => poll[p].of \in Call /\ service[poll[p].of] # "none"

\* A conversion in process is the one recorded, and recorded as such.
ProcessRecorded == \A y \in Call : InProcess(y) => record.of = y /\ record.status \in Pending

\* A call that is under way is alone, and nothing is recorded as in process.
CallAlone ==
    /\ \A x, y \in UnderWay : x = y
    /\ UnderWay # {} => record.status \notin Pending

\* A poll that runs is alone, and of the conversion that is recorded as in process.
PollAlone ==
    /\ \A p, q \in Poll : Running(p) /\ Running(q) => p = q
    /\ \A p \in Poll : Running(p) => poll[p].of = record.of /\ record.status \in Pending

IInv ==
    /\ Typed /\ ServiceHas /\ RecordKnown /\ PollKnown
    /\ Orderly => ProcessRecorded /\ CallAlone /\ PollAlone
-----------------------------------------------------------------------------
\* A call comes to its check.
LEMMA ConvertStep ==
    ASSUME IInv, NEW x \in Call, Convert(x)
    PROVE  IInv'
<1>1. pc[x] = "new" /\ \E v \in {"err", "open"} : pc' = [pc EXCEPT ![x] = v]
  BY DEF Convert
<1>2. UNCHANGED <<service, record, poll, doubled>>
  BY DEF Convert
<1>3. \A y \in Call : y # x => pc'[y] = pc[y]
  BY DEF Convert, IInv, Typed
<1>4. overlap' \in BOOLEAN /\ (overlap => overlap')
  BY DEF Convert, IInv, Typed
<1>5. Typed' /\ ServiceHas' /\ RecordKnown' /\ PollKnown'
  BY <1>1, <1>2, <1>3, <1>4 DEF IInv, Typed, ServiceHas, RecordKnown, PollKnown, Running
<1>6. ASSUME Orderly' PROVE ProcessRecorded' /\ CallAlone' /\ PollAlone'
  <2>1. ProcessRecorded /\ CallAlone /\ PollAlone
    BY <1>2, <1>4, <1>6 DEF IInv, Orderly
  <2>2. ProcessRecorded'
    <3>1. \A y \in Call : InProcess(y)' => InProcess(y)
      BY <1>1, <1>2, <1>3 DEF InProcess, Convert
    <3> QED BY <1>2, <2>1, <3>1 DEF ProcessRecorded
  <2>3. CASE pc'[x] = "err"
    <3>1. UnderWay' = UnderWay
      BY <1>1, <1>3, <2>3 DEF UnderWay
    <3> QED BY <1>2, <2>1, <2>2, <3>1 DEF CallAlone, PollAlone, Running
  <2>4. CASE pc'[x] = "open"
    <3>1. record.status \notin Pending /\ overlap' = (overlap \/ UnderWay # {})
      BY <1>1, <2>4 DEF Convert, IInv, Typed
    <3>2. UnderWay = {}
      BY <1>6, <3>1 DEF Orderly
    <3>3. UnderWay' = {x}
      BY <1>1, <1>3, <2>4, <3>2 DEF UnderWay
    <3> QED BY <1>2, <2>1, <2>2, <3>1, <3>3 DEF CallAlone, PollAlone, Running
  <2> QED BY <1>1, <2>3, <2>4 DEF Convert, IInv, Typed
<1> QED BY <1>5, <1>6 DEF IInv

\* The service opens a conversion, or the call fails.
LEMMA CreateStep ==
    ASSUME IInv, NEW x \in Call, Create(x)
    PROVE  IInv'
<1>1. pc[x] = "open" /\ service[x] = "none" /\ UNCHANGED <<record, poll, overlap, doubled>>
  BY DEF Create, IInv, ServiceHas
<1>2. PICK v \in {"created", "err"} :
           /\ pc' = [pc EXCEPT ![x] = v]
           /\ \/ v = "created" /\ service' = [service EXCEPT ![x] = "waiting"]
              \/ v = "err" /\ service' = service
  <2>1. CASE pc' = [pc EXCEPT ![x] = "created"] /\ service' = [service EXCEPT ![x] = "waiting"]
    BY <2>1
  <2>2. CASE pc' = [pc EXCEPT ![x] = "err"] /\ service' = service
    BY <2>2
  <2> QED BY <2>1, <2>2 DEF Create
<1>3. Typed' /\ ServiceHas' /\ RecordKnown' /\ PollKnown'
  BY <1>1, <1>2, StatusAssumption DEF IInv, Typed, ServiceHas, RecordKnown, PollKnown, Running
<1>4. ASSUME Orderly' PROVE ProcessRecorded' /\ CallAlone' /\ PollAlone'
  <2>1. ProcessRecorded /\ CallAlone /\ PollAlone
    BY <1>1, <1>2, <1>4 DEF IInv, Orderly, Typed
  <2>2. ProcessRecorded'
    BY <1>1, <1>2, <2>1 DEF ProcessRecorded, InProcess, IInv, Typed
  <2>3. x \in UnderWay /\ UnderWay' \subseteq UnderWay
    BY <1>1, <1>2 DEF UnderWay, IInv, Typed
  <2> QED BY <1>1, <2>1, <2>2, <2>3 DEF CallAlone, PollAlone, Running
<1> QED BY <1>3, <1>4 DEF IInv

\* The payment is out: a new record, and a poll of it.
LEMMA PushedStep ==
    ASSUME IInv, NEW x \in Call, Pushed(x)
    PROVE  IInv'
<1>1. pc[x] = "created" /\ pc' = [pc EXCEPT ![x] = "ok"] /\ UNCHANGED <<service, overlap, doubled>>
  BY DEF Pushed
<1>2. record' = [of |-> x, status |-> "waiting"]
  BY DEF Pushed
<1>3. PICK p \in Poll : poll[p].st = "free" /\ poll' = [poll EXCEPT ![p] = Polling(x)]
  BY DEF Pushed
<1>4. poll'[p] = [of |-> x, st |-> "asked"] /\ \A q \in Poll : q # p => poll'[q] = poll[q]
  BY <1>3 DEF IInv, Typed, Polling
<1>5. service[x] # "none"
  BY <1>1 DEF IInv, ServiceHas
<1>6. Typed' /\ ServiceHas' /\ RecordKnown' /\ PollKnown'
  BY <1>1, <1>2, <1>3, <1>4, <1>5 DEF IInv, Typed, ServiceHas, RecordKnown, PollKnown, Running
<1>7. ASSUME Orderly' PROVE ProcessRecorded' /\ CallAlone' /\ PollAlone'
  <2>1. ProcessRecorded /\ CallAlone /\ PollAlone
    BY <1>1, <1>7 DEF IInv, Orderly
  <2>2. x \in UnderWay
    BY <1>1 DEF UnderWay
  <2>3. record.status \notin Pending /\ \A q \in Poll : ~Running(q)
    BY <2>1, <2>2 DEF CallAlone, PollAlone
  <2>4. \A y \in Call : ~InProcess(y)
    BY <2>1, <2>3 DEF ProcessRecorded
  <2>5. ProcessRecorded'
    BY <1>1, <1>2, <2>4 DEF ProcessRecorded, InProcess, IInv, Typed, Pending
  <2>6. UnderWay' = {}
    BY <1>1, <2>1, <2>2 DEF CallAlone, UnderWay, IInv, Typed
  <2>7. \A q \in Poll : Running(q)' => q = p
    BY <1>4, <2>3 DEF Running
  <2> QED BY <1>2, <1>4, <2>5, <2>6, <2>7 DEF CallAlone, PollAlone, Pending
<1> QED BY <1>6, <1>7 DEF IInv

\* The payment fails: the record is none in process.
LEMMA PushFailedStep ==
    ASSUME IInv, NEW x \in Call, PushFailed(x)
    PROVE  IInv'
<1>1. pc[x] = "created" /\ pc' = [pc EXCEPT ![x] = "err"] /\ UNCHANGED <<service, poll, overlap, doubled>>
  BY DEF PushFailed
<1>2. DOMAIN record' = {"of", "status"} /\ record'.of = record.of /\ record'.status = "done"
  BY DEF PushFailed, IInv, Typed
<1>3. Typed' /\ ServiceHas' /\ RecordKnown' /\ PollKnown'
  BY <1>1, <1>2 DEF IInv, Typed, ServiceHas, RecordKnown, PollKnown, Running, Pending
<1>4. ASSUME Orderly' PROVE ProcessRecorded' /\ CallAlone' /\ PollAlone'
  <2>1. ProcessRecorded /\ CallAlone /\ PollAlone
    BY <1>1, <1>4 DEF IInv, Orderly
  <2>2. x \in UnderWay
    BY <1>1 DEF UnderWay
  <2>3. record.status \notin Pending /\ \A q \in Poll : ~Running(q)
    BY <2>1, <2>2 DEF CallAlone, PollAlone
  <2>4. \A y \in Call : ~InProcess(y)'
    BY <1>1, <2>1, <2>3 DEF ProcessRecorded, InProcess, IInv, Typed
  <2>5. UnderWay' = {}
    BY <1>1, <2>1, <2>2 DEF CallAlone, UnderWay, IInv, Typed
  <2>6. \A q \in Poll : ~Running(q)'
    BY <1>1, <2>3 DEF Running
  <2> QED BY <2>4, <2>5, <2>6 DEF ProcessRecorded, CallAlone, PollAlone
<1> QED BY <1>3, <1>4 DEF IInv

\* The service goes on: what had ended has not changed.
LEMMA ProgressStep ==
    ASSUME IInv, NEW x \in Call, Progress(x)
    PROVE  IInv'
<1>1. service[x] \in Going /\ UNCHANGED <<pc, record, poll, overlap, doubled>>
  BY DEF Progress
<1>2. PICK s \in Statuses : service' = [service EXCEPT ![x] = s]
  BY DEF Progress
<1>3. s # "none" /\ service[x] \notin {"none", "expired"}
  BY <1>1, StatusAssumption DEF Going, Ending
<1>4. Typed' /\ ServiceHas' /\ RecordKnown' /\ PollKnown'
  BY <1>1, <1>2, <1>3 DEF IInv, Typed, ServiceHas, RecordKnown, PollKnown, Running
<1>5. ASSUME Orderly' PROVE ProcessRecorded' /\ CallAlone' /\ PollAlone'
  <2>1. ProcessRecorded /\ CallAlone /\ PollAlone
    BY <1>1, <1>2, <1>3, <1>5 DEF IInv, Orderly, Typed
  <2>2. \A y \in Call : InProcess(y)' => InProcess(y)
    BY <1>1, <1>2 DEF InProcess, IInv, Typed
  <2> QED BY <1>1, <2>1, <2>2 DEF ProcessRecorded, CallAlone, PollAlone, Running, UnderWay
<1> QED BY <1>4, <1>5 DEF IInv

\* A poll reads a status, and goes on unless it is an end.
LEMMA ReadStep ==
    ASSUME IInv, NEW p \in Poll, Read(p)
    PROVE  IInv'
<1> DEFINE z == poll[p].of
           s == Shown(service[z])
<1>1. poll[p].st = "asked" /\ UNCHANGED <<pc, service, overlap, doubled>>
  BY DEF Read
<1>2. DOMAIN record' = {"of", "status"} /\ record'.of = record.of /\ record'.status = s
  BY DEF Read, IInv, Typed
<1>3. /\ DOMAIN poll' = Poll /\ \A q \in Poll : q # p => poll'[q] = poll[q]
      /\ DOMAIN poll'[p] = {"of", "st"} /\ poll'[p].of = z
      /\ poll'[p].st = IF Concludes(s) THEN "ended" ELSE "timer"
  BY DEF Read, IInv, Typed
<1>4. Running(p) /\ z \in Call /\ service[z] # "none" /\ service[z] \in Going \cup Ending
  BY <1>1, StatusAssumption DEF Running, IInv, Typed, PollKnown
<1>5. s \in Pending => service[z] \in Going
  BY <1>4 DEF Shown, Pending, Going, Ending
<1>6. service[z] \in Going => s \in Pending
  BY DEF Shown, Pending, Going
<1>7. Concludes(s) <=> s \notin Pending \cup {"expired"}
  BY <1>4 DEF Shown, Pending, Going, Ending, Concludes
<1>8. s = "expired" => service[z] = "expired"
  BY DEF Shown
<1> HIDE DEF s
<1>9. \A q \in Poll : Running(q)' => Running(q)
  BY <1>1, <1>3 DEF Running
<1>10. Typed' /\ ServiceHas' /\ RecordKnown' /\ PollKnown'
  <2>1. Typed' /\ ServiceHas'
    BY <1>1, <1>2, <1>3 DEF IInv, Typed, ServiceHas
  <2>2. RecordKnown'
    BY <1>1, <1>2, <1>4, <1>9 DEF IInv, RecordKnown
  <2>3. PollKnown'
    BY <1>1, <1>3, <1>9 DEF IInv, PollKnown
  <2> QED BY <2>1, <2>2, <2>3
<1>11. ASSUME Orderly' PROVE ProcessRecorded' /\ CallAlone' /\ PollAlone'
  <2>1. ProcessRecorded /\ CallAlone /\ PollAlone
    BY <1>1, <1>11 DEF IInv, Orderly
  <2>2. z = record.of /\ record.status \in Pending
    BY <1>4, <2>1 DEF PollAlone
  <2>3. ProcessRecorded'
    BY <1>1, <1>2, <1>6, <2>1, <2>2 DEF ProcessRecorded, InProcess
  <2>4. UnderWay = {}
    BY <2>1, <2>2 DEF CallAlone
  <2>5. CallAlone'
    BY <1>1, <2>4 DEF CallAlone, UnderWay
  <2>6. s # "expired"
    BY <1>1, <1>4, <1>8, <1>11 DEF Orderly
  <2>7. PollAlone'
    <3>1. CASE Concludes(s)
      <4>1. \A q \in Poll : ~Running(q)'
        BY <1>3, <1>4, <1>9, <2>1, <3>1 DEF PollAlone, Running
      <4> QED BY <4>1 DEF PollAlone
    <3>2. CASE ~Concludes(s)
      <4>1. s \in Pending
        BY <1>7, <2>6, <3>2
      <4> QED BY <1>2, <1>3, <1>4, <1>9, <2>1, <2>2, <4>1 DEF PollAlone
    <3> QED BY <3>1, <3>2
  <2> QED BY <2>3, <2>5, <2>7
<1> QED BY <1>10, <1>11 DEF IInv

\* A poll waits for its timer, asks, or is cut off.
LEMMA WaitStep ==
    ASSUME IInv, NEW p \in Poll, Unread(p) \/ Timer(p)
    PROVE  IInv'
<1>1. UNCHANGED <<pc, service, record, overlap, doubled>>
  BY DEF Unread, Timer
<1>2. Running(p) /\ \E st \in {"asked", "timer", "cut"} : poll' = [poll EXCEPT ![p].st = st]
  BY DEF Unread, Timer, Running
<1>3. /\ DOMAIN poll' = Poll
      /\ \A q \in Poll : DOMAIN poll'[q] = {"of", "st"} /\ poll'[q].of = poll[q].of
      /\ \A q \in Poll : Running(q)' => Running(q)
  BY <1>2 DEF IInv, Typed, Running
<1> QED BY <1>1, <1>3 DEF IInv, Typed, ServiceHas, RecordKnown, PollKnown, Orderly,
             ProcessRecorded, InProcess, CallAlone, UnderWay, PollAlone

\* A load takes up the record's conversion, next to the polls it finds.
LEMMA LoadStep ==
    ASSUME IInv, NEW polls, NEW calls, Load(polls, calls),
           DOMAIN polls = Poll, \A p \in Poll : DOMAIN polls[p] = {"of", "st"},
           \A p \in Poll : polls[p] = poll[p] \/ polls[p] = NoPoll,
           calls \in [Call -> {"new", "open", "created", "ok", "err", "lost"}],
           \A x \in Call : calls[x] = pc[x] \/ (x \in UnderWay /\ calls[x] = "lost"),
           doubled' \in BOOLEAN, doubled => doubled',
           (\E p \in Poll : polls[p] = poll[p] /\ Running(p) /\ Resumed(record.of)) /\ Orderly => doubled'
    PROVE  IInv'
<1>1. pc' = calls /\ UNCHANGED <<service, record, overlap>>
  BY DEF Load
<1>2. \/ ~Resumed(record.of) /\ poll' = polls
      \/ /\ Resumed(record.of)
         /\ \E p \in Poll : polls[p].st = "free" /\ poll' = [polls EXCEPT ![p] = Polling(record.of)]
  BY DEF Load
<1>3. ASSUME NEW p \in Poll, Running(p)'
      PROVE  \/ Running(p) /\ polls[p] = poll[p] /\ poll'[p] = poll[p]
             \/ Resumed(record.of) /\ poll'[p] = Polling(record.of)
  <2>1. poll'[p] = polls[p] \/ (Resumed(record.of) /\ poll'[p] = Polling(record.of))
    BY <1>2
  <2>2. poll'[p] # NoPoll
    BY <1>3 DEF Running, NoPoll
  <2> QED BY <1>3, <2>1, <2>2 DEF Running
<1>4. Resumed(record.of) => record.of \in Call /\ record.status \in Pending
  BY DEF Resumed
<1>5. Typed'
  BY <1>1, <1>2 DEF IInv, Typed, Polling
<1>6. ServiceHas'
  BY <1>1 DEF IInv, ServiceHas, UnderWay
<1>7. RecordKnown' /\ PollKnown'
  <2>1. ASSUME NEW p \in Poll, Running(p)' PROVE
          \/ Running(p) /\ poll'[p] = poll[p]
          \/ record.status \in Pending /\ poll'[p].of = record.of
    BY <1>3, <1>4, <2>1 DEF Polling
  <2>2. RecordKnown'
    BY <1>1, <2>1 DEF IInv, RecordKnown
  <2>3. PollKnown'
    BY <1>1, <2>1, <2>2 DEF IInv, PollKnown, RecordKnown
  <2> QED BY <2>2, <2>3
<1>8. ASSUME Orderly' PROVE ProcessRecorded' /\ CallAlone' /\ PollAlone'
  <2>1. ProcessRecorded /\ CallAlone /\ PollAlone /\ Orderly
    BY <1>1, <1>8 DEF IInv, Orderly
  <2>2. ProcessRecorded'
    BY <1>1, <2>1 DEF ProcessRecorded, InProcess, UnderWay
  <2>3. CallAlone'
    BY <1>1, <2>1 DEF CallAlone, UnderWay
  <2>4. PollAlone'
    <3>1. CASE Resumed(record.of)
      <4>1. \A p \in Poll : ~(polls[p] = poll[p] /\ Running(p))
        BY <1>8, <2>1, <3>1 DEF Orderly
      <4>2. PICK p \in Poll : polls[p].st = "free" /\ poll' = [polls EXCEPT ![p] = Polling(record.of)]
        BY <1>2, <3>1
      <4>3. \A q \in Poll : q # p => ~Running(q)'
        BY <4>1, <4>2 DEF Running, NoPoll
      <4> QED BY <1>1, <1>4, <3>1, <4>2, <4>3 DEF PollAlone, Polling
    <3>2. CASE ~Resumed(record.of)
      <4>1. \A p \in Poll : Running(p)' => Running(p) /\ poll'[p] = poll[p]
        BY <1>3, <3>2
      <4> QED BY <1>1, <2>1, <4>1 DEF PollAlone
    <3> QED BY <3>1, <3>2
  <2> QED BY <2>2, <2>3, <2>4
<1> QED BY <1>5, <1>6, <1>7, <1>8 DEF IInv
-----------------------------------------------------------------------------
\* The record, the calls and the polls stay as IInv says, through loads and restarts.
THEOREM Invariance == Spec => []IInv
<1>1. Init => IInv
  <2> SUFFICES ASSUME Init PROVE IInv
    OBVIOUS
  <2>1. Typed /\ ServiceHas
    BY DEF Init, NoRecord, NoPoll, Typed, ServiceHas
  <2>2. record.status \notin Pending /\ \A p \in Poll : ~Running(p)
    BY DEF Init, NoRecord, NoPoll, Pending, Running
  <2>3. UnderWay = {} /\ \A x \in Call : ~InProcess(x)
    BY DEF Init, UnderWay, InProcess
  <2> QED BY <2>1, <2>2, <2>3 DEF IInv, RecordKnown, PollKnown, ProcessRecorded, CallAlone, PollAlone
<1>2. IInv /\ [Next]_vars => IInv'
  <2> SUFFICES ASSUME IInv, [Next]_vars PROVE IInv'
    OBVIOUS
  <2>1. CASE LoadAgain
    <3>1. Load(poll, pc)
      BY <2>1 DEF LoadAgain
    <3>2. doubled' \in BOOLEAN /\ (doubled => doubled')
      BY <2>1 DEF LoadAgain, IInv, Typed
    <3>3. ASSUME NEW p \in Poll, Running(p), Resumed(record.of), Orderly PROVE doubled'
      <4>1. poll[p].of = record.of
        BY <3>3 DEF IInv, PollAlone
      <4> QED BY <2>1, <3>3, <4>1 DEF LoadAgain
    <3> QED BY <3>1, <3>2, <3>3, LoadStep DEF IInv, Typed
  <2>2. CASE Restart
    <3> DEFINE polls == [p \in Poll |-> NoPoll]
               calls == [x \in Call |-> IF x \in UnderWay THEN "lost" ELSE pc[x]]
    <3>1. Load(polls, calls) /\ UNCHANGED doubled
      BY <2>2 DEF Restart
    <3>2. \A p \in Poll : Running(p) => polls[p] # poll[p]
      BY DEF Running, NoPoll
    <3>3. calls \in [Call -> {"new", "open", "created", "ok", "err", "lost"}]
      BY DEF IInv, Typed
    <3>4. DOMAIN polls = Poll /\ \A p \in Poll : polls[p] = NoPoll /\ DOMAIN polls[p] = {"of", "st"}
      BY DEF NoPoll
    <3>5. \A x \in Call : calls[x] = pc[x] \/ (x \in UnderWay /\ calls[x] = "lost")
      OBVIOUS
    <3>6. doubled \in BOOLEAN
      BY DEF IInv, Typed
    <3> HIDE DEF polls, calls
    <3> QED BY <3>1, <3>2, <3>3, <3>4, <3>5, <3>6, LoadStep
  <2>3. CASE UNCHANGED vars
    BY <2>3 DEF vars, IInv, Typed, ServiceHas, RecordKnown, PollKnown, Orderly, ProcessRecorded,
                InProcess, CallAlone, UnderWay, PollAlone, Running
  <2> QED
    BY <2>1, <2>2, <2>3, ConvertStep, CreateStep, PushedStep, PushFailedStep, ProgressStep,
       ReadStep, WaitStep DEF Next
<1> QED BY <1>1, <1>2, PTL DEF Spec

\* A call passes its check only when no recorded conversion is in process, those histories aside
\* that the property names.
THEOREM OnlyOneInProcess == Spec => OneInProcess
<1>1. IInv /\ [Next]_vars =>
        [\A x \in Call :
           Passes(x) /\ ~overlap /\ ~doubled /\ (\A y \in Call : service[y] # "expired") =>
             \A y \in Call : ~InProcess(y)]_vars
  <2> SUFFICES ASSUME IInv, Next, NEW x \in Call, Passes(x), Orderly PROVE \A y \in Call : ~InProcess(y)
    BY DEF Orderly
  <2>1. record.status \notin Pending
    <3>1. \E z \in Call : Convert(z) /\ z = x
      <4>1. pc'[x] # pc[x] /\ pc'[x] = "open"
        BY DEF Passes
      <4>2. ASSUME NEW z \in Call, Create(z) \/ Pushed(z) \/ PushFailed(z) PROVE pc'[x] # "open" \/ pc'[x] = pc[x]
        BY <4>2 DEF Create, Pushed, PushFailed, IInv, Typed
      <4>3. ASSUME NEW z \in Call, Progress(z) PROVE pc'[x] = pc[x]
        BY <4>3 DEF Progress
      <4>4. ASSUME NEW p \in Poll, Read(p) \/ Unread(p) \/ Timer(p) PROVE pc'[x] = pc[x]
        BY <4>4 DEF Read, Unread, Timer
      <4>5. ASSUME LoadAgain \/ Restart PROVE pc'[x] = pc[x] \/ pc'[x] = "lost"
        BY <4>5 DEF LoadAgain, Restart, Load
      <4>6. ASSUME NEW z \in Call, Convert(z), z # x PROVE pc'[x] = pc[x]
        BY <4>6 DEF Convert, IInv, Typed
      <4> QED BY <4>1, <4>2, <4>3, <4>4, <4>5, <4>6 DEF Next
    <3> QED BY <3>1 DEF Convert, Passes, IInv, Typed
  <2> QED BY <2>1 DEF IInv, ProcessRecorded
<1> QED BY <1>1, Invariance, PTL DEF Spec, OneInProcess
=============================================================================
