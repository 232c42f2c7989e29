----------------------------- MODULE UtxoSpend -----------------------------
(***************************************************************************)
(* Sends of a Bitcoin asset with P2SH addresses (BTC_SEG, BTC_TEST): plain *)
(* payments, PROTECT_OP outputs, which a beneficiary may take after a lock *)
(* time and the benefactor at any time, and claims of such outputs         *)
(* (sw-tx.js, sw-claimable.js, wallet-external.js, wallet-utxo.js,         *)
(* wallet-btc-p2sh.js, wallet-btc-sendguard.js, worker-pushtx.js).         *)
(*                                                                         *)
(* A send works on the coins the store listed when it began. It awaits the *)
(* fee rates, then quotes a fee from an estimate, selects coins, builds    *)
(* and signs, passes the send guard and posts the transaction to the app   *)
(* worker without a pause. Everything else may happen during an await.     *)
(*                                                                         *)
(* Values are satoshis and sizes vbytes; an input or an output of a kind   *)
(* has one size. Time is in hours. What the backend reports of a coin is   *)
(* true: a segwit signature commits to it.                                 *)
(***************************************************************************)
EXTENDS Integers, Sequences, FiniteSets, FiniteSetsExt, SequencesExt

CONSTANTS
    Send,       \* bound: the calls of txPush and claimableClaim, one per element
    Own,        \* the wallet's standard addresses, with their keys
    Change,     \* the first of them, which gets the change
    Donate,     \* the developer's address of the asset
    Protected,  \* stands for the address of any P2SH(DSIG/CLTV) output
    Data,       \* stands for an OP_RETURN output
    Request,    \* what is asked of txPush and claimableClaim
    Genesis,    \* coins the wallet has at first
    Rates,      \* satoshis per 1000 vbytes the fee oracle answers
    FloatShort, \* the fees that lose a satoshi in Math.floor(fee * 100000000)
    Byte,       \* the values of a byte
    IntLimit,   \* the first integer the shift to 32 bits makes negative
    MaxHours,   \* the most lock hours a PROTECT_OP may have (0xffff)
    EstimateHours, \* the lock hours a fee is quoted with (42)
    MaxTime     \* bound: the clocks stop there

ASSUME AddressAssumption ==
    /\ Change \in Own
    /\ {Protected, Data} \cap (Own \cup {Donate}) = {}
\* the oracle's rates are raised to the minimum relay fee (wallet-utxo.js:186)
ASSUME RateAssumption == \A rate \in Rates : rate \in Nat /\ rate >= 1000
ASSUME RequestAssumption ==
    \A r \in Request : r.value \in Nat /\ r.hours \in Nat /\ r.heir \notin {Protected, Data}
ASSUME ByteAssumption == Byte \in Nat \ {0}
ASSUME HoursAssumption == MaxHours \in Nat /\ EstimateHours \in Nat
ASSUME BoundAssumption == MaxTime \in Nat

VARIABLES
    st,         \* send -> where it stands
    work,       \* send -> where the worker is with its transaction
    coins,      \* the wallet's unspent coins on the network
    listed,     \* the coins the store lists
    scanned,    \* PROTECT_OP coins found by the scan, with the lock read
    accepted,   \* transactions the network has taken
    wall,       \* the wall clock
    mtp         \* the median time past of the chain

vars == <<st, work, coins, listed, scanned, accepted, wall, mtp>>

P_OP_DUST == 546
P_OP_MIN_GROSS == P_OP_DUST * 3 + 800
MaxFeeSats == 100000
MaxFeeSatVb == 100

NoTx == <<>>   \* no transaction

\* Coins the wallet has at first have ids of no transaction made here.
ASSUME GenesisAssumption ==
    /\ IsFiniteSet(Genesis)
    /\ \A c \in Genesis : /\ c.id[1] = NoTx
                         /\ c.value \in Nat /\ c.lock \in Nat
                         /\ c.benefactor \in BOOLEAN /\ c.beneficiary \in BOOLEAN
    /\ \A c, d \in Genesis : c.id = d.id => c = d

\* a coin of a standard address; the wallet holds a PROTECT_OP coin in one role, or in both
Standard(c) == ~c.benefactor /\ ~c.beneficiary

InSize == 91
ProtectedInSize == 210
OutSize == 32
DataSize == 91
BaseSize == 11

Larger(a, b) == IF a < b THEN b ELSE a

Total(C) == MapThenSumSet(LAMBDA c : c.value, C)

SumOf(values) == FoldLeft(LAMBDA sum, value : value + sum, 0, values)

Paid(outs) == SumOf([i \in DOMAIN outs |-> outs[i].value])

SizeOf(C, outs) ==
    LET in(c) == IF Standard(c) THEN InSize ELSE ProtectedInSize
        out(o) == IF o.to = Data THEN DataSize ELSE OutSize
    IN  BaseSize + MapThenSumSet(in, C) + SumOf([i \in DOMAIN outs |-> out(outs[i])])

Fee(tx) == Total(tx.ins) - Paid(tx.outs)

(***************************************************************************)
(* Lock times in the OP_RETURN data: bytes shifted as 32-bit integers.     *)
(***************************************************************************)
Written(time) == [high |-> time \div Byte, low |-> time % Byte]

ReadLow(buf) == buf.low

ReadBack(buf) == buf.high * Byte + buf.low

(***************************************************************************)
(* Selection and outputs.                                                  *)
(***************************************************************************)

\* the coins a send may spend: the given ones, or all but those of marked addresses
Candidates(view, marks, q) ==
    IF q.claim # {} THEN {c \in view : c.id \in q.claim}
                    ELSE {c \in view : c.id \notin marks}

\* largest first, until they cover the need or none is left
Selections(C, need) ==
    {S \in SUBSET C :
        /\ \A c \in S, d \in C \ S : c.value >= d.value
        /\ S = C \/ Total(S) >= need
        /\ \E m \in S : /\ \A c \in S : c.value >= m.value
                        /\ S = {m} \/ Total(S \ {m}) < need}

Unspent(S, value, fee) == Total(S) - value - fee

\* the receiver's output, and the change unless it goes to the miner
Skeleton(S, q, to, value, fee) ==
    LET rest == Unspent(S, value, fee)
        pay == [to |-> to, value |-> value]
    IN  IF rest > fee \/ q.hours > 0
        THEN <<pay, [to |-> Change, value |-> Larger(0, rest)]>>
        ELSE <<pay>>

DevFee(gross) == Larger((gross + 100) \div 200, P_OP_DUST)

Anatomy(outs, heir, lost, pad) ==
    LET gross == outs[1].value
    IN  << [to |-> Protected, value |-> gross - DevFee(gross) - P_OP_DUST - lost],
           [to |-> Data, value |-> 0],
           [to |-> heir, value |-> P_OP_DUST],
           [to |-> Change, value |-> outs[2].value + pad],
           [to |-> Donate, value |-> DevFee(gross)] >>

PadOf(outs) == Larger(0, P_OP_DUST - outs[2].value)

ExpandTwice(outs, heir) == Anatomy(outs, heir, P_OP_DUST + PadOf(outs), PadOf(outs))

ExpandUnpadded(outs, heir) == Anatomy(outs, heir, 0, 0)

\* the five outputs of a PROTECT_OP; dust for the beneficiary and padding of the change come off the protected value
Expand(outs, heir) == Anatomy(outs, heir, PadOf(outs), PadOf(outs))

\* why the builder of P2SH transactions throws
BuilderFails(q, to, value, hours) ==
    /\ q.hours > 0
    /\ \/ value < P_OP_MIN_GROSS
       \/ hours > MaxHours
       \/ to \notin Own                 \* no key: the benefactor's is looked up by the receiver
       \/ wall + hours >= IntLimit      \* the lock time cannot be written

LockOfAny(S) ==
    LET locks == {c.lock : c \in {d \in S : d.beneficiary}}
    IN  IF locks = {} THEN 0 ELSE Min(locks)

\* one nLockTime that suits every input whose beneficiary the wallet is: it spends as such, also what
\* it is the benefactor of
LockOf(S) ==
    LET locks == {c.lock : c \in {d \in S : d.beneficiary}}
    IN  IF locks = {} THEN 0 ELSE Max(locks)

MakeTx(S, q, to, value, fee, hours) ==
    LET outs == Skeleton(S, q, to, value, fee)
    IN  [ins  |-> S,
         outs |-> IF q.hours > 0 THEN Expand(outs, q.heir) ELSE outs,
         lock |-> LockOf(S),
         data |-> IF q.hours > 0 THEN Written(wall + hours) ELSE Written(0),
         cltv |-> IF q.hours > 0 THEN wall + hours ELSE 0]

(***************************************************************************)
(* The send guard: what it wants of the signed transaction.                *)
(***************************************************************************)
FeeExact(tx, intended) == Fee(tx) > 0 /\ Fee(tx) <= intended

FeeOk(tx, intended) ==
    /\ Fee(tx) > 0
    /\ Fee(tx) <= MaxFeeSats
    /\ Fee(tx) <= MaxFeeSatVb * SizeOf(tx.ins, tx.outs)
    /\ Fee(tx) <= 2 * intended + 1

RateOk(tx) == Fee(tx) >= SizeOf(tx.ins, tx.outs)

PaymentOnce(outs, to, value) ==
    /\ Len(outs) <= 2
    /\ Cardinality({i \in DOMAIN outs : outs[i].to = to}) = 1
    /\ \E i \in DOMAIN outs : outs[i] = [to |-> to, value |-> value]

\* one output pays the receiver exactly, any other is change
PaymentOk(outs, to, value) ==
    /\ Len(outs) <= 2
    /\ \E p \in DOMAIN outs :
          /\ outs[p] = [to |-> to, value |-> value]
          /\ \A i \in DOMAIN outs \ {p} : outs[i].to = Change

ProtectOk(outs, gross) ==
    /\ Len(outs) = 5
    /\ outs[2] = [to |-> Data, value |-> 0]
    /\ outs[3].value = P_OP_DUST
    /\ outs[4].to \in Own
    /\ outs[5].to = Donate
    /\ outs[5].value <= Larger((gross + 199) \div 200, P_OP_DUST)
    /\ outs[1].value + outs[3].value + outs[5].value <= gross

UnratedGuard(tx, q, value, intended) ==
    /\ FeeOk(tx, intended)
    /\ IF q.hours > 0 THEN ProtectOk(tx.outs, value) ELSE PaymentOk(tx.outs, q.to, value)

Guard(tx, q, value, intended) ==
    /\ FeeOk(tx, intended)
    /\ RateOk(tx)
    /\ IF q.hours > 0 THEN ProtectOk(tx.outs, value) ELSE PaymentOk(tx.outs, q.to, value)

(***************************************************************************)
(* The calls.                                                              *)
(***************************************************************************)
NoRequest == [to |-> Change, value |-> 0, hours |-> 0, heir |-> Change, claims |-> FALSE]

Asked(r, claim, value) == [to |-> r.to, value |-> value, hours |-> r.hours, heir |-> r.heir,
                           claims |-> r.claims, claim |-> claim]

Idle == [pc |-> "idle", q |-> Asked(NoRequest, {}, 0), view |-> {}, marks |-> {}, tx |-> NoTx,
         value |-> 0, quoted |-> 0]

MarksOfBenefactor == {c.id : c \in {d \in scanned : d.benefactor}}

\* every address the scan has added is marked as not standard; its coins are known by it
Marks == {c.id : c \in scanned}

Init ==
    /\ st = [s \in Send |-> Idle]
    /\ work = [s \in Send |-> "none"]
    /\ coins = Genesis
    /\ listed = Genesis
    /\ scanned = {c \in Genesis : ~Standard(c)}
    /\ accepted = {}
    /\ wall = 0
    /\ mtp = 0

Network == <<coins, accepted, wall, mtp>>

\* txPush validates the request and awaits the fee; a claim first awaits the median time past
Start(s, r) ==
    /\ st[s].pc = "idle"
    /\ st' = [st EXCEPT ![s] = [Idle EXCEPT !.pc = IF r.claims THEN "mtp" ELSE "fee",
                                            !.q = Asked(r, {}, r.value),
                                            !.view = listed, !.marks = Marks]]
    /\ UNCHANGED <<work, listed, scanned, Network>>

\* finality by the median time past, or by the wall clock and an hour if it could not be had
Final(lock, known) == IF known THEN lock < mtp ELSE wall > lock + 1

\* what the wallet is the benefactor of at any time, and the beneficiary of once the lock is final
Claimable(view, known) ==
    {c \in view : c.benefactor \/ (c.beneficiary /\ Final(c.lock, known))}

\* the wait for the median time past is over
TimePast(s) ==
    /\ st[s].pc = "mtp"
    /\ \E known \in BOOLEAN :
          LET claim == Claimable(st[s].view, known)
          IN  st' = [st EXCEPT ![s] =
                        IF claim = {} THEN [@ EXCEPT !.pc = "ok"]
                        ELSE [@ EXCEPT !.pc = "fee", !.view = listed, !.marks = Marks,
                                       !.q = Asked(st[s].q, {c.id : c \in claim}, Total(claim))]]
    /\ UNCHANGED <<work, listed, scanned, Network>>

\* vsize * rate, rounded up
FeeOf(size, rate) == (size * rate + 999) \div 1000

FloorSats(fee) == IF fee \in FloatShort THEN fee - 1 ELSE fee

Fails(s, how) ==
    /\ st' = [st EXCEPT ![s].pc = how]
    /\ UNCHANGED work

PostNothing(s) == work' = [work EXCEPT ![s] = "none"]

Post(s) == work' = [work EXCEPT ![s] = "posted"]

\* the fee is quoted for a payment to the developer's address that would pay a quarter of the rate
Estimate(q, S, rate) == MakeTx(S, q, Donate, q.value, rate \div 4, EstimateHours)

\* the rates have come: quote, check the balance, build, sign, guard, post
Quoted(s, rate) ==
    LET q == st[s].q
        C == Candidates(st[s].view, st[s].marks, q)
    IN  /\ st[s].pc = "fee"
        /\ \/ C = {} /\ Fails(s, "none")
           \/ C # {} /\ BuilderFails(q, Donate, q.value, EstimateHours) /\ Fails(s, "builder")
           \/ /\ C # {} /\ ~BuilderFails(q, Donate, q.value, EstimateHours)
              /\ \E E \in Selections(C, q.value + rate \div 4) :
                    LET est == Estimate(q, E, rate)
                        fee == FeeOf(SizeOf(est.ins, est.outs), rate)
                        value == IF q.claims THEN q.value - fee ELSE q.value
                        intended == FloorSats(fee)
                        enough == value \in 0 .. Total(st[s].view) - fee
                    IN  \/ ~enough /\ Fails(s, "balance")
                        \/ enough /\ BuilderFails(q, q.to, value, q.hours) /\ Fails(s, "builder")
                        \/ /\ enough /\ ~BuilderFails(q, q.to, value, q.hours)
                           /\ \E S \in Selections(C, value + intended) :
                                 LET tx == MakeTx(S, q, q.to, value, intended, q.hours)
                                     ok == Guard(tx, q, value, intended)
                                 IN  /\ st' = [st EXCEPT ![s] =
                                               [@ EXCEPT !.pc = IF ok THEN "push" ELSE "guard",
                                                         !.tx = tx, !.value = value,
                                                         !.quoted = intended]]
                                     /\ IF ok THEN Post(s) ELSE UNCHANGED work
        /\ UNCHANGED <<listed, scanned, Network>>

(***************************************************************************)
(* The app worker, the network and the answers.                            *)
(***************************************************************************)

\* unspent inputs with the right scripts, a final lock time that suits them, a fee that relays
Valid(tx) ==
    /\ tx.ins \subseteq coins
    /\ RateOk(tx)
    /\ tx.lock = 0 \/ tx.lock < mtp
    /\ \A c \in tx.ins : c.beneficiary => tx.lock >= c.lock

\* the benefactor's key is the receiver's, which the wallet holds; the beneficiary's may be its own too
Made(tx, i) ==
    [id |-> <<tx, i>>, value |-> tx.outs[i].value,
     benefactor |-> tx.outs[i].to = Protected,
     beneficiary |-> tx.outs[i].to = Protected /\ tx.outs[3].to \in Own,
     lock |-> IF tx.outs[i].to = Protected THEN tx.cltv ELSE 0]

NewCoins(tx) == {Made(tx, i) : i \in {j \in DOMAIN tx.outs : tx.outs[j].to \in Own \cup {Protected}}}

AnswerAs(s, how) ==
    st' = [t \in Send |->
              IF st[t].pc = "push" /\ st[t].tx = st[s].tx THEN [st[t] EXCEPT !.pc = "ok"] ELSE st[t]]

\* a listener takes the first answer for its transaction's hex
Answer(s, how) ==
    st' = [t \in Send |->
              IF st[t].pc = "push" /\ st[t].tx = st[s].tx THEN [st[t] EXCEPT !.pc = how] ELSE st[t]]

\* sendTransaction is taken, and answered or not; what the network already has is taken again
NetworkTakes(s) ==
    /\ work[s] = "posted"
    /\ Valid(st[s].tx) \/ st[s].tx \in accepted
    /\ accepted' = accepted \cup {st[s].tx}
    /\ coins' = IF st[s].tx \in accepted THEN coins
                ELSE (coins \ st[s].tx.ins) \cup NewCoins(st[s].tx)
    /\ \/ work' = [work EXCEPT ![s] = "sent"] /\ UNCHANGED st
       \/ work' = [work EXCEPT ![s] = "over"] /\ Answer(s, "timeout")
    /\ UNCHANGED <<listed, scanned, wall, mtp>>

\* refused by a node, by its own policy too, or never sent
NetworkRefuses(s) ==
    /\ work[s] = "posted"
    /\ st[s].tx \notin accepted
    /\ work' = [work EXCEPT ![s] = "over"]
    /\ Answer(s, "refused")
    /\ UNCHANGED <<listed, scanned, Network>>

\* getTransaction: the transaction, nothing, or an error object, which stops the callback
TxFetched(s) ==
    /\ work[s] = "sent"
    /\ work' = [work EXCEPT ![s] = "over"]
    /\ Answer(s, "ok") \/ Answer(s, "unfetched") \/ UNCHANGED st
    /\ UNCHANGED <<listed, scanned, Network>>

\* the anatomy the scan wants of a PROTECT_OP
Recognised(tx) ==
    /\ Len(tx.outs) = 5
    /\ tx.outs[1].value # 0
    /\ tx.outs[2].value = 0
    /\ tx.outs[3].value = P_OP_DUST
    /\ tx.outs[4].value >= P_OP_DUST
    /\ tx.outs[5].value >= P_OP_DUST

\* the scan of the outputs adds the protected address of a transaction it recognises
ScanNonStdOutputs ==
    /\ scanned' = scanned \cup
          {[Made(tx, 1) EXCEPT !.lock = ReadBack(tx.data)] : tx \in {t \in accepted : Recognised(t)}}
    /\ UNCHANGED <<st, work, listed, Network>>

\* a refresh lists the unspent coins of the addresses the wallet has
Refresh ==
    /\ listed' = {c \in coins : Standard(c)} \cup {c \in scanned : \E d \in coins : d.id = c.id}
    /\ UNCHANGED <<st, work, scanned, Network>>

\* the median time past follows the wall clock: at most an hour behind, or ahead
Tick ==
    /\ wall < MaxTime
    /\ wall' = wall + 1
    /\ \E time \in mtp .. MaxTime + 1 : time >= wall' - 1 /\ mtp' = time
    /\ UNCHANGED <<st, work, coins, listed, scanned, accepted>>

Next ==
    \/ \E s \in Send : \/ \E r \in Request : Start(s, r)
                       \/ TimePast(s)
                       \/ \E rate \in Rates : Quoted(s, rate)
                       \/ NetworkTakes(s)
                       \/ NetworkRefuses(s)
                       \/ TxFetched(s)
    \/ ScanNonStdOutputs
    \/ Refresh
    \/ Tick

Spec == Init /\ [][Next]_vars
-----------------------------------------------------------------------------
(***************************************************************************)
(* Properties.                                                             *)
(***************************************************************************)

\* Every variable has its shape.
TypeOK ==
    /\ \A s \in Send :
          /\ st[s].pc \in {"idle", "mtp", "fee", "push", "ok", "none", "builder", "balance", "guard",
                           "refused", "timeout", "unfetched"}
          /\ work[s] \in {"none", "posted", "sent", "over"}
          /\ st[s].pc = "push" => work[s] # "none"
          /\ work[s] # "none" => st[s].tx # NoTx
    /\ \A c \in coins \cup listed \cup scanned :
          /\ c.value \in Nat /\ c.lock \in Nat
          /\ c.benefactor \in BOOLEAN /\ c.beneficiary \in BOOLEAN
    /\ wall \in 0 .. MaxTime /\ mtp \in 0 .. MaxTime + 1

\* what is paid to some addresses
PaidTo(outs, A) == SumOf([i \in DOMAIN outs |-> IF outs[i].to \in A THEN outs[i].value ELSE 0])

\* A transaction the network has taken pays the receiver what was asked, the
\* miner at most what the quote allows for, and the rest to the wallet; a
\* PROTECT_OP costs its gross value and the quoted fee, no more, and less only
\* by the padding of the change.
PaysExactly ==
    \A s \in Send : st[s].tx \in accepted =>
        LET tx == st[s].tx
            q == st[s].q
            gross == tx.outs[1].value + tx.outs[3].value + tx.outs[5].value
        IN  IF q.hours > 0
            THEN /\ Fee(tx) \in 1 .. st[s].quoted
                 /\ gross \in st[s].value - P_OP_DUST .. st[s].value
            ELSE /\ Fee(tx) \in 1 .. 2 * st[s].quoted + 1
                 /\ q.to \notin Own => PaidTo(tx.outs, {q.to}) = st[s].value
                 /\ PaidTo(tx.outs, {q.to} \cup Own) = Paid(tx.outs)

\* While a send waits for the rates, the marks it took with the wallet's addresses
\* tell the PROTECT_OP coins of its view exactly, whatever the scan and the
\* refreshes have done meanwhile: what it then makes spends none of them, and
\* holds back no other, and a claim spends only the coins it was for.
ProtectedKept ==
    \A s \in Send :
        /\ st[s].pc = "fee" => \A c \in st[s].view : Standard(c) <=> c.id \notin st[s].marks
        /\ st[s].tx # NoTx =>
              \A c \in st[s].tx.ins : IF st[s].q.claims THEN c.id \in st[s].q.claim ELSE Standard(c)

\* a coin the wallet left to itself, whose lock is not over
LockedToSelf(c) == c.benefactor /\ c.beneficiary /\ c.lock >= mtp

Unspoilt(s) == work[s] = "posted" /\ \A c \in st[s].tx.ins : \E d \in coins : d.id = c.id

\* What the worker is given to broadcast the network takes, unless an input is
\* spent: its lock time is final and suits every PROTECT_OP input, the redeem
\* scripts are the right ones, and the fee relays. Claims of coins the wallet
\* left to itself and whose lock is not over are the exception.
PostedIsTaken ==
    \A s \in Send :
        Unspoilt(s) /\ (\A c \in st[s].tx.ins : ~LockedToSelf(c)) => Valid(st[s].tx)

\* "lists all claimable p_op tx's: benefactor any time" (wallet-claimable.js:24):
\* a claim that is posted the network takes. It is not so where the wallet is
\* the beneficiary too: such a coin is listed at once, and spent as by the
\* beneficiary, with a lock time that is not final.
ClaimsAreTaken == \A s \in Send : Unspoilt(s) /\ st[s].q.claims => Valid(st[s].tx)

\* The guard refuses nothing the builder makes from coins that cover the value
\* and the quoted fee, except for a fee rate below the minimum or a fee above a
\* cap: change, leftovers, payments to oneself and PROTECT_OPs are as it expects.
GuardAgrees ==
    \A s \in Send : st[s].pc = "guard" =>
        LET tx == st[s].tx
        IN  \/ Total(tx.ins) < st[s].value + st[s].quoted
            \/ ~RateOk(tx)
            \/ Fee(tx) > MaxFeeSats
            \/ Fee(tx) > MaxFeeSatVb * SizeOf(tx.ins, tx.outs)

\* A PROTECT_OP the network has taken is one the scan recognises, with the lock
\* time of its script: otherwise its coin would be lost to the wallet.
Recoverable ==
    \A tx \in accepted : tx.cltv # 0 => Recognised(tx) /\ ReadBack(tx.data) = tx.cltv

\* A caller is told of success only for a transaction the network has taken.
ToldTruth == \A s \in Send : st[s].pc = "ok" /\ st[s].tx # NoTx => st[s].tx \in accepted

\* A PROTECT_OP with valid parameters is never refused by the builder.
ProtectOffered ==
    \A s \in Send :
        LET q == st[s].q
        IN  st[s].pc = "builder" =>
            ~(/\ q.to \in Own /\ q.value >= P_OP_MIN_GROSS /\ q.hours <= MaxHours
              /\ wall + Larger(q.hours, EstimateHours) < IntLimit)
=============================================================================
