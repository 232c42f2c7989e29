---------------------------- MODULE AccountSend ----------------------------
(***************************************************************************)
(* Sends of the account assets, ETH and its tokens (txPush of sw-tx.js,    *)
(* wallet-external.js, wallet-account.js, worker-web3.js).                 *)
(*                                                                         *)
(* A send is three questions to the app worker, each awaited: the fee, the *)
(* signed transaction and its broadcast. A question's listener takes the   *)
(* FIRST answer of its kind for the asset's symbol, whoever asked: sends   *)
(* of the same asset that overlap hear each other's answers. What is       *)
(* signed is checked by the send guard before it may be broadcast.         *)
(*                                                                         *)
(* The worker numbers a transaction with the larger of the node's count of *)
(* the sender's transactions, which may lag, and the successor of the      *)
(* nonce recorded at the last acknowledged broadcast.                      *)
(*                                                                         *)
(* An amount stands for its exact units, the one padded to send all of a   *)
(* balance included; fees, which the parties do not choose, and balances   *)
(* are left out: a check of them may refuse or not. One wallet uses the    *)
(* addresses.                                                              *)
(***************************************************************************)
EXTENDS Naturals, FiniteSets

CONSTANTS
    Send,       \* bound: the calls of txPush, one per element
    From,       \* the wallet's addresses
    Ether,      \* the symbol of the chain's own coin
    Token,      \* the symbols of ERC20 assets
    Request,    \* the payments asked for: asset, from, to, value, dryRun
    NoTx        \* no transaction

ASSUME SymbolAssumption == Ether \notin Token
ASSUME RequestAssumption ==
    \A q \in Request :
        /\ q = [asset |-> q.asset, from |-> q.from, to |-> q.to, value |-> q.value, dryRun |-> q.dryRun]
        /\ q.from \in From /\ q.asset \in Token \cup {Ether} /\ q.dryRun \in BOOLEAN
ASSUME SendAssumption == IsFiniteSet(Send)

VARIABLES
    req,        \* send -> its request, once started
    pc,         \* send -> what it awaits, or how it ended
    fee,        \* send -> its question for the fee, at the worker
    sign,       \* send -> its question for a signed transaction
    push,       \* send -> its question for a broadcast
    sent,       \* address -> the successor of eth_lastSentNonce, 0 before
    accepted,   \* the transactions the node has accepted
    local,      \* what local_txs of the assets have: asset and transaction
    told,       \* send -> the transaction its caller was told
    overlap     \* two sends have been under way together

vars == <<req, pc, fee, sign, push, sent, accepted, local, told, overlap>>

NoRequest == [asset |-> Ether, from |-> CHOOSE a \in From : TRUE, to |-> NoTx,
              value |-> NoTx, dryRun |-> TRUE]

Awaiting == {"fee", "hex", "push"}

NotAsked == [st |-> "none", count |-> 0, tx |-> NoTx]

Over == [st |-> "done", count |-> 0, tx |-> NoTx]

\* a signed transaction: signatures are deterministic, so equal contents are one transaction
TxOf(q, n) == [asset |-> q.asset, from |-> q.from, to |-> q.to, value |-> q.value, nonce |-> n]

Init ==
    /\ req = [s \in Send |-> NoRequest]
    /\ pc = [s \in Send |-> "new"]
    /\ fee = [s \in Send |-> "none"]
    /\ sign = [s \in Send |-> NotAsked]
    /\ push = [s \in Send |-> NotAsked]
    /\ sent = [a \in From |-> 0]
    /\ accepted = {}
    /\ local = {}
    /\ told = [s \in Send |-> NoTx]
    /\ overlap = FALSE

UnderWay == {s \in Send : pc[s] \in Awaiting}
-----------------------------------------------------------------------------
(* The main thread                                                          *)

\* txPush: a request that passes the validation goes on to ask for the fee
Start(s, q) ==
    /\ pc[s] = "new"
    /\ req' = [req EXCEPT ![s] = q]
    /\ pc' = [pc EXCEPT ![s] = "fee"]
    /\ fee' = [fee EXCEPT ![s] = "asked"]
    /\ overlap' = (overlap \/ UnderWay # {})
    /\ UNCHANGED <<sign, push, sent, accepted, local, told>>

\* the sends whose listener takes an answer of this kind for this symbol
Hearing(kind, symbol) == {s \in Send : pc[s] = kind /\ req[s].asset = symbol}

\* GET_ETH_TX_FEE_WEB3_DONE: those it refuses end (gas price, destination, balances),
\* the others ask for the signed transaction
FeeDone(s) ==
    /\ fee[s] = "ready"
    /\ fee' = [fee EXCEPT ![s] = "done"]
    /\ \E refused \in SUBSET Hearing("fee", req[s].asset) :
         LET on == Hearing("fee", req[s].asset) \ refused
         IN  /\ pc' = [t \in Send |-> IF t \in refused THEN "err"
                                      ELSE IF t \in on THEN "hex" ELSE pc[t]]
             /\ sign' = [t \in Send |-> IF t \in on THEN [NotAsked EXCEPT !.st = "asked"]
                                        ELSE sign[t]]
    /\ UNCHANGED <<req, push, sent, accepted, local, told, overlap>>

\* mutant: the guard does not compare the receiver
BlindGuard(q, tx) ==
    /\ tx # NoTx
    /\ tx.asset = q.asset /\ tx.from = q.from /\ tx.value = q.value

\* mutant: a null answer is taken for a transaction
NullPasses(q, tx) == tx = NoTx \/ tx = TxOf(q, tx.nonce)

\* verifySignedEthTx: chain and contract, sender, receiver and value are the request's
\* (a null answer has failed before: "Failed to sign the transaction")
Guard(q, tx) ==
    /\ tx # NoTx
    /\ tx.asset = q.asset /\ tx.from = q.from
    /\ tx.to = q.to /\ tx.value = q.value

\* mutant: a dry run is broadcast
AnyPasses(t, tx) == Guard(req[t], tx)

\* of a send that hears tx: is it to be broadcast?
Pushes(t, tx) == Guard(req[t], tx) /\ ~req[t].dryRun

\* GET_ETH_TX_HEX_WEB3_DONE, GET_ERC20_TX_HEX_WEB3_DONE: every send that hears it puts the
\* transaction before the guard; a dry run returns it, another has it broadcast
HexDone(s) ==
    /\ sign[s].st = "ready"
    /\ LET tx    == sign[s].tx
           heard == Hearing("hex", req[s].asset)
           on    == {t \in heard : Pushes(t, tx)}
       IN  /\ sign' = [sign EXCEPT ![s] = Over]
           /\ pc' = [t \in Send |->
                       CASE t \in on -> "push"
                         [] t \in heard \ on /\ Guard(req[t], tx) -> "dry"
                         [] t \in heard \ on /\ ~Guard(req[t], tx) -> "err"
                         [] OTHER -> pc[t]]
           /\ push' = [t \in Send |-> IF t \in on THEN [NotAsked EXCEPT !.st = "asked", !.tx = tx]
                                      ELSE push[t]]
    /\ UNCHANGED <<req, fee, sent, accepted, local, told, overlap>>

\* WCORE_PUSH_LOCAL_TX of the transaction and, for a token, of its fee under ETH
LocalTxs(tx) == {<<tx.asset, tx>>, <<Ether, tx>>}

\* PUSH_TX_WEB3_DONE with a transaction
PushDone(s) ==
    /\ push[s].st = "acked"
    /\ LET heard == Hearing("push", req[s].asset)
       IN  /\ pc' = [t \in Send |-> IF t \in heard THEN "ok" ELSE pc[t]]
           /\ told' = [t \in Send |-> IF t \in heard THEN push[s].tx ELSE told[t]]
           /\ local' = IF heard = {} THEN local ELSE local \cup LocalTxs(push[s].tx)
    /\ push' = [push EXCEPT ![s] = Over]
    /\ UNCHANGED <<req, fee, sign, sent, accepted, overlap>>

\* mutant: the answer is not looked at
TakenAsDone(s) ==
    /\ push[s].st = "failed"
    /\ LET heard == Hearing("push", req[s].asset)
       IN  /\ pc' = [t \in Send |-> IF t \in heard THEN "ok" ELSE pc[t]]
           /\ told' = [t \in Send |-> IF t \in heard THEN push[s].tx ELSE told[t]]
           /\ local' = IF heard = {} THEN local ELSE local \cup LocalTxs(push[s].tx)
    /\ push' = [push EXCEPT ![s] = Over]
    /\ UNCHANGED <<req, fee, sign, sent, accepted, overlap>>

\* PUSH_TX_WEB3_DONE with an error
PushFailed(s) ==
    /\ push[s].st = "failed"
    /\ pc' = [t \in Send |-> IF t \in Hearing("push", req[s].asset) THEN "err" ELSE pc[t]]
    /\ push' = [push EXCEPT ![s] = Over]
    /\ UNCHANGED <<req, fee, sign, sent, accepted, local, told, overlap>>
-----------------------------------------------------------------------------
(* The worker and the node                                                  *)

\* getGasPrices: a failed estimate has a fallback, but nobody catches a failed
\* getGasPrice: there is no answer
FeeAnswer(s) ==
    /\ fee[s] = "asked"
    /\ \E st \in {"ready", "lost"} : fee' = [fee EXCEPT ![s] = st]
    /\ UNCHANGED <<req, pc, sign, push, sent, accepted, local, told, overlap>>

\* the transactions of an address the node has, pending ones included
CountOf(a) == Cardinality({tx \in accepted : tx.from = a})

\* getTransactionCount: the node that answers may lag behind the one that accepted; a
\* failure is not caught either
Count(s) ==
    /\ sign[s].st = "asked"
    /\ \/ \E n \in 0 .. CountOf(req[s].from) :
            sign' = [sign EXCEPT ![s].st = "counted", ![s].count = n]
       \/ sign' = [sign EXCEPT ![s].st = "lost"]
    /\ UNCHANGED <<req, pc, fee, push, sent, accepted, local, told, overlap>>

\* mutant: the node's count alone, as it was before
NodeNonce(s) == sign[s].count

\* getNextNonce: what was recorded is read when the count has arrived
NextNonce(s) ==
    IF sign[s].count > sent[req[s].from] THEN sign[s].count ELSE sent[req[s].from]

\* createTxHex_Eth, createTxHex_erc20: number and sign. A failure to sign answers null for
\* ETH and nothing for a token.
Build(s) ==
    /\ sign[s].st = "counted"
    /\ \/ sign' = [sign EXCEPT ![s] = [st |-> "ready", count |-> 0,
                                        tx |-> TxOf(req[s], NextNonce(s))]]
       \/ sign' = [sign EXCEPT ![s] = [st |-> IF req[s].asset = Ether THEN "ready" ELSE "lost",
                                        count |-> 0, tx |-> NoTx]]
    /\ UNCHANGED <<req, pc, fee, push, sent, accepted, local, told, overlap>>

\* the node takes a transaction that carries the sender's next nonce
Accepts(s) ==
    /\ push[s].st = "asked"
    /\ push[s].tx.nonce = CountOf(push[s].tx.from)
    /\ accepted' = accepted \cup {push[s].tx}
    /\ push' = [push EXCEPT ![s].st = "sent"]
    /\ UNCHANGED <<req, pc, fee, sign, sent, local, told, overlap>>

\* mutant: a refusal is not answered, as it was before
RefusalUnanswered(s) ==
    /\ push[s].st \in {"asked", "sent"}
    /\ push' = [push EXCEPT ![s].st = "lost"]
    /\ UNCHANGED <<req, pc, fee, sign, sent, accepted, local, told, overlap>>

\* the node refuses it, or its answer is lost and the promise rejects
Refused(s) ==
    /\ push[s].st \in {"asked", "sent"}
    /\ push' = [push EXCEPT ![s].st = "failed"]
    /\ UNCHANGED <<req, pc, fee, sign, sent, accepted, local, told, overlap>>

\* the callback of sendSignedTransaction: the nonce is recorded, not compared
Acked(s) ==
    /\ push[s].st = "sent"
    /\ sent' = [sent EXCEPT ![push[s].tx.from] = push[s].tx.nonce + 1]
    /\ push' = [push EXCEPT ![s].st = "acked"]
    /\ UNCHANGED <<req, pc, fee, sign, accepted, local, told, overlap>>
-----------------------------------------------------------------------------
Main(s) == FeeDone(s) \/ HexDone(s) \/ PushDone(s) \/ PushFailed(s)

Worker(s) == FeeAnswer(s) \/ Count(s) \/ Build(s) \/ Accepts(s) \/ Refused(s) \/ Acked(s)

Next == \E s \in Send : (\E q \in Request : Start(s, q)) \/ Main(s) \/ Worker(s)

Spec == Init /\ [][Next]_vars

\* messages are delivered; the provider answers or, after 10 s, rejects
LiveSpec == Spec /\ \A s \in Send : WF_vars(Main(s)) /\ WF_vars(Worker(s))
-----------------------------------------------------------------------------
(* Properties *)

Transactions == {TxOf(q, n) : q \in Request, n \in 0 .. Cardinality(Send)}

TypeOK ==
    LET question == [st : {"none", "asked", "counted", "ready", "sent", "acked", "failed",
                           "lost", "done"},
                     count : 0 .. Cardinality(Send), tx : Transactions \cup {NoTx}]
    IN  /\ req \in [Send -> Request \cup {NoRequest}]
        /\ pc \in [Send -> Awaiting \cup {"new", "ok", "err", "dry"}]
        /\ fee \in [Send -> {"none", "asked", "ready", "lost", "done"}]
        /\ sign \in [Send -> question] /\ push \in [Send -> question]
        /\ \A s \in Send : push[s] \notin {NotAsked, Over} => push[s].tx # NoTx
        /\ sent \in [From -> 0 .. Cardinality(Send)]
        /\ accepted \subseteq Transactions
        /\ local \subseteq (Token \cup {Ether}) \X Transactions
        /\ told \in [Send -> Transactions \cup {NoTx}]
        /\ overlap \in BOOLEAN

\* The calls that ask for the payment q.
Asking(q) == {s \in Send : pc[s] # "new" /\ req[s] = q}

Payments(q) == {tx \in accepted : tx = TxOf(q, tx.nonce)}

\* However the answers cross, a payment is made no more often than it was asked for, and
\* none that nobody, or only a dry run, asked for (listeners that take any answer of their
\* symbol, wallet-account.js, and the send guard).
NeverPaysMore ==
    \A tx \in accepted :
        LET q == [asset |-> tx.asset, from |-> tx.from, to |-> tx.to, value |-> tx.value,
                  dryRun |-> FALSE]
        IN  Cardinality(Payments(q)) <= Cardinality(Asking(q))

\* What a caller is told as done, and what the wallet shows as pending, is a transaction
\* the node has accepted (the error path of PUSH_TX_WEB3_DONE).
ShownIsAccepted ==
    /\ \A s \in Send : pc[s] = "ok" => told[s] \in accepted
    /\ \A e \in local : e[2] \in accepted

\* A transaction is given a nonce above those of the payments of its address that have
\* been reported, even by a node that does not know them yet.
FreshNonce(s) ==
    sign[s].st = "counted" /\ sign'[s].st = "ready" /\ sign'[s].tx # NoTx =>
        \A t \in Send : pc[t] = "ok" /\ told[t].from = sign'[s].tx.from =>
                            told[t].nonce < sign'[s].tx.nonce

\* It holds for sends made one after the other (getNextNonce).
FreshNonces == [][~overlap => \A s \in Send : FreshNonce(s)]_vars

\* "max(node 'pending' count, last nonce this worker broadcast from the address + 1)": for
\* sends that overlap, the nonce recorded may be one before the last (worker-web3.js:475).
LastNonceRecorded == [][\A s \in Send : FreshNonce(s)]_vars

\* Every send is answered, unless the worker got no gas price or count for it: the error
\* paths of the broadcast all answer ("previously missing", worker-web3.js).
Answered ==
    \A s \in Send : pc[s] \in Awaiting ~>
                        pc[s] \notin Awaiting \/ fee[s] = "lost" \/ sign[s].st = "lost"
=============================================================================
