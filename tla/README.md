# A TLA+ model of the Scoop wallet

This directory is a verification project for the wallet in `src/`: TLA+ modules translated
from its code, TLC configurations that check them on small instances, and theorems whose
proofs the TLA+ proof system (TLAPS) checks. It says what has been modelled so far, what the checks
and proofs show, what they found, and what is left.

`PROJECT.json` is the index: components, runs, the lines each definition stands for, the
mutations that show each property can fail, findings, hazards and theorems.

    tlc -workers 2 -config MCBlockbookSocket.cfg MCBlockbookSocket     model-check
    tlapm BlockbookSocket_proofs.tla                                   check the proofs

## 1. Inventory

The wallet is one Redux store and the code around it: a browser build, and a command-line
server (`svr-wallet/`) that uses the same actions. All of it is single-threaded per thread;
the work that waits for the network is done in an "app worker" (a web worker, or a node
worker thread) that exchanges messages with the main thread through one ordered channel each
way.

    main thread                                    app worker
    svr-wallet/*, actions/*, reducers/*            app-worker/*
      keys, sends, loading, store     -- post -->    refreshes, pushes, monitors
      appWorkerCallbacks              <-- post --    batches, results, notifications
                                                       |  one websocket per asset symbol
                                                     Blockbook / geth / prices / exchange

Within a thread a handler (a message, a timer, a socket event, the continuation of a promise)
runs to completion. What interleaves is handlers: an action of the model is a handler, or the
part of one between two waits.

| Component | State | Operations | Interacts with | Must hold |
|---|---|---|---|---|
| Blockbook sockets (`worker-blockbook.js`, `-ws.js`) | per symbol: slot, next id, socket objects, each with its pending map, timers and heavy limiter | setup, disconnect, open, close, send, reply, timeout | every fetch of the worker; the server | a callback called once, with its own reply or an error; no slot of the limiter leaked; nobody left unanswered |
| Address monitors (`worker-addr-monitor.js`) | registration, its subscription id, the promise of the last unsubscribe, subscription map | register, unregister, re-subscribe on open, acknowledge | sockets; the server's one subscription per connection | the server's subscription is the registered one; its callback is there |
| Refreshes and the store (`worker.js`, `worker-external.js`, `reducers/wallet.js`) | addresses (txs, balances, error), `local_txs`, `lastAssetUpdateAt` | full and light refresh, batches, block and address notifications | sockets, sends, loading | late batches lose nothing; nothing is counted twice |
| UTXO sends (`wallet-external.js`, `wallet-utxo.js`, `wallet-btc-p2sh.js`, `wallet-btc-sendguard.js`, `worker-pushtx.js`, `sw-tx.js`, `sw-claimable.js`) | snapshot of the asset, listeners by request, PROTECT_OP marks of the scan | fee query, select, build, guard, push, look up, claim, scan | store, refreshes, the network | the receiver gets what was asked and the fee is bounded; protected coins stay; what is posted is taken; a reported payment stays visible |
| Loading (`actions/wallet.js`, `sw-functions.js`, `worker.js`) | socket slots, abort flag, pending assets, retries | connect, poll sockets, load, retry, log out | refreshes, sockets | a login that is logged out goes no further; one that is not ends with every asset attempted |
| Keys and addresses (`wallet-shared.js`, `wallet.js`) | encrypted raw assets, displayable assets | generate, delete, import, remove, protect, load | persistence, monitors | both views agree; no key lost or duplicated |
| Persistence (`sw-file-persist.js`, `sw-server-persist.js`, `sw-create.js`, `sw-keys.js`) | current file, saved snapshot | create, load, save | keys, exchange | what a load restores is what was saved |
| Account sends (`wallet-account.js`, `wallet-eth-sendguard.js`, `worker-web3.js`) | last nonces, listeners by message and symbol | fee query, build, guard, push | store, the node | nobody pays another's payment; what is shown was accepted; nonces are not reused |
| Account history (`worker-account.js`) | list cached by height, fetches in flight, transaction database | refresh, enrich, fall back to the node | sockets, store | what is kept for good is mined; waiters have a fetch; a refresh lists what there is |
| Geth sockets (`worker-geth.js`) | slot, sockets, blocks seen | open, close, new block | loading, refreshes | reconnected; what the Geth sockets tell of a block refreshes once |
| Exchange (`exchange.js`, `sw-asset.js`, `user-data.js`) | a record per asset, polls | convert, poll, load | sends, user data, the service | one conversion of an asset at a time; an end is noticed |
| Mempool scan, Insight, prices, command line | little or none of their own | | | |

Hard behaviours, all listed with their line under `hazards`: handlers of replaced sockets that
run after their successor is in use (ids restart at 0 on each); timers that race replies;
a limiter whose slots come back from replies, timeouts and closes; requests of one refresh
between which the chain moves; refreshes that overlap and are applied over a store that has
moved on since their snapshot; a send's answer before or after the refresh that lists its
transaction; one address of several, or one transaction of several, that fails; an
unsubscribe whose acknowledgement is late; keys written to one view and not to the other; a
save that ends after a change made while it was written; answers that are matched by message and
symbol and so reach the wrong send; a nonce that depends on an answer still under way; fetches
and lists shared by refreshes of several assets; a lock time that has to suit every input and the
chain's lagging clock; a logout between a socket's poll and its answer; a poll that outlives the
record it was started for.

## 2. Modules

### `BlockbookSocket`, and what it promises, `RequestReply`

The websockets of one asset symbol. `cur` is the slot `self.bb_Sockets[x]`, `messageID` the
next id; each socket object has its `readyState`, `pending` map, `inFlight` counter and
`queue`. Each handler is an action: `Setup`, `Disconnect`, `OnOpen`, `OnClose`, `Send` (refused,
queued or sent), `OnMessage`, `OnTimeout`. The last two call `Settle`, which stands for the whole
of what calling a filed callback does: the entry and the slot are freed and the
queue drained, in one step, as in the code. Several socket objects are alive together: one that has been
replaced keeps its timers and its close event. `RemoteClose` and the frames left on `wire` are the
environment's: a server that may answer in any order or never, and a connection that ends at
any time; a socket that is closing may still deliver what was received before.

`RequestReply` is the promise as its callers see it: each request is made once and its callback
called at most once, with the reply to that very request or an error. `Contract` says that
`BlockbookSocket` implements it (the refinement maps `submitted` and `answers` to themselves,
`INSTANCE RequestReply`).

Left out: exceptions of `socket.send` (the code treats them as a refusal), the log of late
replies, and the frames of subscriptions, which `AddrMonitor` models. A logout (`Disconnect`) empties `bb_Sockets` before its sockets would be closed
(`worker.js:253`), so that a dropped socket lives on as a replaced one does.

### `AddrMonitor`

One symbol's address subscription: a registration is one `CONNECT_ADDRESS_MONITORS`, numbered; `reg` and
`subId` are the entry of `self.bb_addrSubs`, `subs` the map from id to callback,
`unsub`/`asked` the promise of the last `unsubscribeAddresses`, `waiting` the continuations that wait
for one. `Resume` is a microtask, hence runs before any other handler (`Idle`). The
server applies the requests of a connection in any order, as the comment at `worker-addr-monitor.js:68` has observed, and
keeps one address subscription per connection (external: modelled from the comments and the use
in `worker-addr-monitor.js`). `active` is the registration it is subscribed for. `hurried` is a history variable of the properties: on this
connection the worker has sent something, or let a timer run out, without waiting for the server to apply an earlier request that matters: an unsubscribe
whose timer ran out first, an unsubscribe over anything still on its way (the code does not wait with those), a late `onopen` over an unsubscribe. `Disconnect`
drops the socket and does not close it.

### `WalletSync`

One UTXO asset of the store while refresh jobs and sends overlap. A job takes a snapshot
(`Start`, `Send`), reads each address (`Balance`, `Info`, `Fails`), and when the last one is done posts
one batch that the reducer applies (`Finish`, `Apply`): errors, then full updates that
`getAddressFull_ProcessResult` accepts against the *snapshot*, then enriched transactions, then the
reconciliation of `local_txs`. The two threads' channel is one ordered queue and the reducer runs
when a batch arrives, so posting and applying are one step. A send is `Send`, `Broadcast`, `PushDone`
or `PushFails`; `PushDone` then goes on as a full refresh with the snapshot of before the send, as
`sw-tx.js` does. A balance is the *set* of transactions it counts, which is what "counted twice" and
"counted but not listed" need; amounts play no part.

`Ledger` is what the store promises a user of it, in three variables: lists never get shorter, a
payment reported as done is pending or listed from then on, and never both. `KeepsLedger` says that
`WalletSync` implements it (`INSTANCE Ledger WITH`: `pending` is `local_txs`, `listed` the transactions of
all the addresses together, a function of the store and no variable of it).

What the details of the code give, and the model follows:
- the light refresh compares a BigNumber with the store's string by `!==`
  (`worker-external.js:123`), so it always goes on to the full fetch;
- the value of a UTXO transaction's effect is always 0 in `getAddressFull_ProcessResult`
  (`wallet-external.js:52` compares the symbol with the address object), so the last case of
  the filter accepts a batch with new transactions only if the confirmed balance has not moved
  and the unconfirmed one has;
- transactions that are confirmed in the snapshot are not fetched again.

Left out: utxos, the cap on the history, reorganisations, changes of the asset's addresses, and
the account (ETH) path.

### `KeyAccounts`

The keys and addresses of one asset. `raw` is the asset in `store.wallet.assetsRaw` (which is encrypted there:
private keys, import accounts, `importCount`), `shown` the addresses in `store.wallet.assets`, `saved` the copies in the
file and on the server. Each exported operation is an action: `Generate`, `Delete`, `Import`, `Remove`,
`AddNonStd`, `Save`; `Load` is `generateWallets`, from a copy or from nothing. On the command line an
operation is one step. In the browser it waits for `updateAssetsJsonApi` on the way: `posting` is what it
sends and what it will do afterwards, `Posted` and `PostFails` the ends of the wait, and protected addresses
found by a scan (`AddNonStd`) may come in between. `updateAssetsJsonApi` swallows its errors, so an operation
goes on whatever came of the post; the only difference the user sees is the notification "Saved Wallet" (`told`).

A derived key stands for its HD index, and a key for its address; the default account's keys are pairs
of position and index, as the order decides which key a load overwrites. `shown` is a bag: a key twice in a list
to import gives an address that is shown twice. `Eth` chooses how the next index is found and when
the default key is overwritten, `OpCltv` whether a key that is none makes the computation of its address throw.

Assumed: imported keys are none of the wallet's own derived ones; the user starts one operation at a time
(the browser's user interface is not in the repository; deletion is exported for it and has no command);
one session at a time. Left out: ERC20 assets, which copy the keys of ETH, EOS, the removal of
assets that are no longer configured, balances, and the dirty flag, which only the console's title shows
(`utils/index.js:448`).

### `AccountSend`

Sends of ETH and its tokens. A send (`txPush`) asks the worker three questions, for the fee, the signed
transaction and its broadcast, and awaits each: `pc` is what it awaits, `fee`, `sign` and `push` the state of its questions at the
worker. A listener takes the first answer of its kind for its symbol (`Hearing`; `wallet-account.js`), so `FeeDone`, `HexDone`,
`PushDone` and `PushFailed` deliver an answer to *every* send that waits for that kind and symbol, and the send guard
(`Guard`, `verifySignedEthTx`) is what stands between a transaction built for another request and its broadcast. `NextNonce` is
the larger of the node's count (`CountOf`, which may lag) and the successor of the last nonce recorded; recording it is part of `Acked`.
A dry run ends after the fee.

Left out: gas prices, replacement of a pending transaction by a higher fee, amounts and the check of the balance (it may refuse or
not), the dummy quotes of `erc20_gasEstimateMultiplier`, and other wallets that use the same address. Posting an answer and
its delivery are one step: nothing else reads what an answer carries.

### `UtxoSpend`

Sends of a Bitcoin asset with P2SH addresses, with the values in satoshis: plain payments, PROTECT_OP
outputs and claims of them. A coin has two independent roles, `benefactor` and `beneficiary`, as `scan_NonStdOutputs` sets
them: of a PROTECT_OP whose beneficiary (`heir`) is an address of its own the wallet is both, lists it as claimable at once, and spends it as the beneficiary
(`Claimable`, `LockOf`). A send works on the coins the store listed when it began, and on the marks (`isNonStdAddr`) that the wallet's addresses carried then: `Marks` is what the scan has
added by that moment, and `Candidates` goes by it, not by what a coin is. After its awaits (`Start`, `TimePast`) `Quoted` runs, in one
step as in the code: the fee quote (`Estimate`, `FeeOf`), the selection (`Candidates`, `Selections`, `Skeleton`), the outputs a PROTECT_OP adds
(`Expand`: the dev fee, the padded change, `Anatomy`), the transaction and its lock time (`MakeTx`, `LockOf`), the guard and the
post. The worker then broadcasts, looks the transaction up and answers (`NetworkTakes`, `NetworkRefuses`, `TxFetched`, `Answer`), while `Refresh` stores
coins and `ScanNonStdOutputs` adds marked addresses at any moment. `Valid` is the network's: lock times
against the median time past, redeem scripts, fee relay, inputs unspent.

Facts of the code that are numbers are constants, scaled to the instance: `FloatShort`, the fees that `Math.floor(fee * 100000000)` makes a satoshi less
(about 6% of all fees), `IntLimit`, the first lock time for which `i >> 8` is negative, `MaxHours`, the most lock hours (`0xffff`), and `EstimateHours`, those
a fee is asked for with (42, `sw-tx.js:268`). An input or output of a kind has one
size. Left out: the builders of the other coins, the variation of signature sizes, dry runs, several PROTECT_OP coins at one address, and identical sends that overlap (whose
listeners, which match by `txhex`, share an answer).

### `AccountHistory`

A job is one run of `getAddressFull_Account_v2` for ether or a token of one address: `ReadHeight`, `ReadBalance`, `TakeList` (the list cached
for that height, or Blockbook's, `AnswerList`), `Enrich` for each id, `Finish`. `cache` is `cache_bb_addressTxs`, `inflight` is `bb_txInflight`, `db`
the transaction database. A fetch asks Blockbook (`AnswerTx`, `FailTx`), then the node (`AnswerTx_web3`, `FallbackTimeout`), and `EndFetch` stores what is
final and gives it to every job that waits. A bundle is what changes in it: whether it is confirmed and whether the other party is
the wallet's own, for each asset. The server mines, the node gets new blocks, the other party's address may be imported, and up to `MaxFaults` answers fail.
Heights matter by equality only: a new block takes any height that nothing refers to, so that their number is not bounded.

Left out: balances, reorganisations, contract creations; the node and Blockbook share one chain, though they may be
a block apart.

### `Loading`

A login. `Connect` is `walletConnect`; the worker's `Tick` polls the sockets and posts what `PollPosts` says, an abort *and* a done in one tick included; `Take` is
the listener of every waiting call; `EtherLoaded`, `AllLoaded` and `Retry` are the intervals of `loadAllAssets`; a batch is one `refreshAssetsFull`
(`Fetched`, `NotFetched`, `Finish`). `Reinit` is the timer of the volatile sockets, `Logout` a `DISCONNECT_BLOCKBOOK_ISOSOCKETS` (handled in `worker.js`; nothing in `src/`
posts it, the browser's client does). The Geth sockets are modelled as a slot and the sockets alive: `onclose` of any of them forgets the slot, so
that a forgotten one stays subscribed beside its successor.

A block of ether reaches the wallet twice: from the Geth sockets (`OnBlock`, which looks the block up in `geth_BlockNos`) and from the Blockbook socket
(`OnBlockbookBlock`, which does not; the comments at `worker-blockbook.js:675` and `websockets.js:70` call it a duplicate). Either posts the same refresh of ether and of every token, which
`STATE_RESPONSE` carries out only when the wallet is loaded (`RefreshesOnBlock`). `told` counts the Blockbook messages that found it so. A subscription
lives as long as its socket, and a logout drops a socket without closing it: `Tellers` are the one in the slot and one for each logout. A dropped socket may close later, and then
forgets the Geth slot as well, if no successor is in its own (`Close`).

Left out: what a refresh fetches (`WalletSync`, `AccountHistory`), the switch of wallets during a load, the block feeds of the UTXO coins' own sockets,
which refresh that coin once a block, and `WALLET_DISABLE_BLOCK_UPDATES`, taken as false.

### `Exchange`

Conversions of one asset. `Convert` is `assetConvert` as far as its check for a conversion in process, `Create` the waits after it, `Pushed` and `PushFailed` the answer
of `createAndPushTx`. `record` is `cur_xsTx[asset]`. A poll belongs to the conversion it was started for and is `Read`, `Unread` (no data, an error, a rejection) or waits for its `Timer`;
`Load` is `walletServerLoad`, in the session that goes on (`LoadAgain`, which may start a second poll) or in a new process (`Restart`). `overlap` and
`doubled` are history variables of the properties.

Left out: quotes and amounts, and failed posts of the user data.

## 3. Checks

| Run | Bounds | Distinct states | Shows |
|---|---|---|---|
| `socket` | 3 heavy requests, 1 cheap, cap 1, 2 sockets, ids to 1 | 79,562 | `LimiterExact`, `NoneForgotten`, `SentOnLiveSocket`, `NoOvertaking`, `Contract` |
| `socket_live` | 2 heavy, 1 cheap, cap 1, 2 sockets | 66,352 | `Answered` |
| `monitor` | 3 registrations, 2 connections, requests applied in any order | 616,881 | `ServerFollows`, `OnlyCurrentSubscribes`, `Monitored` |
| `sync` | 2 addresses, 2 transactions (one sent, touching both), 2 jobs | 110,721 | `CountedOnce`, `KnownStay`, `KeepsLedger` |
| `keys` | UTXO asset, 5 operations, 2 loads, 2 external keys (one of them invalid), lists of 1 and 2 | 141,077 | `ShownHasKey`, `KeyShown`, `GeneratedOnce`, `ImportedOnce`, `ToldIsSaved`, `LoadKeeps` |
| `send` | 2 sends, one address, ETH payment, dry run and token payment | 12,406 | `NeverPaysMore`, `ShownIsAccepted`, `FreshNonces`, `Answered` |
| `utxo` | 2 sends of 8 requests, 2 plain and 2 protected coins, 2 fee rates, 2 hours | 511,844 | `PaysExactly`, `ProtectedKept`, `PostedIsTaken`, `GuardAgrees`, `Recoverable`, `ToldTruth` |
| `history` | 2 jobs, 1 transaction, ether and a token, 3 heights, 1 fault, an import | 1,238,746 | `FinalIsMined`, `WaitedIsFetched`, `RefreshComplete` |
| `history_live` | 2 jobs, 1 ether transaction, 2 heights, 1 fault | 190,684 | `Settles` |
| `loading` | 1 login, a coin, ether, a token, 2 Geth sockets, a block, 1 logout, 1 fault | 240,278 | `GethRefreshesOnce`, `LogoutAborts`, `ConnectsUnlessStranded`, `Reconnected` |
| `exchange` | 2 conversions, 3 polls, 4 statuses, 1 load | 75,395 | `OneInProcess`, `Concluded` |
| `keys_relogin` | as `keys`, after a deletion | stops at the violation | `LoadKeepsAll` fails (section 4) |

Why these bounds are enough: with cap 1, three heavy requests put two in the queue, so that
order within it matters, a freed slot has someone to go to and someone left behind; two sockets give a replaced
socket and its successor whose ids collide; a cheap request takes the ids a heavy one does not. Three
registrations give a continuation that has been superseded, and one that has not, at
once; two connections give a re-subscription. Two jobs give every order of two
snapshots and two batches, a send included; a transaction sent from one address with change to another
gives an update of one address before the other. Five operations are two
additions, a deletion and an addition again, with one to spare, or an import, a removal and another import; two loads give
a session that writes a copy and one that reads it, and the second may be in the other environment.
Two sends of an address give every crossing of their answers, and a
payment in the token and one in ether a listener of another symbol that must not hear; three sends (751,263 states, `MCAccountSend_three.cfg`, by hand) show nothing new. The
requests of `utxo` are chosen at the code's boundaries: a leftover just below the fee and one around it, a payment to oneself, a PROTECT_OP
whose change is below dust, one that the wallet leaves to itself, one with too many hours, one whose lock time does not fit, one for a stranger, and a claim; the two protected coins have different lock times, so that a
transaction that spends both needs the later one. Two jobs share a list and a fetch, and one fault is enough to fail one of
the two servers for one of them; a second transaction takes the run beyond its time and adds no sharing. One login meets each of its points with a logout or a fault. Two conversions give a poll of the first that outlives it; three, with four polls and without `expired`, by hand, keep `OneInProcess`. The type invariants of
`AddrMonitor`, `KeyAccounts`, `UtxoSpend`, `AccountHistory`, `Loading` and `Exchange` were checked by hand on the instances of their runs, and are left out of the configurations
(add `TypeOK`, `MonitorTypeOK` in `AddrMonitor`, to `INVARIANTS`). `socket` and `socket_live` are two runs because
liveness cannot use symmetry and is checked on the smaller instance. `CHECK_DEADLOCK FALSE` in each: the
environments are bounded (requests, sockets, registrations, jobs, operations, loads), and when all have been used
the system rests.

Fairness. `socket_live` assumes only that the timers of requests fire (`WF` of `TimeoutOf(r)`),
which `setTimeout` guarantees: no reply, close event or reconnection is assumed. `monitor` assumes
that microtasks run, that the timers of an unsubscribe fire, and that the server serves what a connection
that stays open has brought, in whatever order; `Monitored` is void when the connection is lost or hurried. `send`: messages between the threads are delivered, and the provider
answers or rejects (its requests have a timeout of 10 s). `history_live`: requests are answered or time out (`FetchStep`, `JobStep`, each with a timer in the code),
blocks come, and refreshes of each asset are started again and again (every new block posts one) - strong fairness, as both jobs may be busy
at times. `loading`: intervals and timers go on, servers accept connections, a request is answered or fails; no client's action, no close and no block is assumed. `exchange`: the
10 s timer fires, and of the requests of a poll that goes on one is answered with a status in the end (strong fairness of `Read`, as the service may give no data
any number of times).

## 4. Findings

`PROJECT.json` lists one, a run that is expected to find a violation of a statement the repository makes:

- `keys_relogin`: with the default address deleted, a load overwrites the key of another one
  (`wallet.js:520`), where the comment at `wallet.js:522` says that other addresses persist. `LoadKeeps` says that nothing else is lost by a load.

Each of the following configurations also ends in a counterexample. They are run by hand
(`tlc -workers 2 -config X.cfg M`); the property is in the module, with the comment it is taken from.

| Configuration | Property | What happens |
|---|---|---|
| `AddrMonitor_reconnect` | `CallbackInPlace` | after a reconnection `onopen` files the address callback under id "0" and then deletes the entry of the previous connection's block subscription, which can be "0" too (`worker-blockbook.js:649`) |
| `AddrMonitor_concurrent` | `SubscribesAfterAck` | "subscribe only once any pending unsubscribe is acked" (`worker-addr-monitor.js:69`): only the promise of the last unsubscribe is kept (`bb_addrUnsub`): of two that are pending, one may be answered (or time out) first, and the registration that waited for it subscribes while the other is still on its way, which the server may apply last. `ServerFollows` excepts such connections as hurried |
| `MCWalletSync_loaded` | `LoadedHasData` | a transient error of one address, when another of the asset is recorded by the same batch, leaves the asset marked as loaded with an address that has neither data nor error (`worker.js:577`) |
| `MCWalletSync_block` | `InSync` | a block between an address's account info and its transactions' details stores a confirmed transaction with a balance that does not count it (`worker-blockbook.js:204`) |
| `MCKeyAccounts_load` | `Loadable` | an import refused for an invalid key has kept the keys all the same (`wallet-shared.js:444`); saved and loaded, an asset with `OP_CLTV` waits for that key's address forever (`utils/index.js:555`) |
| `MCKeyAccounts_twice` | `GeneratedOnce` | ETH takes the number of keys as the next index (`wallet-shared.js:205`), which after a deletion is in use; UTXO assets do not |
| `MCAccountSend_nonce` | `LastNonceRecorded` | of two sends that overlap the nonce recorded last may be the smaller one (`worker-web3.js:475`): with a node that lags, the next transaction reuses one |
| `MCUtxoSpend_protect` | `ProtectOffered` | the fee of a PROTECT_OP is asked for without a receiver, and computed for the developer's address (`wallet-external.js:360`), for which other wallets have no key: `wallet-btc-p2sh.js:289` throws |
| `MCUtxoSpend_heir` | `ClaimsAreTaken` | "benefactor any time" (`wallet-claimable.js:24`): a PROTECT_OP that the wallet left to itself is listed as claimable at once (`:41`), but built as by the beneficiary, with its lock time (`wallet-btc-p2sh.js:354`): until that is over the network refuses the claim |
| `MCAccountHistory_stale` | `NeverUnconfirmed` | a refresh that fetched a transaction before it was mined ends after one that has it confirmed, and turns it back; a later refresh mends it (`Settles`) |
| `MCAccountHistory_import` | `RelativeToWallet` | the database's key is the wallet's owner only (`worker-account.js:304`): a transaction cached before an address is imported stays one with a stranger |
| `MCAccountHistory_cap` | `TokensNotCrowdedOut` | the ids are cut to the cap before a token's are picked from them (`worker-account.js:146`) |
| `Loading_eth` | `Connects` | ETH or a token whose fetch fails transiently is not among what `loadAllAssets` retries (`wallet.js:148`), and blocks refresh nothing until all is loaded (`worker.js:372`): the login waits for ever |
| `Exchange_expired` | `AbortsIfInProcess` | `expired` does not end a poll (`exchange.js:336`) and is no pending status: the poll of an expired conversion goes on, writes `expired` to the record of the next, and a third passes the check (`sw-asset.js:82`) |

Met on the way and not checked as a property:

- `CountedOnce` excepts transactions whose details could not be fetched (`Flaky`): such a transaction of the wallet's own stays in
  `local_txs` while a balance stored with another transaction counts it (`worker-blockbook.js:219`).
- The fee of a payment is quoted for one output; with change its rate may fall below 1 sat/vB, and the guard refuses (`GuardAgrees` excepts it).
- A transaction lookup that answers with an error object throws (`worker-pushtx.js:39`) and the send is never answered; one that times out is told as a failure though the
  network has the transaction (`ToldTruth` is about successes).
- An abort and a done may be posted by one tick (`worker.js:223`): harmless to a single login (`LogoutAborts`), but a later call's listener takes the answer of an
  earlier one's abort. A logout empties `bb_Sockets` before it would close the sockets, so they are never closed, keep their subscriptions, and the volatile timer opens new ones.
- The branch of `pollExchangeStatus` that stores the finalised conversion and notifies the user (`exchange.js:344`) never runs, as the status has been
  written before it compares; `assetConvert` throws for an asset that never had a record (`sw-asset.js:84`); an error answer ends a poll for good, and the
  asset stays in process until the wallet is loaded again.

## 5. Proofs

TLAPS proves, for every value of the constants that satisfies the named assumptions:

`BlockbookSocket_proofs` (assumptions: `Heavy \subseteq Request`, `Cap` and `MaxId` natural, `Cap` positive,
`NoSocket` and `"error"` no socket and no request)
- `TypeCorrect`, `LimiterIsExact`: `[]TypeOK`, `[]LimiterExact`.
- `Implements`: `Spec => Contract`, the refinement of `RequestReply`.
- `Invariance`: the inductive invariant behind them. `LimiterExact` alone is not inductive: freeing a slot
  decrements a counter, and that the cardinality decreases by one too needs that the pending set is
  finite (`PendingFinite`). A reply reaches its own request only if an id stands for one request in a
  socket's pending map and on its wire (`IdsUnique`), which needs ids in use to be below the next one in the
  slot's socket (`IdsBelow`) and sockets not yet constructed to hold nothing (`UnusedEmpty`). A callback
  is called at most once because a request that a pending map or queue holds is unanswered
  (`HeldUnanswered`) and held in one place (`HeldOnce`).
- `NobodyForgotten`: `[]NoneForgotten`. The invariant it needs is that a request without an answer is in some socket's map or queue
  (`WaitersHeld`): settling one callback moves or refuses what was queued behind it, so that each of the three ways `Settle` can go (`SettleForms`) has to
  account for every request of the queue.
- `SendsOnLiveSocket`, `NobodyOvertakes`: `Spec => SentOnLiveSocket`, `Spec => NoOvertaking`, action properties that follow from `IInv` and the forms of a step.

`WalletSync_proofs` (assumptions: `Own` and `Flaky` are sets of transactions, `Touches` a function)
- `TypeCorrect`: `[]TypeOK`.
- `LocalTxs`: `[](NoOverlap /\ ReportedVisible)`, from the reducer's two rules: nothing listed is pushed,
  nothing pushed stays once listed.
- `Implements`: `Spec => KeepsLedger`, the refinement of `Ledger`: a batch maps to `List` of what it adds (`LedgerStep`), a push to `Report`, all else to
  a stutter.
- `NothingLost`: `KnownStay`.
- `Balances`: `[](CountedIsListed /\ CountedOnce)`. It is not inductive: that a batch lists what its balances count
  depends on what its snapshot already listed as confirmed and therefore was not fetched again. The
  strengthening says that snapshots list no more than the store does (`SnapshotKnown`), and a lemma
  (`BatchForms`) gives the forms an address can have after a batch.

`KeyAccounts_proofs` (assumptions: those named in the module, none of which bounds keys, lists or operations)
- `ShownCanBeSpent`: `[]ShownHasKey`. Not inductive: the addresses that will be set after a post have to have their
  keys then (`PostingHasKeys`), which nothing that may run during the post takes away.
- `ReportedIsSaved`: `[]ToldIsSaved`, since what is posted has the keys of the asset as long as the post lasts
  (`PostingIsRaw`).
- `ImportsAreDisjoint`: `[]ImportedOnce`. An older copy can be loaded at any time, so every copy has to be
  well formed (`CopiesWellFormed`), the one being posted included.
- `Consistency`: their conjunction, the inductive invariant.
- `KeysAreShown`: `[]KeyShown`, by what the command line, where an operation is one step, always shows (`CliShowsAll`).
- `Numbering`: the asset and all of its copies are numbered as generating and loading expect: no two keys of the default account share
  a position or, but for ETH, an index, and ETH's index 0 comes first (`Numbered`). It needs the next index to be unused, hence that a finite set of numbers has a greatest element.
- `KeysAreGeneratedOnce`: `[]GeneratedOnce` for every asset but ETH, for which `MCKeyAccounts_twice` shows that it fails; with `Numbering`, that no address of the default
  account is twice in what is shown or about to be (`Once`, `PostingOnce`).
- `LoadingKeepsKeys`: `Spec => LoadKeeps`, from `Numbering`: when the default address is there, the key that a load overwrites by the default one is that key itself.

`AccountHistory_proofs` (assumptions: those named in the module)
- `FinalIsTrue`: `[]FinalIsMined`. A mined view passes through a fetch, the database, a job and the store: the strengthening (`AllMined`) says of each of
  them that a confirmed view is of a mined transaction.
- `FetchesAreKept`: `[]WaitedIsFetched`, inductive with the types of fetches.
- `Invariance`: their conjunction.
- `RefreshesComplete`: `Spec => RefreshComplete`. A second invariant (`Owing`, `Owed`) follows what a job owes from the moment it reads the height: jobs that have read the same height owe
  the same, and the list cached for a height has all that is owed at it or is as long as the cap (`ListsCover`; this is where a cache that served another height would fail); what Blockbook
  says of a transaction has a view for each asset it moves (`BundlesWhole`); each id of a list is yet to be enriched, waited for, lost or seen
  (`Accounted`); and what a job need not update the wallet still has (`HadStays`). At the end of a job nothing is left to enrich or to wait for.

`AccountSend_proofs` (assumptions: the symbols and requests are well formed, the set of sends is finite)
- `ShownAreAccepted`: `[]ShownIsAccepted`; what is shown is told by an answer that follows the acknowledgement, whoever asked (`Shown`).
- `NeverOverpays`: `[]NeverPaysMore`. Answers cross, so a transaction the node accepts may have been built for another send; but a send that pushes has passed the guard, which
  compares it with the send's own request. The invariant (`Paid`) keeps an injection from accepted transactions of a payment into the sends that asked for
  it, and cardinalities follow.
- `NoncesAreFresh`: `Spec => FreshNonces`: as long as no sends have overlapped they come one after the other (`Serial`), and the nonce recorded is above all that were reported.
- `Invariance`: the inductive invariant.

`UtxoSpend_proofs` (assumptions: the placeholder addresses are none of the wallet's; rates are at least the minimum the oracle's answers are raised to; the wallet's first coins
are finitely many and told apart by their ids; coins, requests, rates and fees are arbitrary otherwise)
- `ProtectedCoinsKept`: `[]ProtectedKept`. The builder sees marks, not what a coin is, and marks, lists and snapshots are of different moments. A refresh
  lists a PROTECT_OP coin only once the scan has added its address (`ListedScanned`), the scan adds nothing else (`ScannedProtected`), and coins are told apart by their ids (`KnownInvariance`): hence the marks of a moment tell
  whatever is listed at it (`MarksExact`). A send takes both in one step and keeps them while it waits (`MarksTell`), also for a claim, which takes them anew
  after its wait for the median time; and what it then builds keeps to them (`PaymentKept`, and `ClaimKept` for a claim).
- `MarksInvariance`: the inductive invariant of that argument, which rests on the two others.
- `SuccessIsTrue`: `[]ToldTruth`. An answer reaches every listener of the same hex, so what counts is the transaction: one the worker looks up has been taken
  (`SentIsTaken`), and a send that has none yet is not listening (`NoneYet`).
- `Invariance`: the inductive invariant of these two.
- `KnownInvariance`: the one of the others, which relates a send's transaction to its request and to the coins: all coins listed, scanned or offered are outputs of what the network has
  taken, or first ones (`CoinsKnown`); a transaction is what the builder makes of its request, value and quoted fee (`Built`); the lock of a coin that is claimed, and that the wallet is
  the beneficiary alone of, is behind the median time (`ClaimsFinal`), which is at most an hour behind the clock (`Clocks`); the worker is given what the guard has passed (`Passed`), what the guard refused it
  would refuse again (`Refused`), and the network has only what the worker was given (`AcceptedPosted`).
- `ExactlyPaid`, `PostedTaken`, `GuardNeverDisagrees`, `ProtectedRecovered`: `[]PaysExactly`, `[]PostedIsTaken`, `[]GuardAgrees`, `[]Recoverable`, for any values, rates, coins and
  numbers of sends. `PostedIsTaken` excepts claims of coins the wallet left to itself whose lock is not over (`LockedToSelf`), which `MCUtxoSpend_heir` shows to be refused; one whose lock is over is covered. They rest on lemmas about what inputs, outputs and fees sum to, about the pieces a PROTECT_OP is expanded to, and about a lock time written
  to bytes and read back.

`Connection_proofs` (a connected wallet, so of `Loading` and of `AddrMonitor`; assumptions: those named in the modules)
- `LogoutsAbort`: `Spec => LogoutAborts`. The call takes the first answer it finds, and a tick may post two. Inductive is: whoever a logout has caught finds the abort at the head
  of what is posted, or nothing is posted and the abort is pending (`CaughtHearAbort`).
- `BlocksRefreshOnce`: `[]GethRefreshesOnce`: of all refreshes for a block one at most is on top of Blockbook's messages, since a block that no Geth socket has told of has none on top (`UnseenUnused`).
- `Invariance`: their conjunction, with the types it needs.
- `ServerKeepsUp`: `MonitorSpec => []ServerFollows`, for any number of registrations and connections and whatever order the server applies requests in. `ServerFollows` speaks of moments when nothing is under way; inductive is
  what holds at every moment on a connection that was not hurried (`WillFollow`): what is on its way is the last unsubscribe alone, whose promise is pending and which the registration made since waits for; or subscribes of the registered
  addresses alone; or nothing, and the server has the registered addresses unless a registration is yet to be sent. In none of them can the order matter, which is what waiting for
  the acknowledgement is for. A server without an open connection has nothing (`Silent`).
- `StaleNeverSubscribes`: `MonitorSpec => OnlyCurrentSubscribes`, in whatever order the server applies requests.
- `MonitorInvariance`: the inductive invariant.

`Exchange_proofs` (assumption: `Statuses` are statuses the service has, `"waiting"` among them)
- `OnlyOneInProcess`: `Spec => OneInProcess`. The check reads the record, and the polls write it. As long as what the property excepts has not happened (`Orderly`), a conversion
  in process is the recorded one and recorded as pending (`ProcessRecorded`), a call under way is alone and nothing is recorded as pending (`CallAlone`), and a running poll is
  alone and of the record (`PollAlone`). Each is needed for the next: a second poll would write the status of another conversion to the record.
- `Invariance`: the inductive invariant.

Every safety and action property of the passing runs is stated by one of these theorems. Model-checked only are the liveness properties `Answered` (of `BlockbookSocket` and
of `AccountSend`), `Monitored`, `Settles`, `ConnectsUnlessStranded`, `Reconnected` and `Concluded`, as liveness under fairness is out of this prover's reach, and the type invariants of
the modules whose runs do not list them: the part of a type that a proof needs is a conjunct of its invariant (`Typed`, `Shaped`).

The library's induction theorems take a predicate as a parameter, which the installed provers cannot instantiate. Facts about finite sets and sequences of any size (a greatest
index, the sum of the values of a set of coins) are proved by a smallest counterexample instead: the strict subset ordering of a finite set is well founded
(`FS_StrictSubsetOrderingWellFounded`), so that the subsets for which a fact fails would have a minimal one (`WFMin`). Sums (`Total`, `SumOf` in `UtxoSpend`) are folds of the community modules,
of which a lemma says that they add one element to the sum of the others.

## 6. What is left

The modules of the plan are written: `BlockbookSocket` over `RequestReply`, `AddrMonitor`, `WalletSync` over `Ledger`, `KeyAccounts`,
`AccountSend`, `UtxoSpend`, `AccountHistory`, `Loading`, `Exchange`. They compose by what they take from each other: all take a request to be answered
once, by its reply or an error (`RequestReply`); `Loading` takes a refresh to load an asset or not, which `WalletSync` and `AccountHistory` detail; a send of either kind
meets the store by the rules of `WalletSync`'s `PushLocal`.

To come: ERC20 assets that copy the keys of ETH, and the balances that an operation on keys overwrites after its post (`KeyAccounts`
with `WalletSync`); the switch of wallets in `Loading`; reorganisations. Theorems: that `Generate` and `Load` of ETH's keys lose and repeat only what the
findings say, and the type invariants.

Not to be modelled: the mempool scan, a filter that pushes local transactions as a send does; the P2PKH builders of scripts and signatures (external libraries, no state);
prices and user settings (last writer wins); Insight, which no asset of the default configuration uses; the command parser, configuration, and the sweep tools.
