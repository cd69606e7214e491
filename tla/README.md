# A TLA+ verification of Atemu

Atemu is the back end of a game on Starknet: users earn points by *blitzing*
(minting as fast as they can), stake points in *fuel pools* from which a winner
is drawn, and win cards.  The chain is the authority; the back end follows it,
keeps documents in MongoDB, and calls contracts.  This directory holds TLA+
modules of its core, the TLC runs that check them and theorems with proofs that
TLAPS checks.  Paths below are relative to `packages/`.

## 1. The system

Four processes share one MongoDB and one Redis (Bull queues).

    Starknet --RPC--> onchain-worker --seven Bull queues--> onchain-queue
                           |                                 |   |
                       blocks coll.       users, fuelpools, joinfuelpools,
                                          cards, historytxes     |
                                                 |       fetch-metadata queue
                        api-service <------------+               |
                        (HTTP, websockets, crons)        offchain-worker --> IPFS

| Component | State | Operations | Interacts by |
|---|---|---|---|
| **Block pipeline** `onchain-worker/src/OnchainWorker.ts`, `shared/BlockedQueue.ts` | `currentBlock`, `pendingBlock`, `blockNumberBuffer`, `blockDataBuffer` | three endless loops: ask for the head and put numbers; fetch a batch of blocks; process a block | shared memory between loops; RPC with timeouts |
| **Block detection** `onchain-worker/src/blizt/block-detect.service.ts` | `blocks` collection, locals of `process()` | `init` (where to go on), `fillBlockDataBuffer`, `process`, `processTx` | MongoDB; adds events to queues |
| **Queue service** `onchain-worker/src/queue/onchainWorkerQueue.ts` and the processors of `onchain-queue` | the Bull queues | `add` (waits for room), `detect…` (ten attempts, then the event goes back to the queue) | Redis |
| **Event consumers** `onchain-queue/src/queues/{point,fuel,cards}`, `onchain-queue/src/userpoints` | users' points, pools, stakes, cards, history | one handler per event kind: add, transfer, create pool, join pool, claim reward, mint, transfer card | MongoDB; RPC for the points of a user and for unknown pools; the metadata queue |
| **Event decoding** `web3/src` | none | receipt to events (`getReturnValuesEvent`), one decoder per kind | called by the worker |
| **Fuel draw** `api-service/src/fuel` | `currentPool`, `currentJoinedPool`, `isFinishedSetWinner` | cron jobs: follow the current pool, draw and publish the winner; signing of a claim | MongoDB, RPC, websockets |
| **Blizt** `api-service/src/blizt` | the connected clients and their status | start, stop, disconnect; a loop of mints per client | websockets, RPC |
| **Wallet, auth, user** `api-service/src/{wallet,auth,user}` | payer addresses, nonces, RPC lists | create, deploy, execute; sign in; configure | HTTP, RPC |
| **Metadata** `offchain-worker/src/metadata` | cards' metadata, collections' attributes | one processor | the metadata queue, HTTP to IPFS |
| **Leaderboard, admin, system, shared, shells** | none of their own | queries, helpers, wiring | |

### What is hard here

*Concurrency.*  The three loops of a worker interleave at every `await` and share
two buffers and `pendingBlock`.  Up to 70 consumer jobs (seven queues, ten jobs
each) read, change and write the same documents without transactions.  Cron jobs
and requests of the API interleave in the same way.

*Failure.*  RPC calls time out or answer from an older state; saves fail; a
process dies between queueing events and recording that it has.  The answer is
to repeat, so almost everything must tolerate repetition, and some of it does not.

*Order.*  One queue per event kind: the order of the chain is lost between kinds.
A block is seen several times: as pending, and later as accepted.

### What makes each component correct

- *Pipeline*: the blocks reach `process()` in the order of their numbers, each
  once, none left out, none nearer to the head than `delayBlock`; and they do
  get there.
- *Detection*: what the collection marks as done has been queued; an event is
  queued twice only if something went wrong; after a crash the worker goes on
  where nothing is left out; every block is recorded in the end.
- *Queue*: the queue stays bounded although its length is checked before an
  await; on its ways back into the queue no event is lost but by an add that
  failed, and none is doubled but by a death; every other event is handled although
  the queue is always full.
- *Consumers*: a document shows what the handled events make it.  It does not
  always, since handlers are read-modify-write: the property worth having names
  every cause and excludes all others.
- *Draw*: one winner per pool, chosen once among those who staked in it, when it
  is over; but for causes that can be named.  The next pool is always created.
- *Blizt*: whoever is minted for can stop it; a client said to be working is
  worked for; a stopped loop ends.
- *Wallet, auth, user*: the payer a user is given is the one that is used; a
  signature is used up by its token; the limit of RPCs is overrun by no more than
  the requests under way.
- *Decoding, metadata*: each log that tells of something leaves its record; each
  card gets its metadata; no attribute is lost.  Each of these has exceptions, and
  again the property names them all.

The hazards, each with its line and the properties that cover it, are in
`PROJECT.json`.

## 2. The modules

### OrderedBlocks: what a worker promises

`head`, `first` (the block it starts at) and `done`.  Two actions: the chain
grows; the lowest block not yet handled, if deep enough, is handled.  No buffer,
no batch, no request.

### OnchainWorker: the pipeline

One action for each stretch of code between two awaits.

| Code | Model |
|---|---|
| `fetchBlockNumber`: `getBlock('latest')`, or a timeout | `FetchLatestBlock`, `FetchTimeout`; the answer may be `RpcLag` blocks old |
| … `put` of the numbers up to the head or the room left, then `'pending'` | `PutNumbers` with `PutCount`, `PendingPut` |
| `fetchBlockData`: `takeAll(maxBatchSize)`, kept in `blocks` across failures | `TakeBatch` |
| … `fillBlockDataBuffer`: all blocks at once, the pending one filed under `pendingBlock` | `FillBlockDataBuffer`, `groupByBlock` |
| … `put` of the ordered blocks, as many as there is room for | `PutData` |
| `processBlocks`: `take`, `process`, repeated until it succeeds | `TakeData`, `ProcessDone` |

The state is the class's fields, the locals that live across an await
(`latestBlock`, `blocks`, `data`, `current`) and history variables: `done`,
`lost` (accepted blocks that the pending block of their batch replaced), `asked`
(the head when a batch was requested).  External: `NewBlock`, the chain.

A loop that finds nothing to do waits a moment and looks again; this is a step
that changes nothing.  A failed `fillBlockDataBuffer` or `process` is one too.

### BlockDetect: process() and init()

Extends `OnchainWorker`: `process()`, one step there, is a program here
(`ProcessBegin`, `EnqueueEvent`, `TxDone`, `TxFailed`, `SliceDone`, `Save`,
`SaveFailed`), running while the other two loops move `pendingBlock`.  `blockdb`
is the collection and `jobs` counts how often each event was queued; both
survive `CrashRestart`, which is also `init()`.  `stale` and `misfiled` are
history: numbers marked from a pending view, and pending views filed under
another number than their own.  `BlockAssumption` says of the chain that a
transaction is in one block of it, once, and that the head a worker may start at
(`InitHead`) is one the chain gets to.

### QueueBackpressure: one Bull queue

An event arrives, `add()` finds room (`FindRoom`) and adds (`Add`) in two steps
with an await between, or throws (`AddThrows`): the queue may have the job even so.  A
job is taken, and then succeeds, or throws before the `try` so that Bull itself tries
it again (`LookupFails`), or fails ten times and adds its event again.

That add is not awaited (`BliztPoint.processor.ts:36`), and is three steps here:
`AddAgain` calls it and lets the processor return (`returning`, `readding`); it
lands in the queue (`AddAgainLands`) or is rejected (`AddAgainRejected`), and Bull
records the job as complete (`Finish`) before or after.  `Dies` ends the processor's
process, with the adds under way: jobs not recorded complete are `stalled` until Bull
finds them (`FindStalled`) and hands them out once more.  History: `failed` (events of
an add that threw, was rejected or was cut off), `outrun` (jobs complete before their
event was in the queue again), `repeated` (jobs handed out again though they were
done), and `deaths`.  Redis and Bull are external.

### Ledger: the consumers

Every handler is a program of awaits (`Program`), and each await an action; any
number of jobs interleave.  `chain`, chosen among `Chains`, is the list of events in the
chain's order, each delivered by its own job; `Mine` makes the next one happen, so that a value
read from the chain (`AskChain`) may already contain events that no job has
handled.  `Fail` throws between any two awaits and the job starts over;
`Redeliver` repeats a whole job (`DuplicatesHaveCause` says when the worker does
that).  The documents are `points`, `pools`, `stakes`, `cards`, `history`,
`metadata`.

Whether a document is right cannot be read off the documents alone, so history
variables name every cause of a difference: `lost` (written from a copy that had
changed), `doubled` (written, then started over), `guessed` (taken from the
chain while events about it were outstanding), `late` (cards: an event after a
later one, or before the sender's card exists), `ignored` (the pool was not
known), `rejected` (refused by the unique index).  The properties say that a
document with none of these is exactly the sum of the events handled.  What makes a
write a `lost` one is in `held`: the documents a job has read, each with whether it is
still as the job read it (`Hold`, `Wrote`).  Of a card sent to its owner a job reads
the document twice and writes it twice: reading it again does not make the first copy
a fresh one, and the second write overwrites the first.

A card document is filed under the contract *as the event wrote it* (`FiledCards`,
`Written`): a claim writes it in decimal, a mint and a transfer in hexadecimal
(`web3/src/decode.ts:157`, `:180`).  A card that was won and the same card that was
minted are two documents, each with its own account, and the unique index, which names
the contract, refuses a claim only next to a claim and a mint only next to a mint or a
transfer (`Refused`).  A card that was won and is passed on has no document to take
from, which is one way of being `late`.

Left out: the collection document of a card, payment tokens, the names and times
that no handler decides on.  The points asked from the chain are the sum of all
events that have happened; the contract itself is external.

### FuelDraw: the cron jobs of the fuel pools

Four jobs: `handleInit`, the one that follows the newest pool, the one that
follows its stakes, and the draw.  `pc` says what each waits for, `mem` holds the
answer it will get: a query sees the collections when it is sent and is answered
at any later time, so that the answers of two jobs may cross.

| Code (`api-service/src/fuel/fuel.service.ts`) | Model |
|---|---|
| `handleInit`, `sendAllCurrentPool`: ask for the newest pool; take it, or not | `AskPool`, `PoolFound`, `PoolIgnored` |
| `handlUpdatePool`, `handleUpdateJoinedtPool`: replace the pool, ask for its stakes, replace them | `HandlUpdatePool`, `StakesFound` |
| … the query of either throws: the pool has been replaced, its stakes have not | `QueryFails` |
| `getCurrentJoinedPool`: compare the sum of the stakes first | `AskTotal`, `TotalFound` |
| `handleSetWinner`: take the flag, ask for the time, compare with `endAt` | `DrawBegin`, `TimeFails`, `DrawTime` |
| … the loop: draw a winner and store it, or not | `SetWinner`, `StoreWinner`, `WinnerStored`, `NoDraw` |
| … have the contract create the next pool, wait for it, read it | `CreatePool`, `NotEndYet`, `PoolCreated` |
| … the `catch` of the loop | `LoopThrows` |

External: the contract's pools and their end (`created`, `over`), and the
documents, which the consumers of `Ledger` make some time later (`IndexPool`,
`IndexJoin`).

The code checks the end of the pool once and reads `currentPool` again after
each await, so that a pool may be drawn early or with the stakes of another.  As
in `Ledger`, history variables name the causes: `overtaken` (the pool became
current in the middle of a draw), `mixed` (another pool's stakes were kept for
it, or its own had not arrived), `unread` (the query of its own stakes threw after it
had become current, `fuel.service.ts:195`), `stale` (its copy may lack the winner of its
document).  The properties exclude every other cause.

A cron job is taken not to outlast its period, the draw excepted, whose flag
keeps the next turns out.  Left out: the sockets, the history of winners, and
the signature of a claim (which signs pool 1 whatever pool is asked for,
`fuel.service.ts:350`).

### BliztClients: start, stop and the mint loops

`sockets` is the service's list of clients, a client being numbered in the order
of the list so that `find()` is a least element (`ClientOf`, `ClientOfUser`).
Every call of `startBlizt` has a `pc`, and the locals that live across its awaits.

| Code (`api-service/src/blizt`) | Model |
|---|---|
| `handleConnection`, `handleDisconnect` | `Connect`, `Disconnect` |
| `startBlizt` up to its first await; a client that is `'started'` is refused | `StartMint` |
| … the user has no payer; a client found before starts; a new one is pushed | `NoAccount`, `StartClient`, `AskBalance`, `AddClient` |
| … the loop: the balance suffices and `execute()` is called, or `disconnectBlizt` | `Execute`, `BalanceLow` |
| … the receipt is there; `while` looks at the status | `Minted` |
| … the `catch` | `Throws` |
| `stopBlizt` | `StopMint` |
| the process ends | `Dies` |

The list is searched before the awaits and changed after them, by the socket in
some places and by the user in others, so that a second start at the same time
makes a second client.  History: `hasty` (users who did that, or have two
sockets), `thrown` (clients one of whose loops ended by an exception).

### Accounts: what the API service keeps about a user

Requests of five kinds, each waiting at every database operation, any two of them
under way at once: a nonce (`AskNonce`, `FindNoUser`, `CreateUser`), a sign-in
(`Login`, `LoginUser`, `FindWallet` ... `Fee`, `Token`), a payer account
(`AskWallet`, `CreatePayer`, `MapPayer`), its deployment (`AskDeploy`, `Deploy`,
`StoreHash`, `MapBack`), and the RPC list (`AddRpc`, `CreateRpc`, `PushRpc`,
`DeleteRpc`, `PullRpc`, `DeleteRpcs`).  `Throws` ends any of them at any await.
A consumer of `onchain-queue` that makes a user, in the same collection, is one
more of them (`FindNoPoints`, `Upsert`).

The documents are `nonce`, `mapping` (the payer), `deployHash`, `rpcs`; `deployed`
is the chain.  A list of RPCs may name one of them twice, since it is checked before
it is changed: `rpcs` has each RPC with the number of its copy (`CopiesOf`), so that
the order of the list, which nothing depends on, is left out.  History: what users have been given (`issued`, `handed`), the tokens
made (`signins`), and causes: `raced` (two payers made at once), `cut`
(a deployment whose hash was not stored), `replaced` (a nonce replaced by a
request that had not seen it).

### Web3Events, Metadata, CardPath: the way of a card

`Web3Events` has no state: operators that turn a receipt into the events found in
it (`getReturnValuesEvent`, with one decoder for points and pools, one for cards)
and into those that `processTx` queues (`eventlogs`, `QueuedEvents`).  An event is
known by its place, the log and its number there: the consumers do not depend on the
order of two events.  A log is a record of what the decoders tell apart; an address is
a pair of its form and itself, because the decoders write one address in two forms.

`Metadata` is the offchain-worker: up to `concurrency` jobs, each of which reads
the collection (`LoadCard`), waits for the contract and for IPFS (`NoUri`,
`NotFetched`, `StoreMetadata`), merges the attributes into its copy (`Merge`,
one after the other: `reloadAttributeMap`) and writes the whole collection back (`StoreMap`), or fails
(`NoCollection`, `MergeThrows`).

`CardPath` composes the two with the handlers of the event consumers:
`processTx` queues the events of a receipt, a handler changes `cards` and `history` and
appends a job to `Metadata`'s, whose actions run beside it.

| Code | Model |
|---|---|
| a run of a handler that is complete: all of its writes | `HandleMintCard` (also of a claim), `HandleTransferCard`, `HandleTransferPoint` (also of a join), `HandlePoints` |
| `fuel.service.ts:132`, `:196`: the node knows no such pool, the handler returns | `PoolUnknown` |
| a run that fails after any of its writes, which stay | `FailsFirst`, `TransferPointFails`, `MintCardFails`, `SendFails`, `TransferCardFails` |
| … the event is tried or added again, or that fails too | `Fails` |
| an event delivered again | `Repeat` |

The writes of a mint are the card, the history and the request for metadata, those of
a transfer the sender's card, the receiver's, the request and the history.  The order
matters: a transfer that fails between the card and the request finds the card the next
time, and asks for nothing (`cards.service.ts:139-163`).  History: `ignored` (events of
a pool the node did not know), `lost` (events that failed and were not added again),
`cutShort` (events that made a card in a run that failed before its request).
`Metadata` is taken in by `INSTANCE` with the documents of cards for its `Cards`; the
two share `jobs`.  `ReceiptAssumption` and `AttributeAssumption` give the receipts and
the metadata the forms that the decoders and `typeOfVal` let through: a log has one of
the seven topics, a claim is of one card, a number is a number.

## 3. The runs

Run all with `tlc -config <cfg> <module>`.

| Run | States | What it shows |
|---|---|---|
| `worker` | 87 000 | `TypeOK`, `PipelineWindow`, `ProcessedWithoutGap`, `ProcessedInOrder`, that the pipeline implements `OrderedBlocks`, and `EveryBlockProcessed` |
| `detect` | 700 000 | `BDTypeOK`, `RecordedIsQueued`, `DuplicatesHaveCause`, `ResumeCovers`, `ResumeNeverFallsBack`: two transactions at once, and a crash, a failed save or a failed transaction at any moment |
| `detect_live` | 268 000 | `EveryBlockRecorded` through one of these |
| `detect_retry` | violated | `RetriedUpToMax`: see section 6 |
| `queue` | 217 000 | `TypeOK`, `QueueBounded`, `EveryEventOnce` and `EveryEventHandled` with the queue always full, and an add that throws, one that comes too late, or a death at any moment |
| `ledger` | 409 000 | `TypeOK`, `PointsExact`, `StakesExact`, `CardsExact`, `MetadataRequested` for seven chains: points added, sent and sent back; two stakes of one user; a card minted, passed on and minted again; a stake and a reward; two rewards of cards of one contract; a card minted, won and passed on; a card sent to its owner; with a failure, a repeated delivery or an unknown pool |
| `ledger_live` | 10 300 | `EveryEventDone` for the chains with a reward of a user whose document another queue has to make |
| `ledger_two_cards` | violated | `OneDocumentPerCard`: see section 6 |
| `fuel` | 739 000 | `TypeOK` with the lock, `DrawnWhenOver`, `WinnerStaked`, `DrawnOnce`, `NextPoolCreated`: a throw, of a query as well, or a restart at any moment |
| `blizt` | 365 000 | `TypeOK`, `Stoppable`, `StartedWorks`, `StoppedLoopEnds`: two connections of one user, three starts, any number of stops, exceptions and deaths |
| `accounts` | 2 200 000 | `TypeOK`, `SignatureSpent`, `NonceKept`, `PayerUsable`, `RpcsBounded`: any two requests at once, any number one after the other |
| `cards` | 172 000 | `TypeOK`, `LogsRecorded`, `CardsFetched`, `AttributesKept` for five chains of receipts: mints and transfers, cards whose attributes do not agree, a claim and a join, a batch, receipts that fail or cannot be decoded; with an event delivered again or a run that fails after any of its writes, and pools the node does not know |

### Bounds, and why they are enough

- *Pipeline*: `MaxHead` bounds the chain; it is larger than the buffers and
  batches together, so that every buffer fills up in the middle of a range,
  drains, and fills up again; the worker starts behind the head as well as at
  it.  There is no lag in this run: what holds with lag is proved (section 4).
- *Detection*: three transactions; one block has two, processed in one slice,
  one transaction has two events, so that a crash can fall between them.  A
  block is seen with no, some and all of its transactions.  `MaxFaults` bounds
  crashes, failed saves and failed transactions together by one; the properties
  count them.
- *Queue*: `queueMaxSize` 0 (any job fills the queue), two transactions adding,
  one job at a time, two attempts, three events.  `MaxFaults` bounds together, by
  one, the deaths, the adds that fail and those that come too late: each is named
  by the properties on its own.  Larger numbers are the theorems'.  The events are
  interchangeable, so that `EveryEventHandled` follows one of them.
- *Ledger*: chains of two to four events about two users, one pool and one or
  two cards: each chain is chosen so that its jobs meet in one document, since
  jobs about different documents do not disturb each other, or in the unique index.  `MaxFaults` bounds
  together, by one, the failures at any step of any job, the repeated deliveries
  and the answers of a node that knows no such pool; the index refuses an event
  once.
- *Draw*: two pools, since all that goes wrong is between a pool and the next
  one; one user who may or may not have staked in each of them, and a minimum of
  one stake: the jobs compare stakes by their sum and the loop asks whether
  there are enough of them, so that more users add no decision.  `DrawnOnce` is
  about the draw and not about the name drawn, for the same reason.  `fuel` has
  one of the faults at any moment.
- *Blizt*: one user, since users share nothing but the list; two sockets, for the
  list is searched by either, and three calls of `startBlizt`: a loop, one that
  overlaps it, and one after them.
- *Accounts*: one user, two requests under way at any time, two RPCs and a limit
  of two (5 in the code), so that the limit is reached, overrun by one, and that
  an RPC repeats; three nonces (a first, its successor, and one drawn by a request
  that overlaps) and two payers (the one given and the one kept).
- *Cards*: each chain has what meets in one record, one card or one map.  Two
  metadata jobs at once; `MaxRepeats` bounds together, by one, the events delivered
  again and the runs that fail, and pools may be unknown at any time.  With two it
  holds as well (2.8 million states, which is too long for a run of every day).

`CHECK_DEADLOCK FALSE` stands where a run really stops: no more events arrive, or
every socket is closed.

### Fairness, and why the code justifies it

- *Loops*: each is `while (true)` with a short delay, so a step that stays
  possible is taken (weak fairness).  `PutNumbers` gets strong fairness: an
  answer may time out again and again, but not every time.  Nothing is assumed
  of a crash or of the chain growing.
- *process()*: it goes on while it runs; a failing transaction is not assumed to
  fail or to succeed.
- *Queue*: `add()` looks again every millisecond and Bull hands jobs out first
  come first served: strong fairness for the event that finds room, or is
  taken, again and again.  Calls of Redis end, one way or the other, and Bull looks
  for stalled jobs (weak fairness).  A job that is tried without end succeeds at some
  time; without this assumption an event that always fails circulates forever,
  in the code as well.
- *Draw*: the cron jobs fire every five or ten seconds for ever, their queries
  are answered and the loop of a draw goes on (weak fairness of each job); the
  indexer gets to a pool that exists.  No pool need end and nobody need stake.
- *Blizt*: a call in its loop goes on or ends: its await is answered (weak
  fairness of `Minting`).  Nobody need stop and nothing need throw.
- *Ledger*: a job that can take a step takes one (weak fairness); the chain is
  free to stop; failures are bounded.

## 4. What is proved

For every value of the constants (under the named assumptions of the modules,
which TLC evaluates in the runs), by TLAPS:

| Theorem | Statement |
|---|---|
| `OnchainWorkerProofs!TypeCorrect` | types and capacities; the chain stays longer than delay and lag |
| `OnchainWorkerProofs!WindowCorrect` | `PipelineWindow` |
| `OnchainWorkerProofs!NoGapCorrect`, `InOrderCorrect`, `DelayCorrect` | `ProcessedWithoutGap`, `ProcessedInOrder`, `DelayKept` |
| `OnchainWorkerProofs!NothingLost` | `OnlyLagLoses` |
| `OnchainWorkerProofs!Refinement` | with `RpcLag = 0` the pipeline implements `OrderedBlocks` |
| `QueueBackpressureProofs!TypeCorrect`, `BoundCorrect`, `OnceCorrect` | `TypeOK`, `QueueBounded`, `EveryEventOnce` |
| `BlockDetectProofs!TypesCorrect`, `RecordedCorrect`, `DuplicatesCorrect` | `BDTypeOK`, `RecordedIsQueued`, `DuplicatesHaveCause` |
| `BlockDetectProofs!ResumeCorrect` | `ResumeNeverFallsBack`, if the chain has reached `BeginBlock` (`ChainReachedBegin`) |
| `BlockDetectProofs!CoverCorrect` | `ResumeCovers`, with `RpcLag = 0` |
| `FuelDrawProofs!TypeCorrect`, `OverCorrect`, `StakedCorrect`, `OnceCorrect` | `TypeOK`, `DrawnWhenOver`, `WinnerStaked`, `DrawnOnce` |
| `LedgerProofs!TypeCorrect`, `MetadataCorrect` | `TypeOK`, `MetadataRequested` |
| `LedgerProofs!PointsCorrect`, `StakesCorrect`, `CardsCorrect` | `PointsExact`, `StakesExact`, `CardsExact` |
| `BliztClientsProofs!TypeCorrect`, `StartedCorrect`, `StoppableCorrect` | `TypeOK`, `StartedWorks`, `Stoppable` |
| `CardPathProofs!TypeCorrect`, `FetchedCorrect`, `HistoryCorrect`, `AttributesCorrect` | `TypeOK`, `CardsFetched`, `LogsRecorded`, `AttributesKept` |
| `AccountsProofs!TypeCorrect`, `SignatureCorrect`, `NonceCorrect`, `PayerCorrect`, `RpcsCorrect` | `TypeOK`, `SignatureSpent`, `NonceKept`, `PayerUsable`, `RpcsBounded` |

*Pipeline.*  `PipelineWindow` is nearly inductive; `WindowInv` adds what it
leaves open.  `OneBatch`: `data` is what is left of the batch `blocks`, so that
the two never hold different numbers.  `Deep` and `AnswerDeep`: numbers put, and
an answer not used yet, are at least `DelayBlock` below a head that only grows.
`HeadInv`: the head stays above delay and lag, so that no latest number is
negative.  The lemmas before it say what the queue operations (append, the first
`n`, the rest, the head) do to the numbers of a queue and to their order; each
action then needs one step for the order and one for the set of numbers.
`ProcessedWithoutGap` and `ProcessedInOrder` follow: done numbers lie below all
others, and nothing between is missing.  For `NothingLost` the question is
whether a batch may hold a number equal to `pendingBlock`; `FreshInv` says that
with answers that never go back `currentBlock` does not pass `pendingBlock`, so
the pending block is filed above all numbers put before it.  The refinement
combines both: the block that `ProcessDone` adds to `done` is the lowest not
done.

*Queue.*  A job moves from adder to queue to processor and back; what `QueueBounded`
adds up is one sum (`Load`) that only `FindRoom` and `Dies` raise.  `FindRoom` requires
a queue of at most `queueMaxSize`; the adders are at most `Callers`, the processor's
jobs at most `concurrency`, and a death leaves as many `stalled` ones behind
(`StalledFew`).  An event that is being added again still has its old job
(`ReaddingReturns`), unless that was complete before: those are not counted.  `SizeInv`
says so, together with the finiteness of the sets, without which cardinalities mean
nothing.  `EveryEventOnce` is inductive with `ReturningArrived`: each action moves one
event from one place to the next, or names it as `failed` or `repeated`; a death moves
all of the processor's.

*Detection.*  The invariant of the pipeline is proved again over this module's
actions: `process()` is one step there and many here, of which the last alone moves
what that invariant is about, and a restart establishes it anew (`WindowRestart`).
`BDInv` adds that the pipeline and the collection hold blocks of the chain
(`PipelineKnown`, `CollectionTypes`), what `process()` has in hand (`ProcessTypes`)
and what its attempts leave behind (`Attempts`).  `RecordedIsQueued` needs
`SentQueued`: the events counted by the attempt under way, and those of marked
transactions, are queued.  `DuplicatesHaveCause` is a budget, `JobsBounded`: an event
has been queued at most once for each failure and crash, and once more for each of
its *homes*, the numbers under which its transaction is marked or counted right now;
a failure takes a home away, and adds one to the failures.  `MarksKnown` says that
`process()` knows what the collection marks, and `Origins` that a number has the
transactions of its own block or of one misfiled under it, so that an event without
misfiled blocks has one home.  `ResumeNeverFallsBack` follows from `BeginKept`: no
number below `BEGIN_BLOCK` is ever in the collection.  Without `ChainReachedBegin` it
is false, as TLC shows with a chain that starts lower: the views of pending blocks
are then recorded below `BEGIN_BLOCK`, and the next start falls back to them.  The
default of `shared/configuration.ts:36`, 70000, is a block of the past.
For `ResumeCovers`, `AcceptedWhole` says that an accepted block in `process()` is
filed under its number with all its transactions, and `Behind` that a number behind
this run is complete, or below one marked from a pending view (`stale`).  With lag an
accepted block may be lost and its number be marked by a later one, so the theorem is
about `RpcLag = 0`, as the run is.

*Cards.*  `PathInv` is what the others stand on: every document and job is of a card
that exists, the events are those of detected transactions, and the jobs, a sequence
that `Metadata` rewrites in each step, stay one of records with their cards (`JobsInv`;
`Moved` says of a step that it moves one job to another `pc`).  Complete or not, the run
of a handler does one of two things, with a card (`MakesCard`) or without (`MakesRecord`),
and keeps all events among those `Queued` once (`Runs`): `RunStep` is the one lemma about
the handlers.  The lemmas on the
decoders say which events are at the places of a log.  `CardsFetched` is inductive with
`CardsClaimed`: a card whose contract is in the other form is that of a claim, with
`HandledMade`: a mint that was handled has made its card, so that one that fails and is
`cutShort` with a new card has not been handled; and with `CutShortMade`.  A mint that
was cut short is excused until it is handled, which appends the job (`ExcusedByRun`).
`LogsRecorded` follows an event from its log to its record: what was queued of a detected
transaction is still in its queue, handled or dropped (`AllQueued`), an event handled has
a record at its key (`HandledRecorded`), and a record at a key is that of some event
queued with the same transaction and index (`RecordsOfLogs`), whatever the order, the
repetitions and the failures were; events with the same index are of the same log (`EventOfLog`), and a log that leaves
any history has one (`LogIsQueued`).  `AttributesKept` needs `KeptInv`: a card whose job
is done is covered by the map and by the copy of every job at work, unless it is among
those that job has `missed`.  When a job stores its copy, `ReloadFacts` says that the new
map covers its own card and all that the copy covered.  That is a fact about a loop, and
proved without induction: `Merge` loses nothing (`MergeFacts`), and the least number of
merges after which something is lost would make the last of them lose it.

*Ledger.*  `Known` says what each job has found on its way (`UserKnown`, `CardKnown`),
which accounts it may hold at each step (`HeldKnown`) and what the documents refer to
(`DocsKnown`).  It is inductive by itself, one lemma per action, over a table of the
programs (`Programs`, `NextSteps`).  `MetadataRequested` adds the jobs on their way to
the queue (`Requested`).  The three sums are one invariant, `Correct`: an account that
is not excused shows what the legs of the passed events add up to (`Exact`), and a job
that holds such an account has read that sum (`Right`), the hold being what says that
nobody has written since.  A step then has to account for what it does (`Accounted`):
an account it changes takes the document and the sum to the same amount, with nobody
holding it any more, or becomes excused.  `ExactStep` shows that this is enough for
all other jobs, so that each lemma is about one job alone.  What `AskChain` brings
equals the sum, and the job's own leg, because nothing else is outstanding
(`AnswerExact`).  That `Total` adds up is an induction over finite sets; it is done
with a least counterexample (`SumsExist`, `SumsAgree`), as are the sums before and
after one more leg (`TotalWithout`, `ExpectedAdd`).  The proof changed the model: with
a hold that a second reading made fresh again, `CardsExact` is false of a card sent to
its owner when another one is minted between the two readings.  TLC agrees, given that
chain of three events; `ledger` has the first two (`MCSelf`), since all three would
triple its states.

*Blizt.*  `find()` takes the first client that fits, here the least number: a set of
numbers that is not empty has a least element (`LeastNatural`).  `CallInv` says what
each call of `startBlizt` has in hand, and `StartedWorks` is proved with it.
`Stoppable` needs `StopInv`: a user who is not `hasty` has one active call
(`OneCall`) and one client in the list (`OneClient`), which is the one that call made
or found (`OwnClient`), so that a search by user and a search by socket find the same.

*Accounts.*  `IInv` gives the documents and the requests their types (`NonceTypes`,
`PayerTypes`, `RpcTypes`, `RequestTypes`) and says what a request at each await has
(`RequestOK`).  `SignatureSpent` is `NonceGone` and `TokensBounded`: the tokens of a
nonce together with the sign-ins that hold it (`Holders`) are never more than the
requests at once.  `PayerUsable` is `MapInv` and `DeployKnown`: a payer about to be
mapped is its user's first and only one (`MapAlone`), any other in hand is the mapped
one (`PayerInHand`), and so is every one that was handed out (`HandedKept`), unless
two were made at once.  `RpcsBounded` counts the list together with the requests that
have found room in it and have not pushed yet (`Bounded`, `Pushing`).

*Draw.*  `IInv` first: what each task has in hand (`TaskTypes`), that every copy is
of a pool with a document (`CopiesKnown`), that `handleInit` makes the first copy
and nobody gives it up (`FirstCopy`), and that within the loop the current pool
is over or overtook the draw (`LoopInv`).  On top of it `StakesInv` follows the
stakes from the query (`StakesInHand`) to the copy (`RightStakes`: they are the
current pool's, or still on their way) and to the winner drawn of them
(`RightWinner`); `OnceInv` says when a copy may lack the winner of its document:
between storing it and learning that it is stored.  `RightStakes` is where
`unread` is needed, for a pool whose stakes are no longer on their way since their query
threw, and the `mixed` of `DrawTime`: a draw that starts while stakes are on their way
uses those of the pool before.  Each layer is proved with the ones below it.

`DelayKept` and `OnlyLagLoses` are proved for any lag and are in no run of their
own: `worker` has no lag, and what they say there follows from the refinement.

Only model-checked: the liveness properties (`EveryBlockProcessed`,
`EveryBlockRecorded`, `EveryEventHandled`, `EveryEventDone`, `NextPoolCreated`,
`StoppedLoopEnds`), since fairness and `ENABLED` are out of the prover's reach; and the
two properties the code violates.  Every invariant and every action property of a run
is a theorem; `ResumeCovers` is one without lag, and `ResumeNeverFallsBack` one for a
chain that has reached `BEGIN_BLOCK`, which is how the runs have them.  The prover has
no induction over data: where sums, merges or minima need one, a least counterexample
stands for it.

## 5. Not modelled, and the plan

Not modelled and not planned: dependency injection, configuration, logging,
request contexts, text formats, and the queries of leaderboard, admin and system,
which change nothing.  Nor `promiseLimit`, which nothing calls, and code that is
commented out.

Left out of modelled components:

- `stop()` of the worker: to the collection it is the crash of `detect`, since
  nothing is saved on the way out.
- several chains in one process over one `blocks` collection
  (`block-detect.service.ts:186` saves by the number alone): a second worker
  squares a state space that is at its limit.
- the payment tokens of the consumers, and the collection document of a card but
  for the form of its contract.
- the sockets of the draw, the weights of its lottery and the signature of a
  claim.
- amounts in `BliztClients`: the balance is low at any measure of it, which covers
  that `blizt.service.ts:224` compares balance and fee as texts (by which 10.2 is
  less than 9.5).
- asking for a balance and withdrawing in `wallet`, which change no document.

Compositions stop at `CardPath` and at `BlockDetect` over `OnchainWorker`: the other
pairs meet in queues.  Their promise is what `BlockDetect` and `QueueBackpressure` show:
each event at least once, unless an add of it failed (`CardPath!Fails` has that), and
more than once for causes that are named (`Ledger!Redeliver`, `CardPath!Repeat`).

What could still be proved: that a receipt's events have distinct places
(`Web3Events`), which `CardPath` uses only through its own lemmas; and `ResumeCovers`
with lag, for which the numbers that lag loses would have to be named.

## 6. Where the code differs from what it says

- `detect_retry`: the comment at `onchain-worker/src/blizt/block-detect.service.ts:165`
  announces ten retries of a transaction.  The condition handed to `retryUntil`
  always holds and `processTx` catches everything, so there is one attempt; a
  transaction whose receipt is missing at that moment stays `PENDING` in a block
  that is `SUCCESS`.
- `ledger_two_cards`: the unique index of `shared/models/schema/card.schema.ts:74`
  is on `tokenId`, a field that cards do not have (theirs is `cardId`).  An owner
  can have one card per contract, as the contract is written; the run has two mints to
  one owner, of which the second is refused again and again.  So is the second of two
  rewards, which adds its points once per retry.

More differences are inside properties that hold, as a cause they name:

- The claim of a reward writes the contract of its card in decimal
  (`web3/src/decode.ts:157`), everything else in padded hexadecimal.  The card is
  filed under a contract that no collection has, apart from the documents that mints
  and transfers of it make (`Ledger`), and its metadata is never fetched
  (`CardsFetched`).
- `offchain-worker/src/metadata/metadata.service.ts:140-184` writes back the
  collection it read at the start of the job, so that jobs at once lose each
  other's attributes (`AttributesKept`).
- An event that failed ten times is added again without waiting
  (`BliztPoint.processor.ts:36` and the six like it): it is lost if that add fails
  (`EveryEventOnce`, `EveryEventHandled`, and `lost` of `CardPath`).
- A transfer that fails between the card and the request for its metadata never asks
  for it (`cards.service.ts:143-163`: `CardsFetched`, `MetadataRequested`).
- A join or a claim of a pool that the node does not know yet is dropped as if it had
  been processed (`onchain-queue/src/queues/fuel/fuel.service.ts:132`, `:196`:
  `LogsRecorded`, `StakesExact`).
