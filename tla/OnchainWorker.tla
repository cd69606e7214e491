---------------------------- MODULE OnchainWorker ----------------------------
(***************************************************************************)
(* The pipeline of packages/onchain-worker/src/OnchainWorker.ts: three     *)
(* loops that share two bounded buffers in one process.                    *)
(*                                                                         *)
(*   fetchBlockNumber  asks the RPC node for the head of the chain and     *)
(*                     puts the numbers it has not put yet, then 'pending' *)
(*   fetchBlockData    takes a batch of numbers, fetches the blocks and    *)
(*                     puts them, ordered by number                        *)
(*   processBlocks     takes one block at a time and runs process() on it  *)
(*                                                                         *)
(* The loops interleave at their awaits; the code between two awaits is    *)
(* one action.  The chain behind the RPC node (head) is external.          *)
(***************************************************************************)
EXTENDS Integers, Sequences

CONSTANTS
  Pending,       (* the tag 'pending' among the block numbers              *)
  MaxBlockSize,  (* capacity of blockNumberBuffer                          *)
  MaxBatchSize,  (* capacity of blockDataBuffer and size of a batch        *)
  DelayBlock,    (* chain.delayBlock                                       *)
  RpcLag,        (* how far behind the head an answer of the RPC node may be *)
  InitHead,      (* heights the chain may have when the worker starts      *)
  Starts,        (* numbers init() may leave in currentBlock               *)
  MaxTxs,        (* bound on the transactions a pending block shows        *)
  MaxHead        (* bound on the height of the chain                       *)

ASSUME PendingAssumption == Pending \notin Int
ASSUME SizeAssumption == /\ MaxBlockSize \in Nat \ {0}
                         /\ MaxBatchSize \in Nat \ {0}
ASSUME ChainAssumption == /\ DelayBlock \in Nat /\ RpcLag \in Nat
                          /\ MaxTxs \in Nat /\ MaxHead \in Nat
                          /\ InitHead \subseteq Nat
                          /\ \A h \in InitHead : h > DelayBlock + RpcLag
                          /\ Starts \subseteq Nat \ {0}

VARIABLES
  head,               (* number of the newest accepted block (external)    *)
  first,              (* the value init() gave currentBlock                *)
  currentBlock,       (* the next number fetchBlockNumber puts             *)
  pendingBlock,       (* latest known number + 1; 0 while undefined        *)
  latestBlock,        (* the answer fetchBlockNumber awaits; 0 while none  *)
  blockNumberBuffer,  (* BlockedQueue of numbers and Pending               *)
  blocks,             (* the batch of fetchBlockData; <<>> when it has none *)
  asked,              (* head when the batch was requested                 *)
  data,               (* the fetched blocks by key, those still to be put  *)
  blockDataBuffer,    (* BlockedQueue of fetched blocks                    *)
  current,            (* the block in process(), as a sequence of 0 or 1   *)
  done,               (* history: accepted numbers whose process() returned *)
  lost                (* history: accepted blocks overwritten in data      *)

chain == <<head, first>>
numbering == <<currentBlock, pendingBlock, latestBlock>>
history == <<done, lost>>
wvars == <<head, first, currentBlock, pendingBlock, latestBlock,
           blockNumberBuffer, blocks, asked, data, blockDataBuffer, current,
           done, lost>>

(* A GetBlockResponse: its status, its height, and how many transactions of
   that height it shows.  The response to getBlock('pending') carries no
   number; its height is a fact about the chain that no code reads. *)
Accepted(n) == [status |-> "ACCEPTED", height |-> n, txs |-> MaxTxs]
PendingAt(h, t) == [status |-> "PENDING", height |-> h, txs |-> t]
Block == [status : {"ACCEPTED", "PENDING"}, height : Nat, txs : 0 .. MaxTxs]

(* The accepted numbers a stage of the pipeline holds. *)
Numbers(s) == {s[i] : i \in DOMAIN s} \ {Pending}
Heights(f) == {f[k].height : k \in {m \in DOMAIN f : f[m].status = "ACCEPTED"}}

freeSize(q, max) == max - Len(q)
-----------------------------------------------------------------------------
Init ==
  /\ head \in InitHead
  /\ first \in Starts
  /\ currentBlock = first
  /\ pendingBlock = 0 /\ latestBlock = 0
  /\ blockNumberBuffer = <<>> /\ blocks = <<>> /\ asked = 0
  /\ data = <<>> /\ blockDataBuffer = <<>> /\ current = <<>>
  /\ done = {} /\ lost = {}

(* External: the chain accepts one more block. *)
NewBlock ==
  /\ head < MaxHead
  /\ head' = head + 1
  /\ UNCHANGED <<first, numbering, blockNumberBuffer, blocks, asked, data,
                 blockDataBuffer, current, history>>

(* fetchBlockNumber: there is room, and the RPC node answers getBlock('latest')
   from a replica at most RpcLag behind; the answer is on its way. *)
FetchLatestBlock ==
  /\ latestBlock = 0
  /\ freeSize(blockNumberBuffer, MaxBlockSize) > 0
  /\ \E h \in (head - RpcLag) .. head : latestBlock' = h - DelayBlock
  /\ UNCHANGED <<chain, currentBlock, pendingBlock, blockNumberBuffer, blocks,
                 asked, data, blockDataBuffer, current, history>>

(* delay(9) wins the race, or the request fails: the answer is dropped and
   fetchBlockNumber starts over. *)
FetchTimeout ==
  /\ latestBlock # 0
  /\ latestBlock' = 0
  /\ UNCHANGED <<chain, currentBlock, pendingBlock, blockNumberBuffer, blocks,
                 asked, data, blockDataBuffer, current, history>>

(* Mistaken forms, one for each property: the definition that follows is replaced
   by one of them to see the property fail. *)
PutCountUnbounded == LET n == latestBlock - currentBlock + 1 IN IF n < 0 THEN 0 ELSE n
PutCountPastLatest == LET n == latestBlock - currentBlock + 2
                          free == freeSize(blockNumberBuffer, MaxBlockSize)
                      IN IF n < 0 THEN 0 ELSE IF n < free THEN n ELSE free

(* What the put loop leaves behind: the numbers from currentBlock to latest as
   far as the buffer has room; the first put that finds it full throws, and
   'pending' is put only when nothing threw. *)
PutCount == LET n == latestBlock - currentBlock + 1
                free == freeSize(blockNumberBuffer, MaxBlockSize)
            IN IF n < 0 THEN 0 ELSE IF n < free THEN n ELSE free
NumbersPut == [i \in 1 .. PutCount |-> currentBlock + i - 1]
PendingPut == IF PutCount < freeSize(blockNumberBuffer, MaxBlockSize)
              THEN <<Pending>> ELSE <<>>

(* Mistaken forms of PutNumbers: numbers that did not fit are skipped; 'pending'
   shares the number of the latest block; all numbers are put or none. *)
PutNumbersSkipping ==
  /\ latestBlock # 0
  /\ pendingBlock' = latestBlock + 1
  /\ blockNumberBuffer' = blockNumberBuffer \o NumbersPut \o PendingPut
  /\ currentBlock' = IF latestBlock < currentBlock THEN currentBlock ELSE latestBlock + 1
  /\ latestBlock' = 0
  /\ UNCHANGED <<chain, blocks, asked, data, blockDataBuffer, current, history>>
PutNumbersPendingIsLatest ==
  /\ latestBlock # 0
  /\ pendingBlock' = latestBlock
  /\ blockNumberBuffer' = blockNumberBuffer \o NumbersPut \o PendingPut
  /\ currentBlock' = currentBlock + PutCount
  /\ latestBlock' = 0
  /\ UNCHANGED <<chain, blocks, asked, data, blockDataBuffer, current, history>>
PutNumbersAllOrNone ==
  /\ latestBlock # 0
  /\ pendingBlock' = latestBlock + 1
  /\ IF latestBlock >= currentBlock /\ PendingPut = <<>>
     THEN UNCHANGED <<blockNumberBuffer, currentBlock>>
     ELSE /\ blockNumberBuffer' = blockNumberBuffer \o NumbersPut \o PendingPut
          /\ currentBlock' = currentBlock + PutCount
  /\ latestBlock' = 0
  /\ UNCHANGED <<chain, blocks, asked, data, blockDataBuffer, current, history>>

(* fetchBlockNumber, from the answer to the end of its turn (no await). *)
PutNumbers ==
  /\ latestBlock # 0
  /\ pendingBlock' = latestBlock + 1
  /\ blockNumberBuffer' = blockNumberBuffer \o NumbersPut \o PendingPut
  /\ currentBlock' = currentBlock + PutCount
  /\ latestBlock' = 0
  /\ UNCHANGED <<chain, blocks, asked, data, blockDataBuffer, current, history>>

(* fetchBlockData: BlockedQueue.takeAll(maxBatchSize), once the data buffer
   has room; the requests for the batch go out. *)
BatchLen == IF Len(blockNumberBuffer) < MaxBatchSize
            THEN Len(blockNumberBuffer) ELSE MaxBatchSize
TakeBatchDropping ==  \* mistaken: one number more is removed than taken
  /\ blocks = <<>> /\ DOMAIN data = {}
  /\ freeSize(blockDataBuffer, MaxBatchSize) > 0
  /\ blockNumberBuffer # <<>>
  /\ blocks' = SubSeq(blockNumberBuffer, 1, BatchLen)
  /\ blockNumberBuffer' =
       SubSeq(blockNumberBuffer, BatchLen + 2, Len(blockNumberBuffer))
  /\ asked' = head
  /\ UNCHANGED <<chain, numbering, data, blockDataBuffer, current, history>>
TakeBatch ==
  /\ blocks = <<>> /\ DOMAIN data = {}
  /\ freeSize(blockDataBuffer, MaxBatchSize) > 0
  /\ blockNumberBuffer # <<>>
  /\ blocks' = SubSeq(blockNumberBuffer, 1, BatchLen)
  /\ blockNumberBuffer' =
       SubSeq(blockNumberBuffer, BatchLen + 1, Len(blockNumberBuffer))
  /\ asked' = head
  /\ UNCHANGED <<chain, numbering, data, blockDataBuffer, current, history>>

(* fillBlockDataBuffer's reduce: a block is filed under its number, the pending
   one under pendingBlock as it is now; of two blocks with one key the later
   one of the batch stays. *)
BatchKeys == Numbers(blocks) \union
             (IF Pending \in {blocks[i] : i \in DOMAIN blocks} THEN {pendingBlock} ELSE {})
PendingStays(k) ==
  /\ k = pendingBlock
  /\ \E i \in DOMAIN blocks :
        /\ blocks[i] = Pending
        /\ \A j \in DOMAIN blocks : j > i => blocks[j] # k
groupByBlock(p) ==
  [k \in BatchKeys |-> IF PendingStays(k) THEN p ELSE Accepted(k)]

(* The whole batch has been answered.  The pending block is one that was being
   built at some moment since the request. *)
FillBlockDataBuffer ==
  /\ blocks # <<>>
  /\ \E h \in (asked + 1) .. (head + 1), t \in 0 .. MaxTxs :
        data' = groupByBlock(PendingAt(h, t))
  /\ lost' = lost \union {n \in Numbers(blocks) : PendingStays(n)}
  /\ blocks' = <<>>
  /\ UNCHANGED <<chain, numbering, blockNumberBuffer, asked, blockDataBuffer,
                 current, done>>

(* fetchBlockData's put loop, one key at a time in ascending order; a full
   buffer makes it wait and try the same key again. *)
PutDataUnordered ==  \* mistaken: the keys in any order
  /\ freeSize(blockDataBuffer, MaxBatchSize) > 0
  /\ \E k \in DOMAIN data :
        /\ blockDataBuffer' = Append(blockDataBuffer, data[k])
        /\ data' = [m \in DOMAIN data \ {k} |-> data[m]]
  /\ UNCHANGED <<chain, numbering, blockNumberBuffer, blocks, asked, current,
                 history>>
PutData ==
  /\ freeSize(blockDataBuffer, MaxBatchSize) > 0
  /\ \E k \in DOMAIN data :
        /\ \A m \in DOMAIN data : k <= m
        /\ blockDataBuffer' = Append(blockDataBuffer, data[k])
        /\ data' = [m \in DOMAIN data \ {k} |-> data[m]]
  /\ UNCHANGED <<chain, numbering, blockNumberBuffer, blocks, asked, current,
                 history>>

(* processBlocks: BlockedQueue.take(). *)
TakeData ==
  /\ current = <<>>
  /\ blockDataBuffer # <<>>
  /\ current' = <<Head(blockDataBuffer)>>
  /\ blockDataBuffer' = Tail(blockDataBuffer)
  /\ UNCHANGED <<chain, numbering, blockNumberBuffer, blocks, asked, data,
                 history>>

(* processBlocks: process(data) returned.  A process() that throws is run again
   on the same block, which changes nothing here. *)
ProcessDone ==
  /\ current # <<>>
  /\ done' = done \union Heights(current)
  /\ current' = <<>>
  /\ UNCHANGED <<chain, numbering, blockNumberBuffer, blocks, asked, data,
                 blockDataBuffer, lost>>

Fetching == FetchLatestBlock \/ FetchTimeout \/ PutNumbers
Filling == TakeBatch \/ FillBlockDataBuffer \/ PutData
Next == NewBlock \/ Fetching \/ Filling \/ TakeData \/ ProcessDone

Spec == Init /\ [][Next]_wvars

(* Each loop keeps running.  An answer of the RPC node may be lost any number of
   times, but not every time: strong fairness for PutNumbers. *)
Fairness ==
  /\ WF_wvars(FetchLatestBlock) /\ SF_wvars(PutNumbers)
  /\ WF_wvars(TakeBatch) /\ WF_wvars(FillBlockDataBuffer) /\ WF_wvars(PutData)
  /\ WF_wvars(TakeData) /\ WF_wvars(ProcessDone)
FairSpec == Spec /\ Fairness
-----------------------------------------------------------------------------
(* Types, and the capacities of the two buffers: put() throws instead of
   growing a full queue, and no loop gets past that. *)
TypeOK ==
  /\ head \in Nat /\ first \in Nat \ {0}
  /\ currentBlock \in Nat \ {0} /\ pendingBlock \in Nat /\ latestBlock \in Nat
  /\ blockNumberBuffer \in Seq(Nat \union {Pending})
  /\ Len(blockNumberBuffer) <= MaxBlockSize
  /\ blocks \in Seq(Nat \union {Pending}) /\ Len(blocks) <= MaxBatchSize
  /\ asked \in Nat
  /\ DOMAIN data \subseteq Nat /\ \A k \in DOMAIN data : data[k] \in Block
  /\ blockDataBuffer \in Seq(Block) /\ Len(blockDataBuffer) <= MaxBatchSize
  /\ current \in Seq(Block) /\ Len(current) <= 1
  /\ done \subseteq Nat /\ lost \subseteq Nat

(* Downstream(i): the accepted numbers that have reached stage i or gone past
   it; stage 1 is "processed", stage 6 the buffer of numbers. *)
InProcess == done \union Heights(current)
Fetched == InProcess \union Heights(blockDataBuffer)
Answered == Fetched \union Heights(data)
Requested == Answered \union Numbers(blocks)
Put == Requested \union Numbers(blockNumberBuffer)

(* Everything in S is below everything in T. *)
Below(S, T) == \A m \in S, n \in T : m < n
Ascending(s) ==
  \A i, j \in DOMAIN s : i < j /\ s[i] # Pending /\ s[j] # Pending => s[i] < s[j]
AscendingHeights(s) ==
  \A i, j \in DOMAIN s :
     i < j /\ s[i].status = "ACCEPTED" /\ s[j].status = "ACCEPTED"
       => s[i].height < s[j].height

(* Inside a buffer, and from each stage to the next, the accepted numbers
   ascend. *)
StagesOrdered ==
  /\ Ascending(blockNumberBuffer)
  /\ Ascending(blocks)
  /\ AscendingHeights(blockDataBuffer)
  /\ \A k \in DOMAIN data : data[k].status = "ACCEPTED" => data[k].height = k
  /\ Below(done, Heights(current))
  /\ Below(InProcess, Heights(blockDataBuffer))
  /\ Below(Fetched, Heights(data))
  /\ Below(Answered, Numbers(blocks))
  /\ Below(Requested, Numbers(blockNumberBuffer))

(* The numbers put so far are exactly those the pipeline holds, has processed,
   or lost to an answer of the RPC node that went backwards. *)
NothingMissing == Put \union lost = first .. (currentBlock - 1)

(* Across three loops, two buffers and a batch held outside of both, the
   accepted blocks stay in order and none is missing or invented: whatever
   the interleaving, a full buffer, a timeout or a retry
   (OnchainWorker.ts:38-145). *)
PipelineWindow == StagesOrdered /\ NothingMissing

(* A block is processed only after every block before it, from the one init()
   chose: the consumers of its events, and the resume point of the next start
   (block-detect.service.ts:69-76), rely on this. *)
ProcessedWithoutGap == \A n \in done : first .. (n - 1) \subseteq done \union lost

(* A block is never processed twice, nor processed after one that follows it. *)
ProcessedInOrder == [][Below(done, done' \ done)]_wvars

(* The delay of the chain is kept at every stage: no number nearer to the head
   than delayBlock is even put (block-detect.service.ts:64-67). *)
DelayKept == \A n \in Put : n <= head - DelayBlock

(* A fetched block is overwritten by the pending block of its batch only when an
   answer of the RPC node was older than one before it; with answers that never
   go back, pendingBlock stays above every number in the pipeline. *)
OnlyLagLoses == RpcLag = 0 => lost = {}

(* With answers that never go back, the worker handles the blocks the way
   OrderedBlocks says: buffers, batches, retries and timeouts are stutters. *)
Ordered == INSTANCE OrderedBlocks WITH
  DelayBlock <- DelayBlock, MaxHead <- MaxHead, head <- head, first <- first, done <- done
ImplementsOrderedBlocks == Ordered!ASpec

(* Every block that is deep enough is processed in the end, however often the
   number buffer fills up with 'pending' and the RPC node times out. *)
EveryBlockProcessed ==
  \A b \in 1 .. MaxHead :
    (b >= first /\ b <= head - DelayBlock - RpcLag) ~> (b \in done \union lost)
=============================================================================
