----------------------------- MODULE BlockDetect -----------------------------
(***************************************************************************)
(* BlockDetectService (packages/onchain-worker/src/blizt/                  *)
(* block-detect.service.ts): the OnchainWorker of one chain with its       *)
(* process(), which queues the events of a block's transactions and        *)
(* records, in the blocks collection, what it has done; and its init(),    *)
(* which finds in that collection where to go on after a restart.          *)
(*                                                                         *)
(* The collection and the Bull queues survive a crash; everything else is  *)
(* lost.  process() runs concurrently with the other two loops, which move *)
(* pendingBlock under it.                                                  *)
(***************************************************************************)
EXTENDS OnchainWorker, FiniteSetsExt

CONSTANTS
  Tx,              (* transaction hashes                                   *)
  Body,            (* the transactions of the block of each height: a hash *)
                   (* is that of one transaction of one block              *)
  Events,          (* number of events of a transaction that have a queue  *)
  BeginBlock,      (* configuration().BEGIN_BLOCK                          *)
  batchProcess,    (* transactions processed at a time                     *)
  maxRetry,        (* the number of attempts retryUntil is given           *)
  MaxFaults        (* bound on crashes, failed saves and failed transactions *)

ASSUME BlockAssumption ==
  /\ Body \in [1 .. (MaxHead + 1) -> Seq(Tx)] /\ Events \in [Tx -> Nat]
  /\ \A h \in DOMAIN Body : Len(Body[h]) <= MaxTxs
  /\ \A h, k \in DOMAIN Body : \A i \in DOMAIN Body[h], j \in DOMAIN Body[k] :
       Body[h][i] = Body[k][j] => h = k /\ i = j
  /\ \A h \in InitHead : h <= MaxHead
  /\ BeginBlock \in Nat \ {0} /\ Starts = {BeginBlock}
  /\ batchProcess \in Nat \ {0} /\ maxRetry \in Nat \ {0}

VARIABLES
  blockdb,            (* the blocks collection, by block number            *)
  jobs,               (* how often each event has been added to its queue  *)
  pc,                 (* where process() is: "idle", "txs", "save"         *)
  blockNumber,        (* local of process(): the number it files under     *)
  transactionWorker,  (* local of process(): the transactions to process   *)
  sent,               (* per transaction: events queued by this attempt    *)
  tries,              (* per transaction: finished calls of processTx      *)
  slice,              (* index before the slice of arraySliceProcess       *)
  stale,              (* history: numbers marked SUCCESS from a pending view *)
  misfiled,           (* history: <<height, number>> of pending views      *)
  crashes, saveFailures, txFailures

proc == <<pc, blockNumber, transactionWorker, sent, tries, slice>>
faults == <<crashes, saveFailures, txFailures>>
MoreFaults == crashes + saveFailures + txFailures < MaxFaults
bdvars == <<blockdb, jobs, proc, stale, misfiled, faults>>
vars == <<wvars, bdvars>>

(* The events that are queued, by transaction and place in it. *)
EventIds == UNION {{<<t, k>> : k \in 1 .. Events[t]} : t \in Tx}

(* The transactions a fetched block shows. *)
Shown(b) == SubSeq(Body[b.height], 1,
                   IF b.txs < Len(Body[b.height]) THEN b.txs ELSE Len(Body[b.height]))
Fresh(txs) == [i \in DOMAIN txs |-> [txHash |-> txs[i], status |-> "PENDING"]]
Hashes(tw) == {tw[i].txHash : i \in DOMAIN tw}

(* The transactions whose hash is not among the known ones, in their order. *)
Others(txs, known) ==
  LET upTo[i \in 0 .. Len(txs)] ==
        IF i = 0 THEN <<>>
        ELSE IF txs[i].txHash \in known THEN upTo[i - 1]
        ELSE Append(upTo[i - 1], txs[i])
  IN upTo[Len(txs)]

(* _.unionBy(old, new, 'txHash'): the old ones, then the new ones not among them. *)
unionByFresh(old, new) == new \o Others(old, Hashes(new))  \* mistaken: the new statuses win
unionByKnown(old, new) == old  \* mistaken: only what the entry lists already
concat(old, new) == old \o new  \* mistaken: no regard to the hashes
unionBy(old, new) == old \o Others(new, Hashes(old))

(* findOneAndUpdate with upsert: the entry of number n is e. *)
Upsert(n, e) == [m \in DOMAIN blockdb \union {n} |-> IF m = n THEN e ELSE blockdb[m]]

(* init(): the block after the newest one marked SUCCESS. *)
Successes == {n \in DOMAIN blockdb : blockdb[n].status = "SUCCESS"}
ResumeAny ==  \* mistaken: after the newest entry, whatever its status
  (IF DOMAIN blockdb = {} THEN BeginBlock - 1 ELSE Max(DOMAIN blockdb)) + 1
Resume == (IF Successes = {} THEN BeginBlock - 1 ELSE Max(Successes)) + 1

Idle == /\ pc = "idle" /\ blockNumber = 0 /\ transactionWorker = <<>>
        /\ sent = <<>> /\ tries = <<>> /\ slice = 0

Return == /\ pc' = "idle" /\ blockNumber' = 0 /\ transactionWorker' = <<>>
          /\ sent' = <<>> /\ tries' = <<>> /\ slice' = 0

BDInit ==
  /\ Init /\ Idle
  /\ blockdb = <<>> /\ jobs = [e \in EventIds |-> 0]
  /\ stale = {} /\ misfiled = {}
  /\ crashes = 0 /\ saveFailures = 0 /\ txFailures = 0
-----------------------------------------------------------------------------
(* process(), up to the first transaction: the number the block is filed under
   (the pending one: under pendingBlock), the entry found or inserted, and the
   transactions of both, the entry's first. *)
ProcessBeginSet ==  \* mistaken: $set where the code has $setOnInsert
  /\ pc = "idle" /\ current # <<>>
  /\ LET block == current[1]
         n == IF block.status = "ACCEPTED" THEN block.height ELSE pendingBlock
         tw == Fresh(Shown(block))
     IN /\ blockNumber' = n
        /\ blockdb' = Upsert(n, [status |-> "PENDING", transactions |-> tw])
        /\ transactionWorker' = tw
        /\ sent' = [i \in DOMAIN tw |-> 0] /\ tries' = [i \in DOMAIN tw |-> 0]
        /\ misfiled' = IF block.height = n THEN misfiled
                       ELSE misfiled \union {<<block.height, n>>}
  /\ pc' = "txs" /\ slice' = 0
  /\ UNCHANGED <<wvars, jobs, stale, faults>>
ProcessBegin ==
  /\ pc = "idle" /\ current # <<>>
  /\ LET block == current[1]
         n == IF block.status = "ACCEPTED" THEN block.height ELSE pendingBlock
         fresh == Fresh(Shown(block))
         known == n \in DOMAIN blockdb
         tw == IF known THEN unionBy(blockdb[n].transactions, fresh) ELSE fresh
     IN /\ blockNumber' = n
        /\ blockdb' = IF known THEN blockdb
                      ELSE Upsert(n, [status |-> "PENDING", transactions |-> fresh])
        /\ transactionWorker' = tw
        /\ sent' = [i \in DOMAIN tw |-> 0] /\ tries' = [i \in DOMAIN tw |-> 0]
        /\ misfiled' = IF block.height = n THEN misfiled
                       ELSE misfiled \union {<<block.height, n>>}
  /\ pc' = "txs" /\ slice' = 0
  /\ UNCHANGED <<wvars, jobs, stale, faults>>

(* retryUntil's loop for one transaction goes on while the condition it was
   given, () => true, does not hold of the last result. *)
until(result) == TRUE
Running(i) == /\ pc = "txs" /\ i \in DOMAIN transactionWorker
              /\ slice < i /\ i <= slice + batchProcess
              /\ tries[i] = 0 \/ (tries[i] < maxRetry /\ ~ until("undefined"))

(* processTx: await onchainQueue.add() of the next event of the transaction. *)
EnqueueEvent(i) ==
  LET t == transactionWorker[i] IN
  /\ Running(i)
  /\ t.status = "PENDING" /\ sent[i] < Events[t.txHash]
  /\ sent' = [sent EXCEPT ![i] = @ + 1]
  /\ jobs' = [jobs EXCEPT ![<<t.txHash, sent'[i]>>] = @ + 1]
  /\ UNCHANGED <<wvars, blockdb, pc, blockNumber, transactionWorker, tries, slice,
                 stale, misfiled, faults>>

(* processTx returns: the transaction was SUCCESS already, or all its events are
   queued. *)
TxDoneEarly(i) ==  \* mistaken: does not wait for the last add
  LET t == transactionWorker[i] IN
  /\ Running(i)
  /\ t.status = "SUCCESS" \/ sent[i] + 1 >= Events[t.txHash]
  /\ transactionWorker' = [transactionWorker EXCEPT ![i].status = "SUCCESS"]
  /\ tries' = [tries EXCEPT ![i] = @ + 1]
  /\ UNCHANGED <<wvars, blockdb, jobs, pc, blockNumber, sent, slice, stale, misfiled, faults>>
TxDone(i) ==
  LET t == transactionWorker[i] IN
  /\ Running(i)
  /\ t.status = "SUCCESS" \/ sent[i] = Events[t.txHash]
  /\ transactionWorker' = [transactionWorker EXCEPT ![i].status = "SUCCESS"]
  /\ tries' = [tries EXCEPT ![i] = @ + 1]
  /\ UNCHANGED <<wvars, blockdb, jobs, pc, blockNumber, sent, slice, stale, misfiled, faults>>

(* processTx has no receipt, or something in it throws and is logged: it returns
   undefined and the transaction stays PENDING. *)
TxFailed(i) ==
  /\ Running(i)
  /\ transactionWorker[i].status = "PENDING"
  /\ MoreFaults /\ txFailures' = txFailures + 1
  /\ tries' = [tries EXCEPT ![i] = @ + 1]
  /\ sent' = [sent EXCEPT ![i] = 0]
  /\ UNCHANGED <<wvars, blockdb, jobs, pc, blockNumber, transactionWorker, slice,
                 stale, misfiled, crashes, saveFailures>>

(* arraySliceProcess: the slice is through; the next one, or the save. *)
SliceDone ==
  /\ pc = "txs"
  /\ \A i \in DOMAIN transactionWorker : ~ Running(i)
  /\ IF slice + batchProcess < Len(transactionWorker)
     THEN slice' = slice + batchProcess /\ pc' = pc
     ELSE slice' = slice /\ pc' = "save"
  /\ UNCHANGED <<wvars, blockdb, jobs, blockNumber, transactionWorker, sent, tries,
                 stale, misfiled, faults>>

(* The block is SUCCESS unless it is filed under what pendingBlock is by now. *)
SavedStatus == IF blockNumber # pendingBlock THEN "SUCCESS"
               ELSE blockdb[blockNumber].status

(* process() saves the entry and returns to processBlocks. *)
Save ==
  /\ pc = "save"
  /\ blockdb' = [blockdb EXCEPT ![blockNumber] =
                   [status |-> SavedStatus, transactions |-> transactionWorker]]
  /\ stale' = IF SavedStatus # "SUCCESS" THEN stale
              ELSE IF current[1].status = "PENDING" THEN stale \union {blockNumber}
              ELSE stale \ {blockNumber}
  /\ Return /\ ProcessDone
  /\ UNCHANGED <<jobs, misfiled, faults>>

(* The save throws: processBlocks runs process() on the block once more. *)
SaveFailed ==
  /\ pc = "save"
  /\ MoreFaults /\ saveFailures' = saveFailures + 1
  /\ Return
  /\ UNCHANGED <<wvars, blockdb, jobs, stale, misfiled, crashes, txFailures>>

(* The process dies and is started again: init() and empty buffers. *)
CrashRestart ==
  /\ MoreFaults /\ crashes' = crashes + 1
  /\ first' = Resume /\ currentBlock' = Resume
  /\ pendingBlock' = 0 /\ latestBlock' = 0
  /\ blockNumberBuffer' = <<>> /\ blocks' = <<>> /\ asked' = 0
  /\ data' = <<>> /\ blockDataBuffer' = <<>> /\ current' = <<>>
  /\ done' = {} /\ lost' = {}
  /\ Return
  /\ UNCHANGED <<head, blockdb, jobs, stale, misfiled, saveFailures, txFailures>>

OtherLoops == /\ NewBlock \/ Fetching \/ Filling \/ TakeData
              /\ UNCHANGED bdvars
Transaction(i) == EnqueueEvent(i) \/ TxDone(i) \/ TxFailed(i)
BDNext == \/ OtherLoops \/ ProcessBegin
          \/ \E i \in DOMAIN transactionWorker : Transaction(i)
          \/ SliceDone \/ Save \/ SaveFailed \/ CrashRestart

BDSpec == BDInit /\ [][BDNext]_vars

(* The loops of the worker run as in OnchainWorker, and process() goes on. *)
Processing == \/ ProcessBegin \/ SliceDone \/ Save
              \/ \E i \in DOMAIN transactionWorker : EnqueueEvent(i) \/ TxDone(i)
BDFairness ==
  /\ WF_vars(FetchLatestBlock /\ UNCHANGED bdvars) /\ SF_vars(PutNumbers /\ UNCHANGED bdvars)
  /\ WF_vars(Filling /\ UNCHANGED bdvars) /\ WF_vars(TakeData /\ UNCHANGED bdvars)
  /\ WF_vars(Processing)
BDFairSpec == BDSpec /\ BDFairness
-----------------------------------------------------------------------------
(* The variables of process() and the collections have their types; an entry
   never lists a transaction twice, whichever views of the block made it up. *)
BDTypeOK ==
  /\ \A n \in DOMAIN blockdb :
       /\ n \in Nat /\ blockdb[n].status \in {"PENDING", "SUCCESS"}
       /\ Cardinality(Hashes(blockdb[n].transactions)) = Len(blockdb[n].transactions)
  /\ jobs \in [EventIds -> Nat]
  /\ pc \in {"idle", "txs", "save"} /\ blockNumber \in Nat
  /\ DOMAIN sent = DOMAIN transactionWorker /\ DOMAIN tries = DOMAIN transactionWorker
  /\ pc = "idle" <=> blockNumber = 0
  /\ pc # "idle" => current # <<>> /\ blockNumber \in DOMAIN blockdb

(* The transaction is marked SUCCESS in the entry of number n. *)
Recorded(n, t) ==
  /\ n \in DOMAIN blockdb
  /\ \E i \in DOMAIN blockdb[n].transactions :
        blockdb[n].transactions[i] = [txHash |-> t, status |-> "SUCCESS"]

(* A transaction is marked SUCCESS in the collection only when each of its events
   is in its queue: a crash, a failed save or a failed attempt between the two
   may repeat events and never drops one (block-detect.service.ts:249-289). *)
RecordedIsQueued ==
  \A n \in DOMAIN blockdb, e \in EventIds : Recorded(n, e[1]) => jobs[e] > 0

Height(t) == {h \in DOMAIN Body : t \in {Body[h][i] : i \in DOMAIN Body[h]}}
Misfilings(t) == {m \in misfiled : m[1] \in Height(t)}

(* An event is queued once, and once more only for each thing that can undo or
   hide a mark: a crash, a failed save, a failed transaction, or a pending view
   filed under a number that is not its own.  The consumers add the points of
   the event each time (block-detect.service.ts:157-161, 204-206). *)
DuplicatesHaveCause ==
  \A e \in EventIds :
    jobs[e] <= 1 + crashes + saveFailures + txFailures + Cardinality(Misfilings(e[1]))

(* Everything of block n has been queued and marked. *)
Complete(n) == \A i \in DOMAIN Body[n] : Recorded(n, Body[n][i])

(* Where init() would go on, everything before has been queued and marked, but
   for failed transactions; unless a pending view outlived its pendingBlock and
   was marked SUCCESS without its accepted block having been seen: then blocks
   below it are skipped (block-detect.service.ts:69-76, 183-185). *)
ResumeCovers ==
  \A n \in BeginBlock .. (Resume - 1) :
     Complete(n) \/ txFailures > 0 \/ \E s \in stale : s >= n

(* A crash never makes the worker start before a block it had marked. *)
ResumeNeverFallsBack == [][Resume' >= Resume]_vars

(* Every deep block is queued and marked in the end, or a start has left it
   behind; failed transactions of accepted blocks are not tried again. *)
EveryBlockRecorded ==
  \A n \in BeginBlock .. MaxHead :
    n <= head - DelayBlock ~> Complete(n) \/ n < first \/ txFailures > 0

(* block-detect.service.ts:165 says "batch process 10 txs, max retry 10 times":
   a transaction a block is saved without has been tried that often. *)
RetriedUpToMax ==
  pc = "save" => \A i \in DOMAIN transactionWorker :
                    transactionWorker[i].status = "PENDING" => tries[i] = maxRetry
=============================================================================
