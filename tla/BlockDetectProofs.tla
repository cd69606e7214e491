-------------------------- MODULE BlockDetectProofs --------------------------
(***************************************************************************)
(* Proofs about BlockDetect, for every chain, every size of the buffers    *)
(* and any number of crashes and failures.  The invariant of the pipeline  *)
(* (OnchainWorkerProofs) holds here too, a crash included; on top of it    *)
(* stand the types of process(), what a mark in the blocks collection      *)
(* says about the queues, where an event can have been queued from, and    *)
(* what lies behind the block a restart would go on with.                  *)
(***************************************************************************)
EXTENDS BlockDetect, OnchainWorkerProofs, FiniteSetTheorems, WellFoundedInduction

(* A transaction of an entry, and of transactionWorker. *)
TxRecord == [txHash : Tx, status : {"PENDING", "SUCCESS"}]
Distinct(s) == \A i, j \in DOMAIN s : s[i].txHash = s[j].txHash => i = j
TxList == {s \in Seq(TxRecord) : Distinct(s)}
Entry == [status : {"PENDING", "SUCCESS"}, transactions : TxList]

Known == {b \in [status : {"ACCEPTED", "PENDING"}, height : DOMAIN Body, txs : 0 .. MaxTxs] :
            b.status = "ACCEPTED" => b.txs = MaxTxs}

(* The blocks in the pipeline are blocks of the chain, and none is there before
   the first answer has set pendingBlock, which stays within the chain. *)
PipelineKnown ==
  /\ head <= MaxHead /\ pendingBlock <= MaxHead + 1
  /\ \A k \in DOMAIN data : data[k] \in Known
  /\ blockDataBuffer \in Seq(Known) /\ current \in Seq(Known)
  /\ pendingBlock = 0 => /\ blockNumberBuffer = <<>> /\ blocks = <<>> /\ DOMAIN data = {}
                         /\ blockDataBuffer = <<>> /\ current = <<>>

(* The types of process() and of the collections. *)
CollectionTypes ==
  /\ DOMAIN blockdb \subseteq DOMAIN Body
  /\ \A n \in DOMAIN blockdb : blockdb[n] \in Entry
  /\ jobs \in [EventIds -> Nat]
  /\ stale \subseteq Nat /\ misfiled \subseteq (DOMAIN Body) \X (DOMAIN Body)
  /\ crashes \in Nat /\ saveFailures \in Nat /\ txFailures \in Nat
ProcessTypes ==
  /\ pc \in {"idle", "txs", "save"}
  /\ transactionWorker \in TxList
  /\ sent \in [DOMAIN transactionWorker -> Nat]
  /\ tries \in [DOMAIN transactionWorker -> Nat]
  /\ slice \in Nat
  /\ pc = "idle" => Idle
  /\ pc # "idle" => current # <<>> /\ blockNumber \in DOMAIN blockdb

(* A call of processTx that has ended leaves no count of queued events behind
   unless the transaction is marked, and the slices already through have all
   been tried. *)
Attempts ==
  /\ \A i \in DOMAIN transactionWorker :
       /\ sent[i] <= Events[transactionWorker[i].txHash]
       /\ tries[i] # 0 /\ transactionWorker[i].status = "PENDING" =>
            sent[i] = 0 /\ txFailures > 0
       /\ i <= slice => tries[i] # 0
       /\ pc = "save" => tries[i] # 0

TypeInv == PipelineKnown /\ CollectionTypes /\ ProcessTypes /\ Attempts
BDInv == WindowInv /\ TypeInv

(* Every event the current attempt has counted, and every event of a marked
   transaction, in memory or in the collection, is queued. *)
SentQueued ==
  \A i \in DOMAIN transactionWorker :
    LET t == transactionWorker[i] IN
    \A k \in 1 .. Events[t.txHash] :
      k <= sent[i] \/ t.status = "SUCCESS" => jobs[<<t.txHash, k>>] > 0

(* What the collection marks for the block in process(), process() knows; and
   the transactions of an entry are those of its block or of a block misfiled
   under its number. *)
MarksKnown ==
  pc # "idle" => \A j \in DOMAIN blockdb[blockNumber].transactions :
    LET t == blockdb[blockNumber].transactions[j] IN
    t.status = "SUCCESS" => \E i \in DOMAIN transactionWorker :
                              /\ transactionWorker[i].txHash = t.txHash
                              /\ transactionWorker[i].status = "SUCCESS"
OriginOf(n, t) == \E h \in Height(t) : h = n \/ <<h, n>> \in misfiled
Origins ==
  /\ \A n \in DOMAIN blockdb : \A i \in DOMAIN blockdb[n].transactions :
       OriginOf(n, blockdb[n].transactions[i].txHash)
  /\ \A i \in DOMAIN transactionWorker : OriginOf(blockNumber, transactionWorker[i].txHash)

(* The numbers under which an event has been queued and the queueing is not
   forgotten: marked in the collection, or counted by process() right now. *)
CountedNow(e) ==
  \E i \in DOMAIN transactionWorker :
    /\ transactionWorker[i].txHash = e[1]
    /\ e[2] <= sent[i] \/ transactionWorker[i].status = "SUCCESS"
Homes(e) == {n \in DOMAIN blockdb : Recorded(n, e[1]) \/ (n = blockNumber /\ CountedNow(e))}
JobsBounded ==
  \A e \in EventIds : jobs[e] <= crashes + saveFailures + txFailures + Cardinality(Homes(e))

(* An accepted block in process() is filed under its own number, with all its
   transactions. *)
AcceptedWhole ==
  pc # "idle" /\ current[1].status = "ACCEPTED" =>
    /\ blockNumber = current[1].height
    /\ \A j \in DOMAIN Body[blockNumber] :
         \E i \in DOMAIN transactionWorker :
            transactionWorker[i].txHash = Body[blockNumber][j]

(* What lies behind: the numbers before the start of this run, the numbers this
   run has processed, and the marks of views of pending blocks. *)
Behind ==
  /\ stale \subseteq Successes
  /\ \A n \in Successes : n \in stale \/ n < first \/ n \in done
  /\ txFailures = 0 =>
       /\ \A n \in BeginBlock .. (first - 1) : Complete(n) \/ \E s \in stale : n <= s /\ s < first
       /\ \A n \in done : Complete(n)

(* The chain had reached BEGIN_BLOCK when the worker was first started. *)
ChainReachedBegin == \A h \in InitHead : BeginBlock <= h - DelayBlock - RpcLag + 1
BeginKept ==
  /\ BeginBlock <= head - DelayBlock - RpcLag + 1 /\ BeginBlock <= first
  /\ latestBlock = 0 \/ BeginBlock <= latestBlock + 1
  /\ pendingBlock = 0 \/ BeginBlock <= pendingBlock
  /\ \A n \in DOMAIN blockdb : BeginBlock <= n
-----------------------------------------------------------------------------
(* The assumptions on the constants, in the forms the proofs use. *)
LEMMA BodyFacts ==
  /\ DOMAIN Body = 1 .. (MaxHead + 1) /\ MaxHead \in Nat
  /\ \A h \in DOMAIN Body :
       /\ h \in Nat \ {0}
       /\ Body[h] \in Seq(Tx) /\ Len(Body[h]) \in Nat /\ Len(Body[h]) <= MaxTxs
       /\ DOMAIN Body[h] = 1 .. Len(Body[h])
       /\ \A i \in DOMAIN Body[h] : Body[h][i] \in Tx
  /\ \A t \in Tx : Events[t] \in Nat
<1>1. DOMAIN Body = 1 .. (MaxHead + 1) /\ MaxHead \in Nat
  BY BlockAssumption, ChainAssumption
<1>2. ASSUME NEW h \in DOMAIN Body
      PROVE  /\ h \in Nat \ {0}
             /\ Body[h] \in Seq(Tx) /\ Len(Body[h]) \in Nat /\ Len(Body[h]) <= MaxTxs
             /\ DOMAIN Body[h] = 1 .. Len(Body[h])
             /\ \A i \in DOMAIN Body[h] : Body[h][i] \in Tx
  <2>1. h \in Nat \ {0}
    BY <1>1, <1>2
  <2>2. Body[h] \in Seq(Tx) /\ Len(Body[h]) <= MaxTxs
    BY <1>1, <1>2, BlockAssumption
  <2>3. /\ Len(Body[h]) \in Nat /\ DOMAIN Body[h] = 1 .. Len(Body[h])
        /\ \A i \in DOMAIN Body[h] : Body[h][i] \in Tx
    BY <2>2, LenProperties, ElementOfSeq
  <2> QED
    BY <2>1, <2>2, <2>3
<1> QED
  BY <1>1, <1>2, BlockAssumption

(* A set of natural numbers that is not empty has a least element. *)
LEMMA LeastNumber ==
  ASSUME NEW S \in SUBSET Nat, S # {}
  PROVE  \E c \in S : \A m \in S : c <= m
<1> DEFINE Less == {p \in Nat \X Nat : p[1] < p[2]}
<1>1. IsWellFoundedOn(Less, Nat)
  BY NatLessThanWellFounded DEF OpToRel
<1> HIDE DEF Less
<1>2. \E c \in S : \A m \in S : <<m, c>> \notin Less
  BY <1>1, WFMin
<1>3. \A c, m \in Nat : <<m, c>> \notin Less => c <= m
  BY DEF Less
<1> QED
  BY <1>2, <1>3, \A c \in S : c \in Nat

(* One step of Others. *)
Keep(txs, known, kept, i) ==
  IF txs[i].txHash \in known THEN kept ELSE Append(kept, txs[i])

(* The sequence a prefix of txs leaves: the transactions of the prefix that are
   not known, each once. *)
Kept(txs, known, s, n) ==
  /\ s \in Seq(TxRecord)
  /\ \A i \in DOMAIN s : \E j \in 1 .. n : s[i] = txs[j] /\ txs[j].txHash \notin known
  /\ \A j \in 1 .. n : txs[j].txHash \notin known => \E i \in DOMAIN s : s[i] = txs[j]
  /\ Distinct(s)

(* A step of Others keeps that. *)
LEMMA KeepStep ==
  ASSUME NEW txs \in TxList, NEW known, NEW s, NEW n \in 1 .. Len(txs),
         Kept(txs, known, s, n - 1)
  PROVE  Kept(txs, known, Keep(txs, known, s, n), n)
<1>1. /\ txs \in Seq(TxRecord) /\ Len(txs) \in Nat /\ n \in Nat \ {0} /\ n <= Len(txs)
      /\ DOMAIN txs = 1 .. Len(txs) /\ txs[n] \in TxRecord
  BY LenProperties, ElementOfSeq DEF TxList
<1>2. s \in Seq(TxRecord) /\ DOMAIN s = 1 .. Len(s) /\ Len(s) \in Nat
  BY LenProperties DEF Kept
<1>3. CASE txs[n].txHash \in known
  BY <1>1, <1>3 DEF Kept, Keep
<1>4. CASE txs[n].txHash \notin known
  <2> DEFINE r == Append(s, txs[n])
  <2>1. /\ r \in Seq(TxRecord) /\ Len(r) = Len(s) + 1 /\ DOMAIN r = 1 .. (Len(s) + 1)
        /\ \A i \in 1 .. Len(s) : r[i] = s[i]
        /\ r[Len(s) + 1] = txs[n]
    BY <1>1, <1>2, AppendProperties, LenProperties
  <2> HIDE DEF r
  <2>2. ASSUME NEW i \in DOMAIN r
        PROVE  \E j \in 1 .. n : r[i] = txs[j] /\ txs[j].txHash \notin known
    <3>1. CASE i \in 1 .. Len(s)
      BY <1>1, <1>2, <2>1, <3>1 DEF Kept
    <3>2. CASE i = Len(s) + 1
      BY <1>1, <1>4, <2>1, <3>2
    <3> QED
      BY <1>2, <2>1, <2>2, <3>1, <3>2
  <2>3. ASSUME NEW j \in 1 .. n, txs[j].txHash \notin known
        PROVE  \E i \in DOMAIN r : r[i] = txs[j]
    <3>1. CASE j = n
      BY <1>2, <2>1, <3>1
    <3>2. CASE j \in 1 .. (n - 1)
      <4>1. PICK i \in DOMAIN s : s[i] = txs[j]
        BY <2>3, <3>2 DEF Kept
      <4> QED
        BY <4>1, <1>2, <2>1
    <3> QED
      BY <1>1, <3>1, <3>2
  <2>4. ASSUME NEW i \in 1 .. Len(s)
        PROVE  s[i].txHash # txs[n].txHash
    <3>1. PICK j \in 1 .. (n - 1) : s[i] = txs[j]
      BY <1>2 DEF Kept
    <3> QED
      BY <3>1, <1>1 DEF TxList, Distinct
  <2>5. Distinct(r)
    BY <1>2, <2>1, <2>4 DEF Kept, Distinct
  <2>6. Keep(txs, known, s, n) = r
    BY <1>4 DEF Keep, r
  <2> QED
    BY <2>1, <2>2, <2>3, <2>5, <2>6 DEF Kept
<1> QED
  BY <1>3, <1>4

(* The steps up to the n-th, given the sequence each starts from. *)
Steps(txs, known, u, n) ==
  [i \in 0 .. n |-> IF i = 0 THEN <<>> ELSE Keep(txs, known, u[i - 1], i)]

(* The steps can be taken: there is no least number of steps that cannot. *)
LEMMA StepsExist ==
  ASSUME NEW txs, NEW known, NEW L \in Nat
  PROVE  \E u : u = Steps(txs, known, u, L)
<1> DEFINE Has(n) == \E u : u = Steps(txs, known, u, n)
           Bad == {n \in 0 .. L : ~ Has(n)}
<1>1. Has(0)
  <2> DEFINE u == [i \in 0 .. 0 |-> <<>>]
  <2>1. u = Steps(txs, known, u, 0)
    BY DEF Steps
  <2> QED
    BY <2>1
<1>2. ASSUME NEW n \in Nat \ {0}, Has(n - 1)  PROVE Has(n)
  <2>1. PICK u : u = Steps(txs, known, u, n - 1)
    BY <1>2
  <2> DEFINE w == [i \in 0 .. n |-> IF i = 0 THEN <<>> ELSE Keep(txs, known, u[i - 1], i)]
  <2>2. \A i \in 0 .. (n - 1) : u[i] = IF i = 0 THEN <<>> ELSE Keep(txs, known, u[i - 1], i)
    BY <2>1 DEF Steps
  <2>3. \A i \in 0 .. n : w[i] = IF i = 0 THEN <<>> ELSE Keep(txs, known, u[i - 1], i)
    OBVIOUS
  <2>4. DOMAIN w = 0 .. n /\ w = [i \in 0 .. n |-> w[i]]
    OBVIOUS
  <2> HIDE DEF w
  <2>5. \A i \in 1 .. n : i - 1 \in 0 .. (n - 1) /\ i - 1 \in 0 .. n
    OBVIOUS
  <2>6. \A i \in 1 .. n : w[i - 1] = u[i - 1]
    BY <2>2, <2>3, <2>5
  <2>7. \A i \in 0 .. n : w[i] = IF i = 0 THEN <<>> ELSE Keep(txs, known, w[i - 1], i)
    BY <2>3, <2>6
  <2>8. w = Steps(txs, known, w, n)
    BY <2>4, <2>7 DEF Steps
  <2> QED
    BY <2>8
<1> HIDE DEF Has
<1>3. Bad = {}
  <2> SUFFICES ASSUME Bad # {}  PROVE FALSE
    OBVIOUS
  <2>1. PICK n \in Bad : \A m \in Bad : n <= m
    BY LeastNumber, Bad \in SUBSET Nat
  <2>2. n \in Nat \ {0} /\ n - 1 \in 0 .. L /\ ~ n <= n - 1
    BY <1>1, <2>1
  <2> QED
    BY <1>2, <2>1, <2>2
<1> QED
  BY <1>3 DEF Has

(* Others keeps the transactions that are not known, each once. *)
LEMMA OthersKept ==
  ASSUME NEW txs \in TxList, NEW known
  PROVE  Kept(txs, known, Others(txs, known), Len(txs))
<1> DEFINE L == Len(txs)
           upTo == CHOOSE u : u = Steps(txs, known, u, L)
<1>1. L \in Nat
  BY LenProperties DEF TxList
<1>4. Others(txs, known) = upTo[L]
  BY DEF Others, Steps, Keep
<1>3. upTo = Steps(txs, known, upTo, L)
  BY <1>1, StepsExist
<1> HIDE DEF upTo
<1>7. \A i \in 0 .. L : upTo[i] = IF i = 0 THEN <<>> ELSE Keep(txs, known, upTo[i - 1], i)
  BY <1>3 DEF Steps
<1>5. /\ upTo[0] = <<>>
      /\ \A i \in 1 .. L : upTo[i] = Keep(txs, known, upTo[i - 1], i)
  BY <1>1, <1>7
<1> DEFINE Wrong == {n \in 0 .. L : ~ Kept(txs, known, upTo[n], n)}
<1>6. Wrong = {}
  <2> SUFFICES ASSUME Wrong # {}  PROVE FALSE
    OBVIOUS
  <2>1. PICK n \in Wrong : \A m \in Wrong : n <= m
    BY <1>1, LeastNumber, Wrong \in SUBSET Nat
  <2>2. CASE n = 0
    <3>1. <<>> \in Seq(TxRecord) /\ DOMAIN <<>> = {} /\ 1 .. 0 = {}
      BY EmptySeq
    <3>2. Kept(txs, known, <<>>, 0)
      BY <3>1 DEF Kept, Distinct
    <3> QED
      BY <1>5, <2>1, <2>2, <3>2
  <2>3. CASE n # 0
    <3>1. n \in 1 .. L /\ n - 1 \in 0 .. L /\ n - 1 \notin Wrong
      BY <1>1, <2>1, <2>3
    <3>2. Kept(txs, known, upTo[n - 1], n - 1)
      BY <3>1
    <3>3. Kept(txs, known, upTo[n], n)
      BY <1>5, <3>1, <3>2, KeepStep
    <3> QED
      BY <2>1, <3>3
  <2> QED
    BY <2>2, <2>3
<1> QED
  BY <1>1, <1>4, <1>6

(* unionBy: the old transactions stay where they are, the new ones that were not
   among them follow, and none is there twice. *)
LEMMA UnionKeeps ==
  ASSUME NEW old \in TxList, NEW new \in TxList
  PROVE  LET tw == unionBy(old, new) IN
         /\ tw \in TxList
         /\ Len(old) \in Nat /\ Len(old) <= Len(tw)
         /\ \A i \in DOMAIN old : i \in DOMAIN tw /\ tw[i] = old[i]
         /\ \A i \in DOMAIN tw : i \in DOMAIN old \/ \E j \in DOMAIN new : tw[i] = new[j]
         /\ \A j \in DOMAIN new : \E i \in DOMAIN tw : tw[i].txHash = new[j].txHash
<1> DEFINE o == Others(new, Hashes(old))
           tw == old \o o
<1>1. Kept(new, Hashes(old), o, Len(new))
  BY OthersKept
<1>2. /\ old \in Seq(TxRecord) /\ Len(old) \in Nat /\ DOMAIN old = 1 .. Len(old)
      /\ new \in Seq(TxRecord) /\ Len(new) \in Nat /\ DOMAIN new = 1 .. Len(new)
      /\ o \in Seq(TxRecord) /\ Len(o) \in Nat /\ DOMAIN o = 1 .. Len(o)
  BY <1>1, LenProperties DEF TxList, Kept
<1> HIDE DEF o
<1>3. /\ tw \in Seq(TxRecord) /\ Len(tw) = Len(old) + Len(o) /\ DOMAIN tw = 1 .. Len(tw)
      /\ \A i \in 1 .. (Len(old) + Len(o)) :
           tw[i] = IF i <= Len(old) THEN old[i] ELSE o[i - Len(old)]
  BY <1>2, ConcatProperties, LenProperties
<1> HIDE DEF tw
<1>4. \A i \in DOMAIN old : i \in DOMAIN tw /\ tw[i] = old[i]
  BY <1>2, <1>3
<1>5. \A i \in DOMAIN tw : i \notin DOMAIN old => i - Len(old) \in DOMAIN o /\ tw[i] = o[i - Len(old)]
  BY <1>2, <1>3
<1>6. \A i \in DOMAIN o : /\ o[i].txHash \notin Hashes(old)
                          /\ \E j \in DOMAIN new : o[i] = new[j]
  BY <1>1, <1>2 DEF Kept
<1>7. \A i \in DOMAIN tw : i \in DOMAIN old \/ \E j \in DOMAIN new : tw[i] = new[j]
  BY <1>5, <1>6
<1>8. ASSUME NEW j \in DOMAIN new  PROVE \E i \in DOMAIN tw : tw[i].txHash = new[j].txHash
  <2>1. CASE new[j].txHash \in Hashes(old)
    BY <1>4, <2>1 DEF Hashes
  <2>2. CASE new[j].txHash \notin Hashes(old)
    <3>1. PICK i \in DOMAIN o : o[i] = new[j]
      BY <1>1, <1>2, <2>2 DEF Kept
    <3>2. Len(old) + i \in DOMAIN tw /\ tw[Len(old) + i] = o[i]
      BY <1>2, <1>3
    <3> QED
      BY <3>1, <3>2
  <2> QED
    BY <2>1, <2>2
<1>9. ASSUME NEW i \in DOMAIN tw, NEW j \in DOMAIN tw, tw[i].txHash = tw[j].txHash  PROVE i = j
  <2>1. CASE i \in DOMAIN old /\ j \in DOMAIN old
    BY <1>4, <1>9, <2>1 DEF TxList, Distinct
  <2>2. CASE i \notin DOMAIN old /\ j \notin DOMAIN old
    <3>1. i - Len(old) = j - Len(old)
      BY <1>1, <1>5, <1>9, <2>2 DEF Kept, Distinct
    <3> QED
      BY <3>1, <1>2, <1>3
  <2>3. CASE i \in DOMAIN old /\ j \notin DOMAIN old
    BY <1>4, <1>5, <1>6, <1>9, <2>3 DEF Hashes
  <2>4. CASE i \notin DOMAIN old /\ j \in DOMAIN old
    BY <1>4, <1>5, <1>6, <1>9, <2>4 DEF Hashes
  <2> QED
    BY <2>1, <2>2, <2>3, <2>4
<1>10. tw \in TxList
  BY <1>3, <1>9 DEF TxList, Distinct
<1>11. unionBy(old, new) = tw
  BY DEF unionBy, tw, o
<1> QED
  BY <1>2, <1>3, <1>4, <1>7, <1>8, <1>10, <1>11
-----------------------------------------------------------------------------
(* The newest of a bounded set of numbers. *)
LEMMA MaxIsGreatest ==
  ASSUME NEW N \in Nat, NEW S \in SUBSET (0 .. N), S # {}
  PROVE  Max(S) \in S /\ \A n \in S : n <= Max(S)
<1> DEFINE R == {N - n : n \in S}
<1>0. \A n \in S : n \in Nat /\ N - n \in Nat
  OBVIOUS
<1>1. R \in SUBSET Nat /\ R # {}
  BY <1>0
<1>2. PICK c \in R : \A m \in R : c <= m
  BY <1>1, LeastNumber
<1>3. PICK g \in S : c = N - g
  BY <1>2
<1>4. \A n \in S : g >= n
  <2> SUFFICES ASSUME NEW n \in S  PROVE g >= n
    OBVIOUS
  <2>1. N - n \in R
    OBVIOUS
  <2>2. N - g <= N - n
    BY <1>2, <1>3, <2>1
  <2> QED
    BY <1>0, <2>2
<1> QED
  BY <1>4 DEF Max

(* The resume point is BEGIN_BLOCK, or follows the newest mark. *)
LEMMA ResumePoint ==
  ASSUME CollectionTypes
  PROVE  /\ Resume \in Nat \ {0}
         /\ Successes \subseteq DOMAIN Body
         /\ Successes = {} => Resume = BeginBlock
         /\ Successes # {} => Resume - 1 \in Successes /\ \A n \in Successes : n <= Resume - 1
<1>1. Successes \subseteq DOMAIN Body /\ BeginBlock \in Nat \ {0}
  BY BlockAssumption DEF CollectionTypes, Successes
<1>2. Successes \in SUBSET (0 .. (MaxHead + 1)) /\ \A n \in Successes : n \in Nat
  BY <1>1, BodyFacts
<1>3. CASE Successes = {}
  BY <1>1, <1>3 DEF Resume
<1>4. CASE Successes # {}
  <2>1. Max(Successes) \in Successes /\ \A n \in Successes : n <= Max(Successes)
    <3>1. MaxHead + 1 \in Nat
      BY BodyFacts
    <3> QED
      BY <1>2, <1>4, <3>1, MaxIsGreatest
  <2>2. Resume = Max(Successes) + 1
    BY <1>4 DEF Resume
  <2> QED
    BY <1>1, <1>2, <1>4, <2>1, <2>2
<1> QED
  BY <1>3, <1>4

(* What process() does to the pipeline is a step of it, or nothing; only a
   restart is neither. *)
LEMMA PipelineStep ==
  ASSUME BDNext \/ UNCHANGED vars
  PROVE  [Next]_wvars \/ CrashRestart
<1>1. CASE OtherLoops
  BY <1>1 DEF OtherLoops, Next
<1>2. CASE Save
  BY <1>2 DEF Save, Next
<1>3. CASE ProcessBegin \/ SliceDone \/ SaveFailed \/ UNCHANGED vars
  BY <1>3 DEF ProcessBegin, SliceDone, SaveFailed, vars
<1>4. ASSUME NEW i \in DOMAIN transactionWorker, Transaction(i)  PROVE UNCHANGED wvars
  BY <1>4 DEF Transaction, EnqueueEvent, TxDone, TxFailed
<1> QED
  BY <1>1, <1>2, <1>3, <1>4 DEF BDNext

(* The pipeline of a restarted worker is that of a new one, with another first
   block. *)
LEMMA WindowRestart ==
  ASSUME WindowInv, CrashRestart, Resume \in Nat \ {0}
  PROVE  WindowInv'
<1>1. /\ head' = head /\ first' = Resume /\ currentBlock' = Resume
      /\ pendingBlock' = 0 /\ latestBlock' = 0
      /\ blockNumberBuffer' = <<>> /\ blocks' = <<>> /\ asked' = 0
      /\ data' = <<>> /\ blockDataBuffer' = <<>> /\ current' = <<>>
      /\ done' = {} /\ lost' = {}
  BY DEF CrashRestart
<1>2. TypeOK' /\ HeadInv'
  BY <1>1, SizeAssumption DEF WindowInv, TypeOK, HeadInv
<1>3. Heights(<<>>) = {} /\ Numbers(<<>>) = {}
  BY DEF Heights, Numbers
<1>4. /\ Heights(current') = {} /\ Heights(data') = {} /\ Heights(blockDataBuffer') = {}
      /\ Numbers(blocks') = {} /\ Numbers(blockNumberBuffer') = {}
  BY <1>1, <1>3
<1>5. InProcess' = {} /\ Fetched' = {} /\ Answered' = {} /\ Requested' = {} /\ Put' = {}
  BY <1>1, <1>4 DEF Put, Requested, Answered, Fetched, InProcess
<1>6. StagesOrdered'
  BY <1>1, <1>4, <1>5 DEF StagesOrdered, Ascending, AscendingHeights, Below
<1>7. NothingMissing'
  BY <1>1, <1>5 DEF NothingMissing
<1>8. AnswerDeep'
  BY <1>1, ChainAssumption DEF AnswerDeep, WindowInv, TypeOK, HeadInv
<1> QED
  BY <1>1, <1>2, <1>6, <1>7, <1>8 DEF WindowInv, OneBatch, Deep

(* With answers that never go back nothing is lost, restarts included. *)
LEMMA FreshRestart ==
  ASSUME WindowInv, CrashRestart  PROVE FreshInv'
<1>1. /\ head' = head /\ first' = Resume /\ currentBlock' = Resume
      /\ pendingBlock' = 0 /\ latestBlock' = 0 /\ lost' = {}
  BY DEF CrashRestart
<1>2. head \in Nat /\ DelayBlock \in Nat /\ RpcLag \in Nat /\ head > DelayBlock + RpcLag
  BY ChainAssumption DEF WindowInv, TypeOK, HeadInv
<1> QED
  BY <1>1, <1>2 DEF FreshInv

(* The pipeline starts empty. *)
LEMMA KnownInit == Init => PipelineKnown
<1> SUFFICES ASSUME Init  PROVE PipelineKnown
  OBVIOUS
<1>1. head <= MaxHead /\ pendingBlock = 0 /\ MaxHead \in Nat
  BY BlockAssumption, ChainAssumption DEF Init
<1> QED
  BY <1>1 DEF Init, PipelineKnown

(* The blocks of an answered batch are blocks of the chain. *)
LEMMA KnownFill ==
  ASSUME WindowInv, PipelineKnown, FillBlockDataBuffer
  PROVE  \A k \in DOMAIN data' : data'[k] \in Known
<1>1. PICK h \in (asked + 1) .. (head + 1), t \in 0 .. MaxTxs :
         data' = groupByBlock(PendingAt(h, t))
  BY DEF FillBlockDataBuffer
<1> DEFINE p == PendingAt(h, t)
<1>2. p.status = "PENDING" /\ p \in Known
  <2>1. asked \in Nat /\ head \in Nat /\ head <= MaxHead
    BY DEF WindowInv, TypeOK, PipelineKnown
  <2>2. h \in DOMAIN Body
    BY <1>1, <2>1, BodyFacts
  <2> QED
    BY <1>1, <2>2 DEF Known, PendingAt
<1> HIDE DEF p
<1>3. ASSUME NEW n \in Numbers(blocks)  PROVE Accepted(n) \in Known
  <2>1. n \in first .. (currentBlock - 1)
    BY DEF WindowInv, NothingMissing, Put, Requested
  <2>2. /\ first \in Nat \ {0} /\ currentBlock \in Nat /\ head \in Nat /\ head <= MaxHead
        /\ DelayBlock \in Nat
        /\ currentBlock = first \/ currentBlock <= head - DelayBlock + 1
    BY ChainAssumption DEF WindowInv, TypeOK, Deep, PipelineKnown
  <2>3. n \in DOMAIN Body /\ MaxTxs \in 0 .. MaxTxs
    BY <2>1, <2>2, BodyFacts, ChainAssumption
  <2> QED
    BY <2>3 DEF Known, Accepted
<1>4. \A k \in DOMAIN data' : data'[k] = p \/ (data'[k] = Accepted(k) /\ k \in Numbers(blocks))
  <2>1. /\ DOMAIN data' = BatchKeys
        /\ \A k \in BatchKeys : data'[k] = IF PendingStays(k) THEN p ELSE Accepted(k)
    BY <1>1 DEF groupByBlock, p
  <2>2. /\ Heights(data') = {n \in Numbers(blocks) : ~ PendingStays(n)}
        /\ \A k \in DOMAIN data' : data'[k].status = "ACCEPTED" => data'[k].height = k
    BY <1>1, <1>2, BatchHeights DEF WindowInv, p
  <2>3. \A k \in DOMAIN data' : data'[k] = Accepted(k) => k \in Heights(data')
    BY <2>2 DEF Heights, Accepted
  <2> QED
    BY <2>1, <2>2, <2>3
<1> QED
  BY <1>2, <1>3, <1>4

(* The loops of the pipeline move blocks of the chain, and none before the first
   answer. *)
LEMMA KnownStep ==
  ASSUME WindowInv, PipelineKnown, [Next]_wvars  PROVE PipelineKnown'
<1>1. /\ head \in Nat /\ MaxHead \in Nat /\ DelayBlock \in Nat
      /\ latestBlock \in Nat /\ pendingBlock \in Nat /\ latestBlock <= head - DelayBlock
      /\ DOMAIN data \subseteq Nat
  BY ChainAssumption DEF WindowInv, TypeOK, AnswerDeep
<1>2. /\ head <= MaxHead /\ pendingBlock <= MaxHead + 1
      /\ \A k \in DOMAIN data : data[k] \in Known
      /\ blockDataBuffer \in Seq(Known) /\ current \in Seq(Known)
      /\ pendingBlock = 0 => /\ blockNumberBuffer = <<>> /\ blocks = <<>> /\ DOMAIN data = {}
                             /\ blockDataBuffer = <<>> /\ current = <<>>
  BY DEF PipelineKnown
<1>3. CASE NewBlock
  <2>1. /\ head' = head + 1 /\ head < MaxHead
        /\ UNCHANGED <<pendingBlock, blockNumberBuffer, blocks, data, blockDataBuffer, current>>
    BY <1>3 DEF NewBlock, numbering
  <2> QED
    BY <1>1, <1>2, <2>1 DEF PipelineKnown
<1>4. CASE FetchLatestBlock \/ FetchTimeout \/ UNCHANGED wvars
  <2>1. UNCHANGED <<head, pendingBlock, blockNumberBuffer, blocks, data, blockDataBuffer, current>>
    BY <1>4 DEF FetchLatestBlock, FetchTimeout, chain, wvars
  <2> QED
    BY <1>2, <2>1 DEF PipelineKnown
<1>5. CASE PutNumbers
  <2>1. /\ pendingBlock' = latestBlock + 1 /\ latestBlock # 0
        /\ UNCHANGED <<head, blocks, data, blockDataBuffer, current>>
    BY <1>5 DEF PutNumbers, chain
  <2>2. pendingBlock' <= MaxHead + 1 /\ pendingBlock' # 0
    BY <1>1, <1>2, <2>1
  <2> QED
    BY <1>2, <2>1, <2>2 DEF PipelineKnown
<1>6. CASE TakeBatch
  <2>1. /\ blockNumberBuffer # <<>>
        /\ UNCHANGED <<head, pendingBlock, data, blockDataBuffer, current>>
    BY <1>6 DEF TakeBatch, chain, numbering
  <2> QED
    BY <1>2, <2>1 DEF PipelineKnown
<1>7. CASE FillBlockDataBuffer
  <2>1. /\ blocks # <<>> /\ blocks' = <<>>
        /\ UNCHANGED <<head, pendingBlock, blockNumberBuffer, blockDataBuffer, current>>
    BY <1>7 DEF FillBlockDataBuffer, chain, numbering
  <2> QED
    BY <1>2, <1>7, <2>1, KnownFill DEF PipelineKnown
<1>8. CASE PutData
  <2>1. PICK k \in DOMAIN data :
           /\ blockDataBuffer' = Append(blockDataBuffer, data[k])
           /\ data' = [m \in DOMAIN data \ {k} |-> data[m]]
    BY <1>8 DEF PutData
  <2>2. UNCHANGED <<head, pendingBlock, blockNumberBuffer, blocks, current>>
    BY <1>8 DEF PutData, chain, numbering
  <2>3. blockDataBuffer' \in Seq(Known)
    BY <1>2, <2>1, AppendProperties
  <2>4. \A m \in DOMAIN data' : data'[m] \in Known
    BY <1>2, <2>1
  <2> QED
    BY <1>2, <2>1, <2>2, <2>3, <2>4 DEF PipelineKnown
<1>9. CASE TakeData
  <2>1. /\ current' = <<Head(blockDataBuffer)>> /\ blockDataBuffer' = Tail(blockDataBuffer)
        /\ blockDataBuffer # <<>>
        /\ UNCHANGED <<head, pendingBlock, blockNumberBuffer, blocks, data>>
    BY <1>9 DEF TakeData, chain, numbering
  <2>2. current' \in Seq(Known) /\ blockDataBuffer' \in Seq(Known)
    BY <1>2, <2>1
  <2> QED
    BY <1>2, <2>1, <2>2 DEF PipelineKnown
<1>10. CASE ProcessDone
  <2>1. /\ current' = <<>>
        /\ UNCHANGED <<head, pendingBlock, blockNumberBuffer, blocks, data, blockDataBuffer>>
    BY <1>10 DEF ProcessDone, chain, numbering
  <2>2. current' \in Seq(Known)
    BY <2>1
  <2> QED
    BY <1>2, <2>1, <2>2 DEF PipelineKnown
<1> QED
  BY <1>3, <1>4, <1>5, <1>6, <1>7, <1>8, <1>9, <1>10 DEF Next, Fetching, Filling

(* A restart empties the pipeline. *)
LEMMA KnownRestart ==
  ASSUME PipelineKnown, CrashRestart  PROVE PipelineKnown'
<1>1. /\ head' = head /\ pendingBlock' = 0
      /\ blockNumberBuffer' = <<>> /\ blocks' = <<>> /\ data' = <<>>
      /\ blockDataBuffer' = <<>> /\ current' = <<>>
  BY DEF CrashRestart
<1>2. MaxHead \in Nat /\ <<>> \in Seq(Known) /\ DOMAIN <<>> = {}
  BY ChainAssumption
<1> QED
  BY <1>1, <1>2 DEF PipelineKnown
-----------------------------------------------------------------------------
(* The events, pair by pair. *)
LEMMA EventIdsAre ==
  /\ \A t \in Tx : \A k \in 1 .. Events[t] : <<t, k>> \in EventIds
  /\ \A e \in EventIds : e = <<e[1], e[2]>> /\ e[1] \in Tx /\ e[2] \in 1 .. Events[e[1]]
<1>1. \A e : e \in EventIds <=> \E t \in Tx : \E k \in 1 .. Events[t] : e = <<t, k>>
  BY DEF EventIds
<1> QED
  BY <1>1

(* The first transactions of a block, as PENDING. *)
LEMMA FreshPrefix ==
  ASSUME NEW s \in Seq(Tx), NEW m \in 0 .. Len(s),
         \A i, j \in DOMAIN s : s[i] = s[j] => i = j
  PROVE  LET f == Fresh(SubSeq(s, 1, m)) IN
         /\ f \in TxList
         /\ \A i \in DOMAIN f : f[i].status = "PENDING" /\ i \in DOMAIN s /\ f[i].txHash = s[i]
         /\ m = Len(s) => DOMAIN f = DOMAIN s
<1> DEFINE p == SubSeq(s, 1, m)
           f == Fresh(p)
<1>1. /\ Len(s) \in Nat /\ DOMAIN s = 1 .. Len(s) /\ m \in Nat /\ m <= Len(s)
      /\ \A i \in 1 .. m : i \in DOMAIN s /\ s[i] \in Tx
  BY LenProperties, ElementOfSeq
<1>2. DOMAIN p = 1 .. m /\ \A i \in 1 .. m : p[i] = s[i]
  BY <1>1
<1> HIDE DEF p
<1>3. f = [i \in 1 .. m |-> [txHash |-> p[i], status |-> "PENDING"]]
  BY <1>2 DEF Fresh
<1>4. \A i \in 1 .. m : f[i] = [txHash |-> s[i], status |-> "PENDING"]
  BY <1>2, <1>3
<1>5. DOMAIN f = 1 .. m /\ f \in Seq(TxRecord)
  <2>1. \A i \in 1 .. m : [txHash |-> p[i], status |-> "PENDING"] \in TxRecord
    BY <1>1, <1>2 DEF TxRecord
  <2> QED
    BY <1>1, <1>3, <2>1, IsASeq
<1> HIDE DEF f
<1>6. f \in TxList
  BY <1>1, <1>4, <1>5 DEF TxList, Distinct
<1>7. \A i \in DOMAIN f : f[i].status = "PENDING" /\ i \in DOMAIN s /\ f[i].txHash = s[i]
  BY <1>1, <1>4, <1>5
<1>8. m = Len(s) => DOMAIN f = DOMAIN s
  BY <1>1, <1>5
<1> QED
  BY <1>6, <1>7, <1>8 DEF f, p

(* The list process() makes of a fetched block: the transactions the block
   shows, all PENDING; of an accepted block, all it has. *)
LEMMA FreshList ==
  ASSUME NEW b \in Known
  PROVE  LET f == Fresh(Shown(b)) IN
         /\ f \in TxList
         /\ \A i \in DOMAIN f : /\ f[i].status = "PENDING"
                                /\ i \in DOMAIN Body[b.height] /\ f[i].txHash = Body[b.height][i]
         /\ b.status = "ACCEPTED" => DOMAIN f = DOMAIN Body[b.height]
<1> DEFINE m == IF b.txs < Len(Body[b.height]) THEN b.txs ELSE Len(Body[b.height])
<1>1. /\ b.height \in DOMAIN Body
      /\ b.txs \in 0 .. MaxTxs /\ (b.status = "ACCEPTED" => b.txs = MaxTxs)
      /\ MaxTxs \in Nat
  BY ChainAssumption DEF Known
<1>2. Body[b.height] \in Seq(Tx) /\ Len(Body[b.height]) \in Nat /\ Len(Body[b.height]) <= MaxTxs
  BY <1>1, BodyFacts
<1>3. \A i, j \in DOMAIN Body[b.height] : Body[b.height][i] = Body[b.height][j] => i = j
  BY <1>1, BlockAssumption
<1>4. m \in 0 .. Len(Body[b.height]) /\ (b.status = "ACCEPTED" => m = Len(Body[b.height]))
  BY <1>1, <1>2
<1>5. Shown(b) = SubSeq(Body[b.height], 1, m)
  BY DEF Shown
<1> HIDE DEF m
<1> QED
  BY <1>2, <1>3, <1>4, <1>5, FreshPrefix

(* A sequence of at most one element that is not empty. *)
LEMMA OneElement ==
  ASSUME NEW S, NEW s \in Seq(S), Len(s) <= 1, s # <<>>
  PROVE  s[1] \in S /\ s = <<s[1]>>
<1>1. Len(s) \in Nat /\ s = [i \in 1 .. Len(s) |-> s[i]]
  BY LenProperties
<1>2. Len(s) # 0
  BY <1>1, EmptySeq
<1>3. Len(s) = 1
  BY <1>1, <1>2
<1> QED
  BY <1>3

(* The block process() holds. *)
LEMMA CurrentKnown ==
  ASSUME WindowInv, PipelineKnown, current # <<>>
  PROVE  /\ current[1] \in Known /\ current = <<current[1]>>
         /\ current[1].height \in DOMAIN Body /\ pendingBlock \in DOMAIN Body
<1>1. current \in Seq(Known) /\ Len(current) <= 1
  BY DEF WindowInv, TypeOK, PipelineKnown
<1>3. current[1] \in Known /\ current = <<current[1]>>
  BY <1>1, OneElement
<1>4. pendingBlock \in Nat \ {0} /\ pendingBlock <= MaxHead + 1 /\ MaxHead \in Nat
  BY ChainAssumption DEF WindowInv, TypeOK, PipelineKnown
<1> QED
  BY <1>3, <1>4, BodyFacts DEF Known

(* What ProcessBegin finds or inserts, and what it makes of both lists. *)
BeginResult(b) ==
  /\ blockNumber' = IF b.status = "ACCEPTED" THEN b.height ELSE pendingBlock
  /\ blockNumber' \in DOMAIN Body
  /\ DOMAIN blockdb' = DOMAIN blockdb \union {blockNumber'}
  /\ \A n \in DOMAIN blockdb : blockdb'[n] = blockdb[n]
  /\ blockNumber' \notin DOMAIN blockdb =>
       /\ blockdb'[blockNumber'].status = "PENDING"
       /\ blockdb'[blockNumber'].transactions = transactionWorker'
  /\ blockdb'[blockNumber'] \in Entry
  /\ transactionWorker' \in TxList
  /\ \A i \in DOMAIN blockdb'[blockNumber'].transactions :
       i \in DOMAIN transactionWorker' /\
       transactionWorker'[i] = blockdb'[blockNumber'].transactions[i]
  /\ \A i \in DOMAIN transactionWorker' :
       \/ /\ blockNumber' \in DOMAIN blockdb
          /\ i \in DOMAIN blockdb[blockNumber'].transactions
       \/ /\ transactionWorker'[i].status = "PENDING"
          /\ \E j \in DOMAIN Body[b.height] : transactionWorker'[i].txHash = Body[b.height][j]
  /\ b.status = "ACCEPTED" =>
       \A j \in DOMAIN Body[b.height] :
         \E i \in DOMAIN transactionWorker' : transactionWorker'[i].txHash = Body[b.height][j]

(* ProcessBegin does what BeginResult says. *)
LEMMA BeginDoes ==
  ASSUME WindowInv, PipelineKnown, CollectionTypes, ProcessBegin
  PROVE  BeginResult(current[1])
<1> DEFINE b == current[1]
           n == IF b.status = "ACCEPTED" THEN b.height ELSE pendingBlock
           f == Fresh(Shown(b))
           e == [status |-> "PENDING", transactions |-> f]
           tw == transactionWorker'
<1>1. b \in Known /\ n \in DOMAIN Body /\ n = blockNumber'
  BY CurrentKnown DEF ProcessBegin
<1>2. /\ f \in TxList
      /\ \A i \in DOMAIN f : /\ f[i].status = "PENDING"
                             /\ i \in DOMAIN Body[b.height] /\ f[i].txHash = Body[b.height][i]
      /\ b.status = "ACCEPTED" => DOMAIN f = DOMAIN Body[b.height]
  BY <1>1, FreshList
<1>3. /\ blockdb' = IF n \in DOMAIN blockdb THEN blockdb ELSE Upsert(n, e)
      /\ tw = IF n \in DOMAIN blockdb THEN unionBy(blockdb[n].transactions, f) ELSE f
  BY DEF ProcessBegin
<1>4. n = IF b.status = "ACCEPTED" THEN b.height ELSE pendingBlock
  OBVIOUS
<1> HIDE DEF f, n, b, tw
<1>5. CASE n \in DOMAIN blockdb
  <2> DEFINE old == blockdb[n].transactions
  <2>1. old \in TxList /\ blockdb[n] \in Entry
    BY <1>5 DEF CollectionTypes, Entry
  <2>2. tw = unionBy(old, f) /\ blockdb' = blockdb
    BY <1>3, <1>5
  <2>3. /\ tw \in TxList
        /\ \A i \in DOMAIN old : i \in DOMAIN tw /\ tw[i] = old[i]
        /\ \A i \in DOMAIN tw : i \in DOMAIN old \/ \E j \in DOMAIN f : tw[i] = f[j]
        /\ \A j \in DOMAIN f : \E i \in DOMAIN tw : tw[i].txHash = f[j].txHash
    BY <1>2, <2>1, <2>2, UnionKeeps
  <2>4. \A i \in DOMAIN tw : i \in DOMAIN old \/
           (tw[i].status = "PENDING" /\ \E j \in DOMAIN Body[b.height] : tw[i].txHash = Body[b.height][j])
    BY <1>2, <2>3
  <2>5. b.status = "ACCEPTED" =>
          \A j \in DOMAIN Body[b.height] : \E i \in DOMAIN tw : tw[i].txHash = Body[b.height][j]
    BY <1>2, <2>3
  <2>6. blockdb'[n] = blockdb[n] /\ DOMAIN blockdb' = DOMAIN blockdb \union {n}
        /\ \A m \in DOMAIN blockdb : blockdb'[m] = blockdb[m]
    BY <1>5, <2>2
  <2>7. \A i \in DOMAIN blockdb'[n].transactions :
          i \in DOMAIN tw /\ tw[i] = blockdb'[n].transactions[i]
    BY <2>3, <2>6
  <2>8. \A i \in DOMAIN tw :
          \/ n \in DOMAIN blockdb /\ i \in DOMAIN blockdb[n].transactions
          \/ /\ tw[i].status = "PENDING"
             /\ \E j \in DOMAIN Body[b.height] : tw[i].txHash = Body[b.height][j]
    BY <1>5, <2>4
  <2>9. n = blockNumber' /\ n \in DOMAIN Body /\ blockdb'[n] \in Entry /\ tw \in TxList
    BY <1>1, <2>1, <2>3, <2>6
  <2> HIDE DEF old
  <2> QED
    BY <1>4, <1>5, <2>5, <2>6, <2>7, <2>8, <2>9 DEF BeginResult, tw, b
<1>6. CASE n \notin DOMAIN blockdb
  <2>1. tw = f /\ blockdb' = Upsert(n, e)
    BY <1>3, <1>6
  <2>2. /\ DOMAIN blockdb' = DOMAIN blockdb \union {n}
        /\ \A m \in DOMAIN blockdb : blockdb'[m] = blockdb[m]
        /\ blockdb'[n] = e
    BY <1>6, <2>1 DEF Upsert
  <2>3. e \in Entry /\ e.status = "PENDING" /\ e.transactions = f
    BY <1>2 DEF Entry
  <2>4. \A i \in DOMAIN tw : tw[i].status = "PENDING" /\
           \E j \in DOMAIN Body[b.height] : tw[i].txHash = Body[b.height][j]
    BY <1>2, <2>1
  <2>5. b.status = "ACCEPTED" =>
          \A j \in DOMAIN Body[b.height] : \E i \in DOMAIN tw : tw[i].txHash = Body[b.height][j]
    BY <1>2, <2>1
  <2> QED
    BY <1>1, <1>2, <1>4, <1>6, <2>1, <2>2, <2>3, <2>4, <2>5 DEF BeginResult, tw, b
<1> QED
  BY <1>5, <1>6

(* The rest of what ProcessBegin does. *)
LEMMA BeginRest ==
  ASSUME ProcessBegin
  PROVE  /\ pc = "idle" /\ current # <<>> /\ pc' = "txs" /\ slice' = 0
         /\ sent' = [i \in DOMAIN transactionWorker' |-> 0]
         /\ tries' = [i \in DOMAIN transactionWorker' |-> 0]
         /\ misfiled' = IF current[1].height = blockNumber' THEN misfiled
                        ELSE misfiled \union {<<current[1].height, blockNumber'>>}
         /\ UNCHANGED <<jobs, stale, crashes, saveFailures, txFailures>>
         /\ UNCHANGED wvars
<1>1. pc = "idle" /\ current # <<>> /\ pc' = "txs" /\ slice' = 0
  BY DEF ProcessBegin
<1>2. /\ sent' = [i \in DOMAIN transactionWorker' |-> 0]
      /\ tries' = [i \in DOMAIN transactionWorker' |-> 0]
      /\ misfiled' = IF current[1].height = blockNumber' THEN misfiled
                     ELSE misfiled \union {<<current[1].height, blockNumber'>>}
  BY DEF ProcessBegin
<1>3. UNCHANGED <<jobs, stale, crashes, saveFailures, txFailures>> /\ UNCHANGED wvars
  BY DEF ProcessBegin, faults
<1> QED
  BY <1>1, <1>2, <1>3

(* What a save leaves in the collection. *)
LEMMA SaveDoes ==
  ASSUME CollectionTypes, ProcessTypes, Save
  PROVE  /\ pc = "save" /\ blockNumber \in DOMAIN blockdb /\ current # <<>>
         /\ DOMAIN blockdb' = DOMAIN blockdb
         /\ \A n \in DOMAIN blockdb : n # blockNumber => blockdb'[n] = blockdb[n]
         /\ blockdb'[blockNumber].transactions = transactionWorker
         /\ blockdb'[blockNumber].status = SavedStatus
         /\ blockdb'[blockNumber] \in Entry
         /\ blockdb[blockNumber].status = "SUCCESS" => SavedStatus = "SUCCESS"
<1>1. /\ pc = "save"
      /\ blockdb' = [blockdb EXCEPT ![blockNumber] =
                       [status |-> SavedStatus, transactions |-> transactionWorker]]
  BY DEF Save
<1>2. blockNumber \in DOMAIN blockdb /\ current # <<>> /\ transactionWorker \in TxList
  BY <1>1 DEF ProcessTypes
<1>3. blockdb[blockNumber].status \in {"PENDING", "SUCCESS"}
  BY <1>2 DEF CollectionTypes, Entry
<1>4. SavedStatus \in {"PENDING", "SUCCESS"}
  BY <1>3 DEF SavedStatus
<1>5. [status |-> SavedStatus, transactions |-> transactionWorker] \in Entry
  BY <1>2, <1>4 DEF Entry
<1>6. blockdb[blockNumber].status = "SUCCESS" => SavedStatus = "SUCCESS"
  BY DEF SavedStatus
<1> HIDE DEF SavedStatus
<1> QED
  BY <1>1, <1>2, <1>5, <1>6
-----------------------------------------------------------------------------
(* process() has returned, or has not been called: nothing is left of it. *)
LEMMA NothingOfIt ==
  /\ Idle /\ pc = "idle" => ProcessTypes /\ Attempts
  /\ DOMAIN <<>> = {} /\ <<>> \in TxList /\ <<>> \in [{} -> Nat]
<1>1. DOMAIN <<>> = {}
  OBVIOUS
<1>2. <<>> \in TxList
  BY <1>1, EmptySeq DEF TxList, Distinct
<1>3. <<>> \in [{} -> Nat]
  BY <1>1
<1>4. ASSUME Idle, pc = "idle"  PROVE ProcessTypes /\ Attempts
  BY <1>1, <1>2, <1>3, <1>4 DEF Idle, ProcessTypes, Attempts
<1> QED
  BY <1>1, <1>2, <1>3, <1>4

(* A process() that has returned has the types of one not called. *)
LEMMA TypesReturn ==
  ASSUME Return  PROVE ProcessTypes' /\ Attempts' /\ pc' = "idle" /\ transactionWorker' = <<>>
<1>1. Idle' /\ pc' = "idle" /\ transactionWorker' = <<>>
  BY DEF Return, Idle
<1>2. (Idle /\ pc = "idle" => ProcessTypes /\ Attempts)'
  BY NothingOfIt, PTL
<1> QED
  BY <1>1, <1>2

(* The types hold when the worker starts. *)
LEMMA TypesInit == BDInit => TypeInv
<1> SUFFICES ASSUME BDInit  PROVE TypeInv
  OBVIOUS
<1>1. PipelineKnown
  BY KnownInit DEF BDInit
<1>2. ProcessTypes /\ Attempts
  BY NothingOfIt DEF BDInit, Idle
<1>3. CollectionTypes
  <2>1. /\ blockdb = <<>> /\ jobs = [e \in EventIds |-> 0]
        /\ stale = {} /\ misfiled = {}
        /\ crashes = 0 /\ saveFailures = 0 /\ txFailures = 0
    BY DEF BDInit
  <2> QED
    BY <2>1, NothingOfIt DEF CollectionTypes
<1> QED
  BY <1>1, <1>2, <1>3 DEF TypeInv

(* The other loops leave process() and the collections alone; while process()
   has a block they do not take the next. *)
LEMMA TypesOther ==
  ASSUME BDInv, OtherLoops \/ UNCHANGED vars  PROVE CollectionTypes' /\ ProcessTypes' /\ Attempts'
<1>1. /\ UNCHANGED <<blockdb, jobs, stale, misfiled, crashes, saveFailures, txFailures>>
      /\ UNCHANGED <<pc, blockNumber, transactionWorker, sent, tries, slice>>
  BY DEF OtherLoops, bdvars, proc, faults, vars
<1>2. current # <<>> => current' = current
  BY DEF OtherLoops, NewBlock, Fetching, FetchLatestBlock, FetchTimeout, PutNumbers,
     Filling, TakeBatch, FillBlockDataBuffer, PutData, TakeData, vars, wvars
<1> QED
  BY <1>1, <1>2 DEF BDInv, TypeInv, CollectionTypes, ProcessTypes, Attempts, EventIds, Idle

(* process() begins with nothing queued and nothing tried. *)
LEMMA TypesBegin ==
  ASSUME BDInv, ProcessBegin  PROVE CollectionTypes' /\ ProcessTypes' /\ Attempts'
<1>1. WindowInv /\ PipelineKnown /\ CollectionTypes
  BY DEF BDInv, TypeInv
<1>2. BeginResult(current[1])
  BY <1>1, BeginDoes
<1>3. /\ pc = "idle" /\ current # <<>> /\ pc' = "txs" /\ slice' = 0
      /\ sent' = [i \in DOMAIN transactionWorker' |-> 0]
      /\ tries' = [i \in DOMAIN transactionWorker' |-> 0]
      /\ misfiled' = IF current[1].height = blockNumber' THEN misfiled
                     ELSE misfiled \union {<<current[1].height, blockNumber'>>}
      /\ UNCHANGED <<jobs, stale, crashes, saveFailures, txFailures>>
      /\ UNCHANGED current
  BY BeginRest DEF wvars
<1>4. CollectionTypes'
  <2>1. misfiled' \subseteq (DOMAIN Body) \X (DOMAIN Body)
    BY <1>1, <1>2, <1>3, CurrentKnown DEF BeginResult, CollectionTypes
  <2>2. DOMAIN blockdb' \subseteq DOMAIN Body /\ \A n \in DOMAIN blockdb' : blockdb'[n] \in Entry
    BY <1>1, <1>2 DEF BeginResult, CollectionTypes
  <2> QED
    BY <1>1, <1>3, <2>1, <2>2 DEF CollectionTypes, EventIds
<1>5. transactionWorker' \in TxList /\ blockNumber' \in DOMAIN blockdb'
  BY <1>2 DEF BeginResult
<1>6. DOMAIN transactionWorker' \subseteq Nat \ {0}
  <2>1. /\ DOMAIN transactionWorker' = 1 .. Len(transactionWorker')
        /\ Len(transactionWorker') \in Nat
    BY <1>5, LenProperties DEF TxList
  <2> QED
    BY <2>1
<1>7. ProcessTypes'
  BY <1>3, <1>5 DEF ProcessTypes
<1>8. Attempts'
  <2> SUFFICES ASSUME NEW i \in DOMAIN transactionWorker'
               PROVE  /\ sent'[i] <= Events[transactionWorker'[i].txHash]
                      /\ tries'[i] = 0 /\ ~ i <= slice' /\ pc' # "save"
    BY DEF Attempts
  <2>1. sent'[i] = 0 /\ tries'[i] = 0
    BY <1>3
  <2>4. transactionWorker' \in Seq(TxRecord) /\ i \in 1 .. Len(transactionWorker')
    BY <1>5, LenProperties DEF TxList
  <2>5. transactionWorker'[i] \in TxRecord
    BY <2>4, ElementOfSeq
  <2>2. transactionWorker'[i].txHash \in Tx
    BY <2>5 DEF TxRecord
  <2>3. Events[transactionWorker'[i].txHash] \in Nat
    BY <2>2, BodyFacts
  <2> QED
    BY <1>3, <1>6, <2>1, <2>3
<1> QED
  BY <1>4, <1>7, <1>8

(* What is known of the transactions in process(). *)
LEMMA WorkerTypes ==
  ASSUME ProcessTypes, NEW i \in DOMAIN transactionWorker
  PROVE  /\ transactionWorker \in Seq(TxRecord) /\ Distinct(transactionWorker)
         /\ DOMAIN transactionWorker = 1 .. Len(transactionWorker)
         /\ i \in Nat \ {0} /\ i <= Len(transactionWorker) /\ Len(transactionWorker) \in Nat
         /\ transactionWorker[i].txHash \in Tx
         /\ transactionWorker[i].status \in {"PENDING", "SUCCESS"}
         /\ sent[i] \in Nat /\ tries[i] \in Nat
         /\ Events[transactionWorker[i].txHash] \in Nat
         /\ pc # "idle"
<1>1. transactionWorker \in Seq(TxRecord) /\ Distinct(transactionWorker)
  BY DEF ProcessTypes, TxList
<1>2. DOMAIN transactionWorker = 1 .. Len(transactionWorker) /\ Len(transactionWorker) \in Nat
  BY <1>1, LenProperties
<1>3. transactionWorker[i] \in TxRecord
  BY <1>1, <1>2, ElementOfSeq
<1>4. transactionWorker[i].txHash \in Tx /\ transactionWorker[i].status \in {"PENDING", "SUCCESS"}
  BY <1>3 DEF TxRecord
<1>5. pc # "idle"
  BY <1>2, NothingOfIt DEF ProcessTypes, Idle
<1> QED
  BY <1>1, <1>2, <1>4, <1>5, BodyFacts DEF ProcessTypes

(* An attempt counts no more events than its transaction has. *)
LEMMA TypesEnqueue ==
  ASSUME BDInv, NEW i \in DOMAIN transactionWorker, EnqueueEvent(i)
  PROVE  CollectionTypes' /\ ProcessTypes' /\ Attempts'
<1> DEFINE t == transactionWorker[i].txHash
<1>1. CollectionTypes /\ ProcessTypes /\ Attempts
  BY DEF BDInv, TypeInv
<1>2. /\ pc = "txs" /\ tries[i] = 0 /\ sent[i] < Events[t]
      /\ sent' = [sent EXCEPT ![i] = sent[i] + 1]
      /\ jobs' = [jobs EXCEPT ![<<t, sent'[i]>>] = jobs[<<t, sent'[i]>>] + 1]
      /\ UNCHANGED <<blockdb, pc, blockNumber, transactionWorker, tries, slice,
                     stale, misfiled, crashes, saveFailures, txFailures, current>>
  BY DEF EnqueueEvent, Running, until, faults, wvars
<1>3. i \in Nat /\ t \in Tx /\ sent[i] \in Nat /\ Events[t] \in Nat
  BY <1>1, WorkerTypes
<1>4. /\ sent'[i] = sent[i] + 1 /\ sent'[i] <= Events[t]
      /\ \A j \in DOMAIN transactionWorker : j # i => sent'[j] = sent[j]
      /\ sent' \in [DOMAIN transactionWorker -> Nat]
  BY <1>1, <1>2, <1>3 DEF ProcessTypes
<1>5. <<t, sent'[i]>> \in EventIds
  BY <1>3, <1>4, EventIdsAre
<1>6. jobs' \in [EventIds -> Nat]
  BY <1>1, <1>2, <1>5 DEF CollectionTypes
<1>7. CollectionTypes'
  BY <1>1, <1>2, <1>6 DEF CollectionTypes, EventIds
<1>8. ProcessTypes'
  BY <1>1, <1>2, <1>4 DEF ProcessTypes
<1>9. Attempts'
  BY <1>1, <1>2, <1>4 DEF Attempts
<1> QED
  BY <1>7, <1>8, <1>9

(* What a transaction leaves when processTx returns with it done. *)
LEMMA DoneResult ==
  ASSUME ProcessTypes, NEW i \in DOMAIN transactionWorker, TxDone(i)
  PROVE  /\ transactionWorker' \in TxList
         /\ DOMAIN transactionWorker' = DOMAIN transactionWorker
         /\ \A j \in DOMAIN transactionWorker :
              /\ transactionWorker'[j].txHash = transactionWorker[j].txHash
              /\ transactionWorker'[j].status =
                   IF j = i THEN "SUCCESS" ELSE transactionWorker[j].status
              /\ transactionWorker'[j] \in TxRecord
<1>1. /\ transactionWorker \in Seq(TxRecord) /\ Distinct(transactionWorker)
      /\ DOMAIN transactionWorker = 1 .. Len(transactionWorker)
      /\ Len(transactionWorker) \in Nat
  BY WorkerTypes
<1>2. \A j \in DOMAIN transactionWorker : transactionWorker[j] \in TxRecord
  BY <1>1, ElementOfSeq
<1>3. transactionWorker' = [transactionWorker EXCEPT ![i].status = "SUCCESS"]
  BY DEF TxDone
<1>4. transactionWorker = [j \in 1 .. Len(transactionWorker) |-> transactionWorker[j]]
  BY <1>1, LenProperties
<1>5. /\ DOMAIN transactionWorker' = DOMAIN transactionWorker
      /\ \A j \in DOMAIN transactionWorker : j # i => transactionWorker'[j] = transactionWorker[j]
      /\ transactionWorker'[i] = [transactionWorker[i] EXCEPT !.status = "SUCCESS"]
  BY <1>3
<1>6. transactionWorker'[i] = [txHash |-> transactionWorker[i].txHash, status |-> "SUCCESS"]
  BY <1>2, <1>5 DEF TxRecord
<1>7. \A j \in DOMAIN transactionWorker :
        /\ transactionWorker'[j].txHash = transactionWorker[j].txHash
        /\ transactionWorker'[j].status = IF j = i THEN "SUCCESS" ELSE transactionWorker[j].status
        /\ transactionWorker'[j] \in TxRecord
  BY <1>2, <1>5, <1>6 DEF TxRecord
<1>8. transactionWorker' \in Seq(TxRecord)
  <2>1. transactionWorker' = [j \in 1 .. Len(transactionWorker) |-> transactionWorker'[j]]
    BY <1>1, <1>3
  <2> QED
    BY <1>1, <1>7, <2>1, IsASeq
<1>9. Distinct(transactionWorker')
  BY <1>1, <1>5, <1>7 DEF Distinct
<1> QED
  BY <1>5, <1>7, <1>8, <1>9 DEF TxList

(* A transaction that is done has been tried. *)
LEMMA TypesDone ==
  ASSUME BDInv, NEW i \in DOMAIN transactionWorker, TxDone(i)
  PROVE  CollectionTypes' /\ ProcessTypes' /\ Attempts'
<1>1. CollectionTypes /\ ProcessTypes /\ Attempts
  BY DEF BDInv, TypeInv
<1>2. /\ pc = "txs" /\ tries[i] = 0
      /\ tries' = [tries EXCEPT ![i] = tries[i] + 1]
      /\ UNCHANGED <<blockdb, jobs, pc, blockNumber, sent, slice,
                     stale, misfiled, crashes, saveFailures, txFailures, current>>
  BY DEF TxDone, Running, until, faults, wvars
<1>3. /\ transactionWorker' \in TxList
      /\ DOMAIN transactionWorker' = DOMAIN transactionWorker
      /\ \A j \in DOMAIN transactionWorker :
           /\ transactionWorker'[j].txHash = transactionWorker[j].txHash
           /\ transactionWorker'[j].status =
                IF j = i THEN "SUCCESS" ELSE transactionWorker[j].status
  BY <1>1, DoneResult
<1>4. /\ tries'[i] = 1 /\ tries' \in [DOMAIN transactionWorker -> Nat]
      /\ \A j \in DOMAIN transactionWorker : j # i => tries'[j] = tries[j]
  BY <1>1, <1>2 DEF ProcessTypes
<1>5. CollectionTypes'
  BY <1>1, <1>2 DEF CollectionTypes, EventIds
<1>6. ProcessTypes'
  BY <1>1, <1>2, <1>3, <1>4 DEF ProcessTypes
<1>7. Attempts'
  <2> SUFFICES ASSUME NEW j \in DOMAIN transactionWorker
               PROVE  /\ sent[j] <= Events[transactionWorker[j].txHash]
                      /\ tries'[j] # 0 /\ transactionWorker'[j].status = "PENDING" =>
                           sent[j] = 0 /\ txFailures > 0
                      /\ j <= slice => tries'[j] # 0
                      /\ pc # "save"
    BY <1>2, <1>3 DEF Attempts
  <2> QED
    BY <1>1, <1>2, <1>3, <1>4 DEF Attempts
<1> QED
  BY <1>5, <1>6, <1>7

(* A failed attempt has queued nothing any more, and is a failure. *)
LEMMA TypesFailed ==
  ASSUME BDInv, NEW i \in DOMAIN transactionWorker, TxFailed(i)
  PROVE  CollectionTypes' /\ ProcessTypes' /\ Attempts'
<1>1. CollectionTypes /\ ProcessTypes /\ Attempts
  BY DEF BDInv, TypeInv
<1>2. /\ pc = "txs" /\ tries[i] = 0
      /\ txFailures' = txFailures + 1
      /\ tries' = [tries EXCEPT ![i] = tries[i] + 1]
      /\ sent' = [sent EXCEPT ![i] = 0]
      /\ UNCHANGED <<blockdb, jobs, pc, blockNumber, transactionWorker, slice,
                     stale, misfiled, crashes, saveFailures, current>>
  BY DEF TxFailed, Running, until, wvars
<1>3. /\ tries'[i] = 1 /\ tries' \in [DOMAIN transactionWorker -> Nat]
      /\ \A j \in DOMAIN transactionWorker : j # i => tries'[j] = tries[j]
      /\ sent'[i] = 0 /\ sent' \in [DOMAIN transactionWorker -> Nat]
      /\ \A j \in DOMAIN transactionWorker : j # i => sent'[j] = sent[j]
      /\ txFailures' \in Nat /\ txFailures' > 0
  BY <1>1, <1>2 DEF ProcessTypes, CollectionTypes
<1>4. CollectionTypes'
  BY <1>1, <1>2, <1>3 DEF CollectionTypes, EventIds
<1>5. ProcessTypes'
  BY <1>1, <1>2, <1>3 DEF ProcessTypes
<1>6. Attempts'
  <2> SUFFICES ASSUME NEW j \in DOMAIN transactionWorker
               PROVE  /\ sent'[j] <= Events[transactionWorker[j].txHash]
                      /\ tries'[j] # 0 /\ transactionWorker[j].status = "PENDING" =>
                           sent'[j] = 0 /\ txFailures' > 0
                      /\ j <= slice => tries'[j] # 0
                      /\ pc # "save"
    BY <1>2 DEF Attempts
  <2>1. CASE j = i
    <3>1. Events[transactionWorker[i].txHash] \in Nat
      BY <1>1, WorkerTypes
    <3> QED
      BY <1>2, <1>3, <2>1, <3>1
  <2>2. CASE j # i
    BY <1>1, <1>2, <1>3, <2>2 DEF Attempts
  <2> QED
    BY <2>1, <2>2
<1> QED
  BY <1>4, <1>5, <1>6

(* arraySliceProcess goes on when every transaction of the slice has ended. *)
LEMMA TypesSlice ==
  ASSUME BDInv, SliceDone  PROVE CollectionTypes' /\ ProcessTypes' /\ Attempts'
<1>1. CollectionTypes /\ ProcessTypes /\ Attempts /\ slice \in Nat /\ batchProcess \in Nat \ {0}
  BY BlockAssumption DEF BDInv, TypeInv, ProcessTypes
<1>2. /\ pc = "txs" /\ pc' \in {"txs", "save"}
      /\ \A i \in DOMAIN transactionWorker : ~ Running(i)
      /\ slice' \in {slice, slice + batchProcess}
      /\ pc' = "save" => slice' = slice /\ ~ slice + batchProcess < Len(transactionWorker)
      /\ UNCHANGED <<blockdb, jobs, blockNumber, transactionWorker, sent, tries,
                     stale, misfiled, crashes, saveFailures, txFailures, current>>
  BY DEF SliceDone, faults, wvars
<1>3. ASSUME NEW i \in DOMAIN transactionWorker, i <= slice + batchProcess
      PROVE  tries[i] # 0
  <2>1. CASE i <= slice
    BY <1>1, <2>1 DEF Attempts
  <2>2. CASE ~ i <= slice
    <3>1. i \in Nat
      BY <1>1, WorkerTypes
    <3>2. slice < i
      BY <1>1, <2>2, <3>1
    <3> QED
      BY <1>2, <1>3, <3>2 DEF Running
  <2> QED
    BY <2>1, <2>2
<1>4. ASSUME NEW i \in DOMAIN transactionWorker
      PROVE  (i <= slice' => tries[i] # 0) /\ (pc' = "save" => tries[i] # 0)
  <2>1. i \in Nat /\ i <= Len(transactionWorker) /\ Len(transactionWorker) \in Nat
    BY <1>1, WorkerTypes
  <2> QED
    BY <1>1, <1>2, <1>3, <2>1
<1>5. CollectionTypes'
  BY <1>1, <1>2 DEF CollectionTypes, EventIds
<1>6. ProcessTypes'
  BY <1>1, <1>2 DEF ProcessTypes
<1>7. Attempts'
  BY <1>1, <1>2, <1>4 DEF Attempts
<1> QED
  BY <1>5, <1>6, <1>7

(* The saved entry is the list of process(). *)
LEMMA TypesSave ==
  ASSUME BDInv, Save  PROVE CollectionTypes' /\ ProcessTypes' /\ Attempts'
<1>1. CollectionTypes /\ ProcessTypes
  BY DEF BDInv, TypeInv
<1>2. /\ blockNumber \in DOMAIN blockdb /\ DOMAIN blockdb' = DOMAIN blockdb
      /\ \A n \in DOMAIN blockdb : n # blockNumber => blockdb'[n] = blockdb[n]
      /\ blockdb'[blockNumber] \in Entry
  BY <1>1, SaveDoes
<1>3. ProcessTypes' /\ Attempts'
  BY TypesReturn DEF Save
<1>4. /\ stale' \in {stale, stale \union {blockNumber}, stale \ {blockNumber}}
      /\ UNCHANGED <<jobs, misfiled, crashes, saveFailures, txFailures>>
  BY DEF Save, faults
<1>5. blockNumber \in Nat
  BY <1>1, <1>2, BodyFacts DEF CollectionTypes
<1>6. stale' \subseteq Nat
  BY <1>1, <1>4, <1>5 DEF CollectionTypes
<1>7. \A n \in DOMAIN blockdb' : blockdb'[n] \in Entry
  BY <1>1, <1>2 DEF CollectionTypes
<1>8. CollectionTypes'
  BY <1>1, <1>2, <1>4, <1>6, <1>7 DEF CollectionTypes, EventIds
<1> QED
  BY <1>3, <1>8

(* A failed save and a crash leave the collections alone. *)
LEMMA TypesFault ==
  ASSUME BDInv, SaveFailed \/ CrashRestart  PROVE CollectionTypes' /\ ProcessTypes' /\ Attempts'
<1>1. ProcessTypes' /\ Attempts'
  BY TypesReturn DEF SaveFailed, CrashRestart
<1>2. /\ UNCHANGED <<blockdb, jobs, stale, misfiled, txFailures>>
      /\ crashes' \in {crashes, crashes + 1} /\ saveFailures' \in {saveFailures, saveFailures + 1}
  BY DEF SaveFailed, CrashRestart
<1>3. CollectionTypes
  BY DEF BDInv, TypeInv
<1>4. CollectionTypes'
  BY <1>2, <1>3 DEF CollectionTypes, EventIds
<1> QED
  BY <1>1, <1>4

(* The invariants of the pipeline and the types are kept by every step. *)
LEMMA BDInvStep == BDInv /\ [BDNext]_vars => BDInv'
<1> SUFFICES ASSUME BDInv, [BDNext]_vars  PROVE BDInv'
  OBVIOUS
<1>1. WindowInv /\ PipelineKnown /\ CollectionTypes
  BY DEF BDInv, TypeInv
<1>2. [Next]_wvars \/ CrashRestart
  BY PipelineStep
<1>3. WindowInv'
  BY <1>1, <1>2, WindowStep, WindowRestart, ResumePoint
<1>4. PipelineKnown'
  BY <1>1, <1>2, KnownStep, KnownRestart
<1>5. CollectionTypes' /\ ProcessTypes' /\ Attempts'
  BY TypesOther, TypesBegin, TypesEnqueue, TypesDone, TypesFailed, TypesSlice, TypesSave, TypesFault
  DEF BDNext, Transaction
<1> QED
  BY <1>3, <1>4, <1>5 DEF BDInv, TypeInv

(* The invariant holds when the worker starts. *)
LEMMA BDInvInit == BDInit => BDInv
  BY WindowInit, TypesInit DEF BDInit, BDInv

(* Each hash of an entry once: as many hashes as transactions. *)
LEMMA DistinctCount ==
  ASSUME NEW s \in TxList  PROVE Cardinality(Hashes(s)) = Len(s)
<1> DEFINE f == [i \in 1 .. Len(s) |-> s[i].txHash]
<1>1. Len(s) \in Nat /\ DOMAIN s = 1 .. Len(s)
  BY LenProperties DEF TxList
<1>2. f \in Bijection(1 .. Len(s), Hashes(s))
  <2>1. f \in [1 .. Len(s) -> Hashes(s)]
    BY <1>1 DEF Hashes
  <2>2. \A i, j \in 1 .. Len(s) : f[i] = f[j] => i = j
    BY <1>1 DEF TxList, Distinct
  <2>3. \A h \in Hashes(s) : \E i \in 1 .. Len(s) : f[i] = h
    BY <1>1 DEF Hashes
  <2> HIDE DEF f
  <2> QED
    BY <2>1, <2>2, <2>3 DEF Bijection, Injection, Surjection, IsInjective
<1>3. IsFiniteSet(1 .. Len(s)) /\ Cardinality(1 .. Len(s)) = Len(s)
  <2>1. /\ IsFiniteSet(1 .. Len(s))
        /\ Cardinality(1 .. Len(s)) = IF 1 > Len(s) THEN 0 ELSE Len(s) - 1 + 1
    BY <1>1, FS_Interval
  <2> QED
    BY <1>1, <2>1
<1>4. ExistsBijection(1 .. Len(s), Hashes(s))
  BY <1>2 DEF ExistsBijection
<1> QED
  BY <1>3, <1>4, FS_Bijection

(* The variables of process() and the collections have their types, and an entry
   never lists a transaction twice: views of a growing block, retries of a block
   and restarts merge into one list (block-detect.service.ts:134-162). *)
THEOREM TypesCorrect == BDSpec => []BDTypeOK
<1>1. BDInv => BDTypeOK
  <2> SUFFICES ASSUME BDInv  PROVE BDTypeOK
    OBVIOUS
  <2>1. CollectionTypes /\ ProcessTypes
    BY DEF BDInv, TypeInv
  <2>2. ASSUME NEW n \in DOMAIN blockdb
        PROVE  /\ n \in Nat /\ blockdb[n].status \in {"PENDING", "SUCCESS"}
               /\ Cardinality(Hashes(blockdb[n].transactions)) = Len(blockdb[n].transactions)
    <3>1. n \in Nat /\ blockdb[n] \in Entry
      BY <2>1, BodyFacts DEF CollectionTypes
    <3> QED
      BY <3>1, DistinctCount DEF Entry
  <2>3. pc = "idle" <=> blockNumber = 0
    BY <2>1, BodyFacts DEF ProcessTypes, CollectionTypes, Idle
  <2>4. blockNumber \in Nat
    BY <2>1, BodyFacts DEF ProcessTypes, CollectionTypes, Idle
  <2> QED
    BY <2>1, <2>2, <2>3, <2>4 DEF BDTypeOK, CollectionTypes, ProcessTypes
<1> QED
  BY <1>1, BDInvInit, BDInvStep, PTL DEF BDSpec
-----------------------------------------------------------------------------
(* A transaction marked in the entry of number n, element by element. *)
LEMMA RecordedIs ==
  ASSUME CollectionTypes, NEW n \in DOMAIN blockdb, NEW t
  PROVE  Recorded(n, t) <=> \E i \in DOMAIN blockdb[n].transactions :
            /\ blockdb[n].transactions[i].txHash = t
            /\ blockdb[n].transactions[i].status = "SUCCESS"
<1>1. blockdb[n].transactions \in Seq(TxRecord)
  BY DEF CollectionTypes, Entry, TxList
<1>2. \A i \in DOMAIN blockdb[n].transactions : blockdb[n].transactions[i] \in TxRecord
  BY <1>1, ElementOfSeq, LenProperties
<1>3. \A r \in TxRecord : r = [txHash |-> r.txHash, status |-> r.status]
  BY DEF TxRecord
<1>4. \A i \in DOMAIN blockdb[n].transactions :
        blockdb[n].transactions[i] = [txHash |-> t, status |-> "SUCCESS"] <=>
          /\ blockdb[n].transactions[i].txHash = t
          /\ blockdb[n].transactions[i].status = "SUCCESS"
  BY <1>2, <1>3
<1> QED
  BY <1>4 DEF Recorded

(* The collection of a marked transaction. *)
Marked(i) == transactionWorker[i].status = "SUCCESS"

(* How a step changes the marks of the collection: only ProcessBegin adds an
   entry, with none, and only Save changes an entry, to the marks of process(). *)
LEMMA MarksBegin ==
  ASSUME BDInv, ProcessBegin, NEW n \in DOMAIN blockdb', NEW t
  PROVE  /\ n \in DOMAIN blockdb => (Recorded(n, t)' <=> Recorded(n, t))
         /\ n \notin DOMAIN blockdb => ~ Recorded(n, t)'
         /\ n = blockNumber' => (Recorded(n, t)' <=>
              \E i \in DOMAIN transactionWorker' :
                /\ transactionWorker'[i].txHash = t
                /\ transactionWorker'[i].status = "SUCCESS")
<1>1. BeginResult(current[1]) /\ CollectionTypes /\ CollectionTypes'
  BY BeginDoes, TypesBegin DEF BDInv, TypeInv
<1>2. Recorded(n, t)' <=> \E i \in DOMAIN blockdb'[n].transactions :
            /\ blockdb'[n].transactions[i].txHash = t
            /\ blockdb'[n].transactions[i].status = "SUCCESS"
  <2> DEFINE s == blockdb'[n].transactions
  <2>1. s \in Seq(TxRecord)
    BY <1>1 DEF CollectionTypes, Entry, TxList
  <2>2. \A i \in DOMAIN s : s[i] \in TxRecord
    BY <2>1, ElementOfSeq, LenProperties
  <2>3. \A r \in TxRecord : r = [txHash |-> r.txHash, status |-> r.status]
    BY DEF TxRecord
  <2>4. \A i \in DOMAIN s : s[i] = [txHash |-> t, status |-> "SUCCESS"] <=>
            s[i].txHash = t /\ s[i].status = "SUCCESS"
    BY <2>2, <2>3
  <2>5. Recorded(n, t)' <=> \E i \in DOMAIN s : s[i] = [txHash |-> t, status |-> "SUCCESS"]
    BY DEF Recorded
  <2> QED
    BY <2>4, <2>5
<1>3. ASSUME n \in DOMAIN blockdb  PROVE Recorded(n, t)' <=> Recorded(n, t)
  BY <1>1, <1>2, <1>3, RecordedIs DEF BeginResult
<1>4. ASSUME n \notin DOMAIN blockdb
      PROVE  n = blockNumber' /\ blockdb'[n].transactions = transactionWorker' /\
             \A i \in DOMAIN transactionWorker' : transactionWorker'[i].status = "PENDING"
  BY <1>1, <1>4 DEF BeginResult
<1>5. ASSUME n \notin DOMAIN blockdb  PROVE ~ Recorded(n, t)'
  BY <1>2, <1>4, <1>5
<1>6. ASSUME n = blockNumber'
      PROVE  Recorded(n, t)' <=> \E i \in DOMAIN transactionWorker' :
                                   /\ transactionWorker'[i].txHash = t
                                   /\ transactionWorker'[i].status = "SUCCESS"
  <2>1. \A i \in DOMAIN blockdb'[n].transactions :
          i \in DOMAIN transactionWorker' /\
          transactionWorker'[i] = blockdb'[n].transactions[i]
    BY <1>1, <1>6 DEF BeginResult
  <2>2. \A i \in DOMAIN transactionWorker' :
          transactionWorker'[i].status = "SUCCESS" => i \in DOMAIN blockdb'[n].transactions
    BY <1>1, <1>6 DEF BeginResult
  <2> QED
    BY <1>2, <2>1, <2>2
<1> QED
  BY <1>3, <1>5, <1>6

(* Save changes the entry of its number alone, to the marks of process(). *)
LEMMA MarksSave ==
  ASSUME BDInv, Save, NEW n \in DOMAIN blockdb, NEW t
  PROVE  /\ DOMAIN blockdb' = DOMAIN blockdb /\ blockNumber \in DOMAIN blockdb
         /\ n # blockNumber => (Recorded(n, t)' <=> Recorded(n, t))
         /\ n = blockNumber => (Recorded(n, t)' <=>
              \E i \in DOMAIN transactionWorker :
                transactionWorker[i].txHash = t /\ Marked(i))
<1>1. CollectionTypes /\ ProcessTypes
  BY DEF BDInv, TypeInv
<1>2. /\ blockNumber \in DOMAIN blockdb
      /\ DOMAIN blockdb' = DOMAIN blockdb
      /\ \A m \in DOMAIN blockdb : m # blockNumber => blockdb'[m] = blockdb[m]
      /\ blockdb'[blockNumber].transactions = transactionWorker
  BY <1>1, SaveDoes
<1>3. n # blockNumber => (Recorded(n, t)' <=> Recorded(n, t))
  BY <1>2 DEF Recorded
<1>4. ASSUME n = blockNumber
      PROVE  Recorded(n, t)' <=> \E i \in DOMAIN transactionWorker :
                                   transactionWorker[i].txHash = t /\ Marked(i)
  <2>1. \A i \in DOMAIN transactionWorker : transactionWorker[i] \in TxRecord
    <3>1. transactionWorker \in Seq(TxRecord)
      BY <1>1 DEF ProcessTypes, TxList
    <3> QED
      BY <3>1, ElementOfSeq, LenProperties
  <2>2. \A r \in TxRecord : r = [txHash |-> r.txHash, status |-> r.status]
    BY DEF TxRecord
  <2>3. \A i \in DOMAIN transactionWorker :
          transactionWorker[i] = [txHash |-> t, status |-> "SUCCESS"] <=>
            transactionWorker[i].txHash = t /\ Marked(i)
    BY <2>1, <2>2 DEF Marked
  <2>4. Recorded(n, t)' <=> \E i \in DOMAIN transactionWorker :
                              transactionWorker[i] = [txHash |-> t, status |-> "SUCCESS"]
    BY <1>2, <1>4 DEF Recorded
  <2> QED
    BY <2>3, <2>4
<1> QED
  BY <1>2, <1>3, <1>4

(* While the collection stays, so do the marks. *)
LEMMA MarksKept ==
  ASSUME UNCHANGED blockdb, NEW n, NEW t  PROVE Recorded(n, t)' <=> Recorded(n, t)
  BY DEF Recorded
-----------------------------------------------------------------------------
(* No step takes an event out of a queue. *)
LEMMA JobsGrow ==
  ASSUME BDInv, [BDNext]_vars, NEW e \in EventIds
  PROVE  jobs[e] \in Nat /\ jobs'[e] \in Nat /\ jobs'[e] >= jobs[e]
<1>1. jobs \in [EventIds -> Nat] /\ jobs' \in [EventIds -> Nat]
  BY BDInvStep DEF BDInv, TypeInv, CollectionTypes, EventIds
<1>2. CASE jobs' = jobs
  BY <1>1, <1>2
<1>3. ASSUME NEW i \in DOMAIN transactionWorker, EnqueueEvent(i)
      PROVE  jobs'[e] >= jobs[e]
  <2>1. PICK d : jobs' = [jobs EXCEPT ![d] = jobs[d] + 1]
    BY <1>3 DEF EnqueueEvent
  <2> QED
    BY <1>1, <2>1
<1>4. (\E i \in DOMAIN transactionWorker : EnqueueEvent(i)) \/ jobs' = jobs
  BY DEF BDNext, OtherLoops, Transaction, TxDone, TxFailed, ProcessBegin, SliceDone, Save,
     SaveFailed, CrashRestart, bdvars, vars
<1> QED
  BY <1>1, <1>2, <1>3, <1>4

QueuedInv == BDInv /\ SentQueued /\ RecordedIsQueued

(* Nothing is marked when the worker starts. *)
LEMMA QueuedInit == BDInit => QueuedInv
<1> SUFFICES ASSUME BDInit  PROVE QueuedInv
  OBVIOUS
<1>1. transactionWorker = <<>> /\ blockdb = <<>>
  BY DEF BDInit, Idle
<1>2. SentQueued /\ RecordedIsQueued
  BY <1>1, NothingOfIt DEF SentQueued, RecordedIsQueued
<1> QED
  BY <1>2, BDInvInit DEF QueuedInv

(* While the marks of the collection stay, what they say stays true. *)
LEMMA MarksStayQueued ==
  ASSUME QueuedInv, [BDNext]_vars, UNCHANGED blockdb  PROVE RecordedIsQueued'
<1> SUFFICES ASSUME NEW n \in DOMAIN blockdb, NEW e \in EventIds, Recorded(n, e[1])
             PROVE  jobs'[e] > 0
  BY MarksKept DEF RecordedIsQueued, EventIds
<1>1. jobs[e] > 0
  BY DEF QueuedInv, RecordedIsQueued
<1> QED
  BY <1>1, JobsGrow DEF QueuedInv

(* A step that leaves process() alone. *)
LEMMA QueuedAside ==
  ASSUME QueuedInv, [BDNext]_vars,
         UNCHANGED <<blockdb, jobs, transactionWorker, sent>> \/
         (UNCHANGED <<blockdb, jobs>> /\ transactionWorker' = <<>>)
  PROVE  SentQueued' /\ RecordedIsQueued'
<1>1. RecordedIsQueued'
  BY MarksStayQueued
<1>2. SentQueued'
  <2>1. CASE UNCHANGED <<jobs, transactionWorker, sent>>
    BY <2>1 DEF QueuedInv, SentQueued
  <2>2. CASE transactionWorker' = <<>>
    BY <2>2, NothingOfIt DEF SentQueued
  <2> QED
    BY <2>1, <2>2
<1> QED
  BY <1>1, <1>2

(* The transactions process() finds marked are queued. *)
LEMMA QueuedBegin ==
  ASSUME QueuedInv, ProcessBegin  PROVE SentQueued' /\ RecordedIsQueued'
<1>1. BDInv /\ CollectionTypes
  BY DEF QueuedInv, BDInv, TypeInv
<1>2. BeginResult(current[1]) /\ jobs' = jobs /\ sent' = [i \in DOMAIN transactionWorker' |-> 0]
  BY <1>1, BeginDoes, BeginRest DEF BDInv, TypeInv
<1>3. RecordedIsQueued'
  <2> SUFFICES ASSUME NEW n \in DOMAIN blockdb', NEW e \in EventIds, Recorded(n, e[1])'
               PROVE  jobs[e] > 0
    BY <1>2 DEF RecordedIsQueued, EventIds
  <2>1. n \in DOMAIN blockdb /\ Recorded(n, e[1])
    BY <1>1, MarksBegin
  <2> QED
    BY <2>1 DEF QueuedInv, RecordedIsQueued
<1>4. SentQueued'
  <2> SUFFICES ASSUME NEW i \in DOMAIN transactionWorker',
                      NEW k \in 1 .. Events[transactionWorker'[i].txHash],
                      k <= sent'[i] \/ transactionWorker'[i].status = "SUCCESS"
               PROVE  jobs[<<transactionWorker'[i].txHash, k>>] > 0
    BY <1>2 DEF SentQueued
  <2>1. PICK n \in DOMAIN blockdb', t \in Tx : n = blockNumber' /\ t = transactionWorker'[i].txHash
    <3>1. transactionWorker' \in Seq(TxRecord) /\ blockNumber' \in DOMAIN blockdb'
      BY <1>2 DEF BeginResult, TxList
    <3>2. transactionWorker'[i] \in TxRecord
      BY <3>1, ElementOfSeq, LenProperties
    <3> QED
      BY <3>1, <3>2 DEF TxRecord
  <2>2. transactionWorker'[i].status = "SUCCESS"
    <3>1. sent'[i] = 0
      BY <1>2
    <3>2. Events[t] \in Nat
      BY BodyFacts
    <3> QED
      BY <2>1, <3>1, <3>2
  <2>3. Recorded(n, t)'
    BY <1>1, <2>1, <2>2, MarksBegin
  <2>4. n \in DOMAIN blockdb /\ Recorded(n, t)
    BY <1>1, <2>3, MarksBegin
  <2>5. <<t, k>> \in EventIds
    BY <2>1, EventIdsAre
  <2>6. jobs[<<t, k>>] > 0
    BY <2>4, <2>5 DEF QueuedInv, RecordedIsQueued
  <2> QED
    BY <2>1, <2>6
<1> QED
  BY <1>3, <1>4

(* An attempt counts the event it has queued. *)
LEMMA QueuedEnqueue ==
  ASSUME QueuedInv, NEW i \in DOMAIN transactionWorker, EnqueueEvent(i)
  PROVE  SentQueued' /\ RecordedIsQueued'
<1>0. [BDNext]_vars
  BY DEF BDNext, Transaction
<1> DEFINE t == transactionWorker[i].txHash
<1>1. BDInv /\ CollectionTypes /\ ProcessTypes
  BY DEF QueuedInv, BDInv, TypeInv
<1>2. /\ sent' = [sent EXCEPT ![i] = sent[i] + 1]
      /\ jobs' = [jobs EXCEPT ![<<t, sent'[i]>>] = jobs[<<t, sent'[i]>>] + 1]
      /\ sent[i] < Events[t]
      /\ UNCHANGED <<blockdb, transactionWorker>>
  BY DEF EnqueueEvent
<1>3. t \in Tx /\ sent[i] \in Nat /\ Events[t] \in Nat /\ sent \in [DOMAIN transactionWorker -> Nat]
  BY <1>1, WorkerTypes DEF ProcessTypes
<1>4. sent'[i] = sent[i] + 1 /\ \A j \in DOMAIN transactionWorker : j # i => sent'[j] = sent[j]
  BY <1>2, <1>3
<1>5. <<t, sent[i] + 1>> \in EventIds
  BY <1>2, <1>3, EventIdsAre
<1>6. jobs'[<<t, sent[i] + 1>>] > 0
  <2>1. jobs \in [EventIds -> Nat]
    BY <1>1 DEF CollectionTypes
  <2>2. jobs'[<<t, sent[i] + 1>>] = jobs[<<t, sent[i] + 1>>] + 1
    BY <1>2, <1>4, <1>5, <2>1
  <2> QED
    BY <1>5, <2>1, <2>2
<1>7. RecordedIsQueued'
  BY <1>0, <1>2, MarksStayQueued
<1>8. SentQueued'
  <2> SUFFICES ASSUME NEW j \in DOMAIN transactionWorker,
                      NEW k \in 1 .. Events[transactionWorker[j].txHash],
                      k <= sent'[j] \/ transactionWorker[j].status = "SUCCESS"
               PROVE  jobs'[<<transactionWorker[j].txHash, k>>] > 0
    BY <1>2 DEF SentQueued
  <2>1. transactionWorker[j].txHash \in Tx
    BY <1>1, WorkerTypes
  <2>2. <<transactionWorker[j].txHash, k>> \in EventIds
    BY <2>1, EventIdsAre
  <2>3. CASE j = i /\ k = sent[i] + 1
    BY <1>6, <2>3
  <2>4. CASE ~ (j = i /\ k = sent[i] + 1)
    <3>1. k <= sent[j] \/ transactionWorker[j].status = "SUCCESS"
      <4>1. Events[transactionWorker[j].txHash] \in Nat /\ k \in Nat
        BY <2>1, BodyFacts
      <4> QED
        BY <1>3, <1>4, <2>4, <4>1
    <3>2. jobs[<<transactionWorker[j].txHash, k>>] > 0
      BY <3>1 DEF QueuedInv, SentQueued
    <3> QED
      BY <1>0, <1>1, <2>2, <3>2, JobsGrow
  <2> QED
    BY <2>3, <2>4
<1> QED
  BY <1>7, <1>8

(* A transaction is marked when all its events have been counted. *)
LEMMA QueuedDone ==
  ASSUME QueuedInv, NEW i \in DOMAIN transactionWorker, TxDone(i)
  PROVE  SentQueued' /\ RecordedIsQueued'
<1>0. [BDNext]_vars
  BY DEF BDNext, Transaction
<1>1. BDInv /\ CollectionTypes /\ ProcessTypes
  BY DEF QueuedInv, BDInv, TypeInv
<1>2. UNCHANGED <<blockdb, jobs, sent>>
  BY DEF TxDone
<1>3. /\ DOMAIN transactionWorker' = DOMAIN transactionWorker
      /\ \A j \in DOMAIN transactionWorker :
           /\ transactionWorker'[j].txHash = transactionWorker[j].txHash
           /\ transactionWorker'[j].status =
                IF j = i THEN "SUCCESS" ELSE transactionWorker[j].status
  BY <1>1, DoneResult
<1>4. transactionWorker[i].status = "SUCCESS" \/ sent[i] = Events[transactionWorker[i].txHash]
  BY DEF TxDone
<1>5. SentQueued'
  <2> SUFFICES ASSUME NEW j \in DOMAIN transactionWorker,
                      NEW k \in 1 .. Events[transactionWorker[j].txHash],
                      k <= sent[j] \/ transactionWorker'[j].status = "SUCCESS"
               PROVE  jobs[<<transactionWorker[j].txHash, k>>] > 0
    BY <1>2, <1>3 DEF SentQueued
  <2>1. k <= sent[j] \/ transactionWorker[j].status = "SUCCESS"
    <3>1. Events[transactionWorker[j].txHash] \in Nat /\ k <= Events[transactionWorker[j].txHash]
      BY <1>1, WorkerTypes
    <3> QED
      BY <1>3, <1>4, <3>1
  <2> QED
    BY <2>1 DEF QueuedInv, SentQueued
<1> QED
  BY <1>0, <1>2, <1>5, MarksStayQueued

(* A failed attempt counts from nothing again. *)
LEMMA QueuedFailed ==
  ASSUME QueuedInv, NEW i \in DOMAIN transactionWorker, TxFailed(i)
  PROVE  SentQueued' /\ RecordedIsQueued'
<1>0. [BDNext]_vars
  BY DEF BDNext, Transaction
<1>1. ProcessTypes
  BY DEF QueuedInv, BDInv, TypeInv
<1>2. UNCHANGED <<blockdb, jobs, transactionWorker>> /\ sent' = [sent EXCEPT ![i] = 0]
  BY DEF TxFailed
<1>3. \A j \in DOMAIN transactionWorker : sent'[j] = IF j = i THEN 0 ELSE sent[j]
  BY <1>1, <1>2 DEF ProcessTypes
<1>4. SentQueued'
  <2> SUFFICES ASSUME NEW j \in DOMAIN transactionWorker,
                      NEW k \in 1 .. Events[transactionWorker[j].txHash],
                      k <= sent'[j] \/ transactionWorker[j].status = "SUCCESS"
               PROVE  jobs[<<transactionWorker[j].txHash, k>>] > 0
    BY <1>2 DEF SentQueued
  <2>1. Events[transactionWorker[j].txHash] \in Nat /\ sent[j] \in Nat
    BY <1>1, WorkerTypes
  <2>2. k <= sent[j] \/ transactionWorker[j].status = "SUCCESS"
    BY <1>3, <2>1
  <2> QED
    BY <2>2 DEF QueuedInv, SentQueued
<1> QED
  BY <1>0, <1>2, <1>4, MarksStayQueued

(* The save writes the marks of process() into the collection. *)
LEMMA QueuedSave ==
  ASSUME QueuedInv, Save  PROVE SentQueued' /\ RecordedIsQueued'
<1>1. BDInv /\ CollectionTypes /\ ProcessTypes
  BY DEF QueuedInv, BDInv, TypeInv
<1>2. jobs' = jobs /\ transactionWorker' = <<>>
  BY DEF Save, Return
<1>3. RecordedIsQueued'
  <2> SUFFICES ASSUME NEW n \in DOMAIN blockdb', NEW e \in EventIds, Recorded(n, e[1])'
               PROVE  jobs[e] > 0
    BY <1>2 DEF RecordedIsQueued, EventIds
  <2>1. n \in DOMAIN blockdb
    BY <1>1, SaveDoes
  <2>2. CASE n # blockNumber
    BY <1>1, <2>1, <2>2, MarksSave DEF QueuedInv, RecordedIsQueued
  <2>3. CASE n = blockNumber
    <3>1. PICK i \in DOMAIN transactionWorker :
             transactionWorker[i].txHash = e[1] /\ transactionWorker[i].status = "SUCCESS"
      BY <1>1, <2>1, <2>3, MarksSave DEF Marked
    <3>2. e = <<e[1], e[2]>> /\ e[2] \in 1 .. Events[e[1]]
      BY EventIdsAre
    <3>3. jobs[<<e[1], e[2]>>] > 0
      BY <3>1, <3>2 DEF QueuedInv, SentQueued
    <3> QED
      BY <3>2, <3>3
  <2> QED
    BY <2>2, <2>3
<1>4. SentQueued'
  BY <1>2, NothingOfIt DEF SentQueued
<1> QED
  BY <1>3, <1>4

(* Every step keeps the marks behind the queues. *)
LEMMA QueuedStep == QueuedInv /\ [BDNext]_vars => QueuedInv'
<1> SUFFICES ASSUME QueuedInv, [BDNext]_vars  PROVE SentQueued' /\ RecordedIsQueued'
  BY BDInvStep DEF QueuedInv
<1>1. CASE OtherLoops \/ UNCHANGED vars \/ SliceDone
  BY <1>1, QueuedAside DEF OtherLoops, bdvars, proc, vars, SliceDone
<1>2. CASE SaveFailed \/ CrashRestart
  BY <1>2, QueuedAside DEF SaveFailed, CrashRestart, Return
<1> QED
  BY <1>1, <1>2, QueuedBegin, QueuedEnqueue, QueuedDone, QueuedFailed, QueuedSave
  DEF BDNext, Transaction

(* A transaction is marked SUCCESS in the collection only when each of its events
   is in its queue, whatever crashes and fails in between
   (block-detect.service.ts:249-289). *)
THEOREM RecordedCorrect == BDSpec => []RecordedIsQueued
<1>1. QueuedInv => RecordedIsQueued
  BY DEF QueuedInv
<1> QED
  BY <1>1, QueuedInit, QueuedStep, PTL DEF BDSpec
-----------------------------------------------------------------------------
(* A mark of a block is never taken back. *)
LEMMA SuccessesGrow ==
  ASSUME BDInv, [BDNext]_vars  PROVE Successes \subseteq Successes'
<1>1. CollectionTypes /\ ProcessTypes /\ WindowInv /\ PipelineKnown
  BY DEF BDInv, TypeInv
<1>2. CASE blockdb' = blockdb
  BY <1>2 DEF Successes
<1>3. CASE ProcessBegin
  BY <1>1, <1>3, BeginDoes DEF BeginResult, Successes
<1>4. CASE Save
  BY <1>1, <1>4, SaveDoes DEF Successes
<1> QED
  BY <1>2, <1>3, <1>4 DEF BDNext, OtherLoops, Transaction, EnqueueEvent, TxDone, TxFailed,
     SliceDone, SaveFailed, CrashRestart, bdvars, vars

(* The number a block is filed under is not below the start, nor below
   BEGIN_BLOCK. *)
LEMMA FiledHigh ==
  ASSUME BDInv, current # <<>>, current[1].status = "ACCEPTED"
  PROVE  current[1].height \in Nat /\ first <= current[1].height
<1>1. current = <<current[1]>> /\ current[1].height \in DOMAIN Body
  BY CurrentKnown DEF BDInv, TypeInv
<1>2. current[1].height \in Heights(current)
  <2>1. DOMAIN current = {1}
    BY <1>1
  <2> QED
    BY <2>1 DEF Heights
<1>3. current[1].height \in first .. (currentBlock - 1)
  BY <1>2 DEF BDInv, WindowInv, NothingMissing, Put, Requested, Answered, Fetched, InProcess
<1>4. first \in Nat /\ currentBlock \in Nat
  BY DEF BDInv, WindowInv, TypeOK
<1> QED
  BY <1>3, <1>4

(* BEGIN_BLOCK is on the chain when the worker starts. *)
LEMMA BeginInit == ASSUME ChainReachedBegin, BDInit  PROVE BeginKept
<1>1. /\ head \in InitHead /\ head \in Nat /\ first \in Starts /\ latestBlock = 0 /\ pendingBlock = 0
      /\ blockdb = <<>>
  BY ChainAssumption DEF BDInit, Init
<1>2. first = BeginBlock /\ BeginBlock \in Nat
  BY <1>1, BlockAssumption
<1> QED
  BY <1>1, <1>2, NothingOfIt DEF BeginKept, ChainReachedBegin

(* No number below BEGIN_BLOCK is ever filed: the chain and the answers of the
   RPC node stay beyond it, and a restart does not go back behind it. *)
LEMMA BeginStep ==
  ASSUME BDInv, BeginKept, [BDNext]_vars  PROVE BeginKept'
<1>1. /\ head \in Nat /\ DelayBlock \in Nat /\ RpcLag \in Nat /\ BeginBlock \in Nat
      /\ latestBlock \in Nat /\ pendingBlock \in Nat /\ first \in Nat
      /\ CollectionTypes
  BY ChainAssumption, BlockAssumption DEF BDInv, TypeInv, WindowInv, TypeOK
<1>2. /\ BeginBlock <= head - DelayBlock - RpcLag + 1 /\ BeginBlock <= first
      /\ latestBlock = 0 \/ BeginBlock <= latestBlock + 1
      /\ pendingBlock = 0 \/ BeginBlock <= pendingBlock
      /\ \A n \in DOMAIN blockdb : BeginBlock <= n
  BY DEF BeginKept
<1>3. \A n \in DOMAIN blockdb' : BeginBlock <= n
  <2>1. CASE ProcessBegin
    <3>1. BeginResult(current[1]) /\ current # <<>>
      BY <2>1, BeginDoes DEF BDInv, TypeInv, ProcessBegin
    <3>2. BeginBlock <= blockNumber'
      <4>1. CASE current[1].status = "ACCEPTED"
        BY <1>1, <1>2, <3>1, <4>1, FiledHigh DEF BeginResult
      <4>2. CASE current[1].status # "ACCEPTED"
        <5>1. pendingBlock # 0
          BY <3>1 DEF BDInv, TypeInv, PipelineKnown
        <5> QED
          BY <1>2, <3>1, <4>2, <5>1 DEF BeginResult
      <4> QED
        BY <4>1, <4>2
    <3> QED
      BY <1>2, <3>1, <3>2 DEF BeginResult
  <2>2. CASE Save
    BY <1>2, <2>2, SaveDoes DEF BDInv, TypeInv
  <2>3. CASE blockdb' = blockdb
    BY <1>2, <2>3
  <2> QED
    BY <2>1, <2>2, <2>3 DEF BDNext, OtherLoops, Transaction, EnqueueEvent, TxDone, TxFailed,
       SliceDone, SaveFailed, CrashRestart, bdvars, vars
<1>4. [Next]_wvars \/ CrashRestart
  BY PipelineStep
<1>5. CASE UNCHANGED <<head, first, latestBlock, pendingBlock>>
  BY <1>2, <1>3, <1>5 DEF BeginKept
<1>6. CASE NewBlock
  BY <1>1, <1>2, <1>3, <1>6 DEF NewBlock, numbering, BeginKept
<1>7. CASE FetchLatestBlock
  <2>1. PICK h \in (head - RpcLag) .. head : latestBlock' = h - DelayBlock
    BY <1>7 DEF FetchLatestBlock
  <2>2. UNCHANGED <<head, first, pendingBlock>>
    BY <1>7 DEF FetchLatestBlock, chain
  <2>3. BeginBlock <= latestBlock' + 1
    BY <1>1, <1>2, <2>1
  <2> QED
    BY <1>2, <1>3, <2>2, <2>3 DEF BeginKept
<1>8. CASE FetchTimeout
  BY <1>2, <1>3, <1>8 DEF FetchTimeout, chain, BeginKept
<1>9. CASE PutNumbers
  BY <1>2, <1>3, <1>9 DEF PutNumbers, chain, BeginKept
<1>10. CASE CrashRestart
  <2>1. head' = head /\ first' = Resume /\ latestBlock' = 0 /\ pendingBlock' = 0
    BY <1>10 DEF CrashRestart
  <2>2. BeginBlock <= Resume
    <3>1. CASE Successes = {}
      BY <1>1, <3>1, ResumePoint
    <3>2. CASE Successes # {}
      <4>1. Resume - 1 \in Successes /\ Resume \in Nat
        BY <1>1, <3>2, ResumePoint
      <4>2. Resume - 1 \in DOMAIN blockdb
        BY <4>1 DEF Successes
      <4>3. BeginBlock <= Resume - 1
        BY <1>2, <4>2
      <4> QED
        BY <1>1, <4>1, <4>3
    <3> QED
      BY <3>1, <3>2
  <2> QED
    BY <1>2, <1>3, <2>1, <2>2 DEF BeginKept
<1> QED
  BY <1>4, <1>5, <1>6, <1>7, <1>8, <1>9, <1>10 DEF Next, Fetching, Filling, TakeBatch,
     FillBlockDataBuffer, PutData, TakeData, ProcessDone, chain, numbering, wvars

(* A restart never goes back behind a block that was marked, when BEGIN_BLOCK was
   on the chain from the start.  (Else views of pending blocks below BEGIN_BLOCK
   are marked, and the next start goes back to them: block-detect.service.ts:69-76.) *)
THEOREM ResumeCorrect == ASSUME ChainReachedBegin  PROVE BDSpec => ResumeNeverFallsBack
<1>1. BDInv /\ BeginKept /\ BDInv' /\ BeginKept' /\ [BDNext]_vars => [Resume' >= Resume]_vars
  <2> SUFFICES ASSUME BDInv, BeginKept', BDInv', [BDNext]_vars  PROVE Resume' >= Resume
    OBVIOUS
  <2>1. /\ Resume \in Nat /\ Successes \subseteq Nat
        /\ Successes = {} => Resume = BeginBlock
        /\ Successes # {} => Resume - 1 \in Successes /\ \A n \in Successes : n <= Resume - 1
    BY ResumePoint, BodyFacts DEF BDInv, TypeInv
  <2>2. (CollectionTypes => /\ Resume \in Nat \ {0}
                            /\ Successes \subseteq DOMAIN Body
                            /\ Successes = {} => Resume = BeginBlock
                            /\ Successes # {} => /\ Resume - 1 \in Successes
                                                 /\ \A n \in Successes : n <= Resume - 1)'
    BY ResumePoint, PTL
  <2>3. /\ Resume' \in Nat /\ Successes' \subseteq DOMAIN blockdb'
        /\ Successes' = {} => Resume' = BeginBlock
        /\ Successes' # {} => Resume' - 1 \in Successes' /\ \A n \in Successes' : n <= Resume' - 1
    BY <2>2 DEF BDInv, TypeInv, Successes
  <2>4. Successes \subseteq Successes'
    BY SuccessesGrow
  <2>5. CASE Successes = {}
    <3>1. CASE Successes' = {}
      BY <2>1, <2>3, <2>5, <3>1
    <3>2. CASE Successes' # {}
      <4>1. BeginBlock <= Resume' - 1 /\ BeginBlock \in Nat
        BY <2>3, <3>2, BlockAssumption DEF BeginKept
      <4>2. PICK r \in Nat : r = Resume'
        BY <2>3
      <4>3. BeginBlock <= r - 1 /\ BeginBlock \in Nat
        BY <4>1, <4>2
      <4>4. r >= BeginBlock
        BY <4>3
      <4> QED
        BY <2>1, <2>5, <4>2, <4>4
    <3> QED
      BY <3>1, <3>2
  <2>6. CASE Successes # {}
    <3>1. Resume - 1 <= Resume' - 1
      BY <2>1, <2>3, <2>4, <2>6
    <3>2. PICK q \in Nat, r \in Nat : q = Resume /\ r = Resume'
      BY <2>1, <2>3
    <3>3. q - 1 <= r - 1
      BY <3>1, <3>2
    <3>4. r >= q
      BY <3>3
    <3> QED
      BY <3>2, <3>4
  <2> QED
    BY <2>5, <2>6
<1>2. BDInit => BeginKept
  BY BeginInit
<1>3. BDInv /\ BeginKept /\ [BDNext]_vars => BeginKept'
  BY BeginStep
<1> QED
  BY <1>1, <1>2, <1>3, BDInvInit, BDInvStep, PTL DEF BDSpec, ResumeNeverFallsBack
-----------------------------------------------------------------------------
(* What is marked stays marked, and process() knows the marks of its entry. *)
LEMMA RecordedKept ==
  ASSUME BDInv, MarksKnown, [BDNext]_vars, NEW n, NEW t, Recorded(n, t)
  PROVE  Recorded(n, t)'
<1>1. CollectionTypes /\ ProcessTypes
  BY DEF BDInv, TypeInv
<1>2. n \in DOMAIN blockdb
  BY DEF Recorded
<1>3. CASE ProcessBegin
  <2>1. n \in DOMAIN blockdb'
    BY <1>2, <1>3, BeginDoes DEF BDInv, TypeInv, BeginResult
  <2> QED
    BY <1>2, <1>3, <2>1, MarksBegin
<1>4. CASE Save
  <2>1. CASE n # blockNumber
    BY <1>2, <1>4, <2>1, MarksSave
  <2>2. CASE n = blockNumber
    <3>1. pc = "save"
      BY <1>4 DEF Save
    <3>2. PICK j \in DOMAIN blockdb[blockNumber].transactions :
             /\ blockdb[blockNumber].transactions[j].txHash = t
             /\ blockdb[blockNumber].transactions[j].status = "SUCCESS"
      BY <1>1, <1>2, <2>2, RecordedIs
    <3>3. \E i \in DOMAIN transactionWorker : transactionWorker[i].txHash = t /\ Marked(i)
      BY <3>1, <3>2 DEF MarksKnown, Marked
    <3> QED
      BY <1>2, <1>4, <2>2, <3>3, MarksSave
  <2> QED
    BY <2>1, <2>2
<1>5. CASE blockdb' = blockdb
  BY <1>5, MarksKept
<1> QED
  BY <1>3, <1>4, <1>5 DEF BDNext, OtherLoops, Transaction, EnqueueEvent, TxDone, TxFailed,
     SliceDone, SaveFailed, CrashRestart, bdvars, vars

(* Before the first block there is nothing to know. *)
LEMMA MarksKnownInit == BDInit => MarksKnown
  BY DEF BDInit, Idle, MarksKnown

(* process() keeps the marks it has found, and its entry gains none meanwhile. *)
LEMMA MarksKnownStep == BDInv /\ MarksKnown /\ [BDNext]_vars => MarksKnown'
<1> SUFFICES ASSUME BDInv, MarksKnown, [BDNext]_vars  PROVE MarksKnown'
  OBVIOUS
<1>1. CASE ProcessBegin
  <2>1. /\ BeginResult(current[1]) /\ pc' = "txs"
    BY <1>1, BeginDoes, BeginRest DEF BDInv, TypeInv
  <2>2. \A j \in DOMAIN blockdb'[blockNumber'].transactions :
          /\ j \in DOMAIN transactionWorker'
          /\ transactionWorker'[j] = blockdb'[blockNumber'].transactions[j]
    BY <2>1 DEF BeginResult
  <2> QED
    BY <2>2 DEF MarksKnown
<1>2. ASSUME NEW i \in DOMAIN transactionWorker, TxDone(i)  PROVE MarksKnown'
  <2>1. /\ DOMAIN transactionWorker' = DOMAIN transactionWorker
        /\ \A j \in DOMAIN transactionWorker :
             /\ transactionWorker'[j].txHash = transactionWorker[j].txHash
             /\ transactionWorker'[j].status =
                  IF j = i THEN "SUCCESS" ELSE transactionWorker[j].status
    BY <1>2, DoneResult DEF BDInv, TypeInv
  <2>2. UNCHANGED <<blockdb, blockNumber, pc>>
    BY <1>2 DEF TxDone
  <2> QED
    BY <2>1, <2>2 DEF MarksKnown
<1>3. CASE Save \/ SaveFailed \/ CrashRestart
  <2>1. pc' = "idle"
    BY <1>3 DEF Save, SaveFailed, CrashRestart, Return
  <2> QED
    BY <2>1 DEF MarksKnown
<1>4. CASE UNCHANGED <<blockdb, blockNumber, transactionWorker>> /\ (pc = "idle" => pc' = "idle")
  BY <1>4 DEF MarksKnown
<1> QED
  BY <1>1, <1>2, <1>3, <1>4 DEF BDNext, OtherLoops, Transaction, EnqueueEvent, TxFailed,
     SliceDone, bdvars, proc, vars
-----------------------------------------------------------------------------
(* Which block a transaction is of, in the lists. *)
LEMMA OriginsInit == BDInit => Origins
<1> SUFFICES ASSUME BDInit  PROVE Origins
  OBVIOUS
<1>1. transactionWorker = <<>> /\ blockdb = <<>>
  BY DEF BDInit, Idle
<1> QED
  BY <1>1, NothingOfIt DEF Origins

(* What a list gains is of the block that is filed, or was in the list. *)
LEMMA OriginsStep == BDInv /\ Origins /\ [BDNext]_vars => Origins'
<1> SUFFICES ASSUME BDInv, Origins, [BDNext]_vars  PROVE Origins'
  OBVIOUS
<1>1. CASE ProcessBegin
  <2> DEFINE b == current[1]
  <2>1. /\ BeginResult(b) /\ current # <<>>
        /\ misfiled' = IF b.height = blockNumber' THEN misfiled
                       ELSE misfiled \union {<<b.height, blockNumber'>>}
    BY <1>1, BeginDoes, BeginRest DEF BDInv, TypeInv
  <2>2. b.height \in DOMAIN Body
    BY <2>1, CurrentKnown DEF BDInv, TypeInv
  <2> HIDE DEF b
  <2>3. \A n, t : OriginOf(n, t) => OriginOf(n, t)'
    BY <2>1 DEF OriginOf, Height
  <2>4. ASSUME NEW i \in DOMAIN transactionWorker', NEW n, n = blockNumber',
               NEW t, t = transactionWorker'[i].txHash
        PROVE  OriginOf(n, t)'
    <3>1. CASE n \in DOMAIN blockdb /\ i \in DOMAIN blockdb[n].transactions
      <4>1. transactionWorker'[i] = blockdb[n].transactions[i]
        BY <2>1, <2>4, <3>1 DEF BeginResult
      <4>2. OriginOf(n, t)
        BY <2>4, <3>1, <4>1 DEF Origins
      <4> QED
        BY <2>3, <4>2
    <3>2. CASE \E j \in DOMAIN Body[b.height] : transactionWorker'[i].txHash = Body[b.height][j]
      <4>1. b.height \in Height(t)
        BY <2>2, <2>4, <3>2 DEF Height
      <4>2. b.height = n \/ <<b.height, n>> \in misfiled'
        BY <2>1, <2>4
      <4> QED
        BY <4>1, <4>2 DEF OriginOf, Height
    <3> QED
      BY <2>1, <2>4, <3>1, <3>2 DEF BeginResult
  <2>5. ASSUME NEW n \in DOMAIN blockdb', NEW i \in DOMAIN blockdb'[n].transactions,
               NEW t, t = blockdb'[n].transactions[i].txHash
        PROVE  OriginOf(n, t)'
    <3>1. CASE n \in DOMAIN blockdb
      <4>1. blockdb'[n] = blockdb[n]
        BY <2>1, <3>1 DEF BeginResult
      <4>2. OriginOf(n, t)
        BY <2>5, <3>1, <4>1 DEF Origins
      <4> QED
        BY <2>3, <4>2
    <3>2. CASE n \notin DOMAIN blockdb
      <4>1. n = blockNumber' /\ blockdb'[n].transactions = transactionWorker'
        BY <2>1, <2>5, <3>2 DEF BeginResult
      <4> QED
        BY <2>4, <2>5, <4>1
    <3> QED
      BY <3>1, <3>2
  <2>6. \A i \in DOMAIN transactionWorker' : OriginOf(blockNumber, transactionWorker[i].txHash)'
    <3> SUFFICES ASSUME NEW i \in DOMAIN transactionWorker'
                 PROVE  \E h \in Height(transactionWorker'[i].txHash) :
                           h = blockNumber' \/ <<h, blockNumber'>> \in misfiled'
      BY DEF OriginOf, Height
    <3>1. PICK n, t : n = blockNumber' /\ t = transactionWorker'[i].txHash
      OBVIOUS
    <3>2. OriginOf(n, t)'
      BY <2>4, <3>1
    <3> QED
      BY <3>1, <3>2 DEF OriginOf, Height
  <2>7. \A n \in DOMAIN blockdb' : \A i \in DOMAIN blockdb'[n].transactions :
          OriginOf(n, blockdb[n].transactions[i].txHash)'
    <3> SUFFICES ASSUME NEW n \in DOMAIN blockdb', NEW i \in DOMAIN blockdb'[n].transactions
                 PROVE  \E h \in Height(blockdb'[n].transactions[i].txHash) :
                           h = n \/ <<h, n>> \in misfiled'
      BY DEF OriginOf, Height
    <3>1. PICK t : t = blockdb'[n].transactions[i].txHash
      OBVIOUS
    <3>2. OriginOf(n, t)'
      BY <2>5, <3>1
    <3> QED
      BY <3>1, <3>2 DEF OriginOf, Height
  <2> QED
    BY <2>6, <2>7 DEF Origins
<1>2. ASSUME NEW i \in DOMAIN transactionWorker, TxDone(i)  PROVE Origins'
  <2>1. /\ DOMAIN transactionWorker' = DOMAIN transactionWorker
        /\ \A j \in DOMAIN transactionWorker :
             transactionWorker'[j].txHash = transactionWorker[j].txHash
    BY <1>2, DoneResult DEF BDInv, TypeInv
  <2>2. UNCHANGED <<blockdb, blockNumber, misfiled>>
    BY <1>2 DEF TxDone
  <2> QED
    BY <2>1, <2>2 DEF Origins, OriginOf, Height
<1>3. CASE Save
  <2>1. /\ DOMAIN blockdb' = DOMAIN blockdb
        /\ \A n \in DOMAIN blockdb : n # blockNumber => blockdb'[n] = blockdb[n]
        /\ blockdb'[blockNumber].transactions = transactionWorker
    BY <1>3, SaveDoes DEF BDInv, TypeInv
  <2>2. transactionWorker' = <<>> /\ misfiled' = misfiled
    BY <1>3 DEF Save, Return
  <2>3. \A n \in DOMAIN blockdb' : \A i \in DOMAIN blockdb'[n].transactions :
          OriginOf(n, blockdb'[n].transactions[i].txHash)
    BY <2>1 DEF Origins
  <2>4. \A n, t : OriginOf(n, t) => OriginOf(n, t)'
    BY <2>2 DEF OriginOf, Height
  <2>5. DOMAIN transactionWorker' = {}
    BY <2>2, NothingOfIt
  <2>6. \A n \in DOMAIN blockdb' : \A i \in DOMAIN blockdb'[n].transactions :
          OriginOf(n, blockdb[n].transactions[i].txHash)'
    BY <2>2, <2>3 DEF OriginOf, Height
  <2> QED
    BY <2>5, <2>6 DEF Origins
<1>4. CASE SaveFailed \/ CrashRestart
  <2>1. UNCHANGED <<blockdb, misfiled>> /\ transactionWorker' = <<>>
    BY <1>4 DEF SaveFailed, CrashRestart, Return
  <2> QED
    BY <2>1, NothingOfIt DEF Origins, OriginOf, Height
<1>5. CASE UNCHANGED <<blockdb, blockNumber, transactionWorker, misfiled>>
  BY <1>5 DEF Origins, OriginOf, Height
<1> QED
  BY <1>1, <1>2, <1>3, <1>4, <1>5 DEF BDNext, OtherLoops, Transaction, EnqueueEvent, TxFailed,
     SliceDone, bdvars, proc, vars
-----------------------------------------------------------------------------
(* The numbers an event was queued under are finitely many. *)
LEMMA HomesFinite ==
  BDInv => \A e \in EventIds : IsFiniteSet(Homes(e)) /\ Cardinality(Homes(e)) \in Nat
<1> SUFFICES ASSUME BDInv, NEW e \in EventIds
             PROVE  IsFiniteSet(Homes(e)) /\ Cardinality(Homes(e)) \in Nat
  OBVIOUS
<1>1. Homes(e) \subseteq 1 .. (MaxHead + 1)
  BY BodyFacts DEF BDInv, TypeInv, CollectionTypes, Homes
<1>2. IsFiniteSet(1 .. (MaxHead + 1))
  BY BodyFacts, FS_Interval
<1>3. IsFiniteSet(Homes(e))
  BY <1>1, <1>2, FS_Subset
<1> QED
  BY <1>3, FS_CardinalityType

(* The same of the next state. *)
LEMMA HomesFinitePrimed ==
  (BDInv => \A e \in EventIds : IsFiniteSet(Homes(e)) /\ Cardinality(Homes(e)) \in Nat)'
BY HomesFinite, PTL

(* The same, event by event. *)
LEMMA HomesFiniteNext ==
  ASSUME BDInv', NEW e \in EventIds
  PROVE  IsFiniteSet(Homes(e)') /\ Cardinality(Homes(e)') \in Nat
<1>1. EventIds' = EventIds
  BY DEF EventIds
<1> QED
  BY <1>1, HomesFinitePrimed

(* The faults that have happened. *)
Faults == crashes + saveFailures + txFailures

(* A step that queues nothing may add numbers, or forget one for a fault. *)
LEMMA Budget ==
  ASSUME BDInv, BDInv', JobsBounded, NEW e \in EventIds, jobs'[e] = jobs[e], NEW x,
         \/ Faults' = Faults /\ Homes(e) \subseteq Homes(e)'
         \/ Faults' = Faults + 1 /\ Homes(e) \ {x} \subseteq Homes(e)'
  PROVE  jobs'[e] <= Faults' + Cardinality(Homes(e)')
<1> DEFINE H == Homes(e)
           J == Homes(e)'
<1>1. IsFiniteSet(H) /\ Cardinality(H) \in Nat
  BY HomesFinite
<1>2. IsFiniteSet(J) /\ Cardinality(J) \in Nat
  BY HomesFiniteNext
<1>3. Faults \in Nat /\ Faults' \in Nat /\ jobs[e] \in Nat /\ jobs[e] <= Faults + Cardinality(H)
  <2>1. Faults \in Nat /\ Faults' \in Nat /\ jobs[e] \in Nat
    <3>1. crashes \in Nat /\ saveFailures \in Nat /\ txFailures \in Nat
      BY DEF BDInv, TypeInv, CollectionTypes
    <3>2. crashes' \in Nat /\ saveFailures' \in Nat /\ txFailures' \in Nat
      BY DEF BDInv, TypeInv, CollectionTypes
    <3>3. jobs \in [EventIds -> Nat]
      BY DEF BDInv, TypeInv, CollectionTypes
    <3>4. jobs[e] \in Nat
      BY <3>3
    <3>5. Faults \in Nat
      BY <3>1 DEF Faults
    <3>6. Faults' \in Nat
      <4>1. PICK a \in Nat, b \in Nat, c \in Nat :
               a = crashes' /\ b = saveFailures' /\ c = txFailures'
        BY <3>2
      <4>2. Faults' = a + b + c
        BY <4>1 DEF Faults
      <4> QED
        BY <4>2
    <3> QED
      BY <3>4, <3>5, <3>6
  <2>2. jobs[e] <= Faults + Cardinality(Homes(e))
    BY DEF Faults, JobsBounded
  <2> QED
    BY <2>1, <2>2
<1> HIDE DEF H, J, Faults
<1>4. CASE Faults' = Faults /\ H \subseteq J
  <2>1. Cardinality(H) <= Cardinality(J)
    BY <1>2, <1>4, FS_Subset
  <2> QED
    BY <1>1, <1>2, <1>3, <1>4, <2>1 DEF J
<1>5. CASE Faults' = Faults + 1 /\ H \ {x} \subseteq J
  <2>1. /\ IsFiniteSet(H \ {x})
        /\ Cardinality(H \ {x}) = IF x \in H THEN Cardinality(H) - 1 ELSE Cardinality(H)
    BY <1>1, FS_RemoveElement
  <2>2. Cardinality(H \ {x}) <= Cardinality(J)
    BY <1>2, <1>5, FS_Subset
  <2>3. Cardinality(H) <= Cardinality(J) + 1
    BY <1>1, <1>2, <2>1, <2>2
  <2> QED
    BY <1>1, <1>2, <1>3, <1>5, <2>3 DEF J
<1> QED
  BY <1>4, <1>5 DEF H, J

DupInv == BDInv /\ MarksKnown /\ JobsBounded

(* Nothing is queued when the worker starts. *)
LEMMA DupInit == BDInit => JobsBounded
<1> SUFFICES ASSUME BDInit, NEW e \in EventIds
             PROVE  jobs[e] <= crashes + saveFailures + txFailures + Cardinality(Homes(e))
  BY DEF JobsBounded
<1>1. jobs[e] = 0 /\ crashes = 0 /\ saveFailures = 0 /\ txFailures = 0
  BY DEF BDInit
<1>2. Cardinality(Homes(e)) \in Nat
  BY BDInvInit, HomesFinite
<1> QED
  BY <1>1, <1>2

(* What JobsBounded says of the next state, event by event. *)
LEMMA JobsBoundedNext ==
  ASSUME \A e \in EventIds : jobs'[e] <= Faults' + Cardinality(Homes(e)')
  PROVE  JobsBounded'
  BY DEF JobsBounded, Faults, EventIds

(* Outside of process() only marks count. *)
LEMMA IdleHomes ==
  ASSUME transactionWorker = <<>>, NEW e, NEW n \in Homes(e)  PROVE Recorded(n, e[1])
  BY NothingOfIt DEF Homes, CountedNow

(* A new entry has no marks, and the other entries keep theirs. *)
LEMMA DupBegin ==
  ASSUME DupInv, BDInv', ProcessBegin  PROVE JobsBounded'
<1>1. transactionWorker = <<>>
  BY DEF ProcessBegin, DupInv, BDInv, TypeInv, ProcessTypes, Idle
<1>2. BeginResult(current[1]) /\ UNCHANGED <<jobs, crashes, saveFailures, txFailures>>
  BY BeginDoes, BeginRest DEF DupInv, BDInv, TypeInv
<1>3. ASSUME NEW e \in EventIds  PROVE Homes(e) \subseteq Homes(e)'
  <2> SUFFICES ASSUME NEW n \in Homes(e)  PROVE n \in Homes(e)'
    OBVIOUS
  <2>1. n \in DOMAIN blockdb /\ Recorded(n, e[1])
    BY <1>1, IdleHomes DEF Homes
  <2>2. n \in DOMAIN blockdb'
    BY <1>2, <2>1 DEF BeginResult
  <2>3. Recorded(n, e[1])'
    BY <2>1, <2>2, MarksBegin DEF DupInv
  <2> QED
    BY <2>2, <2>3 DEF Homes
<1>4. Faults' = Faults
  BY <1>2 DEF Faults
<1>5. \A e \in EventIds : jobs'[e] <= Faults' + Cardinality(Homes(e)')
  BY <1>2, <1>3, <1>4, Budget DEF DupInv
<1> QED
  BY <1>5, JobsBoundedNext

(* process() queues an event under a number it was not queued under before. *)
LEMMA DupEnqueue ==
  ASSUME DupInv, BDInv', NEW i \in DOMAIN transactionWorker, EnqueueEvent(i)
  PROVE  JobsBounded'
<1> DEFINE t == transactionWorker[i].txHash
<1>1. BDInv /\ CollectionTypes /\ ProcessTypes
  BY DEF DupInv, BDInv, TypeInv
<1>2. /\ pc = "txs" /\ transactionWorker[i].status = "PENDING" /\ sent[i] < Events[t]
      /\ sent' = [sent EXCEPT ![i] = sent[i] + 1]
      /\ jobs' = [jobs EXCEPT ![<<t, sent'[i]>>] = jobs[<<t, sent'[i]>>] + 1]
      /\ UNCHANGED <<blockdb, transactionWorker, blockNumber, crashes, saveFailures, txFailures>>
  BY DEF EnqueueEvent, Running, faults
<1>3. /\ t \in Tx /\ sent[i] \in Nat /\ Events[t] \in Nat
      /\ sent \in [DOMAIN transactionWorker -> Nat] /\ Distinct(transactionWorker)
  BY <1>1, WorkerTypes DEF ProcessTypes
<1>4. sent'[i] = sent[i] + 1 /\ \A j \in DOMAIN transactionWorker : j # i => sent'[j] = sent[j]
  BY <1>2, <1>3
<1>5. PICK d \in EventIds : d = <<t, sent[i] + 1>>
  BY <1>2, <1>3, EventIdsAre
<1>6. /\ jobs'[d] = jobs[d] + 1
      /\ \A e \in EventIds : e # d => jobs'[e] = jobs[e]
  <2>1. jobs \in [EventIds -> Nat]
    BY <1>1 DEF CollectionTypes
  <2> QED
    BY <1>2, <1>4, <1>5, <2>1
<1>7. blockNumber \in DOMAIN blockdb
  BY <1>1, <1>2 DEF ProcessTypes
<1>8. ASSUME NEW e \in EventIds  PROVE Homes(e) \subseteq Homes(e)'
  <2> SUFFICES ASSUME NEW n \in Homes(e)  PROVE n \in Homes(e)'
    OBVIOUS
  <2>1. Recorded(n, e[1]) => Recorded(n, e[1])'
    BY <1>2, MarksKept
  <2>2. \A j \in DOMAIN transactionWorker : sent[j] \in Nat /\ sent'[j] \in Nat /\ sent[j] <= sent'[j]
    BY <1>3, <1>4
  <2>3. e[2] \in Nat
    <3>1. e[1] \in Tx /\ e[2] \in 1 .. Events[e[1]]
      BY EventIdsAre
    <3> QED
      BY <3>1, BodyFacts
  <2>4. \A j \in DOMAIN transactionWorker : e[2] <= sent[j] => e[2] <= sent'[j]
    BY <2>2, <2>3
  <2>5. CountedNow(e) => CountedNow(e)'
    BY <1>2, <2>4 DEF CountedNow
  <2> QED
    BY <1>2, <2>1, <2>5 DEF Homes
<1>9. blockNumber \notin Homes(d) /\ blockNumber \in Homes(d)'
  <2>1. \A j \in DOMAIN transactionWorker : transactionWorker[j].txHash = t => j = i
    BY <1>3 DEF Distinct
  <2>2. ~ CountedNow(d)
    BY <1>2, <1>3, <1>5, <2>1 DEF CountedNow
  <2>3. ~ Recorded(blockNumber, t)
    <3> SUFFICES ASSUME Recorded(blockNumber, t)  PROVE FALSE
      OBVIOUS
    <3>1. PICK j \in DOMAIN blockdb[blockNumber].transactions :
             /\ blockdb[blockNumber].transactions[j].txHash = t
             /\ blockdb[blockNumber].transactions[j].status = "SUCCESS"
      BY <1>1, <1>7, RecordedIs
    <3>2. PICK j2 \in DOMAIN transactionWorker :
             transactionWorker[j2].txHash = t /\ transactionWorker[j2].status = "SUCCESS"
      BY <1>2, <3>1 DEF DupInv, MarksKnown
    <3> QED
      BY <1>2, <2>1, <3>2
  <2>4. CountedNow(d)'
    <3>1. transactionWorker'[i].txHash = d[1] /\ d[2] <= sent'[i] /\ i \in DOMAIN transactionWorker'
      BY <1>2, <1>3, <1>4, <1>5
    <3> QED
      BY <3>1 DEF CountedNow
  <2> QED
    BY <1>2, <1>5, <1>7, <2>2, <2>3, <2>4 DEF Homes
<1>10. Faults' = Faults /\ Faults \in Nat
  BY <1>1, <1>2 DEF Faults, CollectionTypes
<1>11. ASSUME NEW e \in EventIds, e # d
       PROVE  jobs'[e] <= Faults' + Cardinality(Homes(e)')
  BY <1>6, <1>8, <1>10, <1>11, Budget DEF DupInv
<1>12. jobs'[d] <= Faults' + Cardinality(Homes(d)')
  <2> DEFINE H == Homes(d)
             J == Homes(d)'
  <2>1. IsFiniteSet(H) /\ Cardinality(H) \in Nat
    BY <1>1, <1>5, HomesFinite
  <2>2. IsFiniteSet(J) /\ Cardinality(J) \in Nat
    BY <1>5, HomesFiniteNext
  <2>3. jobs[d] \in Nat /\ jobs[d] <= Faults + Cardinality(H)
    BY <1>1, <1>5 DEF CollectionTypes, DupInv, JobsBounded, Faults
  <2>4. blockNumber \notin H /\ H \union {blockNumber} \subseteq J
    BY <1>5, <1>8, <1>9
  <2> HIDE DEF H, J
  <2>5. Cardinality(H \union {blockNumber}) = Cardinality(H) + 1
    BY <2>1, <2>4, FS_AddElement
  <2>6. Cardinality(H) + 1 <= Cardinality(J)
    BY <2>2, <2>4, <2>5, FS_Subset
  <2>7. jobs[d] + 1 <= Faults + Cardinality(J)
    BY <1>10, <2>1, <2>2, <2>3, <2>6
  <2> QED
    BY <1>6, <1>10, <2>7 DEF J
<1>13. \A e \in EventIds : jobs'[e] <= Faults' + Cardinality(Homes(e)')
  BY <1>11, <1>12
<1> QED
  BY <1>13, JobsBoundedNext

(* A step that queues nothing, for every event. *)
LEMMA DupKept ==
  ASSUME DupInv, BDInv', jobs' = jobs, NEW x,
         \A e \in EventIds : \/ Faults' = Faults /\ Homes(e) \subseteq Homes(e)'
                             \/ Faults' = Faults + 1 /\ Homes(e) \ {x} \subseteq Homes(e)'
  PROVE  JobsBounded'
<1>1. ASSUME NEW e \in EventIds  PROVE jobs'[e] <= Faults' + Cardinality(Homes(e)')
  BY Budget DEF DupInv
<1> QED
  BY <1>1, JobsBoundedNext

(* The other loops, and the end of a slice. *)
LEMMA DupAside ==
  ASSUME DupInv, BDInv', OtherLoops \/ SliceDone \/ UNCHANGED vars  PROVE JobsBounded'
<1>1. UNCHANGED <<blockdb, jobs, blockNumber, transactionWorker, sent,
                  crashes, saveFailures, txFailures>>
  BY DEF OtherLoops, SliceDone, bdvars, proc, faults, vars
<1>2. Faults' = Faults
  BY <1>1 DEF Faults
<1>3. ASSUME NEW e \in EventIds  PROVE Homes(e) \subseteq Homes(e)'
  BY <1>1, MarksKept DEF Homes, CountedNow
<1> QED
  BY <1>1, <1>2, <1>3, DupKept

(* A transaction that is done counts as queued from now on, as it did. *)
LEMMA DupDone ==
  ASSUME DupInv, BDInv', NEW i \in DOMAIN transactionWorker, TxDone(i)  PROVE JobsBounded'
<1>1. UNCHANGED <<blockdb, jobs, blockNumber, sent, crashes, saveFailures, txFailures>>
  BY DEF TxDone, faults
<1>2. /\ DOMAIN transactionWorker' = DOMAIN transactionWorker
      /\ \A j \in DOMAIN transactionWorker :
           /\ transactionWorker'[j].txHash = transactionWorker[j].txHash
           /\ transactionWorker'[j].status =
                IF j = i THEN "SUCCESS" ELSE transactionWorker[j].status
  BY DoneResult DEF DupInv, BDInv, TypeInv
<1>3. Faults' = Faults
  BY <1>1 DEF Faults
<1>4. ASSUME NEW e \in EventIds  PROVE Homes(e) \subseteq Homes(e)'
  <2>1. CountedNow(e) => CountedNow(e)'
    BY <1>1, <1>2 DEF CountedNow
  <2>2. \A n : Recorded(n, e[1]) => Recorded(n, e[1])'
    BY <1>1, MarksKept
  <2> QED
    BY <1>1, <2>1, <2>2 DEF Homes
<1> QED
  BY <1>1, <1>3, <1>4, DupKept

(* A failed attempt, a failed save or a crash forgets what process() has counted,
   which is under one number. *)
LEMMA DupForgotten ==
  ASSUME DupInv, BDInv',
         SaveFailed \/ CrashRestart \/ \E i \in DOMAIN transactionWorker : TxFailed(i)
  PROVE  JobsBounded'
<1>1. UNCHANGED <<blockdb, jobs>>
  BY DEF SaveFailed, CrashRestart, TxFailed
<1>2. Faults' = Faults + 1
  <2>1. PICK a \in Nat, b \in Nat, c \in Nat : a = crashes /\ b = saveFailures /\ c = txFailures
    BY DEF DupInv, BDInv, TypeInv, CollectionTypes
  <2>2. Faults = a + b + c
    BY <2>1 DEF Faults
  <2>3. CASE crashes' = a + 1 /\ saveFailures' = b /\ txFailures' = c
    <3>1. Faults' = (a + 1) + b + c
      BY <2>3 DEF Faults
    <3> QED
      BY <2>2, <3>1
  <2>4. CASE crashes' = a /\ saveFailures' = b + 1 /\ txFailures' = c
    <3>1. Faults' = a + (b + 1) + c
      BY <2>4 DEF Faults
    <3> QED
      BY <2>2, <3>1
  <2>5. CASE crashes' = a /\ saveFailures' = b /\ txFailures' = c + 1
    <3>1. Faults' = a + b + (c + 1)
      BY <2>5 DEF Faults
    <3> QED
      BY <2>2, <3>1
  <2> QED
    BY <2>1, <2>3, <2>4, <2>5 DEF SaveFailed, CrashRestart, TxFailed
<1>3. ASSUME NEW e \in EventIds  PROVE Homes(e) \ {blockNumber} \subseteq Homes(e)'
  BY <1>1, MarksKept DEF Homes
<1> QED
  BY <1>1, <1>2, <1>3, DupKept

(* What process() has counted it marks when it saves. *)
LEMMA DupSave ==
  ASSUME DupInv, BDInv', Save  PROVE JobsBounded'
<1>1. UNCHANGED <<jobs, crashes, saveFailures, txFailures>> /\ pc = "save"
  BY DEF Save, faults
<1>2. Faults' = Faults
  BY <1>1 DEF Faults
<1>3. ASSUME NEW e \in EventIds  PROVE Homes(e) \subseteq Homes(e)'
  <2> SUFFICES ASSUME NEW n \in Homes(e)  PROVE n \in Homes(e)'
    OBVIOUS
  <2>1. n \in DOMAIN blockdb
    BY DEF Homes
  <2>2. n \in DOMAIN blockdb'
    BY <2>1, MarksSave DEF DupInv
  <2>3. CASE Recorded(n, e[1])
    <3>1. Recorded(n, e[1])'
      BY <2>3, RecordedKept DEF DupInv, BDNext
    <3> QED
      BY <2>2, <3>1 DEF Homes
  <2>4. CASE n = blockNumber /\ CountedNow(e)
    <3>1. PICK i \in DOMAIN transactionWorker :
             /\ transactionWorker[i].txHash = e[1]
             /\ e[2] <= sent[i] \/ transactionWorker[i].status = "SUCCESS"
      BY <2>4 DEF CountedNow
    <3>2. e[2] \in Nat /\ e[2] >= 1
      <4>1. e[1] \in Tx /\ e[2] \in 1 .. Events[e[1]]
        BY EventIdsAre
      <4> QED
        BY <4>1, BodyFacts
    <3>3. transactionWorker[i].status = "SUCCESS"
      <4>1. tries[i] # 0 /\ (transactionWorker[i].status = "PENDING" => sent[i] = 0)
        BY <1>1 DEF DupInv, BDInv, TypeInv, Attempts
      <4>2. transactionWorker[i].status \in {"PENDING", "SUCCESS"}
        BY WorkerTypes DEF DupInv, BDInv, TypeInv
      <4> QED
        BY <3>1, <3>2, <4>1, <4>2
    <3>4. Recorded(n, e[1])'
      BY <2>1, <2>4, <3>1, <3>3, MarksSave DEF DupInv, Marked
    <3> QED
      BY <2>2, <3>4 DEF Homes
  <2> QED
    BY <2>3, <2>4 DEF Homes
<1> QED
  BY <1>1, <1>2, <1>3, DupKept

(* Every step keeps the bound. *)
LEMMA DupStep == DupInv /\ [BDNext]_vars => DupInv'
<1> SUFFICES ASSUME DupInv, [BDNext]_vars  PROVE DupInv'
  OBVIOUS
<1>1. BDInv' /\ MarksKnown'
  BY BDInvStep, MarksKnownStep DEF DupInv
<1>2. JobsBounded'
  BY <1>1, DupBegin, DupEnqueue, DupAside, DupDone, DupForgotten, DupSave DEF BDNext, Transaction
<1> QED
  BY <1>1, <1>2 DEF DupInv

(* A block is misfiled finitely often. *)
LEMMA MisfilingsFinite ==
  ASSUME BDInv, NEW t  PROVE IsFiniteSet(Misfilings(t))
<1>1. IsFiniteSet(DOMAIN Body)
  <2>1. DOMAIN Body = 1 .. (MaxHead + 1) /\ MaxHead + 1 \in Int
    BY BodyFacts
  <2>2. IsFiniteSet(1 .. (MaxHead + 1))
    BY <2>1, FS_Interval
  <2> QED
    BY <2>1, <2>2
<1>2. IsFiniteSet((DOMAIN Body) \X (DOMAIN Body))
  BY <1>1, FS_Product
<1>3. Misfilings(t) \subseteq (DOMAIN Body) \X (DOMAIN Body)
  BY DEF BDInv, TypeInv, CollectionTypes, Misfilings
<1> QED
  BY <1>2, <1>3, FS_Subset

(* Beside the number of its block, an event has been queued under no more numbers
   than its block has been misfiled under. *)
LEMMA HomesOfBlock ==
  ASSUME BDInv, Origins, NEW e \in EventIds
  PROVE  Cardinality(Homes(e)) <= 1 + Cardinality(Misfilings(e[1]))
<1> DEFINE M == Misfilings(e[1])
           f == [m \in M |-> m[2]]
           R == {m[2] : m \in M}
<1>1. IsFiniteSet(M)
  BY MisfilingsFinite
<1>2. IsFiniteSet(R) /\ Cardinality(R) <= Cardinality(M)
  <2>1. f \in Surjection(M, R)
    BY DEF Surjection
  <2> QED
    BY <1>1, <2>1, FS_Surjection
<1>3. Cardinality(M) \in Nat /\ Cardinality(R) \in Nat
  BY <1>1, <1>2, FS_CardinalityType
<1>4. ASSUME NEW n \in Homes(e)  PROVE OriginOf(n, e[1])
  <2>1. CASE Recorded(n, e[1])
    <3>1. n \in DOMAIN blockdb
      BY DEF Homes
    <3>2. PICK i \in DOMAIN blockdb[n].transactions : blockdb[n].transactions[i].txHash = e[1]
      BY <2>1, <3>1, RecordedIs DEF BDInv, TypeInv
    <3> QED
      BY <3>1, <3>2 DEF Origins
  <2>2. CASE n = blockNumber /\ CountedNow(e)
    <3>1. PICK i \in DOMAIN transactionWorker : transactionWorker[i].txHash = e[1]
      BY <2>2 DEF CountedNow
    <3> QED
      BY <2>2, <3>1 DEF Origins
  <2> QED
    BY <2>1, <2>2 DEF Homes
<1>5. CASE Homes(e) = {}
  BY <1>3, <1>5, FS_EmptySet
<1>6. CASE Homes(e) # {}
  <2>1. PICK h \in Height(e[1]) : TRUE
    BY <1>4, <1>6 DEF OriginOf
  <2>2. \A k \in Height(e[1]) : k = h
    BY <2>1, BlockAssumption DEF Height
  <2>3. Homes(e) \subseteq R \union {h}
    <3> SUFFICES ASSUME NEW n \in Homes(e), n # h  PROVE n \in R
      OBVIOUS
    <3>1. PICK k \in Height(e[1]) : k = n \/ <<k, n>> \in misfiled
      BY <1>4 DEF OriginOf
    <3>2. <<h, n>> \in M
      BY <2>1, <2>2, <3>1 DEF Misfilings
    <3>3. <<h, n>>[2] = n
      OBVIOUS
    <3> QED
      BY <3>2, <3>3
  <2> HIDE DEF R, M
  <2>4. /\ IsFiniteSet(R \union {h})
        /\ Cardinality(R \union {h}) = IF h \in R THEN Cardinality(R) ELSE Cardinality(R) + 1
    BY <1>2, FS_AddElement
  <2>5. Cardinality(Homes(e)) <= Cardinality(R \union {h})
    BY <2>3, <2>4, FS_Subset
  <2>6. Cardinality(Homes(e)) \in Nat
    BY HomesFinite
  <2>7. Cardinality(Homes(e)) <= 1 + Cardinality(M)
    BY <1>2, <1>3, <2>4, <2>5, <2>6
  <2> QED
    BY <2>7 DEF M
<1> QED
  BY <1>5, <1>6

(* An event is queued once, and once more only for a crash, a failed save, a
   failed transaction, or a number its block was misfiled under: process() marks
   what it has queued, and queues nothing that is marked under the number it
   works on (block-detect.service.ts:157-161, 204-206, 283-289). *)
THEOREM DuplicatesCorrect == BDSpec => []DuplicatesHaveCause
<1>1. BDInit => DupInv /\ Origins
  BY BDInvInit, MarksKnownInit, DupInit, OriginsInit DEF DupInv
<1>2. DupInv /\ Origins /\ [BDNext]_vars => (DupInv /\ Origins)'
  BY DupStep, OriginsStep DEF DupInv
<1>3. DupInv /\ Origins => DuplicatesHaveCause
  <2> SUFFICES ASSUME DupInv, Origins, NEW e \in EventIds
               PROVE  jobs[e] <= 1 + crashes + saveFailures + txFailures
                                   + Cardinality(Misfilings(e[1]))
    BY DEF DuplicatesHaveCause
  <2>1. PICK a \in Nat, b \in Nat, c \in Nat, j \in Nat :
           a = crashes /\ b = saveFailures /\ c = txFailures /\ j = jobs[e]
    BY DEF DupInv, BDInv, TypeInv, CollectionTypes
  <2>2. PICK p \in Nat : p = Cardinality(Homes(e))
    BY HomesFinite DEF DupInv
  <2>3. IsFiniteSet(Misfilings(e[1]))
    BY MisfilingsFinite DEF DupInv
  <2>4. PICK q \in Nat : q = Cardinality(Misfilings(e[1]))
    BY <2>3, FS_CardinalityType
  <2>5. p <= 1 + q
    BY <2>2, <2>4, HomesOfBlock DEF DupInv
  <2>6. j <= a + b + c + p
    BY <2>1, <2>2 DEF DupInv, JobsBounded
  <2>7. j <= 1 + a + b + c + q
    BY <2>5, <2>6
  <2> QED
    BY <2>1, <2>4, <2>7
<1> QED
  BY <1>1, <1>2, <1>3, PTL DEF BDSpec
-----------------------------------------------------------------------------
(* What is complete stays complete. *)
LEMMA CompleteKept ==
  ASSUME BDInv, MarksKnown, [BDNext]_vars, NEW n, Complete(n)  PROVE Complete(n)'
<1> SUFFICES ASSUME NEW i \in DOMAIN Body[n]  PROVE Recorded(n, Body[n][i])'
  BY DEF Complete
<1>1. PICK t : t = Body[n][i]
  OBVIOUS
<1>2. Recorded(n, t)
  BY <1>1 DEF Complete
<1>3. Recorded(n, t)'
  BY <1>2, RecordedKept
<1> QED
  BY <1>1, <1>3

(* An accepted block in process() keeps its number and its transactions. *)
LEMMA WholeStep ==
  ASSUME BDInv, AcceptedWhole, [BDNext]_vars  PROVE AcceptedWhole'
<1>0. ProcessTypes
  BY DEF BDInv, TypeInv
<1>1. CASE ProcessBegin
  <2>1. BeginResult(current[1]) /\ current' = current
    BY <1>1, BeginDoes, BeginRest DEF BDInv, TypeInv, wvars
  <2> QED
    BY <2>1 DEF AcceptedWhole, BeginResult
<1>2. ASSUME NEW i \in DOMAIN transactionWorker, TxDone(i)  PROVE AcceptedWhole'
  <2>1. /\ DOMAIN transactionWorker' = DOMAIN transactionWorker
        /\ \A j \in DOMAIN transactionWorker :
             transactionWorker'[j].txHash = transactionWorker[j].txHash
    BY <1>0, <1>2, DoneResult
  <2>2. UNCHANGED <<pc, current, blockNumber>>
    BY <1>2 DEF TxDone, wvars
  <2> QED
    BY <2>1, <2>2 DEF AcceptedWhole
<1>3. CASE Save \/ SaveFailed \/ CrashRestart
  <2>1. pc' = "idle"
    BY <1>3 DEF Save, SaveFailed, CrashRestart, Return
  <2> QED
    BY <2>1 DEF AcceptedWhole
<1>4. CASE OtherLoops
  <2>1. UNCHANGED <<pc, blockNumber, transactionWorker>>
    BY <1>4 DEF OtherLoops, bdvars, proc
  <2>2. current # <<>> => current' = current
    BY <1>4 DEF OtherLoops, NewBlock, Fetching, FetchLatestBlock, FetchTimeout, PutNumbers,
       Filling, TakeBatch, FillBlockDataBuffer, PutData, TakeData
  <2> QED
    BY <1>0, <2>1, <2>2 DEF AcceptedWhole, ProcessTypes
<1>5. CASE UNCHANGED <<current, blockNumber, transactionWorker>> /\ (pc = "idle" => pc' = "idle")
  BY <1>5 DEF AcceptedWhole
<1> QED
  BY <1>1, <1>2, <1>3, <1>4, <1>5 DEF BDNext, Transaction, EnqueueEvent, TxFailed, SliceDone,
     bdvars, proc, vars, wvars

(* Only Save marks a number. *)
LEMMA SuccessesSame ==
  ASSUME BDInv, [BDNext]_vars, ~ Save  PROVE Successes' = Successes
<1>1. CASE ProcessBegin
  <2>1. BeginResult(current[1])
    BY <1>1, BeginDoes DEF BDInv, TypeInv
  <2>2. \A n : n \in Successes' <=> n \in Successes
    BY <2>1 DEF BeginResult, Successes
  <2> QED
    BY <2>2
<1>2. CASE blockdb' = blockdb
  BY <1>2 DEF Successes
<1> QED
  BY <1>1, <1>2 DEF BDNext, OtherLoops, Transaction, EnqueueEvent, TxDone, TxFailed,
     SliceDone, SaveFailed, CrashRestart, bdvars, vars

CoverInv == BDInv /\ FreshInv /\ MarksKnown /\ AcceptedWhole /\ Behind

(* Everything before the resume point is complete, or below a marked view of a
   pending block: the newest mark is such a view, or of an earlier run, or of a
   block of this run, which has processed all before it. *)
LEMMA CoverNow ==
  ASSUME CoverInv, RpcLag = 0, txFailures = 0, NEW n \in BeginBlock .. (Resume - 1)
  PROVE  Complete(n) \/ \E s \in stale : n <= s
<1>1. /\ Resume \in Nat /\ BeginBlock \in Nat
      /\ Successes = {} => Resume = BeginBlock
      /\ Successes # {} => Resume - 1 \in Successes
  BY ResumePoint, BlockAssumption DEF CoverInv, BDInv, TypeInv
<1>2. n \in Int /\ BeginBlock <= n /\ n <= Resume - 1
  BY <1>1
<1>3. PICK M \in Nat : M = Resume - 1 /\ M \in Successes /\ n <= M
  BY <1>1, <1>2
<1>4. first \in Nat /\ done \subseteq Nat /\ lost = {}
  BY DEF CoverInv, BDInv, WindowInv, TypeOK, FreshInv
<1>5. CASE M \in stale
  BY <1>3, <1>5
<1>6. CASE n < first
  <2>1. n \in BeginBlock .. (first - 1)
    BY <1>1, <1>2, <1>4, <1>6
  <2> QED
    BY <2>1 DEF CoverInv, Behind
<1>7. CASE M \in done /\ ~ n < first
  <2>1. n \in done
    <3>1. CASE n = M
      BY <1>7, <3>1
    <3>2. CASE n # M
      <4>1. n \in first .. (M - 1)
        BY <1>2, <1>3, <1>4, <1>7, <3>2
      <4>2. first .. (M - 1) \subseteq done \union lost
        BY <1>7, WindowNoGap DEF CoverInv, BDInv, ProcessedWithoutGap
      <4> QED
        BY <1>4, <4>1, <4>2
    <3> QED
      BY <3>1, <3>2
  <2> QED
    BY <2>1 DEF CoverInv, Behind
<1>8. M \in stale \/ M < first \/ M \in done
  BY <1>3 DEF CoverInv, Behind
<1>9. M < first => n < first
  BY <1>2, <1>3, <1>4
<1> QED
  BY <1>5, <1>6, <1>7, <1>8, <1>9

(* A restart: what this run has covered is behind the next. *)
LEMMA BehindRestart ==
  ASSUME CoverInv, RpcLag = 0, CrashRestart, [BDNext]_vars  PROVE Behind'
<1>1. /\ first' = Resume /\ done' = {}
      /\ UNCHANGED <<blockdb, stale, txFailures>>
  BY DEF CrashRestart
<1>2. Successes' = Successes
  BY <1>1 DEF Successes
<1>3. /\ Resume \in Nat /\ Successes \subseteq Nat
      /\ Successes # {} => \A n \in Successes : n <= Resume - 1
  BY ResumePoint, BodyFacts DEF CoverInv, BDInv, TypeInv
<1>4. stale \subseteq Successes
  BY DEF CoverInv, Behind
<1>5. \A n \in Successes : n < Resume
  BY <1>3
<1>6. ASSUME txFailures = 0, NEW n \in BeginBlock .. (Resume - 1)
      PROVE  Complete(n)' \/ \E s \in stale : n <= s /\ s < Resume
  <2>1. CASE Complete(n)
    BY <2>1, CompleteKept DEF CoverInv
  <2>2. CASE \E s \in stale : n <= s
    BY <1>4, <1>5, <2>2
  <2> QED
    BY <1>6, <2>1, <2>2, CoverNow
<1> QED
  BY <1>1, <1>2, <1>4, <1>5, <1>6 DEF Behind

(* A save: the block is complete and done, or its mark is that of a view. *)
LEMMA BehindSave ==
  ASSUME CoverInv, Save, [BDNext]_vars  PROVE Behind'
<1> DEFINE s == SavedStatus
           b == current[1]
<1>1. CollectionTypes /\ ProcessTypes /\ BDInv
  BY DEF CoverInv, BDInv, TypeInv
<1>2. /\ pc = "save" /\ current # <<>> /\ blockNumber \in DOMAIN blockdb
      /\ DOMAIN blockdb' = DOMAIN blockdb
      /\ \A n \in DOMAIN blockdb : n # blockNumber => blockdb'[n] = blockdb[n]
      /\ blockdb'[blockNumber].status = s
  BY <1>1, SaveDoes
<1>3. /\ stale' = IF s # "SUCCESS" THEN stale
                  ELSE IF b.status = "PENDING" THEN stale \union {blockNumber}
                  ELSE stale \ {blockNumber}
      /\ done' = done \union Heights(current)
      /\ UNCHANGED <<first, txFailures>>
  BY DEF Save, ProcessDone, chain, faults
<1>4. b \in Known /\ current = <<b>>
  BY <1>1, <1>2, CurrentKnown DEF BDInv, TypeInv
<1>5. /\ b.status = "ACCEPTED" => Heights(current) = {b.height}
      /\ b.status = "PENDING" => Heights(current) = {}
      /\ b.status \in {"ACCEPTED", "PENDING"}
  <2>1. DOMAIN current = {1}
    BY <1>4
  <2> QED
    BY <1>4, <2>1 DEF Heights, Known
<1> HIDE DEF s, b
<1>6. Successes \subseteq Successes'
  BY <1>1, SuccessesGrow
<1>7. Successes' \subseteq Successes \union {blockNumber} /\ (s = "SUCCESS" => blockNumber \in Successes')
      /\ (s # "SUCCESS" => blockNumber \notin Successes')
  BY <1>2 DEF Successes
<1>8. b.status = "ACCEPTED" => blockNumber = b.height /\ first <= blockNumber /\ blockNumber \in Nat
  BY <1>1, <1>2, FiledHigh DEF CoverInv, AcceptedWhole, b
<1>9. /\ stale \subseteq Successes
      /\ \A n \in Successes : n \in stale \/ n < first \/ n \in done
  BY DEF CoverInv, Behind
<1>10. stale' \subseteq Successes'
  BY <1>3, <1>6, <1>7, <1>9
<1>11. \A n \in Successes' : n \in stale' \/ n < first' \/ n \in done'
  <2> SUFFICES ASSUME NEW n \in Successes'  PROVE n \in stale' \/ n < first \/ n \in done'
    BY <1>3
  <2>1. CASE n = blockNumber
    BY <1>3, <1>5, <1>7, <1>8, <2>1
  <2>2. CASE n # blockNumber
    BY <1>3, <1>7, <1>9, <2>2
  <2> QED
    BY <2>1, <2>2
<1>12. ASSUME txFailures = 0, NEW n \in BeginBlock .. (first - 1)
       PROVE  Complete(n)' \/ \E m \in stale' : n <= m /\ m < first
  <2>1. CASE Complete(n)
    BY <2>1, CompleteKept DEF CoverInv
  <2>2. CASE \E m \in stale : n <= m /\ m < first
    <3>1. PICK m \in stale : n <= m /\ m < first
      BY <2>2
    <3>2. first \in Nat
      BY <1>1 DEF BDInv, WindowInv, TypeOK
    <3>3. stale \subseteq Nat
      BY <1>1 DEF CollectionTypes
    <3>4. b.status = "ACCEPTED" => m # blockNumber
      BY <1>8, <3>1, <3>2, <3>3
    <3>5. m \in stale'
      BY <1>3, <1>5, <3>1, <3>4
    <3> QED
      BY <3>1, <3>5
  <2> QED
    BY <1>12, <2>1, <2>2 DEF CoverInv, Behind
<1>13. ASSUME txFailures = 0, NEW n \in done'  PROVE Complete(n)'
  <2>1. CASE n \in done
    <3>1. Complete(n)
      BY <1>13, <2>1 DEF CoverInv, Behind
    <3> QED
      BY <3>1, CompleteKept DEF CoverInv
  <2>2. CASE n = blockNumber /\ b.status = "ACCEPTED"
    <3> SUFFICES ASSUME NEW j \in DOMAIN Body[n]  PROVE Recorded(n, Body[n][j])'
      BY DEF Complete
    <3>1. PICK t : t = Body[n][j]
      OBVIOUS
    <3>2. PICK i \in DOMAIN transactionWorker : transactionWorker[i].txHash = t
      BY <1>2, <2>2, <3>1 DEF CoverInv, AcceptedWhole, b
    <3>3. transactionWorker[i].status = "SUCCESS"
      <4>1. tries[i] # 0
        BY <1>1, <1>2 DEF BDInv, TypeInv, Attempts
      <4>2. transactionWorker[i].status # "PENDING"
        BY <1>1, <1>13, <4>1 DEF BDInv, TypeInv, Attempts
      <4> QED
        BY <1>1, <4>2, WorkerTypes
    <3>4. Recorded(n, t)'
      BY <1>1, <1>2, <2>2, <3>2, <3>3, MarksSave DEF Marked
    <3> QED
      BY <3>1, <3>4
  <2> QED
    BY <1>3, <1>5, <1>8, <2>1, <2>2
<1> QED
  BY <1>3, <1>10, <1>11, <1>12, <1>13 DEF Behind

(* The other steps leave behind what was behind. *)
LEMMA BehindAside ==
  ASSUME CoverInv, [BDNext]_vars, ~ Save, ~ CrashRestart  PROVE Behind'
<1>1. UNCHANGED <<first, done, stale>> /\ (txFailures' = txFailures \/ txFailures' = txFailures + 1)
  BY DEF BDNext, OtherLoops, Transaction, EnqueueEvent, TxDone, TxFailed, ProcessBegin,
     SliceDone, SaveFailed, NewBlock, Fetching, FetchLatestBlock, FetchTimeout, PutNumbers,
     Filling, TakeBatch, FillBlockDataBuffer, PutData, TakeData, chain, history, bdvars,
     faults, vars, wvars
<1>2. txFailures \in Nat
  BY DEF CoverInv, BDInv, TypeInv, CollectionTypes
<1>3. txFailures' = 0 => txFailures = 0
  BY <1>1, <1>2
<1>4. Successes' = Successes
  BY SuccessesSame DEF CoverInv
<1>5. \A n : Complete(n) => Complete(n)'
  BY CompleteKept DEF CoverInv
<1> QED
  BY <1>1, <1>3, <1>4, <1>5 DEF CoverInv, Behind

(* Every step keeps what is known of the blocks behind. *)
LEMMA CoverStep ==
  ASSUME RpcLag = 0, CoverInv, [BDNext]_vars  PROVE CoverInv'
<1>1. BDInv' /\ MarksKnown' /\ AcceptedWhole'
  BY BDInvStep, MarksKnownStep, WholeStep DEF CoverInv
<1>2. FreshInv'
  BY PipelineStep, FreshStep, FreshRestart DEF CoverInv, BDInv
<1>3. Behind'
  BY BehindRestart, BehindSave, BehindAside
<1> QED
  BY <1>1, <1>2, <1>3 DEF CoverInv

(* Nothing is behind a worker that starts the first time. *)
LEMMA CoverInit == BDInit => CoverInv
<1> SUFFICES ASSUME BDInit  PROVE CoverInv
  OBVIOUS
<1>1. BDInv /\ MarksKnown
  BY BDInvInit, MarksKnownInit
<1>2. FreshInv
  BY FreshInit DEF BDInit
<1>3. AcceptedWhole
  BY DEF BDInit, Idle, AcceptedWhole
<1>4. Behind
  <2>1. blockdb = <<>> /\ stale = {} /\ done = {} /\ first = BeginBlock /\ BeginBlock \in Nat
    BY BlockAssumption DEF BDInit, Init
  <2>2. Successes = {}
    BY <2>1, NothingOfIt DEF Successes
  <2>3. BeginBlock .. (first - 1) = {}
    BY <2>1
  <2> QED
    BY <2>1, <2>2, <2>3 DEF Behind
<1> QED
  BY <1>1, <1>2, <1>3, <1>4 DEF CoverInv

(* Where a restart goes on, everything before has been queued and marked, when no
   transaction failed, unless a view of a pending block was marked at or after
   it; with answers of the RPC node that never go back
   (block-detect.service.ts:69-76, 183-185). *)
THEOREM CoverCorrect == ASSUME RpcLag = 0  PROVE BDSpec => []ResumeCovers
<1>1. CoverInv => ResumeCovers
  <2> SUFFICES ASSUME CoverInv, NEW n \in BeginBlock .. (Resume - 1), ~ txFailures > 0
               PROVE  Complete(n) \/ \E s \in stale : s >= n
    BY DEF ResumeCovers
  <2>1. txFailures = 0 /\ stale \subseteq Nat
    BY DEF CoverInv, BDInv, TypeInv, CollectionTypes
  <2>2. Complete(n) \/ \E s \in stale : n <= s
    BY <2>1, CoverNow
  <2>3. n \in Int
    BY BlockAssumption, ResumePoint DEF CoverInv, BDInv, TypeInv
  <2> QED
    BY <2>1, <2>2, <2>3
<1>2. CoverInv /\ [BDNext]_vars => CoverInv'
  BY CoverStep
<1> QED
  BY <1>1, <1>2, CoverInit, PTL DEF BDSpec
=============================================================================
