------------------------- MODULE OnchainWorkerProofs -------------------------
(***************************************************************************)
(* Proofs about the pipeline of OnchainWorker, for every value of its      *)
(* constants.                                                              *)
(***************************************************************************)
EXTENDS OnchainWorker, SequenceTheorems, TLAPS

Number == Nat \union {Pending}

(* The heights of a sequence of blocks are block numbers. *)
LEMMA HeightsAreNumbers ==
  ASSUME NEW s \in Seq(Block)  PROVE Heights(s) \subseteq Nat
<1>1. \A i \in DOMAIN s : s[i] \in Block
  BY ElementOfSeq
<1>. QED  BY <1>1 DEF Heights, Block

(* What the put loop appends: PutCount consecutive numbers from currentBlock,
   and 'pending' only into a place that is still free. *)
LEMMA PutShape ==
  ASSUME TypeOK
  PROVE  /\ PutCount \in Nat
         /\ NumbersPut \in Seq(Number) /\ Len(NumbersPut) = PutCount
         /\ PendingPut \in Seq(Number)
         /\ PutCount + Len(PendingPut) <= MaxBlockSize - Len(blockNumberBuffer)
<1>1. /\ currentBlock \in Nat /\ latestBlock \in Nat
      /\ Len(blockNumberBuffer) \in Nat /\ MaxBlockSize \in Nat
      /\ Len(blockNumberBuffer) <= MaxBlockSize
  BY SizeAssumption DEF TypeOK
<1>2. PutCount \in Nat /\ PutCount <= MaxBlockSize - Len(blockNumberBuffer)
  BY <1>1 DEF PutCount, freeSize
<1>3. NumbersPut \in Seq(Number) /\ Len(NumbersPut) = PutCount
  BY <1>1, <1>2 DEF NumbersPut, Number
<1>4. /\ PendingPut \in Seq(Number)
      /\ PutCount + Len(PendingPut) <= MaxBlockSize - Len(blockNumberBuffer)
  <2>1. CASE PutCount < freeSize(blockNumberBuffer, MaxBlockSize)
    <3>1. PendingPut = <<Pending>>
      BY <2>1 DEF PendingPut
    <3>. QED  BY <3>1, <2>1, <1>1, <1>2 DEF freeSize, Number
  <2>2. CASE ~(PutCount < freeSize(blockNumberBuffer, MaxBlockSize))
    <3>1. PendingPut = <<>>
      BY <2>2 DEF PendingPut
    <3>. QED  BY <3>1, <1>1, <1>2
  <2>. QED  BY <2>1, <2>2
<1>. QED  BY <1>2, <1>3, <1>4

(* Every answer of the RPC node is a positive number: the chain is longer than
   the delay and the lag together, and it only grows. *)
HeadInv == head > DelayBlock + RpcLag

(* The chain stays longer than the delay and the lag, so that a latest number is
   never 0 or less: no step makes the chain shorter. *)
LEMMA HeadStep == HeadInv /\ TypeOK /\ [Next]_wvars => HeadInv'
BY ChainAssumption DEF HeadInv, TypeOK, Next, wvars, NewBlock, Fetching, Filling,
   FetchLatestBlock, FetchTimeout, PutNumbers, TakeBatch, FillBlockDataBuffer,
   PutData, TakeData, ProcessDone, chain

(* The types hold when the worker starts. *)
LEMMA TypeInit == Init => TypeOK
BY ChainAssumption, SizeAssumption DEF Init, TypeOK

(* Every step of every loop keeps the types and the capacities. *)
LEMMA TypeStep == TypeOK /\ HeadInv /\ [Next]_wvars => TypeOK'
<1>. SUFFICES ASSUME TypeOK, HeadInv, [Next]_wvars  PROVE TypeOK'
  OBVIOUS
<1>. USE SizeAssumption, ChainAssumption, PendingAssumption
<1>1. CASE NewBlock
  BY <1>1 DEF TypeOK, NewBlock, numbering, history
<1>2. CASE FetchLatestBlock
  <2>1. latestBlock' \in Nat
    BY <1>2 DEF FetchLatestBlock, TypeOK, HeadInv
  <2>. QED  BY <1>2, <2>1 DEF TypeOK, FetchLatestBlock, chain, history
<1>3. CASE FetchTimeout
  BY <1>3 DEF TypeOK, FetchTimeout, chain, history
<1>4. CASE PutNumbers
  <2>1. /\ blockNumberBuffer' \in Seq(Number)
        /\ Len(blockNumberBuffer') <= MaxBlockSize
    <3>1. /\ NumbersPut \in Seq(Number) /\ Len(NumbersPut) = PutCount
          /\ PendingPut \in Seq(Number) /\ blockNumberBuffer \in Seq(Number)
          /\ PutCount \in Nat
      BY PutShape DEF TypeOK, Number
    <3>2. /\ blockNumberBuffer \o NumbersPut \in Seq(Number)
          /\ Len(blockNumberBuffer \o NumbersPut) = Len(blockNumberBuffer) + PutCount
      BY <3>1
    <3>3. blockNumberBuffer' = (blockNumberBuffer \o NumbersPut) \o PendingPut
      BY <1>4 DEF PutNumbers
    <3>4. /\ blockNumberBuffer' \in Seq(Number)
          /\ Len(blockNumberBuffer') = Len(blockNumberBuffer) + PutCount + Len(PendingPut)
      BY <3>1, <3>2, <3>3, ConcatProperties
    <3>. QED  BY <3>1, <3>4, PutShape
  <2>2. currentBlock' \in Nat \ {0} /\ pendingBlock' \in Nat
    <3>1. currentBlock' = currentBlock + PutCount /\ pendingBlock' = latestBlock + 1
      BY <1>4 DEF PutNumbers
    <3>2. PutCount \in Nat /\ currentBlock \in Nat \ {0} /\ latestBlock \in Nat
      BY PutShape DEF TypeOK
    <3>. QED  BY <3>1, <3>2
  <2>. QED  BY <1>4, <2>1, <2>2 DEF TypeOK, PutNumbers, chain, history, Number
<1>5. CASE TakeBatch
  <2>1. /\ BatchLen \in Nat /\ BatchLen <= Len(blockNumberBuffer)
        /\ BatchLen <= MaxBatchSize
    BY DEF BatchLen, TypeOK
  <2>2. /\ blocks' \in Seq(Number) /\ Len(blocks') <= MaxBatchSize
    BY <1>5, <2>1 DEF TakeBatch, TypeOK, Number
  <2>3. /\ blockNumberBuffer' \in Seq(Number)
        /\ Len(blockNumberBuffer') <= MaxBlockSize
    BY <1>5, <2>1 DEF TakeBatch, TypeOK, Number
  <2>. QED  BY <1>5, <2>2, <2>3 DEF TypeOK, TakeBatch, chain, numbering, history, Number
<1>6. CASE FillBlockDataBuffer
  <2>1. Numbers(blocks) \subseteq Nat
    BY DEF Numbers, TypeOK
  <2>2. BatchKeys \subseteq Nat
    BY <2>1 DEF BatchKeys, TypeOK
  <2>3. DOMAIN data' \subseteq Nat /\ \A k \in DOMAIN data' : data'[k] \in Block
    <3>1. PICK h \in (asked + 1) .. (head + 1), t \in 0 .. MaxTxs :
             data' = groupByBlock(PendingAt(h, t))
      BY <1>6 DEF FillBlockDataBuffer
    <3>2. PendingAt(h, t) \in Block
      BY DEF PendingAt, Block, TypeOK
    <3>3. \A k \in Nat : Accepted(k) \in Block
      BY DEF Accepted, Block
    <3>. QED  BY <3>1, <3>2, <3>3, <2>2 DEF groupByBlock
  <2>4. lost' \subseteq Nat /\ blocks' = <<>>
    BY <1>6, <2>1 DEF FillBlockDataBuffer, TypeOK
  <2>. QED  BY <1>6, <2>3, <2>4 DEF TypeOK, FillBlockDataBuffer, chain, numbering
<1>7. CASE PutData
  <2>1. PICK k \in DOMAIN data :
           /\ blockDataBuffer' = Append(blockDataBuffer, data[k])
           /\ data' = [m \in DOMAIN data \ {k} |-> data[m]]
    BY <1>7 DEF PutData
  <2>2. blockDataBuffer' \in Seq(Block) /\ Len(blockDataBuffer') <= MaxBatchSize
    BY <1>7, <2>1 DEF PutData, TypeOK, freeSize
  <2>3. DOMAIN data' \subseteq Nat /\ \A m \in DOMAIN data' : data'[m] \in Block
    BY <2>1 DEF TypeOK
  <2>. QED  BY <1>7, <2>2, <2>3 DEF TypeOK, PutData, chain, numbering, history
<1>8. CASE TakeData
  <2>1. /\ blockDataBuffer' \in Seq(Block) /\ Len(blockDataBuffer') <= MaxBatchSize
        /\ current' \in Seq(Block) /\ Len(current') <= 1
    BY <1>8 DEF TakeData, TypeOK
  <2>. QED  BY <1>8, <2>1 DEF TypeOK, TakeData, chain, numbering, history
<1>9. CASE ProcessDone
  <2>1. Heights(current) \subseteq Nat
    BY HeightsAreNumbers DEF TypeOK
  <2>2. done' \subseteq Nat /\ current' \in Seq(Block) /\ Len(current') <= 1
    <3>1. current' = <<>>
      BY <1>9 DEF ProcessDone
    <3>2. done' = done \union Heights(current)
      BY <1>9 DEF ProcessDone
    <3>3. current' \in Seq(Block) /\ Len(current') <= 1
      BY <3>1, EmptySeq
    <3>. QED  BY <3>2, <3>3, <2>1 DEF TypeOK
  <2>. QED  BY <1>9, <2>2 DEF TypeOK, ProcessDone, chain, numbering, history
<1>10. CASE UNCHANGED wvars
  BY <1>10 DEF TypeOK, wvars
<1>. QED
  BY <1>1, <1>2, <1>3, <1>4, <1>5, <1>6, <1>7, <1>8, <1>9, <1>10
  DEF Next, Fetching, Filling

(* The types and the capacities hold in every reachable state. *)
THEOREM TypeCorrect == Spec => [](TypeOK /\ HeadInv)
<1>1. Init => HeadInv
  BY ChainAssumption DEF Init, HeadInv
<1>. QED  BY <1>1, TypeInit, TypeStep, HeadStep, PTL DEF Spec
-----------------------------------------------------------------------------
(***************************************************************************)
(* What the queue operations do to the numbers and heights a queue holds,  *)
(* and to their order.                                                     *)
(***************************************************************************)

(* Appending: the numbers add up. *)
LEMMA NumbersConcat ==
  ASSUME NEW s \in Seq(Number), NEW t \in Seq(Number)
  PROVE  Numbers(s \o t) = Numbers(s) \union Numbers(t)
<1>1. /\ DOMAIN s = 1 .. Len(s) /\ DOMAIN t = 1 .. Len(t)
      /\ Len(s) \in Nat /\ Len(t) \in Nat
      /\ DOMAIN (s \o t) = 1 .. (Len(s) + Len(t))
      /\ \A i \in 1 .. (Len(s) + Len(t)) :
            (s \o t)[i] = IF i <= Len(s) THEN s[i] ELSE t[i - Len(s)]
  BY LenProperties, ConcatProperties
<1>2. ASSUME NEW n \in Numbers(s \o t)  PROVE n \in Numbers(s) \union Numbers(t)
  <2>1. PICK i \in 1 .. (Len(s) + Len(t)) : (s \o t)[i] = n /\ n # Pending
    BY <1>1, <1>2 DEF Numbers
  <2>2. CASE i <= Len(s)
    BY <2>1, <2>2, <1>1 DEF Numbers
  <2>3. CASE i > Len(s)
    <3>1. i - Len(s) \in 1 .. Len(t) /\ t[i - Len(s)] = n
      BY <2>1, <2>3, <1>1
    <3>. QED  BY <3>1, <2>1, <1>1 DEF Numbers
  <2>. QED  BY <2>1, <2>2, <2>3, <1>1
<1>3. ASSUME NEW n \in Numbers(s)  PROVE n \in Numbers(s \o t)
  <2>1. PICK i \in 1 .. Len(s) : s[i] = n /\ n # Pending
    BY <1>1, <1>3 DEF Numbers
  <2>2. i \in 1 .. (Len(s) + Len(t)) /\ (s \o t)[i] = n
    BY <2>1, <1>1
  <2>. QED  BY <2>1, <2>2, <1>1 DEF Numbers
<1>4. ASSUME NEW n \in Numbers(t)  PROVE n \in Numbers(s \o t)
  <2>1. PICK i \in 1 .. Len(t) : t[i] = n /\ n # Pending
    BY <1>1, <1>4 DEF Numbers
  <2>2. i + Len(s) \in 1 .. (Len(s) + Len(t)) /\ (s \o t)[i + Len(s)] = n
    BY <2>1, <1>1
  <2>. QED  BY <2>1, <2>2, <1>1 DEF Numbers
<1>. QED  BY <1>2, <1>3, <1>4

(* Appending ascending numbers above the others keeps a queue ascending. *)
LEMMA AscendingConcat ==
  ASSUME NEW s \in Seq(Number), NEW t \in Seq(Number),
         Ascending(s), Ascending(t), Below(Numbers(s), Numbers(t))
  PROVE  Ascending(s \o t)
<1>1. /\ DOMAIN s = 1 .. Len(s) /\ DOMAIN t = 1 .. Len(t)
      /\ Len(s) \in Nat /\ Len(t) \in Nat
      /\ DOMAIN (s \o t) = 1 .. (Len(s) + Len(t))
      /\ \A i \in 1 .. (Len(s) + Len(t)) :
            (s \o t)[i] = IF i <= Len(s) THEN s[i] ELSE t[i - Len(s)]
  BY LenProperties, ConcatProperties
<1>. SUFFICES ASSUME NEW i \in DOMAIN (s \o t), NEW j \in DOMAIN (s \o t), i < j,
                     (s \o t)[i] # Pending, (s \o t)[j] # Pending
              PROVE  (s \o t)[i] < (s \o t)[j]
  BY DEF Ascending
<1>2. CASE j <= Len(s)
  BY <1>1, <1>2 DEF Ascending
<1>3. CASE i > Len(s)
  <2>1. /\ i - Len(s) \in DOMAIN t /\ j - Len(s) \in DOMAIN t
        /\ i - Len(s) < j - Len(s)
        /\ (s \o t)[i] = t[i - Len(s)] /\ (s \o t)[j] = t[j - Len(s)]
    BY <1>1, <1>3
  <2>. QED  BY <2>1 DEF Ascending
<1>4. CASE i <= Len(s) /\ j > Len(s)
  <2>1. /\ i \in DOMAIN s /\ j - Len(s) \in DOMAIN t
        /\ (s \o t)[i] = s[i] /\ (s \o t)[j] = t[j - Len(s)]
    BY <1>1, <1>4
  <2>2. s[i] \in Numbers(s) /\ t[j - Len(s)] \in Numbers(t)
    BY <2>1 DEF Numbers
  <2>. QED  BY <2>1, <2>2 DEF Below
<1>. QED  BY <1>1, <1>2, <1>3, <1>4

(* takeAll(max): what is taken and what stays make up the queue, both ascend,
   and what is taken is below what stays. *)
LEMMA TakeSplits ==
  ASSUME NEW s \in Seq(Number), NEW n \in 0 .. Len(s), Ascending(s)
  PROVE  LET a == SubSeq(s, 1, n)
             b == SubSeq(s, n + 1, Len(s))
         IN /\ Numbers(a) \union Numbers(b) = Numbers(s)
            /\ Ascending(a) /\ Ascending(b)
            /\ Below(Numbers(a), Numbers(b))
<1>. DEFINE a == SubSeq(s, 1, n)
            b == SubSeq(s, n + 1, Len(s))
<1>1. /\ DOMAIN s = 1 .. Len(s) /\ Len(s) \in Nat
      /\ \A i \in 1 .. Len(s) : s[i] \in Number
  BY LenProperties, ElementOfSeq
<1>2. /\ DOMAIN a = 1 .. n
      /\ \A i \in 1 .. n : a[i] = s[i]
  BY <1>1
<1>3. /\ DOMAIN b = 1 .. (Len(s) - n)
      /\ \A i \in 1 .. (Len(s) - n) : b[i] = s[n + i]
  BY <1>1
<1>. HIDE DEF a, b
<1>4. Ascending(a)
  BY <1>1, <1>2 DEF Ascending
<1>5. Ascending(b)
  <2>. SUFFICES ASSUME NEW i \in DOMAIN b, NEW j \in DOMAIN b, i < j,
                       b[i] # Pending, b[j] # Pending
                PROVE  b[i] < b[j]
    BY DEF Ascending
  <2>1. /\ n + i \in DOMAIN s /\ n + j \in DOMAIN s /\ n + i < n + j
        /\ b[i] = s[n + i] /\ b[j] = s[n + j]
    BY <1>1, <1>3
  <2>. QED  BY <2>1 DEF Ascending
<1>6. Below(Numbers(a), Numbers(b))
  <2>. SUFFICES ASSUME NEW x \in Numbers(a), NEW y \in Numbers(b)  PROVE x < y
    BY DEF Below
  <2>1. PICK i \in DOMAIN a : a[i] = x /\ x # Pending
    BY DEF Numbers
  <2>2. PICK j \in DOMAIN b : b[j] = y /\ y # Pending
    BY DEF Numbers
  <2>3. /\ i \in DOMAIN s /\ n + j \in DOMAIN s /\ i < n + j
        /\ s[i] = x /\ s[n + j] = y
    BY <1>1, <1>2, <1>3, <2>1, <2>2
  <2>. QED  BY <2>1, <2>2, <2>3 DEF Ascending
<1>7. Numbers(a) \union Numbers(b) = Numbers(s)
  <2>1. Numbers(a) \subseteq Numbers(s)
    BY <1>1, <1>2 DEF Numbers
  <2>2. Numbers(b) \subseteq Numbers(s)
    <3>1. \A i \in DOMAIN b : n + i \in DOMAIN s /\ b[i] = s[n + i]
      BY <1>1, <1>3
    <3>. QED  BY <3>1 DEF Numbers
  <2>3. ASSUME NEW x \in Numbers(s)  PROVE x \in Numbers(a) \union Numbers(b)
    <3>1. PICK i \in DOMAIN s : s[i] = x /\ x # Pending
      BY <2>3 DEF Numbers
    <3>2. CASE i <= n
      <4>1. i \in DOMAIN a /\ a[i] = x
        BY <3>1, <3>2, <1>1, <1>2
      <4>. QED  BY <4>1, <3>1 DEF Numbers
    <3>3. CASE i > n
      <4>1. i - n \in DOMAIN b /\ b[i - n] = x
        BY <3>1, <3>3, <1>1, <1>3
      <4>. QED  BY <4>1, <3>1 DEF Numbers
    <3>. QED  BY <3>2, <3>3, <1>1
  <2>. QED  BY <2>1, <2>2, <2>3
<1>. QED  BY <1>4, <1>5, <1>6, <1>7 DEF a, b

(* put(block): its height, if it is an accepted one, joins those of the queue. *)
LEMMA PutHeights ==
  ASSUME NEW s \in Seq(Block), NEW b \in Block
  PROVE  /\ Heights(Append(s, b)) = Heights(s) \union Heights(<<b>>)
         /\ AscendingHeights(s) /\ Below(Heights(s), Heights(<<b>>))
               => AscendingHeights(Append(s, b))
<1>. DEFINE t == Append(s, b)
<1>1. /\ DOMAIN s = 1 .. Len(s) /\ Len(s) \in Nat
      /\ DOMAIN t = 1 .. (Len(s) + 1)
      /\ \A i \in 1 .. Len(s) : t[i] = s[i]
      /\ t[Len(s) + 1] = b
      /\ DOMAIN <<b>> = {1} /\ <<b>>[1] = b
  BY LenProperties, AppendProperties
<1>. HIDE DEF t
<1>2. Heights(t) = Heights(s) \union Heights(<<b>>)
  <2>1. ASSUME NEW n \in Heights(t)  PROVE n \in Heights(s) \union Heights(<<b>>)
    <3>1. PICK i \in DOMAIN t : t[i].status = "ACCEPTED" /\ t[i].height = n
      BY <2>1 DEF Heights
    <3>2. CASE i \in DOMAIN s
      BY <3>1, <3>2, <1>1 DEF Heights
    <3>3. CASE i = Len(s) + 1
      <4>1. b.status = "ACCEPTED" /\ b.height = n
        BY <3>1, <3>3, <1>1
      <4>. QED  BY <4>1, <1>1 DEF Heights
    <3>. QED  BY <3>2, <3>3, <1>1
  <2>2. ASSUME NEW n \in Heights(s)  PROVE n \in Heights(t)
    <3>1. PICK i \in DOMAIN s : s[i].status = "ACCEPTED" /\ s[i].height = n
      BY <2>2 DEF Heights
    <3>2. i \in DOMAIN t /\ t[i] = s[i]
      BY <1>1
    <3>. QED  BY <3>1, <3>2 DEF Heights
  <2>3. ASSUME NEW n \in Heights(<<b>>)  PROVE n \in Heights(t)
    <3>1. b.status = "ACCEPTED" /\ b.height = n
      BY <2>3, <1>1 DEF Heights
    <3>2. Len(s) + 1 \in DOMAIN t /\ t[Len(s) + 1] = b
      BY <1>1
    <3>. QED  BY <3>1, <3>2 DEF Heights
  <2>. QED  BY <2>1, <2>2, <2>3
<1>3. ASSUME AscendingHeights(s), Below(Heights(s), Heights(<<b>>))
      PROVE  AscendingHeights(t)
  <2>. SUFFICES ASSUME NEW i \in DOMAIN t, NEW j \in DOMAIN t, i < j,
                       t[i].status = "ACCEPTED", t[j].status = "ACCEPTED"
                PROVE  t[i].height < t[j].height
    BY DEF AscendingHeights
  <2>1. i \in DOMAIN s /\ t[i] = s[i]
    BY <1>1
  <2>2. CASE j \in DOMAIN s
    BY <2>1, <2>2, <1>1, <1>3 DEF AscendingHeights
  <2>3. CASE j = Len(s) + 1
    <3>1. s[i].height \in Heights(s)
      BY <2>1 DEF Heights
    <3>2. b.height \in Heights(<<b>>)
      BY <2>3, <1>1 DEF Heights
    <3>. QED  BY <2>1, <2>3, <3>1, <3>2, <1>1, <1>3 DEF Below
  <2>. QED  BY <2>2, <2>3, <1>1
<1>. QED  BY <1>2, <1>3 DEF t

(* take(): the block taken and those that stay make up the queue, and its
   height is below theirs. *)
LEMMA TakeHeights ==
  ASSUME NEW s \in Seq(Block), s # <<>>, AscendingHeights(s)
  PROVE  /\ Heights(<<Head(s)>>) \union Heights(Tail(s)) = Heights(s)
         /\ AscendingHeights(Tail(s))
         /\ Below(Heights(<<Head(s)>>), Heights(Tail(s)))
<1>. DEFINE h == Head(s)
            t == Tail(s)
<1>1. /\ DOMAIN s = 1 .. Len(s) /\ Len(s) \in Nat \ {0}
      /\ DOMAIN t = 1 .. (Len(s) - 1)
      /\ \A i \in 1 .. (Len(s) - 1) : t[i] = s[i + 1]
      /\ h = s[1]
      /\ DOMAIN <<h>> = {1} /\ <<h>>[1] = h
  BY LenProperties, HeadTailProperties, EmptySeq
<1>. HIDE DEF h, t
<1>2. \A i \in DOMAIN t : i + 1 \in DOMAIN s /\ i + 1 > 1 /\ t[i] = s[i + 1]
  BY <1>1
<1>3. 1 \in DOMAIN s
  BY <1>1
<1>4. Heights(<<h>>) \union Heights(t) = Heights(s)
  <2>1. Heights(<<h>>) \subseteq Heights(s)
    BY <1>1, <1>3 DEF Heights
  <2>2. Heights(t) \subseteq Heights(s)
    BY <1>2 DEF Heights
  <2>3. ASSUME NEW n \in Heights(s)  PROVE n \in Heights(<<h>>) \union Heights(t)
    <3>1. PICK i \in DOMAIN s : s[i].status = "ACCEPTED" /\ s[i].height = n
      BY <2>3 DEF Heights
    <3>2. CASE i = 1
      BY <3>1, <3>2, <1>1 DEF Heights
    <3>3. CASE i > 1
      <4>1. i - 1 \in DOMAIN t /\ t[i - 1] = s[i]
        BY <3>3, <1>1
      <4>. QED  BY <4>1, <3>1 DEF Heights
    <3>. QED  BY <3>2, <3>3, <1>1
  <2>. QED  BY <2>1, <2>2, <2>3
<1>5. AscendingHeights(t)
  <2>. SUFFICES ASSUME NEW i \in DOMAIN t, NEW j \in DOMAIN t, i < j,
                       t[i].status = "ACCEPTED", t[j].status = "ACCEPTED"
                PROVE  t[i].height < t[j].height
    BY DEF AscendingHeights
  <2>1. i + 1 < j + 1
    BY <1>1
  <2>. QED  BY <2>1, <1>2 DEF AscendingHeights
<1>6. Below(Heights(<<h>>), Heights(t))
  <2>. SUFFICES ASSUME NEW x \in Heights(<<h>>), NEW y \in Heights(t)  PROVE x < y
    BY DEF Below
  <2>1. s[1].status = "ACCEPTED" /\ s[1].height = x
    BY <1>1 DEF Heights
  <2>2. PICK j \in DOMAIN t : t[j].status = "ACCEPTED" /\ t[j].height = y
    BY DEF Heights
  <2>. QED  BY <2>1, <2>2, <1>2, <1>3 DEF AscendingHeights
<1>. QED  BY <1>4, <1>5, <1>6 DEF h, t

(* The put loop takes the lowest key: its block and the others make up data. *)
LEMMA LowestKey ==
  ASSUME NEW f, DOMAIN f \subseteq Nat, NEW k \in DOMAIN f,
         \A m \in DOMAIN f : k <= m,
         \A m \in DOMAIN f : f[m].status = "ACCEPTED" => f[m].height = m,
         NEW g, g = [m \in DOMAIN f \ {k} |-> f[m]]
  PROVE  /\ Heights(<<f[k]>>) \union Heights(g) = Heights(f)
         /\ Below(Heights(<<f[k]>>), Heights(g))
<1>1. DOMAIN <<f[k]>> = {1} /\ <<f[k]>>[1] = f[k]
  OBVIOUS
<1>2. Heights(<<f[k]>>) = IF f[k].status = "ACCEPTED" THEN {k} ELSE {}
  BY <1>1 DEF Heights
<1>3. \A n : n \in Heights(g) <=> n \in DOMAIN f \ {k} /\ f[n].status = "ACCEPTED"
  BY DEF Heights
<1>4. \A n : n \in Heights(f) <=> n \in DOMAIN f /\ f[n].status = "ACCEPTED"
  BY DEF Heights
<1>5. Heights(<<f[k]>>) \union Heights(g) = Heights(f)
  BY <1>2, <1>3, <1>4
<1>6. \A n \in DOMAIN f \ {k} : k < n
  OBVIOUS
<1>7. Below(Heights(<<f[k]>>), Heights(g))
  <2>. SUFFICES ASSUME NEW x \in Heights(<<f[k]>>), NEW y \in Heights(g)  PROVE x < y
    BY DEF Below
  <2>1. x = k
    BY <1>2
  <2>2. y \in DOMAIN f \ {k}
    BY <1>3
  <2>. QED  BY <2>1, <2>2, <1>6
<1>. QED  BY <1>5, <1>7

(* The heights of a filled batch: its numbers, but for the one the pending block
   took over. *)
LEMMA BatchHeights ==
  ASSUME TypeOK, NEW p, p.status = "PENDING"
  PROVE  /\ Heights(groupByBlock(p)) = {n \in Numbers(blocks) : ~ PendingStays(n)}
         /\ \A k \in DOMAIN groupByBlock(p) :
               groupByBlock(p)[k].status = "ACCEPTED" => groupByBlock(p)[k].height = k
<1>. DEFINE g == groupByBlock(p)
<1>1. /\ DOMAIN g = BatchKeys
      /\ \A k \in BatchKeys : g[k] = IF PendingStays(k) THEN p ELSE Accepted(k)
  BY DEF groupByBlock
<1>. HIDE DEF g
<1>2. /\ \A k \in BatchKeys : g[k].status = "ACCEPTED" <=> ~ PendingStays(k)
      /\ \A k \in BatchKeys : ~ PendingStays(k) => g[k].height = k
  BY <1>1 DEF Accepted
<1>3. \A n : n \in Heights(g) <=> n \in BatchKeys /\ ~ PendingStays(n)
  BY <1>1, <1>2 DEF Heights
<1>4. \A n \in BatchKeys : ~ PendingStays(n) => n \in Numbers(blocks)
  <2>. SUFFICES ASSUME NEW n \in BatchKeys, n \notin Numbers(blocks)
                PROVE  PendingStays(n)
    OBVIOUS
  <2>1. Pending \in {blocks[i] : i \in DOMAIN blocks}
    BY DEF BatchKeys
  <2>2. n = pendingBlock
    BY DEF BatchKeys
  <2>3. pendingBlock \in Int
    BY DEF TypeOK
  <2>4. n # Pending
    BY <2>2, <2>3, PendingAssumption, Zenon
  <2>5. \A j \in DOMAIN blocks : blocks[j] # n
    BY <2>4 DEF Numbers
  <2>. QED  BY <2>1, <2>2, <2>5 DEF PendingStays
<1>5. Numbers(blocks) \subseteq BatchKeys
  BY DEF BatchKeys
<1>. QED  BY <1>1, <1>2, <1>3, <1>4, <1>5 DEF g
-----------------------------------------------------------------------------
(* fetchBlockData holds either the numbers of a batch or its blocks. *)
OneBatch == blocks # <<>> => DOMAIN data = {}

(* Only numbers deep enough have been put. *)
Deep == currentBlock = first \/ currentBlock <= head - DelayBlock + 1
AnswerDeep == latestBlock <= head - DelayBlock

WindowInv == /\ TypeOK /\ HeadInv
             /\ StagesOrdered /\ NothingMissing
             /\ first <= currentBlock
             /\ OneBatch /\ Deep /\ AnswerDeep

(* The empty pipeline satisfies the inductive invariant. *)
LEMMA WindowInit == Init => WindowInv
<1>. SUFFICES ASSUME Init  PROVE WindowInv
  OBVIOUS
<1>1. TypeOK /\ HeadInv
  BY TypeInit, ChainAssumption DEF Init, HeadInv
<1>2. Heights(<<>>) = {} /\ Numbers(<<>>) = {}
  BY DEF Heights, Numbers
<1>3. StagesOrdered
  BY <1>2 DEF Init, StagesOrdered, Ascending, AscendingHeights, Below,
     InProcess, Fetched, Answered, Requested
<1>4. NothingMissing
  BY <1>1, <1>2 DEF Init, TypeOK, NothingMissing, Put, Requested, Answered, Fetched, InProcess
<1>. QED
  BY <1>1, <1>3, <1>4, ChainAssumption
  DEF Init, WindowInv, OneBatch, Deep, AnswerDeep, TypeOK, HeadInv

(* What the put loop adds to the numbers of the buffer, and their order. *)
LEMMA PutOrder ==
  ASSUME TypeOK
  PROVE  /\ Numbers(NumbersPut) = currentBlock .. (currentBlock + PutCount - 1)
         /\ Ascending(NumbersPut)
         /\ Numbers(PendingPut) = {} /\ Ascending(PendingPut)
<1>1. PutCount \in Nat /\ currentBlock \in Nat
  BY PutShape DEF TypeOK
<1>2. /\ DOMAIN NumbersPut = 1 .. PutCount
      /\ \A i \in 1 .. PutCount : NumbersPut[i] = currentBlock + i - 1
  BY DEF NumbersPut
<1>3. Ascending(NumbersPut)
  BY <1>1, <1>2 DEF Ascending
<1>4. Numbers(NumbersPut) = currentBlock .. (currentBlock + PutCount - 1)
  <2>1. \A i \in 1 .. PutCount : NumbersPut[i] \in Int
    BY <1>1, <1>2
  <2>2. Pending \notin {NumbersPut[i] : i \in DOMAIN NumbersPut}
    BY <2>1, <1>2, PendingAssumption, Zenon
  <2>3. ASSUME NEW n \in Numbers(NumbersPut)
        PROVE  n \in currentBlock .. (currentBlock + PutCount - 1)
    BY <2>3, <1>1, <1>2 DEF Numbers
  <2>4. ASSUME NEW n \in currentBlock .. (currentBlock + PutCount - 1)
        PROVE  n \in Numbers(NumbersPut)
    <3>1. n - currentBlock + 1 \in 1 .. PutCount
      BY <2>4, <1>1
    <3>2. NumbersPut[n - currentBlock + 1] = n
      BY <3>1, <1>1, <1>2
    <3>3. n \in {NumbersPut[i] : i \in DOMAIN NumbersPut}
      BY <3>1, <3>2, <1>2
    <3>. QED  BY <3>3, <2>2 DEF Numbers
  <2>. QED  BY <2>3, <2>4
<1>5. Numbers(PendingPut) = {} /\ Ascending(PendingPut)
  <2>1. PendingPut = <<Pending>> \/ PendingPut = <<>>
    BY DEF PendingPut
  <2>. QED  BY <2>1 DEF Numbers, Ascending
<1>. QED  BY <1>3, <1>4, <1>5

(* fetchBlockNumber puts numbers that follow everything in the pipeline. *)
LEMMA WindowPut == WindowInv /\ PutNumbers => StagesOrdered' /\ NothingMissing'
<1>. SUFFICES ASSUME WindowInv, PutNumbers  PROVE StagesOrdered' /\ NothingMissing'
  OBVIOUS
<1>. DEFINE q == blockNumberBuffer \o NumbersPut
            fresh == currentBlock .. (currentBlock + PutCount - 1)
<1>1. /\ TypeOK /\ StagesOrdered /\ NothingMissing
      /\ currentBlock \in Nat /\ first \in Nat /\ PutCount \in Nat /\ first <= currentBlock
  BY PutShape DEF WindowInv, TypeOK
<1>2. /\ blockNumberBuffer \in Seq(Number) /\ NumbersPut \in Seq(Number)
      /\ PendingPut \in Seq(Number)
  BY <1>1, PutShape DEF TypeOK, Number
<1>3. q \in Seq(Number)
  BY <1>2, ConcatProperties
<1>4. blockNumberBuffer' = q \o PendingPut
  BY DEF PutNumbers
<1>5. Numbers(q) = Numbers(blockNumberBuffer) \union fresh
  BY <1>1, <1>2, NumbersConcat, PutOrder
<1>6. Numbers(blockNumberBuffer') = Numbers(blockNumberBuffer) \union fresh
  <2>1. Numbers(q \o PendingPut) = Numbers(q) \union Numbers(PendingPut)
    BY <1>2, <1>3, NumbersConcat
  <2>2. Numbers(PendingPut) = {}
    BY <1>1, PutOrder
  <2>. QED  BY <2>1, <2>2, <1>4, <1>5
<1>7. Below(Put, fresh)
  <2>1. Put \subseteq first .. (currentBlock - 1)
    BY <1>1 DEF NothingMissing
  <2>. QED  BY <2>1, <1>1 DEF Below
<1>8. Ascending(blockNumberBuffer')
  <2>1. Below(Numbers(blockNumberBuffer), fresh)
    BY <1>7 DEF Below, Put
  <2>2. Ascending(q)
    BY <2>1, <1>1, <1>2, AscendingConcat, PutOrder DEF StagesOrdered
  <2>3. Below(Numbers(q), Numbers(PendingPut))
    BY <1>1, PutOrder DEF Below
  <2>. QED  BY <2>2, <2>3, <1>1, <1>2, <1>3, <1>4, AscendingConcat, PutOrder
<1>9. /\ done' = done /\ current' = current /\ blockDataBuffer' = blockDataBuffer
      /\ data' = data /\ blocks' = blocks /\ lost' = lost /\ first' = first
      /\ currentBlock' = currentBlock + PutCount
  BY DEF PutNumbers, history, chain
<1>10. /\ InProcess' = InProcess /\ Fetched' = Fetched /\ Answered' = Answered
       /\ Requested' = Requested
  BY <1>9 DEF InProcess, Fetched, Answered, Requested
<1>11. StagesOrdered'
  <2>1. Below(Requested, Numbers(blockNumberBuffer) \union fresh)
    BY <1>1, <1>7 DEF Below, Put, StagesOrdered
  <2>. QED  BY <1>1, <1>6, <1>8, <1>9, <1>10, <2>1 DEF StagesOrdered
<1>12. NothingMissing'
  <2>1. Put' = Put \union fresh
    BY <1>6, <1>10 DEF Put
  <2>2. (first .. (currentBlock - 1)) \union fresh = first .. (currentBlock + PutCount - 1)
    BY <1>1
  <2>. QED  BY <2>1, <2>2, <1>1, <1>9 DEF NothingMissing
<1>. QED  BY <1>11, <1>12

(* takeAll moves the front of the number buffer into the empty batch. *)
LEMMA WindowTake == WindowInv /\ TakeBatch => StagesOrdered' /\ NothingMissing'
<1>. SUFFICES ASSUME WindowInv, TakeBatch  PROVE StagesOrdered' /\ NothingMissing'
  OBVIOUS
<1>1. StagesOrdered /\ NothingMissing /\ blockNumberBuffer \in Seq(Number)
  BY DEF WindowInv, TypeOK, Number
<1>2. BatchLen \in 0 .. Len(blockNumberBuffer)
  BY <1>1, SizeAssumption, LenProperties DEF BatchLen
<1>3. /\ Numbers(blocks') \union Numbers(blockNumberBuffer') = Numbers(blockNumberBuffer)
      /\ Ascending(blocks') /\ Ascending(blockNumberBuffer')
      /\ Below(Numbers(blocks'), Numbers(blockNumberBuffer'))
  BY <1>1, <1>2, TakeSplits DEF TakeBatch, StagesOrdered
<1>4. Numbers(blocks) = {}
  BY DEF TakeBatch, Numbers
<1>5. /\ done' = done /\ current' = current /\ blockDataBuffer' = blockDataBuffer
      /\ data' = data /\ lost' = lost /\ first' = first /\ currentBlock' = currentBlock
  BY DEF TakeBatch, history, chain, numbering
<1>6. InProcess' = InProcess /\ Fetched' = Fetched /\ Answered' = Answered
  BY <1>5 DEF InProcess, Fetched, Answered
<1>7. Requested = Answered /\ Requested' = Answered \union Numbers(blocks')
  BY <1>4, <1>6 DEF Requested
<1>8. StagesOrdered'
  <2>1. Below(Answered, Numbers(blocks'))
    BY <1>1, <1>3, <1>7 DEF StagesOrdered, Below
  <2>2. Below(Requested', Numbers(blockNumberBuffer'))
    BY <1>1, <1>3, <1>7 DEF StagesOrdered, Below
  <2>. QED  BY <1>1, <1>3, <1>5, <1>6, <2>1, <2>2 DEF StagesOrdered
<1>9. Put' = Put
  BY <1>3, <1>7 DEF Put
<1>. QED  BY <1>1, <1>5, <1>8, <1>9 DEF NothingMissing

(* The answers carry the numbers of the batch, but for one that the pending block
   may have overwritten, which is counted as lost. *)
LEMMA WindowFill == WindowInv /\ FillBlockDataBuffer => StagesOrdered' /\ NothingMissing'
<1>. SUFFICES ASSUME WindowInv, FillBlockDataBuffer
              PROVE  StagesOrdered' /\ NothingMissing'
  OBVIOUS
<1>. DEFINE over == {n \in Numbers(blocks) : PendingStays(n)}
<1>1. TypeOK /\ StagesOrdered /\ NothingMissing /\ DOMAIN data = {}
  BY DEF WindowInv, OneBatch, FillBlockDataBuffer
<1>2. PICK h \in (asked + 1) .. (head + 1), t \in 0 .. MaxTxs :
         data' = groupByBlock(PendingAt(h, t))
  BY DEF FillBlockDataBuffer
<1>3. /\ Heights(data') = Numbers(blocks) \ over
      /\ \A k \in DOMAIN data' : data'[k].status = "ACCEPTED" => data'[k].height = k
  <2>1. PendingAt(h, t).status = "PENDING"
    BY DEF PendingAt
  <2>. QED  BY <1>1, <1>2, <2>1, BatchHeights
<1>4. Heights(data) = {} /\ Numbers(blocks') = {} /\ Ascending(blocks')
  BY <1>1 DEF FillBlockDataBuffer, Heights, Numbers, Ascending
<1>5. /\ done' = done /\ current' = current /\ blockDataBuffer' = blockDataBuffer
      /\ blockNumberBuffer' = blockNumberBuffer /\ lost' = lost \union over
      /\ first' = first /\ currentBlock' = currentBlock
  BY DEF FillBlockDataBuffer, chain, numbering
<1>6. InProcess' = InProcess /\ Fetched' = Fetched
  BY <1>5 DEF InProcess, Fetched
<1>7. /\ Answered = Fetched /\ Requested = Fetched \union Numbers(blocks)
      /\ Answered' = Fetched \union (Numbers(blocks) \ over) /\ Requested' = Answered'
  BY <1>3, <1>4, <1>6 DEF Answered, Requested
<1>. HIDE DEF over
<1>8. StagesOrdered'
  <2>1. Below(Fetched, Heights(data'))
    BY <1>1, <1>3, <1>7 DEF StagesOrdered, Below
  <2>2. Below(Answered', Numbers(blocks'))
    BY <1>4 DEF Below
  <2>3. Below(Requested', Numbers(blockNumberBuffer))
    BY <1>1, <1>7 DEF StagesOrdered, Below
  <2>. QED  BY <1>1, <1>3, <1>4, <1>5, <1>6, <2>1, <2>2, <2>3 DEF StagesOrdered
<1>9. Put' \union lost' = Put \union lost
  <2>1. over \subseteq Numbers(blocks)
    BY DEF over
  <2>. QED  BY <2>1, <1>5, <1>7 DEF Put
<1>. QED  BY <1>1, <1>5, <1>8, <1>9 DEF NothingMissing

(* The lowest key goes to the end of the data buffer. *)
LEMMA WindowPutData == WindowInv /\ PutData => StagesOrdered' /\ NothingMissing'
<1>. SUFFICES ASSUME WindowInv, PutData  PROVE StagesOrdered' /\ NothingMissing'
  OBVIOUS
<1>1. TypeOK /\ StagesOrdered /\ NothingMissing
  BY DEF WindowInv
<1>2. PICK k \in DOMAIN data :
         /\ \A m \in DOMAIN data : k <= m
         /\ blockDataBuffer' = Append(blockDataBuffer, data[k])
         /\ data' = [m \in DOMAIN data \ {k} |-> data[m]]
  BY DEF PutData
<1>. DEFINE moved == Heights(<<data[k]>>)
<1>3. moved \union Heights(data') = Heights(data) /\ Below(moved, Heights(data'))
  <2>1. DOMAIN data \subseteq Nat
    BY <1>1 DEF TypeOK
  <2>2. \A m \in DOMAIN data : data[m].status = "ACCEPTED" => data[m].height = m
    BY <1>1 DEF StagesOrdered
  <2>3. \A m \in DOMAIN data : k <= m
    BY <1>2
  <2>4. data' = [m \in DOMAIN data \ {k} |-> data[m]]
    BY <1>2
  <2>. QED  BY <2>1, <2>2, <2>3, <2>4, LowestKey
<1>4. /\ done' = done /\ current' = current /\ blocks' = blocks
      /\ blockNumberBuffer' = blockNumberBuffer /\ lost' = lost
      /\ first' = first /\ currentBlock' = currentBlock
  BY DEF PutData, chain, numbering, history
<1>5. blockDataBuffer \in Seq(Block) /\ data[k] \in Block
  BY <1>1 DEF TypeOK
<1>6. Heights(blockDataBuffer') = Heights(blockDataBuffer) \union moved
  BY <1>2, <1>5, PutHeights
<1>. HIDE DEF moved
<1>7. InProcess' = InProcess /\ Fetched' = Fetched \union moved
  BY <1>4, <1>6 DEF InProcess, Fetched
<1>8. Answered' = Answered /\ Requested' = Requested /\ Put' = Put
  BY <1>3, <1>4, <1>7 DEF Answered, Requested, Put
<1>9. AscendingHeights(blockDataBuffer')
  <2>1. Below(Heights(blockDataBuffer), moved)
    BY <1>1, <1>3 DEF StagesOrdered, Below, Fetched
  <2>. QED  BY <1>1, <1>2, <1>5, <2>1, PutHeights DEF StagesOrdered, moved
<1>10. StagesOrdered'
  <2>1. Below(InProcess, Heights(blockDataBuffer'))
    BY <1>1, <1>3, <1>6 DEF StagesOrdered, Below, Fetched
  <2>2. Below(Fetched', Heights(data'))
    BY <1>1, <1>3, <1>7 DEF StagesOrdered, Below
  <2>3. \A m \in DOMAIN data' : data'[m].status = "ACCEPTED" => data'[m].height = m
    BY <1>1, <1>2 DEF StagesOrdered
  <2>. QED  BY <1>1, <1>4, <1>7, <1>8, <1>9, <2>1, <2>2, <2>3 DEF StagesOrdered
<1>. QED  BY <1>1, <1>4, <1>8, <1>10 DEF NothingMissing

(* take() moves the front of the data buffer into process(). *)
LEMMA WindowTakeData == WindowInv /\ TakeData => StagesOrdered' /\ NothingMissing'
<1>. SUFFICES ASSUME WindowInv, TakeData  PROVE StagesOrdered' /\ NothingMissing'
  OBVIOUS
<1>1. TypeOK /\ StagesOrdered /\ NothingMissing
  BY DEF WindowInv
<1>2. /\ Heights(current') \union Heights(blockDataBuffer') = Heights(blockDataBuffer)
      /\ AscendingHeights(blockDataBuffer')
      /\ Below(Heights(current'), Heights(blockDataBuffer'))
  BY <1>1, TakeHeights DEF TakeData, TypeOK, StagesOrdered
<1>3. Heights(current) = {}
  BY DEF TakeData, Heights
<1>4. /\ done' = done /\ data' = data /\ blocks' = blocks
      /\ blockNumberBuffer' = blockNumberBuffer /\ lost' = lost
      /\ first' = first /\ currentBlock' = currentBlock
  BY DEF TakeData, chain, numbering, history
<1>5. InProcess = done /\ InProcess' = done \union Heights(current')
  BY <1>3, <1>4 DEF InProcess
<1>6. Fetched' = Fetched
  BY <1>2, <1>5 DEF Fetched
<1>7. Answered' = Answered /\ Requested' = Requested /\ Put' = Put
  BY <1>4, <1>6 DEF Answered, Requested, Put
<1>8. StagesOrdered'
  <2>1. Below(done, Heights(current'))
    BY <1>1, <1>2, <1>5 DEF StagesOrdered, Below
  <2>2. Below(InProcess', Heights(blockDataBuffer'))
    BY <1>1, <1>2, <1>5 DEF StagesOrdered, Below
  <2>. QED  BY <1>1, <1>2, <1>4, <1>6, <1>7, <2>1, <2>2 DEF StagesOrdered
<1>. QED  BY <1>1, <1>4, <1>7, <1>8 DEF NothingMissing

(* A processed block was the lowest of the pipeline. *)
LEMMA WindowDone == WindowInv /\ ProcessDone => StagesOrdered' /\ NothingMissing'
<1>. SUFFICES ASSUME WindowInv, ProcessDone  PROVE StagesOrdered' /\ NothingMissing'
  OBVIOUS
<1>1. StagesOrdered /\ NothingMissing
  BY DEF WindowInv
<1>2. Heights(current') = {}
  BY DEF ProcessDone, Heights
<1>3. /\ done' = done \union Heights(current)
      /\ data' = data /\ blocks' = blocks /\ blockDataBuffer' = blockDataBuffer
      /\ blockNumberBuffer' = blockNumberBuffer /\ lost' = lost
      /\ first' = first /\ currentBlock' = currentBlock
  BY DEF ProcessDone, chain, numbering
<1>4. InProcess' = InProcess
  BY <1>2, <1>3 DEF InProcess
<1>5. Fetched' = Fetched /\ Answered' = Answered /\ Requested' = Requested /\ Put' = Put
  BY <1>3, <1>4 DEF Fetched, Answered, Requested, Put
<1>6. Below(done', Heights(current'))
  BY <1>2 DEF Below
<1>. QED  BY <1>1, <1>3, <1>4, <1>5, <1>6 DEF StagesOrdered, NothingMissing

(* The inductive invariant is kept by every step. *)
LEMMA WindowStep == WindowInv /\ [Next]_wvars => WindowInv'
<1>. SUFFICES ASSUME WindowInv, [Next]_wvars  PROVE WindowInv'
  OBVIOUS
<1>1. TypeOK /\ HeadInv
  BY DEF WindowInv
<1>2. TypeOK' /\ HeadInv'
  BY <1>1, TypeStep, HeadStep
<1>3. StagesOrdered' /\ NothingMissing'
  <2>1. ASSUME UNCHANGED <<first, currentBlock, blockNumberBuffer, blocks, data,
                           blockDataBuffer, current, done, lost>>
        PROVE  StagesOrdered' /\ NothingMissing'
    BY <2>1 DEF WindowInv, StagesOrdered, NothingMissing, Put, Requested, Answered,
       Fetched, InProcess
  <2>2. CASE NewBlock
    BY <2>1, <2>2 DEF NewBlock, numbering, history
  <2>3. CASE FetchLatestBlock \/ FetchTimeout
    BY <2>1, <2>3 DEF FetchLatestBlock, FetchTimeout, chain, history
  <2>4. CASE UNCHANGED wvars
    BY <2>1, <2>4 DEF wvars
  <2>. QED
    BY <2>2, <2>3, <2>4, WindowPut, WindowTake, WindowFill, WindowPutData,
       WindowTakeData, WindowDone
    DEF Next, Fetching, Filling
<1>4. first' = first /\ (head' = head \/ head' = head + 1)
  BY <1>1 DEF TypeOK, Next, Fetching, Filling, wvars, chain, NewBlock, FetchLatestBlock,
     FetchTimeout, PutNumbers, TakeBatch, FillBlockDataBuffer, PutData, TakeData, ProcessDone
<1>7. /\ head \in Nat /\ DelayBlock \in Nat /\ RpcLag \in Nat
      /\ first \in Nat /\ currentBlock \in Nat /\ latestBlock \in Nat
      /\ head > DelayBlock + RpcLag
  BY <1>1, ChainAssumption DEF TypeOK, HeadInv
<1>8. first <= currentBlock /\ Deep /\ AnswerDeep /\ OneBatch
  BY DEF WindowInv
<1>5. CASE PutNumbers
  <2>1. PutCount \in Nat /\ (PutCount = 0 \/ PutCount <= latestBlock - currentBlock + 1)
    <3>1. /\ latestBlock \in Nat /\ currentBlock \in Nat
          /\ freeSize(blockNumberBuffer, MaxBlockSize) \in Nat
      BY <1>1, SizeAssumption, LenProperties DEF TypeOK, freeSize
    <3>. QED  BY <3>1 DEF PutCount
  <2>2. first' <= currentBlock' /\ Deep'
    <3>1. currentBlock' = currentBlock + PutCount /\ head' = head
      BY <1>5 DEF PutNumbers, chain
    <3>. QED  BY <3>1, <2>1, <1>4, <1>7, <1>8 DEF Deep, AnswerDeep
  <2>3. OneBatch' /\ AnswerDeep'
    <3>1. latestBlock' = 0 /\ data' = data /\ blocks' = blocks
      BY <1>5 DEF PutNumbers
    <3>2. AnswerDeep'
      BY <3>1, <1>4, <1>7 DEF AnswerDeep
    <3>3. OneBatch'
      BY <3>1, <1>8 DEF OneBatch
    <3>. QED  BY <3>2, <3>3
  <2>. QED  BY <1>2, <1>3, <2>2, <2>3 DEF WindowInv
<1>6. CASE ~ PutNumbers
  <2>1. first' <= currentBlock' /\ currentBlock' = currentBlock
    BY <1>6 DEF WindowInv, Next, Fetching, Filling, wvars, chain, numbering, NewBlock,
       FetchLatestBlock, FetchTimeout, TakeBatch, FillBlockDataBuffer, PutData,
       TakeData, ProcessDone
  <2>2. Deep'
    <3>1. currentBlock = first \/ currentBlock <= head - DelayBlock + 1
      BY <1>8 DEF Deep
    <3>2. currentBlock' = first' \/ currentBlock' <= head' - DelayBlock + 1
      BY <3>1, <1>4, <1>7, <2>1
    <3>. QED  BY <3>2 DEF Deep
  <2>3. AnswerDeep'
    <3>1. CASE FetchLatestBlock
      BY <1>1, <3>1, ChainAssumption DEF FetchLatestBlock, AnswerDeep, chain, TypeOK
    <3>2. CASE ~ FetchLatestBlock
      <4>1. latestBlock' = latestBlock \/ latestBlock' = 0
        BY <3>2, <1>6 DEF Next, Fetching, Filling, wvars, numbering, NewBlock,
           FetchTimeout, TakeBatch, FillBlockDataBuffer, PutData, TakeData, ProcessDone
      <4>. QED
        BY <4>1, <1>4, <1>7, <1>8 DEF AnswerDeep
    <3>. QED  BY <3>1, <3>2
  <2>4. OneBatch'
    <3>1. CASE FillBlockDataBuffer \/ TakeBatch
      BY <3>1 DEF FillBlockDataBuffer, TakeBatch, OneBatch
    <3>2. CASE PutData
      BY <3>2 DEF WindowInv, PutData, OneBatch
    <3>3. CASE UNCHANGED <<blocks, data>>
      BY <3>3 DEF WindowInv, OneBatch
    <3>. QED
      BY <3>1, <3>2, <3>3, <1>6 DEF Next, Fetching, Filling, wvars, numbering, chain,
         history, NewBlock, FetchLatestBlock, FetchTimeout, TakeData, ProcessDone
  <2>. QED  BY <1>2, <1>3, <2>1, <2>2, <2>3, <2>4 DEF WindowInv
<1>. QED  BY <1>5, <1>6

(* Across the three loops and the two buffers no accepted block is missing,
   invented or out of order. *)
THEOREM WindowCorrect == Spec => []PipelineWindow
<1>1. WindowInv => PipelineWindow
  BY DEF WindowInv, PipelineWindow
<1>. QED  BY <1>1, WindowInit, WindowStep, PTL DEF Spec

(* No block nearer to the head of the chain than delayBlock is ever put. *)
THEOREM DelayCorrect == Spec => []DelayKept
<1>1. WindowInv => DelayKept
  <2>. SUFFICES ASSUME WindowInv, NEW n \in Put  PROVE n <= head - DelayBlock
    BY DEF DelayKept
  <2>1. n \in first .. (currentBlock - 1)
    BY DEF WindowInv, NothingMissing
  <2>. QED  BY <2>1, ChainAssumption DEF WindowInv, Deep, TypeOK
<1>. QED  BY <1>1, WindowInit, WindowStep, PTL DEF Spec

(* The pipeline holds, or has processed, every number from the first on, so that
   nothing below a processed one is still to come. *)
LEMMA WindowNoGap == WindowInv => ProcessedWithoutGap
<1>. SUFFICES ASSUME WindowInv, NEW n \in done, NEW m \in first .. (n - 1)
              PROVE  m \in done \union lost
  BY DEF ProcessedWithoutGap
<1>0. n \in Nat /\ first \in Nat /\ currentBlock \in Nat /\ m < n
  BY DEF WindowInv, TypeOK
<1>1. n \in first .. (currentBlock - 1)
  BY DEF WindowInv, NothingMissing, Put, Requested, Answered, Fetched, InProcess
<1>2. m \in Put \union lost
  BY <1>0, <1>1 DEF WindowInv, NothingMissing
<1>3. \A k \in Put : k \in done \/ n < k
  BY DEF WindowInv, StagesOrdered, Below, Put, Requested, Answered, Fetched, InProcess
<1>. QED  BY <1>0, <1>2, <1>3

(* A block is processed only after every block before it. *)
THEOREM NoGapCorrect == Spec => []ProcessedWithoutGap
BY WindowInit, WindowStep, WindowNoGap, PTL DEF Spec

(* No block is processed twice, nor after one that follows it. *)
THEOREM InOrderCorrect == Spec => ProcessedInOrder
<1>1. WindowInv /\ [Next]_wvars => [Below(done, done' \ done)]_wvars
  <2>. SUFFICES ASSUME WindowInv, [Next]_wvars  PROVE Below(done, done' \ done)
    OBVIOUS
  <2>1. CASE ProcessDone
    BY <2>1 DEF WindowInv, StagesOrdered, ProcessDone, Below
  <2>2. CASE done' = done
    BY <2>2 DEF Below
  <2>. QED
    BY <2>1, <2>2 DEF Next, Fetching, Filling, wvars, history, NewBlock, FetchLatestBlock,
       FetchTimeout, PutNumbers, TakeBatch, FillBlockDataBuffer, PutData, TakeData
<1>. QED  BY <1>1, WindowInit, WindowStep, PTL DEF Spec, ProcessedInOrder
-----------------------------------------------------------------------------
(* With answers that never go back, pendingBlock never falls below a number that
   has been put, nor below its own earlier values. *)
FreshInv ==
  RpcLag = 0 =>
    /\ currentBlock = first \/ currentBlock <= pendingBlock
    /\ pendingBlock <= head - DelayBlock + 1
    /\ latestBlock = 0 \/ pendingBlock <= latestBlock + 1
    /\ lost = {}

(* No number has been put before the first answer. *)
LEMMA FreshInit == Init => FreshInv
<1>. SUFFICES ASSUME Init  PROVE FreshInv
  OBVIOUS
<1>1. /\ head \in Nat /\ DelayBlock \in Nat /\ RpcLag \in Nat /\ pendingBlock = 0
      /\ head > DelayBlock + RpcLag
  BY ChainAssumption DEF Init
<1>. QED  BY <1>1 DEF Init, FreshInv

(* While answers never go back, pendingBlock stays above every number put. *)
LEMMA FreshStep == WindowInv /\ FreshInv /\ [Next]_wvars => FreshInv'
<1>. SUFFICES ASSUME WindowInv, FreshInv, [Next]_wvars, RpcLag = 0  PROVE FreshInv'
  BY DEF FreshInv
<1>1. /\ head \in Nat /\ DelayBlock \in Nat /\ first \in Nat /\ currentBlock \in Nat
      /\ latestBlock \in Nat /\ pendingBlock \in Nat
  BY ChainAssumption DEF WindowInv, TypeOK
<1>2. /\ currentBlock = first \/ currentBlock <= pendingBlock
      /\ pendingBlock <= head - DelayBlock + 1
      /\ latestBlock = 0 \/ pendingBlock <= latestBlock + 1
      /\ lost = {}
      /\ latestBlock <= head - DelayBlock
  BY DEF FreshInv, WindowInv, AnswerDeep
<1>3. ASSUME UNCHANGED <<chain, numbering, lost>>  PROVE FreshInv'
  BY <1>3 DEF FreshInv, chain, numbering
<1>4. CASE NewBlock
  <2>1. /\ head' = head + 1 /\ first' = first /\ currentBlock' = currentBlock
        /\ pendingBlock' = pendingBlock /\ latestBlock' = latestBlock /\ lost' = lost
    BY <1>4 DEF NewBlock, numbering, history
  <2>. QED  BY <2>1, <1>1, <1>2 DEF FreshInv
<1>5. CASE FetchLatestBlock
  <2>1. /\ head' = head /\ first' = first /\ currentBlock' = currentBlock
        /\ pendingBlock' = pendingBlock /\ lost' = lost
        /\ latestBlock' = head - DelayBlock
    BY <1>1, <1>5 DEF FetchLatestBlock, chain, history
  <2>. QED  BY <2>1, <1>1, <1>2 DEF FreshInv
<1>6. CASE FetchTimeout
  <2>1. /\ head' = head /\ first' = first /\ currentBlock' = currentBlock
        /\ pendingBlock' = pendingBlock /\ lost' = lost /\ latestBlock' = 0
    BY <1>6 DEF FetchTimeout, chain, history
  <2>. QED  BY <2>1, <1>1, <1>2 DEF FreshInv
<1>7. CASE PutNumbers
  <2>1. /\ head' = head /\ first' = first /\ currentBlock' = currentBlock + PutCount
        /\ pendingBlock' = latestBlock + 1 /\ lost' = lost /\ latestBlock' = 0
        /\ latestBlock # 0
    BY <1>7 DEF PutNumbers, chain, history
  <2>2. PutCount \in Nat /\ (PutCount = 0 \/ PutCount <= latestBlock - currentBlock + 1)
    <3>1. freeSize(blockNumberBuffer, MaxBlockSize) \in Nat
      BY SizeAssumption, LenProperties DEF WindowInv, TypeOK, freeSize
    <3>. QED  BY <3>1, <1>1 DEF PutCount
  <2>. QED  BY <2>1, <2>2, <1>1, <1>2 DEF FreshInv
<1>8. CASE FillBlockDataBuffer
  <2>1. Numbers(blocks) \subseteq first .. (currentBlock - 1)
    BY DEF WindowInv, NothingMissing, Put, Requested
  <2>2. \A n \in Numbers(blocks) : n # pendingBlock
    BY <2>1, <1>1, <1>2
  <2>3. lost' = lost
    BY <2>2, <1>8 DEF FillBlockDataBuffer, PendingStays
  <2>. QED  BY <2>3, <1>3, <1>8 DEF FillBlockDataBuffer
<1>9. CASE TakeBatch \/ PutData \/ TakeData \/ ProcessDone \/ UNCHANGED wvars
  BY <1>3, <1>9 DEF TakeBatch, PutData, TakeData, ProcessDone, wvars, history, chain, numbering
<1>. QED
  BY <1>4, <1>5, <1>6, <1>7, <1>8, <1>9 DEF Next, Fetching, Filling

(* A fetched block is lost only to an answer of the RPC node that went back. *)
THEOREM NothingLost == Spec => []OnlyLagLoses
<1>1. FreshInv => OnlyLagLoses
  BY DEF FreshInv, OnlyLagLoses
<1>. QED  BY <1>1, WindowInit, WindowStep, FreshInit, FreshStep, PTL DEF Spec

(* process() holds one block. *)
LEMMA OneBlock ==
  ASSUME NEW s \in Seq(Block), Len(s) <= 1, s # <<>>
  PROVE  Heights(s) \in {{}, {s[1].height}}
<1>1. Len(s) \in Nat \ {0} /\ DOMAIN s = 1 .. Len(s)
  BY EmptySeq, LenProperties
<1>2. DOMAIN s = {1}
  BY <1>1
<1>. QED  BY <1>2 DEF Heights

(* A processed block is the next one OrderedBlocks allows. *)
LEMMA HandledNext ==
  ASSUME WindowInv, lost = {}, NEW n \in Heights(current), Heights(current) = {n}
  PROVE  /\ n \notin done /\ n \in first .. (head - DelayBlock)
         /\ first .. (n - 1) \subseteq done /\ done \subseteq first .. (n - 1)
<1>1. /\ first \in Nat /\ currentBlock \in Nat /\ head \in Nat /\ DelayBlock \in Nat
      /\ done \subseteq Nat
  BY ChainAssumption DEF WindowInv, TypeOK
<1>2. Below(done, {n}) /\ n \in Put /\ done \subseteq Put /\ Put = first .. (currentBlock - 1)
  BY DEF WindowInv, StagesOrdered, NothingMissing, Put, Requested, Answered, Fetched, InProcess
<1>3. \A k \in Put : k \in done \/ k = n \/ n < k
  BY DEF WindowInv, StagesOrdered, Below, Put, Requested, Answered, Fetched, InProcess
<1>4. n \in first .. (head - DelayBlock)
  BY <1>1, <1>2 DEF WindowInv, Deep
<1>5. n \notin done /\ done \subseteq first .. (n - 1)
  BY <1>1, <1>2, <1>4 DEF Below
<1>6. first .. (n - 1) \subseteq done
  BY <1>1, <1>2, <1>3, <1>4
<1>. QED  BY <1>4, <1>5, <1>6

(* The pipeline implements the one-block-at-a-time worker: every step handles
   the next block, grows the chain, or is a stutter. *)
THEOREM Refinement == ASSUME RpcLag = 0  PROVE Spec => ImplementsOrderedBlocks
<1>1. Init => Ordered!AInit
  BY TypeInit DEF Init, Ordered!AInit, TypeOK
<1>2. WindowInv /\ FreshInv /\ [Next]_wvars => [Ordered!ANext]_(Ordered!avars)
  <2>. SUFFICES ASSUME WindowInv, FreshInv, [Next]_wvars
                PROVE  Ordered!ANext \/ UNCHANGED Ordered!avars
    OBVIOUS
  <2>1. CASE NewBlock
    BY <2>1 DEF NewBlock, Ordered!ANext, Ordered!Grow, history
  <2>2. CASE ProcessDone
    <3>1. lost = {}
      BY DEF FreshInv
    <3>2. UNCHANGED <<head, first>> /\ done' = done \union Heights(current)
      BY <2>2 DEF ProcessDone, chain
    <3>3. current \in Seq(Block) /\ Len(current) <= 1 /\ current # <<>>
      BY <2>2 DEF WindowInv, TypeOK, ProcessDone
    <3>4. Heights(current) \in {{}, {current[1].height}}
      BY <3>3, OneBlock
    <3>5. CASE Heights(current) = {}
      BY <3>2, <3>5 DEF Ordered!avars
    <3>6. CASE Heights(current) = {current[1].height}
      <4>. DEFINE n == current[1].height
      <4>1. n \in Heights(current)
        BY <3>6
      <4>2. n \in first .. (head - DelayBlock) /\ Ordered!Handle(n)
        BY <3>1, <3>2, <3>6, <4>1, HandledNext DEF Ordered!Handle
      <4>. QED  BY <4>2 DEF Ordered!ANext
    <3>. QED  BY <3>4, <3>5, <3>6
  <2>3. CASE UNCHANGED <<head, first, done>>
    BY <2>3 DEF Ordered!avars
  <2>. QED
    BY <2>1, <2>2, <2>3 DEF Next, Fetching, Filling, wvars, chain, history,
       FetchLatestBlock, FetchTimeout, PutNumbers, TakeBatch, FillBlockDataBuffer,
       PutData, TakeData
<1>. QED
  BY <1>1, <1>2, WindowInit, WindowStep, FreshInit, FreshStep, PTL
  DEF Spec, ImplementsOrderedBlocks, Ordered!ASpec
=============================================================================
