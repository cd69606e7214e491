--------------------------- MODULE CardPathProofs ---------------------------
(***************************************************************************)
(* Proofs about CardPath, for every chain and its receipts, any cards and  *)
(* attributes, and any number of metadata jobs at once, of events that are *)
(* delivered again and of runs that fail.                                  *)
(* First what each step does to the jobs (JobsInv, Moved), then what the   *)
(* decoders make of a log; from these the types (PathInv), the way of a    *)
(* card to its metadata (FetchedInv), that of an event to its record       *)
(* (HistoryInv), and the map of attributes (KeptInv), for which the loop   *)
(* of reloadAttributeMap is taken one attribute at a time.                 *)
(***************************************************************************)
EXTENDS CardPath, FiniteSetTheorems, SequenceTheorems, WellFoundedInduction, TLAPS

(* The jobs are a sequence of records. *)
JobsInv ==
  /\ jobs \in Seq({jobs[j] : j \in DOMAIN jobs})
  /\ \A j \in DOMAIN jobs :
       jobs[j] = [card |-> jobs[j].card, pc |-> jobs[j].pc, copy |-> jobs[j].copy,
                  missed |-> jobs[j].missed]

(* A function on 1 .. n is a sequence of its values. *)
LEMMA SequenceOf ==
  ASSUME NEW n \in Nat, NEW f, f = [k \in 1 .. n |-> f[k]]
  PROVE  f \in Seq({f[k] : k \in DOMAIN f}) /\ Len(f) = n
<1>1. f \in [1 .. n -> {f[k] : k \in DOMAIN f}]  OBVIOUS
<1> QED BY <1>1

(* The jobs are numbered from 1. *)
LEMMA JobsDomain ==
  ASSUME JobsInv
  PROVE  Len(jobs) \in Nat /\ DOMAIN jobs = 1 .. Len(jobs)
BY DEF JobsInv

(* A job goes on to o; nothing else is different about any of them. *)
Moved(j, o) ==
  /\ DOMAIN jobs' = DOMAIN jobs
  /\ \A k \in DOMAIN jobs : /\ jobs'[k].card = jobs[k].card
                            /\ jobs'[k].pc = IF k = j THEN o ELSE jobs[k].pc

(* Jobs of which each is written anew, with its card, are jobs in which one moved. *)
LEMMA Rewritten ==
  ASSUME JobsInv, NEW j \in DOMAIN jobs, NEW o,
         jobs' = [k \in DOMAIN jobs |-> jobs'[k]],
         \A k \in DOMAIN jobs :
           /\ jobs'[k] = [card |-> jobs'[k].card, pc |-> jobs'[k].pc, copy |-> jobs'[k].copy,
                          missed |-> jobs'[k].missed]
           /\ jobs'[k].card = jobs[k].card
           /\ jobs'[k].pc = IF k = j THEN o ELSE jobs[k].pc
  PROVE  JobsInv' /\ Moved(j, o)
<1>1. jobs' = [k \in 1 .. Len(jobs) |-> jobs'[k]]  BY JobsDomain
<1>2. jobs' \in Seq({jobs'[k] : k \in DOMAIN jobs'})  BY <1>1, JobsDomain, SequenceOf
<1>3. DOMAIN jobs' = DOMAIN jobs  OBVIOUS
<1> QED BY <1>2, <1>3 DEF JobsInv, Moved

(* A job ends. *)
LEMMA EndedMoves ==
  ASSUME JobsInv, NEW j \in DOMAIN jobs, NEW o, Ended(j, o)
  PROVE  JobsInv' /\ Moved(j, o)
<1>1. jobs'[j] = [card |-> jobs[j].card, pc |-> o, copy |-> Undefined, missed |-> {}]
  BY DEF Ended, NewJob
<1>2. \A k \in DOMAIN jobs : k # j => jobs'[k] = jobs[k]  BY DEF Ended
<1>3. \A k \in DOMAIN jobs :
           /\ jobs'[k] = [card |-> jobs'[k].card, pc |-> jobs'[k].pc, copy |-> jobs'[k].copy,
                          missed |-> jobs'[k].missed]
           /\ jobs'[k].card = jobs[k].card
           /\ jobs'[k].pc = IF k = j THEN o ELSE jobs[k].pc
  <2> TAKE k \in DOMAIN jobs
  <2>1. CASE k = j  BY <1>1, <2>1
  <2>2. CASE k # j  BY <1>2, <2>2 DEF JobsInv
  <2> QED BY <2>1, <2>2
<1>4. jobs' = [k \in DOMAIN jobs |-> jobs'[k]]  BY DEF Ended
<1> QED BY <1>3, <1>4, Rewritten

(* A job reads its card and the collection. *)
LEMMA LoadMoves ==
  ASSUME JobsInv, NEW j \in DOMAIN jobs, LoadCard(j)
  PROVE  JobsInv' /\ Moved(j, "fetch")
<1>1. jobs'[j] = [card |-> jobs[j].card, pc |-> "fetch", copy |-> attributesMap, missed |-> jobs[j].missed]
  <2>1. jobs[j] = [card |-> jobs[j].card, pc |-> jobs[j].pc, copy |-> jobs[j].copy,
                   missed |-> jobs[j].missed]
    BY DEF JobsInv
  <2>2. jobs'[j] = [jobs[j] EXCEPT !.pc = "fetch", !.copy = attributesMap]  BY DEF LoadCard
  <2> QED BY <2>1, <2>2
<1>0. \A k \in DOMAIN jobs : k # j => jobs'[k] = jobs[k]  BY DEF LoadCard
<1>2. \A k \in DOMAIN jobs :
           /\ jobs'[k] = [card |-> jobs'[k].card, pc |-> jobs'[k].pc, copy |-> jobs'[k].copy,
                          missed |-> jobs'[k].missed]
           /\ jobs'[k].card = jobs[k].card
           /\ jobs'[k].pc = IF k = j THEN "fetch" ELSE jobs[k].pc
  <2> TAKE k \in DOMAIN jobs
  <2>1. CASE k = j  BY <1>1, <2>1
  <2>2. CASE k # j  BY <1>0, <2>2 DEF JobsInv
  <2> QED BY <2>1, <2>2
<1>3. jobs' = [k \in DOMAIN jobs |-> jobs'[k]]  BY DEF LoadCard
<1> QED BY <1>2, <1>3, Rewritten

(* A job stores the metadata with its card. *)
LEMMA StoreMoves ==
  ASSUME JobsInv, NEW j \in DOMAIN jobs, StoreMetadata(j)
  PROVE  JobsInv' /\ Moved(j, "merge")
<1>1. jobs'[j] = [card |-> jobs[j].card, pc |-> "merge", copy |-> jobs[j].copy, missed |-> jobs[j].missed]
  <2>1. jobs[j] = [card |-> jobs[j].card, pc |-> jobs[j].pc, copy |-> jobs[j].copy,
                   missed |-> jobs[j].missed]
    BY DEF JobsInv
  <2>2. jobs'[j] = [jobs[j] EXCEPT !.pc = "merge"]  BY DEF StoreMetadata
  <2> QED BY <2>1, <2>2
<1>0. \A k \in DOMAIN jobs : k # j => jobs'[k] = jobs[k]  BY DEF StoreMetadata
<1>2. \A k \in DOMAIN jobs :
           /\ jobs'[k] = [card |-> jobs'[k].card, pc |-> jobs'[k].pc, copy |-> jobs'[k].copy,
                          missed |-> jobs'[k].missed]
           /\ jobs'[k].card = jobs[k].card
           /\ jobs'[k].pc = IF k = j THEN "merge" ELSE jobs[k].pc
  <2> TAKE k \in DOMAIN jobs
  <2>1. CASE k = j  BY <1>1, <2>1
  <2>2. CASE k # j  BY <1>0, <2>2 DEF JobsInv
  <2> QED BY <2>1, <2>2
<1>3. jobs' = [k \in DOMAIN jobs |-> jobs'[k]]  BY DEF StoreMetadata
<1> QED BY <1>2, <1>3, Rewritten

(* A job stores the map; what the others have missed is no move. *)
LEMMA MapMoves ==
  ASSUME JobsInv, NEW j \in DOMAIN jobs, StoreMap(j)
  PROVE  JobsInv' /\ Moved(j, "done")
<1>1. jobs'[j] = [card |-> jobs[j].card, pc |-> "done", copy |-> Undefined, missed |-> {}]
  BY DEF StoreMap, NewJob
<1>2. \A k \in DOMAIN jobs : k # j =>
        jobs'[k] = jobs[k]
        \/ jobs'[k] = [card |-> jobs[k].card, pc |-> jobs[k].pc, copy |-> jobs[k].copy,
                       missed |-> jobs[k].missed \union {jobs[j].card}]
  <2> SUFFICES ASSUME NEW k \in DOMAIN jobs, k # j, k \in Active
               PROVE  jobs'[k] = [card |-> jobs[k].card, pc |-> jobs[k].pc, copy |-> jobs[k].copy,
                                  missed |-> jobs[k].missed \union {jobs[j].card}]
    BY DEF StoreMap
  <2>1. jobs'[k] = [jobs[k] EXCEPT !.missed = @ \union {jobs[j].card}]  BY DEF StoreMap
  <2>2. jobs[k] = [card |-> jobs[k].card, pc |-> jobs[k].pc, copy |-> jobs[k].copy,
                   missed |-> jobs[k].missed]
    BY DEF JobsInv
  <2> QED BY <2>1, <2>2
<1>3. \A k \in DOMAIN jobs :
           /\ jobs'[k] = [card |-> jobs'[k].card, pc |-> jobs'[k].pc, copy |-> jobs'[k].copy,
                          missed |-> jobs'[k].missed]
           /\ jobs'[k].card = jobs[k].card
           /\ jobs'[k].pc = IF k = j THEN "done" ELSE jobs[k].pc
  <2> TAKE k \in DOMAIN jobs
  <2>1. CASE k = j  BY <1>1, <2>1
  <2>2. CASE k # j /\ jobs'[k] = jobs[k]  BY <2>2 DEF JobsInv
  <2>3. CASE /\ k # j
             /\ jobs'[k] = [card |-> jobs[k].card, pc |-> jobs[k].pc, copy |-> jobs[k].copy,
                            missed |-> jobs[k].missed \union {jobs[j].card}]
    BY <2>3
  <2> QED BY <1>2, <2>1, <2>2, <2>3
<1>4. jobs' = [k \in DOMAIN jobs |-> jobs'[k]]  BY DEF StoreMap
<1> QED BY <1>3, <1>4, Rewritten

(* A sequence is the function of its elements. *)
LEMMA SequenceIsFunction ==
  ASSUME NEW S, NEW t \in Seq(S), NEW n, Len(t) = n
  PROVE  t = [k \in 1 .. n |-> t[k]]
OBVIOUS

(* A job is added behind the others. *)
LEMMA JobAdded ==
  ASSUME JobsInv, NEW card, jobs' = Append(jobs, NewJob(card))
  PROVE  /\ JobsInv'
         /\ \E n : /\ n \notin DOMAIN jobs /\ DOMAIN jobs' = DOMAIN jobs \union {n}
                   /\ jobs'[n].card = card /\ jobs'[n].pc = "queued"
         /\ \A k \in DOMAIN jobs : jobs'[k] = jobs[k]
<1> DEFINE n == Len(jobs) + 1
           S == {jobs[j] : j \in DOMAIN jobs} \union {NewJob(card)}
<1>0. jobs' \in Seq(S) /\ Len(jobs') = n /\ jobs'[n] = NewJob(card)
      /\ \A k \in 1 .. Len(jobs) : jobs'[k] = jobs[k]
  <2>1. jobs \in Seq(S)  BY DEF JobsInv
  <2> HIDE DEF S
  <2>2. NewJob(card) \in S  BY DEF S
  <2> QED BY <2>1, <2>2, AppendProperties
<1>1. /\ n \in Nat /\ n \notin DOMAIN jobs
      /\ 1 .. n = DOMAIN jobs \union {n}
      /\ DOMAIN jobs = 1 .. Len(jobs)
  BY JobsDomain
<1> HIDE DEF n, S
<1>6. jobs' = [k \in 1 .. n |-> jobs'[k]]
  BY <1>0, SequenceIsFunction
<1>2. jobs' \in Seq({jobs'[k] : k \in DOMAIN jobs'})
  <2>1. n \in Nat /\ jobs' = [k \in 1 .. n |-> jobs'[k]]  BY <1>1, <1>6
  <2> QED BY <2>1, SequenceOf, Zenon
<1>3. DOMAIN jobs' = DOMAIN jobs \union {n}  BY <1>1, <1>6
<1>4. jobs'[n] = [card |-> card, pc |-> "queued", copy |-> Undefined, missed |-> {}]
  BY <1>0 DEF NewJob
<1>5. JobsInv'
  <2> SUFFICES ASSUME NEW k \in DOMAIN jobs'
               PROVE  jobs'[k] = [card |-> jobs'[k].card, pc |-> jobs'[k].pc,
                                  copy |-> jobs'[k].copy, missed |-> jobs'[k].missed]
    BY <1>2 DEF JobsInv
  <2>1. CASE k = n  BY <1>4, <2>1
  <2>2. CASE k \in DOMAIN jobs  BY <1>0, <1>1, <2>2 DEF JobsInv
  <2> QED BY <1>3, <2>1, <2>2
<1> QED BY <1>0, <1>1, <1>3, <1>4, <1>5
-----------------------------------------------------------------------------
(* What the decoders make of a log. *)
IsReceipt(receipt) ==
  /\ receipt.success \in BOOLEAN
  /\ DOMAIN receipt.logs \subseteq Nat
  /\ \A i \in DOMAIN receipt.logs : IsLog(receipt.logs[i])

(* A log of cards gives an event for each of them, if it can be read. *)
LEMMA CardLogDecoded ==
  ASSUME NEW receipt, IsReceipt(receipt), NEW i \in DOMAIN receipt.logs,
         Concerns(receipt.logs[i]), receipt.logs[i].topic \in CardTopics
  PROVE  LET log == receipt.logs[i] IN
         /\ DOMAIN EventsOfLog(receipt, i) = IF log.readable THEN DOMAIN log.cards ELSE {}
         /\ \A n \in DOMAIN EventsOfLog(receipt, i) :
              EventsOfLog(receipt, i)[n] =
                [eventType |-> CardEventType(log), index |-> i - 1, from |-> log.from,
                 to |-> log.to, card |-> log.cards[n],
                 cardAddress |-> formattedContractAddress(cardsContract)]
         /\ log.cards \in Seq(CardIds)
<1>1. receipt.logs[i].contract = cardsContract
  BY DEF Concerns, Emitters, CardTopics
<1>2. receipt.logs[i].topic # "CLAIM_REWARD"  BY DEF CardTopics
<1>3. EventsOfLog(receipt, i) = decodeCardTransfers(receipt.logs[i], i - 1)
  BY DEF EventsOfLog, DecodedLog
<1>4. receipt.logs[i].cards \in Seq(CardIds)  BY DEF IsReceipt, IsLog
<1> QED BY <1>1, <1>2, <1>3, <1>4 DEF decodeCardTransfers, decodeCardTransfer, cardAddress

(* A log of points or of a pool gives one event. *)
LEMMA PointLogDecoded ==
  ASSUME NEW receipt, IsReceipt(receipt), NEW i \in DOMAIN receipt.logs,
         Concerns(receipt.logs[i]), receipt.logs[i].topic \in PointOrPoolTopics
  PROVE  LET log == receipt.logs[i] IN
         /\ DOMAIN EventsOfLog(receipt, i) = {1}
         /\ EventsOfLog(receipt, i)[1].eventType = PointOrPoolType(log.topic)
         /\ EventsOfLog(receipt, i)[1].index = i - 1
         /\ EventsOfLog(receipt, i)[1].from = log.from
         /\ EventsOfLog(receipt, i)[1].to = log.to
         /\ log.topic = "CLAIM_REWARD" =>
              /\ EventsOfLog(receipt, i)[1].card \in CardIds
              /\ EventsOfLog(receipt, i)[1].cardAddress = toString(cardsContract)
<1>1. receipt.logs[i].topic \notin CardTopics  BY DEF CardTopics, PointOrPoolTopics
<1>2. EventsOfLog(receipt, i) = decodePointOrPool(receipt.logs[i], i - 1)
  BY <1>1 DEF EventsOfLog, DecodedLog
<1>3. receipt.logs[i].topic = "CLAIM_REWARD" => Head(receipt.logs[i].cards) \in CardIds
  BY DEF IsReceipt, IsLog
<1> QED BY <1>2, <1>3 DEF decodePointOrPool, cardAddress

(* A log of another contract gives none. *)
LEMMA NoneDecoded ==
  ASSUME NEW receipt, NEW i \in DOMAIN receipt.logs, ~Concerns(receipt.logs[i])
  PROVE  EventsOfLog(receipt, i) = <<>>
BY DEF EventsOfLog

(* An event is found in the log at its place. *)
LEMMA EventOfLog ==
  ASSUME NEW receipt, IsReceipt(receipt), NEW place \in getReturnValuesEvent(receipt)
  PROVE  LET log == receipt.logs[place[1]]  ev == EventIn(receipt, place) IN
         /\ receipt.success
         /\ place[1] \in DOMAIN receipt.logs
         /\ place = <<place[1], place[2]>>
         /\ Concerns(log)
         /\ ev.index = place[1] - 1 /\ ev.from = log.from /\ ev.to = log.to
         /\ log.topic \in CardTopics =>
              /\ ev.eventType = CardEventType(log)
              /\ ev.card \in CardIds /\ ev.card \in ToSet(log.cards)
              /\ ev.cardAddress = formattedContractAddress(cardsContract)
         /\ log.topic \in PointOrPoolTopics => ev.eventType = PointOrPoolType(log.topic)
         /\ log.topic = "CLAIM_REWARD" =>
              ev.card \in CardIds /\ ev.cardAddress = toString(cardsContract)
         /\ log.topic \in CardTopics \union PointOrPoolTopics
<1>1. receipt.success  BY DEF getReturnValuesEvent
<1>2. PICK i \in DOMAIN receipt.logs : place \in {i} \X DOMAIN EventsOfLog(receipt, i)
  BY <1>1 DEF getReturnValuesEvent
<1>3. i = place[1] /\ place = <<place[1], place[2]>> /\ place[2] \in DOMAIN EventsOfLog(receipt, i)
  BY <1>2
<1>4. Concerns(receipt.logs[i])  BY <1>3, NoneDecoded
<1>5. receipt.logs[i].topic \in CardTopics \union PointOrPoolTopics  BY DEF IsReceipt, IsLog
<1>6. CASE receipt.logs[i].topic \in CardTopics
  <2>1. receipt.logs[i].topic \notin PointOrPoolTopics  BY <1>6 DEF CardTopics, PointOrPoolTopics
  <2>2. receipt.logs[i].topic # "CLAIM_REWARD"  BY <1>6 DEF CardTopics
  <2>3. place[2] \in DOMAIN receipt.logs[i].cards /\ receipt.logs[i].cards \in Seq(CardIds)
    BY <1>3, <1>4, <1>6, CardLogDecoded
  <2>4. receipt.logs[i].cards[place[2]] \in CardIds
        /\ receipt.logs[i].cards[place[2]] \in ToSet(receipt.logs[i].cards)
    BY <2>3 DEF ToSet
  <2>5. EventIn(receipt, place) =
                [eventType |-> CardEventType(receipt.logs[i]), index |-> i - 1,
                 from |-> receipt.logs[i].from,
                 to |-> receipt.logs[i].to, card |-> receipt.logs[i].cards[place[2]],
                 cardAddress |-> formattedContractAddress(cardsContract)]
    BY <1>3, <1>4, <1>6, CardLogDecoded DEF EventIn
  <2> QED BY <1>1, <1>3, <1>4, <1>5, <2>1, <2>2, <2>4, <2>5
<1>7. CASE receipt.logs[i].topic \in PointOrPoolTopics
  <2>1. receipt.logs[i].topic \notin CardTopics  BY <1>7 DEF CardTopics, PointOrPoolTopics
  <2>2. place[2] = 1  BY <1>3, <1>4, <1>7, PointLogDecoded
  <2> QED BY <1>1, <1>3, <1>4, <1>5, <1>7, <2>1, <2>2, PointLogDecoded DEF EventIn
<1> QED BY <1>5, <1>6, <1>7

(* A log that ought to be in the history is queued, at its first place, as an
   event whose handler records it. *)
LEMMA LogIsQueued ==
  ASSUME NEW receipt, IsReceipt(receipt), NEW i \in DOMAIN receipt.logs,
         ~LeavesNoHistory(receipt, receipt.logs[i])
  PROVE  /\ <<i, 1>> \in QueuedEvents(receipt)
         /\ EventIn(receipt, <<i, 1>>).eventType \notin {"AddPoint", "CreatePool"}
<1> DEFINE log == receipt.logs[i]  place == <<i, 1>>  ev == EventIn(receipt, place)
<1>1. /\ receipt.success /\ Concerns(log)
      /\ log.topic \in CardTopics => /\ log.readable /\ log.cards # <<>>
                                     /\ CardEventType(log) # "BurnCard"
      /\ log.topic \notin {"ADD_POINT", "CREATE_POOL"}
  BY DEF LeavesNoHistory
<1>2. log.topic \in CardTopics \/ log.topic \in PointOrPoolTopics  BY DEF IsReceipt, IsLog
<1>3. 1 \in DOMAIN EventsOfLog(receipt, i)
  <2>1. CASE log.topic \in CardTopics
    <3>1. log.cards \in Seq(CardIds) /\ DOMAIN EventsOfLog(receipt, i) = DOMAIN log.cards
      BY <1>1, <2>1, CardLogDecoded
    <3> QED BY <1>1, <2>1, <3>1
  <2>2. CASE log.topic \in PointOrPoolTopics  BY <1>1, <2>2, PointLogDecoded
  <2> QED BY <1>2, <2>1, <2>2
<1>4. place \in getReturnValuesEvent(receipt)  BY <1>1, <1>3 DEF getReturnValuesEvent
<1>5. place[1] = i  OBVIOUS
<1>6. /\ log.topic \in CardTopics => ev.eventType = CardEventType(log)
      /\ log.topic \in PointOrPoolTopics => ev.eventType = PointOrPoolType(log.topic)
  BY <1>4, <1>5, EventOfLog
<1>7. ev.eventType \notin {"AddPoint", "CreatePool", "BurnCard"}
  BY <1>1, <1>2, <1>6 DEF CardEventType, PointOrPoolType, PointOrPoolTopics
<1>8. ev.eventType = "MintCard" => ~HasType(receipt, "ClaimRewards")
  <2> SUFFICES ASSUME ev.eventType = "MintCard", NEW p \in getReturnValuesEvent(receipt),
                      EventIn(receipt, p).eventType = "ClaimRewards"
               PROVE  FALSE
    BY DEF HasType
  <2>1. log.topic \in CardTopics
    BY <1>2, <1>6 DEF PointOrPoolType, PointOrPoolTopics
  <2>2. LET other == receipt.logs[p[1]] IN
        /\ p[1] \in DOMAIN receipt.logs /\ Concerns(other)
        /\ other.topic \in CardTopics \union PointOrPoolTopics
        /\ other.topic \in CardTopics => CardEventType(other) = "ClaimRewards"
        /\ other.topic \in PointOrPoolTopics => PointOrPoolType(other.topic) = "ClaimRewards"
    BY EventOfLog
  <2>3. receipt.logs[p[1]].topic = "CLAIM_REWARD"
    BY <2>2 DEF CardEventType, PointOrPoolType, PointOrPoolTopics
  <2> QED BY <1>6, <2>1, <2>2, <2>3 DEF LeavesNoHistory
<1>9. ev.eventType = "TransferPoint" => ~HasType(receipt, "JoiningPool")
  <2> SUFFICES ASSUME ev.eventType = "TransferPoint", NEW p \in getReturnValuesEvent(receipt),
                      EventIn(receipt, p).eventType = "JoiningPool"
               PROVE  FALSE
    BY DEF HasType
  <2>1. log.topic = "TRANSFER_POINT"
    BY <1>2, <1>6 DEF CardEventType, PointOrPoolType, PointOrPoolTopics
  <2>2. LET other == receipt.logs[p[1]] IN
        /\ p[1] \in DOMAIN receipt.logs /\ Concerns(other)
        /\ other.topic \in CardTopics \union PointOrPoolTopics
        /\ other.topic \in CardTopics => CardEventType(other) = "JoiningPool"
        /\ other.topic \in PointOrPoolTopics => PointOrPoolType(other.topic) = "JoiningPool"
    BY EventOfLog
  <2>3. receipt.logs[p[1]].topic = "JOINING_POOL"
    BY <2>2 DEF CardEventType, PointOrPoolType, PointOrPoolTopics
  <2> QED BY <2>1, <2>2, <2>3 DEF LeavesNoHistory
<1> HIDE DEF place
<1>10. place \in eventlogs(receipt)  BY <1>4, <1>8, <1>9 DEF eventlogs
<1>11. place \in QueuedEvents(receipt)  BY <1>7, <1>10 DEF QueuedEvents
<1> QED BY <1>7, <1>11 DEF place
-----------------------------------------------------------------------------
(* The events that have been put into a queue, wherever they are now, and what is
   known of them: where documents, events and jobs come from. *)
Queued == events \union handled \union ignored \union lost
PathTypes ==
  /\ receipts \in Receipts
  /\ detected \subseteq Txs
  /\ \A e \in Queued :
       e[1] \in detected /\ e[2] \in QueuedEvents(receipts[e[1]]) /\ e = <<e[1], e[2]>>
  /\ cutShort \subseteq Queued
  /\ DOMAIN cards \subseteq CardDocs

(* A card of a contract without a collection is one that was claimed, and a mint or
   claim that has been handled has made its card. *)
CardsClaimed == \A card \in DOMAIN cards : InCollection(card) \/ Claimed(card)
HandledMade ==
  \A e \in handled : EventAt(e).eventType \in {"MintCard", "ClaimRewards"} =>
    ToCard(EventAt(e)) \in DOMAIN cards

(* No event is forgotten, a handled one has left its record, and a record is the
   event of its log. *)
AllQueued ==
  \A tx \in detected : \A place \in QueuedEvents(receipts[tx]) : <<tx, place>> \in Queued
HandledRecorded ==
  \A e \in handled : EventAt(e).eventType \notin {"AddPoint", "CreatePool"} =>
    <<e[1], EventAt(e).index>> \in DOMAIN history
RecordsOfLogs ==
  \A k \in DOMAIN history : \E e \in Queued :
    k = <<e[1], EventAt(e).index>> /\ history[k] = EventAt(e)

HistoryInv == AllQueued /\ HandledRecorded /\ RecordsOfLogs
-----------------------------------------------------------------------------
(* What the assumption on the chains says of the receipt of a transaction. *)
LEMMA Receipt ==
  ASSUME PathTypes, NEW tx \in Txs
  PROVE  IsReceipt(receipts[tx])
BY ReceiptAssumption DEF PathTypes, Txs, IsReceipt

(* What a handler knows of its event. *)
LEMMA EventFacts ==
  ASSUME PathTypes, NEW e \in Queued
  PROVE  LET log == receipts[e[1]].logs[e[2][1]]  ev == EventAt(e) IN
         /\ e[1] \in detected /\ e[2][1] \in DOMAIN receipts[e[1]].logs
         /\ e[2] \in QueuedEvents(receipts[e[1]])
         /\ Concerns(log)
         /\ ev.index = e[2][1] - 1 /\ ev.from = log.from /\ ev.to = log.to
         /\ log.topic \in CardTopics =>
              /\ ev.eventType = CardEventType(log)
              /\ ev.card \in CardIds /\ ev.card \in ToSet(log.cards)
              /\ ev.cardAddress = formattedContractAddress(cardsContract)
         /\ log.topic \in PointOrPoolTopics => ev.eventType = PointOrPoolType(log.topic)
         /\ log.topic = "CLAIM_REWARD" =>
              ev.card \in CardIds /\ ev.cardAddress = toString(cardsContract)
         /\ log.topic \in CardTopics \union PointOrPoolTopics
         /\ {log.from, log.to} \subseteq Users
         /\ ev.eventType # "BurnCard"
<1>1. e[1] \in detected /\ e[1] \in Txs /\ e[2] \in QueuedEvents(receipts[e[1]])
  BY DEF PathTypes
<1>2. e[2] \in getReturnValuesEvent(receipts[e[1]]) /\ EventAt(e).eventType # "BurnCard"
  BY <1>1 DEF QueuedEvents, eventlogs, EventAt
<1>3. IsReceipt(receipts[e[1]])  BY <1>1, Receipt
<1>4. e[2][1] \in DOMAIN receipts[e[1]].logs  BY <1>2, <1>3, EventOfLog
<1>5. IsLog(receipts[e[1]].logs[e[2][1]])  BY <1>3, <1>4 DEF IsReceipt
<1> HIDE DEF PathTypes
<1> QED BY <1>1, <1>2, <1>3, <1>4, <1>5, EventOfLog DEF EventAt, IsLog

(* The card of an event about cards. *)
LEMMA EventCard ==
  ASSUME PathTypes, NEW e \in Queued,
         EventAt(e).eventType \in {"MintCard", "TransferCard", "ClaimRewards"}
  PROVE  /\ ToCard(EventAt(e)) \in CardDocs
         /\ EventAt(e).eventType # "ClaimRewards" => InCollection(ToCard(EventAt(e)))
<1> DEFINE log == receipts[e[1]].logs[e[2][1]]  ev == EventAt(e)
<1>1. log.topic \in CardTopics \/ log.topic = "CLAIM_REWARD"
  BY EventFacts DEF PointOrPoolType, PointOrPoolTopics
<1>2. ev.to \in Users /\ ev.card \in CardIds
  BY <1>1, EventFacts
<1>3. ev.cardAddress \in {formattedContractAddress(cardsContract), toString(cardsContract)}
  BY <1>1, EventFacts
<1>4. ev.eventType # "ClaimRewards" => ev.cardAddress = formattedContractAddress(cardsContract)
  <2>1. log.topic = "CLAIM_REWARD" => ev.eventType = "ClaimRewards"
    BY EventFacts DEF PointOrPoolType, PointOrPoolTopics
  <2> QED BY <1>1, <2>1, EventFacts
<1> HIDE DEF ev
<1> QED BY <1>2, <1>3, <1>4 DEF ToCard, CardDocs, InCollection, ev

(* An upsert adds at most the one key. *)
LEMMA UpsertDomain ==
  ASSUME NEW f, NEW k, NEW v
  PROVE  DOMAIN Upsert(f, k, v) = DOMAIN f \union {k}
BY DEF Upsert

(* What the run of a handler does to the events, whether it fails or not. *)
Runs(e) ==
  /\ Elsewhere
  /\ events' \subseteq events /\ Queued' = Queued
  /\ handled \subseteq handled' /\ handled' \subseteq handled \union {e}
  /\ cutShort \subseteq cutShort' /\ cutShort' \subseteq cutShort \union {e}

(* And to cards, jobs and history. *)
MakesCard(e) ==
  /\ EventAt(e).eventType \in {"MintCard", "TransferCard", "ClaimRewards"}
  /\ DOMAIN cards' = DOMAIN cards \union {ToCard(EventAt(e))}
  /\ \/ jobs' = Append(jobs, NewJob(ToCard(EventAt(e))))
     \/ /\ jobs' = jobs
        /\ ToCard(EventAt(e)) \in DOMAIN cards \/ e \in cutShort'
        /\ EventAt(e).eventType = "TransferCard" \/ handled' = handled
  /\ \/ Recorded(e)
     \/ history' = history /\ handled' = handled
MakesRecord(e) ==
  /\ DOMAIN cards' = DOMAIN cards /\ jobs' = jobs /\ cutShort' = cutShort
  /\ EventAt(e).eventType \notin {"MintCard", "ClaimRewards"} \/ handled' = handled
  /\ \/ Recorded(e)
     \/ /\ history' = history
        /\ EventAt(e).eventType \in {"AddPoint", "CreatePool"} \/ handled' = handled

(* The cards after a mint. *)
LEMMA MintedCards ==
  ASSUME NEW e, MintsCard(e)
  PROVE  DOMAIN cards' = DOMAIN cards \union {ToCard(EventAt(e))}
<1> DEFINE card == ToCard(EventAt(e))
<1> HIDE DEF card
<1>1. (cards' = cards /\ card \in DOMAIN cards) \/ cards' = Upsert(cards, card, e[1])
  BY DEF MintsCard, card
<1>2. DOMAIN cards' = DOMAIN cards \union {card}  BY <1>1, UpsertDomain
<1> QED BY <1>2 DEF card

(* A transfer makes no card of its sender. *)
LEMMA SentCards ==
  ASSUME NEW e
  PROVE  DOMAIN SendsCard(e) = DOMAIN cards
<1>0. PICK other, time : other = FromCard(EventAt(e)) /\ time = e[1]  OBVIOUS
<1>1. CASE InTime(other, time)
  <2>1. SendsCard(e) = Upsert(cards, other, time) /\ other \in DOMAIN cards
    BY <1>0, <1>1 DEF SendsCard, InTime
  <2>2. DOMAIN Upsert(cards, other, time) = DOMAIN cards \union {other}  BY UpsertDomain
  <2> QED BY <2>1, <2>2
<1>2. CASE ~InTime(other, time)  BY <1>0, <1>2 DEF SendsCard
<1> QED BY <1>1, <1>2

(* The cards after a transfer. *)
LEMMA TransferredCards ==
  ASSUME NEW e, TransfersCard(e)
  PROVE  DOMAIN cards' = DOMAIN cards \union {ToCard(EventAt(e))}
<1>1. PICK card, sent : card = ToCard(EventAt(e)) /\ sent = SendsCard(e)  OBVIOUS
<1>2. cards' = Upsert(sent, card, e[1])  BY <1>1 DEF TransfersCard
<1>3. DOMAIN cards' = DOMAIN sent \union {card}  BY <1>2, UpsertDomain
<1> QED BY <1>1, <1>3, SentCards

(* A transfer asks for a card that it makes. *)
LEMMA AskedIfMade ==
  ASSUME NEW e, AsksIfMade(e)
  PROVE  \/ jobs' = Append(jobs, NewJob(ToCard(EventAt(e))))
         \/ jobs' = jobs /\ ToCard(EventAt(e)) \in DOMAIN cards
<1> DEFINE card == ToCard(EventAt(e))
<1> HIDE DEF card
<1>1. \/ jobs' = Append(jobs, NewJob(card))
      \/ jobs' = jobs /\ card \in DOMAIN cards
  BY DEF AsksIfMade, AsksFor, InTime, card
<1> QED BY <1>1 DEF card

(* A run that is complete. *)
LEMMA HandledRuns ==
  ASSUME NEW e \in events, HandledBy(e)
  PROVE  Runs(e)
BY DEF HandledBy, Runs, Queued

(* A run that fails. *)
LEMMA FailedRuns ==
  ASSUME NEW e \in events, Fails(e), cutShort' = cutShort \/ CutShort(e)
  PROVE  Runs(e) /\ handled' = handled
<1>1. cutShort \subseteq cutShort' /\ cutShort' \subseteq cutShort \union {e}
  BY DEF CutShort
<1>2. /\ Elsewhere /\ handled' = handled /\ ignored' = ignored
      /\ \/ events' = events /\ lost' = lost
         \/ events' = events \ {e} /\ lost' = lost \union {e}
  BY DEF Fails, Elsewhere
<1> QED BY <1>1, <1>2 DEF Runs, Queued

(* A card cut short was there already, or is known as such. *)
LEMMA ShortOrThere ==
  ASSUME NEW e, CutShort(e)
  PROVE  ToCard(EventAt(e)) \in DOMAIN cards \/ e \in cutShort'
BY DEF CutShort

(* Each run does one of the two. *)
LEMMA RunStep ==
  ASSUME NEW e \in events, Handle(e) \/ HandlerFails(e)
  PROVE  Runs(e) /\ (MakesCard(e) \/ MakesRecord(e))
<1>1. CASE HandlePoints(e)  BY <1>1, HandledRuns DEF HandlePoints, HandledBy, MakesRecord
<1>2. CASE HandleTransferPoint(e)
  BY <1>2, HandledRuns DEF HandleTransferPoint, HandledBy, MakesRecord
<1>3. CASE PoolUnknown(e)
  <2>1. Runs(e)  BY <1>3 DEF PoolUnknown, Runs, Queued
  <2> QED BY <1>3, <2>1 DEF PoolUnknown, MakesRecord
<1>4. CASE HandleMintCard(e)
  <2>1. DOMAIN cards' = DOMAIN cards \union {ToCard(EventAt(e))}
    BY <1>4, MintedCards DEF HandleMintCard
  <2>2. EventAt(e).eventType \in {"MintCard", "TransferCard", "ClaimRewards"}
    BY <1>4 DEF HandleMintCard, MintsCard
  <2>3. Runs(e)  BY <1>4, HandledRuns DEF HandleMintCard
  <2>4. Recorded(e) /\ jobs' = Append(jobs, NewJob(ToCard(EventAt(e))))
    BY <1>4 DEF HandleMintCard, AsksFor
  <2>5. MakesCard(e)  BY <2>1, <2>2, <2>4 DEF MakesCard
  <2> QED BY <2>3, <2>5
<1>5. CASE HandleTransferCard(e)
  <2>1. DOMAIN cards' = DOMAIN cards \union {ToCard(EventAt(e))}
    BY <1>5, TransferredCards DEF HandleTransferCard
  <2>2. EventAt(e).eventType = "TransferCard"  BY <1>5 DEF HandleTransferCard, TransfersCard
  <2>3. Runs(e) /\ Recorded(e)  BY <1>5, HandledRuns DEF HandleTransferCard
  <2>4. \/ jobs' = Append(jobs, NewJob(ToCard(EventAt(e))))
        \/ jobs' = jobs /\ ToCard(EventAt(e)) \in DOMAIN cards
    BY <1>5, AskedIfMade DEF HandleTransferCard
  <2>5. MakesCard(e)  BY <2>1, <2>2, <2>3, <2>4 DEF MakesCard
  <2> QED BY <2>3, <2>5
<1>6. CASE FailsFirst(e)  BY <1>6, FailedRuns DEF FailsFirst, MakesRecord
<1>7. CASE TransferPointFails(e)  BY <1>7, FailedRuns DEF TransferPointFails, MakesRecord
<1>8. CASE MintCardFails(e)
  <2>1. DOMAIN cards' = DOMAIN cards \union {ToCard(EventAt(e))}
        /\ EventAt(e).eventType \in {"MintCard", "ClaimRewards"}
    BY <1>8, MintedCards DEF MintCardFails, MintsCard
  <2>2. Runs(e) /\ handled' = handled  BY <1>8, FailedRuns DEF MintCardFails
  <2>3. CASE CutShort(e) /\ jobs' = jobs /\ (Recorded(e) \/ history' = history)
    BY <2>1, <2>2, <2>3, ShortOrThere DEF MakesCard
  <2>4. CASE Recorded(e) /\ AsksFor(ToCard(EventAt(e)))
    BY <2>1, <2>2, <2>4 DEF MakesCard, AsksFor
  <2> QED BY <1>8, <2>3, <2>4, <2>2 DEF MintCardFails
<1>9. CASE SendFails(e)
  <2>1. DOMAIN cards' = DOMAIN cards  BY <1>9, SentCards DEF SendFails
  <2> QED BY <1>9, <2>1, FailedRuns DEF SendFails, MakesRecord
<1>10. CASE TransferCardFails(e)
  <2>1. DOMAIN cards' = DOMAIN cards \union {ToCard(EventAt(e))}
        /\ EventAt(e).eventType = "TransferCard"
    BY <1>10, TransferredCards DEF TransferCardFails, TransfersCard
  <2>2. Runs(e) /\ handled' = handled  BY <1>10, FailedRuns DEF TransferCardFails
  <2>3. CASE CutShort(e) /\ history' = history /\ jobs' = jobs
    BY <2>1, <2>2, <2>3, ShortOrThere DEF MakesCard
  <2>4. CASE AsksIfMade(e) /\ (Recorded(e) \/ history' = history)
    BY <2>1, <2>2, <2>4, AskedIfMade DEF MakesCard
  <2> QED BY <1>10, <2>2, <2>3, <2>4 DEF TransferCardFails
<1> QED BY <1>1, <1>2, <1>3, <1>4, <1>5, <1>6, <1>7, <1>8, <1>9, <1>10
    DEF Handle, HandlerFails

USE DEF vars

(* The jobs stay a sequence of records where they are left alone. *)
LEMMA JobsPrimed ==
  ASSUME JobsInv, jobs' = jobs
  PROVE  JobsInv'
BY DEF JobsInv

(* The event at a place stays the same: the receipts never change. *)
LEMMA EventAtSame ==
  ASSUME receipts' = receipts
  PROVE  \A e : EventAt(e)' = EventAt(e)
BY DEF EventAt, EventIn

(* The documents of a job, and how many are at work. *)
JobTypes ==
  /\ \A j \in DOMAIN jobs :
        /\ jobs[j].card \in DOMAIN cards
        /\ jobs[j].pc \in {"queued", "fetch", "merge"} \union Outcomes
  /\ Cardinality(Active) <= concurrency
  /\ metadata \subseteq tokenUri
  /\ tokenUri \subseteq DOMAIN cards

(* Only finitely many jobs are at work. *)
LEMMA ActiveFinite ==
  ASSUME JobsInv
  PROVE  IsFiniteSet(Active) /\ Cardinality(Active) \in Nat
<1>1. IsFiniteSet(DOMAIN jobs)  BY JobsDomain, FS_Interval
<1>2. IsFiniteSet(Active)  BY <1>1, FS_Subset DEF Active
<1> QED BY <1>2, FS_CardinalityType

(* If no job begins, the number of those at work stays within the bound. *)
LEMMA FewerActive ==
  ASSUME JobsInv, JobTypes, Active' \subseteq Active
  PROVE  Cardinality(Active') <= concurrency
<1>1. Cardinality(Active') <= Cardinality(Active) /\ Cardinality(Active') \in Nat
  BY ActiveFinite, FS_Subset, FS_CardinalityType
<1> QED BY <1>1, ActiveFinite, ConcurrencyAssumption DEF JobTypes

(* A handler adds jobs only for cards that are there. *)
LEMMA JobTypesHandled ==
  ASSUME JobsInv, JobTypes, NEW e \in events, Handle(e) \/ HandlerFails(e)
  PROVE  JobsInv' /\ JobTypes'
<1>1. metadata' = metadata /\ tokenUri' = tokenUri  BY RunStep DEF Runs, Elsewhere
<1>2. CASE jobs' = jobs
  <2>1. DOMAIN cards \subseteq DOMAIN cards'  BY RunStep DEF MakesCard, MakesRecord
  <2>2. Active' = Active  BY <1>2 DEF Active
  <2> QED BY <1>1, <1>2, <2>1, <2>2, JobsPrimed, FewerActive DEF JobTypes
<1>3. CASE MakesCard(e) /\ jobs' = Append(jobs, NewJob(ToCard(EventAt(e))))
  <2> DEFINE card == ToCard(EventAt(e))
  <2> HIDE DEF card
  <2>1. jobs' = Append(jobs, NewJob(card)) /\ DOMAIN cards' = DOMAIN cards \union {card}
    BY <1>3 DEF MakesCard, card
  <2>2. PICK n : /\ n \notin DOMAIN jobs /\ DOMAIN jobs' = DOMAIN jobs \union {n}
                 /\ jobs'[n].card = card /\ jobs'[n].pc = "queued"
    BY <2>1, JobAdded
  <2>3. JobsInv' /\ \A k \in DOMAIN jobs : jobs'[k] = jobs[k]  BY <2>1, JobAdded
  <2>4. Active' = Active  BY <2>2, <2>3 DEF Active
  <2>5. \A j \in DOMAIN jobs' :
          /\ jobs'[j].card \in DOMAIN cards'
          /\ jobs'[j].pc \in {"queued", "fetch", "merge"} \union Outcomes
    BY <2>1, <2>2, <2>3 DEF JobTypes
  <2> QED BY <1>1, <2>1, <2>3, <2>4, <2>5, FewerActive DEF JobTypes
<1> QED BY <1>2, <1>3, RunStep DEF MakesCard, MakesRecord

(* A step of a job: only LoadCard lets one more work, within the bound. *)
LEMMA JobTypesFetch ==
  ASSUME JobsInv, JobTypes, NEW j \in DOMAIN jobs, FetchMetadata(j)
  PROVE  /\ JobsInv' /\ JobTypes'
         /\ cards' = cards /\ metadata \subseteq metadata' /\ tokenUri \subseteq tokenUri'
<1>1. cards' = cards  BY DEF FetchMetadata
<1>2. ASSUME NEW o \in {"fetch", "merge"} \union Outcomes, Moved(j, o), JobsInv',
             metadata' \subseteq tokenUri', tokenUri' \subseteq DOMAIN cards,
             Cardinality(Active') <= concurrency
      PROVE  JobTypes'
  <2>1. \A k \in DOMAIN jobs' :
          /\ jobs'[k].card \in DOMAIN cards'
          /\ jobs'[k].pc \in {"queued", "fetch", "merge"} \union Outcomes
    BY <1>1, <1>2 DEF JobTypes, Moved
  <2> QED BY <1>1, <1>2, <2>1 DEF JobTypes
<1>3. jobs[j].card \in DOMAIN cards  BY DEF JobTypes
<1>4. ASSUME NEW o, Moved(j, o), o \notin {"fetch", "merge"} \/ j \in Active
      PROVE  Cardinality(Active') <= concurrency
  <2>1. Active' \subseteq Active  BY <1>4 DEF Active, Moved
  <2> QED BY <2>1, FewerActive
<1>5. CASE LoadCard(j)
  <2>1. Moved(j, "fetch") /\ JobsInv'  BY <1>5, LoadMoves
  <2>2. Active' \subseteq Active \union {j} /\ Cardinality(Active) + 1 <= concurrency
    <3>1. Active' \subseteq Active \union {j}  BY <2>1 DEF Active, Moved
    <3>2. Cardinality(Active) < concurrency  BY <1>5 DEF LoadCard
    <3> QED BY <3>1, <3>2, ActiveFinite, ConcurrencyAssumption
  <2>3. Cardinality(Active \union {j}) <= Cardinality(Active) + 1
        /\ IsFiniteSet(Active \union {j}) /\ Cardinality(Active \union {j}) \in Nat
    BY ActiveFinite, FS_AddElement, FS_CardinalityType
  <2>4. Cardinality(Active') <= Cardinality(Active \union {j}) /\ Cardinality(Active') \in Nat
    BY <2>2, <2>3, FS_Subset, FS_CardinalityType
  <2>5. Cardinality(Active') <= concurrency
    BY <2>2, <2>3, <2>4, ActiveFinite, ConcurrencyAssumption
  <2> QED BY <1>1, <1>2, <1>5, <2>1, <2>5 DEF LoadCard, JobTypes
<1>6. CASE NoCollection(j)
  <2>1. Moved(j, "noCollection") /\ JobsInv'  BY <1>6, EndedMoves DEF NoCollection
  <2> QED BY <1>1, <1>2, <1>4, <1>6, <2>1 DEF NoCollection, JobTypes, Outcomes
<1>7. CASE NoUri(j)
  <2>1. Moved(j, "noUri") /\ JobsInv'  BY <1>7, EndedMoves DEF NoUri
  <2> QED BY <1>1, <1>2, <1>4, <1>7, <2>1 DEF NoUri, JobTypes, Outcomes
<1>8. CASE NotFetched(j)
  <2>1. Moved(j, "notFetched") /\ JobsInv'  BY <1>8, EndedMoves DEF NotFetched
  <2>2. metadata' \subseteq tokenUri' /\ tokenUri' \subseteq DOMAIN cards
        /\ metadata' = metadata /\ tokenUri \subseteq tokenUri'
    BY <1>3, <1>8 DEF NotFetched, JobTypes
  <2> QED BY <1>1, <1>2, <1>4, <2>1, <2>2 DEF Outcomes
<1>9. CASE StoreMetadata(j)
  <2>1. Moved(j, "merge") /\ JobsInv'  BY <1>9, StoreMoves
  <2>2. metadata' \subseteq tokenUri' /\ tokenUri' \subseteq DOMAIN cards
        /\ metadata \subseteq metadata' /\ tokenUri \subseteq tokenUri'
    BY <1>3, <1>9 DEF StoreMetadata, JobTypes
  <2>3. j \in Active  BY <1>9 DEF StoreMetadata, Active
  <2> QED BY <1>1, <1>2, <1>4, <2>1, <2>2, <2>3
<1>10. CASE StoreMap(j)
  <2>1. Moved(j, "done") /\ JobsInv'  BY <1>10, MapMoves
  <2> QED BY <1>1, <1>2, <1>4, <1>10, <2>1 DEF StoreMap, JobTypes, Outcomes
<1>11. CASE MergeThrows(j)
  <2>1. Moved(j, "mixed") /\ JobsInv'  BY <1>11, EndedMoves DEF MergeThrows
  <2> QED BY <1>1, <1>2, <1>4, <1>11, <2>1 DEF MergeThrows, JobTypes, Outcomes
<1> QED BY <1>5, <1>6, <1>7, <1>8, <1>9, <1>10, <1>11 DEF FetchMetadata, fetchHandle

(* The invariant that the others stand on. *)
PathInv == PathTypes /\ JobsInv /\ JobTypes

(* Nothing has been detected yet. *)
LEMMA PathInvInit == Init => PathInv
<1> SUFFICES ASSUME Init PROVE PathInv  OBVIOUS
<1>1. jobs = <<>> /\ metadata = {} /\ tokenUri = {}  BY DEF Init, MetaInit
<1>2. Active = {}  BY <1>1 DEF Active
<1>3. Cardinality(Active) <= concurrency  BY <1>2, FS_EmptySet, ConcurrencyAssumption
<1>4. JobsInv  BY <1>1 DEF JobsInv
<1>5. JobTypes  BY <1>1, <1>3 DEF JobTypes
<1>6. PathTypes  BY DEF Init, PathTypes, Queued
<1> QED BY <1>4, <1>5, <1>6 DEF PathInv

(* Each action keeps what is detected, queued and handled consistent. *)
LEMMA PathTypesNext ==
  ASSUME PathTypes, Next
  PROVE  PathTypes'
<1>1. CASE \E tx \in Txs : processTx(tx)
  BY <1>1 DEF processTx, PathTypes, Queued, Txs
<1>2. ASSUME NEW e \in events, Handle(e) \/ HandlerFails(e)  PROVE PathTypes'
  <2>1. Runs(e) /\ (MakesCard(e) \/ MakesRecord(e))  BY <1>2, RunStep
  <2>2. e \in Queued  BY DEF Queued
  <2>3. DOMAIN cards' \subseteq CardDocs
    <3>1. CASE MakesRecord(e)  BY <3>1 DEF MakesRecord, PathTypes
    <3>2. CASE MakesCard(e)
      <4>1. ToCard(EventAt(e)) \in CardDocs  BY <2>2, <3>2, EventCard DEF MakesCard
      <4> QED BY <3>2, <4>1 DEF MakesCard, PathTypes
    <3> QED BY <2>1, <3>1, <3>2
  <2>4. receipts' = receipts /\ detected' = detected /\ Queued' = Queued
        /\ cutShort' \subseteq cutShort \union {e}
    BY <2>1 DEF Runs, Elsewhere
  <2> HIDE DEF Queued
  <2> QED BY <2>2, <2>3, <2>4 DEF PathTypes, Txs
<1>3. CASE \E e \in handled \union ignored \union lost : Repeat(e)
  BY <1>3 DEF Repeat, Elsewhere, PathTypes, Queued, Txs
<1>4. CASE \E j \in DOMAIN jobs : FetchMetadata(j)
  BY <1>4 DEF FetchMetadata, PathTypes, Queued, Txs
<1> QED BY <1>1, <1>2, <1>3, <1>4 DEF Next

(* A step that leaves the documents alone. *)
LEMMA JobTypesSame ==
  ASSUME JobsInv, JobTypes, UNCHANGED <<jobs, cards, metadata, tokenUri>>
  PROVE  JobsInv' /\ JobTypes'
<1>1. Active' = Active  BY DEF Active
<1> QED BY <1>1, JobsPrimed DEF JobTypes

(* Each action preserves PathInv. *)
LEMMA PathInvNext == PathInv /\ [Next]_vars => PathInv'
<1> SUFFICES ASSUME PathInv, [Next]_vars PROVE PathInv'  OBVIOUS
<1>1. CASE \E tx \in Txs : processTx(tx)
  <2>1. UNCHANGED <<jobs, cards, metadata, tokenUri>>  BY <1>1 DEF processTx
  <2> QED BY <1>1, <2>1, PathTypesNext, JobTypesSame DEF Next, PathInv
<1>2. CASE \E e \in events : Handle(e) \/ HandlerFails(e)
  BY <1>2, PathTypesNext, JobTypesHandled DEF Next, PathInv
<1>3. CASE \E e \in handled \union ignored \union lost : Repeat(e)
  <2>1. UNCHANGED <<jobs, cards, metadata, tokenUri>>  BY <1>3 DEF Repeat, Elsewhere
  <2> QED BY <1>3, <2>1, PathTypesNext, JobTypesSame DEF Next, PathInv
<1>4. CASE \E j \in DOMAIN jobs : FetchMetadata(j)
  BY <1>4, PathTypesNext, JobTypesFetch DEF Next, PathInv
<1>5. CASE UNCHANGED vars
  <2>1. PathTypes'  BY <1>5 DEF PathInv, PathTypes, Queued, Txs
  <2> QED BY <1>5, <2>1, JobTypesSame DEF PathInv
<1> QED BY <1>1, <1>2, <1>3, <1>4, <1>5 DEF Next

(* PathInv is an invariant. *)
LEMMA PathInvCorrect == Spec => []PathInv
BY PathInvInit, PathInvNext, PTL DEF Spec

(* Documents are of what was detected, jobs of cards that exist, and no more jobs
   are at work than the processor takes. *)
THEOREM TypeCorrect == Spec => []TypeOK
<1>1. PathInv => TypeOK  BY DEF PathInv, PathTypes, Queued, JobTypes, TypeOK
<1> QED BY <1>1, PathInvCorrect, PTL
-----------------------------------------------------------------------------
(* A card has its metadata, or a job that will fetch it or could not, or was cut
   short: by the run of an event about cards. *)
CutShortMade ==
  \A e \in cutShort : EventAt(e).eventType \in {"MintCard", "TransferCard", "ClaimRewards"}
FetchedInv == CardsClaimed /\ HandledMade /\ CutShortMade /\ CardsFetched

(* CardsFetched, card by card. *)
HasJob(card) ==
  \E j \in DOMAIN jobs :
    /\ jobs[j].card = card
    /\ \/ jobs[j].pc \in {"queued", "fetch", "noUri"}
       \/ jobs[j].pc = "notFetched" /\ card \in tokenUri
       \/ jobs[j].pc = "noCollection" /\ Claimed(card)
Excused(card) == card \in metadata \/ NotAsked(card) \/ HasJob(card)

(* The property is that every card is excused. *)
LEMMA FetchedForm == CardsFetched <=> \A card \in DOMAIN cards : Excused(card)
BY DEF CardsFetched, Excused, HasJob

(* The same of the next state. *)
LEMMA FetchedFormNext ==
  ASSUME \A card \in DOMAIN cards' : Excused(card)'
  PROVE  CardsFetched'
BY DEF CardsFetched, Excused, HasJob

(* What has been claimed stays claimed. *)
LEMMA ClaimedKept ==
  ASSUME receipts' = receipts, detected \subseteq detected', NEW card, Claimed(card)
  PROVE  Claimed(card)'
<1>1. PICK tx, place :
        /\ tx \in detected /\ place \in QueuedEvents(receipts[tx])
        /\ EventAt(<<tx, place>>).eventType = "ClaimRewards"
        /\ ToCard(EventAt(<<tx, place>>)) = card
  BY DEF Claimed
<1>2. EventAt(<<tx, place>>)' = EventAt(<<tx, place>>)  BY EventAtSame
<1>3. tx \in detected' /\ place \in QueuedEvents(receipts'[tx])  BY <1>1
<1>4. ToCard(EventAt(<<tx, place>>))' = card /\ EventAt(<<tx, place>>)'.eventType = "ClaimRewards"
  BY <1>1, <1>2 DEF ToCard
<1> QED BY <1>3, <1>4 DEF Claimed

(* A card that was not asked for stays so, as long as its event is not handled. *)
LEMMA NotAskedKept ==
  ASSUME receipts' = receipts, cutShort \subseteq cutShort', NEW card, NEW d \in cutShort,
         ToCard(EventAt(d)) = card,
         EventAt(d).eventType = "TransferCard" \/ d \notin handled'
  PROVE  NotAsked(card)'
<1>1. EventAt(d)' = EventAt(d)  BY EventAtSame
<1>2. ToCard(EventAt(d))' = card  BY <1>1 DEF ToCard
<1> QED BY <1>1, <1>2 DEF NotAsked

(* A step of a job moves only that one, and to an outcome that excuses its card. *)
LEMMA ExcusedByJob ==
  ASSUME PathInv, CardsClaimed, NEW j \in DOMAIN jobs, FetchMetadata(j),
         NEW card \in DOMAIN cards, Excused(card)
  PROVE  Excused(card)'
<1>1. /\ receipts' = receipts /\ detected' = detected /\ cards' = cards
      /\ handled' = handled /\ cutShort' = cutShort
      /\ metadata \subseteq metadata' /\ tokenUri \subseteq tokenUri'
  BY JobTypesFetch DEF FetchMetadata, PathInv
<1>2. Claimed(card) => Claimed(card)'  BY <1>1, ClaimedKept
<1>0. NotAsked(card) => NotAsked(card)'  BY <1>1, NotAskedKept DEF NotAsked
<1>3. ASSUME NEW o, Moved(j, o),
             jobs[j].card = card =>
                \/ card \in metadata'
                \/ o \in {"fetch", "noUri"}
                \/ o = "notFetched" /\ card \in tokenUri'
                \/ o = "noCollection" /\ Claimed(card)
                \/ jobs[j].pc = "merge"
      PROVE  Excused(card)'
  <2>1. CASE card \in metadata \/ NotAsked(card)  BY <1>0, <1>1, <2>1 DEF Excused
  <2>2. ASSUME NEW k \in DOMAIN jobs, jobs[k].card = card,
               \/ jobs[k].pc \in {"queued", "fetch", "noUri"}
               \/ jobs[k].pc = "notFetched" /\ card \in tokenUri
               \/ jobs[k].pc = "noCollection" /\ Claimed(card)
        PROVE  Excused(card)'
    <3>1. k \in DOMAIN jobs' /\ jobs'[k].card = card
          /\ jobs'[k].pc = IF k = j THEN o ELSE jobs[k].pc
      BY <1>3, <2>2 DEF Moved
    <3>2. CASE k # j  BY <1>1, <1>2, <2>2, <3>1, <3>2 DEF Excused, HasJob
    <3>3. CASE k = j
      <4>1. jobs[j].pc # "merge"  BY <2>2, <3>3
      <4> QED BY <1>2, <1>3, <2>2, <3>1, <3>3, <4>1 DEF Excused, HasJob
    <3> QED BY <3>2, <3>3
  <2> QED BY <2>1, <2>2 DEF Excused, HasJob
<1> HIDE DEF CardsClaimed, PathInv
<1>4. JobsInv  BY DEF PathInv
<1>5. CASE LoadCard(j)  BY <1>3, <1>4, <1>5, LoadMoves
<1>6. CASE NoCollection(j)
  <2>1. Moved(j, "noCollection")  BY <1>4, <1>6, EndedMoves DEF NoCollection
  <2>2. jobs[j].card = card => ~InCollection(card)  BY <1>6 DEF NoCollection
  <2>3. jobs[j].card = card => Claimed(card)  BY <2>2 DEF CardsClaimed
  <2> QED BY <1>3, <2>1, <2>3
<1>7. CASE NoUri(j)
  <2>1. Moved(j, "noUri")  BY <1>4, <1>7, EndedMoves DEF NoUri
  <2> QED BY <1>3, <2>1
<1>8. CASE NotFetched(j)
  <2>1. Moved(j, "notFetched") /\ (jobs[j].card = card => card \in tokenUri')
    BY <1>4, <1>8, EndedMoves DEF NotFetched
  <2> QED BY <1>3, <2>1
<1>9. CASE StoreMetadata(j)
  <2>1. Moved(j, "merge") /\ (jobs[j].card = card => card \in metadata')
    BY <1>4, <1>9, StoreMoves DEF StoreMetadata
  <2> QED BY <1>3, <2>1
<1>10. CASE StoreMap(j)
  <2>1. Moved(j, "done") /\ jobs[j].pc = "merge"  BY <1>4, <1>10, MapMoves DEF StoreMap
  <2> QED BY <1>3, <2>1
<1>11. CASE MergeThrows(j)
  <2>1. Moved(j, "mixed") /\ jobs[j].pc = "merge"  BY <1>4, <1>11, EndedMoves DEF MergeThrows
  <2> QED BY <1>3, <2>1
<1> QED BY <1>5, <1>6, <1>7, <1>8, <1>9, <1>10, <1>11 DEF FetchMetadata, fetchHandle

(* The run of a handler leaves a card its excuse: one that was cut short by a mint is
   asked for when that is handled. *)
LEMMA ExcusedByRun ==
  ASSUME PathInv, FetchedInv, NEW e \in events, Runs(e), MakesCard(e) \/ MakesRecord(e),
         NEW card, Excused(card)
  PROVE  Excused(card)'
<1>1. /\ receipts' = receipts /\ detected' = detected
      /\ metadata' = metadata /\ tokenUri' = tokenUri
      /\ cutShort \subseteq cutShort' /\ handled' \subseteq handled \union {e}
  BY DEF Runs, Elsewhere
<1>2. \A k \in DOMAIN jobs : k \in DOMAIN jobs' /\ jobs'[k] = jobs[k]
  BY JobAdded DEF MakesCard, MakesRecord, PathInv
<1>3. CASE card \in metadata  BY <1>1, <1>3 DEF Excused
<1>4. CASE HasJob(card)
  <2>1. Claimed(card) => Claimed(card)'  BY <1>1, ClaimedKept
  <2> QED BY <1>1, <1>2, <1>4, <2>1 DEF Excused, HasJob
<1>5. CASE NotAsked(card)
  <2>1. PICK d \in cutShort : /\ ToCard(EventAt(d)) = card
                              /\ EventAt(d).eventType = "TransferCard" \/ d \notin handled
    BY <1>5 DEF NotAsked
  <2>2. CASE EventAt(d).eventType = "TransferCard" \/ d \notin handled'
    BY <1>1, <2>1, <2>2, NotAskedKept DEF Excused
  <2>3. CASE EventAt(d).eventType # "TransferCard" /\ d \in handled'
    <3>1. d = e /\ handled' # handled  BY <1>1, <2>1, <2>3
    <3>2. EventAt(d).eventType \in {"MintCard", "ClaimRewards"}
      BY <2>3 DEF FetchedInv, CutShortMade
    <3>3. MakesCard(e)  BY <3>1, <3>2 DEF MakesRecord
    <3>4. jobs' = Append(jobs, NewJob(card))  BY <2>1, <2>3, <3>1, <3>3 DEF MakesCard
    <3>5. \E n \in DOMAIN jobs' : jobs'[n].card = card /\ jobs'[n].pc = "queued"
      BY <3>4, JobAdded DEF PathInv
    <3> QED BY <3>5 DEF Excused, HasJob
  <2> QED BY <2>2, <2>3
<1> QED BY <1>3, <1>4, <1>5 DEF Excused

(* A new card gets a job in the same step, or was cut short. *)
LEMMA NewCardExcused ==
  ASSUME PathInv, FetchedInv, NEW e \in events, Runs(e), MakesCard(e),
         NEW card, card = ToCard(EventAt(e)), card \notin DOMAIN cards
  PROVE  Excused(card)'
<1>1. CASE jobs' = Append(jobs, NewJob(card))
  <2>1. \E n \in DOMAIN jobs' : jobs'[n].card = card /\ jobs'[n].pc = "queued"
    BY <1>1, JobAdded DEF PathInv
  <2> QED BY <2>1 DEF Excused, HasJob
<1>2. CASE jobs' # Append(jobs, NewJob(card))
  <2>1. e \in cutShort' /\ (EventAt(e).eventType = "TransferCard" \/ handled' = handled)
    BY <1>2 DEF MakesCard
  <2>2. EventAt(e).eventType # "TransferCard" => e \notin handled
    BY DEF FetchedInv, HandledMade, MakesCard
  <2>3. EventAt(e)' = EventAt(e)  BY EventAtSame DEF Runs, Elsewhere
  <2>4. ToCard(EventAt(e))' = card  BY <2>3 DEF ToCard
  <2>5. NotAsked(card)'  BY <2>1, <2>2, <2>3, <2>4 DEF NotAsked
  <2> QED BY <2>5 DEF Excused
<1> QED BY <1>1, <1>2

(* What a run does to the rest of FetchedInv. *)
LEMMA MadeByRun ==
  ASSUME PathInv, FetchedInv, NEW e \in events, Runs(e), MakesCard(e) \/ MakesRecord(e)
  PROVE  CardsClaimed' /\ HandledMade' /\ CutShortMade'
<1>1. /\ receipts' = receipts /\ detected' = detected
      /\ cutShort' \subseteq cutShort \union {e} /\ handled' \subseteq handled \union {e}
  BY DEF Runs, Elsewhere
<1>2. \A d : EventAt(d)' = EventAt(d)  BY <1>1, EventAtSame
<1>3. \A c : Claimed(c) => Claimed(c)'  BY <1>1, ClaimedKept
<1>4. e \in Queued  BY DEF Queued
<1>5. CardsClaimed'
  <2> SUFFICES ASSUME NEW c \in DOMAIN cards'  PROVE InCollection(c)' \/ Claimed(c)'
    BY DEF CardsClaimed
  <2>1. InCollection(c)' = InCollection(c)  BY DEF InCollection
  <2>2. CASE c \in DOMAIN cards
    <3>1. InCollection(c) \/ Claimed(c)  BY <2>2 DEF FetchedInv, CardsClaimed
    <3> QED BY <1>3, <2>1, <3>1
  <2>3. CASE c \notin DOMAIN cards
    <3>1. c = ToCard(EventAt(e)) /\ MakesCard(e)  BY <2>3 DEF MakesCard, MakesRecord
    <3>2. EventAt(e).eventType = "ClaimRewards" \/ InCollection(c)
      BY <1>4, <3>1, EventCard DEF MakesCard, PathInv
    <3>3. CASE EventAt(e).eventType = "ClaimRewards"
      <4>1. e = <<e[1], e[2]>> /\ e[1] \in detected /\ e[2] \in QueuedEvents(receipts[e[1]])
        BY <1>4 DEF PathInv, PathTypes
      <4>2. PICK tx, place : tx = e[1] /\ place = e[2]  OBVIOUS
      <4>3. EventAt(<<tx, place>>) = EventAt(e)  BY <4>1, <4>2
      <4>4. Claimed(c)  BY <3>1, <3>3, <4>1, <4>2, <4>3 DEF Claimed
      <4> QED BY <1>3, <4>4
    <3> QED BY <2>1, <3>2, <3>3
  <2> QED BY <2>2, <2>3
<1>6. HandledMade'
  <2> SUFFICES ASSUME NEW d \in handled', EventAt(d).eventType \in {"MintCard", "ClaimRewards"}
               PROVE  ToCard(EventAt(d)) \in DOMAIN cards'
    BY <1>2 DEF HandledMade, ToCard
  <2>1. DOMAIN cards \subseteq DOMAIN cards'  BY DEF MakesCard, MakesRecord
  <2>2. CASE d \in handled  BY <2>1, <2>2 DEF FetchedInv, HandledMade
  <2>3. CASE d \notin handled
    <3>1. d = e /\ handled' # handled  BY <1>1, <2>3
    <3>2. MakesCard(e)  BY <3>1 DEF MakesRecord
    <3> QED BY <3>1, <3>2 DEF MakesCard
  <2> QED BY <2>2, <2>3
<1>7. CutShortMade'
  <2>1. cutShort' = cutShort \/ EventAt(e).eventType \in {"MintCard", "TransferCard", "ClaimRewards"}
    BY DEF MakesCard, MakesRecord
  <2> QED BY <1>1, <1>2, <2>1 DEF FetchedInv, CutShortMade
<1> QED BY <1>5, <1>6, <1>7

(* No step takes the excuse of a card away. *)
LEMMA FetchedNext == PathInv /\ FetchedInv /\ [Next]_vars => FetchedInv'
<1> SUFFICES ASSUME PathInv, FetchedInv, [Next]_vars PROVE FetchedInv'  OBVIOUS
<1>1. CardsClaimed /\ HandledMade /\ CutShortMade /\ \A card \in DOMAIN cards : Excused(card)
  BY FetchedForm DEF FetchedInv
<1>2. ASSUME UNCHANGED <<cards, receipts, handled, cutShort>>, detected \subseteq detected'
      PROVE  /\ CardsClaimed' /\ HandledMade' /\ CutShortMade'
             /\ \A card : Claimed(card) => Claimed(card)'
             /\ \A card : NotAsked(card) => NotAsked(card)'
  <2>1. \A card : Claimed(card) => Claimed(card)'  BY <1>2, ClaimedKept
  <2>2. CardsClaimed'  BY <1>1, <1>2, <2>1 DEF CardsClaimed, InCollection
  <2>3. \A d : EventAt(d)' = EventAt(d)  BY <1>2, EventAtSame
  <2>4. HandledMade'  BY <1>1, <1>2, <2>3 DEF HandledMade, ToCard
  <2>5. CutShortMade'  BY <1>1, <1>2, <2>3 DEF CutShortMade
  <2>6. \A card : NotAsked(card) => NotAsked(card)'
    BY <1>2, NotAskedKept DEF NotAsked
  <2> QED BY <2>1, <2>2, <2>4, <2>5, <2>6
<1>3. ASSUME UNCHANGED <<cards, receipts, handled, cutShort, jobs, metadata, tokenUri>>,
             detected \subseteq detected'
      PROVE  FetchedInv'
  <2>1. /\ CardsClaimed' /\ HandledMade' /\ CutShortMade'
        /\ \A card : Claimed(card) => Claimed(card)'
        /\ \A card : NotAsked(card) => NotAsked(card)'
    BY <1>2, <1>3
  <2>2. \A card \in DOMAIN cards' : Excused(card)'
    BY <1>1, <1>3, <2>1 DEF Excused, HasJob
  <2> QED BY <2>1, <2>2, FetchedFormNext DEF FetchedInv
<1>4. CASE \E tx \in Txs : processTx(tx)  BY <1>3, <1>4 DEF processTx
<1>5. ASSUME NEW e \in events, Handle(e) \/ HandlerFails(e)  PROVE FetchedInv'
  <2>1. Runs(e) /\ (MakesCard(e) \/ MakesRecord(e))  BY <1>5, RunStep
  <2>2. CardsClaimed' /\ HandledMade' /\ CutShortMade'  BY <2>1, MadeByRun
  <2>3. ASSUME NEW card \in DOMAIN cards'  PROVE Excused(card)'
    <3>1. CASE card \in DOMAIN cards  BY <1>1, <2>1, <3>1, ExcusedByRun
    <3>2. CASE card \notin DOMAIN cards
      <4>1. MakesCard(e) /\ card = ToCard(EventAt(e))
        BY <2>1, <2>3, <3>2 DEF MakesCard, MakesRecord
      <4> QED BY <2>1, <3>2, <4>1, NewCardExcused
    <3> QED BY <3>1, <3>2
  <2> QED BY <2>2, <2>3, FetchedFormNext DEF FetchedInv
<1>6. CASE \E e \in handled \union ignored \union lost : Repeat(e)
  BY <1>3, <1>6 DEF Repeat, Elsewhere
<1>7. ASSUME NEW j \in DOMAIN jobs, FetchMetadata(j)  PROVE FetchedInv'
  <2>1. UNCHANGED <<cards, receipts, handled, cutShort>> /\ detected' = detected
    BY <1>7 DEF FetchMetadata
  <2>2. CardsClaimed' /\ HandledMade' /\ CutShortMade'  BY <1>2, <2>1
  <2>3. \A card \in DOMAIN cards' : Excused(card)'  BY <1>1, <1>7, <2>1, ExcusedByJob
  <2> QED BY <2>2, <2>3, FetchedFormNext DEF FetchedInv
<1>8. CASE UNCHANGED vars  BY <1>3, <1>8
<1> QED BY <1>4, <1>5, <1>6, <1>7, <1>8 DEF Next

(* A card ends up with its metadata, or with a job that was given no address, could
   not fetch it, or had no collection because the card is that of a claim; or no job
   asks for it, since the run that made it failed before its request. *)
THEOREM FetchedCorrect == Spec => []CardsFetched
<1>1. Init => FetchedInv
  BY DEF Init, FetchedInv, CardsClaimed, HandledMade, CutShortMade, CardsFetched
<1>2. FetchedInv => CardsFetched  BY DEF FetchedInv
<1> QED BY <1>1, <1>2, FetchedNext, PathInvCorrect, PTL DEF Spec
-----------------------------------------------------------------------------
(* The history: events do not get lost between their log and their record, and a
   record is replaced only by one of the same log. *)
RecordTells(k) ==
  \E e \in Queued : k = <<e[1], EventAt(e).index>> /\ history[k] = EventAt(e)

(* A record that is not written tells of the same event. *)
LEMMA RecordsKept ==
  ASSUME receipts' = receipts, Queued \subseteq Queued', NEW k, RecordTells(k),
         history'[k] = history[k]
  PROVE  RecordTells(k)'
<1>1. PICK e \in Queued : k = <<e[1], EventAt(e).index>> /\ history[k] = EventAt(e)
  BY DEF RecordTells
<1>2. EventAt(e)' = EventAt(e)  BY EventAtSame
<1>3. e \in Queued'  BY <1>1
<1> QED BY <1>1, <1>2, <1>3 DEF RecordTells

(* Each action preserves HistoryInv. *)
LEMMA HistoryNext == PathInv /\ HistoryInv /\ [Next]_vars => HistoryInv'
<1> SUFFICES ASSUME PathInv, HistoryInv, [Next]_vars PROVE HistoryInv'  OBVIOUS
<1>0. \A k \in DOMAIN history : RecordTells(k)
  BY DEF HistoryInv, RecordsOfLogs, RecordTells
<1> HIDE DEF Queued
<1>1. ASSUME history' = history, handled' = handled, receipts' = receipts,
             Queued \subseteq Queued',
             \A tx \in detected' \ detected : \A place \in QueuedEvents(receipts[tx]) :
                <<tx, place>> \in Queued'
      PROVE  HistoryInv'
  <2>1. \A e : EventAt(e)' = EventAt(e)  BY <1>1, EventAtSame
  <2>2. AllQueued'
    <3> SUFFICES ASSUME NEW tx \in detected', NEW place \in QueuedEvents(receipts'[tx])
                 PROVE  <<tx, place>> \in Queued'
      BY DEF AllQueued
    <3> QED BY <1>1 DEF HistoryInv, AllQueued
  <2>3. HandledRecorded'  BY <1>1, <2>1 DEF HandledRecorded, HistoryInv
  <2>4. RecordsOfLogs'
    <3> SUFFICES ASSUME NEW k \in DOMAIN history  PROVE RecordTells(k)'
      BY <1>1 DEF RecordsOfLogs, RecordTells
    <3> QED BY <1>0, <1>1, RecordsKept
  <2> QED BY <2>2, <2>3, <2>4 DEF HistoryInv
<1>2. ASSUME NEW tx \in Txs, processTx(tx)  PROVE HistoryInv'
  <2>1. Queued' = Queued \union ({tx} \X QueuedEvents(receipts[tx]))
        /\ detected' = detected \union {tx}
        /\ history' = history /\ handled' = handled /\ receipts' = receipts
    BY <1>2 DEF processTx, Queued
  <2> QED BY <1>1, <2>1
<1>3. ASSUME NEW e \in events, Handle(e) \/ HandlerFails(e)  PROVE HistoryInv'
  <2>1. Runs(e) /\ (MakesCard(e) \/ MakesRecord(e))  BY <1>3, RunStep
  <2>2. /\ handled \subseteq handled' /\ handled' \subseteq handled \union {e}
        /\ receipts' = receipts /\ detected' = detected
        /\ Queued' = Queued /\ e \in Queued
    BY <2>1 DEF Runs, Elsewhere, Queued
  <2>3. \/ /\ history' = history
           /\ EventAt(e).eventType \in {"AddPoint", "CreatePool"} \/ handled' = handled
        \/ Recorded(e)
    BY <2>1 DEF MakesCard, MakesRecord
  <2>4. PICK k, ev : k = <<e[1], EventAt(e).index>> /\ ev = EventAt(e)  OBVIOUS
  <2>5. \/ /\ history' = history
           /\ EventAt(e).eventType \in {"AddPoint", "CreatePool"} \/ handled' = handled
        \/ /\ DOMAIN history' = DOMAIN history \union {k} /\ history'[k] = ev
           /\ \A l \in DOMAIN history : l # k => history'[l] = history[l]
    BY <2>3, <2>4 DEF Recorded, Upsert
  <2>6. \A d : EventAt(d)' = EventAt(d)  BY <2>2, EventAtSame
  <2>7. AllQueued'
    <3> SUFFICES ASSUME NEW tx \in detected', NEW place \in QueuedEvents(receipts'[tx])
                 PROVE  <<tx, place>> \in Queued'
      BY DEF AllQueued
    <3> QED BY <2>2 DEF HistoryInv, AllQueued
  <2>8. HandledRecorded'
    <3> SUFFICES ASSUME NEW d \in handled',
                        EventAt(d).eventType \notin {"AddPoint", "CreatePool"}
                 PROVE  <<d[1], EventAt(d).index>> \in DOMAIN history'
      BY <2>6 DEF HandledRecorded
    <3>1. CASE d \notin handled
      <4>1. d = e /\ handled' # handled  BY <2>2, <3>1
      <4> QED BY <2>4, <2>5, <4>1
    <3>2. CASE d \in handled
      <4>1. <<d[1], EventAt(d).index>> \in DOMAIN history
        BY <3>2 DEF HistoryInv, HandledRecorded
      <4> QED BY <2>5, <4>1
    <3> QED BY <3>1, <3>2
  <2>9. RecordsOfLogs'
    <3> SUFFICES ASSUME NEW l \in DOMAIN history'  PROVE RecordTells(l)'
      BY DEF RecordsOfLogs, RecordTells
    <3>1. CASE l \in DOMAIN history /\ history'[l] = history[l]
      <4>1. RecordTells(l)  BY <1>0, <3>1
      <4> QED BY <2>2, <3>1, <4>1, RecordsKept
    <3>2. CASE l = k /\ history'[l] = ev
      <4>1. e \in Queued'  BY <2>2
      <4> QED BY <2>4, <2>6, <3>2, <4>1 DEF RecordTells
    <3> QED BY <2>5, <3>1, <3>2
  <2> QED BY <2>7, <2>8, <2>9 DEF HistoryInv
<1>4. ASSUME NEW e \in handled \union ignored \union lost, Repeat(e)  PROVE HistoryInv'
  <2>1. Queued' = Queued  BY <1>4 DEF Repeat, Queued
  <2> QED BY <1>1, <1>4, <2>1 DEF Repeat, Elsewhere
<1>5. ASSUME NEW j \in DOMAIN jobs, FetchMetadata(j)  PROVE HistoryInv'
  <2>1. Queued' = Queued  BY <1>5 DEF FetchMetadata, Queued
  <2> QED BY <1>1, <1>5, <2>1 DEF FetchMetadata
<1>6. CASE UNCHANGED vars
  <2>1. Queued' = Queued  BY <1>6 DEF Queued
  <2> QED BY <1>1, <1>6, <2>1
<1> QED BY <1>2, <1>3, <1>4, <1>5, <1>6 DEF Next

(* Where no event of a transaction is left, the records of those that were not
   dropped are all there. *)
LEMMA LogsAreRecorded == PathInv /\ HistoryInv => LogsRecorded
<1> SUFFICES ASSUME PathInv, HistoryInv, NEW tx \in detected, \A e \in events : e[1] # tx,
                    NEW i \in DOMAIN receipts[tx].logs,
                    ~LeavesNoHistory(receipts[tx], receipts[tx].logs[i]),
                    ~ \E e \in Dropped : e[1] = tx /\ EventAt(e).index = i - 1
             PROVE  /\ <<tx, i - 1>> \in DOMAIN history
                    /\ TellsOf(history[<<tx, i - 1>>], receipts[tx].logs[i])
  BY DEF LogsRecorded
<1> DEFINE e == <<tx, <<i, 1>>>>
<1>1. IsReceipt(receipts[tx]) /\ PathTypes  BY Receipt DEF PathInv, PathTypes
<1>2. <<i, 1>> \in QueuedEvents(receipts[tx])
      /\ EventAt(e).eventType \notin {"AddPoint", "CreatePool"}
  BY <1>1, LogIsQueued DEF EventAt
<1>3. e \in Queued  BY <1>2 DEF HistoryInv, AllQueued
<1>4. EventAt(e).index = i - 1  BY <1>1, <1>3, EventFacts
<1>5. e \in handled
  <2>1. e \notin events /\ e \notin Dropped  BY <1>4
  <2> QED BY <1>3, <2>1 DEF Queued, Dropped
<1>6. <<tx, i - 1>> \in DOMAIN history
  BY <1>2, <1>4, <1>5 DEF HistoryInv, HandledRecorded
<1>7. PICK d \in Queued : <<tx, i - 1>> = <<d[1], EventAt(d).index>>
                          /\ history[<<tx, i - 1>>] = EventAt(d)
  BY <1>6 DEF HistoryInv, RecordsOfLogs
<1>8. d[1] = tx /\ d[2][1] = i
  <2>1. d[1] = tx /\ EventAt(d).index = i - 1  BY <1>7
  <2>2. EventAt(d).index = d[2][1] - 1 /\ d[2][1] \in DOMAIN receipts[d[1]].logs
    BY <1>1, EventFacts
  <2>3. d[2][1] \in Nat /\ i \in Nat  BY <1>1, <2>1, <2>2 DEF IsReceipt
  <2> QED BY <2>1, <2>2, <2>3
<1>9. TellsOf(EventAt(d), receipts[tx].logs[i])
  BY <1>1, <1>8, EventFacts DEF TellsOf
<1> QED BY <1>6, <1>7, <1>9

(* Once no event of a transaction is queued, each of its logs that ought to be in the
   history has a record there at its own index, unless its event was of a pool that
   the node did not know, or failed and was not added again. *)
THEOREM HistoryCorrect == Spec => []LogsRecorded
<1>1. Init => HistoryInv
  BY DEF Init, HistoryInv, AllQueued, HandledRecorded, RecordsOfLogs
<1> QED BY <1>1, HistoryNext, LogsAreRecorded, PathInvCorrect, PTL DEF Spec
-----------------------------------------------------------------------------
(* reloadAttributeMap.  An entry has numbers and texts where it has anything. *)
EntryType == [min : Int \union {Undefined}, max : Int \union {Undefined},
              options : (SUBSET Texts) \union {Undefined}]
MapOK(map) == \A l \in DOMAIN map : map[l] \in EntryType
IsAttribute(attr) ==
  /\ attr.type = "number" => attr.value \in Int
  /\ attr.type = "string" => attr.value \in Texts

(* A number widens the range of an entry, a text is added to the options. *)
LEMMA OldEntryFacts ==
  ASSUME NEW entry \in EntryType, NEW attr, IsAttribute(attr),
         attr.type = "string" => entry.options # Undefined
  PROVE  /\ OldEntry(entry, attr) \in EntryType
         /\ attr.type = "number" =>
              /\ OldEntry(entry, attr).options = entry.options
              /\ OldEntry(entry, attr).min \in Int /\ OldEntry(entry, attr).max \in Int
              /\ OldEntry(entry, attr).min <= attr.value
              /\ attr.value <= OldEntry(entry, attr).max
              /\ entry.min # Undefined => OldEntry(entry, attr).min <= entry.min
              /\ entry.max # Undefined => entry.max <= OldEntry(entry, attr).max
         /\ attr.type = "string" =>
              OldEntry(entry, attr) = [entry EXCEPT !.options = @ \union {attr.value}]
         /\ attr.type \notin {"number", "string"} => OldEntry(entry, attr) = entry
<1>1. CASE attr.type = "number"
  <2>1. attr.value \in Int  BY <1>1 DEF IsAttribute
  <2>2. LowerOf(entry.min, attr.value) \in Int /\ LowerOf(entry.min, attr.value) <= attr.value
        /\ (entry.min # Undefined => LowerOf(entry.min, attr.value) <= entry.min)
    BY <2>1 DEF LowerOf, EntryType
  <2>3. HigherOf(entry.max, attr.value) \in Int /\ attr.value <= HigherOf(entry.max, attr.value)
        /\ (entry.max # Undefined => entry.max <= HigherOf(entry.max, attr.value))
    BY <2>1 DEF HigherOf, EntryType
  <2>4. OldEntry(entry, attr) =
          [min |-> LowerOf(entry.min, attr.value), max |-> HigherOf(entry.max, attr.value),
           options |-> entry.options]
    BY <1>1 DEF OldEntry, EntryType
  <2>5. entry.options \in (SUBSET Texts) \union {Undefined}  BY DEF EntryType
  <2> QED BY <1>1, <2>2, <2>3, <2>4, <2>5 DEF EntryType
<1>2. CASE attr.type = "string"
  <2>1. attr.value \in Texts  BY <1>2 DEF IsAttribute
  <2>2. OldEntry(entry, attr) = [entry EXCEPT !.options = @ \union {attr.value}]
    BY <1>2 DEF OldEntry
  <2>3. entry.options \in SUBSET Texts  BY <1>2 DEF EntryType
  <2> QED BY <1>2, <2>1, <2>2, <2>3 DEF EntryType
<1>3. CASE attr.type \notin {"number", "string"}
  <2>1. OldEntry(entry, attr) = entry  BY <1>3 DEF OldEntry
  <2> QED BY <1>3, <2>1
<1> QED BY <1>1, <1>2, <1>3

(* What the first attribute of a label makes of its entry. *)
LEMMA NewEntryFacts ==
  ASSUME NEW attr, IsAttribute(attr)
  PROVE  /\ NewEntry(attr) \in EntryType
         /\ attr.type = "number" => NewEntry(attr).min = 0 /\ NewEntry(attr).max = attr.value
         /\ attr.type = "string" => NewEntry(attr).options = {attr.value}
BY DEF NewEntry, IsAttribute, EntryType

(* One attribute: the result covers it, and whatever the map covered before. *)
CoversIn(entry, attr) ==
  CASE attr.type = "string" -> entry.options # Undefined /\ attr.value \in entry.options
    [] attr.type = "number" -> attr.value >= 0 =>
           /\ Undefined \notin {entry.min, entry.max}
           /\ entry.min <= attr.value /\ attr.value <= entry.max
    [] OTHER -> TRUE

(* Covers says that there is an entry, and that this covers the attribute. *)
LEMMA CoversForm ==
  ASSUME NEW map, NEW attr
  PROVE  Covers(map, attr) <=> attr.label \in DOMAIN map /\ CoversIn(map[attr.label], attr)
BY DEF Covers, CoversIn

(* An entry goes on covering what it did. *)
LEMMA OldCovered ==
  ASSUME NEW entry \in EntryType, NEW attr, IsAttribute(attr),
         attr.type = "string" => entry.options # Undefined,
         NEW other, IsAttribute(other), CoversIn(entry, other)
  PROVE  CoversIn(OldEntry(entry, attr), other)
<1>0. PICK old : old = OldEntry(entry, attr)  OBVIOUS
<1> SUFFICES CoversIn(old, other)  BY <1>0
<1>1. CASE attr.type = "number"
  <2>1. /\ old.options = entry.options
        /\ old.min \in Int /\ old.max \in Int
        /\ entry.min # Undefined => old.min <= entry.min
        /\ entry.max # Undefined => entry.max <= old.max
    BY <1>0, <1>1, OldEntryFacts
  <2>2. entry.min \in Int \union {Undefined} /\ entry.max \in Int \union {Undefined}
    BY DEF EntryType
  <2>3. CASE other.type = "string"  BY <2>1, <2>3 DEF CoversIn
  <2>4. CASE other.type = "number"
    <3> SUFFICES ASSUME other.value >= 0
                 PROVE  /\ old.min # Undefined /\ old.max # Undefined
                        /\ old.min <= other.value /\ other.value <= old.max
      BY <2>4 DEF CoversIn
    <3>1. other.value \in Int  BY <2>4 DEF IsAttribute
    <3>2. /\ entry.min # Undefined /\ entry.max # Undefined
          /\ entry.min <= other.value /\ other.value <= entry.max
      BY <2>4 DEF CoversIn
    <3>3. entry.min \in Int /\ entry.max \in Int  BY <2>2, <3>2
    <3>4. old.min <= entry.min /\ entry.max <= old.max  BY <2>1, <3>2
    <3>5. old.min # Undefined /\ old.max # Undefined  BY <2>1, AttributeAssumption
    <3>6. old.min <= other.value  BY <2>1, <3>1, <3>2, <3>3, <3>4
    <3>7. other.value <= old.max  BY <2>1, <3>1, <3>2, <3>3, <3>4
    <3> QED BY <3>5, <3>6, <3>7
  <2>5. CASE other.type \notin {"string", "number"}  BY <2>5 DEF CoversIn
  <2> QED BY <2>3, <2>4, <2>5
<1>2. CASE attr.type = "string"
  <2>1. old = [entry EXCEPT !.options = @ \union {attr.value}] /\ old \in EntryType
    BY <1>0, <1>2, OldEntryFacts
  <2>2. old.min = entry.min /\ old.max = entry.max /\ old.options = entry.options \union {attr.value}
    BY <2>1 DEF EntryType
  <2>3. entry.options \in SUBSET Texts /\ attr.value \in Texts  BY <1>2 DEF EntryType, IsAttribute
  <2>4. old.options # Undefined  BY <2>2, <2>3, AttributeAssumption
  <2>5. CASE other.type = "string"  BY <2>2, <2>4, <2>5 DEF CoversIn
  <2>6. CASE other.type # "string"  BY <2>2, <2>6 DEF CoversIn
  <2> QED BY <2>5, <2>6
<1>3. CASE attr.type \notin {"number", "string"}
  BY <1>0, <1>3, OldEntryFacts
<1> QED BY <1>1, <1>2, <1>3

(* A new entry covers its attribute, and so does an old one that took it. *)
LEMMA EntryCovers ==
  ASSUME NEW attr, IsAttribute(attr)
  PROVE  /\ CoversIn(NewEntry(attr), attr)
         /\ \A entry \in EntryType : (attr.type = "string" => entry.options # Undefined) =>
              CoversIn(OldEntry(entry, attr), attr)
<1>1. CoversIn(NewEntry(attr), attr)
  <2>1. CASE attr.type = "number"
    <3>1. attr.value \in Int /\ NewEntry(attr).min = 0 /\ NewEntry(attr).max = attr.value
      BY <2>1, NewEntryFacts DEF IsAttribute
    <3>2. Undefined # 0 /\ Undefined # attr.value  BY <3>1, AttributeAssumption
    <3> QED BY <2>1, <3>1, <3>2 DEF CoversIn
  <2>2. CASE attr.type = "string"
    <3>1. attr.value \in Texts /\ NewEntry(attr).options = {attr.value}
      BY <2>2, NewEntryFacts DEF IsAttribute
    <3>2. {attr.value} # Undefined  BY <3>1, AttributeAssumption
    <3> QED BY <2>2, <3>1, <3>2 DEF CoversIn
  <2>3. CASE attr.type \notin {"number", "string"}  BY <2>3 DEF CoversIn
  <2> QED BY <2>1, <2>2, <2>3
<1>2. ASSUME NEW entry \in EntryType, attr.type = "string" => entry.options # Undefined
      PROVE  CoversIn(OldEntry(entry, attr), attr)
  <2> DEFINE old == OldEntry(entry, attr)
  <2>1. CASE attr.type = "number"
    <3>1. attr.value \in Int /\ old.min \in Int /\ old.max \in Int
          /\ old.min <= attr.value /\ attr.value <= old.max
      BY <1>2, <2>1, OldEntryFacts DEF IsAttribute
    <3> HIDE DEF old
    <3>2. Undefined # old.min /\ Undefined # old.max  BY <3>1, AttributeAssumption
    <3>3. CoversIn(old, attr)  BY <2>1, <3>1, <3>2 DEF CoversIn
    <3> QED BY <3>3 DEF old
  <2>2. CASE attr.type = "string"
    <3>1. old = [entry EXCEPT !.options = @ \union {attr.value}]
      BY <1>2, <2>2, OldEntryFacts
    <3>2. old.options = entry.options \union {attr.value}  BY <3>1 DEF EntryType
    <3>3. entry.options \in SUBSET Texts /\ attr.value \in Texts
      BY <1>2, <2>2 DEF EntryType, IsAttribute
    <3>4. old.options # Undefined  BY <3>2, <3>3, AttributeAssumption
    <3> HIDE DEF old
    <3>5. CoversIn(old, attr)  BY <2>2, <3>2, <3>4 DEF CoversIn
    <3> QED BY <3>5 DEF old
  <2>3. CASE attr.type \notin {"number", "string"}  BY <2>3 DEF CoversIn
  <2> QED BY <2>1, <2>2, <2>3
<1> QED BY <1>1, <1>2

(* A merge covers its attribute and whatever the map covered before. *)
LEMMA MergeFacts ==
  ASSUME NEW map, MapOK(map), NEW attr, IsAttribute(attr), Merge(map, attr) # Undefined
  PROVE  /\ map # Undefined /\ MapOK(Merge(map, attr))
         /\ Covers(Merge(map, attr), attr)
         /\ \A other : IsAttribute(other) /\ Covers(map, other) => Covers(Merge(map, attr), other)
<1> DEFINE l == attr.label
<1>1. map # Undefined  BY DEF Merge
<1>2. PICK entry : entry = IF l \notin DOMAIN map THEN NewEntry(attr) ELSE OldEntry(map[l], attr)
  OBVIOUS
<1>3. l \in DOMAIN map => map[l] \in EntryType /\ (attr.type = "string" => map[l].options # Undefined)
  BY <1>1 DEF Merge, MapOK
<1>4. Merge(map, attr) = [k \in DOMAIN map \union {l} |-> IF k = l THEN entry ELSE map[k]]
  BY <1>1, <1>2, <1>3 DEF Merge, WithEntry
<1>5. PICK new : new = Merge(map, attr)  OBVIOUS
<1>6. DOMAIN new = DOMAIN map \union {l} /\ new[l] = entry /\ \A k \in DOMAIN map : k # l => new[k] = map[k]
  BY <1>4, <1>5
<1>7. entry \in EntryType /\ CoversIn(entry, attr)
  <2>1. CASE l \notin DOMAIN map  BY <1>2, <2>1, NewEntryFacts, EntryCovers
  <2>2. CASE l \in DOMAIN map  BY <1>2, <1>3, <2>2, OldEntryFacts, EntryCovers
  <2> QED BY <2>1, <2>2
<1>8. MapOK(new)  BY <1>6, <1>7 DEF MapOK
<1>9. Covers(new, attr)  BY <1>6, <1>7, CoversForm
<1>10. ASSUME NEW other, IsAttribute(other), Covers(map, other)  PROVE Covers(new, other)
  <2>1. other.label \in DOMAIN map /\ CoversIn(map[other.label], other)  BY <1>10, CoversForm
  <2>2. CASE other.label # l  BY <1>6, <2>1, <2>2, CoversForm
  <2>3. CASE other.label = l
    <3>1. CoversIn(entry, other)  BY <1>2, <1>3, <1>10, <2>1, <2>3, OldCovered
    <3> QED BY <1>6, <2>3, <3>1, CoversForm
  <2> QED BY <2>2, <2>3
<1> QED BY <1>1, <1>5, <1>8, <1>9, <1>10

(* A set of numbers has a least one. *)
LEMMA LeastNatural ==
  ASSUME NEW S \in SUBSET Nat, S # {}
  PROVE  \E c \in S : \A d \in S : c <= d
<1> DEFINE Less == {p \in Nat \X Nat : p[1] < p[2]}
<1>1. IsWellFoundedOn(Less, Nat)  BY NatLessThanWellFounded DEF OpToRel
<1> HIDE DEF Less
<1>2. \E c \in S : \A d \in S : <<d, c>> \notin Less  BY <1>1, WFMin
<1>3. \A c, d \in Nat : <<d, c>> \notin Less => c <= d  BY DEF Less
<1> QED BY <1>2, <1>3, \A c \in S : c \in Nat

(* The loop of reloadAttributeMap has a value for any number of attributes: were
   there a least number for which it has none, the row before it could be made longer. *)
MergedUpTo(map, attrs, N, g) ==
  g = [n \in 0 .. N |-> IF n = 0 THEN map ELSE Merge(g[n - 1], attrs[n])]

(* Such a row of merges exists. *)
LEMMA MergedExists ==
  ASSUME NEW map, NEW attrs, NEW N \in Nat
  PROVE  \E g : MergedUpTo(map, attrs, N, g)
<1> DEFINE Bad == {n \in Nat : ~ \E g : MergedUpTo(map, attrs, n, g)}
<1> SUFFICES ASSUME Bad # {} PROVE FALSE  OBVIOUS
<1>1. PICK m \in Bad : \A n \in Bad : m <= n  BY LeastNatural
<1>2. CASE m = 0
  <2> DEFINE g == [n \in 0 .. 0 |-> map]
  <2>1. MergedUpTo(map, attrs, 0, g)  BY DEF MergedUpTo
  <2> QED BY <1>1, <1>2, <2>1
<1>3. CASE m # 0
  <2>1. m - 1 \in Nat /\ m \in Nat /\ ~ (m <= m - 1)  BY <1>3
  <2>2. m - 1 \notin Bad  BY <1>1, <2>1
  <2>3. PICK f : MergedUpTo(map, attrs, m - 1, f)  BY <2>1, <2>2
  <2>4. \A n \in 0 .. m - 1 : f[n] = IF n = 0 THEN map ELSE Merge(f[n - 1], attrs[n])
    BY <2>3 DEF MergedUpTo
  <2>5. PICK last : last = Merge(f[m - 1], attrs[m])  OBVIOUS
  <2> DEFINE g == [n \in 0 .. m |-> IF n = m THEN last ELSE f[n]]
  <2>6. \A n \in 0 .. m : g[n] = IF n = 0 THEN map ELSE Merge(g[n - 1], attrs[n])
    <3> TAKE n \in 0 .. m
    <3>1. CASE n = m
      <4>1. g[n - 1] = f[m - 1]  BY <1>3, <2>1, <3>1
      <4> QED BY <1>3, <2>5, <3>1, <4>1
    <3>2. CASE n = 0
      <4>1. g[0] = f[0]  BY <1>3, <2>1
      <4>2. f[0] = map  BY <2>1, <2>4
      <4> QED BY <3>2, <4>1, <4>2
    <3>3. CASE n # m /\ n # 0
      <4>1. n \in 0 .. m - 1 /\ n - 1 \in 0 .. m /\ n - 1 # m  BY <2>1, <3>3
      <4>2. g[n] = f[n] /\ g[n - 1] = f[n - 1]  BY <3>3, <4>1
      <4> HIDE DEF g
      <4> QED BY <2>4, <3>3, <4>1, <4>2
    <3> QED BY <3>1, <3>2, <3>3
  <2>7. g = [n \in 0 .. m |-> g[n]]  OBVIOUS
  <2> HIDE DEF g
  <2>8. MergedUpTo(map, attrs, m, g)  BY <2>6, <2>7 DEF MergedUpTo
  <2> QED BY <1>1, <2>1, <2>8
<1> QED BY <1>2, <1>3

(* reloadAttributeMap is the end of a row of merges. *)
LEMMA MergedSteps ==
  ASSUME NEW map, NEW attrs, Len(attrs) \in Nat
  PROVE  \E g : /\ g[0] = map /\ reloadAttributeMap(map, attrs) = g[Len(attrs)]
                /\ \A n \in 1 .. Len(attrs) : g[n] = Merge(g[n - 1], attrs[n])
<1> DEFINE N == Len(attrs)
           F == CHOOSE g : g = [n \in 0 .. N |-> IF n = 0 THEN map ELSE Merge(g[n - 1], attrs[n])]
<1>1. reloadAttributeMap(map, attrs) = F[N]  BY DEF reloadAttributeMap
<1>2. F = [n \in 0 .. N |-> IF n = 0 THEN map ELSE Merge(F[n - 1], attrs[n])]
  <2>1. \E g : g = [n \in 0 .. N |-> IF n = 0 THEN map ELSE Merge(g[n - 1], attrs[n])]
    <3>1. \E g : MergedUpTo(map, attrs, N, g)  BY MergedExists
    <3> QED BY <3>1, Zenon DEF MergedUpTo
  <2> QED BY <2>1, Zenon
<1> HIDE DEF F
<1>3. F[0] = map  BY <1>2
<1>4. \A n \in 1 .. N : F[n] = Merge(F[n - 1], attrs[n])  BY <1>2
<1> QED BY <1>1, <1>3, <1>4

(* The loop: its result covers all attributes and whatever the map covered before.
   Take the least number of merges for which this fails; the last of them is the fault. *)
LEMMA ReloadFacts ==
  ASSUME NEW map, MapOK(map), NEW attrs, Len(attrs) \in Nat,
         \A i \in 1 .. Len(attrs) : IsAttribute(attrs[i]),
         NEW result, result = reloadAttributeMap(map, attrs), result # Undefined
  PROVE  /\ MapOK(result)
         /\ \A other : IsAttribute(other) /\ Covers(map, other) => Covers(result, other)
         /\ \A i \in 1 .. Len(attrs) : Covers(result, attrs[i])
<1>1. PICK g : /\ g[0] = map /\ result = g[Len(attrs)]
               /\ \A n \in 1 .. Len(attrs) : g[n] = Merge(g[n - 1], attrs[n])
  BY MergedSteps
<1> DEFINE Good(n) == \/ g[n] = Undefined
                      \/ /\ MapOK(g[n])
                         /\ \A other : IsAttribute(other) /\ Covers(map, other) => Covers(g[n], other)
                         /\ \A i \in 1 .. n : Covers(g[n], attrs[i])
           Bad == {n \in 0 .. Len(attrs) : ~ Good(n)}
<1>2. Good(0)  BY <1>1
<1>3. ASSUME NEW n \in 1 .. Len(attrs), Good(n - 1)  PROVE Good(n)
  <2>1. g[n] = Merge(g[n - 1], attrs[n])  BY <1>1
  <2>2. CASE g[n] = Undefined  BY <2>2
  <2>3. CASE g[n] # Undefined
    <3>1. g[n - 1] # Undefined  BY <2>1, <2>3 DEF Merge
    <3>2. /\ MapOK(g[n - 1])
          /\ \A other : IsAttribute(other) /\ Covers(map, other) => Covers(g[n - 1], other)
          /\ \A i \in 1 .. (n - 1) : Covers(g[n - 1], attrs[i])
      BY <1>3, <3>1
    <3>3. PICK old, new, attr : old = g[n - 1] /\ new = g[n] /\ attr = attrs[n]  OBVIOUS
    <3>4. new = Merge(old, attr) /\ new # Undefined /\ MapOK(old) /\ IsAttribute(attr)
      BY <2>1, <2>3, <3>2, <3>3
    <3>5. /\ MapOK(new) /\ Covers(new, attr)
          /\ \A other : IsAttribute(other) /\ Covers(old, other) => Covers(new, other)
      BY <3>4, MergeFacts
    <3>6. \A i \in 1 .. n : Covers(new, attrs[i])
      <4> TAKE i \in 1 .. n
      <4>1. CASE i = n  BY <3>3, <3>5, <4>1
      <4>2. CASE i # n
        <5>1. i \in 1 .. (n - 1) /\ i \in 1 .. Len(attrs)  BY <4>2
        <5> QED BY <3>2, <3>3, <3>5, <5>1
      <4> QED BY <4>1, <4>2
    <3> QED BY <3>2, <3>3, <3>5, <3>6
  <2> QED BY <2>2, <2>3
<1> HIDE DEF Good
<1>4. Bad = {}
  <2> SUFFICES ASSUME Bad # {} PROVE FALSE  OBVIOUS
  <2>1. Bad \in SUBSET Nat  OBVIOUS
  <2>2. PICK m \in Bad : \A n \in Bad : m <= n  BY <2>1, LeastNatural
  <2>3. m # 0 /\ m \in 1 .. Len(attrs) /\ m - 1 \in 0 .. Len(attrs) /\ ~ (m <= m - 1)
    BY <1>2, <2>2
  <2>4. Good(m - 1)  BY <2>2, <2>3
  <2> QED BY <1>3, <2>2, <2>3, <2>4
<1>5. Good(Len(attrs))  BY <1>4
<1> QED BY <1>1, <1>5 DEF Good
-----------------------------------------------------------------------------
(* The map of the collection, and the copies that jobs have of it, cover the cards
   whose jobs are done; a copy does not, where the job knows of one it missed. *)
CoversCard(map, card) ==
  \A i \in DOMAIN AttributesFetched(card) : Covers(map, AttributesFetched(card)[i])
MapsOK ==
  /\ MapOK(attributesMap)
  /\ \A j \in Active : MapOK(jobs[j].copy)
Kept(card) ==
  /\ CoversCard(attributesMap, card)
  /\ \A k \in Active : card \in jobs[k].missed \/ CoversCard(jobs[k].copy, card)
IsDone(card) == \E j \in DOMAIN jobs : jobs[j].pc = "done" /\ jobs[j].card = card
DoneKept == \A card \in CardDocs : IsDone(card) /\ card \notin overwritten => Kept(card)
KeptInv == MapsOK /\ DoneKept

(* What the assumption on the attributes says of those that a job fetches. *)
LEMMA AttributeFacts ==
  ASSUME NEW card \in CardDocs, NEW attrs, attrs = AttributesFetched(card)
  PROVE  /\ Len(attrs) \in Nat /\ DOMAIN attrs = 1 .. Len(attrs)
         /\ \A i \in 1 .. Len(attrs) : IsAttribute(attrs[i])
<1>1. card[2] \in CardIds  BY DEF CardDocs
<1>2. PICK id \in CardIds : id = card[2] /\ attrs = AttributesOf[id]
  BY <1>1 DEF AttributesFetched
<1>3. Len(attrs) \in Nat /\ DOMAIN attrs = 1 .. Len(attrs)  BY <1>2, AttributeAssumption
<1>4. \A i \in DOMAIN attrs : attrs[i].type = "number" => attrs[i].value \in Int
  BY <1>2, AttributeAssumption
<1>5. \A i \in DOMAIN attrs : attrs[i].type = "string" => attrs[i].value \in Texts
  BY <1>2 DEF Texts
<1> QED BY <1>3, <1>4, <1>5 DEF IsAttribute

(* StoreMap: the new map covers this card and whatever the copy covered. *)
LEMMA StoredMap ==
  ASSUME PathInv, MapsOK, NEW j \in DOMAIN jobs, StoreMap(j)
  PROVE  /\ MapOK(attributesMap') /\ CoversCard(attributesMap', jobs[j].card)
         /\ \A card \in CardDocs :
              CoversCard(jobs[j].copy, card) => CoversCard(attributesMap', card)
<1>1. jobs[j].card \in CardDocs  BY DEF PathInv, JobTypes, PathTypes
<1>2. PICK attrs : attrs = AttributesFetched(jobs[j].card)  OBVIOUS
<1>3. PICK map : map = jobs[j].copy  OBVIOUS
<1>4. PICK result : result = attributesMap'  OBVIOUS
<1>5. /\ Len(attrs) \in Nat /\ DOMAIN attrs = 1 .. Len(attrs)
      /\ \A i \in 1 .. Len(attrs) : IsAttribute(attrs[i])
  BY <1>1, <1>2, AttributeFacts
<1>6. MapOK(map)  BY <1>3 DEF MapsOK, Active, StoreMap
<1>7. result = reloadAttributeMap(map, attrs) /\ result # Undefined
  BY <1>2, <1>3, <1>4 DEF StoreMap, Merged
<1>8. /\ MapOK(result)
      /\ \A other : IsAttribute(other) /\ Covers(map, other) => Covers(result, other)
      /\ \A i \in 1 .. Len(attrs) : Covers(result, attrs[i])
  BY <1>5, <1>6, <1>7, ReloadFacts
<1>9. CoversCard(result, jobs[j].card)  BY <1>2, <1>5, <1>8 DEF CoversCard
<1>10. ASSUME NEW card \in CardDocs, CoversCard(map, card)  PROVE CoversCard(result, card)
  <2>1. PICK others : others = AttributesFetched(card)  OBVIOUS
  <2>2. \A i \in DOMAIN others : IsAttribute(others[i])  BY <2>1, AttributeFacts
  <2>3. \A i \in DOMAIN others : Covers(map, others[i])  BY <1>10, <2>1 DEF CoversCard
  <2>4. \A i \in DOMAIN others : Covers(result, others[i])  BY <1>8, <2>2, <2>3
  <2> QED BY <2>1, <2>4 DEF CoversCard
<1> QED BY <1>3, <1>4, <1>8, <1>9, <1>10

(* Any other step: no job gets done, and a copy is the old one or the map itself. *)
LEMMA KeptStep ==
  ASSUME KeptInv, attributesMap' = attributesMap, overwritten' = overwritten,
         \A k \in DOMAIN jobs' : jobs'[k].pc = "done" =>
            k \in DOMAIN jobs /\ jobs[k].pc = "done" /\ jobs'[k].card = jobs[k].card,
         \A k \in Active' :
            \/ jobs'[k].copy = attributesMap
            \/ /\ k \in Active /\ jobs'[k].copy = jobs[k].copy
               /\ jobs'[k].missed = jobs[k].missed
  PROVE  KeptInv'
<1>1. MapsOK'
  <2>1. MapOK(attributesMap')  BY DEF KeptInv, MapsOK
  <2>2. \A k \in Active' : MapOK(jobs'[k].copy)  BY DEF KeptInv, MapsOK
  <2> QED BY <2>1, <2>2 DEF MapsOK
<1>2. ASSUME NEW card, Kept(card)  PROVE Kept(card)'
  <2>1. CoversCard(attributesMap', card)  BY <1>2 DEF Kept
  <2>2. ASSUME NEW k \in Active'
        PROVE  card \in jobs'[k].missed \/ CoversCard(jobs'[k].copy, card)
    BY <1>2 DEF Kept
  <2> QED BY <2>1, <2>2 DEF Kept
<1>3. ASSUME NEW card \in CardDocs, IsDone(card)', card \notin overwritten'
      PROVE  Kept(card)'
  <2>1. IsDone(card)  BY <1>3 DEF IsDone
  <2>2. Kept(card)  BY <1>3, <2>1 DEF KeptInv, DoneKept
  <2> QED BY <1>2, <2>2
<1>4. DoneKept'  BY <1>3 DEF DoneKept
<1> QED BY <1>1, <1>4 DEF KeptInv

(* A new job has nothing to cover. *)
LEMMA KeptAdded ==
  ASSUME PathInv, KeptInv, attributesMap' = attributesMap, overwritten' = overwritten,
         jobs' = jobs \/ \E card : jobs' = Append(jobs, NewJob(card))
  PROVE  KeptInv'
<1>1. CASE jobs' = jobs  BY <1>1, KeptStep DEF Active
<1>2. ASSUME NEW card, jobs' = Append(jobs, NewJob(card))  PROVE KeptInv'
  <2>1. PICK n : /\ n \notin DOMAIN jobs /\ DOMAIN jobs' = DOMAIN jobs \union {n}
                 /\ jobs'[n].card = card /\ jobs'[n].pc = "queued"
    BY <1>2, JobAdded DEF PathInv
  <2>2. \A k \in DOMAIN jobs : jobs'[k] = jobs[k]  BY <1>2, JobAdded DEF PathInv
  <2> QED BY <2>1, <2>2, KeptStep DEF Active
<1> QED BY <1>1, <1>2

(* A job that ends in another way has stored nothing in the map. *)
LEMMA KeptEnded ==
  ASSUME PathInv, KeptInv, attributesMap' = attributesMap, overwritten' = overwritten,
         NEW j \in DOMAIN jobs, NEW o, o \notin {"fetch", "merge", "done"}, Ended(j, o)
  PROVE  KeptInv'
<1>1. DOMAIN jobs' = DOMAIN jobs /\ jobs'[j].pc = o
  BY EndedMoves DEF Moved, PathInv
<1>2. \A k \in DOMAIN jobs : k # j => jobs'[k] = jobs[k]  BY DEF Ended
<1> QED BY <1>1, <1>2, KeptStep DEF Active

(* A job that stores its map: a card it missed is overwritten, all others are covered. *)
LEMMA KeptMap ==
  ASSUME PathInv, KeptInv, NEW j \in DOMAIN jobs, StoreMap(j)
  PROVE  KeptInv'
<1>1. Moved(j, "done")  BY MapMoves DEF PathInv
<1>2. Active' = Active \ {j}  BY <1>1 DEF Active, Moved
<1>3. /\ MapOK(attributesMap') /\ CoversCard(attributesMap', jobs[j].card)
      /\ \A card \in CardDocs :
           CoversCard(jobs[j].copy, card) => CoversCard(attributesMap', card)
  BY StoredMap DEF KeptInv
<1>4. \A k \in Active' : jobs'[k].copy = jobs[k].copy
                         /\ jobs'[k].missed = jobs[k].missed \union {jobs[j].card}
  <2> SUFFICES ASSUME NEW k \in Active, k # j
               PROVE  jobs'[k].copy = jobs[k].copy
                      /\ jobs'[k].missed = jobs[k].missed \union {jobs[j].card}
    BY <1>2
  <2>1. k \in DOMAIN jobs  BY DEF Active
  <2>2. jobs'[k] = [jobs[k] EXCEPT !.missed = @ \union {jobs[j].card}]  BY <2>1 DEF StoreMap
  <2>3. jobs[k] = [card |-> jobs[k].card, pc |-> jobs[k].pc, copy |-> jobs[k].copy,
                   missed |-> jobs[k].missed]
    BY <2>1 DEF PathInv, JobsInv
  <2> QED BY <2>2, <2>3
<1>5. overwritten' = (overwritten \union jobs[j].missed) \ {jobs[j].card}  BY DEF StoreMap
<1>6. j \in Active  BY DEF StoreMap, Active
<1>7. MapsOK'
  <2>1. \A k \in Active' : MapOK(jobs'[k].copy)  BY <1>2, <1>4 DEF KeptInv, MapsOK
  <2> QED BY <1>3, <2>1 DEF MapsOK
<1>8. ASSUME NEW card \in CardDocs, IsDone(card)', card \notin overwritten'
      PROVE  Kept(card)'
  <2>1. CASE card = jobs[j].card
    <3>1. CoversCard(attributesMap', card)  BY <1>3, <2>1
    <3>2. \A i \in Active' : card \in jobs'[i].missed  BY <1>4, <2>1
    <3> QED BY <3>1, <3>2 DEF Kept
  <2>2. CASE card # jobs[j].card
    <3>1. card \notin overwritten /\ card \notin jobs[j].missed  BY <1>5, <1>8, <2>2
    <3>2. PICK k \in DOMAIN jobs' : jobs'[k].pc = "done" /\ jobs'[k].card = card
      BY <1>8 DEF IsDone
    <3>3. k # j /\ k \in DOMAIN jobs /\ jobs[k].pc = "done" /\ jobs[k].card = card
      BY <1>1, <2>2, <3>2 DEF Moved
    <3>4. Kept(card)  BY <3>1, <3>3 DEF KeptInv, DoneKept, IsDone
    <3>5. CoversCard(jobs[j].copy, card)  BY <1>6, <3>1, <3>4 DEF Kept
    <3>6. CoversCard(attributesMap', card)  BY <1>3, <3>5
    <3>7. \A i \in Active' : card \in jobs'[i].missed \/ CoversCard(jobs'[i].copy, card)
      BY <1>2, <1>4, <3>4 DEF Kept
    <3> QED BY <3>6, <3>7 DEF Kept
  <2> QED BY <2>1, <2>2
<1>9. DoneKept'  BY <1>8 DEF DoneKept
<1> QED BY <1>7, <1>9 DEF KeptInv

(* Each action preserves KeptInv. *)
LEMMA KeptNext == PathInv /\ KeptInv /\ [Next]_vars => KeptInv'
<1> SUFFICES ASSUME PathInv, KeptInv, [Next]_vars PROVE KeptInv'  OBVIOUS
<1>1. CASE \E tx \in Txs : processTx(tx)  BY <1>1, KeptAdded DEF processTx
<1>2. ASSUME NEW e \in events, Handle(e) \/ HandlerFails(e)  PROVE KeptInv'
  BY <1>2, RunStep, KeptAdded DEF Runs, Elsewhere, MakesCard, MakesRecord
<1>3. CASE \E e \in handled \union ignored \union lost : Repeat(e)  BY <1>3, KeptAdded DEF Repeat, Elsewhere
<1>4. ASSUME NEW j \in DOMAIN jobs, FetchMetadata(j)  PROVE KeptInv'
  <2>1. CASE LoadCard(j)
    <3>1. Moved(j, "fetch")  BY <2>1, LoadMoves DEF PathInv
    <3>2. /\ \A k \in DOMAIN jobs : k # j => jobs'[k] = jobs[k]
          /\ jobs'[j] = [jobs[j] EXCEPT !.pc = "fetch", !.copy = attributesMap]
          /\ attributesMap' = attributesMap /\ overwritten' = overwritten
      BY <2>1 DEF LoadCard
    <3>3. jobs[j] = [card |-> jobs[j].card, pc |-> jobs[j].pc, copy |-> jobs[j].copy,
                     missed |-> jobs[j].missed]
      BY DEF PathInv, JobsInv
    <3>4. jobs'[j].copy = attributesMap  BY <3>2, <3>3
    <3> QED BY <3>1, <3>2, <3>4, KeptStep DEF Active, Moved
  <2>2. CASE NoCollection(j)  BY <2>2, KeptEnded DEF NoCollection
  <2>3. CASE NoUri(j)  BY <2>3, KeptEnded DEF NoUri
  <2>4. CASE NotFetched(j)  BY <2>4, KeptEnded DEF NotFetched
  <2>5. CASE StoreMetadata(j)
    <3>1. Moved(j, "merge")  BY <2>5, StoreMoves DEF PathInv
    <3>2. /\ \A k \in DOMAIN jobs : k # j => jobs'[k] = jobs[k]
          /\ jobs'[j] = [jobs[j] EXCEPT !.pc = "merge"]
          /\ attributesMap' = attributesMap /\ overwritten' = overwritten
      BY <2>5 DEF StoreMetadata
    <3>3. jobs'[j].copy = jobs[j].copy /\ jobs'[j].missed = jobs[j].missed  
      <4>1. jobs[j] = [card |-> jobs[j].card, pc |-> jobs[j].pc, copy |-> jobs[j].copy,
                       missed |-> jobs[j].missed]
        BY DEF PathInv, JobsInv
      <4> QED BY <3>2, <4>1
    <3>4. j \in Active  BY <2>5 DEF StoreMetadata, Active
    <3> QED BY <3>1, <3>2, <3>3, <3>4, KeptStep DEF Active, Moved
  <2>6. CASE StoreMap(j)  BY <2>6, KeptMap
  <2>7. CASE MergeThrows(j)  BY <2>7, KeptEnded DEF MergeThrows
  <2> QED BY <1>4, <2>1, <2>2, <2>3, <2>4, <2>5, <2>6, <2>7 DEF FetchMetadata, fetchHandle
<1>5. CASE UNCHANGED vars  BY <1>5, KeptAdded
<1> QED BY <1>1, <1>2, <1>3, <1>4, <1>5 DEF Next

(* The attributes of a card whose job is done are in the map of its collection, unless
   a job that had read the collection before has written it after. *)
THEOREM AttributesCorrect == Spec => []AttributesKept
<1>1. Init => KeptInv
  <2> SUFFICES ASSUME Init PROVE KeptInv  OBVIOUS
  <2>1. jobs = <<>> /\ attributesMap = <<>>  BY DEF Init, MetaInit
  <2>2. Active = {}  BY <2>1 DEF Active
  <2>3. DOMAIN jobs = {} /\ DOMAIN attributesMap = {}  BY <2>1
  <2> QED BY <2>2, <2>3 DEF KeptInv, MapsOK, MapOK, DoneKept, IsDone
<1>2. PathInv /\ KeptInv => AttributesKept
  <2> SUFFICES ASSUME PathInv, KeptInv, NEW j \in DOMAIN jobs, jobs[j].pc = "done",
                      jobs[j].card \notin overwritten
               PROVE  CoversCard(attributesMap, jobs[j].card)
    BY DEF AttributesKept, CoversCard
  <2>1. jobs[j].card \in CardDocs  BY DEF PathInv, JobTypes, PathTypes
  <2>2. IsDone(jobs[j].card)  BY DEF IsDone
  <2> QED BY <2>1, <2>2 DEF KeptInv, DoneKept, Kept
<1> QED BY <1>1, <1>2, KeptNext, PathInvCorrect, PTL DEF Spec
=============================================================================
