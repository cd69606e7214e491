------------------------------ MODULE CardPath ------------------------------
(***************************************************************************)
(* The way of a card through the back end: the receipt of a transaction is *)
(* decoded and queued by the onchain-worker (Web3Events), the events are   *)
(* handled by the onchain-queue, which keeps a history and the card        *)
(* documents and asks for metadata, and the offchain-worker fetches it     *)
(* (Metadata).                                                             *)
(*                                                                         *)
(* The question is what of the chain gets lost on the way.  A run of a     *)
(* handler is one step here, which does all of its writes or, if it fails, *)
(* the first of them: what the awaits of two handlers do to each other is  *)
(* the subject of Ledger, and how events get into their queues that of     *)
(* BlockDetect and QueueBackpressure.                                      *)
(***************************************************************************)
EXTENDS Web3Events, FiniteSets, SequencesExt

CONSTANTS
    Receipts,        \* the chains considered: each gives every transaction its receipt
    Users,           \* the burn address among them
    CardIds,
    AttributesOf,    \* the attributes in the metadata of each card
    concurrency,     \* metadata jobs at once
    MaxRepeats,      \* bound: events delivered again, and runs that fail
    Undefined

\* A log is of one of the seven topics, about users and cards; a claim is of one card.
IsLog(log) ==
    /\ log.topic \in CardTopics \union PointOrPoolTopics
    /\ {log.from, log.to} \subseteq Users
    /\ log.cards \in Seq(CardIds)
    /\ log.topic = "CLAIM_REWARD" => log.cards # <<>>
ASSUME ReceiptAssumption ==
    \A chain \in Receipts : \A tx \in DOMAIN chain :
        /\ chain[tx].success \in BOOLEAN
        /\ DOMAIN chain[tx].logs \subseteq Nat
        /\ \A i \in DOMAIN chain[tx].logs : IsLog(chain[tx].logs[i])

\* The attributes of a card are a sequence; the value of one of type "number" is a
\* number.  Undefined is neither a number nor a set of options.
Texts == UNION {{AttributesOf[card][i].value :
                    i \in {k \in DOMAIN AttributesOf[card] : AttributesOf[card][k].type = "string"}} :
                card \in CardIds}
ASSUME AttributeAssumption ==
    /\ Undefined \notin Int
    /\ \A options \in SUBSET Texts : options # Undefined
    /\ \A card \in CardIds :
          /\ Len(AttributesOf[card]) \in Nat
          /\ DOMAIN AttributesOf[card] = 1 .. Len(AttributesOf[card])
          /\ \A i \in DOMAIN AttributesOf[card] :
                AttributesOf[card][i].type = "number" => AttributesOf[card][i].value \in Int
ASSUME ConcurrencyAssumption == concurrency \in Nat

VARIABLES
    jobs, metadata, tokenUri, attributesMap, overwritten,    \* of Metadata
    receipts,    \* external: the transactions of the chain
    detected,    \* the transactions processTx has marked SUCCESS
    events,      \* the events in the queues, each as <<transaction, place>>
    handled,     \* history: those that have been handled
    ignored,     \* history: those of a pool the node did not know
    lost,        \* history: those that could not be added again
    cutShort,    \* history: those that made a card and failed before its request
    repeats,     \* bound counter: of Repeat and Fails
    history,     \* the historytxes: <<transaction, index>> to what is recorded
    cards        \* the cards: <<cardAddress, card, owner>> to its blockTime

\* A card document is known by its contract, as the event wrote it, its card and
\* its owner.  The collection is found by the contract as the mints write it.
CardDocs ==
    {formattedContractAddress(cardsContract), toString(cardsContract)} \X CardIds \X Users
InCollection(card) == card[1] = formattedContractAddress(cardsContract)
AttributesFetched(card) == AttributesOf[card[2]]

INSTANCE Metadata WITH
    Cards <- CardDocs, HasCollection <- InCollection, Attributes <- AttributesFetched

vars == <<receipts, detected, events, handled, ignored, lost, cutShort, repeats,
          history, cards, jobs, metadata, tokenUri, attributesMap, overwritten>>

Txs == DOMAIN receipts

Init ==
    /\ receipts \in Receipts
    /\ detected = {}
    /\ events = {}
    /\ handled = {} /\ ignored = {} /\ lost = {} /\ cutShort = {}
    /\ repeats = 0
    /\ history = <<>>
    /\ cards = <<>>
    /\ MetaInit
-----------------------------------------------------------------------------
(* onchain-worker: processTx.  A transaction whose receipt cannot be decoded *)
(* is not marked, and none of its events is queued.                          *)

processTx(tx) ==
    /\ tx \notin detected
    /\ ~Throws(receipts[tx])
    /\ detected' = detected \union {tx}
    /\ events' = events \union ({tx} \X QueuedEvents(receipts[tx]))
    /\ UNCHANGED <<receipts, handled, ignored, lost, cutShort, repeats, history, cards,
                   jobs, metadata, tokenUri, attributesMap, overwritten>>
-----------------------------------------------------------------------------
(* onchain-queue: the handlers.  Several transactions have the same block    *)
(* time here: the time of one is its number.                                 *)

EventAt(e) == EventIn(receipts[e[1]], e[2])

ToCard(ev)   == <<ev.cardAddress, ev.card, ev.to>>
FromCard(ev) == <<ev.cardAddress, ev.card, ev.from>>

InTime(card, time) == card \in DOMAIN cards /\ time >= cards[card]

\* The unique index knows the contract and the owner of a card, but not the card:
\* it refuses the second card of an owner.
Refused(card) ==
    \E other \in DOMAIN cards : other # card /\ other[1] = card[1] /\ other[3] = card[3]

\* findOneAndUpdate with upsert; a save() of a document that exists does the same.
Upsert(docs, key, doc) == [k \in DOMAIN docs \union {key} |-> IF k = key THEN doc ELSE docs[k]]

\* The record of an event has the key <<transaction, index of the log>>.
Recorded(e) == history' = Upsert(history, <<e[1], EventAt(e).index>>, EventAt(e))

\* fetchMetadataQueue.add.
AsksFor(card) == jobs' = Append(jobs, NewJob(card))

\* What no handler writes.
Elsewhere == UNCHANGED <<receipts, detected, metadata, tokenUri, attributesMap, overwritten>>

HandledBy(e) ==
    /\ handled' = handled \union {e}
    /\ events' = events \ {e}
    /\ UNCHANGED <<ignored, lost, cutShort, repeats>>
    /\ Elsewhere

\* Points added and pools created are no part of the history.
HandlePoints(e) ==
    /\ EventAt(e).eventType \in {"AddPoint", "CreatePool"}
    /\ HandledBy(e)
    /\ UNCHANGED <<history, cards, jobs>>

HandleTransferPoint(e) ==
    /\ EventAt(e).eventType \in {"TransferPoint", "JoiningPool"}
    /\ Recorded(e)
    /\ HandledBy(e)
    /\ UNCHANGED <<cards, jobs>>

\* A join or a claim of a pool that the RPC node does not know yet: the handler
\* returns, and the job is complete.
PoolUnknown(e) ==
    /\ EventAt(e).eventType \in {"JoiningPool", "ClaimRewards"}
    /\ ignored' = ignored \union {e}
    /\ events' = events \ {e}
    /\ UNCHANGED <<handled, lost, cutShort, repeats, history, cards, jobs>>
    /\ Elsewhere

\* A mint, or a claim: the card is updated, unless this is an older event, or made.
\* The metadata is asked for in both cases, at the end.
MintsCard(e) ==
    LET card == ToCard(EventAt(e)) IN
    /\ EventAt(e).eventType \in {"MintCard", "ClaimRewards"}
    /\ card \in DOMAIN cards \/ ~Refused(card)
    /\ cards' = IF card \in DOMAIN cards /\ ~InTime(card, e[1]) THEN cards
                ELSE Upsert(cards, card, e[1])
HandleMintCard(e) ==
    /\ MintsCard(e)
    /\ Recorded(e)
    /\ AsksFor(ToCard(EventAt(e)))
    /\ HandledBy(e)

\* A transfer takes from the sender's card, if that is not newer, and adds to the
\* receiver's; if there is none, or a newer one, that is made anew and its metadata
\* asked for.
SendsCard(e) ==
    LET card == FromCard(EventAt(e)) IN
    IF InTime(card, e[1]) THEN Upsert(cards, card, e[1]) ELSE cards
TransfersCard(e) ==
    LET card == ToCard(EventAt(e)) IN
    /\ EventAt(e).eventType = "TransferCard"
    /\ card \in DOMAIN cards \/ ~Refused(card)
    /\ cards' = Upsert(SendsCard(e), card, e[1])
AsksIfMade(e) ==
    LET card == ToCard(EventAt(e)) IN
    IF InTime(card, e[1]) THEN UNCHANGED jobs ELSE AsksFor(card)

HandleTransferCardQuietly(e) ==  \* mistaken: does not ask for the metadata
    /\ TransfersCard(e)
    /\ Recorded(e)
    /\ HandledBy(e)
    /\ UNCHANGED jobs
HandleTransferCard(e) ==
    /\ TransfersCard(e)
    /\ AsksIfMade(e)
    /\ Recorded(e)
    /\ HandledBy(e)

Handle(e) ==
    \/ HandlePoints(e) \/ HandleTransferPoint(e) \/ PoolUnknown(e)
    \/ HandleMintCard(e) \/ HandleTransferCard(e)
-----------------------------------------------------------------------------
(* onchain-queue: runs that fail.  The event is added to its queue again, to *)
(* be run from the start, or that fails too (QueueBackpressure says how).    *)

Fails(e) ==
    /\ repeats < MaxRepeats
    /\ repeats' = repeats + 1
    /\ \/ UNCHANGED <<events, lost>>
       \/ events' = events \ {e} /\ lost' = lost \union {e}
    /\ UNCHANGED <<handled, ignored>>
    /\ Elsewhere

\* The card has been made and not been asked for.
CutShort(e) ==
    cutShort' = IF ToCard(EventAt(e)) \in DOMAIN cards THEN cutShort
                ELSE cutShort \union {e}

\* Nothing has been written: so it ends for a card that the index refuses.
FailsFirst(e) ==
    /\ UNCHANGED <<history, cards, jobs, cutShort>>
    /\ Fails(e)

\* The answer to the last write is lost.
TransferPointFails(e) ==
    /\ EventAt(e).eventType \in {"TransferPoint", "JoiningPool"}
    /\ Recorded(e)
    /\ UNCHANGED <<cards, jobs, cutShort>>
    /\ Fails(e)

\* The writes of a mint are the card, the history and the request.
MintCardFails(e) ==
    /\ MintsCard(e)
    /\ \/ CutShort(e) /\ UNCHANGED <<history, jobs>>
       \/ CutShort(e) /\ Recorded(e) /\ UNCHANGED jobs
       \/ Recorded(e) /\ AsksFor(ToCard(EventAt(e))) /\ UNCHANGED cutShort
    /\ Fails(e)

\* Those of a transfer are the two cards, the request and the history.  The next run
\* finds the receiver's card there, and asks for nothing.
SendFails(e) ==
    /\ EventAt(e).eventType = "TransferCard"
    /\ cards' = SendsCard(e)
    /\ UNCHANGED <<history, jobs, cutShort>>
    /\ Fails(e)
TransferCardFails(e) ==
    /\ TransfersCard(e)
    /\ \/ CutShort(e) /\ UNCHANGED <<history, jobs>>
       \/ AsksIfMade(e) /\ UNCHANGED <<history, cutShort>>
       \/ AsksIfMade(e) /\ Recorded(e) /\ UNCHANGED cutShort
    /\ Fails(e)

HandlerFails(e) ==
    \/ FailsFirst(e) \/ TransferPointFails(e) \/ MintCardFails(e)
    \/ SendFails(e) \/ TransferCardFails(e)

\* An event that has left its queue is in it again: its transaction was detected
\* twice (BlockDetect!DuplicatesHaveCause says when).
Repeat(e) ==
    /\ repeats < MaxRepeats
    /\ repeats' = repeats + 1
    /\ events' = events \union {e}
    /\ UNCHANGED <<handled, ignored, lost, cutShort, history, cards, jobs>>
    /\ Elsewhere
-----------------------------------------------------------------------------
\* The receipts and the documents of the other processes are left alone.
FetchMetadata(j) ==
    /\ fetchHandle(j)
    /\ UNCHANGED <<receipts, detected, events, handled, ignored, lost, cutShort, repeats,
                   history, cards>>

Next ==
    \/ \E tx \in Txs : processTx(tx)
    \/ \E e \in events : Handle(e) \/ HandlerFails(e)
    \/ \E e \in handled \union ignored \union lost : Repeat(e)
    \/ \E j \in DOMAIN jobs : FetchMetadata(j)

Spec == Init /\ [][Next]_vars
-----------------------------------------------------------------------------
(* Properties.                                                               *)

\* Documents are of what was detected, and a job of a card that exists; no more
\* jobs are at work than the processor takes.
TypeOK ==
    /\ detected \subseteq Txs
    /\ \A e \in events \union handled \union ignored \union lost \union cutShort :
          e[1] \in detected
    /\ DOMAIN cards \subseteq CardDocs
    /\ \A j \in DOMAIN jobs :
          /\ jobs[j].card \in DOMAIN cards
          /\ jobs[j].pc \in {"queued", "fetch", "merge"} \union Outcomes
    /\ Cardinality(Active) <= concurrency
    /\ metadata \subseteq tokenUri
    /\ tokenUri \subseteq DOMAIN cards

\* Logs that leave no history: those of other contracts, unreadable card logs,
\* points added, pools created, burns; a mint or a transfer of points that belongs
\* to a claim or a join of its transaction.
LeavesNoHistory(receipt, log) ==
    \/ ~receipt.success
    \/ ~Concerns(log)
    \/ log.topic \in CardTopics /\ (~log.readable \/ log.cards = <<>>)
    \/ log.topic \in {"ADD_POINT", "CREATE_POOL"}
    \/ log.topic \in CardTopics /\ CardEventType(log) = "BurnCard"
    \/ /\ log.topic \in CardTopics
       /\ CardEventType(log) = "MintCard"
       /\ \E i \in DOMAIN receipt.logs :
             Concerns(receipt.logs[i]) /\ receipt.logs[i].topic = "CLAIM_REWARD"
    \/ /\ log.topic = "TRANSFER_POINT"
       /\ \E i \in DOMAIN receipt.logs :
             Concerns(receipt.logs[i]) /\ receipt.logs[i].topic = "JOINING_POOL"

\* A record of the history tells of a log.
TellsOf(ev, log) ==
    /\ ev.from = log.from /\ ev.to = log.to
    /\ log.topic \in CardTopics => ev.card \in ToSet(log.cards)

\* Events that left their queue without having been handled: of a pool that the node
\* did not know, or failed and not added again.
Dropped == (ignored \union lost) \ handled

\* Once no event of a transaction is queued any more, each of its logs that ought to
\* be in the history has a record of its own there, at its own index, unless its
\* event was dropped: the records of different logs do not replace each other, only
\* those of one TransferBatch do (web3.service.ts:90-232, the upserts of the
\* consumers, fuel.service.ts:132, 196).
LogsRecorded ==
    \A tx \in detected : (\A e \in events : e[1] # tx) =>
        \A i \in DOMAIN receipts[tx].logs :
            \/ LeavesNoHistory(receipts[tx], receipts[tx].logs[i])
            \/ \E e \in Dropped : e[1] = tx /\ EventAt(e).index = i - 1
            \/ /\ <<tx, i - 1>> \in DOMAIN history
               /\ TellsOf(history[<<tx, i - 1>>], receipts[tx].logs[i])

\* The card of a claim.
Claimed(card) ==
    \E tx \in detected : \E place \in QueuedEvents(receipts[tx]) :
        LET ev == EventAt(<<tx, place>>) IN ev.eventType = "ClaimRewards" /\ ToCard(ev) = card

\* A run that made the card failed before its metadata was asked for: a transfer's,
\* which the next run takes for one that has been asked for, or that of a mint or a
\* claim, until the next run asks.
NotAsked(card) ==
    \E e \in cutShort :
        /\ ToCard(EventAt(e)) = card
        /\ EventAt(e).eventType = "TransferCard" \/ e \notin handled

\* A card ends up with its metadata, unless it was never asked for since a run
\* failed, its contract gave no address or the metadata could not be fetched; only
\* the card of a claim has no collection, since its contract is written in another
\* way (cards.service.ts:107, 143-163, decode.ts:157, metadata.service.ts:51).
CardsFetched ==
    \A card \in DOMAIN cards :
        \/ card \in metadata
        \/ NotAsked(card)
        \/ \E j \in DOMAIN jobs :
              /\ jobs[j].card = card
              /\ \/ jobs[j].pc \in {"queued", "fetch", "noUri"}
                 \/ jobs[j].pc = "notFetched" /\ card \in tokenUri
                 \/ jobs[j].pc = "noCollection" /\ Claimed(card)
=============================================================================
