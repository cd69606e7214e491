----------------------------- MODULE Web3Events -----------------------------
(***************************************************************************)
(* What a transaction receipt means to the back end: the events that       *)
(* web3/src/web3.service.ts finds in its logs with the decoders of         *)
(* web3/src/decode.ts, and those of them that processTx of                 *)
(* onchain-worker/src/blizt/block-detect.service.ts puts into a queue.     *)
(*                                                                         *)
(* A log has a topic, the contract it is from, two users, the cards it     *)
(* moves (several in a TransferBatch, one in a TransferSingle or a claim)  *)
(* and a flag that says whether the decoder of its topic can read it.      *)
(* Amounts and times are left out.                                         *)
(***************************************************************************)
EXTENDS Integers, Sequences

CONSTANTS
    bliztContract,     \* the contract of the points (chain.bliztContractAdress)
    fuelContracts,     \* the contracts of the pools
    cardsContract,     \* the contract of the cards
    BURN_ADDRESS       \* the zero address: who "sends" a mint and "gets" a burn

ASSUME ContractsDiffer ==
    /\ bliztContract \notin fuelContracts
    /\ cardsContract \notin fuelContracts
    /\ cardsContract # bliztContract

CardTopics == {"TRANSFER_SINGLE", "TRANSFER_BATCH"}
PointOrPoolTopics ==
    {"ADD_POINT", "TRANSFER_POINT", "CREATE_POOL", "JOINING_POOL", "CLAIM_REWARD"}

\* The contracts whose logs with a topic are looked at.
Emitters(topic) ==
    CASE topic \in {"ADD_POINT", "TRANSFER_POINT"} -> {bliztContract}
      [] topic \in {"CREATE_POOL", "JOINING_POOL", "CLAIM_REWARD"} -> fuelContracts
      [] topic \in CardTopics -> {cardsContract}

Concerns(log) == log.contract \in Emitters(log.topic)

\* The same address written in the two ways the decoders write it: padded hex,
\* or, in a claim, the decimal digits of the number.
formattedContractAddress(c) == <<"hex", c>>
toString(c) == <<"dec", c>>

\* A mint comes from the burn address; what goes to it is a burn, whoever sent it.
CardEventType(log) ==
    IF log.to = BURN_ADDRESS THEN "BurnCard"
    ELSE IF log.from = BURN_ADDRESS THEN "MintCard" ELSE "TransferCard"

PointOrPoolType(topic) ==
    CASE topic = "ADD_POINT" -> "AddPoint"
      [] topic = "TRANSFER_POINT" -> "TransferPoint"
      [] topic = "CREATE_POOL" -> "CreatePool"
      [] topic = "JOINING_POOL" -> "JoiningPool"
      [] topic = "CLAIM_REWARD" -> "ClaimRewards"

\* The log a decoder is given: the receipt with all other logs filtered out.
DecodedFirst(receipt, i) ==  \* mistaken: the users of the receipt's first log
    [receipt.logs[i] EXCEPT !.from = receipt.logs[1].from, !.to = receipt.logs[1].to]

DecodedLog(receipt, i) == receipt.logs[i]

\* The contract a decoded card belongs to.
cardAddress(log) ==
    IF log.topic = "CLAIM_REWARD" THEN toString(cardsContract)
                                  ELSE formattedContractAddress(log.contract)

decodeCardTransfer(log, index, card) ==
    [eventType |-> CardEventType(log), index |-> index, from |-> log.from,
     to |-> log.to, card |-> card, cardAddress |-> cardAddress(log)]

\* decodeCardTransferBatch: one event for each card, all with the index of the log.
decodeCardTransfers(log, index) ==
    IF log.readable THEN [n \in DOMAIN log.cards |-> decodeCardTransfer(log, index, log.cards[n])]
                    ELSE <<>>

decodePointOrPool(log, index) ==
    <<[eventType |-> PointOrPoolType(log.topic), index |-> index, from |-> log.from, to |-> log.to,
       card |-> IF log.topic = "CLAIM_REWARD" THEN Head(log.cards) ELSE "none",
       cardAddress |-> cardAddress(log)]>>

\* The events of the i-th log, which has index i - 1.
EventsOfLog(receipt, i) ==
    LET log == DecodedLog(receipt, i) IN
    CASE ~Concerns(receipt.logs[i]) -> <<>>
      [] Concerns(receipt.logs[i]) /\ log.topic \in CardTopics -> decodeCardTransfers(log, i - 1)
      [] OTHER -> decodePointOrPool(log, i - 1)

\* A card log that cannot be read is passed over; any other one throws.
Unreadable(receipt) ==
    \E i \in DOMAIN receipt.logs :
        /\ Concerns(receipt.logs[i])
        /\ receipt.logs[i].topic \notin CardTopics
        /\ ~receipt.logs[i].readable

Throws(receipt) == receipt.success /\ Unreadable(receipt)

\* The events of a receipt by their places: <<i, n>> is the n-th event of its i-th
\* log.  The consumers know nothing of the order of two events.
EventIn(receipt, place) == EventsOfLog(receipt, place[1])[place[2]]

getReturnValuesEvent(receipt) ==
    IF receipt.success
    THEN UNION {{i} \X DOMAIN EventsOfLog(receipt, i) : i \in DOMAIN receipt.logs}
    ELSE {}

\* What processTx keeps of them: the mints of a transaction with a claim, and the
\* transfers of points of one with a join, are left out.
HasType(receipt, type) ==
    \E place \in getReturnValuesEvent(receipt) : EventIn(receipt, place).eventType = type

eventlogs(receipt) ==
    {place \in getReturnValuesEvent(receipt) :
        LET ev == EventIn(receipt, place) IN
        /\ ev.eventType = "MintCard" => ~HasType(receipt, "ClaimRewards")
        /\ ev.eventType = "TransferPoint" => ~HasType(receipt, "JoiningPool")}

\* ... and puts into a queue: there is none for BurnCard.
QueuedEvents(receipt) ==
    {place \in eventlogs(receipt) : EventIn(receipt, place).eventType # "BurnCard"}
=============================================================================
