-------------------------------- MODULE Ledger --------------------------------
(***************************************************************************)
(* The consumers of packages/onchain-queue: jobs that turn the events of   *)
(* the chain into documents: users' points, pools, stakes, cards and the   *)
(* transaction history.  Up to 70 jobs run at a time (seven queues, ten    *)
(* jobs each) and share the documents; each await is a step, and between   *)
(* two steps of a job any other job may run.  A job that throws starts     *)
(* over (retryUntil, and the catch of the processor that adds it again).   *)
(*                                                                         *)
(* The documents are read, changed in memory and written back, without a   *)
(* transaction.  The module therefore keeps account of what can make a     *)
(* document differ from the chain (lost, doubled, guessed, late, ignored)  *)
(* and checks that nothing else can.                                       *)
(*                                                                         *)
(* External: the chain, whose events come in the order of `chain`, and the *)
(* atomicity of one MongoDB operation with its unique indexes.             *)
(***************************************************************************)
EXTENDS Integers, Sequences, FiniteSetsExt, Functions

CONSTANTS
  Users, Pools,           (* addresses, pools of the fuel contract         *)
  Contracts, CardIds,     (* contracts of cards, and the cards of each     *)
  None, Ask,              (* no document found; a value the chain is asked for *)
  Chains,                 (* the events the chain may have, in its order   *)
  MaxFaults               (* bound on the failures, events delivered again,
                             and pools the RPC node does not know          *)

Kinds == {"add", "transfer", "create", "join", "claim", "mint", "move"}

(* What a card is filed under: its contract, as decode.ts writes it, and its
   number.  A claim has the contract in decimal, a mint and a transfer in hex: of
   one card there are two documents then. *)
Written(kind) == IF kind = "claim" THEN "decimal" ELSE "hex"
FiledCards == ({"decimal", "hex"} \X Contracts) \X CardIds
ContractOf(c) == c[1]

(* Everything an event may carry; a field its kind has no use for is not read. *)
Fields == [kind : Kinds, from : Users, to : Users, pool : Pools, card : FiledCards,
           points : Nat, amount : Nat, time : Nat]
Event == {ev \in Fields : ContractOf(ev.card)[1] = Written(ev.kind)}
CardDoc == [amount : Int, time : Nat]
ASSUME ChainAssumption == /\ Chains \subseteq Seq(Event)
                          /\ None \notin Int /\ None \notin CardDoc
                          /\ Ask \notin Int /\ Ask # None
EventIds == 1 .. Max({Len(c) : c \in Chains})

VARIABLES
  chain,     (* the events, those to come included (external)              *)
  mined,     (* how many events the chain has (external)                   *)
  points,    (* the users' documents: address to points                    *)
  pools,     (* the pools that have a document                             *)
  stakes,    (* joinFuelPool documents: <<pool, user>> to stakedAmount     *)
  cards,     (* card documents: <<filed card, owner>> to amount, blockTime *)
  history,   (* the events with a history document: (txHash, index)        *)
  metadata,  (* cards added to the metadata queue                          *)
  pc,        (* the next step of each event's job                          *)
  mem,       (* the locals of each job                                     *)
  held,      (* accounts a job has read and not written yet, and whether
                the document is still the one it read                      *)
  lost,      (* accounts written from a document that had changed since    *)
  doubled,   (* accounts a job wrote and then started over                 *)
  guessed,   (* points taken from the chain while events were outstanding  *)
  late,      (* cards whose event came after one with a later blockTime,
                or without a document of the sender's to take from         *)
  ignored,   (* events of a pool the RPC node did not know                 *)
  rejected,  (* events whose card the unique index refused                 *)
  faults     (* how often something has gone wrong                         *)

db == <<points, pools, stakes, cards, history, metadata>>
causes == <<lost, doubled, guessed, late, ignored, rejected>>
vars == <<chain, mined, db, pc, mem, held, causes, faults>>

Events == DOMAIN chain

(* The awaits of each handler, in order. *)
Program ==
  [add      |-> <<"readTo", "writeTo">>,
   transfer |-> <<"readFrom", "writeFrom", "readTo", "writeTo", "history">>,
   create   |-> <<"savePool">>,
   join     |-> <<"getUser", "findPool", "saveUser", "findStake", "saveStake", "history">>,
   claim    |-> <<"findPool", "getUser", "saveUser", "findCard", "saveCard", "history",
                  "metadata">>,
   mint     |-> <<"findFromUser", "createFromUser", "findToUser", "createToUser",
                  "findCard", "saveCard", "history", "metadata">>,
   move     |-> <<"findFromUser", "createFromUser", "findToUser", "createToUser",
                  "findFromCard", "findCard", "saveFromCard", "saveToCard", "metadata",
                  "history">>]
Steps(e) == Program[chain[e].kind]
End(e) == Len(Steps(e)) + 1
Happened(e) == e \in Events /\ e <= mined
Done(e) == Happened(e) /\ pc[e] = End(e)
At(e, S) == Happened(e) /\ ~ Done(e) /\ Steps(e)[pc[e]] \in S

(* Accounts: what an event adds to or takes from. *)
PointsOf(u) == <<"points", u>>
StakeOf(p, u) == <<"stake", p, u>>
CardOf(c, u) == <<"card", c, u>>

(* What an event does to the accounts on the chain, and the step that does it
   here: <<step, account, amount>>. *)
LegsOf(ev) ==
  CASE ev.kind = "add"      -> {<<"writeTo", PointsOf(ev.to), ev.points>>}
    [] ev.kind = "transfer" -> {<<"writeFrom", PointsOf(ev.from), - ev.points>>,
                                <<"writeTo", PointsOf(ev.to), ev.points>>}
    [] ev.kind = "create"   -> {}
    [] ev.kind = "join"     -> {<<"saveUser", PointsOf(ev.from), - ev.points>>,
                                <<"saveStake", StakeOf(ev.pool, ev.from), ev.points>>}
    [] ev.kind = "claim"    -> {<<"saveUser", PointsOf(ev.to), ev.points>>,
                                <<"saveCard", CardOf(ev.card, ev.to), ev.amount>>}
    [] ev.kind = "mint"     -> {<<"saveCard", CardOf(ev.card, ev.to), ev.amount>>}
    [] ev.kind = "move"     -> {<<"saveFromCard", CardOf(ev.card, ev.from), - ev.amount>>,
                                <<"saveToCard", CardOf(ev.card, ev.to), ev.amount>>}
Legs(e) == LegsOf(chain[e])
Accounts == {PointsOf(u) : u \in Users} \union {StakeOf(p, u) : p \in Pools, u \in Users}
              \union {CardOf(c, u) : c \in FiledCards, u \in Users}
LegsOnAll == [c \in Chains |-> [a \in Accounts |->
                {el \in UNION {{e} \X LegsOf(c[e]) : e \in DOMAIN c} : el[2][2] = a}]]
LegsOn(a) == LegsOnAll[chain][a]
Passed(e, s) == e \notin ignored /\ \E i \in 1 .. (pc[e] - 1) : Steps(e)[i] = s
Touched(e) == {l[2] : l \in {m \in Legs(e) : Passed(e, m[1])}}
Total(S) == MapThenSumSet(LAMBDA el : el[2][3], S)

Fresh == [user |-> None, new |-> None, stake |-> None, card |-> None, fromCard |-> None]

Init ==
  /\ chain \in Chains /\ mined = 0
  /\ points = <<>> /\ pools = {} /\ stakes = <<>> /\ cards = <<>>
  /\ history = {} /\ metadata = {}
  /\ pc = [e \in Events |-> 1] /\ mem = [e \in Events |-> Fresh]
  /\ held = [e \in Events |-> <<>>]
  /\ lost = {} /\ doubled = {} /\ guessed = {} /\ late = {}
  /\ ignored = {} /\ rejected = {}
  /\ faults = 0
-----------------------------------------------------------------------------
(* Building blocks of the steps. *)
Lookup(f, k) == IF k \in DOMAIN f THEN f[k] ELSE None
Upsert(f, k, v) == [x \in DOMAIN f \union {k} |-> IF x = k THEN v ELSE f[x]]
Advance(e) == pc' = [pc EXCEPT ![e] = @ + 1]
Without(f, a) == Restrict(f, DOMAIN f \ {a})

(* The job has read account a and will write it; of two readings, by a job that moves
   a card to its owner, the first may be out of date. *)
Hold(e, a) == held' = [held EXCEPT ![e] = Upsert(@, a, IF a \in DOMAIN @ THEN @[a] ELSE TRUE)]

(* The job writes account a: its own hold ends, the others' documents have
   changed; if its own had, or the job has itself written the account since it read
   it (a card moved to its owner), the change is overwritten. *)
Wrote(e, a) ==
  /\ lost' = IF a \in DOMAIN held[e] /\ held[e][a] THEN lost ELSE lost \union {a}
  /\ held' = [f \in Events |->
                IF f = e THEN Without(held[f], a)
                ELSE IF a \in DOMAIN held[f] THEN [held[f] EXCEPT ![a] = FALSE]
                ELSE held[f]]
Kept(e, a) == held' = [held EXCEPT ![e] = Without(@, a)] /\ UNCHANGED lost

StartOverHere(e) ==  \* mistaken: only the operation that threw is tried again
  /\ pc' = pc /\ mem' = mem /\ held' = held /\ doubled' = doubled

(* The handler threw: it starts from its first line, whatever it has written. *)
StartOver(e) ==
  /\ pc' = [pc EXCEPT ![e] = 1] /\ mem' = [mem EXCEPT ![e] = Fresh]
  /\ held' = [held EXCEPT ![e] = <<>>]
  /\ doubled' = doubled \union Touched(e)

(* Whose points the steps of a job are about, and the sign of the change. *)
User(e) == IF At(e, {"readFrom", "writeFrom", "findFromUser", "createFromUser"})
              \/ chain[e].kind = "join"
           THEN chain[e].from ELSE chain[e].to
isTransfered(e) == At(e, {"readFrom", "writeFrom"})
-----------------------------------------------------------------------------
(* External: the next event happens on the chain. *)
Mine ==
  /\ mined < Len(chain) /\ mined' = mined + 1
  /\ UNCHANGED <<chain, db, pc, mem, held, causes, faults>>

(* updateUserPoint: what is written, given the document found; Ask where the
   chain is asked for the value instead. *)
newPointAlwaysAdds(e, doc) == IF doc = None THEN chain[e].points ELSE doc + chain[e].points
newPoint(e, doc) ==
  LET p == chain[e].points
      sum == IF isTransfered(e) THEN doc - p ELSE doc + p
  IN IF doc = None THEN (IF isTransfered(e) THEN Ask ELSE p)
     ELSE IF sum < 0 THEN Ask ELSE sum

(* updateUserPoint: getUser. *)
ReadUser(e) ==
  /\ At(e, {"readFrom", "readTo"})
  /\ mem' = [mem EXCEPT ![e].new = newPoint(e, Lookup(points, User(e)))]
  /\ Hold(e, PointsOf(User(e))) /\ Advance(e)
  /\ UNCHANGED <<chain, mined, db, causes, faults>>

(* getUserOrCreate: findOne; a missing user gets the points the chain has. *)
FindUser(e) ==
  /\ At(e, {"findFromUser", "findToUser"})
  /\ IF User(e) \in DOMAIN points
     THEN pc' = [pc EXCEPT ![e] = @ + 2] /\ UNCHANGED <<mem, held>>
     ELSE /\ mem' = [mem EXCEPT ![e].new = Ask]
          /\ Hold(e, PointsOf(User(e))) /\ Advance(e)
  /\ UNCHANGED <<chain, mined, db, causes, faults>>

(* web3Service.getUserCurrentPoints: the chain's own value.  It stands for more
   than the documents do while events about the user are outstanding. *)
AskChain(e) ==
  /\ Happened(e) /\ mem[e].new = Ask
  /\ LET a == PointsOf(User(e))
         onChain == {el \in LegsOn(a) : el[1] <= mined}
         outstanding == {el \in onChain : ~ Passed(el[1], el[2][1])}
                          \ {el \in onChain : el[1] = e /\ At(e, {el[2][1]})}
     IN /\ mem' = [mem EXCEPT ![e].new = Total(onChain)]
        /\ guessed' = IF outstanding = {} THEN guessed ELSE guessed \union {a}
  /\ UNCHANGED <<chain, mined, db, pc, held, lost, doubled, late,
                 ignored, rejected, faults>>

(* updateUserPoint and getUserOrCreate: findOneAndUpdate with upsert, whose $set
   does not depend on what the document holds by now. *)
WriteUser(e) ==
  /\ At(e, {"writeFrom", "writeTo", "createFromUser", "createToUser"})
  /\ mem[e].new # Ask
  /\ points' = Upsert(points, User(e), mem[e].new)
  /\ Wrote(e, PointsOf(User(e))) /\ Advance(e)
  /\ UNCHANGED <<chain, mined, pools, stakes, cards, history, metadata, mem,
                 doubled, guessed, late, ignored, rejected, faults>>

(* processJoinPoolEv and processClaimRewardEv: getUser, and playerDocument.save()
   or winnerUser.save(); without a user there is a TypeError. *)
GetUser(e) ==
  /\ At(e, {"getUser"})
  /\ mem' = [mem EXCEPT ![e].user = Lookup(points, User(e))]
  /\ Hold(e, PointsOf(User(e))) /\ Advance(e)
  /\ UNCHANGED <<chain, mined, db, causes, faults>>
SaveUser(e) ==
  /\ At(e, {"saveUser"})
  /\ mem[e].user # None
  /\ points' = [points EXCEPT ![User(e)] =
                  IF chain[e].kind = "join" THEN mem[e].user - chain[e].points
                  ELSE mem[e].user + chain[e].points]
  /\ Wrote(e, PointsOf(User(e))) /\ Advance(e)
  /\ UNCHANGED <<chain, mined, pools, stakes, cards, history, metadata, mem,
                 doubled, guessed, late, ignored, rejected, faults>>
UserMissing(e) ==
  /\ At(e, {"saveUser"})
  /\ mem[e].user = None
  /\ StartOver(e)
  /\ UNCHANGED <<chain, mined, db, lost, guessed, late, ignored, rejected, faults>>

(* processCreatePoolEv. *)
SavePool(e) ==
  /\ At(e, {"savePool"})
  /\ pools' = pools \union {chain[e].pool}
  /\ Advance(e)
  /\ UNCHANGED <<chain, mined, points, stakes, cards, history, metadata, mem, held,
                 causes, faults>>

FindPoolUnsaved(e) ==  \* mistaken: the chain's answer is used and not stored
  /\ At(e, {"findPool"})
  /\ Advance(e)
  /\ UNCHANGED <<chain, mined, db, mem, held, causes, faults>>

(* getOrCreatePool: the document, or the chain's answer stored as one. *)
FindPool(e) ==
  /\ At(e, {"findPool"})
  /\ pools' = pools \union {chain[e].pool}
  /\ Advance(e)
  /\ UNCHANGED <<chain, mined, points, stakes, cards, history, metadata, mem, held,
                 causes, faults>>

(* getOrCreatePool: an RPC node that lags behind knows no such pool; the handler
   returns as if the event had been processed. *)
PoolUnknown(e) ==
  /\ At(e, {"findPool"}) /\ chain[e].pool \notin pools
  /\ faults < MaxFaults /\ faults' = faults + 1
  /\ ignored' = ignored \union {e}
  /\ pc' = [pc EXCEPT ![e] = End(e)] /\ held' = [held EXCEPT ![e] = <<>>]
  /\ UNCHANGED <<chain, mined, db, mem, lost, doubled, guessed, late, rejected>>

(* processJoinPoolEv: the stake, found and added to, or created; the unique index
   refuses the second of two documents created at once. *)
FindStake(e) ==
  /\ At(e, {"findStake"})
  /\ LET k == <<chain[e].pool, chain[e].from>> IN
       /\ mem' = [mem EXCEPT ![e].stake = Lookup(stakes, k)]
       /\ Hold(e, StakeOf(k[1], k[2]))
  /\ Advance(e)
  /\ UNCHANGED <<chain, mined, db, causes, faults>>
SaveStakeUpserting(e) ==  \* mistaken: an upsert where the code has create()
  /\ At(e, {"saveStake"})
  /\ LET k == <<chain[e].pool, chain[e].from>> IN
       /\ stakes' = Upsert(stakes, k, chain[e].points)
       /\ Wrote(e, StakeOf(k[1], k[2]))
  /\ Advance(e)
  /\ UNCHANGED <<chain, mined, points, pools, cards, history, metadata, mem,
                 doubled, guessed, late, ignored, rejected, faults>>
SaveStake(e) ==
  /\ At(e, {"saveStake"})
  /\ LET k == <<chain[e].pool, chain[e].from>>
         old == IF mem[e].stake = None THEN 0 ELSE mem[e].stake
     IN /\ mem[e].stake = None => k \notin DOMAIN stakes
        /\ stakes' = Upsert(stakes, k, old + chain[e].points)
        /\ Wrote(e, StakeOf(k[1], k[2]))
  /\ Advance(e)
  /\ UNCHANGED <<chain, mined, points, pools, cards, history, metadata, mem,
                 doubled, guessed, late, ignored, rejected, faults>>
StakeRefused(e) ==
  /\ At(e, {"saveStake"})
  /\ mem[e].stake = None /\ <<chain[e].pool, chain[e].from>> \in DOMAIN stakes
  /\ StartOver(e)
  /\ UNCHANGED <<chain, mined, db, lost, guessed, late, ignored, rejected, faults>>
-----------------------------------------------------------------------------
(* The card documents of the receiver and of the sender. *)
ToKey(e) == <<chain[e].card, chain[e].to>>
FromKey(e) == <<chain[e].card, chain[e].from>>
FindCard(e) ==
  /\ At(e, {"findCard"})
  /\ mem' = [mem EXCEPT ![e].card = Lookup(cards, ToKey(e))]
  /\ Hold(e, CardOf(chain[e].card, chain[e].to)) /\ Advance(e)
  /\ UNCHANGED <<chain, mined, db, causes, faults>>
FindFromCard(e) ==
  /\ At(e, {"findFromCard"})
  /\ mem' = [mem EXCEPT ![e].fromCard = Lookup(cards, FromKey(e))]
  /\ Hold(e, CardOf(chain[e].card, chain[e].from)) /\ Advance(e)
  /\ UNCHANGED <<chain, mined, db, causes, faults>>

(* The event is not older than the document the job has read. *)
InTime(e, doc) == doc # None /\ chain[e].time >= doc.time

(* The unique index {cardContract, tokenId, owner} names a field no card has: it
   allows an owner one card of a contract, as the contract is written. *)
Refused(k) == /\ k \notin DOMAIN cards
              /\ \E l \in DOMAIN cards : l[2] = k[2] /\ ContractOf(l[1]) = ContractOf(k[1])

Stored(e, k, amount) ==
  cards' = Upsert(cards, k, [amount |-> amount, time |-> chain[e].time])

AddToCardReplacing(e) ==  \* mistaken: = where the code has +=
  /\ At(e, {"saveCard", "saveToCard"})
  /\ InTime(e, mem[e].card)
  /\ Stored(e, ToKey(e), chain[e].amount)
  /\ Wrote(e, CardOf(chain[e].card, chain[e].to))
  /\ pc' = [pc EXCEPT ![e] = @ + (IF At(e, {"saveToCard"}) THEN 2 ELSE 1)]
  /\ UNCHANGED <<chain, mined, points, pools, stakes, history, metadata, mem,
                 doubled, guessed, late, ignored, rejected, faults>>

(* existingCard found: add to it and save(). *)
AddToCard(e) ==
  /\ At(e, {"saveCard", "saveToCard"})
  /\ InTime(e, mem[e].card)
  /\ Stored(e, ToKey(e), mem[e].card.amount + chain[e].amount)
  /\ Wrote(e, CardOf(chain[e].card, chain[e].to))
  /\ pc' = [pc EXCEPT ![e] = @ + (IF At(e, {"saveToCard"}) THEN 2 ELSE 1)]
  /\ UNCHANGED <<chain, mined, points, pools, stakes, history, metadata, mem,
                 doubled, guessed, late, ignored, rejected, faults>>

(* mint and claim: an older event than the document's is left out. *)
SkipCard(e) ==
  /\ At(e, {"saveCard"})
  /\ mem[e].card # None /\ ~ InTime(e, mem[e].card)
  /\ Kept(e, CardOf(chain[e].card, chain[e].to))
  /\ late' = late \union {CardOf(chain[e].card, chain[e].to)}
  /\ Advance(e)
  /\ UNCHANGED <<chain, mined, db, mem, doubled, guessed, ignored, rejected, faults>>

(* No card was found, or, for a transfer, a newer one: findOneAndUpdate with
   upsert sets the amount to that of the event. *)
SetsCard(e) == \/ At(e, {"saveCard"}) /\ mem[e].card = None
               \/ At(e, {"saveToCard"}) /\ ~ InTime(e, mem[e].card)
SetCardQuietly(e) ==  \* mistaken: a new card is not added to the metadata queue
  /\ SetsCard(e) /\ ~ Refused(ToKey(e))
  /\ Stored(e, ToKey(e), chain[e].amount)
  /\ Wrote(e, CardOf(chain[e].card, chain[e].to))
  /\ late' = IF mem[e].card = None THEN late
             ELSE late \union {CardOf(chain[e].card, chain[e].to)}
  /\ pc' = [pc EXCEPT ![e] = End(e)]
  /\ UNCHANGED <<chain, mined, points, pools, stakes, history, metadata, mem,
                 doubled, guessed, ignored, rejected, faults>>
SetCard(e) ==
  /\ SetsCard(e) /\ ~ Refused(ToKey(e))
  /\ Stored(e, ToKey(e), chain[e].amount)
  /\ Wrote(e, CardOf(chain[e].card, chain[e].to))
  /\ late' = IF mem[e].card = None THEN late
             ELSE late \union {CardOf(chain[e].card, chain[e].to)}
  /\ Advance(e)
  /\ UNCHANGED <<chain, mined, points, pools, stakes, history, metadata, mem,
                 doubled, guessed, ignored, rejected, faults>>
CardRefused(e) ==
  /\ SetsCard(e) /\ Refused(ToKey(e))
  /\ e \notin rejected /\ rejected' = rejected \union {e}
  /\ StartOver(e)
  /\ UNCHANGED <<chain, mined, db, lost, guessed, late, ignored, faults>>

(* processTransferCard: the sender's card, unless it has none or a newer one. *)
TakeFromCard(e) ==
  /\ At(e, {"saveFromCard"})
  /\ LET a == CardOf(chain[e].card, chain[e].from) IN
     IF InTime(e, mem[e].fromCard)
     THEN /\ Stored(e, FromKey(e), mem[e].fromCard.amount - chain[e].amount)
          /\ Wrote(e, a) /\ UNCHANGED late
     ELSE Kept(e, a) /\ late' = late \union {a} /\ UNCHANGED cards
  /\ Advance(e)
  /\ UNCHANGED <<chain, mined, points, pools, stakes, history, metadata, mem,
                 doubled, guessed, ignored, rejected, faults>>

(* fetchMetadataQueue.add. *)
AddMetadata(e) ==
  /\ At(e, {"metadata"})
  /\ metadata' = metadata \union {ToKey(e)}
  /\ Advance(e)
  /\ UNCHANGED <<chain, mined, points, pools, stakes, cards, history, mem, held,
                 causes, faults>>

(* historyModel.findOneAndUpdate with upsert. *)
SaveHistory(e) ==
  /\ At(e, {"history"})
  /\ history' = history \union {e}
  /\ Advance(e)
  /\ UNCHANGED <<chain, mined, points, pools, stakes, cards, metadata, mem, held,
                 causes, faults>>
-----------------------------------------------------------------------------
(* An operation of the handler throws, between any two of its steps. *)
Fail(e) ==
  /\ Happened(e) /\ ~ Done(e) /\ pc[e] > 1
  /\ faults < MaxFaults /\ faults' = faults + 1
  /\ StartOver(e)
  /\ UNCHANGED <<chain, mined, db, lost, guessed, late, ignored, rejected>>

(* The onchain worker adds the event once more (DuplicatesHaveCause in
   BlockDetect says when), after it has been processed. *)
Redeliver(e) ==
  /\ Done(e)
  /\ faults < MaxFaults /\ faults' = faults + 1
  /\ StartOver(e) /\ ignored' = ignored \ {e}
  /\ UNCHANGED <<chain, mined, db, lost, guessed, late, rejected>>

PointSteps(e) == ReadUser(e) \/ FindUser(e) \/ AskChain(e) \/ WriteUser(e)
FuelSteps(e) == \/ GetUser(e) \/ SaveUser(e) \/ UserMissing(e) \/ SavePool(e) \/ FindPool(e)
                \/ FindStake(e) \/ SaveStake(e) \/ StakeRefused(e)
CardSteps(e) == \/ FindCard(e) \/ FindFromCard(e) \/ AddToCard(e) \/ SkipCard(e)
                \/ SetCard(e) \/ CardRefused(e) \/ TakeFromCard(e) \/ AddMetadata(e)
Job(e) == PointSteps(e) \/ FuelSteps(e) \/ CardSteps(e) \/ SaveHistory(e)
Next == \/ Mine
        \/ \E e \in Events : Job(e) \/ PoolUnknown(e) \/ Fail(e) \/ Redeliver(e)

Spec == Init /\ [][Next]_vars

(* Every job goes on; the chain need not. *)
FairSpec == Spec /\ \A e \in EventIds : WF_vars(Job(e))
-----------------------------------------------------------------------------
(* Types, and what documents refer to: a stake has its pool and its user, a card
   its owner; a job holds no account beyond its end. *)
TypeOK ==
  /\ chain \in Chains /\ mined \in 0 .. Len(chain)
  /\ DOMAIN points \subseteq Users /\ \A u \in DOMAIN points : points[u] \in Int
  /\ pools \subseteq Pools
  /\ \A k \in DOMAIN stakes : k[1] \in pools /\ k[2] \in DOMAIN points
  /\ \A k \in DOMAIN cards : k[1] \in FiledCards /\ k[2] \in DOMAIN points
  /\ history \subseteq Events /\ metadata \subseteq DOMAIN cards
  /\ \A e \in Events : pc[e] \in 1 .. End(e) /\ (Done(e) => held[e] = <<>>)

(* The sum an account should show: what the jobs have done to it so far. *)
Expected(a) == Total({el \in LegsOn(a) : Passed(el[1], el[2][1])})
Excused == lost \union doubled \union guessed \union late

(* A user's points are exactly what the handled events make them, unless two jobs
   held the document at once, one started over after writing it, or the chain was
   asked while events were outstanding (userpoint.service.ts:57-103,
   fuel.service.ts:136-137, 200-202).  In particular no order of the queues, no
   failure before the write and no missing user makes a difference. *)
PointsExact ==
  \A u \in Users : LET a == PointsOf(u) IN
    a \in Excused \/ (IF u \in DOMAIN points THEN points[u] ELSE 0) = Expected(a)

(* The same of stakes, which decide the draw; two first stakes of a user at once
   do not overwrite each other (fuel.service.ts:139-158). *)
StakesExact ==
  \A p \in Pools, u \in Users : LET a == StakeOf(p, u) IN
    a \in Excused \/ (IF <<p, u>> \in DOMAIN stakes THEN stakes[<<p, u>>] ELSE 0) = Expected(a)

(* The same of card documents; in addition an event may come after a later one or
   before the sender has the card (cards.service.ts:65-86, 133-157).  So does every
   transfer of a card that was claimed: the claim is in the other document. *)
CardsExact ==
  \A c \in FiledCards, u \in Users : LET a == CardOf(c, u) IN
    a \in Excused \/ (IF <<c, u>> \in DOMAIN cards THEN cards[<<c, u>>].amount ELSE 0) = Expected(a)

(* A card document has its metadata requested, or will have: a job is on its way
   to do it.  Only a job that started over after making the document may find it
   and pass the request by (cards.service.ts:139-163). *)
MetadataRequested ==
  \A k \in DOMAIN cards :
    \/ k \in metadata
    \/ CardOf(k[1], k[2]) \in doubled
    \/ \E e \in Events : At(e, {"history", "metadata"}) /\ ToKey(e) = k

(* Every event is processed in the end, unless its card is refused again and
   again: a job whose user has no document yet is tried until another job has
   made one. *)
EveryEventDone == \A e \in EventIds : Happened(e) ~> Done(e) \/ e \in rejected

(* card.schema.ts:74 declares the index {cardContract, tokenId, owner} unique: an
   owner may have documents of several cards of a contract, and none is refused. *)
OneDocumentPerCard == rejected = {}
=============================================================================
