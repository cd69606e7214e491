------------------------------- MODULE FuelDraw -------------------------------
(***************************************************************************)
(* FuelService of the API service (packages/api-service/src/fuel/          *)
(* fuel.service.ts): cron jobs that follow the newest pool and its stakes, *)
(* draw a winner when the pool is over, and have the contract create the   *)
(* next one.  Each job is a task; the code between two awaits is one       *)
(* action, and a query of MongoDB sees the collections when it is sent,    *)
(* while its answer may take any time.                                     *)
(*                                                                         *)
(* A cron job is taken not to last until its next turn, except for the     *)
(* draw, whose flag keeps its next turns out.                              *)
(*                                                                         *)
(* External: the contract (created, over), and the consumers of            *)
(* onchain-queue, which make the documents of pools and stakes some time   *)
(* after the chain has them (Ledger).  Every stake is one point: what the  *)
(* jobs compare of the stakes is their sum.                                *)
(***************************************************************************)
EXTENDS Integers, FiniteSets

CONSTANTS
  Users, None,
  MinJoined,   (* stakes a pool needs for a draw: 3 in the code            *)
  MaxPools,    (* bound on the pools of the contract                       *)
  FaultKinds,  (* which of "time", "loop", "query" (throws) and "restart"
                  happen                                                   *)
  MaxFaults    (* bound on how many of them                                *)

ASSUME DrawAssumption == /\ None \notin Users
                         /\ MinJoined \in Nat \ {0}
                         /\ MaxPools \in Nat \ {0} /\ MaxFaults \in Nat

VARIABLES
  created,     (* the contract has the pools 1 .. created (external)       *)
  over,        (* the pools whose endAt has passed (external)              *)
  docs,        (* the pools 1 .. docs have a document                      *)
  staked,      (* the users with a joinFuelPool document, by pool          *)
  winner,      (* the winner in the document of each pool                  *)
  currentPool, (* this service's copy of a pool document                   *)
  currentJoinedPool,    (* the users it last found to have staked          *)
  isFinishedSetWinner,  (* no draw is running                              *)
  pc,          (* what each task waits for; "idle" when it does not run    *)
  mem,         (* the answer, or the winner drawn, each task has in hand   *)
  overtaken,   (* pools that became current in the middle of a draw        *)
  mixed,       (* pools another's stakes were filed for, or drawn for
                  before their own stakes had been read                    *)
  unread,      (* pools that became current and whose stakes a query that
                  threw did not bring                                      *)
  stale,       (* pools whose copy may lack the winner their document has  *)
  faults

world == <<created, over>>
db == <<docs, staked, winner>>
service == <<currentPool, currentJoinedPool, isFinishedSetWinner>>
causes == <<overtaken, mixed, unread, stale>>
vars == <<world, db, service, pc, mem, causes, faults>>

Pools == 1 .. MaxPools
Tasks == {"init", "pool", "joined", "draw"}
NoPool == [id |-> 0, winner |-> None]
Copy == [id : 0 .. MaxPools, winner : Users \union {None}]
Blank == [pool |-> NoPool, users |-> {}, of |-> 0, ended |-> {}, winner |-> None]

Init ==
  /\ created \in {0, 1} /\ over = {}
  /\ docs \in 0 .. created
  /\ staked = [p \in Pools |-> {}] /\ winner = [p \in Pools |-> None]
  /\ currentPool = NoPool /\ currentJoinedPool = {} /\ isFinishedSetWinner = TRUE
  /\ pc = [t \in Tasks |-> IF t = "init" THEN "askPool" ELSE "idle"]
  /\ mem = [t \in Tasks |-> Blank]
  /\ overtaken = {} /\ mixed = {} /\ unread = {} /\ stale = {} /\ faults = 0

Goto(t, where) == pc' = [pc EXCEPT ![t] = where]
Forget(t) == mem' = [mem EXCEPT ![t] = Blank]
Return(t) == Goto(t, "idle") /\ Forget(t)
Fault(kind) == kind \in FaultKinds /\ faults < MaxFaults /\ faults' = faults + 1
-----------------------------------------------------------------------------
(* External: somebody creates the first pool, time passes, events are indexed. *)
FirstPool ==
  /\ created = 0 /\ created' = 1
  /\ UNCHANGED <<over, db, service, pc, mem, causes, faults>>
PoolEnds ==
  /\ created > 0 /\ over' = over \union {created} /\ over' # over
  /\ UNCHANGED <<created, db, service, pc, mem, causes, faults>>
IndexPool ==
  /\ docs < created /\ docs' = docs + 1
  /\ UNCHANGED <<world, staked, winner, service, pc, mem, causes, faults>>
IndexJoin(u, p) ==
  /\ p <= docs /\ u \notin staked[p]
  /\ staked' = [staked EXCEPT ![p] = @ \union {u}]
  /\ UNCHANGED <<world, docs, winner, service, pc, mem, causes, faults>>
-----------------------------------------------------------------------------
(* fuelPoolModel.findOne, newest first: sent by handleInit, by the cron job that
   follows the pool, and at the end of a draw.  The cron job throws until
   handleInit has found the document of the chain. *)
Latest == IF docs = 0 THEN NoPool ELSE [id |-> docs, winner |-> winner[docs]]
AskPool(t) ==
  /\ \/ pc[t] = "askPool"
     \/ t = "pool" /\ pc[t] = "idle" /\ pc["init"] # "askPool"
  /\ mem' = [mem EXCEPT ![t].pool = Latest]
  /\ Goto(t, "pool")
  /\ UNCHANGED <<world, db, service, causes, faults>>

(* The loop of a draw, which should see one pool all along. *)
Drawing == pc["draw"] \notin {"idle", "time"}

HandlUpdatePoolOnly(t) ==  \* mistaken: the stakes of the new pool are not read
  /\ currentPool' = mem[t].pool
  /\ mem' = [mem EXCEPT ![t].users = currentJoinedPool, ![t].of = mem[t].pool.id]
  /\ Goto(t, "stakes")
  /\ overtaken' = IF t # "draw" /\ Drawing THEN overtaken \union {mem[t].pool.id}
                  ELSE overtaken
  /\ stale' = IF mem[t].pool.winner = winner[mem[t].pool.id] THEN stale
              ELSE stale \union {mem[t].pool.id}

(* handlUpdatePool: the answer becomes the current pool, and its stakes are asked
   for. *)
HandlUpdatePool(t) ==
  /\ currentPool' = mem[t].pool
  /\ mem' = [mem EXCEPT ![t].users = staked[mem[t].pool.id], ![t].of = mem[t].pool.id]
  /\ Goto(t, "stakes")
  /\ overtaken' = IF t # "draw" /\ Drawing THEN overtaken \union {mem[t].pool.id}
                  ELSE overtaken
  /\ stale' = IF mem[t].pool.winner = winner[mem[t].pool.id] THEN stale
              ELSE stale \union {mem[t].pool.id}

(* The pool is there: the cron job takes it only if it is another one, and throws
   a TypeError while it has none to compare with. *)
PoolFound(t) ==
  /\ pc[t] = "pool" /\ mem[t].pool # NoPool
  /\ t = "pool" => currentPool # NoPool /\ currentPool.id # mem[t].pool.id
  /\ HandlUpdatePool(t)
  /\ UNCHANGED <<world, db, currentJoinedPool, isFinishedSetWinner, mixed, unread, faults>>
PoolIgnored(t) ==
  /\ pc[t] = "pool"
  /\ \/ mem[t].pool = NoPool
     \/ t = "pool" /\ (currentPool = NoPool \/ currentPool.id = mem[t].pool.id)
  /\ IF t = "pool" THEN currentPool' = currentPool ELSE currentPool' = NoPool
  /\ isFinishedSetWinner' = (isFinishedSetWinner \/ t = "draw")
  /\ Return(t)
  /\ UNCHANGED <<world, db, currentJoinedPool, causes, faults>>

(* getCurrentJoinedPool: the sum of the stakes of the current pool is asked for;
   if there are any, and not as many as were found last, they are read. *)
AskTotal ==
  /\ pc["joined"] = "idle" /\ currentPool # NoPool
  /\ mem' = [mem EXCEPT !["joined"].users = staked[currentPool.id]]
  /\ Goto("joined", "total")
  /\ UNCHANGED <<world, db, service, causes, faults>>
TotalFound ==
  LET total == Cardinality(mem["joined"].users) IN
  /\ pc["joined"] = "total"
  /\ IF total > 0 /\ total # Cardinality(currentJoinedPool)
     THEN /\ mem' = [mem EXCEPT !["joined"].users = staked[currentPool.id],
                                !["joined"].of = currentPool.id]
          /\ Goto("joined", "stakes")
     ELSE Return("joined")
  /\ UNCHANGED <<world, db, service, causes, faults>>

(* handleUpdateJoinedtPool: the answer replaces the stakes, whichever pool is
   current by now.  It is the end of each task. *)
StakesFound(t) ==
  /\ pc[t] = "stakes"
  /\ currentJoinedPool' = mem[t].users
  /\ mixed' = IF mem[t].of = currentPool.id THEN mixed ELSE mixed \union {currentPool.id}
  /\ isFinishedSetWinner' = (isFinishedSetWinner \/ t = "draw")
  /\ Return(t)
  /\ UNCHANGED <<world, db, currentPool, overtaken, unread, stale, faults>>

(* A query of a cron job or of handleInit throws, and the job ends there.  If the
   pool has been replaced, the stakes kept are still those of the last one, until
   the sum of the new pool's is another.  What throws in a cron job before that
   leaves everything as it was, as if the job had not fired. *)
QueryFails(t) ==
  /\ \/ pc[t] = "stakes" /\ t # "draw"
     \/ pc[t] \in {"askPool", "pool"} /\ t = "init"
  /\ Fault("query")
  /\ unread' = IF pc[t] = "stakes" /\ t # "joined" /\ mem[t].of = currentPool.id
               THEN unread \union {currentPool.id} ELSE unread
  /\ Return(t)
  /\ UNCHANGED <<world, db, service, overtaken, mixed, stale>>
-----------------------------------------------------------------------------
(* handleSetWinner: the flag is taken before the first await.  The time of the
   pending block comes from the RPC node. *)
DrawBeginUnlocked ==  \* mistaken: the flag is not looked at
  /\ pc["draw"] = "idle" /\ currentPool # NoPool
  /\ mem' = [mem EXCEPT !["draw"].ended = over] /\ Goto("draw", "time")
  /\ UNCHANGED <<world, db, service, causes, faults>>
DrawBegin ==
  /\ pc["draw"] = "idle" /\ isFinishedSetWinner /\ currentPool # NoPool
  /\ isFinishedSetWinner' = FALSE
  /\ mem' = [mem EXCEPT !["draw"].ended = over] /\ Goto("draw", "time")
  /\ UNCHANGED <<world, db, currentPool, currentJoinedPool, causes, faults>>

(* getBlockTime is outside of the try: if it throws, the flag is never given
   back. *)
TimeFails ==
  /\ pc["draw"] = "time" /\ Fault("time")
  /\ Return("draw")
  /\ UNCHANGED <<world, db, service, causes>>

Awaited(p) == \E t \in Tasks \ {"draw"} : pc[t] = "stakes" /\ mem[t].of = p
DrawTimeUnchecked ==  \* mistaken: draws whether the pool is over or not
  /\ pc["draw"] = "time"
  /\ Goto("draw", "loop") /\ Forget("draw")
  /\ mixed' = IF Awaited(currentPool.id) THEN mixed \union {currentPool.id} ELSE mixed
  /\ UNCHANGED <<world, db, service, overtaken, unread, stale, faults>>
DrawTimeKeeping ==  \* mistaken: returns without giving back the flag
  /\ pc["draw"] = "time" /\ Forget("draw")
  /\ IF currentPool.id \in mem["draw"].ended
     THEN /\ Goto("draw", "loop") /\ UNCHANGED isFinishedSetWinner
          /\ mixed' = IF Awaited(currentPool.id) THEN mixed \union {currentPool.id} ELSE mixed
     ELSE Goto("draw", "idle") /\ UNCHANGED <<isFinishedSetWinner, mixed>>
  /\ UNCHANGED <<world, db, currentPool, currentJoinedPool, overtaken, unread, stale, faults>>

(* The pool that is current now was over then: the loop starts. *)
DrawTime ==
  /\ pc["draw"] = "time" /\ Forget("draw")
  /\ IF currentPool.id \in mem["draw"].ended
     THEN /\ Goto("draw", "loop") /\ UNCHANGED isFinishedSetWinner
          /\ mixed' = IF Awaited(currentPool.id) THEN mixed \union {currentPool.id} ELSE mixed
     ELSE Goto("draw", "idle") /\ isFinishedSetWinner' = TRUE /\ UNCHANGED mixed
  /\ UNCHANGED <<world, db, currentPool, currentJoinedPool, overtaken, unread, stale, faults>>

(* The loop: a winner is drawn if the pool has none and stakes enough, and the
   card collection asked for; if not, the contract is asked for the next pool. *)
Drawable == Cardinality(currentJoinedPool) >= MinJoined /\ currentPool.winner = None
SetWinner(u) ==
  /\ pc["draw"] = "loop" /\ Drawable /\ u \in currentJoinedPool
  /\ mem' = [mem EXCEPT !["draw"].winner = u] /\ Goto("draw", "card")
  /\ UNCHANGED <<world, db, service, causes, faults>>
NoDraw ==
  /\ pc["draw"] = "loop" /\ ~ Drawable
  /\ Goto("draw", "execute")
  /\ UNCHANGED <<world, db, service, mem, causes, faults>>

(* The winner is stored for the pool that is current now. *)
StoreWinner ==
  /\ pc["draw"] = "card"
  /\ winner' = [winner EXCEPT ![currentPool.id] = mem["draw"].winner]
  /\ Goto("draw", "update")
  /\ UNCHANGED <<world, docs, staked, service, mem, causes, faults>>
WinnerStoredQuietly ==  \* mistaken: the copy does not get the winner
  /\ pc["draw"] = "update"
  /\ Goto("draw", "execute") /\ Forget("draw")
  /\ UNCHANGED <<world, db, service, causes, faults>>
WinnerStored ==
  /\ pc["draw"] = "update"
  /\ currentPool' = [currentPool EXCEPT !.winner = mem["draw"].winner]
  /\ Goto("draw", "execute") /\ Forget("draw")
  /\ UNCHANGED <<world, db, currentJoinedPool, isFinishedSetWinner, causes, faults>>

(* manuallyCreatePool: the contract creates a pool once the last one is over, and
   reverts with 'Previous Pool Not End Yet' before; the loop then tries again. *)
CreatePool ==
  /\ pc["draw"] = "execute" /\ created \in over
  /\ created < MaxPools /\ created' = created + 1
  /\ Goto("draw", "receipt")
  /\ UNCHANGED <<over, db, service, mem, causes, faults>>
NotEndYet ==
  /\ pc["draw"] = "execute" /\ created \notin over
  /\ Goto("draw", "loop") /\ Forget("draw")
  /\ UNCHANGED <<world, db, service, causes, faults>>

(* The transaction is accepted; three seconds later the newest pool is read. *)
PoolCreated ==
  /\ pc["draw"] = "receipt"
  /\ Goto("draw", "askPool") /\ Forget("draw")
  /\ UNCHANGED <<world, db, service, causes, faults>>

(* Anything in the try throws, and the loop starts again; with the next pool, if
   that has become current. *)
LoopThrows ==
  /\ pc["draw"] \in {"card", "update", "execute", "receipt", "askPool", "pool", "stakes"}
  /\ Fault("loop")
  /\ stale' = IF pc["draw"] = "update" THEN stale \union {currentPool.id} ELSE stale
  /\ overtaken' = IF pc["draw"] = "stakes" THEN overtaken \union {currentPool.id}
                  ELSE overtaken
  /\ Goto("draw", "loop") /\ Forget("draw")
  /\ UNCHANGED <<world, db, service, mixed, unread>>
-----------------------------------------------------------------------------
(* The API service dies and is started again. *)
Restart ==
  /\ Fault("restart")
  /\ currentPool' = NoPool /\ currentJoinedPool' = {} /\ isFinishedSetWinner' = TRUE
  /\ pc' = [t \in Tasks |-> IF t = "init" THEN "askPool" ELSE "idle"]
  /\ mem' = [t \in Tasks |-> Blank]
  /\ UNCHANGED <<world, db, causes>>

External == FirstPool \/ PoolEnds \/ \E u \in Users, p \in Pools : IndexJoin(u, p)
Follow(t) == AskPool(t) \/ PoolFound(t) \/ PoolIgnored(t) \/ StakesFound(t)
Total == AskTotal \/ TotalFound
DrawLoop == \/ NoDraw \/ StoreWinner \/ WinnerStored
            \/ CreatePool \/ NotEndYet \/ PoolCreated \/ \E u \in Users : SetWinner(u)
Draw == DrawBegin \/ DrawTime \/ DrawLoop
Next == \/ External \/ IndexPool \/ (\E t \in Tasks : Follow(t)) \/ Total
        \/ Draw \/ (\E t \in Tasks : QueryFails(t)) \/ TimeFails \/ LoopThrows \/ Restart
Spec == Init /\ [][Next]_vars

(* The cron jobs fire again and again, their queries are answered, and the
   indexer gets to every pool.  No pool need end, no user need stake. *)
FairSpec == /\ Spec /\ WF_vars(IndexPool) /\ WF_vars(Draw) /\ WF_vars(Total)
            /\ \A t \in Tasks : WF_vars(Follow(t))
-----------------------------------------------------------------------------
(* Types; whoever draws has the flag, and a winner is a user. *)
TypeOK ==
  /\ created \in 0 .. MaxPools /\ over \subseteq 1 .. created /\ docs \in 0 .. created
  /\ staked \in [Pools -> SUBSET Users] /\ winner \in [Pools -> Users \union {None}]
  /\ currentPool \in Copy /\ currentPool.id <= docs /\ currentJoinedPool \subseteq Users
  /\ pc["draw"] # "idle" => ~ isFinishedSetWinner
  /\ overtaken \union mixed \union unread \union stale \subseteq Pools

(* A winner is drawn of a pool that is over.  The end is looked at once, before
   the loop: a pool that becomes current while the loop runs, since the last pool
   was indexed late or its transaction not acknowledged, is drawn at once
   (fuel.service.ts:422-455). *)
DrawnWhenOver == \A p \in Pools : winner[p] # None => p \in over \union overtaken

(* A winner has a stake in the pool, unless the pool became current during the
   draw, answers about two pools crossed, or the query of the pool's own stakes
   threw (fuel.service.ts:180-220, 427-450). *)
WinnerStaked ==
  \A p \in Pools :
    winner[p] # None
      => winner[p] \in staked[p] \/ p \in overtaken \union mixed \union unread

(* A pool is drawn once: no winner is drawn to be stored over another, but for a
   pool that became current during the draw, an answer of the database that got
   lost or a copy from before the draw (fuel.service.ts:427-453). *)
DrawnOnce ==
  pc["draw"] = "card" /\ winner[currentPool.id] # None
    => currentPool.id \in overtaken \union stale

(* The flag was left taken by a throw, or the service was started before there
   was a pool, and never gets one (fuel.service.ts:124-129, 419-420). *)
Stuck == \/ pc["draw"] = "idle" /\ ~ isFinishedSetWinner /\ faults > 0
         \/ pc["init"] = "idle" /\ currentPool = NoPool

(* When a pool is over the next one is created, whatever the jobs do to each
   other's copies; a service that is stuck needs a restart. *)
NextPoolCreated ==
  \A p \in 1 .. MaxPools - 1 : p \in over ~> created > p \/ Stuck
=============================================================================
