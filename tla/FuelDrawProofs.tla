---------------------------- MODULE FuelDrawProofs ----------------------------
(***************************************************************************)
(* Theorems about FuelDraw, for any users, pools, stakes and faults: the   *)
(* flag is a lock, a pool is drawn when it is over, once, and of its own   *)
(* stakes, unless one of the causes that FuelDraw records is there.        *)
(***************************************************************************)
EXTENDS FuelDraw, TLAPS

Places == {"idle", "askPool", "pool", "total", "stakes", "time", "loop", "card", "update",
           "execute", "receipt"}
Memory == [pool : Copy, users : SUBSET Users, of : 0 .. MaxPools, ended : SUBSET Pools,
           winner : Users \union {None}]

(* What each task waits for, and what it has in hand. *)
TaskTypes ==
  /\ pc \in [Tasks -> Places] /\ pc["joined"] \notin {"askPool", "pool"}
  /\ mem \in [Tasks -> Memory]

(* A copy of a pool that is not NoPool is of a pool with a document. *)
Known(copy) == copy # NoPool => copy.id \in 1 .. docs
CopiesKnown == Known(currentPool) /\ \A t \in Tasks : Known(mem[t].pool)

(* handleInit makes the first copy, which the others need and never give up. *)
FirstCopy ==
  /\ pc["init"] \in {"askPool", "pool"} => currentPool = NoPool
  /\ \A t \in Tasks : pc[t] \in {"total", "stakes"} => currentPool # NoPool
  /\ pc["draw"] # "idle" => currentPool # NoPool
  /\ pc["draw"] = "pool" => mem["draw"].pool # NoPool

(* From the look at the time to the end of the loop. *)
InLoop == pc["draw"] \notin {"idle", "time", "stakes"}
LoopInv == /\ mem["draw"].ended \subseteq over
           /\ InLoop => currentPool.id \in over \union overtaken

IInv == TypeOK /\ TaskTypes /\ CopiesKnown /\ FirstCopy /\ LoopInv /\ DrawnWhenOver

(* The stakes a task has in hand are of the pool it asked for. *)
StakesInHand ==
  \A t \in Tasks : pc[t] = "stakes" =>
    mem[t].of \in Pools /\ mem[t].users \subseteq staked[mem[t].of]

(* The stakes kept are the current pool's, or on their way while no draw needs
   them; and so is the winner drawn of them. *)
Excused(p) == p \in overtaken \union mixed \union unread
Coming(p) == \E t \in Tasks \ {"joined"} : pc[t] = "stakes" /\ mem[t].of = p
RightStakes ==
  currentPool # NoPool => \/ currentJoinedPool \subseteq staked[currentPool.id]
                          \/ Excused(currentPool.id)
                          \/ ~ InLoop /\ Coming(currentPool.id)
RightWinner ==
  pc["draw"] \in {"card", "update"} =>
    /\ mem["draw"].winner \in Users
    /\ mem["draw"].winner \in staked[currentPool.id] \/ Excused(currentPool.id)

StakesInv == StakesInHand /\ RightStakes /\ RightWinner /\ WinnerStaked

(* A current copy without the winner of its document is that of a pool drawn just
   now, or there is a cause. *)
OnceInv ==
  currentPool # NoPool /\ currentPool.winner = None /\ winner[currentPool.id] # None
    => pc["draw"] = "update" \/ currentPool.id \in overtaken \union stale
CardInv == pc["draw"] = "card" => currentPool.winner = None \/ currentPool.id \in overtaken
-----------------------------------------------------------------------------
USE DEF vars, world, db, service, causes, Pools, Tasks, Copy, NoPool, Blank

(* What a change of one field leaves of a record of Memory. *)
LEMMA WithPool ==
  ASSUME NEW m \in Memory, NEW c \in Copy
  PROVE  /\ [m EXCEPT !.pool = c] \in Memory
         /\ [m EXCEPT !.pool = c].pool = c
         /\ [m EXCEPT !.pool = c].ended = m.ended
  BY SMTT(30) DEF Memory
LEMMA WithUsers ==
  ASSUME NEW m \in Memory, NEW U \in SUBSET Users
  PROVE  /\ [m EXCEPT !.users = U] \in Memory
         /\ [m EXCEPT !.users = U].pool = m.pool
         /\ [m EXCEPT !.users = U].ended = m.ended
         /\ [m EXCEPT !.users = U].users = U
  BY SMTT(30) DEF Memory
LEMMA WithOf ==
  ASSUME NEW m \in Memory, NEW p \in 0 .. MaxPools
  PROVE  /\ [m EXCEPT !.of = p] \in Memory
         /\ [m EXCEPT !.of = p].pool = m.pool
         /\ [m EXCEPT !.of = p].ended = m.ended
         /\ [m EXCEPT !.of = p].users = m.users
         /\ [m EXCEPT !.of = p].of = p
  BY SMTT(30) DEF Memory
LEMMA WithEnded ==
  ASSUME NEW m \in Memory, NEW E \in SUBSET Pools
  PROVE  /\ [m EXCEPT !.ended = E] \in Memory
         /\ [m EXCEPT !.ended = E].pool = m.pool
         /\ [m EXCEPT !.ended = E].ended = E
  BY SMTT(30) DEF Memory
LEMMA WithWinner ==
  ASSUME NEW m \in Memory, NEW u \in Users
  PROVE  /\ [m EXCEPT !.winner = u] \in Memory
         /\ [m EXCEPT !.winner = u].pool = m.pool
         /\ [m EXCEPT !.winner = u].ended = m.ended
  BY SMTT(30) DEF Memory

(* A task that asks for the stakes of a pool has both in hand. *)
LEMMA Asking ==
  ASSUME IInv, NEW t \in Tasks, NEW p \in Pools,
         mem' = [mem EXCEPT ![t].users = staked[p], ![t].of = p]
  PROVE  /\ mem' \in [Tasks -> Memory]
         /\ \A s \in Tasks : mem'[s].pool = mem[s].pool
         /\ mem'["draw"].ended = mem["draw"].ended
         /\ mem'[t].users = staked[p] /\ mem'[t].of = p
         /\ \A s \in Tasks \ {t} : mem'[s] = mem[s]
<1> DEFINE m == [mem[t] EXCEPT !.users = staked[p]]
           n == [m EXCEPT !.of = p]
<1>1. mem[t] \in Memory /\ mem \in [Tasks -> Memory] /\ staked[p] \in SUBSET Users
  BY DEF IInv, TypeOK, TaskTypes
<1>2. m \in Memory /\ m.pool = mem[t].pool /\ m.ended = mem[t].ended /\ m.users = staked[p]
  BY <1>1, WithUsers
<1>3. /\ n \in Memory /\ n.pool = mem[t].pool /\ n.ended = mem[t].ended
      /\ n.users = staked[p] /\ n.of = p
  BY <1>2, WithOf, p \in 0 .. MaxPools
<1>4. mem' = [mem EXCEPT ![t] = n]
  BY <1>1
<1> QED
  BY <1>1, <1>3, <1>4

(* The steps that change what a task has in hand keep IInv: first what becomes of
   mem, then each part of the invariant. *)
LEMMA AskPoolKeeps ==
  ASSUME NEW t \in Tasks, IInv, AskPool(t)
  PROVE  IInv'
<1> USE DEF AskPool
<1>1. Latest \in Copy /\ Known(Latest) /\ (docs > 0 => Latest # NoPool)
  BY DrawAssumption DEF IInv, TypeOK, Latest, Known
<1>2. /\ mem' \in [Tasks -> Memory]
      /\ \A s \in Tasks : mem'[s].pool = IF s = t THEN Latest ELSE mem[s].pool
      /\ mem'["draw"].ended = mem["draw"].ended
  BY <1>1, WithPool DEF IInv, TaskTypes
<1>3. TypeOK'
  BY <1>1, <1>2 DEF IInv, TypeOK, TaskTypes, Places, Goto
<1>4. TaskTypes'
  BY <1>1, <1>2 DEF IInv, TaskTypes, Places, Goto
<1>5. CopiesKnown'
  BY <1>1, <1>2 DEF IInv, TaskTypes, CopiesKnown, Known, Goto
<1>6. FirstCopy' /\ LoopInv' /\ DrawnWhenOver'
  BY <1>1, <1>2 DEF IInv, TypeOK, TaskTypes, Places, CopiesKnown, Known, FirstCopy,
     LoopInv, InLoop, DrawnWhenOver, Goto
<1> QED
  BY <1>3, <1>4, <1>5, <1>6 DEF IInv

LEMMA PoolFoundKeeps ==
  ASSUME NEW t \in Tasks, IInv, PoolFound(t)
  PROVE  IInv'
<1> USE DEF PoolFound
<1>1. /\ mem[t].pool \in Copy /\ mem[t].pool.id \in 1 .. docs /\ mem[t].pool.id \in Pools
      /\ currentPool' = mem[t].pool /\ staked[mem[t].pool.id] \in SUBSET Users
  BY DrawAssumption DEF IInv, TypeOK, TaskTypes, Memory, CopiesKnown, Known,
     HandlUpdatePool
<1>2. /\ mem' \in [Tasks -> Memory]
      /\ \A s \in Tasks : mem'[s].pool = mem[s].pool
      /\ mem'["draw"].ended = mem["draw"].ended
  BY <1>1, WithUsers, WithOf, DrawAssumption DEF IInv, TaskTypes, HandlUpdatePool
<1>3. TypeOK'
  BY <1>1, <1>2 DEF IInv, TypeOK, TaskTypes, Places, Goto, HandlUpdatePool, Drawing
<1>4. TaskTypes'
  BY <1>1, <1>2 DEF IInv, TaskTypes, Places, Goto, HandlUpdatePool, Drawing
<1>5. CopiesKnown'
  BY <1>1, <1>2 DEF IInv, TaskTypes, CopiesKnown, Known, Goto, HandlUpdatePool, Drawing
<1>6. FirstCopy' /\ LoopInv' /\ DrawnWhenOver'
  BY <1>1, <1>2 DEF IInv, TypeOK, TaskTypes, Places, CopiesKnown, Known, FirstCopy,
     LoopInv, InLoop, DrawnWhenOver, Goto, HandlUpdatePool, Drawing
<1> QED
  BY <1>3, <1>4, <1>5, <1>6 DEF IInv

LEMMA PoolIgnoredKeeps ==
  ASSUME NEW t \in Tasks, IInv, PoolIgnored(t)
  PROVE  IInv'
<1> USE DEF PoolIgnored
<1>2. /\ mem' \in [Tasks -> Memory]
      /\ \A s \in Tasks : mem'[s].pool = IF s = t THEN NoPool ELSE mem[s].pool
      /\ mem'["draw"].ended \subseteq mem["draw"].ended
  BY DrawAssumption DEF IInv, TaskTypes, Memory, Return, Forget
<1>a. t = "init" \/ t = "pool"
  BY DEF IInv, TaskTypes, FirstCopy
<1>b. currentPool' = currentPool
  BY <1>a DEF IInv, FirstCopy
<1>3. TypeOK'
  BY <1>2, <1>a, <1>b DEF IInv, TypeOK, TaskTypes, Places, Goto, Return
<1>4. TaskTypes'
  BY <1>2, <1>a, <1>b DEF IInv, TaskTypes, Places, Goto, Return
<1>5. CopiesKnown'
  BY <1>2, <1>a, <1>b DEF IInv, TaskTypes, CopiesKnown, Known, Goto, Return
<1>6. FirstCopy' /\ LoopInv' /\ DrawnWhenOver'
  BY <1>2, <1>a, <1>b DEF IInv, TypeOK, TaskTypes, Places, CopiesKnown, Known,
     FirstCopy, LoopInv, InLoop, DrawnWhenOver, Goto, Return
<1> QED
  BY <1>3, <1>4, <1>5, <1>6 DEF IInv

LEMMA StakesFoundKeeps ==
  ASSUME NEW t \in Tasks, IInv, StakesFound(t)
  PROVE  IInv'
<1> USE DEF StakesFound
<1>1. mem[t].users \subseteq Users /\ currentPool.id \in Pools
  BY DEF IInv, TypeOK, TaskTypes, Memory, FirstCopy, CopiesKnown, Known
<1>2. /\ mem' \in [Tasks -> Memory]
      /\ \A s \in Tasks : mem'[s].pool = IF s = t THEN NoPool ELSE mem[s].pool
      /\ mem'["draw"].ended \subseteq mem["draw"].ended
  BY DrawAssumption DEF IInv, TaskTypes, Memory, Return, Forget
<1>3. TypeOK'
  BY <1>1, <1>2 DEF IInv, TypeOK, TaskTypes, Places, Goto, Return
<1>4. TaskTypes'
  BY <1>1, <1>2 DEF IInv, TaskTypes, Places, Goto, Return
<1>5. CopiesKnown'
  BY <1>1, <1>2 DEF IInv, TaskTypes, CopiesKnown, Known, Goto, Return
<1>6. FirstCopy' /\ LoopInv' /\ DrawnWhenOver'
  BY <1>1, <1>2 DEF IInv, TypeOK, TaskTypes, Places, CopiesKnown, Known, FirstCopy,
     LoopInv, InLoop, DrawnWhenOver, Goto, Return
<1> QED
  BY <1>3, <1>4, <1>5, <1>6 DEF IInv

LEMMA QueryFailsKeeps ==
  ASSUME NEW t \in Tasks, IInv, QueryFails(t)
  PROVE  IInv'
<1> USE DEF QueryFails
<1>1. pc[t] = "stakes" => currentPool.id \in Pools
  BY DEF IInv, TypeOK, FirstCopy, CopiesKnown, Known
<1>2. /\ mem' \in [Tasks -> Memory]
      /\ \A s \in Tasks : mem'[s].pool = IF s = t THEN NoPool ELSE mem[s].pool
      /\ mem'["draw"].ended \subseteq mem["draw"].ended
  BY DrawAssumption DEF IInv, TaskTypes, Memory, Return, Forget
<1>3. TypeOK'
  BY <1>1, <1>2 DEF IInv, TypeOK, TaskTypes, Places, Goto, Return, Fault
<1>4. TaskTypes'
  BY <1>2 DEF IInv, TaskTypes, Places, Goto, Return
<1>5. CopiesKnown'
  BY <1>2 DEF IInv, TaskTypes, CopiesKnown, Known, Goto, Return
<1>6. FirstCopy' /\ LoopInv' /\ DrawnWhenOver'
  BY <1>2 DEF IInv, TypeOK, TaskTypes, Places, CopiesKnown, Known, FirstCopy,
     LoopInv, InLoop, DrawnWhenOver, Goto, Return
<1> QED
  BY <1>3, <1>4, <1>5, <1>6 DEF IInv

LEMMA AskTotalKeeps ==
  ASSUME IInv, AskTotal
  PROVE  IInv'
<1> USE DEF AskTotal
<1>1. staked[currentPool.id] \in SUBSET Users
  BY DrawAssumption DEF IInv, TypeOK, CopiesKnown, Known
<1>2. /\ mem' \in [Tasks -> Memory]
      /\ \A s \in Tasks : mem'[s].pool = mem[s].pool
      /\ mem'["draw"].ended = mem["draw"].ended
  BY <1>1, WithUsers DEF IInv, TaskTypes
<1>3. TypeOK'
  BY <1>2 DEF IInv, TypeOK, TaskTypes, Places, Goto
<1>4. TaskTypes'
  BY <1>2 DEF IInv, TaskTypes, Places, Goto
<1>5. CopiesKnown'
  BY <1>2 DEF IInv, TaskTypes, CopiesKnown, Known, Goto
<1>6. FirstCopy' /\ LoopInv' /\ DrawnWhenOver'
  BY <1>2 DEF IInv, TypeOK, TaskTypes, Places, CopiesKnown, Known, FirstCopy,
     LoopInv, InLoop, DrawnWhenOver, Goto
<1> QED
  BY <1>3, <1>4, <1>5, <1>6 DEF IInv

LEMMA TotalFoundKeeps ==
  ASSUME IInv, TotalFound
  PROVE  IInv'
<1> USE DEF TotalFound
<1>1. staked[currentPool.id] \in SUBSET Users /\ currentPool.id \in 0 .. MaxPools
  BY DrawAssumption DEF IInv, TypeOK, CopiesKnown, Known, FirstCopy
<1>2. /\ mem' \in [Tasks -> Memory]
      /\ \A s \in Tasks : s # "joined" => mem'[s].pool = mem[s].pool
      /\ mem'["joined"].pool \in {mem["joined"].pool, NoPool}
      /\ mem'["draw"].ended = mem["draw"].ended
  <2>1. CASE pc'["joined"] = "stakes"
    <3>1. mem' = [mem EXCEPT !["joined"].users = staked[currentPool.id],
                             !["joined"].of = currentPool.id]
      BY <2>1 DEF IInv, TaskTypes, Return, Goto
    <3> DEFINE m == [mem["joined"] EXCEPT !.users = staked[currentPool.id]]
               n == [m EXCEPT !.of = currentPool.id]
    <3>2. mem["joined"] \in Memory /\ mem \in [Tasks -> Memory]
      BY DEF IInv, TaskTypes
    <3>3. m \in Memory /\ m.pool = mem["joined"].pool
      BY <1>1, <3>2, WithUsers
    <3>4. n \in Memory /\ n.pool = mem["joined"].pool
      BY <1>1, <3>3, WithOf
    <3>5. mem' = [mem EXCEPT !["joined"] = n]
      BY <3>1, <3>2
    <3> QED
      BY <3>2, <3>4, <3>5
  <2>2. CASE pc'["joined"] # "stakes"
    <3>1. Return("joined")
      BY <2>2 DEF IInv, TaskTypes, Goto
    <3> QED
      BY <3>1, DrawAssumption DEF IInv, TaskTypes, Memory, Return, Forget
  <2> QED
    BY <2>1, <2>2
<1>3. TypeOK'
  BY <1>2 DEF IInv, TypeOK, TaskTypes, Places, Goto, Return
<1>4. TaskTypes'
  BY <1>2 DEF IInv, TaskTypes, Places, Goto, Return
<1>5. CopiesKnown'
  BY <1>2 DEF IInv, TaskTypes, CopiesKnown, Known, Goto, Return
<1>6. FirstCopy' /\ LoopInv' /\ DrawnWhenOver'
  BY <1>2 DEF IInv, TypeOK, TaskTypes, Places, CopiesKnown, Known, FirstCopy,
     LoopInv, InLoop, DrawnWhenOver, Goto, Return
<1> QED
  BY <1>3, <1>4, <1>5, <1>6 DEF IInv

LEMMA DrawBeginKeeps ==
  ASSUME IInv, DrawBegin
  PROVE  IInv'
<1> USE DEF DrawBegin
<1>1. over \in SUBSET Pools
  BY DrawAssumption DEF IInv, TypeOK
<1>2. /\ mem' \in [Tasks -> Memory]
      /\ \A s \in Tasks : mem'[s].pool = mem[s].pool
      /\ mem'["draw"].ended = over
  BY <1>1, WithEnded DEF IInv, TaskTypes
<1>3. TypeOK'
  BY <1>2 DEF IInv, TypeOK, TaskTypes, Places, Goto
<1>4. TaskTypes'
  BY <1>2 DEF IInv, TaskTypes, Places, Goto
<1>5. CopiesKnown'
  BY <1>2 DEF IInv, TaskTypes, CopiesKnown, Known, Goto
<1>6. FirstCopy' /\ LoopInv' /\ DrawnWhenOver'
  BY <1>2 DEF IInv, TypeOK, TaskTypes, Places, CopiesKnown, Known, FirstCopy,
     LoopInv, InLoop, DrawnWhenOver, Goto
<1> QED
  BY <1>3, <1>4, <1>5, <1>6 DEF IInv

LEMMA SetWinnerKeeps ==
  ASSUME NEW u \in Users, IInv, SetWinner(u)
  PROVE  IInv'
<1> USE DEF SetWinner
<1>2. /\ mem' \in [Tasks -> Memory]
      /\ \A s \in Tasks : mem'[s].pool = mem[s].pool
      /\ mem'["draw"].ended = mem["draw"].ended
  BY WithWinner DEF IInv, TaskTypes
<1>3. TypeOK'
  BY <1>2 DEF IInv, TypeOK, TaskTypes, Places, Goto
<1>4. TaskTypes'
  BY <1>2 DEF IInv, TaskTypes, Places, Goto
<1>5. CopiesKnown'
  BY <1>2 DEF IInv, TaskTypes, CopiesKnown, Known, Goto
<1>6. FirstCopy' /\ LoopInv' /\ DrawnWhenOver'
  BY <1>2 DEF IInv, TypeOK, TaskTypes, Places, CopiesKnown, Known, FirstCopy,
     LoopInv, InLoop, DrawnWhenOver, Goto
<1> QED
  BY <1>3, <1>4, <1>5, <1>6 DEF IInv

(* The initial states, and every step, keep IInv. *)
LEMMA InitInv == Init => IInv
<1> SUFFICES ASSUME Init PROVE IInv
  OBVIOUS
<1> USE DrawAssumption DEF Init
<1>1. TypeOK
  BY DEF TypeOK
<1>2. TaskTypes
  BY DEF TaskTypes, Places, Memory
<1>3. CopiesKnown /\ FirstCopy /\ LoopInv /\ DrawnWhenOver
  BY DEF CopiesKnown, Known, FirstCopy, LoopInv, InLoop, DrawnWhenOver
<1> QED
  BY <1>1, <1>2, <1>3 DEF IInv

LEMMA StepInv ==
  ASSUME IInv, [Next]_vars
  PROVE  IInv'
<1>1. CASE FirstPool
  <2> USE DEF FirstPool, IInv
  <2>1. TypeOK'
    BY <1>1, DrawAssumption DEF TypeOK, TaskTypes, Places
  <2>2. TaskTypes'
    BY <1>1 DEF TaskTypes, Places
  <2>3. CopiesKnown' /\ FirstCopy' /\ LoopInv' /\ DrawnWhenOver'
    BY <1>1, DrawAssumption DEF TypeOK, TaskTypes, Places, CopiesKnown, Known,
       FirstCopy, LoopInv, InLoop, DrawnWhenOver
  <2> QED
    BY <2>1, <2>2, <2>3
<1>2. CASE PoolEnds
  <2> USE DEF PoolEnds, IInv
  <2>1. TypeOK'
    BY <1>2, DrawAssumption DEF TypeOK, TaskTypes, Places
  <2>2. TaskTypes'
    BY <1>2 DEF TaskTypes, Places
  <2>3. CopiesKnown' /\ FirstCopy' /\ LoopInv' /\ DrawnWhenOver'
    BY <1>2, DrawAssumption DEF TypeOK, TaskTypes, Places, CopiesKnown, Known,
       FirstCopy, LoopInv, InLoop, DrawnWhenOver
  <2> QED
    BY <2>1, <2>2, <2>3
<1>3. CASE IndexPool
  <2> USE DEF IndexPool, IInv
  <2>1. TypeOK'
    BY <1>3, DrawAssumption DEF TypeOK, TaskTypes, Places
  <2>2. TaskTypes'
    BY <1>3 DEF TaskTypes, Places
  <2>3. CopiesKnown' /\ FirstCopy' /\ LoopInv' /\ DrawnWhenOver'
    BY <1>3, DrawAssumption DEF TypeOK, TaskTypes, Places, CopiesKnown, Known,
       FirstCopy, LoopInv, InLoop, DrawnWhenOver
  <2> QED
    BY <2>1, <2>2, <2>3
<1>4. ASSUME NEW t \in Tasks, AskPool(t)
      PROVE  IInv'
  BY <1>4, AskPoolKeeps
<1>5. ASSUME NEW t \in Tasks, PoolFound(t)
      PROVE  IInv'
  BY <1>5, PoolFoundKeeps
<1>6. ASSUME NEW t \in Tasks, PoolIgnored(t)
      PROVE  IInv'
  BY <1>6, PoolIgnoredKeeps
<1>7. ASSUME NEW t \in Tasks, StakesFound(t)
      PROVE  IInv'
  BY <1>7, StakesFoundKeeps
<1>8. CASE AskTotal
  BY <1>8, AskTotalKeeps
<1>9. CASE TotalFound
  BY <1>9, TotalFoundKeeps
<1>10. CASE DrawBegin
  BY <1>10, DrawBeginKeeps
<1>11. CASE DrawTime
  <2> USE DEF DrawTime, Goto, Forget, Awaited, IInv
  <2>1. TypeOK'
    BY <1>11, DrawAssumption DEF TypeOK, TaskTypes, Places, FirstCopy, CopiesKnown, Known
  <2>2. TaskTypes'
    BY <1>11, DrawAssumption DEF TaskTypes, Places, Memory
  <2>3. CopiesKnown' /\ FirstCopy' /\ LoopInv' /\ DrawnWhenOver'
    BY <1>11, DrawAssumption DEF TypeOK, TaskTypes, Places, CopiesKnown, Known,
       FirstCopy, LoopInv, InLoop, DrawnWhenOver
  <2> QED
    BY <2>1, <2>2, <2>3
<1>12. CASE CreatePool
  <2> USE DEF CreatePool, Goto, IInv
  <2>1. TypeOK'
    BY <1>12, DrawAssumption DEF TypeOK, TaskTypes, Places
  <2>2. TaskTypes'
    BY <1>12 DEF TaskTypes, Places
  <2>3. CopiesKnown' /\ FirstCopy' /\ LoopInv' /\ DrawnWhenOver'
    BY <1>12, DrawAssumption DEF TypeOK, TaskTypes, Places, CopiesKnown, Known,
       FirstCopy, LoopInv, InLoop, DrawnWhenOver
  <2> QED
    BY <2>1, <2>2, <2>3
<1>13. ASSUME NEW u \in Users, SetWinner(u)
       PROVE  IInv'
  BY <1>13, SetWinnerKeeps
<1> USE DrawAssumption DEF IInv, TypeOK, TaskTypes, CopiesKnown, Known, FirstCopy,
    LoopInv, InLoop, DrawnWhenOver, Memory, Places
<1>14. ASSUME NEW u \in Users, NEW p \in Pools, IndexJoin(u, p)
       PROVE  IInv'
  BY <1>14 DEF IndexJoin
<1>15. CASE NoDraw
  BY <1>15 DEF NoDraw, Goto, Drawable
<1>16. CASE StoreWinner
  BY <1>16 DEF StoreWinner, Goto
<1>17. CASE WinnerStored
  BY <1>17 DEF WinnerStored, Goto, Forget
<1>18. CASE NotEndYet
  BY <1>18 DEF NotEndYet, Goto, Forget
<1>19. CASE PoolCreated
  BY <1>19 DEF PoolCreated, Goto, Forget
<1>20. CASE TimeFails
  BY <1>20 DEF TimeFails, Return, Goto, Forget, Fault
<1>21. CASE LoopThrows
  <2>1. pc' = [pc EXCEPT !["draw"] = "loop"] /\ mem' = [mem EXCEPT !["draw"] = Blank]
    BY <1>21 DEF LoopThrows, Goto, Forget
  <2>2. currentPool.id \in Pools /\ (pc["draw"] # "stakes" => InLoop)
    BY <1>21 DEF LoopThrows
  <2>3. TypeOK'
    BY <1>21, <2>1, <2>2 DEF LoopThrows, Fault
  <2>4. TaskTypes' /\ CopiesKnown'
    BY <1>21, <2>1 DEF LoopThrows
  <2>5. FirstCopy' /\ LoopInv' /\ DrawnWhenOver'
    BY <1>21, <2>1, <2>2 DEF LoopThrows
  <2> QED
    BY <2>3, <2>4, <2>5
<1>22. CASE Restart
  BY <1>22 DEF Restart, Fault
<1>23. ASSUME NEW t \in Tasks, QueryFails(t)
       PROVE  IInv'
  BY <1>23, QueryFailsKeeps
<1>24. CASE UNCHANGED vars
  BY <1>24
<1> QED
  BY <1>1, <1>2, <1>3, <1>4, <1>5, <1>6, <1>7, <1>8, <1>9, <1>10, <1>11, <1>12,
     <1>13, <1>14, <1>15, <1>16, <1>17, <1>18, <1>19, <1>20, <1>21, <1>22, <1>23,
     <1>24
     DEF Next, External, Follow, Total, Draw, DrawLoop

(* So do they StakesInv, once IInv is known to hold before and after. *)
LEMMA StakesInit == Init => StakesInv
  BY DrawAssumption DEF Init, StakesInv, StakesInHand, RightStakes, RightWinner,
     WinnerStaked, Excused, Coming, InLoop

LEMMA StakesStep ==
  ASSUME IInv, IInv', StakesInv, [Next]_vars
  PROVE  StakesInv'
<1>1. ASSUME NEW t \in Tasks, PoolFound(t)
      PROVE  StakesInv'
  <2>1. /\ pc[t] = "pool" /\ Goto(t, "stakes") /\ currentPool' = mem[t].pool
        /\ mem[t].pool.id \in Pools
        /\ UNCHANGED <<staked, winner, currentJoinedPool, mixed, unread>>
        /\ overtaken' = IF t # "draw" /\ Drawing THEN overtaken \union {mem[t].pool.id}
                        ELSE overtaken
    <3>1. mem[t].pool.id \in Pools
      BY <1>1, DrawAssumption DEF PoolFound, IInv, TypeOK, CopiesKnown, Known
    <3> QED
      BY <1>1, <3>1 DEF PoolFound, HandlUpdatePool
  <2>2. /\ mem'[t].users = staked[mem[t].pool.id] /\ mem'[t].of = mem[t].pool.id
        /\ \A s \in Tasks \ {t} : mem'[s] = mem[s]
    <3>1. mem' = [mem EXCEPT ![t].users = staked[mem[t].pool.id], ![t].of = mem[t].pool.id]
      BY <1>1 DEF PoolFound, HandlUpdatePool
    <3> DEFINE p == mem[t].pool.id
    <3>2. p \in Pools /\ mem' = [mem EXCEPT ![t].users = staked[p], ![t].of = p]
      BY <2>1, <3>1
    <3> HIDE DEF p
    <3>3. /\ mem'[t].users = staked[p] /\ mem'[t].of = p
          /\ \A s \in Tasks \ {t} : mem'[s] = mem[s]
      BY <3>2, Asking, Zenon
    <3> QED
      BY <3>3 DEF p
  <2>3. pc' = [pc EXCEPT ![t] = "stakes"] /\ pc \in [Tasks -> Places]
    BY <2>1 DEF Goto, IInv, TaskTypes
  <2>4. StakesInHand' /\ WinnerStaked'
    BY <2>1, <2>2, <2>3 DEF StakesInv, StakesInHand, WinnerStaked
  <2>5. RightStakes'
    <3>1. CASE t = "joined"
      BY <2>1, <3>1 DEF IInv, TaskTypes
    <3>2. CASE t # "joined" /\ InLoop'
      <4>1. t # "draw" /\ Drawing
        BY <2>3, <3>2 DEF InLoop, Drawing
      <4> QED
        BY <2>1, <4>1 DEF RightStakes, Excused
    <3>3. CASE t # "joined" /\ ~ InLoop'
      BY <2>1, <2>2, <2>3, <3>3 DEF RightStakes, Coming
    <3> QED
      BY <3>1, <3>2, <3>3
  <2>6. RightWinner'
    BY <2>1, <2>2, <2>3 DEF StakesInv, RightWinner, Excused, Drawing
  <2> QED
    BY <2>4, <2>5, <2>6 DEF StakesInv
<1>2. CASE TotalFound
  <2>1. CASE pc'["joined"] = "stakes"
    <3>1. /\ mem' = [mem EXCEPT !["joined"].users = staked[currentPool.id],
                                !["joined"].of = currentPool.id]
          /\ pc' = [pc EXCEPT !["joined"] = "stakes"] /\ pc \in [Tasks -> Places]
          /\ UNCHANGED <<db, service, causes>>
      BY <1>2, <2>1 DEF TotalFound, IInv, TaskTypes, Return, Goto
    <3>2. currentPool.id \in Pools
      BY <1>2, DrawAssumption DEF TotalFound, IInv, TypeOK, TaskTypes, FirstCopy,
         CopiesKnown, Known
    <3>3. /\ mem'["joined"].users = staked[currentPool.id] /\ mem'["joined"].of = currentPool.id
          /\ \A s \in Tasks \ {"joined"} : mem'[s] = mem[s]
      BY <3>1, <3>2, Asking
    <3> QED
      BY <3>1, <3>2, <3>3 DEF StakesInv, StakesInHand, RightStakes, RightWinner,
         WinnerStaked,
         Excused, Coming, InLoop
  <2>2. CASE pc'["joined"] # "stakes"
    <3>1. Return("joined") /\ pc["joined"] = "total" /\ UNCHANGED <<db, service, causes>>
      BY <1>2, <2>2 DEF TotalFound, IInv, TaskTypes, Goto
    <3> QED
      BY <3>1 DEF Return, Goto, Forget, IInv, TaskTypes, StakesInv, StakesInHand,
         RightStakes,
         RightWinner, WinnerStaked, Excused, Coming, InLoop
  <2> QED
    BY <2>1, <2>2
<1> USE DrawAssumption DEF IInv, TypeOK, TaskTypes, Places, CopiesKnown, Known,
    FirstCopy, StakesInv, StakesInHand, RightStakes, RightWinner, WinnerStaked,
    Excused, Coming, InLoop
<1>3. CASE FirstPool
  BY <1>3 DEF FirstPool
<1>4. CASE PoolEnds
  BY <1>4 DEF PoolEnds
<1>5. ASSUME NEW u \in Users, NEW p \in Pools, IndexJoin(u, p)
      PROVE  StakesInv'
  BY <1>5 DEF IndexJoin
<1>6. CASE IndexPool
  BY <1>6 DEF IndexPool
<1>7. ASSUME NEW t \in Tasks, AskPool(t)
      PROVE  StakesInv'
  BY <1>7 DEF AskPool, Latest, Goto
<1>8. ASSUME NEW t \in Tasks, PoolIgnored(t)
      PROVE  StakesInv'
  BY <1>8 DEF PoolIgnored, Return, Goto, Forget
<1>9. ASSUME NEW t \in Tasks, StakesFound(t)
      PROVE  StakesInv'
  BY <1>9 DEF StakesFound, Return, Goto, Forget
<1>10. CASE AskTotal
  BY <1>10 DEF AskTotal, Goto
<1>11. CASE DrawBegin
  BY <1>11 DEF DrawBegin, Goto
<1>12. CASE DrawTime
  BY <1>12 DEF DrawTime, Goto, Forget, Awaited
<1>13. CASE NoDraw
  BY <1>13 DEF NoDraw, Goto, Drawable
<1>14. CASE StoreWinner
  BY <1>14 DEF StoreWinner, Goto
<1>15. CASE WinnerStored
  BY <1>15 DEF WinnerStored, Goto, Forget
<1>16. CASE CreatePool
  BY <1>16 DEF CreatePool, Goto
<1>17. CASE NotEndYet
  BY <1>17 DEF NotEndYet, Goto, Forget
<1>18. CASE PoolCreated
  BY <1>18 DEF PoolCreated, Goto, Forget
<1>19. ASSUME NEW u \in Users, SetWinner(u)
       PROVE  StakesInv'
  BY <1>19 DEF SetWinner, Goto, Drawable
<1>20. CASE TimeFails
  BY <1>20 DEF TimeFails, Return, Goto, Forget, Fault
<1>21. CASE LoopThrows
  BY <1>21 DEF LoopThrows, Goto, Forget, Fault
<1>22. CASE Restart
  BY <1>22 DEF Restart, Fault
<1>23. ASSUME NEW t \in Tasks, QueryFails(t)
       PROVE  StakesInv'
  BY <1>23 DEF QueryFails, Return, Goto, Forget, Fault
<1>24. CASE UNCHANGED vars
  BY <1>24
<1> QED
  BY <1>1, <1>2, <1>3, <1>4, <1>5, <1>6, <1>7, <1>8, <1>9, <1>10, <1>11, <1>12,
     <1>13, <1>14, <1>15, <1>16, <1>17, <1>18, <1>19, <1>20, <1>21, <1>22, <1>23,
     <1>24
     DEF Next, External, Follow, Total, Draw, DrawLoop

(* And OnceInv and CardInv. *)
LEMMA OnceInit == Init => OnceInv /\ CardInv
  BY DEF Init, OnceInv, CardInv

LEMMA OnceStep ==
  ASSUME IInv, IInv', StakesInv, OnceInv, CardInv, [Next]_vars
  PROVE  OnceInv' /\ CardInv'
<1> USE DrawAssumption DEF IInv, TypeOK, TaskTypes, Places, CopiesKnown, Known,
    FirstCopy, StakesInv, RightWinner, OnceInv, CardInv
<1>1. CASE FirstPool
  BY <1>1 DEF FirstPool
<1>2. CASE PoolEnds
  BY <1>2 DEF PoolEnds
<1>3. ASSUME NEW u \in Users, NEW p \in Pools, IndexJoin(u, p)
      PROVE  OnceInv' /\ CardInv'
  BY <1>3 DEF IndexJoin
<1>4. CASE IndexPool
  BY <1>4 DEF IndexPool
<1>5. ASSUME NEW t \in Tasks, AskPool(t)
      PROVE  OnceInv' /\ CardInv'
  BY <1>5 DEF AskPool, Latest, Goto
<1>6. ASSUME NEW t \in Tasks, PoolFound(t)
      PROVE  OnceInv' /\ CardInv'
  BY <1>6 DEF PoolFound, HandlUpdatePool, Goto, Drawing
<1>7. ASSUME NEW t \in Tasks, PoolIgnored(t)
      PROVE  OnceInv' /\ CardInv'
  BY <1>7 DEF PoolIgnored, Return, Goto, Forget
<1>8. ASSUME NEW t \in Tasks, StakesFound(t)
      PROVE  OnceInv' /\ CardInv'
  BY <1>8 DEF StakesFound, Return, Goto, Forget
<1>9. CASE AskTotal
  BY <1>9 DEF AskTotal, Goto
<1>10. CASE TotalFound
  BY <1>10 DEF TotalFound, Return, Goto, Forget
<1>11. CASE DrawBegin
  BY <1>11 DEF DrawBegin, Goto
<1>12. CASE DrawTime
  BY <1>12 DEF DrawTime, Goto, Forget, Awaited
<1>13. CASE NoDraw
  BY <1>13 DEF NoDraw, Goto, Drawable
<1>14. CASE StoreWinner
  BY <1>14 DEF StoreWinner, Goto
<1>15. CASE WinnerStored
  BY <1>15 DEF WinnerStored, Goto, Forget
<1>16. CASE CreatePool
  BY <1>16 DEF CreatePool, Goto
<1>17. CASE NotEndYet
  BY <1>17 DEF NotEndYet, Goto, Forget
<1>18. CASE PoolCreated
  BY <1>18 DEF PoolCreated, Goto, Forget
<1>19. ASSUME NEW u \in Users, SetWinner(u)
       PROVE  OnceInv' /\ CardInv'
  BY <1>19 DEF SetWinner, Goto, Drawable
<1>20. CASE TimeFails
  BY <1>20 DEF TimeFails, Return, Goto, Forget, Fault
<1>21. CASE LoopThrows
  BY <1>21 DEF LoopThrows, Goto, Forget, Fault
<1>22. CASE Restart
  BY <1>22 DEF Restart, Fault
<1>23. ASSUME NEW t \in Tasks, QueryFails(t)
       PROVE  OnceInv' /\ CardInv'
  BY <1>23 DEF QueryFails, Return, Goto, Forget, Fault
<1>24. CASE UNCHANGED vars
  BY <1>24
<1> QED
  BY <1>1, <1>2, <1>3, <1>4, <1>5, <1>6, <1>7, <1>8, <1>9, <1>10, <1>11, <1>12,
     <1>13, <1>14, <1>15, <1>16, <1>17, <1>18, <1>19, <1>20, <1>21, <1>22, <1>23,
     <1>24
     DEF Next, External, Follow, Total, Draw, DrawLoop
-----------------------------------------------------------------------------
(* All of it. *)
Inv == IInv /\ StakesInv /\ OnceInv /\ CardInv

LEMMA Invariant == Spec => []Inv
<1>1. Init => Inv
  BY InitInv, StakesInit, OnceInit DEF Inv
<1>2. Inv /\ [Next]_vars => Inv'
  <2> SUFFICES ASSUME Inv, [Next]_vars PROVE Inv'
    OBVIOUS
  <2>1. IInv'
    BY StepInv DEF Inv
  <2>2. StakesInv'
    BY <2>1, StakesStep DEF Inv
  <2>3. OnceInv' /\ CardInv'
    BY <2>1, OnceStep DEF Inv
  <2> QED
    BY <2>1, <2>2, <2>3 DEF Inv
<1> QED
  BY <1>1, <1>2, PTL DEF Spec

(* TypeOK always holds: with the types, whoever draws has the flag
   isFinishedSetWinner, so that no second draw starts (fuel.service.ts:416-419). *)
THEOREM TypeCorrect == Spec => []TypeOK
<1>1. Inv => TypeOK
  BY DEF Inv, IInv
<1> QED
  BY <1>1, Invariant, PTL

(* DrawnWhenOver always holds: a winner is drawn of a pool that is over, or that
   became current while a draw was running (fuel.service.ts:422-450). *)
THEOREM OverCorrect == Spec => []DrawnWhenOver
<1>1. Inv => DrawnWhenOver
  BY DEF Inv, IInv
<1> QED
  BY <1>1, Invariant, PTL

(* WinnerStaked always holds: a winner has a stake in the pool, unless the pool
   became current during a draw, answers crossed, or the query of its own stakes
   threw after it had become current (fuel.service.ts:180-220). *)
THEOREM StakedCorrect == Spec => []WinnerStaked
<1>1. Inv => WinnerStaked
  BY DEF Inv, StakesInv
<1> QED
  BY <1>1, Invariant, PTL

(* DrawnOnce always holds: a pool that has a winner is drawn again only after a
   lost answer, from an old copy, or in the middle of another draw
   (fuel.service.ts:427-453). *)
THEOREM OnceCorrect == Spec => []DrawnOnce
<1>1. Inv => DrawnOnce
  BY DEF Inv, IInv, FirstCopy, OnceInv, CardInv, DrawnOnce
<1> QED
  BY <1>1, Invariant, PTL
===============================================================================
