----------------------- MODULE QueueBackpressureProofs -----------------------
(***************************************************************************)
(* Proofs about QueueBackpressure, for every number of events, callers,    *)
(* jobs and failures: its types, the bound on the queue, and that between  *)
(* add() and the processor no event is lost but for an add that failed.    *)
(***************************************************************************)
EXTENDS QueueBackpressure, FiniteSetTheorems, TLAPS

(* The strengthening: counting needs finite sets; the transactions in add() are at
   most Callers; a job whose event is being added again has not been recorded
   complete, unless its event is one of `outrun`; each death left at most
   `concurrency` jobs behind. *)
Finite == /\ IsFiniteSet(looking) /\ IsFiniteSet(adding)
          /\ IsFiniteSet(waiting) /\ IsFiniteSet(working) /\ IsFiniteSet(returning)
          /\ IsFiniteSet(readding) /\ IsFiniteSet(stalled)
CallersKept == Cardinality(looking) + Cardinality(adding) <= Callers
ReaddingReturns == \A j \in readding : j.ev \notin outrun => j \in returning
StalledFew == Cardinality(stalled) <= concurrency * deaths
SizeInv == /\ TypeOK /\ Finite /\ CallersKept
           /\ ReaddingReturns /\ StalledFew /\ QueueBounded

(* Moving one element into a finite set makes it at most one larger. *)
LEMMA Enter ==
  ASSUME NEW S, NEW x, IsFiniteSet(S)
  PROVE  /\ IsFiniteSet(S \union {x})
         /\ Cardinality(S) \in Nat /\ Cardinality(S \union {x}) \in Nat
         /\ Cardinality(S \union {x}) <= Cardinality(S) + 1
<1>1. /\ IsFiniteSet(S \union {x})
      /\ Cardinality(S \union {x}) = IF x \in S THEN Cardinality(S) ELSE Cardinality(S) + 1
  BY FS_AddElement
<1>2. Cardinality(S) \in Nat
  BY FS_CardinalityType
<1> QED
  BY <1>1, <1>2

(* Taking an element out of a finite set makes it exactly one smaller. *)
LEMMA Leave ==
  ASSUME NEW S, NEW x \in S, IsFiniteSet(S)
  PROVE  /\ IsFiniteSet(S \ {x})
         /\ Cardinality(S) \in Nat /\ Cardinality(S \ {x}) \in Nat
         /\ Cardinality(S \ {x}) = Cardinality(S) - 1
<1>1. /\ IsFiniteSet(S \ {x})
      /\ Cardinality(S \ {x}) = IF x \in S THEN Cardinality(S) - 1 ELSE Cardinality(S)
  BY FS_RemoveElement
<1>2. Cardinality(S) \in Nat /\ Cardinality(S \ {x}) \in Nat
  BY <1>1, FS_CardinalityType
<1> QED
  BY <1>1, <1>2

(* Two finite sets together are at most as large as both. *)
LEMMA Together ==
  ASSUME NEW S, NEW T, IsFiniteSet(S), IsFiniteSet(T)
  PROVE  /\ IsFiniteSet(S \union T)
         /\ Cardinality(S) \in Nat /\ Cardinality(T) \in Nat
         /\ Cardinality(S \union T) \in Nat
         /\ Cardinality(S \union T) <= Cardinality(S) + Cardinality(T)
<1>1. /\ IsFiniteSet(S \union T)
      /\ Cardinality(S \union T) = Cardinality(S) + Cardinality(T) - Cardinality(S \intersect T)
  BY FS_Union
<1>2. IsFiniteSet(S \intersect T)
  BY FS_Subset
<1>3. /\ Cardinality(S) \in Nat /\ Cardinality(T) \in Nat
      /\ Cardinality(S \union T) \in Nat /\ Cardinality(S \intersect T) \in Nat
  BY <1>1, <1>2, FS_CardinalityType
<1> QED
  BY <1>1, <1>3

(* The jobs of J that count when the events of O do not, how many they are, and
   what one job counts. *)
Live(J, O) == {j \in J : j.ev \notin O}
Load(J, O) == Cardinality(Live(J, O))
Weight(e, O) == IF e \in O THEN 0 ELSE 1

(* The jobs that count are finitely many, and not more than all of them. *)
LEMMA LoadSmall ==
  ASSUME NEW J, NEW O, IsFiniteSet(J)
  PROVE  /\ IsFiniteSet(Live(J, O)) /\ Load(J, O) \in Nat
         /\ Cardinality(J) \in Nat /\ Load(J, O) <= Cardinality(J)
<1>1. Live(J, O) \in SUBSET J
  BY DEF Live
<1>2. IsFiniteSet(Live(J, O)) /\ Cardinality(Live(J, O)) <= Cardinality(J)
  BY <1>1, FS_Subset
<1> QED
  BY <1>2, FS_CardinalityType DEF Load

(* A job that enters counts at most its weight. *)
LEMMA LoadEnters ==
  ASSUME NEW J, NEW O, NEW j, IsFiniteSet(J)
  PROVE  /\ Load(J, O) \in Nat /\ Load(J \union {j}, O) \in Nat
         /\ Load(J \union {j}, O) <= Load(J, O) + Weight(j.ev, O)
<1>1. IsFiniteSet(Live(J, O)) /\ IsFiniteSet(J \union {j})
  BY LoadSmall, Enter
<1>2. Load(J, O) \in Nat /\ Load(J \union {j}, O) \in Nat
  BY <1>1, LoadSmall
<1>3. CASE j.ev \in O
  <2>1. Live(J \union {j}, O) = Live(J, O)
    BY <1>3 DEF Live
  <2> QED
    BY <1>2, <1>3, <2>1 DEF Load, Weight
<1>4. CASE j.ev \notin O
  <2>1. Live(J \union {j}, O) = Live(J, O) \union {j}
    BY <1>4 DEF Live
  <2> QED
    BY <1>1, <1>2, <1>4, <2>1, Enter DEF Load, Weight
<1> QED
  BY <1>3, <1>4

(* A job that leaves takes its weight with it. *)
LEMMA LoadLeaves ==
  ASSUME NEW J, NEW O, NEW j \in J, IsFiniteSet(J)
  PROVE  /\ Load(J, O) \in Nat /\ Load(J \ {j}, O) \in Nat
         /\ Load(J \ {j}, O) = Load(J, O) - Weight(j.ev, O)
<1>1. IsFiniteSet(Live(J, O)) /\ IsFiniteSet(J \ {j})
  BY LoadSmall, Leave
<1>2. Load(J, O) \in Nat /\ Load(J \ {j}, O) \in Nat
  BY <1>1, LoadSmall
<1>3. CASE j.ev \in O
  <2>1. Live(J \ {j}, O) = Live(J, O)
    BY <1>3 DEF Live
  <2> QED
    BY <1>2, <1>3, <2>1 DEF Load, Weight
<1>4. CASE j.ev \notin O
  <2>1. Live(J \ {j}, O) = Live(J, O) \ {j} /\ j \in Live(J, O)
    BY <1>4 DEF Live
  <2> QED
    BY <1>1, <1>2, <1>4, <2>1, Leave DEF Load, Weight
<1> QED
  BY <1>3, <1>4

(* The more events do not count, the fewer jobs do. *)
LEMMA LoadShrinks ==
  ASSUME NEW J, NEW O, NEW P, O \subseteq P, IsFiniteSet(J)
  PROVE  Load(J, P) \in Nat /\ Load(J, O) \in Nat /\ Load(J, P) <= Load(J, O)
<1>1. Live(J, P) \in SUBSET Live(J, O)
  BY DEF Live
<1>2. IsFiniteSet(Live(J, O)) /\ Load(J, P) \in Nat /\ Load(J, O) \in Nat
  BY LoadSmall
<1> QED
  BY <1>1, <1>2, FS_Subset DEF Load

(* The bound in these terms, in this state and in the next. *)
Bounded(wt, wk, rd, st, ad, out, d) ==
  Load(wt, out) + Load(wk, out) + Load(rd, out) + Load(st, out) + Cardinality(ad)
    <= queueMaxSize + concurrency * (1 + d) + Callers
LEMMA BoundIs ==
  /\ QueueBounded <=> Bounded(waiting, working, readding, stalled, adding, outrun, deaths)
  /\ QueueBounded' <=>
       Bounded(waiting', working', readding', stalled', adding', outrun', deaths')
BY DEF QueueBounded, Bounded, Counted, Load, Live

(* The empty queue satisfies the strengthening. *)
LEMMA SizeInit == Init => SizeInv
<1> SUFFICES ASSUME Init PROVE SizeInv
  OBVIOUS
<1>1. IsFiniteSet({}) /\ Cardinality({}) = 0
  BY FS_EmptySet
<1>2. /\ queueMaxSize \in Nat /\ concurrency \in Nat /\ Callers \in Nat
      /\ concurrency * 0 = 0 /\ concurrency * (1 + 0) = concurrency
  BY QueueAssumption
<1>3. QueueBounded
  <2>1. Live({}, {}) = {}
    BY DEF Live
  <2>2. Bounded({}, {}, {}, {}, {}, {}, 0)
    BY <1>1, <1>2, <2>1 DEF Bounded, Load
  <2> QED
    BY <2>2, BoundIs DEF Init
<1> QED
  BY <1>1, <1>2, <1>3
  DEF Init, SizeInv, TypeOK, Finite, CallersKept, ReaddingReturns, StalledFew

(* A job that lands is a job of its event. *)
LEMMA LandsIsJob ==
  ASSUME NEW e \in Events, FreeCopies(e) # {}
  PROVE  NewJob(e) \in Jobs /\ NewJob(e).ev = e
<1>1. (CHOOSE c \in FreeCopies(e) : TRUE) \in Copies
  BY DEF FreeCopies
<1>2. 0 \in 0 .. (attempts - 1)
  BY QueueAssumption
<1> QED
  BY <1>1, <1>2 DEF NewJob, Jobs

(* What the numbers of the strengthening are. *)
LEMMA Numbers ==
  ASSUME SizeInv
  PROVE  /\ Cardinality(looking) \in Nat /\ Cardinality(adding) \in Nat
         /\ Cardinality(waiting) \in Nat /\ Cardinality(working) \in Nat
         /\ Cardinality(returning) \in Nat /\ Cardinality(readding) \in Nat
         /\ Cardinality(stalled) \in Nat
         /\ Load(waiting, outrun) \in Nat /\ Load(working, outrun) \in Nat
         /\ Load(readding, outrun) \in Nat /\ Load(stalled, outrun) \in Nat
         /\ queueMaxSize \in Nat /\ concurrency \in Nat /\ Callers \in Nat
         /\ attempts \in Nat \ {0} /\ deaths \in Nat
         /\ concurrency * deaths \in Nat /\ concurrency * (1 + deaths) \in Nat
         /\ concurrency * (1 + deaths) = concurrency * deaths + concurrency
         /\ concurrency * (1 + (1 + deaths)) = concurrency * (1 + deaths) + concurrency
         /\ \A e : Weight(e, outrun) \in 0 .. 1
<1>1. /\ queueMaxSize \in Nat /\ concurrency \in Nat /\ Callers \in Nat
      /\ attempts \in Nat \ {0} /\ deaths \in Nat
  BY QueueAssumption DEF SizeInv, TypeOK
<1>2. /\ concurrency * deaths \in Nat /\ concurrency * (1 + deaths) \in Nat
      /\ concurrency * (1 + deaths) = concurrency * deaths + concurrency
      /\ concurrency * (1 + (1 + deaths)) = concurrency * (1 + deaths) + concurrency
  BY <1>1
<1>3. \A e : Weight(e, outrun) \in 0 .. 1
  BY DEF Weight
<1> QED
  BY <1>1, <1>2, <1>3, LoadSmall, FS_CardinalityType DEF SizeInv, Finite

(* A step that only moves a job between two of the sets that count, or lets it
   go, keeps the bound. *)
LEMMA MovesKeepBound ==
  ASSUME NEW wt, NEW wk, NEW rd, NEW st, NEW wt2, NEW wk2, NEW rd2, NEW st2,
         NEW ad, NEW out, NEW d,
         Bounded(wt, wk, rd, st, ad, out, d), IsFiniteSet(ad),
         concurrency * (1 + d) \in Nat,
         Load(wt, out) \in Nat, Load(wk, out) \in Nat,
         Load(rd, out) \in Nat, Load(st, out) \in Nat,
         Load(wt2, out) \in Nat, Load(wk2, out) \in Nat,
         Load(rd2, out) \in Nat, Load(st2, out) \in Nat,
         Load(wt2, out) + Load(wk2, out) + Load(rd2, out) + Load(st2, out)
           <= Load(wt, out) + Load(wk, out) + Load(rd, out) + Load(st, out)
  PROVE  Bounded(wt2, wk2, rd2, st2, ad, out, d)
<1>1. Cardinality(ad) \in Nat /\ queueMaxSize \in Nat /\ Callers \in Nat
  BY QueueAssumption, FS_CardinalityType
<1> DEFINE bound == queueMaxSize + concurrency * (1 + d) + Callers
<1>2. bound \in Nat
  BY <1>1
<1> HIDE DEF bound
<1>3. Load(wt, out) + Load(wk, out) + Load(rd, out) + Load(st, out) + Cardinality(ad) <= bound
  BY DEF Bounded, bound
<1>4. Load(wt2, out) + Load(wk2, out) + Load(rd2, out) + Load(st2, out) + Cardinality(ad)
        <= bound
  BY <1>1, <1>2, <1>3
<1> QED
  BY <1>4 DEF Bounded, bound

-----------------------------------------------------------------------------
(* The actions of add(). *)
LEMMA AdderKeepsSize ==
  ASSUME SizeInv, NEW e \in Events, Adder(e)
  PROVE  SizeInv'
<1> USE Numbers DEF SizeInv
<1>b. Bounded(waiting, working, readding, stalled, adding, outrun, deaths)
  BY BoundIs
<1>1. CASE Arrive(e)
  <2>1. /\ IsFiniteSet(looking') /\ Cardinality(looking') \in Nat
        /\ Cardinality(looking') <= Cardinality(looking) + 1
    BY <1>1, Enter DEF Arrive, Finite
  <2>2. QueueBounded'
    BY <1>1, <1>b, BoundIs DEF Arrive, places, histories
  <2> QED
    BY <1>1, <2>1, <2>2
    DEF Arrive, places, TypeOK, Finite, CallersKept, ReaddingReturns, StalledFew
<1>2. CASE FindRoom(e)
  <2>1. /\ IsFiniteSet(looking') /\ Cardinality(looking') \in Nat
        /\ Cardinality(looking') = Cardinality(looking) - 1
    BY <1>2, Leave DEF FindRoom, Finite
  <2>2. /\ IsFiniteSet(adding') /\ Cardinality(adding') \in Nat
        /\ Cardinality(adding') <= Cardinality(adding) + 1
    BY <1>2, Enter DEF FindRoom, Finite
  <2>3. Load(readding, outrun) <= Cardinality(returning)
    <3>1. Live(readding, outrun) \in SUBSET returning
      BY DEF Live, ReaddingReturns
    <3> QED
      BY <3>1, FS_Subset DEF Load, Finite
  <2>4. /\ Load(waiting, outrun) <= Cardinality(waiting)
        /\ Load(working, outrun) <= Cardinality(working)
        /\ Load(stalled, outrun) <= Cardinality(stalled)
    BY LoadSmall DEF Finite
  <2>5. Load(waiting, outrun) + Load(working, outrun) + Load(readding, outrun)
          + Load(stalled, outrun) <= queueMaxSize + concurrency * (1 + deaths)
    BY <1>2, <2>3, <2>4 DEF FindRoom, TypeOK, StalledFew
  <2>6. Cardinality(adding') <= Callers
    BY <2>1, <2>2 DEF CallersKept
  <2>7. Bounded(waiting, working, readding, stalled, adding', outrun, deaths)
    BY <2>2, <2>5, <2>6 DEF Bounded
  <2>8. QueueBounded'
    BY <1>2, <2>7, BoundIs DEF FindRoom, places, histories
  <2> QED
    BY <1>2, <2>1, <2>2, <2>8
    DEF FindRoom, places, histories, TypeOK, Finite, CallersKept, ReaddingReturns, StalledFew
<1>3. ASSUME e \in adding, adding' = adding \ {e}, Lands(e)
      PROVE  /\ IsFiniteSet(waiting') /\ waiting' \subseteq Jobs
             /\ Load(waiting', outrun) \in Nat
             /\ Load(waiting', outrun) <= Load(waiting, outrun) + 1
  <2>1. waiting' = waiting \union {NewJob(e)} /\ NewJob(e) \in Jobs
    BY <1>3, LandsIsJob DEF Lands
  <2>2. /\ Load(waiting', outrun) \in Nat
        /\ Load(waiting', outrun) <= Load(waiting, outrun) + Weight(NewJob(e).ev, outrun)
    BY <2>1, LoadEnters DEF Finite
  <2>3. Weight(NewJob(e).ev, outrun) \in 0 .. 1
    OBVIOUS
  <2>4. IsFiniteSet(waiting')
    BY <2>1, Enter DEF Finite
  <2>5. waiting' \subseteq Jobs
    BY <2>1 DEF TypeOK
  <2> QED
    BY <2>2, <2>3, <2>4, <2>5
<1>4. ASSUME e \in adding, adding' = adding \ {e}
      PROVE  /\ IsFiniteSet(adding') /\ Cardinality(adding') \in Nat
             /\ Cardinality(adding') = Cardinality(adding) - 1
  BY <1>4, Leave DEF Finite
<1>5. ASSUME e \in adding, adding' = adding \ {e}, Lands(e),
             UNCHANGED <<working, readding, stalled, deaths, outrun>>
      PROVE  QueueBounded'
  <2>1. Bounded(waiting', working, readding, stalled, adding', outrun, deaths)
    BY <1>b, <1>3, <1>4, <1>5 DEF Bounded
  <2> QED
    BY <1>5, <2>1, BoundIs
<1>6. CASE Add(e)
  <2>1. QueueBounded'
    BY <1>5, <1>6 DEF Add, histories
  <2> QED
    BY <1>3, <1>4, <1>6, <2>1
    DEF Add, histories, TypeOK, Finite, CallersKept, ReaddingReturns, StalledFew
<1>7. CASE AddThrows(e)
  <2>1. /\ IsFiniteSet(looking') /\ Cardinality(looking') \in Nat
        /\ Cardinality(looking') <= Cardinality(looking)
    BY <1>7, FS_Subset, FS_CardinalityType DEF AddThrows, Finite
  <2>2. /\ IsFiniteSet(adding') /\ Cardinality(adding') \in Nat
        /\ Cardinality(adding') <= Cardinality(adding)
    BY <1>7, FS_Subset, FS_CardinalityType DEF AddThrows, Finite
  <2>3. IsFiniteSet(waiting') /\ waiting' \subseteq Jobs
    BY <1>3, <1>7 DEF AddThrows, Finite, TypeOK
  <2>4. ASSUME UNCHANGED waiting PROVE QueueBounded'
    <3>1. Bounded(waiting, working, readding, stalled, adding', outrun, deaths)
      BY <1>b, <2>2 DEF Bounded
    <3>2. UNCHANGED <<working, readding, stalled, deaths, outrun>>
      BY <1>7 DEF AddThrows
    <3> QED
      BY <2>4, <3>1, <3>2, BoundIs
  <2>5. ASSUME e \in adding, Lands(e) PROVE QueueBounded'
    <3>1. UNCHANGED <<working, readding, stalled, deaths, outrun>> /\ adding' = adding \ {e}
      BY <1>7 DEF AddThrows
    <3> QED
      BY <1>5, <2>5, <3>1
  <2>6. QueueBounded'
    BY <1>7, <2>4, <2>5 DEF AddThrows
  <2>7. TypeOK'
    BY <1>7, <2>3 DEF AddThrows, TypeOK
  <2>8. Finite' /\ CallersKept'
    BY <1>7, <2>1, <2>2, <2>3 DEF AddThrows, Finite, CallersKept
  <2>9. ReaddingReturns' /\ StalledFew'
    BY <1>7 DEF AddThrows, ReaddingReturns, StalledFew
  <2> QED
    BY <2>6, <2>7, <2>8, <2>9
<1> QED
  BY <1>1, <1>2, <1>6, <1>7 DEF Adder

(* The steps of the processor and of Bull. *)
LEMMA ProcessorKeepsSize ==
  ASSUME SizeInv, NEW j \in Jobs, Processor(j)
  PROVE  SizeInv'
<1> USE Numbers DEF SizeInv
<1>b. Bounded(waiting, working, readding, stalled, adding, outrun, deaths)
  BY BoundIs
<1>a. IsFiniteSet(adding) /\ j.ev \in Events
  BY DEF Finite, Jobs
<1>m. ASSUME UNCHANGED <<adding, outrun, deaths>>,
             Load(waiting', outrun) \in Nat, Load(working', outrun) \in Nat,
             Load(readding', outrun) \in Nat, Load(stalled', outrun) \in Nat,
             Load(waiting', outrun) + Load(working', outrun) + Load(readding', outrun)
                 + Load(stalled', outrun)
               <= Load(waiting, outrun) + Load(working, outrun) + Load(readding, outrun)
                    + Load(stalled, outrun)
      PROVE  QueueBounded'
  <2>1. Bounded(waiting', working', readding', stalled', adding, outrun, deaths)
    BY <1>a, <1>b, <1>m, MovesKeepBound
  <2> QED
    BY <1>m, <2>1, BoundIs
<1>1. CASE Take(j)
  <2>1. /\ IsFiniteSet(waiting') /\ Load(waiting', outrun) \in Nat
        /\ Load(waiting', outrun) = Load(waiting, outrun) - Weight(j.ev, outrun)
    BY <1>1, Leave, LoadLeaves DEF Take, Finite
  <2>2. /\ IsFiniteSet(working') /\ Cardinality(working') \in Nat
        /\ Cardinality(working') <= Cardinality(working) + 1
        /\ Load(working', outrun) \in Nat
        /\ Load(working', outrun) <= Load(working, outrun) + Weight(j.ev, outrun)
    BY <1>1, Enter, LoadEnters DEF Take, Finite
  <2>3. QueueBounded'
    BY <1>1, <1>m, <2>1, <2>2 DEF Take, histories
  <2> QED
    BY <1>1, <2>1, <2>2, <2>3
    DEF Take, histories, TypeOK, Finite, CallersKept, ReaddingReturns, StalledFew
<1>2. ASSUME j \in working, working' = working \ {j}
      PROVE  /\ IsFiniteSet(working') /\ Cardinality(working') \in Nat
             /\ Cardinality(working') = Cardinality(working) - 1
             /\ Load(working', outrun) \in Nat
             /\ Load(working', outrun) = Load(working, outrun) - Weight(j.ev, outrun)
             /\ Load(working', outrun) <= Load(working, outrun)
  BY <1>2, Leave, LoadLeaves DEF Finite
<1>3. ASSUME returning' = returning \union {j}
      PROVE  /\ IsFiniteSet(returning') /\ Cardinality(returning') \in Nat
             /\ Cardinality(returning') <= Cardinality(returning) + 1
  BY <1>3, Enter DEF Finite
<1>4. CASE Succeed(j)
  <2>1. QueueBounded'
    BY <1>2, <1>4, <1>m DEF Succeed
  <2> QED
    BY <1>2, <1>3, <1>4, <1>a, <2>1
    DEF Succeed, TypeOK, Finite, CallersKept, ReaddingReturns, StalledFew
<1>5. ASSUME waiting' = waiting \union {[j EXCEPT !.made = j.made + 1]}, j.made + 1 < attempts
      PROVE  /\ IsFiniteSet(waiting') /\ waiting' \subseteq Jobs
             /\ Load(waiting', outrun) \in Nat
             /\ Load(waiting', outrun) <= Load(waiting, outrun) + Weight(j.ev, outrun)
  <2> DEFINE k == [j EXCEPT !.made = j.made + 1]
  <2>1. k \in Jobs /\ k.ev = j.ev
    BY <1>5 DEF Jobs
  <2> HIDE DEF k
  <2>2. waiting' = waiting \union {k}
    BY <1>5 DEF k
  <2> QED
    BY <2>1, <2>2, Enter, LoadEnters DEF Finite, TypeOK
<1>6. CASE LookupFails(j)
  <2>1. /\ IsFiniteSet(waiting') /\ waiting' \subseteq Jobs
        /\ Load(waiting', outrun) \in Nat
        /\ Load(waiting', outrun) <= Load(waiting, outrun) + Weight(j.ev, outrun)
        /\ dropped' \subseteq Events
    <3>1. CASE j.made + 1 < attempts
      BY <1>5, <1>6, <3>1 DEF LookupFails, TypeOK
    <3>2. CASE ~ (j.made + 1 < attempts)
      BY <1>6, <1>a, <3>2 DEF LookupFails, TypeOK, Finite
    <3> QED
      BY <3>1, <3>2
  <2>2. QueueBounded'
    BY <1>2, <1>6, <1>m, <2>1 DEF LookupFails
  <2> QED
    BY <1>2, <1>6, <2>1, <2>2
    DEF LookupFails, TypeOK, Finite, CallersKept, ReaddingReturns, StalledFew
<1>7. CASE Finish(j)
  <2>1. /\ IsFiniteSet(returning') /\ Cardinality(returning') \in Nat
        /\ Cardinality(returning') = Cardinality(returning) - 1
    BY <1>7, Leave DEF Finish, Finite
  <2>2. outrun \subseteq outrun' /\ outrun' \subseteq Events
    BY <1>7, <1>a DEF Finish, TypeOK, EventsOf
  <2>3. \A k \in readding : k.ev \notin outrun' => k \in returning'
    BY <1>7 DEF Finish, ReaddingReturns, EventsOf
  <2>4. Bounded(waiting, working, readding, stalled, adding, outrun', deaths)
    <3>1. /\ Load(waiting, outrun') \in Nat /\ Load(waiting, outrun') <= Load(waiting, outrun)
          /\ Load(working, outrun') \in Nat /\ Load(working, outrun') <= Load(working, outrun)
          /\ Load(readding, outrun') \in Nat
          /\ Load(readding, outrun') <= Load(readding, outrun)
          /\ Load(stalled, outrun') \in Nat /\ Load(stalled, outrun') <= Load(stalled, outrun)
      BY <2>2, LoadShrinks DEF Finite
    <3> QED
      BY <1>b, <3>1 DEF Bounded
  <2>5. QueueBounded'
    BY <1>7, <2>4, BoundIs DEF Finish
  <2>6. TypeOK'
    <3>1. UNCHANGED <<looking, adding, waiting, working, readding, stalled, deaths,
                      handled, dropped, failed, repeated, arrived>>
      BY <1>7 DEF Finish
    <3>2. returning' \subseteq Jobs
      BY <1>7 DEF Finish, TypeOK
    <3>3. Cardinality(working) + Cardinality(returning') <= concurrency
      BY <2>1 DEF TypeOK
    <3> QED
      BY <2>2, <3>1, <3>2, <3>3 DEF TypeOK
  <2>7. Finite' /\ CallersKept' /\ StalledFew'
    BY <1>7, <2>1 DEF Finish, Finite, CallersKept, StalledFew
  <2>8. ReaddingReturns'
    BY <1>7, <2>3 DEF Finish, ReaddingReturns
  <2> QED
    BY <2>5, <2>6, <2>7, <2>8
<1>8. CASE FindStalled(j)
  <2>1. /\ IsFiniteSet(stalled') /\ Cardinality(stalled') \in Nat
        /\ Cardinality(stalled') = Cardinality(stalled) - 1
        /\ Load(stalled', outrun) \in Nat
        /\ Load(stalled', outrun) = Load(stalled, outrun) - Weight(j.ev, outrun)
    BY <1>8, Leave, LoadLeaves DEF FindStalled, Finite
  <2>2. /\ IsFiniteSet(waiting') /\ waiting' \subseteq Jobs
        /\ Load(waiting', outrun) \in Nat
        /\ Load(waiting', outrun) <= Load(waiting, outrun) + Weight(j.ev, outrun)
        /\ dropped' \subseteq Events
    <3>1. CASE j.stalls = 0
      <4> DEFINE k == [j EXCEPT !.stalls = 1]
      <4>1. k \in Jobs /\ k.ev = j.ev
        BY DEF Jobs
      <4> HIDE DEF k
      <4>2. waiting' = waiting \union {k} /\ dropped' = dropped
        BY <1>8, <3>1 DEF FindStalled, k
      <4> QED
        BY <4>1, <4>2, Enter, LoadEnters DEF Finite, TypeOK
    <3>2. CASE j.stalls # 0
      BY <1>8, <1>a, <3>2 DEF FindStalled, TypeOK, Finite
    <3> QED
      BY <3>1, <3>2
  <2>3. QueueBounded'
    BY <1>8, <1>m, <2>1, <2>2 DEF FindStalled
  <2> QED
    BY <1>8, <2>1, <2>2, <2>3
    DEF FindStalled, TypeOK, Finite, CallersKept, ReaddingReturns, StalledFew
<1>9. CASE AddAgain(j)
  <2>1. /\ IsFiniteSet(readding') /\ Load(readding', outrun) \in Nat
        /\ Load(readding', outrun) <= Load(readding, outrun) + Weight(j.ev, outrun)
    BY <1>9, Enter, LoadEnters DEF AddAgain, Finite
  <2>2. QueueBounded'
    BY <1>2, <1>9, <1>m, <2>1 DEF AddAgain, histories
  <2> QED
    BY <1>2, <1>3, <1>9, <2>1, <2>2
    DEF AddAgain, histories, TypeOK, Finite, CallersKept, ReaddingReturns, StalledFew
<1>10. ASSUME j \in readding, readding' = readding \ {j}
       PROVE  /\ IsFiniteSet(readding') /\ Load(readding', outrun) \in Nat
              /\ Load(readding', outrun) = Load(readding, outrun) - Weight(j.ev, outrun)
              /\ Load(readding', outrun) <= Load(readding, outrun)
  BY <1>10, Leave, LoadLeaves DEF Finite
<1>11. CASE AddAgainLands(j)
  <2>1. /\ waiting' = waiting \union {NewJob(j.ev)}
        /\ NewJob(j.ev) \in Jobs /\ NewJob(j.ev).ev = j.ev
    BY <1>11, <1>a, LandsIsJob DEF AddAgainLands, Lands
  <2>2. /\ IsFiniteSet(waiting') /\ waiting' \subseteq Jobs
        /\ Load(waiting', outrun) \in Nat
        /\ Load(waiting', outrun) <= Load(waiting, outrun) + Weight(j.ev, outrun)
    <3>1. /\ Load(waiting', outrun) \in Nat
          /\ Load(waiting', outrun) <= Load(waiting, outrun) + Weight(NewJob(j.ev).ev, outrun)
      BY <2>1, LoadEnters DEF Finite
    <3> QED
      BY <2>1, <3>1, Enter DEF Finite, TypeOK
  <2>3. QueueBounded'
    BY <1>10, <1>11, <1>m, <2>2 DEF AddAgainLands, histories
  <2> QED
    BY <1>10, <1>11, <2>2, <2>3
    DEF AddAgainLands, histories, TypeOK, Finite, CallersKept, ReaddingReturns, StalledFew
<1>12. CASE AddAgainRejected(j)
  <2>1. QueueBounded'
    BY <1>10, <1>12, <1>m DEF AddAgainRejected
  <2> QED
    BY <1>10, <1>12, <1>a, <2>1
    DEF AddAgainRejected, TypeOK, Finite, CallersKept, ReaddingReturns, StalledFew
<1> QED
  BY <1>1, <1>4, <1>6, <1>7, <1>8, <1>9, <1>11, <1>12 DEF Processor

(* The death of the process turns at most `concurrency` jobs into stalled ones. *)
LEMMA DeathKeepsSize ==
  ASSUME SizeInv, Dies
  PROVE  SizeInv'
<1> USE Numbers DEF SizeInv
<1> DEFINE left == working \union returning
<1>1. stalled' = stalled \union left /\ deaths' = 1 + deaths
  BY DEF Dies
<1>2. IsFiniteSet(left) /\ Cardinality(left) \in Nat /\ Cardinality(left) <= concurrency
  BY Together DEF Finite, TypeOK
<1>3. /\ IsFiniteSet(stalled') /\ Cardinality(stalled') \in Nat
      /\ Cardinality(stalled') <= Cardinality(stalled) + Cardinality(left)
  BY <1>1, <1>2, Together DEF Finite
<1>4. /\ Load(stalled', outrun) \in Nat
      /\ Load(stalled', outrun) <= Load(stalled, outrun) + concurrency
  <2>1. /\ IsFiniteSet(Live(left, outrun)) /\ Load(left, outrun) \in Nat
        /\ Load(left, outrun) <= concurrency
    BY <1>2, LoadSmall
  <2>2. IsFiniteSet(Live(stalled, outrun))
    BY LoadSmall DEF Finite
  <2>3. Live(stalled', outrun) = Live(stalled, outrun) \union Live(left, outrun)
    BY <1>1 DEF Live
  <2>4. /\ Cardinality(Live(stalled', outrun)) \in Nat
        /\ Cardinality(Live(stalled, outrun)) \in Nat
        /\ Cardinality(Live(left, outrun)) \in Nat
        /\ Cardinality(Live(stalled', outrun))
             <= Cardinality(Live(stalled, outrun)) + Cardinality(Live(left, outrun))
    BY <2>1, <2>2, <2>3, Together
  <2> QED
    BY <2>1, <2>4 DEF Load
<1>5. IsFiniteSet({}) /\ Load({}, outrun) = 0
  BY FS_EmptySet DEF Load, Live
<1>6. Bounded(waiting, {}, {}, stalled', adding, outrun, deaths')
  <2>1. Bounded(waiting, working, readding, stalled, adding, outrun, deaths)
    BY BoundIs
  <2> QED
    BY <1>1, <1>4, <1>5, <2>1 DEF Bounded
<1>7. QueueBounded'
  BY <1>6, BoundIs DEF Dies
<1>8. failed' \subseteq Events /\ repeated' \subseteq Events
  BY DEF Dies, TypeOK, EventsOf, Jobs
<1>9. /\ Cardinality(working') + Cardinality(returning') <= concurrency
      /\ Cardinality(stalled') <= concurrency * deaths'
  BY <1>1, <1>2, <1>3, FS_EmptySet DEF Dies, StalledFew
<1>10. TypeOK'
  <2>1. stalled' \subseteq Jobs /\ deaths' \in Nat
    BY <1>1 DEF TypeOK
  <2>2. UNCHANGED <<looking, adding, waiting, handled, dropped, outrun, arrived>>
    BY DEF Dies
  <2>3. working' = {} /\ returning' = {} /\ readding' = {}
    BY DEF Dies
  <2> QED
    BY <1>8, <1>9, <2>1, <2>2, <2>3 DEF TypeOK
<1>11. Finite' /\ CallersKept' /\ ReaddingReturns' /\ StalledFew'
  BY <1>3, <1>5, <1>9 DEF Dies, Finite, CallersKept, ReaddingReturns, StalledFew
<1> QED
  BY <1>7, <1>10, <1>11

(* Every step keeps the types, the limits and the bound: whoever grows the queue
   gives up its own share of the bound in the same step. *)
LEMMA SizeStep == SizeInv /\ [Next]_vars => SizeInv'
<1> SUFFICES ASSUME SizeInv, [Next]_vars PROVE SizeInv'
  OBVIOUS
<1>1. CASE UNCHANGED vars
  BY <1>1, BoundIs
  DEF vars, places, histories, SizeInv, TypeOK, Finite, CallersKept, ReaddingReturns, StalledFew
<1> QED
  BY <1>1, AdderKeepsSize, ProcessorKeepsSize, DeathKeepsSize DEF Next

(* The strengthening holds of the specification. *)
LEMMA SizeCorrect == Spec => []SizeInv
BY SizeInit, SizeStep, PTL DEF Spec

(* The sets hold events and jobs, and the processor never works on more jobs than
   its concurrency, those about to return included. *)
THEOREM TypeCorrect == Spec => []TypeOK
BY SizeCorrect, PTL DEF SizeInv

(* The queue never outgrows queueMaxSize by more than one job per caller, one per
   job the processor can work on and one per such job and death, although add()
   checks the length before an await and the processor's own adds do not check it;
   the events whose re-add once came after the end of their job do not count. *)
THEOREM BoundCorrect == Spec => []QueueBounded
BY SizeCorrect, PTL DEF SizeInv

-----------------------------------------------------------------------------
(* The places an event can be in, as sets of events: they cover what arrived, with
   the events of failed adds, and overlap in repeated events only. *)
Covered(all, l, a, w, s, k, r, h, d, x) ==
  \A e : e \in all <=> \/ e \in l \/ e \in a \/ e \in w \/ e \in s
                        \/ e \in k \/ e \in r \/ e \in h \/ e \in d \/ e \in x
Separate(l, a, w, s, k, r, h, d, rep) ==
  \A e : e \notin rep =>
    /\ e \in l => e \notin a /\ e \notin w /\ e \notin s /\ e \notin k /\ e \notin r
                 /\ e \notin h /\ e \notin d
    /\ e \in a => e \notin w /\ e \notin s /\ e \notin k /\ e \notin r
                 /\ e \notin h /\ e \notin d
    /\ e \in w => e \notin s /\ e \notin k /\ e \notin r /\ e \notin h /\ e \notin d
    /\ e \in s => e \notin k /\ e \notin r /\ e \notin h /\ e \notin d
    /\ e \in k => e \notin r /\ e \notin h /\ e \notin d
    /\ e \in r => e \notin h /\ e \notin d
    /\ e \in h => e \notin d

(* EveryEventOnce says this of its spots. *)
LEMMA SpotsSeparate ==
  ASSUME NEW all, NEW l, NEW a, NEW w, NEW s, NEW k, NEW r, NEW h, NEW d, NEW x, NEW rep,
         NEW spots, spots = <<l, a, w, s, k, r, h, d>>
  PROVE  /\ all = x \union UNION {spots[m] : m \in 1 .. 8}
              <=> Covered(all, l, a, w, s, k, r, h, d, x)
         /\ (\A m, n \in 1 .. 8 : m < n => spots[m] \intersect spots[n] \subseteq rep)
              <=> Separate(l, a, w, s, k, r, h, d, rep)
<1>1. /\ spots[1] = l /\ spots[2] = a /\ spots[3] = w /\ spots[4] = s
      /\ spots[5] = k /\ spots[6] = r /\ spots[7] = h /\ spots[8] = d
  OBVIOUS
<1>2. \A m : m \in 1 .. 8 <=> m \in {1, 2, 3, 4, 5, 6, 7, 8}
  OBVIOUS
<1>3. \A e : e \in UNION {spots[m] : m \in 1 .. 8} <=>
              \/ e \in l \/ e \in a \/ e \in w \/ e \in s
              \/ e \in k \/ e \in r \/ e \in h \/ e \in d
  <2>1. \A e : e \in UNION {spots[m] : m \in 1 .. 8} <=> \E m \in 1 .. 8 : e \in spots[m]
    OBVIOUS
  <2> QED
    BY <1>1, <1>2, <2>1
<1>4. all = x \union UNION {spots[m] : m \in 1 .. 8}
        <=> Covered(all, l, a, w, s, k, r, h, d, x)
  BY <1>3 DEF Covered
<1>5. (\A m, n \in 1 .. 8 : m < n => spots[m] \intersect spots[n] \subseteq rep)
        => Separate(l, a, w, s, k, r, h, d, rep)
  <2> SUFFICES ASSUME \A m, n \in 1 .. 8 : m < n =>
                        \A e : e \in spots[m] /\ e \in spots[n] => e \in rep
               PROVE  Separate(l, a, w, s, k, r, h, d, rep)
    OBVIOUS
  <2>1. \A n \in 2 .. 8 : \A e : e \in l /\ e \in spots[n] => e \in rep
    BY <1>1
  <2>2. \A n \in 3 .. 8 : \A e : e \in a /\ e \in spots[n] => e \in rep
    BY <1>1
  <2>3. \A n \in 4 .. 8 : \A e : e \in w /\ e \in spots[n] => e \in rep
    BY <1>1
  <2>4. \A n \in 5 .. 8 : \A e : e \in s /\ e \in spots[n] => e \in rep
    BY <1>1
  <2>5. \A n \in 6 .. 8 : \A e : e \in k /\ e \in spots[n] => e \in rep
    BY <1>1
  <2>6. \A n \in 7 .. 8 : \A e : e \in r /\ e \in spots[n] => e \in rep
    BY <1>1
  <2>7. \A e : e \in h /\ e \in d => e \in rep
    BY <1>1
  <2>8. \A e : e \notin rep /\ e \in l =>
                /\ e \notin a /\ e \notin w /\ e \notin s /\ e \notin k
                /\ e \notin r /\ e \notin h /\ e \notin d
    BY <1>1, <2>1
  <2>9. \A e : e \notin rep /\ e \in a =>
                /\ e \notin w /\ e \notin s /\ e \notin k
                /\ e \notin r /\ e \notin h /\ e \notin d
    BY <1>1, <2>2
  <2>10. \A e : e \notin rep /\ e \in w =>
                 e \notin s /\ e \notin k /\ e \notin r /\ e \notin h /\ e \notin d
    BY <1>1, <2>3
  <2>11. \A e : e \notin rep /\ e \in s =>
                 e \notin k /\ e \notin r /\ e \notin h /\ e \notin d
    BY <1>1, <2>4
  <2>12. \A e : e \notin rep /\ e \in k => e \notin r /\ e \notin h /\ e \notin d
    BY <1>1, <2>5
  <2>13. \A e : e \notin rep /\ e \in r => e \notin h /\ e \notin d
    BY <1>1, <2>6
  <2> QED
    BY <2>7, <2>8, <2>9, <2>10, <2>11, <2>12, <2>13, Zenon DEF Separate
<1>6. Separate(l, a, w, s, k, r, h, d, rep) =>
        \A m, n \in 1 .. 8 : m < n => spots[m] \intersect spots[n] \subseteq rep
  <2> SUFFICES ASSUME Separate(l, a, w, s, k, r, h, d, rep),
                      NEW m \in 1 .. 8, NEW n \in 1 .. 8, m < n,
                      NEW e \in spots[m], e \in spots[n], e \notin rep
               PROVE  FALSE
    OBVIOUS
  <2>1. /\ m = 1 => e \in l /\ n \in 2 .. 8
        /\ m = 2 => e \in a /\ n \in 3 .. 8
        /\ m = 3 => e \in w /\ n \in 4 .. 8
        /\ m = 4 => e \in s /\ n \in 5 .. 8
        /\ m = 5 => e \in k /\ n \in 6 .. 8
        /\ m = 6 => e \in r /\ n \in 7 .. 8
        /\ m = 7 => e \in h /\ n = 8
        /\ m # 8
    BY <1>1
  <2>2. /\ n = 2 => e \in a
        /\ n = 3 => e \in w
        /\ n = 4 => e \in s
        /\ n = 5 => e \in k
        /\ n = 6 => e \in r
        /\ n = 7 => e \in h
        /\ n = 8 => e \in d
    BY <1>1
  <2> QED
    BY <2>1, <2>2 DEF Separate
<1> QED
  BY <1>4, <1>5, <1>6

(* One job for each event, as far as events are not repeated. *)
OneJob(J, rep) == \A j, k \in J : j.ev = k.ev => j = k \/ j.ev \in rep

(* EveryEventOnce in terms of the places, in this state and in the next. *)
Once(all, l, a, W, S, K, R, h, d, x, rep) ==
  /\ Covered(all, l, a, EventsOf(W), EventsOf(S), EventsOf(K), EventsOf(R), h, d, x)
  /\ Separate(l, a, EventsOf(W), EventsOf(S), EventsOf(K), EventsOf(R), h, d, rep)
  /\ OneJob(W, rep) /\ OneJob(S, rep) /\ OneJob(K, rep) /\ OneJob(R, rep)
LEMMA OnceIs ==
  /\ EveryEventOnce <=> Once(arrived, looking, adding, waiting, stalled, working, readding,
                             handled, dropped, failed, repeated)
  /\ EveryEventOnce' <=> Once(arrived', looking', adding', waiting', stalled', working',
                              readding', handled', dropped', failed', repeated')
<1>1. EveryEventOnce <=> Once(arrived, looking, adding, waiting, stalled, working, readding,
                              handled, dropped, failed, repeated)
  <2> DEFINE spots == Spots
  <2>1. spots = <<looking, adding, EventsOf(waiting), EventsOf(stalled), EventsOf(working),
                  EventsOf(readding), handled, dropped>>
    BY DEF Spots
  <2>2. EveryEventOnce <=>
          /\ arrived = failed \union UNION {spots[m] : m \in 1 .. 8}
          /\ \A m, n \in 1 .. 8 : m < n => spots[m] \intersect spots[n] \subseteq repeated
          /\ OneJob(waiting, repeated) /\ OneJob(stalled, repeated)
          /\ OneJob(working, repeated) /\ OneJob(readding, repeated)
    BY DEF EveryEventOnce, OneJobEach, OneJob
  <2> HIDE DEF spots
  <2> QED
    BY <2>1, <2>2, SpotsSeparate DEF Once
<1>2. EveryEventOnce' <=> Once(arrived', looking', adding', waiting', stalled', working',
                               readding', handled', dropped', failed', repeated')
  <2> DEFINE spots == Spots'
  <2>1. spots = <<looking', adding', EventsOf(waiting'), EventsOf(stalled'),
                  EventsOf(working'), EventsOf(readding'), handled', dropped'>>
    BY DEF Spots, EventsOf
  <2>2. EveryEventOnce' <=>
          /\ arrived' = failed' \union UNION {spots[m] : m \in 1 .. 8}
          /\ \A m, n \in 1 .. 8 : m < n => spots[m] \intersect spots[n] \subseteq repeated'
          /\ OneJob(waiting', repeated') /\ OneJob(stalled', repeated')
          /\ OneJob(working', repeated') /\ OneJob(readding', repeated')
    BY DEF EveryEventOnce, OneJobEach, OneJob
  <2> HIDE DEF spots
  <2> QED
    BY <2>1, <2>2, SpotsSeparate DEF Once
<1> QED
  BY <1>1, <1>2

(* The events of a set of jobs with one job more. *)
LEMMA EventsEnter ==
  ASSUME NEW J, NEW j
  PROVE  \A e : e \in EventsOf(J \union {j}) <=> e \in EventsOf(J) \/ e = j.ev
BY DEF EventsOf
(* The events of a set of jobs with one job less. *)
LEMMA EventsLeave ==
  ASSUME NEW J, NEW rep, NEW j \in J, OneJob(J, rep)
  PROVE  /\ j.ev \in EventsOf(J) /\ OneJob(J \ {j}, rep)
         /\ \A e : e \in EventsOf(J) <=> e \in EventsOf(J \ {j}) \/ e = j.ev
         /\ j.ev \in EventsOf(J \ {j}) => j.ev \in rep
BY DEF EventsOf, OneJob
(* A job for an event that has none there keeps one job for each event. *)
LEMMA OneJobEnter ==
  ASSUME NEW J, NEW rep, NEW j, OneJob(J, rep), j.ev \in EventsOf(J) => j.ev \in rep
  PROVE  OneJob(J \union {j}, rep)
BY DEF EventsOf, OneJob

(* The strengthening: a job about to return is of an event that arrived. *)
ReturningArrived == \A j \in returning : j.ev \in arrived
OnceInv == EveryEventOnce /\ ReturningArrived

(* No event is anywhere before it arrives. *)
LEMMA OnceInit == Init => OnceInv
<1> SUFFICES ASSUME Init PROVE OnceInv
  OBVIOUS
<1>1. EventsOf({}) = {}
  BY DEF EventsOf
<1>2. Once({}, {}, {}, {}, {}, {}, {}, {}, {}, {}, {})
  BY <1>1 DEF Once, Covered, Separate, OneJob
<1>3. EveryEventOnce
  BY <1>2, OnceIs DEF Init
<1> QED
  BY <1>3 DEF Init, OnceInv, ReturningArrived

(* A job taken from one set and put, under the same event, into another. *)
LEMMA JobMoves ==
  ASSUME NEW J, NEW K, NEW rep, NEW j \in J, NEW k, k.ev = j.ev,
         OneJob(J, rep), OneJob(K, rep), j.ev \in EventsOf(K) => j.ev \in rep
  PROVE  /\ OneJob(J \ {j}, rep) /\ OneJob(K \union {k}, rep)
         /\ j.ev \in EventsOf(J) /\ (j.ev \in EventsOf(J \ {j}) => j.ev \in rep)
         /\ \A e : e \in EventsOf(J) <=> e \in EventsOf(J \ {j}) \/ e = j.ev
         /\ \A e : e \in EventsOf(K \union {k}) <=> e \in EventsOf(K) \/ e = j.ev
<1>1. k.ev \in EventsOf(K) => k.ev \in rep
  OBVIOUS
<1>2. OneJob(K \union {k}, rep)
  BY <1>1, OneJobEnter
<1>3. \A e : e \in EventsOf(K \union {k}) <=> e \in EventsOf(K) \/ e = k.ev
  BY EventsEnter
<1>4. /\ j.ev \in EventsOf(J) /\ OneJob(J \ {j}, rep)
      /\ \A e : e \in EventsOf(J) <=> e \in EventsOf(J \ {j}) \/ e = j.ev
      /\ j.ev \in EventsOf(J \ {j}) => j.ev \in rep
  BY EventsLeave
<1> QED
  BY <1>2, <1>3, <1>4

(* The steps of add() move an event from one place to the next. *)
LEMMA AdderKeepsOnce ==
  ASSUME OnceInv, NEW e \in Events, Adder(e)
  PROVE  OnceInv'
<1> DEFINE Now == Once(arrived, looking, adding, waiting, stalled, working, readding,
                       handled, dropped, failed, repeated)
           Next2 == Once(arrived', looking', adding', waiting', stalled', working',
                         readding', handled', dropped', failed', repeated')
<1>0. Now /\ ReturningArrived
  BY OnceIs DEF OnceInv
<1>1. ASSUME Next2, ReturningArrived' PROVE OnceInv'
  BY <1>1, OnceIs DEF OnceInv
<1>2. CASE Arrive(e)
  <2>1. Next2
    BY <1>0, <1>2 DEF Arrive, places, Once, Covered, Separate
  <2> QED
    BY <1>0, <1>1, <1>2, <2>1 DEF Arrive, places, ReturningArrived
<1>3. CASE FindRoom(e)
  <2>1. Next2
    BY <1>0, <1>3 DEF FindRoom, places, histories, Once, Covered, Separate
  <2> QED
    BY <1>0, <1>1, <1>3, <2>1 DEF FindRoom, places, histories, ReturningArrived
<1>4. ASSUME e \in adding, Lands(e)
      PROVE  /\ OneJob(waiting', repeated)
             /\ \A f : f \in EventsOf(waiting') <=> f \in EventsOf(waiting) \/ f = e
  <2>1. waiting' = waiting \union {NewJob(e)} /\ NewJob(e).ev = e
    BY <1>4, LandsIsJob DEF Lands
  <2>2. e \in EventsOf(waiting) => e \in repeated
    BY <1>0, <1>4 DEF Once, Separate
  <2>3. OneJob(waiting, repeated)
    BY <1>0 DEF Once
  <2> QED
    BY <2>1, <2>2, <2>3, EventsEnter, OneJobEnter
<1>5. CASE Add(e)
  <2>1. Next2
    BY <1>0, <1>4, <1>5 DEF Add, histories, Once, Covered, Separate
  <2> QED
    BY <1>0, <1>1, <1>5, <2>1 DEF Add, histories, ReturningArrived
<1>6. CASE AddThrows(e)
  <2>1. /\ looking' = looking \ {e} /\ adding' = adding \ {e}
        /\ failed' = failed \union {e} /\ e \in looking \union adding
        /\ UNCHANGED <<working, returning, readding, stalled,
                       handled, dropped, repeated, arrived>>
    BY <1>6 DEF AddThrows
  <2>2. ASSUME UNCHANGED waiting PROVE Next2
    BY <1>0, <2>1, <2>2 DEF Once, Covered, Separate
  <2>3. ASSUME e \in adding, Lands(e) PROVE Next2
    BY <1>0, <1>4, <2>1, <2>3 DEF Once, Covered, Separate
  <2>4. Next2
    BY <1>6, <2>2, <2>3 DEF AddThrows
  <2> QED
    BY <1>0, <1>1, <2>1, <2>4 DEF ReturningArrived
<1> QED
  BY <1>2, <1>3, <1>5, <1>6 DEF Adder

(* So do the steps of the processor and of Bull. *)
LEMMA ProcessorKeepsOnce ==
  ASSUME OnceInv, NEW j \in Jobs, Processor(j)
  PROVE  OnceInv'
<1> DEFINE Now == Once(arrived, looking, adding, waiting, stalled, working, readding,
                       handled, dropped, failed, repeated)
           Next2 == Once(arrived', looking', adding', waiting', stalled', working',
                         readding', handled', dropped', failed', repeated')
<1>0. Now /\ ReturningArrived
  BY OnceIs DEF OnceInv
<1>1. ASSUME Next2, ReturningArrived' PROVE OnceInv'
  BY <1>1, OnceIs DEF OnceInv
<1>2. /\ OneJob(waiting, repeated) /\ OneJob(stalled, repeated)
      /\ OneJob(working, repeated) /\ OneJob(readding, repeated)
  BY <1>0 DEF Once
<1>3. /\ j \in working => j.ev \in EventsOf(working) /\ j.ev \in arrived
      /\ j \in waiting => j.ev \in EventsOf(waiting)
      /\ j \in readding => j.ev \in EventsOf(readding)
      /\ j \in stalled => j.ev \in EventsOf(stalled)
  BY <1>0 DEF EventsOf, Once, Covered
<1>4. CASE Take(j)
  <2>1. j.ev \in EventsOf(working) => j.ev \in repeated
    BY <1>0, <1>3, <1>4 DEF Take, Once, Separate
  <2>m. /\ OneJob(waiting', repeated) /\ OneJob(working', repeated)
        /\ j.ev \in EventsOf(waiting) /\ (j.ev \in EventsOf(waiting') => j.ev \in repeated)
        /\ \A e : e \in EventsOf(waiting) <=> e \in EventsOf(waiting') \/ e = j.ev
        /\ \A e : e \in EventsOf(working') <=> e \in EventsOf(working) \/ e = j.ev
    <3>1. /\ j \in waiting /\ waiting' = waiting \ {j} /\ working' = working \union {j}
      BY <1>4 DEF Take
    <3> QED
      BY <1>2, <2>1, <3>1, JobMoves
  <2>2. Next2
    BY <1>0, <1>4, <2>m DEF Take, histories, Once, Covered, Separate
  <2> QED
    BY <1>0, <1>1, <1>4, <2>2 DEF Take, histories, ReturningArrived
<1>5. ASSUME j \in working, working' = working \ {j}
      PROVE  /\ OneJob(working', repeated)
             /\ j.ev \in EventsOf(working') => j.ev \in repeated
             /\ \A e : e \in EventsOf(working) <=> e \in EventsOf(working') \/ e = j.ev
  BY <1>2, <1>5, EventsLeave
<1>6. CASE Succeed(j)
  <2>1. Next2
    BY <1>0, <1>3, <1>5, <1>6 DEF Succeed, Once, Covered, Separate
  <2> QED
    BY <1>0, <1>1, <1>3, <1>6, <2>1 DEF Succeed, ReturningArrived
<1>7. ASSUME NEW k, k.ev = j.ev, waiting' = waiting \union {k},
             j.ev \in EventsOf(waiting) => j.ev \in repeated
      PROVE  /\ OneJob(waiting', repeated)
             /\ \A e : e \in EventsOf(waiting') <=> e \in EventsOf(waiting) \/ e = j.ev
  <2>1. k.ev \in EventsOf(waiting) => k.ev \in repeated
    BY <1>7
  <2> QED
    BY <1>2, <1>7, <2>1, EventsEnter, OneJobEnter
<1>8. CASE LookupFails(j)
  <2>1. /\ j \in working /\ working' = working \ {j}
        /\ UNCHANGED <<looking, adding, returning, readding, stalled,
                       handled, failed, repeated, arrived>>
    BY <1>8 DEF LookupFails
  <2>2. j.ev \in EventsOf(waiting) => j.ev \in repeated
    BY <1>0, <1>3, <2>1 DEF Once, Separate
  <2>3. ASSUME j.made + 1 < attempts PROVE Next2
    <3> DEFINE k == [j EXCEPT !.made = @ + 1]
    <3>1. waiting' = waiting \union {k} /\ dropped' = dropped /\ k.ev = j.ev
      BY <1>8, <2>3 DEF LookupFails, Jobs
    <3> HIDE DEF k
    <3> QED
      BY <1>0, <1>3, <1>5, <1>7, <2>1, <2>2, <3>1 DEF Once, Covered, Separate
  <2>4. ASSUME ~ (j.made + 1 < attempts) PROVE Next2
    <3>1. waiting' = waiting /\ dropped' = dropped \union {j.ev}
      BY <1>8, <2>4 DEF LookupFails
    <3> QED
      BY <1>0, <1>3, <1>5, <2>1, <3>1 DEF Once, Covered, Separate
  <2>5. Next2
    BY <2>3, <2>4
  <2> QED
    BY <1>0, <1>1, <2>1, <2>5 DEF ReturningArrived
<1>9. CASE Finish(j)
  <2>1. Next2
    BY <1>0, <1>9 DEF Finish
  <2> QED
    BY <1>0, <1>1, <1>9, <2>1 DEF Finish, ReturningArrived
<1>10. CASE FindStalled(j)
  <2>1. /\ j \in stalled /\ stalled' = stalled \ {j}
        /\ UNCHANGED <<looking, adding, working, returning, readding,
                       handled, failed, repeated, arrived>>
    BY <1>10 DEF FindStalled
  <2>2. j.ev \in EventsOf(waiting) => j.ev \in repeated
    BY <1>0, <1>3, <2>1 DEF Once, Separate
  <2>3. /\ OneJob(stalled', repeated)
        /\ j.ev \in EventsOf(stalled') => j.ev \in repeated
        /\ \A e : e \in EventsOf(stalled) <=> e \in EventsOf(stalled') \/ e = j.ev
    BY <1>2, <2>1, EventsLeave
  <2>4. ASSUME j.stalls = 0 PROVE Next2
    <3> DEFINE k == [j EXCEPT !.stalls = 1]
    <3>1. waiting' = waiting \union {k} /\ dropped' = dropped /\ k.ev = j.ev
      BY <1>10, <2>4 DEF FindStalled, Jobs
    <3> HIDE DEF k
    <3> QED
      BY <1>0, <1>3, <1>7, <2>1, <2>2, <2>3, <3>1 DEF Once, Covered, Separate
  <2>5. ASSUME j.stalls # 0 PROVE Next2
    <3>1. waiting' = waiting /\ dropped' = dropped \union {j.ev}
      BY <1>10, <2>5 DEF FindStalled
    <3> QED
      BY <1>0, <1>3, <2>1, <2>3, <3>1 DEF Once, Covered, Separate
  <2>6. Next2
    BY <2>4, <2>5
  <2> QED
    BY <1>0, <1>1, <2>1, <2>6 DEF ReturningArrived
<1>11. CASE AddAgain(j)
  <2>1. j.ev \in EventsOf(readding) => j.ev \in repeated
    BY <1>0, <1>3, <1>11 DEF AddAgain, Once, Separate
  <2>m. /\ OneJob(working', repeated) /\ OneJob(readding', repeated)
        /\ j.ev \in EventsOf(working) /\ (j.ev \in EventsOf(working') => j.ev \in repeated)
        /\ \A e : e \in EventsOf(working) <=> e \in EventsOf(working') \/ e = j.ev
        /\ \A e : e \in EventsOf(readding') <=> e \in EventsOf(readding) \/ e = j.ev
    <3>1. /\ j \in working /\ working' = working \ {j} /\ readding' = readding \union {j}
      BY <1>11 DEF AddAgain
    <3> QED
      BY <1>2, <2>1, <3>1, JobMoves
  <2>2. Next2
    BY <1>0, <1>11, <2>m DEF AddAgain, histories, Once, Covered, Separate
  <2> QED
    BY <1>0, <1>1, <1>3, <1>11, <2>2 DEF AddAgain, histories, ReturningArrived
<1>12. ASSUME j \in readding, readding' = readding \ {j}
       PROVE  /\ OneJob(readding', repeated)
              /\ j.ev \in EventsOf(readding') => j.ev \in repeated
              /\ \A e : e \in EventsOf(readding) <=> e \in EventsOf(readding') \/ e = j.ev
  BY <1>2, <1>12, EventsLeave
<1>13. CASE AddAgainLands(j)
  <2>1. waiting' = waiting \union {NewJob(j.ev)} /\ NewJob(j.ev).ev = j.ev
    BY <1>13, LandsIsJob DEF AddAgainLands, Lands, Jobs
  <2>2. j.ev \in EventsOf(waiting) => j.ev \in repeated
    BY <1>0, <1>3, <1>13 DEF AddAgainLands, Once, Separate
  <2>3. /\ OneJob(waiting', repeated)
        /\ \A e : e \in EventsOf(waiting') <=> e \in EventsOf(waiting) \/ e = j.ev
    BY <1>7, <2>1, <2>2
  <2>4. Next2
    BY <1>0, <1>3, <1>12, <1>13, <2>3 DEF AddAgainLands, histories, Once, Covered, Separate
  <2> QED
    BY <1>0, <1>1, <1>13, <2>4 DEF AddAgainLands, histories, ReturningArrived
<1>14. CASE AddAgainRejected(j)
  <2>1. Next2
    BY <1>0, <1>3, <1>12, <1>14 DEF AddAgainRejected, Once, Covered, Separate
  <2> QED
    BY <1>0, <1>1, <1>14, <2>1 DEF AddAgainRejected, ReturningArrived
<1> QED
  BY <1>4, <1>6, <1>8, <1>9, <1>10, <1>11, <1>13, <1>14 DEF Processor

(* At a death the jobs worked on become stalled ones, and so do those about to
   return: of these the event is being added again, or is now a repeated one.  An
   add cut off whose job had been recorded complete has failed. *)
LEMMA DeathKeepsOnce ==
  ASSUME OnceInv, Dies
  PROVE  OnceInv'
<1> DEFINE Now == Once(arrived, looking, adding, waiting, stalled, working, readding,
                       handled, dropped, failed, repeated)
<1>0. Now /\ ReturningArrived
  BY OnceIs DEF OnceInv
<1>1. /\ stalled' = stalled \union working \union returning
      /\ working' = {} /\ returning' = {} /\ readding' = {}
      /\ failed' = failed \union EventsOf(readding \ returning)
      /\ repeated' = repeated \union EventsOf(returning \ readding)
      /\ UNCHANGED <<looking, adding, waiting, handled, dropped, arrived>>
  BY DEF Dies
<1>2. \A e : e \in EventsOf(stalled') <=>
               e \in EventsOf(stalled) \/ e \in EventsOf(working) \/ e \in EventsOf(returning)
  BY <1>1 DEF EventsOf
<1>3. \A k \in returning : k.ev \notin repeated' => k \in readding
  BY <1>1 DEF EventsOf
<1>4. \A e \in EventsOf(returning) : e \notin repeated' => e \in EventsOf(readding)
  BY <1>3 DEF EventsOf
<1>5. \A e \in EventsOf(readding) : e \in EventsOf(returning) \/ e \in failed'
  BY <1>1 DEF EventsOf
<1>6. \A e \in EventsOf(returning) : e \in arrived
  BY <1>0 DEF EventsOf, ReturningArrived
<1>7. repeated \subseteq repeated' /\ failed \subseteq failed'
  BY <1>1
<1>8. \A e \in failed' : e \in failed \/ e \in EventsOf(readding)
  BY <1>1 DEF EventsOf
<1>9. Covered(arrived, looking, adding, EventsOf(waiting), EventsOf(stalled'), {}, {},
              handled, dropped, failed')
  <2>1. Covered(arrived, looking, adding, EventsOf(waiting), EventsOf(stalled),
                EventsOf(working), EventsOf(readding), handled, dropped, failed)
    BY <1>0 DEF Once
  <2> QED
    BY <1>2, <1>5, <1>6, <1>7, <1>8, <2>1 DEF Covered
<1>10. Separate(looking, adding, EventsOf(waiting), EventsOf(stalled'), {}, {},
                handled, dropped, repeated')
  <2>1. Separate(looking, adding, EventsOf(waiting), EventsOf(stalled),
                 EventsOf(working), EventsOf(readding), handled, dropped, repeated)
    BY <1>0 DEF Once
  <2> QED
    BY <1>2, <1>4, <1>7, <2>1 DEF Separate
<1>11. OneJob(waiting, repeated') /\ OneJob({}, repeated')
  BY <1>0, <1>7 DEF Once, OneJob
<1>12. OneJob(stalled', repeated')
  <2> SUFFICES ASSUME NEW j \in stalled', NEW k \in stalled', j.ev = k.ev,
                      j.ev \notin repeated'
               PROVE  j = k
    BY DEF OneJob
  <2>1. j.ev \notin repeated
    BY <1>7
  <2>2. /\ j \in stalled \/ j \in working \/ j \in readding
        /\ k \in stalled \/ k \in working \/ k \in readding
    BY <1>1, <1>3
  <2>3. /\ \A i \in stalled : i.ev \in EventsOf(stalled)
        /\ \A i \in working : i.ev \in EventsOf(working)
        /\ \A i \in readding : i.ev \in EventsOf(readding)
    BY DEF EventsOf
  <2>4. \/ j \in stalled /\ k \in stalled
        \/ j \in working /\ k \in working
        \/ j \in readding /\ k \in readding
    BY <1>0, <2>1, <2>2, <2>3 DEF Once, Separate
  <2> QED
    BY <1>0, <2>1, <2>4 DEF Once, OneJob
<1>13. Once(arrived', looking', adding', waiting', stalled', working', readding',
            handled', dropped', failed', repeated')
  <2>1. EventsOf({}) = {}
    BY DEF EventsOf
  <2>2. Once(arrived, looking, adding, waiting, stalled', {}, {},
             handled, dropped, failed', repeated')
    BY <1>9, <1>10, <1>11, <1>12, <2>1 DEF Once
  <2> QED
    BY <1>1, <2>2
<1> QED
  BY <1>1, <1>13, OnceIs DEF OnceInv, ReturningArrived

(* Every step keeps the strengthening. *)
LEMMA OnceStep == OnceInv /\ [Next]_vars => OnceInv'
<1> SUFFICES ASSUME OnceInv, [Next]_vars PROVE OnceInv'
  OBVIOUS
<1>1. CASE UNCHANGED vars
  BY <1>1, OnceIs DEF vars, places, histories, OnceInv, ReturningArrived
<1> QED
  BY <1>1, AdderKeepsOnce, ProcessorKeepsOnce, DeathKeepsOnce DEF Next

(* From add() to the end of its processing an event is lost only if an add of it
   failed, and doubled only if the process died between the end of a job and the
   record of it, in whatever order adds, re-adds and jobs interleave. *)
THEOREM OnceCorrect == Spec => []EveryEventOnce
<1>1. Spec => []OnceInv
  BY OnceInit, OnceStep, PTL DEF Spec
<1> QED
  BY <1>1, PTL DEF OnceInv
=============================================================================
