-------------------------- MODULE QueueBackpressure --------------------------
(***************************************************************************)
(* One Bull queue between the onchain worker and its processor.  The       *)
(* transactions that add events (OnchainWorkerQueueService.add,            *)
(* packages/onchain-worker/src/queue/onchainWorkerQueue.ts) ask for its    *)
(* length first, wait while it is above queueMaxSize, and add afterwards.  *)
(* The processor (packages/onchain-queue/src/queues/*/processors) works on *)
(* `concurrency` jobs at a time; a job that failed ten times adds its      *)
(* event to the queue again, without asking and without waiting for the    *)
(* answer: Bull may record the job as complete before the new one is in    *)
(* the queue, and the new one may never get there.  A job whose chain      *)
(* cannot be read fails, and Bull gives it another of its `attempts`.      *)
(* The processor's process may die; Bull finds its jobs stalled and hands  *)
(* them out again, once.                                                   *)
(*                                                                         *)
(* Redis and Bull are external: sets of jobs, and what Bull does with a    *)
(* job whose processor throws (shared/constants/queue.ts:25-35) or dies.   *)
(***************************************************************************)
EXTENDS Integers, FiniteSets

CONSTANTS
  Events,        (* the events of this queue                               *)
  Copies,        (* tells the jobs of one event apart, for Bull their ids  *)
  Callers,       (* transactions that can be in add() at one time          *)
  queueMaxSize,  (* the length above which add() waits                     *)
  concurrency,   (* jobs the processor works on at a time                  *)
  attempts,      (* times Bull tries a job whose processor throws          *)
  MaxFaults      (* bound: deaths, failed adds, adds that came too late    *)

ASSUME QueueAssumption ==
  /\ queueMaxSize \in Nat /\ Callers \in Nat
  /\ concurrency \in Nat /\ attempts \in Nat \ {0} /\ MaxFaults \in Nat

VARIABLES
  looking,    (* events whose add() has not found room yet                 *)
  adding,     (* events whose add() has found room                         *)
  waiting,    (* jobs nobody works on, delayed ones included               *)
  working,    (* jobs the processor works on                               *)
  returning,  (* jobs the processor is done with, not yet recorded complete *)
  readding,   (* jobs whose event the processor is adding again            *)
  stalled,    (* jobs of a process that died                               *)
  deaths,     (* how often it died                                         *)
  handled,    (* history: events processed                                 *)
  dropped,    (* history: events of jobs Bull gave up                      *)
  failed,     (* history: events of an add that threw or never ended       *)
  outrun,     (* history: events of jobs complete before their re-add was  *)
  repeated,   (* history: events of jobs tried again after they were done  *)
  arrived     (* history: events a transaction had for this queue          *)

places == <<waiting, working, returning, readding, stalled, deaths>>
histories == <<handled, dropped, failed, outrun, repeated, arrived>>
vars == <<looking, adding, places, histories>>

(* A job: its event, which of the event's jobs it is, how many of its attempts
   have failed, and whether it has stalled before. *)
Jobs == [ev : Events, copy : Copies, made : 0 .. (attempts - 1), stalls : 0 .. 1]
EventsOf(J) == {j.ev : j \in J}
Alive == waiting \union working \union returning \union readding \union stalled

(* eventQueue.add() has put a new job for e into the queue. *)
FreeCopies(e) == {c \in Copies : \A j \in Alive : j.ev = e => j.copy # c}
NewJob(e) == [ev |-> e, copy |-> CHOOSE c \in FreeCopies(e) : TRUE, made |-> 0, stalls |-> 0]
Lands(e) == FreeCopies(e) # {} /\ waiting' = waiting \union {NewJob(e)}

(* A bound, see MaxFaults. *)
MayFail == deaths + Cardinality(failed) + Cardinality(outrun) < MaxFaults

Init == /\ looking = {} /\ adding = {} /\ waiting = {} /\ working = {}
        /\ returning = {} /\ readding = {} /\ stalled = {} /\ deaths = 0
        /\ handled = {} /\ dropped = {} /\ failed = {} /\ outrun = {}
        /\ repeated = {} /\ arrived = {}

(* A transaction has an event for this queue; it adds one event at a time. *)
Arrive(e) ==
  /\ e \notin arrived
  /\ Cardinality(looking) + Cardinality(adding) < Callers
  /\ arrived' = arrived \union {e}
  /\ looking' = looking \union {e}
  /\ UNCHANGED <<adding, places, handled, dropped, failed, outrun, repeated>>

(* add(): await eventQueue.count() answers, and the answer is not above the
   limit.  An answer above it leads to delay(1) and another look. *)
FindRoom(e) ==
  /\ e \in looking
  /\ Cardinality(waiting) <= queueMaxSize
  /\ looking' = looking \ {e} /\ adding' = adding \union {e}
  /\ UNCHANGED <<places, histories>>

(* add(): await eventQueue.add(). *)
Add(e) ==
  /\ e \in adding
  /\ adding' = adding \ {e}
  /\ Lands(e)
  /\ UNCHANGED <<looking, working, returning, readding, stalled, deaths, histories>>

(* add(): count() or add() throws, and the catch logs it and throws it on, to
   the transaction.  An add() whose answer got lost has put the job into the
   queue.  For the queue, the end of the worker's process is no different. *)
AddThrows(e) ==
  /\ e \in looking \union adding /\ MayFail
  /\ looking' = looking \ {e} /\ adding' = adding \ {e}
  /\ failed' = failed \union {e}
  /\ \/ UNCHANGED waiting
     \/ e \in adding /\ Lands(e)
  /\ UNCHANGED <<working, returning, readding, stalled, deaths,
                 handled, dropped, outrun, repeated, arrived>>

(* Mistaken: a job whose processor returned no longer counts as worked on. *)
TakeEagerly(j) ==
  /\ j \in waiting
  /\ Cardinality(working) < concurrency
  /\ waiting' = waiting \ {j} /\ working' = working \union {j}
  /\ UNCHANGED <<looking, adding, returning, readding, stalled, deaths, histories>>

(* The processor is given a job. *)
Take(j) ==
  /\ j \in waiting
  /\ Cardinality(working) + Cardinality(returning) < concurrency
  /\ waiting' = waiting \ {j} /\ working' = working \union {j}
  /\ UNCHANGED <<looking, adding, returning, readding, stalled, deaths, histories>>

(* processEvent succeeded at one of its ten attempts: the processor returns. *)
Succeed(j) ==
  /\ j \in working
  /\ working' = working \ {j} /\ returning' = returning \union {j}
  /\ handled' = handled \union {j.ev}
  /\ UNCHANGED <<looking, adding, waiting, readding, stalled, deaths,
                 dropped, failed, outrun, repeated, arrived>>

(* Mistaken: the catch logs the failure and adds nothing. *)
AddAgainNot(j) ==
  /\ j \in working
  /\ working' = working \ {j} /\ returning' = returning \union {j}
  /\ UNCHANGED <<looking, adding, waiting, readding, stalled, deaths, histories>>

(* Mistaken: the catch adds the event and throws on, so that Bull tries the old
   job again as well. *)
AddAgainAndThrow(j) ==
  /\ j \in working
  /\ working' = working \ {j} /\ waiting' = waiting \union {j}
  /\ readding' = readding \union {j}
  /\ UNCHANGED <<looking, adding, returning, stalled, deaths, histories>>

(* All ten attempts failed: the catch calls add() for the event, does not wait
   for it, and the processor returns. *)
AddAgain(j) ==
  /\ j \in working
  /\ working' = working \ {j} /\ returning' = returning \union {j}
  /\ readding' = readding \union {j}
  /\ UNCHANGED <<looking, adding, waiting, stalled, deaths, histories>>
(* That add() has put the new job into the queue... *)
AddAgainLands(j) ==
  /\ j \in readding
  /\ readding' = readding \ {j}
  /\ Lands(j.ev)
  /\ UNCHANGED <<looking, adding, working, returning, stalled, deaths, histories>>
(* ...or is rejected, and nobody handles the rejection. *)
AddAgainRejected(j) ==
  /\ j \in readding /\ MayFail
  /\ readding' = readding \ {j} /\ failed' = failed \union {j.ev}
  /\ UNCHANGED <<looking, adding, waiting, working, returning, stalled, deaths,
                 handled, dropped, outrun, repeated, arrived>>

(* Bull records that the job is complete and removes it. *)
Finish(j) ==
  /\ j \in returning /\ (j \in readding => MayFail)
  /\ returning' = returning \ {j}
  /\ outrun' = outrun \union EventsOf({j} \intersect readding)
  /\ UNCHANGED <<looking, adding, waiting, working, readding, stalled, deaths,
                 handled, dropped, failed, repeated, arrived>>

(* chainModel.findOne() threw, outside of the try: Bull delays the job and tries
   it again, or keeps it as failed after its last attempt. *)
LookupFails(j) ==
  /\ j \in working
  /\ working' = working \ {j}
  /\ IF j.made + 1 < attempts
     THEN /\ waiting' = waiting \union {[j EXCEPT !.made = @ + 1]}
          /\ dropped' = dropped
     ELSE waiting' = waiting /\ dropped' = dropped \union {j.ev}
  /\ UNCHANGED <<looking, adding, returning, readding, stalled, deaths,
                 handled, failed, outrun, repeated, arrived>>

(* The processor's process ends, after an unhandled rejection or for any other
   reason: adds under way are cut off, and the jobs it had not completed are
   nobody's, those among them it was done with. *)
Dies ==
  /\ MayFail
  /\ deaths' = deaths + 1
  /\ stalled' = stalled \union working \union returning
  /\ working' = {} /\ returning' = {} /\ readding' = {}
  /\ failed' = failed \union EventsOf(readding \ returning)
  /\ repeated' = repeated \union EventsOf(returning \ readding)
  /\ UNCHANGED <<looking, adding, waiting, handled, dropped, outrun, arrived>>

(* Bull finds a stalled job: it waits again, or is given up when it has stalled
   before (maxStalledCount). *)
FindStalled(j) ==
  /\ j \in stalled
  /\ stalled' = stalled \ {j}
  /\ IF j.stalls = 0
     THEN waiting' = waiting \union {[j EXCEPT !.stalls = 1]} /\ dropped' = dropped
     ELSE waiting' = waiting /\ dropped' = dropped \union {j.ev}
  /\ UNCHANGED <<looking, adding, working, returning, readding, deaths,
                 handled, failed, outrun, repeated, arrived>>

Adder(e) == Arrive(e) \/ FindRoom(e) \/ Add(e) \/ AddThrows(e)
Processor(j) ==
  \/ Take(j) \/ Succeed(j) \/ LookupFails(j) \/ Finish(j) \/ FindStalled(j)
  \/ AddAgain(j) \/ AddAgainLands(j) \/ AddAgainRejected(j)
Next == (\E e \in Events : Adder(e)) \/ (\E j \in Jobs : Processor(j)) \/ Dies

Spec == Init /\ [][Next]_vars

(* add() goes on looking, and Bull hands out jobs first come first served: one
   that finds room again and again gets it in the end.  A job that is tried
   again and again succeeds in the end, and so do some of several such jobs.
   Calls of Redis end, Bull records what is complete and looks for stalled jobs.
   No action tells the events apart: one of them stands for all, and of the others
   less is asked. *)
Traced == CHOOSE e \in Events : TRUE
Fairness ==
  /\ SF_vars(FindRoom(Traced)) /\ WF_vars(Add(Traced))
  /\ SF_vars(\E j \in waiting : j.ev = Traced /\ Take(j))
  /\ SF_vars(\E j \in working : j.ev = Traced /\ Succeed(j))
  /\ WF_vars(\E j \in readding : j.ev = Traced /\ (AddAgainLands(j) \/ AddAgainRejected(j)))
  /\ WF_vars(\E j \in stalled : j.ev = Traced /\ FindStalled(j))
  /\ WF_vars(\E j \in waiting : Take(j))
  /\ SF_vars(\E j \in working : Succeed(j))
  /\ WF_vars(\E j \in readding : AddAgainLands(j) \/ AddAgainRejected(j))
  /\ WF_vars(\E j \in returning : Finish(j))
FairSpec == Spec /\ Fairness
-----------------------------------------------------------------------------
(* Types, and the processor's limit: the jobs worked on and those about to
   return are never more than `concurrency`. *)
TypeOK ==
  /\ looking \subseteq Events /\ adding \subseteq Events
  /\ waiting \subseteq Jobs /\ working \subseteq Jobs
  /\ returning \subseteq Jobs /\ readding \subseteq Jobs /\ stalled \subseteq Jobs
  /\ deaths \in Nat
  /\ Cardinality(working) + Cardinality(returning) <= concurrency
  /\ handled \subseteq Events /\ dropped \subseteq Events /\ failed \subseteq Events
  /\ outrun \subseteq Events /\ repeated \subseteq Events /\ arrived \subseteq Events

(* The length is read before an await and not again, and the processor's own
   adds and Bull's retries are not limited at all; still the queue cannot outgrow
   queueMaxSize by more than one job per transaction in add(), and for each job
   the processor can work on one, and one for each death
   (onchainWorkerQueue.ts:16-30).  Jobs are not counted if their event was once
   added again so late that its job was complete before: the processor goes on to
   the next one then, and any number of adds can be under way. *)
Counted(J) == {j \in J : j.ev \notin outrun}
QueueBounded ==
  Cardinality(Counted(waiting)) + Cardinality(Counted(working))
      + Cardinality(Counted(readding)) + Cardinality(Counted(stalled)) + Cardinality(adding)
    <= queueMaxSize + concurrency * (1 + deaths) + Callers

(* Between add() and the processor no event gets lost but for an add that failed:
   an event that arrived has a job, or an add under way, or has been processed or
   given up.  And none is doubled but by a death between the end of its
   processing and the record of it: it is in one of those places only, with one
   job (BliztPoint.processor.ts:27-37). *)
Spots == <<looking, adding, EventsOf(waiting), EventsOf(stalled), EventsOf(working),
           EventsOf(readding), handled, dropped>>
OneJobEach(J) == \A j, k \in J : j.ev = k.ev => j = k \/ j.ev \in repeated
Settled == handled \union dropped
EveryEventOnce ==
  /\ arrived = failed \union UNION {Spots[m] : m \in 1 .. 8}
  /\ \A m, n \in 1 .. 8 : m < n => Spots[m] \intersect Spots[n] \subseteq repeated
  /\ OneJobEach(waiting) /\ OneJobEach(stalled)
  /\ OneJobEach(working) /\ OneJobEach(readding)

(* Every event is processed or given up in the end, unless an add of it failed,
   though failing jobs go to the end of the queue again and a full queue keeps
   transactions waiting. *)
EveryEventHandled == Traced \in arrived ~> Traced \in Settled \union failed
=============================================================================
