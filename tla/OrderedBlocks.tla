---------------------------- MODULE OrderedBlocks ----------------------------
(***************************************************************************)
(* What one indexer worker promises about a chain, with no buffers, loops  *)
(* or requests: from the block it starts at, the worker handles the blocks *)
(* of the chain one at a time, in the order of their numbers, without      *)
(* leaving one out, and never one that is closer to the head of the chain  *)
(* than the configured delay.                                              *)
(***************************************************************************)
EXTENDS Integers

CONSTANTS
  DelayBlock,  (* blocks at the head of the chain that must not be handled *)
  MaxHead      (* bound on the height of the chain                         *)

VARIABLES
  head,   (* number of the newest accepted block of the chain *)
  first,  (* the block the worker starts at                   *)
  done    (* the numbers of the blocks handled                *)

avars == <<head, first, done>>

AInit == /\ head \in Nat
         /\ first \in Nat
         /\ done = {}

(* The chain grows by one block; nothing the worker does influences it. *)
Grow == /\ head < MaxHead
        /\ head' = head + 1
        /\ UNCHANGED <<first, done>>

(* The worker finishes the lowest block it has not handled yet. *)
Handle(n) == /\ n \notin done
             /\ first .. (n - 1) \subseteq done
             /\ done \subseteq first .. (n - 1)
             /\ done' = done \union {n}
             /\ UNCHANGED <<head, first>>

ANext == Grow \/ \E n \in first .. (head - DelayBlock) : Handle(n)

ASpec == AInit /\ [][ANext]_avars
=============================================================================
