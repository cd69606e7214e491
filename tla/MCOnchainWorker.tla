--------------------------- MODULE MCOnchainWorker ---------------------------
(* Instances of OnchainWorker small enough for TLC. *)
EXTENDS OnchainWorker

MCInitHead == {2}
MCInitHeadDelayed == {3}
MCStarts == {1, 2}
MCStartsFirst == {1}
=============================================================================
