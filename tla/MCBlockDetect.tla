---------------------------- MODULE MCBlockDetect ----------------------------
(* Instances of BlockDetect small enough for TLC.  MCBody: block 1 has one
   transaction with two events, block 2 two transactions, the one after it none.
   MCBodyThin: one transaction in each of three blocks. *)
EXTENDS BlockDetect

CONSTANTS a, b, c, d

MCBody == [h \in 1 .. (MaxHead + 1) |->
             CASE h = 1 -> <<a>> [] h = 2 -> <<b, c>> [] OTHER -> <<>>]
MCBodyThin == [h \in 1 .. (MaxHead + 1) |->
                 CASE h = 1 -> <<a>> [] h = 2 -> <<b>> [] h = 3 -> <<d>> [] OTHER -> <<>>]
MCTx == {a, b, c}
MCTxThin == {a, b, d}
MCEvents == [t \in Tx |-> IF t = a THEN 2 ELSE 1]
MCInitHead == {1}
MCStarts == {1}
=============================================================================
