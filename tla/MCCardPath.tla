----------------------------- MODULE MCCardPath -----------------------------
(* Chains of two or three transactions, each chosen so that what they log meets in   *)
(* one history record, one card or one map of attributes.                   *)
EXTENDS CardPath

Log(topic, contract, from, to, ids) ==
    [topic |-> topic, contract |-> contract, from |-> from, to |-> to,
     cards |-> ids, readable |-> TRUE]
Single(from, to, id)  == Log("TRANSFER_SINGLE", cardsContract, from, to, <<id>>)
Batch(from, to, ids)  == Log("TRANSFER_BATCH", cardsContract, from, to, ids)
Garbled(log)          == [log EXCEPT !.readable = FALSE]
Success(logs)         == [success |-> TRUE, logs |-> logs]

MCUsers == {"zero", "u", "v", "w"}
MCCardIds == {"a", "b", "c"}
MCFuel == {"fuel"}

Number(l, n) == [label |-> l, type |-> "number", value |-> n]
Text(l, t)   == [label |-> l, type |-> "string", value |-> t]

\* "a" and "b" share a label, "c" has a text where "a" has a number.
MCAttributesOf ==
    "a" :> <<Number("power", 5), Text("kind", "fire")>>
    @@ "b" :> <<Text("kind", "ice"), Number("power", 7)>>
    @@ "c" :> <<Text("power", "x"), Number("age", -1)>>

MCReceipts == {
    \* two mints in one transaction; one of the cards is passed on
    <<Success(<<Single("zero", "u", "a"), Single("zero", "v", "b")>>),
      Success(<<Single("u", "w", "a")>>)>>,
    \* cards whose attributes do not agree; one is burnt, and one log is garbled
    <<Success(<<Single("zero", "u", "a"), Single("zero", "v", "c")>>),
      Success(<<Single("v", "zero", "c"), Garbled(Single("u", "v", "a"))>>)>>,
    \* a claim with the mint of its card; a join with its transfer of points
    <<Success(<<Single("zero", "u", "a"), Log("CLAIM_REWARD", "fuel", "u", "u", <<"a">>),
                Log("ADD_POINT", bliztContract, "u", "u", <<>>)>>),
      Success(<<Log("TRANSFER_POINT", bliztContract, "u", "v", <<>>),
                Log("JOINING_POOL", "fuel", "u", "u", <<>>),
                Log("TRANSFER_SINGLE", "elsewhere", "u", "v", <<"b">>)>>)>>,
    \* a batch of two cards, of which the owner can have one, and one with the same
    \* card twice, which comes back to its owner
    <<Success(<<Batch("zero", "w", <<"a", "b">>)>>),
      Success(<<Single("zero", "v", "a"), Batch("v", "v", <<"a", "a">>)>>)>>,
    \* a transaction that failed, and one with a log that cannot be decoded
    <<[success |-> FALSE, logs |-> <<Single("zero", "u", "a")>>],
      Success(<<Single("zero", "u", "b"), Garbled(Log("CREATE_POOL", "fuel", "u", "u", <<>>))>>),
      Success(<<Single("zero", "v", "c"), Log("CREATE_POOL", "fuel", "u", "u", <<>>)>>)>>}
=============================================================================
