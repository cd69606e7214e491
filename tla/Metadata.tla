------------------------------ MODULE Metadata ------------------------------
(***************************************************************************)
(* The offchain-worker: jobs that fetch the metadata of cards, store it    *)
(* with the card and merge its attributes into the map that the collection *)
(* keeps of all attributes of its cards                                    *)
(* (offchain-worker/src/metadata/metadata.service.ts and its processor).   *)
(*                                                                         *)
(* Up to `concurrency` jobs run at once.  Each reads the collection when   *)
(* it starts, merges into this copy after several awaits, and writes the   *)
(* whole copy back.                                                        *)
(***************************************************************************)
EXTENDS Integers, Sequences, FiniteSets

CONSTANTS
    Cards,                \* the documents of cards there may be
    HasCollection(_),     \* whether a card document has a collection
    Attributes(_),        \* the attributes its metadata gives, in their order
    concurrency,          \* jobs the processor works on at once
    Undefined

VARIABLES
    jobs,            \* the metadata queue and the jobs, in the order they were added
    metadata,        \* the cards whose document has the metadata
    tokenUri,        \* the cards whose document has the address of it
    attributesMap,   \* the collection's map: label to [min, max, options]
    overwritten      \* history: cards whose attributes a later write did not know of

MetaInit ==
    /\ jobs = <<>>
    /\ metadata = {}
    /\ tokenUri = {}
    /\ attributesMap = <<>>
    /\ overwritten = {}

\* fetchMetadataQueue.add: a job and the locals it will have.  `copy` is the
\* collection it reads, `missed` (history) the cards merged by others since then.
NewJob(card) == [card |-> card, pc |-> "queued", copy |-> Undefined, missed |-> {}]

Active == {j \in DOMAIN jobs : jobs[j].pc \in {"fetch", "merge"}}

\* A job ends; the processor catches whatever loadMetadata throws, so that a job
\* that failed is complete as well.
Ended(j, outcome) ==
    jobs' = [jobs EXCEPT ![j] = [NewJob(@.card) EXCEPT !.pc = outcome]]
-----------------------------------------------------------------------------
(* reloadAttributeMap, on the copy.  An entry made by a number has a range   *)
(* that begins at 0 and no options, one made by a string has options and no  *)
(* range, any other has neither.                                             *)

LowerOf(x, v)  == IF x # Undefined /\ x < v THEN x ELSE v
HigherOf(x, v) == IF x # Undefined /\ x > v THEN x ELSE v

NewEntry(attr) ==
    [min |-> IF attr.type = "number" THEN 0 ELSE Undefined,
     max |-> IF attr.type = "number" THEN attr.value ELSE Undefined,
     options |-> IF attr.type = "string" THEN {attr.value} ELSE Undefined]

OldEntry(entry, attr) ==
    CASE attr.type = "number" -> [entry EXCEPT !.min = LowerOf(@, attr.value),
                                               !.max = HigherOf(@, attr.value)]
      [] attr.type = "string" -> [entry EXCEPT !.options = @ \union {attr.value}]
      [] OTHER -> entry

WithEntry(map, label, entry) ==
    [l \in DOMAIN map \union {label} |-> IF l = label THEN entry ELSE map[l]]

MergeReplacing(map, attr) ==  \* mistaken: the new entry takes the place of the old
    IF map = Undefined THEN Undefined ELSE WithEntry(map, attr.label, NewEntry(attr))

\* options.includes of an entry without options throws: the merge is then Undefined.
Merge(map, attr) ==
    IF map = Undefined THEN Undefined
    ELSE IF attr.label \notin DOMAIN map THEN WithEntry(map, attr.label, NewEntry(attr))
    ELSE IF attr.type = "string" /\ map[attr.label].options = Undefined THEN Undefined
    ELSE WithEntry(map, attr.label, OldEntry(map[attr.label], attr))

\* The loop over the attributes: merged[n] is the map after the first n.
reloadAttributeMap(map, attributes) ==
    LET merged[n \in 0 .. Len(attributes)] ==
            IF n = 0 THEN map ELSE Merge(merged[n - 1], attributes[n])
    IN  merged[Len(attributes)]
-----------------------------------------------------------------------------
(* loadMetadata, one action for each stretch between two awaits that read or *)
(* write a document.                                                         *)

LoadCardUnbounded(j) ==  \* mistaken: as many at once as there are
    /\ jobs[j].pc = "queued"
    /\ HasCollection(jobs[j].card)
    /\ jobs' = [jobs EXCEPT ![j].pc = "fetch", ![j].copy = attributesMap]
    /\ UNCHANGED <<metadata, tokenUri, attributesMap, overwritten>>

\* The card and, with it, its collection are read.
LoadCard(j) ==
    /\ jobs[j].pc = "queued"
    /\ \A k \in 1 .. j - 1 : jobs[k].pc # "queued"
    /\ Cardinality(Active) < concurrency
    /\ HasCollection(jobs[j].card)
    /\ jobs' = [jobs EXCEPT ![j].pc = "fetch", ![j].copy = attributesMap]
    /\ UNCHANGED <<metadata, tokenUri, attributesMap, overwritten>>

\* A card without a collection: reading `standard` of it throws.
NoCollection(j) ==
    /\ jobs[j].pc = "queued"
    /\ \A k \in 1 .. j - 1 : jobs[k].pc # "queued"
    /\ Cardinality(Active) < concurrency
    /\ ~HasCollection(jobs[j].card)
    /\ Ended(j, "noCollection")
    /\ UNCHANGED <<metadata, tokenUri, attributesMap, overwritten>>

\* The contract gives no address.
NoUri(j) ==
    /\ jobs[j].pc = "fetch"
    /\ Ended(j, "noUri")
    /\ UNCHANGED <<metadata, tokenUri, attributesMap, overwritten>>

\* The metadata cannot be read, or not be fetched: only its address is stored.
NotFetched(j) ==
    /\ jobs[j].pc = "fetch"
    /\ tokenUri' = tokenUri \union {jobs[j].card}
    /\ Ended(j, "notFetched")
    /\ UNCHANGED <<metadata, attributesMap, overwritten>>

\* The metadata has been fetched and is stored with the card.
StoreMetadata(j) ==
    /\ jobs[j].pc = "fetch"
    /\ jobs' = [jobs EXCEPT ![j].pc = "merge"]
    /\ tokenUri' = tokenUri \union {jobs[j].card}
    /\ metadata' = metadata \union {jobs[j].card}
    /\ UNCHANGED <<attributesMap, overwritten>>

Merged(j) == reloadAttributeMap(jobs[j].copy, Attributes(jobs[j].card))

\* The copy, with the attributes of this card, replaces the collection.
StoreMap(j) ==
    /\ jobs[j].pc = "merge"
    /\ Merged(j) # Undefined
    /\ attributesMap' = Merged(j)
    /\ overwritten' = (overwritten \union jobs[j].missed) \ {jobs[j].card}
    /\ jobs' = [k \in DOMAIN jobs |->
                   IF k = j THEN [NewJob(jobs[j].card) EXCEPT !.pc = "done"]
                   ELSE IF k \in Active
                        THEN [jobs[k] EXCEPT !.missed = @ \union {jobs[j].card}]
                        ELSE jobs[k]]
    /\ UNCHANGED <<metadata, tokenUri>>

\* A string where the map has a number: the merge throws, nothing of it is stored.
MergeThrows(j) ==
    /\ jobs[j].pc = "merge"
    /\ Merged(j) = Undefined
    /\ Ended(j, "mixed")
    /\ UNCHANGED <<metadata, tokenUri, attributesMap, overwritten>>

fetchHandle(j) ==
    \/ LoadCard(j) \/ NoCollection(j)
    \/ NoUri(j) \/ NotFetched(j) \/ StoreMetadata(j)
    \/ StoreMap(j) \/ MergeThrows(j)
-----------------------------------------------------------------------------
Outcomes == {"noCollection", "noUri", "notFetched", "done", "mixed"}

\* What the map has to say of an attribute: a string is among the options, a
\* number within the range.  A negative number may be out of it: the first number
\* of a label sets the lower end to 0.
Covers(map, attr) ==
    attr.label \in DOMAIN map /\ LET entry == map[attr.label] IN
        CASE attr.type = "string" -> entry.options # Undefined /\ attr.value \in entry.options
          [] attr.type = "number" -> attr.value >= 0 =>
                 /\ Undefined \notin {entry.min, entry.max}
                 /\ entry.min <= attr.value /\ attr.value <= entry.max
          [] OTHER -> TRUE

\* The attributes of every card whose job is done can be found in the map of its
\* collection, unless a job that had read the collection before wrote it after
\* (reloadAttributeMap, metadata.service.ts:140-184).
AttributesKept ==
    \A j \in DOMAIN jobs : jobs[j].pc = "done" /\ jobs[j].card \notin overwritten =>
        \A i \in DOMAIN Attributes(jobs[j].card) :
            Covers(attributesMap, Attributes(jobs[j].card)[i])
=============================================================================
