----------------------------- MODULE LedgerProofs -----------------------------
(***************************************************************************)
(* The consumers of packages/onchain-queue, for any users, pools, cards    *)
(* and chains of events, and any number of failures:                       *)
(*   - Known, what the documents refer to, what each job has found on its  *)
(*     way and which accounts it may hold: inductive by itself             *)
(*     (TypeCorrect);                                                      *)
(*   - Requested, the cards whose metadata is still to be asked for        *)
(*     (MetadataCorrect);                                                  *)
(*   - Correct: the documents show the sum of the legs of the events       *)
(*     passed, and a job that holds an account has read that sum, so that  *)
(*     what it writes is the sum with its own leg (PointsCorrect,          *)
(*     StakesCorrect, CardsCorrect).  The accounts lost, doubled, guessed  *)
(*     or late are left out; each step that could make another account     *)
(*     differ is shown to put it there.                                    *)
(* Sums over finite sets come first: what Total computes is shown by       *)
(* taking the least set on which it would not.                             *)
(***************************************************************************)
EXTENDS Ledger, FiniteSetTheorems, WellFoundedInduction, TLAPS

(* The step at a place of a program, and the one a job is at. *)
StepAt(e, p) == IF p = End(e) THEN "end" ELSE Steps(e)[p]
Now(e) == StepAt(e, pc[e])

(* The types: of the locals of a job, of the chain, of the documents, of places and holds. *)
Mem == [user : Int \union {None}, new : Int \union {None, Ask}, stake : Int \union {None},
        card : CardDoc \union {None}, fromCard : CardDoc \union {None}]
ChainTypes == chain \in Chains /\ mined \in 0 .. Len(chain)
DocTypes ==
  /\ DOMAIN points \subseteq Users /\ \A u \in DOMAIN points : points[u] \in Int
  /\ pools \subseteq Pools
  /\ DOMAIN stakes \subseteq Pools \X Users /\ \A k \in DOMAIN stakes : stakes[k] \in Int
  /\ DOMAIN cards \subseteq FiledCards \X Users /\ \A k \in DOMAIN cards : cards[k] \in CardDoc
  /\ history \subseteq Events
PcTypes == pc \in [Events -> Nat] /\ \A e \in Events : pc[e] \in 1 .. End(e)
MemTypes == mem \in [Events -> Mem]
HeldTypes ==
  /\ DOMAIN held = Events
  /\ \A e \in Events : held[e] \in [DOMAIN held[e] -> BOOLEAN]
LTypes == ChainTypes /\ DocTypes /\ PcTypes /\ MemTypes /\ HeldTypes
-----------------------------------------------------------------------------
(* Sums over finite sets of legs. *)
Some(s) == CHOOSE el \in s : TRUE
Sums(S, g) ==
  g = [s \in SUBSET S |-> IF s = {} THEN 0 ELSE Some(s)[2][3] + g[s \ {Some(s)}]]

(* A set of numbers has a least one. *)
LEMMA LeastNatural ==
  ASSUME NEW S \in SUBSET Nat, S # {}
  PROVE  \E c \in S : \A d \in S : c <= d
<1> DEFINE Less == {p \in Nat \X Nat : p[1] < p[2]}
<1>1. IsWellFoundedOn(Less, Nat)  BY NatLessThanWellFounded DEF OpToRel
<1> HIDE DEF Less
<1>2. \E c \in S : \A d \in S : <<d, c>> \notin Less  BY <1>1, WFMin
<1>3. \A c, d \in Nat : <<d, c>> \notin Less => c <= d  BY DEF Less
<1> QED BY <1>2, <1>3, \A c \in S : c \in Nat

(* Of the finite sets for which something fails, one has no smaller one among them. *)
LEMMA SmallestSet ==
  ASSUME NEW B, B # {}, \A s \in B : IsFiniteSet(s)
  PROVE  \E s \in B : \A t \in B : Cardinality(s) <= Cardinality(t)
<1> DEFINE N == {Cardinality(s) : s \in B}
<1>1. N \in SUBSET Nat /\ N # {}  BY FS_CardinalityType
<1>2. PICK c \in N : \A d \in N : c <= d  BY <1>1, LeastNatural
<1> QED BY <1>2

(* Taking one element out of a finite set leaves a smaller one. *)
LEMMA SomeFacts ==
  ASSUME NEW s, s # {}, IsFiniteSet(s)
  PROVE  /\ Some(s) \in s /\ IsFiniteSet(s \ {Some(s)})
         /\ Cardinality(s \ {Some(s)}) = Cardinality(s) - 1
         /\ Cardinality(s) \in Nat /\ Cardinality(s) # 0
<1>1. Some(s) \in s  BY DEF Some
<1> QED BY <1>1, FS_RemoveElement, FS_EmptySet, FS_CardinalityType

(* The recursion that Total stands for has a value: take the least number of elements
   for which it has none ... *)
SumsUpTo(S, n, g) ==
  \A s \in SUBSET S : Cardinality(s) <= n =>
     g[s] = IF s = {} THEN 0 ELSE Some(s)[2][3] + g[s \ {Some(s)}]

(* ... of which there is none: every finite set has such a table of sums. *)
LEMMA SumsExist ==
  ASSUME NEW S, IsFiniteSet(S)
  PROVE  \E g : Sums(S, g)
<1>0. \A s \in SUBSET S : IsFiniteSet(s) /\ Cardinality(s) \in Nat /\ Cardinality(s) <= Cardinality(S)
  BY FS_Subset, FS_CardinalityType
<1> DEFINE Bad == {n \in Nat : ~ \E g : SumsUpTo(S, n, g)}
<1>1. Bad = {}
  <2> SUFFICES ASSUME Bad # {} PROVE FALSE  OBVIOUS
  <2>1. PICK m \in Bad : \A n \in Bad : m <= n  BY LeastNatural
  <2>2. PICK h : \A s \in SUBSET S : s # {} /\ Cardinality(s) <= m =>
            h[s \ {Some(s)}] = IF s \ {Some(s)} = {} THEN 0
                       ELSE Some(s \ {Some(s)})[2][3] + h[(s \ {Some(s)}) \ {Some(s \ {Some(s)})}]
    <3>1. CASE m = 0
      <4>1. ASSUME NEW s \in SUBSET S, s # {}, Cardinality(s) <= m  PROVE FALSE
        <5>1. IsFiniteSet(s)  BY <1>0
        <5>2. Cardinality(s) \in Nat /\ Cardinality(s) # 0  BY <4>1, <5>1, SomeFacts
        <5> QED BY <3>1, <4>1, <5>2
      <4> QED BY <4>1
    <3>2. CASE m # 0
      <4>1. m - 1 \in Nat /\ m - 1 \notin Bad  BY <2>1, <3>2
      <4>2. PICK h : SumsUpTo(S, m - 1, h)  BY <4>1
      <4>3. \A s \in SUBSET S : s # {} /\ Cardinality(s) <= m =>
               s \ {Some(s)} \in SUBSET S /\ Cardinality(s \ {Some(s)}) <= m - 1
        BY <1>0, SomeFacts
      <4> QED BY <4>2, <4>3 DEF SumsUpTo
    <3> QED BY <3>1, <3>2
  <2> DEFINE g == [s \in SUBSET S |-> IF s = {} THEN 0 ELSE Some(s)[2][3] + h[s \ {Some(s)}]]
  <2>3. SumsUpTo(S, m, g)
    <3> SUFFICES ASSUME NEW s \in SUBSET S, Cardinality(s) <= m
                 PROVE  g[s] = IF s = {} THEN 0 ELSE Some(s)[2][3] + g[s \ {Some(s)}]
      BY DEF SumsUpTo
    <3>1. CASE s = {}  BY <3>1
    <3>2. CASE s # {}
      <4>1. PICK t : t = s \ {Some(s)}  OBVIOUS
      <4>2. h[t] = IF t = {} THEN 0 ELSE Some(t)[2][3] + h[t \ {Some(t)}]
        BY <2>2, <3>2, <4>1
      <4>3. t \in SUBSET S  BY <4>1
      <4>4. g[t] = h[t]  BY <4>2, <4>3
      <4> QED BY <3>2, <4>1, <4>4
    <3> QED BY <3>1, <3>2
  <2> HIDE DEF g
  <2>4. m \in Nat  OBVIOUS
  <2> QED BY <2>1, <2>3, <2>4
<1>2. PICK n : n = Cardinality(S) /\ n \in Nat  BY <1>0
<1>3. PICK h : SumsUpTo(S, n, h)  BY <1>1, <1>2
<1> DEFINE g == [s \in SUBSET S |-> h[s]]
<1>4. \A s \in SUBSET S : g[s] = IF s = {} THEN 0 ELSE Some(s)[2][3] + g[s \ {Some(s)}]
  <2> TAKE s \in SUBSET S
  <2>1. Cardinality(s) <= n  BY <1>0, <1>2
  <2>2. h[s] = IF s = {} THEN 0 ELSE Some(s)[2][3] + h[s \ {Some(s)}]
    BY <1>3, <2>1 DEF SumsUpTo
  <2>3. s \ {Some(s)} \in SUBSET S  OBVIOUS
  <2> QED BY <2>2, <2>3
<1>5. g = [s \in SUBSET S |-> g[s]]  OBVIOUS
<1> HIDE DEF g
<1>6. Sums(S, g)  BY <1>4, <1>5 DEF Sums
<1> QED BY <1>6

(* ... and the same on a set and on its subsets. *)
LEMMA SumsAgree ==
  ASSUME NEW S, IsFiniteSet(S), NEW T \in SUBSET S, NEW g, NEW h, Sums(S, g), Sums(T, h)
  PROVE  \A s \in SUBSET T : g[s] = h[s]
<1> DEFINE Bad == {s \in SUBSET T : g[s] # h[s]}
<1> SUFFICES ASSUME Bad # {} PROVE FALSE  OBVIOUS
<1>1. \A s \in Bad : IsFiniteSet(s)  BY FS_Subset
<1> HIDE DEF Bad
<1>2. PICK s \in Bad : \A t \in Bad : Cardinality(s) <= Cardinality(t)  BY <1>1, SmallestSet
<1>3. s \in SUBSET T /\ s \in SUBSET S /\ g[s] # h[s] /\ IsFiniteSet(s)  BY <1>1 DEF Bad
<1>4. g[s] = IF s = {} THEN 0 ELSE Some(s)[2][3] + g[s \ {Some(s)}]  BY <1>3 DEF Sums
<1>5. h[s] = IF s = {} THEN 0 ELSE Some(s)[2][3] + h[s \ {Some(s)}]  BY <1>3 DEF Sums
<1>6. s # {}  BY <1>3, <1>4, <1>5
<1>7. s \ {Some(s)} \in Bad  BY <1>3, <1>4, <1>5, <1>6 DEF Bad
<1>8. ~ (Cardinality(s) <= Cardinality(s \ {Some(s)}))  BY <1>3, <1>6, SomeFacts
<1> QED BY <1>2, <1>7, <1>8

(* So Total does what its name says, one element at a time. *)
LEMMA TotalFacts ==
  ASSUME NEW S, IsFiniteSet(S)
  PROVE  /\ S = {} => Total(S) = 0
         /\ S # {} => Total(S) = Some(S)[2][3] + Total(S \ {Some(S)})
<1> DEFINE F(s) == CHOOSE g : Sums(s, g)
<1>1. \A s : Total(s) = F(s)[s]
  BY DEF Total, MapThenSumSet, MapThenFoldSet, Sums, Some
<1>2. \A s : IsFiniteSet(s) => Sums(s, F(s))  BY SumsExist
<1>3. Sums(S, F(S))  BY <1>2
<1>4. CASE S = {}
  <2>1. F(S)[S] = 0  BY <1>3, <1>4 DEF Sums
  <2> QED BY <1>1, <1>4, <2>1
<1>5. CASE S # {}
  <2>1. PICK t : t = S \ {Some(S)}  OBVIOUS
  <2>2. IsFiniteSet(t) /\ t \in SUBSET S  BY <1>5, <2>1, FS_Subset
  <2>3. F(S)[S] = Some(S)[2][3] + F(S)[t]  BY <1>3, <1>5, <2>1 DEF Sums
  <2>4. F(S)[t] = F(t)[t]
    <3>1. Sums(t, F(t))  BY <1>2, <2>2
    <3> HIDE DEF F
    <3> QED BY <1>3, <2>2, <3>1, SumsAgree
  <2> QED BY <1>1, <1>5, <2>1, <2>3, <2>4
<1> QED BY <1>4, <1>5

(* Legs with amounts. *)
Amounts(S) == IsFiniteSet(S) /\ \A el \in S : el[2][3] \in Int

(* The total of finitely many amounts is a number. *)
LEMMA TotalType ==
  ASSUME NEW S, Amounts(S)
  PROVE  Total(S) \in Int
<1> DEFINE Bad == {s \in SUBSET S : Total(s) \notin Int}
<1> SUFFICES ASSUME Bad # {} PROVE FALSE  OBVIOUS
<1>1. \A s \in Bad : IsFiniteSet(s)  BY FS_Subset DEF Amounts
<1> HIDE DEF Bad
<1>2. PICK s \in Bad : \A t \in Bad : Cardinality(s) <= Cardinality(t)  BY <1>1, SmallestSet
<1>3. s \in SUBSET S /\ Total(s) \notin Int /\ IsFiniteSet(s)  BY <1>1 DEF Bad
<1>4. s # {}
  <2>1. s = {} => Total(s) = 0  BY <1>3, TotalFacts
  <2> QED BY <1>3, <2>1
<1>5. PICK t : t = s \ {Some(s)}  OBVIOUS
<1>6. t \notin Bad
  <2>1. Cardinality(t) = Cardinality(s) - 1 /\ Cardinality(s) \in Nat
    BY <1>3, <1>4, <1>5, SomeFacts
  <2>2. ~ (Cardinality(s) <= Cardinality(t))  BY <2>1
  <2> QED BY <1>2, <2>2
<1>7. Total(t) \in Int  BY <1>3, <1>5, <1>6 DEF Bad
<1>8. Some(s)[2][3] \in Int  BY <1>3, <1>4, SomeFacts DEF Amounts
<1> QED BY <1>3, <1>4, <1>5, <1>7, <1>8, TotalFacts

(* The order of the sum does not matter: any element may be taken out of it. *)
LEMMA TotalWithout ==
  ASSUME NEW S, Amounts(S), NEW x \in S
  PROVE  Total(S) = x[2][3] + Total(S \ {x})
<1> DEFINE Bad == {s \in SUBSET S : \E y \in s : Total(s) # y[2][3] + Total(s \ {y})}
<1> SUFFICES ASSUME Bad # {} PROVE FALSE  OBVIOUS
<1>1. \A s \in Bad : IsFiniteSet(s)  BY FS_Subset DEF Amounts
<1> HIDE DEF Bad
<1>2. PICK s \in Bad : \A t \in Bad : Cardinality(s) <= Cardinality(t)  BY <1>1, SmallestSet
<1>3. s \in SUBSET S /\ IsFiniteSet(s)  BY <1>1 DEF Bad
<1>4. PICK y \in s : Total(s) # y[2][3] + Total(s \ {y})  BY DEF Bad
<1>5. PICK c : c = Some(s)  OBVIOUS
<1>6. c \in s /\ Total(s) = c[2][3] + Total(s \ {c})  BY <1>3, <1>4, <1>5, SomeFacts, TotalFacts
<1>7. c # y  BY <1>4, <1>6
<1>8. \A el \in s : /\ IsFiniteSet(s \ {el}) /\ s \ {el} \in SUBSET S
                    /\ ~ (Cardinality(s) <= Cardinality(s \ {el}))
  <2> TAKE el \in s
  <2>1. /\ IsFiniteSet(s \ {el}) /\ Cardinality(s \ {el}) = Cardinality(s) - 1
        /\ Cardinality(s) \in Nat
    BY <1>3, FS_RemoveElement, FS_CardinalityType
  <2>2. ~ (Cardinality(s) <= Cardinality(s \ {el}))  BY <2>1
  <2> QED BY <1>3, <2>1, <2>2
<1>9. \A el \in s : s \ {el} \notin Bad  BY <1>2, <1>8
<1>10. Total(s \ {c}) = y[2][3] + Total((s \ {c}) \ {y})  BY <1>6, <1>7, <1>8, <1>9 DEF Bad
<1>11. Total(s \ {y}) = c[2][3] + Total((s \ {y}) \ {c})  BY <1>6, <1>7, <1>8, <1>9 DEF Bad
<1>12. PICK t : t = (s \ {c}) \ {y} /\ t = (s \ {y}) \ {c}  OBVIOUS
<1>13. Total(t) \in Int
  <2>1. Amounts(t)  BY <1>3, <1>12, FS_Subset DEF Amounts
  <2> QED BY <2>1, TotalType
<1>14. PICK m, n \in Int : m = c[2][3] /\ n = y[2][3]  BY <1>3, <1>6 DEF Amounts
<1>15. PICK r \in Int : r = Total(t)  BY <1>13
<1>16. Total(s) = m + (n + r)  BY <1>6, <1>10, <1>12, <1>14, <1>15
<1>17. Total(s \ {y}) = m + r  BY <1>11, <1>12, <1>14, <1>15
<1>18. Total(s) = n + Total(s \ {y})  BY <1>16, <1>17
<1> QED BY <1>4, <1>14, <1>18

(* The legs of the events are finitely many, and sums over them are numbers. *)
LEMMA LegFacts ==
  ASSUME NEW c \in Chains, NEW e \in DOMAIN c
  PROVE  /\ IsFiniteSet(LegsOf(c[e]))
         /\ \A l \in LegsOf(c[e]) : l[3] \in Int /\ l[2] \in Accounts
<1>1. c[e] \in Event  BY ChainAssumption
<1>2. PICK ev \in Event : ev = c[e]  BY <1>1
<1>3. ev.kind \in Kinds /\ ev.points \in Nat /\ ev.amount \in Nat  BY <1>2 DEF Event, Fields
<1>4. \A x, y : IsFiniteSet({}) /\ IsFiniteSet({x}) /\ IsFiniteSet({x, y})
  <2> TAKE x, y
  <2>1. IsFiniteSet({}) /\ IsFiniteSet({x})  BY FS_EmptySet, FS_Singleton
  <2>2. IsFiniteSet({x} \union {y})  BY <2>1, FS_AddElement
  <2>3. {x, y} = {x} \union {y}  OBVIOUS
  <2> QED BY <2>1, <2>2, <2>3
<1>5. IsFiniteSet(LegsOf(ev))
  <2>1. CASE ev.kind = "add"  BY <1>4, <2>1 DEF LegsOf
  <2>2. CASE ev.kind = "transfer"  BY <1>4, <2>2 DEF LegsOf
  <2>3. CASE ev.kind = "create"  BY <1>4, <2>3 DEF LegsOf
  <2>4. CASE ev.kind = "join"  BY <1>4, <2>4 DEF LegsOf
  <2>5. CASE ev.kind = "claim"  BY <1>4, <2>5 DEF LegsOf
  <2>6. CASE ev.kind = "mint"  BY <1>4, <2>6 DEF LegsOf
  <2>7. CASE ev.kind = "move"  BY <1>4, <2>7 DEF LegsOf
  <2> QED BY <1>3, <2>1, <2>2, <2>3, <2>4, <2>5, <2>6, <2>7 DEF Kinds
<1>6. /\ ev.from \in Users /\ ev.to \in Users /\ ev.pool \in Pools /\ ev.card \in FiledCards
  BY DEF Event, Fields
<1>7. /\ PointsOf(ev.from) \in Accounts /\ PointsOf(ev.to) \in Accounts
      /\ StakeOf(ev.pool, ev.from) \in Accounts
      /\ CardOf(ev.card, ev.to) \in Accounts /\ CardOf(ev.card, ev.from) \in Accounts
  BY <1>6 DEF Accounts
<1>8. \A l \in LegsOf(ev) : l[3] \in Int /\ l[2] \in Accounts
  <2> TAKE l \in LegsOf(ev)
  <2>1. CASE ev.kind = "add"  BY <1>3, <1>7, <2>1 DEF LegsOf
  <2>2. CASE ev.kind = "transfer"  BY <1>3, <1>7, <2>2 DEF LegsOf
  <2>3. CASE ev.kind = "create"  BY <1>3, <1>7, <2>3 DEF LegsOf
  <2>4. CASE ev.kind = "join"  BY <1>3, <1>7, <2>4 DEF LegsOf
  <2>5. CASE ev.kind = "claim"  BY <1>3, <1>7, <2>5 DEF LegsOf
  <2>6. CASE ev.kind = "mint"  BY <1>3, <1>7, <2>6 DEF LegsOf
  <2>7. CASE ev.kind = "move"  BY <1>3, <1>7, <2>7 DEF LegsOf
  <2> QED BY <1>3, <2>1, <2>2, <2>3, <2>4, <2>5, <2>6, <2>7 DEF Kinds
<1> QED BY <1>2, <1>5, <1>8

(* An account has finitely many legs, each of an event of the chain. *)
LEMMA LegsOnFacts ==
  ASSUME chain \in Chains, NEW a \in Accounts
  PROVE  /\ Amounts(LegsOn(a))
         /\ \A el : el \in LegsOn(a) <=>
              \E f \in Events : \E l \in Legs(f) : el = <<f, l>> /\ l[2] = a
<1>1. PICK c \in Chains : c = chain  OBVIOUS
<1> DEFINE Own == [e \in DOMAIN c |-> {e} \X LegsOf(c[e])]
           All == UNION {{e} \X LegsOf(c[e]) : e \in DOMAIN c}
<1>2. LegsOn(a) = {el \in All : el[2][2] = a}  BY <1>1 DEF LegsOn, LegsOnAll
<1>3. DOMAIN c = Events /\ \A f \in Events : Legs(f) = LegsOf(c[f])  BY <1>1 DEF Events, Legs
<1>4. \A el : el \in LegsOn(a) <=>
              \E f \in Events : \E l \in Legs(f) : el = <<f, l>> /\ l[2] = a
  BY <1>2, <1>3
<1>5. IsFiniteSet(All)
  <2>1. IsFiniteSet(DOMAIN c)
    <3>1. Len(c) \in Nat /\ DOMAIN c = 1 .. Len(c)  BY ChainAssumption
    <3> QED BY <3>1, FS_Interval
  <2>2. IsFiniteSet({{e} \X LegsOf(c[e]) : e \in DOMAIN c})
    <3>1. Own \in Surjection(DOMAIN c, {{e} \X LegsOf(c[e]) : e \in DOMAIN c})
      BY DEF Surjection
    <3> QED BY <2>1, <3>1, FS_Surjection
  <2>3. \A e \in DOMAIN c : IsFiniteSet({e} \X LegsOf(c[e]))
    BY LegFacts, FS_Singleton, FS_Product
  <2> QED BY <2>2, <2>3, FS_UNION
<1>6. IsFiniteSet(LegsOn(a))
  <2>1. LegsOn(a) \subseteq All  BY <1>2
  <2> QED BY <1>5, <2>1, FS_Subset
<1>7. \A el \in LegsOn(a) : el[2][3] \in Int  BY <1>3, <1>4, LegFacts
<1> QED BY <1>4, <1>6, <1>7 DEF Amounts

-----------------------------------------------------------------------------
(* The programs. *)
LEMMA EventFacts ==
  ASSUME chain \in Chains
  PROVE  /\ Len(chain) \in Nat /\ Events = 1 .. Len(chain)
         /\ \A e \in Events : chain[e] \in Event
BY ChainAssumption DEF Events

(* The programs of the seven kinds of events, place by place. *)
LEMMA Programs ==
  ASSUME NEW e \in Events, NEW p \in 1 .. End(e)
  PROVE  /\ chain[e].kind = "add" =>
              /\ End(e) = 3 /\ p \in 1 .. 3
              /\ p = 1 => StepAt(e, p) = "readTo"
              /\ p = 2 => StepAt(e, p) = "writeTo"
              /\ p = 3 => StepAt(e, p) = "end"
         /\ chain[e].kind = "transfer" =>
              /\ End(e) = 6 /\ p \in 1 .. 6
              /\ p = 1 => StepAt(e, p) = "readFrom"
              /\ p = 2 => StepAt(e, p) = "writeFrom"
              /\ p = 3 => StepAt(e, p) = "readTo"
              /\ p = 4 => StepAt(e, p) = "writeTo"
              /\ p = 5 => StepAt(e, p) = "history"
              /\ p = 6 => StepAt(e, p) = "end"
         /\ chain[e].kind = "create" =>
              /\ End(e) = 2 /\ p \in 1 .. 2
              /\ p = 1 => StepAt(e, p) = "savePool"
              /\ p = 2 => StepAt(e, p) = "end"
         /\ chain[e].kind = "join" =>
              /\ End(e) = 7 /\ p \in 1 .. 7
              /\ p = 1 => StepAt(e, p) = "getUser"
              /\ p = 2 => StepAt(e, p) = "findPool"
              /\ p = 3 => StepAt(e, p) = "saveUser"
              /\ p = 4 => StepAt(e, p) = "findStake"
              /\ p = 5 => StepAt(e, p) = "saveStake"
              /\ p = 6 => StepAt(e, p) = "history"
              /\ p = 7 => StepAt(e, p) = "end"
         /\ chain[e].kind = "claim" =>
              /\ End(e) = 8 /\ p \in 1 .. 8
              /\ p = 1 => StepAt(e, p) = "findPool"
              /\ p = 2 => StepAt(e, p) = "getUser"
              /\ p = 3 => StepAt(e, p) = "saveUser"
              /\ p = 4 => StepAt(e, p) = "findCard"
              /\ p = 5 => StepAt(e, p) = "saveCard"
              /\ p = 6 => StepAt(e, p) = "history"
              /\ p = 7 => StepAt(e, p) = "metadata"
              /\ p = 8 => StepAt(e, p) = "end"
         /\ chain[e].kind = "mint" =>
              /\ End(e) = 9 /\ p \in 1 .. 9
              /\ p = 1 => StepAt(e, p) = "findFromUser"
              /\ p = 2 => StepAt(e, p) = "createFromUser"
              /\ p = 3 => StepAt(e, p) = "findToUser"
              /\ p = 4 => StepAt(e, p) = "createToUser"
              /\ p = 5 => StepAt(e, p) = "findCard"
              /\ p = 6 => StepAt(e, p) = "saveCard"
              /\ p = 7 => StepAt(e, p) = "history"
              /\ p = 8 => StepAt(e, p) = "metadata"
              /\ p = 9 => StepAt(e, p) = "end"
         /\ chain[e].kind = "move" =>
              /\ End(e) = 11 /\ p \in 1 .. 11
              /\ p = 1 => StepAt(e, p) = "findFromUser"
              /\ p = 2 => StepAt(e, p) = "createFromUser"
              /\ p = 3 => StepAt(e, p) = "findToUser"
              /\ p = 4 => StepAt(e, p) = "createToUser"
              /\ p = 5 => StepAt(e, p) = "findFromCard"
              /\ p = 6 => StepAt(e, p) = "findCard"
              /\ p = 7 => StepAt(e, p) = "saveFromCard"
              /\ p = 8 => StepAt(e, p) = "saveToCard"
              /\ p = 9 => StepAt(e, p) = "metadata"
              /\ p = 10 => StepAt(e, p) = "history"
              /\ p = 11 => StepAt(e, p) = "end"
<1>2. CASE chain[e].kind = "add"
  <2>1. Steps(e) = <<"readTo", "writeTo">>  BY <1>2 DEF Steps, Program
  <2>2. End(e) = 3  BY <2>1 DEF End
  <2> QED BY <1>2, <2>1, <2>2 DEF StepAt
<1>3. CASE chain[e].kind = "transfer"
  <2>1. Steps(e) = <<"readFrom", "writeFrom", "readTo", "writeTo", "history">>  BY <1>3 DEF Steps, Program
  <2>2. End(e) = 6  BY <2>1 DEF End
  <2> QED BY <1>3, <2>1, <2>2 DEF StepAt
<1>4. CASE chain[e].kind = "create"
  <2>1. Steps(e) = <<"savePool">>  BY <1>4 DEF Steps, Program
  <2>2. End(e) = 2  BY <2>1 DEF End
  <2> QED BY <1>4, <2>1, <2>2 DEF StepAt
<1>5. CASE chain[e].kind = "join"
  <2>1. Steps(e) = <<"getUser", "findPool", "saveUser", "findStake", "saveStake", "history">>  BY <1>5 DEF Steps, Program
  <2>2. End(e) = 7  BY <2>1 DEF End
  <2> QED BY <1>5, <2>1, <2>2 DEF StepAt
<1>6. CASE chain[e].kind = "claim"
  <2>1. Steps(e) = <<"findPool", "getUser", "saveUser", "findCard", "saveCard", "history", "metadata">>  BY <1>6 DEF Steps, Program
  <2>2. End(e) = 8  BY <2>1 DEF End
  <2> QED BY <1>6, <2>1, <2>2 DEF StepAt
<1>7. CASE chain[e].kind = "mint"
  <2>1. Steps(e) = <<"findFromUser", "createFromUser", "findToUser", "createToUser", "findCard", "saveCard", "history", "metadata">>  BY <1>7 DEF Steps, Program
  <2>2. End(e) = 9  BY <2>1 DEF End
  <2> QED BY <1>7, <2>1, <2>2 DEF StepAt
<1>8. CASE chain[e].kind = "move"
  <2>1. Steps(e) = <<"findFromUser", "createFromUser", "findToUser", "createToUser", "findFromCard", "findCard", "saveFromCard", "saveToCard", "metadata", "history">>  BY <1>8 DEF Steps, Program
  <2>2. End(e) = 11  BY <2>1 DEF End
  <2> QED BY <1>8, <2>1, <2>2 DEF StepAt
<1> QED BY <1>2, <1>3, <1>4, <1>5, <1>6, <1>7, <1>8

(* A job is at a step when its place in its program holds that step. *)
LEMMA AtNow ==
  ASSUME NEW e \in Events, NEW S, "end" \notin S
  PROVE  At(e, S) <=> Happened(e) /\ Now(e) \in S
BY DEF At, Done, Now, StepAt

(* Which kinds of events have a step. *)
StepKinds(e) ==
  /\ Now(e) \in {"readFrom", "writeFrom"} => chain[e].kind = "transfer"
  /\ Now(e) \in {"readTo", "writeTo"} => chain[e].kind \in {"add", "transfer"}
  /\ Now(e) = "savePool" => chain[e].kind = "create"
  /\ Now(e) \in {"findPool", "getUser", "saveUser"} => chain[e].kind \in {"join", "claim"}
  /\ Now(e) \in {"findStake", "saveStake"} => chain[e].kind = "join"
  /\ Now(e) \in {"findFromUser", "createFromUser", "findToUser", "createToUser"} =>
       chain[e].kind \in {"mint", "move"}
  /\ Now(e) \in {"findFromCard", "saveFromCard", "saveToCard"} => chain[e].kind = "move"
  /\ Now(e) = "saveCard" => chain[e].kind \in {"claim", "mint"}
  /\ Now(e) = "findCard" => chain[e].kind \in {"claim", "mint", "move"}
  /\ Now(e) = "metadata" => chain[e].kind \in {"claim", "mint", "move"}
  /\ Now(e) = "history" => chain[e].kind \in {"transfer", "join", "claim", "mint", "move"}
Next1(e) ==
  /\ Now(e) = "readFrom" => Now(e)' = "writeFrom"
  /\ Now(e) = "writeFrom" => Now(e)' = "readTo"
  /\ Now(e) = "readTo" => Now(e)' = "writeTo"
  /\ Now(e) = "writeTo" => Now(e)' \in {"end", "history"}
  /\ Now(e) = "findFromUser" => Now(e)' = "createFromUser"
  /\ Now(e) = "createFromUser" => Now(e)' = "findToUser"
  /\ Now(e) = "findToUser" => Now(e)' = "createToUser"
  /\ Now(e) = "createToUser" =>
       Now(e)' = IF chain[e].kind = "mint" THEN "findCard" ELSE "findFromCard"
  /\ Now(e) = "findFromCard" => Now(e)' = "findCard"
  /\ Now(e) = "findCard" =>
       Now(e)' = IF chain[e].kind = "move" THEN "saveFromCard" ELSE "saveCard"
  /\ Now(e) = "saveFromCard" => Now(e)' = "saveToCard"
  /\ Now(e) = "saveToCard" => Now(e)' = "metadata"
  /\ Now(e) = "saveCard" => Now(e)' = "history"
  /\ Now(e) = "metadata" => Now(e)' = IF chain[e].kind = "move" THEN "history" ELSE "end"
  /\ Now(e) = "history" =>
       Now(e)' = IF chain[e].kind \in {"mint", "claim"} THEN "metadata" ELSE "end"
  /\ Now(e) = "savePool" => Now(e)' = "end"
  /\ Now(e) = "getUser" => Now(e)' = IF chain[e].kind = "join" THEN "findPool" ELSE "saveUser"
  /\ Now(e) = "findPool" => Now(e)' = IF chain[e].kind = "join" THEN "saveUser" ELSE "getUser"
  /\ Now(e) = "saveUser" => Now(e)' = IF chain[e].kind = "join" THEN "findStake" ELSE "findCard"
  /\ Now(e) = "findStake" => Now(e)' = "saveStake"
  /\ Now(e) = "saveStake" => Now(e)' = "history"

(* A step belongs to the programs of some kinds of events only. *)
LEMMA KindsOfSteps ==
  ASSUME LTypes, NEW e \in Events
  PROVE  StepKinds(e)
<1>1. chain[e].kind \in Kinds  BY EventFacts DEF LTypes, ChainTypes, Event, Fields
<1>2. pc[e] \in 1 .. End(e)  BY DEF LTypes, PcTypes
<1>3. CASE chain[e].kind = "add"
  BY <1>2, <1>3, Programs DEF Now, StepKinds
<1>4. CASE chain[e].kind = "transfer"
  BY <1>2, <1>4, Programs DEF Now, StepKinds
<1>5. CASE chain[e].kind = "create"
  BY <1>2, <1>5, Programs DEF Now, StepKinds
<1>6. CASE chain[e].kind = "join"
  BY <1>2, <1>6, Programs DEF Now, StepKinds
<1>7. CASE chain[e].kind = "claim"
  BY <1>2, <1>7, Programs DEF Now, StepKinds
<1>8. CASE chain[e].kind = "mint"
  BY <1>2, <1>8, Programs DEF Now, StepKinds
<1>9. CASE chain[e].kind = "move"
  BY <1>2, <1>9, Programs DEF Now, StepKinds
<1> QED BY <1>1, <1>3, <1>4, <1>5, <1>6, <1>7, <1>8, <1>9 DEF Kinds

(* The step after each step. *)
LEMMA NextSteps ==
  ASSUME LTypes, NEW e \in Events, chain' = chain, pc'[e] = pc[e] + 1
  PROVE  Next1(e)
<1>1. chain[e].kind \in Kinds  BY EventFacts DEF LTypes, ChainTypes, Event, Fields
<1>2. PICK p \in 1 .. End(e) : p = pc[e] /\ p + 1 = pc'[e]  BY DEF LTypes, PcTypes
<1>3. Now(e) = StepAt(e, p) /\ Now(e)' = StepAt(e, p + 1)
  BY <1>2 DEF Now, StepAt, Steps, End
<1>4. CASE p = End(e)
  <2>1. Now(e) = "end"  BY <1>3, <1>4 DEF StepAt
  <2> QED BY <2>1 DEF Next1
<1>5. CASE p # End(e)
  <2>1. End(e) \in Int /\ p + 1 \in 1 .. End(e)  BY <1>2, <1>5 DEF End
  <2>2. CASE chain[e].kind = "add"  BY <1>3, <1>5, <2>1, <2>2, Programs DEF Next1
  <2>3. CASE chain[e].kind = "transfer"  BY <1>3, <1>5, <2>1, <2>3, Programs DEF Next1
  <2>4. CASE chain[e].kind = "create"  BY <1>3, <1>5, <2>1, <2>4, Programs DEF Next1
  <2>5. CASE chain[e].kind = "join"  BY <1>3, <1>5, <2>1, <2>5, Programs DEF Next1
  <2>6. CASE chain[e].kind = "claim"  BY <1>3, <1>5, <2>1, <2>6, Programs DEF Next1
  <2>7. CASE chain[e].kind = "mint"  BY <1>3, <1>5, <2>1, <2>7, Programs DEF Next1
  <2>8. CASE chain[e].kind = "move"  BY <1>3, <1>5, <2>1, <2>8, Programs DEF Next1
  <2> QED BY <1>1, <2>2, <2>3, <2>4, <2>5, <2>6, <2>7, <2>8 DEF Kinds
<1> QED BY <1>4, <1>5

(* Two steps on: one is left out. *)
Next2(e) ==
  /\ Now(e) = "findFromUser" => Now(e)' = "findToUser"
  /\ Now(e) = "findToUser" =>
       Now(e)' = IF chain[e].kind = "mint" THEN "findCard" ELSE "findFromCard"
  /\ Now(e) = "saveToCard" => Now(e)' = "history"

(* The step after the next, for the jobs that skip one. *)
LEMMA SecondNextSteps ==
  ASSUME LTypes, NEW e \in Events, chain' = chain, pc'[e] = pc[e] + 2,
         Now(e) \in {"findFromUser", "findToUser", "saveToCard"}
  PROVE  Next2(e) /\ pc[e] + 2 \in 1 .. End(e)
<1>1. chain[e].kind \in {"mint", "move"}  BY KindsOfSteps DEF StepKinds
<1>2. PICK p \in 1 .. End(e) : p = pc[e]  BY DEF LTypes, PcTypes
<1>3. Now(e) = StepAt(e, p)  BY <1>2 DEF Now
<1>4. Now(e)' = StepAt(e, p + 2)  BY <1>2 DEF Now, StepAt, Steps, End
<1>5. CASE chain[e].kind = "mint"
  <2>1. p \in {1, 3} /\ End(e) = 9  BY <1>3, <1>5, Programs
  <2>2. p + 2 \in 1 .. End(e)  BY <2>1
  <2> QED BY <1>2, <1>3, <1>4, <1>5, <2>1, <2>2, Programs DEF Next2
<1>6. CASE chain[e].kind = "move"
  <2>1. p \in {1, 3, 8} /\ End(e) = 11  BY <1>3, <1>6, Programs
  <2>2. p + 2 \in 1 .. End(e)  BY <2>1
  <2> QED BY <1>2, <1>3, <1>4, <1>6, <2>1, <2>2, Programs DEF Next2
<1> QED BY <1>1, <1>5, <1>6

(* A program ends at a place. *)
LEMMA EndIsNumber ==
  ASSUME LTypes, NEW e \in Events
  PROVE  End(e) \in Nat /\ End(e) > 1 /\ pc[e] \in Nat /\ 1 <= pc[e] /\ pc[e] <= End(e)
<1>1. chain[e].kind \in Kinds  BY EventFacts DEF LTypes, ChainTypes, Event, Fields
<1>2. PICK p \in 1 .. End(e) : p = pc[e]  BY DEF LTypes, PcTypes
<1>3. End(e) \in Nat /\ End(e) > 1  BY <1>1, Programs DEF Kinds
<1> QED BY <1>2, <1>3

(* Where a job begins when it starts over. *)
FirstNext(e) ==
  /\ Now(e)' \in {"readTo", "readFrom", "savePool", "getUser", "findPool", "findFromUser"}
  /\ Now(e)' = "findPool" => chain[e].kind = "claim"
  /\ Now(e)' = "getUser" => chain[e].kind = "join"
  /\ chain[e].kind \in {"mint", "move"} => Now(e)' = "findFromUser"

(* Where a job starts over. *)
LEMMA FirstNextSteps ==
  ASSUME LTypes, NEW e \in Events, chain' = chain, pc'[e] = 1
  PROVE  FirstNext(e)
<1>1. chain[e].kind \in Kinds  BY EventFacts DEF LTypes, ChainTypes, Event, Fields
<1>2. PICK p \in 1 .. End(e) : p = 1  BY EndIsNumber
<1>3. Now(e)' = StepAt(e, p)  BY <1>2 DEF Now, StepAt, Steps, End
<1> QED BY <1>1, <1>2, <1>3, Programs DEF Kinds, FirstNext

(* The job goes on by a step, or starts over; the others stay where they are. *)
LEMMA Advances ==
  ASSUME LTypes, NEW e \in Events, Now(e) # "end", chain' = chain, Advance(e)
  PROVE  /\ PcTypes' /\ Next1(e) /\ pc'[e] = pc[e] + 1
         /\ \A f \in Events : f # e => pc'[f] = pc[f]
<1>1. pc'[e] = pc[e] + 1 /\ \A f \in Events : f # e => pc'[f] = pc[f]
  BY DEF Advance, LTypes, PcTypes
<1>2. pc[e] # End(e)  BY DEF Now, StepAt
<1>3. pc[e] + 1 \in 1 .. End(e)  BY <1>2, EndIsNumber
<1>4. pc' \in [Events -> Nat] /\ Events' = Events  BY DEF Advance, LTypes, PcTypes, Events
<1>5. \A f \in Events : End(f)' = End(f)  BY DEF End, Steps
<1>6. PcTypes'  BY <1>1, <1>3, <1>4, <1>5 DEF LTypes, PcTypes
<1> QED BY <1>1, <1>6, NextSteps

(* Starting over is a place of the program. *)
LEMMA Restarts ==
  ASSUME LTypes, NEW e \in Events, chain' = chain, pc' = [pc EXCEPT ![e] = 1]
  PROVE  /\ PcTypes' /\ pc'[e] = 1
         /\ \A f \in Events : f # e => pc'[f] = pc[f]
<1>1. pc'[e] = 1 /\ \A f \in Events : f # e => pc'[f] = pc[f]  BY DEF LTypes, PcTypes
<1>2. 1 \in 1 .. End(e)  BY EndIsNumber
<1>3. pc' \in [Events -> Nat] /\ Events' = Events  BY DEF LTypes, PcTypes, Events
<1>4. \A f \in Events : End(f)' = End(f)  BY DEF End, Steps
<1> QED BY <1>1, <1>2, <1>3, <1>4 DEF LTypes, PcTypes

(* So is skipping a step. *)
LEMMA Skips ==
  ASSUME LTypes, NEW e \in Events, Now(e) \in {"findFromUser", "findToUser", "saveToCard"},
         chain' = chain, pc' = [pc EXCEPT ![e] = @ + 2]
  PROVE  /\ PcTypes' /\ Next2(e) /\ pc'[e] = pc[e] + 2
         /\ \A f \in Events : f # e => pc'[f] = pc[f]
<1>1. pc'[e] = pc[e] + 2 /\ \A f \in Events : f # e => pc'[f] = pc[f]  BY DEF LTypes, PcTypes
<1>2. pc[e] + 2 \in 1 .. End(e) /\ Next2(e)  BY <1>1, SecondNextSteps
<1>3. pc' \in [Events -> Nat] /\ Events' = Events  BY DEF LTypes, PcTypes, Events
<1>4. \A f \in Events : End(f)' = End(f)  BY DEF End, Steps
<1> QED BY <1>1, <1>2, <1>3, <1>4 DEF LTypes, PcTypes

(* What a job holds, after it has read, written or kept an account. *)
LEMMA HoldFacts ==
  ASSUME HeldTypes, NEW e \in Events, NEW a, Hold(e, a), chain' = chain
  PROVE  /\ HeldTypes'
         /\ DOMAIN held'[e] = DOMAIN held[e] \union {a}
         /\ \A b \in DOMAIN held[e] : held'[e][b] = held[e][b]
         /\ \A f \in Events : f # e => held'[f] = held[f]
<1>1. held'[e] = Upsert(held[e], a, IF a \in DOMAIN held[e] THEN held[e][a] ELSE TRUE) /\ \A f \in Events : f # e => held'[f] = held[f]
  BY DEF Hold, HeldTypes
<1>2. DOMAIN held' = Events'  BY DEF Hold, HeldTypes, Events
<1>3. /\ DOMAIN held'[e] = DOMAIN held[e] \union {a}
      /\ held'[e] \in [DOMAIN held'[e] -> BOOLEAN]
  <2>1. PICK h : h = held[e] /\ h \in [DOMAIN h -> BOOLEAN]  BY DEF HeldTypes
  <2> QED BY <1>1, <2>1 DEF Upsert
<1>4. \A b \in DOMAIN held[e] : held'[e][b] = held[e][b]  BY <1>1 DEF Upsert
<1>5. HeldTypes'  BY <1>1, <1>2, <1>3 DEF HeldTypes, Events
<1> QED BY <1>1, <1>3, <1>4, <1>5

(* A hold given up; the other holds stay. *)
LEMMA KeptFacts ==
  ASSUME HeldTypes, NEW e \in Events, NEW a, Kept(e, a), chain' = chain
  PROVE  /\ HeldTypes'
         /\ DOMAIN held'[e] = DOMAIN held[e] \ {a}
         /\ \A b \in DOMAIN held[e] : b # a => held'[e][b] = held[e][b]
         /\ \A f \in Events : f # e => held'[f] = held[f]
<1>1. held'[e] = Without(held[e], a) /\ \A f \in Events : f # e => held'[f] = held[f]
  BY DEF Kept, HeldTypes
<1>2. DOMAIN held' = Events'  BY DEF Kept, HeldTypes, Events
<1>3. /\ DOMAIN held'[e] = DOMAIN held[e] \ {a}
      /\ \A b \in DOMAIN held[e] : b # a => held'[e][b] = held[e][b]
      /\ held'[e] \in [DOMAIN held'[e] -> BOOLEAN]
  <2>1. PICK h, g : h = held[e] /\ g = held'[e] /\ g = Without(h, a) /\ h \in [DOMAIN h -> BOOLEAN]
    BY <1>1 DEF HeldTypes
  <2>2. /\ DOMAIN g = DOMAIN h \ {a} /\ g \in [DOMAIN g -> BOOLEAN]
        /\ \A b \in DOMAIN h : b # a => g[b] = h[b]
    BY <2>1 DEF Without, Restrict
  <2> QED BY <2>1, <2>2
<1>4. HeldTypes'  BY <1>1, <1>2, <1>3 DEF HeldTypes, Events
<1> QED BY <1>1, <1>3, <1>4

(* A document written: the writer's hold ends, and the holds of the others are stale. *)
LEMMA WroteFacts ==
  ASSUME HeldTypes, NEW e \in Events, NEW a, Wrote(e, a), chain' = chain
  PROVE  /\ HeldTypes'
         /\ DOMAIN held'[e] = DOMAIN held[e] \ {a}
         /\ \A f \in Events : f # e => DOMAIN held'[f] = DOMAIN held[f]
         /\ \A f \in Events : a \in DOMAIN held'[f] => held'[f][a] = FALSE
         /\ \A f \in Events : \A b \in DOMAIN held[f] : b # a => held'[f][b] = held[f][b]
<1>1. held'[e] = Without(held[e], a)  BY DEF Wrote
<1>2. ASSUME NEW f \in Events, f # e
      PROVE  /\ DOMAIN held'[f] = DOMAIN held[f]
             /\ a \in DOMAIN held'[f] => held'[f][a] = FALSE
             /\ \A b \in DOMAIN held[f] : b # a => held'[f][b] = held[f][b]
             /\ held'[f] \in [DOMAIN held'[f] -> BOOLEAN]
  <2>1. PICK h : h = held[f]  OBVIOUS
  <2>2. held'[f] = IF a \in DOMAIN h THEN [h EXCEPT ![a] = FALSE] ELSE h  BY <1>2, <2>1 DEF Wrote
  <2>3. h \in [DOMAIN h -> BOOLEAN]  BY <2>1 DEF HeldTypes
  <2> QED BY <2>1, <2>2, <2>3
<1>3. DOMAIN held' = Events'  BY DEF Wrote, Events
<1>4. /\ DOMAIN held'[e] = DOMAIN held[e] \ {a}
      /\ \A b \in DOMAIN held[e] : b # a => held'[e][b] = held[e][b]
      /\ held'[e] \in [DOMAIN held'[e] -> BOOLEAN]
  <2>1. PICK h, g : h = held[e] /\ g = held'[e] /\ g = Without(h, a) /\ h \in [DOMAIN h -> BOOLEAN]
    BY <1>1 DEF HeldTypes
  <2>2. /\ DOMAIN g = DOMAIN h \ {a} /\ g \in [DOMAIN g -> BOOLEAN]
        /\ \A b \in DOMAIN h : b # a => g[b] = h[b]
    BY <2>1 DEF Without, Restrict
  <2> QED BY <2>1, <2>2
<1>5. HeldTypes'  BY <1>2, <1>3, <1>4 DEF HeldTypes, Events
<1>6. a \notin DOMAIN held'[e]  BY <1>4
<1> QED BY <1>2, <1>4, <1>5, <1>6
-----------------------------------------------------------------------------
(* What a job knows where it is: the documents that its earlier steps have found or
   made, and the accounts it may hold. *)
UserKnown(e) ==
  /\ chain[e].kind \in {"mint", "move"} /\ Now(e) \notin {"findFromUser", "createFromUser"} =>
       chain[e].from \in DOMAIN points
  /\ chain[e].kind \in {"mint", "move"}
     /\ Now(e) \notin {"findFromUser", "createFromUser", "findToUser", "createToUser"} =>
       chain[e].to \in DOMAIN points
  /\ chain[e].kind = "claim" /\ Now(e) \in {"findCard", "saveCard", "history", "metadata"} =>
       chain[e].to \in DOMAIN points
  /\ chain[e].kind = "claim" /\ Now(e) = "saveUser" /\ mem[e].user # None =>
       chain[e].to \in DOMAIN points
  /\ chain[e].kind = "join" /\ Now(e) \in {"findPool", "saveUser"} /\ mem[e].user # None =>
       chain[e].from \in DOMAIN points
  /\ Now(e) \in {"findStake", "saveStake"} => chain[e].from \in DOMAIN points
  /\ chain[e].kind = "join" /\ Now(e) \in {"saveUser", "findStake", "saveStake"} =>
       chain[e].pool \in pools
  /\ Now(e) \in {"writeFrom", "writeTo", "createFromUser", "createToUser"} => mem[e].new # None
CardKnown(e) ==
  /\ Now(e) \in {"saveCard", "saveFromCard", "saveToCard"} /\ mem[e].card # None =>
       ToKey(e) \in DOMAIN cards
  /\ chain[e].kind = "move" /\ Now(e) \in {"findCard", "saveFromCard"} /\ mem[e].fromCard # None =>
       FromKey(e) \in DOMAIN cards
  /\ chain[e].kind = "move" /\ Now(e) = "findCard" =>
       CardOf(chain[e].card, chain[e].from) \in DOMAIN held[e]
  /\ chain[e].kind \in {"mint", "claim", "move"} /\ Now(e) \in {"history", "metadata"} =>
       ToKey(e) \in DOMAIN cards
MayHold(e, a) ==
  \/ Now(e) \in {"writeFrom", "createFromUser"} /\ a = PointsOf(chain[e].from)
  \/ Now(e) \in {"writeTo", "createToUser"} /\ a = PointsOf(chain[e].to)
  \/ Now(e) \in {"findPool", "saveUser"} /\ chain[e].kind = "join" /\ a = PointsOf(chain[e].from)
  \/ Now(e) = "saveUser" /\ chain[e].kind = "claim" /\ a = PointsOf(chain[e].to)
  \/ Now(e) = "saveStake" /\ a = StakeOf(chain[e].pool, chain[e].from)
  \/ Now(e) = "findCard" /\ chain[e].kind = "move" /\ a = CardOf(chain[e].card, chain[e].from)
  \/ Now(e) = "saveFromCard"
     /\ a \in {CardOf(chain[e].card, chain[e].from), CardOf(chain[e].card, chain[e].to)}
  \/ Now(e) \in {"saveCard", "saveToCard"} /\ a = CardOf(chain[e].card, chain[e].to)
HeldKnown(e) == \A a \in DOMAIN held[e] : MayHold(e, a)
PlaceKnown(e) ==
  /\ e > mined => pc[e] = 1
  /\ e \in ignored => pc[e] = End(e)
JobKnown(e) == UserKnown(e) /\ CardKnown(e) /\ HeldKnown(e) /\ PlaceKnown(e)
DocsKnown ==
  /\ \A k \in DOMAIN stakes : k[1] \in pools /\ k[2] \in DOMAIN points
  /\ \A k \in DOMAIN cards : k[2] \in DOMAIN points
  /\ metadata \subseteq DOMAIN cards
Known == LTypes /\ DocsKnown /\ \A e \in Events : JobKnown(e)

(* A step of job e leaves the other jobs alone, and no document goes away. *)
Alone(e) ==
  /\ chain' = chain /\ mined' = mined
  /\ \A f \in Events : f # e => /\ pc'[f] = pc[f] /\ mem'[f] = mem[f]
                                /\ DOMAIN held'[f] = DOMAIN held[f]
                                /\ f \in ignored' <=> f \in ignored
Grow ==
  /\ DOMAIN points \subseteq DOMAIN points' /\ pools \subseteq pools'
  /\ DOMAIN cards \subseteq DOMAIN cards'

(* What the other jobs know outlives a step of job e. *)
LEMMA OthersKnown ==
  ASSUME NEW e \in Events, NEW f \in Events, f # e, Alone(e), Grow, JobKnown(f)
  PROVE  JobKnown(f)'
<1>1. Now(f)' = Now(f) /\ pc'[f] = pc[f] /\ mem'[f] = mem[f] /\ chain' = chain
      /\ End(f)' = End(f)
  BY DEF Alone, Now, StepAt, Steps, End
<1>2. UserKnown(f)'  BY <1>1 DEF JobKnown, UserKnown, Grow
<1>3. CardKnown(f)'
  <2>1. DOMAIN held'[f] = DOMAIN held[f]  BY DEF Alone
  <2> QED BY <1>1, <2>1 DEF JobKnown, CardKnown, Grow, ToKey, FromKey, CardOf
<1>4. HeldKnown(f)'
  <2>1. \A a : MayHold(f, a)' <=> MayHold(f, a)
    BY <1>1 DEF MayHold, PointsOf, StakeOf, CardOf
  <2>2. DOMAIN held'[f] = DOMAIN held[f]  BY DEF Alone
  <2> QED BY <2>1, <2>2 DEF HeldKnown, JobKnown
<1>5. PlaceKnown(f)'  BY <1>1 DEF JobKnown, PlaceKnown, Alone
<1> QED BY <1>2, <1>3, <1>4, <1>5 DEF JobKnown

(* A step is therefore right when it is right for its own job. *)
LEMMA StepKnown ==
  ASSUME Known, NEW e \in Events, Alone(e), Grow, LTypes', DocsKnown', JobKnown(e)'
  PROVE  Known'
<1>1. Events' = Events  BY DEF Alone, Events
<1>2. \A f \in Events : JobKnown(f)'  BY OthersKnown DEF Known
<1> QED BY <1>1, <1>2 DEF Known

(* Whose points a job is about. *)
Payer(e) ==
  IF Now(e) \in {"readFrom", "writeFrom", "findFromUser", "createFromUser"}
     \/ chain[e].kind = "join"
  THEN chain[e].from ELSE chain[e].to

(* The user a step is about, read off the job's place. *)
LEMMA UserIsPayer ==
  ASSUME NEW e \in Events, Happened(e)
  PROVE  User(e) = Payer(e) /\ (isTransfered(e) <=> Now(e) \in {"readFrom", "writeFrom"})
BY AtNow DEF User, Payer, isTransfered

(* The fields of an event have their types. *)
LEMMA EventType ==
  ASSUME LTypes, NEW e \in Events
  PROVE  /\ chain[e].from \in Users /\ chain[e].to \in Users /\ chain[e].pool \in Pools
         /\ chain[e].card \in FiledCards /\ chain[e].points \in Nat /\ chain[e].amount \in Nat
         /\ chain[e].time \in Nat /\ chain[e].kind \in Kinds
         /\ Payer(e) \in Users
BY EventFacts DEF LTypes, ChainTypes, Event, Fields, Payer

(* A job that starts over holds nothing and is at the first step of its program. *)
LEMMA StartedOver ==
  ASSUME Known, NEW e \in Events, StartOver(e), Happened(e),
         UNCHANGED <<chain, mined, db>>, ignored' \subseteq ignored,
         \A f \in Events : f # e => (f \in ignored' <=> f \in ignored),
         e \notin ignored'
  PROVE  Known' /\ Alone(e)
<1>1. UNCHANGED <<chain, mined, points, pools, stakes, cards, history, metadata>>  BY DEF db
<1>2. /\ PcTypes' /\ pc'[e] = 1 /\ \A f \in Events : f # e => pc'[f] = pc[f]
  BY <1>1, Restarts DEF StartOver, Known
<1>3. mem'[e] = Fresh /\ \A f \in Events : f # e => mem'[f] = mem[f]
  BY DEF StartOver, Known, LTypes, MemTypes
<1>4. held'[e] = <<>> /\ \A f \in Events : f # e => held'[f] = held[f]
  BY DEF StartOver, Known, LTypes, HeldTypes
<1>5. MemTypes'
  <2>1. Fresh \in Mem  BY DEF Fresh, Mem
  <2> QED BY <1>1, <2>1 DEF StartOver, Known, LTypes, MemTypes, Events
<1>6. HeldTypes'
  <2>1. DOMAIN held' = Events'  BY <1>1 DEF StartOver, Known, LTypes, HeldTypes, Events
  <2>2. held'[e] \in [DOMAIN held'[e] -> BOOLEAN]  BY <1>4
  <2> QED BY <1>1, <1>4, <2>1, <2>2 DEF Known, LTypes, HeldTypes, Events
<1>7. LTypes'
  BY <1>1, <1>2, <1>5, <1>6 DEF Known, LTypes, ChainTypes, DocTypes, Events
<1>8. DocsKnown'  BY <1>1 DEF Known, DocsKnown
<1>9. Alone(e) /\ Grow  BY <1>1, <1>2, <1>3, <1>4 DEF Alone, Grow
<1>10. FirstNext(e)  BY <1>1, <1>2, FirstNextSteps DEF Known
<1>11. JobKnown(e)'
  <2>1. UserKnown(e)'  BY <1>1, <1>10 DEF UserKnown, FirstNext
  <2>2. CardKnown(e)'  BY <1>1, <1>10 DEF CardKnown, FirstNext
  <2>3. HeldKnown(e)'  BY <1>4 DEF HeldKnown
  <2>4. PlaceKnown(e)'  BY <1>1, <1>2 DEF PlaceKnown
  <2> QED BY <2>1, <2>2, <2>3, <2>4 DEF JobKnown
<1> QED BY <1>7, <1>8, <1>9, <1>11, StepKnown
-----------------------------------------------------------------------------
(* The steps, one by one.  What each of them has in common: the job goes on, within
   its own mem and held. *)
GoesOn(e) ==
  /\ chain' = chain /\ mined' = mined /\ ignored' = ignored
  /\ MemTypes' /\ HeldTypes'
  /\ \A f \in Events : f # e => mem'[f] = mem[f] /\ DOMAIN held'[f] = DOMAIN held[f]

(* A job that goes on is still in its place on the chain. *)
LEMMA StepsKnown ==
  ASSUME Known, NEW e \in Events, Happened(e), Now(e) # "end", GoesOn(e),
         PcTypes', \A f \in Events : f # e => pc'[f] = pc[f],
         Grow, DocTypes', DocsKnown', UserKnown(e)', CardKnown(e)', HeldKnown(e)'
  PROVE  Known' /\ Alone(e)
<1>1. Alone(e)  BY DEF Alone, GoesOn
<1>2. LTypes'  BY DEF Known, LTypes, ChainTypes, GoesOn
<1>3. PlaceKnown(e)'
  <2>1. e \notin ignored  BY DEF Known, JobKnown, PlaceKnown, Now, StepAt
  <2>2. e \in Int /\ mined \in Int /\ e <= mined
    BY EventFacts DEF Known, LTypes, ChainTypes, Happened
  <2> QED BY <2>1, <2>2 DEF PlaceKnown, GoesOn
<1> QED BY <1>1, <1>2, <1>3, StepKnown DEF JobKnown

(* A job changes its own locals only. *)
LEMMA MemFacts ==
  ASSUME MemTypes, NEW e \in Events, NEW r \in Mem, chain' = chain, mem' = [mem EXCEPT ![e] = r]
  PROVE  MemTypes' /\ mem'[e] = r /\ \A f \in Events : f # e => mem'[f] = mem[f]
BY DEF MemTypes, Events

(* A job that reads a document. *)
LEMMA Reads ==
  ASSUME Known, NEW e \in Events, Happened(e), Now(e) # "end", NEW a, NEW r \in Mem,
         mem' = [mem EXCEPT ![e] = r], Hold(e, a), Advance(e),
         UNCHANGED <<chain, mined, db, ignored>>
  PROVE  /\ Next1(e) /\ StepKinds(e) /\ mem'[e] = r /\ chain' = chain
         /\ DOMAIN held'[e] = DOMAIN held[e] \union {a}
         /\ \A f \in Events : f # e => held'[f] = held[f]
         /\ UNCHANGED <<points, pools, stakes, cards>>
         /\ UserKnown(e)' /\ CardKnown(e)' /\ HeldKnown(e)' => Known' /\ Alone(e)
<1>1. LTypes /\ DocsKnown /\ StepKinds(e)  BY KindsOfSteps DEF Known
<1>2. MemTypes' /\ mem'[e] = r /\ \A f \in Events : f # e => mem'[f] = mem[f]
  BY <1>1, MemFacts DEF LTypes
<1>3. PcTypes' /\ Next1(e) /\ \A f \in Events : f # e => pc'[f] = pc[f]  BY <1>1, Advances
<1>4. /\ HeldTypes' /\ DOMAIN held'[e] = DOMAIN held[e] \union {a}
      /\ \A f \in Events : f # e => held'[f] = held[f]
  BY <1>1, HoldFacts DEF LTypes
<1>5. GoesOn(e)  BY <1>2, <1>4 DEF GoesOn
<1>6. Grow /\ DocTypes' /\ DocsKnown'
  BY <1>1 DEF Grow, db, DocTypes, DocsKnown, LTypes, Events
<1> QED BY <1>1, <1>2, <1>3, <1>4, <1>5, <1>6, StepsKnown DEF db

(* A job that writes one. *)
LEMMA Writes ==
  ASSUME Known, NEW e \in Events, Happened(e), Now(e) # "end", NEW a,
         Wrote(e, a), PcTypes', \A f \in Events : f # e => pc'[f] = pc[f],
         UNCHANGED <<chain, mined, mem, ignored>>
  PROVE  /\ StepKinds(e)
         /\ DOMAIN held'[e] = DOMAIN held[e] \ {a}
         /\ Grow /\ DocTypes' /\ DocsKnown' /\ UserKnown(e)' /\ CardKnown(e)' /\ HeldKnown(e)'
              => Known' /\ Alone(e)
<1>1. LTypes /\ DocsKnown /\ StepKinds(e)  BY KindsOfSteps DEF Known
<1>2. /\ HeldTypes' /\ DOMAIN held'[e] = DOMAIN held[e] \ {a}
      /\ \A f \in Events : f # e => DOMAIN held'[f] = DOMAIN held[f]
  BY <1>1, WroteFacts DEF LTypes
<1>3. MemTypes'  BY <1>1 DEF LTypes, MemTypes, Events
<1>4. GoesOn(e)  BY <1>2, <1>3 DEF GoesOn
<1> QED BY <1>1, <1>2, <1>4, StepsKnown

(* A job that does neither. *)
LEMMA Passes ==
  ASSUME Known, NEW e \in Events, Happened(e), Now(e) # "end",
         PcTypes', \A f \in Events : f # e => pc'[f] = pc[f],
         UNCHANGED <<chain, mined, mem, held, ignored>>
  PROVE  /\ StepKinds(e)
         /\ Grow /\ DocTypes' /\ DocsKnown' /\ UserKnown(e)' /\ CardKnown(e)' /\ HeldKnown(e)'
              => Known' /\ Alone(e)
<1>1. LTypes /\ DocsKnown /\ StepKinds(e)  BY KindsOfSteps DEF Known
<1>2. MemTypes' /\ HeldTypes'  BY <1>1 DEF LTypes, MemTypes, HeldTypes, Events
<1>3. GoesOn(e)  BY <1>2 DEF GoesOn
<1> QED BY <1>1, <1>3, StepsKnown

(* updateUserPoint reads the user it is about to write. *)
LEMMA ReadUserKnown ==
  ASSUME Known, NEW e \in Events, ReadUser(e)
  PROVE  Known' /\ Alone(e)
<1> DEFINE v == newPoint(e, Lookup(points, User(e)))
           r == [mem[e] EXCEPT !.new = v]
<1>1. Happened(e) /\ Now(e) \in {"readFrom", "readTo"}  BY AtNow DEF ReadUser
<1>2. LTypes /\ JobKnown(e)  BY DEF Known
<1>3. User(e) = Payer(e) /\ Payer(e) \in Users  BY <1>1, <1>2, UserIsPayer, EventType
<1>4. v \in Int \union {Ask} /\ v # None
  <2>1. Lookup(points, User(e)) \in Int \union {None}
    BY <1>2 DEF Lookup, LTypes, DocTypes
  <2>2. chain[e].points \in Nat  BY <1>2, EventType
  <2> QED BY <2>1, <2>2, ChainAssumption DEF newPoint
<1>5. mem[e] \in Mem  BY <1>2 DEF LTypes, MemTypes
<1> HIDE DEF v
<1>6. r \in Mem /\ r.new = v  BY <1>4, <1>5 DEF Mem
<1>7. mem' = [mem EXCEPT ![e] = r]  BY DEF ReadUser, v
<1> HIDE DEF r
<1>8. /\ Hold(e, PointsOf(Payer(e))) /\ Advance(e) /\ UNCHANGED <<chain, mined, db, ignored>>
  BY <1>3 DEF ReadUser, causes
<1>9. /\ Next1(e) /\ StepKinds(e) /\ mem'[e] = r /\ chain' = chain
      /\ DOMAIN held'[e] = DOMAIN held[e] \union {PointsOf(Payer(e))}
      /\ UserKnown(e)' /\ CardKnown(e)' /\ HeldKnown(e)' => Known' /\ Alone(e)
  BY <1>1, <1>6, <1>7, <1>8, Reads
<1>10. /\ Now(e) = "readFrom" => Payer(e) = chain[e].from /\ Now(e)' = "writeFrom"
       /\ Now(e) = "readTo" => Payer(e) = chain[e].to /\ Now(e)' = "writeTo"
       /\ chain[e].kind \in {"add", "transfer"}
  BY <1>1, <1>9 DEF Payer, Next1, StepKinds
<1>11. UserKnown(e)'  BY <1>1, <1>4, <1>6, <1>9, <1>10 DEF UserKnown
<1>12. CardKnown(e)'  BY <1>1, <1>9, <1>10 DEF CardKnown
<1>13. HeldKnown(e)'
  <2>1. DOMAIN held[e] = {}  BY <1>1, <1>2, <1>10 DEF JobKnown, HeldKnown, MayHold
  <2> QED BY <1>1, <1>9, <1>10, <2>1 DEF HeldKnown, MayHold, PointsOf
<1> QED BY <1>9, <1>11, <1>12, <1>13

(* getUserOrCreate finds the user, or is about to make one. *)
LEMMA FindUserKnown ==
  ASSUME Known, NEW e \in Events, FindUser(e)
  PROVE  Known' /\ Alone(e)
<1>1. Happened(e) /\ Now(e) \in {"findFromUser", "findToUser"}  BY AtNow DEF FindUser
<1>2. LTypes /\ JobKnown(e) /\ StepKinds(e)  BY KindsOfSteps DEF Known
<1>3. User(e) = Payer(e) /\ Payer(e) \in Users  BY <1>1, <1>2, UserIsPayer, EventType
<1>4. /\ Now(e) = "findFromUser" => Payer(e) = chain[e].from
      /\ Now(e) = "findToUser" => Payer(e) = chain[e].to
      /\ chain[e].kind \in {"mint", "move"}
  BY <1>1, <1>2 DEF Payer, StepKinds
<1>5. DOMAIN held[e] = {}  BY <1>1, <1>2, <1>4 DEF JobKnown, HeldKnown, MayHold
<1>6. UNCHANGED <<chain, mined, db, ignored>>  BY DEF FindUser, causes
<1>7. CASE User(e) \in DOMAIN points
  <2>1. pc' = [pc EXCEPT ![e] = @ + 2] /\ UNCHANGED <<mem, held>>  BY <1>7 DEF FindUser
  <2>2. PcTypes' /\ Next2(e) /\ \A f \in Events : f # e => pc'[f] = pc[f]
    BY <1>1, <1>2, <1>6, <2>1, Skips
  <2>3. \/ Now(e) = "findFromUser" /\ Now(e)' = "findToUser"
        \/ Now(e) = "findToUser" /\ Now(e)' = "findCard" /\ chain[e].kind = "mint"
        \/ Now(e) = "findToUser" /\ Now(e)' = "findFromCard" /\ chain[e].kind = "move"
    BY <1>1, <1>4, <2>2 DEF Next2
  <2>4. UserKnown(e)'
    BY <1>1, <1>2, <1>3, <1>4, <1>6, <1>7, <2>3 DEF UserKnown, JobKnown, db
  <2>5. CardKnown(e)'  BY <1>4, <1>6, <2>3 DEF CardKnown
  <2>6. HeldKnown(e)'  BY <1>5, <2>1 DEF HeldKnown
  <2>7. Grow /\ DocTypes' /\ DocsKnown'
    BY <1>2, <1>6 DEF Grow, db, DocTypes, DocsKnown, LTypes, Known, Events
  <2> QED BY <1>1, <1>6, <2>1, <2>2, <2>4, <2>5, <2>6, <2>7, Passes
<1>8. CASE User(e) \notin DOMAIN points
  <2> DEFINE r == [mem[e] EXCEPT !.new = Ask]
  <2>1. r \in Mem /\ r.new = Ask  BY <1>2 DEF LTypes, MemTypes, Mem
  <2>2. mem' = [mem EXCEPT ![e] = r]  BY <1>8 DEF FindUser
  <2> HIDE DEF r
  <2>3. Hold(e, PointsOf(Payer(e))) /\ Advance(e)  BY <1>3, <1>8 DEF FindUser
  <2>4. /\ Next1(e) /\ mem'[e] = r /\ chain' = chain
        /\ DOMAIN held'[e] = DOMAIN held[e] \union {PointsOf(Payer(e))}
        /\ UNCHANGED <<points, pools, stakes, cards>>
        /\ UserKnown(e)' /\ CardKnown(e)' /\ HeldKnown(e)' => Known' /\ Alone(e)
    BY <1>1, <1>6, <2>1, <2>2, <2>3, Reads
  <2>5. \/ Now(e) = "findFromUser" /\ Now(e)' = "createFromUser"
        \/ Now(e) = "findToUser" /\ Now(e)' = "createToUser"
    BY <1>1, <2>4 DEF Next1
  <2>6. UserKnown(e)'
    BY <1>1, <1>2, <1>4, <2>1, <2>4, <2>5, ChainAssumption DEF UserKnown, JobKnown
  <2>7. CardKnown(e)'  BY <1>4, <2>4, <2>5 DEF CardKnown
  <2>8. HeldKnown(e)'  BY <1>4, <1>5, <2>4, <2>5 DEF HeldKnown, MayHold, PointsOf
  <2> QED BY <2>4, <2>6, <2>7, <2>8
<1> QED BY <1>7, <1>8

(* Where the chain is asked, for whom, and what it answers. *)
OnChain(a) == {el \in LegsOn(a) : el[1] <= mined}

(* The sum the chain has is a number. *)
LEMMA OnChainType ==
  ASSUME chain \in Chains, NEW a \in Accounts
  PROVE  Amounts(OnChain(a)) /\ Total(OnChain(a)) \in Int
<1>1. Amounts(LegsOn(a)) /\ OnChain(a) \subseteq LegsOn(a)  BY LegsOnFacts DEF OnChain
<1>2. Amounts(OnChain(a))  BY <1>1, FS_Subset DEF Amounts
<1> QED BY <1>2, TotalType

(* The chain's answer is a number, so that the document can be written. *)
LEMMA AskChainKnown ==
  ASSUME Known, NEW e \in Events, AskChain(e)
  PROVE  Known' /\ Alone(e)
<1> DEFINE a == PointsOf(User(e))
           r == [mem[e] EXCEPT !.new = Total(OnChain(a))]
<1>1. LTypes /\ JobKnown(e) /\ DocsKnown /\ Happened(e)  BY DEF Known, AskChain
<1>2. User(e) \in Users  BY <1>1, UserIsPayer, EventType
<1>3. a \in Accounts  BY <1>2 DEF Accounts
<1>4. Total(OnChain(a)) \in Int  BY <1>1, <1>3, OnChainType DEF LTypes, ChainTypes
<1>5. mem' = [mem EXCEPT ![e] = r]  BY DEF AskChain, OnChain
<1> HIDE DEF a
<1>6. r \in Mem /\ r = [mem[e] EXCEPT !.new = r.new] /\ r.new # None
  BY <1>1, <1>4, ChainAssumption DEF Mem, LTypes, MemTypes
<1> HIDE DEF r
<1>7. /\ UNCHANGED <<chain, mined, points, pools, stakes, cards, history, metadata, pc, held,
                     ignored>>
  BY DEF AskChain, db
<1>8. MemTypes' /\ mem'[e] = r /\ \A f \in Events : f # e => mem'[f] = mem[f]
  BY <1>1, <1>5, <1>6, <1>7, MemFacts DEF LTypes
<1>9. LTypes'
  <2>1. ChainTypes' /\ DocTypes'  BY <1>1, <1>7 DEF LTypes, ChainTypes, DocTypes, Events
  <2>2. PcTypes' /\ HeldTypes'
    BY <1>1, <1>7 DEF LTypes, PcTypes, HeldTypes, Events, End, Steps
  <2> QED BY <1>8, <2>1, <2>2 DEF LTypes
<1>10. Alone(e) /\ Grow /\ DocsKnown'  BY <1>1, <1>7, <1>8 DEF Alone, Grow, DocsKnown
<1>11. Now(e)' = Now(e) /\ End(e)' = End(e)  BY <1>7 DEF Now, StepAt, Steps, End
<1>12. r.user = mem[e].user /\ r.card = mem[e].card /\ r.fromCard = mem[e].fromCard
  BY <1>1, <1>6 DEF LTypes, MemTypes, Mem
<1>13. UserKnown(e)'  BY <1>1, <1>6, <1>7, <1>8, <1>11, <1>12 DEF UserKnown, JobKnown
<1>14. CardKnown(e)'  BY <1>1, <1>7, <1>8, <1>11, <1>12 DEF CardKnown, JobKnown, ToKey, FromKey
<1>15. HeldKnown(e)'
  <2>1. \A b : MayHold(e, b)' <=> MayHold(e, b)
    BY <1>7, <1>11 DEF MayHold, PointsOf, StakeOf, CardOf
  <2> QED BY <1>1, <1>7, <2>1 DEF HeldKnown, JobKnown
<1>16. PlaceKnown(e)'  BY <1>1, <1>7, <1>11 DEF PlaceKnown, JobKnown
<1> QED BY <1>9, <1>10, <1>13, <1>14, <1>15, <1>16, StepKnown DEF JobKnown

(* A user's document, written. *)
LEMMA PointsWritten ==
  ASSUME LTypes, DocsKnown, NEW u \in Users, NEW n \in Int, points' = Upsert(points, u, n),
         UNCHANGED <<chain, pools, stakes, cards, history, metadata>>
  PROVE  /\ Grow /\ DocTypes' /\ DocsKnown' /\ u \in DOMAIN points' /\ points'[u] = n
         /\ \A v \in DOMAIN points' : v # u => v \in DOMAIN points /\ points'[v] = points[v]
<1>1. /\ DOMAIN points' = DOMAIN points \union {u}
      /\ points'[u] = n /\ \A v \in DOMAIN points : v # u => points'[v] = points[v]
  BY DEF Upsert
<1>2. DocTypes'  BY <1>1 DEF LTypes, DocTypes, Events
<1>3. DocsKnown' /\ Grow  BY <1>1 DEF DocsKnown, Grow
<1> QED BY <1>1, <1>2, <1>3

(* updateUserPoint and getUserOrCreate leave a document of the user. *)
LEMMA WriteUserKnown ==
  ASSUME Known, NEW e \in Events, WriteUser(e)
  PROVE  Known' /\ Alone(e)
<1>1. /\ Happened(e)
      /\ Now(e) \in {"writeFrom", "writeTo", "createFromUser", "createToUser"}
  BY AtNow DEF WriteUser
<1>2. LTypes /\ DocsKnown /\ JobKnown(e) /\ StepKinds(e)  BY KindsOfSteps DEF Known
<1>3. User(e) = Payer(e) /\ Payer(e) \in Users  BY <1>1, <1>2, UserIsPayer, EventType
<1>4. mem[e].new \in Int
  BY <1>1, <1>2 DEF WriteUser, JobKnown, UserKnown, LTypes, MemTypes, Mem
<1>5. /\ Wrote(e, PointsOf(Payer(e))) /\ Advance(e)
      /\ UNCHANGED <<chain, mined, mem, pools, stakes, cards, history, metadata, ignored>>
      /\ points' = Upsert(points, Payer(e), mem[e].new)
  BY <1>3 DEF WriteUser
<1>6. Grow /\ DocTypes' /\ DocsKnown' /\ Payer(e) \in DOMAIN points'
  BY <1>2, <1>3, <1>4, <1>5, PointsWritten
<1>7. PcTypes' /\ Next1(e) /\ \A f \in Events : f # e => pc'[f] = pc[f]
  BY <1>1, <1>2, <1>5, Advances
<1>8. /\ DOMAIN held'[e] = DOMAIN held[e] \ {PointsOf(Payer(e))}
      /\ Grow /\ DocTypes' /\ DocsKnown' /\ UserKnown(e)' /\ CardKnown(e)' /\ HeldKnown(e)'
            => Known' /\ Alone(e)
  BY <1>1, <1>5, <1>7, Writes
<1>9. /\ Now(e) \in {"writeFrom", "createFromUser"} => Payer(e) = chain[e].from
      /\ Now(e) \in {"writeTo", "createToUser"} => Payer(e) = chain[e].to
  BY <1>1, <1>2 DEF Payer, StepKinds
<1>10. \/ Now(e) = "writeFrom" /\ Now(e)' = "readTo" /\ chain[e].kind = "transfer"
       \/ Now(e) = "writeTo" /\ Now(e)' \in {"end", "history"} /\ chain[e].kind \in {"add", "transfer"}
       \/ Now(e) = "createFromUser" /\ Now(e)' = "findToUser" /\ chain[e].kind \in {"mint", "move"}
       \/ Now(e) = "createToUser" /\ Now(e)' \in {"findCard", "findFromCard"}
          /\ (Now(e)' = "findCard" => chain[e].kind = "mint") /\ chain[e].kind \in {"mint", "move"}
  BY <1>1, <1>2, <1>7 DEF Next1, StepKinds
<1>11. UserKnown(e)'
  BY <1>2, <1>5, <1>6, <1>9, <1>10 DEF UserKnown, JobKnown, Grow
<1>12. CardKnown(e)'  BY <1>5, <1>10 DEF CardKnown
<1>13. HeldKnown(e)'
  <2>1. DOMAIN held[e] \subseteq {PointsOf(Payer(e))}
    BY <1>1, <1>2, <1>9 DEF HeldKnown, JobKnown, MayHold
  <2> QED BY <1>8, <2>1 DEF HeldKnown
<1> QED BY <1>6, <1>8, <1>11, <1>12, <1>13

(* A join and a claim keep what they have found of the user. *)
LEMMA GetUserKnown ==
  ASSUME Known, NEW e \in Events, GetUser(e)
  PROVE  Known' /\ Alone(e)
<1> DEFINE v == Lookup(points, User(e))
           r == [mem[e] EXCEPT !.user = v]
<1>1. Happened(e) /\ Now(e) = "getUser"  BY AtNow DEF GetUser
<1>2. LTypes /\ JobKnown(e)  BY DEF Known
<1>3. User(e) = Payer(e) /\ Payer(e) \in Users  BY <1>1, <1>2, UserIsPayer, EventType
<1>4. v \in Int \union {None} /\ (v # None => Payer(e) \in DOMAIN points)
  BY <1>2, <1>3 DEF Lookup, LTypes, DocTypes
<1>5. mem[e] \in Mem  BY <1>2 DEF LTypes, MemTypes
<1> HIDE DEF v
<1>6. r \in Mem /\ r.user = v  BY <1>4, <1>5 DEF Mem
<1>7. mem' = [mem EXCEPT ![e] = r]  BY DEF GetUser, v
<1> HIDE DEF r
<1>8. /\ Hold(e, PointsOf(Payer(e))) /\ Advance(e) /\ UNCHANGED <<chain, mined, db, ignored>>
  BY <1>3 DEF GetUser, causes
<1>9. /\ Next1(e) /\ StepKinds(e) /\ mem'[e] = r /\ chain' = chain
      /\ DOMAIN held'[e] = DOMAIN held[e] \union {PointsOf(Payer(e))}
      /\ UNCHANGED <<points, pools, stakes, cards>>
      /\ UserKnown(e)' /\ CardKnown(e)' /\ HeldKnown(e)' => Known' /\ Alone(e)
  BY <1>1, <1>6, <1>7, <1>8, Reads
<1>10. \/ chain[e].kind = "join" /\ Payer(e) = chain[e].from /\ Now(e)' = "findPool"
       \/ chain[e].kind = "claim" /\ Payer(e) = chain[e].to /\ Now(e)' = "saveUser"
  BY <1>1, <1>9 DEF Payer, Next1, StepKinds
<1>11. UserKnown(e)'  BY <1>1, <1>4, <1>6, <1>9, <1>10 DEF UserKnown
<1>12. CardKnown(e)'  BY <1>1, <1>9, <1>10 DEF CardKnown
<1>13. HeldKnown(e)'
  <2>1. DOMAIN held[e] = {}  BY <1>1, <1>2 DEF JobKnown, HeldKnown, MayHold
  <2> QED BY <1>9, <1>10, <2>1 DEF HeldKnown, MayHold, PointsOf
<1> QED BY <1>9, <1>11, <1>12, <1>13

(* playerDocument.save() and winnerUser.save() write a document that is there. *)
LEMMA SaveUserKnown ==
  ASSUME Known, NEW e \in Events, SaveUser(e)
  PROVE  /\ Known' /\ Alone(e)
         /\ Payer(e) \in DOMAIN points
         /\ points' = Upsert(points, Payer(e), IF chain[e].kind = "join"
                                               THEN mem[e].user - chain[e].points
                                               ELSE mem[e].user + chain[e].points)
<1> DEFINE n == IF chain[e].kind = "join" THEN mem[e].user - chain[e].points
                ELSE mem[e].user + chain[e].points
<1>1. Happened(e) /\ Now(e) = "saveUser"  BY AtNow DEF SaveUser
<1>2. LTypes /\ DocsKnown /\ JobKnown(e) /\ StepKinds(e)  BY KindsOfSteps DEF Known
<1>3. User(e) = Payer(e) /\ Payer(e) \in Users  BY <1>1, <1>2, UserIsPayer, EventType
<1>4. n \in Int
  <2>1. mem[e].user \in Int  BY <1>2 DEF SaveUser, LTypes, MemTypes, Mem
  <2> QED BY <1>2, <2>1, EventType
<1>5. \/ chain[e].kind = "join" /\ Payer(e) = chain[e].from
      \/ chain[e].kind = "claim" /\ Payer(e) = chain[e].to
  BY <1>1, <1>2 DEF Payer, StepKinds
<1>6. Payer(e) \in DOMAIN points  BY <1>1, <1>2, <1>5 DEF SaveUser, JobKnown, UserKnown
<1>7. /\ Wrote(e, PointsOf(Payer(e))) /\ Advance(e)
      /\ UNCHANGED <<chain, mined, mem, pools, stakes, cards, history, metadata, ignored>>
      /\ points' = [points EXCEPT ![Payer(e)] = n]
  BY <1>3 DEF SaveUser
<1>8. points' = Upsert(points, Payer(e), n)  BY <1>6, <1>7 DEF Upsert
<1> HIDE DEF n
<1>9. Grow /\ DocTypes' /\ DocsKnown' /\ Payer(e) \in DOMAIN points'
  BY <1>2, <1>3, <1>4, <1>7, <1>8, PointsWritten
<1>10. PcTypes' /\ Next1(e) /\ \A f \in Events : f # e => pc'[f] = pc[f]
  BY <1>1, <1>2, <1>7, Advances
<1>11. /\ DOMAIN held'[e] = DOMAIN held[e] \ {PointsOf(Payer(e))}
       /\ Grow /\ DocTypes' /\ DocsKnown' /\ UserKnown(e)' /\ CardKnown(e)' /\ HeldKnown(e)'
            => Known' /\ Alone(e)
  BY <1>1, <1>7, <1>10, Writes
<1>12. Now(e)' = IF chain[e].kind = "join" THEN "findStake" ELSE "findCard"
  BY <1>1, <1>10 DEF Next1
<1>13. UserKnown(e)'
  BY <1>1, <1>2, <1>5, <1>7, <1>9, <1>12 DEF UserKnown, JobKnown, Grow
<1>14. CardKnown(e)'  BY <1>5, <1>7, <1>12 DEF CardKnown
<1>15. HeldKnown(e)'
  <2>1. DOMAIN held[e] \subseteq {PointsOf(Payer(e))}
    BY <1>1, <1>2, <1>5 DEF HeldKnown, JobKnown, MayHold
  <2> QED BY <1>11, <2>1 DEF HeldKnown
<1>16. Known' /\ Alone(e)  BY <1>9, <1>11, <1>13, <1>14, <1>15
<1> QED BY <1>6, <1>8, <1>16 DEF n

(* A pool stored is there from then on. *)
LEMMA SavePoolKnown ==
  ASSUME Known, NEW e \in Events, SavePool(e) \/ FindPool(e)
  PROVE  Known' /\ Alone(e)
<1>1. Happened(e) /\ Now(e) \in {"savePool", "findPool"}  BY AtNow DEF SavePool, FindPool
<1>2. LTypes /\ DocsKnown /\ JobKnown(e) /\ StepKinds(e)  BY KindsOfSteps DEF Known
<1>3. /\ Advance(e) /\ pools' = pools \union {chain[e].pool}
      /\ UNCHANGED <<chain, mined, mem, held, points, stakes, cards, history, metadata, ignored>>
  BY DEF SavePool, FindPool, causes
<1>4. chain[e].pool \in Pools  BY <1>2, EventType
<1>5. Grow /\ DocTypes' /\ DocsKnown'
  BY <1>2, <1>3, <1>4 DEF Grow, LTypes, DocTypes, DocsKnown, Events
<1>6. PcTypes' /\ Next1(e) /\ \A f \in Events : f # e => pc'[f] = pc[f]
  BY <1>1, <1>2, <1>3, Advances
<1>7. Grow /\ DocTypes' /\ DocsKnown' /\ UserKnown(e)' /\ CardKnown(e)' /\ HeldKnown(e)'
            => Known' /\ Alone(e)
  BY <1>1, <1>3, <1>6, Passes
<1>8. \/ Now(e) = "savePool" /\ Now(e)' = "end" /\ chain[e].kind = "create"
      \/ Now(e) = "findPool" /\ Now(e)' = "saveUser" /\ chain[e].kind = "join"
      \/ Now(e) = "findPool" /\ Now(e)' = "getUser" /\ chain[e].kind = "claim"
  BY <1>1, <1>2, <1>6 DEF Next1, StepKinds
<1>9. UserKnown(e)'  BY <1>2, <1>3, <1>5, <1>8 DEF UserKnown, JobKnown, Grow
<1>10. CardKnown(e)'  BY <1>3, <1>8 DEF CardKnown
<1>11. HeldKnown(e)'
  BY <1>2, <1>3, <1>8 DEF HeldKnown, JobKnown, MayHold, PointsOf
<1> QED BY <1>5, <1>7, <1>9, <1>10, <1>11

(* The handler that gives the event up is done. *)
LEMMA PoolUnknownKnown ==
  ASSUME Known, NEW e \in Events, PoolUnknown(e)
  PROVE  Known' /\ Alone(e)
<1>1. Happened(e) /\ Now(e) = "findPool"  BY AtNow DEF PoolUnknown
<1>2. LTypes /\ DocsKnown /\ JobKnown(e) /\ StepKinds(e)  BY KindsOfSteps DEF Known
<1>3. /\ pc' = [pc EXCEPT ![e] = End(e)] /\ held' = [held EXCEPT ![e] = <<>>]
      /\ ignored' = ignored \union {e}
      /\ UNCHANGED <<chain, mined, mem, points, pools, stakes, cards, history, metadata>>
  BY DEF PoolUnknown, db
<1>4. pc'[e] = End(e) /\ held'[e] = <<>>
      /\ \A f \in Events : f # e => pc'[f] = pc[f] /\ held'[f] = held[f]
  BY <1>2, <1>3 DEF LTypes, PcTypes, HeldTypes
<1>5. \A f \in Events : End(f)' = End(f)  BY <1>3 DEF End, Steps
<1>6. LTypes'
  <2>1. ChainTypes' /\ DocTypes'  BY <1>2, <1>3 DEF LTypes, ChainTypes, DocTypes, Events
  <2>2. PcTypes'
    <3>1. End(e) \in Nat /\ End(e) \in 1 .. End(e)  BY <1>2, EndIsNumber
    <3> QED BY <1>2, <1>3, <1>4, <1>5, <3>1 DEF LTypes, PcTypes, Events
  <2>3. MemTypes'  BY <1>2, <1>3 DEF LTypes, MemTypes, Events
  <2>4. HeldTypes'
    <3>1. held'[e] \in [DOMAIN held'[e] -> BOOLEAN]  BY <1>4
    <3> QED BY <1>2, <1>3, <1>4, <3>1 DEF LTypes, HeldTypes, Events
  <2> QED BY <2>1, <2>2, <2>3, <2>4 DEF LTypes
<1>7. Alone(e) /\ Grow /\ DocsKnown'  BY <1>2, <1>3, <1>4 DEF Alone, Grow, DocsKnown
<1>8. Now(e)' = "end"
  <2>1. pc'[e] = End(e)'  BY <1>4, <1>5
  <2> QED BY <2>1 DEF Now, StepAt
<1>9. chain[e].kind \in {"join", "claim"}  BY <1>1, <1>2 DEF StepKinds
<1>10. UserKnown(e)'  BY <1>3, <1>8, <1>9 DEF UserKnown
<1>11. CardKnown(e)'  BY <1>3, <1>8, <1>9 DEF CardKnown
<1>12. HeldKnown(e)'  BY <1>4 DEF HeldKnown
<1>13. PlaceKnown(e)'
  <2>1. e \in Int /\ mined \in Int /\ e <= mined
    BY <1>1, <1>2, EventFacts DEF LTypes, ChainTypes, Happened
  <2> QED BY <1>3, <1>4, <1>5, <2>1 DEF PlaceKnown
<1> QED BY <1>6, <1>7, <1>10, <1>11, <1>12, <1>13, StepKnown DEF JobKnown

(* A join that looks for the stake holds its account only. *)
LEMMA FindStakeKnown ==
  ASSUME Known, NEW e \in Events, FindStake(e)
  PROVE  Known' /\ Alone(e)
<1> DEFINE k == <<chain[e].pool, chain[e].from>>
           v == Lookup(stakes, k)
           r == [mem[e] EXCEPT !.stake = v]
<1>1. Happened(e) /\ Now(e) = "findStake"  BY AtNow DEF FindStake
<1>2. LTypes /\ JobKnown(e)  BY DEF Known
<1>3. v \in Int \union {None}  BY <1>2 DEF Lookup, LTypes, DocTypes
<1>4. mem[e] \in Mem  BY <1>2 DEF LTypes, MemTypes
<1>5. mem' = [mem EXCEPT ![e] = r]  BY DEF FindStake
<1> HIDE DEF v
<1>6. r \in Mem  BY <1>3, <1>4 DEF Mem
<1> HIDE DEF r
<1>7. /\ Hold(e, StakeOf(chain[e].pool, chain[e].from)) /\ Advance(e)
      /\ UNCHANGED <<chain, mined, db, ignored>>
  BY DEF FindStake, causes
<1>8. /\ Next1(e) /\ StepKinds(e) /\ mem'[e] = r /\ chain' = chain
      /\ DOMAIN held'[e] = DOMAIN held[e] \union {StakeOf(chain[e].pool, chain[e].from)}
      /\ UNCHANGED <<points, pools, stakes, cards>>
      /\ UserKnown(e)' /\ CardKnown(e)' /\ HeldKnown(e)' => Known' /\ Alone(e)
  BY <1>1, <1>5, <1>6, <1>7, Reads
<1>9. chain[e].kind = "join" /\ Now(e)' = "saveStake"  BY <1>1, <1>8 DEF Next1, StepKinds
<1>10. UserKnown(e)'  BY <1>1, <1>2, <1>8, <1>9 DEF UserKnown, JobKnown
<1>11. CardKnown(e)'  BY <1>8, <1>9 DEF CardKnown
<1>12. HeldKnown(e)'
  <2>1. DOMAIN held[e] = {}  BY <1>1, <1>2 DEF JobKnown, HeldKnown, MayHold
  <2> QED BY <1>8, <1>9, <2>1 DEF HeldKnown, MayHold, StakeOf
<1> QED BY <1>8, <1>10, <1>11, <1>12

(* A stake is written after its pool and its user. *)
LEMMA SaveStakeKnown ==
  ASSUME Known, NEW e \in Events, SaveStake(e)
  PROVE  Known' /\ Alone(e)
<1> DEFINE k == <<chain[e].pool, chain[e].from>>
           n == (IF mem[e].stake = None THEN 0 ELSE mem[e].stake) + chain[e].points
<1>1. Happened(e) /\ Now(e) = "saveStake"  BY AtNow DEF SaveStake
<1>2. LTypes /\ DocsKnown /\ JobKnown(e) /\ StepKinds(e)  BY KindsOfSteps DEF Known
<1>3. chain[e].kind = "join"  BY <1>1, <1>2 DEF StepKinds
<1>4. n \in Int
  <2>1. mem[e].stake \in Int \union {None}  BY <1>2 DEF LTypes, MemTypes, Mem
  <2> QED BY <1>2, <2>1, EventType
<1>5. k \in Pools \X Users /\ k[1] \in pools /\ k[2] \in DOMAIN points
  BY <1>1, <1>2, <1>3, EventType DEF JobKnown, UserKnown
<1>6. /\ Wrote(e, StakeOf(chain[e].pool, chain[e].from)) /\ Advance(e)
      /\ UNCHANGED <<chain, mined, mem, points, pools, cards, history, metadata, ignored>>
      /\ stakes' = Upsert(stakes, k, n)
  BY DEF SaveStake
<1> HIDE DEF k, n
<1>7. /\ DOMAIN stakes' = DOMAIN stakes \union {k}
      /\ stakes'[k] = n /\ \A l \in DOMAIN stakes : l # k => stakes'[l] = stakes[l]
  BY <1>6 DEF Upsert
<1>8. Grow /\ DocTypes' /\ DocsKnown'
  BY <1>2, <1>4, <1>5, <1>6, <1>7 DEF Grow, LTypes, DocTypes, DocsKnown, Events
<1>9. PcTypes' /\ Next1(e) /\ \A f \in Events : f # e => pc'[f] = pc[f]
  BY <1>1, <1>2, <1>6, Advances
<1>10. /\ DOMAIN held'[e] = DOMAIN held[e] \ {StakeOf(chain[e].pool, chain[e].from)}
       /\ Grow /\ DocTypes' /\ DocsKnown' /\ UserKnown(e)' /\ CardKnown(e)' /\ HeldKnown(e)'
            => Known' /\ Alone(e)
  BY <1>1, <1>6, <1>9, Writes
<1>11. Now(e)' = "history"  BY <1>1, <1>9 DEF Next1
<1>12. UserKnown(e)'  BY <1>3, <1>6, <1>11 DEF UserKnown
<1>13. CardKnown(e)'  BY <1>3, <1>6, <1>11 DEF CardKnown
<1>14. HeldKnown(e)'
  <2>1. DOMAIN held[e] \subseteq {StakeOf(chain[e].pool, chain[e].from)}
    BY <1>1, <1>2 DEF HeldKnown, JobKnown, MayHold
  <2> QED BY <1>10, <2>1 DEF HeldKnown
<1> QED BY <1>8, <1>10, <1>12, <1>13, <1>14

(* A job that looks for the receiver's card may hold the sender's. *)
LEMMA FindCardKnown ==
  ASSUME Known, NEW e \in Events, FindCard(e)
  PROVE  Known' /\ Alone(e)
<1> DEFINE v == Lookup(cards, ToKey(e))
           r == [mem[e] EXCEPT !.card = v]
<1>1. Happened(e) /\ Now(e) = "findCard"  BY AtNow DEF FindCard
<1>2. LTypes /\ JobKnown(e)  BY DEF Known
<1>3. v \in CardDoc \union {None} /\ (v # None => ToKey(e) \in DOMAIN cards)
  BY <1>2 DEF Lookup, LTypes, DocTypes
<1>4. mem[e] \in Mem  BY <1>2 DEF LTypes, MemTypes
<1>5. mem' = [mem EXCEPT ![e] = r]  BY DEF FindCard
<1> HIDE DEF v
<1>6. r \in Mem /\ r.card = v /\ r.fromCard = mem[e].fromCard  BY <1>3, <1>4 DEF Mem
<1> HIDE DEF r
<1>7. /\ Hold(e, CardOf(chain[e].card, chain[e].to)) /\ Advance(e)
      /\ UNCHANGED <<chain, mined, db, ignored>>
  BY DEF FindCard, causes
<1>8. /\ Next1(e) /\ StepKinds(e) /\ mem'[e] = r /\ chain' = chain
      /\ DOMAIN held'[e] = DOMAIN held[e] \union {CardOf(chain[e].card, chain[e].to)}
      /\ UNCHANGED <<points, pools, stakes, cards>>
      /\ UserKnown(e)' /\ CardKnown(e)' /\ HeldKnown(e)' => Known' /\ Alone(e)
  BY <1>1, <1>5, <1>6, <1>7, Reads
<1>9. \/ chain[e].kind = "move" /\ Now(e)' = "saveFromCard"
      \/ chain[e].kind \in {"mint", "claim"} /\ Now(e)' = "saveCard"
  BY <1>1, <1>8 DEF Next1, StepKinds
<1>10. UserKnown(e)'  BY <1>1, <1>2, <1>8, <1>9 DEF UserKnown, JobKnown
<1>11. CardKnown(e)'
  BY <1>1, <1>2, <1>3, <1>6, <1>8, <1>9 DEF CardKnown, JobKnown, ToKey, FromKey
<1>12. HeldKnown(e)'
  <2>1. \A a \in DOMAIN held[e] : chain[e].kind = "move" /\ a = CardOf(chain[e].card, chain[e].from)
    BY <1>1, <1>2 DEF JobKnown, HeldKnown, MayHold
  <2> QED BY <1>8, <1>9, <2>1 DEF HeldKnown, MayHold, CardOf
<1> QED BY <1>8, <1>10, <1>11, <1>12

(* A transfer that looks for the sender's card holds its account. *)
LEMMA FindFromCardKnown ==
  ASSUME Known, NEW e \in Events, FindFromCard(e)
  PROVE  Known' /\ Alone(e)
<1> DEFINE v == Lookup(cards, FromKey(e))
           r == [mem[e] EXCEPT !.fromCard = v]
<1>1. Happened(e) /\ Now(e) = "findFromCard"  BY AtNow DEF FindFromCard
<1>2. LTypes /\ JobKnown(e)  BY DEF Known
<1>3. v \in CardDoc \union {None} /\ (v # None => FromKey(e) \in DOMAIN cards)
  BY <1>2 DEF Lookup, LTypes, DocTypes
<1>4. mem[e] \in Mem  BY <1>2 DEF LTypes, MemTypes
<1>5. mem' = [mem EXCEPT ![e] = r]  BY DEF FindFromCard
<1> HIDE DEF v
<1>6. r \in Mem /\ r.fromCard = v  BY <1>3, <1>4 DEF Mem
<1> HIDE DEF r
<1>7. /\ Hold(e, CardOf(chain[e].card, chain[e].from)) /\ Advance(e)
      /\ UNCHANGED <<chain, mined, db, ignored>>
  BY DEF FindFromCard, causes
<1>8. /\ Next1(e) /\ StepKinds(e) /\ mem'[e] = r /\ chain' = chain
      /\ DOMAIN held'[e] = DOMAIN held[e] \union {CardOf(chain[e].card, chain[e].from)}
      /\ UNCHANGED <<points, pools, stakes, cards>>
      /\ UserKnown(e)' /\ CardKnown(e)' /\ HeldKnown(e)' => Known' /\ Alone(e)
  BY <1>1, <1>5, <1>6, <1>7, Reads
<1>9. chain[e].kind = "move" /\ Now(e)' = "findCard"  BY <1>1, <1>8 DEF Next1, StepKinds
<1>10. UserKnown(e)'  BY <1>1, <1>2, <1>8, <1>9 DEF UserKnown, JobKnown
<1>11. CardKnown(e)'  BY <1>3, <1>6, <1>8, <1>9 DEF CardKnown, FromKey
<1>12. HeldKnown(e)'
  <2>1. DOMAIN held[e] = {}  BY <1>1, <1>2 DEF JobKnown, HeldKnown, MayHold
  <2> QED BY <1>8, <1>9, <2>1 DEF HeldKnown, MayHold, CardOf
<1> QED BY <1>8, <1>10, <1>11, <1>12

(* A card document, written. *)
LEMMA CardsWritten ==
  ASSUME LTypes, DocsKnown, NEW e \in Events, NEW c \in FiledCards, NEW u \in DOMAIN points,
         NEW n \in Int, Stored(e, <<c, u>>, n),
         UNCHANGED <<chain, points, pools, stakes, history, metadata>>
  PROVE  /\ Grow /\ DocTypes' /\ DocsKnown'
         /\ DOMAIN cards' = DOMAIN cards \union {<<c, u>>} /\ <<c, u>> \in DOMAIN cards'
         /\ cards'[<<c, u>>].amount = n
         /\ \A l \in DOMAIN cards : l # <<c, u>> => cards'[l] = cards[l]
<1>1. PICK d \in CardDoc : d.amount = n /\ cards' = Upsert(cards, <<c, u>>, d)
  BY EventType DEF CardDoc, Stored
<1>2. PICK k : k = <<c, u>> /\ k \in FiledCards \X Users /\ k[2] \in DOMAIN points
  BY DEF LTypes, DocTypes
<1>3. /\ DOMAIN cards' = DOMAIN cards \union {k} /\ cards'[k] = d
      /\ \A l \in DOMAIN cards : l # k => cards'[l] = cards[l]
  BY <1>1, <1>2 DEF Upsert
<1>4. DocTypes'  BY <1>2, <1>3 DEF LTypes, DocTypes, Events
<1>5. Grow /\ DocsKnown'  BY <1>2, <1>3 DEF DocsKnown, Grow
<1> QED BY <1>1, <1>2, <1>3, <1>4, <1>5

(* An existing card is added to. *)
LEMMA AddToCardKnown ==
  ASSUME Known, NEW e \in Events, AddToCard(e)
  PROVE  Known' /\ Alone(e)
<1> DEFINE n == mem[e].card.amount + chain[e].amount
<1>1. Happened(e) /\ Now(e) \in {"saveCard", "saveToCard"}  BY AtNow DEF AddToCard
<1>2. LTypes /\ DocsKnown /\ JobKnown(e) /\ StepKinds(e)  BY KindsOfSteps DEF Known
<1>3. n \in Int
  <2>1. mem[e].card \in CardDoc  BY <1>2 DEF AddToCard, InTime, LTypes, MemTypes, Mem
  <2> QED BY <1>2, <2>1, EventType DEF CardDoc
<1>4. chain[e].to \in DOMAIN points /\ chain[e].card \in FiledCards
  BY <1>1, <1>2, EventType DEF JobKnown, UserKnown, StepKinds
<1>5. /\ Stored(e, <<chain[e].card, chain[e].to>>, n)
      /\ Wrote(e, CardOf(chain[e].card, chain[e].to))
      /\ UNCHANGED <<chain, mined, points, pools, stakes, history, metadata, mem, ignored>>
  BY DEF AddToCard, ToKey
<1> HIDE DEF n
<1>6. Grow /\ DocTypes' /\ DocsKnown' /\ ToKey(e) \in DOMAIN cards'
  <2>1. Grow /\ DocTypes' /\ DocsKnown' /\ <<chain[e].card, chain[e].to>> \in DOMAIN cards'
    BY <1>2, <1>3, <1>4, <1>5, CardsWritten
  <2> QED BY <2>1 DEF ToKey
<1>7. PcTypes' /\ Now(e)' = "history" /\ \A f \in Events : f # e => pc'[f] = pc[f]
  <2>1. CASE Now(e) = "saveToCard"
    <3>1. pc' = [pc EXCEPT ![e] = @ + 2]  BY <1>1, <2>1, AtNow DEF AddToCard
    <3> QED BY <1>2, <1>5, <2>1, <3>1, Skips DEF Next2
  <2>2. CASE Now(e) = "saveCard"
    <3>1. ~ At(e, {"saveToCard"})  BY <1>1, <2>2, AtNow
    <3>2. Advance(e)  BY <3>1 DEF AddToCard, Advance
    <3> QED BY <1>2, <1>5, <2>2, <3>2, Advances DEF Next1
  <2> QED BY <1>1, <2>1, <2>2
<1>8. /\ DOMAIN held'[e] = DOMAIN held[e] \ {CardOf(chain[e].card, chain[e].to)}
      /\ Grow /\ DocTypes' /\ DocsKnown' /\ UserKnown(e)' /\ CardKnown(e)' /\ HeldKnown(e)'
            => Known' /\ Alone(e)
  BY <1>1, <1>5, <1>7, Writes
<1>9. UserKnown(e)'  BY <1>1, <1>2, <1>4, <1>5, <1>7 DEF UserKnown, JobKnown, StepKinds
<1>10. CardKnown(e)'  BY <1>5, <1>6, <1>7 DEF CardKnown, ToKey
<1>11. HeldKnown(e)'
  <2>1. DOMAIN held[e] \subseteq {CardOf(chain[e].card, chain[e].to)}
    BY <1>1, <1>2 DEF HeldKnown, JobKnown, MayHold
  <2> QED BY <1>8, <2>1 DEF HeldKnown
<1> QED BY <1>6, <1>8, <1>9, <1>10, <1>11

(* A card is made after the document of its owner. *)
LEMMA SetCardKnown ==
  ASSUME Known, NEW e \in Events, SetCard(e)
  PROVE  Known' /\ Alone(e)
<1>1. Happened(e) /\ Now(e) \in {"saveCard", "saveToCard"}  BY AtNow DEF SetCard, SetsCard
<1>2. LTypes /\ DocsKnown /\ JobKnown(e) /\ StepKinds(e)  BY KindsOfSteps DEF Known
<1>3. chain[e].to \in DOMAIN points /\ chain[e].card \in FiledCards /\ chain[e].amount \in Int
  BY <1>1, <1>2, EventType DEF JobKnown, UserKnown, StepKinds
<1>4. /\ Stored(e, <<chain[e].card, chain[e].to>>, chain[e].amount)
      /\ Wrote(e, CardOf(chain[e].card, chain[e].to)) /\ Advance(e)
      /\ UNCHANGED <<chain, mined, points, pools, stakes, history, metadata, mem, ignored>>
  BY DEF SetCard, ToKey
<1>5. Grow /\ DocTypes' /\ DocsKnown' /\ ToKey(e) \in DOMAIN cards'
  <2>1. Grow /\ DocTypes' /\ DocsKnown' /\ <<chain[e].card, chain[e].to>> \in DOMAIN cards'
    BY <1>2, <1>3, <1>4, CardsWritten
  <2> QED BY <2>1 DEF ToKey
<1>6. PcTypes' /\ Next1(e) /\ \A f \in Events : f # e => pc'[f] = pc[f]
  BY <1>1, <1>2, <1>4, Advances
<1>7. /\ DOMAIN held'[e] = DOMAIN held[e] \ {CardOf(chain[e].card, chain[e].to)}
      /\ Grow /\ DocTypes' /\ DocsKnown' /\ UserKnown(e)' /\ CardKnown(e)' /\ HeldKnown(e)'
            => Known' /\ Alone(e)
  BY <1>1, <1>4, <1>6, Writes
<1>8. Now(e)' \in {"history", "metadata"}  BY <1>1, <1>6 DEF Next1
<1>9. UserKnown(e)'  BY <1>1, <1>2, <1>3, <1>4, <1>8 DEF UserKnown, JobKnown, StepKinds
<1>10. CardKnown(e)'  BY <1>4, <1>5, <1>8 DEF CardKnown, ToKey
<1>11. HeldKnown(e)'
  <2>1. DOMAIN held[e] \subseteq {CardOf(chain[e].card, chain[e].to)}
    BY <1>1, <1>2 DEF HeldKnown, JobKnown, MayHold
  <2> QED BY <1>7, <2>1 DEF HeldKnown
<1> QED BY <1>5, <1>7, <1>9, <1>10, <1>11

(* A job that leaves out a write gives up the account it held. *)
LEMMA Keeps ==
  ASSUME Known, NEW e \in Events, Happened(e), Now(e) # "end", NEW a,
         Kept(e, a), Advance(e), UNCHANGED <<chain, mined, db, mem, ignored>>
  PROVE  /\ Next1(e) /\ StepKinds(e) /\ DOMAIN held'[e] = DOMAIN held[e] \ {a}
         /\ UserKnown(e)' /\ CardKnown(e)' /\ HeldKnown(e)' => Known' /\ Alone(e)
<1>1. LTypes /\ DocsKnown /\ StepKinds(e)  BY KindsOfSteps DEF Known
<1>2. /\ HeldTypes' /\ DOMAIN held'[e] = DOMAIN held[e] \ {a}
      /\ \A f \in Events : f # e => held'[f] = held[f]
  BY <1>1, KeptFacts DEF LTypes
<1>3. MemTypes'  BY <1>1 DEF LTypes, MemTypes, Events
<1>4. GoesOn(e)  BY <1>2, <1>3 DEF GoesOn
<1>5. PcTypes' /\ Next1(e) /\ \A f \in Events : f # e => pc'[f] = pc[f]  BY <1>1, Advances
<1>6. Grow /\ DocTypes' /\ DocsKnown'
  BY <1>1 DEF Grow, db, DocTypes, DocsKnown, LTypes, Events
<1> QED BY <1>1, <1>2, <1>4, <1>5, <1>6, StepsKnown

(* A job that leaves an older event out has found the card. *)
LEMMA SkipCardKnown ==
  ASSUME Known, NEW e \in Events, SkipCard(e)
  PROVE  Known' /\ Alone(e)
<1>1. Happened(e) /\ Now(e) = "saveCard" /\ mem[e].card # None  BY AtNow DEF SkipCard
<1>2. LTypes /\ JobKnown(e)  BY DEF Known
<1>3. /\ Kept(e, CardOf(chain[e].card, chain[e].to)) /\ Advance(e)
      /\ UNCHANGED <<chain, mined, db, mem, ignored>>
  BY DEF SkipCard
<1>4. /\ Next1(e) /\ StepKinds(e)
      /\ DOMAIN held'[e] = DOMAIN held[e] \ {CardOf(chain[e].card, chain[e].to)}
      /\ UserKnown(e)' /\ CardKnown(e)' /\ HeldKnown(e)' => Known' /\ Alone(e)
  BY <1>1, <1>3, Keeps
<1>5. Now(e)' = "history" /\ chain[e].kind \in {"mint", "claim"}
  BY <1>1, <1>4 DEF Next1, StepKinds
<1>6. UserKnown(e)'  BY <1>1, <1>2, <1>3, <1>5 DEF UserKnown, JobKnown, db
<1>7. CardKnown(e)'  BY <1>1, <1>2, <1>3, <1>5 DEF CardKnown, JobKnown, db, ToKey
<1>8. HeldKnown(e)'
  <2>1. DOMAIN held[e] \subseteq {CardOf(chain[e].card, chain[e].to)}
    BY <1>1, <1>2 DEF HeldKnown, JobKnown, MayHold
  <2> QED BY <1>4, <2>1 DEF HeldKnown
<1> QED BY <1>4, <1>6, <1>7, <1>8

(* The sender's card is written if it was found. *)
LEMMA TakeFromCardKnown ==
  ASSUME Known, NEW e \in Events, TakeFromCard(e)
  PROVE  Known' /\ Alone(e)
<1> DEFINE a == CardOf(chain[e].card, chain[e].from)
           n == mem[e].fromCard.amount - chain[e].amount
<1>1. Happened(e) /\ Now(e) = "saveFromCard"  BY AtNow DEF TakeFromCard
<1>2. LTypes /\ DocsKnown /\ JobKnown(e) /\ StepKinds(e)  BY KindsOfSteps DEF Known
<1>3. /\ Advance(e) /\ chain[e].kind = "move"
      /\ UNCHANGED <<chain, mined, points, pools, stakes, history, metadata, mem, ignored>>
  BY <1>1, <1>2 DEF TakeFromCard, StepKinds
<1>4. PcTypes' /\ Next1(e) /\ \A f \in Events : f # e => pc'[f] = pc[f]
  BY <1>1, <1>2, <1>3, Advances
<1>5. Now(e)' = "saveToCard"  BY <1>1, <1>4 DEF Next1
<1>6. UserKnown(e)'  BY <1>1, <1>2, <1>3, <1>5 DEF UserKnown, JobKnown
<1>7. DOMAIN held[e] \subseteq {a, CardOf(chain[e].card, chain[e].to)}
  BY <1>1, <1>2 DEF HeldKnown, JobKnown, MayHold
<1>8. DOMAIN held'[e] = DOMAIN held[e] \ {a} => HeldKnown(e)'
  BY <1>3, <1>5, <1>7 DEF HeldKnown, MayHold, CardOf
<1>9. CASE InTime(e, mem[e].fromCard)
  <2>1. mem[e].fromCard \in CardDoc  BY <1>2, <1>9 DEF InTime, LTypes, MemTypes, Mem
  <2>2. n \in Int  BY <1>2, <2>1, EventType DEF CardDoc
  <2>3. chain[e].from \in DOMAIN points /\ chain[e].card \in FiledCards
    BY <1>1, <1>2, <1>3, EventType DEF JobKnown, UserKnown
  <2>4. Stored(e, <<chain[e].card, chain[e].from>>, n) /\ Wrote(e, a)
    BY <1>9 DEF TakeFromCard, FromKey
  <2> HIDE DEF n, a
  <2>5. Grow /\ DocTypes' /\ DocsKnown'  BY <1>2, <1>3, <2>2, <2>3, <2>4, CardsWritten
  <2>6. CardKnown(e)'  BY <1>1, <1>2, <1>3, <1>5, <2>5 DEF CardKnown, JobKnown, ToKey, Grow
  <2> QED BY <1>1, <1>3, <1>4, <1>6, <1>8, <2>4, <2>5, <2>6, Writes
<1>10. CASE ~ InTime(e, mem[e].fromCard)
  <2>1. Kept(e, a) /\ UNCHANGED <<chain, mined, db, mem, ignored>>
    BY <1>3, <1>10 DEF TakeFromCard, db
  <2> HIDE DEF a
  <2>2. CardKnown(e)'  BY <1>1, <1>2, <1>3, <1>5, <2>1 DEF CardKnown, JobKnown, ToKey, db
  <2> QED BY <1>1, <1>3, <1>6, <1>8, <2>1, <2>2, Keeps
<1> QED BY <1>9, <1>10

(* Metadata is requested of cards that are there. *)
LEMMA AddMetadataKnown ==
  ASSUME Known, NEW e \in Events, AddMetadata(e)
  PROVE  Known' /\ Alone(e)
<1>1. Happened(e) /\ Now(e) = "metadata"  BY AtNow DEF AddMetadata
<1>2. LTypes /\ DocsKnown /\ JobKnown(e) /\ StepKinds(e)  BY KindsOfSteps DEF Known
<1>3. /\ Advance(e) /\ metadata' = metadata \union {ToKey(e)}
      /\ UNCHANGED <<chain, mined, mem, held, points, pools, stakes, cards, history, ignored>>
  BY DEF AddMetadata, causes
<1>4. chain[e].kind \in {"mint", "claim", "move"} /\ ToKey(e) \in DOMAIN cards
  BY <1>1, <1>2 DEF StepKinds, JobKnown, CardKnown
<1>5. Grow /\ DocTypes' /\ DocsKnown'
  BY <1>2, <1>3, <1>4 DEF Grow, LTypes, DocTypes, DocsKnown, Events
<1>6. PcTypes' /\ Next1(e) /\ \A f \in Events : f # e => pc'[f] = pc[f]
  BY <1>1, <1>2, <1>3, Advances
<1>7. Grow /\ DocTypes' /\ DocsKnown' /\ UserKnown(e)' /\ CardKnown(e)' /\ HeldKnown(e)'
            => Known' /\ Alone(e)
  BY <1>1, <1>3, <1>6, Passes
<1>8. Now(e)' \in {"history", "end"}  BY <1>1, <1>6 DEF Next1
<1>9. UserKnown(e)'  BY <1>1, <1>2, <1>3, <1>4, <1>8 DEF UserKnown, JobKnown
<1>10. CardKnown(e)'  BY <1>3, <1>4, <1>8 DEF CardKnown, ToKey
<1>11. HeldKnown(e)'
  <2>1. DOMAIN held[e] = {}  BY <1>1, <1>2 DEF JobKnown, HeldKnown, MayHold
  <2> QED BY <1>3, <2>1 DEF HeldKnown
<1> QED BY <1>5, <1>7, <1>9, <1>10, <1>11

(* A history document is of an event of the chain. *)
LEMMA SaveHistoryKnown ==
  ASSUME Known, NEW e \in Events, SaveHistory(e)
  PROVE  Known' /\ Alone(e)
<1>1. Happened(e) /\ Now(e) = "history"  BY AtNow DEF SaveHistory
<1>2. LTypes /\ DocsKnown /\ JobKnown(e) /\ StepKinds(e)  BY KindsOfSteps DEF Known
<1>3. /\ Advance(e) /\ history' = history \union {e}
      /\ UNCHANGED <<chain, mined, mem, held, points, pools, stakes, cards, metadata, ignored>>
  BY DEF SaveHistory, causes
<1>4. chain[e].kind \in {"transfer", "join", "mint", "claim", "move"}
  BY <1>1, <1>2 DEF StepKinds
<1>5. Grow /\ DocTypes' /\ DocsKnown'
  BY <1>2, <1>3 DEF Grow, LTypes, DocTypes, DocsKnown, Events
<1>6. PcTypes' /\ Next1(e) /\ \A f \in Events : f # e => pc'[f] = pc[f]
  BY <1>1, <1>2, <1>3, Advances
<1>7. Grow /\ DocTypes' /\ DocsKnown' /\ UserKnown(e)' /\ CardKnown(e)' /\ HeldKnown(e)'
            => Known' /\ Alone(e)
  BY <1>1, <1>3, <1>6, Passes
<1>8. Now(e)' \in {"metadata", "end"}  BY <1>1, <1>6 DEF Next1
<1>9. UserKnown(e)'  BY <1>1, <1>2, <1>3, <1>4, <1>8 DEF UserKnown, JobKnown
<1>10. CardKnown(e)'  BY <1>1, <1>2, <1>3, <1>4, <1>8 DEF CardKnown, ToKey, JobKnown
<1>11. HeldKnown(e)'
  <2>1. DOMAIN held[e] = {}  BY <1>1, <1>2 DEF JobKnown, HeldKnown, MayHold
  <2> QED BY <1>3, <2>1 DEF HeldKnown
<1> QED BY <1>5, <1>7, <1>9, <1>10, <1>11

(* The steps that start a job over. *)
Restarting(e) ==
  \/ UserMissing(e) \/ StakeRefused(e) \/ CardRefused(e) \/ Fail(e) \/ Redeliver(e)

(* Each of the five ways a job starts over changes nothing but the job's own state. *)
LEMMA RestartFacts ==
  ASSUME Known, NEW e \in Events, Restarting(e)
  PROVE  /\ StartOver(e) /\ Happened(e) /\ UNCHANGED <<chain, mined, db, lost, guessed, late>>
         /\ ignored' = ignored \ {e}
         /\ e \in ignored => pc[e] = End(e)
<1>1. \/ Redeliver(e)
      \/ Happened(e) /\ Now(e) # "end" /\ StartOver(e) /\ UNCHANGED <<ignored, lost, guessed, late>>
         /\ UNCHANGED <<chain, mined, db>>
  <2>1. UserMissing(e) => Happened(e) /\ Now(e) # "end"  BY AtNow DEF UserMissing
  <2>2. StakeRefused(e) => Happened(e) /\ Now(e) # "end"  BY AtNow DEF StakeRefused
  <2>3. CardRefused(e) => Happened(e) /\ Now(e) # "end"  BY AtNow DEF CardRefused, SetsCard
  <2>4. Fail(e) => Happened(e) /\ Now(e) # "end"
    <3>1. ASSUME NEW p \in 1 .. End(e), p # End(e)  PROVE StepAt(e, p) # "end"
      <4>1. chain[e].kind \in Kinds  BY EventType DEF Known
      <4> QED BY <3>1, <4>1, Programs DEF Kinds
    <3>2. pc[e] \in 1 .. End(e)  BY DEF Known, LTypes, PcTypes
    <3> QED BY <3>1, <3>2 DEF Fail, Done, Now
  <2> QED BY <2>1, <2>2, <2>3, <2>4
       DEF Restarting, UserMissing, StakeRefused, CardRefused, Fail
<1>2. e \in ignored => pc[e] = End(e)  BY DEF Known, JobKnown, PlaceKnown
<1>3. e \in ignored => Now(e) = "end"  BY <1>2 DEF Now, StepAt
<1> QED BY <1>1, <1>2, <1>3 DEF Redeliver, Done

(* A job that starts over knows nothing, and nothing is wrong with that. *)
LEMMA RestartKnown ==
  ASSUME Known, NEW e \in Events, Restarting(e)
  PROVE  Known' /\ Alone(e)
BY RestartFacts, StartedOver

(* The chain goes on: the job of the new event is at its first step. *)
LEMMA MineKnown ==
  ASSUME Known, Mine
  PROVE  Known'
<1>1. /\ UNCHANGED <<chain, points, pools, stakes, cards, history, metadata, pc, mem, held, ignored>>
      /\ mined < Len(chain) /\ mined' = mined + 1
  BY DEF Mine, db, causes
<1>2. LTypes /\ DocsKnown /\ \A e \in Events : JobKnown(e)  BY DEF Known
<1>3. Len(chain) \in Nat /\ Events = 1 .. Len(chain) /\ mined \in 0 .. Len(chain)
  BY <1>2, EventFacts DEF LTypes, ChainTypes
<1>4. LTypes'
  <2>1. ChainTypes'  BY <1>1, <1>2, <1>3 DEF LTypes, ChainTypes
  <2>2. DocTypes'  BY <1>1, <1>2 DEF LTypes, DocTypes, Events
  <2>3. PcTypes' /\ MemTypes' /\ HeldTypes'
    BY <1>1, <1>2 DEF LTypes, PcTypes, MemTypes, HeldTypes, Events, End, Steps
  <2> QED BY <2>1, <2>2, <2>3 DEF LTypes
<1>5. DocsKnown'  BY <1>1, <1>2 DEF DocsKnown
<1>6. ASSUME NEW e \in Events  PROVE JobKnown(e)'
  <2>1. Now(e)' = Now(e) /\ End(e)' = End(e)  BY <1>1 DEF Now, StepAt, Steps, End
  <2>2. UserKnown(e)'  BY <1>1, <1>2, <2>1 DEF JobKnown, UserKnown
  <2>3. CardKnown(e)'  BY <1>1, <1>2, <2>1 DEF JobKnown, CardKnown, ToKey, FromKey
  <2>4. HeldKnown(e)'
    <3>1. \A b : MayHold(e, b)' <=> MayHold(e, b)
      BY <1>1, <2>1 DEF MayHold, PointsOf, StakeOf, CardOf
    <3> QED BY <1>1, <1>2, <3>1 DEF HeldKnown, JobKnown
  <2>5. PlaceKnown(e)'
    <3>1. e > mined' => e > mined  BY <1>1, <1>3
    <3> QED BY <1>1, <1>2, <2>1, <3>1 DEF PlaceKnown, JobKnown
  <2> QED BY <2>2, <2>3, <2>4, <2>5 DEF JobKnown
<1>7. Events' = Events  BY <1>1 DEF Events
<1> QED BY <1>4, <1>5, <1>6, <1>7 DEF Known

(* Every step of a job keeps what the jobs and the documents know. *)
LEMMA JobsKnown ==
  ASSUME Known, NEW e \in Events, Job(e) \/ PoolUnknown(e) \/ Fail(e) \/ Redeliver(e)
  PROVE  Known' /\ Alone(e)
<1>1. PointSteps(e) => Known' /\ Alone(e)
  BY ReadUserKnown, FindUserKnown, AskChainKnown, WriteUserKnown DEF PointSteps
<1>2. FuelSteps(e) => Known' /\ Alone(e)
  BY GetUserKnown, SaveUserKnown, SavePoolKnown, FindStakeKnown, SaveStakeKnown, RestartKnown
     DEF FuelSteps, Restarting
<1>3. CardSteps(e) => Known' /\ Alone(e)
  BY FindCardKnown, FindFromCardKnown, AddToCardKnown, SkipCardKnown, SetCardKnown,
     TakeFromCardKnown, AddMetadataKnown, RestartKnown
     DEF CardSteps, Restarting
<1> QED BY <1>1, <1>2, <1>3, SaveHistoryKnown, PoolUnknownKnown, RestartKnown
        DEF Job, Restarting

(* At the start there is no document, and every job is at its first step. *)
THEOREM StartsKnown == Init => Known
<1> SUFFICES ASSUME Init PROVE Known  OBVIOUS
<1>1. chain \in Chains /\ mined = 0 /\ Len(chain) \in Nat /\ Events = 1 .. Len(chain)
  BY EventFacts DEF Init
<1>2. \A e \in Events : pc[e] = 1 /\ mem[e] = Fresh /\ held[e] = <<>>  BY DEF Init
<1>3. \A e \in Events : End(e) \in Nat /\ 1 \in 1 .. End(e)
  <2> TAKE e \in Events
  <2>1. chain[e].kind \in Kinds  BY <1>1, EventFacts DEF Event, Fields
  <2>2. Len(Steps(e)) \in Nat
    BY <2>1 DEF Kinds, Steps, Program
  <2> QED BY <2>2 DEF End
<1>4. LTypes
  <2>1. ChainTypes  BY <1>1 DEF ChainTypes
  <2>2. DocTypes  BY DEF Init, DocTypes
  <2>3. PcTypes  BY <1>3 DEF Init, PcTypes
  <2>4. MemTypes
    <3>1. Fresh \in Mem  BY DEF Fresh, Mem
    <3> QED BY <3>1 DEF Init, MemTypes
  <2>5. HeldTypes
    <3>1. DOMAIN held = Events  BY DEF Init
    <3>2. <<>> \in [DOMAIN <<>> -> BOOLEAN]  OBVIOUS
    <3>3. \A e \in Events : held[e] \in [DOMAIN held[e] -> BOOLEAN]  BY <1>2, <3>2
    <3> QED BY <3>1, <3>3 DEF HeldTypes
  <2> QED BY <2>1, <2>2, <2>3, <2>4, <2>5 DEF LTypes
<1>5. DocsKnown  BY DEF Init, DocsKnown
<1>6. ASSUME NEW e \in Events  PROVE JobKnown(e)
  <2>1. chain[e].kind \in Kinds  BY <1>4, EventType
  <2>2. Now(e) = StepAt(e, 1) /\ 1 \in 1 .. End(e)  BY <1>2, <1>3 DEF Now
  <2>3. /\ Now(e) \in {"readTo", "readFrom", "savePool", "getUser", "findPool", "findFromUser"}
        /\ chain[e].kind \in {"mint", "move"} => Now(e) = "findFromUser"
        /\ Now(e) = "findPool" => chain[e].kind = "claim"
    BY <2>1, <2>2, Programs DEF Kinds
  <2>4. UserKnown(e)  BY <2>3 DEF UserKnown
  <2>5. CardKnown(e)  BY <2>3 DEF CardKnown
  <2>6. HeldKnown(e)  BY <1>2 DEF HeldKnown
  <2>7. PlaceKnown(e)  BY <1>2 DEF Init, PlaceKnown
  <2> QED BY <2>4, <2>5, <2>6, <2>7 DEF JobKnown
<1> QED BY <1>4, <1>5, <1>6 DEF Known

(* Every step of the system, a job's or the chain's, keeps Known: it is inductive. *)
THEOREM StaysKnown == Known /\ [Next]_vars => Known'
<1> SUFFICES ASSUME Known, [Next]_vars PROVE Known'  OBVIOUS
<1>1. CASE Mine  BY <1>1, MineKnown
<1>2. CASE \E e \in Events : Job(e) \/ PoolUnknown(e) \/ Fail(e) \/ Redeliver(e)
  BY <1>2, JobsKnown
<1>3. CASE UNCHANGED vars
  <2>1. UNCHANGED <<chain, mined, points, pools, stakes, cards, history, metadata, pc, mem,
                    held, ignored>>
    BY <1>3 DEF vars, db, causes
  <2>2. LTypes'
    BY <2>1 DEF Known, LTypes, ChainTypes, DocTypes, PcTypes, MemTypes, HeldTypes, Events, End, Steps
  <2>3. DocsKnown'  BY <2>1 DEF Known, DocsKnown
  <2>4. ASSUME NEW e \in Events  PROVE JobKnown(e)'
    <3>1. JobKnown(e) /\ Now(e)' = Now(e) /\ End(e)' = End(e)
      BY <2>1 DEF Known, Now, StepAt, Steps, End
    <3>2. UserKnown(e)' /\ CardKnown(e)' /\ PlaceKnown(e)'
      BY <2>1, <3>1 DEF JobKnown, UserKnown, CardKnown, PlaceKnown, ToKey, FromKey
    <3>3. \A b : MayHold(e, b)' <=> MayHold(e, b)
      BY <2>1, <3>1 DEF MayHold, PointsOf, StakeOf, CardOf
    <3>4. HeldKnown(e)'  BY <2>1, <3>1, <3>3 DEF HeldKnown, JobKnown
    <3> QED BY <3>2, <3>4 DEF JobKnown
  <2>5. Events' = Events  BY <2>1 DEF Events
  <2> QED BY <2>2, <2>3, <2>4, <2>5 DEF Known
<1> QED BY <1>1, <1>2, <1>3 DEF Next

(* What is known includes the types and what documents refer to. *)
LEMMA KnownIsTyped == Known => TypeOK
<1> SUFFICES ASSUME Known PROVE TypeOK  OBVIOUS
<1>1. LTypes /\ DocsKnown  BY DEF Known
<1>2. ASSUME NEW e \in Events, Done(e)  PROVE held[e] = <<>>
  <2>1. Now(e) = "end"  BY <1>2 DEF Done, Now, StepAt
  <2>2. DOMAIN held[e] = {}  BY <2>1 DEF Known, JobKnown, HeldKnown, MayHold
  <2>3. held[e] \in [DOMAIN held[e] -> BOOLEAN]  BY <1>1 DEF LTypes, HeldTypes
  <2> QED BY <2>2, <2>3
<1>3. \A k \in DOMAIN cards : k[1] \in FiledCards  BY <1>1 DEF LTypes, DocTypes
<1> QED BY <1>1, <1>2, <1>3 DEF TypeOK, LTypes, ChainTypes, DocTypes, PcTypes, DocsKnown

(* Whatever the jobs do, a stake has its pool and its user, a card its owner, metadata
   is requested of cards that are there, and a finished job holds no account. *)
THEOREM TypeCorrect == Spec => []TypeOK
<1>1. Spec => []Known  BY StartsKnown, StaysKnown, PTL DEF Spec
<1> QED BY <1>1, KnownIsTyped, PTL
-----------------------------------------------------------------------------
(* The metadata of the cards.  A job that has just made a card document is on its way
   to the metadata queue. *)
Pending(e) ==
  /\ Happened(e)
  /\ \/ chain[e].kind \in {"mint", "claim"} /\ Now(e) \in {"history", "metadata"}
     \/ chain[e].kind = "move" /\ Now(e) = "metadata"
Requested ==
  \A k \in DOMAIN cards :
    \/ k \in metadata
    \/ CardOf(k[1], k[2]) \in doubled
    \/ \E e \in Events : Pending(e) /\ ToKey(e) = k

(* A step keeps this if it makes no card but its own, and gives no request up. *)
LEMMA RequestedStep ==
  ASSUME Requested, NEW e \in Events, Alone(e),
         metadata \subseteq metadata', doubled \subseteq doubled',
         \A k \in DOMAIN cards' : k \in DOMAIN cards \/ (k = ToKey(e) /\ Pending(e)'),
         Pending(e) => \/ Pending(e)' \/ ToKey(e) \in metadata'
                       \/ CardOf(chain[e].card, chain[e].to) \in doubled'
  PROVE  Requested'
<1>1. chain' = chain /\ mined' = mined /\ Events' = Events  BY DEF Alone, Events
<1>2. \A f \in Events : ToKey(f)' = ToKey(f)  BY <1>1 DEF ToKey
<1>3. \A f \in Events : f # e /\ Pending(f) => Pending(f)'
  <2> TAKE f \in Events
  <2>1. f # e => Now(f)' = Now(f)  BY <1>1 DEF Alone, Now, StepAt, Steps, End
  <2> QED BY <1>1, <2>1 DEF Pending, Happened
<1>4. ASSUME NEW k \in DOMAIN cards'
      PROVE  \/ k \in metadata'
             \/ CardOf(k[1], k[2]) \in doubled'
             \/ \E f \in Events : Pending(f)' /\ ToKey(f) = k
  <2>1. CASE k = ToKey(e) /\ Pending(e)'  BY <2>1
  <2>2. CASE k \in DOMAIN cards
    <3>1. CASE k \in metadata \/ CardOf(k[1], k[2]) \in doubled  BY <3>1
    <3>2. CASE \E f \in Events : f # e /\ Pending(f) /\ ToKey(f) = k  BY <1>3, <3>2
    <3>3. CASE Pending(e) /\ ToKey(e) = k
      <4>1. CardOf(k[1], k[2]) = CardOf(chain[e].card, chain[e].to)  BY <3>3 DEF ToKey
      <4> QED BY <3>3, <4>1
    <3> QED BY <2>2, <3>1, <3>2, <3>3 DEF Requested
  <2> QED BY <2>1, <2>2
<1>5. \A k : CardOf(k[1], k[2])' = CardOf(k[1], k[2])  BY DEF CardOf
<1> QED BY <1>1, <1>2, <1>4, <1>5 DEF Requested

(* A job that starts over from there leaves its account among the doubled ones. *)
LEMMA RestartRequested ==
  ASSUME Known, NEW e \in Events, Restarting(e), Pending(e)
  PROVE  CardOf(chain[e].card, chain[e].to) \in doubled'
<1> DEFINE a == CardOf(chain[e].card, chain[e].to)
<1>1. /\ StartOver(e) /\ (e \in ignored => pc[e] = End(e))  BY RestartFacts
<1>2. PICK p \in 1 .. End(e) : p = pc[e]  BY DEF Known, LTypes, PcTypes
<1>3. Now(e) = StepAt(e, p) /\ Now(e) # "end"  BY <1>2 DEF Now, Pending
<1>4. p # End(e) /\ e \notin ignored  BY <1>1, <1>2, <1>3 DEF StepAt
<1>5. CASE chain[e].kind \in {"mint", "claim"}
  <2>1. \E i \in 1 .. (p - 1) : Steps(e)[i] = "saveCard"
    <3>1. CASE chain[e].kind = "mint"
      <4>1. p >= 7 /\ End(e) = 9  BY <1>3, <1>5, <3>1, Programs DEF Pending
      <4>2. Steps(e)[6] = "saveCard"  BY <3>1 DEF Steps, Program
      <4> QED BY <4>1, <4>2
    <3>2. CASE chain[e].kind = "claim"
      <4>1. p >= 6 /\ End(e) = 8  BY <1>3, <1>5, <3>2, Programs DEF Pending
      <4>2. Steps(e)[5] = "saveCard"  BY <3>2 DEF Steps, Program
      <4> QED BY <4>1, <4>2
    <3> QED BY <1>5, <3>1, <3>2
  <2>2. Passed(e, "saveCard")  BY <1>2, <1>4, <2>1 DEF Passed
  <2>3. <<"saveCard", a, chain[e].amount>> \in Legs(e)  BY <1>5 DEF Legs, LegsOf
  <2>4. a \in Touched(e)  BY <2>2, <2>3 DEF Touched
  <2> QED BY <1>1, <2>4 DEF StartOver
<1>6. CASE chain[e].kind = "move"
  <2>1. p = 9 /\ End(e) = 11  BY <1>3, <1>6, Programs DEF Pending
  <2>2. Steps(e)[8] = "saveToCard"  BY <1>6 DEF Steps, Program
  <2>3. Passed(e, "saveToCard")  BY <1>2, <1>4, <2>1, <2>2 DEF Passed
  <2>4. <<"saveToCard", a, chain[e].amount>> \in Legs(e)  BY <1>6 DEF Legs, LegsOf
  <2>5. a \in Touched(e)  BY <2>3, <2>4 DEF Touched
  <2> QED BY <1>1, <2>5 DEF StartOver
<1> QED BY <1>5, <1>6 DEF Pending

(* Only SetCard makes a card document. *)
LEMMA SetCardRequested ==
  ASSUME Known, NEW e \in Events, SetCard(e)
  PROVE  DOMAIN cards' = DOMAIN cards \union {ToKey(e)} /\ Pending(e)' /\ ~ Pending(e)
<1>1. /\ Happened(e) /\ Now(e) \in {"saveCard", "saveToCard"} /\ Advance(e)
      /\ chain' = chain /\ mined' = mined
  BY AtNow DEF SetCard, SetsCard
<1>2. LTypes /\ StepKinds(e)  BY KindsOfSteps DEF Known
<1>3. Next1(e)  BY <1>1, <1>2, Advances
<1>4. Pending(e)'  BY <1>1, <1>2, <1>3 DEF Pending, Next1, StepKinds, Happened, Events
<1>5. cards' = Upsert(cards, ToKey(e), [amount |-> chain[e].amount, time |-> chain[e].time])
  BY DEF SetCard, Stored
<1>6. DOMAIN cards' = DOMAIN cards \union {ToKey(e)}  BY <1>5 DEF Upsert
<1> QED BY <1>1, <1>4, <1>6 DEF Pending

(* Adding to a card makes no document ... *)
LEMMA AddToCardRequested ==
  ASSUME Known, NEW e \in Events, AddToCard(e)
  PROVE  DOMAIN cards' = DOMAIN cards
<1>1. Now(e) \in {"saveCard", "saveToCard"} /\ mem[e].card # None
  BY AtNow DEF AddToCard, InTime
<1>2. ToKey(e) \in DOMAIN cards  BY <1>1 DEF Known, JobKnown, CardKnown
<1> QED BY <1>2 DEF AddToCard, Stored, Upsert

(* ... nor does taking from one. *)
LEMMA TakeFromCardRequested ==
  ASSUME Known, NEW e \in Events, TakeFromCard(e)
  PROVE  DOMAIN cards' = DOMAIN cards
<1>1. Now(e) = "saveFromCard"  BY AtNow DEF TakeFromCard
<1>2. chain[e].kind = "move"  BY <1>1, KindsOfSteps DEF StepKinds, Known
<1>3. mem[e].fromCard # None => FromKey(e) \in DOMAIN cards
  BY <1>1, <1>2 DEF Known, JobKnown, CardKnown
<1> QED BY <1>3 DEF TakeFromCard, InTime, Stored, Upsert

(* Every step of a job keeps the requests. *)
LEMMA JobsRequested ==
  ASSUME Known, Requested, NEW e \in Events, Job(e) \/ PoolUnknown(e) \/ Fail(e) \/ Redeliver(e)
  PROVE  Requested'
<1>0. Alone(e)  BY JobsKnown
<1>1. CASE Restarting(e)
  <2>1. UNCHANGED <<cards, metadata>> /\ doubled \subseteq doubled'
    BY <1>1, RestartFacts DEF db, StartOver
  <2> QED BY <1>0, <1>1, <2>1, RestartRequested, RequestedStep
<1>2. CASE SetCard(e)
  <2>1. UNCHANGED <<metadata, doubled>>  BY <1>2 DEF SetCard
  <2>2. DOMAIN cards' = DOMAIN cards \union {ToKey(e)} /\ Pending(e)' /\ ~ Pending(e)
    BY <1>2, SetCardRequested
  <2>3. \A k \in DOMAIN cards' : k \in DOMAIN cards \/ (k = ToKey(e) /\ Pending(e)')
    BY <2>2
  <2> QED BY <1>0, <2>1, <2>2, <2>3, RequestedStep
<1>3. CASE AddToCard(e) \/ TakeFromCard(e)
  <2>1. UNCHANGED <<metadata, doubled>> /\ ~ Pending(e)
    BY <1>3, AtNow DEF AddToCard, TakeFromCard, Pending
  <2> QED BY <1>0, <1>3, <2>1, AddToCardRequested, TakeFromCardRequested, RequestedStep
<1>4. CASE AddMetadata(e)
  <2>1. UNCHANGED <<cards, doubled>> /\ metadata' = metadata \union {ToKey(e)}
    BY <1>4 DEF AddMetadata, causes
  <2> QED BY <1>0, <2>1, RequestedStep
<1>5. CASE SaveHistory(e)
  <2>1. /\ UNCHANGED <<cards, doubled, metadata, chain, mined>> /\ Advance(e)
        /\ Happened(e) /\ Now(e) = "history"
    BY <1>5, AtNow DEF SaveHistory, causes
  <2>2. Next1(e)  BY <2>1, Advances DEF Known
  <2>3. Pending(e) => Pending(e)'  BY <2>1, <2>2 DEF Pending, Next1, Happened, Events
  <2> QED BY <1>0, <2>1, <2>3, RequestedStep
<1>6. CASE AskChain(e)
  <2>1. UNCHANGED <<cards, doubled, metadata, chain, mined, pc>>  BY <1>6 DEF AskChain, db
  <2>2. Pending(e) => Pending(e)'
    BY <2>1 DEF Pending, Happened, Events, Now, StepAt, Steps, End
  <2> QED BY <1>0, <2>1, <2>2, RequestedStep
<1>7. CASE \/ ReadUser(e) \/ FindUser(e) \/ WriteUser(e) \/ GetUser(e) \/ SaveUser(e)
           \/ SavePool(e) \/ FindPool(e) \/ FindStake(e) \/ SaveStake(e)
           \/ FindCard(e) \/ FindFromCard(e) \/ SkipCard(e) \/ PoolUnknown(e)
  <2>1. UNCHANGED <<cards, metadata, doubled>>
    BY <1>7 DEF db, causes, ReadUser, FindUser, WriteUser, GetUser, SaveUser, SavePool, FindPool,
                FindStake, SaveStake, FindCard, FindFromCard, SkipCard, PoolUnknown
  <2>2. ~ Pending(e)
    BY <1>7, AtNow DEF Pending, ReadUser, FindUser, WriteUser, GetUser, SaveUser, SavePool,
                FindPool, FindStake, SaveStake, FindCard, FindFromCard, SkipCard, PoolUnknown
  <2> QED BY <1>0, <2>1, <2>2, RequestedStep
<1> QED BY <1>1, <1>2, <1>3, <1>4, <1>5, <1>6, <1>7
        DEF Job, PointSteps, FuelSteps, CardSteps, Restarting

(* Every card document has its metadata requested, or a job is on its way to do it, unless
   a job started over after making the document (cards.service.ts:139-163). *)
THEOREM MetadataCorrect == Spec => []MetadataRequested
<1>1. Init => Requested  BY DEF Init, Requested
<1>2. Known /\ Requested /\ [Next]_vars => Requested'
  <2> SUFFICES ASSUME Known, Requested, [Next]_vars PROVE Requested'  OBVIOUS
  <2>1. CASE Mine
    <3>1. /\ UNCHANGED <<chain, cards, metadata, doubled, pc>> /\ mined' = mined + 1
      BY <2>1 DEF Mine, db, causes
    <3>2. \A e \in Events : e \in Int /\ mined \in Int
      BY EventFacts DEF Known, LTypes, ChainTypes
    <3>3. \A e \in Events : Pending(e) => Pending(e)'
      BY <3>1, <3>2 DEF Pending, Happened, Events, Now, StepAt, Steps, End
    <3>4. \A e \in Events : ToKey(e)' = ToKey(e)  BY <3>1 DEF ToKey
    <3>5. \A k : CardOf(k[1], k[2])' = CardOf(k[1], k[2])  BY DEF CardOf
    <3> QED BY <3>1, <3>3, <3>4, <3>5 DEF Requested, Events
  <2>2. CASE \E e \in Events : Job(e) \/ PoolUnknown(e) \/ Fail(e) \/ Redeliver(e)
    BY <2>2, JobsRequested
  <2>3. CASE UNCHANGED vars
    <3>1. UNCHANGED <<chain, cards, metadata, doubled, pc, mined>>  BY <2>3 DEF vars, db, causes
    <3>2. \A e \in Events : (Pending(e) => Pending(e)') /\ ToKey(e)' = ToKey(e)
      BY <3>1 DEF Pending, Happened, Events, Now, StepAt, Steps, End, ToKey
    <3>3. \A k : CardOf(k[1], k[2])' = CardOf(k[1], k[2])  BY DEF CardOf
    <3> QED BY <3>1, <3>2, <3>3 DEF Requested, Events
  <2> QED BY <2>1, <2>2, <2>3 DEF Next
<1>3. Requested => MetadataRequested
  <2>1. \A e \in Events : Pending(e) => At(e, {"history", "metadata"})
    BY AtNow DEF Pending
  <2> QED BY <2>1 DEF Requested, MetadataRequested
<1> QED BY <1>1, <1>2, <1>3, StartsKnown, StaysKnown, PTL DEF Spec
-----------------------------------------------------------------------------
(* The sums.  A leg is counted once its job has passed the step that does it. *)
LegSteps == {"writeFrom", "writeTo", "saveUser", "saveStake", "saveCard", "saveFromCard", "saveToCard"}
Leg(e) ==
  CASE Now(e) = "writeFrom"    -> <<"writeFrom", PointsOf(chain[e].from), - chain[e].points>>
    [] Now(e) = "writeTo"      -> <<"writeTo", PointsOf(chain[e].to), chain[e].points>>
    [] Now(e) = "saveUser"     -> IF chain[e].kind = "join"
                                  THEN <<"saveUser", PointsOf(chain[e].from), - chain[e].points>>
                                  ELSE <<"saveUser", PointsOf(chain[e].to), chain[e].points>>
    [] Now(e) = "saveStake"    -> <<"saveStake", StakeOf(chain[e].pool, chain[e].from), chain[e].points>>
    [] Now(e) = "saveCard"     -> <<"saveCard", CardOf(chain[e].card, chain[e].to), chain[e].amount>>
    [] Now(e) = "saveFromCard" -> <<"saveFromCard", CardOf(chain[e].card, chain[e].from), - chain[e].amount>>
    [] Now(e) = "saveToCard"   -> <<"saveToCard", CardOf(chain[e].card, chain[e].to), chain[e].amount>>

(* A job's leg is the one of the step it is at. *)
LEMMA LegNow ==
  ASSUME LTypes, NEW e \in Events
  PROVE  /\ \A l \in Legs(e) : l[1] \in LegSteps
         /\ \A l \in Legs(e) : l[1] = Now(e) => l = Leg(e)
         /\ Now(e) \in LegSteps => Leg(e) \in Legs(e) /\ Leg(e)[1] = Now(e)
<1>1. chain[e].kind \in Kinds /\ StepKinds(e)  BY EventType, KindsOfSteps
<1>2. CASE chain[e].kind = "add"
  BY <1>1, <1>2 DEF Legs, LegsOf, Leg, LegSteps, StepKinds
<1>3. CASE chain[e].kind = "transfer"
  BY <1>1, <1>3 DEF Legs, LegsOf, Leg, LegSteps, StepKinds
<1>4. CASE chain[e].kind = "create"
  BY <1>1, <1>4 DEF Legs, LegsOf, Leg, LegSteps, StepKinds
<1>5. CASE chain[e].kind = "join"
  BY <1>1, <1>5 DEF Legs, LegsOf, Leg, LegSteps, StepKinds
<1>6. CASE chain[e].kind = "claim"
  BY <1>1, <1>6 DEF Legs, LegsOf, Leg, LegSteps, StepKinds
<1>7. CASE chain[e].kind = "mint"
  BY <1>1, <1>7 DEF Legs, LegsOf, Leg, LegSteps, StepKinds
<1>8. CASE chain[e].kind = "move"
  BY <1>1, <1>8 DEF Legs, LegsOf, Leg, LegSteps, StepKinds
<1> QED BY <1>1, <1>2, <1>3, <1>4, <1>5, <1>6, <1>7, <1>8 DEF Kinds

(* No program has a step twice. *)
LEMMA StepOnce ==
  ASSUME LTypes, NEW e \in Events, NEW i \in 1 .. (End(e) - 1), NEW j \in 1 .. (End(e) - 1),
         Steps(e)[i] = Steps(e)[j]
  PROVE  i = j
<1>1. chain[e].kind \in Kinds /\ End(e) \in Nat  BY EventType, EndIsNumber
<1>2. /\ i \in 1 .. End(e) /\ j \in 1 .. End(e) /\ StepAt(e, i) = StepAt(e, j)
      /\ i # End(e) /\ j # End(e)
  BY <1>1 DEF StepAt
<1>3. CASE chain[e].kind = "add"  BY <1>2, <1>3, Programs
<1>4. CASE chain[e].kind = "transfer"  BY <1>2, <1>4, Programs
<1>5. CASE chain[e].kind = "create"  BY <1>2, <1>5, Programs
<1>6. CASE chain[e].kind = "join"  BY <1>2, <1>6, Programs
<1>7. CASE chain[e].kind = "claim"  BY <1>2, <1>7, Programs
<1>8. CASE chain[e].kind = "mint"  BY <1>2, <1>8, Programs
<1>9. CASE chain[e].kind = "move"  BY <1>2, <1>9, Programs
<1> QED BY <1>1, <1>3, <1>4, <1>5, <1>6, <1>7, <1>8, <1>9 DEF Kinds

(* So a job has not passed the step it is at ... *)
LEMMA NotPassedYet ==
  ASSUME LTypes, NEW e \in Events, pc[e] # End(e)
  PROVE  ~ Passed(e, Now(e))
<1>1. End(e) \in Nat /\ pc[e] \in 1 .. (End(e) - 1)  BY EndIsNumber
<1>2. Now(e) = Steps(e)[pc[e]]  BY DEF Now, StepAt
<1>3. ASSUME NEW i \in 1 .. (pc[e] - 1), Steps(e)[i] = Now(e)  PROVE FALSE
  <2>1. i \in 1 .. (End(e) - 1) /\ i # pc[e]  BY <1>1
  <2> QED BY <1>1, <1>2, <1>3, <2>1, StepOnce
<1> QED BY <1>3 DEF Passed

(* ... and going on passes that step and no other that has a leg. *)
LEMMA GoesPast ==
  ASSUME LTypes, NEW e \in Events, chain' = chain, e \notin ignored, ignored' = ignored,
         pc[e] # End(e),
         \/ pc'[e] = pc[e] + 1
         \/ pc'[e] = pc[e] + 2 /\ Now(e) \in {"findFromUser", "findToUser", "saveToCard"}
  PROVE  \A s \in LegSteps : Passed(e, s)' <=> (Passed(e, s) \/ s = Now(e))
<1>1. PICK p \in Nat : p = pc[e] /\ p \in 1 .. End(e) /\ p # End(e)  BY DEF LTypes, PcTypes
<1>2. Now(e) = Steps(e)[p]  BY <1>1 DEF Now, StepAt
<1>3. Steps(e)' = Steps(e)  BY DEF Steps
<1>4. \A s : Passed(e, s) <=> \E i \in 1 .. (p - 1) : Steps(e)[i] = s  BY <1>1 DEF Passed
<1>5. CASE pc'[e] = p + 1
  <2>1. \A s : Passed(e, s)' <=> \E i \in 1 .. (p + 1 - 1) : Steps(e)[i] = s
    BY <1>3, <1>5 DEF Passed
  <2>2. \A i : i \in 1 .. (p + 1 - 1) <=> i \in 1 .. (p - 1) \/ i = p  BY <1>1
  <2> QED BY <1>2, <1>4, <2>1, <2>2
<1>6. CASE pc'[e] = p + 2 /\ Now(e) \in {"findFromUser", "findToUser", "saveToCard"}
  <2>1. \A s : Passed(e, s)' <=> \E i \in 1 .. (p + 2 - 1) : Steps(e)[i] = s
    BY <1>3, <1>6 DEF Passed
  <2>2. \A i : i \in 1 .. (p + 2 - 1) <=> i \in 1 .. (p - 1) \/ i = p \/ i = p + 1  BY <1>1
  <2>3. Steps(e)[p + 1] \notin LegSteps
    <3>1. chain[e].kind \in {"mint", "move"}  BY <1>6, KindsOfSteps DEF StepKinds
    <3>2. StepAt(e, p) = Now(e)  BY <1>1 DEF Now
    <3>3. p + 1 \in 1 .. End(e)  BY <1>1, EndIsNumber
    <3>4. CASE chain[e].kind = "mint"
      <4>1. p \in {1, 3} /\ End(e) = 9  BY <1>1, <1>6, <3>2, <3>4, Programs
      <4>2. StepAt(e, p + 1) \notin LegSteps /\ p + 1 # End(e)
        BY <3>3, <3>4, <4>1, Programs DEF LegSteps
      <4> QED BY <4>2 DEF StepAt
    <3>5. CASE chain[e].kind = "move"
      <4>1. p \in {1, 3, 8} /\ End(e) = 11  BY <1>1, <1>6, <3>2, <3>5, Programs
      <4>2. StepAt(e, p + 1) \notin LegSteps /\ p + 1 # End(e)
        BY <3>3, <3>5, <4>1, Programs DEF LegSteps
      <4> QED BY <4>2 DEF StepAt
    <3> QED BY <3>1, <3>4, <3>5
  <2> QED BY <1>2, <1>4, <2>1, <2>2, <2>3
<1> QED BY <1>1, <1>5, <1>6

(* The expected sum changes only with the legs passed. *)
LEMMA ExpectedType ==
  ASSUME chain \in Chains, NEW a \in Accounts
  PROVE  Expected(a) \in Int
<1>1. Amounts({el \in LegsOn(a) : Passed(el[1], el[2][1])})
  BY LegsOnFacts, FS_Subset DEF Amounts
<1> QED BY <1>1, TotalType DEF Expected

(* If the same legs of an account are passed, the sum is the same. *)
LEMMA ExpectedSame ==
  ASSUME chain \in Chains, chain' = chain, NEW a \in Accounts,
         \A f \in Events : \A l \in Legs(f) : l[2] = a => (Passed(f, l[1])' <=> Passed(f, l[1]))
  PROVE  Expected(a)' = Expected(a)
<1>1. LegsOn(a)' = LegsOn(a)  BY DEF LegsOn, LegsOnAll, Accounts, PointsOf, StakeOf, CardOf
<1>2. \A el \in LegsOn(a) : Passed(el[1], el[2][1])' <=> Passed(el[1], el[2][1])
  BY LegsOnFacts
<1>3. {el \in LegsOn(a) : Passed(el[1], el[2][1])}' = {el \in LegsOn(a) : Passed(el[1], el[2][1])}
  BY <1>1, <1>2
<1> QED BY <1>3 DEF Expected

(* If one more leg is passed, its amount is added. *)
LEMMA ExpectedAdd ==
  ASSUME chain \in Chains, chain' = chain, NEW a \in Accounts,
         NEW e \in Events, NEW l \in Legs(e), l[2] = a, ~ Passed(e, l[1]), Passed(e, l[1])',
         \A f \in Events : \A m \in Legs(f) :
            m[2] = a /\ ~ (f = e /\ m = l) => (Passed(f, m[1])' <=> Passed(f, m[1]))
  PROVE  Expected(a)' = Expected(a) + l[3]
<1>1. LegsOn(a)' = LegsOn(a)  BY DEF LegsOn, LegsOnAll, Accounts, PointsOf, StakeOf, CardOf
<1>2. PICK x : x = <<e, l>> /\ x \in LegsOn(a) /\ x[2][3] = l[3]
  <2>1. PICK x : x = <<e, l>>  OBVIOUS
  <2>2. x \in LegsOn(a)  BY <2>1, LegsOnFacts
  <2>3. x[2] = l  BY <2>1
  <2> QED BY <2>1, <2>2, <2>3
<1>3. PICK S, T : /\ S = {el \in LegsOn(a) : Passed(el[1], el[2][1])}
                  /\ T = {el \in LegsOn(a) : Passed(el[1], el[2][1])}'
  OBVIOUS
<1>4. \A el : el \in T <=> el \in S \/ el = x
  <2>1. \A el \in LegsOn(a) : el # x => (Passed(el[1], el[2][1])' <=> Passed(el[1], el[2][1]))
    BY <1>2, LegsOnFacts
  <2> QED BY <1>1, <1>2, <1>3, <2>1
<1>5. x \in T /\ x \notin S /\ T \ {x} = S  BY <1>2, <1>3, <1>4
<1>6. Amounts(T) /\ Amounts(S)
  <2>1. S \subseteq LegsOn(a) /\ T \subseteq LegsOn(a)  BY <1>1, <1>3
  <2> QED BY <2>1, LegsOnFacts, FS_Subset DEF Amounts
<1>7. Total(T) = l[3] + Total(S)  BY <1>2, <1>5, <1>6, TotalWithout
<1>8. Total(S) \in Int /\ l[3] \in Int  BY <1>2, <1>5, <1>6, TotalType DEF Amounts
<1>9. Expected(a) = Total(S) /\ Expected(a)' = Total(T)  BY <1>3 DEF Expected
<1> QED BY <1>7, <1>8, <1>9

(* A job that goes on adds the leg of its step to the sum of that leg's account. *)
LEMMA ExpectedStep ==
  ASSUME Known, NEW e \in Events, Alone(e), ignored' = ignored, Now(e) # "end",
         \/ pc'[e] = pc[e] + 1
         \/ pc'[e] = pc[e] + 2 /\ Now(e) \in {"findFromUser", "findToUser", "saveToCard"}
  PROVE  /\ \A a \in Accounts : ~ (Now(e) \in LegSteps /\ Leg(e)[2] = a) => Expected(a)' = Expected(a)
         /\ \A a \in Accounts : Now(e) \in LegSteps /\ Leg(e)[2] = a =>
               Leg(e)[3] \in Int /\ Expected(a)' = Expected(a) + Leg(e)[3]
<1>1. LTypes /\ chain \in Chains  BY DEF Known, LTypes, ChainTypes
<1>2. pc[e] # End(e) /\ e \notin ignored
  BY DEF Known, JobKnown, PlaceKnown, Now, StepAt
<1>3. chain' = chain /\ Events' = Events /\ \A f \in Events : f # e => pc'[f] = pc[f]
  BY DEF Alone, Events
<1>4. \A s \in LegSteps : Passed(e, s)' <=> (Passed(e, s) \/ s = Now(e))
  BY <1>1, <1>2, <1>3, GoesPast
<1>5. ~ Passed(e, Now(e))  BY <1>1, <1>2, NotPassedYet
<1>6. \A f \in Events : f # e => \A s : Passed(f, s)' <=> Passed(f, s)
  BY <1>3 DEF Passed, Steps
<1>7. \A f \in Events : \A l \in Legs(f) : ~ (f = e /\ l[1] = Now(e)) =>
         (Passed(f, l[1])' <=> Passed(f, l[1]))
  BY <1>1, <1>4, <1>6, LegNow
<1>8. \A l \in Legs(e) : l[1] = Now(e) => l = Leg(e) /\ Now(e) \in LegSteps
  BY <1>1, LegNow
<1>9. ASSUME NEW a \in Accounts, ~ (Now(e) \in LegSteps /\ Leg(e)[2] = a)
      PROVE  Expected(a)' = Expected(a)
  <2>1. \A f \in Events : \A l \in Legs(f) : l[2] = a => (Passed(f, l[1])' <=> Passed(f, l[1]))
    BY <1>7, <1>8, <1>9
  <2> QED BY <1>1, <1>3, <2>1, ExpectedSame
<1>10. ASSUME NEW a \in Accounts, Now(e) \in LegSteps, Leg(e)[2] = a
       PROVE  Leg(e)[3] \in Int /\ Expected(a)' = Expected(a) + Leg(e)[3]
  <2>1. PICK l \in Legs(e) : l = Leg(e) /\ l[1] = Now(e)  BY <1>1, <1>10, LegNow
  <2>2. l[3] \in Int /\ l[2] = a  BY <1>1, <1>10, <2>1, LegFacts DEF Legs, Events
  <2>3. ~ Passed(e, l[1]) /\ Passed(e, l[1])'
    <3>1. PICK s \in LegSteps : s = Now(e) /\ s = l[1]  BY <1>10, <2>1
    <3> QED BY <1>4, <1>5, <3>1
  <2>4. \A f \in Events : \A m \in Legs(f) :
           m[2] = a /\ ~ (f = e /\ m = l) => (Passed(f, m[1])' <=> Passed(f, m[1]))
    BY <1>7, <1>8, <2>1
  <2>5. Expected(a)' = Expected(a) + l[3]
    BY <1>1, <1>3, <2>2, <2>3, <2>4, ExpectedAdd
  <2> QED BY <2>1, <2>2, <2>5
<1> QED BY <1>9, <1>10
-----------------------------------------------------------------------------
(* What the document of an account shows. *)
PointsShown(u) == IF u \in DOMAIN points THEN points[u] ELSE 0
StakeShown(p, u) == IF <<p, u>> \in DOMAIN stakes THEN stakes[<<p, u>>] ELSE 0
CardShown(c, u) == IF <<c, u>> \in DOMAIN cards THEN cards[<<c, u>>].amount ELSE 0
Shown(a) == IF a[1] = "points" THEN PointsShown(a[2])
            ELSE IF a[1] = "stake" THEN StakeShown(a[2], a[3]) ELSE CardShown(a[2], a[3])

(* An account's document, kind by kind. *)
LEMMA ShownOf ==
  /\ \A u : Shown(PointsOf(u)) = PointsShown(u) /\ Shown(PointsOf(u))' = PointsShown(u)'
  /\ \A p, u : Shown(StakeOf(p, u)) = StakeShown(p, u) /\ Shown(StakeOf(p, u))' = StakeShown(p, u)'
  /\ \A c, u : Shown(CardOf(c, u)) = CardShown(c, u) /\ Shown(CardOf(c, u))' = CardShown(c, u)'
BY DEF Shown, PointsOf, StakeOf, CardOf

Exact == \A a \in Accounts : a \in Excused \/ Shown(a) = Expected(a)

(* What a job has read of an account that shows x and that it will write.  The hold on
   the account says that the document has not changed since. *)
StakeRead(e) == IF mem[e].stake = None THEN 0 ELSE mem[e].stake
CardRead(doc) == IF doc = None THEN 0 ELSE doc.amount
Matches(e, a, x) ==
  /\ Now(e) = "writeFrom" /\ a = PointsOf(chain[e].from) /\ mem[e].new # Ask =>
       mem[e].new = x - chain[e].points
  /\ Now(e) = "writeTo" /\ a = PointsOf(chain[e].to) /\ mem[e].new # Ask =>
       mem[e].new = x + chain[e].points
  /\ Now(e) = "createFromUser" /\ a = PointsOf(chain[e].from) /\ mem[e].new # Ask => mem[e].new = x
  /\ Now(e) = "createToUser" /\ a = PointsOf(chain[e].to) /\ mem[e].new # Ask => mem[e].new = x
  /\ chain[e].kind = "join" /\ Now(e) \in {"findPool", "saveUser"} /\ a = PointsOf(chain[e].from)
     /\ mem[e].user # None => mem[e].user = x
  /\ chain[e].kind = "claim" /\ Now(e) = "saveUser" /\ a = PointsOf(chain[e].to)
     /\ mem[e].user # None => mem[e].user = x
  /\ Now(e) = "saveStake" /\ a = StakeOf(chain[e].pool, chain[e].from) => StakeRead(e) = x
  /\ Now(e) \in {"saveCard", "saveFromCard", "saveToCard"}
     /\ a = CardOf(chain[e].card, chain[e].to) => CardRead(mem[e].card) = x
  /\ chain[e].kind = "move" /\ Now(e) \in {"findCard", "saveFromCard"}
     /\ a = CardOf(chain[e].card, chain[e].from) => CardRead(mem[e].fromCard) = x
Holds(e, a) == a \in DOMAIN held[e] /\ held[e][a] = TRUE
Right(e) == \A a \in Accounts : Holds(e, a) /\ a \notin Excused => Matches(e, a, Expected(a))

(* A step of job e leaves an account and its sum as they are, or takes both to the same
   amount while nobody holds the account, or the account is excused from then on. *)
Untouched(a) == Shown(a)' = Shown(a) /\ Expected(a)' = Expected(a)
Settled(a) == Shown(a)' = Expected(a)' /\ \A f \in Events : ~ Holds(f, a)'
Accounted(e) ==
  /\ Excused \subseteq Excused'
  /\ \A f \in Events : f # e => \A a \in Accounts : Holds(f, a)' => Holds(f, a)
  /\ \A a \in Accounts : a \in Excused' \/ Untouched(a) \/ Settled(a)

(* What a job has read is its own. *)
LEMMA MatchesElsewhere ==
  ASSUME NEW f \in Events, chain' = chain, pc'[f] = pc[f], mem'[f] = mem[f]
  PROVE  \A a, x : Matches(f, a, x)' <=> Matches(f, a, x)
<1>1. Now(f)' = Now(f)  BY DEF Now, StepAt, Steps, End
<1> QED BY <1>1 DEF Matches, StakeRead, CardRead, PointsOf, StakeOf, CardOf

(* A step that accounts for what it does keeps the documents exact and the other jobs right. *)
LEMMA ExactStep ==
  ASSUME Exact, \A f \in Events : Right(f), NEW e \in Events, Alone(e), Accounted(e), Right(e)'
  PROVE  Exact' /\ \A f \in Events : Right(f)'
<1>1. chain' = chain /\ Events' = Events /\ Accounts' = Accounts
  BY DEF Alone, Events, Accounts, PointsOf, StakeOf, CardOf
<1>2. Exact'
  <2>1. ASSUME NEW a \in Accounts  PROVE a \in Excused' \/ Shown(a)' = Expected(a)'
    BY DEF Accounted, Exact, Untouched, Settled
  <2> QED BY <1>1, <2>1 DEF Exact
<1>3. ASSUME NEW f \in Events, f # e  PROVE Right(f)'
  <2>1. ASSUME NEW a \in Accounts, Holds(f, a)', a \notin Excused'
        PROVE  Matches(f, a, Expected(a))'
    <3>1. Untouched(a) /\ Holds(f, a) /\ a \notin Excused  BY <1>3, <2>1 DEF Accounted, Settled
    <3>2. PICK x : x = Expected(a) /\ x = Expected(a)'  BY <3>1 DEF Untouched
    <3>3. Matches(f, a, x)  BY <3>1, <3>2 DEF Right
    <3>4. Matches(f, a, x)'  BY <1>3, <3>3, MatchesElsewhere DEF Alone
    <3> QED BY <3>2, <3>4
  <2> QED BY <1>1, <2>1 DEF Right
<1> QED BY <1>1, <1>2, <1>3

(* Changing one local leaves the others. *)
LEMMA MemFields ==
  ASSUME LTypes, NEW e \in Events, NEW v
  PROVE  /\ mem' = [mem EXCEPT ![e].new = v] => mem'[e].new = v
         /\ mem' = [mem EXCEPT ![e].user = v] => mem'[e].user = v
         /\ mem' = [mem EXCEPT ![e].stake = v] => mem'[e].stake = v
         /\ mem' = [mem EXCEPT ![e].card = v] => mem'[e].card = v /\ mem'[e].fromCard = mem[e].fromCard
         /\ mem' = [mem EXCEPT ![e].fromCard = v] => mem'[e].fromCard = v
<1>1. mem[e] \in Mem /\ e \in DOMAIN mem  BY DEF LTypes, MemTypes
<1> QED BY <1>1 DEF Mem

(* A job that reads account a: what it read is what the account shows. *)
LEMMA ReadsExact ==
  ASSUME Known, Exact, NEW e \in Events, Alone(e), Now(e) \notin LegSteps, Now(e) # "end",
         NEW a \in Accounts, Hold(e, a), Advance(e), UNCHANGED <<chain, mined, db, causes>>
  PROVE  /\ Accounted(e) /\ Next1(e) /\ StepKinds(e)
         /\ \A b \in Accounts : Holds(e, b)' /\ b \notin Excused' =>
               /\ b = a \/ Holds(e, b)
               /\ b \notin Excused /\ Shown(b) = Expected(b) /\ Expected(b)' = Expected(b)
<1>1. LTypes  BY DEF Known
<1>2. Next1(e) /\ StepKinds(e) /\ pc'[e] = pc[e] + 1  BY <1>1, Advances, KindsOfSteps
<1>3. Excused' = Excused /\ ignored' = ignored  BY DEF Excused, causes
<1>4. \A b \in Accounts : Untouched(b)
  <2>1. \A b \in Accounts : Expected(b)' = Expected(b)  BY <1>2, <1>3, ExpectedStep
  <2>2. \A b : Shown(b)' = Shown(b)  BY DEF db, Shown, PointsShown, StakeShown, CardShown
  <2> QED BY <2>1, <2>2 DEF Untouched
<1>5. \A f \in Events : \A b : Holds(f, b)' => Holds(f, b) \/ (f = e /\ b = a)
  BY <1>1, HoldFacts DEF Holds, LTypes
<1> QED BY <1>2, <1>3, <1>4, <1>5 DEF Accounted, Exact, Untouched

(* updateUserPoint: the new points are the sum and the change, or the chain is asked. *)
LEMMA ReadUserExact ==
  ASSUME Known, Exact, NEW e \in Events, Right(e), ReadUser(e)
  PROVE  Accounted(e) /\ Right(e)'
<1>1. Happened(e) /\ Now(e) \in {"readFrom", "readTo"}  BY AtNow DEF ReadUser
<1>2. LTypes /\ JobKnown(e) /\ Alone(e)  BY ReadUserKnown DEF Known
<1>3. User(e) = Payer(e) /\ Payer(e) \in Users  BY <1>1, <1>2, UserIsPayer, EventType
<1>4. PICK a \in Accounts : a = PointsOf(Payer(e))  BY <1>3 DEF Accounts
<1>5. Hold(e, a) /\ Advance(e) /\ UNCHANGED <<chain, mined, db, causes>>
  BY <1>3, <1>4 DEF ReadUser
<1>6. /\ Accounted(e) /\ Next1(e) /\ StepKinds(e)
      /\ \A b \in Accounts : Holds(e, b)' /\ b \notin Excused' =>
               /\ b = a \/ Holds(e, b)
               /\ b \notin Excused /\ Shown(b) = Expected(b) /\ Expected(b)' = Expected(b)
  BY <1>1, <1>2, <1>5, ReadsExact DEF LegSteps
<1>7. mem'[e].new = newPoint(e, Lookup(points, Payer(e)))  BY <1>2, <1>3, MemFields DEF ReadUser
<1>8. \/ Now(e) = "readFrom" /\ Payer(e) = chain[e].from /\ Now(e)' = "writeFrom" /\ isTransfered(e)
      \/ Now(e) = "readTo" /\ Payer(e) = chain[e].to /\ Now(e)' = "writeTo" /\ ~ isTransfered(e)
  BY <1>1, <1>6, UserIsPayer DEF Payer, Next1, StepKinds
<1>9. DOMAIN held[e] = {}
  BY <1>1, <1>2, <1>6 DEF JobKnown, HeldKnown, MayHold, StepKinds
<1>10. /\ mem'[e].new # Ask /\ isTransfered(e) => mem'[e].new = Shown(a) - chain[e].points
       /\ mem'[e].new # Ask /\ ~ isTransfered(e) => mem'[e].new = Shown(a) + chain[e].points
  <2>1. Shown(a) = PointsShown(Payer(e))  BY <1>4, ShownOf
  <2>2. CASE Payer(e) \in DOMAIN points
    <3>1. points[Payer(e)] \in Int /\ points[Payer(e)] # None
      BY <1>2, <2>2, ChainAssumption DEF LTypes, DocTypes
    <3> QED BY <1>7, <2>1, <2>2, <3>1 DEF newPoint, Lookup, PointsShown
  <2>3. CASE Payer(e) \notin DOMAIN points
    <3>1. chain[e].points \in Int  BY <1>2, EventType
    <3> QED BY <1>7, <2>1, <2>3, <3>1 DEF newPoint, Lookup, PointsShown
  <2> QED BY <2>2, <2>3
<1>11. ASSUME NEW b \in Accounts, Holds(e, b)', b \notin Excused'
       PROVE  Matches(e, b, Expected(b))'
  <2>1. b = a /\ Shown(b) = Expected(b) /\ Expected(b)' = Expected(b)
    BY <1>6, <1>9, <1>11 DEF Holds
  <2>2. PICK x : x = Expected(b) /\ x = Expected(b)' /\ x = Shown(a)  BY <2>1
  <2>3. Matches(e, b, x)'
    BY <1>5, <1>8, <1>10, <2>1, <2>2, <1>4 DEF Matches, PointsOf
  <2> QED BY <2>2, <2>3
<1> QED BY <1>5, <1>6, <1>11 DEF Right, Accounts, PointsOf, StakeOf, CardOf

(* A job that neither reads nor writes an account. *)
LEMMA PassesExact ==
  ASSUME Known, Exact, NEW e \in Events, Right(e), Alone(e), Now(e) \notin LegSteps, Now(e) # "end",
         \/ pc'[e] = pc[e] + 1
         \/ pc'[e] = pc[e] + 2 /\ Now(e) \in {"findFromUser", "findToUser", "saveToCard"},
         UNCHANGED <<mem, held, causes, points, stakes, cards>>,
         \A a, x : Matches(e, a, x) => Matches(e, a, x)'
  PROVE  Accounted(e) /\ Right(e)'
<1>1. Excused' = Excused /\ ignored' = ignored  BY DEF Excused, causes
<1>2. \A b \in Accounts : Untouched(b)
  <2>1. \A b \in Accounts : Expected(b)' = Expected(b)  BY <1>1, ExpectedStep
  <2>2. \A b : Shown(b)' = Shown(b)  BY DEF Shown, PointsShown, StakeShown, CardShown
  <2> QED BY <2>1, <2>2 DEF Untouched
<1>3. \A f \in Events : \A b : Holds(f, b)' <=> Holds(f, b)  BY DEF Holds
<1>4. Accounted(e)  BY <1>1, <1>2, <1>3 DEF Accounted
<1>5. ASSUME NEW b \in Accounts, Holds(e, b)', b \notin Excused'
      PROVE  Matches(e, b, Expected(b))'
  <2>1. PICK x : x = Expected(b) /\ x = Expected(b)'  BY <1>2 DEF Untouched
  <2>2. Matches(e, b, x)  BY <1>1, <1>3, <1>5, <2>1 DEF Right
  <2> QED BY <2>1, <2>2
<1> QED BY <1>4, <1>5 DEF Right, Accounts, PointsOf, StakeOf, CardOf

(* getUserOrCreate: a missing user is one of whom nothing is known yet. *)
LEMMA FindUserExact ==
  ASSUME Known, Exact, NEW e \in Events, Right(e), FindUser(e)
  PROVE  Accounted(e) /\ Right(e)'
<1>1. Happened(e) /\ Now(e) \in {"findFromUser", "findToUser"}  BY AtNow DEF FindUser
<1>2. LTypes /\ JobKnown(e) /\ StepKinds(e) /\ Alone(e)
  BY FindUserKnown, KindsOfSteps DEF Known
<1>3. User(e) = Payer(e) /\ Payer(e) \in Users  BY <1>1, <1>2, UserIsPayer, EventType
<1>4. chain' = chain  BY DEF Alone, FindUser
<1>5. CASE User(e) \in DOMAIN points
  <2>1. pc' = [pc EXCEPT ![e] = @ + 2] /\ UNCHANGED <<mem, held, causes, points, stakes, cards>>
    BY <1>5 DEF FindUser, db
  <2>2. Next2(e) /\ pc'[e] = pc[e] + 2  BY <1>1, <1>2, <1>4, <2>1, Skips
  <2>3. \A a, x : Matches(e, a, x)'
    BY <1>1, <1>2, <1>4, <2>1, <2>2 DEF Matches, Next2, StepKinds
  <2> QED BY <1>1, <1>2, <2>1, <2>2, <2>3, PassesExact DEF LegSteps
<1>6. CASE User(e) \notin DOMAIN points
  <2>1. PICK a \in Accounts : a = PointsOf(Payer(e))  BY <1>3 DEF Accounts
  <2>2. Hold(e, a) /\ Advance(e) /\ UNCHANGED <<chain, mined, db, causes>>
    BY <1>3, <1>6, <2>1 DEF FindUser
  <2>3. Accounted(e) /\ Next1(e)  BY <1>1, <1>2, <2>1, <2>2, ReadsExact DEF LegSteps
  <2>4. mem'[e].new = Ask  BY <1>2, <1>6, MemFields DEF FindUser
  <2>5. Now(e)' \in {"createFromUser", "createToUser"}  BY <1>1, <2>3 DEF Next1
  <2>6. \A b \in Accounts : Matches(e, b, Expected(b))'  BY <2>4, <2>5 DEF Matches
  <2> QED BY <2>3, <2>6 DEF Right, Accounts, PointsOf, StakeOf, CardOf
<1> QED BY <1>5, <1>6

(* A join and a claim: the points read are the sum. *)
LEMMA GetUserExact ==
  ASSUME Known, Exact, NEW e \in Events, Right(e), GetUser(e)
  PROVE  Accounted(e) /\ Right(e)'
<1>1. Happened(e) /\ Now(e) = "getUser"  BY AtNow DEF GetUser
<1>2. LTypes /\ JobKnown(e) /\ Alone(e)  BY GetUserKnown DEF Known
<1>3. User(e) = Payer(e) /\ Payer(e) \in Users  BY <1>1, <1>2, UserIsPayer, EventType
<1>4. PICK a \in Accounts : a = PointsOf(Payer(e))  BY <1>3 DEF Accounts
<1>5. Hold(e, a) /\ Advance(e) /\ UNCHANGED <<chain, mined, db, causes>>
  BY <1>3, <1>4 DEF GetUser
<1>6. /\ Accounted(e) /\ Next1(e) /\ StepKinds(e)
      /\ \A b \in Accounts : Holds(e, b)' /\ b \notin Excused' =>
               /\ b = a \/ Holds(e, b)
               /\ b \notin Excused /\ Shown(b) = Expected(b) /\ Expected(b)' = Expected(b)
  BY <1>1, <1>2, <1>5, ReadsExact DEF LegSteps
<1>7. mem'[e].user = Lookup(points, Payer(e))  BY <1>2, <1>3, MemFields DEF GetUser
<1>8. \/ chain[e].kind = "join" /\ Payer(e) = chain[e].from /\ Now(e)' = "findPool"
      \/ chain[e].kind = "claim" /\ Payer(e) = chain[e].to /\ Now(e)' = "saveUser"
  BY <1>1, <1>6 DEF Payer, Next1, StepKinds
<1>9. DOMAIN held[e] = {}  BY <1>1, <1>2 DEF JobKnown, HeldKnown, MayHold
<1>10. mem'[e].user # None => mem'[e].user = Shown(a)
  BY <1>4, <1>7, ShownOf DEF Lookup, PointsShown
<1>11. ASSUME NEW b \in Accounts, Holds(e, b)', b \notin Excused'
       PROVE  Matches(e, b, Expected(b))'
  <2>1. b = a /\ Shown(b) = Expected(b) /\ Expected(b)' = Expected(b)
    BY <1>6, <1>9, <1>11 DEF Holds
  <2>2. PICK x : x = Expected(b) /\ x = Expected(b)' /\ x = Shown(a)  BY <2>1
  <2>3. Matches(e, b, x)'  BY <1>5, <1>8, <1>10, <2>2 DEF Matches
  <2> QED BY <2>2, <2>3
<1> QED BY <1>6, <1>11 DEF Right, Accounts, PointsOf, StakeOf, CardOf

(* A join: the stake read, or none, is the sum. *)
LEMMA FindStakeExact ==
  ASSUME Known, Exact, NEW e \in Events, Right(e), FindStake(e)
  PROVE  Accounted(e) /\ Right(e)'
<1>1. Happened(e) /\ Now(e) = "findStake"  BY AtNow DEF FindStake
<1>2. LTypes /\ JobKnown(e) /\ Alone(e)  BY FindStakeKnown DEF Known
<1>3. PICK p \in Pools, u \in Users : p = chain[e].pool /\ u = chain[e].from  BY <1>2, EventType
<1>4. PICK a \in Accounts : a = StakeOf(p, u)  BY DEF Accounts
<1>5. Hold(e, a) /\ Advance(e) /\ UNCHANGED <<chain, mined, db, causes>>
  BY <1>3, <1>4 DEF FindStake
<1>6. /\ Accounted(e) /\ Next1(e) /\ StepKinds(e)
      /\ \A b \in Accounts : Holds(e, b)' /\ b \notin Excused' =>
               /\ b = a \/ Holds(e, b)
               /\ b \notin Excused /\ Shown(b) = Expected(b) /\ Expected(b)' = Expected(b)
  BY <1>1, <1>2, <1>5, ReadsExact DEF LegSteps
<1>7. mem'[e].stake = Lookup(stakes, <<p, u>>)  BY <1>2, <1>3, MemFields DEF FindStake
<1>8. Now(e)' = "saveStake"  BY <1>1, <1>6 DEF Next1
<1>9. DOMAIN held[e] = {}  BY <1>1, <1>2 DEF JobKnown, HeldKnown, MayHold
<1>10. StakeRead(e)' = Shown(a)
  <2>1. Shown(a) = StakeShown(p, u)  BY <1>4, ShownOf
  <2>2. \A k \in DOMAIN stakes : stakes[k] # None
    BY <1>2, ChainAssumption DEF LTypes, DocTypes
  <2> QED BY <1>7, <2>1, <2>2 DEF Lookup, StakeShown, StakeRead
<1>11. ASSUME NEW b \in Accounts, Holds(e, b)', b \notin Excused'
       PROVE  Matches(e, b, Expected(b))'
  <2>1. b = a /\ Shown(b) = Expected(b) /\ Expected(b)' = Expected(b)
    BY <1>6, <1>9, <1>11 DEF Holds
  <2>2. PICK x : x = Expected(b) /\ x = Expected(b)' /\ x = Shown(a)  BY <2>1
  <2>3. Matches(e, b, x)'  BY <1>8, <1>10, <2>2 DEF Matches
  <2> QED BY <2>2, <2>3
<1> QED BY <1>6, <1>11 DEF Right, Accounts, PointsOf, StakeOf, CardOf

(* What is read of a card. *)
LEMMA CardLookup ==
  ASSUME LTypes, NEW c, NEW u
  PROVE  CardRead(Lookup(cards, <<c, u>>)) = CardShown(c, u)
<1>1. \A k \in DOMAIN cards : cards[k] # None
  BY ChainAssumption DEF LTypes, DocTypes
<1> QED BY <1>1 DEF CardRead, Lookup, CardShown

(* A transfer: the sender's card read, or none, is the sum. *)
LEMMA FindFromCardExact ==
  ASSUME Known, Exact, NEW e \in Events, Right(e), FindFromCard(e)
  PROVE  Accounted(e) /\ Right(e)'
<1>1. Happened(e) /\ Now(e) = "findFromCard"  BY AtNow DEF FindFromCard
<1>2. LTypes /\ JobKnown(e) /\ Alone(e)  BY FindFromCardKnown DEF Known
<1>3. PICK c \in FiledCards, u \in Users : c = chain[e].card /\ u = chain[e].from  BY <1>2, EventType
<1>4. PICK a \in Accounts : a = CardOf(c, u)  BY DEF Accounts
<1>5. Hold(e, a) /\ Advance(e) /\ UNCHANGED <<chain, mined, db, causes>>
  BY <1>3, <1>4 DEF FindFromCard
<1>6. /\ Accounted(e) /\ Next1(e) /\ StepKinds(e)
      /\ \A b \in Accounts : Holds(e, b)' /\ b \notin Excused' =>
               /\ b = a \/ Holds(e, b)
               /\ b \notin Excused /\ Shown(b) = Expected(b) /\ Expected(b)' = Expected(b)
  BY <1>1, <1>2, <1>5, ReadsExact DEF LegSteps
<1>7. mem'[e].fromCard = Lookup(cards, <<c, u>>)
  BY <1>2, <1>3, MemFields DEF FindFromCard, FromKey
<1>8. Now(e)' = "findCard"  BY <1>1, <1>6 DEF Next1
<1>9. DOMAIN held[e] = {}  BY <1>1, <1>2 DEF JobKnown, HeldKnown, MayHold
<1>10. PICK d : d = mem'[e].fromCard /\ CardRead(d) = Shown(a)
  BY <1>2, <1>4, <1>7, CardLookup, ShownOf
<1>11. ASSUME NEW b \in Accounts, Holds(e, b)', b \notin Excused'
       PROVE  Matches(e, b, Expected(b))'
  <2>1. b = a /\ Shown(b) = Expected(b) /\ Expected(b)' = Expected(b)
    BY <1>6, <1>9, <1>11 DEF Holds
  <2>2. PICK x : x = Expected(b) /\ x = Expected(b)' /\ x = Shown(a)  BY <2>1
  <2>3. CardRead(mem[e].fromCard)' = x  BY <1>10, <2>2 DEF CardRead
  <2>4. Matches(e, b, x)'  BY <1>8, <2>3 DEF Matches
  <2> QED BY <2>2, <2>4
<1> QED BY <1>6, <1>11 DEF Right, Accounts, PointsOf, StakeOf, CardOf

(* The receiver's card read, or none, is the sum, and the sender's is still what it was. *)
LEMMA FindCardExact ==
  ASSUME Known, Exact, NEW e \in Events, Right(e), FindCard(e)
  PROVE  Accounted(e) /\ Right(e)'
<1>1. Happened(e) /\ Now(e) = "findCard"  BY AtNow DEF FindCard
<1>2. LTypes /\ JobKnown(e) /\ Alone(e)  BY FindCardKnown DEF Known
<1>3. PICK c \in FiledCards, u \in Users : c = chain[e].card /\ u = chain[e].to  BY <1>2, EventType
<1>4. PICK a \in Accounts : a = CardOf(c, u)  BY DEF Accounts
<1>5. Hold(e, a) /\ Advance(e) /\ UNCHANGED <<chain, mined, db, causes>>
  BY <1>3, <1>4 DEF FindCard
<1>6. /\ Accounted(e) /\ Next1(e) /\ StepKinds(e)
      /\ \A b \in Accounts : Holds(e, b)' /\ b \notin Excused' =>
               /\ b = a \/ Holds(e, b)
               /\ b \notin Excused /\ Shown(b) = Expected(b) /\ Expected(b)' = Expected(b)
  BY <1>1, <1>2, <1>5, ReadsExact DEF LegSteps
<1>7. mem'[e].card = Lookup(cards, <<c, u>>) /\ mem'[e].fromCard = mem[e].fromCard
  BY <1>2, <1>3, MemFields DEF FindCard, ToKey
<1>8. Now(e)' \in {"saveFromCard", "saveCard"}  BY <1>1, <1>6 DEF Next1
<1>9. PICK d : d = mem'[e].card /\ CardRead(d) = Shown(a)
  BY <1>2, <1>4, <1>7, CardLookup, ShownOf
<1>10. HeldTypes' /\ \A b \in DOMAIN held[e] : held'[e][b] = held[e][b]
  BY <1>2, <1>5, HoldFacts DEF LTypes
<1>11. ASSUME NEW b \in Accounts, Holds(e, b)', b \notin Excused'
       PROVE  Matches(e, b, Expected(b))'
  <2>1. /\ Shown(b) = Expected(b) /\ Expected(b)' = Expected(b) /\ b \notin Excused
        /\ b = a \/ Holds(e, b)
    BY <1>6, <1>11
  <2>2. PICK x : x = Expected(b) /\ x = Expected(b)' /\ x = Shown(b)  BY <2>1
  <2>3. CardRead(mem[e].fromCard)' = CardRead(mem[e].fromCard)  BY <1>7 DEF CardRead
  <2>4. b = a => CardRead(mem[e].card)' = x  BY <1>9, <2>2 DEF CardRead
  <2>5. b = CardOf(chain[e].card, chain[e].to) => b = a  BY <1>3, <1>4
  <2>6. chain[e].kind = "move" /\ b = CardOf(chain[e].card, chain[e].from) =>
           CardRead(mem[e].fromCard) = x
    <3>1. chain[e].kind = "move" /\ b = CardOf(chain[e].card, chain[e].from) => Holds(e, b)
      BY <1>1, <1>2, <1>10, <1>11 DEF Holds, JobKnown, CardKnown
    <3>2. Holds(e, b) => Matches(e, b, x)  BY <2>1, <2>2 DEF Right
    <3> QED BY <1>1, <3>1, <3>2 DEF Matches
  <2>7. Matches(e, b, x)'
    BY <1>5, <1>8, <2>3, <2>4, <2>5, <2>6 DEF Matches, CardOf
  <2> QED BY <2>2, <2>7
<1> QED BY <1>6, <1>11 DEF Right, Accounts, PointsOf, StakeOf, CardOf

(* A job that writes account a: if it held the account, what it writes must be the sum;
   if it did not, or another job has written since, the account is among the lost ones. *)
LEMMA WritesExact ==
  ASSUME Known, Exact, NEW e \in Events, Right(e), Alone(e), Now(e) # "end",
         \/ pc'[e] = pc[e] + 1
         \/ pc'[e] = pc[e] + 2 /\ Now(e) \in {"findFromUser", "findToUser", "saveToCard"},
         ignored' = ignored, NEW a \in Accounts, Wrote(e, a),
         doubled \subseteq doubled', guessed \subseteq guessed', late \subseteq late',
         Now(e) \in LegSteps => Leg(e)[2] = a,
         \A b \in Accounts : b # a => Shown(b)' = Shown(b),
         Holds(e, a) /\ a \notin Excused /\ a \notin Excused' => Shown(a)' = Expected(a)'
  PROVE  /\ Accounted(e)
         /\ \A b \in Accounts : Holds(e, b)' /\ b \notin Excused' =>
               /\ b # a /\ Holds(e, b) /\ b \notin Excused /\ Expected(b)' = Expected(b)
<1>1. LTypes /\ HeldTypes /\ chain' = chain /\ Events' = Events
  BY DEF Known, LTypes, Alone, Events
<1>2. lost \subseteq lost' /\ (~ Holds(e, a) => a \in lost')
  <2>1. ASSUME a \in DOMAIN held[e]  PROVE held[e][a] <=> held[e][a] = TRUE
    BY <1>1, <2>1 DEF HeldTypes
  <2> QED BY <2>1 DEF Wrote, Holds
<1>3. Excused \subseteq Excused' /\ (a \in lost' => a \in Excused')  BY <1>2 DEF Excused
<1>4. \A b \in Accounts : b # a => Expected(b)' = Expected(b)  BY ExpectedStep
<1>5. \A f \in Events : ~ Holds(f, a)' /\ \A b : b # a /\ Holds(f, b)' => Holds(f, b)
  <2> TAKE f \in Events
  <2>1. /\ \A g \in Events : a \in DOMAIN held'[g] => held'[g][a] = FALSE
        /\ \A g \in Events : \A b \in DOMAIN held[g] : b # a => held'[g][b] = held[g][b]
        /\ DOMAIN held'[e] = DOMAIN held[e] \ {a}
        /\ \A g \in Events : g # e => DOMAIN held'[g] = DOMAIN held[g]
    BY <1>1, WroteFacts
  <2> QED BY <2>1 DEF Holds
<1>6. a \in Excused' \/ Settled(a)  BY <1>1, <1>2, <1>3, <1>5 DEF Settled
<1>7. \A b \in Accounts : b # a => Untouched(b)  BY <1>4 DEF Untouched
<1>8. Accounted(e)
  <2>1. \A f \in Events : \A b : Holds(f, b)' => Holds(f, b)  BY <1>5
  <2> QED BY <1>3, <1>6, <1>7, <2>1 DEF Accounted
<1> QED BY <1>3, <1>4, <1>5, <1>8

(* The points of a user written: the other documents stay. *)
LEMMA OtherPoints ==
  ASSUME NEW u, NEW n, points' = Upsert(points, u, n), UNCHANGED <<stakes, cards>>
  PROVE  /\ Shown(PointsOf(u))' = n
         /\ \A b \in Accounts : b # PointsOf(u) => Shown(b)' = Shown(b)
<1>1. /\ DOMAIN points' = DOMAIN points \union {u} /\ points'[u] = n
      /\ \A v \in DOMAIN points : v # u => points'[v] = points[v]
  BY DEF Upsert
<1>2. PointsShown(u)' = n /\ \A v : v # u => PointsShown(v)' = PointsShown(v)
  BY <1>1 DEF PointsShown
<1>3. (\A p, v : StakeShown(p, v)' = StakeShown(p, v)) /\ (\A c, v : CardShown(c, v)' = CardShown(c, v))
  BY DEF StakeShown, CardShown
<1>4. Shown(PointsOf(u))' = PointsShown(u)'  BY ShownOf
<1>5. ASSUME NEW b \in Accounts, b # PointsOf(u)  PROVE Shown(b)' = Shown(b)
  <2>1. CASE \E v \in Users : b = PointsOf(v)
    <3>1. PICK v \in Users : b = PointsOf(v) /\ v # u  BY <1>5, <2>1
    <3> QED BY <1>2, <3>1, ShownOf
  <2>2. CASE \E p \in Pools, v \in Users : b = StakeOf(p, v)  BY <1>3, <2>2, ShownOf
  <2>3. CASE \E c \in FiledCards, v \in Users : b = CardOf(c, v)  BY <1>3, <2>3, ShownOf
  <2> QED BY <2>1, <2>2, <2>3 DEF Accounts
<1> QED BY <1>2, <1>4, <1>5

(* The same of a stake ... *)
LEMMA OtherStakes ==
  ASSUME NEW p, NEW u, NEW n, stakes' = Upsert(stakes, <<p, u>>, n), UNCHANGED <<points, cards>>
  PROVE  /\ Shown(StakeOf(p, u))' = n
         /\ \A b \in Accounts : b # StakeOf(p, u) => Shown(b)' = Shown(b)
<1>0. PICK k : k = <<p, u>>  OBVIOUS
<1>1. /\ DOMAIN stakes' = DOMAIN stakes \union {k} /\ stakes'[k] = n
      /\ \A l \in DOMAIN stakes : l # k => stakes'[l] = stakes[l]
  BY <1>0 DEF Upsert
<1>2. StakeShown(p, u)' = n /\ \A q, v : <<q, v>> # k => StakeShown(q, v)' = StakeShown(q, v)
  BY <1>0, <1>1 DEF StakeShown
<1>3. (\A v : PointsShown(v)' = PointsShown(v)) /\ (\A c, v : CardShown(c, v)' = CardShown(c, v))
  BY DEF PointsShown, CardShown
<1>4. Shown(StakeOf(p, u))' = StakeShown(p, u)'  BY ShownOf
<1>5. ASSUME NEW b \in Accounts, b # StakeOf(p, u)  PROVE Shown(b)' = Shown(b)
  <2>1. CASE \E v \in Users : b = PointsOf(v)  BY <1>3, <2>1, ShownOf
  <2>2. CASE \E q \in Pools, v \in Users : b = StakeOf(q, v)
    <3>1. PICK q \in Pools, v \in Users : b = StakeOf(q, v) /\ <<q, v>> # k  BY <1>0, <1>5, <2>2
    <3> QED BY <1>2, <3>1, ShownOf
  <2>3. CASE \E c \in FiledCards, v \in Users : b = CardOf(c, v)  BY <1>3, <2>3, ShownOf
  <2> QED BY <2>1, <2>2, <2>3 DEF Accounts
<1> QED BY <1>2, <1>4, <1>5

(* ... and of a card. *)
LEMMA OtherCards ==
  ASSUME NEW c, NEW u, NEW d, cards' = Upsert(cards, <<c, u>>, d), UNCHANGED <<points, stakes>>
  PROVE  /\ Shown(CardOf(c, u))' = d.amount
         /\ \A b \in Accounts : b # CardOf(c, u) => Shown(b)' = Shown(b)
<1>0. PICK k : k = <<c, u>>  OBVIOUS
<1>1. /\ DOMAIN cards' = DOMAIN cards \union {k} /\ cards'[k] = d
      /\ \A l \in DOMAIN cards : l # k => cards'[l] = cards[l]
  BY <1>0 DEF Upsert
<1>2. CardShown(c, u)' = d.amount /\ \A q, v : <<q, v>> # k => CardShown(q, v)' = CardShown(q, v)
  BY <1>0, <1>1 DEF CardShown
<1>3. (\A v : PointsShown(v)' = PointsShown(v)) /\ (\A p, v : StakeShown(p, v)' = StakeShown(p, v))
  BY DEF PointsShown, StakeShown
<1>4. Shown(CardOf(c, u))' = CardShown(c, u)'  BY ShownOf
<1>5. ASSUME NEW b \in Accounts, b # CardOf(c, u)  PROVE Shown(b)' = Shown(b)
  <2>1. CASE \E v \in Users : b = PointsOf(v)  BY <1>3, <2>1, ShownOf
  <2>2. CASE \E p \in Pools, v \in Users : b = StakeOf(p, v)  BY <1>3, <2>2, ShownOf
  <2>3. CASE \E q \in FiledCards, v \in Users : b = CardOf(q, v)
    <3>1. PICK q \in FiledCards, v \in Users : b = CardOf(q, v) /\ <<q, v>> # k  BY <1>0, <1>5, <2>3
    <3> QED BY <1>2, <3>1, ShownOf
  <2> QED BY <2>1, <2>2, <2>3 DEF Accounts
<1> QED BY <1>2, <1>4, <1>5

(* updateUserPoint and getUserOrCreate: the points written are the sum with the leg. *)
LEMMA WriteUserExact ==
  ASSUME Known, Exact, NEW e \in Events, Right(e), WriteUser(e)
  PROVE  Accounted(e) /\ Right(e)'
<1>1. /\ Happened(e) /\ mem[e].new # Ask
      /\ Now(e) \in {"writeFrom", "writeTo", "createFromUser", "createToUser"}
  BY AtNow DEF WriteUser
<1>2. LTypes /\ StepKinds(e) /\ Alone(e)  BY WriteUserKnown, KindsOfSteps DEF Known
<1>3. PICK u \in Users : u = User(e) /\ u = Payer(e)  BY <1>1, <1>2, UserIsPayer, EventType
<1>4. PICK a \in Accounts : a = PointsOf(u)  BY DEF Accounts
<1>5. /\ points' = Upsert(points, u, mem[e].new) /\ Wrote(e, a) /\ Advance(e)
      /\ UNCHANGED <<chain, mem, stakes, cards, doubled, guessed, late, ignored>>
  BY <1>3, <1>4 DEF WriteUser
<1>6. Next1(e) /\ pc'[e] = pc[e] + 1  BY <1>1, <1>2, <1>5, Advances
<1>7. Shown(a)' = mem[e].new /\ \A b \in Accounts : b # a => Shown(b)' = Shown(b)
  BY <1>4, <1>5, OtherPoints
<1>8. /\ Now(e) \in {"writeFrom", "createFromUser"} => a = PointsOf(chain[e].from)
      /\ Now(e) \in {"writeTo", "createToUser"} => a = PointsOf(chain[e].to)
  BY <1>1, <1>2, <1>3, <1>4 DEF Payer, StepKinds
<1>9. /\ Now(e) = "writeFrom" => Leg(e) = <<"writeFrom", a, - chain[e].points>>
      /\ Now(e) = "writeTo" => Leg(e) = <<"writeTo", a, chain[e].points>>
  BY <1>8 DEF Leg
<1>10. Holds(e, a) /\ a \notin Excused => Shown(a)' = Expected(a)'
  <2> SUFFICES ASSUME Holds(e, a), a \notin Excused PROVE Shown(a)' = Expected(a)'  OBVIOUS
  <2>1. PICK x \in Int : x = Expected(a)  BY <1>2, ExpectedType DEF LTypes, ChainTypes
  <2>2. PICK n \in Int : n = chain[e].points  BY <1>2, EventType
  <2>3. Matches(e, a, x)  BY <2>1 DEF Right
  <2>4. CASE Now(e) = "writeFrom"
    <3>1. mem[e].new = x - n  BY <1>1, <1>8, <2>2, <2>3, <2>4 DEF Matches
    <3>2. Expected(a)' = x + (- n)
      BY <1>2, <1>5, <1>6, <1>9, <2>1, <2>2, <2>4, ExpectedStep DEF LegSteps
    <3> QED BY <1>7, <3>1, <3>2
  <2>5. CASE Now(e) = "writeTo"
    <3>1. mem[e].new = x + n  BY <1>1, <1>8, <2>2, <2>3, <2>5 DEF Matches
    <3>2. Expected(a)' = x + n
      BY <1>2, <1>5, <1>6, <1>9, <2>1, <2>2, <2>5, ExpectedStep DEF LegSteps
    <3> QED BY <1>7, <3>1, <3>2
  <2>6. CASE Now(e) \in {"createFromUser", "createToUser"}
    <3>1. mem[e].new = x  BY <1>1, <1>8, <2>3, <2>6 DEF Matches
    <3>2. Expected(a)' = x  BY <1>2, <1>5, <1>6, <2>1, <2>6, ExpectedStep DEF LegSteps
    <3> QED BY <1>7, <3>1, <3>2
  <2> QED BY <1>1, <2>4, <2>5, <2>6
<1>11. Accounted(e)
  BY <1>1, <1>2, <1>5, <1>6, <1>7, <1>9, <1>10, WritesExact DEF LegSteps
<1>12. \A b, x : Matches(e, b, x)'
  BY <1>1, <1>2, <1>5, <1>6 DEF Matches, Next1, StepKinds
<1> QED BY <1>11, <1>12 DEF Right

(* playerDocument.save() and winnerUser.save(): so are these. *)
LEMMA SaveUserExact ==
  ASSUME Known, Exact, NEW e \in Events, Right(e), SaveUser(e)
  PROVE  Accounted(e) /\ Right(e)'
<1>1. Happened(e) /\ Now(e) = "saveUser" /\ mem[e].user # None  BY AtNow DEF SaveUser
<1>2. LTypes /\ StepKinds(e) /\ Alone(e)  BY SaveUserKnown, KindsOfSteps DEF Known
<1>3. PICK u \in Users : u = User(e) /\ u = Payer(e)  BY <1>1, <1>2, UserIsPayer, EventType
<1>4. PICK a \in Accounts : a = PointsOf(u)  BY DEF Accounts
<1>5. PICK n \in Int, m \in Int : n = chain[e].points /\ m = mem[e].user
  BY <1>1, <1>2, EventType DEF LTypes, MemTypes, Mem
<1>6. points' = Upsert(points, u, IF chain[e].kind = "join" THEN m - n ELSE m + n)
  BY <1>3, <1>5, SaveUserKnown
<1>7. /\ Wrote(e, a) /\ Advance(e)
      /\ UNCHANGED <<chain, mem, stakes, cards, doubled, guessed, late, ignored>>
  BY <1>3, <1>4 DEF SaveUser
<1>8. Next1(e) /\ pc'[e] = pc[e] + 1  BY <1>1, <1>2, <1>7, Advances
<1>9. /\ Shown(a)' = (IF chain[e].kind = "join" THEN m - n ELSE m + n)
      /\ \A b \in Accounts : b # a => Shown(b)' = Shown(b)
  BY <1>4, <1>6, <1>7, OtherPoints
<1>10. \/ /\ chain[e].kind = "join" /\ a = PointsOf(chain[e].from)
          /\ Leg(e) = <<"saveUser", a, - n>>
       \/ /\ chain[e].kind = "claim" /\ a = PointsOf(chain[e].to)
          /\ Leg(e) = <<"saveUser", a, n>>
  BY <1>1, <1>2, <1>3, <1>4, <1>5 DEF Payer, StepKinds, Leg
<1>11. Holds(e, a) /\ a \notin Excused => Shown(a)' = Expected(a)'
  <2> SUFFICES ASSUME Holds(e, a), a \notin Excused PROVE Shown(a)' = Expected(a)'  OBVIOUS
  <2>1. PICK x \in Int : x = Expected(a)  BY <1>2, ExpectedType DEF LTypes, ChainTypes
  <2>2. Matches(e, a, x)  BY <2>1 DEF Right
  <2>3. m = x  BY <1>1, <1>5, <1>10, <2>2 DEF Matches
  <2>4. Expected(a)' = IF chain[e].kind = "join" THEN x + (- n) ELSE x + n
    BY <1>1, <1>2, <1>7, <1>8, <1>10, <2>1, ExpectedStep DEF LegSteps
  <2> QED BY <1>9, <2>3, <2>4
<1>12. Accounted(e)
  BY <1>1, <1>2, <1>7, <1>8, <1>9, <1>10, <1>11, WritesExact
<1>13. \A b, x : Matches(e, b, x)'
  BY <1>1, <1>7, <1>8, <1>10 DEF Matches, Next1
<1> QED BY <1>12, <1>13 DEF Right

(* create() and save() of a stake: so is this. *)
LEMMA SaveStakeExact ==
  ASSUME Known, Exact, NEW e \in Events, Right(e), SaveStake(e)
  PROVE  Accounted(e) /\ Right(e)'
<1>1. Happened(e) /\ Now(e) = "saveStake"  BY AtNow DEF SaveStake
<1>2. LTypes /\ Alone(e)  BY SaveStakeKnown DEF Known
<1>3. PICK p \in Pools, u \in Users : p = chain[e].pool /\ u = chain[e].from  BY <1>2, EventType
<1>4. PICK a \in Accounts : a = StakeOf(p, u)  BY DEF Accounts
<1>5. PICK n \in Int, m \in Int : n = chain[e].points /\ m = StakeRead(e)
  BY <1>1, <1>2, EventType DEF LTypes, MemTypes, Mem, StakeRead
<1>6. /\ stakes' = Upsert(stakes, <<p, u>>, m + n) /\ Wrote(e, a) /\ Advance(e)
      /\ UNCHANGED <<chain, mem, points, cards, doubled, guessed, late, ignored>>
  BY <1>3, <1>4, <1>5 DEF SaveStake, StakeRead
<1>7. Next1(e) /\ pc'[e] = pc[e] + 1  BY <1>1, <1>2, <1>6, Advances
<1>8. Shown(a)' = m + n /\ \A b \in Accounts : b # a => Shown(b)' = Shown(b)
  BY <1>4, <1>6, OtherStakes
<1>9. Leg(e) = <<"saveStake", a, n>>  BY <1>1, <1>3, <1>4, <1>5 DEF Leg
<1>10. Holds(e, a) /\ a \notin Excused => Shown(a)' = Expected(a)'
  <2> SUFFICES ASSUME Holds(e, a), a \notin Excused PROVE Shown(a)' = Expected(a)'  OBVIOUS
  <2>1. PICK x \in Int : x = Expected(a)  BY <1>2, ExpectedType DEF LTypes, ChainTypes
  <2>2. Matches(e, a, x)  BY <2>1 DEF Right
  <2>3. m = x  BY <1>1, <1>3, <1>4, <1>5, <2>2 DEF Matches
  <2>4. Expected(a)' = x + n
    BY <1>1, <1>2, <1>6, <1>7, <1>9, <2>1, ExpectedStep DEF LegSteps
  <2> QED BY <1>8, <2>3, <2>4
<1>11. Accounted(e)  BY <1>1, <1>2, <1>6, <1>7, <1>8, <1>9, <1>10, WritesExact
<1>12. \A b, x : Matches(e, b, x)'  BY <1>1, <1>7 DEF Matches, Next1
<1> QED BY <1>11, <1>12 DEF Right

(* existingCard.save(): so is the amount of a card added to. *)
LEMMA AddToCardExact ==
  ASSUME Known, Exact, NEW e \in Events, Right(e), AddToCard(e)
  PROVE  Accounted(e) /\ Right(e)'
<1>1. Happened(e) /\ Now(e) \in {"saveCard", "saveToCard"} /\ mem[e].card # None
  BY AtNow DEF AddToCard, InTime
<1>2. LTypes /\ Alone(e)  BY AddToCardKnown DEF Known
<1>3. PICK c \in FiledCards, u \in Users : c = chain[e].card /\ u = chain[e].to  BY <1>2, EventType
<1>4. PICK a \in Accounts : a = CardOf(c, u)  BY DEF Accounts
<1>5. PICK n \in Int, m \in Int : n = chain[e].amount /\ m = mem[e].card.amount
  BY <1>1, <1>2, EventType DEF LTypes, MemTypes, Mem, CardDoc
<1>6. PICK d : d.amount = m + n /\ cards' = Upsert(cards, <<c, u>>, d)
  BY <1>3, <1>5 DEF AddToCard, Stored, ToKey
<1>7. /\ Wrote(e, a) /\ UNCHANGED <<chain, mem, points, stakes, doubled, guessed, late, ignored>>
  BY <1>3, <1>4 DEF AddToCard
<1>8. /\ Now(e)' = "history"
      /\ pc'[e] = pc[e] + 1 \/ (pc'[e] = pc[e] + 2 /\ Now(e) = "saveToCard")
  <2>1. CASE Now(e) = "saveToCard"
    <3>1. pc' = [pc EXCEPT ![e] = @ + 2]  BY <1>1, <2>1, AtNow DEF AddToCard
    <3> QED BY <1>2, <1>7, <2>1, <3>1, Skips DEF Next2
  <2>2. CASE Now(e) = "saveCard"
    <3>1. ~ At(e, {"saveToCard"})  BY <1>1, <2>2, AtNow
    <3>2. Advance(e)  BY <3>1 DEF AddToCard, Advance
    <3> QED BY <1>2, <1>7, <2>2, <3>2, Advances DEF Next1
  <2> QED BY <1>1, <2>1, <2>2
<1>9. Shown(a)' = m + n /\ \A b \in Accounts : b # a => Shown(b)' = Shown(b)
  BY <1>4, <1>6, <1>7, OtherCards
<1>10. Leg(e) = <<Now(e), a, n>>  BY <1>1, <1>3, <1>4, <1>5 DEF Leg
<1>11. Holds(e, a) /\ a \notin Excused => Shown(a)' = Expected(a)'
  <2> SUFFICES ASSUME Holds(e, a), a \notin Excused PROVE Shown(a)' = Expected(a)'  OBVIOUS
  <2>1. PICK x \in Int : x = Expected(a)  BY <1>2, ExpectedType DEF LTypes, ChainTypes
  <2>2. Matches(e, a, x)  BY <2>1 DEF Right
  <2>3. m = x  BY <1>1, <1>3, <1>4, <1>5, <2>2 DEF Matches, CardRead
  <2>4. Expected(a)' = x + n
    BY <1>1, <1>2, <1>7, <1>8, <1>10, <2>1, ExpectedStep DEF LegSteps
  <2> QED BY <1>9, <2>3, <2>4
<1>12. Accounted(e)
  BY <1>1, <1>2, <1>7, <1>8, <1>9, <1>10, <1>11, WritesExact
<1>13. \A b, x : Matches(e, b, x)'  BY <1>8 DEF Matches
<1> QED BY <1>12, <1>13 DEF Right

(* An upsert writes the amount of the event: the sum of a card nobody had. *)
LEMMA SetCardExact ==
  ASSUME Known, Exact, NEW e \in Events, Right(e), SetCard(e)
  PROVE  Accounted(e) /\ Right(e)'
<1>1. Happened(e) /\ Now(e) \in {"saveCard", "saveToCard"}  BY AtNow DEF SetCard, SetsCard
<1>2. LTypes /\ Alone(e)  BY SetCardKnown DEF Known
<1>3. PICK c \in FiledCards, u \in Users : c = chain[e].card /\ u = chain[e].to  BY <1>2, EventType
<1>4. PICK a \in Accounts : a = CardOf(c, u)  BY DEF Accounts
<1>5. PICK n \in Int : n = chain[e].amount  BY <1>2, EventType
<1>6. PICK d : d.amount = n /\ cards' = Upsert(cards, <<c, u>>, d)
  BY <1>3, <1>5 DEF SetCard, Stored, ToKey
<1>7. /\ Wrote(e, a) /\ Advance(e)
      /\ UNCHANGED <<chain, mem, points, stakes, doubled, guessed, ignored>>
      /\ late \subseteq late' /\ (mem[e].card # None => a \in Excused')
  BY <1>3, <1>4 DEF SetCard, Excused
<1>8. Next1(e) /\ pc'[e] = pc[e] + 1  BY <1>1, <1>2, <1>7, Advances
<1>9. Shown(a)' = n /\ \A b \in Accounts : b # a => Shown(b)' = Shown(b)
  BY <1>4, <1>6, <1>7, OtherCards
<1>10. Leg(e) = <<Now(e), a, n>>  BY <1>1, <1>3, <1>4, <1>5 DEF Leg
<1>11. Holds(e, a) /\ a \notin Excused /\ mem[e].card = None => Shown(a)' = Expected(a)'
  <2> SUFFICES ASSUME Holds(e, a), a \notin Excused, mem[e].card = None
               PROVE  Shown(a)' = Expected(a)'
    OBVIOUS
  <2>1. PICK x \in Int : x = Expected(a)  BY <1>2, ExpectedType DEF LTypes, ChainTypes
  <2>2. Matches(e, a, x)  BY <2>1 DEF Right
  <2>3. x = 0  BY <1>1, <1>3, <1>4, <2>2 DEF Matches, CardRead
  <2>4. Expected(a)' = x + n
    BY <1>1, <1>2, <1>7, <1>8, <1>10, <2>1, ExpectedStep DEF LegSteps
  <2> QED BY <1>9, <2>3, <2>4
<1>12. Accounted(e)
  BY <1>1, <1>2, <1>7, <1>8, <1>9, <1>10, <1>11, WritesExact
<1>13. \A b, x : Matches(e, b, x)'  BY <1>1, <1>8 DEF Matches, Next1
<1> QED BY <1>12, <1>13 DEF Right

(* A job that leaves a write out gives its account up as late. *)
LEMMA KeepsExact ==
  ASSUME Known, Exact, NEW e \in Events, Right(e), Alone(e), Now(e) \in LegSteps, Now(e) # "end",
         Advance(e), ignored' = ignored, NEW a \in Accounts, Leg(e)[2] = a, Kept(e, a),
         UNCHANGED <<points, stakes, cards, doubled, guessed>>, late' = late \union {a}
  PROVE  /\ Accounted(e)
         /\ \A b \in Accounts : Holds(e, b)' /\ b \notin Excused' =>
               /\ b # a /\ Holds(e, b) /\ b \notin Excused /\ Expected(b)' = Expected(b)
<1>1. LTypes /\ HeldTypes /\ chain' = chain /\ lost' = lost
  BY DEF Known, LTypes, Alone, Kept
<1>2. pc'[e] = pc[e] + 1  BY <1>1, Advances
<1>3. Excused \subseteq Excused' /\ a \in Excused'  BY <1>1 DEF Excused
<1>4. \A b \in Accounts : b # a => Expected(b)' = Expected(b)  BY <1>2, ExpectedStep
<1>5. \A b : Shown(b)' = Shown(b)  BY DEF Shown, PointsShown, StakeShown, CardShown
<1>6. \A f \in Events : \A b : Holds(f, b)' => Holds(f, b)  BY <1>1, KeptFacts DEF Holds
<1>7. Accounted(e)  BY <1>3, <1>4, <1>5, <1>6 DEF Accounted, Untouched
<1> QED BY <1>3, <1>4, <1>6, <1>7

(* An event left out makes its card one of the late ones. *)
LEMMA SkipCardExact ==
  ASSUME Known, Exact, NEW e \in Events, Right(e), SkipCard(e)
  PROVE  Accounted(e) /\ Right(e)'
<1>1. Happened(e) /\ Now(e) = "saveCard"  BY AtNow DEF SkipCard
<1>2. LTypes /\ Alone(e)  BY SkipCardKnown DEF Known
<1>3. PICK c \in FiledCards, u \in Users : c = chain[e].card /\ u = chain[e].to  BY <1>2, EventType
<1>4. PICK a \in Accounts : a = CardOf(c, u)  BY DEF Accounts
<1>5. /\ Kept(e, a) /\ Advance(e) /\ late' = late \union {a} /\ chain' = chain
      /\ UNCHANGED <<points, stakes, cards, doubled, guessed, ignored>>
  BY <1>3, <1>4 DEF SkipCard, db
<1>6. Leg(e)[2] = a  BY <1>1, <1>3, <1>4 DEF Leg
<1>7. Accounted(e)  BY <1>1, <1>2, <1>5, <1>6, KeepsExact DEF LegSteps
<1>8. Now(e)' = "history"  BY <1>1, <1>2, <1>5, Advances DEF Next1
<1>9. \A b, x : Matches(e, b, x)'  BY <1>8 DEF Matches
<1> QED BY <1>7, <1>9 DEF Right

(* A transfer takes from the sender's card, or makes it one of the late ones. *)
LEMMA TakeFromCardExact ==
  ASSUME Known, Exact, NEW e \in Events, Right(e), TakeFromCard(e)
  PROVE  Accounted(e) /\ Right(e)'
<1>1. Happened(e) /\ Now(e) = "saveFromCard"  BY AtNow DEF TakeFromCard
<1>2. LTypes /\ Alone(e)  BY TakeFromCardKnown DEF Known
<1>3. PICK c \in FiledCards, u \in Users : c = chain[e].card /\ u = chain[e].from  BY <1>2, EventType
<1>4. PICK a \in Accounts : a = CardOf(c, u)  BY DEF Accounts
<1>5. /\ Advance(e)
      /\ UNCHANGED <<chain, mem, points, stakes, doubled, guessed, ignored>>
  BY DEF TakeFromCard
<1>6. Next1(e) /\ pc'[e] = pc[e] + 1 /\ chain[e].kind = "move"
  BY <1>1, <1>2, <1>5, Advances, KindsOfSteps DEF StepKinds
<1>7. PICK n \in Int : n = chain[e].amount  BY <1>2, EventType
<1>8. Leg(e) = <<"saveFromCard", a, - n>>  BY <1>1, <1>3, <1>4, <1>7 DEF Leg
<1>9. /\ Accounted(e)
      /\ \A b \in Accounts : Holds(e, b)' /\ b \notin Excused' =>
               /\ b # a /\ Holds(e, b) /\ b \notin Excused /\ Expected(b)' = Expected(b)
  <2>1. CASE InTime(e, mem[e].fromCard)
    <3>1. Wrote(e, a) /\ UNCHANGED late  BY <1>3, <1>4, <2>1 DEF TakeFromCard
    <3>2. PICK m \in Int : m = mem[e].fromCard.amount /\ mem[e].fromCard # None
      BY <1>2, <2>1 DEF LTypes, MemTypes, Mem, CardDoc, InTime
    <3>3. PICK d : d.amount = m - n /\ cards' = Upsert(cards, <<c, u>>, d)
      BY <1>3, <1>7, <2>1, <3>2 DEF TakeFromCard, Stored, FromKey
    <3>4. Shown(a)' = m - n /\ \A b \in Accounts : b # a => Shown(b)' = Shown(b)
      BY <1>4, <1>5, <3>3, OtherCards
    <3>5. Holds(e, a) /\ a \notin Excused => Shown(a)' = Expected(a)'
      <4> SUFFICES ASSUME Holds(e, a), a \notin Excused PROVE Shown(a)' = Expected(a)'  OBVIOUS
      <4>1. PICK x \in Int : x = Expected(a)  BY <1>2, ExpectedType DEF LTypes, ChainTypes
      <4>2. Matches(e, a, x)  BY <4>1 DEF Right
      <4>3. m = x  BY <1>1, <1>3, <1>4, <1>6, <3>2, <4>2 DEF Matches, CardRead
      <4>4. Expected(a)' = x + (- n)
        BY <1>1, <1>2, <1>5, <1>6, <1>8, <4>1, ExpectedStep DEF LegSteps
      <4> QED BY <3>4, <4>3, <4>4
    <3> QED BY <1>1, <1>2, <1>5, <1>6, <1>8, <3>1, <3>4, <3>5, WritesExact
  <2>2. CASE ~ InTime(e, mem[e].fromCard)
    <3>1. Kept(e, a) /\ late' = late \union {a} /\ UNCHANGED cards
      BY <1>3, <1>4, <2>2 DEF TakeFromCard
    <3> QED BY <1>1, <1>2, <1>5, <1>8, <3>1, KeepsExact DEF LegSteps
  <2> QED BY <2>1, <2>2
<1>10. Now(e)' = "saveToCard"  BY <1>1, <1>6 DEF Next1
<1>11. ASSUME NEW b \in Accounts, Holds(e, b)', b \notin Excused'
       PROVE  Matches(e, b, Expected(b))'
  <2>1. Holds(e, b) /\ b \notin Excused /\ Expected(b)' = Expected(b)  BY <1>9, <1>11
  <2>2. PICK x : x = Expected(b) /\ x = Expected(b)'  BY <2>1
  <2>3. Matches(e, b, x)  BY <2>1, <2>2 DEF Right
  <2>4. Matches(e, b, x)'  BY <1>1, <1>5, <1>10, <2>3 DEF Matches, CardRead, CardOf
  <2> QED BY <2>2, <2>4
<1> QED BY <1>9, <1>11 DEF Right, Accounts, PointsOf, StakeOf, CardOf

(* Pools are nobody's account ... *)
LEMMA SavePoolExact ==
  ASSUME Known, Exact, NEW e \in Events, Right(e), SavePool(e) \/ FindPool(e)
  PROVE  Accounted(e) /\ Right(e)'
<1>1. Happened(e) /\ Now(e) \in {"savePool", "findPool"}  BY AtNow DEF SavePool, FindPool
<1>2. LTypes /\ Alone(e) /\ StepKinds(e)  BY SavePoolKnown, KindsOfSteps DEF Known
<1>3. Advance(e) /\ UNCHANGED <<chain, mem, held, causes, points, stakes, cards>>
  BY DEF SavePool, FindPool
<1>4. Next1(e) /\ pc'[e] = pc[e] + 1  BY <1>1, <1>2, <1>3, Advances
<1>5. \A a, x : Matches(e, a, x) => Matches(e, a, x)'
  BY <1>1, <1>2, <1>3, <1>4 DEF Matches, Next1, StepKinds, PointsOf
<1> QED BY <1>1, <1>2, <1>3, <1>4, <1>5, PassesExact DEF LegSteps

(* ... nor are the history and the metadata queue. *)
LEMMA LastStepsExact ==
  ASSUME Known, Exact, NEW e \in Events, Right(e), AddMetadata(e) \/ SaveHistory(e)
  PROVE  Accounted(e) /\ Right(e)'
<1>1. Happened(e) /\ Now(e) \in {"metadata", "history"}  BY AtNow DEF AddMetadata, SaveHistory
<1>2. LTypes /\ Alone(e)  BY AddMetadataKnown, SaveHistoryKnown DEF Known
<1>3. Advance(e) /\ UNCHANGED <<chain, mem, held, causes, points, stakes, cards>>
  BY DEF AddMetadata, SaveHistory
<1>4. Next1(e) /\ pc'[e] = pc[e] + 1  BY <1>1, <1>2, <1>3, Advances
<1>5. \A a, x : Matches(e, a, x)'  BY <1>1, <1>4 DEF Matches, Next1
<1> QED BY <1>1, <1>2, <1>3, <1>4, <1>5, PassesExact DEF LegSteps

(* A job that starts over has counted legs taken out of the sums. *)
LEMMA RestartExact ==
  ASSUME Known, Exact, NEW e \in Events, Right(e), Restarting(e)
  PROVE  Accounted(e) /\ Right(e)'
<1>1. /\ StartOver(e) /\ UNCHANGED <<chain, db, lost, guessed, late>>
      /\ ignored' = ignored \ {e} /\ LTypes /\ chain \in Chains
  BY RestartFacts DEF Known, LTypes, ChainTypes
<1>2. pc'[e] = 1 /\ \A f \in Events : f # e => pc'[f] = pc[f]
  BY <1>1 DEF StartOver, LTypes, PcTypes
<1>3. held'[e] = <<>> /\ \A f \in Events : f # e => held'[f] = held[f]
  BY <1>1 DEF StartOver, LTypes, HeldTypes
<1>4. Excused \subseteq Excused' /\ \A a : a \in Touched(e) => a \in Excused'
  BY <1>1 DEF StartOver, Excused
<1>5. ASSUME NEW a \in Accounts, a \notin Touched(e)  PROVE Expected(a)' = Expected(a)
  <2>1. ASSUME NEW f \in Events, NEW l \in Legs(f), l[2] = a
        PROVE  Passed(f, l[1])' <=> Passed(f, l[1])
    <3>1. CASE f # e  BY <1>1, <1>2, <3>1 DEF Passed, Steps
    <3>2. CASE f = e
      <4>1. ~ Passed(e, l[1])  BY <1>5, <2>1, <3>2 DEF Touched
      <4>2. ~ Passed(e, l[1])'
        <5>1. 1 .. (pc'[e] - 1) = {}  BY <1>2
        <5> QED BY <5>1 DEF Passed
      <4> QED BY <3>2, <4>1, <4>2
    <3> QED BY <3>1, <3>2
  <2> QED BY <1>1, <2>1, ExpectedSame
<1>6. \A b : Shown(b)' = Shown(b)  BY <1>1 DEF db, Shown, PointsShown, StakeShown, CardShown
<1>7. \A f \in Events : f # e => \A b : Holds(f, b)' => Holds(f, b)  BY <1>3 DEF Holds
<1>8. Accounted(e)  BY <1>4, <1>5, <1>6, <1>7 DEF Accounted, Untouched
<1>9. \A b : ~ Holds(e, b)'  BY <1>3 DEF Holds
<1> QED BY <1>8, <1>9 DEF Right

(* A job that gives its event up has counted none. *)
LEMMA PoolUnknownExact ==
  ASSUME Known, Exact, NEW e \in Events, Right(e), PoolUnknown(e)
  PROVE  Accounted(e) /\ Right(e)'
<1>1. Happened(e) /\ Now(e) = "findPool"  BY AtNow DEF PoolUnknown
<1>2. LTypes /\ StepKinds(e) /\ chain \in Chains  BY KindsOfSteps DEF Known, LTypes, ChainTypes
<1>3. /\ pc' = [pc EXCEPT ![e] = End(e)] /\ held' = [held EXCEPT ![e] = <<>>]
      /\ ignored' = ignored \union {e}
      /\ UNCHANGED <<chain, points, stakes, cards, lost, doubled, guessed, late>>
  BY DEF PoolUnknown, db
<1>4. held'[e] = <<>>
      /\ \A f \in Events : f # e => pc'[f] = pc[f] /\ held'[f] = held[f]
  BY <1>2, <1>3 DEF LTypes, PcTypes, HeldTypes
<1>5. \A s \in LegSteps : ~ Passed(e, s)
  <2>1. PICK p \in 1 .. End(e) : p = pc[e] /\ StepAt(e, p) = "findPool"
    BY <1>1, <1>2 DEF LTypes, PcTypes, Now
  <2>2. CASE chain[e].kind = "claim"
    <3>1. p = 1  BY <2>1, <2>2, Programs
    <3>2. 1 .. (pc[e] - 1) = {}  BY <2>1, <3>1
    <3> QED BY <3>2 DEF Passed
  <2>3. CASE chain[e].kind = "join"
    <3>1. p = 2  BY <2>1, <2>3, Programs
    <3>2. 1 .. (pc[e] - 1) = {1}  BY <2>1, <3>1
    <3>3. Steps(e)[1] = "getUser"  BY <2>3 DEF Steps, Program
    <3> QED BY <3>2, <3>3 DEF Passed, LegSteps
  <2> QED BY <1>1, <1>2, <2>2, <2>3 DEF StepKinds
<1>6. \A a \in Accounts : Expected(a)' = Expected(a)
  <2> TAKE a \in Accounts
  <2>1. ASSUME NEW f \in Events, NEW l \in Legs(f), l[2] = a
        PROVE  Passed(f, l[1])' <=> Passed(f, l[1])
    <3>1. CASE f # e  BY <1>3, <1>4, <3>1 DEF Passed, Steps
    <3>2. CASE f = e
      <4>1. ~ Passed(e, l[1])  BY <1>2, <1>5, <3>2, LegNow
      <4>2. ~ Passed(e, l[1])'  BY <1>3 DEF Passed
      <4> QED BY <3>2, <4>1, <4>2
    <3> QED BY <3>1, <3>2
  <2> QED BY <1>2, <1>3, <2>1, ExpectedSame
<1>7. \A b : Shown(b)' = Shown(b)  BY <1>3 DEF Shown, PointsShown, StakeShown, CardShown
<1>8. \A f \in Events : f # e => \A b : Holds(f, b)' => Holds(f, b)  BY <1>4 DEF Holds
<1>9. Excused' = Excused  BY <1>3 DEF Excused
<1>10. Accounted(e)  BY <1>6, <1>7, <1>8, <1>9 DEF Accounted, Untouched
<1>11. \A b : ~ Holds(e, b)'  BY <1>4 DEF Holds
<1> QED BY <1>10, <1>11 DEF Right

(* The chain's answer is the sum, and the job's own leg, when nothing is outstanding. *)
LEMMA AnswerExact ==
  ASSUME Known, NEW e \in Events, Happened(e), Now(e) # "end", NEW a \in Accounts,
         \A el \in OnChain(a) : Passed(el[1], el[2][1]) \/ (el[1] = e /\ el[2][1] = Now(e))
  PROVE  Total(OnChain(a)) = IF Now(e) \in LegSteps /\ Leg(e)[2] = a
                             THEN Expected(a) + Leg(e)[3] ELSE Expected(a)
<1>1. LTypes /\ chain \in Chains  BY DEF Known, LTypes, ChainTypes
<1>2. PICK S : S = {el \in LegsOn(a) : Passed(el[1], el[2][1])}  OBVIOUS
<1>3. Expected(a) = Total(S) /\ Expected(a) \in Int  BY <1>1, <1>2, ExpectedType DEF Expected
<1>4. S \subseteq OnChain(a)
  <2>1. ASSUME NEW f \in Events, NEW s, Passed(f, s)  PROVE f <= mined
    <3>1. pc[f] # 1
      <4>1. pc[f] = 1 => 1 .. (pc[f] - 1) = {}  OBVIOUS
      <4> QED BY <2>1, <4>1 DEF Passed
    <3>2. ~ (f > mined)  BY <3>1 DEF Known, JobKnown, PlaceKnown
    <3>3. f \in Int /\ mined \in Int  BY <1>1, EventFacts DEF LTypes, ChainTypes
    <3> QED BY <3>2, <3>3
  <2>2. \A el \in LegsOn(a) : el[1] \in Events  BY <1>1, LegsOnFacts
  <2> QED BY <1>2, <2>1, <2>2 DEF OnChain
<1>5. \A el \in LegsOn(a) : el[1] = e /\ el[2][1] = Now(e) =>
         Now(e) \in LegSteps /\ el = <<e, Leg(e)>> /\ Leg(e)[2] = a
  BY <1>1, LegsOnFacts, LegNow
<1>6. OnChain(a) \subseteq LegsOn(a)  BY DEF OnChain
<1>7. CASE Now(e) \in LegSteps /\ Leg(e)[2] = a
  <2>0. Leg(e) \in Legs(e) /\ Leg(e)[1] = Now(e) /\ Leg(e)[2] = a  BY <1>1, <1>7, LegNow
  <2>1. PICK l \in Legs(e) : l = Leg(e)  BY <2>0
  <2>2. PICK x : x = <<e, l>>  OBVIOUS
  <2>8. x[1] = e /\ x[2] = l  BY <2>2
  <2>3. x \in OnChain(a)  BY <1>1, <2>0, <2>1, <2>2, <2>8, LegsOnFacts DEF OnChain, Happened
  <2>4. x \notin S
    <3>1. pc[e] # End(e)  BY DEF Now, StepAt
    <3> QED BY <1>1, <1>2, <2>0, <2>1, <2>8, <3>1, NotPassedYet
  <2>5. OnChain(a) \ {x} = S  BY <1>2, <1>4, <1>5, <1>6, <2>0, <2>1, <2>2, <2>3, <2>4
  <2>6. Amounts(OnChain(a))  BY <1>1, OnChainType
  <2>7. Total(OnChain(a)) = x[2][3] + Total(S) /\ x[2][3] \in Int
    BY <2>3, <2>5, <2>6, TotalWithout DEF Amounts
  <2> QED BY <1>3, <1>7, <2>1, <2>8, <2>7
<1>8. CASE ~ (Now(e) \in LegSteps /\ Leg(e)[2] = a)
  <2>1. OnChain(a) = S  BY <1>2, <1>4, <1>5, <1>6, <1>8
  <2> QED BY <1>3, <1>8, <2>1
<1> QED BY <1>7, <1>8

(* A job that asks the chain for a user's points: unless events about the user are
   outstanding, the answer is the sum, with the job's own leg. *)
LEMMA AskChainExact ==
  ASSUME Known, NEW e \in Events, Right(e), AskChain(e)
  PROVE  Accounted(e) /\ Right(e)'
<1>1. Happened(e)  BY DEF AskChain
<1>2. LTypes /\ chain \in Chains /\ JobKnown(e) /\ StepKinds(e)
  BY KindsOfSteps DEF Known, LTypes, ChainTypes
<1>3. User(e) = Payer(e) /\ Payer(e) \in Users  BY <1>1, <1>2, UserIsPayer, EventType
<1>4. PICK a \in Accounts : a = PointsOf(Payer(e))  BY <1>3 DEF Accounts
<1>5. /\ UNCHANGED <<chain, pc, held, points, stakes, cards, ignored, lost, doubled, late>>
      /\ mem' = [mem EXCEPT ![e].new = Total(OnChain(a))]
  BY <1>3, <1>4 DEF AskChain, db, OnChain
<1>6. guessed \subseteq guessed'
      /\ (a \notin guessed' =>
            \A el \in OnChain(a) : Passed(el[1], el[2][1]) \/ (el[1] = e /\ At(e, {el[2][1]})))
  BY <1>3, <1>4 DEF AskChain, OnChain
<1>7. mem'[e].new = Total(OnChain(a)) /\ mem'[e].user = mem[e].user /\ mem'[e].stake = mem[e].stake
      /\ mem'[e].card = mem[e].card /\ mem'[e].fromCard = mem[e].fromCard
  BY <1>2, <1>5 DEF LTypes, MemTypes, Mem
<1>8. Excused \subseteq Excused' /\ \A b \in Accounts : Untouched(b)
  <2>1. \A f \in Events : \A s : Passed(f, s)' <=> Passed(f, s)  BY <1>5 DEF Passed, Steps
  <2>2. \A b \in Accounts : Expected(b)' = Expected(b)  BY <1>2, <1>5, <2>1, ExpectedSame
  <2>3. \A b : Shown(b)' = Shown(b)  BY <1>5 DEF Shown, PointsShown, StakeShown, CardShown
  <2> QED BY <1>5, <1>6, <2>2, <2>3 DEF Untouched, Excused
<1>9. \A f \in Events : \A b : Holds(f, b)' <=> Holds(f, b)  BY <1>5 DEF Holds
<1>10. Accounted(e)  BY <1>8, <1>9 DEF Accounted
<1>11. Now(e)' = Now(e)  BY <1>5 DEF Now, StepAt, Steps, End
<1>12. ASSUME a \notin Excused',
              Now(e) \in {"writeFrom", "writeTo", "createFromUser", "createToUser"}
       PROVE  /\ Now(e) = "writeFrom" => mem'[e].new = Expected(a) - chain[e].points
              /\ Now(e) = "writeTo" => mem'[e].new = Expected(a) + chain[e].points
              /\ Now(e) \in {"createFromUser", "createToUser"} => mem'[e].new = Expected(a)
  <2>1. \A el \in OnChain(a) :
           Passed(el[1], el[2][1]) \/ (el[1] = e /\ At(e, {el[2][1]}))
    BY <1>6, <1>12 DEF Excused
  <2>2. \A s : s # "end" => (At(e, {s}) <=> Now(e) = s)  BY <1>1, AtNow
  <2>3. ASSUME NEW el \in OnChain(a)  PROVE el[2][1] \in LegSteps
    <3>1. el[1] \in Events /\ el[2] \in Legs(el[1])  BY <1>2, <2>3, LegsOnFacts DEF OnChain
    <3>2. PICK f \in Events : f = el[1]  BY <3>1
    <3> QED BY <1>2, <3>1, <3>2, LegNow
  <2>4. \A el \in OnChain(a) : Passed(el[1], el[2][1]) \/ (el[1] = e /\ el[2][1] = Now(e))
    BY <2>1, <2>2, <2>3 DEF LegSteps
  <2>5. Now(e) # "end"  BY <1>12
  <2>6. Total(OnChain(a)) = IF Now(e) \in LegSteps /\ Leg(e)[2] = a
                            THEN Expected(a) + Leg(e)[3] ELSE Expected(a)
    BY <1>1, <2>4, <2>5, AnswerExact
  <2>7. Expected(a) \in Int  BY <1>2, ExpectedType
  <2>8. chain[e].points \in Int  BY <1>2, EventType
  <2>9. /\ Now(e) = "writeFrom" => Leg(e)[2] = a /\ Leg(e)[3] = - chain[e].points
        /\ Now(e) = "writeTo" => Leg(e)[2] = a /\ Leg(e)[3] = chain[e].points
    BY <1>2, <1>4 DEF Leg, Payer, StepKinds
  <2> QED BY <1>7, <2>6, <2>7, <2>8, <2>9 DEF LegSteps
<1>13. ASSUME NEW b \in Accounts, Holds(e, b)', b \notin Excused'
       PROVE  Matches(e, b, Expected(b))'
  <2>1. PICK x : x = Expected(b) /\ x = Expected(b)'  BY <1>8 DEF Untouched
  <2>2. Holds(e, b) /\ b \notin Excused  BY <1>8, <1>9, <1>13
  <2>3. Matches(e, b, x)  BY <2>1, <2>2 DEF Right
  <2>4. MayHold(e, b)  BY <1>2, <2>2 DEF Holds, JobKnown, HeldKnown
  <2>5. CASE Now(e) \in {"writeFrom", "writeTo", "createFromUser", "createToUser"}
    <3>1. b = a  BY <1>2, <1>4, <2>4, <2>5 DEF MayHold, Payer, StepKinds
    <3> QED BY <1>5, <1>11, <1>12, <1>13, <2>1, <2>5, <3>1 DEF Matches
  <2>6. CASE Now(e) \notin {"writeFrom", "writeTo", "createFromUser", "createToUser"}
    <3>1. StakeRead(e)' = StakeRead(e) /\ CardRead(mem[e].card)' = CardRead(mem[e].card)
          /\ CardRead(mem[e].fromCard)' = CardRead(mem[e].fromCard)
      BY <1>7 DEF StakeRead, CardRead
    <3> QED BY <1>5, <1>7, <1>11, <2>1, <2>3, <2>6, <3>1 DEF Matches, PointsOf, StakeOf, CardOf
  <2> QED BY <2>5, <2>6
<1>14. Accounts' = Accounts /\ Events' = Events  BY <1>5 DEF Accounts, Events, PointsOf, StakeOf, CardOf
<1> QED BY <1>10, <1>13, <1>14 DEF Right

(* Every step of a job keeps the documents exact and the jobs right. *)
LEMMA JobsExact ==
  ASSUME Known, Exact, \A f \in Events : Right(f), NEW e \in Events,
         Job(e) \/ PoolUnknown(e) \/ Fail(e) \/ Redeliver(e)
  PROVE  Exact' /\ \A f \in Events : Right(f)'
<1>1. Alone(e)  BY JobsKnown
<1>2. PointSteps(e) => Accounted(e) /\ Right(e)'
  BY ReadUserExact, FindUserExact, AskChainExact, WriteUserExact DEF PointSteps
<1>3. FuelSteps(e) => Accounted(e) /\ Right(e)'
  BY GetUserExact, SaveUserExact, SavePoolExact, FindStakeExact, SaveStakeExact, RestartExact
     DEF FuelSteps, Restarting
<1>4. CardSteps(e) => Accounted(e) /\ Right(e)'
  BY FindCardExact, FindFromCardExact, AddToCardExact, SkipCardExact, SetCardExact,
     TakeFromCardExact, LastStepsExact, RestartExact
     DEF CardSteps, Restarting
<1>5. Accounted(e) /\ Right(e)'
  BY <1>2, <1>3, <1>4, LastStepsExact, PoolUnknownExact, RestartExact DEF Job, Restarting
<1> QED BY <1>1, <1>5, ExactStep

(* At the start nothing is shown and nothing is expected. *)
LEMMA StartsExact ==
  ASSUME Init
  PROVE  Exact /\ \A e \in Events : Right(e)
<1>1. chain \in Chains /\ \A e \in Events : pc[e] = 1 /\ held[e] = <<>>  BY DEF Init
<1>2. \A a : Shown(a) = 0  BY DEF Init, Shown, PointsShown, StakeShown, CardShown
<1>3. ASSUME NEW a \in Accounts  PROVE Expected(a) = 0
  <2>1. \A el \in LegsOn(a) : ~ Passed(el[1], el[2][1])
    <3> TAKE el \in LegsOn(a)
    <3>1. pc[el[1]] = 1  BY <1>1, LegsOnFacts
    <3>2. 1 .. (pc[el[1]] - 1) = {}  BY <3>1
    <3> QED BY <3>2 DEF Passed
  <2>2. PICK S : S = {el \in LegsOn(a) : Passed(el[1], el[2][1])}  OBVIOUS
  <2>3. S = {} /\ IsFiniteSet(S)  BY <2>1, <2>2, FS_EmptySet
  <2>4. Total(S) = 0  BY <2>3, TotalFacts
  <2> QED BY <2>2, <2>4 DEF Expected
<1>4. \A e \in Events : \A a : ~ Holds(e, a)  BY <1>1 DEF Holds
<1> QED BY <1>2, <1>3, <1>4 DEF Exact, Right

(* What nothing but the chain changes stays exact. *)
LEMMA StillExact ==
  ASSUME Known, Exact, \A e \in Events : Right(e),
         UNCHANGED <<chain, points, stakes, cards, pc, mem, held, causes>>
  PROVE  Exact' /\ \A e \in Events : Right(e)'
<1>1. LTypes /\ chain \in Chains  BY DEF Known, LTypes, ChainTypes
<1>2. Excused' = Excused /\ ignored' = ignored  BY DEF Excused, causes
<1>3. \A f \in Events : \A s : Passed(f, s)' <=> Passed(f, s)  BY <1>2 DEF Passed, Steps
<1>4. \A a \in Accounts : Expected(a)' = Expected(a)  BY <1>1, <1>3, ExpectedSame
<1>5. \A a : Shown(a)' = Shown(a)  BY DEF Shown, PointsShown, StakeShown, CardShown
<1>6. Accounts' = Accounts /\ Events' = Events  BY DEF Accounts, Events, PointsOf, StakeOf, CardOf
<1>7. ASSUME NEW a \in Accounts  PROVE a \in Excused' \/ Shown(a)' = Expected(a)'
  BY <1>2, <1>4, <1>5 DEF Exact
<1>8. ASSUME NEW e \in Events, NEW a \in Accounts, Holds(e, a)', a \notin Excused'
      PROVE  Matches(e, a, Expected(a))'
  <2>1. PICK x : x = Expected(a) /\ x = Expected(a)'  BY <1>4
  <2>2. Matches(e, a, x)  BY <1>2, <1>8, <2>1 DEF Right, Holds
  <2>3. Matches(e, a, x)'  BY <2>2, MatchesElsewhere
  <2> QED BY <2>1, <2>3
<1> QED BY <1>6, <1>7, <1>8 DEF Exact, Right

(* All of it together. *)
Correct == Known /\ Exact /\ \A e \in Events : Right(e)

(* The inductive invariant of the sums: the documents show what the events passed make
   them, and each job has read what the documents show, but for the excused accounts. *)
THEOREM StaysCorrect == Spec => []Correct
<1>1. Init => Correct  BY StartsKnown, StartsExact DEF Correct
<1>2. Correct /\ [Next]_vars => Correct'
  <2> SUFFICES ASSUME Correct, [Next]_vars PROVE Correct'  OBVIOUS
  <2>1. Known'  BY StaysKnown DEF Correct
  <2>2. CASE Mine
    <3>1. UNCHANGED <<chain, points, stakes, cards, pc, mem, held, causes>>  BY <2>2 DEF Mine, db
    <3> QED BY <2>1, <3>1, StillExact DEF Correct, Events
  <2>3. CASE \E e \in Events : Job(e) \/ PoolUnknown(e) \/ Fail(e) \/ Redeliver(e)
    <3>1. PICK e \in Events : Job(e) \/ PoolUnknown(e) \/ Fail(e) \/ Redeliver(e)  BY <2>3
    <3>2. Exact' /\ \A f \in Events : Right(f)'  BY <3>1, JobsExact DEF Correct
    <3>3. Events' = Events  BY <3>1, JobsKnown DEF Correct, Alone, Events
    <3> QED BY <2>1, <3>2, <3>3 DEF Correct
  <2>4. CASE UNCHANGED vars
    <3>1. UNCHANGED <<chain, points, stakes, cards, pc, mem, held, causes>>  BY <2>4 DEF vars, db
    <3> QED BY <2>1, <3>1, StillExact DEF Correct, Events
  <2> QED BY <2>2, <2>3, <2>4 DEF Next
<1> QED BY <1>1, <1>2, PTL DEF Spec

(* A user's points are what the handled events make them, but for three causes: a document
   held by two jobs, a job that started over after writing, the chain asked while events
   were outstanding (userpoint.service.ts:57-103, fuel.service.ts:136-137, 200-202). *)
THEOREM PointsCorrect == Spec => []PointsExact
<1>1. Correct => PointsExact
  <2> SUFFICES ASSUME Correct, NEW u \in Users, PointsOf(u) \notin Excused
               PROVE  PointsShown(u) = Expected(PointsOf(u))
    BY DEF PointsExact, PointsShown
  <2>1. PointsOf(u) \in Accounts  BY DEF Accounts
  <2> QED BY <2>1, ShownOf DEF Correct, Exact
<1> QED BY <1>1, StaysCorrect, PTL

(* The same of the stakes, which decide the draw (fuel.service.ts:139-158). *)
THEOREM StakesCorrect == Spec => []StakesExact
<1>1. Correct => StakesExact
  <2> SUFFICES ASSUME Correct, NEW p \in Pools, NEW u \in Users, StakeOf(p, u) \notin Excused
               PROVE  StakeShown(p, u) = Expected(StakeOf(p, u))
    BY DEF StakesExact, StakeShown
  <2>1. StakeOf(p, u) \in Accounts  BY DEF Accounts
  <2> QED BY <2>1, ShownOf DEF Correct, Exact
<1> QED BY <1>1, StaysCorrect, PTL

(* The same of the amounts of cards (cards.service.ts:65-86, 133-157). *)
THEOREM CardsCorrect == Spec => []CardsExact
<1>1. Correct => CardsExact
  <2> SUFFICES ASSUME Correct, NEW c \in FiledCards, NEW u \in Users, CardOf(c, u) \notin Excused
               PROVE  CardShown(c, u) = Expected(CardOf(c, u))
    BY DEF CardsExact, CardShown
  <2>1. CardOf(c, u) \in Accounts  BY DEF Accounts
  <2> QED BY <2>1, ShownOf DEF Correct, Exact
<1> QED BY <1>1, StaysCorrect, PTL
=============================================================================
