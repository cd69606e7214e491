-------------------------- MODULE BliztClientsProofs --------------------------
(***************************************************************************)
(* Theorems about BliztClients, for any users, sockets and number of calls *)
(* of startBlizt: the list of clients stays consistent, a client that is   *)
(* said to be working is worked for, and whoever is minted for can stop    *)
(* it.                                                                     *)
(***************************************************************************)
EXTENDS BliztClients, FiniteSetTheorems, WellFoundedInduction, TLAPS

UserOf(c) == Owner[socket[c]]
Caller(t) == Owner[caller[t]]

(* A call has a connected caller, and no client before it has made or found one,
   which is its user's; each client was made by a call, which keeps it. *)
CallerConnected == \A t \in Calls : pc[t] # "new" => conn[caller[t]] # "new"
NoClientYet == \A t \in Calls : pc[t] \in {"new", "balance"} => client[t] = 0
ClientOfCaller == \A t \in Calls : client[t] # 0 => UserOf(client[t]) = Caller(t)
ClientHasMaker == \A c \in 1 .. made : \E t \in Calls : client[t] = c
CallInv == CallerConnected /\ NoClientYet /\ ClientOfCaller /\ ClientHasMaker

IInv == TypeOK /\ CallInv

(* Of a user who is not hasty there is one active call and one client in the list:
   the call's own, or none until the call makes it. *)
OneCall ==
  \A t, k \in Calls : Active(t) /\ Active(k) /\ Caller(t) = Caller(k)
                        => t = k \/ Caller(t) \in hasty
OneClient ==
  \A c, d \in sockets : UserOf(c) = UserOf(d) => c = d \/ UserOf(c) \in hasty
OwnClient ==
  \A t \in Calls : Active(t) =>
    \/ Caller(t) \in hasty
    \/ IF client[t] = 0 THEN \A c \in sockets : UserOf(c) # Caller(t)
                        ELSE client[t] \in sockets

StopInv == OneCall /\ OneClient /\ OwnClient
-----------------------------------------------------------------------------
USE DEF vars, list, call, Calls, Clients

(* A set of natural numbers that is not empty has a least element. *)
LEMMA LeastNatural ==
  ASSUME NEW S \in SUBSET Nat, S # {}
  PROVE  \E c \in S : \A d \in S : c <= d
<1> DEFINE Less == {p \in Nat \X Nat : p[1] < p[2]}
<1>1. IsWellFoundedOn(Less, Nat)
  BY NatLessThanWellFounded DEF OpToRel
<1> HIDE DEF Less
<1>2. \E c \in S : \A d \in S : <<d, c>> \notin Less
  BY <1>1, WFMin
<1>3. \A c, d \in Nat : <<d, c>> \notin Less => c <= d
  BY DEF Less
<1> QED
  BY <1>2, <1>3, \A c \in S : c \in Nat

(* find(): 0 if no client fits, and otherwise one that does. *)
LEMMA FirstIsLeast ==
  ASSUME NEW S \in SUBSET (Nat \ {0})
  PROVE  /\ S = {} => First(S) = 0
         /\ S # {} => First(S) \in S /\ First(S) # 0
<1>1. CASE S = {}
  BY <1>1 DEF First
<1>2. CASE S # {}
  <2>1. \E c \in S : \A d \in S : c <= d
    BY <1>2, LeastNatural
  <2> QED
    BY <1>2, <2>1 DEF First
<1> QED
  BY <1>1, <1>2

(* Clients are numbers. *)
LEMMA Numbers ==
  ASSUME TypeOK
  PROVE  /\ made \in Nat /\ made <= MaxCalls
         /\ \A c \in 1 .. made : c \in Nat \ {0} /\ c \in Clients /\ c \in 0 .. made
         /\ \A c \in sockets : c \in 1 .. made
<1>1. made \in Nat /\ made <= MaxCalls /\ MaxCalls \in Nat
  BY BliztAssumption DEF TypeOK
<1>2. sockets \subseteq 1 .. made
  BY DEF TypeOK
<1> QED
  BY <1>1, <1>2

(* What the two searches of the list find. *)
LEMMA Found ==
  ASSUME TypeOK, NEW s \in Sockets
  PROVE  /\ ClientOf(s) = 0 => \A c \in sockets : socket[c] # s
         /\ ClientOf(s) # 0 => ClientOf(s) \in sockets /\ socket[ClientOf(s)] = s
<1> DEFINE S == {c \in sockets : socket[c] = s}
<1>1. S \in SUBSET (Nat \ {0})
  <2>1. \A c \in sockets : c \in Nat \ {0}
    BY Numbers
  <2> QED
    BY <2>1
<1>2. /\ S = {} => First(S) = 0
      /\ S # {} => First(S) \in S /\ First(S) # 0
  BY ONLY <1>1, FirstIsLeast
<1> QED
  BY <1>2, ClientOf(s) = First(S) DEF ClientOf
LEMMA FoundOfUser ==
  ASSUME TypeOK, NEW u \in Users
  PROVE  /\ ClientOfUser(u) = 0 => \A c \in sockets : UserOf(c) # u
         /\ ClientOfUser(u) # 0 => ClientOfUser(u) \in sockets /\ UserOf(ClientOfUser(u)) = u
<1> DEFINE S == {c \in sockets : Owner[socket[c]] = u}
<1>1. S \in SUBSET (Nat \ {0})
  <2>1. \A c \in sockets : c \in Nat \ {0}
    BY Numbers
  <2> QED
    BY <2>1
<1>2. /\ S = {} => First(S) = 0
      /\ S # {} => First(S) \in S /\ First(S) # 0
  BY ONLY <1>1, FirstIsLeast
<1> QED
  BY <1>2, ClientOfUser(u) = First(S) DEF ClientOfUser, UserOf

(* A call that has no client leaves a number for the client it makes: there are as
   many numbers as calls, and the clients made so far belong to other calls. *)
LEMMA RoomForClient ==
  ASSUME IInv, NEW t \in Calls, client[t] = 0
  PROVE  made < MaxCalls
<1> DEFINE S == {k \in Calls : client[k] # 0}
           f == [k \in S |-> client[k]]
<1>1. IsFiniteSet(Calls) /\ Cardinality(Calls) = MaxCalls
  BY FS_Interval, BliztAssumption
<1>2. S \in SUBSET Calls /\ S # Calls
  OBVIOUS
<1>3. IsFiniteSet(S) /\ Cardinality(S) <= MaxCalls /\ Cardinality(S) # MaxCalls
  BY <1>1, <1>2, FS_Subset
<1>4. Cardinality(S) \in Nat
  BY <1>3, FS_CardinalityType
<1>5. f \in Surjection(S, 1 .. made)
  <2>1. \A k \in S : client[k] \in 1 .. made
    BY DEF IInv, TypeOK
  <2>2. \A c \in 1 .. made : \E k \in S : client[k] = c
    BY DEF IInv, CallInv, ClientHasMaker
  <2> QED
    BY <2>1, <2>2 DEF Surjection
<1>6. Cardinality(1 .. made) <= Cardinality(S)
  BY <1>3, <1>5, FS_Surjection
<1>7. made \in Nat /\ Cardinality(1 .. made) = made
  BY FS_Interval DEF IInv, TypeOK
<1> QED
  BY <1>3, <1>4, <1>6, <1>7, BliztAssumption
-----------------------------------------------------------------------------
(* IInv is inductive: one lemma for each action that does more to it than to move
   a call. *)
LEMMA ConnectKeeps ==
  ASSUME IInv, NEW s \in Sockets, Connect(s)
  PROVE  IInv'
<1>1. Owner[s] \in Users
  BY BliztAssumption
<1> DEFINE c == ClientOfUser(Owner[s])
<1>2. c # 0 => c \in sockets /\ UserOf(c) = Owner[s]
  BY <1>1, FoundOfUser DEF IInv
<1>3. /\ conn' = [conn EXCEPT ![s] = "open"]
      /\ socket' = IF c = 0 THEN socket ELSE [socket EXCEPT ![c] = s]
      /\ UNCHANGED <<sockets, status, made, call, thrown, hasty>>
  BY DEF Connect
<1> HIDE DEF c
<1> USE DEF IInv, TypeOK
<1>4. TypeOK'
  <2>1. socket' \in [Clients -> Sockets] /\ conn' \in [Sockets -> {"new", "open", "closed"}]
    BY <1>3
  <2>2. \A d \in sockets : conn'[socket'[d]] # "new"
    BY <1>3, <2>1, BliztAssumption
  <2> QED
    BY <1>3, <2>1, <2>2
<1>5. CallerConnected'
  BY <1>3 DEF CallInv, CallerConnected
<1>6. \A d \in Clients : UserOf(d)' = UserOf(d)
  BY <1>2, <1>3 DEF UserOf
<1>7. ClientOfCaller'
  BY <1>3, <1>6, BliztAssumption DEF CallInv, ClientOfCaller, Caller
<1>8. NoClientYet' /\ ClientHasMaker'
  BY <1>3 DEF CallInv, NoClientYet, ClientHasMaker
<1> QED
  BY <1>4, <1>5, <1>7, <1>8 DEF CallInv

LEMMA StartMintKeeps ==
  ASSUME IInv, NEW s \in Sockets, NEW t \in Calls, StartMint(s, t)
  PROVE  IInv'
<1> DEFINE c == ClientOf(s)
<1>1. c # 0 => c \in sockets /\ socket[c] = s
  BY Found DEF IInv
<1>2. /\ conn[s] = "open" /\ pc[t] = "new"
      /\ pc' = [pc EXCEPT ![t] = "lookup"]
      /\ caller' = [caller EXCEPT ![t] = s] /\ client' = [client EXCEPT ![t] = c]
      /\ hasty' \in {hasty, hasty \union {Owner[s]}}
      /\ UNCHANGED <<conn, list, thrown>>
  BY DEF StartMint, Goto
<1>3. client[t] = 0 /\ Owner[s] \in Users
  BY <1>2, BliztAssumption DEF IInv, CallInv, NoClientYet
<1> HIDE DEF c
<1>4. c \in 0 .. made
  BY <1>1, Numbers DEF IInv
<1> USE DEF IInv, TypeOK
<1>5. TypeOK'
  BY <1>2, <1>3, <1>4
<1>6. CallerConnected' /\ NoClientYet'
  BY <1>2 DEF CallInv, CallerConnected, NoClientYet
<1>7. ClientOfCaller'
  BY <1>1, <1>2 DEF CallInv, ClientOfCaller, UserOf, Caller
<1>8. ClientHasMaker'
  BY <1>2, <1>3 DEF CallInv, ClientHasMaker
<1> QED
  BY <1>5, <1>6, <1>7, <1>8 DEF CallInv

LEMMA AddClientKeeps ==
  ASSUME IInv, NEW t \in Calls, AddClient(t)
  PROVE  IInv'
<1>1. /\ pc[t] = "balance" /\ made' = made + 1
      /\ sockets' = sockets \union {made'}
      /\ status' = [status EXCEPT ![made'] = "started"]
      /\ socket' = [socket EXCEPT ![made'] = caller[t]]
      /\ client' = [client EXCEPT ![t] = made']
      /\ pc' = [pc EXCEPT ![t] = "measure"]
      /\ UNCHANGED <<conn, caller, thrown, hasty>>
  BY DEF AddClient, Goto
<1>2. client[t] = 0 /\ conn[caller[t]] # "new"
  BY <1>1 DEF IInv, CallInv, NoClientYet, CallerConnected
<1>3. made < MaxCalls
  BY <1>2, RoomForClient
<1> USE DEF IInv, TypeOK
<1>4. made' \in Clients /\ made \in Nat /\ made' \in 0 .. MaxCalls /\ made' # 0
  BY <1>1, <1>3, BliztAssumption
<1>5. \A c \in sockets : c # made'
  BY <1>1, <1>4
<1>6. TypeOK'
  <2>1. sockets' \subseteq 1 .. made' /\ thrown' \subseteq 1 .. made'
    BY <1>1, <1>4
  <2>2. client' \in [Calls -> 0 .. made'] /\ socket' \in [Clients -> Sockets]
    BY <1>1, <1>4
  <2>3. \A c \in sockets' : conn'[socket'[c]] # "new"
    BY <1>1, <1>2, <1>4, <1>5
  <2>4. /\ status' \in [Clients -> {"none", "started", "stopped", "balance_low"}]
        /\ pc' \in [Calls -> {"new", "lookup", "balance", "measure", "receipt", "ended"}]
        /\ \A k \in Calls : pc'[k] \in {"measure", "receipt"} => client'[k] # 0
    BY <1>1, <1>4
  <2> QED
    BY <1>1, <1>4, <2>1, <2>2, <2>3, <2>4
<1>7. CallerConnected' /\ NoClientYet'
  BY <1>1 DEF CallInv, CallerConnected, NoClientYet
<1>8. ClientOfCaller'
  <2>1. \A k \in Calls : client[k] # made'
    BY <1>1, <1>4
  <2> QED
    BY <1>1, <1>4, <2>1 DEF CallInv, ClientOfCaller, UserOf, Caller
<1>9. ClientHasMaker'
  BY <1>1, <1>2, <1>4 DEF CallInv, ClientHasMaker
<1> QED
  BY <1>6, <1>7, <1>8, <1>9 DEF CallInv

LEMMA BalanceLowKeeps ==
  ASSUME IInv, NEW t \in Calls, BalanceLow(t)
  PROVE  IInv'
<1>1. caller[t] \in Sockets /\ client[t] \in Clients
  BY BliztAssumption DEF BalanceLow, IInv, TypeOK
<1>2. ClientOf(caller[t]) # 0 => ClientOf(caller[t]) \in Clients
  BY <1>1, Found, Numbers DEF IInv
<1>3. /\ status' \in [Clients -> {"none", "started", "stopped", "balance_low"}]
      /\ sockets' \subseteq sockets
      /\ pc' = [pc EXCEPT ![t] = "ended"]
      /\ UNCHANGED <<conn, socket, made, caller, client, thrown, hasty>>
  BY <1>1, <1>2 DEF BalanceLow, Goto, IInv, TypeOK
<1>4. pc[t] = "measure"
  BY DEF BalanceLow
<1>5. TypeOK'
  BY <1>3 DEF IInv, TypeOK
<1>6. CallerConnected' /\ NoClientYet'
  BY <1>3, <1>4 DEF IInv, TypeOK, CallInv, CallerConnected, NoClientYet
<1>7. ClientOfCaller' /\ ClientHasMaker'
  BY <1>3 DEF IInv, CallInv, ClientOfCaller, ClientHasMaker, UserOf, Caller
<1> QED
  BY <1>5, <1>6, <1>7 DEF IInv, CallInv

(* A step of a call that changes no more than where it is. *)
LEMMA MoveKeeps ==
  ASSUME IInv, NEW t \in Calls, NEW l \in {"balance", "measure", "receipt", "ended"},
         pc[t] \notin {"new"}, Goto(t, l),
         l = "balance" => client[t] = 0, l \in {"measure", "receipt"} => client[t] # 0,
         UNCHANGED <<conn, sockets, socket, made, caller, client, hasty>>,
         status' \in [Clients -> {"none", "started", "stopped", "balance_low"}],
         thrown' \subseteq 1 .. made
  PROVE  IInv'
<1>1. pc' \in [Calls -> {"new", "lookup", "balance", "measure", "receipt", "ended"}]
  BY DEF IInv, TypeOK, Goto
<1>2. TypeOK'
  BY <1>1 DEF IInv, TypeOK, Goto
<1>3. CallerConnected' /\ NoClientYet'
  BY DEF IInv, TypeOK, CallInv, CallerConnected, NoClientYet, Goto
<1>4. ClientOfCaller' /\ ClientHasMaker'
  BY DEF IInv, CallInv, ClientOfCaller, ClientHasMaker, UserOf, Caller
<1> QED
  BY <1>2, <1>3, <1>4 DEF IInv, CallInv

LEMMA IInvInductive == IInv /\ [Next]_vars => IInv'
<1> SUFFICES ASSUME IInv, [Next]_vars PROVE IInv'
  OBVIOUS
<1>1. ASSUME NEW s \in Sockets, Disconnect(s)
      PROVE  IInv'
  BY <1>1 DEF Disconnect, IInv, TypeOK, CallInv, CallerConnected, NoClientYet,
              ClientOfCaller, ClientHasMaker, UserOf, Caller
<1>2. ASSUME NEW s \in Sockets, StopMint(s)
      PROVE  IInv'
  BY <1>2 DEF StopMint, IInv, TypeOK, CallInv, CallerConnected, NoClientYet,
              ClientOfCaller, ClientHasMaker, UserOf, Caller
<1>3. ASSUME NEW t \in Calls, NoAccount(t) \/ AskBalance(t)
      PROVE  IInv'
  BY <1>3, MoveKeeps DEF NoAccount, AskBalance, IInv, TypeOK
<1>4. ASSUME NEW t \in Calls, StartClient(t)
      PROVE  IInv'
  BY <1>4, MoveKeeps DEF StartClient, IInv, TypeOK
<1>5. ASSUME NEW t \in Calls, Execute(t) \/ Minted(t)
      PROVE  IInv'
  BY <1>5, MoveKeeps DEF Execute, Minted, IInv, TypeOK
<1>6. ASSUME NEW t \in Calls, Throws(t)
      PROVE  IInv'
  <2>1. client[t] \in 0 .. made /\ made \in Nat /\ (pc[t] # "balance" => client[t] # 0)
    BY <1>6, Numbers DEF Throws, IInv, TypeOK
  <2>2. client[t] # 0 => client[t] \in 1 .. made
    BY <2>1
  <2>3. thrown' \subseteq 1 .. made
    BY <1>6, <2>1, <2>2 DEF Throws, IInv, TypeOK
  <2> QED
    BY <1>6, <2>3, MoveKeeps DEF Throws, IInv, TypeOK
<1>7. CASE Dies
  BY <1>7 DEF Dies, IInv, TypeOK, CallInv, CallerConnected, NoClientYet,
              ClientOfCaller, ClientHasMaker, UserOf, Caller
<1>8. CASE UNCHANGED vars
  BY <1>8 DEF IInv, TypeOK, CallInv, CallerConnected, NoClientYet, ClientOfCaller,
              ClientHasMaker, UserOf, Caller
<1> QED
  BY <1>1, <1>2, <1>3, <1>4, <1>5, <1>6, <1>7, <1>8, ConnectKeeps, StartMintKeeps,
     AddClientKeeps, BalanceLowKeeps DEF Next, Starting, Minting

LEMMA IInvCorrect == Spec => []IInv
<1>1. Init => IInv
  <2> SUFFICES ASSUME Init PROVE IInv
    OBVIOUS
  <2>1. made = 0 /\ MaxCalls \in Nat /\ sockets = {} /\ thrown = {} /\ hasty = {}
    BY BliztAssumption DEF Init
  <2>2. TypeOK
    BY <2>1 DEF Init, TypeOK
  <2>3. CallInv
    BY <2>1 DEF Init, CallInv, CallerConnected, NoClientYet, ClientOfCaller, ClientHasMaker
  <2> QED
    BY <2>2, <2>3 DEF IInv
<1> QED
  BY <1>1, IInvInductive, PTL DEF Spec

(* Types; a call has a client while it mints, and the list holds clients made, whose
   sockets have been connected. *)
THEOREM TypeCorrect == Spec => []TypeOK
<1>1. IInv => TypeOK
  BY DEF IInv
<1> QED
  BY <1>1, IInvCorrect, PTL
-----------------------------------------------------------------------------
(* A client that is said to be working is worked for, unless an exception ended its
   loop: whoever takes the last loop from a client takes its status too. *)
LEMMA StartedInductive == IInv /\ StartedWorks /\ [Next]_vars => StartedWorks'
<1> SUFFICES ASSUME IInv, StartedWorks, [Next]_vars PROVE StartedWorks'
  OBVIOUS
<1> USE DEF StartedWorks, Runs
<1>1. ASSUME NEW s \in Sockets, Connect(s) \/ Disconnect(s)
      PROVE  StartedWorks'
  BY <1>1 DEF Connect, Disconnect
<1>2. ASSUME NEW s \in Sockets, StopMint(s)
      PROVE  StartedWorks'
  BY <1>2 DEF StopMint, IInv, TypeOK
<1>3. ASSUME NEW s \in Sockets, NEW t \in Calls, StartMint(s, t)
      PROVE  StartedWorks'
  BY <1>3 DEF StartMint, Goto, IInv, TypeOK
<1>4. ASSUME NEW t \in Calls, NoAccount(t) \/ AskBalance(t)
      PROVE  StartedWorks'
  <2>1. pc[t] = "lookup" /\ UNCHANGED <<sockets, status, thrown, client>>
    BY <1>4 DEF NoAccount, AskBalance
  <2>2. \A k \in Calls : k # t => pc'[k] = pc[k]
    <3>1. Goto(t, "ended") \/ Goto(t, "balance")
      BY <1>4 DEF NoAccount, AskBalance
    <3>2. DOMAIN pc = Calls
      BY DEF IInv, TypeOK
    <3> QED
      BY <3>1, <3>2 DEF Goto
  <2>3. \A k \in Calls : pc[k] \in {"measure", "receipt"} => pc'[k] = pc[k]
    BY <2>1, <2>2
  <2> QED
    BY <2>1, <2>3
<1>5. ASSUME NEW t \in Calls, StartClient(t)
      PROVE  StartedWorks'
  BY <1>5 DEF StartClient, Goto, IInv, TypeOK
<1>6. ASSUME NEW t \in Calls, AddClient(t)
      PROVE  StartedWorks'
  BY <1>6 DEF AddClient, Goto, IInv, TypeOK
<1>7. ASSUME NEW t \in Calls, Execute(t)
      PROVE  StartedWorks'
  BY <1>7 DEF Execute, Goto, IInv, TypeOK
<1>8. ASSUME NEW t \in Calls, BalanceLow(t)
      PROVE  StartedWorks'
  <2>1. \A c \in sockets' : status'[c] = "started" => status[c] = "started" /\ c # client[t]
    <3> SUFFICES ASSUME NEW c \in sockets', status'[c] = "started"
                 PROVE  status[c] = "started" /\ c # client[t]
      OBVIOUS
    <3> DEFINE d == ClientOf(caller[t])
               low == [status EXCEPT ![client[t]] = "balance_low"]
    <3>1. status' = IF d = 0 THEN low ELSE [low EXCEPT ![d] = "stopped"]
      BY <1>8 DEF BalanceLow
    <3>2. c \in Clients /\ client[t] \in Clients /\ DOMAIN status = Clients
      <4>1. c \in sockets
        BY <1>8 DEF BalanceLow
      <4>2. c \in Clients
        BY <4>1, Numbers DEF IInv
      <4>3. client[t] \in Clients
        BY <1>8, BliztAssumption DEF BalanceLow, IInv, TypeOK
      <4> QED
        BY <4>2, <4>3 DEF IInv, TypeOK
    <3> HIDE DEF d
    <3>3. status'[c] = low[c]
      BY <3>1, <3>2
    <3> QED
      BY <3>2, <3>3
  <2>2. \A k \in Calls : k # t => pc'[k] = pc[k]
    BY <1>8 DEF BalanceLow, Goto, IInv, TypeOK
  <2> QED
    BY <1>8, <2>1, <2>2 DEF BalanceLow
<1>9. ASSUME NEW t \in Calls, Minted(t)
      PROVE  StartedWorks'
  BY <1>9 DEF Minted, Goto, IInv, TypeOK
<1>10. ASSUME NEW t \in Calls, Throws(t)
      PROVE  StartedWorks'
  BY <1>10 DEF Throws, Goto, IInv, TypeOK
<1>11. CASE Dies
  BY <1>11 DEF Dies
<1>12. CASE UNCHANGED vars
  BY <1>12
<1> QED
  BY <1>1, <1>2, <1>3, <1>4, <1>5, <1>6, <1>7, <1>8, <1>9, <1>10, <1>11, <1>12
     DEF Next, Starting, Minting

(* 'Client already exists Working' is true when it is said, or there was an
   exception. *)
THEOREM StartedCorrect == Spec => []StartedWorks
<1>1. Init => StartedWorks
  BY DEF Init, StartedWorks
<1> QED
  BY <1>1, StartedInductive, IInvCorrect, PTL DEF Spec
-----------------------------------------------------------------------------
(* A step that leaves the list alone, makes no call active, and changes nothing of
   the active ones. *)
LEMMA QuietStep ==
  ASSUME StopInv, UNCHANGED <<sockets, hasty>>,
         \A t \in Calls : Active(t)' => /\ Active(t)
                                        /\ Caller(t)' = Caller(t) /\ client'[t] = client[t],
         \A c \in sockets : UserOf(c)' = UserOf(c)
  PROVE  StopInv'
<1>1. OneCall'
  BY DEF StopInv, OneCall
<1>2. OneClient'
  BY DEF StopInv, OneClient
<1>3. OwnClient'
  BY DEF StopInv, OwnClient
<1> QED
  BY <1>1, <1>2, <1>3 DEF StopInv

LEMMA StartMintOne ==
  ASSUME IInv, StopInv, NEW s \in Sockets, NEW t \in Calls, StartMint(s, t)
  PROVE  StopInv'
<1> DEFINE c == ClientOf(s)
           u == Owner[s]
<1>1. /\ c = 0 => \A d \in sockets : socket[d] # s
      /\ c # 0 => c \in sockets /\ socket[c] = s
  BY Found DEF IInv
<1>2. /\ pc[t] = "new" /\ pc' = [pc EXCEPT ![t] = "lookup"]
      /\ caller' = [caller EXCEPT ![t] = s] /\ client' = [client EXCEPT ![t] = c]
      /\ UNCHANGED <<conn, list, thrown>>
  BY DEF StartMint, Goto
<1>3. hasty \subseteq hasty' /\ (Overlaps(s) => u \in hasty')
  BY DEF StartMint
<1> HIDE DEF c
<1>4. /\ \A k \in Calls : k # t => /\ Active(k)' = Active(k)
                                   /\ Caller(k)' = Caller(k) /\ client'[k] = client[k]
      /\ ~ Active(t) /\ Caller(t)' = u /\ client'[t] = c
  BY <1>2 DEF Active, Caller, IInv, TypeOK
<1>5. \A d \in sockets : UserOf(d)' = UserOf(d)
  BY <1>2 DEF UserOf
<1>6. OneCall'
  <2>1. \A k \in Calls : Active(k) /\ Caller(k) = u => u \in hasty'
    BY <1>3 DEF Overlaps, Caller
  <2> QED
    BY <1>3, <1>4, <2>1 DEF StopInv, OneCall
<1>7. OneClient'
  BY <1>2, <1>3, <1>5 DEF StopInv, OneClient
<1>8. OwnClient'
  <2>1. u \in hasty' \/ IF c = 0 THEN \A d \in sockets : UserOf(d) # u ELSE c \in sockets
    BY <1>1, <1>3 DEF Overlaps, UserOf
  <2> QED
    BY <1>2, <1>3, <1>4, <1>5, <2>1 DEF StopInv, OwnClient
<1> QED
  BY <1>6, <1>7, <1>8 DEF StopInv

LEMMA AddClientOne ==
  ASSUME IInv, StopInv, NEW t \in Calls, AddClient(t)
  PROVE  StopInv'
<1>1. /\ pc[t] = "balance" /\ made' = made + 1
      /\ sockets' = sockets \union {made'}
      /\ socket' = [socket EXCEPT ![made'] = caller[t]]
      /\ client' = [client EXCEPT ![t] = made']
      /\ pc' = [pc EXCEPT ![t] = "measure"]
      /\ UNCHANGED <<caller, hasty>>
  BY DEF AddClient, Goto
<1>2. client[t] = 0
  BY <1>1 DEF IInv, CallInv, NoClientYet
<1>3. made < MaxCalls /\ made \in Nat /\ sockets \subseteq 1 .. made
  BY <1>2, RoomForClient, Numbers DEF IInv
<1>4. made' \in Clients /\ made' \notin sockets /\ made' # 0
  BY <1>1, <1>3, BliztAssumption
<1>5. /\ \A c \in {made'} : UserOf(c)' = Caller(t)
      /\ \A c \in sockets : UserOf(c)' = UserOf(c)
  <2>1. DOMAIN socket = Clients /\ socket'[made'] = caller[t]
    BY <1>1, <1>4 DEF IInv, TypeOK
  <2>2. \A c \in sockets : socket'[c] = socket[c]
    BY <1>1, <1>3, <1>4, <2>1, Numbers DEF IInv
  <2> QED
    BY <2>1, <2>2 DEF UserOf, Caller
<1>6. /\ \A k \in Calls : Active(k)' = Active(k) /\ Caller(k)' = Caller(k)
      /\ \A k \in Calls : k # t => client'[k] = client[k]
      /\ Active(t) /\ client'[t] = made'
  BY <1>1 DEF Active, Caller, IInv, TypeOK
<1>7. Caller(t) \in hasty \/ \A c \in sockets : UserOf(c) # Caller(t)
  BY <1>2, <1>6 DEF StopInv, OwnClient
<1>8. OneCall'
  BY <1>1, <1>6 DEF StopInv, OneCall
<1>9. OneClient'
  <2> SUFFICES ASSUME NEW c \in sockets', NEW d \in sockets', UserOf(c)' = UserOf(d)', c # d
               PROVE  UserOf(c)' \in hasty
    BY <1>1 DEF OneClient
  <2>1. CASE c \in sockets /\ d \in sockets
    BY <1>5, <2>1 DEF StopInv, OneClient
  <2>2. CASE c = made' /\ d \in sockets
    BY <1>5, <1>7, <2>2
  <2>3. CASE c \in sockets /\ d = made'
    BY <1>5, <1>7, <2>3
  <2> QED
    BY <1>1, <2>1, <2>2, <2>3
<1>10. OwnClient'
  <2>1. \A k \in Calls : Active(k) /\ k # t => Caller(k) # Caller(t) \/ Caller(k) \in hasty
    BY <1>6 DEF StopInv, OneCall
  <2> QED
    <3> SUFFICES ASSUME NEW k \in Calls, Active(k), Caller(k) \notin hasty
                 PROVE  IF client'[k] = 0 THEN \A c \in sockets' : UserOf(c)' # Caller(k)
                                         ELSE client'[k] \in sockets'
      BY <1>1, <1>6 DEF OwnClient
    <3>1. CASE k = t
      BY <1>1, <1>4, <1>6, <3>1
    <3>2. CASE k # t
      <4>1. Caller(k) # Caller(t) /\ client'[k] = client[k]
        BY <1>6, <2>1, <3>2
      <4>2. IF client[k] = 0 THEN \A c \in sockets : UserOf(c) # Caller(k)
                             ELSE client[k] \in sockets
        BY DEF StopInv, OwnClient
      <4> QED
        BY <1>1, <1>5, <4>1, <4>2
    <3> QED
      BY <3>1, <3>2
<1> QED
  BY <1>8, <1>9, <1>10 DEF StopInv

LEMMA BalanceLowOne ==
  ASSUME IInv, StopInv, NEW t \in Calls, BalanceLow(t)
  PROVE  StopInv'
<1>1. /\ pc[t] = "measure" /\ pc' = [pc EXCEPT ![t] = "ended"]
      /\ sockets' = {c \in sockets : socket[c] # caller[t]}
      /\ UNCHANGED <<socket, caller, client, hasty>>
  BY DEF BalanceLow, Goto
<1>2. \A k \in Calls : Active(k)' => /\ k # t /\ Active(k)
                                    /\ Caller(k)' = Caller(k) /\ client'[k] = client[k]
  BY <1>1 DEF Active, Caller, IInv, TypeOK
<1>3. \A c : UserOf(c)' = UserOf(c)
  BY <1>1 DEF UserOf
<1>4. OneCall'
  BY <1>1, <1>2 DEF StopInv, OneCall
<1>5. OneClient'
  BY <1>1, <1>3 DEF StopInv, OneClient
<1>6. OwnClient'
  <2> SUFFICES ASSUME NEW k \in Calls, Active(k)', Caller(k) \notin hasty
               PROVE  IF client[k] = 0 THEN \A c \in sockets' : UserOf(c) # Caller(k)
                                       ELSE client[k] \in sockets'
    BY <1>1, <1>2, <1>3 DEF OwnClient
  <2>1. k # t /\ Active(k) /\ Active(t)
    BY <1>1, <1>2 DEF Active
  <2>2. Caller(k) # Caller(t)
    BY <2>1 DEF StopInv, OneCall
  <2>3. CASE client[k] = 0
    BY <1>1, <2>1, <2>3 DEF StopInv, OwnClient
  <2>4. CASE client[k] # 0
    <3>1. client[k] \in sockets /\ UserOf(client[k]) = Caller(k)
      BY <2>1, <2>4 DEF StopInv, OwnClient, IInv, CallInv, ClientOfCaller
    <3>2. socket[client[k]] # caller[t]
      BY <2>2, <3>1 DEF UserOf, Caller
    <3> QED
      BY <1>1, <2>4, <3>1, <3>2
  <2> QED
    BY <2>3, <2>4
<1> QED
  BY <1>4, <1>5, <1>6 DEF StopInv

LEMMA StopInvInductive == IInv /\ StopInv /\ [Next]_vars => StopInv'
<1> SUFFICES ASSUME IInv, StopInv, [Next]_vars PROVE StopInv'
  OBVIOUS
<1> USE DEF IInv, TypeOK, Active, Caller, UserOf
<1>1. ASSUME NEW s \in Sockets, Connect(s)
      PROVE  StopInv'
  <2> DEFINE c == ClientOfUser(Owner[s])
  <2>1. c # 0 => c \in Clients /\ UserOf(c) = Owner[s]
    BY FoundOfUser, Numbers, BliztAssumption
  <2>2. /\ socket' = IF c = 0 THEN socket ELSE [socket EXCEPT ![c] = s]
        /\ UNCHANGED <<sockets, call, hasty>>
    BY <1>1 DEF Connect
  <2> HIDE DEF c
  <2>3. \A d \in sockets : UserOf(d)' = UserOf(d)
    BY <2>1, <2>2, Numbers
  <2> QED
    BY <2>2, <2>3, QuietStep
<1>2. ASSUME NEW s \in Sockets, Disconnect(s) \/ StopMint(s)
      PROVE  StopInv'
  BY <1>2, QuietStep DEF Disconnect, StopMint
<1>3. ASSUME NEW t \in Calls, NoAccount(t) \/ StartClient(t) \/ AskBalance(t)
      PROVE  StopInv'
  BY <1>3, QuietStep DEF NoAccount, StartClient, AskBalance, Goto
<1>4. ASSUME NEW t \in Calls, Execute(t) \/ Minted(t)
      PROVE  StopInv'
  BY <1>4, QuietStep DEF Execute, Minted, Goto
<1>5. ASSUME NEW t \in Calls, Throws(t)
      PROVE  StopInv'
  BY <1>5, QuietStep DEF Throws, Goto
<1>6. CASE Dies
  BY <1>6 DEF Dies, StopInv, OneCall, OneClient, OwnClient
<1>7. CASE UNCHANGED vars
  BY <1>7, QuietStep
<1> QED
  BY <1>1, <1>2, <1>3, <1>4, <1>5, <1>6, <1>7, StartMintOne, AddClientOne, BalanceLowOne
     DEF Next, Starting, Minting

(* In the list, a client whose user is not hasty is what either search finds. *)
LEMMA FoundAgain ==
  ASSUME IInv, StopInv, NEW c \in sockets, UserOf(c) \notin hasty
  PROVE  ClientOf(socket[c]) = c /\ ClientOfUser(UserOf(c)) = c
<1>1. socket[c] \in Sockets /\ UserOf(c) \in Users /\ c # 0
  BY Numbers, BliztAssumption DEF IInv, TypeOK, UserOf
<1>2. \A d \in sockets : UserOf(d) = UserOf(c) => d = c
  BY DEF StopInv, OneClient
<1>3. ClientOf(socket[c]) = c
  BY <1>1, <1>2, Found DEF IInv, UserOf
<1>4. ClientOfUser(UserOf(c)) = c
  BY <1>1, <1>2, FoundOfUser DEF IInv
<1> QED
  BY <1>3, <1>4

(* A stopMint reaches the client every loop works for, at any time, unless its user
   started twice at once or on two sockets. *)
THEOREM StoppableCorrect == Spec => []Stoppable
<1>1. Init => StopInv
  BY DEF Init, StopInv, OneCall, OneClient, OwnClient, Active
<1>2. IInv /\ StopInv => Stoppable
  <2> SUFFICES ASSUME IInv, StopInv, NEW t \in Calls, NEW c \in Clients, Runs(t, c),
                      Owner[socket[c]] \notin hasty
               PROVE  ClientOf(socket[c]) = c /\ ClientOfUser(Owner[socket[c]]) = c
    BY DEF Stoppable
  <2>1. client[t] = c /\ c # 0 /\ Active(t) /\ UserOf(c) = Caller(t)
    BY DEF Runs, Active, IInv, TypeOK, CallInv, ClientOfCaller
  <2>2. c \in sockets /\ UserOf(c) \notin hasty
    BY <2>1 DEF StopInv, OwnClient, UserOf
  <2> QED
    BY <2>2, FoundAgain DEF UserOf
<1> QED
  BY <1>1, <1>2, StopInvInductive, IInvCorrect, PTL DEF Spec
=============================================================================
