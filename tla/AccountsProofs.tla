---------------------------- MODULE AccountsProofs ----------------------------
(***************************************************************************)
(* Theorems about Accounts, for any users, RPCs and number of requests     *)
(* under way: a signature is used up by its token, a nonce given out stays *)
(* good until then, the payer a user was given is the one minted with, and *)
(* lists of RPCs outgrow their limit by no more than the requests at once. *)
(***************************************************************************)
EXTENDS Accounts, FiniteSetTheorems, TLAPS

(* The documents, part by part. *)
NonceTypes ==
  /\ users \subseteq Users /\ drawn \in 0 .. MaxNonces
  /\ nonce \in [Users -> 0 .. drawn] /\ \A u \in users : nonce[u] # 0
  /\ issued \subseteq users \X (1 .. drawn)
  /\ signins \in [Users \X Nonces -> Nat]
  /\ \A k \in Users \X Nonces : signins[k] > 0 => k \in issued
PayerTypes ==
  /\ made \in 0 .. MaxPayers /\ mapping \in [Users -> 0 .. made]
  /\ deployHash \subseteq deployed /\ deployed \subseteq 1 .. made
  /\ handed \subseteq Users \X (1 .. made) /\ raced \subseteq Users /\ cut \subseteq deployed
Copies(list, x) == {e \in list : e[1] = x}
RpcList(list) ==
  /\ IsFiniteSet(list)
  /\ \A e \in list : e \in Rpcs \X Nat /\ e[2] <= Cardinality(Copies(list, e[1]))
RpcTypes == DOMAIN rpcs \subseteq Users /\ \A u \in DOMAIN rpcs : RpcList(rpcs[u])

(* The requests: a request that signs in has a nonce given out, one that works on a
   payer has a payer made, and has deployed it before it records that. *)
Places == {"idle", "createUser", "signedIn", "token", "wallet", "createPayer", "map", "fee",
           "deploy", "hash", "mapBack", "upsert", "createRpc", "push", "pull"}
WithPayer == {"map", "fee", "deploy", "hash", "mapBack"}
Memory == [user : Users, nonce : Nat, payer : Nat, rpc : Rpcs, login : BOOLEAN]
RequestTypes == pc \in [Requests -> Places] /\ mem \in [Requests -> Memory]
RequestOK(r) ==
  /\ mem[r].login => <<mem[r].user, mem[r].nonce>> \in issued
  /\ pc[r] \in {"signedIn", "token"} => mem[r].login
  /\ pc[r] \in WithPayer => mem[r].payer \in 1 .. made
  /\ pc[r] \in {"hash", "mapBack"} => mem[r].payer \in deployed

IInv == /\ NonceTypes /\ PayerTypes /\ RpcTypes /\ RequestTypes
        /\ \A r \in Requests : RequestOK(r)

(* A nonce that brought a token is gone; of one that did not, or brought some, the
   tokens so far and the sign-ins under way are no more than the requests. *)
NonceGone == \A u \in Users, n \in Nonces : signins[<<u, n>>] > 0 => nonce[u] # n
Holders(u, n) == {r \in Requests : mem[r].login /\ mem[r].user = u /\ mem[r].nonce = n}
TokensBounded ==
  \A u \in Users, n \in Nonces :
    signins[<<u, n>>] + Cardinality(Holders(u, n)) <= Cardinality(Requests)

(* A payer about to be mapped is its user's first, and only one; any other in hand
   is the mapped one; and so is the one a user was given. *)
MapAlone ==
  \A r \in Requests : At(r, "map") =>
    \/ mem[r].user \in raced
    \/ /\ mapping[mem[r].user] = 0
       /\ \A s \in Requests : At(s, "map") /\ mem[s].user = mem[r].user => s = r
PayerInHand ==
  \A r \in Requests : pc[r] \in WithPayer \ {"map"} =>
    mapping[mem[r].user] = mem[r].payer \/ mem[r].user \in raced
HandedKept == \A k \in handed : mapping[k[1]] = k[2] \/ k[1] \in raced
MapInv == MapAlone /\ PayerInHand /\ HandedKept

(* What is deployed is recorded, or was cut short, or is about to be. *)
DeployKnown ==
  \A p \in deployed : \/ p \in deployHash \union cut
                      \/ \E r \in Requests : At(r, "hash") /\ mem[r].payer = p

(* The copies of an RPC and the requests about to add one are no more than the
   requests; and the same for the list, above one less than its limit. *)
Pushing(u) == {r \in Requests : At(r, "push") /\ mem[r].user = u}
PushingRpc(u, x) == {r \in Pushing(u) : mem[r].rpc = x}
-----------------------------------------------------------------------------
USE DEF vars, docs, world, history, Nonces, Payers

LEMMA BlankIsMemory ==
  /\ Blank \in Memory /\ Blank.login = FALSE
  /\ \A u \in Users : [Blank EXCEPT !.user = u] \in Memory
BY AccountsAssumption DEF Blank, Memory

(* What a step of a request does to the requests. *)
Step(r) == SignIn(r) \/ Wallet(r) \/ Points(r) \/ Configure(r) \/ Throws(r)
Moves(r, l, m) ==
  /\ l \in Places /\ m \in Memory
  /\ pc' = [pc EXCEPT ![r] = l] /\ mem' = [mem EXCEPT ![r] = m]

LEMMA MovesOne ==
  ASSUME RequestTypes, NEW r \in Requests, NEW l, NEW m, Moves(r, l, m)
  PROVE  /\ RequestTypes' /\ pc'[r] = l /\ mem'[r] = m
         /\ \A s \in Requests : s # r => pc'[s] = pc[s] /\ mem'[s] = mem[s]
BY DEF RequestTypes, Moves

LEMMA SignInMoves ==
  ASSUME IInv, NEW r \in Requests, SignIn(r)
  PROVE  \E l, m : Moves(r, l, m)
<1> USE DEF Moves, Goto, Hold, Return
<1>1. mem[r] \in Memory /\ mem = [mem EXCEPT ![r] = mem[r]] /\ pc = [pc EXCEPT ![r] = pc[r]]
      /\ pc[r] \in Places
  BY DEF IInv, RequestTypes
<1>2. CASE CreateUser(r) \/ Token(r)
  <2>1. Moves(r, "idle", Blank)
    BY <1>2, BlankIsMemory DEF CreateUser, Token, Places
  <2> QED
    BY <2>1
<1>3. CASE LoginUser(r)
  BY <1>1, <1>3 DEF LoginUser, Places
<1>4. ASSUME NEW u \in Users, AskNonce(r, u)
      PROVE  \E l, m : Moves(r, l, m)
  <2>1. Moves(r, pc[r], mem[r])
    BY <1>1, <1>4 DEF AskNonce
  <2> QED
    BY <2>1
<1>5. ASSUME NEW u \in Users, FindNoUser(r, u)
      PROVE  \E l, m : Moves(r, l, m)
  BY <1>5, BlankIsMemory DEF FindNoUser, Places
<1>6. ASSUME NEW u \in Users, Login(r, u)
      PROVE  \E l, m : Moves(r, l, m)
  <2>1. [Blank EXCEPT !.user = u, !.nonce = nonce[u], !.login = TRUE] \in Memory
    <3>1. nonce[u] \in Nat
      BY AccountsAssumption DEF IInv, NonceTypes
    <3> QED
      BY <3>1, BlankIsMemory DEF Memory
  <2> QED
    BY <1>6, <2>1 DEF Login, Places
<1> QED
  BY <1>2, <1>3, <1>4, <1>5, <1>6 DEF SignIn

LEMMA WalletMoves ==
  ASSUME IInv, NEW r \in Requests, Wallet(r)
  PROVE  \E l, m : Moves(r, l, m)
<1> USE DEF Moves, Goto, Hold, Return
<1>1. mem[r] \in Memory /\ mem = [mem EXCEPT ![r] = mem[r]]
  BY DEF IInv, RequestTypes
<1>2. \A p \in Nat : [mem[r] EXCEPT !.payer = p] \in Memory
  BY <1>1 DEF Memory
<1>3. made \in Nat /\ \A u \in Users : mapping[u] \in Nat
  BY AccountsAssumption DEF IInv, PayerTypes
<1>4. mem[r].user \in Users
  BY <1>1 DEF Memory
<1>5. CASE FindWallet(r)
  <2>1. [mem[r] EXCEPT !.payer = mapping[mem[r].user]] \in Memory
    BY <1>2, <1>3, <1>4
  <2> QED
    BY <1>1, <1>5, <2>1 DEF FindWallet, Places
<1>6. CASE CreatePayer(r)
  <2>1. [mem[r] EXCEPT !.payer = made'] \in Memory
    BY <1>2, <1>3, <1>6 DEF CreatePayer
  <2>2. Moves(r, "map", [mem[r] EXCEPT !.payer = made'])
    BY <1>6, <2>1 DEF CreatePayer, Places
  <2> QED
    BY <2>2
<1>7. CASE MapPayer(r) \/ StoreHash(r) \/ Deploy(r)
  BY <1>1, <1>7 DEF MapPayer, StoreHash, Deploy, Places
<1>8. CASE Fee(r)
  <2>1. CASE mem[r].login
    BY <1>1, <1>8, <2>1 DEF Fee, Places
  <2>2. CASE ~ mem[r].login
    <3>1. Moves(r, "idle", Blank)
      BY <1>8, <2>2, BlankIsMemory DEF Fee, Places
    <3> QED
      BY <3>1
  <2> QED
    BY <2>1, <2>2
<1>9. CASE MapBack(r)
  <2>1. Moves(r, "idle", Blank)
    BY <1>9, BlankIsMemory DEF MapBack, Places
  <2> QED
    BY <2>1
<1>10. ASSUME NEW u \in Users, AskWallet(r, u)
       PROVE  \E l, m : Moves(r, l, m)
  BY <1>10, BlankIsMemory DEF AskWallet, Places
<1>11. ASSUME NEW u \in Users, AskDeploy(r, u)
       PROVE  \E l, m : Moves(r, l, m)
  <2>1. [Blank EXCEPT !.user = u, !.payer = mapping[u]] \in Memory
    BY <1>3, BlankIsMemory DEF Memory
  <2> QED
    BY <1>11, <2>1 DEF AskDeploy, Places
<1> QED
  BY <1>5, <1>6, <1>7, <1>8, <1>9, <1>10, <1>11 DEF Wallet

LEMMA OtherMoves ==
  ASSUME IInv, NEW r \in Requests, Points(r) \/ Configure(r) \/ Throws(r)
  PROVE  \E l, m : Moves(r, l, m)
<1> USE DEF Moves, Goto, Hold, Return
<1>1. CASE Upsert(r) \/ CreateRpc(r) \/ PushRpc(r) \/ PullRpc(r) \/ Throws(r)
  <2>1. Moves(r, "idle", Blank)
    BY <1>1, BlankIsMemory DEF Upsert, CreateRpc, PushRpc, PullRpc, Throws, Places
  <2> QED
    BY <2>1
<1>2. ASSUME NEW u \in Users, FindNoPoints(r, u)
      PROVE  \E l, m : Moves(r, l, m)
  BY <1>2, BlankIsMemory DEF FindNoPoints, Places
<1>3. ASSUME NEW u \in Users, NEW x \in Rpcs, AddRpc(r, u, x) \/ DeleteRpc(r, u, x)
      PROVE  \E l, m : Moves(r, l, m)
  <2>1. [Blank EXCEPT !.user = u, !.rpc = x] \in Memory
    BY BlankIsMemory DEF Memory
  <2> QED
    BY <1>3, <2>1 DEF AddRpc, DeleteRpc, Places
<1> QED
  BY <1>1, <1>2, <1>3 DEF Points, Configure

(* A step of a request changes what this one waits for and has in hand. *)
LEMMA StepIsOfOne ==
  ASSUME IInv, NEW r \in Requests, Step(r)
  PROVE  /\ RequestTypes'
         /\ \A s \in Requests : s # r => pc'[s] = pc[s] /\ mem'[s] = mem[s]
<1>1. PICK l, m : Moves(r, l, m)
  BY SignInMoves, WalletMoves, OtherMoves DEF Step
<1> QED
  BY <1>1, MovesOne DEF IInv

(* The steps that touch what each part of the invariant is about. *)
NonceVars == <<users, nonce, drawn, issued, signins, replaced>>
PayerVars == <<made, mapping, deployHash, deployed, handed, raced, cut>>
PayerStep(r) == \/ CreatePayer(r) \/ MapPayer(r) \/ Fee(r) \/ Deploy(r) \/ StoreHash(r)
                \/ MapBack(r) \/ Throws(r)
LEMMA Frames ==
  ASSUME NEW r \in Requests, Step(r)
  PROVE  /\ \/ UNCHANGED NonceVars \/ CreateUser(r) \/ Token(r) \/ Upsert(r)
            \/ \E u \in Users : AskNonce(r, u)
         /\ UNCHANGED PayerVars \/ PayerStep(r)
         /\ UNCHANGED rpcs \/ CreateRpc(r) \/ PushRpc(r) \/ PullRpc(r)
<1> USE DEF NonceVars, PayerVars, PayerStep
<1>1. CASE SignIn(r)
  BY <1>1 DEF SignIn, CreateUser, LoginUser, Token, AskNonce, FindNoUser, Login
<1>2. CASE Wallet(r)
  BY <1>2 DEF Wallet, FindWallet, CreatePayer, MapPayer, Fee, Deploy, StoreHash, MapBack,
              AskWallet, AskDeploy
<1>3. CASE Points(r) \/ Throws(r)
  BY <1>3 DEF Points, Upsert, FindNoPoints, Throws
<1>4. CASE Configure(r)
  BY <1>4 DEF Configure, CreateRpc, PushRpc, PullRpc, AddRpc, DeleteRpc
<1> QED
  BY <1>1, <1>2, <1>3, <1>4 DEF Step

LEMMA Drawing ==
  ASSUME IInv, NEW u \in Users, Draw(u)
  PROVE  /\ drawn' = drawn + 1 /\ drawn \in Nat /\ drawn' \in Nonces
         /\ drawn' \in 0 .. MaxNonces /\ drawn' # 0
         /\ nonce' = [nonce EXCEPT ![u] = drawn'] /\ nonce' \in [Users -> 0 .. drawn']
         /\ nonce'[u] = drawn' /\ \A v \in Users : v # u => nonce'[v] = nonce[v]
         /\ 1 .. drawn \subseteq 1 .. drawn' /\ drawn' \notin 1 .. drawn
<1>1. drawn' = drawn + 1 /\ drawn < MaxNonces /\ nonce' = [nonce EXCEPT ![u] = drawn']
  BY DEF Draw
<1>2. drawn \in Nat /\ MaxNonces \in Nat /\ nonce \in [Users -> 0 .. drawn]
  BY AccountsAssumption DEF IInv, NonceTypes
<1>3. \A n \in 0 .. drawn : n \in 0 .. drawn'
  BY <1>1, <1>2
<1>4. drawn' \in 0 .. drawn'
  BY <1>1, <1>2
<1>5. nonce' \in [Users -> 0 .. drawn']
  BY <1>1, <1>2, <1>3, <1>4
<1> QED
  BY <1>1, <1>2, <1>5

LEMMA UserInHand ==
  ASSUME IInv, NEW r \in Requests
  PROVE  mem[r].user \in Users /\ mem[r].rpc \in Rpcs /\ mem[r].nonce \in Nat
         /\ mem[r].payer \in Nat /\ mem[r].login \in BOOLEAN
BY DEF IInv, RequestTypes, Memory

LEMMA NonceTypesKept ==
  ASSUME IInv, NEW r \in Requests, Step(r)
  PROVE  NonceTypes' /\ issued \subseteq issued'
<1> DEFINE u == mem[r].user
<1>1. u \in Users
  BY UserInHand
<1>2. NonceTypes
  BY DEF IInv
<1>3. CASE UNCHANGED NonceVars
  BY <1>2, <1>3 DEF NonceVars, NonceTypes
<1>4. CASE CreateUser(r)
  <2>1. Draw(u) /\ users' = users \union {u} /\ issued' = issued \union {<<u, drawn'>>}
        /\ signins' = signins
    BY <1>4 DEF CreateUser
  <2> HIDE DEF u
  <2>2. drawn' \in 1 .. drawn'
    BY <1>1, <2>1, Drawing
  <2>3. issued' \subseteq users' \X (1 .. drawn')
    BY <1>1, <1>2, <2>1, <2>2, Drawing DEF NonceTypes
  <2>4. \A v \in users' : nonce'[v] # 0
    BY <1>1, <1>2, <2>1, Drawing DEF NonceTypes
  <2> QED
    BY <1>1, <1>2, <2>1, <2>3, <2>4, Drawing DEF NonceTypes
<1>5. CASE Upsert(r)
  <2>1. Draw(u) /\ users' = users \union {u} /\ issued' = issued /\ signins' = signins
    BY <1>5 DEF Upsert
  <2> HIDE DEF u
  <2>2. issued' \subseteq users' \X (1 .. drawn')
    BY <1>1, <1>2, <2>1, Drawing DEF NonceTypes
  <2>3. \A v \in users' : nonce'[v] # 0
    BY <1>1, <1>2, <2>1, Drawing DEF NonceTypes
  <2> QED
    BY <1>1, <1>2, <2>1, <2>2, <2>3, Drawing DEF NonceTypes
<1>6. CASE Token(r)
  <2> DEFINE k == <<u, mem[r].nonce>>
  <2>1. Draw(u) /\ users' = users /\ issued' = issued /\ k \in issued
        /\ signins' = [signins EXCEPT ![k] = @ + 1]
    BY <1>6 DEF Token, At, IInv, RequestOK
  <2> HIDE DEF u
  <2>2. issued' \subseteq users' \X (1 .. drawn')
    BY <1>1, <1>2, <2>1, Drawing DEF NonceTypes
  <2>3. \A v \in users' : nonce'[v] # 0
    BY <1>1, <1>2, <2>1, Drawing DEF NonceTypes
  <2> HIDE DEF k
  <2>4. /\ signins' \in [Users \X Nonces -> Nat]
        /\ \A i \in Users \X Nonces : signins'[i] > 0 => i \in issued'
    <3> DEFINE K == Users \X Nonces
    <3>1. /\ signins \in [K -> Nat] /\ \A i \in K : signins[i] > 0 => i \in issued
      BY <1>2 DEF NonceTypes
    <3> HIDE DEF K
    <3>2. signins' \in [K -> Nat]
      <4>1. signins' = [i \in K |-> IF i = k THEN signins[k] + 1 ELSE signins[i]]
        BY <2>1, <3>1
      <4>2. \A i \in K : (IF i = k THEN signins[k] + 1 ELSE signins[i]) \in Nat
        BY <3>1
      <4> QED
        BY <4>1, <4>2
    <3>3. \A i \in K : i # k => signins'[i] = signins[i]
      BY <2>1, <3>1
    <3>4. \A i \in K : signins'[i] > 0 => i \in issued'
      BY <2>1, <3>1, <3>3
    <3> QED
      BY <3>2, <3>4 DEF K
  <2> QED
    BY <1>1, <1>2, <2>1, <2>2, <2>3, <2>4, Drawing DEF NonceTypes
<1>7. ASSUME NEW v \in Users, AskNonce(r, v)
      PROVE  NonceTypes' /\ issued \subseteq issued'
  <2>1. /\ v \in users /\ issued' = issued \union {<<v, nonce[v]>>}
        /\ UNCHANGED <<users, nonce, drawn, signins>>
    BY <1>7 DEF AskNonce
  <2>2. nonce[v] \in 1 .. drawn
    BY <1>2, <2>1 DEF NonceTypes
  <2>3. issued' \subseteq users' \X (1 .. drawn')
    BY <1>2, <2>1, <2>2 DEF NonceTypes
  <2> QED
    BY <1>2, <2>1, <2>3 DEF NonceTypes
<1> QED
  BY <1>3, <1>4, <1>5, <1>6, <1>7, Frames

LEMMA PayerTypesKept ==
  ASSUME IInv, NEW r \in Requests, Step(r)
  PROVE  PayerTypes' /\ deployed \subseteq deployed' /\ 1 .. made \subseteq 1 .. made'
<1> DEFINE u == mem[r].user
           p == mem[r].payer
<1>1. u \in Users /\ (pc[r] \in WithPayer => p \in 1 .. made)
      /\ (pc[r] \in {"hash", "mapBack"} => p \in deployed)
  BY UserInHand DEF IInv, RequestOK
<1>2. PayerTypes /\ made \in Nat /\ MaxPayers \in Nat
  BY AccountsAssumption DEF IInv, PayerTypes
<1> USE DEF PayerTypes, At
<1>3. CASE UNCHANGED PayerVars
  BY <1>2, <1>3 DEF PayerVars
<1>4. CASE CreatePayer(r)
  <2>1. /\ made < MaxPayers /\ made' = made + 1 /\ raced' \subseteq raced \union {u}
        /\ UNCHANGED <<mapping, deployHash, deployed, handed, cut>>
    BY <1>4 DEF CreatePayer
  <2>2. made' \in 0 .. MaxPayers /\ \A i \in 0 .. made : i \in 0 .. made'
    BY <1>2, <2>1
  <2>3. 1 .. made \subseteq 1 .. made'
    BY <1>2, <2>1
  <2>4. mapping' \in [Users -> 0 .. made']
    BY <1>2, <2>1, <2>2
  <2>5. handed' \subseteq Users \X (1 .. made')
    BY <1>2, <2>1, <2>3
  <2> QED
    BY <1>1, <1>2, <2>1, <2>2, <2>3, <2>4, <2>5
<1>5. CASE MapPayer(r) \/ MapBack(r)
  <2>1. p \in 0 .. made /\ mapping' = [mapping EXCEPT ![u] = p]
        /\ UNCHANGED <<made, deployHash, deployed, handed, raced, cut>>
    BY <1>1, <1>2, <1>5 DEF MapPayer, MapBack, WithPayer
  <2> HIDE DEF u, p
  <2> QED
    BY <1>2, <2>1
<1>6. CASE Fee(r)
  <2>1. p \in 1 .. made /\ (handed' = handed \/ handed' = handed \union {<<u, p>>})
        /\ UNCHANGED <<made, mapping, deployHash, deployed, raced, cut>>
    BY <1>1, <1>6 DEF Fee, WithPayer
  <2> HIDE DEF u, p
  <2> QED
    BY <1>1, <1>2, <2>1
<1>7. CASE Deploy(r)
  BY <1>1, <1>2, <1>7 DEF Deploy, WithPayer
<1>8. CASE StoreHash(r)
  BY <1>1, <1>2, <1>8 DEF StoreHash
<1>9. CASE Throws(r)
  BY <1>1, <1>2, <1>9 DEF Throws
<1> QED
  BY <1>3, <1>4, <1>5, <1>6, <1>7, <1>8, <1>9, Frames DEF PayerStep

LEMMA RequestsKept ==
  ASSUME IInv, NEW r \in Requests, Step(r)
  PROVE  \A s \in Requests : RequestOK(s)'
<1>1. /\ issued \subseteq issued' /\ deployed \subseteq deployed'
      /\ 1 .. made \subseteq 1 .. made'
  BY NonceTypesKept, PayerTypesKept
<1>2. ASSUME NEW s \in Requests, s # r
      PROVE  RequestOK(s)'
  BY <1>1, <1>2, StepIsOfOne DEF IInv, RequestOK
<1> SUFFICES RequestOK(r)'
  BY <1>2
<1>3. RequestOK(r) /\ r \in DOMAIN pc /\ r \in DOMAIN mem
  BY DEF IInv, RequestTypes
<1>4. PayerTypes
  BY DEF IInv
<1> USE DEF At, Goto, Hold, Return, WithPayer
<1>5. CASE pc'[r] = "idle" /\ mem'[r] = Blank
  BY <1>5, BlankIsMemory DEF RequestOK
<1>6. CASE mem'[r].login = FALSE /\ pc'[r] \notin WithPayer \union {"token", "signedIn"}
  BY <1>6 DEF RequestOK
<1>7. CASE LoginUser(r) \/ Deploy(r) \/ StoreHash(r) \/ MapPayer(r)
  <2>1. mem'[r] = mem[r]
    BY <1>7 DEF LoginUser, Deploy, StoreHash, MapPayer
  <2>2. CASE LoginUser(r)
    BY <1>1, <1>3, <2>1, <2>2 DEF LoginUser, RequestOK
  <2>3. CASE Deploy(r)
    BY <1>1, <1>3, <2>1, <2>3 DEF Deploy, RequestOK
  <2>4. CASE StoreHash(r)
    BY <1>1, <1>3, <2>1, <2>4 DEF StoreHash, RequestOK
  <2>5. CASE MapPayer(r)
    BY <1>1, <1>3, <2>1, <2>5 DEF MapPayer, RequestOK
  <2> QED
    BY <1>7, <2>2, <2>3, <2>4, <2>5
<1>8. CASE FindWallet(r) \/ CreatePayer(r)
  <2> DEFINE p == mapping[mem[r].user]
  <2>1. \A i : /\ [mem[r] EXCEPT !.payer = i].login = mem[r].login
               /\ [mem[r] EXCEPT !.payer = i].user = mem[r].user
               /\ [mem[r] EXCEPT !.payer = i].nonce = mem[r].nonce
               /\ [mem[r] EXCEPT !.payer = i].payer = i
    BY DEF IInv, RequestTypes, Memory
  <2>2. CASE FindWallet(r)
    <3>1. p \in 0 .. made
      BY <1>4, UserInHand DEF PayerTypes
    <3>2. CASE p # 0
      <4>1. p \in 1 .. made
        BY <3>1, <3>2, <1>4, AccountsAssumption DEF PayerTypes
      <4>2. pc'[r] = "fee" /\ mem'[r] = [mem[r] EXCEPT !.payer = p]
        BY <1>3, <2>2, <3>2 DEF FindWallet
      <4> QED
        BY <1>1, <1>3, <2>1, <4>1, <4>2 DEF RequestOK
    <3>3. CASE p = 0
      <4>1. pc'[r] = "createPayer" /\ mem'[r] = mem[r]
        BY <1>3, <2>2, <3>3 DEF FindWallet
      <4> QED
        BY <1>1, <1>3, <4>1 DEF RequestOK
    <3> QED
      BY <3>2, <3>3
  <2>3. CASE CreatePayer(r)
    <3>1. pc'[r] = "map" /\ mem'[r] = [mem[r] EXCEPT !.payer = made'] /\ made' = made + 1
      BY <1>3, <2>3 DEF CreatePayer
    <3>2. made' \in 1 .. made'
      BY <1>4, <3>1, AccountsAssumption DEF PayerTypes
    <3> QED
      BY <1>1, <1>3, <2>1, <3>1, <3>2 DEF RequestOK
  <2> QED
    BY <1>8, <2>2, <2>3
<1>9. ASSUME NEW u \in Users, AskNonce(r, u) \/ Login(r, u)
      PROVE  RequestOK(r)'
  <2>1. CASE AskNonce(r, u)
    BY <1>1, <1>3, <2>1 DEF AskNonce, RequestOK
  <2>2. CASE Login(r, u)
    <3>1. /\ pc'[r] = "signedIn" /\ <<u, nonce[u]>> \in issued
          /\ mem'[r] = [Blank EXCEPT !.user = u, !.nonce = nonce[u], !.login = TRUE]
      BY <1>3, <2>2 DEF Login
    <3>2. mem'[r].user = u /\ mem'[r].nonce = nonce[u]
      BY <3>1, BlankIsMemory DEF Memory
    <3> QED
      BY <1>1, <3>1, <3>2 DEF RequestOK
  <2> QED
    BY <1>9, <2>1, <2>2
<1>10. ASSUME NEW u \in Users, AskDeploy(r, u)
       PROVE  RequestOK(r)'
  <2>1. /\ pc'[r] = "deploy" /\ mapping[u] # 0 /\ made' = made
        /\ mem'[r] = [Blank EXCEPT !.user = u, !.payer = mapping[u]]
    BY <1>3, <1>10 DEF AskDeploy
  <2>2. mem'[r].payer = mapping[u] /\ mem'[r].login = FALSE
    BY <2>1, BlankIsMemory DEF Memory
  <2>3. mapping[u] \in 1 .. made
    BY <1>4, <2>1, AccountsAssumption DEF PayerTypes
  <2> QED
    BY <2>1, <2>2, <2>3 DEF RequestOK
<1>11. ASSUME NEW u \in Users, NEW x \in Rpcs,
              \/ FindNoUser(r, u) \/ AskWallet(r, u) \/ FindNoPoints(r, u)
              \/ AddRpc(r, u, x) \/ DeleteRpc(r, u, x)
       PROVE  RequestOK(r)'
  <2>1. /\ [Blank EXCEPT !.user = u].login = FALSE
        /\ [Blank EXCEPT !.user = u, !.rpc = x].login = FALSE
    BY BlankIsMemory DEF Memory
  <2>2. /\ mem'[r] \in {[Blank EXCEPT !.user = u], [Blank EXCEPT !.user = u, !.rpc = x]}
        /\ pc'[r] \in {"createUser", "wallet", "upsert", "push", "createRpc", "pull"}
    BY <1>3, <1>11 DEF FindNoUser, AskWallet, FindNoPoints, AddRpc, DeleteRpc
  <2> QED
    BY <1>6, <2>1, <2>2
<1>12. CASE Fee(r)
  <2>1. \/ pc'[r] = "token" /\ mem[r].login /\ mem'[r] = mem[r]
        \/ pc'[r] = "idle" /\ mem'[r] = Blank
    BY <1>3, <1>12 DEF Fee
  <2> QED
    BY <1>1, <1>3, <1>5, <2>1 DEF RequestOK
<1>13. CASE \/ CreateUser(r) \/ Token(r) \/ MapBack(r) \/ Upsert(r) \/ CreateRpc(r)
            \/ PushRpc(r) \/ PullRpc(r) \/ Throws(r)
  BY <1>3, <1>5, <1>13 DEF CreateUser, Token, MapBack, Upsert, CreateRpc, PushRpc, PullRpc, Throws
<1>14. \E x : x \in Rpcs
  BY AccountsAssumption
<1> QED
  BY <1>7, <1>8, <1>9, <1>10, <1>11, <1>12, <1>13, <1>14
     DEF Step, SignIn, Wallet, Points, Configure
-----------------------------------------------------------------------------
(* One more copy of an RPC in a list, one RPC less, and the list of one. *)
LEMMA CopiesFinite ==
  ASSUME NEW list, IsFiniteSet(list), NEW x
  PROVE  /\ IsFiniteSet(Copies(list, x)) /\ Cardinality(Copies(list, x)) \in Nat
         /\ Cardinality(list) \in Nat
<1>1. Copies(list, x) \in SUBSET list
  BY DEF Copies
<1> QED
  BY <1>1, FS_Subset, FS_CardinalityType

LEMMA OneMore ==
  ASSUME NEW list, RpcList(list), NEW x \in Rpcs,
         NEW more, more = list \union {<<x, Cardinality(Copies(list, x)) + 1>>}
  PROVE  /\ RpcList(more) /\ Cardinality(more) = Cardinality(list) + 1
         /\ Cardinality(Copies(more, x)) = Cardinality(Copies(list, x)) + 1
         /\ \A y : y # x => Copies(more, y) = Copies(list, y)
<1> DEFINE n == Cardinality(Copies(list, x))
           new == <<x, n + 1>>
<1>1. IsFiniteSet(list) /\ IsFiniteSet(Copies(list, x)) /\ n \in Nat /\ Cardinality(list) \in Nat
  BY CopiesFinite DEF RpcList
<1>2. new \notin list
  <2>1. new[1] = x /\ new[2] = n + 1
    OBVIOUS
  <2> QED
    BY <1>1, <2>1 DEF RpcList
<1>3. IsFiniteSet(more) /\ Cardinality(more) = Cardinality(list) + 1
  BY <1>1, <1>2, FS_AddElement
<1>4. Copies(more, x) = Copies(list, x) \union {new}
  BY DEF Copies
<1>5. Cardinality(Copies(more, x)) = n + 1
  <2>1. new \notin Copies(list, x)
    BY <1>2 DEF Copies
  <2> QED
    BY <1>1, <1>4, <2>1, FS_AddElement
<1>6. \A y : y # x => Copies(more, y) = Copies(list, y)
  BY DEF Copies
<1>7. \A e \in more : e \in Rpcs \X Nat /\ e[2] <= Cardinality(Copies(more, e[1]))
  <2>1. new \in Rpcs \X Nat /\ new[2] <= Cardinality(Copies(more, new[1]))
    BY <1>1, <1>5
  <2>2. ASSUME NEW e \in list
        PROVE  e \in Rpcs \X Nat /\ e[2] <= Cardinality(Copies(more, e[1]))
    <3>1. e \in Rpcs \X Nat /\ e[2] <= Cardinality(Copies(list, e[1]))
      BY DEF RpcList
    <3>2. CASE e[1] = x
      BY <1>1, <1>5, <3>1, <3>2
    <3>3. CASE e[1] # x
      BY <1>6, <3>1, <3>3
    <3> QED
      BY <3>2, <3>3
  <2> QED
    BY <2>1, <2>2
<1> QED
  BY <1>3, <1>5, <1>6, <1>7 DEF RpcList

LEMMA OneLess ==
  ASSUME NEW list, RpcList(list), NEW x \in Rpcs,
         NEW less, less = list \ Copies(list, x)
  PROVE  /\ RpcList(less) /\ Cardinality(less) <= Cardinality(list)
         /\ \A y : IsFiniteSet(Copies(less, y))
                   /\ Cardinality(Copies(less, y)) <= Cardinality(Copies(list, y))
<1>1. less \in SUBSET list /\ \A y : Copies(less, y) \in SUBSET Copies(list, y)
  BY DEF Copies
<1>2. IsFiniteSet(list) /\ \A y : IsFiniteSet(Copies(list, y))
  BY CopiesFinite DEF RpcList
<1>3. IsFiniteSet(less) /\ Cardinality(less) <= Cardinality(list)
  BY <1>1, <1>2, FS_Subset
<1>4. \A y : IsFiniteSet(Copies(less, y))
             /\ Cardinality(Copies(less, y)) <= Cardinality(Copies(list, y))
  BY <1>1, <1>2, FS_Subset
<1>5. \A e \in less : Copies(less, e[1]) = Copies(list, e[1])
  BY DEF Copies
<1> QED
  BY <1>1, <1>3, <1>4, <1>5 DEF RpcList

LEMMA JustOne ==
  ASSUME NEW x \in Rpcs
  PROVE  /\ RpcList({<<x, 1>>}) /\ Cardinality({<<x, 1>>}) = 1
         /\ \A y : Cardinality(Copies({<<x, 1>>}, y)) = IF y = x THEN 1 ELSE 0
<1>1. IsFiniteSet({<<x, 1>>}) /\ Cardinality({<<x, 1>>}) = 1
  BY FS_Singleton
<1>2. \A y : Copies({<<x, 1>>}, y) = IF y = x THEN {<<x, 1>>} ELSE {}
  BY DEF Copies
<1>3. \A y : Cardinality(Copies({<<x, 1>>}, y)) = IF y = x THEN 1 ELSE 0
  BY <1>1, <1>2, FS_EmptySet
<1> QED
  BY <1>1, <1>3 DEF RpcList

(* The list of one user is replaced, or the users keep theirs. *)
LEMMA WithOne ==
  ASSUME NEW u, NEW list, rpcs' = WithRpcs(u, list)
  PROVE  /\ DOMAIN rpcs' = DOMAIN rpcs \union {u} /\ rpcs'[u] = list
         /\ \A v \in DOMAIN rpcs : v # u => rpcs'[v] = rpcs[v]
BY DEF WithRpcs

LEMMA KeepsTheirs ==
  ASSUME NEW u, \E list : rpcs' = WithRpcs(u, list), NEW v \in DOMAIN rpcs', v # u
  PROVE  v \in DOMAIN rpcs /\ rpcs'[v] = rpcs[v]
<1>1. PICK list : rpcs' = WithRpcs(u, list)
  OBVIOUS
<1>2. /\ DOMAIN rpcs' = DOMAIN rpcs \union {u}
      /\ \A i \in DOMAIN rpcs : i # u => rpcs'[i] = rpcs[i]
  BY <1>1, WithOne
<1> QED
  BY <1>2

LEMMA RpcTypesWith ==
  ASSUME RpcTypes, NEW u \in Users, NEW list, RpcList(list), rpcs' = WithRpcs(u, list)
  PROVE  RpcTypes'
<1>1. DOMAIN rpcs' \subseteq Users
  <2>1. DOMAIN rpcs' = DOMAIN rpcs \union {u}
    BY WithOne
  <2> QED
    BY <2>1 DEF RpcTypes
<1>2. ASSUME NEW v \in DOMAIN rpcs' PROVE RpcList(rpcs'[v])
  <2>1. v # u => v \in DOMAIN rpcs
    BY WithOne
  <2>2. rpcs'[v] = IF v = u THEN list ELSE rpcs[v]
    BY <2>1, WithOne
  <2> QED
    BY <2>1, <2>2 DEF RpcTypes
<1>3. \A v \in DOMAIN rpcs' : RpcList(rpcs'[v])
  BY <1>2
<1>4. RpcTypes' <=> (DOMAIN rpcs' \subseteq Users /\ \A v \in DOMAIN rpcs' : RpcList(rpcs'[v]))
  BY DEF RpcTypes, RpcList, Copies
<1> QED
  BY <1>1, <1>3, <1>4

LEMMA RpcTypesKept ==
  ASSUME IInv, NEW r \in Requests, Step(r)
  PROVE  RpcTypes'
<1> DEFINE u == mem[r].user
           x == mem[r].rpc
<1>1. u \in Users /\ x \in Rpcs /\ RpcTypes
  BY UserInHand DEF IInv
<1>2. CASE rpcs' = rpcs
  BY <1>1, <1>2 DEF RpcTypes
<1>3. CASE CreateRpc(r)
  <2>1. rpcs' = rpcs \/ rpcs' = WithRpcs(u, {<<x, 1>>})
    BY <1>3 DEF CreateRpc
  <2> HIDE DEF u, x
  <2>2. ASSUME rpcs' = WithRpcs(u, {<<x, 1>>})
        PROVE  RpcTypes'
    BY <1>1, <2>2, RpcTypesWith, JustOne
  <2> QED
    BY <1>2, <2>1, <2>2
<1>4. CASE PushRpc(r)
  <2> DEFINE more == rpcs[u] \union {<<x, Cardinality(CopiesOf(u, x)) + 1>>}
  <2>1. rpcs' = rpcs \/ (u \in DOMAIN rpcs /\ rpcs' = WithRpcs(u, more))
    BY <1>4 DEF PushRpc
  <2>2. CopiesOf(u, x) = Copies(rpcs[u], x)
    BY DEF CopiesOf, Copies
  <2> HIDE DEF u, x
  <2>3. ASSUME u \in DOMAIN rpcs, rpcs' = WithRpcs(u, more)
        PROVE  RpcTypes'
    <3>1. RpcList(more)
      BY <1>1, <2>2, <2>3, OneMore DEF RpcTypes
    <3> HIDE DEF more
    <3> QED
      BY <1>1, <2>3, <3>1, RpcTypesWith
  <2> QED
    BY <1>2, <2>1, <2>3
<1>5. CASE PullRpc(r)
  <2> DEFINE less == rpcs[u] \ CopiesOf(u, x)
  <2>1. rpcs' = rpcs \/ (u \in DOMAIN rpcs /\ rpcs' = WithRpcs(u, less))
    BY <1>5 DEF PullRpc
  <2>2. CopiesOf(u, x) = Copies(rpcs[u], x)
    BY DEF CopiesOf, Copies
  <2> HIDE DEF u, x
  <2>3. ASSUME u \in DOMAIN rpcs, rpcs' = WithRpcs(u, less)
        PROVE  RpcTypes'
    <3>1. RpcList(less)
      BY <1>1, <2>2, <2>3, OneLess DEF RpcTypes
    <3> HIDE DEF less
    <3> QED
      BY <1>1, <2>3, <3>1, RpcTypesWith
  <2> QED
    BY <1>2, <2>1, <2>3
<1> QED
  BY <1>2, <1>3, <1>4, <1>5, Frames

LEMMA IInvInductive == IInv /\ [Next]_vars => IInv'
<1> SUFFICES ASSUME IInv, [Next]_vars PROVE IInv'
  OBVIOUS
<1>1. ASSUME NEW r \in Requests, Step(r)
      PROVE  IInv'
  <2>1. NonceTypes' /\ PayerTypes' /\ RpcTypes'
    BY <1>1, NonceTypesKept, PayerTypesKept, RpcTypesKept
  <2>2. RequestTypes' /\ \A s \in Requests : RequestOK(s)'
    BY <1>1, StepIsOfOne, RequestsKept
  <2> QED
    BY <2>1, <2>2 DEF IInv
<1>2. ASSUME NEW u \in Users, DeleteRpcs(u)
      PROVE  IInv'
  <2>1. NonceTypes' /\ PayerTypes' /\ RequestTypes' /\ \A s \in Requests : RequestOK(s)'
    BY <1>2 DEF DeleteRpcs, IInv, NonceTypes, PayerTypes, RequestTypes, RequestOK
  <2>2. RpcTypes'
    BY <1>2 DEF DeleteRpcs, IInv, RpcTypes
  <2> QED
    BY <2>1, <2>2 DEF IInv
<1>3. CASE UNCHANGED vars
  BY <1>3 DEF IInv, NonceTypes, PayerTypes, RpcTypes, RequestTypes, RequestOK
<1> QED
  BY <1>1, <1>2, <1>3 DEF Next, Step

LEMMA IInvCorrect == Spec => []IInv
<1>1. Init => IInv
  <2> SUFFICES ASSUME Init PROVE IInv
    OBVIOUS
  <2>1. NonceTypes /\ PayerTypes /\ RpcTypes
    BY AccountsAssumption DEF Init, NonceTypes, PayerTypes, RpcTypes
  <2>2. RequestTypes /\ \A r \in Requests : RequestOK(r)
    BY BlankIsMemory DEF Init, RequestTypes, RequestOK, Places, WithPayer
  <2> QED
    BY <2>1, <2>2 DEF IInv
<1> QED
  BY <1>1, IInvInductive, PTL DEF Spec

(* The documents refer to what there is: a payer that was made, a nonce that was
   given out for each token, the copies of an RPC numbered from one. *)
THEOREM TypeCorrect == Spec => []TypeOK
<1>1. IInv => TypeOK
  <2> SUFFICES ASSUME IInv PROVE TypeOK
    OBVIOUS
  <2>1. \A u, x : CopiesOf(u, x) = Copies(rpcs[u], x)
    BY DEF CopiesOf, Copies
  <2>2. \A r \in Requests :
          /\ At(r, "token") => <<mem[r].user, mem[r].nonce>> \in issued
          /\ pc[r] \in WithPayer => mem[r].payer \in 1 .. made
    BY DEF IInv, RequestOK, At
  <2> QED
    BY <2>1, <2>2, UserInHand
       DEF IInv, NonceTypes, PayerTypes, RpcTypes, RpcList, TypeOK, WithPayer
<1> QED
  BY <1>1, IInvCorrect, PTL
-----------------------------------------------------------------------------
(* Nonces are drawn one after the other, so that none comes back to a user. *)
LEMMA NonceGoneInductive == IInv /\ NonceGone /\ [Next]_vars => NonceGone'
<1> SUFFICES ASSUME IInv, NonceGone, [Next]_vars PROVE NonceGone'
  OBVIOUS
<1>1. NonceTypes
  BY DEF IInv
<1>2. ASSUME NEW u \in Users, Draw(u), signins' = signins
      PROVE  NonceGone'
  BY <1>1, <1>2, Drawing DEF NonceGone, NonceTypes
<1>3. ASSUME NEW r \in Requests, Step(r)
      PROVE  NonceGone'
  <2> DEFINE w == mem[r].user
             k == <<w, mem[r].nonce>>
  <2>1. w \in Users
    BY UserInHand
  <2>2. CASE UNCHANGED <<nonce, signins>>
    BY <2>2 DEF NonceGone
  <2>3. CASE CreateUser(r) \/ Upsert(r)
    BY <1>2, <2>1, <2>3 DEF CreateUser, Upsert
  <2>4. CASE Token(r)
    <3>1. Draw(w) /\ k \in issued /\ signins' = [signins EXCEPT ![k] = @ + 1]
      BY <2>4 DEF Token, At, IInv, RequestOK
    <3>2. \A i \in Users \X Nonces : i # k => signins'[i] = signins[i]
      BY <1>1, <3>1 DEF NonceTypes
    <3>3. \A i \in issued : i[2] \in 1 .. drawn
      BY <1>1 DEF NonceTypes
    <3> HIDE DEF w, k
    <3> SUFFICES ASSUME NEW u \in Users, NEW n \in Nonces, signins'[<<u, n>>] > 0
                 PROVE  nonce'[u] # n
      BY DEF NonceGone
    <3>4. <<u, n>> \in issued
      BY <1>1, <3>1, <3>2 DEF NonceTypes
    <3>5. n \in 1 .. drawn
      BY <3>3, <3>4
    <3>6. CASE u = w
      BY <2>1, <3>1, <3>5, <3>6, Drawing
    <3>7. CASE u # w
      <4>1. nonce'[u] = nonce[u]
        BY <2>1, <3>1, <3>7, Drawing
      <4>2. <<u, n>> # k
        BY <3>7 DEF k
      <4> QED
        BY <3>2, <4>1, <4>2 DEF NonceGone
    <3> QED
      BY <3>6, <3>7
  <2>5. ASSUME NEW u \in Users, AskNonce(r, u)
        PROVE  NonceGone'
    BY <2>5 DEF AskNonce, NonceGone
  <2> QED
    BY <1>3, <2>2, <2>3, <2>4, <2>5, Frames DEF NonceVars
<1>4. ASSUME NEW u \in Users, DeleteRpcs(u)
      PROVE  NonceGone'
  BY <1>4 DEF DeleteRpcs, NonceGone
<1>5. CASE UNCHANGED vars
  BY <1>5 DEF NonceGone
<1> QED
  BY <1>3, <1>4, <1>5 DEF Next, Step

(* A set of requests that changes by one of them. *)
LEMMA CountOne ==
  ASSUME NEW S \in SUBSET Requests, NEW T \in SUBSET Requests, NEW r \in Requests,
         T \subseteq S \union {r}
  PROVE  /\ Cardinality(S) \in Nat /\ Cardinality(T) \in Nat
         /\ Cardinality(Requests) \in Nat /\ Cardinality(T) <= Cardinality(Requests)
         /\ r \in S \/ r \notin T => Cardinality(T) <= Cardinality(S)
         /\ r \in S /\ r \notin T => Cardinality(T) + 1 <= Cardinality(S)
<1>1. IsFiniteSet(Requests) /\ IsFiniteSet(S) /\ IsFiniteSet(T)
  BY AccountsAssumption, FS_Subset
<1>2. /\ Cardinality(S) \in Nat /\ Cardinality(T) \in Nat /\ Cardinality(Requests) \in Nat
      /\ Cardinality(T) <= Cardinality(Requests)
  BY <1>1, FS_CardinalityType, FS_Subset
<1>3. r \in S \/ r \notin T => Cardinality(T) <= Cardinality(S)
  <2>1. r \in S \/ r \notin T => T \in SUBSET S
    OBVIOUS
  <2> QED
    BY <1>1, <2>1, FS_Subset
<1>4. r \in S /\ r \notin T => Cardinality(T) + 1 <= Cardinality(S)
  <2> SUFFICES ASSUME r \in S, r \notin T PROVE Cardinality(T) + 1 <= Cardinality(S)
    OBVIOUS
  <2>1. IsFiniteSet(S \ {r}) /\ Cardinality(S \ {r}) = Cardinality(S) - 1
    BY <1>1, FS_RemoveElement
  <2>2. T \in SUBSET (S \ {r})
    OBVIOUS
  <2>3. Cardinality(T) <= Cardinality(S \ {r})
    BY <2>1, <2>2, FS_Subset
  <2> QED
    BY <1>2, <2>1, <2>3
<1> QED
  BY <1>2, <1>3, <1>4

(* Only login takes up a nonce to bring a token for it, and only an addition that
   found a list waits to push. *)
LEMMA LoginKept ==
  ASSUME IInv, NEW r \in Requests, Step(r), mem'[r].login
  PROVE  \/ mem[r].login /\ mem'[r].user = mem[r].user /\ mem'[r].nonce = mem[r].nonce
         \/ \E u \in Users : Login(r, u) /\ mem'[r].user = u /\ mem'[r].nonce = nonce[u]
<1> DEFINE Same == /\ mem[r].login /\ mem'[r].user = mem[r].user
                   /\ mem'[r].nonce = mem[r].nonce
<1>1. r \in DOMAIN mem /\ mem[r] \in Memory
  BY DEF IInv, RequestTypes
<1> USE DEF Hold, Return
<1>2. CASE mem'[r] \in {mem[r]} \union {[mem[r] EXCEPT !.payer = p] : p \in Nat \union {made'}}
  BY <1>1, <1>2 DEF Memory
<1>3. CASE \/ LoginUser(r) \/ MapPayer(r) \/ Deploy(r) \/ StoreHash(r)
           \/ \E u \in Users : AskNonce(r, u)
  BY <1>2, <1>3 DEF LoginUser, MapPayer, Deploy, StoreHash, AskNonce
<1>4. CASE FindWallet(r) \/ CreatePayer(r)
  <2>1. mapping[mem[r].user] \in Nat
    BY UserInHand, AccountsAssumption DEF IInv, PayerTypes
  <2> QED
    BY <1>1, <1>2, <1>4, <2>1 DEF FindWallet, CreatePayer
<1>5. CASE Fee(r)
  <2>1. mem'[r] \in {mem[r], Blank}
    BY <1>1, <1>5 DEF Fee
  <2> QED
    BY <1>2, <2>1, BlankIsMemory
<1>6. ASSUME NEW u \in Users, Login(r, u)
      PROVE  mem'[r].user = u /\ mem'[r].nonce = nonce[u]
  BY <1>1, <1>6, BlankIsMemory DEF Login, Memory
<1>7. ASSUME NEW u \in Users, NEW x \in Rpcs,
             \/ FindNoUser(r, u) \/ AskWallet(r, u) \/ FindNoPoints(r, u)
             \/ AskDeploy(r, u) \/ AddRpc(r, u, x) \/ DeleteRpc(r, u, x)
      PROVE  FALSE
  BY <1>1, <1>7, BlankIsMemory
     DEF FindNoUser, AskWallet, FindNoPoints, AskDeploy, AddRpc, DeleteRpc, Memory
<1>8. CASE \/ CreateUser(r) \/ Token(r) \/ MapBack(r) \/ Upsert(r) \/ CreateRpc(r)
           \/ PushRpc(r) \/ PullRpc(r) \/ Throws(r)
  BY <1>1, <1>8, BlankIsMemory
     DEF CreateUser, Token, MapBack, Upsert, CreateRpc, PushRpc, PullRpc, Throws
<1>9. \E x : x \in Rpcs
  BY AccountsAssumption
<1> QED
  BY <1>3, <1>4, <1>5, <1>6, <1>7, <1>8, <1>9 DEF Step, SignIn, Wallet, Points, Configure

LEMMA PushKept ==
  ASSUME IInv, NEW r \in Requests, Step(r), pc'[r] = "push"
  PROVE  \/ pc[r] = "push" /\ mem'[r] = mem[r]
         \/ \E u \in Users, x \in Rpcs :
              AddRpc(r, u, x) /\ u \in DOMAIN rpcs /\ mem'[r].user = u /\ mem'[r].rpc = x
<1>1. r \in DOMAIN mem /\ r \in DOMAIN pc
  BY DEF IInv, RequestTypes
<1> USE DEF Goto, Hold, Return
<1>2. CASE SignIn(r)
  BY <1>1, <1>2 DEF SignIn, CreateUser, LoginUser, Token, AskNonce, FindNoUser, Login
<1>3. CASE Wallet(r)
  BY <1>1, <1>3 DEF Wallet, FindWallet, CreatePayer, MapPayer, Fee, Deploy, StoreHash,
                    MapBack, AskWallet, AskDeploy
<1>4. CASE Points(r) \/ Throws(r)
  BY <1>1, <1>4 DEF Points, Upsert, FindNoPoints, Throws
<1>5. CASE CreateRpc(r) \/ PushRpc(r) \/ PullRpc(r)
  BY <1>1, <1>5 DEF CreateRpc, PushRpc, PullRpc
<1>6. ASSUME NEW u \in Users, NEW x \in Rpcs, AddRpc(r, u, x)
      PROVE  u \in DOMAIN rpcs /\ mem'[r].user = u /\ mem'[r].rpc = x
  BY <1>1, <1>6, BlankIsMemory DEF AddRpc, Memory
<1>7. ASSUME NEW u \in Users, NEW x \in Rpcs, DeleteRpc(r, u, x)
      PROVE  FALSE
  BY <1>1, <1>7 DEF DeleteRpc
<1> QED
  BY <1>2, <1>3, <1>4, <1>5, <1>6, <1>7 DEF Step, Configure

(* A token uses up one sign-in under way; and the first login with a nonce finds no
   token brought by it yet. *)
LEMMA TokensBoundedInductive ==
  IInv /\ NonceGone /\ TokensBounded /\ [Next]_vars => TokensBounded'
<1> SUFFICES ASSUME IInv, NonceGone, TokensBounded, [Next]_vars PROVE TokensBounded'
  OBVIOUS
<1>1. ASSUME NEW r \in Requests, Step(r), NEW u \in Users, NEW n \in Nonces
      PROVE  signins'[<<u, n>>] + Cardinality(Holders(u, n)') <= Cardinality(Requests)
  <2> DEFINE S == Holders(u, n)
             T == Holders(u, n)'
             k == <<mem[r].user, mem[r].nonce>>
  <2>1. S \in SUBSET Requests /\ T \in SUBSET Requests
    BY DEF Holders
  <2>2. T \subseteq S \union {r}
    BY <1>1, StepIsOfOne DEF Holders
  <2>3. /\ signins[<<u, n>>] + Cardinality(S) <= Cardinality(Requests)
        /\ signins[<<u, n>>] \in Nat /\ signins \in [Users \X Nonces -> Nat]
    BY DEF TokensBounded, IInv, NonceTypes
  <2>4. \/ r \in S \/ r \notin T
        \/ Login(r, u) /\ n = nonce[u]
    BY <1>1, LoginKept DEF Holders
  <2>5. CASE Token(r)
    <3>1. /\ signins' = [signins EXCEPT ![k] = @ + 1] /\ mem'[r] = Blank
          /\ k \in issued
      BY <2>5 DEF Token, Return, Hold, At, IInv, RequestTypes, RequestOK
    <3>2. r \notin T
      BY <3>1, BlankIsMemory DEF Holders
    <3>3. mem[r].login
      BY <2>5 DEF Token, At, IInv, RequestOK
    <3> HIDE DEF k
    <3>4. CASE k = <<u, n>>
      <4>1. r \in S
        BY <3>3, <3>4 DEF Holders, k
      <4>2. signins'[<<u, n>>] = signins[<<u, n>>] + 1
        BY <2>3, <3>1, <3>4
      <4> HIDE DEF S, T
      <4> QED
        BY <2>1, <2>2, <2>3, <3>2, <4>1, <4>2, CountOne DEF T
    <3>5. CASE k # <<u, n>>
      <4>1. signins'[<<u, n>>] = signins[<<u, n>>]
        BY <2>3, <3>1, <3>5
      <4> HIDE DEF S, T
      <4> QED
        BY <2>1, <2>2, <2>3, <3>2, <4>1, CountOne DEF T
    <3> QED
      BY <3>4, <3>5
  <2>6. CASE Login(r, u) /\ n = nonce[u]
    <3>1. signins[<<u, n>>] = 0 /\ signins' = signins
      BY <2>3, <2>6 DEF NonceGone, Login
    <3> HIDE DEF S, T
    <3> QED
      BY <2>1, <2>2, <3>1, CountOne DEF T
  <2>7. CASE signins' = signins /\ (r \in S \/ r \notin T)
    <3> HIDE DEF S, T
    <3> QED
      BY <2>1, <2>2, <2>3, <2>7, CountOne DEF T
  <2>8. signins' = signins \/ Token(r)
    <3>1. UNCHANGED NonceVars => signins' = signins
      BY DEF NonceVars
    <3> QED
      BY <1>1, <3>1, Frames DEF CreateUser, Upsert, AskNonce
  <2> QED
    BY <2>4, <2>5, <2>6, <2>7, <2>8
<1>2. ASSUME UNCHANGED <<signins, mem>>
      PROVE  TokensBounded'
  BY <1>2 DEF TokensBounded, Holders
<1> QED
  BY <1>1, <1>2 DEF Next, Step, DeleteRpcs, TokensBounded

(* A signature is used up by the token it brings; of more than one token for it there
   are no more than requests at once. *)
THEOREM SignatureCorrect == Spec => []SignatureSpent
<1>1. Init => NonceGone /\ TokensBounded
  <2> SUFFICES ASSUME Init PROVE NonceGone /\ TokensBounded
    OBVIOUS
  <2>1. signins = [k \in Users \X Nonces |-> 0] /\ mem = [r \in Requests |-> Blank]
    BY DEF Init
  <2>2. \A u \in Users, n \in Nonces : signins[<<u, n>>] = 0 /\ Holders(u, n) = {}
    BY <2>1, BlankIsMemory DEF Holders
  <2>3. Cardinality({}) = 0 /\ Cardinality(Requests) \in Nat
    BY FS_EmptySet, FS_CardinalityType, AccountsAssumption
  <2> QED
    BY <2>2, <2>3 DEF NonceGone, TokensBounded
<1>2. IInv /\ NonceGone /\ TokensBounded => SignatureSpent
  <2> SUFFICES ASSUME IInv, TokensBounded, NEW u \in Users, NEW n \in Nonces
               PROVE  signins[<<u, n>>] <= Cardinality(Requests)
    BY DEF SignatureSpent, NonceGone
  <2>1. signins[<<u, n>>] \in Nat
    BY DEF IInv, NonceTypes
  <2>2. Holders(u, n) \in SUBSET Requests
    BY DEF Holders
  <2>3. Cardinality(Holders(u, n)) \in Nat /\ Cardinality(Requests) \in Nat
    BY <2>2, AccountsAssumption, FS_Subset, FS_CardinalityType
  <2> QED
    BY <2>1, <2>3 DEF TokensBounded
<1> QED
  BY <1>1, <1>2, NonceGoneInductive, TokensBoundedInductive, IInvCorrect, PTL DEF Spec
-----------------------------------------------------------------------------
(* A nonce given out is replaced by its own token, or for a cause on record. *)
LEMMA NonceKeptInductive == IInv /\ NonceKept /\ [Next]_vars => NonceKept'
<1> SUFFICES ASSUME IInv, NonceKept, [Next]_vars PROVE NonceKept'
  OBVIOUS
<1>1. NonceTypes
  BY DEF IInv
<1>2. CASE UNCHANGED <<nonce, issued, signins, replaced>>
  BY <1>2 DEF NonceKept
<1>3. ASSUME NEW r \in Requests, Step(r)
      PROVE  NonceKept'
  <2> DEFINE w == mem[r].user
  <2>1. w \in Users
    BY UserInHand
  <2>2. CASE CreateUser(r)
    <3>1. /\ Draw(w) /\ w \notin users /\ issued' = issued \union {<<w, drawn'>>}
          /\ UNCHANGED <<signins, replaced>>
      BY <2>2 DEF CreateUser
    <3> HIDE DEF w
    <3>2. \A k \in issued : k[1] # w /\ k[1] \in Users
      BY <1>1, <3>1 DEF NonceTypes
    <3> QED
      BY <2>1, <3>1, <3>2, Drawing DEF NonceKept
  <2>3. CASE Upsert(r)
    <3>1. /\ Draw(w) /\ UNCHANGED <<issued, signins>>
          /\ replaced' = IF w \in users THEN replaced \union {<<w, nonce[w]>>} ELSE replaced
      BY <2>3 DEF Upsert
    <3> HIDE DEF w
    <3> SUFFICES ASSUME NEW k \in issued
                 PROVE  nonce'[k[1]] = k[2] \/ signins[k] > 0 \/ k \in replaced'
      BY <3>1 DEF NonceKept
    <3>2. k[1] \in users /\ k[1] \in Users /\ k = <<k[1], k[2]>>
      BY <1>1 DEF NonceTypes
    <3>3. CASE k[1] = w
      BY <3>1, <3>2, <3>3 DEF NonceKept
    <3>4. CASE k[1] # w
      BY <2>1, <3>1, <3>2, <3>4, Drawing DEF NonceKept
    <3> QED
      BY <3>3, <3>4
  <2>4. CASE Token(r)
    <3> DEFINE t == <<w, mem[r].nonce>>
    <3>1. /\ Draw(w) /\ issued' = issued /\ t \in issued
          /\ signins' = [signins EXCEPT ![t] = @ + 1]
          /\ replaced' = IF nonce[w] = mem[r].nonce THEN replaced
                         ELSE replaced \union {<<w, nonce[w]>>}
      BY <2>4 DEF Token, At, IInv, RequestOK
    <3> SUFFICES ASSUME NEW k \in issued
                 PROVE  nonce'[k[1]] = k[2] \/ signins'[k] > 0 \/ k \in replaced'
      BY <3>1 DEF NonceKept
    <3>2. k[1] \in Users /\ k = <<k[1], k[2]>> /\ k \in Users \X Nonces
      <4>1. 1 .. drawn \subseteq Nonces
        BY <1>1, AccountsAssumption DEF NonceTypes
      <4> QED
        BY <1>1, <4>1 DEF NonceTypes
    <3>3. signins \in [Users \X Nonces -> Nat]
      BY <1>1 DEF NonceTypes
    <3> DEFINE m == mem[r].nonce
    <3>4. m = mem[r].nonce /\ t = <<w, m>>
      OBVIOUS
    <3> HIDE DEF w, m, t
    <3>5. signins'[k] >= signins[k] /\ signins[k] \in Nat /\ (k = t => signins'[k] > 0)
      <4>1. k = t => signins'[k] = signins[k] + 1
        BY <3>1, <3>2, <3>3
      <4>2. k # t => signins'[k] = signins[k]
        BY <3>1, <3>2, <3>3
      <4>3. signins[k] \in Nat
        BY <3>2, <3>3
      <4> QED
        BY <4>1, <4>2, <4>3
    <3>6. CASE k[1] = w /\ k # t
      <4>1. CASE nonce[w] = k[2]
        BY <3>1, <3>2, <3>4, <3>6, <4>1
      <4>2. CASE nonce[w] # k[2]
        BY <3>1, <3>4, <3>5, <3>6, <4>2 DEF NonceKept
      <4> QED
        BY <4>1, <4>2
    <3>7. CASE k[1] # w
      BY <2>1, <3>1, <3>2, <3>5, <3>7, Drawing DEF NonceKept
    <3> QED
      BY <3>5, <3>6, <3>7
  <2>5. ASSUME NEW u \in Users, AskNonce(r, u)
        PROVE  NonceKept'
    BY <2>5 DEF AskNonce, NonceKept
  <2> QED
    BY <1>2, <1>3, <2>2, <2>3, <2>4, <2>5, Frames DEF NonceVars
<1> QED
  BY <1>2, <1>3 DEF Next, Step, DeleteRpcs

(* A nonce given to a user to sign is the user's until it has brought a token, but for
   the causes on record. *)
THEOREM NonceCorrect == Spec => []NonceKept
<1>1. Init => NonceKept
  BY DEF Init, NonceKept
<1> QED
  BY <1>1, NonceKeptInductive, IInvCorrect, PTL DEF Spec
-----------------------------------------------------------------------------
(* A list grows by the requests that wait to push to it, and these by an addition that
   found it below the limit and without the RPC. *)
Bounded(u) ==
  /\ Cardinality(rpcs[u]) + Cardinality(Pushing(u)) <= MaxRpc - 1 + Cardinality(Requests)
  /\ \A x \in Rpcs : Cardinality(Copies(rpcs[u], x)) + Cardinality(PushingRpc(u, x))
                       <= Cardinality(Requests)

LEMMA PushingStep ==
  ASSUME IInv, NEW r \in Requests, Step(r), NEW u
  PROVE  /\ Pushing(u) \in SUBSET Requests /\ Pushing(u)' \in SUBSET Requests
         /\ Pushing(u)' \subseteq Pushing(u) \union {r}
         /\ \/ r \in Pushing(u) \/ r \notin Pushing(u)'
            \/ \E y \in Rpcs : AddRpc(r, u, y) /\ u \in DOMAIN rpcs
         /\ \A x : /\ PushingRpc(u, x) \in SUBSET Requests
                   /\ PushingRpc(u, x)' \in SUBSET Requests
                   /\ PushingRpc(u, x)' \subseteq PushingRpc(u, x) \union {r}
                   /\ \/ r \in PushingRpc(u, x) \/ r \notin PushingRpc(u, x)'
                      \/ AddRpc(r, u, x) /\ u \in DOMAIN rpcs
<1>1. /\ Pushing(u)' \subseteq Pushing(u) \union {r}
      /\ \A x : PushingRpc(u, x)' \subseteq PushingRpc(u, x) \union {r}
  BY StepIsOfOne DEF Pushing, PushingRpc, At
<1>2. \/ r \in Pushing(u) \/ r \notin Pushing(u)'
      \/ \E y \in Rpcs : AddRpc(r, u, y) /\ u \in DOMAIN rpcs
  BY PushKept DEF Pushing, At
<1>3. \A x : \/ r \in PushingRpc(u, x)
             \/ r \notin PushingRpc(u, x)'
             \/ AddRpc(r, u, x) /\ u \in DOMAIN rpcs
  BY PushKept DEF Pushing, PushingRpc, At
<1> QED
  BY <1>1, <1>2, <1>3 DEF Pushing, PushingRpc

(* The list of a user whose requests do not add to it now. *)
LEMMA BoundedSame ==
  ASSUME IInv, NEW r \in Requests, Step(r), NEW u \in DOMAIN rpcs, Bounded(u),
         u \in DOMAIN rpcs', rpcs'[u] = rpcs[u]
  PROVE  Bounded(u)'
<1> DEFINE n == Cardinality(Requests)
<1>1. RpcList(rpcs[u]) /\ MaxRpc \in Nat \ {0}
  BY AccountsAssumption DEF IInv, RpcTypes
<1>2. Cardinality(rpcs[u]) \in Nat /\ \A x : Cardinality(Copies(rpcs[u], x)) \in Nat
  BY <1>1, CopiesFinite DEF RpcList
<1>3. Cardinality(rpcs[u]) + Cardinality(Pushing(u)') <= MaxRpc - 1 + n
  <2> DEFINE S == Pushing(u)
             T == Pushing(u)'
  <2>1. CASE \E y \in Rpcs : AddRpc(r, u, y)
    <3>1. Cardinality(rpcs[u]) < MaxRpc
      BY <2>1 DEF AddRpc
    <3>2. Cardinality(T) \in Nat /\ n \in Nat /\ Cardinality(T) <= n
      BY PushingStep, CountOne
    <3> HIDE DEF S, T, n
    <3> QED
      BY <1>1, <1>2, <3>1, <3>2 DEF T
  <2>2. CASE r \in S \/ r \notin T
    <3>1. /\ Cardinality(S) \in Nat /\ Cardinality(T) \in Nat /\ n \in Nat
          /\ Cardinality(T) <= Cardinality(S)
      BY <2>2, PushingStep, CountOne
    <3>2. Cardinality(rpcs[u]) + Cardinality(S) <= MaxRpc - 1 + n
      BY DEF Bounded
    <3> HIDE DEF S, T, n
    <3> QED
      BY <1>1, <1>2, <3>1, <3>2 DEF T
  <2> QED
    BY <2>1, <2>2, PushingStep
<1>4. ASSUME NEW x \in Rpcs
      PROVE  Cardinality(Copies(rpcs[u], x)) + Cardinality(PushingRpc(u, x)') <= n
  <2> DEFINE S == PushingRpc(u, x)
             T == PushingRpc(u, x)'
  <2>1. CASE AddRpc(r, u, x)
    <3>1. Copies(rpcs[u], x) = {}
      BY <2>1 DEF AddRpc, CopiesOf, Copies
    <3>2. Cardinality(Copies(rpcs[u], x)) = 0
      BY <3>1, FS_EmptySet
    <3>3. Cardinality(T) \in Nat /\ n \in Nat /\ Cardinality(T) <= n
      BY PushingStep, CountOne
    <3> HIDE DEF S, T, n
    <3> QED
      BY <3>2, <3>3 DEF T
  <2>2. CASE r \in S \/ r \notin T
    <3>1. /\ Cardinality(S) \in Nat /\ Cardinality(T) \in Nat /\ n \in Nat
          /\ Cardinality(T) <= Cardinality(S)
      BY <2>2, PushingStep, CountOne
    <3>2. Cardinality(Copies(rpcs[u], x)) + Cardinality(S) <= n
      BY DEF Bounded
    <3> HIDE DEF S, T, n
    <3> QED
      BY <1>2, <3>1, <3>2 DEF T
  <2> QED
    BY <2>1, <2>2, PushingStep
<1>5. \A x : Copies(rpcs[u], x)' = Copies(rpcs[u], x)
  BY DEF Copies
<1> QED
  BY <1>3, <1>4, <1>5 DEF Bounded

(* A request that adds, and then is done; and a list found missing, of one. *)
LEMMA BoundedPush ==
  ASSUME IInv, NEW r \in Requests, PushRpc(r), NEW u \in DOMAIN rpcs, u = mem[r].user,
         Bounded(u)
  PROVE  Bounded(u)'
<1> DEFINE x == mem[r].rpc
           more == rpcs[u] \union {<<x, Cardinality(Copies(rpcs[u], x)) + 1>>}
           n == Cardinality(Requests)
<1>1. x \in Rpcs /\ RpcList(rpcs[u]) /\ MaxRpc \in Nat \ {0}
  BY UserInHand, AccountsAssumption DEF IInv, RpcTypes
<1>2. /\ At(r, "push") /\ rpcs' = WithRpcs(u, more)
      /\ pc' = [pc EXCEPT ![r] = "idle"] /\ mem' = [mem EXCEPT ![r] = Blank]
  BY DEF PushRpc, CopiesOf, Copies, Return, Goto, Hold
<1>3. rpcs'[u] = more
  BY <1>2, WithOne
<1>4. /\ Cardinality(more) = Cardinality(rpcs[u]) + 1
      /\ Cardinality(Copies(more, x)) = Cardinality(Copies(rpcs[u], x)) + 1
      /\ \A y : y # x => Copies(more, y) = Copies(rpcs[u], y)
  BY <1>1, OneMore
<1>5. Cardinality(rpcs[u]) \in Nat /\ \A y : Cardinality(Copies(rpcs[u], y)) \in Nat
  BY <1>1, CopiesFinite DEF RpcList
<1>6. Step(r)
  BY DEF Step, Configure
<1>7. r \notin Pushing(u)' /\ \A y : r \notin PushingRpc(u, y)'
  <2>1. pc'[r] # "push"
    BY <1>2 DEF IInv, RequestTypes
  <2> QED
    BY <2>1 DEF Pushing, PushingRpc, At
<1>8. r \in Pushing(u) /\ r \in PushingRpc(u, x)
  BY <1>2 DEF Pushing, PushingRpc, At
<1>9. Cardinality(more) + Cardinality(Pushing(u)') <= MaxRpc - 1 + n
  <2> DEFINE S == Pushing(u)
             T == Pushing(u)'
  <2>1. /\ Cardinality(S) \in Nat /\ Cardinality(T) \in Nat /\ n \in Nat
        /\ Cardinality(T) + 1 <= Cardinality(S)
    BY <1>6, <1>7, <1>8, PushingStep, CountOne
  <2>2. Cardinality(rpcs[u]) + Cardinality(S) <= MaxRpc - 1 + n
    BY DEF Bounded
  <2> HIDE DEF S, T, n, more, x
  <2> QED
    BY <1>1, <1>4, <1>5, <2>1, <2>2 DEF T
<1>10. ASSUME NEW y \in Rpcs
       PROVE  Cardinality(Copies(more, y)) + Cardinality(PushingRpc(u, y)') <= n
  <2> DEFINE S == PushingRpc(u, y)
             T == PushingRpc(u, y)'
  <2>1. /\ Cardinality(S) \in Nat /\ Cardinality(T) \in Nat /\ n \in Nat
        /\ Cardinality(T) <= Cardinality(S)
        /\ r \in S => Cardinality(T) + 1 <= Cardinality(S)
    BY <1>6, <1>7, PushingStep, CountOne
  <2>2. Cardinality(Copies(rpcs[u], y)) + Cardinality(S) <= n
    BY DEF Bounded
  <2>3. y = x => r \in S
    BY <1>8
  <2> HIDE DEF S, T, n, more, x
  <2>4. CASE y = x
    BY <1>4, <1>5, <2>1, <2>2, <2>3, <2>4 DEF T
  <2>5. CASE y # x
    BY <1>4, <1>5, <2>1, <2>2, <2>5 DEF T
  <2> QED
    BY <2>4, <2>5
<1>11. \A y : Copies(rpcs[u], y)' = Copies(more, y)
  BY <1>3 DEF Copies
<1> HIDE DEF more, n
<1> QED
  BY <1>3, <1>9, <1>10, <1>11 DEF Bounded, n

LEMMA BoundedCreate ==
  ASSUME IInv, NEW r \in Requests, CreateRpc(r), NEW u, u = mem[r].user, u \notin DOMAIN rpcs
  PROVE  Bounded(u)'
<1> DEFINE x == mem[r].rpc
           n == Cardinality(Requests)
<1>1. x \in Rpcs /\ MaxRpc \in Nat \ {0}
  BY UserInHand, AccountsAssumption
<1>2. /\ rpcs' = WithRpcs(u, {<<x, 1>>})
      /\ pc' = [pc EXCEPT ![r] = "idle"] /\ mem' = [mem EXCEPT ![r] = Blank]
  BY DEF CreateRpc, Return, Goto, Hold
<1>3. rpcs'[u] = {<<x, 1>>}
  BY <1>2, WithOne
<1>4. pc'[r] # "push"
  BY <1>2 DEF IInv, RequestTypes
<1>5. ASSUME NEW T \in SUBSET Requests, r \notin T
      PROVE  Cardinality(T) \in Nat /\ n \in Nat /\ Cardinality(T) + 1 <= n
  <2>1. Requests \in SUBSET Requests /\ T \subseteq Requests \union {r}
    OBVIOUS
  <2> QED
    BY <1>5, <2>1, CountOne
<1>6. /\ Pushing(u)' \in SUBSET Requests /\ r \notin Pushing(u)'
      /\ \A y : PushingRpc(u, y)' \in SUBSET Requests /\ r \notin PushingRpc(u, y)'
  BY <1>4 DEF Pushing, PushingRpc, At
<1> HIDE DEF x, n
<1>7. Cardinality(rpcs'[u]) = 1
      /\ \A y : Cardinality(Copies(rpcs'[u], y)) = IF y = x THEN 1 ELSE 0
  <2>1. /\ Cardinality({<<x, 1>>}) = 1
        /\ \A y : Cardinality(Copies({<<x, 1>>}, y)) = IF y = x THEN 1 ELSE 0
    BY <1>1, JustOne
  <2> QED
    BY <1>3, <2>1
<1>8. Cardinality(rpcs'[u]) + Cardinality(Pushing(u)') <= MaxRpc - 1 + n
  BY <1>1, <1>5, <1>6, <1>7
<1>9. \A y \in Rpcs : Cardinality(Copies(rpcs'[u], y)) + Cardinality(PushingRpc(u, y)') <= n
  BY <1>5, <1>6, <1>7
<1>10. \A y : Copies(rpcs[u], y)' = Copies(rpcs'[u], y)
  BY DEF Copies
<1> QED
  BY <1>8, <1>9, <1>10 DEF Bounded, n

(* A request that takes an RPC out. *)
LEMMA BoundedPull ==
  ASSUME IInv, NEW r \in Requests, PullRpc(r), NEW u \in DOMAIN rpcs, u = mem[r].user,
         Bounded(u)
  PROVE  Bounded(u)'
<1> DEFINE x == mem[r].rpc
           less == rpcs[u] \ Copies(rpcs[u], x)
           n == Cardinality(Requests)
<1>1. x \in Rpcs /\ RpcList(rpcs[u]) /\ MaxRpc \in Nat \ {0}
  BY UserInHand, AccountsAssumption DEF IInv, RpcTypes
<1>2. /\ rpcs' = WithRpcs(u, less)
      /\ pc' = [pc EXCEPT ![r] = "idle"] /\ mem' = [mem EXCEPT ![r] = Blank]
  BY DEF PullRpc, CopiesOf, Copies, Return, Goto, Hold
<1>3. rpcs'[u] = less
  BY <1>2, WithOne
<1>4. /\ RpcList(less) /\ Cardinality(less) <= Cardinality(rpcs[u])
      /\ \A y : Cardinality(Copies(less, y)) <= Cardinality(Copies(rpcs[u], y))
  BY <1>1, OneLess
<1>5. /\ Cardinality(rpcs[u]) \in Nat /\ \A y : Cardinality(Copies(rpcs[u], y)) \in Nat
      /\ Cardinality(less) \in Nat /\ \A y : Cardinality(Copies(less, y)) \in Nat
  BY <1>1, <1>4, CopiesFinite DEF RpcList
<1>6. Step(r)
  BY DEF Step, Configure
<1>7. r \notin Pushing(u)' /\ \A y : r \notin PushingRpc(u, y)'
  <2>1. pc'[r] # "push"
    BY <1>2 DEF IInv, RequestTypes
  <2> QED
    BY <2>1 DEF Pushing, PushingRpc, At
<1>8. /\ Cardinality(Pushing(u)) \in Nat /\ Cardinality(Pushing(u)') \in Nat /\ n \in Nat
      /\ Cardinality(Pushing(u)') <= Cardinality(Pushing(u))
  BY <1>6, <1>7, PushingStep, CountOne
<1>9. \A y : /\ Cardinality(PushingRpc(u, y)) \in Nat /\ Cardinality(PushingRpc(u, y)') \in Nat
             /\ Cardinality(PushingRpc(u, y)') <= Cardinality(PushingRpc(u, y))
  BY <1>6, <1>7, PushingStep, CountOne
<1> HIDE DEF less, n
<1>10. Cardinality(less) + Cardinality(Pushing(u)') <= MaxRpc - 1 + n
  BY <1>1, <1>4, <1>5, <1>8 DEF Bounded, n
<1>11. \A y \in Rpcs : Cardinality(Copies(less, y)) + Cardinality(PushingRpc(u, y)') <= n
  BY <1>4, <1>5, <1>8, <1>9 DEF Bounded, n
<1>12. \A y : Copies(rpcs[u], y)' = Copies(less, y)
  BY <1>3 DEF Copies
<1> QED
  BY <1>3, <1>10, <1>11, <1>12 DEF Bounded, n

RpcInv == \A u \in DOMAIN rpcs : Bounded(u)

LEMMA RpcInvInductive == IInv /\ RpcInv /\ [Next]_vars => RpcInv'
<1> SUFFICES ASSUME IInv, RpcInv, [Next]_vars PROVE RpcInv'
  OBVIOUS
<1>1. ASSUME NEW r \in Requests, Step(r)
      PROVE  RpcInv'
  <2> SUFFICES ASSUME NEW u \in DOMAIN rpcs' PROVE Bounded(u)'
    BY DEF RpcInv
  <2>1. CASE u \in DOMAIN rpcs /\ rpcs'[u] = rpcs[u]
    BY <1>1, <2>1, BoundedSame DEF RpcInv
  <2>2. CASE PushRpc(r)
    <3>1. \/ rpcs' = rpcs
          \/ /\ mem[r].user \in DOMAIN rpcs
             /\ \E list : rpcs' = WithRpcs(mem[r].user, list)
      BY <2>2 DEF PushRpc
    <3>2. CASE u = mem[r].user /\ u \in DOMAIN rpcs
      BY <2>2, <3>2, BoundedPush DEF RpcInv
    <3> QED
      BY <2>1, <3>1, <3>2, KeepsTheirs
  <2>3. CASE PullRpc(r)
    <3>1. \/ rpcs' = rpcs
          \/ /\ mem[r].user \in DOMAIN rpcs
             /\ \E list : rpcs' = WithRpcs(mem[r].user, list)
      BY <2>3 DEF PullRpc
    <3>2. CASE u = mem[r].user /\ u \in DOMAIN rpcs
      BY <2>3, <3>2, BoundedPull DEF RpcInv
    <3> QED
      BY <2>1, <3>1, <3>2, KeepsTheirs
  <2>4. CASE CreateRpc(r)
    <3>1. \/ rpcs' = rpcs
          \/ /\ mem[r].user \notin DOMAIN rpcs
             /\ \E list : rpcs' = WithRpcs(mem[r].user, list)
      BY <2>4 DEF CreateRpc
    <3>2. CASE u = mem[r].user /\ u \notin DOMAIN rpcs
      BY <2>4, <3>2, BoundedCreate
    <3> QED
      BY <2>1, <3>1, <3>2, KeepsTheirs
  <2>5. CASE rpcs' = rpcs
    BY <2>1, <2>5
  <2> QED
    BY <1>1, <2>2, <2>3, <2>4, <2>5, Frames
<1>2. ASSUME NEW u \in Users, DeleteRpcs(u)
      PROVE  RpcInv'
  BY <1>2 DEF DeleteRpcs, RpcInv, Bounded, Pushing, PushingRpc, At, Copies
<1>3. CASE UNCHANGED vars
  BY <1>3 DEF RpcInv, Bounded, Pushing, PushingRpc, At, Copies
<1> QED
  BY <1>1, <1>2, <1>3 DEF Next, Step

(* A list of RPCs outgrows 'Max RPC', and repeats an RPC, by no more than the requests
   at once that were decided on the list before. *)
THEOREM RpcsCorrect == Spec => []RpcsBounded
<1>1. Init => RpcInv
  BY DEF Init, RpcInv
<1>2. IInv /\ RpcInv => RpcsBounded
  <2> SUFFICES ASSUME IInv, RpcInv, NEW u \in DOMAIN rpcs
               PROVE  /\ Cardinality(rpcs[u]) <= MaxRpc - 1 + Cardinality(Requests)
                      /\ \A x \in Rpcs : Cardinality(Copies(rpcs[u], x))
                                            <= Cardinality(Requests)
    BY DEF RpcsBounded, CopiesOf, Copies
  <2>1. /\ Cardinality(rpcs[u]) \in Nat /\ \A x : Cardinality(Copies(rpcs[u], x)) \in Nat
    BY CopiesFinite DEF IInv, RpcTypes, RpcList
  <2>2. /\ Pushing(u) \in SUBSET Requests
        /\ \A x : PushingRpc(u, x) \in SUBSET Requests
    BY DEF Pushing, PushingRpc
  <2>3. /\ Cardinality(Pushing(u)) \in Nat /\ Cardinality(Requests) \in Nat
        /\ \A x : Cardinality(PushingRpc(u, x)) \in Nat
    BY <2>2, AccountsAssumption, FS_Subset, FS_CardinalityType
  <2> QED
    BY <2>1, <2>3, AccountsAssumption DEF RpcInv, Bounded
<1> QED
  BY <1>1, <1>2, RpcInvInductive, IInvCorrect, PTL DEF Spec
-----------------------------------------------------------------------------
(* Where a step leaves the mapping alone, the request has the mapped payer in hand or
   none, or keeps the one it had. *)
LEMMA MapSame ==
  ASSUME IInv, MapInv, NEW r \in Requests, Step(r), UNCHANGED <<mapping, raced, handed>>,
         \/ pc'[r] \notin WithPayer
         \/ /\ pc'[r] \in WithPayer \ {"map"}
            /\ mapping[mem'[r].user] = mem'[r].payer \/ mem'[r].user \in raced
  PROVE  MapInv'
<1>1. \A s \in Requests : s # r => pc'[s] = pc[s] /\ mem'[s] = mem[s]
  BY StepIsOfOne
<1>2. pc'[r] # "map"
  BY DEF WithPayer
<1>3. MapAlone'
  BY <1>1, <1>2 DEF MapInv, MapAlone, At
<1>4. PayerInHand'
  BY <1>1, <1>2 DEF MapInv, PayerInHand
<1>5. HandedKept'
  BY DEF MapInv, HandedKept
<1> QED
  BY <1>3, <1>4, <1>5 DEF MapInv

LEMMA CreatePayerMaps ==
  ASSUME IInv, MapInv, NEW r \in Requests, CreatePayer(r)
  PROVE  MapInv'
<1> DEFINE u == mem[r].user
<1>1. /\ pc' = [pc EXCEPT ![r] = "map"] /\ mem' = [mem EXCEPT ![r] = [@ EXCEPT !.payer = made']]
      /\ raced' = IF mapping[u] # 0 \/ \E s \in Requests : At(s, "map") /\ mem[s].user = u
                  THEN raced \union {u} ELSE raced
      /\ UNCHANGED <<mapping, handed>>
  BY DEF CreatePayer, Goto, Hold
<1>2. /\ pc'[r] = "map" /\ mem'[r].user = u
      /\ \A s \in Requests : s # r => pc'[s] = pc[s] /\ mem'[s] = mem[s]
  BY <1>1 DEF IInv, RequestTypes, Memory
<1>3. raced \subseteq raced'
  BY <1>1
<1>4. MapAlone'
  <2> SUFFICES ASSUME NEW q \in Requests, pc'[q] = "map", mem'[q].user \notin raced'
               PROVE  /\ mapping[mem'[q].user] = 0
                      /\ \A s \in Requests : pc'[s] = "map" /\ mem'[s].user = mem'[q].user
                                              => s = q
    BY <1>1 DEF MapAlone, At
  <2>1. CASE q = r
    BY <1>1, <1>2, <2>1 DEF At
  <2>2. CASE q # r
    <3>1. pc[q] = "map" /\ mem'[q] = mem[q]
      BY <1>2, <2>2
    <3>2. mem[q].user # u
      BY <1>1, <3>1 DEF At
    <3> QED
      BY <1>2, <1>3, <2>2, <3>1, <3>2 DEF MapInv, MapAlone, At
  <2> QED
    BY <2>1, <2>2
<1>5. PayerInHand'
  BY <1>1, <1>2, <1>3 DEF MapInv, PayerInHand
<1>6. HandedKept'
  BY <1>1, <1>3 DEF MapInv, HandedKept
<1> QED
  BY <1>4, <1>5, <1>6 DEF MapInv

LEMMA MapPayerMaps ==
  ASSUME IInv, MapInv, NEW r \in Requests, MapPayer(r)
  PROVE  MapInv'
<1> DEFINE u == mem[r].user
           p == mem[r].payer
<1>1. /\ pc[r] = "map" /\ pc' = [pc EXCEPT ![r] = "fee"]
      /\ mapping' = [mapping EXCEPT ![u] = p]
      /\ UNCHANGED <<mem, raced, handed>>
  BY DEF MapPayer, Goto, At
<1>2. pc'[r] = "fee" /\ \A s \in Requests : s # r => pc'[s] = pc[s]
  BY <1>1 DEF IInv, RequestTypes
<1>3. /\ u \in Users /\ mapping'[u] = p
      /\ \A v \in Users : v # u => mapping'[v] = mapping[v]
  BY <1>1, UserInHand DEF IInv, PayerTypes
<1>4. \A s \in Requests : mem[s].user \in Users /\ (pc[s] \in WithPayer => mem[s].payer # 0)
  <2>1. \A s \in Requests : pc[s] \in WithPayer => mem[s].payer \in 1 .. made
    BY DEF IInv, RequestOK
  <2> QED
    BY <2>1, UserInHand
<1>5. u \in raced \/ (/\ mapping[u] = 0
                     /\ \A s \in Requests : At(s, "map") /\ mem[s].user = u => s = r)
  BY <1>1 DEF MapInv, MapAlone, At
<1> HIDE DEF u, p
<1>6. MapAlone'
  <2> SUFFICES ASSUME NEW q \in Requests, pc'[q] = "map", mem[q].user \notin raced
               PROVE  /\ mapping'[mem[q].user] = 0
                      /\ \A s \in Requests : pc'[s] = "map" /\ mem[s].user = mem[q].user
                                              => s = q
    BY <1>1 DEF MapAlone, At
  <2>1. q # r /\ pc[q] = "map"
    BY <1>2
  <2>2. mem[q].user # u
    BY <1>5, <2>1 DEF At
  <2>3. mapping'[mem[q].user] = mapping[mem[q].user]
    BY <1>3, <1>4, <2>2
  <2> QED
    BY <1>2, <2>1, <2>3 DEF MapInv, MapAlone, At
<1>7. PayerInHand'
  <2> SUFFICES ASSUME NEW q \in Requests, pc'[q] \in WithPayer \ {"map"},
                      mem[q].user \notin raced
               PROVE  mapping'[mem[q].user] = mem[q].payer
    BY <1>1 DEF PayerInHand
  <2>1. CASE q = r
    BY <1>3, <2>1 DEF u, p
  <2>2. CASE q # r
    <3>1. mapping[mem[q].user] = mem[q].payer /\ mem[q].payer # 0
      BY <1>2, <1>4, <2>2 DEF MapInv, PayerInHand
    <3>2. mem[q].user # u
      BY <1>5, <3>1
    <3> QED
      BY <1>3, <1>4, <3>1, <3>2
  <2> QED
    BY <2>1, <2>2
<1>8. HandedKept'
  <2> SUFFICES ASSUME NEW k \in handed, k[1] \notin raced PROVE mapping'[k[1]] = k[2]
    BY <1>1 DEF HandedKept
  <2>1. k[1] \in Users /\ k[2] # 0 /\ mapping[k[1]] = k[2]
    BY DEF IInv, PayerTypes, MapInv, HandedKept
  <2>2. k[1] # u
    BY <1>5, <2>1
  <2> QED
    BY <1>3, <2>1, <2>2
<1> QED
  BY <1>6, <1>7, <1>8 DEF MapInv

LEMMA MapBackMaps ==
  ASSUME IInv, MapInv, NEW r \in Requests, MapBack(r)
  PROVE  MapInv'
<1> DEFINE u == mem[r].user
           p == mem[r].payer
<1>1. /\ pc[r] = "mapBack" /\ pc' = [pc EXCEPT ![r] = "idle"]
      /\ mapping' = [mapping EXCEPT ![u] = p]
      /\ UNCHANGED <<raced, handed>>
  BY DEF MapBack, Return, Goto, At
<1>2. /\ pc'[r] = "idle"
      /\ \A s \in Requests : s # r => pc'[s] = pc[s] /\ mem'[s] = mem[s]
  BY <1>1, StepIsOfOne DEF IInv, RequestTypes, Step, Wallet
<1>3. mapping[u] = p \/ u \in raced
  BY <1>1 DEF MapInv, PayerInHand, WithPayer
<1>4. u \in Users /\ mapping \in [Users -> 0 .. made]
  BY UserInHand DEF IInv, PayerTypes
<1> HIDE DEF u, p
<1>5. \A v \in Users : v \in raced \/ mapping'[v] = mapping[v]
  BY <1>1, <1>3, <1>4
<1>6. MapAlone'
  BY <1>1, <1>2, <1>5, UserInHand DEF MapInv, MapAlone, At
<1>7. PayerInHand'
  BY <1>1, <1>2, <1>5, UserInHand DEF MapInv, PayerInHand, WithPayer
<1>8. HandedKept'
  <2>1. \A k \in handed : k[1] \in Users
    BY DEF IInv, PayerTypes
  <2> QED
    BY <1>1, <1>5, <2>1 DEF MapInv, HandedKept
<1> QED
  BY <1>6, <1>7, <1>8 DEF MapInv

LEMMA FeeMaps ==
  ASSUME IInv, MapInv, NEW r \in Requests, Fee(r)
  PROVE  MapInv'
<1> DEFINE u == mem[r].user
           p == mem[r].payer
<1>1. /\ pc[r] = "fee" /\ UNCHANGED <<mapping, raced>>
      /\ handed' = handed \/ handed' = handed \union {<<u, p>>}
  BY DEF Fee, At
<1>2. /\ pc'[r] \notin WithPayer
      /\ \A s \in Requests : s # r => pc'[s] = pc[s] /\ mem'[s] = mem[s]
  <2>1. r \in DOMAIN pc
    BY DEF IInv, RequestTypes
  <2> QED
    BY <2>1, StepIsOfOne DEF Fee, Return, Goto, WithPayer, Step, Wallet
<1>3. mapping[u] = p \/ u \in raced
  BY <1>1 DEF MapInv, PayerInHand, WithPayer
<1>4. MapAlone' /\ PayerInHand'
  BY <1>1, <1>2 DEF MapInv, MapAlone, PayerInHand, At, WithPayer
<1>5. HandedKept'
  BY <1>1, <1>3 DEF MapInv, HandedKept
<1> QED
  BY <1>4, <1>5 DEF MapInv

LEMMA MapInvInductive == IInv /\ MapInv /\ [Next]_vars => MapInv'
<1> SUFFICES ASSUME IInv, MapInv, [Next]_vars PROVE MapInv'
  OBVIOUS
<1>1. ASSUME NEW r \in Requests, Step(r)
      PROVE  MapInv'
  <2>1. r \in DOMAIN pc /\ r \in DOMAIN mem /\ mem[r] \in Memory
    BY DEF IInv, RequestTypes
  <2> USE DEF At, Goto, Hold, Return, WithPayer
  <2>2. CASE SignIn(r)
    <3>1. pc'[r] \notin WithPayer /\ UNCHANGED <<mapping, raced, handed>>
      BY <2>1, <2>2
         DEF SignIn, CreateUser, LoginUser, Token, AskNonce, FindNoUser, Login
    <3> QED
      BY <1>1, <3>1, MapSame
  <2>3. CASE Points(r) \/ Configure(r) \/ Throws(r)
    <3>1. pc'[r] \notin WithPayer /\ UNCHANGED <<mapping, raced, handed>>
      BY <2>1, <2>3 DEF Points, Upsert, FindNoPoints, Configure, CreateRpc, PushRpc, PullRpc,
                        AddRpc, DeleteRpc, Throws
    <3> QED
      BY <1>1, <3>1, MapSame
  <2>4. CASE FindWallet(r)
    <3>1. UNCHANGED <<mapping, raced, handed>>
      BY <2>4 DEF FindWallet
    <3>2. \/ pc'[r] = "fee" /\ mem'[r] = [mem[r] EXCEPT !.payer = mapping[mem[r].user]]
          \/ pc'[r] = "createPayer"
      BY <2>1, <2>4 DEF FindWallet
    <3>3. \/ pc'[r] = "createPayer"
          \/ pc'[r] = "fee" /\ mapping[mem'[r].user] = mem'[r].payer
      BY <2>1, <3>2 DEF Memory
    <3> QED
      BY <1>1, <3>1, <3>3, MapSame
  <2>5. CASE Deploy(r) \/ StoreHash(r)
    <3>1. /\ pc[r] \in {"deploy", "hash"} /\ pc'[r] \in {"hash", "mapBack"} /\ mem' = mem
          /\ UNCHANGED <<mapping, raced, handed>>
      BY <2>1, <2>5 DEF Deploy, StoreHash
    <3>2. mapping[mem[r].user] = mem[r].payer \/ mem[r].user \in raced
      BY <3>1 DEF MapInv, PayerInHand
    <3> QED
      BY <1>1, <3>1, <3>2, MapSame
  <2>6. ASSUME NEW u \in Users, AskWallet(r, u)
        PROVE  MapInv'
    <3>1. pc'[r] = "wallet" /\ UNCHANGED <<mapping, raced, handed>>
      BY <2>1, <2>6 DEF AskWallet
    <3> QED
      BY <1>1, <3>1, MapSame
  <2>7. ASSUME NEW u \in Users, AskDeploy(r, u)
        PROVE  MapInv'
    <3>1. /\ pc'[r] = "deploy" /\ UNCHANGED <<mapping, raced, handed>>
          /\ mem'[r] = [Blank EXCEPT !.user = u, !.payer = mapping[u]]
      BY <2>1, <2>7 DEF AskDeploy
    <3>2. mem'[r].user = u /\ mem'[r].payer = mapping[u]
      BY <3>1, BlankIsMemory DEF Memory
    <3> QED
      BY <1>1, <3>1, <3>2, MapSame
  <2> QED
    BY <1>1, <2>2, <2>3, <2>4, <2>5, <2>6, <2>7, CreatePayerMaps, MapPayerMaps, MapBackMaps,
       FeeMaps DEF Step, Wallet
<1>2. CASE UNCHANGED <<pc, mem, mapping, raced, handed>>
  BY <1>2 DEF MapInv, MapAlone, PayerInHand, HandedKept, At
<1> QED
  BY <1>1, <1>2 DEF Next, Step, DeleteRpcs

LEMMA DeployKnownInductive == IInv /\ DeployKnown /\ [Next]_vars => DeployKnown'
<1> SUFFICES ASSUME IInv, DeployKnown, [Next]_vars PROVE DeployKnown'
  OBVIOUS
<1>1. ASSUME NEW r \in Requests, Step(r)
      PROVE  DeployKnown'
  <2>1. \A s \in Requests : s # r => pc'[s] = pc[s] /\ mem'[s] = mem[s]
    BY <1>1, StepIsOfOne
  <2>2. deployHash \subseteq deployHash' /\ cut \subseteq cut'
    BY <1>1, Frames DEF PayerVars, PayerStep, CreatePayer, MapPayer, Fee, Deploy, StoreHash,
                        MapBack, Throws
  <2>3. pc[r] = "hash" => mem[r].payer \in deployHash' \union cut'
    <3> SUFFICES ASSUME pc[r] = "hash" PROVE mem[r].payer \in deployHash' \union cut'
      OBVIOUS
    <3>1. StoreHash(r) \/ Throws(r)
      BY <1>1 DEF Step, At, SignIn, CreateUser, LoginUser, Token, AskNonce, FindNoUser, Login,
                  Wallet, FindWallet, CreatePayer, MapPayer, Fee, Deploy, MapBack, AskWallet,
                  AskDeploy, Points, Upsert, FindNoPoints, Configure, CreateRpc, PushRpc,
                  PullRpc, AddRpc, DeleteRpc
    <3> QED
      BY <3>1 DEF StoreHash, Throws, At
  <2>4. CASE Deploy(r)
    <3>1. /\ deployed' = deployed \union {mem[r].payer} /\ mem' = mem
          /\ pc'[r] = "hash"
      BY <2>4 DEF Deploy, Goto, IInv, RequestTypes
    <3> QED
      BY <2>1, <2>2, <2>3, <3>1 DEF DeployKnown, At
  <2>5. CASE deployed' = deployed
    BY <2>1, <2>2, <2>3, <2>5 DEF DeployKnown, At
  <2> QED
    BY <1>1, <2>4, <2>5, Frames DEF PayerVars, PayerStep, CreatePayer, MapPayer, Fee, StoreHash,
                                    MapBack, Throws
<1>2. CASE UNCHANGED <<pc, mem, deployed, deployHash, cut>>
  BY <1>2 DEF DeployKnown, At
<1> QED
  BY <1>1, <1>2 DEF Next, Step, DeleteRpcs

(* The payer a user was given and sends ether to is the one the service mints with, and
   what is deployed is known to be, but for the causes on record. *)
THEOREM PayerCorrect == Spec => []PayerUsable
<1>1. Init => MapInv /\ DeployKnown
  BY DEF Init, MapInv, MapAlone, PayerInHand, HandedKept, DeployKnown, At, WithPayer
<1>2. MapInv /\ DeployKnown => PayerUsable
  BY DEF MapInv, HandedKept, DeployKnown, PayerUsable
<1> QED
  BY <1>1, <1>2, MapInvInductive, DeployKnownInductive, IInvCorrect, PTL DEF Spec
=============================================================================
