------------------------------- MODULE Accounts -------------------------------
(***************************************************************************)
(* The documents the API service keeps about a user, and the requests that *)
(* read and change them: sign in with a nonce (packages/api-service/src/   *)
(* auth), make and deploy the payer account the service mints with         *)
(* (.../wallet), and keep a list of RPCs (.../user).  In the same          *)
(* collection, the consumers of onchain-queue make a user they have points *)
(* for (onchain-queue/src/userpoints/userpoint.service.ts).                *)
(*                                                                         *)
(* A request waits at each await; no two of its database operations are    *)
(* one.  Keys, fees and balances are left out: a balance suffices or not.  *)
(***************************************************************************)
EXTENDS Integers, FiniteSets

CONSTANTS
  Users,      (* addresses of users                                        *)
  Requests,   (* requests that can be under way at one time                *)
  Rpcs,       (* URLs                                                      *)
  MaxRpc,     (* length of a list above which none is added; 5 in the code *)
  MaxNonces,  (* bound on the nonces drawn                                 *)
  MaxPayers   (* bound on the payer accounts made                          *)

ASSUME AccountsAssumption ==
  /\ Users # {} /\ Rpcs # {}
  /\ IsFiniteSet(Requests) /\ MaxRpc \in Nat \ {0}
  /\ MaxNonces \in Nat /\ MaxPayers \in Nat

Nonces == 1 .. MaxNonces
Payers == 1 .. MaxPayers

VARIABLES
  users,       (* users with a document                                    *)
  nonce,       (* their nonce                                              *)
  mapping,     (* mappingAddress: their payer account, 0 if none           *)
  deployHash,  (* payer documents with a deployHash                        *)
  rpcs,        (* rpcPublicStore of the users with a configuration, as the
                  set of its <<RPC, i>>: the copies of an RPC are numbered *)
  drawn,       (* nonces drawn so far                                      *)
  made,        (* payer accounts made so far                               *)
  deployed,    (* the chain: payer accounts deployed                       *)
  pc, mem,     (* what each request waits for, and its locals              *)
  issued,      (* history: <<user, nonce>> given to the user to sign       *)
  signins,     (* history: tokens given for each of them                   *)
  handed,      (* history: <<user, payer>> given to the user               *)
  raced,       (* history: users for whom a payer was made though they had
                  one, or one was about to be theirs                       *)
  cut,         (* history: payers whose deployment was not recorded        *)
  replaced     (* history: <<user, nonce>> replaced before it was used     *)

docs == <<users, nonce, mapping, deployHash, rpcs>>
world == <<drawn, made, deployed>>
history == <<issued, signins, handed, raced, cut, replaced>>
vars == <<docs, world, pc, mem, history>>

Blank == [user |-> CHOOSE u \in Users : TRUE, nonce |-> 0, payer |-> 0,
          rpc |-> CHOOSE x \in Rpcs : TRUE, login |-> FALSE]

Init ==
  /\ users = {} /\ nonce = [u \in Users |-> 0] /\ mapping = [u \in Users |-> 0]
  /\ deployHash = {} /\ rpcs = [u \in {} |-> {}]
  /\ drawn = 0 /\ made = 0 /\ deployed = {}
  /\ pc = [r \in Requests |-> "idle"] /\ mem = [r \in Requests |-> Blank]
  /\ issued = {} /\ signins = [k \in Users \X Nonces |-> 0]
  /\ handed = {} /\ raced = {} /\ cut = {} /\ replaced = {}

At(r, l) == pc[r] = l
Goto(r, l) == pc' = [pc EXCEPT ![r] = l]
Hold(r, m) == mem' = [mem EXCEPT ![r] = m]
Return(r) == Goto(r, "idle") /\ Hold(r, Blank)
Draw(u) == /\ drawn < MaxNonces /\ drawn' = drawn + 1
           /\ nonce' = [nonce EXCEPT ![u] = drawn']
-----------------------------------------------------------------------------
(* getNonce: getOrCreateUser finds the user, or creates one; the unique index
   refuses a second. *)
AskNonceRenewing(r, u) ==  \* mistaken: each question draws a nonce
  /\ At(r, "idle") /\ u \in users
  /\ Draw(u) /\ issued' = issued \union {<<u, drawn'>>}
  /\ UNCHANGED <<users, mapping, deployHash, rpcs, made, deployed, pc, mem, signins,
                 handed, raced, cut, replaced>>
AskNonce(r, u) ==
  /\ At(r, "idle") /\ u \in users
  /\ issued' = issued \union {<<u, nonce[u]>>}
  /\ UNCHANGED <<docs, world, pc, mem, signins, handed, raced, cut, replaced>>
FindNoUser(r, u) ==
  /\ At(r, "idle") /\ u \notin users
  /\ Goto(r, "createUser") /\ Hold(r, [Blank EXCEPT !.user = u])
  /\ UNCHANGED <<docs, world, history>>
CreateUser(r) ==
  /\ At(r, "createUser") /\ mem[r].user \notin users
  /\ users' = users \union {mem[r].user} /\ Draw(mem[r].user)
  /\ issued' = issued \union {<<mem[r].user, drawn'>>}
  /\ Return(r)
  /\ UNCHANGED <<mapping, deployHash, rpcs, made, deployed, signins, handed, raced,
                 cut, replaced>>

(* login: the signature is of the nonce the user has now, or login throws. *)
Login(r, u) ==
  /\ At(r, "idle") /\ <<u, nonce[u]>> \in issued
  /\ Goto(r, "signedIn") /\ Hold(r, [Blank EXCEPT !.user = u, !.nonce = nonce[u],
                                                  !.login = TRUE])
  /\ UNCHANGED <<docs, world, history>>
LoginUser(r) ==
  /\ At(r, "signedIn")
  /\ Goto(r, IF mapping[mem[r].user] # 0 THEN "token" ELSE "wallet")
  /\ UNCHANGED <<docs, world, mem, history>>
(* The token is made, the nonce replaced, and the answer sent. *)
TokenKeepingNonce(r) ==  \* mistaken: without updateRandomNonce
  /\ At(r, "token")
  /\ signins' = [signins EXCEPT ![<<mem[r].user, mem[r].nonce>>] = @ + 1]
  /\ Return(r)
  /\ UNCHANGED <<docs, world, issued, handed, raced, cut, replaced>>
Token(r) ==
  LET u == mem[r].user IN
  /\ At(r, "token") /\ Draw(u)
  /\ signins' = [signins EXCEPT ![<<u, mem[r].nonce>>] = @ + 1]
  /\ replaced' = IF nonce[u] = mem[r].nonce THEN replaced
                 ELSE replaced \union {<<u, nonce[u]>>}
  /\ Return(r)
  /\ UNCHANGED <<users, mapping, deployHash, rpcs, made, deployed, issued, handed,
                 raced, cut>>

(* The user has a token: the other requests need one. *)
SignedIn(u) == \E n \in Nonces : signins[<<u, n>>] > 0

(* getOrCreateWalletByEth: the payer mapped to the user, or a new one; the fee of
   its deployment is asked for before the answer. *)
AskWallet(r, u) ==
  /\ At(r, "idle") /\ SignedIn(u)
  /\ Goto(r, "wallet") /\ Hold(r, [Blank EXCEPT !.user = u])
  /\ UNCHANGED <<docs, world, history>>
FindWallet(r) ==
  LET p == mapping[mem[r].user] IN
  /\ At(r, "wallet")
  /\ IF p # 0 THEN Goto(r, "fee") /\ Hold(r, [mem[r] EXCEPT !.payer = p])
     ELSE Goto(r, "createPayer") /\ mem' = mem
  /\ UNCHANGED <<docs, world, history>>
CreatePayer(r) ==
  LET u == mem[r].user IN
  /\ At(r, "createPayer")
  /\ made < MaxPayers /\ made' = made + 1
  /\ Goto(r, "map") /\ Hold(r, [mem[r] EXCEPT !.payer = made'])
  /\ raced' = IF mapping[u] # 0 \/ \E s \in Requests : At(s, "map") /\ mem[s].user = u
              THEN raced \union {u} ELSE raced
  /\ UNCHANGED <<docs, drawn, deployed, issued, signins, handed, cut, replaced>>
MapPayerNot(r) ==  \* mistaken: the update finds no such user
  /\ At(r, "map") /\ Goto(r, "fee")
  /\ UNCHANGED <<docs, world, mem, history>>
MapPayer(r) ==
  /\ At(r, "map") /\ Goto(r, "fee")
  /\ mapping' = [mapping EXCEPT ![mem[r].user] = mem[r].payer]
  /\ UNCHANGED <<users, nonce, deployHash, rpcs, world, mem, history>>
Fee(r) ==
  /\ At(r, "fee")
  /\ IF mem[r].login THEN Goto(r, "token") /\ UNCHANGED <<mem, handed>>
     ELSE Return(r) /\ handed' = handed \union {<<mem[r].user, mem[r].payer>>}
  /\ UNCHANGED <<docs, world, issued, signins, raced, cut, replaced>>

(* deployWalletByEth: refused without a payer or with a deployHash; then the
   balance and the fee are asked for, and the account is deployed, which the chain
   does once. *)
AskDeploy(r, u) ==
  /\ At(r, "idle") /\ SignedIn(u)
  /\ mapping[u] # 0 /\ mapping[u] \notin deployHash
  /\ Goto(r, "deploy") /\ Hold(r, [Blank EXCEPT !.user = u, !.payer = mapping[u]])
  /\ UNCHANGED <<docs, world, history>>
Deploy(r) ==
  /\ At(r, "deploy") /\ mem[r].payer \notin deployed
  /\ deployed' = deployed \union {mem[r].payer}
  /\ Goto(r, "hash")
  /\ UNCHANGED <<docs, drawn, made, mem, history>>
StoreHash(r) ==
  /\ At(r, "hash") /\ Goto(r, "mapBack")
  /\ deployHash' = deployHash \union {mem[r].payer}
  /\ UNCHANGED <<users, nonce, mapping, rpcs, world, mem, history>>
MapBack(r) ==
  /\ At(r, "mapBack") /\ Return(r)
  /\ mapping' = [mapping EXCEPT ![mem[r].user] = mem[r].payer]
  /\ UNCHANGED <<users, nonce, deployHash, rpcs, world, history>>

(* updateUserPoint, getUserOrCreate of the consumers: no document is found, and
   one is written, whole, whatever is there by now. *)
FindNoPoints(r, u) ==
  /\ At(r, "idle") /\ u \notin users
  /\ Goto(r, "upsert") /\ Hold(r, [Blank EXCEPT !.user = u])
  /\ UNCHANGED <<docs, world, history>>
UpsertPoints(r) ==  \* mistaken: the points alone, of a user without a nonce
  /\ At(r, "upsert") /\ users' = users \union {mem[r].user}
  /\ Return(r)
  /\ UNCHANGED <<nonce, mapping, deployHash, rpcs, world, history>>
Upsert(r) ==
  LET u == mem[r].user IN
  /\ At(r, "upsert") /\ Draw(u) /\ users' = users \union {u}
  /\ replaced' = IF u \in users THEN replaced \union {<<u, nonce[u]>>} ELSE replaced
  /\ Return(r)
  /\ UNCHANGED <<mapping, deployHash, rpcs, made, deployed, issued, signins, handed,
                 raced, cut>>

(* createOrUpdateCustomRPC: a configuration of one RPC, which the unique index
   refuses to a user who has one by now; or one more in the list, if the user
   still has one. *)
CopiesOf(u, x) == {e \in rpcs[u] : e[1] = x}
AddRpcUnchecked(r, u, x) ==  \* mistaken: no limit
  /\ At(r, "idle") /\ SignedIn(u)
  /\ Goto(r, IF u \in DOMAIN rpcs THEN "push" ELSE "createRpc")
  /\ Hold(r, [Blank EXCEPT !.user = u, !.rpc = x])
  /\ UNCHANGED <<docs, world, history>>
AddRpc(r, u, x) ==
  /\ At(r, "idle") /\ SignedIn(u)
  /\ u \in DOMAIN rpcs => Cardinality(rpcs[u]) < MaxRpc /\ CopiesOf(u, x) = {}
  /\ Goto(r, IF u \in DOMAIN rpcs THEN "push" ELSE "createRpc")
  /\ Hold(r, [Blank EXCEPT !.user = u, !.rpc = x])
  /\ UNCHANGED <<docs, world, history>>
WithRpcs(u, s) == [v \in DOMAIN rpcs \union {u} |-> IF v = u THEN s ELSE rpcs[v]]
CreateRpc(r) ==
  LET u == mem[r].user IN
  /\ At(r, "createRpc") /\ Return(r)
  /\ rpcs' = IF u \in DOMAIN rpcs THEN rpcs ELSE WithRpcs(u, {<<mem[r].rpc, 1>>})
  /\ UNCHANGED <<users, nonce, mapping, deployHash, world, history>>
PushRpc(r) ==
  LET u == mem[r].user
      new == <<mem[r].rpc, Cardinality(CopiesOf(u, mem[r].rpc)) + 1>>
  IN
  /\ At(r, "push") /\ Return(r)
  /\ rpcs' = IF u \in DOMAIN rpcs THEN WithRpcs(u, rpcs[u] \union {new}) ELSE rpcs
  /\ UNCHANGED <<users, nonce, mapping, deployHash, world, history>>

(* deleteSpecificCustomRPC looks first, then pulls all that are equal;
   deleteCustomRPC deletes the configuration. *)
DeleteRpc(r, u, x) ==
  /\ At(r, "idle") /\ u \in DOMAIN rpcs /\ CopiesOf(u, x) # {}
  /\ Goto(r, "pull") /\ Hold(r, [Blank EXCEPT !.user = u, !.rpc = x])
  /\ UNCHANGED <<docs, world, history>>
PullRpc(r) ==
  LET u == mem[r].user IN
  /\ At(r, "pull") /\ Return(r)
  /\ rpcs' = IF u \in DOMAIN rpcs THEN WithRpcs(u, rpcs[u] \ CopiesOf(u, mem[r].rpc))
             ELSE rpcs
  /\ UNCHANGED <<users, nonce, mapping, deployHash, world, history>>
DeleteRpcs(u) ==
  /\ u \in DOMAIN rpcs
  /\ rpcs' = [v \in DOMAIN rpcs \ {u} |-> rpcs[v]]
  /\ UNCHANGED <<users, nonce, mapping, deployHash, world, pc, mem, history>>

(* A request ends early: something it awaits is refused or rejected, or the
   process dies. *)
Throws(r) ==
  /\ ~ At(r, "idle") /\ Return(r)
  /\ cut' = IF At(r, "hash") THEN cut \union {mem[r].payer} ELSE cut
  /\ UNCHANGED <<docs, world, issued, signins, handed, raced, replaced>>

SignIn(r) == \/ CreateUser(r) \/ LoginUser(r) \/ Token(r)
             \/ \E u \in Users : AskNonce(r, u) \/ FindNoUser(r, u) \/ Login(r, u)
Wallet(r) == \/ FindWallet(r) \/ CreatePayer(r) \/ MapPayer(r) \/ Fee(r)
             \/ Deploy(r) \/ StoreHash(r) \/ MapBack(r)
             \/ \E u \in Users : AskWallet(r, u) \/ AskDeploy(r, u)
Points(r) == Upsert(r) \/ \E u \in Users : FindNoPoints(r, u)
Configure(r) == \/ CreateRpc(r) \/ PushRpc(r) \/ PullRpc(r)
                \/ \E u \in Users, x \in Rpcs : AddRpc(r, u, x) \/ DeleteRpc(r, u, x)
Next == \/ \E r \in Requests : SignIn(r) \/ Wallet(r) \/ Points(r) \/ Configure(r) \/ Throws(r)
        \/ \E u \in Users : DeleteRpcs(u)

Spec == Init /\ [][Next]_vars
-----------------------------------------------------------------------------
(* Types; only what was made is mapped, deployed or worked on, and only issued
   nonces are signed. *)
TypeOK ==
  /\ users \subseteq Users /\ drawn \in 0 .. MaxNonces /\ made \in 0 .. MaxPayers
  /\ nonce \in [Users -> 0 .. drawn] /\ mapping \in [Users -> 0 .. made]
  /\ \A u \in users : nonce[u] # 0
  /\ deployHash \subseteq deployed /\ deployed \subseteq 1 .. made
  /\ DOMAIN rpcs \subseteq Users
  /\ \A u \in DOMAIN rpcs : \A e \in rpcs[u] :
       e \in Rpcs \X Nat /\ e[2] <= Cardinality(CopiesOf(u, e[1]))
  /\ issued \subseteq users \X (1 .. drawn)
  /\ signins \in [Users \X Nonces -> Nat]
  /\ \A k \in Users \X Nonces : signins[k] > 0 => k \in issued
  /\ handed \subseteq Users \X (1 .. made) /\ raced \subseteq Users /\ cut \subseteq deployed
  /\ \A r \in Requests :
       /\ mem[r].user \in Users /\ mem[r].rpc \in Rpcs
       /\ At(r, "token") => <<mem[r].user, mem[r].nonce>> \in issued
       /\ pc[r] \in {"map", "fee", "deploy", "hash", "mapBack"} => mem[r].payer \in 1 .. made

(* A signature is used up by the token it brings: the nonce is not the user's any
   more.  It is replaced after the token is made, so that requests at once may each
   bring a token; more than these there never are (auth.service.ts:89-114). *)
SignatureSpent ==
  \A u \in Users, n \in Nonces :
    /\ signins[<<u, n>>] > 0 => nonce[u] # n
    /\ signins[<<u, n>>] <= Cardinality(Requests)

(* A nonce given to a user to sign stays valid until it has brought a token: only
   a second sign-in that was under way, or a consumer that looked for the user
   before it was made, replaces it (auth.service.ts:95-109,
   userpoint.service.ts:24-54, 64-84). *)
NonceKept ==
  \A k \in issued : nonce[k[1]] = k[2] \/ signins[k] > 0 \/ k \in replaced

(* The payer a user was given, and sends ether to, is the one the service mints
   with, unless two requests at once made one each; and if it is deployed the
   service knows, without which the ether cannot be withdrawn, unless the request
   was cut short in between (wallet.service.ts:34-123, 166-199, 432). *)
PayerUsable ==
  /\ \A k \in handed : mapping[k[1]] = k[2] \/ k[1] \in raced
  /\ \A p \in deployed : \/ p \in deployHash \union cut
                         \/ \E r \in Requests : At(r, "hash") /\ mem[r].payer = p

(* 'Max RPC is 5' (user.service.ts:77) and 'RPC already exists' (line 80) are
   decided on a list read before: the list outgrows the limit, and repeats an
   RPC, by no more than the requests that can be under way. *)
RpcsBounded ==
  \A u \in DOMAIN rpcs :
    /\ Cardinality(rpcs[u]) <= MaxRpc - 1 + Cardinality(Requests)
    /\ \A x \in Rpcs : Cardinality(CopiesOf(u, x)) <= Cardinality(Requests)
=============================================================================
