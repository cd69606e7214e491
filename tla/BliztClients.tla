----------------------------- MODULE BliztClients -----------------------------
(***************************************************************************)
(* The clients of the blizt service (packages/api-service/src/blizt): a    *)
(* socket sends startMint, and the service mints points for its user in a  *)
(* loop, one transaction after the other, until a stopMint, a low balance  *)
(* or an exception.  Every call of startBlizt is an asynchronous function  *)
(* of its own; the calls interleave at their awaits and share the list     *)
(* `sockets` of clients.                                                   *)
(*                                                                         *)
(* A client is numbered in the order of the list, so that the list is a    *)
(* set and what find() returns is the least.  Points, balances and what is *)
(* emitted are left out; the balance is low or not, at any measure of it.  *)
(***************************************************************************)
EXTENDS Integers

CONSTANTS
  Sockets,   (* the connections ever made: a socket does not come back     *)
  Users,     (* the users they belong to                                   *)
  Owner,     (* the user of each socket, as its token says                 *)
  MaxCalls   (* bound on the calls of startBlizt that get past its check   *)

ASSUME BliztAssumption == Owner \in [Sockets -> Users] /\ MaxCalls \in Nat

Calls == 1 .. MaxCalls
Clients == 1 .. MaxCalls

VARIABLES
  conn,     (* "new", "open" or "closed", per socket                       *)
  sockets,  (* the list of clients                                         *)
  status,   (* BliztParam.status, per client                               *)
  socket,   (* BliztParam.socket, per client                               *)
  made,     (* clients made so far                                         *)
  pc,       (* where each call of startBlizt waits                         *)
  caller,   (* the socket it was called with                               *)
  client,   (* its local `client`, 0 if it has none                        *)
  thrown,   (* history: clients one of whose loops ended by an exception   *)
  hasty     (* history: users who started while another start or loop of
               theirs was at work, or on a second socket                   *)

list == <<sockets, status, socket, made>>
call == <<pc, caller, client>>
vars == <<conn, list, call, thrown, hasty>>

Init ==
  /\ conn = [s \in Sockets |-> "new"] /\ sockets = {} /\ made = 0
  /\ status = [c \in Clients |-> "none"]
  /\ \E s \in Sockets : socket = [c \in Clients |-> s] /\ caller = [t \in Calls |-> s]
  /\ pc = [t \in Calls |-> "new"] /\ client = [t \in Calls |-> 0]
  /\ thrown = {} /\ hasty = {}

(* this.sockets.find(): the first that fits, 0 if there is none. *)
First(S) == IF S = {} THEN 0 ELSE CHOOSE c \in S : \A d \in S : c <= d
ClientOf(s) == First({c \in sockets : socket[c] = s})
ClientOfUser(u) == First({c \in sockets : Owner[socket[c]] = u})

Active(t) == pc[t] \in {"lookup", "balance", "measure", "receipt"}
Runs(t, c) == client[t] = c /\ pc[t] \in {"measure", "receipt"}
Goto(t, l) == pc' = [pc EXCEPT ![t] = l]
-----------------------------------------------------------------------------
(* handleConnection: the first client of the user gets the new socket. *)
Connect(s) ==
  /\ conn[s] = "new" /\ conn' = [conn EXCEPT ![s] = "open"]
  /\ LET c == ClientOfUser(Owner[s])
     IN socket' = IF c = 0 THEN socket ELSE [socket EXCEPT ![c] = s]
  /\ UNCHANGED <<sockets, status, made, call, thrown, hasty>>

(* handleDisconnect: the client stays, and its loop goes on. *)
Disconnect(s) ==
  /\ conn[s] = "open" /\ conn' = [conn EXCEPT ![s] = "closed"]
  /\ UNCHANGED <<list, call, thrown, hasty>>

(* startBlizt, up to its first await; a client that is 'started' gets an error
   instead. *)
Overlaps(s) ==
  \/ \E t \in Calls : Active(t) /\ Owner[caller[t]] = Owner[s]
  \/ \E c \in sockets : Owner[socket[c]] = Owner[s] /\ socket[c] # s
StartMint(s, t) ==
  /\ conn[s] = "open"
  /\ pc[t] = "new" /\ \A k \in 1 .. (t - 1) : pc[k] # "new"
  /\ ClientOf(s) # 0 => status[ClientOf(s)] # "started"
  /\ Goto(t, "lookup")
  /\ caller' = [caller EXCEPT ![t] = s] /\ client' = [client EXCEPT ![t] = ClientOf(s)]
  /\ hasty' = IF Overlaps(s) THEN hasty \union {Owner[s]} ELSE hasty
  /\ UNCHANGED <<conn, list, thrown>>

(* The points and the user are there.  A user without a payer account gets an
   error; a client found before starts, a new one needs its balance first. *)
NoAccount(t) ==
  /\ pc[t] = "lookup" /\ Goto(t, "ended")
  /\ UNCHANGED <<conn, list, caller, client, thrown, hasty>>
StartClient(t) ==
  /\ pc[t] = "lookup" /\ client[t] # 0
  /\ status' = [status EXCEPT ![client[t]] = "started"]
  /\ Goto(t, "measure")
  /\ UNCHANGED <<conn, sockets, socket, made, caller, client, thrown, hasty>>
AskBalance(t) ==
  /\ pc[t] = "lookup" /\ client[t] = 0 /\ Goto(t, "balance")
  /\ UNCHANGED <<conn, list, caller, client, thrown, hasty>>
AddClientUnset(t) ==  \* mistaken: pushes the client and does not keep it
  /\ pc[t] = "balance"
  /\ made' = made + 1 /\ sockets' = sockets \union {made'}
  /\ status' = [status EXCEPT ![made'] = "started"]
  /\ socket' = [socket EXCEPT ![made'] = caller[t]]
  /\ Goto(t, "measure")
  /\ UNCHANGED <<conn, caller, client, thrown, hasty>>
AddClient(t) ==
  /\ pc[t] = "balance"
  /\ made' = made + 1 /\ sockets' = sockets \union {made'}
  /\ status' = [status EXCEPT ![made'] = "started"]
  /\ socket' = [socket EXCEPT ![made'] = caller[t]]
  /\ client' = [client EXCEPT ![t] = made']
  /\ Goto(t, "measure")
  /\ UNCHANGED <<conn, caller, thrown, hasty>>

(* The loop, up to execute(): the balance covers the fee and the transaction is
   sent, or it is low: then disconnectBlizt() stops what it finds under the
   caller's socket, and forgets all clients of that socket. *)
Execute(t) ==
  /\ pc[t] = "measure" /\ Goto(t, "receipt")
  /\ UNCHANGED <<conn, list, caller, client, thrown, hasty>>
BalanceLowQuietly(t) ==  \* mistaken: leaves the loop and says nothing
  /\ pc[t] = "measure" /\ Goto(t, "ended")
  /\ UNCHANGED <<conn, list, caller, client, thrown, hasty>>
BalanceLow(t) ==
  /\ pc[t] = "measure" /\ Goto(t, "ended")
  /\ LET c == ClientOf(caller[t])
         low == [status EXCEPT ![client[t]] = "balance_low"]
     IN status' = IF c = 0 THEN low ELSE [low EXCEPT ![c] = "stopped"]
  /\ sockets' = {c \in sockets : socket[c] # caller[t]}
  /\ UNCHANGED <<conn, socket, made, caller, client, thrown, hasty>>

(* The receipt is there, and the balance and the points: once more, or not. *)
MintedForever(t) ==  \* mistaken: the status is not looked at again
  /\ pc[t] = "receipt" /\ Goto(t, "measure")
  /\ UNCHANGED <<conn, list, caller, client, thrown, hasty>>
Minted(t) ==
  /\ pc[t] = "receipt"
  /\ Goto(t, IF status[client[t]] = "started" THEN "measure" ELSE "ended")
  /\ UNCHANGED <<conn, list, caller, client, thrown, hasty>>

(* The catch reports the error, and leaves the client as it is. *)
Throws(t) ==
  /\ pc[t] \in {"balance", "measure", "receipt"} /\ Goto(t, "ended")
  /\ thrown' = IF pc[t] = "balance" THEN thrown ELSE thrown \union {client[t]}
  /\ UNCHANGED <<conn, list, caller, client, hasty>>

(* stopBlizt. *)
StopMintRemoving(s) ==  \* mistaken: forgets the client without stopping it
  /\ conn[s] = "open" /\ ClientOf(s) # 0
  /\ sockets' = sockets \ {ClientOf(s)}
  /\ UNCHANGED <<conn, status, socket, made, call, thrown, hasty>>
StopMint(s) ==
  /\ conn[s] = "open" /\ ClientOf(s) # 0
  /\ status' = [status EXCEPT ![ClientOf(s)] = "stopped"]
  /\ UNCHANGED <<conn, sockets, socket, made, call, thrown, hasty>>

(* The service dies, and with it everything: what startBlizt awaits before its
   try may be rejected, and nobody handles the rejection. *)
Dies ==
  /\ conn' = [s \in Sockets |-> IF conn[s] = "open" THEN "closed" ELSE conn[s]]
  /\ sockets' = {}
  /\ pc' = [t \in Calls |-> IF pc[t] = "new" THEN "new" ELSE "ended"]
  /\ UNCHANGED <<status, socket, made, caller, client, thrown, hasty>>

Starting(t) == NoAccount(t) \/ StartClient(t) \/ AskBalance(t) \/ AddClient(t)
Minting(t) == Execute(t) \/ BalanceLow(t) \/ Minted(t)
Next ==
  \/ \E s \in Sockets : Connect(s) \/ Disconnect(s) \/ StopMint(s)
  \/ \E s \in Sockets, t \in Calls : StartMint(s, t)
  \/ \E t \in Calls : Starting(t) \/ Minting(t) \/ Throws(t)
  \/ Dies

Spec == Init /\ [][Next]_vars

(* A loop goes on: what it awaits is answered, or throws. *)
FairSpec == Spec /\ \A t \in Calls : WF_vars(Minting(t))
-----------------------------------------------------------------------------
(* Types; a call waits in the loop only with a client, and clients of the list
   have been made and have a socket that was connected. *)
TypeOK ==
  /\ conn \in [Sockets -> {"new", "open", "closed"}]
  /\ made \in 0 .. MaxCalls /\ sockets \subseteq 1 .. made
  /\ status \in [Clients -> {"none", "started", "stopped", "balance_low"}]
  /\ socket \in [Clients -> Sockets] /\ caller \in [Calls -> Sockets]
  /\ pc \in [Calls -> {"new", "lookup", "balance", "measure", "receipt", "ended"}]
  /\ client \in [Calls -> 0 .. made]
  /\ \A t \in Calls : pc[t] \in {"measure", "receipt"} => client[t] # 0
  /\ \A c \in sockets : conn[socket[c]] # "new"
  /\ thrown \subseteq 1 .. made /\ hasty \subseteq Users

(* Whoever is minted for can stop it: a stopMint of the client's socket finds
   the client or, when that socket is gone, the next connection of its user does.
   The list is searched before two awaits and changed after them, by socket in
   one place and by user in another; it holds all the same, unless the user
   started twice at a time or on two sockets (blizt.service.ts:73-89, 92-135,
   303-316). *)
Stoppable ==
  \A t \in Calls, c \in Clients :
    Runs(t, c) /\ status[c] = "started" =>
      \/ Owner[socket[c]] \in hasty
      \/ c = IF conn[socket[c]] = "open" THEN ClientOf(socket[c])
             ELSE ClientOfUser(Owner[socket[c]])

(* 'Client already exists Working' (blizt.service.ts:94) is the answer to a
   client that is 'started': a loop works for it, unless an exception ended one
   and left the status as it was (line 296): then nothing works, and only a
   stopMint makes a start possible again. *)
StartedWorks ==
  \A c \in sockets : status[c] = "started" => c \in thrown \/ \E t \in Calls : Runs(t, c)

(* A stop is obeyed: the loops of a client that is not started come to an end,
   or it is started again before they look (blizt.service.ts:150). *)
StoppedLoopEnds ==
  \A c \in Clients :
    status[c] # "started" ~> status[c] = "started" \/ \A t \in Calls : ~ Runs(t, c)
=============================================================================
