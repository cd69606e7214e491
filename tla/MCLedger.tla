------------------------------- MODULE MCLedger -------------------------------
(* Chains of events for Ledger, small enough for TLC.  alice and bob are users,
   zero is the address cards are minted from. *)
EXTENDS Ledger

CONSTANTS alice, bob, zero, fuel, collection, king, queen

MCEvent(kind, from, to, n, card, t) ==
  [kind |-> kind, from |-> from, to |-> to, points |-> n, pool |-> fuel,
   card |-> <<<<Written(kind), collection>>, card>>, amount |-> n, time |-> t]
Add(u, n) == MCEvent("add", zero, u, n, king, 1)
Transfer(u, v, n) == MCEvent("transfer", u, v, n, king, 1)
Create == MCEvent("create", zero, zero, 0, king, 1)
Join(u, n) == MCEvent("join", u, zero, n, king, 1)
Claim(u, n, card, t) == MCEvent("claim", zero, u, n, card, t)
Mint(u, n, card, t) == MCEvent("mint", zero, u, n, card, t)
Move(u, v, n, card, t) == MCEvent("move", u, v, n, card, t)

(* Points move from alice to bob and back. *)
MCPoints == <<Add(alice, 3), Transfer(alice, bob, 2), Transfer(bob, alice, 1)>>
(* bob stakes twice. *)
MCStakes == <<Add(bob, 5), Create, Join(bob, 1), Join(bob, 2)>>
(* A card is minted twice and passed on. *)
MCCards == <<Mint(alice, 3, king, 1), Move(alice, bob, 1, king, 2), Mint(bob, 1, king, 3)>>
(* alice sends a card to herself. *)
MCSelf == <<Mint(alice, 3, king, 1), Move(alice, alice, 1, king, 2)>>
(* alice gets points and wins two cards of one contract. *)
MCClaim == <<Add(alice, 2), Claim(alice, 1, king, 1), Claim(alice, 3, queen, 2)>>
(* alice wins a card she has been minted, and passes it on. *)
MCWon == <<Mint(alice, 1, king, 1), Claim(alice, 3, king, 2), Move(alice, bob, 1, king, 3)>>
(* alice is minted two cards of one contract. *)
MCTwice == <<Mint(alice, 1, king, 1), Mint(alice, 3, queen, 2)>>
(* alice gets points, stakes them, and wins a card. *)
MCReward == <<Add(alice, 2), Join(alice, 1), Claim(alice, 3, queen, 2)>>

MCChains == {MCPoints, MCStakes, MCCards, MCClaim, MCReward, MCSelf, MCWon}
MCTwoCards == {MCTwice}
MCRewards == {MCReward, MCClaim}
=============================================================================
