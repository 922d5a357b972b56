---------------------------- MODULE StockAccount ----------------------------
(***************************************************************************)
(* What the inventory service promises, with nothing of how it keeps the    *)
(* promise: one material as an account of what is on hand, what has been    *)
(* promised to orders, and what has been written off the shelf without a    *)
(* reservation to carry it (count adjustments downwards, wastage).          *)
(*                                                                          *)
(* A promise is made, and free stock is issued, only as far as the shelf    *)
(* covers every promise already made; a write-off is the one way promises   *)
(* come to exceed the shelf, and never by more than was written off.        *)
(***************************************************************************)
EXTENDS Integers

CONSTANT Quantity  \* what one operation may move, numbers above zero

VARIABLES
  onHand,    \* physical stock, all locations
  promised,  \* outstanding on active reservations
  lost       \* written off beyond what reservations carried, ever

vars == <<onHand, promised, lost>>

TypeOK == onHand \in Nat /\ promised \in Nat /\ lost \in Nat

\* Nobody is promised more than the shelf held before something was written off.
NeverOverpromised == promised <= onHand + lost

Init == onHand = 0 /\ promised = 0 /\ lost = 0

\* Material arrives, or a count finds more.
Receive == \E q \in Quantity :
  onHand' = onHand + q /\ UNCHANGED <<promised, lost>>

\* Spoiled, or a count finds less; d of it was carried by reservations.
WriteOff == \E q \in Quantity : \E d \in 0 .. q :
  /\ onHand' = onHand - q   /\ onHand' >= 0
  /\ promised' = promised - d /\ promised' >= 0
  /\ lost' = lost + (q - d)

Promise == \E q \in Quantity :
  /\ promised' = promised + q
  /\ promised' <= onHand + lost
  /\ UNCHANGED <<onHand, lost>>

\* A reservation is given up.
GiveUp == \E q \in Quantity :
  /\ promised' = promised - q /\ promised' >= 0
  /\ UNCHANGED <<onHand, lost>>

\* d from the order's own promise, the rest from what nobody was promised.
Issue == \E q \in Quantity : \E d \in 0 .. q :
  /\ onHand' = onHand - q   /\ onHand' >= 0
  /\ promised' = promised - d /\ promised' >= 0
  /\ promised' <= onHand' + lost
  /\ UNCHANGED lost

\* Unused material comes back; d of it goes back to the promise it came off.
Return == \E q \in Quantity : \E d \in 0 .. q :
  /\ onHand' = onHand + q
  /\ promised' = promised + d
  /\ UNCHANGED lost

Next == Receive \/ WriteOff \/ Promise \/ GiveUp \/ Issue \/ Return

Spec == Init /\ [][Next]_vars

=============================================================================
