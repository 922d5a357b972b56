---------------------------- MODULE MCInventory ----------------------------
(***************************************************************************)
(* Instances of Inventory for TLC: one order, no line or one, one           *)
(* location or two.  ann and bob are the people of every instance; the      *)
(* configuration says who of them decides.                                  *)
(***************************************************************************)
EXTENDS Inventory, TLC

CONSTANTS ann, bob, o1, n1, l1, l2

NoLines == <<>>
OneLine == n1 :> o1

=============================================================================
