----------------------------- MODULE MCShipping -----------------------------
(* Instances of Shipping for TLC: an order of one piece, an entry and
   consignments of one piece. *)
EXTENDS Shipping, TLC

CONSTANTS ann, bob, e1, h1, h2

\* Nothing tells one consignment from another.
Symmetry == Permutations(Shipment)

=============================================================================
