------------------------------ MODULE MCPacking ------------------------------
(***************************************************************************)
(* The packing floor for TLC: two people, one list of one order, two        *)
(* cartons of one size and two invoices.                                    *)
(***************************************************************************)
EXTENDS Packing, TLC

CONSTANTS ann, bob, o1, l1, c1, c2, i1, i2

OneList == l1 :> o1

OneListCartons == c1 :> l1 @@ c2 :> l1

\* Nothing tells one person, one invoice or one carton of a list from another.
Symmetry == Permutations(Session) \cup Permutations(Invoice) \cup Permutations(Carton)

==============================================================================
