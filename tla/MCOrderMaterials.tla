-------------------------- MODULE MCOrderMaterials --------------------------
(* Instances of OrderMaterials for TLC: a line in another unit than its
   material's, one in the same unit, and one linked to nothing. *)
EXTENDS OrderMaterials

CONSTANTS ann, bob, n1, n2, n3, fabric

ThreeLines == <<n1, n2, n3>>
TwoOnFabric == [n \in {n1, n2, n3} |-> IF n = n3 THEN Unlinked ELSE fabric]
\* Three of the first line's unit are two of the material's.
Units == [n \in {n1, n2, n3} |-> IF n = n1 THEN 2 ELSE 3]
FabricUnit == [m \in {fabric} |-> 3]
\* The line linked to nothing always needs some.
Needs == {f \in [{n1, n2, n3} -> 0 .. 2] : f[n3] = 1}

=============================================================================
