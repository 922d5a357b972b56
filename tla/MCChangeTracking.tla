-------------------------- MODULE MCChangeTracking --------------------------
(***************************************************************************)
(* The change tracker for TLC: a request that writes twice, in one          *)
(* transaction or two, against one that writes once; a record that exists   *)
(* and the id of another.                                                   *)
(***************************************************************************)
EXTENDS ChangeTracking

CONSTANTS p, q, x, n

OneMore == [r \in {p, q} |-> IF r = p THEN 2 ELSE 1]

OneThere == [y \in {x, n} |-> IF y = x THEN 0 ELSE Absent]
=============================================================================
