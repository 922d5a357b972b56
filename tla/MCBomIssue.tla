---------------------------- MODULE MCBomIssue ----------------------------
(* Instances of BomIssue for TLC: a line there is and one to come. *)
EXTENDS BomIssue, TLC

CONSTANTS ann, bob, n1, n2

\* Nothing tells one person from the other.
Symmetry == Permutations(Person)

===========================================================================
