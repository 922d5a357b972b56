----------------------------- MODULE MCAccounts -----------------------------
(***************************************************************************)
(* The accounts for TLC: two who manage them, one who may come to, and one  *)
(* whose address is not on the allowlist.                                   *)
(***************************************************************************)
EXTENDS Accounts, TLC

CONSTANTS ann, bob, eve, guest, s1, s2

Symmetry == Permutations({ann, bob}) \cup Permutations({s1, s2})
=============================================================================
