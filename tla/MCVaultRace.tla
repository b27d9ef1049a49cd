---------------------------- MODULE MCVaultRace ----------------------------
(***************************************************************************)
(* VaultRace for TLC: two processes, both model values, and passphrases    *)
(* that are compared and nothing else, so either may be permuted.          *)
(***************************************************************************)
EXTENDS VaultRace, TLC

Symmetry == Permutations(Procs) \union Permutations(Pass)
=============================================================================
