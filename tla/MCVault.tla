------------------------------ MODULE MCVault ------------------------------
(***************************************************************************)
(* Vault and its refinement for TLC.  Passphrases are model values; ids,   *)
(* keys, salts and codes are command numbers, at most MaxCmd; what may go  *)
(* wrong is chosen by Env in each configuration.                           *)
(***************************************************************************)
EXTENDS VaultRefinement
=============================================================================
