-------------------------- MODULE VaultRefinement --------------------------
(***************************************************************************)
(* Vault implements AbstractVault.  The vault a user has is the header     *)
(* that survives: header.json while it is whole, header.json.tmp from the  *)
(* moment header.json is not.  So a command takes effect at one step: when *)
(* store overwrites the old header (the new one is complete and synced by  *)
(* then), or writes the first one.                                         *)
(***************************************************************************)
EXTENDS VaultProperties

Surviving == IF hp.state = "complete" THEN hp ELSE tmp

Seen(h) ==
  [exists |-> TRUE, entries |-> Ids(h), pass |-> h.wm.wk.pass,
   hardware |-> h.key # NoKey, kit |-> h.rec # NoKit]

SeenVault == IF Surviving.state = "complete" THEN Seen(Surviving.hdr) ELSE [exists |-> FALSE, entries |-> {}, pass |-> "none", hardware |-> FALSE, kit |-> FALSE]

Abstract == INSTANCE AbstractVault WITH
  Id <- 1..MaxCmd, vault <- SeenVault, gone <- asked \ SeenVault.entries

(* Through crashes, failing steps, TPM clears and repeated commands, every *)
(* step is one whole command of AbstractVault or changes nothing the user  *)
(* sees: no half-made header, no entry back after its erasure, no          *)
(* passphrase or root that no command asked for.                           *)
ImplementsAbstractVault == Abstract!AbstractSpec
=============================================================================
