---------------------------- MODULE VaultHeader ----------------------------
(***************************************************************************)
(* The header of a vault and the key hierarchy inside it: src/vault.rs     *)
(* without its files.  A header says under which wrap key the master key   *)
(* (MK) is sealed, which hardware key the wrap key needs, the optional     *)
(* recovery kit, and one entry per stored file, whose meta (name and data  *)
(* key) is sealed under MK.                                                *)
(*                                                                         *)
(* Cryptography is symbolic.  Every random value the program draws (salt,  *)
(* MK, RWK with its TPM key, recovery code, entry id) is the number of the *)
(* command that drew it, so fresh values never collide; 0 stands for "no   *)
(* value".  A value sealed under a key is the pair of the two and opens    *)
(* only with that key, as an AEAD does.  The TPM key and the random wrap   *)
(* key (RWK) sealed by it are minted together and share one number.        *)
(***************************************************************************)
EXTENDS Naturals

CONSTANT Pass        \* the passphrases a user may type

ASSUME PassAssumption == Pass # {}

NoKey == 0

(* The recovery kit of a header: the RWK sealed under an off-device code.  *)
NoKit == [code |-> 0, rwk |-> 0]
Escrow(n) == [code |-> n, rwk |-> n]

(* What the wrap key is derived from: Argon2id(pass, salt) for a software  *)
(* root, HKDF of that and the RWK, bound to the TPM key id, for a hardware *)
(* root (rwk = key = 0 says software).                                     *)
WrapKeyOf(h, rwk, p) == [pass |-> p, salt |-> h.salt, rwk |-> rwk, key |-> h.key]

(* A header whose master key mk is sealed, with passphrase p, for the      *)
(* holder of the RWK that its hardware key yields.                         *)
SealedHeader(key, salt, kit, p, mk, es) ==
  [key |-> key, salt |-> salt, rec |-> kit, entries |-> es,
   wm |-> [wk |-> [pass |-> p, salt |-> salt, rwk |-> key, key |-> key], mk |-> mk]]

(* open_master: the AEAD tag of wrapped_master holds.                      *)
Opens(h, rwk, p) == h.wm.wk = WrapKeyOf(h, rwk, p)

Ids(h) == {e.id : e \in h.entries}

(* Every entry's meta opens under the header's own master key.             *)
MetasOpen(h) == \A e \in h.entries : e.meta = h.wm.mk

(* ... every one but drop: a command that re-seals the others goes on.     *)
SurvivorsOpen(h, drop) == \A e \in h.entries : e.id # drop => e.meta = h.wm.mk

(* The entries of h but drop, their metas sealed again under mk.           *)
Resealed(h, drop, mk) ==
  {[id |-> e.id, meta |-> mk] : e \in {x \in h.entries : x.id # drop}}

(* A header with nothing sealed in it yet.                                 *)
Blank(key, salt, kit) ==
  [key |-> key, salt |-> salt, rec |-> kit, entries |-> {},
   wm |-> [wk |-> [pass |-> "none", salt |-> 0, rwk |-> 0, key |-> 0], mk |-> 0]]

NullHeader == Blank(NoKey, 0, NoKit)

-----------------------------------------------------------------------------
(* What each command makes of the header; n is the command's fresh value.  *)

(* Mutated: the placeholder of wrapped_master (vault.rs:374) stays.        *)
UnwrappedHeader(p, key, kit, n) == Blank(key, n, kit)

(* init, init_tpm: key = 0 for a software vault.                           *)
NewHeader(p, key, kit, n) == SealedHeader(key, n, kit, p, n, {})

(* add: the new entry, its meta sealed under the current master key.       *)
Added(h, n) == [h EXCEPT !.entries = h.entries \union {[id |-> n, meta |-> h.wm.mk]}]

(* Mutated: the entry is dropped and the master key stays.                 *)
RotatedKeepingMaster(h, p, drop, n) ==
  SealedHeader(h.key, h.salt, h.rec, p, h.wm.mk, Resealed(h, drop, h.wm.mk))

(* Mutated: the dropped entry is sealed again with the others.             *)
RotatedKeepingEntry(h, p, drop, n) ==
  SealedHeader(h.key, h.salt, h.rec, p, n, Resealed(h, 0, n))

(* rotate_master: fresh MK under the unchanged wrap key.                   *)
Rotated(h, p, drop, n) ==
  SealedHeader(h.key, h.salt, h.rec, p, n, Resealed(h, drop, n))

(* rekey: fresh salt, new passphrase, fresh MK; the hardware key stays.    *)
Rekeyed(h, newp, n) ==
  SealedHeader(h.key, n, h.rec, newp, n, Resealed(h, 0, n))

(* Mutated: the kit still escrows the RWK of the old key.                  *)
HwShreddedKeepingKit(h, p, drop, destroyKit, n) ==
  SealedHeader(n, h.salt, h.rec, p, n, Resealed(h, drop, n))

(* hardware_shred: fresh RWK under a fresh TPM key, fresh MK; the kit      *)
(* sealed the old RWK and is minted again, or dropped on request.          *)
HwShredded(h, p, drop, destroyKit, n) ==
  LET kit == IF destroyKit \/ h.rec = NoKit THEN NoKit ELSE Escrow(n)
  IN  SealedHeader(n, h.salt, kit, p, n, Resealed(h, drop, n))

(* recover: the same MK and entries under a fresh TPM key and kit, or      *)
(* under the passphrase alone.                                             *)
Reprovisioned(h, p, n) ==
  SealedHeader(n, h.salt, Escrow(n), p, h.wm.mk, h.entries)
ToSoftware(h, p) ==
  SealedHeader(NoKey, h.salt, NoKit, p, h.wm.mk, h.entries)

-----------------------------------------------------------------------------
WrapKeys(P) == [pass : P, salt : Nat, rwk : Nat, key : Nat]

Headers ==
  [key : Nat, salt : Nat, wm : [wk : WrapKeys(Pass), mk : Nat],
   rec : [code : Nat, rwk : Nat], entries : SUBSET [id : Nat, meta : Nat]]

(* A header is usable: some passphrase opens its master through its own    *)
(* hardware key, the master opens every meta, and the kit escrows the RWK  *)
(* of the key the header names.                                            *)
Consistent(h) ==
  /\ \E p \in Pass : Opens(h, h.key, p)
  /\ MetasOpen(h)
  /\ h.rec # NoKit => h.rec.rwk = h.key /\ h.key # NoKey
=============================================================================
