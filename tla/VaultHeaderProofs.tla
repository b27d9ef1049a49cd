------------------------- MODULE VaultHeaderProofs -------------------------
(***************************************************************************)
(* Lemmas about the pure header operators of VaultHeader: each keeps the   *)
(* type of a header, builds a consistent header from a consistent one, and *)
(* says which hardware key, master key and entries the header then has.    *)
(***************************************************************************)
EXTENDS VaultHeader, TLAPS

(* A header sealed for its own key, with every meta under its master and a *)
(* kit for its own key, has the type of a header and is consistent.        *)
LEMMA SealedHeaderGood ==
  ASSUME NEW key \in Nat, NEW salt \in Nat, NEW kit \in [code : Nat, rwk : Nat],
         NEW p \in Pass, NEW mk \in Nat, NEW es \in SUBSET [id : Nat, meta : Nat],
         \A e \in es : e.meta = mk,
         kit # NoKit => kit.rwk = key /\ key # NoKey
  PROVE  /\ SealedHeader(key, salt, kit, p, mk, es) \in Headers
         /\ Consistent(SealedHeader(key, salt, kit, p, mk, es))
         /\ SealedHeader(key, salt, kit, p, mk, es).key = key
  BY DEF SealedHeader, Headers, WrapKeys, Consistent, MetasOpen, Opens, WrapKeyOf

(* The parts of a consistent header.                                       *)
LEMMA HeaderParts ==
  ASSUME NEW h \in Headers
  PROVE  /\ h.key \in Nat /\ h.salt \in Nat /\ h.rec \in [code : Nat, rwk : Nat]
         /\ h.wm.mk \in Nat /\ h.entries \in SUBSET [id : Nat, meta : Nat]
         /\ Consistent(h) => /\ \A e \in h.entries : e.meta = h.wm.mk
                             /\ h.rec # NoKit => h.rec.rwk = h.key /\ h.key # NoKey
  BY DEF Headers, Consistent, MetasOpen

(* Re-sealing keeps every entry but the dropped one, under the new master. *)
LEMMA ResealedEntries ==
  ASSUME NEW h \in Headers, NEW drop \in Nat, NEW mk \in Nat
  PROVE  /\ Resealed(h, drop, mk) \in SUBSET [id : Nat, meta : Nat]
         /\ \A e \in Resealed(h, drop, mk) : e.meta = mk
         /\ \A e \in Resealed(h, drop, mk) : e.id \in Ids(h) \ {drop}
  BY DEF Resealed, Headers, Ids

LEMMA KitType ==
  /\ NoKit \in [code : Nat, rwk : Nat]
  /\ \A n \in Nat : Escrow(n) \in [code : Nat, rwk : Nat] /\ Escrow(n).rwk = n
  BY DEF NoKit, Escrow

(* The header init makes.                                                  *)
LEMMA NewHeaderGood ==
  ASSUME NEW p \in Pass, NEW n \in Nat \ {0}, NEW key \in {NoKey, n},
         NEW kit \in {NoKit, Escrow(n)}, kit # NoKit => key = n
  PROVE  /\ NewHeader(p, key, kit, n) \in Headers
         /\ Consistent(NewHeader(p, key, kit, n))
         /\ NewHeader(p, key, kit, n).key = key
<1>1. key \in Nat /\ kit \in [code : Nat, rwk : Nat]
  BY KitType DEF NoKey
<1>2. kit # NoKit => kit.rwk = key /\ key # NoKey
  BY KitType DEF NoKey
<1>. QED
  BY <1>1, <1>2, SealedHeaderGood DEF NewHeader

(* The header add makes.                                                   *)
LEMMA AddedGood ==
  ASSUME NEW h \in Headers, Consistent(h), NEW n \in Nat
  PROVE  /\ Added(h, n) \in Headers
         /\ Consistent(Added(h, n))
         /\ Added(h, n).key = h.key
<1>1. /\ Added(h, n) \in Headers
      /\ Added(h, n).key = h.key /\ Added(h, n).salt = h.salt
      /\ Added(h, n).wm = h.wm /\ Added(h, n).rec = h.rec
      /\ Added(h, n).entries = h.entries \union {[id |-> n, meta |-> h.wm.mk]}
  BY DEF Added, Headers
<1>. QED
  BY <1>1 DEF Consistent, MetasOpen, Opens, WrapKeyOf

(* The header rotate_master makes.                                         *)
LEMMA RotatedGood ==
  ASSUME NEW h \in Headers, Consistent(h), NEW p \in Pass, NEW drop \in Nat, NEW n \in Nat
  PROVE  /\ Rotated(h, p, drop, n) \in Headers
         /\ Consistent(Rotated(h, p, drop, n))
         /\ Rotated(h, p, drop, n).key = h.key
  BY HeaderParts, ResealedEntries, SealedHeaderGood DEF Rotated

(* The header rekey makes.                                                 *)
LEMMA RekeyedGood ==
  ASSUME NEW h \in Headers, Consistent(h), NEW p \in Pass, NEW n \in Nat
  PROVE  /\ Rekeyed(h, p, n) \in Headers
         /\ Consistent(Rekeyed(h, p, n))
         /\ Rekeyed(h, p, n).key = h.key
  BY HeaderParts, ResealedEntries, SealedHeaderGood DEF Rekeyed

(* The header hardware_shred makes, under the fresh key n.                 *)
LEMMA HwShreddedGood ==
  ASSUME NEW h \in Headers, NEW p \in Pass, NEW drop \in Nat,
         NEW destroyKit, NEW n \in Nat \ {0}
  PROVE  /\ HwShredded(h, p, drop, destroyKit, n) \in Headers
         /\ Consistent(HwShredded(h, p, drop, destroyKit, n))
         /\ HwShredded(h, p, drop, destroyKit, n).key = n
<1>. DEFINE kit == IF destroyKit \/ h.rec = NoKit THEN NoKit ELSE Escrow(n)
<1>1. /\ kit \in [code : Nat, rwk : Nat]
      /\ kit # NoKit => kit.rwk = n /\ n # NoKey
  BY KitType DEF NoKey
<1>2. HwShredded(h, p, drop, destroyKit, n) =
        SealedHeader(n, h.salt, kit, p, n, Resealed(h, drop, n))
  BY DEF HwShredded
<1>. HIDE DEF kit
<1>3. /\ h.salt \in Nat
      /\ Resealed(h, drop, n) \in SUBSET [id : Nat, meta : Nat]
      /\ \A e \in Resealed(h, drop, n) : e.meta = n
  BY HeaderParts, ResealedEntries
<1>. QED
  BY <1>1, <1>2, <1>3, SealedHeaderGood

(* The header recover makes under a fresh key.                             *)
LEMMA ReprovisionedGood ==
  ASSUME NEW h \in Headers, Consistent(h), NEW p \in Pass, NEW n \in Nat \ {0}
  PROVE  /\ Reprovisioned(h, p, n) \in Headers
         /\ Consistent(Reprovisioned(h, p, n))
         /\ Reprovisioned(h, p, n).key = n
<1>1. /\ h.salt \in Nat /\ h.wm.mk \in Nat /\ h.entries \in SUBSET [id : Nat, meta : Nat]
      /\ \A e \in h.entries : e.meta = h.wm.mk
  BY HeaderParts
<1>2. Escrow(n) \in [code : Nat, rwk : Nat] /\ Escrow(n).rwk = n /\ n # NoKey
  BY KitType DEF NoKey
<1>. QED
  BY <1>1, <1>2, SealedHeaderGood DEF Reprovisioned

(* The header recover makes without a key.                                 *)
LEMMA ToSoftwareGood ==
  ASSUME NEW h \in Headers, Consistent(h), NEW p \in Pass
  PROVE  /\ ToSoftware(h, p) \in Headers
         /\ Consistent(ToSoftware(h, p))
         /\ ToSoftware(h, p).key = NoKey
<1>1. /\ h.salt \in Nat /\ h.wm.mk \in Nat /\ h.entries \in SUBSET [id : Nat, meta : Nat]
      /\ \A e \in h.entries : e.meta = h.wm.mk
  BY HeaderParts
<1>2. NoKit \in [code : Nat, rwk : Nat] /\ NoKey \in Nat
  BY KitType DEF NoKey
<1>. QED
  BY <1>1, <1>2, SealedHeaderGood DEF ToSoftware

-----------------------------------------------------------------------------
(* What each builder keeps of the header and what it makes anew: the key,  *)
(* the kit, the passphrase, the master key and the ids of the entries.     *)

LEMMA ResealedIds ==
  ASSUME NEW h \in Headers, NEW drop, NEW mk
  PROVE  {e.id : e \in Resealed(h, drop, mk)} = Ids(h) \ {drop}
<1>1. \A e \in Resealed(h, drop, mk) : e.id \in Ids(h) \ {drop}
  BY DEF Resealed, Ids
<1>2. ASSUME NEW i \in Ids(h) \ {drop}
      PROVE  \E e \in Resealed(h, drop, mk) : e.id = i
  <2>1. PICK x \in h.entries : x.id = i
    BY <1>2 DEF Ids
  <2>2. [id |-> x.id, meta |-> mk] \in Resealed(h, drop, mk)
    BY <1>2, <2>1 DEF Resealed
  <2>3. [id |-> x.id, meta |-> mk].id = i
    BY <2>1
  <2>. QED
    BY <2>2, <2>3
<1>. QED
  BY <1>1, <1>2

LEMMA NewHeaderParts ==
  ASSUME NEW p, NEW key, NEW kit, NEW n
  PROVE  /\ NewHeader(p, key, kit, n).key = key
         /\ NewHeader(p, key, kit, n).rec = kit
         /\ NewHeader(p, key, kit, n).wm.wk.pass = p
         /\ NewHeader(p, key, kit, n).wm.mk = n
         /\ Ids(NewHeader(p, key, kit, n)) = {}
  BY DEF NewHeader, SealedHeader, Ids

LEMMA AddedParts ==
  ASSUME NEW h \in Headers, NEW n
  PROVE  /\ Added(h, n).key = h.key
         /\ Added(h, n).rec = h.rec
         /\ Added(h, n).wm = h.wm
         /\ Ids(Added(h, n)) = Ids(h) \union {n}
<1>1. /\ Added(h, n).key = h.key /\ Added(h, n).rec = h.rec /\ Added(h, n).wm = h.wm
      /\ Added(h, n).entries = h.entries \union {[id |-> n, meta |-> h.wm.mk]}
  BY DEF Added, Headers
<1>2. [id |-> n, meta |-> h.wm.mk].id = n
  OBVIOUS
<1>. QED
  BY <1>1, <1>2 DEF Ids

LEMMA RotatedParts ==
  ASSUME NEW h \in Headers, NEW p, NEW drop, NEW n
  PROVE  /\ Rotated(h, p, drop, n).key = h.key
         /\ Rotated(h, p, drop, n).rec = h.rec
         /\ Rotated(h, p, drop, n).wm.wk.pass = p
         /\ Rotated(h, p, drop, n).wm.mk = n
         /\ Ids(Rotated(h, p, drop, n)) = Ids(h) \ {drop}
<1>1. Rotated(h, p, drop, n).entries = Resealed(h, drop, n)
  BY DEF Rotated, SealedHeader
<1>2. Ids(Rotated(h, p, drop, n)) = Ids(h) \ {drop}
  BY <1>1, ResealedIds DEF Ids
<1>. QED
  BY <1>2 DEF Rotated, SealedHeader

LEMMA RekeyedParts ==
  ASSUME NEW h \in Headers, NEW p, NEW n
  PROVE  /\ Rekeyed(h, p, n).key = h.key
         /\ Rekeyed(h, p, n).rec = h.rec
         /\ Rekeyed(h, p, n).wm.wk.pass = p
         /\ Rekeyed(h, p, n).wm.mk = n
         /\ Ids(Rekeyed(h, p, n)) = Ids(h) \ {0}
<1>1. Rekeyed(h, p, n).entries = Resealed(h, 0, n)
  BY DEF Rekeyed, SealedHeader
<1>2. Ids(Rekeyed(h, p, n)) = Ids(h) \ {0}
  BY <1>1, ResealedIds DEF Ids
<1>. QED
  BY <1>2 DEF Rekeyed, SealedHeader

LEMMA HwShreddedParts ==
  ASSUME NEW h \in Headers, NEW p, NEW drop, NEW destroyKit, NEW n
  PROVE  /\ HwShredded(h, p, drop, destroyKit, n).key = n
         /\ HwShredded(h, p, drop, destroyKit, n).rec =
              IF destroyKit \/ h.rec = NoKit THEN NoKit ELSE Escrow(n)
         /\ HwShredded(h, p, drop, destroyKit, n).wm.wk.pass = p
         /\ HwShredded(h, p, drop, destroyKit, n).wm.mk = n
         /\ Ids(HwShredded(h, p, drop, destroyKit, n)) = Ids(h) \ {drop}
<1>1. HwShredded(h, p, drop, destroyKit, n).entries = Resealed(h, drop, n)
  BY DEF HwShredded, SealedHeader
<1>2. Ids(HwShredded(h, p, drop, destroyKit, n)) = Ids(h) \ {drop}
  BY <1>1, ResealedIds DEF Ids
<1>. QED
  BY <1>2 DEF HwShredded, SealedHeader

LEMMA ReprovisionedParts ==
  ASSUME NEW h \in Headers, NEW p, NEW n
  PROVE  /\ Reprovisioned(h, p, n).key = n
         /\ Reprovisioned(h, p, n).rec = Escrow(n)
         /\ Reprovisioned(h, p, n).wm.wk.pass = p
         /\ Reprovisioned(h, p, n).wm.mk = h.wm.mk
         /\ Ids(Reprovisioned(h, p, n)) = Ids(h)
  BY DEF Reprovisioned, SealedHeader, Ids

LEMMA ToSoftwareParts ==
  ASSUME NEW h \in Headers, NEW p
  PROVE  /\ ToSoftware(h, p).key = NoKey
         /\ ToSoftware(h, p).rec = NoKit
         /\ ToSoftware(h, p).wm.wk.pass = p
         /\ ToSoftware(h, p).wm.mk = h.wm.mk
         /\ Ids(ToSoftware(h, p)) = Ids(h)
  BY DEF ToSoftware, SealedHeader, Ids
=============================================================================
