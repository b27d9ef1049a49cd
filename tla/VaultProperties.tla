-------------------------- MODULE VaultProperties --------------------------
(***************************************************************************)
(* What the commands of Vault promise together, under whatever Env allows. *)
(***************************************************************************)
EXTENDS Vault

Ops == {"none", "init", "add", "shred", "rekey", "hwshred", "recover", "repair"}

Pcs ==
  {"idle", "wrap", "drop", "create", "write", "overwrite", "remove", "rename",
   "verify", "mark", "write_marker", "destroy", "unmark"}

States == {"absent", "damaged", "complete"}

HeadersOrNull == Headers \union {NullHeader}

FilesOK ==
  /\ hp \in [state : States, hdr : HeadersOrNull]
  /\ tmp \in [state : States, hdr : HeadersOrNull]
  /\ hp.state = "complete" => hp.hdr \in Headers
  /\ tmp.state = "complete" => tmp.hdr \in Headers
  /\ pending \in [state : States, key : Nat]

Procs ==
  [op : Ops, pc : Pcs, n : Nat, pass : Pass \union {"none"}, drop : Nat, old : Nat,
   hdr : HeadersOrNull]

HistoryOK ==
  /\ flash \subseteq [by : Nat, hdr : Headers]
  /\ asked \subseteq Nat /\ erased \subseteq [id : Nat, by : Nat]
  /\ retired \subseteq Nat /\ claimed \in Nat /\ notebook \subseteq Nat /\ lost \subseteq Nat
  /\ unseen \subseteq Nat

(* Every variable has the type the code gives it; a file holds a header    *)
(* exactly when it is complete.                                            *)
TypeOK ==
  /\ FilesOK
  /\ proc \in Procs /\ seq \in Nat \ {0}
  /\ blobs \subseteq Nat /\ tpm \subseteq Nat \ {0}
  /\ HistoryOK

-----------------------------------------------------------------------------
Copies == {f \in {hp, tmp} : f.state = "complete"}

(* Every header that ever reached the medium is usable as a whole: the     *)
(* passphrase and the key it names open its master, the master opens every *)
(* entry, the kit escrows the right RWK.  So a command that dies anywhere, *)
(* or stops half way through re-sealing, never leaves a header whose parts *)
(* belong to different keys (rotate_master, rekey, hardware_shred, recover *)
(* each rebuild several of those parts).                                   *)
HeadersConsistent ==
  /\ \A f \in flash : Consistent(f.hdr)
  /\ \A f \in Copies : Consistent(f.hdr)

(* The TPM key of every readable copy of the header exists, unless a TPM   *)
(* clear took it: no failed, interrupted or repeated hardware-shred, and   *)
(* no repair-destroy of a marker however old, destroys the key a header    *)
(* still needs.                                                            *)
KeyOutlivesHeader ==
  \A f \in Copies : f.hdr.key # NoKey => f.hdr.key \in tpm \union lost

(* Entries of the header have their blob, or a command that erases them    *)
(* has been given their id: add writes the blob before the header names it *)
(* and no command drops the blob of another entry.                         *)
BlobsBehindEntries ==
  \A f \in Copies : Ids(f.hdr) \ asked \subseteq blobs

(* Crypto-erase: once a shred or a hardware-shred has reported an entry    *)
(* erased, no header written by that command or by any later one names the *)
(* entry, nor has a master key that opens any copy of its meta the medium  *)
(* may still hold, whatever crashes, rekeys and recoveries follow.  So     *)
(* reading the entry takes a header older than its erasure, with that      *)
(* header's own passphrase and hardware key.                               *)
ErasedStaysErased ==
  \A r \in erased : \A f \in {g \in flash : g.by >= r.by} :
    /\ r.id \notin Ids(f.hdr)
    /\ \A g \in flash : \A e \in g.hdr.entries : e.id = r.id => e.meta # f.hdr.wm.mk

(* A readable copy of the header always remains: only init may lose it     *)
(* (by truncating the one a crash left in header.json.tmp).                *)
SomeCopySurvives ==
  [][Copies # {} /\ Copies' = {} => proc.op = "init"]_vars

(* With no command running, header.json is whole or missing, never         *)
(* overwritten with noise: what the comment at vault.rs:229 says a crash   *)
(* cannot do.                                                              *)
NoTornHeader == At("idle") => hp.state # "damaged"

(* At rest every hardware key a hardware-shred replaced is destroyed, or   *)
(* named by the marker that repair-destroy and vault-status read           *)
(* (vault.rs:166).                                                         *)
InterruptedShredIsMarked ==
  At("idle") => \A k \in retired \intersect tpm : pending = Marker(k)

(* Once a key that a hardware-shred replaced is named by the marker, it    *)
(* stays named, through failing destroys, crashes, repairs and other       *)
(* commands, until it is destroyed: repair-destroy can always be run again *)
(* (vault.rs:167).  Two things may part them: the next hardware-shred,     *)
(* which writes its own key over the marker (vault.rs:596), and a getcap   *)
(* that fails, which destroy takes for a key that is gone.                 *)
MarkerHoldsUntilDestroyed ==
  [][\A k \in (retired \intersect tpm) \ unseen :
       pending = Marker(k) /\ pending' # Marker(k)
         => proc.op = "hwshred" /\ proc.old # k]_vars

(* A hardware-shred that reported success leaves no older header openable  *)
(* through its TPM key (main.rs:215).                                      *)
StaleMastersDead ==
  \A f \in flash : f.by < claimed => f.hdr.key # NoKey /\ f.hdr.key \notin tpm

(* The code of the kit in the header has been shown to the user: the kit   *)
(* vault-status reports as present can be used (main.rs:251).  A TPM clear *)
(* at rest changes neither side, so the code is known when it is needed;   *)
(* one that hits a command before it verifies the new key is excepted.     *)
KitCodeIsKnown ==
  At("idle") /\ hp.state = "complete" /\ hp.hdr.rec # NoKit /\ hp.hdr.key \notin lost
    => hp.hdr.rec.code \in notebook

(* A hardware-shred that stops at its verification has destroyed nothing   *)
(* (vault.rs:592): the header is the one under the old key, with the entry *)
(* that was to be erased.                                                  *)
NothingDestroyedOnVerifyFailure ==
  [][At("verify") /\ At("idle")' =>
       hp.hdr.key = proc.old /\ proc.drop \in Ids(hp.hdr) \union {0}]_vars

(* Every shred that found its entry and opened the vault ends with the     *)
(* entry erased, even when its blob or a file cannot be removed; only a    *)
(* TPM clear under it, which makes the whole vault unreadable, may stop it.*)
AcceptedShredErases ==
  \A d \in 1..MaxCmd :
    (proc.op \in {"shred", "hwshred"} /\ proc.drop = d)
      ~> ((\E r \in erased : r.id = d) \/ hp.hdr.key \in lost)

-----------------------------------------------------------------------------
(* What makes the invariants above inductive.                              *)

Running == proc.pc # "idle" /\ proc.op # "repair"

(* The process is in a state its code can be in, and holds a header.       *)
ProcessInv ==
  /\ proc.op = "repair" => proc.pc \in {"destroy", "unmark"}
  /\ proc.pc \in {"verify", "mark", "write_marker"} => proc.op = "hwshred"
  /\ proc.pc \in {"destroy", "unmark"} => proc.op \in {"hwshred", "repair"}
  /\ Running => proc.hdr \in Headers /\ proc.pass \in Pass

(* The header in memory is as consistent as those on disk.                 *)
HeaderInv ==
  /\ HeadersConsistent
  /\ Running => Consistent(proc.hdr)

(* Which of the two files is whole while store works, and that the ending  *)
(* of a hardware-shred works on a header that is in place.                 *)
StoreInv ==
  /\ proc.pc \in {"wrap", "drop", "create", "write", "overwrite"} /\ proc.op # "init"
       => hp.state = "complete"
  /\ proc.pc \in {"overwrite", "remove", "rename"} => tmp = Complete(proc.hdr)
  /\ proc.pc \in {"verify", "mark", "write_marker", "destroy", "unmark"} /\ proc.op = "hwshred"
       => hp = Complete(proc.hdr) /\ tmp = NoFile

Needs(k) == k # NoKey => k \in tpm \union lost

(* Keys are numbered in the order they are made.  A key to be destroyed is *)
(* older than every key a header needs: the one in the marker, and the one *)
(* the running hardware-shred or repair is about to destroy.               *)
KeyInv ==
  /\ \A f \in Copies : Needs(f.hdr.key) /\ f.hdr.key < seq
  /\ Running => Needs(proc.hdr.key) /\ proc.hdr.key < seq
  /\ pending.key < seq
  /\ \A f \in Copies : f.hdr.key # NoKey => pending.key < f.hdr.key
  /\ Running /\ proc.hdr.key # NoKey => pending.key < proc.hdr.key
  /\ proc.op = "hwshred" => proc.old < proc.hdr.key
  /\ proc.op = "repair" /\ proc.pc = "destroy" => proc.old = pending.key

(* A hardware-shred finds at most the marker of an older key.  From its own*)
(* marker on, and all through a repair, the marker names the key that is   *)
(* to be destroyed, and is removed only when that key is gone or was taken *)
(* for gone.                                                               *)
MarkInv ==
  /\ proc.op = "hwshred" =>
       IF proc.pc \in {"destroy", "unmark"} THEN pending = Marker(proc.old)
                                           ELSE pending.key < proc.old
  /\ proc.op = "repair" => pending = Marker(proc.old)
  /\ proc.pc = "unmark" => proc.old \notin tpm \ unseen

(* Every number in h was drawn before command n began.                     *)
Older(h, n) == h.wm.mk < n /\ \A i \in Ids(h) : 0 < i /\ i < n

(* Numbers are drawn in the order of the commands: whatever a command      *)
(* carries, and whatever it was asked to erase, is older than the next     *)
(* command, and a command writes one header.                               *)
NumberInv ==
  /\ \A f \in Copies : Older(f.hdr, seq)
  /\ \A f \in flash : f.by < seq /\ Older(f.hdr, f.by + 1)
  /\ \A i \in asked : 0 < i /\ i < seq
  /\ Running =>
       /\ 0 < proc.n /\ proc.n < seq /\ Older(proc.hdr, proc.n + 1)
       /\ proc.drop \in asked \union {0} /\ \A i \in asked : i < proc.n
       /\ \A f \in flash :
            IF proc.pc \in {"wrap", "drop", "create", "write"}
            THEN f.by < proc.n
            ELSE f.by <= proc.n /\ (f.by = proc.n => f.hdr = proc.hdr)

(* The blobs of the header in memory are there as well.                    *)
BlobInv ==
  /\ BlobsBehindEntries
  /\ Running => Ids(proc.hdr) \ asked \subseteq blobs

(* A header after erasure r: without the entry, under a master key no      *)
(* older than the command that erased it.                                  *)
Cleared(h, r) == r.id \notin Ids(h) /\ h.wm.mk >= r.by

(* Header.json and the header in memory come after every erasure that was  *)
(* reported, and so does whatever is written from them; a shred that has   *)
(* rotated the master is ready to report.                                  *)
ErasureInv ==
  /\ \A r \in erased : r.id \in asked /\ r.by < seq /\ (Running => r.by < proc.n)
  /\ \A r \in erased : \A f \in flash : f.by >= r.by => Cleared(f.hdr, r)
  /\ \A r \in erased :
       /\ hp.state = "complete" => Cleared(hp.hdr, r)
       /\ Running => Cleared(proc.hdr, r)
  /\ IF proc.op \in {"shred", "hwshred"}
     THEN proc.pc # "wrap" => proc.hdr.wm.mk = proc.n /\ proc.drop \notin Ids(proc.hdr)
     ELSE proc.drop = 0

(* A header under a hardware key is younger than every key a hardware-     *)
(* shred replaced, and no header before it was under no key at all.        *)
RootLasts(h) ==
  h.key # NoKey =>
    (\A k \in retired : k < h.key) /\ \A f \in flash : f.hdr.key # NoKey

(* The TPM keys there may be while a command carries header h: the one h   *)
(* names, and, until a hardware-shred has destroyed it, the one before.    *)
RootsOf(h) ==
  IF proc.op = "hwshred"
  THEN /\ tpm \subseteq {h.key, proc.old} /\ (tpm # {} => h.key \in tpm)
       /\ h.key = proc.n /\ (proc.pc = "unmark" => proc.old \notin tpm)
  ELSE tpm \subseteq {h.key}

(* While nothing interrupts a hardware-shred and nobody recovers a vault   *)
(* whose TPM key works, no TPM key exists that the vault does not use.     *)
LiveInv ==
  /\ ~Running =>
       IF hp.state = "complete"
       THEN tpm \subseteq {hp.hdr.key} /\ RootLasts(hp.hdr)
       ELSE flash = {} /\ tpm = {} /\ retired = {}
  /\ Running =>
       /\ RootsOf(proc.hdr) /\ RootLasts(proc.hdr)
       /\ proc.hdr.key <= proc.n /\ claimed < proc.n
       /\ proc.pc = "wrap" => proc.op = "shred" /\ proc.hdr = hp.hdr
  /\ claimed < seq /\ \A k \in retired : k < seq
  /\ \A f \in flash : f.hdr.key <= f.by
  /\ StaleMastersDead

(* The user has the code of h's kit, or no use for it yet.                 *)
Known(h) == h.rec # NoKit /\ h.key \notin lost => h.rec.code \in notebook

(* A code the user does not have was minted by the running command, which  *)
(* shows it before it ends.                                                *)
KitInv ==
  /\ ~Running /\ hp.state = "complete" => Known(hp.hdr)
  /\ Running => Known(proc.hdr) \/ proc.hdr.rec.code = proc.n
  /\ proc.pc = "wrap" => proc.hdr = hp.hdr /\ Known(hp.hdr)
=============================================================================
