------------------------------- MODULE Vault -------------------------------
(***************************************************************************)
(* The crypto-erase vault, src/vault.rs: one vault directory, its TPM keys *)
(* and the commands a user runs on it, one command at a time.              *)
(*                                                                         *)
(* A command is a sequence of the steps that change something outside the  *)
(* process: a TPM key sealed or destroyed, a blob, the temporary header,   *)
(* the header or the shred marker written.  Between two of them the        *)
(* program may be killed (Crash), the TPM may be cleared (TpmClear), and   *)
(* the step may fail, as far as Env allows.  A command that fails before   *)
(* its first such step changes nothing and is a stuttering step.  A file   *)
(* step that fails leaves what a crash at the same place leaves, so Crash  *)
(* stands for both.                                                        *)
(***************************************************************************)
EXTENDS VaultHeader, FiniteSets

CONSTANTS
  MaxCmd,            \* bound: how many commands are run
  Env                \* what may go wrong or be done, a subset of EnvEvents

(* "crash"        the process is killed, or a file operation fails         *)
(* "unseal"       an unseal fails although the key is live                 *)
(* "destroy"      the destruction of a TPM key reports an error            *)
(* "getcap"       the TPM tool fails while destroy looks for the key, which*)
(*                is_persistent reports as "no such key" (keyroot.rs:405)  *)
(* "unlink"       a file that should be removed stays                      *)
(* "clear"        somebody clears the TPM                                  *)
(* "recover_live" recover is used although the TPM key still works         *)
(* "reinit"       init is run in a directory where a crash left only       *)
(*                header.json.tmp                                          *)
EnvEvents ==
  {"crash", "unseal", "destroy", "getcap", "unlink", "clear", "recover_live", "reinit"}

ASSUME BoundAssumption == MaxCmd \in Nat
ASSUME EnvAssumption == Env \subseteq EnvEvents

VARIABLES
  hp,        \* header.json
  tmp,       \* header.json.tmp
  pending,   \* header.pending, the marker of an unfinished hardware-shred
  blobs,     \* ids whose ciphertext blob is intact
  tpm,       \* TPM keys that exist
  proc,      \* the running command
  seq,       \* number of the next command
  \* History, read by no action of the program:
  flash,     \* every header written to the medium, with the command that wrote it
  asked,     \* ids whose erasure a command has begun
  erased,    \* erasures reported as done: the id and the command
  retired,   \* TPM keys replaced by a hardware-shred
  claimed,   \* the last hardware-shred that reported success, 0 if none
  notebook,  \* recovery codes shown to the user
  lost,      \* TPM keys that went with a TPM clear
  unseen     \* TPM keys that a destroy took for absent

disk == <<hp, tmp, pending, blobs>>
history == <<flash, asked, erased, retired, claimed, notebook, lost, unseen>>
vars == <<disk, tpm, proc, seq, history>>

-----------------------------------------------------------------------------
NoFile == [state |-> "absent", hdr |-> NullHeader]
Damaged == [state |-> "damaged", hdr |-> NullHeader]
Complete(h) == [state |-> "complete", hdr |-> h]

NoMarker == [state |-> "absent", key |-> NoKey]
TornMarker == [state |-> "damaged", key |-> NoKey]
Marker(k) == [state |-> "complete", key |-> k]

Idle ==
  [op |-> "none", pc |-> "idle", n |-> 0, pass |-> "none", drop |-> 0,
   old |-> NoKey, hdr |-> NullHeader]

Init ==
  /\ hp = NoFile /\ tmp = NoFile /\ pending = NoMarker
  /\ blobs = {} /\ tpm = {} /\ proc = Idle /\ seq = 1
  /\ flash = {} /\ asked = {} /\ erased = {} /\ retired = {}
  /\ claimed = 0 /\ notebook = {} /\ lost = {} /\ unseen = {}

-----------------------------------------------------------------------------
(* What a command reads before its first effect.                           *)

(* The TPM (or no TPM, for a software root) yields the RWK of h.           *)
Unseals(h) == h.key = NoKey \/ h.key \in tpm

(* load and open_master succeed with p.                                    *)
OpensWith(p) ==
  /\ hp.state = "complete"
  /\ Unseals(hp.hdr) /\ Opens(hp.hdr, hp.hdr.key, p)

(* A command begins: op, its first step, and what it carries.              *)
Begin(op, pc, p, drop, h) ==
  /\ proc.pc = "idle" /\ seq <= MaxCmd
  /\ seq' = seq + 1
  /\ proc' = [op |-> op, pc |-> pc, n |-> seq, pass |-> p, drop |-> drop,
              old |-> hp.hdr.key, hdr |-> h]

(* The entries a shred may name; hardware-shred may also name none (0).    *)
Entries == IF hp.state = "complete" THEN Ids(hp.hdr) ELSE {}

(* exists() is false; "reinit" is the user who runs init on what a crash   *)
(* left.                                                                   *)
NoVaultHere == hp.state = "absent" /\ ("reinit" \in Env \/ tmp.state # "complete")

(* seal_rwk: a new TPM key under a fresh id, holding a fresh RWK.          *)
SealRwk == tpm' = tpm \union {seq}

StartInit(p) ==
  /\ NoVaultHere
  /\ Begin("init", "create", p, 0, NewHeader(p, NoKey, NoKit, seq))
  /\ UNCHANGED <<disk, tpm, history>>

StartInitTpm(p, kit) ==
  /\ NoVaultHere
  /\ SealRwk
  /\ Begin("init", "create", p, 0, NewHeader(p, seq, IF kit THEN Escrow(seq) ELSE NoKit, seq))
  /\ UNCHANGED <<disk, history>>

(* Mutated: the blob is left for after the header.                         *)
StartAddHeaderFirst(p) ==
  /\ OpensWith(p)
  /\ Begin("add", "create", p, 0, Added(hp.hdr, seq))
  /\ UNCHANGED <<disk, tpm, history>>

StartAdd(p) ==
  /\ OpensWith(p)
  /\ blobs' = blobs \union {seq}
  /\ Begin("add", "create", p, 0, Added(hp.hdr, seq))
  /\ UNCHANGED <<hp, tmp, pending, tpm, history>>

(* The blob of id is overwritten; the caller ignores a failure.            *)
DropBlob(id) == blobs' \in {blobs \ {id}} \union (IF "unlink" \in Env THEN {blobs} ELSE {})

(* shred opens the master, then drops the blob; the wrap key is derived    *)
(* again only after that ("wrap").                                         *)
StartShred(p, id) ==
  /\ id \in Entries /\ OpensWith(p) /\ SurvivorsOpen(hp.hdr, id)
  /\ Begin("shred", "wrap", p, id, hp.hdr)
  /\ DropBlob(id)
  /\ asked' = asked \union {id}
  /\ UNCHANGED <<hp, tmp, pending, tpm, flash, erased, retired, claimed, notebook, lost, unseen>>

StartRekey(p, newp) ==
  /\ OpensWith(p) /\ SurvivorsOpen(hp.hdr, 0)
  /\ Begin("rekey", "create", newp, 0, Rekeyed(hp.hdr, newp, seq))
  /\ UNCHANGED <<disk, tpm, history>>

StartHwShred(p, drop, destroyKit) ==
  /\ hp.state = "complete" /\ hp.hdr.key # NoKey /\ drop \in Entries \union {0}
  /\ OpensWith(p) /\ SurvivorsOpen(hp.hdr, drop)
  /\ SealRwk
  /\ Begin("hwshred", IF drop = 0 THEN "create" ELSE "drop", p, drop,
           HwShredded(hp.hdr, p, drop, destroyKit, seq))
  /\ asked' = asked \union ({drop} \ {0})
  /\ UNCHANGED <<disk, flash, erased, retired, claimed, notebook, lost, unseen>>

(* The kit of the header opens with code and yields an RWK that opens the  *)
(* master.  The command is meant for a TPM that is gone.                   *)
KitOpens(p, code) ==
  /\ hp.state = "complete"
  /\ hp.hdr.key # NoKey /\ hp.hdr.rec # NoKit /\ hp.hdr.rec.code = code
  /\ Opens(hp.hdr, hp.hdr.rec.rwk, p)
  /\ hp.hdr.key \notin tpm \/ "recover_live" \in Env

StartRecover(p, code) ==
  /\ KitOpens(p, code)
  /\ SealRwk
  /\ Begin("recover", "create", p, 0, Reprovisioned(hp.hdr, p, seq))
  /\ UNCHANGED <<disk, history>>

StartRecoverToSoftware(p, code) ==
  /\ KitOpens(p, code)
  /\ Begin("recover", "create", p, 0, ToSoftware(hp.hdr, p))
  /\ UNCHANGED <<disk, tpm, history>>

StartRepair ==
  /\ proc.pc = "idle" /\ pending.state = "complete"
  /\ proc' = [Idle EXCEPT !.op = "repair", !.pc = "destroy", !.old = pending.key]
  /\ UNCHANGED <<disk, tpm, seq, history>>

-----------------------------------------------------------------------------
(* The steps between the first effect and the store.                       *)

At(pc) == proc.pc = pc
GoTo(pc) == proc' = [proc EXCEPT !.pc = pc]
Finish == proc' = Idle

(* rotate_master derives the wrap key a second time, from the TPM again.   *)
Wrap ==
  /\ At("wrap") /\ Unseals(proc.hdr)
  /\ proc' = [proc EXCEPT !.pc = "create",
                          !.hdr = Rotated(proc.hdr, proc.pass, proc.drop, proc.n)]
  /\ UNCHANGED <<disk, tpm, seq, history>>

UnsealMayFail(h) == h.key # NoKey /\ (h.key \notin tpm \/ "unseal" \in Env)

WrapFails ==
  /\ At("wrap") /\ UnsealMayFail(proc.hdr)
  /\ Finish
  /\ UNCHANGED <<disk, tpm, seq, history>>

(* Mutated: a blob that stays ends the command.                            *)
HwDropBlobOrStop ==
  /\ At("drop")
  /\ DropBlob(proc.drop)
  /\ IF proc.drop \in blobs' THEN Finish ELSE GoTo("create")
  /\ UNCHANGED <<hp, tmp, pending, tpm, seq, history>>

HwDropBlob ==
  /\ At("drop")
  /\ DropBlob(proc.drop)
  /\ GoTo("create")
  /\ UNCHANGED <<hp, tmp, pending, tpm, seq, history>>

-----------------------------------------------------------------------------
(* store: truncate the temporary file, write it, overwrite the header,     *)
(* remove it, rename.                                                      *)

(* Mutated: the old header goes before the new one is written.             *)
CreateTmpAfterRemove ==
  /\ At("create")
  /\ hp' = NoFile /\ tmp' = Damaged
  /\ GoTo("write")
  /\ UNCHANGED <<pending, blobs, tpm, seq, history>>

CreateTmp ==
  /\ At("create")
  /\ tmp' = Damaged
  /\ GoTo("write")
  /\ UNCHANGED <<hp, pending, blobs, tpm, seq, history>>

WriteTmp ==
  /\ At("write")
  /\ tmp' = Complete(proc.hdr)
  /\ flash' = flash \union {[by |-> proc.n, hdr |-> proc.hdr]}
  /\ GoTo(IF hp.state = "absent" THEN "rename" ELSE "overwrite")
  /\ UNCHANGED <<hp, pending, blobs, tpm, seq, asked, erased, retired, claimed, notebook, lost,
                 unseen>>

OverwriteHeader ==
  /\ At("overwrite")
  /\ hp' = Damaged
  /\ GoTo("remove")
  /\ UNCHANGED <<tmp, pending, blobs, tpm, seq, history>>

(* best_effort_overwrite_delete ignores a failing remove_file.             *)
RemoveHeader ==
  /\ At("remove")
  /\ hp' \in {NoFile} \union (IF "unlink" \in Env THEN {hp} ELSE {})
  /\ GoTo("rename")
  /\ UNCHANGED <<tmp, pending, blobs, tpm, seq, history>>

(* Mutated: the minted code is not handed back.                            *)
ReportWithoutCode ==
  /\ erased' = erased \union {[id |-> d, by |-> proc.n] : d \in {proc.drop} \ {0}}
  /\ UNCHANGED notebook

(* What the user is told at the end: a recovery code minted by this very   *)
(* command, and that the entry is erased.                                  *)
Report ==
  /\ notebook' = notebook \union ({proc.hdr.rec.code} \intersect {proc.n})
  /\ erased' = erased \union {[id |-> d, by |-> proc.n] : d \in {proc.drop} \ {0}}

RenameTmp ==
  /\ At("rename")
  /\ hp' = tmp /\ tmp' = NoFile
  /\ \/ /\ proc.op = "hwshred"
        /\ retired' = retired \union {proc.old}
        /\ GoTo("verify")
        /\ UNCHANGED <<notebook, erased>>
     \/ /\ proc.op # "hwshred"
        /\ Report /\ Finish
        /\ UNCHANGED retired
  /\ UNCHANGED <<pending, blobs, tpm, seq, flash, asked, claimed, lost, unseen>>

-----------------------------------------------------------------------------
(* The end of hardware_shred: verify, mark, destroy, unmark.  repair uses  *)
(* the last two.                                                           *)

Verify ==
  /\ At("verify")
  /\ Unseals(proc.hdr) /\ Opens(proc.hdr, proc.hdr.key, proc.pass)
  /\ GoTo("mark")
  /\ UNCHANGED <<disk, tpm, seq, history>>

VerifyFails ==
  /\ At("verify") /\ UnsealMayFail(proc.hdr)
  /\ Finish
  /\ UNCHANGED <<disk, tpm, seq, history>>

CreateMarker ==
  /\ At("mark")
  /\ pending' = TornMarker
  /\ GoTo("write_marker")
  /\ UNCHANGED <<hp, tmp, blobs, tpm, seq, history>>

WriteMarker ==
  /\ At("write_marker")
  /\ pending' = Marker(proc.old)
  /\ GoTo("destroy")
  /\ UNCHANGED <<hp, tmp, blobs, tpm, seq, history>>

(* Mutated: the key the header names now is destroyed.                     *)
DestroyCurrentKey ==
  /\ At("destroy")
  /\ tpm' = tpm \ {hp.hdr.key}
  /\ GoTo("unmark")
  /\ UNCHANGED <<disk, seq, history>>

(* Mutated: the old key is forgotten.                                      *)
DestroyNothing ==
  /\ At("destroy")
  /\ GoTo("unmark")
  /\ UNCHANGED <<disk, tpm, seq, history>>

(* Destroying a key that is not there succeeds.                            *)
DestroyKey ==
  /\ At("destroy")
  /\ tpm' = tpm \ {proc.old}
  /\ GoTo("unmark")
  /\ UNCHANGED <<disk, seq, history>>

(* Mutated: the error of the destroy is dropped.                           *)
DestroyFailsUnseen ==
  /\ At("destroy") /\ "destroy" \in Env
  /\ GoTo("unmark")
  /\ UNCHANGED <<disk, tpm, seq, history>>

DestroyFails ==
  /\ At("destroy") /\ "destroy" \in Env
  /\ Finish
  /\ UNCHANGED <<disk, tpm, seq, history>>

DestroyReadsAbsent ==
  /\ At("destroy") /\ "getcap" \in Env
  /\ unseen' = unseen \union {proc.old}
  /\ GoTo("unmark")
  /\ UNCHANGED <<disk, tpm, seq, flash, asked, erased, retired, claimed, notebook, lost>>

(* hardware_shred ignores a marker that stays, and reports success.        *)
RemoveMarker ==
  /\ At("unmark")
  /\ pending' \in {NoMarker} \union (IF "unlink" \in Env THEN {pending} ELSE {})
  /\ Finish
  /\ \/ /\ proc.op = "hwshred"
        /\ Report /\ claimed' = proc.n
     \/ /\ proc.op = "repair"
        /\ UNCHANGED <<notebook, erased, claimed>>
  /\ UNCHANGED <<hp, tmp, blobs, tpm, seq, flash, asked, retired, lost, unseen>>

-----------------------------------------------------------------------------
(* The environment.                                                        *)

Crash ==
  /\ "crash" \in Env /\ proc.pc # "idle"
  /\ Finish
  /\ UNCHANGED <<disk, tpm, seq, history>>

TpmClear ==
  /\ "clear" \in Env /\ tpm # {}
  /\ lost' = lost \union tpm /\ tpm' = {}
  /\ UNCHANGED <<disk, proc, seq, flash, asked, erased, retired, claimed, notebook, unseen>>

-----------------------------------------------------------------------------
CommandStarts(p) ==
  \/ StartInit(p)
  \/ \E kit \in BOOLEAN : StartInitTpm(p, kit)
  \/ StartAdd(p)
  \/ \E id \in Entries : StartShred(p, id)
  \/ \E newp \in Pass : StartRekey(p, newp)
  \/ \E drop \in Entries \union {0}, destroyKit \in BOOLEAN : StartHwShred(p, drop, destroyKit)
  \/ \E code \in notebook : StartRecover(p, code) \/ StartRecoverToSoftware(p, code)

UserStarts == (\E p \in Pass : CommandStarts(p)) \/ StartRepair

StoreStep ==
  CreateTmp \/ WriteTmp \/ OverwriteHeader \/ RemoveHeader \/ RenameTmp

ProgramStep ==
  \/ Wrap \/ WrapFails \/ HwDropBlob
  \/ StoreStep
  \/ Verify \/ VerifyFails \/ CreateMarker \/ WriteMarker
  \/ DestroyKey \/ DestroyFails \/ DestroyReadsAbsent \/ RemoveMarker

Next == UserStarts \/ ProgramStep \/ Crash \/ TpmClear

Spec == Init /\ [][Next]_vars

(* A command that was started is run by the operating system; nobody is    *)
(* obliged to start one.                                                   *)
FairSpec == Spec /\ WF_vars(ProgramStep)
=============================================================================
