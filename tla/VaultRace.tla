----------------------------- MODULE VaultRace -----------------------------
(***************************************************************************)
(* Commands run at the same time on one vault directory, src/vault.rs.     *)
(* There is no lock: each command works on the header it loaded at its     *)
(* start, and all of them write the same header.json.tmp.                  *)
(*                                                                         *)
(* Unlike Vault, which has one command at a time and crashes that tear     *)
(* files, this module has file names and files apart: a command writes to  *)
(* the file it has open, whatever name that has by then.  The TPM is that  *)
(* of Windows.  recover is left out: it is for a machine whose TPM is gone.*)
(***************************************************************************)
EXTENDS VaultHeader, WindowsPcpRoot, FiniteSets

CONSTANTS
  Procs,       \* the processes that run commands
  MaxCmd,      \* bound: the number of the last command
  Env          \* what may go wrong: a subset of RaceEvents

(* "crash"   a process is killed, or a file operation fails                *)
(* "tpm"     a call of the key root fails                                  *)
RaceEvents == {"crash", "tpm"}

ASSUME RaceBoundAssumption == MaxCmd \in Nat /\ IsFiniteSet(Procs)
ASSUME RaceEnvAssumption == Env \subseteq RaceEvents

VARIABLES
  hp, tmp,   \* the files header.json and header.json.tmp name, or NoFile
  node,      \* what each file holds
  pending,   \* the key header.pending names, NoKey if there is no marker
  blobs,     \* ids whose ciphertext blob is intact
  tpm,       \* TPM keys that exist
  pr,        \* the processes
  seq,       \* number of the next command
  \* History:
  flash,     \* every header written to the medium
  asked,     \* ids whose erasure a command has begun
  erased     \* ids whose erasure was reported

files == <<hp, tmp, node>>
history == <<flash, asked, erased>>
vars == <<files, pending, blobs, tpm, pr, seq, history>>

NoFile == 0
Nodes == 1..(Cardinality(Procs) + 2)

Empty == [state |-> "empty", hdr |-> NullHeader]
Damaged == [state |-> "damaged", hdr |-> NullHeader]
Complete(h) == [state |-> "complete", hdr |-> h]

Faulty == "tpm" \in Env

(* fd: the file a process is writing.  alone: nobody else has run since it *)
(* began, which only the properties read.                                  *)
Idle ==
  [op |-> "none", pc |-> "idle", n |-> 0, pass |-> "none", drop |-> 0,
   old |-> NoKey, fd |-> NoFile, hdr |-> NullHeader, alone |-> TRUE]

(* A directory in which nothing has happened yet, or a vault with one      *)
(* entry, made by the commands 1 (init --tpm) and 2 (add).                 *)
InitEmpty ==
  /\ hp = NoFile /\ node = [f \in Nodes |-> Empty]
  /\ blobs = {} /\ tpm = {} /\ seq = 1 /\ flash = {}

InitVault ==
  \E p \in Pass :
    LET first == NewHeader(p, 1, NoKit, 1)
        h == Added(first, 2)
    IN  /\ hp = 1 /\ node = [f \in Nodes |-> IF f = 1 THEN Complete(h) ELSE Empty]
        /\ blobs = {2} /\ tpm = {1} /\ seq = 3 /\ flash = {first, h}

Init ==
  /\ InitEmpty \/ InitVault
  /\ tmp = NoFile /\ pending = NoKey
  /\ pr = [p \in Procs |-> Idle]
  /\ asked = {} /\ erased = {}

-----------------------------------------------------------------------------
At(p, pc) == pr[p].pc = pc
GoTo(p, pc) == pr' = [pr EXCEPT ![p].pc = pc]
Return(p) == pr' = [pr EXCEPT ![p] = Idle]

(* A file that has lost its name and that nobody has open is gone.         *)
Kept(contents) ==
  [f \in Nodes |-> IF f \in {hp', tmp'} \union {pr'[p].fd : p \in Procs}
                   THEN contents[f] ELSE Empty]

Loaded == node[hp].hdr

(* load and open_master succeed with pass.                                 *)
OpensWith(pass) ==
  /\ hp # NoFile /\ node[hp].state = "complete"
  /\ Loaded.key = NoKey \/ Ok(tpm) \in UnsealOutcomes(tpm, Loaded.key, FALSE)
  /\ Opens(Loaded, Loaded.key, pass)

(* p begins; the others that run are no longer alone.                      *)
Starts(p, rec) ==
  pr' = [q \in Procs |->
           IF q = p
           THEN [rec EXCEPT !.alone = \A r \in Procs \ {p} : At(r, "idle")]
           ELSE [pr[q] EXCEPT !.alone = At(q, "idle")]]

Begin(p, op, pc, pass, drop, h) ==
  /\ At(p, "idle") /\ seq <= MaxCmd
  /\ seq' = seq + 1
  /\ Starts(p, [Idle EXCEPT !.op = op, !.pc = pc, !.n = seq, !.pass = pass, !.drop = drop,
                            !.old = h.key, !.hdr = h])
  /\ UNCHANGED <<files, pending, blobs, tpm, flash, erased>>

Entries == IF hp # NoFile THEN Ids(Loaded) ELSE {}

StartInit(p, pass) ==
  /\ hp = NoFile
  /\ Begin(p, "init", "create", pass, 0, NewHeader(pass, NoKey, NoKit, seq))
  /\ UNCHANGED asked

StartInitTpm(p, pass) ==
  /\ hp = NoFile
  /\ Begin(p, "init", "seal", pass, 0, NewHeader(pass, seq, NoKit, seq))
  /\ UNCHANGED asked

(* Mutated: the blob is left for after the header.                         *)
StartAddHeaderFirst(p, pass) ==
  /\ OpensWith(pass)
  /\ Begin(p, "add", "create", pass, 0, Added(Loaded, seq))
  /\ UNCHANGED asked

StartAdd(p, pass) ==
  /\ OpensWith(pass)
  /\ Begin(p, "add", "blob", pass, 0, Loaded)
  /\ UNCHANGED asked

StartOpen(p, pass, id) ==
  /\ id \in Entries /\ OpensWith(pass)
  /\ Begin(p, "open", "read", pass, id, Loaded)
  /\ UNCHANGED asked

StartShred(p, pass, id) ==
  /\ id \in Entries /\ OpensWith(pass) /\ SurvivorsOpen(Loaded, id)
  /\ Begin(p, "shred", "drop", pass, id, Loaded)
  /\ asked' = asked \union {id}

StartRekey(p, pass, newpass) ==
  /\ OpensWith(pass) /\ SurvivorsOpen(Loaded, 0)
  /\ Begin(p, "rekey", "create", newpass, 0, Rekeyed(Loaded, newpass, seq))
  /\ UNCHANGED asked

StartHwShred(p, pass, drop) ==
  /\ OpensWith(pass) /\ Loaded.key # NoKey
  /\ drop \in Entries \union {0} /\ SurvivorsOpen(Loaded, drop)
  /\ Begin(p, "hwshred", "seal", pass, drop, Loaded)
  /\ asked' = asked \union ({drop} \ {0})

StartRepair(p) ==
  /\ At(p, "idle") /\ pending # NoKey
  /\ Starts(p, [Idle EXCEPT !.op = "repair", !.pc = "destroy", !.old = pending])
  /\ UNCHANGED <<files, pending, blobs, tpm, seq, history>>

-----------------------------------------------------------------------------
(* Between load and store.                                                 *)

WriteBlob(p) ==
  /\ At(p, "blob")
  /\ blobs' = blobs \union {pr[p].n}
  /\ pr' = [pr EXCEPT ![p].pc = "create", ![p].hdr = Added(@, pr[p].n)]
  /\ UNCHANGED <<files, pending, tpm, seq, history>>

(* seal_rwk, and in hardware_shred the header rebuilt under the new key.   *)
SealKey(p) ==
  LET me == pr[p]
  IN  /\ At(p, "seal")
      /\ \E r \in SealOutcomes(tpm, me.n, Faulty) :
           /\ tpm' = r.keys
           /\ \/ /\ r.ok /\ me.op = "init"
                 /\ GoTo(p, "create")
              \/ /\ r.ok /\ me.op = "hwshred"
                 /\ pr' = [pr EXCEPT ![p].pc = IF me.drop = 0 THEN "create" ELSE "drop",
                                     ![p].hdr = HwShredded(@, me.pass, me.drop, FALSE, me.n)]
              \/ ~r.ok /\ Return(p)
      /\ UNCHANGED <<files, pending, blobs, seq, history>>

(* open: the blob, if it is still there, is read and decrypted.            *)
ReadBlob(p) ==
  /\ At(p, "read")
  /\ Return(p)
  /\ UNCHANGED <<files, pending, blobs, tpm, seq, history>>

DropBlob(p) ==
  /\ At(p, "drop")
  /\ blobs' = blobs \ {pr[p].drop}
  /\ GoTo(p, IF pr[p].op = "shred" THEN "wrap" ELSE "create")
  /\ UNCHANGED <<files, pending, tpm, seq, history>>

(* A command in mid-course unseals the key of the header it holds.         *)
Unsealed(p) ==
  {r.ok : r \in IF pr[p].hdr.key = NoKey
                THEN {Ok(tpm)} ELSE UnsealOutcomes(tpm, pr[p].hdr.key, Faulty)}

Wrap(p) ==
  /\ At(p, "wrap")
  /\ \/ /\ TRUE \in Unsealed(p)
        /\ pr' = [pr EXCEPT ![p].pc = "create",
                            ![p].hdr = Rotated(@, pr[p].pass, pr[p].drop, pr[p].n)]
     \/ FALSE \in Unsealed(p) /\ Return(p)
  /\ UNCHANGED <<files, pending, blobs, tpm, seq, history>>

-----------------------------------------------------------------------------
(* store.                                                                  *)

(* Mutated: the old header goes before the new one is written.             *)
CreateTmpAfterRemove(p) ==
  /\ At(p, "create")
  /\ hp' = NoFile
  /\ tmp' = IF tmp # NoFile THEN tmp
            ELSE CHOOSE f \in Nodes : f # hp /\ \A q \in Procs : pr[q].fd # f
  /\ pr' = [pr EXCEPT ![p].pc = "write", ![p].fd = tmp']
  /\ node' = Kept([node EXCEPT ![tmp'] = Empty])
  /\ UNCHANGED <<pending, blobs, tpm, seq, history>>

(* File::create: the file the name has is cut to nothing, also while       *)
(* somebody else is writing it; without one a new file is made.            *)
CreateTmp(p) ==
  /\ At(p, "create")
  /\ tmp' = IF tmp # NoFile THEN tmp
            ELSE CHOOSE f \in Nodes : f # hp /\ \A q \in Procs : pr[q].fd # f
  /\ pr' = [pr EXCEPT ![p].pc = "write", ![p].fd = tmp']
  /\ node' = [node EXCEPT ![tmp'] = Empty]
  /\ UNCHANGED <<hp, pending, blobs, tpm, seq, history>>

(* What is in the file when h is written from its beginning: h, or h with  *)
(* the rest of something longer after it, which does not parse.            *)
Overlaid(c, h) == {Complete(h)} \union (IF c = Empty THEN {} ELSE {Damaged})

(* Mutated: the file stays open.                                           *)
WriteTmpUnclosed(p) ==
  LET me == pr[p]
  IN  /\ At(p, "write")
      /\ pr' = [pr EXCEPT ![p].pc = "exists"]
      /\ UNCHANGED <<hp, tmp, pending, blobs, tpm, seq, asked, erased>>
      /\ \E c \in Overlaid(node[me.fd], me.hdr) : node' = Kept([node EXCEPT ![me.fd] = c])
      /\ flash' = flash \union {me.hdr}

WriteTmp(p) ==
  LET me == pr[p]
  IN  /\ At(p, "write")
      /\ pr' = [pr EXCEPT ![p].pc = "exists", ![p].fd = NoFile]
      /\ UNCHANGED <<hp, tmp, pending, blobs, tpm, seq, asked, erased>>
      /\ \E c \in Overlaid(node[me.fd], me.hdr) : node' = Kept([node EXCEPT ![me.fd] = c])
      /\ flash' = flash \union {me.hdr}

HeaderExists(p) ==
  /\ At(p, "exists")
  /\ GoTo(p, IF hp = NoFile THEN "rename" ELSE "overwrite")
  /\ UNCHANGED <<files, pending, blobs, tpm, seq, history>>

(* best_effort_overwrite_delete: as many random bytes as the file has, and *)
(* none if it is no longer there.                                          *)
OverwriteHeader(p) ==
  /\ At(p, "overwrite")
  /\ node' = IF hp = NoFile \/ node[hp] = Empty THEN node ELSE [node EXCEPT ![hp] = Damaged]
  /\ GoTo(p, "remove")
  /\ UNCHANGED <<hp, tmp, pending, blobs, tpm, seq, history>>

RemoveHeader(p) ==
  /\ At(p, "remove")
  /\ hp' = NoFile
  /\ GoTo(p, "rename")
  /\ UNCHANGED <<tmp, pending, blobs, tpm, seq, history>>
  /\ node' = Kept(node)

RenameTmp(p) ==
  LET me == pr[p]
  IN  /\ At(p, "rename") /\ tmp # NoFile
      /\ hp' = tmp /\ tmp' = NoFile
      /\ \/ /\ me.op = "hwshred" /\ GoTo(p, "verify")
            /\ UNCHANGED erased
         \/ /\ me.op # "hwshred" /\ Return(p)
            /\ erased' = erased \union ({me.drop} \ {0})
      /\ node' = Kept(node)
      /\ UNCHANGED <<pending, blobs, tpm, seq, flash, asked>>

(* Another command has renamed it already.                                 *)
RenameFails(p) ==
  /\ At(p, "rename") /\ tmp = NoFile
  /\ Return(p)
  /\ UNCHANGED <<files, pending, blobs, tpm, seq, history>>

-----------------------------------------------------------------------------
(* The end of hardware_shred, and repair_destroy.                          *)

(* The header in memory is opened, not the one on disk.                    *)
Verify(p) ==
  /\ At(p, "verify")
  /\ \/ TRUE \in Unsealed(p) /\ GoTo(p, "mark")
     \/ FALSE \in Unsealed(p) /\ Return(p)
  /\ UNCHANGED <<files, pending, blobs, tpm, seq, history>>

Mark(p) ==
  /\ At(p, "mark")
  /\ pending' = pr[p].old
  /\ GoTo(p, "destroy")
  /\ UNCHANGED <<files, blobs, tpm, seq, history>>

(* Mutated: the key of the header on disk is destroyed.                    *)
DestroyCurrentKey(p) ==
  /\ At(p, "destroy")
  /\ tpm' = IF hp = NoFile THEN tpm ELSE tpm \ {Loaded.key}
  /\ GoTo(p, "unmark")
  /\ UNCHANGED <<files, pending, blobs, seq, history>>

DestroyKey(p) ==
  /\ At(p, "destroy")
  /\ \E r \in DestroyOutcomes(tpm, pr[p].old, Faulty) :
       /\ tpm' = r.keys
       /\ IF r.ok THEN GoTo(p, "unmark") ELSE Return(p)
  /\ UNCHANGED <<files, pending, blobs, seq, history>>

RemoveMarker(p) ==
  /\ At(p, "unmark")
  /\ pending' = NoKey
  /\ Return(p)
  /\ erased' = erased \union ({pr[p].drop} \ {0})
  /\ UNCHANGED <<files, blobs, tpm, seq, flash, asked>>

(* The process dies, or a file operation fails and it returns.             *)
Crash(p) ==
  /\ "crash" \in Env /\ ~At(p, "idle")
  /\ Return(p)
  /\ UNCHANGED <<hp, tmp, pending, blobs, tpm, seq, history>>
  /\ node' = Kept(node)

-----------------------------------------------------------------------------
Command(p) ==
  \/ \E pass \in Pass :
       \/ StartInit(p, pass) \/ StartInitTpm(p, pass) \/ StartAdd(p, pass)
       \/ \E id \in Entries : StartOpen(p, pass, id) \/ StartShred(p, pass, id)
       \/ \E newpass \in Pass : StartRekey(p, pass, newpass)
       \/ \E drop \in Entries \union {0} : StartHwShred(p, pass, drop)
  \/ StartRepair(p)

Store(p) ==
  \/ CreateTmp(p) \/ WriteTmp(p) \/ HeaderExists(p) \/ OverwriteHeader(p)
  \/ RemoveHeader(p) \/ RenameTmp(p) \/ RenameFails(p)

Step(p) ==
  \/ WriteBlob(p) \/ ReadBlob(p) \/ SealKey(p) \/ DropBlob(p) \/ Wrap(p) \/ Store(p)
  \/ Verify(p) \/ Mark(p) \/ DestroyKey(p) \/ RemoveMarker(p)

Next == \E p \in Procs : Command(p) \/ Step(p) \/ Crash(p)

Spec == Init /\ [][Next]_vars

-----------------------------------------------------------------------------
Pcs ==
  {"idle", "blob", "read", "seal", "drop", "wrap", "create", "write", "exists", "overwrite",
   "remove", "rename", "verify", "mark", "destroy", "unmark"}

Ops == {"none", "init", "add", "open", "shred", "rekey", "hwshred", "repair"}

HeadersOrNull == Headers \union {NullHeader}

(* Every variable has its type, and a process has a file open exactly      *)
(* while it is writing it.                                                 *)
TypeOK ==
  /\ hp \in Nodes \union {NoFile} /\ tmp \in Nodes \union {NoFile}
  /\ node \in [Nodes -> [state : {"empty", "damaged", "complete"}, hdr : HeadersOrNull]]
  /\ pending \in Nat /\ blobs \subseteq Nat /\ tpm \subseteq Nat /\ seq \in Nat
  /\ pr \in [Procs -> [op : Ops, pc : Pcs, n : Nat, pass : Pass \union {"none"}, drop : Nat,
                       old : Nat, fd : Nodes \union {NoFile}, hdr : HeadersOrNull,
                       alone : BOOLEAN]]
  /\ \A p \in Procs : At(p, "write") <=> pr[p].fd # NoFile
  /\ flash \subseteq Headers /\ asked \subseteq Nat /\ erased \subseteq Nat

Copies == {f \in {hp, tmp} \ {NoFile} : node[f].state = "complete"}

(* However commands overlap, the newest hardware key under which a header  *)
(* was ever written is alive: each hardware-shred and each repair-destroy  *)
(* only destroys a key older than a header already written, never the new  *)
(* key of another that runs beside it (vault.rs:595).                      *)
NewestKeyAlive ==
  \A h \in flash : h.key # NoKey /\ (\A g \in flash : g.key <= h.key) => h.key \in tpm

(* An entry that no command was asked to erase has its blob, in every      *)
(* header that can be read and in the one an open has read before its      *)
(* blob, whichever commands overlap.                                       *)
BlobsBehindEntries ==
  /\ \A f \in Copies : Ids(node[f].hdr) \ asked \subseteq blobs
  /\ \A p \in Procs : At(p, "read") => pr[p].drop \in blobs \union asked

(* A command that nobody overlaps is safe in whatever directory earlier    *)
(* races and crashes left: it never turns a directory with a readable copy *)
(* of the header into one without, unless it is init.                      *)
LoneCommandKeepsHeader ==
  [][Copies # {} /\ Copies' = {}
       => \E p \in Procs : ~At(p, "idle") /\ (~pr[p].alone \/ pr[p].op = "init")]_vars

(* An entry reported erased is in no readable header, and comes back into  *)
(* one only while a command runs that another has overlapped, and so may   *)
(* have loaded the header before the erasure (vault.rs:482).               *)
Named(id) == \E f \in Copies : id \in Ids(node[f].hdr)

ErasedReturnsOnlyByOverlap ==
  [][\A id \in erased' : Named(id)' => \/ id \in erased /\ Named(id)
                                       \/ \E p \in Procs : ~At(p, "idle") /\ ~pr[p].alone]_vars
=============================================================================
