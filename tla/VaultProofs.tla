---------------------------- MODULE VaultProofs ----------------------------
(***************************************************************************)
(* Theorems about Vault, for every set of passphrases, any number of       *)
(* commands and every Env.  Layers, each inductive relative to those       *)
(* before it: the types (TypeOK with ProcessInv), the consistency of every *)
(* header (HeaderInv), the two files of store (StoreInv), the order of the *)
(* TPM keys (KeyInv), the marker of an unfinished shred (MarkInv).         *)
(***************************************************************************)
EXTENDS VaultProperties, VaultHeaderProofs

TypeInv == TypeOK /\ ProcessInv

-----------------------------------------------------------------------------
(* What the guards of a starting command establish.                        *)

(* A command that opened the vault holds a consistent header and one of    *)
(* the passphrases of the model.                                           *)
LEMMA OpenedHeader ==
  ASSUME TypeInv, HeaderInv, hp.state = "complete"
  PROVE  hp.hdr \in Headers /\ Consistent(hp.hdr)
<1>1. hp.hdr \in Headers
  BY DEF TypeInv, TypeOK, FilesOK
<1>2. hp \in Copies
  BY DEF Copies
<1>. QED
  BY <1>1, <1>2 DEF HeaderInv, HeadersConsistent

(* The ids a shred may name are numbers.                                   *)
LEMMA EntriesAreIds ==
  ASSUME TypeInv
  PROVE  Entries \subseteq Nat
<1>1. CASE hp.state = "complete"
  <2>1. hp.hdr \in Headers
    BY <1>1 DEF TypeInv, TypeOK, FilesOK
  <2>2. hp.hdr.entries \in SUBSET [id : Nat, meta : Nat]
    BY <2>1, HeaderParts
  <2>. QED
    BY <1>1, <2>2 DEF Entries, Ids
<1>2. CASE hp.state # "complete"
  BY <1>2 DEF Entries
<1>. QED
  BY <1>1, <1>2

(* What the start of any command but repair-destroy does: it leaves the    *)
(* files of the header alone, and goes on with a consistent header under   *)
(* the key the vault has, a key just sealed, or none.                      *)
StartFacts ==
  /\ proc.pc = "idle" /\ seq <= MaxCmd /\ seq' = seq + 1
  /\ proc' \in [op : Ops \ {"none", "repair"}, pc : {"wrap", "drop", "create"}, n : Nat,
                pass : Pass, drop : Nat, old : Nat, hdr : Headers]
  /\ Consistent(proc'.hdr)
  /\ proc'.n = seq /\ proc'.old = hp.hdr.key
  /\ proc'.op # "init" => hp.state = "complete"
  /\ \/ proc'.hdr.key = NoKey
     \/ proc'.hdr.key = seq /\ seq \in tpm'
     \/ proc'.hdr.key = hp.hdr.key /\ hp.state = "complete"
  /\ proc'.op = "hwshred" => proc'.hdr.key = seq /\ hp.hdr.key # NoKey
  /\ blobs' \subseteq Nat /\ asked' \subseteq Nat /\ tpm' \in {tpm, tpm \union {seq}}
  /\ UNCHANGED <<hp, tmp, pending, flash, erased, retired, claimed, notebook, lost, unseen>>

(* The key of header.json, whole or not, is a number.                      *)
LEMMA KeyOfHeaderFile ==
  ASSUME TypeInv
  PROVE  hp.hdr.key \in Nat /\ tmp.hdr.key \in Nat
<1>1. NullHeader.key \in Nat
  BY DEF NullHeader, Blank, NoKey
<1>2. \A h \in Headers : h.key \in Nat
  BY HeaderParts
<1>. QED
  BY <1>1, <1>2 DEF TypeInv, TypeOK, FilesOK, HeadersOrNull

LEMMA Starts ==
  ASSUME TypeInv, HeaderInv, NEW p \in Pass, CommandStarts(p)
  PROVE  StartFacts
<1>. USE DEF Begin, SealRwk
<1>1. /\ seq \in Nat \ {0} /\ hp.hdr.key \in Nat
      /\ blobs \subseteq Nat /\ asked \subseteq Nat /\ Entries \subseteq Nat
  BY KeyOfHeaderFile, EntriesAreIds DEF TypeInv, TypeOK, FilesOK, HistoryOK
<1>2. CASE StartInit(p)
  <2>1. NewHeader(p, NoKey, NoKit, seq) \in Headers /\ Consistent(NewHeader(p, NoKey, NoKit, seq))
        /\ NewHeader(p, NoKey, NoKit, seq).key = NoKey
    BY <1>1, NewHeaderGood
  <2>. QED
    BY <1>1, <1>2, <2>1 DEF StartInit, StartFacts, disk, history, Ops
<1>3. ASSUME NEW kit \in BOOLEAN, StartInitTpm(p, kit)
      PROVE  StartFacts
  <2>. DEFINE k == IF kit THEN Escrow(seq) ELSE NoKit
              h == NewHeader(p, seq, k, seq)
  <2>1. h \in Headers /\ Consistent(h) /\ h.key = seq
    <3>1. k \in {NoKit, Escrow(seq)}
      OBVIOUS
    <3>. HIDE DEF k
    <3>. QED
      BY <1>1, <3>1, NewHeaderGood
  <2>2. proc' = [op |-> "init", pc |-> "create", n |-> seq, pass |-> p, drop |-> 0,
                 old |-> hp.hdr.key, hdr |-> h]
    BY <1>3 DEF StartInitTpm
  <2>. HIDE DEF h
  <2>. QED
    BY <1>1, <1>3, <2>1, <2>2 DEF StartInitTpm, StartFacts, disk, history, Ops
<1>4. CASE StartAdd(p)
  <2>1. hp.hdr \in Headers /\ Consistent(hp.hdr) /\ hp.state = "complete"
    BY <1>4, OpenedHeader DEF StartAdd, OpensWith
  <2>2. Added(hp.hdr, seq) \in Headers /\ Consistent(Added(hp.hdr, seq))
        /\ Added(hp.hdr, seq).key = hp.hdr.key
    BY <1>1, <2>1, AddedGood
  <2>. QED
    BY <1>1, <1>4, <2>1, <2>2 DEF StartAdd, StartFacts, history, Ops
<1>5. ASSUME NEW id \in Entries, StartShred(p, id)
      PROVE  StartFacts
  <2>1. hp.hdr \in Headers /\ Consistent(hp.hdr) /\ hp.state = "complete"
    BY <1>5, OpenedHeader DEF StartShred, OpensWith
  <2>2. blobs' \subseteq Nat
    BY <1>1, <1>5 DEF StartShred, DropBlob
  <2>. QED
    BY <1>1, <1>5, <2>1, <2>2 DEF StartShred, StartFacts, Ops
<1>6. ASSUME NEW newp \in Pass, StartRekey(p, newp)
      PROVE  StartFacts
  <2>1. hp.hdr \in Headers /\ Consistent(hp.hdr) /\ hp.state = "complete"
    BY <1>6, OpenedHeader DEF StartRekey, OpensWith
  <2>2. Rekeyed(hp.hdr, newp, seq) \in Headers /\ Consistent(Rekeyed(hp.hdr, newp, seq))
        /\ Rekeyed(hp.hdr, newp, seq).key = hp.hdr.key
    BY <1>1, <2>1, RekeyedGood
  <2>. QED
    BY <1>1, <1>6, <2>1, <2>2 DEF StartRekey, StartFacts, disk, history, Ops
<1>7. ASSUME NEW drop \in Entries \union {0}, NEW destroyKit \in BOOLEAN,
             StartHwShred(p, drop, destroyKit)
      PROVE  StartFacts
  <2>. DEFINE h == HwShredded(hp.hdr, p, drop, destroyKit, seq)
  <2>1. hp.hdr \in Headers /\ Consistent(hp.hdr) /\ hp.state = "complete"
    BY <1>7, OpenedHeader DEF StartHwShred, OpensWith
  <2>2. h \in Headers /\ Consistent(h) /\ h.key = seq
    <3>1. drop \in Nat
      <4>1. Entries \subseteq Nat /\ 0 \in Nat
        BY <1>1
      <4>. QED
        BY <4>1, Zenon
    <3>2. seq \in Nat \ {0}
      BY <1>1
    <3>. QED
      BY <2>1, <3>1, <3>2, HwShreddedGood
  <2>3. proc' = [op |-> "hwshred", pc |-> IF drop = 0 THEN "create" ELSE "drop", n |-> seq,
                 pass |-> p, drop |-> drop, old |-> hp.hdr.key, hdr |-> h]
    BY <1>7 DEF StartHwShred
  <2>. HIDE DEF h
  <2>. QED
    BY <1>1, <1>7, <2>1, <2>2, <2>3 DEF StartHwShred, StartFacts, disk, Ops
<1>8. ASSUME NEW code \in notebook, StartRecover(p, code)
      PROVE  StartFacts
  <2>1. hp.hdr \in Headers /\ Consistent(hp.hdr) /\ hp.state = "complete"
    BY <1>8, OpenedHeader DEF StartRecover, KitOpens
  <2>2. Reprovisioned(hp.hdr, p, seq) \in Headers /\ Consistent(Reprovisioned(hp.hdr, p, seq))
        /\ Reprovisioned(hp.hdr, p, seq).key = seq
    BY <1>1, <2>1, ReprovisionedGood
  <2>. QED
    BY <1>1, <1>8, <2>1, <2>2 DEF StartRecover, StartFacts, disk, history, Ops
<1>9. ASSUME NEW code \in notebook, StartRecoverToSoftware(p, code)
      PROVE  StartFacts
  <2>1. hp.hdr \in Headers /\ Consistent(hp.hdr) /\ hp.state = "complete"
    BY <1>9, OpenedHeader DEF StartRecoverToSoftware, KitOpens
  <2>2. ToSoftware(hp.hdr, p) \in Headers /\ Consistent(ToSoftware(hp.hdr, p))
        /\ ToSoftware(hp.hdr, p).key = NoKey
    BY <2>1, ToSoftwareGood
  <2>. QED
    BY <1>1, <1>9, <2>1, <2>2 DEF StartRecoverToSoftware, StartFacts, disk, history, Ops
<1>. QED
  BY <1>2, <1>3, <1>4, <1>5, <1>6, <1>7, <1>8, <1>9 DEF CommandStarts

-----------------------------------------------------------------------------
(* Types and the consistency of headers.                                   *)

LEMMA TypeInit == Init => TypeInv /\ HeaderInv
  BY DEF Init, TypeInv, TypeOK, FilesOK, HistoryOK, Procs, ProcessInv, Running, HeaderInv, HeadersConsistent, Copies,
         NoFile, NoMarker, Idle, HeadersOrNull, States, Ops, Pcs, NoKey

(* A command that ends leaves the process idle.                            *)
LEMMA IdleProc == Idle \in Procs
  BY DEF Idle, Procs, Ops, Pcs, HeadersOrNull, NoKey

(* Moving the running command to another place of its code changes nothing *)
(* else about it.                                                          *)
LEMMA MovedProc ==
  ASSUME NEW q \in Procs, NEW pc \in Pcs
  PROVE  /\ [q EXCEPT !.pc = pc] \in Procs
         /\ [q EXCEPT !.pc = pc].pc = pc /\ [q EXCEPT !.pc = pc].op = q.op
         /\ [q EXCEPT !.pc = pc].pass = q.pass /\ [q EXCEPT !.pc = pc].hdr = q.hdr
         /\ [q EXCEPT !.pc = pc].old = q.old /\ [q EXCEPT !.pc = pc].n = q.n
         /\ [q EXCEPT !.pc = pc].drop = q.drop
  BY DEF Procs

(* A program step ends the command, or moves it within its code without    *)
(* touching what it carries; Wrap also rebuilds the header it carries.     *)
Ends == proc' = Idle
MovesTo(pc) ==
  /\ proc' \in Procs
  /\ proc'.pc = pc /\ proc'.op = proc.op /\ proc'.pass = proc.pass
  /\ proc'.hdr = proc.hdr /\ proc'.old = proc.old
  /\ proc'.n = proc.n /\ proc'.drop = proc.drop

LEMMA GoToMoves ==
  ASSUME TypeInv, NEW pc \in Pcs, GoTo(pc)
  PROVE  MovesTo(pc)
<1>1. proc \in Procs
  BY DEF TypeInv, TypeOK
<1>. QED
  BY <1>1, MovedProc DEF GoTo, MovesTo

LEMMA WrapMoves ==
  ASSUME TypeInv, HeaderInv, Wrap
  PROVE  /\ proc' \in Procs /\ proc'.pc = "create" /\ proc'.op = proc.op
         /\ proc'.pass = proc.pass /\ proc'.old = proc.old
         /\ proc'.n = proc.n /\ proc'.drop = proc.drop
         /\ proc'.hdr = Rotated(proc.hdr, proc.pass, proc.drop, proc.n)
         /\ proc'.hdr \in Headers /\ Consistent(proc'.hdr) /\ proc'.hdr.key = proc.hdr.key
<1>1. proc \in Procs /\ proc.pc = "wrap" /\ Running
  BY DEF TypeInv, TypeOK, ProcessInv, Wrap, At, Running
<1>2. proc.hdr \in Headers /\ Consistent(proc.hdr) /\ proc.pass \in Pass
  BY <1>1 DEF TypeInv, ProcessInv, HeaderInv
<1>3. proc.drop \in Nat /\ proc.n \in Nat
  BY <1>1 DEF Procs
<1>. DEFINE h == Rotated(proc.hdr, proc.pass, proc.drop, proc.n)
<1>4. h \in Headers /\ Consistent(h) /\ h.key = proc.hdr.key
  BY <1>2, <1>3, RotatedGood
<1>5. proc' = [proc EXCEPT !.pc = "create", !.hdr = h]
  BY DEF Wrap
<1>. HIDE DEF h
<1>6. h \in HeadersOrNull /\ "create" \in Pcs
  BY <1>4 DEF HeadersOrNull, Pcs
<1>7. /\ proc' \in Procs /\ proc'.pc = "create" /\ proc'.op = proc.op
      /\ proc'.pass = proc.pass /\ proc'.old = proc.old
      /\ proc'.n = proc.n /\ proc'.drop = proc.drop /\ proc'.hdr = h
  BY <1>1, <1>5, <1>6 DEF Procs
<1>. QED
  BY <1>4, <1>7 DEF h

(* How the steps of the program move the process.                          *)
LEMMA Moves ==
  ASSUME TypeInv
  PROVE  /\ WrapFails \/ VerifyFails \/ DestroyFails \/ RemoveMarker \/ Crash => Ends
         /\ HwDropBlob => proc.pc = "drop" /\ MovesTo("create")
         /\ CreateTmp => proc.pc = "create" /\ MovesTo("write")
         /\ WriteTmp => proc.pc = "write" /\ (MovesTo("rename") \/ MovesTo("overwrite"))
         /\ OverwriteHeader => proc.pc = "overwrite" /\ MovesTo("remove")
         /\ RemoveHeader => proc.pc = "remove" /\ MovesTo("rename")
         /\ RenameTmp => proc.pc = "rename" /\ (Ends \/ (proc.op = "hwshred" /\ MovesTo("verify")))
         /\ Verify => proc.pc = "verify" /\ MovesTo("mark")
         /\ CreateMarker => proc.pc = "mark" /\ MovesTo("write_marker")
         /\ WriteMarker => proc.pc = "write_marker" /\ MovesTo("destroy")
         /\ DestroyKey \/ DestroyReadsAbsent => proc.pc = "destroy" /\ MovesTo("unmark")
<1>1. WrapFails \/ VerifyFails \/ DestroyFails \/ RemoveMarker \/ Crash => Ends
  BY DEF Ends, Finish, WrapFails, VerifyFails, DestroyFails, RemoveMarker, Crash
<1>2. \A pc \in Pcs : GoTo(pc) => MovesTo(pc)
  BY GoToMoves
<1>3. {"create", "write", "rename", "overwrite", "remove", "verify", "mark", "write_marker",
       "destroy", "unmark"} \subseteq Pcs
  BY DEF Pcs
<1>4. /\ HwDropBlob => At("drop") /\ GoTo("create")
      /\ CreateTmp => At("create") /\ GoTo("write")
      /\ WriteTmp => At("write") /\ (GoTo("rename") \/ GoTo("overwrite"))
      /\ OverwriteHeader => At("overwrite") /\ GoTo("remove")
      /\ RemoveHeader => At("remove") /\ GoTo("rename")
  BY DEF HwDropBlob, CreateTmp, WriteTmp, OverwriteHeader, RemoveHeader
<1>5. RenameTmp => At("rename") /\ (Ends \/ (proc.op = "hwshred" /\ GoTo("verify")))
  <2>1. CASE proc.op = "hwshred"
    BY <2>1 DEF RenameTmp
  <2>2. CASE proc.op # "hwshred"
    BY <2>2 DEF RenameTmp, Finish, Ends
  <2>. QED
    BY <2>1, <2>2
<1>6. /\ Verify => At("verify") /\ GoTo("mark")
      /\ CreateMarker => At("mark") /\ GoTo("write_marker")
      /\ WriteMarker => At("write_marker") /\ GoTo("destroy")
      /\ DestroyKey \/ DestroyReadsAbsent => At("destroy") /\ GoTo("unmark")
  BY DEF Verify, CreateMarker, WriteMarker, DestroyKey, DestroyReadsAbsent
<1>. QED
  BY <1>1, <1>2, <1>3, <1>4, <1>5, <1>6 DEF At

(* Every step keeps the process well typed, at a place its command has,    *)
(* and carrying a consistent header.                                       *)
LEMMA ProcessStep ==
  ASSUME TypeInv, HeaderInv, Next
  PROVE  /\ proc' \in Procs /\ seq' \in Nat \ {0} /\ ProcessInv'
         /\ Running' => Consistent(proc'.hdr)
<1>. DEFINE Good == /\ proc' \in Procs /\ ProcessInv'
                    /\ Running' => Consistent(proc'.hdr)
<1>0. /\ proc \in Procs /\ ProcessInv /\ seq \in Nat \ {0}
      /\ Running => Consistent(proc.hdr)
  BY DEF TypeInv, TypeOK, HeaderInv
<1>1. ASSUME NEW p \in Pass, CommandStarts(p)
      PROVE  Good /\ seq' \in Nat \ {0}
  <2>1. StartFacts
    BY <1>1, Starts
  <2>2. proc' \in Procs
    BY <2>1 DEF StartFacts, Procs, Pcs, HeadersOrNull
  <2>. QED
    BY <1>0, <2>1, <2>2 DEF StartFacts, ProcessInv, Running
<1>2. CASE StartRepair
  <2>1. pending.key \in Nat
    BY DEF TypeInv, TypeOK, FilesOK
  <2>2. proc' = [op |-> "repair", pc |-> "destroy", n |-> 0, pass |-> "none", drop |-> 0,
                 old |-> pending.key, hdr |-> NullHeader]
    BY <1>2 DEF StartRepair, Idle
  <2>3. proc' \in Procs
    BY <2>1, <2>2 DEF Procs, Ops, Pcs, HeadersOrNull
  <2>. QED
    BY <1>0, <1>2, <2>2, <2>3 DEF StartRepair, ProcessInv, Running
<1>3. CASE Wrap
  BY <1>0, <1>3, WrapMoves DEF Wrap, At, ProcessInv, Running
<1>4. CASE Ends /\ seq' = seq
  BY <1>0, <1>4, IdleProc DEF Ends, Idle, ProcessInv, Running
<1>5. ASSUME NEW pc \in Pcs \ {"idle"}, MovesTo(pc), seq' = seq, proc.pc # "idle",
             pc \in {"verify", "mark", "write_marker"} => proc.op = "hwshred",
             pc \in {"destroy", "unmark"} => proc.op \in {"hwshred", "repair"},
             proc.op = "repair" => pc \in {"destroy", "unmark"}
      PROVE  Good
  BY <1>0, <1>5 DEF MovesTo, ProcessInv, Running
<1>6. CASE ProgramStep \/ Crash
  <2>1. seq' = seq
    BY <1>6 DEF ProgramStep, Crash, Wrap, WrapFails, HwDropBlob, StoreStep, CreateTmp, WriteTmp,
                OverwriteHeader, RemoveHeader, RenameTmp, Verify, VerifyFails, CreateMarker,
                WriteMarker, DestroyKey, DestroyFails, DestroyReadsAbsent, RemoveMarker
  <2>2. CASE Wrap
    BY <1>0, <1>3, <2>1, <2>2
  <2>3. CASE Ends
    BY <1>0, <1>4, <2>1, <2>3
  <2>4. CASE \/ HwDropBlob \/ CreateTmp \/ WriteTmp \/ OverwriteHeader \/ RemoveHeader
             \/ (RenameTmp /\ ~Ends)
    <3>1. /\ proc.pc \in {"drop", "create", "write", "overwrite", "remove", "rename"}
          /\ \/ MovesTo("create") \/ MovesTo("write") \/ MovesTo("rename")
             \/ MovesTo("overwrite") \/ MovesTo("remove")
             \/ (proc.op = "hwshred" /\ MovesTo("verify"))
      BY <2>4, Moves
    <3>2. proc.op # "repair"
      BY <1>0, <3>1 DEF ProcessInv
    <3>3. {"create", "write", "overwrite", "remove", "rename", "verify"} \subseteq Pcs \ {"idle"}
      BY DEF Pcs
    <3>. QED
      BY <1>0, <1>5, <2>1, <3>1, <3>2, <3>3
  <2>5. CASE Verify \/ CreateMarker \/ WriteMarker \/ DestroyKey \/ DestroyReadsAbsent
    <3>1. \/ proc.pc = "verify" /\ MovesTo("mark")
          \/ proc.pc = "mark" /\ MovesTo("write_marker")
          \/ proc.pc = "write_marker" /\ MovesTo("destroy")
          \/ proc.pc = "destroy" /\ MovesTo("unmark")
      BY <2>5, Moves
    <3>2. /\ proc.pc \in {"verify", "mark", "write_marker"} => proc.op = "hwshred"
          /\ proc.pc = "destroy" => proc.op \in {"hwshred", "repair"}
      BY <1>0 DEF ProcessInv
    <3>3. {"mark", "write_marker", "destroy", "unmark"} \subseteq Pcs \ {"idle"}
      BY DEF Pcs
    <3>. QED
      BY <1>0, <1>5, <2>1, <3>1, <3>2, <3>3
  <2>. QED
    BY <1>6, <2>2, <2>3, <2>4, <2>5, Moves DEF ProgramStep, StoreStep
<1>7. CASE TpmClear
  BY <1>0, <1>7 DEF TpmClear, ProcessInv, Running
<1>. QED
  BY <1>0, <1>1, <1>2, <1>6, <1>7 DEF Next, UserStarts

(* The files a step may leave: as they were, or what one step of store or  *)
(* of the marker makes of them.                                            *)
LEMMA FilesStep ==
  ASSUME TypeInv, HeaderInv, Next
  PROVE  FilesOK'
<1>1. /\ FilesOK /\ TypeOK /\ ProcessInv
      /\ NoFile \in [state : States, hdr : HeadersOrNull] /\ NoFile.state = "absent"
      /\ Damaged \in [state : States, hdr : HeadersOrNull] /\ Damaged.state = "damaged"
      /\ NoMarker \in [state : States, key : Nat] /\ TornMarker \in [state : States, key : Nat]
  BY DEF TypeInv, TypeOK, NoFile, Damaged, NoMarker, TornMarker, States, HeadersOrNull, NoKey
<1>2. CASE UNCHANGED <<hp, tmp, pending>>
  BY <1>1, <1>2 DEF FilesOK
<1>3. CASE CreateTmp
  BY <1>1, <1>3 DEF FilesOK, CreateTmp
<1>4. CASE WriteTmp
  <2>1. proc.hdr \in Headers
    BY <1>1, <1>4 DEF ProcessInv, Running, WriteTmp, At
  <2>2. Complete(proc.hdr) \in [state : States, hdr : HeadersOrNull]
        /\ Complete(proc.hdr).hdr = proc.hdr
    BY <2>1 DEF Complete, States, HeadersOrNull
  <2>. QED
    BY <1>1, <1>4, <2>1, <2>2 DEF FilesOK, WriteTmp
<1>5. CASE OverwriteHeader \/ RemoveHeader
  BY <1>1, <1>5 DEF FilesOK, OverwriteHeader, RemoveHeader
<1>6. CASE RenameTmp
  BY <1>1, <1>6 DEF FilesOK, RenameTmp
<1>7. CASE CreateMarker \/ RemoveMarker
  BY <1>1, <1>7 DEF FilesOK, CreateMarker, RemoveMarker
<1>8. CASE WriteMarker
  <2>1. proc.old \in Nat
    BY <1>1 DEF TypeOK, Procs
  <2>. QED
    BY <1>1, <1>8, <2>1 DEF FilesOK, WriteMarker, Marker, States
<1>9. ASSUME NEW p \in Pass, CommandStarts(p)
      PROVE  UNCHANGED <<hp, tmp, pending>>
  BY <1>9, Starts DEF StartFacts
<1>10. CASE \/ StartRepair \/ TpmClear \/ Crash \/ Wrap \/ WrapFails \/ HwDropBlob \/ Verify
            \/ VerifyFails \/ DestroyKey \/ DestroyFails \/ DestroyReadsAbsent
  BY <1>10, <1>2 DEF StartRepair, TpmClear, Crash, Wrap, WrapFails, HwDropBlob, Verify,
     VerifyFails, DestroyKey, DestroyFails, DestroyReadsAbsent, disk
<1>. QED
  BY <1>2, <1>3, <1>4, <1>5, <1>6, <1>7, <1>8, <1>9, <1>10
     DEF Next, UserStarts, ProgramStep, StoreStep

(* The blobs, the TPM keys and the history stay well typed.                *)
LEMMA HistoryStep ==
  ASSUME TypeInv, HeaderInv, Next
  PROVE  HistoryOK' /\ blobs' \subseteq Nat /\ tpm' \subseteq Nat \ {0}
<1>1. /\ HistoryOK /\ blobs \subseteq Nat /\ tpm \subseteq Nat \ {0} /\ seq \in Nat \ {0}
      /\ proc.n \in Nat /\ proc.drop \in Nat /\ proc.old \in Nat /\ ProcessInv
  BY DEF TypeInv, TypeOK, Procs
<1>2. ASSUME NEW p \in Pass, CommandStarts(p)
      PROVE  HistoryOK' /\ blobs' \subseteq Nat /\ tpm' \subseteq Nat \ {0}
  BY <1>1, <1>2, Starts DEF StartFacts, HistoryOK
<1>3. CASE WriteTmp
  <2>1. proc.hdr \in Headers
    BY <1>1, <1>3 DEF ProcessInv, Running, WriteTmp, At
  <2>2. [by |-> proc.n, hdr |-> proc.hdr] \in [by : Nat, hdr : Headers]
    BY <1>1, <2>1
  <2>. QED
    BY <1>1, <1>3, <2>2 DEF HistoryOK, WriteTmp
<1>4. ASSUME Report
      PROVE  notebook' \subseteq Nat /\ erased' \subseteq [id : Nat, by : Nat]
  <2>1. \A d \in {proc.drop} \ {0} : [id |-> d, by |-> proc.n] \in [id : Nat, by : Nat]
    BY <1>1
  <2>. QED
    BY <1>1, <1>4, <2>1 DEF Report, HistoryOK
<1>5. CASE RenameTmp
  BY <1>1, <1>4, <1>5 DEF RenameTmp, HistoryOK
<1>6. CASE RemoveMarker
  BY <1>1, <1>4, <1>6 DEF RemoveMarker, HistoryOK
<1>7. CASE HwDropBlob
  BY <1>1, <1>7 DEF HwDropBlob, DropBlob, history, HistoryOK
<1>8. CASE TpmClear \/ DestroyKey
  BY <1>1, <1>8 DEF TpmClear, DestroyKey, disk, history, HistoryOK
<1>9. CASE UNCHANGED <<blobs, tpm, history>>
  BY <1>1, <1>9 DEF HistoryOK, history
<1>10. CASE \/ StartRepair \/ Crash \/ Wrap \/ WrapFails \/ CreateTmp \/ OverwriteHeader
            \/ RemoveHeader \/ Verify \/ VerifyFails \/ CreateMarker \/ WriteMarker
            \/ DestroyFails
  <2>1. UNCHANGED <<blobs, tpm, history>>
    BY <1>10 DEF StartRepair, Crash, Wrap, WrapFails, CreateTmp, OverwriteHeader, RemoveHeader,
       Verify, VerifyFails, CreateMarker, WriteMarker, DestroyFails, disk
  <2>. QED
    BY <1>9, <2>1
<1>11. CASE DestroyReadsAbsent
  BY <1>1, <1>11 DEF DestroyReadsAbsent, disk, HistoryOK
<1>. QED
  BY <1>2, <1>3, <1>5, <1>6, <1>7, <1>8, <1>10, <1>11 DEF Next, UserStarts, ProgramStep, StoreStep

(* Every header on the medium stays consistent: store writes the header in *)
(* memory, and rename moves one that is already there.                     *)
LEMMA HeadersStep ==
  ASSUME TypeInv, HeaderInv, Next
  PROVE  HeadersConsistent'
<1>1. /\ \A f \in flash : Consistent(f.hdr)
      /\ hp.state = "complete" => Consistent(hp.hdr)
      /\ tmp.state = "complete" => Consistent(tmp.hdr)
  BY DEF HeaderInv, HeadersConsistent, Copies
<1>2. SUFFICES /\ \A f \in flash' : Consistent(f.hdr)
               /\ hp'.state = "complete" => Consistent(hp'.hdr)
               /\ tmp'.state = "complete" => Consistent(tmp'.hdr)
  BY DEF HeadersConsistent, Copies
<1>3. CASE UNCHANGED <<hp, tmp, flash>>
  BY <1>1, <1>3
<1>4. CASE WriteTmp
  <2>1. Running
    BY <1>4 DEF TypeInv, ProcessInv, Running, WriteTmp, At
  <2>2. Consistent(proc.hdr)
    BY <2>1 DEF HeaderInv
  <2>3. flash' = flash \union {[by |-> proc.n, hdr |-> proc.hdr]} /\ tmp' = Complete(proc.hdr)
        /\ hp' = hp
    BY <1>4 DEF WriteTmp
  <2>. QED
    BY <1>1, <2>2, <2>3 DEF Complete
<1>5. CASE CreateTmp \/ OverwriteHeader
  BY <1>1, <1>5 DEF CreateTmp, OverwriteHeader, Damaged, history
<1>6. CASE RemoveHeader
  BY <1>1, <1>6 DEF RemoveHeader, NoFile, history
<1>7. CASE RenameTmp
  BY <1>1, <1>7 DEF RenameTmp, NoFile
<1>8. ASSUME NEW p \in Pass, CommandStarts(p)
      PROVE  UNCHANGED <<hp, tmp, flash>>
  BY <1>8, Starts DEF StartFacts
<1>9. CASE \/ StartRepair \/ TpmClear \/ Crash \/ Wrap \/ WrapFails \/ HwDropBlob \/ Verify
           \/ VerifyFails \/ CreateMarker \/ WriteMarker \/ RemoveMarker
           \/ DestroyKey \/ DestroyFails \/ DestroyReadsAbsent
  <2>1. UNCHANGED <<hp, tmp, flash>>
    BY <1>9 DEF StartRepair, TpmClear, Crash, Wrap, WrapFails, HwDropBlob, Verify, VerifyFails,
       CreateMarker, WriteMarker, RemoveMarker, DestroyKey, DestroyFails, DestroyReadsAbsent,
       disk, history
  <2>. QED
    BY <1>3, <2>1
<1>. QED
  BY <1>3, <1>4, <1>5, <1>6, <1>7, <1>8, <1>9 DEF Next, UserStarts, ProgramStep, StoreStep

LEMMA StutterStep ==
  ASSUME TypeInv, HeaderInv, UNCHANGED vars
  PROVE  TypeInv' /\ HeaderInv'
  BY DEF vars, disk, history, TypeInv, TypeOK, FilesOK, HistoryOK, ProcessInv, Running,
         HeaderInv, HeadersConsistent, Copies

LEMMA TypeHeaderStep == TypeInv /\ HeaderInv /\ [Next]_vars => TypeInv' /\ HeaderInv'
<1>1. ASSUME TypeInv, HeaderInv, Next
      PROVE  TypeInv' /\ HeaderInv'
  BY <1>1, ProcessStep, FilesStep, HistoryStep, HeadersStep DEF TypeInv, TypeOK, HeaderInv
<1>. QED
  BY <1>1, StutterStep

-----------------------------------------------------------------------------
(* The variables keep their types, and a file holds a header exactly when  *)
(* it is complete.                                                         *)
THEOREM TypeCorrect == Spec => []TypeOK
<1>1. TypeInv /\ HeaderInv => TypeOK
  BY DEF TypeInv
<1>. QED
  BY <1>1, TypeInit, TypeHeaderStep, PTL DEF Spec

(* Whatever fails and wherever a command dies, every header that reached   *)
(* the medium is usable as a whole.                                        *)
THEOREM HeadersAlwaysConsistent == Spec => []HeadersConsistent
<1>1. TypeInv /\ HeaderInv => HeadersConsistent
  BY DEF HeaderInv
<1>. QED
  BY <1>1, TypeInit, TypeHeaderStep, PTL DEF Spec

-----------------------------------------------------------------------------
(* The two files of store.                                                 *)

LEMMA StoreInit == Init => StoreInv
  BY DEF Init, StoreInv, Idle

(* Every step keeps StoreInv: until the new header is whole in             *)
(* header.json.tmp, header.json is not touched.                            *)
LEMMA StoreStepKeeps ==
  ASSUME TypeInv, HeaderInv, StoreInv, Next
  PROVE  StoreInv'
<1>. USE DEF StoreInv
<1>1. proc \in Procs /\ ProcessInv
  BY DEF TypeInv, TypeOK
<1>2. ASSUME NEW p \in Pass, CommandStarts(p)
      PROVE  StoreInv'
  BY <1>2, Starts DEF StartFacts
<1>3. CASE StartRepair
  BY <1>3 DEF StartRepair, Idle, disk
<1>4. CASE Ends
  BY <1>4 DEF Ends, Idle
<1>5. CASE Wrap
  BY <1>5, WrapMoves DEF Wrap, At, disk
<1>6. CASE HwDropBlob
  BY <1>6, Moves DEF HwDropBlob, MovesTo
<1>7. CASE CreateTmp
  BY <1>7, Moves DEF CreateTmp, MovesTo
<1>8. CASE WriteTmp
  <2>1. proc.pc = "write" /\ (MovesTo("rename") \/ MovesTo("overwrite"))
        /\ hp' = hp /\ tmp' = Complete(proc.hdr)
    BY <1>8, Moves DEF WriteTmp
  <2>. QED
    BY <2>1 DEF MovesTo
<1>9. CASE OverwriteHeader
  BY <1>9, Moves DEF OverwriteHeader, MovesTo
<1>10. CASE RemoveHeader
  BY <1>10, Moves DEF RemoveHeader, MovesTo
<1>11. CASE RenameTmp /\ ~Ends
  <2>1. MovesTo("verify") /\ proc.op = "hwshred" /\ hp' = tmp /\ tmp' = NoFile
        /\ tmp = Complete(proc.hdr)
    BY <1>11, Moves DEF RenameTmp
  <2>. QED
    BY <2>1 DEF MovesTo
<1>12. CASE Verify \/ CreateMarker \/ WriteMarker
  <2>1. /\ \/ MovesTo("mark") \/ MovesTo("write_marker") \/ MovesTo("destroy")
        /\ proc.pc \in {"verify", "mark", "write_marker"} /\ proc.op = "hwshred"
        /\ hp' = hp /\ tmp' = tmp
    BY <1>1, <1>12, Moves DEF Verify, CreateMarker, WriteMarker, disk, ProcessInv
  <2>. QED
    BY <2>1 DEF MovesTo
<1>13. CASE DestroyKey \/ DestroyReadsAbsent
  <2>1. proc.pc = "destroy" /\ MovesTo("unmark") /\ hp' = hp /\ tmp' = tmp
    BY <1>13, Moves DEF DestroyKey, DestroyReadsAbsent, disk
  <2>. QED
    BY <2>1 DEF MovesTo
<1>14. CASE TpmClear
  BY <1>14 DEF TpmClear, disk
<1>. QED
  BY <1>2, <1>3, <1>4, <1>5, <1>6, <1>7, <1>8, <1>9, <1>10, <1>11, <1>12, <1>13, <1>14, Moves
     DEF Next, UserStarts, ProgramStep, StoreStep

(* Until store has written the new header, the old one is whole; from then *)
(* on the new one is.                                                      *)
LEMMA CopyKept ==
  ASSUME TypeInv, HeaderInv, StoreInv, Next, Copies # {}, proc.op # "init"
  PROVE  Copies' # {}
<1>1. hp.state = "complete" \/ tmp.state = "complete"
  BY DEF Copies
<1>2. SUFFICES hp'.state = "complete" \/ tmp'.state = "complete"
  BY DEF Copies
<1>3. CASE UNCHANGED <<hp, tmp>>
  BY <1>1, <1>3
<1>4. CASE CreateTmp
  BY <1>4 DEF CreateTmp, At, StoreInv
<1>5. CASE WriteTmp
  BY <1>5 DEF WriteTmp, Complete
<1>6. CASE OverwriteHeader \/ RemoveHeader
  BY <1>6 DEF OverwriteHeader, RemoveHeader, At, StoreInv, Complete
<1>7. CASE RenameTmp
  BY <1>7 DEF RenameTmp, At, StoreInv, Complete
<1>8. ASSUME NEW p \in Pass, CommandStarts(p)
      PROVE  UNCHANGED <<hp, tmp>>
  BY <1>8, Starts DEF StartFacts
<1>9. CASE \/ StartRepair \/ TpmClear \/ Crash \/ Wrap \/ WrapFails \/ HwDropBlob \/ Verify
           \/ VerifyFails \/ CreateMarker \/ WriteMarker \/ RemoveMarker
           \/ DestroyKey \/ DestroyFails \/ DestroyReadsAbsent
  <2>1. UNCHANGED <<hp, tmp>>
    BY <1>9 DEF StartRepair, TpmClear, Crash, Wrap, WrapFails, HwDropBlob, Verify, VerifyFails,
       CreateMarker, WriteMarker, RemoveMarker, DestroyKey, DestroyFails, DestroyReadsAbsent, disk
  <2>. QED
    BY <1>3, <2>1
<1>. QED
  BY <1>3, <1>4, <1>5, <1>6, <1>7, <1>8, <1>9 DEF Next, UserStarts, ProgramStep, StoreStep

LEMMA StoreInvariant == Spec => [](TypeInv /\ HeaderInv /\ StoreInv)
<1>1. TypeInv /\ HeaderInv /\ StoreInv /\ [Next]_vars => StoreInv'
  <2>1. StoreInv /\ UNCHANGED vars => StoreInv'
    BY DEF StoreInv, vars, disk
  <2>. QED
    BY <2>1, StoreStepKeeps
<1>. QED
  BY <1>1, TypeInit, StoreInit, TypeHeaderStep, PTL DEF Spec

(* Only init may lose the last readable copy of the header.                *)
THEOREM SomeCopyAlwaysSurvives == Spec => SomeCopySurvives
<1>1. TypeInv /\ HeaderInv /\ StoreInv /\ [Next]_vars
        => [Copies # {} /\ Copies' = {} => proc.op = "init"]_vars
  BY CopyKept
<1>. QED
  BY <1>1, StoreInvariant, PTL DEF Spec, SomeCopySurvives

-----------------------------------------------------------------------------
(* The order of the TPM keys.                                              *)

(* What KeyInv says of the key of one header that is, or may come to be,   *)
(* on disk, when the keys in live exist, s is the next number and m the    *)
(* marked key.                                                             *)
SafeKey(k, live, s, m) == k < s /\ (k # NoKey => k \in live /\ m < k)

LEMMA KeyInvByFile ==
  KeyInv <=>
    /\ hp.state = "complete" => SafeKey(hp.hdr.key, tpm \union lost, seq, pending.key)
    /\ tmp.state = "complete" => SafeKey(tmp.hdr.key, tpm \union lost, seq, pending.key)
    /\ Running => SafeKey(proc.hdr.key, tpm \union lost, seq, pending.key)
    /\ pending.key < seq
    /\ proc.op = "hwshred" => proc.old < proc.hdr.key
    /\ proc.op = "repair" /\ proc.pc = "destroy" => proc.old = pending.key
  BY DEF KeyInv, SafeKey, Copies, Needs

LEMMA KeyInit == Init => KeyInv
  BY DEF Init, KeyInv, Copies, Running, Idle, NoFile, NoMarker, NoKey

(* A safe key stays safe while keys only appear and the marker does not    *)
(* move to a younger key.                                                  *)
LEMMA SafeKeyKept ==
  ASSUME NEW k \in Nat, NEW live, NEW live2, NEW s \in Nat, NEW s2 \in Nat,
         NEW m \in Nat, NEW m2 \in Nat,
         SafeKey(k, live, s, m), live \subseteq live2, s <= s2, m2 <= m \/ m2 < k
  PROVE  SafeKey(k, live2, s2, m2)
  BY DEF SafeKey

(* The parts of KeyInv after a step, one file at a time.                   *)
LEMMA KeyInvNext ==
  ASSUME /\ hp'.state = "complete" => SafeKey(hp'.hdr.key, (tpm \union lost)', seq', pending'.key)
         /\ tmp'.state = "complete" => SafeKey(tmp'.hdr.key, (tpm \union lost)', seq', pending'.key)
         /\ Running' => SafeKey(proc'.hdr.key, (tpm \union lost)', seq', pending'.key)
         /\ pending'.key < seq'
         /\ proc'.op = "hwshred" => proc'.old < proc'.hdr.key
         /\ proc'.op = "repair" /\ proc'.pc = "destroy" => proc'.old = pending'.key
  PROVE  KeyInv'
  BY DEF KeyInv, SafeKey, Copies, Needs

(* No step destroys, or marks for destruction, a key a header needs.       *)
LEMMA KeyStep ==
  ASSUME TypeInv, HeaderInv, StoreInv, KeyInv, Next
  PROVE  KeyInv'
<1>. DEFINE live == tpm \union lost
<1>1. /\ hp.state = "complete" => SafeKey(hp.hdr.key, live, seq, pending.key)
      /\ tmp.state = "complete" => SafeKey(tmp.hdr.key, live, seq, pending.key)
      /\ Running => SafeKey(proc.hdr.key, live, seq, pending.key)
      /\ pending.key < seq
      /\ proc.op = "hwshred" => proc.old < proc.hdr.key
      /\ proc.op = "repair" /\ proc.pc = "destroy" => proc.old = pending.key
  BY KeyInvByFile
<1>2. hp.hdr.key \in Nat /\ tmp.hdr.key \in Nat
  BY KeyOfHeaderFile
<1>3. Running => proc.hdr.key \in Nat
  BY HeaderParts DEF TypeInv, ProcessInv
<1>4. /\ seq \in Nat \ {0} /\ proc.old \in Nat /\ pending.key \in Nat
      /\ tpm \subseteq Nat \ {0} /\ ProcessInv
  BY DEF TypeInv, TypeOK, FilesOK, Procs
<1>5. ASSUME NEW p \in Pass, CommandStarts(p)
      PROVE  KeyInv'
  <2>1. StartFacts
    BY <1>5, Starts
  <2>2. hp' = hp /\ tmp' = tmp /\ pending' = pending /\ seq' = seq + 1 /\ live \subseteq live'
    BY <2>1 DEF StartFacts
  <2>3. ASSUME NEW k \in Nat, SafeKey(k, live, seq, pending.key)
        PROVE  SafeKey(k, live', seq', pending'.key)
    BY <1>4, <2>2, <2>3 DEF SafeKey
  <2>4. SafeKey(NoKey, live', seq', pending'.key)
    BY <1>4, <2>2 DEF SafeKey, NoKey
  <2>5. seq \in tpm' => SafeKey(seq, live', seq', pending'.key)
    BY <1>1, <1>4, <2>2 DEF SafeKey
  <2>6. SafeKey(proc'.hdr.key, live', seq', pending'.key)
    <3>1. CASE proc'.hdr.key = NoKey
      BY <2>4, <3>1
    <3>2. CASE proc'.hdr.key = seq /\ seq \in tpm'
      BY <2>5, <3>2
    <3>3. CASE proc'.hdr.key = hp.hdr.key /\ hp.state = "complete"
      BY <1>1, <1>2, <2>3, <3>3
    <3>. QED
      BY <2>1, <3>1, <3>2, <3>3 DEF StartFacts
  <2>7. hp'.state = "complete" => SafeKey(hp'.hdr.key, live', seq', pending'.key)
    BY <1>1, <1>2, <2>2, <2>3
  <2>8. tmp'.state = "complete" => SafeKey(tmp'.hdr.key, live', seq', pending'.key)
    BY <1>1, <1>2, <2>2, <2>3
  <2>9. pending'.key < seq'
    BY <1>1, <1>4, <2>2
  <2>10. proc'.op = "hwshred" => proc'.old < proc'.hdr.key
    <3>1. hp.state = "complete" => hp.hdr.key < seq
      BY <1>1 DEF SafeKey
    <3>. QED
      BY <2>1, <3>1 DEF StartFacts
  <2>11. proc'.op # "repair"
    BY <2>1 DEF StartFacts
  <2>. QED
    BY <2>6, <2>7, <2>8, <2>9, <2>10, <2>11, KeyInvNext
<1>6. CASE StartRepair
  <2>1. /\ UNCHANGED <<hp, tmp, pending, tpm, lost, seq>>
        /\ proc'.op = "repair" /\ proc'.old = pending.key
    BY <1>6 DEF StartRepair, Idle, disk, history
  <2>. QED
    BY <1>1, <2>1, KeyInvNext DEF Running
(* The command ends or moves on with the header it carries.                *)
<1>7. ASSUME \/ Ends
             \/ /\ proc.pc # "idle" /\ proc'.op = proc.op /\ proc'.old = proc.old
                /\ proc'.hdr.key = proc.hdr.key
                /\ proc'.pc = "destroy" => proc.op # "repair"
      PROVE  /\ Running' => Running /\ proc'.hdr.key = proc.hdr.key
             /\ proc'.op = "hwshred" => proc'.old < proc'.hdr.key
             /\ ~ (proc'.op = "repair" /\ proc'.pc = "destroy")
  BY <1>1, <1>7 DEF Ends, Idle, Running
<1>8. CASE UNCHANGED <<hp, tmp, pending, tpm, lost, seq>>
           /\ (\/ Ends
               \/ /\ proc.pc # "idle" /\ proc'.op = proc.op /\ proc'.old = proc.old
                  /\ proc'.hdr.key = proc.hdr.key
                  /\ proc'.pc = "destroy" => proc.op # "repair")
  BY <1>1, <1>7, <1>8, KeyInvNext
<1>9. CASE Wrap
  BY <1>8, <1>9, WrapMoves DEF Wrap, At, disk, history
<1>10. CASE WrapFails \/ VerifyFails \/ DestroyFails \/ Crash
  <2>1. UNCHANGED <<hp, tmp, pending, tpm, lost, seq>>
    BY <1>10 DEF WrapFails, VerifyFails, DestroyFails, Crash, disk, history
  <2>. QED
    BY <1>8, <1>10, <2>1, Moves
<1>11. CASE HwDropBlob \/ Verify \/ DestroyReadsAbsent
  <2>1. UNCHANGED <<hp, tmp, pending, tpm, lost, seq>>
    BY <1>11 DEF HwDropBlob, Verify, DestroyReadsAbsent, disk, history
  <2>2. proc.pc # "idle" /\ (MovesTo("create") \/ MovesTo("mark") \/ MovesTo("unmark"))
    BY <1>11, Moves
  <2>. QED
    BY <1>8, <2>1, <2>2 DEF MovesTo
<1>12. CASE CreateTmp \/ OverwriteHeader
  <2>1. /\ UNCHANGED <<pending, tpm, lost, seq>>
        /\ hp' = hp \/ hp' = Damaged
        /\ tmp' = tmp \/ tmp' = Damaged
    BY <1>12 DEF CreateTmp, OverwriteHeader, history
  <2>2. proc.pc # "idle" /\ (MovesTo("write") \/ MovesTo("remove"))
    BY <1>12, Moves
  <2>. QED
    BY <1>1, <1>7, <2>1, <2>2, KeyInvNext DEF MovesTo, Damaged
<1>13. CASE RemoveHeader
  <2>1. /\ UNCHANGED <<tmp, pending, tpm, lost, seq>>
        /\ hp' = hp \/ hp' = NoFile
    BY <1>13 DEF RemoveHeader, history
  <2>2. proc.pc # "idle" /\ MovesTo("rename")
    BY <1>13, Moves
  <2>. QED
    BY <1>1, <1>7, <2>1, <2>2, KeyInvNext DEF MovesTo, NoFile
<1>14. CASE WriteTmp
  <2>1. UNCHANGED <<hp, pending, tpm, lost, seq>> /\ tmp' = Complete(proc.hdr)
    BY <1>14 DEF WriteTmp
  <2>2. proc.pc = "write" /\ (MovesTo("rename") \/ MovesTo("overwrite"))
    BY <1>14, Moves
  <2>3. Running
    BY <1>4, <2>2 DEF ProcessInv, Running
  <2>. QED
    BY <1>1, <1>7, <2>1, <2>2, <2>3, KeyInvNext DEF MovesTo, Complete
<1>15. CASE RenameTmp
  <2>1. UNCHANGED <<pending, tpm, lost, seq>> /\ hp' = tmp /\ tmp' = NoFile
    BY <1>15 DEF RenameTmp
  <2>2. proc.pc = "rename" /\ (Ends \/ MovesTo("verify"))
    BY <1>15, Moves
  <2>. QED
    BY <1>1, <1>7, <2>1, <2>2, KeyInvNext DEF MovesTo, NoFile
<1>16. CASE CreateMarker \/ RemoveMarker
  <2>1. /\ UNCHANGED <<hp, tmp, tpm, lost, seq>>
        /\ pending' = pending \/ pending'.key = NoKey
    BY <1>16 DEF CreateMarker, RemoveMarker, TornMarker, NoMarker, history
  <2>2. proc.pc # "idle" /\ (Ends \/ MovesTo("write_marker"))
    BY <1>16, Moves DEF RemoveMarker, At
  <2>3. pending'.key <= pending.key /\ pending'.key \in Nat
    BY <1>4, <2>1 DEF NoKey
  <2>4. ASSUME NEW k \in Nat, SafeKey(k, live, seq, pending.key)
        PROVE  SafeKey(k, live', seq', pending'.key)
    BY <1>4, <2>1, <2>3, <2>4 DEF SafeKey
  <2>5. /\ hp'.state = "complete" => SafeKey(hp'.hdr.key, live', seq', pending'.key)
        /\ tmp'.state = "complete" => SafeKey(tmp'.hdr.key, live', seq', pending'.key)
    BY <1>1, <1>2, <2>1, <2>4
  <2>6. Running' => SafeKey(proc'.hdr.key, live', seq', pending'.key)
    BY <1>1, <1>3, <1>7, <2>2, <2>4 DEF MovesTo
  <2>7. pending'.key < seq'
    BY <1>1, <1>4, <2>1, <2>3
  <2>. QED
    BY <1>7, <2>2, <2>5, <2>6, <2>7, KeyInvNext DEF MovesTo
<1>17. CASE WriteMarker
  <2>1. UNCHANGED <<hp, tmp, tpm, lost, seq>> /\ pending'.key = proc.old
    BY <1>17 DEF WriteMarker, Marker, history
  <2>2. proc.pc = "write_marker" /\ MovesTo("destroy") /\ proc.op = "hwshred"
    BY <1>4, <1>17, Moves DEF ProcessInv
  <2>3. hp.state = "complete" /\ hp.hdr = proc.hdr /\ tmp.state = "absent"
    BY <2>2 DEF StoreInv, Complete, NoFile
  <2>4. SafeKey(proc.hdr.key, live, seq, proc.old) /\ proc.old < seq
    BY <1>1, <1>2, <1>4, <2>2, <2>3 DEF SafeKey
  <2>5. Running' => proc'.hdr.key = proc.hdr.key
    BY <2>2 DEF MovesTo
  <2>6. proc'.op = "hwshred" /\ proc'.old < proc'.hdr.key
    BY <1>1, <2>2 DEF MovesTo
  <2>. QED
    BY <2>1, <2>3, <2>4, <2>5, <2>6, KeyInvNext
<1>18. CASE DestroyKey
  <2>1. UNCHANGED <<hp, tmp, pending, lost, seq>> /\ tpm' = tpm \ {proc.old}
    BY <1>18 DEF DestroyKey, disk, history
  <2>2. proc.pc = "destroy" /\ MovesTo("unmark") /\ proc.op \in {"hwshred", "repair"}
    BY <1>4, <1>18, Moves DEF ProcessInv
  <2>3. ASSUME NEW k \in Nat, SafeKey(k, live, seq, pending.key), k # proc.old
        PROVE  SafeKey(k, live', seq', pending'.key)
    BY <2>1, <2>3 DEF SafeKey
  <2>4. ASSUME NEW k \in Nat, SafeKey(k, live, seq, pending.key), proc.op = "repair"
        PROVE  SafeKey(k, live', seq', pending'.key)
    BY <1>1, <1>4, <2>1, <2>2, <2>4 DEF SafeKey, NoKey
  <2>5. proc.op = "hwshred" => /\ hp.state = "complete" /\ hp.hdr = proc.hdr
                               /\ tmp.state = "absent" /\ proc.old # proc.hdr.key
    <3>1. proc.op = "hwshred" => hp = Complete(proc.hdr) /\ tmp = NoFile
      BY <2>2 DEF StoreInv
    <3>2. proc.op = "hwshred" => proc.old # proc.hdr.key
      BY <1>1, <1>2, <1>4, <3>1 DEF Complete
    <3>. QED
      BY <3>1, <3>2 DEF Complete, NoFile
  <2>6. hp'.state = "complete" => SafeKey(hp'.hdr.key, live', seq', pending'.key)
    BY <1>1, <1>2, <2>1, <2>2, <2>3, <2>4, <2>5
  <2>7. tmp'.state = "complete" => SafeKey(tmp'.hdr.key, live', seq', pending'.key)
    BY <1>1, <1>2, <2>1, <2>2, <2>4, <2>5
  <2>8. Running' => SafeKey(proc'.hdr.key, live', seq', pending'.key)
    BY <1>1, <1>3, <2>1, <2>2, <2>3, <2>5 DEF MovesTo, Running
  <2>. QED
    BY <1>1, <1>7, <2>1, <2>2, <2>6, <2>7, <2>8, KeyInvNext DEF MovesTo
<1>19. CASE TpmClear
  <2>1. UNCHANGED <<hp, tmp, pending, proc, seq>> /\ live' = live
    BY <1>19 DEF TpmClear, disk
  <2>. QED
    BY <1>1, <2>1, KeyInvNext DEF Running
<1>. QED
  BY <1>5, <1>6, <1>9, <1>10, <1>11, <1>12, <1>13, <1>14, <1>15, <1>16, <1>17, <1>18, <1>19
     DEF Next, UserStarts, ProgramStep, StoreStep

LEMMA KeyInvariant == Spec => [](TypeInv /\ HeaderInv /\ StoreInv /\ KeyInv)
<1>1. TypeInv /\ HeaderInv /\ StoreInv /\ KeyInv /\ [Next]_vars => KeyInv'
  <2>1. KeyInv /\ UNCHANGED vars => KeyInv'
    BY DEF KeyInv, vars, disk, history, Copies, Running, Needs
  <2>. QED
    BY <2>1, KeyStep
<1>. QED
  BY <1>1, StoreInvariant, KeyInit, PTL DEF Spec

(* No key a readable header needs is destroyed by anything but a TPM clear.*)
THEOREM KeyAlwaysOutlivesHeader == Spec => []KeyOutlivesHeader
<1>1. KeyInv => KeyOutlivesHeader
  BY DEF KeyInv, KeyOutlivesHeader, Needs
<1>. QED
  BY <1>1, KeyInvariant, PTL
-----------------------------------------------------------------------------
(* The marker of an unfinished hardware-shred.                             *)

LEMMA MarkInit == Init => MarkInv
  BY DEF Init, MarkInv, Idle

LEMMA MarkStep ==
  ASSUME TypeInv, HeaderInv, StoreInv, KeyInv, MarkInv, Next
  PROVE  MarkInv'
<1>1. /\ ProcessInv /\ proc.old \in Nat /\ pending.key \in Nat
      /\ pending \in [state : States, key : Nat]
  BY DEF TypeInv, TypeOK, FilesOK, Procs
<1>2. ASSUME NEW p \in Pass, CommandStarts(p) PROVE MarkInv'
  <2>1. StartFacts
    BY <1>2, Starts
  <2>2. hp.state = "complete" /\ hp.hdr.key # NoKey => pending.key < hp.hdr.key
    BY DEF KeyInv, Copies
  <2>. QED
    BY <2>1, <2>2 DEF StartFacts, MarkInv
<1>3. CASE StartRepair
  <2>1. /\ pending' = pending /\ proc'.op = "repair" /\ proc'.pc = "destroy"
        /\ proc'.old = pending.key /\ pending.state = "complete"
    BY <1>3 DEF StartRepair, Idle, disk
  <2>2. pending = Marker(pending.key)
    BY <1>1, <2>1 DEF Marker
  <2>. QED
    BY <2>1, <2>2 DEF MarkInv, Marker
<1>4. ASSUME Ends PROVE MarkInv'
  BY <1>4 DEF Ends, Idle, MarkInv
<1>5. CASE WrapFails \/ VerifyFails \/ DestroyFails \/ RemoveMarker \/ Crash
  BY <1>4, <1>5, Moves
(* The command moves on, before the marker.                                *)
<1>6. ASSUME NEW pc \in Pcs \ {"destroy", "unmark"}, pending' = pending,
             proc.pc \notin {"idle", "destroy", "unmark"}, proc'.pc = pc,
             proc'.op = proc.op, proc'.old = proc.old
      PROVE  MarkInv'
  BY <1>1, <1>6 DEF MarkInv, ProcessInv
<1>7. CASE Wrap
  <2>1. pending' = pending /\ proc.pc = "wrap"
    BY <1>7 DEF Wrap, At, disk
  <2>. QED
    BY <1>6, <1>7, <2>1, WrapMoves DEF Pcs
<1>8. CASE HwDropBlob \/ CreateTmp \/ WriteTmp \/ OverwriteHeader \/ RemoveHeader \/ Verify
  <2>1. pending' = pending
    BY <1>8 DEF HwDropBlob, CreateTmp, WriteTmp, OverwriteHeader, RemoveHeader, Verify, disk
  <2>. QED
    BY <1>6, <1>8, <2>1, Moves DEF MovesTo, Pcs
<1>9. CASE RenameTmp
  <2>1. pending' = pending
    BY <1>9 DEF RenameTmp
  <2>. QED
    BY <1>4, <1>6, <1>9, <2>1, Moves DEF MovesTo, Pcs
<1>10. CASE CreateMarker
  <2>1. /\ pending'.key = NoKey /\ proc.pc = "mark" /\ proc.op = "hwshred"
        /\ proc'.pc = "write_marker" /\ proc'.op = "hwshred" /\ proc'.old = proc.old
    BY <1>1, <1>10, Moves DEF CreateMarker, TornMarker, MovesTo, ProcessInv
  <2>. QED
    BY <1>1, <2>1 DEF MarkInv, NoKey
<1>11. CASE WriteMarker
  <2>1. /\ pending' = Marker(proc.old) /\ proc.pc = "write_marker" /\ proc.op = "hwshred"
        /\ proc'.pc = "destroy" /\ proc'.op = "hwshred" /\ proc'.old = proc.old
    BY <1>1, <1>11, Moves DEF WriteMarker, MovesTo, ProcessInv
  <2>. QED
    BY <2>1 DEF MarkInv, Marker
<1>12. CASE DestroyKey \/ DestroyReadsAbsent
  <2>1. /\ pending' = pending /\ proc.old \notin tpm' \ unseen'
        /\ proc.pc = "destroy" /\ proc'.pc = "unmark"
        /\ proc'.op = proc.op /\ proc'.old = proc.old
    BY <1>12, Moves DEF DestroyKey, DestroyReadsAbsent, MovesTo, disk
  <2>. QED
    BY <2>1 DEF MarkInv, Marker
<1>13. CASE TpmClear
  BY <1>13 DEF TpmClear, MarkInv, Marker, disk
<1>. QED
  BY <1>2, <1>3, <1>5, <1>7, <1>8, <1>9, <1>10, <1>11, <1>12, <1>13
     DEF Next, UserStarts, ProgramStep, StoreStep

LEMMA MarkInvariant == Spec => [](TypeInv /\ HeaderInv /\ StoreInv /\ KeyInv /\ MarkInv)
<1>1. TypeInv /\ HeaderInv /\ StoreInv /\ KeyInv /\ MarkInv /\ [Next]_vars => MarkInv'
  <2>1. MarkInv /\ UNCHANGED vars => MarkInv'
    BY DEF MarkInv, Marker, vars, disk, history
  <2>. QED
    BY <2>1, MarkStep
<1>. QED
  BY <1>1, KeyInvariant, MarkInit, PTL DEF Spec

LEMMA MarkerStep ==
  ASSUME TypeInv, HeaderInv, MarkInv, Next, NEW k \in (retired \intersect tpm) \ unseen,
         pending = Marker(k), pending' # Marker(k)
  PROVE  proc.op = "hwshred" /\ proc.old # k
<1>1. ProcessInv /\ proc.old \in Nat /\ pending.key = k
  BY DEF TypeInv, TypeOK, Procs, Marker
<1>2. CASE CreateMarker \/ WriteMarker
  <2>1. proc.op = "hwshred" /\ proc.pc \in {"mark", "write_marker"}
    BY <1>1, <1>2, Moves DEF ProcessInv
  <2>. QED
    BY <1>1, <2>1 DEF MarkInv
<1>3. CASE RemoveMarker
  <2>1. proc.pc = "unmark" /\ proc.op \in {"hwshred", "repair"}
    BY <1>1, <1>3 DEF RemoveMarker, At, ProcessInv
  <2>2. pending = Marker(proc.old) /\ proc.old \notin tpm \ unseen
    BY <2>1 DEF MarkInv
  <2>. QED
    BY <1>1, <2>2 DEF Marker
<1>4. ASSUME NEW p \in Pass, CommandStarts(p) PROVE FALSE
  BY <1>4, Starts DEF StartFacts
<1>5. CASE \/ StartRepair \/ Wrap \/ WrapFails \/ HwDropBlob \/ StoreStep \/ Verify \/ VerifyFails
           \/ DestroyKey \/ DestroyFails \/ DestroyReadsAbsent \/ Crash \/ TpmClear
  BY <1>5 DEF StartRepair, Wrap, WrapFails, HwDropBlob, StoreStep, CreateTmp, WriteTmp,
     OverwriteHeader, RemoveHeader, RenameTmp, Verify, VerifyFails, DestroyKey, DestroyFails,
     DestroyReadsAbsent, Crash, TpmClear, disk
<1>. QED
  BY <1>2, <1>3, <1>4, <1>5 DEF Next, UserStarts, ProgramStep

(* Once the marker names a replaced key, nothing but the next hardware-    *)
(* shred parts them before the key is destroyed, or taken for gone by a    *)
(* getcap that fails (vault.rs:167), whatever dies, fails or is repeated.  *)
THEOREM MarkerAlwaysHoldsUntilDestroyed == Spec => MarkerHoldsUntilDestroyed
<1>1. TypeInv /\ HeaderInv /\ MarkInv /\ [Next]_vars
        => [\A k \in (retired \intersect tpm) \ unseen :
              pending = Marker(k) /\ pending' # Marker(k)
                => proc.op = "hwshred" /\ proc.old # k]_vars
  BY MarkerStep
<1>. QED
  BY <1>1, MarkInvariant, PTL DEF Spec, MarkerHoldsUntilDestroyed
=============================================================================
