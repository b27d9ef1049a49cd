------------------------- MODULE VaultPromiseProofs -------------------------
(***************************************************************************)
(* Theorems about Vault, continued: what is erased stays erased, blobs are *)
(* behind the entries, every step implements AbstractVault, replaced TPM   *)
(* keys are dead and kit codes known.  They rest on what a command makes   *)
(* of the header it found (Effect) and of the TPM (RootEffect), and on the *)
(* order of the numbers commands draw (NumberInv).                         *)
(***************************************************************************)
EXTENDS VaultProofs, VaultRefinement

(* What command n makes of header g.                                       *)
SameRoot(g, h) == h.key = g.key /\ h.rec = g.rec
SamePass(g, h) == h.wm.wk.pass = g.wm.wk.pass

Adds(n, g, h) ==
  Ids(h) = Ids(g) \union {n} /\ h.wm.mk = g.wm.mk /\ SamePass(g, h) /\ SameRoot(g, h)

Erases(drop, n, g, h) ==
  /\ drop \in Ids(g) /\ Ids(h) = Ids(g) \ {drop}
  /\ h.wm.mk = n /\ SamePass(g, h) /\ SameRoot(g, h)

ChangesPass(n, g, h) ==
  Ids(h) = Ids(g) \ {0} /\ h.wm.mk = n /\ h.wm.wk.pass \in Pass /\ SameRoot(g, h)

RotatesRoot(drop, n, g, h) ==
  /\ drop \in Ids(g) \union {0} /\ Ids(h) = Ids(g) \ {drop}
  /\ h.wm.mk = n /\ SamePass(g, h)
  /\ g.key # NoKey /\ h.key = n /\ (h.rec # NoKit => g.rec # NoKit)

Recovers(n, g, h) ==
  /\ Ids(h) = Ids(g) /\ h.wm.mk = g.wm.mk /\ SamePass(g, h)
  /\ g.key # NoKey /\ g.rec # NoKit
  /\ \/ h.key = n /\ h.rec = Escrow(n)
     \/ h.key = NoKey /\ h.rec = NoKit

Effect(op, drop, n, g, h) ==
  \/ op = "add" /\ drop = 0 /\ Adds(n, g, h)
  \/ op = "shred" /\ Erases(drop, n, g, h)
  \/ op = "rekey" /\ drop = 0 /\ ChangesPass(n, g, h)
  \/ op = "hwshred" /\ RotatesRoot(drop, n, g, h)
  \/ op = "recover" /\ drop = 0 /\ Recovers(n, g, h)

(* The header init makes.                                                  *)
Fresh(n, h) ==
  Ids(h) = {} /\ h.wm.mk = n /\ h.wm.wk.pass \in Pass /\ (h.rec # NoKit => h.key # NoKey)

(* How a command begins: which header it carries, and that it has asked    *)
(* for what it will erase and written the blob of what it adds.            *)
StartContents ==
  /\ \/ /\ proc'.op = "init" /\ proc'.pc = "create" /\ proc'.drop = 0
        /\ NoVaultHere /\ Fresh(seq, proc'.hdr)
     \/ /\ proc'.op = "shred" /\ proc'.pc = "wrap" /\ proc'.drop \in Ids(hp.hdr)
        /\ proc'.hdr = hp.hdr /\ proc'.pass = hp.hdr.wm.wk.pass
     \/ /\ proc'.op \notin {"init", "shred"} /\ proc'.pc \in {"drop", "create"}
        /\ Effect(proc'.op, proc'.drop, seq, hp.hdr, proc'.hdr)
  /\ asked' = asked \union ({proc'.drop} \ {0})
  /\ blobs \ {proc'.drop} \subseteq blobs'
  /\ proc'.op = "add" => seq \in blobs'

(* The passphrase that opens a header is the one it is sealed for.         *)
LEMMA OpensHasPass ==
  ASSUME NEW h, NEW rwk, NEW p, Opens(h, rwk, p)
  PROVE  h.wm.wk.pass = p
  BY DEF Opens, WrapKeyOf

LEMMA StartsWith ==
  ASSUME TypeInv, HeaderInv, NumberInv, NEW p \in Pass, CommandStarts(p)
  PROVE  StartContents
<1>. USE DEF Begin
<1>0. Entries \subseteq Nat
  BY EntriesAreIds
<1>1. ASSUME NEW key, NEW kit, NEW n, key = NoKey => kit = NoKit
      PROVE  Fresh(n, NewHeader(p, key, kit, n))
  BY <1>1, NewHeaderParts DEF Fresh
<1>2. CASE StartInit(p)
  <2>1. Fresh(seq, NewHeader(p, NoKey, NoKit, seq))
    BY <1>1
  <2>. QED
    BY <1>2, <2>1 DEF StartInit, StartContents, disk, history
<1>3. ASSUME NEW kit \in BOOLEAN, StartInitTpm(p, kit)
      PROVE  StartContents
  <2>. DEFINE h == NewHeader(p, seq, IF kit THEN Escrow(seq) ELSE NoKit, seq)
  <2>1. Fresh(seq, h)
    <3>1. seq # NoKey
      BY DEF TypeInv, TypeOK, NoKey
    <3>. QED
      BY <1>1, <3>1
  <2>2. proc' = [op |-> "init", pc |-> "create", n |-> seq, pass |-> p, drop |-> 0,
                 old |-> hp.hdr.key, hdr |-> h]
    BY <1>3 DEF StartInitTpm
  <2>. HIDE DEF h
  <2>. QED
    BY <1>3, <2>1, <2>2 DEF StartInitTpm, StartContents, disk, history
<1>4. CASE StartAdd(p)
  <2>1. hp.hdr \in Headers
    BY <1>4, OpenedHeader DEF StartAdd, OpensWith
  <2>2. Adds(seq, hp.hdr, Added(hp.hdr, seq))
    BY <2>1, AddedParts DEF Adds, SamePass, SameRoot
  <2>. QED
    BY <1>4, <2>2 DEF StartAdd, StartContents, Effect, history
<1>5. ASSUME NEW id \in Entries, StartShred(p, id)
      PROVE  StartContents
  <2>1. hp.state = "complete" /\ hp.hdr.wm.wk.pass = p
    BY <1>5, OpensHasPass DEF StartShred, OpensWith
  <2>2. id \in Ids(hp.hdr)
    BY <1>5, <2>1 DEF Entries
  <2>3. id # 0
    <3>1. hp \in Copies /\ id \in Nat
      BY <1>0, <2>1 DEF Copies
    <3>2. 0 < id
      BY <2>2, <3>1 DEF NumberInv, Older
    <3>. QED
      BY <3>1, <3>2
  <2>4. asked' = asked \union {id} /\ blobs \ {id} \subseteq blobs'
    BY <1>5 DEF StartShred, DropBlob
  <2>. QED
    BY <1>5, <2>1, <2>2, <2>3, <2>4 DEF StartShred, StartContents
<1>6. ASSUME NEW newp \in Pass, StartRekey(p, newp)
      PROVE  StartContents
  <2>1. hp.hdr \in Headers
    BY <1>6, OpenedHeader DEF StartRekey, OpensWith
  <2>2. ChangesPass(seq, hp.hdr, Rekeyed(hp.hdr, newp, seq))
    BY <2>1, RekeyedParts DEF ChangesPass, SameRoot
  <2>. QED
    BY <1>6, <2>2 DEF StartRekey, StartContents, Effect, disk, history
<1>7. ASSUME NEW drop \in Entries \union {0}, NEW destroyKit \in BOOLEAN,
             StartHwShred(p, drop, destroyKit)
      PROVE  StartContents
  <2>. DEFINE h == HwShredded(hp.hdr, p, drop, destroyKit, seq)
  <2>1. hp.hdr \in Headers /\ hp.state = "complete" /\ hp.hdr.wm.wk.pass = p
    BY <1>7, OpenedHeader, OpensHasPass DEF StartHwShred, OpensWith
  <2>2. RotatesRoot(drop, seq, hp.hdr, h)
    BY <1>7, <2>1, HwShreddedParts DEF RotatesRoot, SamePass, Entries, StartHwShred
  <2>3. proc' = [op |-> "hwshred", pc |-> IF drop = 0 THEN "create" ELSE "drop", n |-> seq,
                 pass |-> p, drop |-> drop, old |-> hp.hdr.key, hdr |-> h]
    BY <1>7 DEF StartHwShred
  <2>. HIDE DEF h
  <2>4. proc'.pc \in {"drop", "create"} /\ proc'.op = "hwshred" /\ proc'.drop = drop
        /\ proc'.hdr = h
    BY <2>3
  <2>5. asked' = asked \union ({drop} \ {0}) /\ blobs' = blobs
    BY <1>7 DEF StartHwShred, disk
  <2>. QED
    BY <2>2, <2>4, <2>5 DEF StartContents, Effect
<1>8. ASSUME NEW code \in notebook, StartRecover(p, code)
      PROVE  StartContents
  <2>1. hp.hdr \in Headers /\ hp.hdr.wm.wk.pass = p /\ hp.hdr.key # NoKey /\ hp.hdr.rec # NoKit
    BY <1>8, OpenedHeader, OpensHasPass DEF StartRecover, KitOpens
  <2>2. Recovers(seq, hp.hdr, Reprovisioned(hp.hdr, p, seq))
    BY <2>1, ReprovisionedParts DEF Recovers, SamePass
  <2>. QED
    BY <1>8, <2>2 DEF StartRecover, StartContents, Effect, disk, history
<1>9. ASSUME NEW code \in notebook, StartRecoverToSoftware(p, code)
      PROVE  StartContents
  <2>1. hp.hdr \in Headers /\ hp.hdr.wm.wk.pass = p /\ hp.hdr.key # NoKey /\ hp.hdr.rec # NoKit
    BY <1>9, OpenedHeader, OpensHasPass DEF StartRecoverToSoftware, KitOpens
  <2>2. Recovers(seq, hp.hdr, ToSoftware(hp.hdr, p))
    BY <2>1, ToSoftwareParts DEF Recovers, SamePass
  <2>. QED
    BY <1>9, <2>2 DEF StartRecoverToSoftware, StartContents, Effect, disk, history
<1>. QED
  BY <1>2, <1>3, <1>4, <1>5, <1>6, <1>7, <1>8, <1>9 DEF CommandStarts

-----------------------------------------------------------------------------
(* The steps in a few kinds, for the proofs below.                         *)

(* Nothing happens to the header, the blobs or what is erased.             *)
Quiet ==
  /\ UNCHANGED <<hp, tmp, blobs, flash, asked, erased, seq>>
  /\ \/ Ends \/ proc' = proc
     \/ /\ proc.pc \in {"verify", "mark", "write_marker", "destroy"}
        /\ \E pc \in {"mark", "write_marker", "destroy", "unmark"} : MovesTo(pc)

Writes ==
  /\ proc.pc = "write" /\ tmp' = Complete(proc.hdr) /\ hp' = hp
  /\ flash' = flash \union {[by |-> proc.n, hdr |-> proc.hdr]}
  /\ MovesTo(IF hp.state = "absent" THEN "rename" ELSE "overwrite")
  /\ UNCHANGED <<blobs, asked, erased, seq>>

(* Truncates the temporary file, overwrites or removes the header.         *)
Clears ==
  /\ \/ proc.pc = "create" /\ MovesTo("write") /\ hp' = hp /\ tmp' = Damaged
     \/ proc.pc = "overwrite" /\ MovesTo("remove") /\ hp' = Damaged /\ tmp' = tmp
     \/ proc.pc = "remove" /\ MovesTo("rename") /\ hp' \in {NoFile, hp} /\ tmp' = tmp
  /\ UNCHANGED <<blobs, flash, asked, erased, seq>>

ReportsErased == erased' = erased \union {[id |-> d, by |-> proc.n] : d \in {proc.drop} \ {0}}

Renames ==
  /\ proc.pc = "rename" /\ hp' = tmp /\ tmp' = NoFile
  /\ \/ proc.op = "hwshred" /\ MovesTo("verify") /\ erased' = erased
     \/ proc.op # "hwshred" /\ Ends /\ ReportsErased
  /\ UNCHANGED <<blobs, flash, asked, seq>>

EndsHwShred ==
  /\ proc.pc = "unmark" /\ proc.op = "hwshred" /\ Ends /\ ReportsErased
  /\ UNCHANGED <<hp, tmp, blobs, flash, asked, seq>>

DropsBlob ==
  /\ proc.pc = "drop" /\ MovesTo("create")
  /\ blobs \ {proc.drop} \subseteq blobs'
  /\ UNCHANGED <<hp, tmp, flash, asked, erased, seq>>

Rotates == Wrap /\ UNCHANGED <<hp, tmp, blobs, flash, asked, erased, seq>>

RepairBegins ==
  /\ proc'.op = "repair" /\ proc'.pc = "destroy" /\ proc'.drop = 0
  /\ UNCHANGED <<hp, tmp, blobs, flash, asked, erased, seq>>

Begins ==
  /\ StartFacts /\ StartContents
  /\ UNCHANGED <<hp, tmp, flash, erased>>

LEMMA StepKinds ==
  ASSUME TypeInv, HeaderInv, NumberInv, [Next]_vars
  PROVE  \/ Begins \/ RepairBegins \/ Rotates \/ DropsBlob
         \/ Clears \/ Writes \/ Renames \/ EndsHwShred \/ Quiet
<1>1. CASE UNCHANGED vars
  BY <1>1 DEF Quiet, vars, disk, history
<1>2. ASSUME NEW p \in Pass, CommandStarts(p)
      PROVE  Begins
  BY <1>2, Starts, StartsWith DEF Begins, StartFacts
<1>3. CASE StartRepair
  BY <1>3 DEF StartRepair, RepairBegins, Idle, disk, history
<1>4. CASE Wrap
  BY <1>4 DEF Wrap, Rotates, disk, history
<1>5. CASE WrapFails \/ VerifyFails \/ DestroyFails \/ Crash
  <2>1. Ends
    BY <1>5, Moves
  <2>2. UNCHANGED <<hp, tmp, blobs, flash, asked, erased, seq>>
    BY <1>5 DEF WrapFails, VerifyFails, DestroyFails, Crash, disk, history
  <2>. QED
    BY <2>1, <2>2 DEF Quiet
<1>6. CASE Verify \/ CreateMarker \/ WriteMarker \/ DestroyKey \/ DestroyReadsAbsent
  <2>1. /\ proc.pc \in {"verify", "mark", "write_marker", "destroy"}
        /\ \E pc \in {"mark", "write_marker", "destroy", "unmark"} : MovesTo(pc)
    BY <1>6, Moves
  <2>2. UNCHANGED <<hp, tmp, blobs, flash, asked, erased, seq>>
    BY <1>6 DEF Verify, CreateMarker, WriteMarker, DestroyKey, DestroyReadsAbsent, disk, history
  <2>. QED
    BY <2>1, <2>2 DEF Quiet
<1>7. CASE TpmClear
  BY <1>7 DEF TpmClear, Quiet, disk
<1>8. CASE HwDropBlob
  <2>1. blobs \ {proc.drop} \subseteq blobs'
    BY <1>8 DEF HwDropBlob, DropBlob
  <2>. QED
    BY <1>8, <2>1, Moves DEF HwDropBlob, DropsBlob, history
<1>9. CASE CreateTmp \/ OverwriteHeader \/ RemoveHeader
  <2>1. \/ CreateTmp /\ proc.pc = "create" /\ MovesTo("write") /\ hp' = hp /\ tmp' = Damaged
        \/ OverwriteHeader /\ proc.pc = "overwrite" /\ MovesTo("remove") /\ hp' = Damaged /\ tmp' = tmp
        \/ RemoveHeader /\ proc.pc = "remove" /\ MovesTo("rename") /\ hp' \in {NoFile, hp} /\ tmp' = tmp
    BY <1>9, Moves DEF CreateTmp, OverwriteHeader, RemoveHeader
  <2>2. UNCHANGED <<blobs, flash, asked, erased, seq>>
    BY <1>9 DEF CreateTmp, OverwriteHeader, RemoveHeader, history
  <2>. QED
    BY <2>1, <2>2 DEF Clears
<1>10. CASE WriteTmp
  <2>1. GoTo(IF hp.state = "absent" THEN "rename" ELSE "overwrite")
    BY <1>10 DEF WriteTmp
  <2>2. (IF hp.state = "absent" THEN "rename" ELSE "overwrite") \in Pcs
    BY DEF Pcs
  <2>3. MovesTo(IF hp.state = "absent" THEN "rename" ELSE "overwrite")
    BY <2>1, <2>2, GoToMoves
  <2>. QED
    BY <1>10, <2>3 DEF WriteTmp, Writes, At
<1>11. CASE RenameTmp
  <2>1. \/ proc.op = "hwshred" /\ GoTo("verify") /\ erased' = erased
        \/ proc.op # "hwshred" /\ Ends /\ ReportsErased
    BY <1>11 DEF RenameTmp, Report, ReportsErased, Finish, Ends
  <2>2. GoTo("verify") => MovesTo("verify")
    BY GoToMoves DEF Pcs
  <2>. QED
    BY <1>11, <2>1, <2>2 DEF RenameTmp, Renames, At
<1>12. CASE RemoveMarker
  <2>1. /\ proc.pc = "unmark" /\ Ends /\ UNCHANGED <<hp, tmp, blobs, flash, asked, seq>>
        /\ \/ proc.op = "hwshred" /\ ReportsErased
           \/ proc.op = "repair" /\ erased' = erased
    BY <1>12, Moves DEF RemoveMarker, Report, ReportsErased, At
  <2>. QED
    BY <2>1 DEF EndsHwShred, Quiet
<1>. QED
  BY <1>1, <1>2, <1>3, <1>4, <1>5, <1>6, <1>7, <1>8, <1>9, <1>10, <1>11, <1>12
     DEF Next, UserStarts, ProgramStep, StoreStep

-----------------------------------------------------------------------------
(* Numbers are drawn in the order of the commands.                         *)

LEMMA OlderLater ==
  ASSUME NEW h \in Headers, NEW m \in Nat, NEW n \in Nat, m <= n, Older(h, m)
  PROVE  Older(h, n)
<1>1. h.wm.mk \in Nat /\ Ids(h) \subseteq Nat
  BY HeaderParts DEF Ids
<1>. QED
  BY <1>1 DEF Older

(* What command n makes of an older header has no number younger than n.   *)
LEMMA EffectOlder ==
  ASSUME NEW op, NEW drop, NEW n \in Nat \ {0}, NEW g \in Headers, NEW h \in Headers,
         Older(g, n), Effect(op, drop, n, g, h)
  PROVE  Older(h, n + 1)
<1>1. g.wm.mk \in Nat /\ Ids(g) \subseteq Nat
  BY HeaderParts DEF Ids
<1>2. Ids(h) \subseteq Ids(g) \union {n} /\ h.wm.mk \in {g.wm.mk, n}
  BY DEF Effect, Adds, Erases, ChangesPass, RotatesRoot, Recovers
<1>. QED
  BY <1>1, <1>2 DEF Older

LEMMA EffectDrop ==
  ASSUME NEW op, NEW drop, NEW n, NEW g, NEW h, Effect(op, drop, n, g, h)
  PROVE  drop \in Ids(g) \union {0}
  BY DEF Effect, Erases, RotatesRoot

(* The part of NumberInv about the running command.                        *)
NumberRun ==
  Running =>
    /\ 0 < proc.n /\ proc.n < seq /\ Older(proc.hdr, proc.n + 1)
    /\ proc.drop \in asked \union {0} /\ \A i \in asked : i < proc.n
    /\ \A f \in flash :
         IF proc.pc \in {"wrap", "drop", "create", "write"}
         THEN f.by < proc.n
         ELSE f.by <= proc.n /\ (f.by = proc.n => f.hdr = proc.hdr)

LEMMA NumberInvByPart ==
  NumberInv <=>
    /\ hp.state = "complete" => Older(hp.hdr, seq)
    /\ tmp.state = "complete" => Older(tmp.hdr, seq)
    /\ \A f \in flash : f.by < seq /\ Older(f.hdr, f.by + 1)
    /\ \A i \in asked : 0 < i /\ i < seq
    /\ NumberRun
  BY DEF NumberInv, NumberRun, Copies

LEMMA NumberInvNext ==
  ASSUME /\ hp'.state = "complete" => Older(hp'.hdr, seq')
         /\ tmp'.state = "complete" => Older(tmp'.hdr, seq')
         /\ \A f \in flash' : f.by < seq' /\ Older(f.hdr, f.by + 1)
         /\ \A i \in asked' : 0 < i /\ i < seq'
         /\ NumberRun'
  PROVE  NumberInv'
  BY DEF NumberInv, NumberRun, Copies

LEMMA NumberInit == Init => NumberInv
  BY DEF Init, NumberInv, Copies, Running, NoFile, Idle

LEMMA NumberStep ==
  ASSUME TypeInv, HeaderInv, NumberInv, [Next]_vars
  PROVE  NumberInv'
<1>1. /\ hp.state = "complete" => Older(hp.hdr, seq) /\ hp.hdr \in Headers
      /\ tmp.state = "complete" => Older(tmp.hdr, seq) /\ tmp.hdr \in Headers
      /\ \A f \in flash : f.by < seq /\ Older(f.hdr, f.by + 1) /\ f.by \in Nat
      /\ \A i \in asked : 0 < i /\ i < seq /\ i \in Nat
      /\ NumberRun
  BY NumberInvByPart DEF TypeInv, TypeOK, FilesOK, HistoryOK
<1>2. /\ seq \in Nat \ {0} /\ proc.n \in Nat /\ proc.drop \in Nat
      /\ Running => proc.hdr \in Headers
      /\ proc \in Procs
  BY DEF TypeInv, TypeOK, Procs, ProcessInv
<1>3. ASSUME UNCHANGED <<seq, asked, flash>>, NumberRun',
             hp' \in {hp, NoFile, Damaged, tmp}, tmp' \in {tmp, NoFile, Damaged}
      PROVE  NumberInv'
  <2>1. /\ hp'.state = "complete" => Older(hp'.hdr, seq)
        /\ tmp'.state = "complete" => Older(tmp'.hdr, seq)
    BY <1>1, <1>3 DEF NoFile, Damaged
  <2>. QED
    BY <1>1, <1>3, <2>1, NumberInvNext
<1>4. ASSUME Ends \/ proc' = proc, UNCHANGED <<seq, asked, flash>>
      PROVE  NumberRun'
  BY <1>1, <1>4 DEF Ends, Idle, NumberRun, Running
<1>5. ASSUME NEW pc, MovesTo(pc), UNCHANGED <<seq, asked, flash>>, proc.pc # "idle",
             (proc.pc \in {"wrap", "drop", "create", "write"})
               <=> (pc \in {"wrap", "drop", "create", "write"})
      PROVE  NumberRun'
  BY <1>1, <1>5 DEF MovesTo, NumberRun, Running
<1>6. CASE Begins
  <2>1. /\ proc' \in [op : Ops \ {"none", "repair"}, pc : {"wrap", "drop", "create"}, n : Nat,
                      pass : Pass, drop : Nat, old : Nat, hdr : Headers]
        /\ proc'.n = seq /\ seq' = seq + 1 /\ UNCHANGED <<hp, tmp, flash>>
        /\ proc'.op # "init" => hp.state = "complete"
        /\ asked' = asked \union ({proc'.drop} \ {0})
    BY <1>6 DEF Begins, StartFacts, StartContents
  <2>2. Older(proc'.hdr, seq + 1) /\ proc'.drop \in {0} \union {i \in Nat : 0 < i /\ i < seq}
    <3>0. proc'.hdr \in Headers /\ proc'.drop \in Nat
      BY <2>1
    <3>1. CASE proc'.op = "init"
      <4>1. proc'.drop = 0 /\ Fresh(seq, proc'.hdr)
        BY <1>6, <3>1 DEF Begins, StartContents
      <4>. QED
        BY <1>2, <4>1 DEF Fresh, Older
    <3>2. CASE proc'.op = "shred"
      <4>1. proc'.hdr = hp.hdr /\ proc'.drop \in Ids(hp.hdr)
        BY <1>6, <3>2 DEF Begins, StartContents
      <4>2. Older(hp.hdr, seq)
        BY <1>1, <2>1, <3>2
      <4>3. Older(hp.hdr, seq + 1)
        BY <1>2, <3>0, <4>1, <4>2, OlderLater
      <4>. QED
        BY <1>2, <3>0, <4>1, <4>2, <4>3 DEF Older
    <3>3. CASE proc'.op \notin {"init", "shred"}
      <4>1. Effect(proc'.op, proc'.drop, seq, hp.hdr, proc'.hdr)
        BY <1>6, <3>3 DEF Begins, StartContents
      <4>2. Older(hp.hdr, seq) /\ hp.hdr \in Headers
        BY <1>1, <2>1, <3>3
      <4>3. Older(proc'.hdr, seq + 1)
        BY <1>2, <3>0, <4>1, <4>2, EffectOlder
      <4>4. proc'.drop \in Ids(hp.hdr) \union {0}
        BY <4>1, EffectDrop
      <4>. QED
        BY <1>2, <3>0, <4>2, <4>3, <4>4 DEF Older
    <3>. QED
      BY <3>1, <3>2, <3>3
  <2>3. NumberRun'
    <3>1. /\ proc'.n = seq /\ seq' = seq + 1 /\ flash' = flash
          /\ proc'.drop \in asked' \union {0} /\ \A i \in asked' : i < seq
          /\ proc'.pc \in {"wrap", "drop", "create"}
      BY <1>1, <2>1, <2>2
    <3>2. \A f \in flash : f.by < seq
      BY <1>1
    <3>. QED
      BY <1>2, <2>2, <3>1, <3>2 DEF NumberRun
  <2>4. /\ hp.state = "complete" => Older(hp.hdr, seq + 1)
        /\ tmp.state = "complete" => Older(tmp.hdr, seq + 1)
    BY <1>1, <1>2, OlderLater
  <2>5. \A i \in asked' : 0 < i /\ i < seq + 1
    BY <1>1, <1>2, <2>1, <2>2
  <2>6. \A f \in flash' : f.by < seq + 1 /\ Older(f.hdr, f.by + 1)
    BY <1>1, <1>2, <2>1
  <2>. QED
    BY <2>1, <2>3, <2>4, <2>5, <2>6, NumberInvNext
<1>7. CASE RepairBegins
  BY <1>3, <1>7 DEF RepairBegins, NumberRun, Running
<1>8. CASE Rotates
  <2>1. /\ proc.pc = "wrap" /\ proc'.pc = "create" /\ proc'.n = proc.n /\ proc'.drop = proc.drop
        /\ proc'.op = proc.op /\ proc'.hdr = Rotated(proc.hdr, proc.pass, proc.drop, proc.n)
    BY <1>8, WrapMoves DEF Rotates, Wrap, At
  <2>2. Running
    BY <2>1 DEF TypeInv, ProcessInv, Running
  <2>3. Older(proc'.hdr, proc.n + 1)
    <3>1. /\ Ids(proc'.hdr) \subseteq Ids(proc.hdr) /\ proc'.hdr.wm.mk = proc.n
          /\ Older(proc.hdr, proc.n + 1)
      BY <1>1, <1>2, <2>1, <2>2, RotatedParts DEF NumberRun
    <3>. QED
      BY <1>2, <3>1 DEF Older
  <2>4. UNCHANGED <<hp, tmp, seq, asked, flash>>
    BY <1>8 DEF Rotates
  <2>5. NumberRun'
    BY <1>1, <2>1, <2>2, <2>3, <2>4 DEF NumberRun, Running
  <2>. QED
    BY <1>3, <2>4, <2>5
<1>9. CASE DropsBlob
  BY <1>3, <1>5, <1>9 DEF DropsBlob
<1>10. CASE Clears
  BY <1>3, <1>5, <1>10 DEF Clears
<1>11. CASE Writes
  <2>1. proc.pc = "write" /\ Running
    BY <1>11 DEF Writes, TypeInv, ProcessInv, Running
  <2>2. /\ tmp' = Complete(proc.hdr) /\ UNCHANGED <<hp, asked, seq>>
        /\ flash' = flash \union {[by |-> proc.n, hdr |-> proc.hdr]}
        /\ \E pc \in {"rename", "overwrite"} : MovesTo(pc)
    BY <1>11 DEF Writes
  <2>3. Older(proc.hdr, proc.n + 1) /\ proc.n < seq
    BY <1>1, <2>1 DEF NumberRun
  <2>4. Older(proc.hdr, seq)
    BY <1>2, <2>1, <2>3, OlderLater
  <2>5. \A f \in flash' : f.by < seq /\ Older(f.hdr, f.by + 1)
    BY <1>1, <2>2, <2>3
  <2>6. NumberRun'
    <3>1. \A f \in flash' : f.by <= proc.n /\ (f.by = proc.n => f.hdr = proc.hdr)
      BY <1>1, <1>2, <2>1, <2>2 DEF NumberRun
    <3>. QED
      BY <1>1, <2>1, <2>2, <3>1 DEF NumberRun, MovesTo
  <2>. QED
    BY <1>1, <2>2, <2>4, <2>5, <2>6, NumberInvNext DEF Complete
<1>12. CASE Renames
  BY <1>3, <1>4, <1>5, <1>12 DEF Renames
<1>13. CASE EndsHwShred
  BY <1>3, <1>4, <1>13 DEF EndsHwShred
<1>14. CASE Quiet
  BY <1>3, <1>4, <1>5, <1>14 DEF Quiet
<1>. QED
  BY StepKinds, <1>6, <1>7, <1>8, <1>9, <1>10, <1>11, <1>12, <1>13, <1>14

LEMMA NumberInvariant == Spec => [](TypeInv /\ HeaderInv /\ StoreInv /\ NumberInv)
  BY StoreInvariant, NumberInit, NumberStep, PTL DEF Spec

-----------------------------------------------------------------------------
(* Blobs behind the entries.                                               *)

Behind(h) == Ids(h) \ asked \subseteq blobs

LEMMA BlobInvByPart ==
  BlobInv <=> /\ hp.state = "complete" => Behind(hp.hdr)
              /\ tmp.state = "complete" => Behind(tmp.hdr)
              /\ Running => Behind(proc.hdr)
  BY DEF BlobInv, BlobsBehindEntries, Copies, Behind

LEMMA BlobInvNext ==
  ASSUME /\ hp'.state = "complete" => Behind(hp.hdr)'
         /\ tmp'.state = "complete" => Behind(tmp.hdr)'
         /\ Running' => Behind(proc.hdr)'
  PROVE  BlobInv'
  BY DEF BlobInv, BlobsBehindEntries, Copies, Behind

LEMMA BlobInit == Init => BlobInv
  BY DEF Init, BlobInv, BlobsBehindEntries, Copies, Running, NoFile, Idle

(* A command adds no entry but the one add names after itself.             *)
LEMMA EffectIds ==
  ASSUME NEW op, NEW drop, NEW n, NEW g, NEW h, Effect(op, drop, n, g, h)
  PROVE  Ids(h) \subseteq Ids(g) \union (IF op = "add" THEN {n} ELSE {})
  BY DEF Effect, Adds, Erases, ChangesPass, RotatesRoot, Recovers

LEMMA BlobStep ==
  ASSUME TypeInv, HeaderInv, NumberInv, BlobInv, [Next]_vars
  PROVE  BlobInv'
<1>1. /\ hp.state = "complete" => Behind(hp.hdr)
      /\ tmp.state = "complete" => Behind(tmp.hdr)
      /\ Running => Behind(proc.hdr)
  BY BlobInvByPart
<1>2. /\ hp.state = "complete" => \A i \in Ids(hp.hdr) : 0 < i
      /\ tmp.state = "complete" => \A i \in Ids(tmp.hdr) : 0 < i
      /\ Running => proc.drop \in asked \union {0} /\ \A i \in Ids(proc.hdr) : 0 < i
  BY NumberInvByPart DEF Older, NumberRun
<1>3. ASSUME UNCHANGED <<asked, blobs>>,
             hp' \in {hp, NoFile, Damaged, tmp}, tmp' \in {tmp, NoFile, Damaged},
             Ends \/ proc' = proc \/ \E pc : MovesTo(pc) /\ proc.pc # "idle"
      PROVE  BlobInv'
  <2>1. Running' => Running /\ proc'.hdr = proc.hdr
    BY <1>3 DEF Ends, Idle, MovesTo, Running
  <2>. QED
    BY <1>1, <1>3, <2>1, BlobInvNext DEF NoFile, Damaged, Behind
<1>4. CASE Begins
  <2>1. /\ asked' = asked \union ({proc'.drop} \ {0}) /\ blobs \ {proc'.drop} \subseteq blobs'
        /\ UNCHANGED <<hp, tmp>> /\ (proc'.op # "init" => hp.state = "complete")
        /\ (proc'.op = "add" => seq \in blobs')
    BY <1>4 DEF Begins, StartFacts, StartContents
  <2>2. /\ hp.state = "complete" => Behind(hp.hdr)'
        /\ tmp.state = "complete" => Behind(tmp.hdr)'
    BY <1>1, <1>2, <2>1 DEF Behind
  <2>3. Ids(proc'.hdr) \subseteq (IF proc'.op = "init" THEN {} ELSE Ids(hp.hdr))
                                \union (IF proc'.op = "add" THEN {seq} ELSE {})
    <3>1. CASE proc'.op = "init"
      BY <1>4, <3>1 DEF Begins, StartContents, Fresh
    <3>2. CASE proc'.op = "shred"
      BY <1>4, <3>2 DEF Begins, StartContents
    <3>3. CASE proc'.op \notin {"init", "shred"}
      <4>1. Effect(proc'.op, proc'.drop, seq, hp.hdr, proc'.hdr)
        BY <1>4, <3>3 DEF Begins, StartContents
      <4>. QED
        BY <3>3, <4>1, EffectIds
    <3>. QED
      BY <3>1, <3>2, <3>3
  <2>4. Behind(proc.hdr)'
    BY <2>1, <2>2, <2>3 DEF Behind
  <2>. QED
    BY <2>1, <2>2, <2>4, BlobInvNext
<1>5. CASE RepairBegins
  <2>1. UNCHANGED <<hp, tmp, blobs, asked>> /\ ~Running'
    BY <1>5 DEF RepairBegins, Running
  <2>. QED
    BY <1>1, <2>1, BlobInvNext DEF Behind
<1>6. CASE Rotates
  <2>1. /\ proc.pc = "wrap" /\ UNCHANGED <<hp, tmp, blobs, asked>>
        /\ proc'.hdr = Rotated(proc.hdr, proc.pass, proc.drop, proc.n)
    BY <1>6, WrapMoves DEF Rotates, Wrap, At
  <2>2. Running /\ proc.hdr \in Headers
    BY <2>1 DEF TypeInv, ProcessInv, Running
  <2>3. Ids(proc'.hdr) \subseteq Ids(proc.hdr)
    BY <2>1, <2>2, RotatedParts
  <2>. QED
    BY <1>1, <2>1, <2>2, <2>3, BlobInvNext DEF Behind
<1>7. CASE DropsBlob
  <2>1. /\ proc.pc = "drop" /\ UNCHANGED <<hp, tmp, asked>> /\ proc'.hdr = proc.hdr
        /\ blobs \ {proc.drop} \subseteq blobs'
    BY <1>7 DEF DropsBlob, MovesTo
  <2>2. Running
    BY <2>1 DEF TypeInv, ProcessInv, Running
  <2>. QED
    BY <1>1, <1>2, <2>1, <2>2, BlobInvNext DEF Behind
<1>8. CASE Writes
  <2>1. /\ proc.pc = "write" /\ hp' = hp /\ tmp' = Complete(proc.hdr)
        /\ UNCHANGED <<blobs, asked>> /\ proc'.hdr = proc.hdr
    BY <1>8 DEF Writes, MovesTo
  <2>2. Running
    BY <2>1 DEF TypeInv, ProcessInv, Running
  <2>. QED
    BY <1>1, <2>1, <2>2, BlobInvNext DEF Behind, Complete
<1>9. CASE Clears
  BY <1>3, <1>9 DEF Clears
<1>10. CASE Renames
  BY <1>3, <1>10 DEF Renames
<1>11. CASE EndsHwShred
  BY <1>3, <1>11 DEF EndsHwShred
<1>12. CASE Quiet
  BY <1>3, <1>12 DEF Quiet
<1>. QED
  BY StepKinds, <1>4, <1>5, <1>6, <1>7, <1>8, <1>9, <1>10, <1>11, <1>12

(* Every entry of a readable header has its blob, or its erasure was asked *)
(* for: add writes the blob before the header that names it, and a command *)
(* drops no blob but the one it was asked to.                              *)
THEOREM BlobsAlwaysBehindEntries == Spec => []BlobsBehindEntries
<1>1. BlobInv => BlobsBehindEntries
  BY DEF BlobInv
<1>. QED
  BY <1>1, NumberInvariant, BlobInit, BlobStep, PTL DEF Spec

-----------------------------------------------------------------------------
(* Erased stays erased.                                                    *)

LEMMA ErasureInit == Init => ErasureInv
  BY DEF Init, ErasureInv, Running, NoFile, Idle

(* The part of ErasureInv about the running command alone.                 *)
ErasureReady ==
  IF proc.op \in {"shred", "hwshred"}
  THEN proc.pc # "wrap" => proc.hdr.wm.mk = proc.n /\ proc.drop \notin Ids(proc.hdr)
  ELSE proc.drop = 0

(* A later command does not undo an erasure.                               *)
LEMMA EffectCleared ==
  ASSUME NEW op, NEW drop, NEW n \in Nat, NEW g \in Headers, NEW h \in Headers,
         NEW r \in [id : Nat, by : Nat], r.id # n, r.by < n,
         Cleared(g, r), Effect(op, drop, n, g, h)
  PROVE  Cleared(h, r)
<1>1. Ids(h) \subseteq Ids(g) \union {n} /\ h.wm.mk \in {g.wm.mk, n}
  BY DEF Effect, Adds, Erases, ChangesPass, RotatesRoot, Recovers
<1>2. g.wm.mk \in Nat
  BY HeaderParts
<1>. QED
  BY <1>1, <1>2 DEF Cleared

(* What is erased stays so while a command goes on with the header it has. *)
LEMMA ErasureKept ==
  ASSUME ErasureInv, UNCHANGED <<erased, flash, seq, asked>>,
         hp'.state = "complete" =>
           hp' = hp \/ (Running /\ hp'.hdr = proc.hdr),
         \/ Ends \/ proc' = proc
         \/ \E pc : pc # "wrap" /\ MovesTo(pc) /\ proc.pc \notin {"idle", "wrap"}
  PROVE  ErasureInv'
<1>1. Running' => Running /\ proc'.hdr = proc.hdr /\ proc'.n = proc.n
  BY DEF Ends, Idle, MovesTo, Running
<1>2. ErasureReady'
  BY DEF ErasureInv, ErasureReady, Ends, Idle, MovesTo
<1>. QED
  BY <1>1, <1>2 DEF ErasureInv, ErasureReady

(* The last step of a command that erased an entry: the header in place is *)
(* the one it made.                                                        *)
LEMMA ErasureReported ==
  ASSUME TypeInv, NumberInv, ErasureInv, Ends, ReportsErased, UNCHANGED <<flash, seq, asked>>,
         proc.pc \notin {"idle", "wrap", "drop", "create", "write"}, Running,
         hp'.state = "complete" => hp'.hdr = proc.hdr
  PROVE  ErasureInv'
<1>1. /\ 0 < proc.n /\ proc.n < seq /\ proc.n \in Nat /\ proc.drop \in asked \union {0}
      /\ \A f \in flash : f.by <= proc.n /\ (f.by = proc.n => f.hdr = proc.hdr)
  BY NumberInvByPart DEF NumberRun, TypeInv, TypeOK, Procs
<1>2. \A f \in flash : f.by \in Nat
  BY DEF TypeInv, TypeOK, HistoryOK
<1>3. ASSUME NEW r \in erased' \ erased
      PROVE  /\ r.id \in asked /\ r.by = proc.n
             /\ Cleared(proc.hdr, r)
  <2>1. r \in {[id |-> d, by |-> proc.n] : d \in {proc.drop} \ {0}}
    BY <1>3 DEF ReportsErased
  <2>2. r.id = proc.drop /\ r.by = proc.n /\ proc.drop # 0
    BY <2>1
  <2>3. proc.hdr.wm.mk = proc.n /\ proc.drop \notin Ids(proc.hdr)
    BY <2>2 DEF ErasureInv
  <2>. QED
    BY <1>1, <2>2, <2>3 DEF Cleared
<1>4. \A r \in erased' : /\ r.id \in asked' /\ r.by < seq'
                         /\ \A f \in flash' : f.by >= r.by => Cleared(f.hdr, r)
                         /\ Cleared(proc.hdr, r)
  BY <1>1, <1>2, <1>3 DEF ErasureInv
<1>5. ~Running' /\ proc'.op \notin {"shred", "hwshred"} /\ proc'.drop = 0
  BY DEF Ends, Idle, Running
<1>. QED
  BY <1>4, <1>5 DEF ErasureInv

LEMMA ErasureStep ==
  ASSUME TypeInv, HeaderInv, StoreInv, NumberInv, ErasureInv, [Next]_vars
  PROVE  ErasureInv'
<1>1. /\ seq \in Nat \ {0} /\ erased \subseteq [id : Nat, by : Nat] /\ proc.n \in Nat
      /\ \A i \in asked : i < seq
  BY NumberInvByPart DEF TypeInv, TypeOK, HistoryOK, Procs
<1>2. CASE Begins
  <2>1. /\ proc' \in [op : Ops \ {"none", "repair"}, pc : {"wrap", "drop", "create"}, n : Nat,
                      pass : Pass, drop : Nat, old : Nat, hdr : Headers]
        /\ proc'.n = seq /\ seq' = seq + 1 /\ UNCHANGED <<hp, flash, erased>>
        /\ proc'.op # "init" => hp.state = "complete"
        /\ asked \subseteq asked'
    BY <1>2 DEF Begins, StartFacts, StartContents
  <2>2. \A r \in erased : r.id \in asked' /\ r.by < seq /\ r.id # seq
    BY <1>1, <2>1 DEF ErasureInv
  <2>3. CASE proc'.op = "init"
    <3>1. Fresh(seq, proc'.hdr) /\ proc'.drop = 0
      BY <1>2, <2>3 DEF Begins, StartContents
    <3>2. \A r \in erased : Cleared(proc'.hdr, r)
      BY <1>1, <2>2, <3>1 DEF Fresh, Cleared
    <3>. QED
      BY <1>1, <2>1, <2>2, <2>3, <3>1, <3>2 DEF ErasureInv
  <2>4. CASE proc'.op = "shred"
    <3>1. proc'.hdr = hp.hdr /\ proc'.pc = "wrap"
      BY <1>2, <2>4 DEF Begins, StartContents
    <3>2. \A r \in erased : Cleared(proc'.hdr, r)
      BY <2>1, <2>4, <3>1 DEF ErasureInv
    <3>. QED
      BY <1>1, <2>1, <2>2, <2>4, <3>1, <3>2 DEF ErasureInv
  <2>5. CASE proc'.op \notin {"init", "shred"}
    <3>1. Effect(proc'.op, proc'.drop, seq, hp.hdr, proc'.hdr)
      BY <1>2, <2>5 DEF Begins, StartContents
    <3>2. hp.hdr \in Headers /\ proc'.hdr \in Headers /\ hp.state = "complete"
      BY <2>1, <2>5 DEF TypeInv, TypeOK, FilesOK
    <3>3. ASSUME NEW r \in erased
          PROVE  Cleared(proc'.hdr, r)
      <4>1. Cleared(hp.hdr, r) /\ r \in [id : Nat, by : Nat]
        BY <1>1, <3>2 DEF ErasureInv
      <4>. QED
        BY <1>1, <2>2, <3>1, <3>2, <4>1, EffectCleared
    <3>4. ErasureReady'
      <4>1. proc'.op = "hwshred" => proc'.hdr.wm.mk = seq /\ Ids(proc'.hdr) = Ids(hp.hdr) \ {proc'.drop}
        BY <3>1 DEF Effect, RotatesRoot
      <4>2. proc'.op # "hwshred" => proc'.drop = 0
        BY <2>5, <3>1 DEF Effect
      <4>. QED
        BY <2>1, <2>5, <4>1, <4>2 DEF ErasureReady
    <3>. QED
      BY <1>1, <2>1, <2>2, <3>3, <3>4 DEF ErasureInv, ErasureReady
  <2>. QED
    BY <2>3, <2>4, <2>5
<1>3. CASE RepairBegins
  <2>1. UNCHANGED <<hp, flash, erased, seq, asked>> /\ ~Running' /\ ErasureReady'
    BY <1>3 DEF RepairBegins, Running, ErasureReady
  <2>. QED
    BY <2>1 DEF ErasureInv, ErasureReady
<1>4. CASE Rotates
  <2>1. /\ proc.pc = "wrap" /\ UNCHANGED <<hp, flash, erased, seq, asked>>
        /\ proc'.op = proc.op /\ proc'.n = proc.n /\ proc'.drop = proc.drop /\ proc'.pc = "create"
        /\ proc'.hdr = Rotated(proc.hdr, proc.pass, proc.drop, proc.n)
    BY <1>4, WrapMoves DEF Rotates, Wrap, At
  <2>2. Running /\ proc.hdr \in Headers
    BY <2>1 DEF TypeInv, ProcessInv, Running
  <2>3. proc'.hdr.wm.mk = proc.n /\ Ids(proc'.hdr) = Ids(proc.hdr) \ {proc.drop}
    BY <2>1, <2>2, RotatedParts
  <2>4. ASSUME NEW r \in erased
        PROVE  Cleared(proc'.hdr, r)
    <3>1. Cleared(proc.hdr, r) /\ r.by < proc.n /\ r.by \in Nat
      BY <1>1, <2>2 DEF ErasureInv
    <3>. QED
      BY <1>1, <2>3, <3>1 DEF Cleared
  <2>5. ErasureReady'
    BY <2>1, <2>3 DEF ErasureInv, ErasureReady
  <2>. QED
    BY <2>1, <2>2, <2>4, <2>5 DEF ErasureInv, ErasureReady
<1>5. CASE DropsBlob \/ Clears \/ Quiet
  <2>1. UNCHANGED <<flash, erased, seq, asked>> /\ hp' \in {hp, NoFile, Damaged}
    BY <1>5 DEF DropsBlob, Clears, Quiet
  <2>2. \/ Ends \/ proc' = proc
        \/ \E pc : pc # "wrap" /\ MovesTo(pc) /\ proc.pc \notin {"idle", "wrap"}
    BY <1>5 DEF DropsBlob, Clears, Quiet
  <2>3. hp'.state = "complete" => hp' = hp
    BY <2>1 DEF NoFile, Damaged
  <2>. QED
    BY <2>1, <2>2, <2>3, ErasureKept
<1>6. CASE Writes
  <2>1. /\ proc.pc = "write" /\ UNCHANGED <<hp, erased, seq, asked>>
        /\ flash' = flash \union {[by |-> proc.n, hdr |-> proc.hdr]}
        /\ \E pc \in {"rename", "overwrite"} : MovesTo(pc)
    BY <1>6 DEF Writes
  <2>2. Running
    BY <2>1 DEF TypeInv, ProcessInv, Running
  <2>3. \A r \in erased : \A f \in flash' : f.by >= r.by => Cleared(f.hdr, r)
    BY <2>1, <2>2 DEF ErasureInv
  <2>4. Running' /\ proc'.hdr = proc.hdr /\ proc'.n = proc.n /\ ErasureReady'
    BY <2>1, <2>2 DEF MovesTo, Running, ErasureReady, ErasureInv
  <2>. QED
    BY <2>1, <2>2, <2>3, <2>4 DEF ErasureInv, ErasureReady
<1>7. CASE Renames
  <2>1. proc.pc = "rename" /\ UNCHANGED <<flash, seq, asked>> /\ hp' = tmp
    BY <1>7 DEF Renames
  <2>2. tmp = Complete(proc.hdr) /\ Running
    BY <2>1 DEF StoreInv, TypeInv, ProcessInv, Running
  <2>3. hp'.hdr = proc.hdr
    BY <2>1, <2>2 DEF Complete
  <2>4. CASE MovesTo("verify") /\ erased' = erased
    BY <2>1, <2>2, <2>3, <2>4, ErasureKept
  <2>5. CASE Ends /\ ReportsErased
    BY <2>1, <2>2, <2>3, <2>5, ErasureReported
  <2>. QED
    BY <1>7, <2>4, <2>5 DEF Renames
<1>8. CASE EndsHwShred
  <2>1. /\ proc.pc = "unmark" /\ proc.op = "hwshred" /\ UNCHANGED <<hp, flash, seq, asked>>
        /\ Ends /\ ReportsErased
    BY <1>8 DEF EndsHwShred
  <2>2. Running /\ hp'.hdr = proc.hdr
    BY <2>1 DEF StoreInv, Complete, Running
  <2>. QED
    BY <2>1, <2>2, ErasureReported
<1>. QED
  BY StepKinds, <1>2, <1>3, <1>4, <1>5, <1>6, <1>7, <1>8

(* Header.json of any time after a reported erasure, and whatever was      *)
(* written by then, keeps the entry out, under a master key that is not    *)
(* the one of any copy of the entry.                                       *)
LEMMA ClearedMeansErased ==
  ASSUME TypeInv, HeaderInv, NumberInv, ErasureInv
  PROVE  ErasedStaysErased
<1>1. SUFFICES ASSUME NEW r \in erased, NEW f \in flash, f.by >= r.by
               PROVE  /\ r.id \notin Ids(f.hdr)
                      /\ \A g \in flash : \A e \in g.hdr.entries :
                            e.id = r.id => e.meta # f.hdr.wm.mk
  BY DEF ErasedStaysErased
<1>2. Cleared(f.hdr, r)
  BY <1>1 DEF ErasureInv
<1>3. ASSUME NEW g \in flash, NEW e \in g.hdr.entries, e.id = r.id
      PROVE  e.meta # f.hdr.wm.mk
  <2>1. g.hdr \in Headers /\ f.hdr \in Headers /\ g.by \in Nat /\ r.by \in Nat
    BY DEF TypeInv, TypeOK, HistoryOK
  <2>2. e.meta = g.hdr.wm.mk
    BY DEF HeaderInv, HeadersConsistent, Consistent, MetasOpen
  <2>3. ~(g.by >= r.by)
    <3>1. r.id \in Ids(g.hdr)
      BY <1>3 DEF Ids
    <3>. QED
      BY <3>1 DEF ErasureInv, Cleared
  <2>4. g.hdr.wm.mk < g.by + 1 /\ g.hdr.wm.mk \in Nat /\ f.hdr.wm.mk \in Nat
    BY <2>1, HeaderParts DEF NumberInv, Older
  <2>. QED
    BY <1>2, <2>1, <2>2, <2>3, <2>4 DEF Cleared
<1>. QED
  BY <1>2, <1>3 DEF Cleared

(* A shred or hardware-shred that reported an entry erased erased it for   *)
(* good: whatever crashes, rekeys, recoveries and repairs follow, no header*)
(* written from then on names the entry or has a master key that opens a   *)
(* copy of its meta.                                                       *)
THEOREM ErasedAlwaysStaysErased == Spec => []ErasedStaysErased
  BY NumberInvariant, ErasureInit, ErasureStep, ClearedMeansErased, PTL DEF Spec

-----------------------------------------------------------------------------
(* The refinement.                                                         *)

(* From its start to the moment it takes effect, a command carries what it *)
(* makes of the header in place, which is older than it is; init carries a *)
(* fresh header, and there is none in place.                               *)
EffectInv ==
  /\ proc.pc = "wrap" =>
       /\ proc.op = "shred" /\ proc.hdr = hp.hdr
       /\ proc.drop \in Ids(hp.hdr) /\ proc.pass = hp.hdr.wm.wk.pass
  /\ proc.pc \in {"drop", "create", "write", "overwrite"} /\ proc.op # "init" =>
       Effect(proc.op, proc.drop, proc.n, hp.hdr, proc.hdr)
  /\ proc.pc \in {"wrap", "drop", "create", "write", "overwrite"} /\ proc.op # "init" =>
       Older(hp.hdr, proc.n)
  /\ proc.op = "init" =>
       /\ proc.pc \in {"create", "write", "rename"} /\ Fresh(proc.n, proc.hdr)
       /\ proc.pc # "rename" => hp.state = "absent" /\ tmp.state # "complete"
  /\ proc.pc \in {"remove", "rename"} => hp.state # "complete"
  /\ Running => proc.n <= MaxCmd

LEMMA EffectInit == Init => EffectInv
  BY DEF Init, EffectInv, Running, Idle

LEMMA EffectStep ==
  ASSUME "reinit" \notin Env, TypeInv, HeaderInv, StoreInv, NumberInv, EffectInv, [Next]_vars
  PROVE  EffectInv'
<1>. USE DEF EffectInv
<1>1. CASE Ends \/ (proc' = proc /\ UNCHANGED <<hp, tmp>>)
  BY <1>1 DEF Ends, Idle, Running
<1>2. ASSUME NEW pc \in {"create", "write"}, MovesTo(pc), hp' = hp, tmp' \in {tmp, Damaged},
             proc.pc \in {"drop", "create"}
      PROVE  EffectInv'
  BY <1>2 DEF MovesTo, Running, Damaged
<1>3. CASE Begins
  <2>1. /\ proc' \in [op : Ops \ {"none", "repair"}, pc : {"wrap", "drop", "create"}, n : Nat,
                      pass : Pass, drop : Nat, old : Nat, hdr : Headers]
        /\ proc'.n = seq /\ seq <= MaxCmd /\ UNCHANGED <<hp, tmp>>
        /\ proc'.op # "init" => hp.state = "complete"
    BY <1>3 DEF Begins, StartFacts
  <2>2. proc'.op # "init" => Older(hp.hdr, seq)
    BY <2>1, NumberInvByPart
  <2>3. CASE proc'.op = "init"
    <3>1. proc'.pc = "create" /\ NoVaultHere /\ Fresh(seq, proc'.hdr)
      BY <1>3, <2>3 DEF Begins, StartContents
    <3>. QED
      BY <2>1, <2>3, <3>1 DEF NoVaultHere, Running
  <2>4. CASE proc'.op = "shred"
    <3>1. /\ proc'.pc = "wrap" /\ proc'.drop \in Ids(hp.hdr)
          /\ proc'.hdr = hp.hdr /\ proc'.pass = hp.hdr.wm.wk.pass
      BY <1>3, <2>4 DEF Begins, StartContents
    <3>. QED
      BY <2>1, <2>2, <2>4, <3>1 DEF Running
  <2>5. CASE proc'.op \notin {"init", "shred"}
    <3>1. proc'.pc \in {"drop", "create"} /\ Effect(proc'.op, proc'.drop, seq, hp.hdr, proc'.hdr)
      BY <1>3, <2>5 DEF Begins, StartContents
    <3>. QED
      BY <2>1, <2>2, <2>5, <3>1 DEF Running
  <2>. QED
    BY <2>3, <2>4, <2>5
<1>4. CASE RepairBegins
  BY <1>4 DEF RepairBegins, Running
<1>5. CASE Rotates
  <2>1. /\ proc.pc = "wrap" /\ hp' = hp /\ proc'.pc = "create" /\ proc'.op = proc.op
        /\ proc'.n = proc.n /\ proc'.drop = proc.drop
        /\ proc'.hdr = Rotated(proc.hdr, proc.pass, proc.drop, proc.n)
    BY <1>5, WrapMoves DEF Rotates, Wrap, At
  <2>2. Running /\ proc.hdr \in Headers /\ proc.op = "shred"
    BY <2>1 DEF TypeInv, ProcessInv, Running
  <2>3. Erases(proc.drop, proc.n, hp.hdr, proc'.hdr)
    BY <2>1, <2>2, RotatedParts DEF Erases, SamePass, SameRoot
  <2>. QED
    BY <2>1, <2>2, <2>3 DEF Effect, Running
<1>6. CASE DropsBlob
  BY <1>2, <1>6 DEF DropsBlob
<1>7. CASE Clears
  <2>1. CASE proc.pc = "create"
    BY <1>2, <1>7, <2>1 DEF Clears
  <2>2. CASE proc.pc = "overwrite"
    BY <1>7, <2>2 DEF Clears, MovesTo, Damaged, Running
  <2>3. CASE proc.pc = "remove"
    BY <1>7, <2>3 DEF Clears, MovesTo, NoFile, Running
  <2>. QED
    BY <1>7, <2>1, <2>2, <2>3 DEF Clears
<1>8. CASE Writes
  <2>1. proc.pc = "write" /\ hp' = hp
        /\ MovesTo(IF hp.state = "absent" THEN "rename" ELSE "overwrite")
    BY <1>8 DEF Writes
  <2>2. CASE hp.state = "absent"
    BY <2>1, <2>2 DEF MovesTo, Running
  <2>3. CASE hp.state # "absent"
    BY <2>1, <2>3 DEF MovesTo, Running
  <2>. QED
    BY <2>2, <2>3
<1>9. CASE Renames
  <2>1. Ends \/ (proc.op = "hwshred" /\ proc.pc = "rename" /\ MovesTo("verify"))
    BY <1>9 DEF Renames
  <2>. QED
    BY <1>1, <2>1 DEF MovesTo, Running
<1>10. CASE EndsHwShred
  BY <1>1, <1>10 DEF EndsHwShred
<1>11. CASE Quiet
  <2>1. CASE Ends \/ proc' = proc
    BY <1>1, <1>11, <2>1 DEF Quiet
  <2>2. ASSUME NEW pc \in {"mark", "write_marker", "destroy", "unmark"}, MovesTo(pc),
               proc.pc \in {"verify", "mark", "write_marker", "destroy"}
        PROVE  EffectInv'
    BY <2>2 DEF MovesTo, Running
  <2>. QED
    BY <1>11, <2>1, <2>2 DEF Quiet
<1>. QED
  BY StepKinds, <1>3, <1>4, <1>5, <1>6, <1>7, <1>8, <1>9, <1>10, <1>11

LEMMA EffectInvariant ==
  ASSUME "reinit" \notin Env
  PROVE  Spec => [](TypeInv /\ HeaderInv /\ StoreInv /\ NumberInv /\ EffectInv)
<1>1. /\ Init => EffectInv
      /\ TypeInv /\ HeaderInv /\ StoreInv /\ NumberInv /\ EffectInv /\ [Next]_vars => EffectInv'
  BY EffectInit, EffectStep
<1>. QED
  BY <1>1, NumberInvariant, PTL DEF Spec

(* What a user sees of a vault; two views are the same when their parts    *)
(* are, and a command changes some of the parts.                           *)
Views ==
  [exists : BOOLEAN, entries : SUBSET Nat, pass : Pass, hardware : BOOLEAN, kit : BOOLEAN]

Is(v, exists, es, p, hardware, kit) ==
  /\ v \in Views /\ v.exists = exists /\ v.entries = es /\ v.pass = p
  /\ v.hardware = hardware /\ v.kit = kit

LEMMA SameView ==
  ASSUME NEW v, NEW w, NEW e, NEW es, NEW p, NEW hardware, NEW kit,
         Is(v, e, es, p, hardware, kit), Is(w, e, es, p, hardware, kit)
  PROVE  v = w
  BY DEF Is, Views

LEMMA ViewSeen ==
  ASSUME NEW h \in Headers
  PROVE  Is(Seen(h), TRUE, Ids(h), h.wm.wk.pass, h.key # NoKey, h.rec # NoKit)
<1>1. ASSUME NEW es \in SUBSET Nat, NEW p \in Pass, NEW hardware \in BOOLEAN, NEW kit \in BOOLEAN
      PROVE  Is([exists |-> TRUE, entries |-> es, pass |-> p, hardware |-> hardware, kit |-> kit],
                TRUE, es, p, hardware, kit)
  BY DEF Is, Views
<1>2. Ids(h) \in SUBSET Nat /\ h.wm.wk.pass \in Pass
  BY HeaderParts DEF Ids, Headers, WrapKeys
<1>. QED
  BY <1>1, <1>2 DEF Seen

LEMMA ViewEntries ==
  ASSUME NEW v \in Views, NEW es \in SUBSET Nat
  PROVE  Is([v EXCEPT !.entries = es], v.exists, es, v.pass, v.hardware, v.kit)
  BY DEF Is, Views

LEMMA ViewPass ==
  ASSUME NEW v \in Views, NEW p \in Pass
  PROVE  Is([v EXCEPT !.pass = p], v.exists, v.entries, p, v.hardware, v.kit)
  BY DEF Is, Views

LEMMA ViewEntriesKit ==
  ASSUME NEW v \in Views, NEW es \in SUBSET Nat, NEW kit \in BOOLEAN
  PROVE  Is([v EXCEPT !.entries = es, !.kit = kit], v.exists, es, v.pass, v.hardware, kit)
  BY DEF Is, Views

LEMMA ViewSoftware ==
  ASSUME NEW v \in Views
  PROVE  Is([v EXCEPT !.hardware = FALSE, !.kit = FALSE], v.exists, v.entries, v.pass, FALSE, FALSE)
  BY DEF Is, Views

(* The command that takes effect, as a step of AbstractVault.              *)
LEMMA EffectIsCommand ==
  ASSUME NEW g \in Headers, NEW h \in Headers, Running, TypeInv, NumberInv,
         Effect(proc.op, proc.drop, proc.n, g, h),
         Older(g, proc.n), proc.n <= MaxCmd, asked' = asked,
         SeenVault = Seen(g), SeenVault' = Seen(h)
  PROVE  [Abstract!AbstractNext]_(Abstract!avars)
<1>. DEFINE n == proc.n
            drop == proc.drop
            hw == g.key # NoKey
            kit == g.rec # NoKit
            hw2 == h.key # NoKey
            kit2 == h.rec # NoKit
<1>1. /\ n \in 1..MaxCmd /\ n \notin asked /\ n \notin Ids(g)
      /\ 0 \notin Ids(g) /\ drop \in asked \union {0} /\ 0 \notin asked
  <2>1. proc.n \in Nat /\ asked \subseteq Nat /\ MaxCmd \in Nat /\ Ids(g) \subseteq Nat
    BY BoundAssumption, HeaderParts DEF TypeInv, TypeOK, HistoryOK, Procs, Ids
  <2>. QED
    BY <2>1, NumberInvByPart DEF NumberRun, Older
<1>2. /\ Is(SeenVault, TRUE, Ids(g), g.wm.wk.pass, hw, kit)
      /\ Is(SeenVault', TRUE, Ids(h), h.wm.wk.pass, hw2, kit2)
      /\ hw \in BOOLEAN /\ kit \in BOOLEAN /\ hw2 \in BOOLEAN /\ kit2 \in BOOLEAN
      /\ SeenVault \in Views /\ Ids(g) \in SUBSET Nat /\ Ids(h) \in SUBSET Nat
      /\ h.wm.wk.pass \in Pass
  <2>1. /\ Is(SeenVault, TRUE, Ids(g), g.wm.wk.pass, hw, kit)
        /\ Is(SeenVault', TRUE, Ids(h), h.wm.wk.pass, hw2, kit2)
    BY ViewSeen
  <2>2. hw \in BOOLEAN /\ kit \in BOOLEAN /\ hw2 \in BOOLEAN /\ kit2 \in BOOLEAN
    OBVIOUS
  <2>3. h.wm.wk.pass \in Pass /\ Ids(g) \in SUBSET Nat /\ Ids(h) \in SUBSET Nat
    BY HeaderParts DEF Headers, WrapKeys, Ids
  <2>. HIDE DEF hw, kit, hw2, kit2
  <2>. QED
    BY <2>1, <2>2, <2>3 DEF Is
<1>3. /\ SeenVault.exists /\ SeenVault.entries = Ids(g) /\ SeenVault.pass = g.wm.wk.pass
      /\ SeenVault.hardware = hw /\ SeenVault.kit = kit /\ SeenVault'.entries = Ids(h)
  <2>. HIDE DEF hw, kit, hw2, kit2
  <2>. QED
    BY <1>2 DEF Is
<1>4. (asked \ SeenVault.entries)' = asked \ Ids(h)
  BY <1>3
<1>5. SameRoot(g, h) => hw2 = hw /\ kit2 = kit
  BY DEF SameRoot
<1>6. CASE Adds(n, g, h)
  <2>1. n \notin SeenVault.entries \union (asked \ SeenVault.entries)
    BY <1>1, <1>3
  <2>2. SeenVault' = [SeenVault EXCEPT !.entries = @ \union {n}]
    <3>. DEFINE v == [SeenVault EXCEPT !.entries = @ \union {n}]
    <3>. HIDE DEF hw, kit, hw2, kit2
    <3>1. /\ SeenVault.entries \union {n} = Ids(h) /\ h.wm.wk.pass = g.wm.wk.pass
          /\ hw2 = hw /\ kit2 = kit
      BY <1>3, <1>5, <1>6 DEF Adds, SamePass
    <3>2. Is(v, SeenVault.exists, Ids(h), SeenVault.pass, SeenVault.hardware, SeenVault.kit)
      BY <1>2, <3>1, ViewEntries
    <3>3. Is(v, TRUE, Ids(h), h.wm.wk.pass, hw2, kit2)
      BY <1>2, <1>3, <3>1, <3>2
    <3>. HIDE DEF v
    <3>4. SeenVault' = v
      BY <1>2, <3>3, SameView
    <3>. QED
      BY <3>4 DEF v
  <2>3. (asked \ SeenVault.entries)' = asked \ SeenVault.entries
    BY <1>1, <1>3, <1>4, <1>6 DEF Adds
  <2>4. Abstract!AddEntry(n)
    BY <1>3, <2>1, <2>2, <2>3 DEF Abstract!AddEntry
  <2>. QED
    BY <1>1, <2>4 DEF Abstract!AbstractNext
<1>7. CASE Erases(drop, n, g, h)
  <2>1. drop \in SeenVault.entries
    BY <1>3, <1>7 DEF Erases
  <2>2. SeenVault' = [SeenVault EXCEPT !.entries = @ \ {drop}]
    <3>. DEFINE v == [SeenVault EXCEPT !.entries = @ \ {drop}]
    <3>. HIDE DEF hw, kit, hw2, kit2
    <3>1. /\ SeenVault.entries \ {drop} = Ids(h) /\ h.wm.wk.pass = g.wm.wk.pass
          /\ hw2 = hw /\ kit2 = kit
      BY <1>3, <1>5, <1>7 DEF Erases, SamePass
    <3>2. Is(v, SeenVault.exists, Ids(h), SeenVault.pass, SeenVault.hardware, SeenVault.kit)
      BY <1>2, <3>1, ViewEntries
    <3>3. Is(v, TRUE, Ids(h), h.wm.wk.pass, hw2, kit2)
      BY <1>2, <1>3, <3>1, <3>2
    <3>. HIDE DEF v
    <3>4. SeenVault' = v
      BY <1>2, <3>3, SameView
    <3>. QED
      BY <3>4 DEF v
  <2>3. (asked \ SeenVault.entries)' = (asked \ SeenVault.entries) \union {drop}
    BY <1>1, <1>3, <1>4, <1>7 DEF Erases
  <2>4. Abstract!EraseEntry(drop)
    BY <2>1, <2>2, <2>3 DEF Abstract!EraseEntry
  <2>. QED
    BY <2>1, <2>4 DEF Abstract!AbstractNext
<1>8. CASE ChangesPass(n, g, h)
  <2>1. Ids(h) = Ids(g)
    BY <1>1, <1>8 DEF ChangesPass
  <2>2. SeenVault' = [SeenVault EXCEPT !.pass = h.wm.wk.pass]
    <3>. DEFINE v == [SeenVault EXCEPT !.pass = h.wm.wk.pass]
    <3>. HIDE DEF hw, kit, hw2, kit2
    <3>1. SeenVault.entries = Ids(h) /\ hw2 = hw /\ kit2 = kit
      BY <1>3, <1>5, <1>8, <2>1 DEF ChangesPass
    <3>2. Is(v, SeenVault.exists, SeenVault.entries, h.wm.wk.pass, SeenVault.hardware, SeenVault.kit)
      BY <1>2, <3>1, ViewPass
    <3>3. Is(v, TRUE, Ids(h), h.wm.wk.pass, hw2, kit2)
      BY <1>2, <1>3, <3>1, <3>2
    <3>. HIDE DEF v
    <3>4. SeenVault' = v
      BY <1>2, <3>3, SameView
    <3>. QED
      BY <3>4 DEF v
  <2>3. (asked \ SeenVault.entries)' = asked \ SeenVault.entries
    BY <1>3, <1>4, <2>1
  <2>4. Abstract!ChangePass(h.wm.wk.pass)
    BY <1>3, <2>2, <2>3 DEF Abstract!ChangePass
  <2>. QED
    BY <1>8, <2>4 DEF Abstract!AbstractNext, ChangesPass
<1>9. CASE RotatesRoot(drop, n, g, h)
  <2>. DEFINE D == {drop} \ {0}
              K == h.rec = NoKit
  <2>1. /\ D \in {{}} \union {{id} : id \in Ids(g)} /\ D \subseteq Ids(g)
        /\ Ids(h) = Ids(g) \ D /\ h.wm.wk.pass = g.wm.wk.pass
        /\ hw2 = hw /\ hw
    BY <1>1, <1>9 DEF RotatesRoot, SamePass, NoKey
  <2>2. kit2 = (kit /\ ~K) /\ K \in BOOLEAN
    BY <1>9 DEF RotatesRoot
  <2>3. SeenVault' = [SeenVault EXCEPT !.entries = @ \ D, !.kit = @ /\ ~K]
    <3>. DEFINE v == [SeenVault EXCEPT !.entries = @ \ D, !.kit = @ /\ ~K]
    <3>. HIDE DEF hw, kit, hw2, kit2, D, K
    <3>1. SeenVault.entries \ D = Ids(h) /\ (SeenVault.kit /\ ~K) = kit2
      BY <1>3, <2>1, <2>2
    <3>2. Is(v, SeenVault.exists, Ids(h), SeenVault.pass, SeenVault.hardware, kit2)
      BY <1>2, <3>1, ViewEntriesKit
    <3>3. Is(v, TRUE, Ids(h), h.wm.wk.pass, hw2, kit2)
      BY <1>2, <1>3, <2>1, <3>1, <3>2
    <3>. HIDE DEF v
    <3>4. SeenVault' = v
      BY <1>2, <3>3, SameView
    <3>. QED
      BY <3>4 DEF v
  <2>4. (asked \ SeenVault.entries)' = (asked \ SeenVault.entries) \union D
    BY <1>1, <1>3, <1>4, <2>1
  <2>5. Abstract!RotateHardware(D, K)
    <3>. HIDE DEF hw, kit, hw2, kit2, D, K
    <3>. QED
      BY <1>3, <2>1, <2>3, <2>4 DEF Abstract!RotateHardware
  <2>. HIDE DEF D, K
  <2>. QED
    BY <1>3, <2>1, <2>2, <2>5 DEF Abstract!AbstractNext
<1>10. CASE Recovers(n, g, h)
  <2>1. Ids(h) = Ids(g) /\ h.wm.wk.pass = g.wm.wk.pass /\ hw /\ kit
    BY <1>10 DEF Recovers, SamePass
  <2>2. (asked \ SeenVault.entries)' = asked \ SeenVault.entries
    BY <1>3, <1>4, <2>1
  <2>3. CASE h.key = n /\ h.rec = Escrow(n)
    <3>1. hw2 = hw /\ kit2 = kit
      BY <1>1, <2>1, <2>3 DEF NoKey, NoKit, Escrow
    <3>2. SeenVault' = SeenVault
      <4>. HIDE DEF hw, kit, hw2, kit2
      <4>. QED
        BY <1>2, <2>1, <3>1, SameView
    <3>. QED
      BY <2>2, <3>2 DEF Abstract!avars
  <2>4. CASE h.key = NoKey /\ h.rec = NoKit
    <3>1. hw2 = FALSE /\ kit2 = FALSE
      BY <2>4
    <3>2. SeenVault' = [SeenVault EXCEPT !.hardware = FALSE, !.kit = FALSE]
      <4>. DEFINE v == [SeenVault EXCEPT !.hardware = FALSE, !.kit = FALSE]
      <4>. HIDE DEF hw, kit, hw2, kit2
      <4>1. SeenVault.entries = Ids(h) /\ SeenVault.pass = h.wm.wk.pass
        BY <1>3, <2>1
      <4>2. Is(v, SeenVault.exists, SeenVault.entries, SeenVault.pass, FALSE, FALSE)
        BY <1>2, <4>1, ViewSoftware
      <4>3. Is(v, TRUE, Ids(h), h.wm.wk.pass, hw2, kit2)
        BY <1>2, <1>3, <3>1, <4>1, <4>2
      <4>. HIDE DEF v
      <4>4. SeenVault' = v
        BY <1>2, <4>3, SameView
      <4>. QED
        BY <4>4 DEF v
    <3>3. Abstract!LeaveHardware
      <4>. HIDE DEF hw, kit
      <4>. QED
        BY <1>3, <2>1, <2>2, <3>2 DEF Abstract!LeaveHardware
    <3>. QED
      BY <3>3 DEF Abstract!AbstractNext
  <2>. QED
    BY <1>10, <2>3, <2>4 DEF Recovers
<1>. QED
  BY <1>6, <1>7, <1>8, <1>9, <1>10 DEF Effect

LEMMA AbstractStep ==
  ASSUME "reinit" \notin Env, TypeInv, HeaderInv, StoreInv, NumberInv, EffectInv, [Next]_vars
  PROVE  [Abstract!AbstractNext]_(Abstract!avars)
<1>1. ASSUME SeenVault' = SeenVault, asked' \ asked \subseteq SeenVault.entries, asked \subseteq asked'
      PROVE  [Abstract!AbstractNext]_(Abstract!avars)
  <2>1. (asked \ SeenVault.entries)' = asked \ SeenVault.entries
    BY <1>1
  <2>. QED
    BY <1>1, <2>1 DEF Abstract!avars
<1>2. ASSUME UNCHANGED <<hp, tmp, asked>>
      PROVE  [Abstract!AbstractNext]_(Abstract!avars)
  BY <1>1, <1>2 DEF SeenVault, Surviving
<1>3. CASE Begins
  <2>1. /\ UNCHANGED <<hp, tmp>> /\ asked' = asked \union ({proc'.drop} \ {0})
        /\ proc'.op # "init" => hp.state = "complete"
    BY <1>3 DEF Begins, StartFacts, StartContents
  <2>2. SeenVault' = SeenVault
    BY <2>1 DEF SeenVault, Surviving
  <2>3. {proc'.drop} \ {0} \subseteq SeenVault.entries
    <3>1. CASE proc'.op = "init"
      BY <1>3, <3>1 DEF Begins, StartContents
    <3>2. CASE proc'.op # "init"
      <4>1. SeenVault.entries = Ids(hp.hdr)
        BY <2>1, <3>2 DEF SeenVault, Surviving, Seen
      <4>2. proc'.drop \in Ids(hp.hdr) \union {0}
        BY <1>3, <3>2, EffectDrop DEF Begins, StartContents
      <4>. QED
        BY <4>1, <4>2
    <3>. QED
      BY <3>1, <3>2
  <2>. QED
    BY <1>1, <2>1, <2>2, <2>3
<1>4. CASE RepairBegins \/ Rotates \/ DropsBlob \/ EndsHwShred \/ Quiet
  BY <1>2, <1>4 DEF RepairBegins, Rotates, DropsBlob, EndsHwShred, Quiet
<1>5. CASE Clears
  <2>1. CASE proc.pc = "create"
    <3>1. hp' = hp /\ tmp' = Damaged /\ asked' = asked
      BY <1>5, <2>1 DEF Clears
    <3>2. hp.state = "complete" \/ tmp.state # "complete"
      BY <2>1 DEF StoreInv, EffectInv
    <3>3. SeenVault' = SeenVault
      BY <3>1, <3>2 DEF SeenVault, Surviving, Damaged
    <3>. QED
      BY <1>1, <3>1, <3>3
  <2>2. CASE proc.pc = "overwrite"
    <3>1. hp' = Damaged /\ tmp' = tmp /\ asked' = asked
      BY <1>5, <2>2 DEF Clears
    <3>2. proc.op # "init" /\ Running /\ tmp = Complete(proc.hdr)
      BY <2>2 DEF EffectInv, StoreInv, TypeInv, ProcessInv, Running
    <3>3. hp.state = "complete" /\ hp.hdr \in Headers /\ proc.hdr \in Headers
      BY <2>2, <3>2 DEF StoreInv, TypeInv, TypeOK, FilesOK, ProcessInv
    <3>4. SeenVault = Seen(hp.hdr) /\ SeenVault' = Seen(proc.hdr)
      BY <3>1, <3>2, <3>3 DEF SeenVault, Surviving, Damaged, Complete
    <3>5. /\ Effect(proc.op, proc.drop, proc.n, hp.hdr, proc.hdr)
          /\ Older(hp.hdr, proc.n) /\ proc.n <= MaxCmd
      BY <2>2, <3>2 DEF EffectInv
    <3>. QED
      BY <3>1, <3>2, <3>3, <3>4, <3>5, EffectIsCommand
  <2>3. CASE proc.pc = "remove"
    <3>1. hp' \in {NoFile, hp} /\ tmp' = tmp /\ asked' = asked /\ hp.state # "complete"
      BY <1>5, <2>3 DEF Clears, EffectInv
    <3>2. SeenVault' = SeenVault
      BY <3>1 DEF SeenVault, Surviving, NoFile
    <3>. QED
      BY <1>1, <3>1, <3>2
  <2>. QED
    BY <1>5, <2>1, <2>2, <2>3 DEF Clears
<1>6. CASE Writes
  <2>1. proc.pc = "write" /\ hp' = hp /\ tmp' = Complete(proc.hdr) /\ asked' = asked
    BY <1>6 DEF Writes
  <2>2. CASE proc.op = "init"
    <3>. DEFINE h == proc.hdr
    <3>1. Fresh(proc.n, h) /\ hp.state = "absent" /\ tmp.state # "complete"
      BY <2>1, <2>2 DEF EffectInv
    <3>2. /\ SeenVault = Abstract!NoVault
          /\ SeenVault' = [exists |-> TRUE, entries |-> Ids(h), pass |-> h.wm.wk.pass,
                           hardware |-> h.key # NoKey, kit |-> h.rec # NoKit]
      BY <2>1, <3>1 DEF SeenVault, Surviving, Complete, Abstract!NoVault, Seen
    <3>3. /\ Ids(h) = {} /\ h.wm.wk.pass \in Pass
          /\ (h.rec # NoKit) => (h.key # NoKey)
      BY <3>1 DEF Fresh
    <3>4. (asked \ SeenVault.entries)' = asked \ SeenVault.entries
      BY <2>1, <3>2, <3>3 DEF Abstract!NoVault
    <3>5. Abstract!Create(h.wm.wk.pass, h.key # NoKey, h.rec # NoKit)
      BY <3>2, <3>3, <3>4 DEF Abstract!Create, Abstract!NoVault
    <3>6. (h.key # NoKey) \in BOOLEAN /\ (h.rec # NoKit) \in BOOLEAN
      OBVIOUS
    <3>. QED
      BY <3>3, <3>5, <3>6 DEF Abstract!AbstractNext
  <2>3. CASE proc.op # "init"
    <3>1. hp.state = "complete"
      BY <2>1, <2>3 DEF StoreInv
    <3>2. SeenVault' = SeenVault
      BY <2>1, <3>1 DEF SeenVault, Surviving
    <3>. QED
      BY <1>1, <2>1, <3>2
  <2>. QED
    BY <2>2, <2>3
<1>7. CASE Renames
  <2>1. proc.pc = "rename" /\ hp' = tmp /\ tmp' = NoFile /\ asked' = asked
    BY <1>7 DEF Renames
  <2>2. hp.state # "complete" /\ tmp = Complete(proc.hdr)
    BY <2>1 DEF EffectInv, StoreInv
  <2>3. SeenVault' = SeenVault
    BY <2>1, <2>2 DEF SeenVault, Surviving, Complete
  <2>. QED
    BY <1>1, <2>1, <2>3
<1>. QED
  BY StepKinds, <1>3, <1>4, <1>5, <1>6, <1>7

(* Through crashes, failing steps, TPM clears and any number of commands,  *)
(* every step of Vault is one whole command of AbstractVault or nothing    *)
(* the user sees; only a second init over what a crash left is excepted.   *)
THEOREM VaultImplementsAbstractVault ==
  ASSUME "reinit" \notin Env
  PROVE  Spec => ImplementsAbstractVault
<1>1. Init => Abstract!AbstractInit
  BY DEF Init, Abstract!AbstractInit, Abstract!NoVault, SeenVault, Surviving, NoFile
<1>2. TypeInv /\ HeaderInv /\ StoreInv /\ NumberInv /\ EffectInv /\ [Next]_vars
        => [Abstract!AbstractNext]_(Abstract!avars)
  BY AbstractStep
<1>. QED
  BY <1>1, <1>2, EffectInvariant, PTL DEF Spec, ImplementsAbstractVault, Abstract!AbstractSpec

-----------------------------------------------------------------------------
(* Which TPM keys a command leaves while it works.                         *)

(* What the start of command n, from header g, does to the TPM, and which  *)
(* key and kit the new header h has.                                       *)
Mints(n, h) == h.key = n /\ h.rec \in {NoKit, Escrow(n)} /\ tpm' = tpm \union {n}

RootEffect(op, n, g, h) ==
  \/ op \in {"add", "shred", "rekey"} /\ SameRoot(g, h) /\ tpm' = tpm
  \/ op = "hwshred" /\ g.key \in tpm /\ g.key # NoKey /\ Mints(n, h)
  \/ /\ op = "init" \/ (op = "recover" /\ g.key # NoKey /\ (g.key \notin tpm \/ "recover_live" \in Env))
     /\ \/ Mints(n, h)
        \/ h.key = NoKey /\ h.rec = NoKit /\ tpm' = tpm

LEMMA StartsRoot ==
  ASSUME TypeInv, HeaderInv, NEW p \in Pass, CommandStarts(p)
  PROVE  /\ RootEffect(proc'.op, seq, hp.hdr, proc'.hdr)
         /\ proc'.op = "init" => hp.state = "absent"
         /\ proc'.pc = "wrap" => proc'.op = "shred" /\ proc'.hdr = hp.hdr
<1>. DEFINE Goal == /\ RootEffect(proc'.op, seq, hp.hdr, proc'.hdr)
                    /\ proc'.op = "init" => hp.state = "absent"
                    /\ proc'.pc = "wrap" => proc'.op = "shred" /\ proc'.hdr = hp.hdr
<1>. USE DEF Begin
<1>2. CASE StartInit(p)
  <2>1. NewHeader(p, NoKey, NoKit, seq).key = NoKey /\ NewHeader(p, NoKey, NoKit, seq).rec = NoKit
    BY NewHeaderParts
  <2>. QED
    BY <1>2, <2>1 DEF StartInit, NoVaultHere, RootEffect
<1>3. ASSUME NEW kit \in BOOLEAN, StartInitTpm(p, kit)
      PROVE  Goal
  <2>. DEFINE k == IF kit THEN Escrow(seq) ELSE NoKit
              h == NewHeader(p, seq, k, seq)
  <2>1. h.key = seq /\ h.rec = k
    BY NewHeaderParts
  <2>2. proc'.op = "init" /\ proc'.pc = "create" /\ proc'.hdr = h
    BY <1>3 DEF StartInitTpm
  <2>3. tpm' = tpm \union {seq} /\ hp.state = "absent"
    BY <1>3 DEF StartInitTpm, SealRwk, NoVaultHere
  <2>4. k \in {NoKit, Escrow(seq)}
    OBVIOUS
  <2>. HIDE DEF h, k
  <2>. QED
    BY <2>1, <2>2, <2>3, <2>4 DEF RootEffect, Mints
<1>4. CASE StartAdd(p)
  <2>1. SameRoot(hp.hdr, Added(hp.hdr, seq))
    BY <1>4, OpenedHeader, AddedParts DEF StartAdd, OpensWith, SameRoot
  <2>. QED
    BY <1>4, <2>1 DEF StartAdd, RootEffect
<1>5. ASSUME NEW id \in Entries, StartShred(p, id)
      PROVE  Goal
  BY <1>5 DEF StartShred, RootEffect, SameRoot
<1>6. ASSUME NEW newp \in Pass, StartRekey(p, newp)
      PROVE  Goal
  <2>1. SameRoot(hp.hdr, Rekeyed(hp.hdr, newp, seq))
    BY <1>6, OpenedHeader, RekeyedParts DEF StartRekey, OpensWith, SameRoot
  <2>. QED
    BY <1>6, <2>1 DEF StartRekey, RootEffect
<1>7. ASSUME NEW drop \in Entries \union {0}, NEW destroyKit \in BOOLEAN,
             StartHwShred(p, drop, destroyKit)
      PROVE  Goal
  <2>. DEFINE h == HwShredded(hp.hdr, p, drop, destroyKit, seq)
  <2>1. hp.hdr \in Headers /\ hp.hdr.key # NoKey /\ hp.hdr.key \in tpm
    BY <1>7, OpenedHeader DEF StartHwShred, OpensWith, Unseals
  <2>2. h.key = seq /\ h.rec \in {NoKit, Escrow(seq)}
    BY <2>1, HwShreddedParts
  <2>3. proc' = [op |-> "hwshred", pc |-> IF drop = 0 THEN "create" ELSE "drop", n |-> seq,
                 pass |-> p, drop |-> drop, old |-> hp.hdr.key, hdr |-> h]
    BY <1>7 DEF StartHwShred
  <2>. HIDE DEF h
  <2>4. proc'.op = "hwshred" /\ proc'.pc \in {"create", "drop"} /\ proc'.hdr = h
    BY <2>3
  <2>5. tpm' = tpm \union {seq}
    BY <1>7 DEF StartHwShred, SealRwk
  <2>. QED
    BY <2>1, <2>2, <2>4, <2>5 DEF RootEffect, Mints
<1>8. ASSUME NEW code \in notebook, StartRecover(p, code)
      PROVE  Goal
  <2>. DEFINE h == Reprovisioned(hp.hdr, p, seq)
  <2>1. /\ hp.hdr \in Headers /\ hp.hdr.key # NoKey
        /\ hp.hdr.key \notin tpm \/ "recover_live" \in Env
    BY <1>8, OpenedHeader DEF StartRecover, KitOpens
  <2>2. h.key = seq /\ h.rec = Escrow(seq)
    BY <2>1, ReprovisionedParts
  <2>3. /\ proc'.op = "recover" /\ proc'.pc = "create" /\ proc'.hdr = h
        /\ tpm' = tpm \union {seq}
    BY <1>8 DEF StartRecover, SealRwk
  <2>. HIDE DEF h
  <2>. QED
    BY <2>1, <2>2, <2>3 DEF RootEffect, Mints
<1>9. ASSUME NEW code \in notebook, StartRecoverToSoftware(p, code)
      PROVE  Goal
  <2>. DEFINE h == ToSoftware(hp.hdr, p)
  <2>1. /\ hp.hdr \in Headers /\ hp.hdr.key # NoKey
        /\ hp.hdr.key \notin tpm \/ "recover_live" \in Env
    BY <1>9, OpenedHeader DEF StartRecoverToSoftware, KitOpens
  <2>2. h.key = NoKey /\ h.rec = NoKit
    BY <2>1, ToSoftwareParts
  <2>3. proc'.op = "recover" /\ proc'.pc = "create" /\ proc'.hdr = h /\ tpm' = tpm
    BY <1>9 DEF StartRecoverToSoftware
  <2>. HIDE DEF h
  <2>. QED
    BY <2>1, <2>2, <2>3 DEF RootEffect
<1>. QED
  BY <1>2, <1>3, <1>4, <1>5, <1>6, <1>7, <1>8, <1>9 DEF CommandStarts

LEMMA LiveInit == Init => LiveInv
  BY DEF Init, LiveInv, Running, Idle, NoFile, StaleMastersDead

(* The keys a command starts with.                                         *)
LEMMA LiveStart ==
  ASSUME "recover_live" \notin Env,
         TypeInv, HeaderInv, KeyInv, NumberInv, LiveInv, NEW p \in Pass, CommandStarts(p)
  PROVE  LiveInv'
<1>. DEFINE h == proc'.hdr
            g == hp.hdr
            n == seq
<1>1. /\ n \in Nat \ {0} /\ g.key \in Nat /\ h.key \in Nat /\ claimed \in Nat
      /\ tpm \subseteq Nat \ {0} /\ retired \subseteq Nat
      /\ \A f \in flash : f.by \in Nat /\ f.hdr.key \in Nat
  <2>1. h.key \in Nat
    BY Starts, HeaderParts DEF StartFacts
  <2>2. \A f \in flash : f.by \in Nat /\ f.hdr.key \in Nat
    BY HeaderParts DEF TypeInv, TypeOK, HistoryOK
  <2>. QED
    BY <2>1, <2>2, KeyOfHeaderFile DEF TypeInv, TypeOK, HistoryOK
<1>2. /\ proc'.n = n /\ proc'.old = g.key /\ seq' = n + 1
      /\ proc'.op \notin {"none", "repair"} /\ proc'.pc \in {"wrap", "drop", "create"}
      /\ UNCHANGED <<hp, flash, retired, claimed>>
      /\ proc'.op # "init" => hp.state = "complete"
      /\ ~Running /\ Running'
  BY Starts DEF StartFacts, Running
<1>3. /\ RootEffect(proc'.op, n, g, h)
      /\ proc'.op = "init" => hp.state = "absent"
      /\ proc'.pc = "wrap" => proc'.op = "shred" /\ h = g
  BY StartsRoot
<1>4. /\ IF hp.state = "complete"
         THEN tpm \subseteq {g.key} /\ RootLasts(g)
         ELSE flash = {} /\ tpm = {} /\ retired = {}
      /\ claimed < n /\ \A k \in retired : k < n
      /\ \A f \in flash : f.hdr.key <= f.by /\ f.by < n
      /\ hp.state = "complete" => g.key < n
      /\ StaleMastersDead
  BY <1>2 DEF LiveInv, NumberInv, KeyInv, Copies
<1>5. h.key \in {NoKey, n, g.key} /\ tpm' \in {tpm, tpm \union {n}} /\ h.key <= n
  <2>1. h.key \in {NoKey, n, g.key} /\ tpm' \in {tpm, tpm \union {n}}
    BY <1>3 DEF RootEffect, SameRoot, Mints
  <2>2. SameRoot(g, h) => h.key <= n \/ proc'.op = "init"
    BY <1>1, <1>2, <1>4 DEF SameRoot
  <2>. HIDE DEF h, g, n
  <2>3. h.key \in {NoKey, n} => h.key <= n
    BY <1>1 DEF NoKey
  <2>. QED
    BY <1>3, <2>1, <2>2, <2>3 DEF RootEffect, Mints
<1>6. RootsOf(proc.hdr)'
  <2>. SUFFICES IF proc'.op = "hwshred"
                THEN /\ tpm' \subseteq {h.key, g.key} /\ (tpm' # {} => h.key \in tpm')
                     /\ h.key = n
                ELSE tpm' \subseteq {h.key}
    BY <1>2 DEF RootsOf, h, g, n
  <2>1. CASE proc'.op = "hwshred"
    BY <1>2, <1>3, <1>4, <2>1 DEF RootEffect, Mints
  <2>2. CASE proc'.op \in {"add", "shred", "rekey"}
    BY <1>2, <1>3, <1>4, <2>2 DEF RootEffect, SameRoot
  <2>3. CASE proc'.op = "init"
    BY <1>2, <1>3, <1>4, <2>3 DEF RootEffect, Mints
  <2>4. CASE proc'.op = "recover"
    BY <1>2, <1>3, <1>4, <2>4 DEF RootEffect, Mints
  <2>. QED
    BY <1>3, <2>1, <2>2, <2>3, <2>4 DEF RootEffect
<1>7. RootLasts(proc.hdr)'
  <2>. SUFFICES ASSUME h.key # NoKey
                PROVE  (\A k \in retired : k < h.key) /\ \A f \in flash : f.hdr.key # NoKey
    BY <1>2 DEF RootLasts, h
  <2>1. CASE hp.state # "complete"
    BY <1>4, <2>1
  <2>2. CASE hp.state = "complete" /\ h.key = g.key
    BY <1>4, <2>2 DEF RootLasts
  <2>3. CASE hp.state = "complete" /\ h.key = n
    <3>1. g.key # NoKey
      BY <1>3, <2>2, <2>3 DEF RootEffect, SameRoot
    <3>. QED
      BY <1>4, <2>3, <3>1 DEF RootLasts
  <2>. QED
    BY <1>5, <2>1, <2>2, <2>3
<1>8. StaleMastersDead'
  <2>. SUFFICES ASSUME NEW f \in flash, f.by < claimed
                PROVE  f.hdr.key # NoKey /\ f.hdr.key \notin tpm'
    BY <1>2 DEF StaleMastersDead
  <2>1. f.hdr.key # NoKey /\ f.hdr.key \notin tpm
    BY <1>4 DEF StaleMastersDead
  <2>2. f.hdr.key # n
    BY <1>1, <1>4
  <2>. QED
    BY <1>5, <2>1, <2>2
<1>9. /\ claimed' < seq' /\ \A k \in retired' : k < seq'
      /\ \A f \in flash' : f.hdr.key <= f.by
  BY <1>1, <1>2, <1>4
<1>. QED
  BY <1>2, <1>3, <1>4, <1>5, <1>6, <1>7, <1>8, <1>9 DEF LiveInv, h, g, n

(* What a program step that moves the command on keeps of the keys.        *)
LEMMA LiveStep ==
  ASSUME Env \subseteq {"clear", "unlink", "reinit"},
         TypeInv, HeaderInv, StoreInv, KeyInv, NumberInv, LiveInv, [Next]_vars
  PROVE  LiveInv'
<1>1. Env \intersect {"crash", "unseal", "destroy", "getcap", "recover_live"} = {}
  OBVIOUS
<1>2. /\ ~Running =>
           IF hp.state = "complete"
           THEN tpm \subseteq {hp.hdr.key} /\ RootLasts(hp.hdr)
           ELSE flash = {} /\ tpm = {} /\ retired = {}
      /\ Running =>
           /\ RootsOf(proc.hdr) /\ RootLasts(proc.hdr)
           /\ proc.hdr.key <= proc.n /\ claimed < proc.n
           /\ proc.pc = "wrap" => proc.op = "shred" /\ proc.hdr = hp.hdr
      /\ claimed < seq /\ \A k \in retired : k < seq
      /\ \A f \in flash : f.hdr.key <= f.by
      /\ StaleMastersDead
  BY DEF LiveInv
<1>3. /\ proc \in Procs /\ ProcessInv /\ proc.n \in Nat /\ proc.old \in Nat /\ seq \in Nat
      /\ claimed \in Nat /\ retired \subseteq Nat
      /\ Running => proc.n < seq /\ proc.hdr.key \in Nat /\ proc.hdr \in Headers
  BY HeaderParts DEF TypeInv, TypeOK, HistoryOK, Procs, NumberInv, ProcessInv
(* The command moves on and only its place, or the files, change.          *)
<1>4. ASSUME NEW pc \in Pcs \ {"idle", "wrap", "unmark"}, Running, MovesTo(pc),
             UNCHANGED <<tpm, flash, retired, claimed, seq>>
      PROVE  LiveInv'
  <2>1. Running' /\ RootsOf(proc.hdr)' /\ RootLasts(proc.hdr)' /\ StaleMastersDead'
    BY <1>2, <1>4 DEF MovesTo, Running, RootsOf, RootLasts, StaleMastersDead
  <2>. QED
    BY <1>2, <1>4, <2>1 DEF MovesTo, LiveInv
(* The command ends with its header in place, under the only key.          *)
<1>5. ASSUME Running, Ends, hp' = Complete(proc.hdr), tpm \subseteq {proc.hdr.key},
             UNCHANGED <<tpm, flash, retired, seq>>, claimed' \in {claimed, proc.n},
             StaleMastersDead'
      PROVE  LiveInv'
  <2>1. ~Running' /\ hp'.state = "complete" /\ hp'.hdr = proc.hdr /\ proc'.pc # "wrap"
    BY <1>5 DEF Ends, Idle, Running, Complete
  <2>2. RootLasts(hp.hdr)'
    BY <1>2, <1>5, <2>1 DEF RootLasts
  <2>3. claimed' < seq
    BY <1>2, <1>3, <1>5
  <2>. QED
    BY <1>2, <1>5, <2>1, <2>2, <2>3 DEF LiveInv
<1>6. StaleMastersDead' \/ ~ UNCHANGED <<tpm, flash, claimed>>
  BY <1>2 DEF StaleMastersDead
<1>7. CASE UNCHANGED vars
  BY <1>7 DEF LiveInv, vars, disk, history, Running, RootsOf, RootLasts, StaleMastersDead
<1>8. ASSUME NEW p \in Pass, CommandStarts(p)
      PROVE  LiveInv'
  BY <1>1, <1>8, LiveStart
<1>9. CASE StartRepair
  <2>1. ~Running /\ ~Running' /\ UNCHANGED <<hp, tpm, flash, retired, claimed, seq>>
    BY <1>9 DEF StartRepair, Running, Idle, disk, history
  <2>2. StaleMastersDead' /\ (RootLasts(hp.hdr) => RootLasts(hp.hdr)') /\ proc'.pc # "wrap"
    BY <1>6, <1>9, <2>1 DEF RootLasts, StartRepair, Idle
  <2>. QED
    BY <1>2, <2>1, <2>2 DEF LiveInv
<1>10. CASE Wrap
  <2>1. /\ proc.pc = "wrap" /\ UNCHANGED <<tpm, flash, retired, claimed, seq>>
        /\ proc'.pc = "create" /\ proc'.op = proc.op /\ proc'.old = proc.old /\ proc'.n = proc.n
        /\ proc'.hdr.key = proc.hdr.key
    BY <1>10, WrapMoves DEF Wrap, At, disk, history
  <2>2. Running /\ Running'
    BY <1>3, <2>1 DEF ProcessInv, Running
  <2>3. RootsOf(proc.hdr)' /\ RootLasts(proc.hdr)' /\ StaleMastersDead'
    BY <1>2, <1>6, <2>1, <2>2 DEF RootsOf, RootLasts
  <2>. QED
    BY <1>2, <2>1, <2>2, <2>3 DEF LiveInv
<1>11. CASE WrapFails
  <2>1. /\ proc.pc = "wrap" /\ Ends /\ Running
        /\ UNCHANGED <<hp, tpm, flash, retired, claimed, seq>>
    BY <1>3, <1>11, Moves DEF WrapFails, At, disk, history, ProcessInv, Running
  <2>2. proc.op = "shred" /\ proc.hdr = hp.hdr /\ hp.state = "complete"
    BY <1>2, <2>1 DEF StoreInv
  <2>3. hp = Complete(proc.hdr)
    BY <2>2 DEF Complete, TypeInv, TypeOK, FilesOK
  <2>4. tpm \subseteq {proc.hdr.key}
    BY <1>2, <2>1, <2>2 DEF RootsOf
  <2>. QED
    BY <1>5, <1>6, <2>1, <2>3, <2>4
<1>12. CASE HwDropBlob \/ CreateTmp \/ OverwriteHeader \/ RemoveHeader
            \/ Verify \/ CreateMarker \/ WriteMarker
  <2>1. UNCHANGED <<tpm, flash, retired, claimed, seq>>
    BY <1>12 DEF HwDropBlob, CreateTmp, OverwriteHeader, RemoveHeader, Verify, CreateMarker,
                 WriteMarker, disk, history
  <2>2. /\ proc.pc \in {"drop", "create", "overwrite", "remove", "verify", "mark", "write_marker"}
        /\ \E pc \in {"create", "write", "remove", "rename", "mark", "write_marker", "destroy"} :
             MovesTo(pc)
    BY <1>12, Moves
  <2>3. Running
    BY <1>3, <2>2 DEF ProcessInv, Running
  <2>. QED
    BY <1>4, <2>1, <2>2, <2>3 DEF Pcs
<1>13. CASE WriteTmp
  <2>1. /\ UNCHANGED <<tpm, retired, claimed, seq>>
        /\ flash' = flash \union {[by |-> proc.n, hdr |-> proc.hdr]}
        /\ proc.pc = "write" /\ (MovesTo("rename") \/ MovesTo("overwrite"))
    BY <1>13, Moves DEF WriteTmp
  <2>2. Running /\ Running'
    BY <1>3, <2>1 DEF ProcessInv, Running, MovesTo
  <2>3. RootsOf(proc.hdr)' /\ RootLasts(proc.hdr)'
    BY <1>2, <2>1, <2>2 DEF RootsOf, RootLasts, MovesTo
  <2>4. \A f \in flash' : f.hdr.key <= f.by
    BY <1>2, <2>1, <2>2
  <2>5. StaleMastersDead'
    BY <1>2, <1>3, <2>1, <2>2 DEF StaleMastersDead
  <2>. QED
    BY <1>2, <2>1, <2>2, <2>3, <2>4, <2>5 DEF LiveInv, MovesTo
<1>14. CASE RenameTmp
  <2>1. /\ UNCHANGED <<tpm, flash, claimed, seq>> /\ hp' = tmp /\ proc.pc = "rename"
        /\ tmp = Complete(proc.hdr)
    BY <1>14 DEF RenameTmp, At, StoreInv
  <2>2. Running /\ StaleMastersDead'
    BY <1>3, <1>6, <2>1 DEF ProcessInv, Running
  <2>3. CASE proc.op = "hwshred"
    <3>1. retired' = retired \union {proc.old} /\ MovesTo("verify")
      BY <1>14, <2>3, GoToMoves DEF RenameTmp, Pcs
    <3>2. Running' /\ RootsOf(proc.hdr)'
      BY <1>2, <2>1, <2>2, <3>1 DEF MovesTo, Running, RootsOf
    <3>3. proc.old < proc.hdr.key /\ proc.hdr.key < seq
      BY <2>2, <2>3 DEF KeyInv
    <3>4. RootLasts(proc.hdr)'
      BY <1>2, <2>1, <2>2, <3>1, <3>3 DEF MovesTo, RootLasts
    <3>5. \A k \in retired' : k < seq
      <4>1. proc.old < seq
        BY <1>3, <2>2, <3>3
      <4>. QED
        BY <1>2, <3>1, <4>1
    <3>. QED
      BY <1>2, <2>1, <2>2, <3>1, <3>2, <3>4, <3>5 DEF MovesTo, LiveInv
  <2>4. CASE proc.op # "hwshred"
    <3>1. retired' = retired /\ Ends
      BY <1>14, <2>4 DEF RenameTmp, Finish, Ends
    <3>2. tpm \subseteq {proc.hdr.key}
      BY <1>2, <2>2, <2>4 DEF RootsOf
    <3>. QED
      BY <1>5, <2>1, <2>2, <3>1, <3>2
  <2>. QED
    BY <2>3, <2>4
<1>15. CASE VerifyFails
  <2>1. /\ proc.pc = "verify" /\ proc.op = "hwshred" /\ Ends /\ proc.hdr.key \notin tpm
        /\ UNCHANGED <<hp, tpm, flash, retired, claimed, seq>>
    BY <1>1, <1>3, <1>15, Moves DEF VerifyFails, At, UnsealMayFail, disk, history, ProcessInv
  <2>2. Running /\ hp = Complete(proc.hdr)
    BY <2>1 DEF Running, StoreInv
  <2>3. tpm = {}
    BY <1>2, <2>1, <2>2 DEF RootsOf
  <2>. QED
    BY <1>5, <1>6, <2>1, <2>2, <2>3
<1>16. CASE DestroyKey
  <2>1. /\ proc.pc = "destroy" /\ MovesTo("unmark") /\ tpm' = tpm \ {proc.old}
        /\ UNCHANGED <<hp, flash, retired, claimed, seq>>
    BY <1>16, Moves DEF DestroyKey, disk, history
  <2>2. StaleMastersDead'
    BY <1>2, <2>1 DEF StaleMastersDead
  <2>3. CASE proc.op = "repair"
    <3>1. ~Running /\ ~Running' /\ (RootLasts(hp.hdr) => RootLasts(hp.hdr)')
      BY <2>1, <2>3 DEF Running, MovesTo, RootLasts
    <3>. QED
      BY <1>2, <2>1, <2>2, <3>1 DEF LiveInv, MovesTo
  <2>4. CASE proc.op = "hwshred"
    <3>1. Running /\ Running' /\ proc.old < proc.hdr.key
      BY <2>1, <2>4 DEF Running, MovesTo, KeyInv
    <3>2. RootsOf(proc.hdr)'
      BY <1>2, <1>3, <2>1, <2>4, <3>1 DEF RootsOf, MovesTo
    <3>3. RootLasts(proc.hdr)'
      BY <1>2, <2>1, <3>1 DEF RootLasts, MovesTo
    <3>. QED
      BY <1>2, <2>1, <2>2, <3>1, <3>2, <3>3 DEF LiveInv, MovesTo
  <2>. QED
    BY <1>3, <2>1, <2>3, <2>4 DEF ProcessInv
<1>17. CASE RemoveMarker
  <2>1. /\ proc.pc = "unmark" /\ Ends /\ UNCHANGED <<hp, tpm, flash, retired, seq>>
        /\ \/ proc.op = "hwshred" /\ claimed' = proc.n
           \/ proc.op = "repair" /\ claimed' = claimed
    BY <1>17, Moves DEF RemoveMarker, At
  <2>2. CASE proc.op = "hwshred"
    <3>1. Running /\ hp = Complete(proc.hdr) /\ claimed' = proc.n
      BY <2>1, <2>2 DEF Running, StoreInv
    <3>2. proc.hdr.key = proc.n /\ tpm \subseteq {proc.hdr.key}
      BY <1>2, <2>1, <2>2, <3>1 DEF RootsOf
    <3>3. ASSUME NEW f \in flash, f.by < proc.n
          PROVE  f.hdr.key # NoKey /\ f.hdr.key \notin tpm
      <4>1. f.by \in Nat /\ f.hdr.key \in Nat /\ f.hdr.key <= f.by
        BY <1>2, HeaderParts DEF TypeInv, TypeOK, HistoryOK
      <4>2. f.hdr.key # proc.hdr.key /\ proc.hdr.key # NoKey
        BY <1>3, <3>2, <3>3, <4>1 DEF NoKey
      <4>. QED
        BY <1>2, <3>1, <3>2, <4>2 DEF RootLasts
    <3>4. StaleMastersDead'
      BY <2>1, <3>1, <3>3 DEF StaleMastersDead
    <3>. QED
      BY <1>5, <2>1, <3>1, <3>2, <3>4
  <2>3. CASE proc.op = "repair"
    <3>1. ~Running /\ ~Running' /\ proc'.pc # "wrap" /\ claimed' = claimed
      BY <2>1, <2>3 DEF Ends, Idle, Running
    <3>2. StaleMastersDead' /\ (RootLasts(hp.hdr) => RootLasts(hp.hdr)')
      BY <1>6, <2>1, <3>1 DEF RootLasts
    <3>. QED
      BY <1>2, <2>1, <3>1, <3>2 DEF LiveInv
  <2>. QED
    BY <2>1, <2>2, <2>3
<1>18. CASE TpmClear
  <2>1. tpm' = {} /\ UNCHANGED <<hp, proc, flash, retired, claimed, seq>>
    BY <1>18 DEF TpmClear, disk
  <2>2. StaleMastersDead'
    BY <1>2, <2>1 DEF StaleMastersDead
  <2>3. CASE Running
    <3>1. Running' /\ RootsOf(proc.hdr)' /\ RootLasts(proc.hdr)'
      BY <1>2, <2>1, <2>3 DEF Running, RootsOf, RootLasts
    <3>. QED
      BY <1>2, <2>1, <2>2, <2>3, <3>1 DEF LiveInv
  <2>4. CASE ~Running
    <3>1. ~Running' /\ (RootLasts(hp.hdr) => RootLasts(hp.hdr)')
      BY <2>1, <2>4 DEF Running, RootLasts
    <3>. QED
      BY <1>2, <2>1, <2>2, <2>4, <3>1 DEF LiveInv
  <2>. QED
    BY <2>3, <2>4
<1>19. ~DestroyFails /\ ~DestroyReadsAbsent /\ ~Crash
  BY <1>1 DEF DestroyFails, DestroyReadsAbsent, Crash
<1>. QED
  BY <1>7, <1>8, <1>9, <1>10, <1>11, <1>12, <1>13, <1>14, <1>15, <1>16, <1>17, <1>18, <1>19
     DEF Next, UserStarts, ProgramStep, StoreStep

LEMMA LiveInvariant ==
  ASSUME Env \subseteq {"clear", "unlink", "reinit"}
  PROVE  Spec => [](TypeInv /\ LiveInv)
<1>1. TypeInv /\ HeaderInv /\ StoreInv /\ KeyInv /\ NumberInv /\ LiveInv /\ [Next]_vars => LiveInv'
  BY LiveStep
<1>. QED
  BY <1>1, LiveInit, KeyInvariant, NumberInvariant, PTL DEF Spec

(* A hardware-shred that reported success leaves no older header openable  *)
(* through its TPM key, when no command is interrupted or sees the TPM     *)
(* misbehave and recover is used for what it is meant for.                 *)
THEOREM StaleMastersAlwaysDead ==
  ASSUME Env \subseteq {"clear", "unlink", "reinit"}
  PROVE  Spec => []StaleMastersDead
<1>1. LiveInv => StaleMastersDead
  BY DEF LiveInv
<1>. QED
  BY <1>1, LiveInvariant, PTL
-----------------------------------------------------------------------------
(* The user has the recovery code of the vault's kit.                      *)

LEMMA KitInit == Init => KitInv
  BY DEF Init, KitInv, Running, Idle, NoFile

LEMMA KitStep ==
  ASSUME "crash" \notin Env, "unseal" \notin Env, "destroy" \notin Env,
         TypeInv, HeaderInv, StoreInv, KeyInv, KitInv, [Next]_vars
  PROVE  KitInv'
<1>1. /\ ~Running /\ hp.state = "complete" => Known(hp.hdr)
      /\ Running => Known(proc.hdr) \/ proc.hdr.rec.code = proc.n
      /\ proc.pc = "wrap" => proc.hdr = hp.hdr /\ Known(hp.hdr)
      /\ proc \in Procs /\ ProcessInv
  BY DEF KitInv, TypeInv, TypeOK
(* What is known stays known while the notebook and the lost keys grow.    *)
<1>2. ASSUME notebook \subseteq notebook', lost \subseteq lost'
      PROVE  /\ Known(hp.hdr) /\ hp'.hdr = hp.hdr => Known(hp.hdr)'
             /\ Known(proc.hdr) /\ hp'.hdr = proc.hdr => Known(hp.hdr)'
             /\ Known(proc.hdr) /\ SameRoot(proc.hdr, proc'.hdr) => Known(proc.hdr)'
             /\ Known(hp.hdr) /\ SameRoot(hp.hdr, proc'.hdr) => Known(proc.hdr)'
  BY <1>2 DEF Known, SameRoot
(* The command moves on with its key and kit.                              *)
<1>3. ASSUME Running, Running', SameRoot(proc.hdr, proc'.hdr), proc'.n = proc.n,
             proc'.pc # "wrap", UNCHANGED <<notebook, lost>>
      PROVE  KitInv'
  <2>1. Known(proc.hdr) => Known(proc.hdr)'
    BY <1>2, <1>3
  <2>. QED
    BY <1>1, <1>3, <2>1 DEF KitInv, SameRoot
(* The command ends with its header in place.                              *)
<1>4. ASSUME Ends, hp' = Complete(proc.hdr), Known(hp.hdr)'
      PROVE  KitInv'
  BY <1>4 DEF Ends, Idle, KitInv, Running
<1>5. ASSUME ~Running, ~Running', proc'.pc # "wrap", UNCHANGED <<hp, notebook, lost>>
      PROVE  KitInv'
  BY <1>1, <1>2, <1>5 DEF KitInv
(* The command reports, with its header in place.                          *)
<1>6. ASSUME Running, Report, hp' = Complete(proc.hdr), lost' = lost
      PROVE  Known(hp.hdr)'
  <2>1. /\ hp'.hdr = proc.hdr /\ notebook \subseteq notebook'
        /\ proc.hdr.rec.code = proc.n => proc.hdr.rec.code \in notebook'
    BY <1>6 DEF Report, Complete
  <2>2. CASE Known(proc.hdr)
    BY <1>2, <1>6, <2>1, <2>2
  <2>3. CASE proc.hdr.rec.code = proc.n
    BY <2>1, <2>3 DEF Known
  <2>. QED
    BY <1>1, <1>6, <2>2, <2>3
<1>7. CASE UNCHANGED vars
  BY <1>7 DEF KitInv, vars, disk, history, Running, Known
<1>8. ASSUME NEW p \in Pass, CommandStarts(p)
      PROVE  KitInv'
  <2>1. /\ ~Running /\ Running' /\ proc'.n = seq /\ UNCHANGED <<hp, notebook, lost>>
        /\ proc'.op # "init" => hp.state = "complete"
    BY <1>8, Starts DEF StartFacts, Running
  <2>2. /\ RootEffect(proc'.op, seq, hp.hdr, proc'.hdr)
        /\ proc'.pc = "wrap" => proc'.op = "shred" /\ proc'.hdr = hp.hdr
    BY <1>8, StartsRoot
  <2>3. hp.state = "complete" => Known(hp.hdr) /\ Known(hp.hdr)'
    BY <1>1, <1>2, <2>1
  <2>4. Known(proc.hdr)' \/ proc'.hdr.rec.code = seq
    <3>1. CASE proc'.hdr.rec = NoKit
      BY <3>1 DEF Known
    <3>2. CASE proc'.hdr.rec = Escrow(seq)
      BY <3>2 DEF Escrow
    <3>3. CASE SameRoot(hp.hdr, proc'.hdr) /\ proc'.op # "init"
      BY <1>2, <2>1, <2>3, <3>3
    <3>. QED
      BY <2>2, <3>1, <3>2, <3>3 DEF RootEffect, Mints
  <2>. QED
    BY <2>1, <2>2, <2>3, <2>4 DEF KitInv
<1>9. CASE StartRepair
  BY <1>5, <1>9 DEF StartRepair, Running, Idle, disk, history
<1>10. CASE Wrap
  <2>1. /\ proc.pc = "wrap" /\ UNCHANGED <<notebook, lost>>
        /\ proc'.pc = "create" /\ proc'.op = proc.op /\ proc'.n = proc.n
        /\ proc'.hdr = Rotated(proc.hdr, proc.pass, proc.drop, proc.n)
    BY <1>10, WrapMoves DEF Wrap, At, disk, history
  <2>2. Running /\ Running' /\ proc.hdr \in Headers
    BY <1>1, <2>1 DEF ProcessInv, Running
  <2>3. SameRoot(proc.hdr, proc'.hdr)
    BY <2>1, <2>2, RotatedParts DEF SameRoot
  <2>. QED
    BY <1>3, <2>1, <2>2, <2>3
<1>11. CASE WrapFails
  <2>1. proc.pc = "wrap" /\ Ends /\ UNCHANGED <<hp, notebook, lost>>
    BY <1>11, Moves DEF WrapFails, At, disk, history
  <2>2. Known(hp.hdr)'
    BY <1>1, <1>2, <2>1
  <2>. QED
    BY <2>1, <2>2 DEF Ends, Idle, KitInv, Running
<1>12. CASE HwDropBlob \/ CreateTmp \/ WriteTmp \/ OverwriteHeader \/ RemoveHeader
            \/ Verify \/ CreateMarker \/ WriteMarker
  <2>1. UNCHANGED <<notebook, lost>>
    BY <1>12 DEF HwDropBlob, CreateTmp, WriteTmp, OverwriteHeader, RemoveHeader, Verify,
                 CreateMarker, WriteMarker, disk, history
  <2>2. /\ proc.pc \in {"drop", "create", "write", "overwrite", "remove", "verify", "mark",
                        "write_marker"}
        /\ \E pc \in {"create", "write", "overwrite", "remove", "rename", "mark",
                      "write_marker", "destroy"} : MovesTo(pc)
    BY <1>12, Moves
  <2>3. Running /\ Running' /\ SameRoot(proc.hdr, proc'.hdr)
    BY <1>1, <2>2 DEF ProcessInv, Running, MovesTo, SameRoot
  <2>. QED
    BY <1>3, <2>1, <2>2, <2>3 DEF MovesTo
<1>13. CASE RenameTmp
  <2>1. /\ lost' = lost /\ hp' = Complete(proc.hdr) /\ proc.pc = "rename"
        /\ Running
    BY <1>1, <1>13 DEF RenameTmp, At, StoreInv, ProcessInv, Running
  <2>2. CASE proc.op = "hwshred"
    <3>1. notebook' = notebook /\ MovesTo("verify")
      BY <1>13, <2>2, GoToMoves DEF RenameTmp, Pcs
    <3>2. Running' /\ SameRoot(proc.hdr, proc'.hdr)
      BY <2>1, <3>1 DEF MovesTo, Running, SameRoot
    <3>. QED
      BY <1>3, <2>1, <3>1, <3>2 DEF MovesTo
  <2>3. CASE proc.op # "hwshred"
    <3>1. Report /\ Ends
      BY <1>13, <2>3 DEF RenameTmp, Finish, Ends
    <3>. QED
      BY <1>4, <1>6, <2>1, <3>1
  <2>. QED
    BY <2>2, <2>3
<1>14. CASE VerifyFails
  <2>1. /\ proc.pc = "verify" /\ proc.op = "hwshred" /\ Ends /\ UNCHANGED <<hp, notebook, lost>>
        /\ proc.hdr.key # NoKey /\ proc.hdr.key \notin tpm
    BY <1>1, <1>14, Moves DEF VerifyFails, At, UnsealMayFail, disk, history, ProcessInv
  <2>2. Running /\ hp = Complete(proc.hdr)
    BY <2>1 DEF Running, StoreInv
  <2>3. hp'.hdr.key \in lost'
    BY <2>1, <2>2 DEF KeyInv, Needs, Complete
  <2>. QED
    BY <1>4, <2>1, <2>2, <2>3 DEF Known
<1>15. CASE DestroyKey \/ DestroyReadsAbsent
  <2>1. proc.pc = "destroy" /\ MovesTo("unmark") /\ UNCHANGED <<hp, notebook, lost>>
    BY <1>15, Moves DEF DestroyKey, DestroyReadsAbsent, disk, history
  <2>2. (Running <=> Running') /\ SameRoot(proc.hdr, proc'.hdr) /\ proc'.pc # "wrap"
    BY <2>1 DEF MovesTo, Running, SameRoot
  <2>. QED
    BY <1>3, <1>5, <2>1, <2>2 DEF MovesTo
<1>16. CASE RemoveMarker
  <2>1. /\ proc.pc = "unmark" /\ Ends /\ UNCHANGED <<hp, lost>>
        /\ \/ proc.op = "hwshred" /\ Report
           \/ proc.op = "repair" /\ notebook' = notebook
    BY <1>16, Moves DEF RemoveMarker, At
  <2>2. CASE proc.op = "hwshred"
    <3>1. Running /\ hp = Complete(proc.hdr)
      BY <2>1, <2>2 DEF Running, StoreInv
    <3>. QED
      BY <1>4, <1>6, <2>1, <2>2, <3>1
  <2>3. CASE proc.op = "repair"
    BY <1>5, <2>1, <2>3 DEF Ends, Idle, Running
  <2>. QED
    BY <2>1, <2>2, <2>3
<1>17. CASE TpmClear
  <2>1. UNCHANGED <<hp, proc, notebook>> /\ lost \subseteq lost'
    BY <1>17 DEF TpmClear, disk
  <2>2. /\ Known(hp.hdr) => Known(hp.hdr)'
        /\ Known(proc.hdr) => Known(proc.hdr)'
    BY <1>2, <2>1 DEF SameRoot
  <2>3. Running' <=> Running
    BY <2>1 DEF Running
  <2>. QED
    BY <1>1, <2>1, <2>2, <2>3 DEF KitInv
<1>18. ~DestroyFails /\ ~Crash
  BY DEF DestroyFails, Crash
<1>. QED
  BY <1>7, <1>8, <1>9, <1>10, <1>11, <1>12, <1>13, <1>14, <1>15, <1>16, <1>17, <1>18
     DEF Next, UserStarts, ProgramStep, StoreStep

(* The kit the vault reports as present can be used: its code was shown,   *)
(* when no command is interrupted and the TPM gives what it still holds.   *)
THEOREM KitCodeAlwaysKnown ==
  ASSUME "crash" \notin Env, "unseal" \notin Env, "destroy" \notin Env
  PROVE  Spec => []KitCodeIsKnown
<1>1. KitInv => KitCodeIsKnown
  BY DEF KitInv, KitCodeIsKnown, Known, At, Running
<1>2. TypeInv /\ HeaderInv /\ StoreInv /\ KeyInv /\ KitInv /\ [Next]_vars => KitInv'
  BY KitStep
<1>. QED
  BY <1>1, <1>2, KitInit, KeyInvariant, PTL DEF Spec
=============================================================================
