-------------------------- MODULE VaultRaceProofs --------------------------
(***************************************************************************)
(* Theorems about commands that overlap on one vault directory, for any    *)
(* number of processes and commands, any passphrases and every Env: the    *)
(* newest hardware key and the blobs of wanted entries survive, a command  *)
(* that nobody overlaps finds and replaces the header it loaded, and what  *)
(* was reported erased comes back only through an overlapped command.      *)
(***************************************************************************)
EXTENDS VaultRace, VaultHeaderProofs, FiniteSetTheorems

Contents == [state : {"empty", "damaged", "complete"}, hdr : HeadersOrNull]

Processes ==
  [op : Ops, pc : Pcs, n : Nat, pass : Pass \union {"none"}, drop : Nat, old : Nat,
   fd : Nodes \union {NoFile}, hdr : HeadersOrNull, alone : BOOLEAN]

Works(p) == pr[p].op \notin {"none", "repair"}

Storing == {"create", "write", "exists", "overwrite", "remove", "rename"}

(* Which command gets to which step.                                       *)
OpFits(op, pc) ==
  \/ op = "none" /\ pc = "idle"
  \/ op = "init" /\ pc \in {"seal"} \union Storing
  \/ op = "add" /\ pc \in {"blob"} \union Storing
  \/ op = "open" /\ pc = "read"
  \/ op = "shred" /\ pc \in {"drop", "wrap"} \union Storing
  \/ op = "rekey" /\ pc \in Storing
  \/ op = "hwshred" /\ pc \in {"seal", "drop", "verify", "mark", "destroy", "unmark"} \union Storing
  \/ op = "repair" /\ pc \in {"destroy", "unmark"}

(* A command at work has a whole header in memory.                         *)
WorkInv(p) ==
  /\ OpFits(pr[p].op, pr[p].pc)
  /\ At(p, "write") <=> pr[p].fd # NoFile
  /\ Works(p) => /\ pr[p].hdr \in Headers /\ Consistent(pr[p].hdr)
                 /\ pr[p].n \in 1..(seq - 1) /\ pr[p].pass \in Pass

(* What a file holds, if it can be read, is a header that was written.     *)
FileInv ==
  /\ hp \in Nodes \union {NoFile} /\ tmp \in Nodes \union {NoFile}
  /\ node \in [Nodes -> Contents]
  /\ \A f \in Nodes : node[f].state = "complete" => node[f].hdr \in flash
  /\ \A h \in flash : h \in Headers /\ Consistent(h)

NumbersInv ==
  /\ pending \in Nat /\ blobs \subseteq Nat /\ tpm \subseteq Nat /\ seq \in Nat \ {0}
  /\ asked \subseteq Nat /\ erased \subseteq Nat

ProcessInv == pr \in [Procs -> Processes] /\ \A p \in Procs : WorkInv(p)

RaceInv == FileInv /\ NumbersInv /\ ProcessInv

LEMMA RaceInvTypeOK == RaceInv => TypeOK
  BY DEF RaceInv, FileInv, NumbersInv, ProcessInv, WorkInv, TypeOK, Contents, Processes

-----------------------------------------------------------------------------
(* What a step makes of the processes.                                     *)

(* The process p is at pc, with the header h and the file f open.          *)
Moved(p, pc, h, f) ==
  /\ pr' \in [Procs -> Processes]
  /\ \A q \in Procs : q # p => pr'[q] = pr[q]
  /\ pr'[p].op = pr[p].op /\ pr'[p].n = pr[p].n /\ pr'[p].pass = pr[p].pass
  /\ pr'[p].drop = pr[p].drop /\ pr'[p].old = pr[p].old
  /\ pr'[p].pc = pc /\ pr'[p].hdr = h /\ pr'[p].fd = f /\ pr'[p].alone = pr[p].alone

Returned(p) ==
  /\ pr' \in [Procs -> Processes]
  /\ \A q \in Procs : q # p => pr'[q] = pr[q]
  /\ pr'[p].op = "none" /\ pr'[p].pc = "idle" /\ pr'[p].fd = NoFile

(* p has begun; of the others only alone may have changed.                 *)
Began(p, op, pc, n, pass, drop, old, h) ==
  /\ pr[p].pc = "idle"
  /\ pr' \in [Procs -> Processes]
  /\ \A q \in Procs : q # p =>
       /\ pr'[q].op = pr[q].op /\ pr'[q].pc = pr[q].pc /\ pr'[q].n = pr[q].n
       /\ pr'[q].pass = pr[q].pass /\ pr'[q].drop = pr[q].drop /\ pr'[q].old = pr[q].old
       /\ pr'[q].fd = pr[q].fd /\ pr'[q].hdr = pr[q].hdr
       /\ pr'[q].alone => pr[q].pc = "idle"
  /\ pr'[p].op = op /\ pr'[p].pc = pc /\ pr'[p].n = n /\ pr'[p].pass = pass
  /\ pr'[p].drop = drop /\ pr'[p].old = old /\ pr'[p].hdr = h /\ pr'[p].fd = NoFile
  /\ pr'[p].alone => \A q \in Procs : q # p => pr[q].pc = "idle"

LEMMA IdleType == /\ Idle \in Processes /\ Idle.op = "none" /\ Idle.pc = "idle" /\ Idle.fd = NoFile
  BY DEF Idle, Processes, Ops, Pcs, HeadersOrNull, NoKey

LEMMA GoToMoves ==
  ASSUME pr \in [Procs -> Processes], NEW p \in Procs, NEW pc \in Pcs, GoTo(p, pc)
  PROVE  Moved(p, pc, pr[p].hdr, pr[p].fd)
  BY DEF GoTo, Moved, Processes

LEMMA HeaderMoves ==
  ASSUME pr \in [Procs -> Processes], NEW p \in Procs, NEW pc \in Pcs, NEW h \in Headers,
         pr' = [pr EXCEPT ![p].pc = pc, ![p].hdr = h]
  PROVE  Moved(p, pc, h, pr[p].fd)
  BY DEF Moved, Processes, HeadersOrNull

LEMMA FileMoves ==
  ASSUME pr \in [Procs -> Processes], NEW p \in Procs, NEW pc \in Pcs, NEW f \in Nodes \union {NoFile},
         pr' = [pr EXCEPT ![p].pc = pc, ![p].fd = f]
  PROVE  Moved(p, pc, pr[p].hdr, f)
  BY DEF Moved, Processes

LEMMA ReturnMoves ==
  ASSUME pr \in [Procs -> Processes], NEW p \in Procs, Return(p)
  PROVE  Returned(p)
  BY IdleType DEF Return, Returned

LEMMA StartMoves ==
  ASSUME pr \in [Procs -> Processes], NEW p \in Procs, pr[p].pc = "idle",
         NEW op \in Ops, NEW pc \in Pcs, NEW n \in Nat, NEW pass \in Pass \union {"none"},
         NEW drop \in Nat, NEW old \in Nat, NEW h \in HeadersOrNull,
         NEW rec \in Processes, Starts(p, rec),
         rec.op = op, rec.pc = pc, rec.n = n, rec.pass = pass, rec.drop = drop,
         rec.old = old, rec.hdr = h, rec.fd = NoFile
  PROVE  Began(p, op, pc, n, pass, drop, old, h)
<1>. DEFINE Set(r, b) == [r EXCEPT !.alone = b]
            first == \A r \in Procs \ {p} : At(r, "idle")
            over(q) == At(q, "idle")
<1>2. ASSUME NEW r \in Processes, NEW b \in BOOLEAN
      PROVE  /\ Set(r, b) \in Processes
             /\ Set(r, b).op = r.op /\ Set(r, b).pc = r.pc /\ Set(r, b).n = r.n
             /\ Set(r, b).pass = r.pass /\ Set(r, b).drop = r.drop /\ Set(r, b).old = r.old
             /\ Set(r, b).fd = r.fd /\ Set(r, b).hdr = r.hdr /\ Set(r, b).alone = b
  BY DEF Processes
<1>3. /\ first \in BOOLEAN /\ (first => \A q \in Procs : q # p => pr[q].pc = "idle")
      /\ \A q \in Procs : over(q) \in BOOLEAN /\ (over(q) => pr[q].pc = "idle")
  BY DEF At
<1>4. pr' = [q \in Procs |-> IF q = p THEN Set(rec, first) ELSE Set(pr[q], over(q))]
  BY Zenon DEF Starts
<1>. HIDE DEF Set, first, over
<1>6. \A q \in Procs : pr'[q] = IF q = p THEN Set(rec, first) ELSE Set(pr[q], over(q))
  BY <1>4
<1>7. pr' \in [Procs -> Processes]
  BY <1>2, <1>3, <1>4
<1>8. /\ pr'[p].op = op /\ pr'[p].pc = pc /\ pr'[p].n = n /\ pr'[p].pass = pass
      /\ pr'[p].drop = drop /\ pr'[p].old = old /\ pr'[p].hdr = h /\ pr'[p].fd = NoFile
      /\ pr'[p].alone = first
  BY <1>2, <1>3, <1>6
<1>9. ASSUME NEW q \in Procs, q # p
      PROVE  /\ pr'[q].op = pr[q].op /\ pr'[q].pc = pr[q].pc /\ pr'[q].n = pr[q].n
             /\ pr'[q].pass = pr[q].pass /\ pr'[q].drop = pr[q].drop /\ pr'[q].old = pr[q].old
             /\ pr'[q].fd = pr[q].fd /\ pr'[q].hdr = pr[q].hdr
             /\ pr'[q].alone = over(q)
  BY <1>2, <1>3, <1>6, <1>9
<1>. QED
  BY <1>3, <1>7, <1>8, <1>9 DEF Began
-----------------------------------------------------------------------------
(* Files.                                                                  *)

LEMMA NodeCount ==
  /\ Cardinality(Procs) \in Nat /\ IsFiniteSet(Nodes)
  /\ Cardinality(Nodes) = Cardinality(Procs) + 2
<1>1. Cardinality(Procs) \in Nat
  BY RaceBoundAssumption, FS_CardinalityType
<1>. QED
  BY <1>1, FS_Interval DEF Nodes

(* There is always a new file for header.json.tmp.                         *)
LEMMA FreeNode == \E f \in Nodes : f # hp /\ \A q \in Procs : pr[q].fd # f
<1>. DEFINE open == {pr[q].fd : q \in Procs}
            inUse == open \union {hp}
<1>1. IsFiniteSet(open) /\ Cardinality(open) <= Cardinality(Procs) /\ Cardinality(open) \in Nat
  <2>1. [q \in Procs |-> pr[q].fd] \in Surjection(Procs, open)
    BY DEF Surjection
  <2>. HIDE DEF open
  <2>2. IsFiniteSet(open) /\ Cardinality(open) <= Cardinality(Procs)
    BY <2>1, RaceBoundAssumption, FS_Surjection
  <2>. QED
    BY <2>2, FS_CardinalityType
<1>. HIDE DEF open
<1>2. IsFiniteSet(inUse) /\ Cardinality(inUse) <= Cardinality(open) + 1
  <2>1. /\ IsFiniteSet(open \union {hp})
        /\ Cardinality(open \union {hp}) \in {Cardinality(open), Cardinality(open) + 1}
    BY <1>1, FS_AddElement
  <2>. QED
    BY <1>1, <2>1
<1>3. Cardinality(inUse) \in Nat
  BY <1>2, FS_CardinalityType
<1>4. ~(Nodes \subseteq inUse)
  <2>1. SUFFICES ASSUME Nodes \in SUBSET inUse PROVE FALSE
    OBVIOUS
  <2>2. Cardinality(Nodes) <= Cardinality(inUse)
    BY <1>2, <2>1, FS_Subset
  <2>. QED
    BY <1>1, <1>2, <1>3, <2>2, NodeCount
<1>. QED
  BY <1>4 DEF open

LEMMA ContentTypes ==
  /\ Empty \in Contents /\ Empty.state = "empty"
  /\ Damaged \in Contents /\ Damaged.state = "damaged"
  /\ \A h \in Headers : Complete(h) \in Contents /\ Complete(h).hdr = h
  BY DEF Empty, Damaged, Complete, Contents, HeadersOrNull

(* Headers go to disk whole, and a file that has lost its name is gone.    *)
LEMMA FilesNext ==
  ASSUME hp' \in Nodes \union {NoFile}, tmp' \in Nodes \union {NoFile},
         NEW contents \in [Nodes -> Contents],
         \A f \in Nodes : contents[f].state = "complete" => contents[f].hdr \in flash',
         node' = contents \/ node' = Kept(contents),
         \A h \in flash' : h \in Headers /\ Consistent(h)
  PROVE  FileInv'
<1>1. \A f \in Nodes : node'[f] \in {contents[f], Empty}
  BY DEF Kept
<1>2. node' \in [Nodes -> Contents]
  <2>1. node' = [f \in Nodes |-> node'[f]]
    BY DEF Kept
  <2>. QED
    BY <1>1, <2>1, ContentTypes
<1>. QED
  BY <1>1, <1>2, ContentTypes DEF FileInv

(* The file f has got the contents c.                                      *)
LEMMA FileChanged ==
  ASSUME FileInv, hp' \in Nodes \union {NoFile}, tmp' \in Nodes \union {NoFile},
         NEW f \in Nodes, NEW c \in Contents, c.state = "complete" => c.hdr \in flash',
         node' = [node EXCEPT ![f] = c] \/ node' = Kept([node EXCEPT ![f] = c]),
         flash \subseteq flash', \A h \in flash' : h \in Headers /\ Consistent(h)
  PROVE  FileInv'
<1>. DEFINE contents == [node EXCEPT ![f] = c]
<1>1. contents \in [Nodes -> Contents]
  BY DEF FileInv
<1>2. \A g \in Nodes : contents[g].state = "complete" => contents[g].hdr \in flash'
  BY DEF FileInv
<1>. QED
  BY <1>1, <1>2, FilesNext

LEMMA FileStep ==
  ASSUME RaceInv, NEW p \in Procs, Step(p) \/ Crash(p)
  PROVE  FileInv'
<1>1. /\ FileInv /\ pr \in [Procs -> Processes] /\ WorkInv(p)
      /\ hp \in Nodes \union {NoFile} /\ tmp \in Nodes \union {NoFile} /\ NoFile \notin Nodes
      /\ node \in [Nodes -> Contents]
      /\ \A h \in flash : h \in Headers /\ Consistent(h)
  BY DEF RaceInv, FileInv, ProcessInv, Nodes, NoFile
<1>2. CASE UNCHANGED <<files, flash>>
  BY <1>1, <1>2 DEF FileInv, files
<1>3. CASE WriteBlob(p) \/ ReadBlob(p) \/ SealKey(p) \/ DropBlob(p) \/ Wrap(p) \/ Verify(p) \/ Mark(p)
           \/ DestroyKey(p) \/ RemoveMarker(p) \/ HeaderExists(p) \/ RenameFails(p)
  BY <1>2, <1>3 DEF WriteBlob, ReadBlob, SealKey, DropBlob, Wrap, Verify, Mark, DestroyKey, RemoveMarker,
     HeaderExists, RenameFails, history
<1>4. CASE CreateTmp(p)
  <2>1. tmp' \in Nodes /\ node' = [node EXCEPT ![tmp'] = Empty] /\ UNCHANGED <<hp, flash>>
    BY <1>1, <1>4, FreeNode DEF CreateTmp, history
  <2>. QED
    BY <1>1, <2>1, ContentTypes, FileChanged
<1>5. CASE WriteTmp(p)
  <2>1. /\ pr[p].fd \in Nodes /\ pr[p].hdr \in Headers /\ Consistent(pr[p].hdr)
        /\ UNCHANGED <<hp, tmp>> /\ flash' = flash \union {pr[p].hdr}
    BY <1>1, <1>5 DEF WriteTmp, WorkInv, OpFits, Works, At, Storing, Processes
  <2>2. PICK c \in Overlaid(node[pr[p].fd], pr[p].hdr) : node' = Kept([node EXCEPT ![pr[p].fd] = c])
    BY <1>5 DEF WriteTmp
  <2>3. c \in Contents /\ (c.state = "complete" => c.hdr \in flash')
    BY <2>1, <2>2, ContentTypes DEF Overlaid
  <2>. QED
    BY <1>1, <2>1, <2>2, <2>3, FileChanged
<1>6. CASE OverwriteHeader(p)
  <2>1. UNCHANGED <<hp, tmp, flash>>
    BY <1>6 DEF OverwriteHeader, history
  <2>4. node' = node \/ (hp \in Nodes /\ node' = [node EXCEPT ![hp] = Damaged])
    BY <1>1, <1>6 DEF OverwriteHeader
  <2>2. CASE node' = node
    BY <1>2, <2>1, <2>2 DEF files
  <2>3. CASE hp \in Nodes /\ node' = [node EXCEPT ![hp] = Damaged]
    BY <1>1, <2>1, <2>3, ContentTypes, FileChanged
  <2>. QED
    BY <2>2, <2>3, <2>4
<1>7. CASE RemoveHeader(p) \/ RenameTmp(p) \/ Crash(p)
  <2>1. /\ hp' \in Nodes \union {NoFile} /\ tmp' \in Nodes \union {NoFile}
        /\ node' = Kept(node) /\ flash' = flash
    BY <1>1, <1>7 DEF RemoveHeader, RenameTmp, Crash, history
  <2>2. \A f \in Nodes : node[f].state = "complete" => node[f].hdr \in flash'
    BY <1>1, <2>1 DEF FileInv
  <2>. QED
    BY <1>1, <2>1, <2>2, FilesNext
<1>. QED
  BY <1>3, <1>4, <1>5, <1>6, <1>7 DEF Step, Store
-----------------------------------------------------------------------------
(* What each step does but for the files.                                  *)

Rest == UNCHANGED <<pending, blobs, tpm, seq, history>>

(* The header hardware_shred builds once it has its new key.               *)
NewKeyHeader(p) == HwShredded(pr[p].hdr, pr[p].pass, pr[p].drop, FALSE, pr[p].n)

LEMMA NewKeyHeaderGood ==
  ASSUME NEW p \in Procs, pr[p].hdr \in Headers, pr[p].pass \in Pass, pr[p].drop \in Nat,
         pr[p].n \in Nat \ {0}
  PROVE  /\ NewKeyHeader(p) \in Headers /\ Consistent(NewKeyHeader(p))
         /\ NewKeyHeader(p).key = pr[p].n
         /\ Ids(NewKeyHeader(p)) = Ids(pr[p].hdr) \ {pr[p].drop}
<1>. DEFINE kit == IF FALSE \/ pr[p].hdr.rec = NoKit THEN NoKit ELSE Escrow(pr[p].n)
            entries == Resealed(pr[p].hdr, pr[p].drop, pr[p].n)
<1>1. NewKeyHeader(p) = SealedHeader(pr[p].n, pr[p].hdr.salt, kit, pr[p].pass, pr[p].n, entries)
  BY DEF NewKeyHeader, HwShredded
<1>2. kit \in [code : Nat, rwk : Nat] /\ (kit # NoKit => kit.rwk = pr[p].n /\ pr[p].n # NoKey)
  BY KitType DEF NoKey
<1>3. /\ entries \in SUBSET [id : Nat, meta : Nat] /\ \A e \in entries : e.meta = pr[p].n
      /\ {e.id : e \in entries} = Ids(pr[p].hdr) \ {pr[p].drop}
  BY ResealedEntries, ResealedIds
<1>4. pr[p].hdr.salt \in Nat
  BY HeaderParts
<1>. HIDE DEF kit, entries
<1>5. NewKeyHeader(p).entries = entries
  BY <1>1 DEF SealedHeader
<1>. QED
  BY <1>1, <1>2, <1>3, <1>4, <1>5, SealedHeaderGood DEF Ids

LEMMA BeforeStoreEffect ==
  ASSUME RaceInv, NEW p \in Procs
  PROVE  /\ WriteBlob(p) =>
              /\ pr[p].op = "add" /\ pr[p].pc = "blob"
              /\ Moved(p, "create", Added(pr[p].hdr, pr[p].n), pr[p].fd)
              /\ blobs' = blobs \union {pr[p].n} /\ UNCHANGED <<pending, tpm, seq, history>>
         /\ SealKey(p) =>
              /\ pr[p].pc = "seal" /\ UNCHANGED <<pending, blobs, seq, history>>
              /\ tpm' \in {tpm, tpm \union {pr[p].n}}
              /\ \/ /\ pr[p].op = "init" /\ tpm' = tpm \union {pr[p].n}
                    /\ Moved(p, "create", pr[p].hdr, pr[p].fd)
                 \/ /\ pr[p].op = "hwshred" /\ tpm' = tpm \union {pr[p].n}
                    /\ Moved(p, IF pr[p].drop = 0 THEN "create" ELSE "drop",
                             NewKeyHeader(p), pr[p].fd)
                 \/ Returned(p)
         /\ ReadBlob(p) => pr[p].pc = "read" /\ Returned(p) /\ Rest
         /\ DropBlob(p) =>
              /\ pr[p].pc = "drop" /\ blobs' = blobs \ {pr[p].drop}
              /\ UNCHANGED <<pending, tpm, seq, history>>
              /\ Moved(p, IF pr[p].op = "shred" THEN "wrap" ELSE "create", pr[p].hdr, pr[p].fd)
         /\ Wrap(p) =>
              /\ pr[p].pc = "wrap" /\ Rest
              /\ \/ Moved(p, "create", Rotated(pr[p].hdr, pr[p].pass, pr[p].drop, pr[p].n), pr[p].fd)
                 \/ Returned(p)
<1>1. pr \in [Procs -> Processes] /\ WorkInv(p) /\ seq \in Nat \ {0} /\ pr[p].drop \in Nat
  BY DEF RaceInv, ProcessInv, NumbersInv, Processes
<1>2. ASSUME pr[p].op \in {"init", "add", "shred", "hwshred"}
      PROVE  /\ pr[p].hdr \in Headers /\ Consistent(pr[p].hdr) /\ pr[p].n \in Nat \ {0}
             /\ pr[p].pass \in Pass
  BY <1>1, <1>2 DEF WorkInv, Works
<1>3. {"create", "drop", "wrap"} \subseteq Pcs
  BY DEF Pcs
<1>4. Return(p) => Returned(p)
  BY <1>1, ReturnMoves
<1>5. ASSUME WriteBlob(p)
      PROVE  /\ pr[p].op = "add" /\ pr[p].pc = "blob"
             /\ Moved(p, "create", Added(pr[p].hdr, pr[p].n), pr[p].fd)
             /\ blobs' = blobs \union {pr[p].n} /\ UNCHANGED <<pending, tpm, seq, history>>
  <2>1. pr[p].op = "add" /\ pr[p].pc = "blob"
    BY <1>1, <1>5 DEF WriteBlob, At, WorkInv, OpFits, Storing
  <2>2. Added(pr[p].hdr, pr[p].n) \in Headers
    BY <1>2, <2>1, AddedGood
  <2>3. pr' = [pr EXCEPT ![p].pc = "create", ![p].hdr = Added(pr[p].hdr, pr[p].n)]
    BY <1>1, <1>5 DEF WriteBlob, Processes
  <2>4. Moved(p, "create", Added(pr[p].hdr, pr[p].n), pr[p].fd)
    BY <1>1, <1>3, <2>2, <2>3, HeaderMoves
  <2>. QED
    BY <1>5, <2>1, <2>4 DEF WriteBlob
<1>6. ASSUME SealKey(p)
      PROVE  /\ pr[p].pc = "seal" /\ UNCHANGED <<pending, blobs, seq, history>>
             /\ tpm' \in {tpm, tpm \union {pr[p].n}}
             /\ \/ /\ pr[p].op = "init" /\ tpm' = tpm \union {pr[p].n}
                   /\ Moved(p, "create", pr[p].hdr, pr[p].fd)
                \/ /\ pr[p].op = "hwshred" /\ tpm' = tpm \union {pr[p].n}
                   /\ Moved(p, IF pr[p].drop = 0 THEN "create" ELSE "drop",
                            NewKeyHeader(p), pr[p].fd)
                \/ Returned(p)
  <2>. DEFINE k == NewKeyHeader(p)
              next == IF pr[p].drop = 0 THEN "create" ELSE "drop"
  <2>1. pr[p].pc = "seal" /\ UNCHANGED <<pending, blobs, seq, history>>
    BY <1>6 DEF SealKey, At
  <2>2. PICK r \in SealOutcomes(tpm, pr[p].n, Faulty) :
          /\ tpm' = r.keys
          /\ \/ r.ok /\ pr[p].op = "init" /\ GoTo(p, "create")
             \/ /\ r.ok /\ pr[p].op = "hwshred"
                /\ pr' = [pr EXCEPT ![p].pc = next, ![p].hdr = HwShredded(@, pr[p].pass, pr[p].drop, FALSE, pr[p].n)]
             \/ ~r.ok /\ Return(p)
    BY <1>6 DEF SealKey
  <2>3. r.keys \in {tpm, tpm \union {pr[p].n}} /\ (r.ok => r.keys = tpm \union {pr[p].n})
    BY <2>2 DEF SealOutcomes, Ok, Err
  <2>4. pr[p].op = "hwshred" => k \in Headers /\ next \in Pcs
    BY <1>1, <1>2, <1>3, NewKeyHeaderGood
  <2>5. CASE r.ok /\ pr[p].op = "init" /\ GoTo(p, "create")
    BY <1>1, <1>3, <2>1, <2>2, <2>3, <2>5, GoToMoves
  <2>6. CASE /\ r.ok /\ pr[p].op = "hwshred"
             /\ pr' = [pr EXCEPT ![p].pc = next, ![p].hdr = HwShredded(@, pr[p].pass, pr[p].drop, FALSE, pr[p].n)]
    <3>1. pr' = [pr EXCEPT ![p].pc = next, ![p].hdr = k]
      BY <1>1, <2>6 DEF Processes, NewKeyHeader
    <3>. HIDE DEF k, next
    <3>2. Moved(p, next, k, pr[p].fd)
      BY <1>1, <2>4, <2>6, <3>1, HeaderMoves
    <3>. QED
      BY <2>1, <2>2, <2>3, <2>6, <3>2 DEF k, next
  <2>7. CASE ~r.ok /\ Return(p)
    BY <1>4, <2>1, <2>2, <2>3, <2>7
  <2>. QED
    BY <2>2, <2>5, <2>6, <2>7
<1>7. ReadBlob(p) => pr[p].pc = "read" /\ Returned(p) /\ Rest
  BY <1>4 DEF ReadBlob, At, Rest
<1>8. ASSUME DropBlob(p)
      PROVE  /\ pr[p].pc = "drop" /\ blobs' = blobs \ {pr[p].drop}
             /\ UNCHANGED <<pending, tpm, seq, history>>
             /\ Moved(p, IF pr[p].op = "shred" THEN "wrap" ELSE "create", pr[p].hdr, pr[p].fd)
  BY <1>1, <1>3, <1>8, GoToMoves DEF DropBlob, At
<1>9. ASSUME Wrap(p)
      PROVE  /\ pr[p].pc = "wrap" /\ Rest
             /\ \/ Moved(p, "create", Rotated(pr[p].hdr, pr[p].pass, pr[p].drop, pr[p].n), pr[p].fd)
                \/ Returned(p)
  <2>. DEFINE h == Rotated(pr[p].hdr, pr[p].pass, pr[p].drop, pr[p].n)
  <2>1. pr[p].pc = "wrap" /\ pr[p].op = "shred" /\ Rest
    BY <1>1, <1>9 DEF Wrap, At, WorkInv, OpFits, Storing, Rest
  <2>2. h \in Headers
    BY <1>1, <1>2, <2>1, RotatedGood
  <2>3. Return(p) \/ pr' = [pr EXCEPT ![p].pc = "create", ![p].hdr = h]
    BY <1>1, <1>9 DEF Wrap, Processes
  <2>. HIDE DEF h
  <2>4. pr' = [pr EXCEPT ![p].pc = "create", ![p].hdr = h] => Moved(p, "create", h, pr[p].fd)
    BY <1>1, <1>3, <2>2, HeaderMoves
  <2>. QED
    BY <1>4, <2>1, <2>3, <2>4 DEF h
<1>. QED
  BY <1>5, <1>6, <1>7, <1>8, <1>9

LEMMA StoreEffect ==
  ASSUME RaceInv, NEW p \in Procs
  PROVE  /\ CreateTmp(p) =>
              /\ pr[p].pc = "create" /\ Rest
              /\ \E f \in Nodes : Moved(p, "write", pr[p].hdr, f)
         /\ WriteTmp(p) =>
              /\ pr[p].pc = "write" /\ Moved(p, "exists", pr[p].hdr, NoFile)
              /\ flash' = flash \union {pr[p].hdr} /\ UNCHANGED <<pending, blobs, tpm, seq, asked, erased>>
         /\ HeaderExists(p) =>
              /\ pr[p].pc = "exists" /\ Rest
              /\ \/ Moved(p, "rename", pr[p].hdr, pr[p].fd) \/ Moved(p, "overwrite", pr[p].hdr, pr[p].fd)
         /\ OverwriteHeader(p) =>
              pr[p].pc = "overwrite" /\ Rest /\ Moved(p, "remove", pr[p].hdr, pr[p].fd)
         /\ RemoveHeader(p) =>
              pr[p].pc = "remove" /\ Rest /\ Moved(p, "rename", pr[p].hdr, pr[p].fd)
         /\ RenameTmp(p) =>
              /\ pr[p].pc = "rename" /\ UNCHANGED <<pending, blobs, tpm, seq, flash, asked>>
              /\ \/ /\ pr[p].op = "hwshred" /\ erased' = erased
                    /\ Moved(p, "verify", pr[p].hdr, pr[p].fd)
                 \/ Returned(p) /\ erased' = erased \union ({pr[p].drop} \ {0})
         /\ RenameFails(p) => pr[p].pc = "rename" /\ Rest /\ Returned(p)
<1>1. pr \in [Procs -> Processes] /\ tmp \in Nodes \union {NoFile}
  BY DEF RaceInv, ProcessInv, FileInv
<1>2. {"write", "exists", "rename", "overwrite", "remove", "verify"} \subseteq Pcs
  BY DEF Pcs
<1>3. Return(p) => Returned(p)
  BY <1>1, ReturnMoves
<1>4. \A pc \in Pcs : GoTo(p, pc) => Moved(p, pc, pr[p].hdr, pr[p].fd)
  BY <1>1, GoToMoves
<1>5. CreateTmp(p) => /\ pr[p].pc = "create" /\ Rest
                      /\ \E f \in Nodes : Moved(p, "write", pr[p].hdr, f)
  <2>1. CreateTmp(p) => tmp' \in Nodes
    BY <1>1, FreeNode DEF CreateTmp
  <2>. QED
    BY <1>1, <1>2, <2>1, FileMoves DEF CreateTmp, At, Rest
<1>6. WriteTmp(p) =>
        /\ pr[p].pc = "write" /\ Moved(p, "exists", pr[p].hdr, NoFile)
        /\ flash' = flash \union {pr[p].hdr} /\ UNCHANGED <<pending, blobs, tpm, seq, asked, erased>>
  BY <1>1, <1>2, FileMoves DEF WriteTmp, At
<1>7. HeaderExists(p) =>
        /\ pr[p].pc = "exists" /\ Rest
        /\ \/ Moved(p, "rename", pr[p].hdr, pr[p].fd) \/ Moved(p, "overwrite", pr[p].hdr, pr[p].fd)
  BY <1>2, <1>4 DEF HeaderExists, At, Rest
<1>8. /\ OverwriteHeader(p) => pr[p].pc = "overwrite" /\ Rest /\ Moved(p, "remove", pr[p].hdr, pr[p].fd)
      /\ RemoveHeader(p) => pr[p].pc = "remove" /\ Rest /\ Moved(p, "rename", pr[p].hdr, pr[p].fd)
      /\ RenameFails(p) => pr[p].pc = "rename" /\ Rest /\ Returned(p)
  BY <1>2, <1>3, <1>4 DEF OverwriteHeader, RemoveHeader, RenameFails, At, Rest
<1>9. RenameTmp(p) =>
        /\ pr[p].pc = "rename" /\ UNCHANGED <<pending, blobs, tpm, seq, flash, asked>>
        /\ \/ pr[p].op = "hwshred" /\ erased' = erased /\ Moved(p, "verify", pr[p].hdr, pr[p].fd)
           \/ Returned(p) /\ erased' = erased \union ({pr[p].drop} \ {0})
  BY <1>2, <1>3, <1>4 DEF RenameTmp, At
<1>. QED
  BY <1>5, <1>6, <1>7, <1>8, <1>9

LEMMA AfterStoreEffect ==
  ASSUME RaceInv, NEW p \in Procs
  PROVE  /\ Verify(p) =>
              /\ pr[p].pc = "verify" /\ Rest
              /\ Moved(p, "mark", pr[p].hdr, pr[p].fd) \/ Returned(p)
         /\ Mark(p) =>
              /\ pr[p].pc = "mark" /\ pending' = pr[p].old /\ UNCHANGED <<blobs, tpm, seq, history>>
              /\ Moved(p, "destroy", pr[p].hdr, pr[p].fd)
         /\ DestroyKey(p) =>
              /\ pr[p].pc = "destroy" /\ tpm' \in {tpm, tpm \ {pr[p].old}}
              /\ UNCHANGED <<pending, blobs, seq, history>>
              /\ Moved(p, "unmark", pr[p].hdr, pr[p].fd) \/ Returned(p)
         /\ RemoveMarker(p) =>
              /\ pr[p].pc = "unmark" /\ pending' = NoKey /\ Returned(p)
              /\ erased' = erased \union ({pr[p].drop} \ {0})
              /\ UNCHANGED <<blobs, tpm, seq, flash, asked>>
         /\ Crash(p) => pr[p].pc # "idle" /\ Rest /\ Returned(p)
<1>1. pr \in [Procs -> Processes]
  BY DEF RaceInv, ProcessInv
<1>2. {"mark", "destroy", "unmark"} \subseteq Pcs
  BY DEF Pcs
<1>3. Return(p) => Returned(p)
  BY <1>1, ReturnMoves
<1>4. \A pc \in Pcs : GoTo(p, pc) => Moved(p, pc, pr[p].hdr, pr[p].fd)
  BY <1>1, GoToMoves
<1>5. ASSUME DestroyKey(p)
      PROVE  /\ pr[p].pc = "destroy" /\ tpm' \in {tpm, tpm \ {pr[p].old}}
             /\ UNCHANGED <<pending, blobs, seq, history>>
             /\ Moved(p, "unmark", pr[p].hdr, pr[p].fd) \/ Returned(p)
  <2>1. PICK r \in DestroyOutcomes(tpm, pr[p].old, Faulty) :
          tpm' = r.keys /\ IF r.ok THEN GoTo(p, "unmark") ELSE Return(p)
    BY <1>5 DEF DestroyKey
  <2>2. r.keys \in {tpm, tpm \ {pr[p].old}}
    BY <2>1 DEF DestroyOutcomes, Ok, Err
  <2>3. Moved(p, "unmark", pr[p].hdr, pr[p].fd) \/ Returned(p)
    BY <1>2, <1>3, <1>4, <2>1
  <2>. QED
    BY <1>5, <2>1, <2>2, <2>3 DEF DestroyKey, At
<1>6. Verify(p) => /\ pr[p].pc = "verify" /\ Rest
                   /\ Moved(p, "mark", pr[p].hdr, pr[p].fd) \/ Returned(p)
  BY <1>2, <1>3, <1>4 DEF Verify, At, Rest
<1>7. Mark(p) =>
        /\ pr[p].pc = "mark" /\ pending' = pr[p].old /\ UNCHANGED <<blobs, tpm, seq, history>>
        /\ Moved(p, "destroy", pr[p].hdr, pr[p].fd)
  BY <1>2, <1>4 DEF Mark, At
<1>8. /\ RemoveMarker(p) =>
           /\ pr[p].pc = "unmark" /\ pending' = NoKey /\ Returned(p)
           /\ erased' = erased \union ({pr[p].drop} \ {0})
           /\ UNCHANGED <<blobs, tpm, seq, flash, asked>>
      /\ Crash(p) => pr[p].pc # "idle" /\ Rest /\ Returned(p)
  BY <1>3 DEF RemoveMarker, Crash, At, Rest
<1>. QED
  BY <1>5, <1>6, <1>7, <1>8
-----------------------------------------------------------------------------
(* What each command makes of the header it loads.                         *)

Started(p, op, pc, pass, drop, h) ==
  /\ Began(p, op, pc, seq, pass, drop, h.key, h)
  /\ seq' = seq + 1
  /\ UNCHANGED <<files, pending, blobs, tpm, flash, erased>>

LEMMA BeginStarts ==
  ASSUME RaceInv, NEW p \in Procs, NEW op \in Ops, NEW pc \in Pcs, NEW pass \in Pass,
         NEW drop \in Nat, NEW h \in Headers, Begin(p, op, pc, pass, drop, h)
  PROVE  Started(p, op, pc, pass, drop, h)
<1>1. /\ pr \in [Procs -> Processes] /\ seq \in Nat /\ h.key \in Nat /\ h \in HeadersOrNull
      /\ pass \in Pass \union {"none"} /\ pr[p].pc = "idle"
  BY DEF RaceInv, ProcessInv, NumbersInv, Headers, HeadersOrNull, Begin, At
<1>. DEFINE rec == [Idle EXCEPT !.op = op, !.pc = pc, !.n = seq, !.pass = pass, !.drop = drop,
                                !.old = h.key, !.hdr = h]
<1>2. /\ rec \in Processes
      /\ rec.op = op /\ rec.pc = pc /\ rec.n = seq /\ rec.pass = pass /\ rec.drop = drop
      /\ rec.old = h.key /\ rec.hdr = h /\ rec.fd = NoFile
  BY <1>1, IdleType DEF Processes
<1>3. Starts(p, rec)
  BY DEF Begin
<1>. HIDE DEF rec
<1>4. Began(p, op, pc, seq, pass, drop, h.key, h)
  BY <1>1, <1>2, <1>3, StartMoves
<1>. QED
  BY <1>4 DEF Begin, Started

LEMMA LoadedGood ==
  ASSUME RaceInv, NEW pass \in Pass, OpensWith(pass)
  PROVE  Loaded \in flash /\ Loaded \in Headers /\ Consistent(Loaded)
  BY DEF RaceInv, FileInv, OpensWith, Loaded

LEMMA EntriesType ==
  ASSUME RaceInv
  PROVE  Entries \subseteq Nat /\ (hp # NoFile => Entries = Ids(Loaded))
<1>1. ASSUME NEW h \in HeadersOrNull
      PROVE  Ids(h) \subseteq Nat
  BY DEF HeadersOrNull, Headers, NullHeader, Blank, Ids
<1>2. hp # NoFile => Loaded \in HeadersOrNull
  BY DEF RaceInv, FileInv, Contents, Loaded
<1>. QED
  BY <1>1, <1>2 DEF Entries

LEMMA StartEffect ==
  ASSUME RaceInv, NEW p \in Procs, NEW pass \in Pass
  PROVE  /\ StartInit(p, pass) =>
              /\ Started(p, "init", "create", pass, 0, NewHeader(pass, NoKey, NoKit, seq))
              /\ asked' = asked
         /\ StartInitTpm(p, pass) =>
              /\ Started(p, "init", "seal", pass, 0, NewHeader(pass, seq, NoKit, seq))
              /\ asked' = asked
         /\ StartAdd(p, pass) =>
              Started(p, "add", "blob", pass, 0, Loaded) /\ Loaded \in flash /\ asked' = asked
         /\ \A id \in Entries :
              /\ StartOpen(p, pass, id) =>
                   /\ Started(p, "open", "read", pass, id, Loaded) /\ Loaded \in flash
                   /\ asked' = asked /\ id \in Ids(Loaded)
              /\ StartShred(p, pass, id) =>
                   /\ Started(p, "shred", "drop", pass, id, Loaded) /\ Loaded \in flash
                   /\ asked' = asked \union {id} /\ id \in Nat
         /\ \A newpass \in Pass : StartRekey(p, pass, newpass) =>
              /\ Started(p, "rekey", "create", newpass, 0, Rekeyed(Loaded, newpass, seq))
              /\ Loaded \in flash /\ asked' = asked
         /\ \A drop \in Entries \union {0} : StartHwShred(p, pass, drop) =>
              /\ Started(p, "hwshred", "seal", pass, drop, Loaded) /\ Loaded \in flash
              /\ asked' = asked \union ({drop} \ {0}) /\ drop \in Nat
<1>1. /\ {"init", "add", "open", "shred", "rekey", "hwshred"} \subseteq Ops
      /\ {"create", "seal", "blob", "read", "drop"} \subseteq Pcs
      /\ 0 \in Nat /\ seq \in Nat \ {0}
  BY DEF Ops, Pcs, RaceInv, NumbersInv
<1>2. OpensWith(pass) => Loaded \in flash /\ Loaded \in Headers /\ Consistent(Loaded)
  BY LoadedGood
<1>3. StartInit(p, pass) =>
        /\ Started(p, "init", "create", pass, 0, NewHeader(pass, NoKey, NoKit, seq))
        /\ asked' = asked
  <2>1. NewHeader(pass, NoKey, NoKit, seq) \in Headers
    BY <1>1, NewHeaderGood
  <2>. QED
    BY <1>1, <2>1, BeginStarts DEF StartInit
<1>4. StartInitTpm(p, pass) =>
        /\ Started(p, "init", "seal", pass, 0, NewHeader(pass, seq, NoKit, seq))
        /\ asked' = asked
  <2>1. NewHeader(pass, seq, NoKit, seq) \in Headers
    BY <1>1, NewHeaderGood
  <2>. QED
    BY <1>1, <2>1, BeginStarts DEF StartInitTpm
<1>5. StartAdd(p, pass) =>
        Started(p, "add", "blob", pass, 0, Loaded) /\ Loaded \in flash /\ asked' = asked
  BY <1>1, <1>2, BeginStarts DEF StartAdd
<1>6. ASSUME NEW id \in Entries
      PROVE  /\ StartOpen(p, pass, id) =>
                  /\ Started(p, "open", "read", pass, id, Loaded) /\ Loaded \in flash
                  /\ asked' = asked /\ id \in Ids(Loaded)
             /\ StartShred(p, pass, id) =>
                  /\ Started(p, "shred", "drop", pass, id, Loaded) /\ Loaded \in flash
                  /\ asked' = asked \union {id} /\ id \in Nat
  <2>1. id \in Nat /\ (OpensWith(pass) => id \in Ids(Loaded))
    BY EntriesType DEF OpensWith
  <2>. QED
    BY <1>1, <1>2, <2>1, BeginStarts DEF StartOpen, StartShred
<1>7. ASSUME NEW newpass \in Pass, StartRekey(p, pass, newpass)
      PROVE  /\ Started(p, "rekey", "create", newpass, 0, Rekeyed(Loaded, newpass, seq))
             /\ Loaded \in flash /\ asked' = asked
  <2>1. Loaded \in flash /\ Rekeyed(Loaded, newpass, seq) \in Headers
    BY <1>1, <1>2, <1>7, RekeyedGood DEF StartRekey
  <2>. QED
    BY <1>1, <1>7, <2>1, BeginStarts DEF StartRekey
<1>8. ASSUME NEW drop \in Entries \union {0}, StartHwShred(p, pass, drop)
      PROVE  /\ Started(p, "hwshred", "seal", pass, drop, Loaded) /\ Loaded \in flash
             /\ asked' = asked \union ({drop} \ {0}) /\ drop \in Nat
  <2>1. drop \in Nat
    BY EntriesType
  <2>. QED
    BY <1>1, <1>2, <1>8, <2>1, BeginStarts DEF StartHwShred
<1>. QED
  BY <1>3, <1>4, <1>5, <1>6, <1>7, <1>8

LEMMA RepairEffect ==
  ASSUME RaceInv, NEW p \in Procs, StartRepair(p)
  PROVE  /\ Began(p, "repair", "destroy", 0, "none", 0, pending, NullHeader)
         /\ pending # NoKey /\ UNCHANGED <<files, pending, blobs, tpm, seq, history>>
<1>1. /\ pr \in [Procs -> Processes] /\ pending \in Nat /\ pr[p].pc = "idle"
      /\ NullHeader \in HeadersOrNull /\ "repair" \in Ops /\ "destroy" \in Pcs
      /\ 0 \in Nat /\ "none" \in Pass \union {"none"}
  BY DEF RaceInv, ProcessInv, NumbersInv, HeadersOrNull, StartRepair, At, Ops, Pcs
<1>. DEFINE rec == [Idle EXCEPT !.op = "repair", !.pc = "destroy", !.old = pending]
<1>2. /\ rec \in Processes
      /\ rec.op = "repair" /\ rec.pc = "destroy" /\ rec.n = 0 /\ rec.pass = "none" /\ rec.drop = 0
      /\ rec.old = pending /\ rec.hdr = NullHeader /\ rec.fd = NoFile
  <2>1. Idle.n = 0 /\ Idle.pass = "none" /\ Idle.drop = 0 /\ Idle.hdr = NullHeader
    BY DEF Idle
  <2>. QED
    BY <1>1, <2>1, IdleType DEF Processes
<1>3. Starts(p, rec)
  BY DEF StartRepair
<1>. HIDE DEF rec
<1>4. Began(p, "repair", "destroy", 0, "none", 0, pending, NullHeader)
  BY <1>1, <1>2, <1>3, StartMoves
<1>. QED
  BY <1>4 DEF StartRepair
-----------------------------------------------------------------------------
(* The invariant.                                                          *)

LEMMA MovedWork ==
  ASSUME RaceInv, seq' = seq, NEW p \in Procs, NEW pc, NEW h, NEW f, Moved(p, pc, h, f),
         OpFits(pr[p].op, pc), pc = "write" <=> f # NoFile,
         Works(p) => h \in Headers /\ Consistent(h)
  PROVE  ProcessInv'
<1>1. WorkInv(p)'
  BY DEF RaceInv, ProcessInv, WorkInv, Moved, At, Works
<1>2. ASSUME NEW q \in Procs, q # p
      PROVE  WorkInv(q)'
  BY <1>2 DEF RaceInv, ProcessInv, WorkInv, Moved, At, Works
<1>. QED
  BY <1>1, <1>2 DEF ProcessInv, Moved

LEMMA ReturnedWork ==
  ASSUME RaceInv, seq' = seq, NEW p \in Procs, Returned(p)
  PROVE  ProcessInv'
<1>1. WorkInv(p)'
  BY DEF WorkInv, Returned, At, Works, OpFits
<1>2. ASSUME NEW q \in Procs, q # p
      PROVE  WorkInv(q)'
  BY <1>2 DEF RaceInv, ProcessInv, WorkInv, Returned, At, Works
<1>. QED
  BY <1>1, <1>2 DEF ProcessInv, Returned

LEMMA BeganWork ==
  ASSUME RaceInv, seq' \in {seq, seq + 1}, NEW p \in Procs, NEW op, NEW pc, NEW n, NEW pass, NEW drop,
         NEW old, NEW h, Began(p, op, pc, n, pass, drop, old, h), OpFits(op, pc), pc # "write",
         op # "repair" => /\ h \in Headers /\ Consistent(h) /\ n \in 1..(seq' - 1) /\ pass \in Pass
  PROVE  ProcessInv'
<1>1. WorkInv(p)'
  BY DEF WorkInv, Began, At, Works
<1>2. ASSUME NEW q \in Procs, q # p
      PROVE  WorkInv(q)'
  <2>1. seq \in Nat \ {0}
    BY DEF RaceInv, NumbersInv
  <2>2. \A i \in 1..(seq - 1) : i \in 1..(seq' - 1)
    <3>1. CASE seq' = seq
      BY <3>1
    <3>2. CASE seq' = seq + 1
      BY <2>1, <3>2
    <3>. QED
      BY <3>1, <3>2
  <2>. QED
    BY <1>2, <2>2 DEF RaceInv, ProcessInv, WorkInv, Began, At, Works
<1>. QED
  BY <1>1, <1>2 DEF ProcessInv, Began

LEMMA StartedWork ==
  ASSUME RaceInv, NEW p \in Procs, NEW op, NEW pc, NEW pass \in Pass, NEW drop, NEW h,
         Started(p, op, pc, pass, drop, h), OpFits(op, pc), pc # "write",
         h \in Headers, Consistent(h), asked' \subseteq Nat
  PROVE  RaceInv'
<1>1. seq \in Nat \ {0} /\ seq' = seq + 1 /\ seq \in 1..(seq' - 1)
  BY DEF RaceInv, NumbersInv, Started
<1>2. ProcessInv'
  BY <1>1, BeganWork DEF Started
<1>3. NumbersInv'
  BY <1>1 DEF RaceInv, NumbersInv, Started
<1>4. FileInv'
  BY DEF RaceInv, FileInv, Started, files
<1>. QED
  BY <1>2, <1>3, <1>4 DEF RaceInv

LEMMA RaceInit == Init => RaceInv
<1>. SUFFICES ASSUME Init PROVE RaceInv
  OBVIOUS
<1>1. pr = [p \in Procs |-> Idle] /\ tmp = NoFile /\ pending = NoKey /\ asked = {} /\ erased = {}
  BY DEF Init
<1>2. ProcessInv
  BY <1>1, IdleType DEF ProcessInv, WorkInv, OpFits, At, Works
<1>3. CASE InitEmpty
  <2>1. FileInv
    BY <1>1, <1>3, ContentTypes DEF InitEmpty, FileInv
  <2>. QED
    BY <1>1, <1>2, <1>3, <2>1 DEF InitEmpty, RaceInv, NumbersInv, NoKey
<1>4. CASE InitVault
  <2>1. PICK p \in Pass :
          LET first == NewHeader(p, 1, NoKit, 1)
              h == Added(first, 2)
          IN  /\ hp = 1 /\ node = [f \in Nodes |-> IF f = 1 THEN Complete(h) ELSE Empty]
              /\ blobs = {2} /\ tpm = {1} /\ seq = 3 /\ flash = {first, h}
    BY <1>4 DEF InitVault
  <2>. DEFINE first == NewHeader(p, 1, NoKit, 1)
              h == Added(first, 2)
  <2>2. first \in Headers /\ Consistent(first)
    BY NewHeaderGood
  <2>3. h \in Headers /\ Consistent(h)
    BY <2>2, AddedGood
  <2>4. /\ hp = 1 /\ node = [f \in Nodes |-> IF f = 1 THEN Complete(h) ELSE Empty]
        /\ blobs = {2} /\ tpm = {1} /\ seq = 3 /\ flash = {first, h}
    BY <2>1
  <2>. HIDE DEF first, h
  <2>5. hp \in Nodes
    BY <2>4, NodeCount DEF Nodes
  <2>6. FileInv
    BY <1>1, <2>2, <2>3, <2>4, <2>5, ContentTypes DEF FileInv
  <2>. QED
    BY <1>1, <1>2, <2>4, <2>6 DEF RaceInv, NumbersInv, NoKey
<1>. QED
  BY <1>3, <1>4 DEF Init

LEMMA RaceCommand ==
  ASSUME RaceInv, NEW p \in Procs, Command(p)
  PROVE  RaceInv'
<1>1. seq \in Nat \ {0} /\ asked \subseteq Nat
  BY DEF RaceInv, NumbersInv
<1>2. \A h \in flash : h \in Headers /\ Consistent(h)
  BY DEF RaceInv, FileInv
<1>3. CASE StartRepair(p)
  <2>1. /\ Began(p, "repair", "destroy", 0, "none", 0, pending, NullHeader)
        /\ UNCHANGED <<files, pending, blobs, tpm, seq, history>>
    BY <1>3, RepairEffect
  <2>2. ProcessInv'
    BY <2>1, BeganWork DEF OpFits
  <2>. QED
    BY <2>1, <2>2 DEF RaceInv, FileInv, NumbersInv, files, history
<1>4. ASSUME NEW pass \in Pass, StartInit(p, pass) \/ StartInitTpm(p, pass)
      PROVE  RaceInv'
  <2>1. NewHeader(pass, NoKey, NoKit, seq) \in Headers /\ Consistent(NewHeader(pass, NoKey, NoKit, seq))
    BY <1>1, NewHeaderGood
  <2>2. NewHeader(pass, seq, NoKit, seq) \in Headers /\ Consistent(NewHeader(pass, seq, NoKit, seq))
    BY <1>1, NewHeaderGood
  <2>3. /\ StartInit(p, pass) =>
             /\ Started(p, "init", "create", pass, 0, NewHeader(pass, NoKey, NoKit, seq))
             /\ asked' = asked
        /\ StartInitTpm(p, pass) =>
             /\ Started(p, "init", "seal", pass, 0, NewHeader(pass, seq, NoKit, seq))
             /\ asked' = asked
    BY StartEffect
  <2>4. OpFits("init", "create") /\ OpFits("init", "seal")
    BY DEF OpFits, Storing
  <2>. QED
    BY <1>1, <1>4, <2>1, <2>2, <2>3, <2>4, StartedWork
<1>5. ASSUME NEW pass \in Pass, StartAdd(p, pass)
      PROVE  RaceInv'
  <2>1. Started(p, "add", "blob", pass, 0, Loaded) /\ Loaded \in flash /\ asked' = asked
    BY <1>5, StartEffect
  <2>2. OpFits("add", "blob")
    BY DEF OpFits
  <2>. QED
    BY <1>1, <1>2, <2>1, <2>2, StartedWork
<1>6. ASSUME NEW pass \in Pass, NEW id \in Entries, StartOpen(p, pass, id)
      PROVE  RaceInv'
  <2>1. Started(p, "open", "read", pass, id, Loaded) /\ Loaded \in flash /\ asked' = asked
    BY <1>6, StartEffect
  <2>2. OpFits("open", "read")
    BY DEF OpFits
  <2>. QED
    BY <1>1, <1>2, <2>1, <2>2, StartedWork
<1>7. ASSUME NEW pass \in Pass, NEW id \in Entries, StartShred(p, pass, id)
      PROVE  RaceInv'
  <2>1. /\ Started(p, "shred", "drop", pass, id, Loaded) /\ Loaded \in flash
        /\ asked' = asked \union {id} /\ id \in Nat
    BY <1>7, StartEffect
  <2>2. OpFits("shred", "drop")
    BY DEF OpFits
  <2>. QED
    BY <1>1, <1>2, <2>1, <2>2, StartedWork
<1>8. ASSUME NEW pass \in Pass, NEW newpass \in Pass, StartRekey(p, pass, newpass)
      PROVE  RaceInv'
  <2>1. /\ Started(p, "rekey", "create", newpass, 0, Rekeyed(Loaded, newpass, seq))
        /\ Loaded \in flash /\ asked' = asked
    BY <1>8, StartEffect
  <2>2. OpFits("rekey", "create")
    BY DEF OpFits, Storing
  <2>3. /\ Rekeyed(Loaded, newpass, seq) \in Headers
        /\ Consistent(Rekeyed(Loaded, newpass, seq))
    BY <1>1, <1>2, <2>1, RekeyedGood
  <2>. QED
    BY <1>1, <2>1, <2>2, <2>3, StartedWork
<1>9. ASSUME NEW pass \in Pass, NEW drop \in Entries \union {0}, StartHwShred(p, pass, drop)
      PROVE  RaceInv'
  <2>1. /\ Started(p, "hwshred", "seal", pass, drop, Loaded) /\ Loaded \in flash
        /\ asked' = asked \union ({drop} \ {0}) /\ drop \in Nat
    BY <1>9, StartEffect
  <2>2. OpFits("hwshred", "seal")
    BY DEF OpFits
  <2>. QED
    BY <1>1, <1>2, <2>1, <2>2, StartedWork
<1>. QED
  BY <1>3, <1>4, <1>5, <1>6, <1>7, <1>8, <1>9 DEF Command

LEMMA RaceStep ==
  ASSUME RaceInv, NEW p \in Procs, Step(p) \/ Crash(p)
  PROVE  RaceInv'
<1>1. FileInv'
  BY FileStep
<1>2. /\ WorkInv(p) /\ NumbersInv
      /\ pr[p].drop \in Nat /\ pr[p].old \in Nat /\ pr[p].n \in Nat
  BY DEF RaceInv, ProcessInv, Processes
<1>3. Works(p) => /\ pr[p].hdr \in Headers /\ Consistent(pr[p].hdr)
                  /\ pr[p].n \in Nat \ {0} /\ pr[p].pass \in Pass
  BY <1>2 DEF WorkInv, NumbersInv
<1>4. pr[p].pc # "write" => pr[p].fd = NoFile
  BY <1>2 DEF WorkInv, At
<1>5. OpFits(pr[p].op, pr[p].pc)
  BY <1>2 DEF WorkInv
<1>6. ASSUME /\ pending' \in Nat /\ blobs' \subseteq Nat /\ tpm' \subseteq Nat
             /\ asked' \subseteq Nat /\ erased' \subseteq Nat /\ seq' = seq,
             ProcessInv'
      PROVE  RaceInv'
  BY <1>1, <1>2, <1>6 DEF RaceInv, NumbersInv
<1>7. ASSUME Rest
      PROVE  /\ pending' \in Nat /\ blobs' \subseteq Nat /\ tpm' \subseteq Nat
             /\ asked' \subseteq Nat /\ erased' \subseteq Nat /\ seq' = seq
  BY <1>2, <1>7 DEF Rest, NumbersInv, history
<1>8. ASSUME seq' = seq, Returned(p)
      PROVE  ProcessInv'
  BY <1>8, ReturnedWork
<1>9. ASSUME seq' = seq, NEW pc, Moved(p, pc, pr[p].hdr, pr[p].fd), OpFits(pr[p].op, pc),
             pc # "write", pr[p].pc # "write"
      PROVE  ProcessInv'
  BY <1>3, <1>4, <1>9, MovedWork
<1>10. CASE WriteBlob(p)
  <2>1. /\ pr[p].op = "add" /\ pr[p].pc = "blob"
        /\ Moved(p, "create", Added(pr[p].hdr, pr[p].n), pr[p].fd)
        /\ blobs' = blobs \union {pr[p].n} /\ UNCHANGED <<pending, tpm, seq, history>>
    BY <1>10, BeforeStoreEffect
  <2>2. Works(p) => Added(pr[p].hdr, pr[p].n) \in Headers /\ Consistent(Added(pr[p].hdr, pr[p].n))
    BY <1>3, AddedGood
  <2>3. OpFits(pr[p].op, "create")
    BY <2>1 DEF OpFits, Storing
  <2>4. ProcessInv'
    BY <1>4, <2>1, <2>2, <2>3, MovedWork
  <2>. QED
    BY <1>2, <1>6, <2>1, <2>4 DEF NumbersInv, history
<1>11. CASE SealKey(p)
  <2>. DEFINE k == NewKeyHeader(p)
              next == IF pr[p].drop = 0 THEN "create" ELSE "drop"
  <2>1. /\ pr[p].pc = "seal" /\ UNCHANGED <<pending, blobs, seq, history>>
        /\ tpm' \in {tpm, tpm \union {pr[p].n}}
        /\ \/ pr[p].op = "init" /\ Moved(p, "create", pr[p].hdr, pr[p].fd)
           \/ pr[p].op = "hwshred" /\ Moved(p, next, k, pr[p].fd)
           \/ Returned(p)
    BY <1>11, BeforeStoreEffect
  <2>2. Works(p) => k \in Headers /\ Consistent(k)
    BY <1>2, <1>3, NewKeyHeaderGood
  <2>3. OpFits("init", "create") /\ OpFits("hwshred", next) /\ next # "write"
    BY DEF OpFits, Storing
  <2>. HIDE DEF k, next
  <2>4. ProcessInv'
    BY <1>4, <1>8, <1>9, <2>1, <2>2, <2>3, MovedWork
  <2>. QED
    BY <1>2, <1>6, <2>1, <2>4 DEF NumbersInv, history
<1>12. CASE ReadBlob(p) \/ Crash(p) \/ RenameFails(p)
  <2>1. Returned(p) /\ Rest
    BY <1>12, BeforeStoreEffect, StoreEffect, AfterStoreEffect
  <2>. QED
    BY <1>6, <1>7, <1>8, <2>1
<1>13. CASE DropBlob(p)
  <2>. DEFINE next == IF pr[p].op = "shred" THEN "wrap" ELSE "create"
  <2>1. /\ pr[p].pc = "drop" /\ blobs' = blobs \ {pr[p].drop}
        /\ UNCHANGED <<pending, tpm, seq, history>>
        /\ Moved(p, next, pr[p].hdr, pr[p].fd)
    BY <1>13, BeforeStoreEffect
  <2>2. OpFits(pr[p].op, next) /\ next # "write"
    BY <1>5, <2>1 DEF OpFits, Storing
  <2>. HIDE DEF next
  <2>3. ProcessInv'
    BY <1>9, <2>1, <2>2
  <2>. QED
    BY <1>2, <1>6, <2>1, <2>3 DEF NumbersInv, history
<1>14. CASE Wrap(p)
  <2>. DEFINE h == Rotated(pr[p].hdr, pr[p].pass, pr[p].drop, pr[p].n)
  <2>1. /\ pr[p].pc = "wrap" /\ Rest
        /\ Moved(p, "create", h, pr[p].fd) \/ Returned(p)
    BY <1>14, BeforeStoreEffect
  <2>2. Works(p) => h \in Headers /\ Consistent(h)
    BY <1>2, <1>3, RotatedGood
  <2>3. OpFits(pr[p].op, "create")
    BY <1>5, <2>1 DEF OpFits, Storing
  <2>. HIDE DEF h
  <2>4. ProcessInv'
    BY <1>4, <1>7, <1>8, <2>1, <2>2, <2>3, MovedWork
  <2>. QED
    BY <1>6, <1>7, <2>1, <2>4
<1>15. CASE CreateTmp(p)
  <2>1. PICK f \in Nodes : pr[p].pc = "create" /\ Rest /\ Moved(p, "write", pr[p].hdr, f)
    BY <1>15, StoreEffect
  <2>2. OpFits(pr[p].op, "write") /\ f # NoFile
    BY <1>5, <2>1 DEF OpFits, Storing, Nodes, NoFile
  <2>3. ProcessInv'
    BY <1>3, <1>7, <2>1, <2>2, MovedWork
  <2>. QED
    BY <1>6, <1>7, <2>1, <2>3
<1>16. CASE WriteTmp(p)
  <2>1. /\ pr[p].pc = "write" /\ Moved(p, "exists", pr[p].hdr, NoFile)
        /\ UNCHANGED <<pending, blobs, tpm, seq, asked, erased>>
    BY <1>16, StoreEffect
  <2>2. OpFits(pr[p].op, "exists")
    BY <1>5, <2>1 DEF OpFits, Storing
  <2>3. ProcessInv'
    BY <1>3, <2>1, <2>2, MovedWork
  <2>. QED
    BY <1>2, <1>6, <2>1, <2>3 DEF NumbersInv
<1>17. CASE HeaderExists(p) \/ OverwriteHeader(p) \/ RemoveHeader(p)
  <2>1. /\ Rest /\ pr[p].pc \in {"exists", "overwrite", "remove"}
        /\ \E pc \in {"rename", "overwrite", "remove"} : Moved(p, pc, pr[p].hdr, pr[p].fd)
    BY <1>17, StoreEffect
  <2>2. \A pc \in {"rename", "overwrite", "remove"} : OpFits(pr[p].op, pc)
    BY <1>5, <2>1 DEF OpFits, Storing
  <2>3. ProcessInv'
    BY <1>7, <1>9, <2>1, <2>2
  <2>. QED
    BY <1>6, <1>7, <2>1, <2>3
<1>18. CASE RenameTmp(p)
  <2>1. /\ pr[p].pc = "rename" /\ UNCHANGED <<pending, blobs, tpm, seq, flash, asked>>
        /\ \/ /\ pr[p].op = "hwshred" /\ erased' = erased
              /\ Moved(p, "verify", pr[p].hdr, pr[p].fd)
           \/ Returned(p) /\ erased' = erased \union ({pr[p].drop} \ {0})
    BY <1>18, StoreEffect
  <2>2. OpFits("hwshred", "verify")
    BY DEF OpFits
  <2>3. ProcessInv'
    BY <1>8, <1>9, <2>1, <2>2
  <2>. QED
    BY <1>2, <1>6, <2>1, <2>3 DEF NumbersInv
<1>19. CASE Verify(p) \/ Mark(p) \/ DestroyKey(p) \/ RemoveMarker(p)
  <2>1. /\ pr[p].pc \in {"verify", "mark", "destroy", "unmark"}
        /\ UNCHANGED <<blobs, seq, flash, asked>>
        /\ pending' \in {pending, pr[p].old, NoKey} /\ tpm' \in {tpm, tpm \ {pr[p].old}}
        /\ erased' \in {erased, erased \union ({pr[p].drop} \ {0})}
        /\ \/ pr[p].pc = "verify" /\ Moved(p, "mark", pr[p].hdr, pr[p].fd)
           \/ pr[p].pc = "mark" /\ Moved(p, "destroy", pr[p].hdr, pr[p].fd)
           \/ pr[p].pc = "destroy" /\ Moved(p, "unmark", pr[p].hdr, pr[p].fd)
           \/ Returned(p)
    BY <1>19, AfterStoreEffect DEF Rest, history
  <2>2. /\ pr[p].pc = "verify" => OpFits(pr[p].op, "mark")
        /\ pr[p].pc = "mark" => OpFits(pr[p].op, "destroy")
        /\ pr[p].pc = "destroy" => OpFits(pr[p].op, "unmark")
    BY <1>5 DEF OpFits, Storing
  <2>3. ProcessInv'
    BY <1>8, <1>9, <2>1, <2>2
  <2>4. /\ pending' \in Nat /\ blobs' \subseteq Nat /\ tpm' \subseteq Nat
        /\ asked' \subseteq Nat /\ seq' = seq
    BY <1>2, <2>1 DEF NumbersInv, NoKey
  <2>5. erased' \subseteq Nat
    BY <1>2, <2>1 DEF NumbersInv
  <2>. QED
    BY <1>6, <2>3, <2>4, <2>5
<1>. QED
  BY <1>10, <1>11, <1>12, <1>13, <1>14, <1>15, <1>16, <1>17, <1>18, <1>19 DEF Step, Store

LEMMA RaceNext ==
  ASSUME RaceInv, [Next]_vars
  PROVE  RaceInv'
<1>1. CASE UNCHANGED vars
  BY <1>1 DEF vars, files, history, RaceInv, FileInv, NumbersInv, ProcessInv, WorkInv, At, Works
<1>. QED
  BY <1>1, RaceCommand, RaceStep DEF Next

LEMMA RaceInvariant == Spec => []RaceInv
  BY RaceInit, RaceNext, PTL DEF Spec

(* Whatever commands run at the same time, every variable keeps its type:  *)
(* a process has a header in memory from its start to its end, it has the  *)
(* temporary file open exactly while it writes it, and there is always a   *)
(* free file for File::create (store, vault.rs).                           *)
THEOREM RaceTypeCorrect == Spec => []TypeOK
  BY RaceInvariant, RaceInvTypeOK, PTL
-----------------------------------------------------------------------------
(* Hardware keys.  A key dies only when a header under a newer one has     *)
(* been written, so whatever a command holds in memory is under a key that *)
(* is alive, or was superseded while the command ran.                      *)

Superseded(k) == \E g \in flash : k < g.key

Alive(k) == k = NoKey \/ k \in tpm \/ Superseded(k)

KeyOf(p) ==
  /\ Works(p) => pr[p].hdr.key < seq
  /\ Works(p) /\ ~(pr[p].op = "init" /\ pr[p].pc = "seal") => Alive(pr[p].hdr.key)
  /\ pr[p].op = "init" /\ pr[p].pc = "seal" => pr[p].hdr.key = pr[p].n
  /\ pr[p].op = "hwshred" =>
       /\ pr[p].pc = "seal" => pr[p].old < pr[p].n
       /\ pr[p].pc \in {"drop", "create", "write"} => pr[p].old < pr[p].hdr.key
       /\ pr[p].pc \in {"exists", "overwrite", "remove", "rename", "verify", "mark", "destroy", "unmark"}
            => Superseded(pr[p].old)
  /\ pr[p].op = "repair" => Superseded(pr[p].old)

KeyInv ==
  /\ \A h \in flash : Alive(h.key) /\ h.key < seq
  /\ pending # NoKey => Superseded(pending)
  /\ \A p \in Procs : KeyOf(p)

(* An entry that nobody wants erased has its blob, in every header that    *)
(* was written and in every one a command has in memory.                   *)
BlobOf(p) ==
  /\ Works(p) => Ids(pr[p].hdr) \subseteq blobs \union asked
  /\ pr[p].pc = "drop" => pr[p].drop \in asked
  /\ pr[p].op = "hwshred" /\ pr[p].pc = "seal" => pr[p].drop \in asked \union {0}
  /\ pr[p].pc = "read" => pr[p].drop \in blobs \union asked

BlobInv ==
  /\ \A h \in flash : Ids(h) \subseteq blobs \union asked
  /\ \A p \in Procs : BlobOf(p)

-----------------------------------------------------------------------------
(* What p does leaves the other processes as they were.                    *)
Others(p) ==
  \A q \in Procs : q # p =>
    /\ pr'[q].op = pr[q].op /\ pr'[q].pc = pr[q].pc /\ pr'[q].n = pr[q].n
    /\ pr'[q].drop = pr[q].drop /\ pr'[q].old = pr[q].old /\ pr'[q].hdr = pr[q].hdr

LEMMA OthersStay ==
  ASSUME NEW p \in Procs
  PROVE  /\ \A pc, h, f : Moved(p, pc, h, f) => Others(p)
         /\ Returned(p) => Others(p)
         /\ \A op, pc, n, pass, drop, old, h : Began(p, op, pc, n, pass, drop, old, h) => Others(p)
  BY DEF Moved, Returned, Began, Others

(* The keys that die are superseded.                                       *)
LEMMA KeyKept ==
  ASSUME RaceInv, KeyInv, NEW p \in Procs, Others(p), KeyOf(p)',
         flash \subseteq flash', \A k \in tpm : k \in tpm' \/ Superseded(k), seq' \in {seq, seq + 1},
         \A h \in flash' : h \in flash \/ (h.key \in Nat /\ h.key < seq /\ Alive(h.key)),
         pending' # NoKey => Superseded(pending')
  PROVE  KeyInv'
<1>1. /\ seq \in Nat /\ \A h \in flash : h.key \in Nat
      /\ \A q \in Procs : Works(q) => pr[q].hdr.key \in Nat
  BY DEF RaceInv, NumbersInv, FileInv, ProcessInv, WorkInv, Headers
<1>2. \A h \in flash' : h.key \in Nat /\ h.key < seq /\ Alive(h.key)
  BY <1>1 DEF KeyInv
<1>3. \A h \in flash' : Alive(h.key)' /\ h.key < seq'
  BY <1>1, <1>2 DEF Alive, Superseded
<1>4. pending' # NoKey => Superseded(pending)'
  BY DEF Superseded
<1>5. ASSUME NEW q \in Procs, q # p
      PROVE  KeyOf(q)'
  <2>1. KeyOf(q)
    BY DEF KeyInv
  <2>. QED
    BY <1>1, <1>5, <2>1 DEF KeyOf, Others, Works, Alive, Superseded
<1>. QED
  BY <1>3, <1>4, <1>5 DEF KeyInv

LEMMA KeyInit == Init => KeyInv
<1>. SUFFICES ASSUME Init PROVE KeyInv
  OBVIOUS
<1>1. pr = [p \in Procs |-> Idle] /\ pending = NoKey
  BY DEF Init
<1>2. \A p \in Procs : KeyOf(p)
  BY <1>1, IdleType DEF KeyOf, Works
<1>3. CASE InitEmpty
  BY <1>1, <1>2, <1>3 DEF InitEmpty, KeyInv
<1>4. CASE InitVault
  <2>1. PICK p \in Pass :
          LET first == NewHeader(p, 1, NoKit, 1)
              h == Added(first, 2)
          IN  tpm = {1} /\ seq = 3 /\ flash = {first, h}
    BY <1>4 DEF InitVault
  <2>. DEFINE first == NewHeader(p, 1, NoKit, 1)
              h == Added(first, 2)
  <2>2. first \in Headers /\ Consistent(first) /\ first.key = 1
    BY NewHeaderGood
  <2>3. h.key = 1
    BY <2>2, AddedGood
  <2>4. tpm = {1} /\ seq = 3 /\ flash = {first, h}
    BY <2>1
  <2>. HIDE DEF first, h
  <2>. QED
    BY <1>1, <1>2, <2>2, <2>3, <2>4 DEF KeyInv, Alive
<1>. QED
  BY <1>3, <1>4 DEF Init

LEMMA KeyStarted ==
  ASSUME RaceInv, KeyInv, NEW p \in Procs, NEW op, NEW pc, NEW pass, NEW drop, NEW h \in Headers,
         Started(p, op, pc, pass, drop, h), op # "repair", op = "hwshred" => pc = "seal",
         IF op = "init" /\ pc = "seal" THEN h.key = seq
         ELSE Alive(h.key) /\ (h.key < seq \/ h.key = NoKey)
  PROVE  KeyInv'
<1>1. /\ Began(p, op, pc, seq, pass, drop, h.key, h) /\ seq' = seq + 1
      /\ UNCHANGED <<pending, blobs, tpm, flash>> /\ Others(p)
  BY OthersStay DEF Started
<1>2. seq \in Nat \ {0} /\ h.key \in Nat
  BY DEF RaceInv, NumbersInv, Headers
<1>3. KeyOf(p)'
  BY <1>1, <1>2 DEF KeyOf, Began, Works, Alive, Superseded, NoKey
<1>. QED
  BY <1>1, <1>3, KeyKept DEF KeyInv

LEMMA KeyCommand ==
  ASSUME RaceInv, KeyInv, NEW p \in Procs, Command(p)
  PROVE  KeyInv'
<1>1. seq \in Nat \ {0}
  BY DEF RaceInv, NumbersInv
<1>2. \A h \in flash : h \in Headers /\ Consistent(h) /\ Alive(h.key) /\ h.key < seq
  BY DEF RaceInv, FileInv, KeyInv
<1>3. CASE StartRepair(p)
  <2>1. /\ Began(p, "repair", "destroy", 0, "none", 0, pending, NullHeader)
        /\ pending # NoKey /\ UNCHANGED <<pending, blobs, tpm, seq, flash>>
    BY <1>3, RepairEffect DEF history
  <2>2. Others(p) /\ Superseded(pending)
    BY <2>1, OthersStay DEF KeyInv
  <2>3. KeyOf(p)'
    BY <2>1, <2>2 DEF Began, KeyOf, Works, Superseded
  <2>. QED
    BY <2>1, <2>2, <2>3, KeyKept DEF KeyInv
<1>4. ASSUME NEW pass \in Pass, StartInit(p, pass)
      PROVE  KeyInv'
  <2>1. /\ NewHeader(pass, NoKey, NoKit, seq) \in Headers
        /\ NewHeader(pass, NoKey, NoKit, seq).key = NoKey
    BY <1>1, NewHeaderGood
  <2>2. Started(p, "init", "create", pass, 0, NewHeader(pass, NoKey, NoKit, seq))
    BY <1>4, StartEffect
  <2>. QED
    BY <2>1, <2>2, KeyStarted DEF Alive
<1>5. ASSUME NEW pass \in Pass, StartInitTpm(p, pass)
      PROVE  KeyInv'
  <2>1. /\ NewHeader(pass, seq, NoKit, seq) \in Headers
        /\ NewHeader(pass, seq, NoKit, seq).key = seq
    BY <1>1, NewHeaderGood
  <2>2. Started(p, "init", "seal", pass, 0, NewHeader(pass, seq, NoKit, seq))
    BY <1>5, StartEffect
  <2>. QED
    BY <2>1, <2>2, KeyStarted
<1>6. ASSUME NEW pass \in Pass, StartAdd(p, pass)
      PROVE  KeyInv'
  <2>1. Started(p, "add", "blob", pass, 0, Loaded) /\ Loaded \in flash
    BY <1>6, StartEffect
  <2>. QED
    BY <1>2, <2>1, KeyStarted
<1>7. ASSUME NEW pass \in Pass, NEW id \in Entries, StartOpen(p, pass, id)
      PROVE  KeyInv'
  <2>1. Started(p, "open", "read", pass, id, Loaded) /\ Loaded \in flash
    BY <1>7, StartEffect
  <2>. QED
    BY <1>2, <2>1, KeyStarted
<1>8. ASSUME NEW pass \in Pass, NEW id \in Entries, StartShred(p, pass, id)
      PROVE  KeyInv'
  <2>1. Started(p, "shred", "drop", pass, id, Loaded) /\ Loaded \in flash
    BY <1>8, StartEffect
  <2>. QED
    BY <1>2, <2>1, KeyStarted
<1>9. ASSUME NEW pass \in Pass, NEW newpass \in Pass, StartRekey(p, pass, newpass)
      PROVE  KeyInv'
  <2>1. /\ Started(p, "rekey", "create", newpass, 0, Rekeyed(Loaded, newpass, seq))
        /\ Loaded \in flash
    BY <1>9, StartEffect
  <2>2. /\ Rekeyed(Loaded, newpass, seq) \in Headers
        /\ Rekeyed(Loaded, newpass, seq).key = Loaded.key
    BY <1>1, <1>2, <2>1, RekeyedGood
  <2>. QED
    BY <1>2, <2>1, <2>2, KeyStarted
<1>10. ASSUME NEW pass \in Pass, NEW drop \in Entries \union {0}, StartHwShred(p, pass, drop)
       PROVE  KeyInv'
  <2>1. Started(p, "hwshred", "seal", pass, drop, Loaded) /\ Loaded \in flash
    BY <1>10, StartEffect
  <2>. QED
    BY <1>2, <2>1, KeyStarted
<1>. QED
  BY <1>3, <1>4, <1>5, <1>6, <1>7, <1>8, <1>9, <1>10 DEF Command

LEMMA KeyStep ==
  ASSUME RaceInv, KeyInv, NEW p \in Procs, Step(p) \/ Crash(p)
  PROVE  KeyInv'
<1>1. KeyOf(p) /\ (pending # NoKey => Superseded(pending))
  BY DEF KeyInv
<1>2. /\ pr[p].n \in Nat /\ pr[p].old \in Nat /\ seq \in Nat \ {0}
      /\ Works(p) => /\ pr[p].hdr \in Headers /\ Consistent(pr[p].hdr) /\ pr[p].hdr.key \in Nat
                     /\ pr[p].n \in Nat \ {0} /\ pr[p].n < seq /\ pr[p].pass \in Pass
  BY DEF RaceInv, NumbersInv, ProcessInv, WorkInv, Processes, Headers
<1>3. pr[p].drop \in Nat /\ OpFits(pr[p].op, pr[p].pc)
  BY DEF RaceInv, ProcessInv, WorkInv, Processes
<1>4. ASSUME Returned(p)
      PROVE  KeyOf(p)' /\ Others(p)
  BY <1>4, OthersStay DEF KeyOf, Works, Returned
<1>5. ASSUME Returned(p), UNCHANGED <<pending, seq, flash>>, \A k \in tpm : k \in tpm' \/ Superseded(k)
      PROVE  KeyInv'
  BY <1>1, <1>4, <1>5, KeyKept
<1>6. CASE WriteBlob(p)
  <2>1. /\ pr[p].op = "add" /\ pr[p].pc = "blob"
        /\ Moved(p, "create", Added(pr[p].hdr, pr[p].n), pr[p].fd)
        /\ UNCHANGED <<pending, tpm, seq, flash>>
    BY <1>6, BeforeStoreEffect DEF history
  <2>2. Works(p) /\ Added(pr[p].hdr, pr[p].n).key = pr[p].hdr.key
    BY <1>2, <2>1, AddedGood DEF Works
  <2>3. Others(p)
    BY <2>1, OthersStay
  <2>4. KeyOf(p)'
    BY <1>1, <2>1, <2>2 DEF KeyOf, Works, Moved, Alive, Superseded
  <2>. QED
    BY <1>1, <2>1, <2>3, <2>4, KeyKept
<1>7. CASE SealKey(p)
  <2>. DEFINE k == NewKeyHeader(p)
              next == IF pr[p].drop = 0 THEN "create" ELSE "drop"
  <2>1. /\ pr[p].pc = "seal" /\ UNCHANGED <<pending, seq, flash>>
        /\ tpm' \in {tpm, tpm \union {pr[p].n}}
        /\ \/ /\ pr[p].op = "init" /\ tpm' = tpm \union {pr[p].n}
              /\ Moved(p, "create", pr[p].hdr, pr[p].fd)
           \/ /\ pr[p].op = "hwshred" /\ tpm' = tpm \union {pr[p].n}
              /\ Moved(p, next, k, pr[p].fd)
           \/ Returned(p)
    BY <1>7, BeforeStoreEffect DEF history
  <2>2. ASSUME Works(p)
        PROVE  k.key = pr[p].n
    <3>1. pr[p].hdr \in Headers /\ pr[p].n \in Nat \ {0} /\ pr[p].pass \in Pass /\ pr[p].drop \in Nat
      BY <1>2, <1>3, <2>2
    <3>. QED
      BY <3>1, NewKeyHeaderGood
  <2>3. next \in {"create", "drop"}
    OBVIOUS
  <2>. HIDE DEF k, next
  <2>4. KeyOf(p)' /\ Others(p)
    <3>1. CASE pr[p].op = "init" /\ tpm' = tpm \union {pr[p].n} /\ Moved(p, "create", pr[p].hdr, pr[p].fd)
      BY <1>1, <1>2, <2>1, <3>1, OthersStay DEF KeyOf, Works, Moved, Alive
    <3>2. CASE pr[p].op = "hwshred" /\ tpm' = tpm \union {pr[p].n} /\ Moved(p, next, k, pr[p].fd)
      <4>1. Works(p) /\ pr[p].old < pr[p].n
        BY <1>1, <2>1, <3>2 DEF KeyOf, Works
      <4>2. /\ pr'[p].op = "hwshred" /\ pr'[p].pc \in {"create", "drop"} /\ pr'[p].hdr.key = pr[p].n
            /\ pr'[p].old = pr[p].old
        BY <2>2, <2>3, <3>2, <4>1 DEF Moved
      <4>3. KeyOf(p)'
        BY <1>2, <2>1, <3>2, <4>1, <4>2 DEF KeyOf, Works, Alive
      <4>. QED
        BY <3>2, <4>3, OthersStay
    <3>. QED
      BY <1>4, <2>1, <3>1, <3>2
  <2>. QED
    BY <1>1, <2>1, <2>4, KeyKept
<1>8. CASE ReadBlob(p) \/ Crash(p) \/ RenameFails(p)
  <2>1. Returned(p) /\ Rest
    BY <1>8, BeforeStoreEffect, StoreEffect, AfterStoreEffect
  <2>. QED
    BY <1>5, <2>1 DEF Rest, history
<1>9. CASE DropBlob(p)
  <2>. DEFINE next == IF pr[p].op = "shred" THEN "wrap" ELSE "create"
  <2>1. /\ pr[p].pc = "drop" /\ UNCHANGED <<pending, tpm, seq, flash>>
        /\ Moved(p, next, pr[p].hdr, pr[p].fd)
    BY <1>9, BeforeStoreEffect DEF history
  <2>2. next \in {"wrap", "create"}
    OBVIOUS
  <2>. HIDE DEF next
  <2>3. Others(p)
    BY <2>1, OthersStay
  <2>4. KeyOf(p)'
    BY <1>1, <1>3, <2>1, <2>2 DEF KeyOf, Works, Moved, Alive, Superseded, OpFits, Storing
  <2>. QED
    BY <1>1, <2>1, <2>3, <2>4, KeyKept
<1>10. CASE Wrap(p)
  <2>. DEFINE h == Rotated(pr[p].hdr, pr[p].pass, pr[p].drop, pr[p].n)
  <2>1. /\ pr[p].pc = "wrap" /\ UNCHANGED <<pending, tpm, seq, flash>>
        /\ Moved(p, "create", h, pr[p].fd) \/ Returned(p)
    BY <1>10, BeforeStoreEffect DEF Rest, history
  <2>2. pr[p].op = "shred" /\ h.key = pr[p].hdr.key
    <3>1. pr[p].op = "shred" /\ Works(p)
      BY <1>3, <2>1 DEF OpFits, Storing, Works
    <3>2. /\ pr[p].hdr \in Headers /\ Consistent(pr[p].hdr)
          /\ pr[p].pass \in Pass /\ pr[p].drop \in Nat /\ pr[p].n \in Nat
      BY <1>2, <1>3, <3>1
    <3>. QED
      BY <3>1, <3>2, RotatedGood
  <2>. HIDE DEF h
  <2>3. CASE Moved(p, "create", h, pr[p].fd)
    <3>1. Others(p)
      BY <2>3, OthersStay
    <3>2. KeyOf(p)'
      BY <1>1, <2>1, <2>2, <2>3 DEF KeyOf, Works, Moved, Alive, Superseded
    <3>. QED
      BY <1>1, <2>1, <3>1, <3>2, KeyKept
  <2>. QED
    BY <1>5, <2>1, <2>3
<1>11. CASE CreateTmp(p) \/ HeaderExists(p) \/ OverwriteHeader(p) \/ RemoveHeader(p)
  <2>1. PICK pc \in {"write", "rename", "overwrite", "remove"}, f \in Nodes \union {NoFile} :
          /\ Moved(p, pc, pr[p].hdr, f) /\ UNCHANGED <<pending, tpm, seq, flash>>
          /\ pr[p].pc \in (IF pc = "write" THEN {"create"} ELSE {"exists", "overwrite", "remove"})
    <3>1. pr[p].fd \in Nodes \union {NoFile}
      BY DEF RaceInv, ProcessInv, Processes
    <3>. QED
      BY <1>11, <3>1, StoreEffect DEF Rest, history
  <2>2. Others(p)
    BY <2>1, OthersStay
  <2>3. KeyOf(p)'
    BY <1>1, <2>1 DEF KeyOf, Works, Moved, Alive, Superseded
  <2>. QED
    BY <1>1, <2>1, <2>2, <2>3, KeyKept
<1>12. CASE WriteTmp(p)
  <2>1. /\ pr[p].pc = "write" /\ Moved(p, "exists", pr[p].hdr, NoFile)
        /\ flash' = flash \union {pr[p].hdr} /\ UNCHANGED <<pending, tpm, seq>>
    BY <1>12, StoreEffect
  <2>2. Works(p) /\ Alive(pr[p].hdr.key) /\ pr[p].hdr.key < seq /\ pr[p].hdr.key \in Nat
    BY <1>1, <1>2, <1>3, <2>1 DEF KeyOf, Works, OpFits, Storing
  <2>3. pr[p].op = "hwshred" => pr[p].old < pr[p].hdr.key
    BY <1>1, <2>1 DEF KeyOf
  <2>4. KeyOf(p)'
    BY <1>1, <2>1, <2>2, <2>3 DEF KeyOf, Works, Moved, Alive, Superseded
  <2>5. Others(p)
    BY <2>1, OthersStay
  <2>. QED
    BY <1>1, <2>1, <2>2, <2>4, <2>5, KeyKept
<1>13. CASE RenameTmp(p)
  <2>1. /\ pr[p].pc = "rename" /\ UNCHANGED <<pending, tpm, seq, flash>>
        /\ \/ pr[p].op = "hwshred" /\ Moved(p, "verify", pr[p].hdr, pr[p].fd)
           \/ Returned(p)
    BY <1>13, StoreEffect
  <2>2. CASE pr[p].op = "hwshred" /\ Moved(p, "verify", pr[p].hdr, pr[p].fd)
    <3>1. Others(p)
      BY <2>2, OthersStay
    <3>2. KeyOf(p)'
      BY <1>1, <2>1, <2>2 DEF KeyOf, Works, Moved, Alive, Superseded
    <3>. QED
      BY <1>1, <2>1, <3>1, <3>2, KeyKept
  <2>. QED
    BY <1>5, <2>1, <2>2
<1>14. CASE Verify(p) \/ Mark(p) \/ DestroyKey(p) \/ RemoveMarker(p)
  <2>1. /\ UNCHANGED <<seq, flash>> /\ pending' \in {pending, pr[p].old, NoKey}
        /\ tpm' \in {tpm, tpm \ {pr[p].old}}
        /\ pr[p].pc \in {"verify", "mark", "destroy", "unmark"}
        /\ \/ \E pc \in {"mark", "destroy", "unmark"} : Moved(p, pc, pr[p].hdr, pr[p].fd)
           \/ Returned(p)
    BY <1>14, AfterStoreEffect DEF Rest, history
  <2>2. Superseded(pr[p].old)
    BY <1>1, <1>3, <2>1 DEF KeyOf, OpFits, Storing
  <2>3. \A k \in tpm : k \in tpm' \/ Superseded(k)
    BY <2>1, <2>2
  <2>4. KeyOf(p)' /\ Others(p)
    <3>1. ASSUME NEW pc \in {"mark", "destroy", "unmark"}, Moved(p, pc, pr[p].hdr, pr[p].fd)
          PROVE  KeyOf(p)' /\ Others(p)
      <4>1. Works(p) => \/ pr[p].hdr.key = NoKey \/ pr[p].hdr.key \in tpm'
                        \/ Superseded(pr[p].hdr.key)
        BY <1>1, <2>1, <2>3 DEF KeyOf, Alive
      <4>. QED
        BY <1>1, <2>1, <2>2, <3>1, <4>1, OthersStay DEF KeyOf, Works, Moved, Alive, Superseded
    <3>. QED
      BY <1>4, <2>1, <3>1
  <2>5. pending' # NoKey => Superseded(pending')
    BY <1>1, <2>1, <2>2
  <2>. QED
    BY <2>1, <2>3, <2>4, <2>5, KeyKept
<1>. QED
  BY <1>6, <1>7, <1>8, <1>9, <1>10, <1>11, <1>12, <1>13, <1>14 DEF Step, Store

LEMMA KeyNext ==
  ASSUME RaceInv, KeyInv, [Next]_vars
  PROVE  KeyInv'
<1>1. CASE UNCHANGED vars
  BY <1>1 DEF vars, history, KeyInv, KeyOf, Works, Alive, Superseded
<1>. QED
  BY <1>1, KeyCommand, KeyStep DEF Next

LEMMA KeyInvariant == Spec => []KeyInv
  BY RaceInvariant, KeyInit, KeyNext, PTL DEF Spec

(* However many commands overlap, fail or die, none destroys the newest    *)
(* hardware key under which a header was written: destroy_key is only      *)
(* called with a key that some written header has superseded               *)
(* (hardware_shred and repair_destroy, vault.rs).                          *)
THEOREM NewestKeyAlwaysAlive == Spec => []NewestKeyAlive
<1>1. ASSUME RaceInv, KeyInv, NEW h \in flash, \A g \in flash : g.key <= h.key, h.key # NoKey
      PROVE  h.key \in tpm
  <2>1. \A g \in flash : g.key \in Nat
    BY <1>1 DEF RaceInv, FileInv, Headers
  <2>2. ~Superseded(h.key)
    BY <1>1, <2>1 DEF Superseded
  <2>. QED
    BY <1>1, <2>2 DEF KeyInv, Alive
<1>2. RaceInv /\ KeyInv => NewestKeyAlive
  BY <1>1 DEF NewestKeyAlive
<1>. QED
  BY <1>2, RaceInvariant, KeyInvariant, PTL

-----------------------------------------------------------------------------
(* Blobs.                                                                  *)

(* Only what somebody wants erased goes, and wishes are not withdrawn.     *)
LEMMA BlobKept ==
  ASSUME BlobInv, NEW p \in Procs, Others(p), BlobOf(p)',
         asked \subseteq asked', blobs \subseteq blobs' \union asked',
         \A h \in flash' : h \in flash \/ Ids(h) \subseteq blobs \union asked
  PROVE  BlobInv'
<1>1. \A h \in flash' : Ids(h) \subseteq blobs' \union asked'
  BY DEF BlobInv
<1>2. ASSUME NEW q \in Procs, q # p
      PROVE  BlobOf(q)'
  <2>1. BlobOf(q)
    BY DEF BlobInv
  <2>2. /\ pr'[q].op = pr[q].op /\ pr'[q].pc = pr[q].pc /\ pr'[q].drop = pr[q].drop
        /\ pr'[q].hdr = pr[q].hdr
    BY <1>2 DEF Others
  <2>. QED
    BY <2>1, <2>2 DEF BlobOf, Works
<1>. QED
  BY <1>1, <1>2 DEF BlobInv

LEMMA BlobInit == Init => BlobInv
<1>. SUFFICES ASSUME Init PROVE BlobInv
  OBVIOUS
<1>1. pr = [p \in Procs |-> Idle]
  BY DEF Init
<1>2. \A p \in Procs : BlobOf(p)
  BY <1>1, IdleType DEF BlobOf, Works
<1>3. CASE InitEmpty
  BY <1>2, <1>3 DEF InitEmpty, BlobInv
<1>4. CASE InitVault
  <2>1. PICK p \in Pass :
          LET first == NewHeader(p, 1, NoKit, 1)
              h == Added(first, 2)
          IN  blobs = {2} /\ flash = {first, h}
    BY <1>4 DEF InitVault
  <2>. DEFINE first == NewHeader(p, 1, NoKit, 1)
              h == Added(first, 2)
  <2>2. first \in Headers /\ Ids(first) = {}
    BY NewHeaderGood, NewHeaderParts
  <2>3. Ids(h) = {2}
    BY <2>2, AddedParts
  <2>4. blobs = {2} /\ flash = {first, h}
    BY <2>1
  <2>. HIDE DEF first, h
  <2>. QED
    BY <1>2, <2>2, <2>3, <2>4 DEF BlobInv
<1>. QED
  BY <1>3, <1>4 DEF Init

LEMMA BlobStarted ==
  ASSUME BlobInv, NEW p \in Procs, NEW op, NEW pc, NEW pass, NEW drop, NEW h,
         Started(p, op, pc, pass, drop, h), asked \subseteq asked',
         Ids(h) \subseteq blobs \union asked,
         pc = "drop" => drop \in asked',
         op = "hwshred" /\ pc = "seal" => drop \in asked' \union {0},
         pc = "read" => drop \in blobs \union asked'
  PROVE  BlobInv'
<1>1. /\ Began(p, op, pc, seq, pass, drop, h.key, h) /\ UNCHANGED <<blobs, flash>> /\ Others(p)
  BY OthersStay DEF Started
<1>2. /\ pr'[p].op = op /\ pr'[p].pc = pc /\ pr'[p].drop = drop /\ pr'[p].hdr = h
  BY <1>1 DEF Began
<1>3. BlobOf(p)'
  BY <1>1, <1>2 DEF BlobOf
<1>. QED
  BY <1>1, <1>3, BlobKept

LEMMA BlobCommand ==
  ASSUME RaceInv, BlobInv, NEW p \in Procs, Command(p)
  PROVE  BlobInv'
<1>2. \A h \in flash : h \in Headers /\ Ids(h) \subseteq blobs \union asked
  BY DEF RaceInv, FileInv, BlobInv
<1>3. CASE StartRepair(p)
  <2>1. /\ Began(p, "repair", "destroy", 0, "none", 0, pending, NullHeader)
        /\ UNCHANGED <<blobs, asked, flash>>
    BY <1>3, RepairEffect DEF history
  <2>2. Others(p)
    BY <2>1, OthersStay
  <2>3. BlobOf(p)'
    BY <2>1 DEF Began, BlobOf, Works
  <2>. QED
    BY <2>1, <2>2, <2>3, BlobKept
<1>4. ASSUME NEW pass \in Pass, StartInit(p, pass) \/ StartInitTpm(p, pass)
      PROVE  BlobInv'
  <2>1. /\ Ids(NewHeader(pass, NoKey, NoKit, seq)) = {}
        /\ Ids(NewHeader(pass, seq, NoKit, seq)) = {}
    BY NewHeaderParts
  <2>2. /\ \/ Started(p, "init", "create", pass, 0, NewHeader(pass, NoKey, NoKit, seq))
           \/ Started(p, "init", "seal", pass, 0, NewHeader(pass, seq, NoKit, seq))
        /\ asked' = asked
    BY <1>4, StartEffect
  <2>. QED
    BY <2>1, <2>2, BlobStarted
<1>5. ASSUME NEW pass \in Pass, StartAdd(p, pass)
      PROVE  BlobInv'
  <2>1. Started(p, "add", "blob", pass, 0, Loaded) /\ Loaded \in flash /\ asked' = asked
    BY <1>5, StartEffect
  <2>. QED
    BY <1>2, <2>1, BlobStarted
<1>6. ASSUME NEW pass \in Pass, NEW id \in Entries, StartOpen(p, pass, id)
      PROVE  BlobInv'
  <2>1. /\ Started(p, "open", "read", pass, id, Loaded) /\ Loaded \in flash
        /\ asked' = asked /\ id \in Ids(Loaded)
    BY <1>6, StartEffect
  <2>. QED
    BY <1>2, <2>1, BlobStarted
<1>7. ASSUME NEW pass \in Pass, NEW id \in Entries, StartShred(p, pass, id)
      PROVE  BlobInv'
  <2>1. /\ Started(p, "shred", "drop", pass, id, Loaded) /\ Loaded \in flash
        /\ asked' = asked \union {id}
    BY <1>7, StartEffect
  <2>. QED
    BY <1>2, <2>1, BlobStarted
<1>8. ASSUME NEW pass \in Pass, NEW newpass \in Pass, StartRekey(p, pass, newpass)
      PROVE  BlobInv'
  <2>1. /\ Started(p, "rekey", "create", newpass, 0, Rekeyed(Loaded, newpass, seq))
        /\ Loaded \in flash /\ asked' = asked
    BY <1>8, StartEffect
  <2>2. Ids(Rekeyed(Loaded, newpass, seq)) \subseteq blobs \union asked
    BY <1>2, <2>1, RekeyedParts
  <2>. QED
    BY <2>1, <2>2, BlobStarted
<1>9. ASSUME NEW pass \in Pass, NEW drop \in Entries \union {0}, StartHwShred(p, pass, drop)
      PROVE  BlobInv'
  <2>1. /\ Started(p, "hwshred", "seal", pass, drop, Loaded) /\ Loaded \in flash
        /\ asked' = asked \union ({drop} \ {0})
    BY <1>9, StartEffect
  <2>. QED
    BY <1>2, <2>1, BlobStarted
<1>. QED
  BY <1>3, <1>4, <1>5, <1>6, <1>7, <1>8, <1>9 DEF Command

LEMMA BlobStep ==
  ASSUME RaceInv, BlobInv, NEW p \in Procs, Step(p) \/ Crash(p)
  PROVE  BlobInv'
<1>1. BlobOf(p)
  BY DEF BlobInv
<1>2. /\ pr[p].n \in Nat /\ OpFits(pr[p].op, pr[p].pc)
      /\ Works(p) => /\ pr[p].hdr \in Headers /\ pr[p].pass \in Pass
                     /\ pr[p].drop \in Nat /\ pr[p].n \in Nat \ {0}
  BY DEF RaceInv, NumbersInv, ProcessInv, WorkInv, Processes
<1>3. ASSUME Returned(p), UNCHANGED <<blobs, asked, flash>>
      PROVE  BlobInv'
  <2>1. Others(p)
    BY <1>3, OthersStay
  <2>2. BlobOf(p)'
    BY <1>3 DEF BlobOf, Works, Returned
  <2>. QED
    BY <1>3, <2>1, <2>2, BlobKept
<1>4. ASSUME NEW pc, NEW f, Moved(p, pc, pr[p].hdr, f), UNCHANGED <<blobs, asked>>,
             pc \notin {"drop", "seal", "read"},
             \A h \in flash' : h \in flash \/ Ids(h) \subseteq blobs \union asked
      PROVE  BlobInv'
  <2>1. Others(p)
    BY <1>4, OthersStay
  <2>2. /\ pr'[p].op = pr[p].op /\ pr'[p].pc = pc /\ pr'[p].hdr = pr[p].hdr
    BY <1>4 DEF Moved
  <2>3. BlobOf(p)'
    BY <1>1, <1>4, <2>2 DEF BlobOf, Works
  <2>. QED
    BY <1>4, <2>1, <2>3, BlobKept
<1>5. ASSUME NEW h, NEW pc, Moved(p, pc, h, pr[p].fd), UNCHANGED <<asked, flash>>, blobs \subseteq blobs',
             Works(p) => Ids(h) \subseteq blobs' \union asked,
             pc \in {"create", "drop"}, pc = "drop" => pr[p].drop \in asked
      PROVE  BlobInv'
  <2>1. Others(p)
    BY <1>5, OthersStay
  <2>2. /\ pr'[p].op = pr[p].op /\ pr'[p].pc = pc /\ pr'[p].hdr = h /\ pr'[p].drop = pr[p].drop
    BY <1>5 DEF Moved
  <2>3. BlobOf(p)'
    BY <1>1, <1>5, <2>2 DEF BlobOf, Works
  <2>. QED
    BY <1>5, <2>1, <2>3, BlobKept
<1>6. CASE WriteBlob(p)
  <2>1. /\ pr[p].op = "add" /\ Moved(p, "create", Added(pr[p].hdr, pr[p].n), pr[p].fd)
        /\ blobs' = blobs \union {pr[p].n} /\ UNCHANGED <<asked, flash>>
    BY <1>6, BeforeStoreEffect DEF history
  <2>2. Works(p) => Ids(Added(pr[p].hdr, pr[p].n)) \subseteq blobs' \union asked
    BY <1>1, <1>2, <2>1, AddedParts DEF BlobOf
  <2>. QED
    BY <1>5, <2>1, <2>2
<1>7. CASE SealKey(p)
  <2>. DEFINE k == NewKeyHeader(p)
              next == IF pr[p].drop = 0 THEN "create" ELSE "drop"
  <2>1. /\ pr[p].pc = "seal" /\ UNCHANGED <<blobs, asked, flash>>
        /\ \/ Moved(p, "create", pr[p].hdr, pr[p].fd)
           \/ pr[p].op = "hwshred" /\ Moved(p, next, k, pr[p].fd)
           \/ Returned(p)
    BY <1>7, BeforeStoreEffect DEF history
  <2>2. ASSUME Works(p)
        PROVE  Ids(k) \subseteq blobs \union asked
    <3>1. pr[p].hdr \in Headers /\ Ids(pr[p].hdr) \subseteq blobs \union asked
      BY <1>1, <1>2, <2>2 DEF BlobOf
    <3>2. Ids(k) = Ids(pr[p].hdr) \ {pr[p].drop}
      BY <1>2, <2>2, NewKeyHeaderGood
    <3>. QED
      BY <3>1, <3>2
  <2>3. next \in {"create", "drop"} /\ (pr[p].op = "hwshred" /\ next = "drop" => pr[p].drop \in asked)
    BY <1>1, <2>1 DEF BlobOf
  <2>. HIDE DEF k, next
  <2>. QED
    BY <1>3, <1>4, <1>5, <2>1, <2>2, <2>3
<1>8. CASE ReadBlob(p) \/ Crash(p) \/ RenameFails(p)
  <2>1. Returned(p) /\ Rest
    BY <1>8, BeforeStoreEffect, StoreEffect, AfterStoreEffect
  <2>. QED
    BY <1>3, <2>1 DEF Rest, history
<1>9. CASE DropBlob(p)
  <2>. DEFINE next == IF pr[p].op = "shred" THEN "wrap" ELSE "create"
  <2>1. /\ pr[p].pc = "drop" /\ blobs' = blobs \ {pr[p].drop} /\ UNCHANGED <<asked, flash>>
        /\ Moved(p, next, pr[p].hdr, pr[p].fd)
    BY <1>9, BeforeStoreEffect DEF history
  <2>2. next \in {"wrap", "create"} /\ pr[p].drop \in asked
    BY <1>1, <2>1 DEF BlobOf
  <2>. HIDE DEF next
  <2>3. /\ pr'[p].op = pr[p].op /\ pr'[p].pc = next /\ pr'[p].hdr = pr[p].hdr
    BY <2>1 DEF Moved
  <2>4. Others(p) /\ blobs \subseteq blobs' \union asked
    BY <2>1, <2>2, OthersStay
  <2>5. BlobOf(p)'
    BY <1>1, <2>1, <2>2, <2>3, <2>4 DEF BlobOf, Works
  <2>. QED
    BY <2>1, <2>4, <2>5, BlobKept
<1>10. CASE Wrap(p)
  <2>. DEFINE h == Rotated(pr[p].hdr, pr[p].pass, pr[p].drop, pr[p].n)
  <2>1. /\ UNCHANGED <<blobs, asked, flash>>
        /\ Moved(p, "create", h, pr[p].fd) \/ Returned(p)
    BY <1>10, BeforeStoreEffect DEF Rest, history
  <2>2. Works(p) => Ids(h) \subseteq blobs \union asked
    BY <1>1, <1>2, RotatedParts DEF BlobOf
  <2>. HIDE DEF h
  <2>. QED
    BY <1>3, <1>5, <2>1, <2>2
<1>11. CASE CreateTmp(p) \/ HeaderExists(p) \/ OverwriteHeader(p) \/ RemoveHeader(p)
  <2>1. /\ UNCHANGED <<blobs, asked, flash>>
        /\ \E pc \in {"write", "rename", "overwrite", "remove"} : \E f : Moved(p, pc, pr[p].hdr, f)
    BY <1>11, StoreEffect DEF Rest, history
  <2>. QED
    BY <1>4, <2>1
<1>12. CASE WriteTmp(p)
  <2>1. /\ pr[p].pc = "write" /\ Moved(p, "exists", pr[p].hdr, NoFile)
        /\ flash' = flash \union {pr[p].hdr} /\ UNCHANGED <<blobs, asked>>
    BY <1>12, StoreEffect
  <2>2. Ids(pr[p].hdr) \subseteq blobs \union asked
    BY <1>1, <1>2, <2>1 DEF BlobOf, Works, OpFits, Storing
  <2>. QED
    BY <1>4, <2>1, <2>2
<1>13. CASE RenameTmp(p)
  <2>1. /\ UNCHANGED <<blobs, asked, flash>>
        /\ Moved(p, "verify", pr[p].hdr, pr[p].fd) \/ Returned(p)
    BY <1>13, StoreEffect
  <2>. QED
    BY <1>3, <1>4, <2>1
<1>14. CASE Verify(p) \/ Mark(p) \/ DestroyKey(p) \/ RemoveMarker(p)
  <2>1. /\ UNCHANGED <<blobs, asked, flash>>
        /\ \/ \E pc \in {"mark", "destroy", "unmark"} : Moved(p, pc, pr[p].hdr, pr[p].fd)
           \/ Returned(p)
    BY <1>14, AfterStoreEffect DEF Rest, history
  <2>. QED
    BY <1>3, <1>4, <2>1
<1>. QED
  BY <1>6, <1>7, <1>8, <1>9, <1>10, <1>11, <1>12, <1>13, <1>14 DEF Step, Store

LEMMA BlobNext ==
  ASSUME RaceInv, BlobInv, [Next]_vars
  PROVE  BlobInv'
<1>1. CASE UNCHANGED vars
  BY <1>1 DEF vars, history, BlobInv, BlobOf, Works
<1>. QED
  BY <1>1, BlobCommand, BlobStep DEF Next

LEMMA BlobInvariant == Spec => []BlobInv
  BY RaceInvariant, BlobInit, BlobNext, PTL DEF Spec

(* However commands overlap, an entry that no command was asked to erase   *)
(* has its blob, in every readable copy of the header and for every open   *)
(* that is about to read it (add writes the blob before the header, shred  *)
(* drops only the blob it was asked for; vault.rs).                        *)
THEOREM BlobsAlwaysBehindRacingEntries == Spec => []BlobsBehindEntries
<1>1. ASSUME RaceInv, BlobInv, NEW f \in Copies
      PROVE  Ids(node[f].hdr) \ asked \subseteq blobs
  <2>1. f \in Nodes /\ node[f].state = "complete"
    BY <1>1 DEF RaceInv, FileInv, Copies
  <2>. QED
    BY <1>1, <2>1 DEF RaceInv, FileInv, BlobInv
<1>2. RaceInv /\ BlobInv => BlobsBehindEntries
  BY <1>1 DEF BlobsBehindEntries, BlobInv, BlobOf, At
<1>. QED
  BY <1>2, RaceInvariant, BlobInvariant, PTL

-----------------------------------------------------------------------------
(* A command beside which nobody has run.  Whatever earlier races and      *)
(* crashes left, it has loaded header.json, the temporary file is another  *)
(* one, and what it writes there is all that is in it.                     *)

Lone(p) == pr[p].pc # "idle" /\ pr[p].alone

(* Where its header is: in header.json until the copy is complete, then in *)
(* the copy.                                                               *)
HeaderKeptBy(p) ==
  /\ pr[p].pc \in {"blob", "read", "seal", "drop", "wrap", "create", "write"} =>
       /\ hp # NoFile /\ node[hp].state = "complete"
       /\ Ids(pr[p].hdr) \intersect erased \subseteq Ids(node[hp].hdr)
  /\ pr[p].pc = "blob" => pr[p].n \notin erased
  /\ pr[p].pc = "write" => pr[p].fd = tmp /\ node[tmp] = Empty
  /\ pr[p].pc \in {"exists", "overwrite", "remove", "rename"} =>
       tmp # NoFile /\ node[tmp] = Complete(pr[p].hdr)
  /\ pr[p].pc \in {"verify", "mark", "destroy", "unmark"} =>
       tmp = NoFile /\ hp # NoFile /\ node[hp] = Complete(pr[p].hdr)

(* What a command carries is older than the next one, and the entry to be  *)
(* dropped goes before the header is written.                              *)
DropOf(p) ==
  /\ Works(p) => pr[p].drop < seq /\ \A i \in Ids(pr[p].hdr) : i < seq
  /\ pr[p].op \in {"init", "add", "rekey", "repair"} => pr[p].drop = 0
  /\ pr[p].op = "init" => Ids(pr[p].hdr) = {}
  /\ pr[p].op = "shred" /\ pr[p].pc \notin {"drop", "wrap"} => pr[p].drop \notin Ids(pr[p].hdr)
  /\ pr[p].op = "hwshred" /\ pr[p].pc # "seal" => pr[p].drop \notin Ids(pr[p].hdr)

LoneOf(p) ==
  Lone(p) =>
    /\ \A q \in Procs : q # p => pr[q].pc = "idle"
    /\ pr[p].op \notin {"init", "repair"} => HeaderKeptBy(p)

LoneInv ==
  /\ tmp # NoFile => tmp # hp
  /\ \A h \in flash : \A i \in Ids(h) : i < seq
  /\ \A i \in erased : i < seq
  /\ \A p \in Procs : DropOf(p) /\ LoneOf(p)

LEMMA LoneInit == Init => LoneInv
<1>. SUFFICES ASSUME Init PROVE LoneInv
  OBVIOUS
<1>1. pr = [p \in Procs |-> Idle] /\ tmp = NoFile /\ erased = {}
  BY DEF Init
<1>2. \A p \in Procs : DropOf(p) /\ LoneOf(p)
  BY <1>1, IdleType DEF DropOf, LoneOf, Lone, Works
<1>3. CASE InitEmpty
  BY <1>1, <1>2, <1>3 DEF InitEmpty, LoneInv
<1>4. CASE InitVault
  <2>1. PICK p \in Pass :
          LET first == NewHeader(p, 1, NoKit, 1)
              h == Added(first, 2)
          IN  seq = 3 /\ flash = {first, h}
    BY <1>4 DEF InitVault
  <2>. DEFINE first == NewHeader(p, 1, NoKit, 1)
              h == Added(first, 2)
  <2>2. first \in Headers /\ Ids(first) = {}
    BY NewHeaderGood, NewHeaderParts
  <2>3. Ids(h) = {2}
    BY <2>2, AddedParts
  <2>4. seq = 3 /\ flash = {first, h}
    BY <2>1
  <2>. HIDE DEF first, h
  <2>. QED
    BY <1>1, <1>2, <2>2, <2>3, <2>4 DEF LoneInv
<1>. QED
  BY <1>3, <1>4 DEF Init

(* While p is at work, nobody else is lone.                                *)
LEMMA NoOtherLone ==
  ASSUME LoneInv, NEW p \in Procs, pr[p].pc # "idle", NEW q \in Procs, q # p, pr'[q] = pr[q], DropOf(q),
         seq' = seq
  PROVE  DropOf(q)' /\ LoneOf(q)'
<1>1. ~Lone(q)
  BY DEF LoneInv, LoneOf, Lone
<1>. QED
  BY <1>1 DEF LoneOf, Lone, DropOf, Works

LEMMA LoneMoved ==
  ASSUME RaceInv, LoneInv, NEW p \in Procs, NEW pc, NEW h, NEW f, Moved(p, pc, h, f),
         pr[p].pc # "idle", seq' = seq, erased' = erased, tmp' # NoFile => tmp' # hp',
         flash' = flash \/ (Works(p) /\ flash' = flash \union {pr[p].hdr}),
         DropOf(p)',
         Lone(p) /\ pr[p].op \notin {"init", "repair"} => HeaderKeptBy(p)'
  PROVE  LoneInv'
<1>1. \A i \in Ids(pr[p].hdr) : Works(p) => i < seq
  BY DEF LoneInv, DropOf
<1>2. \A g \in flash' : \A i \in Ids(g) : i < seq'
  BY <1>1 DEF LoneInv
<1>3. ASSUME NEW q \in Procs, q # p
      PROVE  DropOf(q)' /\ LoneOf(q)'
  <2>1. pr'[q] = pr[q] /\ DropOf(q)
    BY <1>3 DEF Moved, LoneInv
  <2>. QED
    BY <1>3, <2>1, NoOtherLone
<1>4. LoneOf(p)'
  <2>1. Lone(p)' => Lone(p) /\ \A q \in Procs : q # p => pr'[q].pc = "idle"
    BY DEF Lone, Moved, LoneInv, LoneOf
  <2>2. pr'[p].op = pr[p].op
    BY DEF Moved
  <2>. QED
    BY <2>1, <2>2 DEF LoneOf
<1>. QED
  BY <1>2, <1>3, <1>4 DEF LoneInv

LEMMA LoneReturned ==
  ASSUME RaceInv, LoneInv, NEW p \in Procs, Returned(p), pr[p].pc # "idle",
         seq' = seq, flash' = flash, tmp' # NoFile => tmp' # hp',
         erased' = erased \/ erased' = erased \union ({pr[p].drop} \ {0})
  PROVE  LoneInv'
<1>1. pr[p].drop # 0 => pr[p].drop < seq
  BY DEF LoneInv, DropOf, Works, RaceInv, ProcessInv, WorkInv, OpFits
<1>2. \A i \in erased' : i < seq'
  BY <1>1 DEF LoneInv
<1>3. ASSUME NEW q \in Procs, q # p
      PROVE  DropOf(q)' /\ LoneOf(q)'
  <2>1. pr'[q] = pr[q] /\ DropOf(q)
    BY <1>3 DEF Returned, LoneInv
  <2>. QED
    BY <1>3, <2>1, NoOtherLone
<1>4. DropOf(p)' /\ LoneOf(p)'
  BY DEF Returned, DropOf, LoneOf, Lone, Works
<1>. QED
  BY <1>2, <1>3, <1>4 DEF LoneInv

(* A command that begins has the header that is in header.json.            *)
LEMMA LoneBegan ==
  ASSUME RaceInv, LoneInv, NEW p \in Procs, NEW op, NEW pc, NEW n, NEW pass, NEW drop, NEW old, NEW h,
         Began(p, op, pc, n, pass, drop, old, h), seq' \in {seq, seq + 1},
         UNCHANGED <<files, flash, erased>>,
         DropOf(p)',
         op \notin {"init", "repair"} => HeaderKeptBy(p)'
  PROVE  LoneInv'
<1>1. seq \in Nat /\ \A i \in Nat : i < seq => i < seq'
  BY DEF RaceInv, NumbersInv
<1>2. \A g \in flash : Ids(g) \subseteq Nat
  BY DEF RaceInv, FileInv, Headers, Ids
<1>3. /\ \A g \in flash' : \A i \in Ids(g) : i < seq'
      /\ \A i \in erased' : i < seq'
      /\ tmp' # NoFile => tmp' # hp'
  BY <1>1, <1>2 DEF LoneInv, RaceInv, NumbersInv, files
<1>4. ASSUME NEW q \in Procs, q # p
      PROVE  DropOf(q)' /\ LoneOf(q)'
  <2>1. /\ pr'[q].op = pr[q].op /\ pr'[q].pc = pr[q].pc /\ pr'[q].drop = pr[q].drop
        /\ pr'[q].hdr = pr[q].hdr /\ (pr'[q].alone => pr[q].pc = "idle")
    BY <1>4 DEF Began
  <2>2. ~Lone(q)'
    BY <2>1 DEF Lone
  <2>3. Works(q) => pr[q].drop \in Nat /\ Ids(pr[q].hdr) \subseteq Nat
    BY DEF RaceInv, ProcessInv, Processes, WorkInv, Headers, Ids
  <2>4. DropOf(q)
    BY DEF LoneInv
  <2>5. Works(q)' <=> Works(q)
    BY <2>1 DEF Works
  <2>6. DropOf(q)'
    BY <1>1, <2>1, <2>3, <2>4, <2>5 DEF DropOf
  <2>. QED
    BY <2>2, <2>6 DEF LoneOf
<1>5. LoneOf(p)'
  <2>1. Lone(p)' => \A q \in Procs : q # p => pr'[q].pc = "idle"
    BY DEF Lone, Began
  <2>2. pr'[p].op = op
    BY DEF Began
  <2>. QED
    BY <2>1, <2>2 DEF LoneOf
<1>. QED
  BY <1>3, <1>4, <1>5 DEF LoneInv

LEMMA LoneStarted ==
  ASSUME RaceInv, LoneInv, NEW p \in Procs, NEW op, NEW pc, NEW pass, NEW drop \in Nat, NEW h,
         Started(p, op, pc, pass, drop, h), \A i \in Ids(h) : i \in Nat /\ i < seq, drop < seq + 1,
         op \in {"init", "add", "rekey"} => drop = 0,
         op = "init" => Ids(h) = {},
         op = "shred" => pc = "drop",
         op = "hwshred" => pc = "seal",
         op # "init" =>
           /\ hp # NoFile /\ node[hp].state = "complete" /\ Ids(h) \subseteq Ids(node[hp].hdr)
           /\ pc \in {"blob", "read", "seal", "drop", "create"},
         op \notin {"none", "repair"}
  PROVE  LoneInv'
<1>1. /\ Began(p, op, pc, seq, pass, drop, h.key, h) /\ seq' = seq + 1 /\ seq \in Nat
      /\ UNCHANGED <<files, flash, erased>>
  BY DEF Started, RaceInv, NumbersInv
<1>2. /\ pr'[p].op = op /\ pr'[p].pc = pc /\ pr'[p].n = seq /\ pr'[p].drop = drop /\ pr'[p].hdr = h
  BY <1>1 DEF Began
<1>3. seq \notin erased /\ \A i \in Ids(h) : i < seq'
  BY <1>1 DEF LoneInv
<1>4. DropOf(p)'
  BY <1>1, <1>2, <1>3 DEF DropOf
<1>5. op # "init" => HeaderKeptBy(p)'
  BY <1>1, <1>2, <1>3 DEF HeaderKeptBy, files
<1>. QED
  BY <1>1, <1>4, <1>5, LoneBegan

LEMMA LoneCommand ==
  ASSUME RaceInv, LoneInv, NEW p \in Procs, Command(p)
  PROVE  LoneInv'
<1>1. seq \in Nat \ {0}
  BY DEF RaceInv, NumbersInv
<1>2. CASE StartRepair(p)
  <2>1. /\ Began(p, "repair", "destroy", 0, "none", 0, pending, NullHeader)
        /\ UNCHANGED <<files, seq, flash, erased>>
    BY <1>2, RepairEffect DEF history
  <2>2. DropOf(p)'
    BY <2>1 DEF Began, DropOf, Works
  <2>. QED
    BY <1>1, <2>1, <2>2, LoneBegan
<1>3. ASSUME NEW pass \in Pass, OpensWith(pass)
      PROVE  /\ hp # NoFile /\ node[hp].state = "complete" /\ Loaded \in flash /\ Loaded \in Headers
             /\ Loaded = node[hp].hdr /\ Entries = Ids(Loaded)
             /\ \A i \in Ids(Loaded) : i \in Nat /\ i < seq
  BY <1>3, LoadedGood, EntriesType DEF OpensWith, Loaded, LoneInv
<1>4. ASSUME NEW pass \in Pass, StartInit(p, pass) \/ StartInitTpm(p, pass)
      PROVE  LoneInv'
  <2>1. /\ Ids(NewHeader(pass, NoKey, NoKit, seq)) = {}
        /\ Ids(NewHeader(pass, seq, NoKit, seq)) = {}
    BY NewHeaderParts
  <2>2. \/ Started(p, "init", "create", pass, 0, NewHeader(pass, NoKey, NoKit, seq))
        \/ Started(p, "init", "seal", pass, 0, NewHeader(pass, seq, NoKit, seq))
    BY <1>4, StartEffect
  <2>. QED
    BY <1>1, <2>1, <2>2, LoneStarted
<1>5. ASSUME NEW pass \in Pass, StartAdd(p, pass)
      PROVE  LoneInv'
  <2>1. Started(p, "add", "blob", pass, 0, Loaded) /\ OpensWith(pass)
    BY <1>5, StartEffect DEF StartAdd
  <2>. QED
    BY <1>1, <1>3, <2>1, LoneStarted
<1>6. ASSUME NEW pass \in Pass, NEW id \in Entries, StartOpen(p, pass, id)
      PROVE  LoneInv'
  <2>1. Started(p, "open", "read", pass, id, Loaded) /\ OpensWith(pass)
    BY <1>6, StartEffect DEF StartOpen
  <2>2. id \in Nat /\ id < seq + 1
    BY <1>1, <1>3, <2>1
  <2>. QED
    BY <1>3, <2>1, <2>2, LoneStarted
<1>7. ASSUME NEW pass \in Pass, NEW id \in Entries, StartShred(p, pass, id)
      PROVE  LoneInv'
  <2>1. Started(p, "shred", "drop", pass, id, Loaded) /\ OpensWith(pass)
    BY <1>7, StartEffect DEF StartShred
  <2>2. id \in Nat /\ id < seq + 1
    BY <1>1, <1>3, <2>1
  <2>. QED
    BY <1>3, <2>1, <2>2, LoneStarted
<1>8. ASSUME NEW pass \in Pass, NEW newpass \in Pass, StartRekey(p, pass, newpass)
      PROVE  LoneInv'
  <2>1. Started(p, "rekey", "create", newpass, 0, Rekeyed(Loaded, newpass, seq)) /\ OpensWith(pass)
    BY <1>8, StartEffect DEF StartRekey
  <2>2. Ids(Rekeyed(Loaded, newpass, seq)) \subseteq Ids(Loaded)
    BY <1>3, <2>1, RekeyedParts
  <2>. QED
    BY <1>1, <1>3, <2>1, <2>2, LoneStarted
<1>9. ASSUME NEW pass \in Pass, NEW drop \in Entries \union {0}, StartHwShred(p, pass, drop)
      PROVE  LoneInv'
  <2>1. Started(p, "hwshred", "seal", pass, drop, Loaded) /\ OpensWith(pass)
    BY <1>9, StartEffect DEF StartHwShred
  <2>2. drop \in Nat /\ drop < seq + 1
    BY <1>1, <1>3, <2>1
  <2>. QED
    BY <1>3, <2>1, <2>2, LoneStarted
<1>. QED
  BY <1>2, <1>4, <1>5, <1>6, <1>7, <1>8, <1>9 DEF Command

-----------------------------------------------------------------------------
(* What store does to the two files.                                       *)

LEMMA NamedKept ==
  ASSUME NEW contents, node' = Kept(contents), NEW f \in Nodes, f = hp' \/ f = tmp'
  PROVE  node'[f] = contents[f]
  BY DEF Kept

LEMMA StoreFiles ==
  ASSUME RaceInv, LoneInv, NEW p \in Procs
  PROVE  /\ CreateTmp(p) =>
              /\ tmp' \in Nodes /\ tmp' # hp /\ hp' = hp /\ pr'[p].fd = tmp' /\ node'[tmp'] = Empty
              /\ hp # NoFile => node'[hp] = node[hp]
         /\ WriteTmp(p) =>
              /\ UNCHANGED <<hp, tmp>>
              /\ \A f \in {hp, tmp} \ {NoFile} : f # pr[p].fd => node'[f] = node[f]
              /\ (pr[p].fd = tmp /\ node[tmp] = Empty) => node'[tmp] = Complete(pr[p].hdr)
              /\ pr[p].fd \in {hp, tmp} => node'[pr[p].fd] \in {Complete(pr[p].hdr), Damaged}
         /\ HeaderExists(p) \/ RenameFails(p) => UNCHANGED files
         /\ OverwriteHeader(p) =>
              /\ UNCHANGED <<hp, tmp>> /\ (tmp # NoFile => node'[tmp] = node[tmp])
              /\ hp # NoFile => node'[hp] \in {node[hp], Damaged}
         /\ RemoveHeader(p) => hp' = NoFile /\ tmp' = tmp /\ (tmp # NoFile => node'[tmp] = node[tmp])
         /\ RenameTmp(p) => tmp # NoFile /\ hp' = tmp /\ tmp' = NoFile /\ node'[tmp] = node[tmp]
         /\ Crash(p) => /\ UNCHANGED <<hp, tmp>>
                        /\ \A f \in {hp, tmp} \ {NoFile} : node'[f] = node[f]
<1>1. /\ hp \in Nodes \union {NoFile} /\ tmp \in Nodes \union {NoFile}
      /\ NoFile \notin Nodes /\ node \in [Nodes -> Contents] /\ (tmp # NoFile => tmp # hp)
      /\ pr \in [Procs -> Processes]
  BY DEF RaceInv, FileInv, ProcessInv, Nodes, NoFile, LoneInv
<1>2. ASSUME CreateTmp(p)
      PROVE  /\ tmp' \in Nodes /\ tmp' # hp /\ hp' = hp /\ pr'[p].fd = tmp' /\ node'[tmp'] = Empty
             /\ hp # NoFile => node'[hp] = node[hp]
  <2>1. tmp' \in Nodes /\ tmp' # hp
    BY <1>1, <1>2, FreeNode DEF CreateTmp
  <2>2. hp' = hp /\ node' = [node EXCEPT ![tmp'] = Empty] /\ pr'[p].fd = tmp'
    BY <1>1, <1>2 DEF CreateTmp, Processes
  <2>. QED
    BY <1>1, <2>1, <2>2
<1>3. ASSUME WriteTmp(p)
      PROVE  /\ UNCHANGED <<hp, tmp>>
             /\ \A f \in {hp, tmp} \ {NoFile} : f # pr[p].fd => node'[f] = node[f]
             /\ (pr[p].fd = tmp /\ node[tmp] = Empty) => node'[tmp] = Complete(pr[p].hdr)
             /\ pr[p].fd \in {hp, tmp} => node'[pr[p].fd] \in {Complete(pr[p].hdr), Damaged}
  <2>1. PICK c \in Overlaid(node[pr[p].fd], pr[p].hdr) : node' = Kept([node EXCEPT ![pr[p].fd] = c])
    BY <1>3 DEF WriteTmp
  <2>2. UNCHANGED <<hp, tmp>> /\ pr[p].pc = "write"
    BY <1>3 DEF WriteTmp, At
  <2>3. pr[p].fd \in Nodes
    BY <1>1, <2>2 DEF RaceInv, ProcessInv, WorkInv, At, Processes
  <2>4. \A f \in {hp, tmp} \ {NoFile} : node'[f] = [node EXCEPT ![pr[p].fd] = c][f]
    BY <1>1, <2>1, <2>2, NamedKept
  <2>5. c \in {Complete(pr[p].hdr), Damaged} /\ (node[pr[p].fd] = Empty => c = Complete(pr[p].hdr))
    BY <2>1 DEF Overlaid
  <2>. QED
    BY <1>1, <2>2, <2>3, <2>4, <2>5
<1>4. HeaderExists(p) \/ RenameFails(p) => UNCHANGED files
  BY DEF HeaderExists, RenameFails
<1>5. OverwriteHeader(p) =>
        /\ UNCHANGED <<hp, tmp>> /\ (tmp # NoFile => node'[tmp] = node[tmp])
        /\ hp # NoFile => node'[hp] \in {node[hp], Damaged}
  BY <1>1 DEF OverwriteHeader
<1>6. RemoveHeader(p) => hp' = NoFile /\ tmp' = tmp /\ (tmp # NoFile => node'[tmp] = node[tmp])
  BY <1>1, NamedKept DEF RemoveHeader
<1>7. RenameTmp(p) => tmp # NoFile /\ hp' = tmp /\ tmp' = NoFile /\ node'[tmp] = node[tmp]
  BY <1>1, NamedKept DEF RenameTmp
<1>8. Crash(p) => /\ UNCHANGED <<hp, tmp>>
                  /\ \A f \in {hp, tmp} \ {NoFile} : node'[f] = node[f]
  BY <1>1, NamedKept DEF Crash
<1>. QED
  BY <1>2, <1>3, <1>4, <1>5, <1>6, <1>7, <1>8

LEMMA LoneStep ==
  ASSUME RaceInv, LoneInv, NEW p \in Procs, Step(p) \/ Crash(p)
  PROVE  LoneInv'
<1>1. /\ DropOf(p) /\ (tmp # NoFile => tmp # hp) /\ OpFits(pr[p].op, pr[p].pc)
      /\ Lone(p) /\ pr[p].op \notin {"init", "repair"} => HeaderKeptBy(p)
  BY DEF LoneInv, LoneOf, RaceInv, ProcessInv, WorkInv
<1>2. Works(p) => /\ pr[p].hdr \in Headers /\ pr[p].pass \in Pass /\ pr[p].drop \in Nat
                  /\ pr[p].n \in Nat \ {0} /\ pr[p].n < seq
  BY DEF RaceInv, NumbersInv, ProcessInv, WorkInv, Processes
(* A command that goes on with the header it has.                          *)
<1>3. ASSUME NEW pc, NEW h, NEW f, Moved(p, pc, h, f)
      PROVE  /\ pr'[p].op = pr[p].op /\ pr'[p].pc = pc /\ pr'[p].hdr = h /\ pr'[p].drop = pr[p].drop
             /\ pr'[p].n = pr[p].n /\ pr'[p].fd = f
  BY <1>3 DEF Moved
<1>4. ASSUME NEW pc, NEW f, Moved(p, pc, pr[p].hdr, f), seq' = seq,
             pc \notin {"drop", "wrap", "seal"}, pr[p].op = "shred" => pr[p].pc \notin {"drop", "wrap"},
             pr[p].op = "hwshred" => pr[p].pc # "seal"
      PROVE  DropOf(p)'
  BY <1>1, <1>3, <1>4 DEF DropOf, Works
(* Before the copy is written nothing happens to the files.                *)
<1>5. ASSUME NEW pc \in {"wrap", "drop", "create"}, NEW h, NEW f, Moved(p, pc, h, f),
             pr[p].pc \in {"blob", "seal", "drop", "wrap"},
             UNCHANGED <<files, seq, flash, erased>>, DropOf(p)',
             HeaderKeptBy(p) => Ids(h) \intersect erased \subseteq Ids(pr[p].hdr)
      PROVE  LoneInv'
  <2>1. ASSUME Lone(p), pr[p].op \notin {"init", "repair"}
        PROVE  HeaderKeptBy(p)'
    BY <1>1, <1>3, <1>5, <2>1 DEF HeaderKeptBy, files
  <2>. QED
    BY <1>1, <1>5, <2>1, LoneMoved DEF files
<1>6. CASE WriteBlob(p)
  <2>. DEFINE h == Added(pr[p].hdr, pr[p].n)
  <2>1. /\ pr[p].op = "add" /\ pr[p].pc = "blob" /\ Moved(p, "create", h, pr[p].fd)
        /\ UNCHANGED <<files, seq, flash, erased>>
    BY <1>6, BeforeStoreEffect DEF history, WriteBlob
  <2>2. Ids(h) = Ids(pr[p].hdr) \union {pr[p].n}
    BY <1>2, <2>1, AddedParts DEF Works
  <2>. HIDE DEF h
  <2>3. DropOf(p)'
    BY <1>1, <1>2, <1>3, <2>1, <2>2 DEF DropOf, Works
  <2>4. HeaderKeptBy(p) => Ids(h) \intersect erased \subseteq Ids(pr[p].hdr)
    BY <2>1, <2>2 DEF HeaderKeptBy
  <2>. QED
    BY <1>5, <2>1, <2>3, <2>4
<1>7. CASE SealKey(p)
  <2>. DEFINE k == NewKeyHeader(p)
              next == IF pr[p].drop = 0 THEN "create" ELSE "drop"
  <2>1. /\ pr[p].pc = "seal" /\ UNCHANGED <<files, seq, flash, erased>>
        /\ \/ pr[p].op = "init" /\ Moved(p, "create", pr[p].hdr, pr[p].fd)
           \/ pr[p].op = "hwshred" /\ Moved(p, next, k, pr[p].fd)
           \/ Returned(p)
    BY <1>7, BeforeStoreEffect DEF history, SealKey
  <2>2. pr[p].op = "hwshred" => Ids(k) = Ids(pr[p].hdr) \ {pr[p].drop}
    BY <1>2, NewKeyHeaderGood DEF Works
  <2>3. next \in {"create", "drop"}
    OBVIOUS
  <2>. HIDE DEF k, next
  <2>4. CASE pr[p].op = "init" /\ Moved(p, "create", pr[p].hdr, pr[p].fd)
    <3>1. DropOf(p)'
      BY <1>4, <2>1, <2>4
    <3>. QED
      BY <1>5, <2>1, <2>4, <3>1
  <2>5. CASE pr[p].op = "hwshred" /\ Moved(p, next, k, pr[p].fd)
    <3>1. DropOf(p)'
      BY <1>1, <1>3, <2>1, <2>2, <2>5 DEF DropOf, Works
    <3>. QED
      BY <1>5, <2>1, <2>2, <2>3, <2>5, <3>1
  <2>6. CASE Returned(p)
    BY <1>1, <2>1, <2>6, LoneReturned DEF files
  <2>. QED
    BY <2>1, <2>4, <2>5, <2>6
<1>8. CASE ReadBlob(p) \/ Crash(p) \/ RenameFails(p)
  <2>1. Returned(p) /\ pr[p].pc # "idle" /\ UNCHANGED <<hp, tmp, seq, flash, erased>>
    BY <1>8, BeforeStoreEffect, StoreEffect, AfterStoreEffect
       DEF Rest, history, files, ReadBlob, Crash, RenameFails
  <2>. QED
    BY <1>1, <2>1, LoneReturned
<1>9. CASE DropBlob(p)
  <2>. DEFINE next == IF pr[p].op = "shred" THEN "wrap" ELSE "create"
  <2>1. /\ pr[p].pc = "drop" /\ UNCHANGED <<files, seq, flash, erased>>
        /\ Moved(p, next, pr[p].hdr, pr[p].fd)
    BY <1>9, BeforeStoreEffect DEF history, DropBlob
  <2>2. next \in {"wrap", "create"} /\ (pr[p].op = "shred" => next = "wrap")
    OBVIOUS
  <2>. HIDE DEF next
  <2>3. DropOf(p)'
    BY <1>1, <1>3, <2>1, <2>2 DEF DropOf, Works
  <2>. QED
    BY <1>5, <2>1, <2>2, <2>3
<1>10. CASE Wrap(p)
  <2>. DEFINE h == Rotated(pr[p].hdr, pr[p].pass, pr[p].drop, pr[p].n)
  <2>1. /\ pr[p].pc = "wrap" /\ UNCHANGED <<files, seq, flash, erased>>
        /\ Moved(p, "create", h, pr[p].fd) \/ Returned(p)
    BY <1>10, BeforeStoreEffect DEF Rest, history, Wrap
  <2>2. pr[p].op = "shred" /\ Ids(h) = Ids(pr[p].hdr) \ {pr[p].drop}
    BY <1>1, <1>2, <2>1, RotatedParts DEF Works, OpFits, Storing
  <2>. HIDE DEF h
  <2>3. CASE Moved(p, "create", h, pr[p].fd)
    <3>1. DropOf(p)'
      BY <1>1, <1>3, <2>2, <2>3, <2>1 DEF DropOf, Works
    <3>. QED
      BY <1>5, <2>1, <2>2, <2>3, <3>1
  <2>4. CASE Returned(p)
    BY <1>1, <2>1, <2>4, LoneReturned DEF files
  <2>. QED
    BY <2>1, <2>3, <2>4
(* store.                                                                  *)
<1>11. CASE CreateTmp(p)
  <2>1. PICK f \in Nodes : Moved(p, "write", pr[p].hdr, f)
    BY <1>11, StoreEffect
  <2>2. pr[p].pc = "create" /\ UNCHANGED <<seq, flash, erased>>
    BY <1>11, StoreEffect DEF Rest, history
  <2>3. /\ tmp' \in Nodes /\ tmp' # hp /\ hp' = hp /\ pr'[p].fd = tmp' /\ node'[tmp'] = Empty
        /\ hp # NoFile => node'[hp] = node[hp]
    BY <1>11, StoreFiles
  <2>4. DropOf(p)'
    BY <1>4, <2>1, <2>2
  <2>5. ASSUME HeaderKeptBy(p)
        PROVE  HeaderKeptBy(p)'
    BY <1>3, <2>1, <2>2, <2>3, <2>5 DEF HeaderKeptBy
  <2>. QED
    BY <1>1, <2>1, <2>2, <2>3, <2>4, <2>5, LoneMoved
<1>12. CASE WriteTmp(p)
  <2>1. /\ pr[p].pc = "write" /\ Moved(p, "exists", pr[p].hdr, NoFile) /\ UNCHANGED <<seq, erased>>
        /\ flash' = flash \union {pr[p].hdr}
    BY <1>12, StoreEffect
  <2>2. /\ UNCHANGED <<hp, tmp>>
        /\ (pr[p].fd = tmp /\ node[tmp] = Empty) => node'[tmp] = Complete(pr[p].hdr)
    BY <1>12, StoreFiles
  <2>3. DropOf(p)' /\ Works(p)
    BY <1>1, <1>4, <2>1 DEF Works, OpFits, Storing
  <2>4. pr[p].fd # NoFile
    BY <2>1 DEF RaceInv, ProcessInv, WorkInv, At
  <2>5. ASSUME HeaderKeptBy(p)
        PROVE  HeaderKeptBy(p)'
    BY <1>3, <2>1, <2>2, <2>4, <2>5 DEF HeaderKeptBy
  <2>. QED
    BY <1>1, <2>1, <2>2, <2>3, <2>5, LoneMoved
<1>13. CASE HeaderExists(p) \/ OverwriteHeader(p) \/ RemoveHeader(p)
  <2>1. PICK pc \in {"rename", "overwrite", "remove"} : Moved(p, pc, pr[p].hdr, pr[p].fd)
    BY <1>13, StoreEffect
  <2>2. pr[p].pc \in {"exists", "overwrite", "remove"} /\ UNCHANGED <<seq, flash, erased>>
    BY <1>13, StoreEffect DEF Rest, history
  <2>3. tmp' = tmp /\ hp' \in {hp, NoFile} /\ (tmp # NoFile => node'[tmp] = node[tmp])
    BY <1>13, StoreFiles DEF files
  <2>4. DropOf(p)'
    BY <1>4, <2>1, <2>2
  <2>5. ASSUME HeaderKeptBy(p)
        PROVE  HeaderKeptBy(p)'
    BY <1>3, <2>1, <2>2, <2>3, <2>5 DEF HeaderKeptBy
  <2>. QED
    BY <1>1, <2>1, <2>2, <2>3, <2>4, <2>5, LoneMoved
<1>14. CASE RenameTmp(p)
  <2>1. /\ pr[p].pc = "rename" /\ UNCHANGED <<seq, flash>>
        /\ \/ erased' = erased /\ Moved(p, "verify", pr[p].hdr, pr[p].fd)
           \/ Returned(p) /\ erased' = erased \union ({pr[p].drop} \ {0})
    BY <1>14, StoreEffect
  <2>2. tmp # NoFile /\ hp' = tmp /\ tmp' = NoFile /\ node'[tmp] = node[tmp]
    BY <1>14, StoreFiles
  <2>3. CASE erased' = erased /\ Moved(p, "verify", pr[p].hdr, pr[p].fd)
    <3>1. DropOf(p)'
      BY <1>4, <2>1, <2>3
    <3>2. ASSUME HeaderKeptBy(p)
          PROVE  HeaderKeptBy(p)'
      BY <1>3, <2>1, <2>2, <2>3, <3>2 DEF HeaderKeptBy
    <3>. QED
      BY <1>1, <2>1, <2>2, <2>3, <3>1, <3>2, LoneMoved
  <2>4. CASE Returned(p) /\ erased' = erased \union ({pr[p].drop} \ {0})
    BY <2>1, <2>2, <2>4, LoneReturned
  <2>. QED
    BY <2>1, <2>3, <2>4
<1>15. CASE Verify(p) \/ Mark(p) \/ DestroyKey(p)
  <2>1. /\ pr[p].pc \in {"verify", "mark", "destroy"} /\ UNCHANGED <<files, seq, flash, erased>>
        /\ \/ \E pc \in {"mark", "destroy", "unmark"} : Moved(p, pc, pr[p].hdr, pr[p].fd)
           \/ Returned(p)
    BY <1>15, AfterStoreEffect DEF Rest, history, Verify, Mark, DestroyKey
  <2>2. ASSUME NEW pc \in {"mark", "destroy", "unmark"}, Moved(p, pc, pr[p].hdr, pr[p].fd)
        PROVE  LoneInv'
    <3>1. DropOf(p)'
      BY <1>4, <2>1, <2>2
    <3>2. ASSUME HeaderKeptBy(p)
          PROVE  HeaderKeptBy(p)'
      BY <1>3, <2>1, <2>2, <3>2 DEF HeaderKeptBy, files
    <3>. QED
      BY <1>1, <2>1, <2>2, <3>1, <3>2, LoneMoved DEF files
  <2>3. CASE Returned(p)
    BY <1>1, <2>1, <2>3, LoneReturned DEF files
  <2>. QED
    BY <2>1, <2>2, <2>3
<1>16. CASE RemoveMarker(p)
  <2>1. /\ pr[p].pc = "unmark" /\ Returned(p) /\ UNCHANGED <<files, seq, flash>>
        /\ erased' = erased \union ({pr[p].drop} \ {0})
    BY <1>16, AfterStoreEffect DEF RemoveMarker
  <2>. QED
    BY <1>1, <2>1, LoneReturned DEF files
<1>. QED
  BY <1>6, <1>7, <1>8, <1>9, <1>10, <1>11, <1>12, <1>13, <1>14, <1>15, <1>16 DEF Step, Store

LEMMA LoneNext ==
  ASSUME RaceInv, LoneInv, [Next]_vars
  PROVE  LoneInv'
<1>1. CASE UNCHANGED vars
  BY <1>1 DEF vars, files, history, LoneInv, DropOf, LoneOf, Lone, HeaderKeptBy, Works
<1>. QED
  BY <1>1, LoneCommand, LoneStep DEF Next

LEMMA LoneInvariant == Spec => []LoneInv
  BY RaceInvariant, LoneInit, LoneNext, PTL DEF Spec

-----------------------------------------------------------------------------
LEMMA CommandFiles ==
  ASSUME NEW p \in Procs, Command(p)
  PROVE  UNCHANGED files /\ erased' = erased
  BY DEF Command, StartInit, StartInitTpm, StartAdd, StartOpen, StartShred, StartRekey, StartHwShred,
         StartRepair, Begin, history

LEMMA OtherStepFiles ==
  ASSUME NEW p \in Procs,
         \/ WriteBlob(p) \/ ReadBlob(p) \/ SealKey(p) \/ DropBlob(p) \/ Wrap(p)
         \/ Verify(p) \/ Mark(p) \/ DestroyKey(p)
  PROVE  UNCHANGED files /\ erased' = erased
  BY DEF WriteBlob, ReadBlob, SealKey, DropBlob, Wrap, Verify, Mark, DestroyKey, history

LEMMA SameCopies ==
  ASSUME UNCHANGED <<hp, tmp>>, \A f \in {hp, tmp} \ {NoFile} : node'[f] = node[f]
  PROVE  Copies' = Copies /\ \A id : Named(id)' => Named(id)
<1>1. Copies' = Copies
  BY DEF Copies
<1>2. \A f \in Copies : node'[f] = node[f]
  BY DEF Copies
<1>. QED
  BY <1>1, <1>2 DEF Named

LEMMA LoneStoreKeeps ==
  ASSUME RaceInv, LoneInv, NEW p \in Procs, Store(p), Lone(p), pr[p].op # "init"
  PROVE  Copies' # {}
<1>1. pr[p].pc \in Storing
  BY DEF Store, CreateTmp, WriteTmp, HeaderExists, OverwriteHeader, RemoveHeader, RenameTmp,
         RenameFails, At, Storing
<1>2. HeaderKeptBy(p) /\ (tmp # NoFile => tmp # hp)
  BY <1>1 DEF RaceInv, ProcessInv, WorkInv, OpFits, Storing, LoneInv, LoneOf
<1>3. \A h : Complete(h).state = "complete"
  BY DEF Complete
<1>4. CASE CreateTmp(p)
  <2>1. pr[p].pc = "create"
    BY <1>4 DEF CreateTmp, At
  <2>2. hp' = hp /\ hp # NoFile /\ node'[hp].state = "complete"
    BY <1>2, <1>4, <2>1, StoreFiles DEF HeaderKeptBy
  <2>. QED
    BY <2>2 DEF Copies
<1>5. CASE WriteTmp(p)
  <2>1. pr[p].pc = "write" /\ pr[p].fd # NoFile
    BY <1>5 DEF WriteTmp, At, RaceInv, ProcessInv, WorkInv
  <2>2. hp' = hp /\ hp # NoFile /\ node'[hp].state = "complete"
    BY <1>2, <1>5, <2>1, StoreFiles DEF HeaderKeptBy
  <2>. QED
    BY <2>2 DEF Copies
<1>6. CASE HeaderExists(p) \/ RenameFails(p) \/ OverwriteHeader(p) \/ RemoveHeader(p)
  <2>1. pr[p].pc \in {"exists", "overwrite", "remove", "rename"}
    BY <1>6 DEF HeaderExists, RenameFails, OverwriteHeader, RemoveHeader, At
  <2>2. tmp' = tmp /\ tmp # NoFile /\ node'[tmp].state = "complete"
    BY <1>2, <1>3, <1>6, <2>1, StoreFiles DEF HeaderKeptBy, files
  <2>. QED
    BY <2>2 DEF Copies
<1>7. CASE RenameTmp(p)
  <2>1. pr[p].pc = "rename"
    BY <1>7 DEF RenameTmp, At
  <2>2. hp' = tmp /\ tmp # NoFile /\ node'[tmp].state = "complete"
    BY <1>2, <1>3, <1>7, <2>1, StoreFiles DEF HeaderKeptBy
  <2>. QED
    BY <2>2 DEF Copies
<1>. QED
  BY <1>4, <1>5, <1>6, <1>7 DEF Store

(* A command that nobody overlaps, and that is not init, never leaves the  *)
(* directory without a readable copy of the header if it had one, whatever *)
(* files earlier races and crashes left there (store, vault.rs).           *)
THEOREM LoneCommandAlwaysKeepsHeader == Spec => LoneCommandKeepsHeader
<1>1. ASSUME RaceInv, LoneInv, Next, Copies # {}, Copies' = {}
      PROVE  \E p \in Procs : ~At(p, "idle") /\ (~pr[p].alone \/ pr[p].op = "init")
  <2>. SUFFICES ASSUME \A p \in Procs : pr[p].pc # "idle" => pr[p].alone /\ pr[p].op # "init"
                PROVE  FALSE
    BY DEF At
  <2>1. PICK p \in Procs : Command(p) \/ Step(p) \/ Crash(p)
    BY <1>1 DEF Next
  <2>2. UNCHANGED files => Copies' = Copies
    BY SameCopies DEF files
  <2>3. CASE Store(p)
    <3>1. pr[p].pc # "idle"
      BY <2>3 DEF Store, CreateTmp, WriteTmp, HeaderExists, OverwriteHeader, RemoveHeader, RenameTmp,
                  RenameFails, At
    <3>. QED
      BY <1>1, <2>3, <3>1, LoneStoreKeeps DEF Lone
  <2>4. CASE Crash(p)
    BY <1>1, <2>4, StoreFiles, SameCopies
  <2>5. CASE RemoveMarker(p)
    BY <1>1, <2>2, <2>5 DEF RemoveMarker
  <2>. QED
    BY <1>1, <2>1, <2>2, <2>3, <2>4, <2>5, CommandFiles, OtherStepFiles DEF Step
<1>2. RaceInv /\ LoneInv /\ [Next]_vars
        => [Copies # {} /\ Copies' = {}
              => \E p \in Procs : ~At(p, "idle") /\ (~pr[p].alone \/ pr[p].op = "init")]_vars
  BY <1>1
<1>. QED
  BY <1>2, RaceInvariant, LoneInvariant, PTL DEF Spec, LoneCommandKeepsHeader

-----------------------------------------------------------------------------
(* Only the write of a header names entries anew.                          *)

LEMMA WriteNames ==
  ASSUME RaceInv, LoneInv, NEW p \in Procs, WriteTmp(p), Lone(p), NEW id \in erased, Named(id)'
  PROVE  Named(id)
<1>1. PICK f \in {hp', tmp'} \ {NoFile} : node'[f].state = "complete" /\ id \in Ids(node'[f].hdr)
  BY DEF Named, Copies
<1>2. /\ f \in {hp, tmp} \ {NoFile}
      /\ f # pr[p].fd => node'[f] = node[f]
      /\ f = pr[p].fd => node'[f] \in {Complete(pr[p].hdr), Damaged}
  BY <1>1, StoreFiles
<1>3. pr[p].pc = "write"
  BY DEF WriteTmp, At
<1>4. CASE f # pr[p].fd
  BY <1>1, <1>2, <1>4 DEF Named, Copies
<1>5. CASE f = pr[p].fd
  <2>1. id \in Ids(pr[p].hdr)
    BY <1>1, <1>2, <1>5 DEF Complete, Damaged
  <2>2. pr[p].op # "init"
    BY <2>1 DEF LoneInv, DropOf
  <2>3. HeaderKeptBy(p)
    BY <1>3, <2>2 DEF RaceInv, ProcessInv, WorkInv, OpFits, Storing, LoneInv, LoneOf
  <2>4. hp # NoFile /\ node[hp].state = "complete" /\ id \in Ids(node[hp].hdr)
    BY <1>3, <2>1, <2>3 DEF HeaderKeptBy
  <2>. QED
    BY <2>4 DEF Named, Copies
<1>. QED
  BY <1>4, <1>5

LEMMA StoreNames ==
  ASSUME RaceInv, LoneInv, NEW p \in Procs,
         CreateTmp(p) \/ OverwriteHeader(p) \/ RemoveHeader(p) \/ RenameTmp(p), NEW id, Named(id)'
  PROVE  Named(id)
<1>1. PICK f \in {hp', tmp'} \ {NoFile} : node'[f].state = "complete" /\ id \in Ids(node'[f].hdr)
  BY DEF Named, Copies
<1>2. Empty.state = "empty" /\ Damaged.state = "damaged"
  BY DEF Empty, Damaged
<1>3. f \in {hp, tmp} /\ node'[f] = node[f]
  BY <1>1, <1>2, StoreFiles
<1>. QED
  BY <1>1, <1>3 DEF Named, Copies

(* A lone command that reports an erasure has stored a header without the  *)
(* entry.                                                                  *)
LEMMA ReportedIsUnnamed ==
  ASSUME RaceInv, LoneInv, NEW p \in Procs, Lone(p), RenameTmp(p) \/ RemoveMarker(p),
         NEW id, id = pr[p].drop, id # 0
  PROVE  ~Named(id)'
<1>. SUFFICES ASSUME Named(id)' PROVE FALSE
  OBVIOUS
<1>0. pr[p].pc \in {"rename", "unmark"}
  BY DEF RenameTmp, RemoveMarker, At
<1>1. pr[p].op \in {"shred", "hwshred"} /\ id \notin Ids(pr[p].hdr) /\ HeaderKeptBy(p)
  BY <1>0 DEF RaceInv, ProcessInv, WorkInv, OpFits, Storing, LoneInv, LoneOf, DropOf
<1>2. PICK f \in {hp', tmp'} \ {NoFile} : id \in Ids(node'[f].hdr)
  BY DEF Named, Copies
<1>3. CASE RenameTmp(p)
  <2>1. pr[p].pc = "rename"
    BY <1>3 DEF RenameTmp, At
  <2>2. f = tmp /\ node'[f] = Complete(pr[p].hdr)
    BY <1>1, <1>2, <1>3, <2>1, StoreFiles DEF HeaderKeptBy
  <2>. QED
    BY <1>1, <1>2, <2>2 DEF Complete
<1>4. CASE RemoveMarker(p)
  <2>1. pr[p].pc = "unmark" /\ UNCHANGED files
    BY <1>4 DEF RemoveMarker, At
  <2>2. f = hp /\ node'[f] = Complete(pr[p].hdr)
    BY <1>1, <1>2, <2>1 DEF HeaderKeptBy, files
  <2>. QED
    BY <1>1, <1>2, <2>2 DEF Complete
<1>. QED
  BY <1>3, <1>4

(* An entry reported erased comes back into a readable header only while   *)
(* somebody runs whom another command has overlapped, and who may have     *)
(* loaded the header before the erasure (vault.rs:482).                    *)
THEOREM ErasedAlwaysReturnsByOverlap == Spec => ErasedReturnsOnlyByOverlap
<1>1. ASSUME RaceInv, LoneInv, Next, NEW id \in erased', Named(id)'
      PROVE  \/ id \in erased /\ Named(id)
             \/ \E p \in Procs : ~At(p, "idle") /\ ~pr[p].alone
  <2>. SUFFICES ASSUME \A p \in Procs : pr[p].pc # "idle" => pr[p].alone
                PROVE  id \in erased /\ Named(id)
    BY DEF At
  <2>1. PICK p \in Procs : Command(p) \/ Step(p) \/ Crash(p)
    BY <1>1 DEF Next
  <2>2. UNCHANGED files => Named(id)
    BY <1>1, SameCopies DEF files
  <2>3. CASE CreateTmp(p) \/ OverwriteHeader(p) \/ RemoveHeader(p)
    <3>1. erased' = erased
      BY <2>3 DEF CreateTmp, OverwriteHeader, RemoveHeader, history
    <3>. QED
      BY <1>1, <2>3, <3>1, StoreNames
  <2>4. CASE WriteTmp(p)
    <3>1. erased' = erased /\ Lone(p)
      BY <2>4 DEF WriteTmp, Lone, At
    <3>. QED
      BY <1>1, <2>4, <3>1, WriteNames
  <2>5. CASE HeaderExists(p) \/ RenameFails(p)
    BY <1>1, <2>2, <2>5 DEF HeaderExists, RenameFails, history
  <2>6. CASE RenameTmp(p) \/ RemoveMarker(p)
    <3>1. Lone(p)
      BY <2>6 DEF RenameTmp, RemoveMarker, Lone, At
    <3>2. erased' = erased \/ erased' = erased \union ({pr[p].drop} \ {0})
      BY <2>6 DEF RenameTmp, RemoveMarker
    <3>3. id \in erased
      BY <1>1, <2>6, <3>1, <3>2, ReportedIsUnnamed
    <3>4. Named(id)
      BY <1>1, <2>2, <2>6, StoreNames DEF RemoveMarker
    <3>. QED
      BY <3>3, <3>4
  <2>7. CASE Crash(p)
    BY <1>1, <2>7, StoreFiles, SameCopies DEF Crash, history
  <2>. QED
    BY <1>1, <2>1, <2>2, <2>3, <2>4, <2>5, <2>6, <2>7, CommandFiles, OtherStepFiles DEF Step, Store
<1>2. RaceInv /\ LoneInv /\ [Next]_vars
        => [\A id \in erased' : Named(id)' => \/ id \in erased /\ Named(id)
                                              \/ \E p \in Procs : ~At(p, "idle") /\ ~pr[p].alone]_vars
  BY <1>1
<1>. QED
  BY <1>2, RaceInvariant, LoneInvariant, PTL DEF Spec, ErasedReturnsOnlyByOverlap
=============================================================================
