-------------------------- MODULE FreeSpaceProofs --------------------------
(***************************************************************************)
(* Theorems about free-space cleaning, for any number of cleaners, any     *)
(* volume, margin and --max, and every Env: every block is accounted for,  *)
(* a clean beside which no other one runs keeps the margin and overwrites  *)
(* the deleted data, and the last of several to end leaves nothing behind. *)
(***************************************************************************)
EXTENDS FreeSpace, FiniteSetTheorems, TLAPS

(* The blocks that fills have, by file and offset: their number is the sum *)
(* over the files.                                                         *)
Occupied == {x \in Nodes \X Offsets : x[2] \in data[x[1]]}

Cleanings ==
  [pc : Pcs, seen : 0..Blocks, left : 0..Blocks, budget : 0..Blocks, written : 0..Blocks,
   node : Nodes \union {NoNode}, ok : BOOLEAN, late : 0..MaxEvents, taken : 0..MaxEvents,
   alone : BOOLEAN]

(* Every block is some program's, free, or a fill's.                       *)
SpaceInv ==
  /\ used \in Nat /\ dirty \in Nat /\ blank \in Nat
  /\ data \in [Nodes -> SUBSET Offsets]
  /\ used + dirty + blank + Cardinality(Occupied) = Blocks

(* What a cleaner remembers of its plan agrees with what happened since:   *)
(* other programs took and gave back blocks, and nothing else changed what *)
(* they use.                                                               *)
CleanInv(c) ==
  /\ cl[c].node # NoNode <=> cl[c].pc = "write"
  /\ cl[c].pc \in {"sweep", "sweep_dir", "mkdir", "open"} => cl[c].written = 0
  /\ cl[c].written <= cl[c].budget /\ cl[c].budget <= cl[c].seen
  /\ cl[c].ok => cl[c].pc \in {"remove", "remove_dir"}
  /\ cl[c].late <= events /\ cl[c].taken <= events
  /\ Cleaning(c) => cl[c].seen + cl[c].left + cl[c].late + used = Blocks + cl[c].taken

(* No other cleaner is at work.                                            *)
Solitary(c) == \A d \in Cleaners : d # c => ~Cleaning(d)

(* The file of c has what c has written.                                   *)
WrittenThere(c) ==
  cl[c].pc = "write" => \A o \in Offsets : o < cl[c].written => o \in data[cl[c].node]

(* What c has still to write leaves the margin free.                       *)
MarginAhead(c) ==
  cl[c].budget > 0 => dirty + blank + cl[c].taken >= Margin + (cl[c].budget - cl[c].written)

DataGone(c) ==
  cl[c].ok => dirty <= (cl[c].seen - cl[c].budget) + cl[c].late + cl[c].left

(* A cleaner beside which none has run has the volume for itself.          *)
AloneInv(c) ==
  Cleaning(c) /\ cl[c].alone
    => Solitary(c) /\ WrittenThere(c) /\ MarginAhead(c) /\ DataGone(c)

FillInv ==
  /\ media \in Media /\ dir \in BOOLEAN /\ file \in Nodes \union {NoNode}
  /\ events \in 0..MaxEvents /\ cl \in [Cleaners -> Cleanings]
  /\ SpaceInv
  /\ \A c \in Cleaners : CleanInv(c) /\ AloneInv(c)

-----------------------------------------------------------------------------
(* Counting blocks.                                                        *)

LEMMA NodesFinite == IsFiniteSet(Nodes) /\ NoNode \notin Nodes
<1>1. Cardinality(Cleaners) \in Nat
  BY CleanersAssumption, FS_CardinalityType
<1>. QED
  BY <1>1, FS_Interval DEF Nodes, NoNode

LEMMA OffsetsFinite == IsFiniteSet(Offsets)
  BY SizeAssumption, FS_Interval DEF Offsets

LEMMA OccupiedFinite == IsFiniteSet(Occupied) /\ Cardinality(Occupied) \in Nat
<1>1. IsFiniteSet(Nodes \X Offsets)
  BY NodesFinite, OffsetsFinite, FS_Product
<1>2. IsFiniteSet(Occupied)
  BY <1>1, FS_Subset DEF Occupied
<1>. QED
  BY <1>2, FS_CardinalityType

(* The blocks of a file are as many as its offsets.                        *)
LEMMA RowCount ==
  ASSUME data \in [Nodes -> SUBSET Offsets], NEW n \in Nodes
  PROVE  /\ IsFiniteSet({n} \X data[n]) /\ {n} \X data[n] \subseteq Occupied
         /\ Cardinality({n} \X data[n]) = Cardinality(data[n])
         /\ Cardinality(data[n]) \in Nat /\ IsFiniteSet(data[n])
<1>1. IsFiniteSet(data[n])
  BY OffsetsFinite, FS_Subset
<1>2. IsFiniteSet({n}) /\ Cardinality({n}) = 1
  BY FS_Singleton
<1>3. Cardinality(data[n]) \in Nat
  BY <1>1, FS_CardinalityType
<1>4. /\ IsFiniteSet({n} \X data[n])
      /\ Cardinality({n} \X data[n]) = Cardinality({n}) * Cardinality(data[n])
  BY <1>1, <1>2, FS_Product
<1>5. {n} \X data[n] \subseteq Occupied
  BY DEF Occupied
<1>. QED
  BY <1>1, <1>2, <1>3, <1>4, <1>5

LEMMA ReleaseSpace ==
  ASSUME SpaceInv, NEW n \in Nodes, Release(n), used' = used, dirty' = dirty
  PROVE  SpaceInv' /\ blank' >= blank
<1>. DEFINE row == {n} \X data[n]
<1>1. /\ IsFiniteSet(row) /\ row \subseteq Occupied
      /\ Cardinality(row) = Cardinality(data[n]) /\ Cardinality(data[n]) \in Nat
  BY RowCount DEF SpaceInv
<1>2. data' \in [Nodes -> SUBSET Offsets] /\ data' = [data EXCEPT ![n] = {}]
  BY DEF SpaceInv, Release
<1>3. Occupied' = Occupied \ row
  BY <1>2 DEF Occupied, SpaceInv
<1>4. Occupied \cap row = row
  BY <1>1
<1>. HIDE DEF row
<1>5. Cardinality(Occupied \ row) = Cardinality(Occupied) - Cardinality(row)
  BY <1>4, OccupiedFinite, FS_Difference
<1>. QED
  BY <1>1, <1>2, <1>3, <1>5, OccupiedFinite DEF SpaceInv, Release

LEMMA BlockTaken ==
  ASSUME SpaceInv, Take, used' = used, data' \in [Nodes -> SUBSET Offsets],
         Cardinality(Occupied') = Cardinality(Occupied) + 1
  PROVE  SpaceInv' /\ dirty' <= dirty /\ dirty' + blank' + 1 = dirty + blank
<1>1. /\ used \in Nat /\ dirty \in Nat /\ blank \in Nat /\ Cardinality(Occupied) \in Nat
      /\ used + dirty + blank + Cardinality(Occupied) = Blocks
  BY OccupiedFinite DEF SpaceInv
<1>2. /\ dirty' \in Nat /\ blank' \in Nat /\ dirty' <= dirty /\ dirty' + blank' + 1 = dirty + blank
      /\ used' + dirty' + blank' + Cardinality(Occupied') = Blocks
  <2>1. CASE dirty > 0 /\ dirty' = dirty - 1 /\ blank' = blank
    BY <1>1, <2>1
  <2>2. CASE blank > 0 /\ blank' = blank - 1 /\ dirty' = dirty
    BY <1>1, <2>2
  <2>. QED
    BY <2>1, <2>2 DEF Take
<1>. QED
  BY <1>1, <1>2 DEF SpaceInv

LEMMA WriteSpace ==
  ASSUME SpaceInv, NEW n \in Nodes, NEW o \in Offsets, o \notin data[n], Take,
         data' = [data EXCEPT ![n] = @ \union {o}], used' = used
  PROVE  SpaceInv' /\ dirty' <= dirty /\ dirty' + blank' + 1 = dirty + blank
<1>1. data' \in [Nodes -> SUBSET Offsets]
  BY DEF SpaceInv
<1>2. Occupied' = Occupied \union {<<n, o>>} /\ <<n, o>> \notin Occupied
  BY DEF Occupied, SpaceInv
<1>3. Cardinality(Occupied') = Cardinality(Occupied) + 1
  BY <1>2, OccupiedFinite, FS_AddElement
<1>. QED
  BY <1>1, <1>3, BlockTaken

LEMMA SameFills ==
  ASSUME SpaceInv, data' = data, used' \in Nat, dirty' \in Nat, blank' \in Nat,
         used' + dirty' + blank' = used + dirty + blank
  PROVE  SpaceInv'
<1>1. Occupied' = Occupied
  BY DEF Occupied
<1>. QED
  BY <1>1, OccupiedFinite DEF SpaceInv

(* A fill is no larger than the blocks that all have.                      *)
LEMMA SpaceBounds ==
  ASSUME SpaceInv
  PROVE  /\ used \in 0..Blocks /\ dirty \in 0..Blocks /\ blank \in 0..Blocks
         /\ dirty + blank \in 0..Blocks /\ Blocks - used - (dirty + blank) \in 0..Blocks
         /\ Blocks \in Nat /\ Margin \in Nat /\ MaxFill \in Nat
  BY SizeAssumption, OccupiedFinite DEF SpaceInv

-----------------------------------------------------------------------------
(* A cleaner that is at work and takes a step.                             *)

LEMMA RestingType ==
  /\ Resting \in Cleanings /\ Resting.pc = "idle" /\ Resting.node = NoNode
  /\ Resting.written = 0 /\ Resting.budget = 0 /\ Resting.seen = 0 /\ ~Resting.ok
  /\ Resting.late = 0 /\ Resting.taken = 0
  BY SizeAssumption, EventsAssumption DEF Resting, Cleanings, Pcs

(* c is r now and has kept its plan.                                       *)
Stepped(c, r) ==
  /\ r \in Cleanings /\ cl' = [cl EXCEPT ![c] = r]
  /\ r.seen = cl[c].seen /\ r.left = cl[c].left /\ r.budget = cl[c].budget
  /\ r.late = cl[c].late /\ r.taken = cl[c].taken /\ r.alone = cl[c].alone
  /\ r.node # NoNode <=> r.pc = "write"
  /\ r.pc \in {"sweep", "sweep_dir", "mkdir", "open"} => r.written = 0
  /\ r.written <= r.budget
  /\ r.ok => r.pc \in {"remove", "remove_dir"}

(* The rest of the volume after a step of a cleaner.                       *)
VolumeKept ==
  /\ SpaceInv' /\ used' = used
  /\ media' \in Media /\ dir' \in BOOLEAN /\ file' \in Nodes \union {NoNode}
  /\ events' \in 0..MaxEvents /\ events <= events'

LEMMA CleanNumbers ==
  ASSUME FillInv, NEW c \in Cleaners
  PROVE  /\ cl[c].seen \in Nat /\ cl[c].left \in Nat /\ cl[c].budget \in Nat
         /\ cl[c].written \in Nat /\ cl[c].late \in Nat /\ cl[c].taken \in Nat
         /\ events \in Nat /\ MaxEvents \in Nat
  BY EventsAssumption DEF FillInv, Cleanings

(* Beside a cleaner at work nobody is alone.                               *)
LEMMA OthersStep ==
  ASSUME FillInv, NEW c \in Cleaners, Cleaning(c), NEW d \in Cleaners, d # c,
         cl'[d] = cl[d], VolumeKept
  PROVE  CleanInv(d)' /\ AloneInv(d)'
<1>1. ~(Cleaning(d) /\ cl[d].alone)
  BY DEF FillInv, AloneInv, Solitary
<1>2. CleanInv(d)
  BY DEF FillInv
<1>3. CleanInv(d)'
  <2>1. /\ cl[d].late \in Nat /\ cl[d].taken \in Nat /\ events \in Nat /\ events' \in Nat
        /\ used' = used /\ events <= events'
    BY CleanNumbers, EventsAssumption DEF VolumeKept
  <2>. QED
    BY <1>2, <2>1 DEF CleanInv, Cleaning
<1>. QED
  BY <1>1, <1>3 DEF AloneInv, Cleaning

LEMMA BusyStep ==
  ASSUME FillInv, NEW c \in Cleaners, Cleaning(c), NEW r, Stepped(c, r), VolumeKept,
         cl[c].alone => (WrittenThere(c) /\ MarginAhead(c) /\ DataGone(c))'
  PROVE  FillInv'
<1>1. cl \in [Cleaners -> Cleanings] /\ CleanInv(c) /\ AloneInv(c)
  BY DEF FillInv
<1>2. cl' \in [Cleaners -> Cleanings] /\ cl'[c] = r /\ \A d \in Cleaners : d # c => cl'[d] = cl[d]
  BY <1>1 DEF Stepped
<1>3. \A d \in Cleaners : d # c => CleanInv(d)' /\ AloneInv(d)'
  BY <1>2, OthersStep
<1>4. CleanInv(c)'
  <2>1. /\ cl[c].late \in Nat /\ cl[c].taken \in Nat /\ events \in Nat /\ events' \in Nat
        /\ used' = used /\ events <= events'
    BY CleanNumbers, EventsAssumption DEF VolumeKept
  <2>. QED
    BY <1>1, <1>2, <2>1 DEF CleanInv, Stepped, Cleaning
<1>5. AloneInv(c)'
  <2>1. cl'[c].alone => Solitary(c)'
    BY <1>1, <1>2 DEF AloneInv, Solitary, Cleaning, Stepped
  <2>2. cl'[c].alone = cl[c].alone
    BY <1>2 DEF Stepped
  <2>. QED
    BY <2>1, <2>2 DEF AloneInv
<1>. QED
  BY <1>2, <1>3, <1>4, <1>5 DEF FillInv, VolumeKept

LEMMA RestStep ==
  ASSUME FillInv, NEW c \in Cleaners, Cleaning(c), cl' = [cl EXCEPT ![c] = Resting], VolumeKept
  PROVE  FillInv'
<1>1. cl \in [Cleaners -> Cleanings]
  BY DEF FillInv
<1>2. /\ cl' \in [Cleaners -> Cleanings] /\ cl'[c] = Resting
      /\ \A d \in Cleaners : d # c => cl'[d] = cl[d]
  BY <1>1, RestingType
<1>3. \A d \in Cleaners : d # c => CleanInv(d)' /\ AloneInv(d)'
  BY <1>2, OthersStep
<1>4. CleanInv(c)' /\ AloneInv(c)'
  BY <1>2, RestingType, EventsAssumption DEF CleanInv, AloneInv, Cleaning, VolumeKept
<1>. QED
  BY <1>2, <1>3, <1>4 DEF FillInv, VolumeKept

(* c goes on, with no block taken.                                         *)
LEMMA PcStep ==
  ASSUME FillInv, NEW c \in Cleaners, Cleaning(c), cl[c].pc # "write",
         NEW pc \in Pcs \ {"write"}, GoTo(c, pc), VolumeKept, dirty' = dirty, blank' >= blank,
         pc \in {"sweep", "sweep_dir", "mkdir", "open"} => cl[c].written = 0,
         cl[c].ok => pc \in {"remove", "remove_dir", "idle"}
  PROVE  FillInv'
<1>1. cl \in [Cleaners -> Cleanings] /\ CleanInv(c) /\ AloneInv(c)
  BY DEF FillInv
<1>2. CASE pc = "idle"
  BY <1>2, RestStep DEF GoTo
<1>3. CASE pc # "idle"
  <2>. DEFINE r == [cl[c] EXCEPT !.pc = pc]
  <2>1. cl' = [cl EXCEPT ![c] = r]
    BY <1>3 DEF GoTo
  <2>2. /\ r \in Cleanings /\ r.pc = pc /\ r.written = cl[c].written /\ r.ok = cl[c].ok
        /\ r.node = cl[c].node /\ r.seen = cl[c].seen /\ r.left = cl[c].left
        /\ r.budget = cl[c].budget /\ r.late = cl[c].late /\ r.taken = cl[c].taken
        /\ r.alone = cl[c].alone
    BY <1>1 DEF Cleanings
  <2>. HIDE DEF r
  <2>3. Stepped(c, r)
    BY <1>1, <1>3, <2>1, <2>2 DEF Stepped, CleanInv
  <2>4. cl'[c] = r
    BY <1>1, <2>1
  <2>5. cl[c].alone => (WrittenThere(c) /\ MarginAhead(c) /\ DataGone(c))'
    <3>1. cl[c].alone => MarginAhead(c) /\ DataGone(c)
      BY <1>1 DEF AloneInv
    <3>2. WrittenThere(c)'
      BY <2>2, <2>4 DEF WrittenThere
    <3>3. DataGone(c) => DataGone(c)'
      BY <2>2, <2>4 DEF DataGone
    <3>4. MarginAhead(c) => MarginAhead(c)'
      <4>1. /\ dirty \in Nat /\ blank \in Nat /\ dirty' = dirty /\ blank' \in Nat
            /\ cl[c].taken \in Nat /\ cl[c].budget \in Nat /\ cl[c].written \in Nat /\ Margin \in Nat
        BY CleanNumbers, SizeAssumption DEF FillInv, VolumeKept, SpaceInv
      <4>. QED
        BY <2>2, <2>4, <4>1 DEF MarginAhead
    <3>. QED
      BY <3>1, <3>2, <3>3, <3>4
  <2>. QED
    BY <2>3, <2>5, BusyStep
<1>. QED
  BY <1>2, <1>3

LEMMA ReleaseKeeps ==
  ASSUME FillInv, used' = used, dirty' = dirty, events' = events \/ events' \in events..MaxEvents,
         NEW n \in Nodes, Release(n) \/ UNCHANGED <<blank, data>>,
         media' \in Media, dir' \in BOOLEAN, file' \in Nodes \union {NoNode}
  PROVE  VolumeKept /\ blank' >= blank
<1>1. SpaceInv /\ events \in 0..MaxEvents /\ MaxEvents \in Nat
  BY EventsAssumption DEF FillInv
<1>2. SpaceInv' /\ blank' >= blank
  <2>1. CASE Release(n)
    BY <1>1, <2>1, ReleaseSpace
  <2>2. CASE UNCHANGED <<blank, data>>
    <3>1. SpaceInv'
      BY <1>1, <2>2, SameFills DEF SpaceInv
    <3>. QED
      BY <1>1, <2>2, <3>1 DEF SpaceInv
  <2>. QED
    BY <2>1, <2>2
<1>3. events' \in 0..MaxEvents /\ events <= events'
  BY <1>1
<1>. QED
  BY <1>2, <1>3 DEF VolumeKept

LEMMA HappensEvents ==
  ASSUME FillInv, NEW e, Happens(e)
  PROVE  events' \in events..MaxEvents /\ events' = events + 1
  BY EventsAssumption DEF FillInv, Happens

LEMMA RemovesStep ==
  ASSUME FillInv, NEW c \in Cleaners, Removes(c)
  PROVE  FillInv'
<1>1. /\ CleanInv(c) /\ media \in Media /\ dir \in BOOLEAN /\ file \in Nodes \union {NoNode}
      /\ cl \in [Cleaners -> Cleanings]
  BY DEF FillInv
<1>2. PICK r \in Removal :
        \/ /\ At(c, r.at) /\ GoTo(c, r.rmdir) /\ file' = NoNode
           /\ IF file # NoNode /\ Holders(file) = {} THEN Release(file) ELSE UNCHANGED <<blank, data>>
           /\ UNCHANGED <<media, used, dirty, dir, events>>
        \/ /\ At(c, r.rmdir) /\ GoTo(c, r.next) /\ dir' = (dir /\ file # NoNode)
           /\ UNCHANGED <<media, used, dirty, blank, file, data, events>>
        \/ /\ Happens("unlink") /\ At(c, r.at) /\ GoTo(c, r.next)
           /\ UNCHANGED <<media, used, dirty, blank, fill>>
  BY DEF Removes, UnlinkFill, RemoveDir, RemovalFails
<1>3. /\ r.at \in {"sweep", "remove"} /\ r.rmdir \in {"sweep_dir", "remove_dir"}
      /\ r.next \in {"mkdir", "idle"}
      /\ r.at = "sweep" <=> r.rmdir = "sweep_dir"
      /\ r.at = "sweep" <=> r.next = "mkdir"
  BY DEF Removal
<1>4. PICK pc \in {"sweep_dir", "remove_dir", "mkdir", "idle"} :
        /\ GoTo(c, pc) /\ Cleaning(c) /\ cl[c].pc \in {"sweep", "remove", "sweep_dir", "remove_dir"}
        /\ cl[c].pc \in {"sweep", "sweep_dir"} <=> pc \in {"sweep_dir", "mkdir"}
  BY <1>2, <1>3 DEF At, Cleaning
<1>5. pc \in Pcs \ {"write"} /\ cl[c].pc # "write"
  BY <1>4 DEF Pcs
<1>6. /\ pc \in {"sweep", "sweep_dir", "mkdir", "open"} => cl[c].written = 0
      /\ cl[c].ok => pc \in {"remove", "remove_dir", "idle"}
  BY <1>1, <1>4 DEF CleanInv
<1>7. \E n \in Nodes : Release(n) \/ UNCHANGED <<blank, data>>
  <2>1. file # NoNode => file \in Nodes
    BY <1>1
  <2>2. (Release(file) /\ file # NoNode) \/ UNCHANGED <<blank, data>>
    BY <1>2 DEF fill
  <2>3. 1 \in Nodes
    <3>1. Cardinality(Cleaners) \in Nat
      BY CleanersAssumption, FS_CardinalityType
    <3>. QED
      BY <3>1 DEF Nodes
  <2>. QED
    BY <2>1, <2>2, <2>3
<1>8. /\ used' = used /\ dirty' = dirty /\ media' \in Media /\ dir' \in BOOLEAN
      /\ file' \in Nodes \union {NoNode}
  BY <1>1, <1>2 DEF fill
<1>9. events' = events \/ events' \in events..MaxEvents
  BY <1>2, HappensEvents
<1>10. VolumeKept /\ blank' >= blank
  BY <1>7, <1>8, <1>9, ReleaseKeeps
<1>. QED
  BY <1>4, <1>5, <1>6, <1>8, <1>10, PcStep

LEMMA NodeExists == \E n \in Nodes : TRUE
<1>1. Cardinality(Cleaners) \in Nat
  BY CleanersAssumption, FS_CardinalityType
<1>2. 1 \in Nodes
  BY <1>1 DEF Nodes
<1>. QED
  BY <1>2

LEMMA MakeDirStep ==
  ASSUME FillInv, NEW c \in Cleaners, MakeDir(c)
  PROVE  FillInv'
<1>1. CleanInv(c) /\ media \in Media /\ file \in Nodes \union {NoNode}
  BY DEF FillInv
<1>2. /\ cl[c].pc = "mkdir" /\ dir' = TRUE /\ GoTo(c, "open")
      /\ UNCHANGED <<media, used, dirty, blank, file, data, events>>
  BY DEF MakeDir, At
<1>3. VolumeKept /\ blank' >= blank
  BY <1>1, <1>2, NodeExists, ReleaseKeeps
<1>4. "open" \in Pcs \ {"write"} /\ Cleaning(c) /\ cl[c].written = 0 /\ ~cl[c].ok
  BY <1>1, <1>2 DEF Pcs, Cleaning, CleanInv
<1>. QED
  BY <1>2, <1>3, <1>4, PcStep

(* The directory is gone.                                                  *)
LEMMA OpenFailsStep ==
  ASSUME FillInv, NEW c \in Cleaners, At(c, "open"), GoTo(c, "remove"),
         UNCHANGED <<media, used, dirty, blank, fill, events>>
  PROVE  FillInv'
<1>1. CleanInv(c) /\ media \in Media /\ dir \in BOOLEAN /\ file \in Nodes \union {NoNode}
  BY DEF FillInv
<1>2. VolumeKept /\ blank' >= blank
  BY <1>1, NodeExists, ReleaseKeeps DEF fill
<1>3. "remove" \in Pcs \ {"write"} /\ Cleaning(c) /\ ~cl[c].ok /\ cl[c].pc = "open"
  BY <1>1 DEF Pcs, Cleaning, CleanInv, At
<1>. QED
  BY <1>2, <1>3, PcStep

LEMMA OpenStep ==
  ASSUME FillInv, NEW c \in Cleaners, At(c, "open"), NEW n \in Nodes, Opened(c, n),
         Release(n) \/ UNCHANGED <<blank, data>>, file' = n,
         UNCHANGED <<media, used, dirty, dir, events>>
  PROVE  FillInv'
<1>1. /\ CleanInv(c) /\ AloneInv(c) /\ media \in Media /\ dir \in BOOLEAN
      /\ cl \in [Cleaners -> Cleanings]
  BY DEF FillInv
<1>2. VolumeKept /\ blank' >= blank
  BY <1>1, ReleaseKeeps
<1>. DEFINE r == [cl[c] EXCEPT !.pc = "write", !.node = n]
<1>3. cl' = [cl EXCEPT ![c] = r]
  BY <1>1 DEF Opened, Cleanings
<1>4. /\ r \in Cleanings /\ r.pc = "write" /\ r.written = cl[c].written /\ r.ok = cl[c].ok
      /\ r.node = n /\ r.seen = cl[c].seen /\ r.left = cl[c].left
      /\ r.budget = cl[c].budget /\ r.late = cl[c].late /\ r.taken = cl[c].taken
      /\ r.alone = cl[c].alone
  BY <1>1 DEF Cleanings, Pcs
<1>. HIDE DEF r
<1>5. cl[c].pc = "open" /\ Cleaning(c) /\ cl[c].written = 0 /\ ~cl[c].ok
  BY <1>1 DEF At, Cleaning, CleanInv
<1>6. Stepped(c, r)
  BY <1>1, <1>3, <1>4, <1>5, NodesFinite DEF Stepped, CleanInv
<1>7. cl'[c] = r
  BY <1>1, <1>3
<1>8. cl[c].alone => (WrittenThere(c) /\ MarginAhead(c) /\ DataGone(c))'
  <2>1. cl[c].alone => MarginAhead(c)
    BY <1>1, <1>5 DEF AloneInv
  <2>2. WrittenThere(c)' /\ DataGone(c)'
    BY <1>4, <1>5, <1>7 DEF WrittenThere, DataGone, Offsets
  <2>3. MarginAhead(c) => MarginAhead(c)'
    <3>1. /\ dirty \in Nat /\ blank \in Nat /\ dirty' = dirty /\ blank' \in Nat
          /\ cl[c].taken \in Nat /\ cl[c].budget \in Nat /\ cl[c].written \in Nat /\ Margin \in Nat
      BY <1>2, CleanNumbers, SizeAssumption DEF FillInv, VolumeKept, SpaceInv
    <3>. QED
      BY <1>2, <1>4, <1>7, <3>1 DEF MarginAhead
  <2>. QED
    BY <2>1, <2>2, <2>3
<1>. QED
  BY <1>2, <1>5, <1>6, <1>8, BusyStep

LEMMA OpenFillStep ==
  ASSUME FillInv, NEW c \in Cleaners, OpenFill(c)
  PROVE  FillInv'
<1>1. file \in Nodes \union {NoNode}
  BY DEF FillInv
<1>2. CASE ~dir
  BY <1>2, OpenFailsStep DEF OpenFill, fill
<1>3. CASE dir /\ file # NoNode
  BY <1>1, <1>3, OpenStep DEF OpenFill
<1>4. CASE dir /\ file = NoNode
  BY <1>4, OpenStep DEF OpenFill
<1>. QED
  BY <1>2, <1>3, <1>4

(* One block less to write, and at most one less free.                     *)
LEMMA OneBlockLess ==
  ASSUME NEW c \in Cleaners, dirty \in Nat, blank \in Nat, dirty' \in Nat, blank' \in Nat,
         dirty' + blank' + 1 = dirty + blank \/ dirty' + blank' = dirty + blank,
         cl[c].taken \in Nat, cl[c].budget \in Nat, cl[c].written \in Nat,
         cl'[c].taken = cl[c].taken, cl'[c].budget = cl[c].budget,
         cl'[c].written = cl[c].written + 1, MarginAhead(c)
  PROVE  MarginAhead(c)'
<1>. DEFINE f == dirty + blank
            e == dirty' + blank'
            t == cl[c].taken
            g == cl[c].budget
            w == cl[c].written
<1>1. SUFFICES ASSUME g > 0
      PROVE  e + t >= Margin + (g - (w + 1))
  BY DEF MarginAhead
<1>2. f + t >= Margin + (g - w)
  BY <1>1 DEF MarginAhead
<1>3. e + 1 = f \/ e = f
  OBVIOUS
<1>4. Margin \in Nat
  BY SizeAssumption
<1>5. f \in Nat
  OBVIOUS
<1>6. e \in Nat
  <2>1. \A i, j \in Nat : i + j \in Nat
    OBVIOUS
  <2>. QED
    BY <2>1, Zenon
<1>7. t \in Nat /\ g \in Nat /\ w \in Nat
  OBVIOUS
<1>. HIDE DEF e, f, t, g, w
<1>. QED
  BY <1>2, <1>3, <1>4, <1>5, <1>6, <1>7

LEMMA WriteBlockStep ==
  ASSUME FillInv, NEW c \in Cleaners, WriteBlock(c)
  PROVE  FillInv'
<1>. DEFINE n == cl[c].node
            o == cl[c].written
            r == [cl[c] EXCEPT !.written = o + 1]
<1>1. /\ CleanInv(c) /\ AloneInv(c) /\ media \in Media /\ dir \in BOOLEAN
      /\ file \in Nodes \union {NoNode} /\ cl \in [Cleaners -> Cleanings] /\ SpaceInv
      /\ events \in 0..MaxEvents /\ Blocks \in Nat
  BY SizeAssumption DEF FillInv
<1>2. /\ cl[c].pc = "write" /\ o < cl[c].budget /\ Cleaning(c) /\ n \in Nodes
      /\ o \in Nat /\ cl[c].budget \in Nat /\ cl[c].budget <= Blocks
  BY <1>1 DEF WriteBlock, At, Cleaning, CleanInv, Cleanings
<1>3. o \in Offsets /\ o + 1 \in 0..Blocks /\ o + 1 <= cl[c].budget
  BY <1>1, <1>2 DEF Offsets
<1>4. /\ cl' = [cl EXCEPT ![c].written = o + 1] /\ UNCHANGED <<media, used, dir, file, events>>
      /\ \/ o \in data[n] /\ UNCHANGED <<dirty, blank, data>>
         \/ o \notin data[n] /\ Take /\ data' = [data EXCEPT ![n] = @ \union {o}]
  BY DEF WriteBlock
<1>5. /\ SpaceInv' /\ dirty' <= dirty
      /\ dirty' + blank' + 1 = dirty + blank \/ dirty' + blank' = dirty + blank
      /\ data' \in [Nodes -> SUBSET Offsets]
      /\ data'[n] = data[n] \union {o}
  <2>1. CASE o \in data[n] /\ UNCHANGED <<dirty, blank, data>>
    <3>1. SpaceInv'
      BY <1>1, <1>4, <2>1, SameFills DEF SpaceInv
    <3>2. dirty \in Nat /\ blank \in Nat /\ data \in [Nodes -> SUBSET Offsets]
      BY <1>1 DEF SpaceInv
    <3>. QED
      BY <2>1, <3>1, <3>2
  <2>2. CASE o \notin data[n] /\ Take /\ data' = [data EXCEPT ![n] = @ \union {o}]
    <3>1. SpaceInv' /\ dirty' <= dirty /\ dirty' + blank' + 1 = dirty + blank
      BY <1>1, <1>2, <1>3, <1>4, <2>2, WriteSpace
    <3>2. data' \in [Nodes -> SUBSET Offsets] /\ data'[n] = data[n] \union {o}
      BY <1>1, <1>2, <1>3, <2>2 DEF SpaceInv
    <3>. QED
      BY <3>1, <3>2
  <2>. QED
    BY <1>4, <2>1, <2>2
<1>6. VolumeKept
  BY <1>1, <1>4, <1>5 DEF VolumeKept
<1>7. cl' = [cl EXCEPT ![c] = r]
  BY <1>1, <1>4 DEF Cleanings
<1>8. /\ r \in Cleanings /\ r.pc = "write" /\ r.written = o + 1 /\ r.ok = cl[c].ok
      /\ r.node = n /\ r.seen = cl[c].seen /\ r.left = cl[c].left
      /\ r.budget = cl[c].budget /\ r.late = cl[c].late /\ r.taken = cl[c].taken
      /\ r.alone = cl[c].alone
  BY <1>1, <1>2, <1>3 DEF Cleanings
<1>9. cl'[c] = r
  BY <1>1, <1>7
<1>. HIDE DEF r
<1>10. Stepped(c, r)
  BY <1>1, <1>2, <1>3, <1>7, <1>8 DEF Stepped, CleanInv
<1>11. cl[c].alone => (WrittenThere(c) /\ MarginAhead(c) /\ DataGone(c))'
  <2>1. cl[c].alone => WrittenThere(c) /\ MarginAhead(c)
    BY <1>1, <1>2 DEF AloneInv
  <2>2. DataGone(c)'
    BY <1>1, <1>2, <1>8, <1>9 DEF DataGone, CleanInv
  <2>3. WrittenThere(c) => WrittenThere(c)'
    <3>1. \A i \in Offsets : i < o + 1 => i < o \/ i = o
      BY <1>2 DEF Offsets
    <3>. QED
      BY <1>2, <1>5, <1>8, <1>9, <3>1 DEF WrittenThere
  <2>4. MarginAhead(c) => MarginAhead(c)'
    <3>1. /\ dirty \in Nat /\ blank \in Nat /\ dirty' \in Nat /\ blank' \in Nat
          /\ cl[c].taken \in Nat /\ Margin \in Nat
      BY <1>1, <1>5, CleanNumbers, SizeAssumption DEF SpaceInv
    <3>2. /\ cl'[c].taken = cl[c].taken /\ cl'[c].budget = cl[c].budget
          /\ cl'[c].written = cl[c].written + 1
      BY <1>8, <1>9
    <3>. QED
      BY <1>2, <1>5, <3>1, <3>2, OneBlockLess
  <2>. QED
    BY <2>1, <2>2, <2>3, <2>4
<1>. QED
  BY <1>2, <1>6, <1>10, <1>11, BusyStep

LEMMA MarginStays ==
  ASSUME FillInv, NEW c \in Cleaners, VolumeKept, dirty' = dirty, blank' >= blank,
         cl'[c].taken = cl[c].taken, cl'[c].budget = cl[c].budget,
         cl'[c].written = cl[c].written, MarginAhead(c)
  PROVE  MarginAhead(c)'
<1>1. /\ dirty \in Nat /\ blank \in Nat /\ dirty' = dirty /\ blank' \in Nat
      /\ cl[c].taken \in Nat /\ cl[c].budget \in Nat /\ cl[c].written \in Nat /\ Margin \in Nat
  BY CleanNumbers, SizeAssumption DEF FillInv, VolumeKept, SpaceInv
<1>. QED
  BY <1>1 DEF MarginAhead

(* The fill of a cleaner has as many blocks as the cleaner has written.    *)
LEMMA WrittenOccupied ==
  ASSUME FillInv, NEW c \in Cleaners, cl[c].pc = "write", WrittenThere(c)
  PROVE  cl[c].written <= Cardinality(Occupied)
<1>. DEFINE n == cl[c].node
            w == cl[c].written
<1>1. n \in Nodes /\ w \in 0..Blocks /\ data \in [Nodes -> SUBSET Offsets] /\ Blocks \in Nat
  BY SizeAssumption DEF FillInv, SpaceInv, CleanInv, Cleanings
<1>2. 0..(w - 1) \subseteq data[n]
  BY <1>1 DEF WrittenThere, Offsets
<1>3. IsFiniteSet(0..(w - 1)) /\ Cardinality(0..(w - 1)) = w
  <2>1. 0 \in Int /\ w - 1 \in Int /\ w \in Nat
    BY <1>1
  <2>2. /\ IsFiniteSet(0..(w - 1))
        /\ Cardinality(0..(w - 1)) = IF 0 > w - 1 THEN 0 ELSE (w - 1) - 0 + 1
    BY <2>1, FS_Interval, Zenon
  <2>. QED
    BY <2>1, <2>2
<1>4. /\ IsFiniteSet(data[n]) /\ Cardinality(data[n]) \in Nat
      /\ {n} \X data[n] \subseteq Occupied
      /\ Cardinality({n} \X data[n]) = Cardinality(data[n])
  BY <1>1, RowCount
<1>5. w <= Cardinality(data[n])
  <2>1. Cardinality(0..(w - 1)) <= Cardinality(data[n])
    BY <1>2, <1>4, FS_Subset, Zenon
  <2>. QED
    BY <1>3, <2>1
<1>6. Cardinality({n} \X data[n]) <= Cardinality(Occupied)
  BY <1>4, OccupiedFinite, FS_Subset
<1>. QED
  BY <1>1, <1>4, <1>5, <1>6, OccupiedFinite

(* The deleted data is in what neither a program nor a fill has.           *)
LEMMA BudgetWritten ==
  ASSUME FillInv, NEW c \in Cleaners, Cleaning(c), cl[c].budget <= Cardinality(Occupied)
  PROVE  dirty <= (cl[c].seen - cl[c].budget) + cl[c].late + cl[c].left
<1>1. /\ used \in Nat /\ dirty \in Nat /\ blank \in Nat /\ Cardinality(Occupied) \in Nat
      /\ used + dirty + blank + Cardinality(Occupied) = Blocks
  BY OccupiedFinite DEF FillInv, SpaceInv
<1>2. cl[c].seen + cl[c].left + cl[c].late + used = Blocks + cl[c].taken
  BY DEF FillInv, CleanInv
<1>. QED
  BY <1>1, <1>2, CleanNumbers, SizeAssumption

LEMMA CloseFillStep ==
  ASSUME FillInv, NEW c \in Cleaners, At(c, "write"), NEW ok \in BOOLEAN, CloseFill(c, ok),
         ok => cl[c].written >= cl[c].budget
  PROVE  FillInv'
<1>. DEFINE n == cl[c].node
            r == [cl[c] EXCEPT !.pc = "remove", !.node = NoNode, !.ok = ok]
<1>1. /\ CleanInv(c) /\ AloneInv(c) /\ media \in Media /\ dir \in BOOLEAN
      /\ file \in Nodes \union {NoNode} /\ cl \in [Cleaners -> Cleanings]
  BY DEF FillInv
<1>2. cl[c].pc = "write" /\ Cleaning(c) /\ n \in Nodes
  BY <1>1 DEF At, Cleaning, CleanInv, Cleanings
<1>3. /\ Release(n) \/ UNCHANGED <<blank, data>>
      /\ UNCHANGED <<media, used, dirty, dir, file, events>>
  BY DEF CloseFill
<1>4. VolumeKept /\ blank' >= blank
  BY <1>1, <1>2, <1>3, ReleaseKeeps
<1>5. cl' = [cl EXCEPT ![c] = r]
  BY <1>1 DEF CloseFill, Cleanings
<1>6. /\ r \in Cleanings /\ r.pc = "remove" /\ r.written = cl[c].written /\ r.ok = ok
      /\ r.node = NoNode /\ r.seen = cl[c].seen /\ r.left = cl[c].left
      /\ r.budget = cl[c].budget /\ r.late = cl[c].late /\ r.taken = cl[c].taken
      /\ r.alone = cl[c].alone
  BY <1>1 DEF Cleanings, Pcs
<1>7. cl'[c] = r
  BY <1>1, <1>5
<1>. HIDE DEF r
<1>8. Stepped(c, r)
  BY <1>1, <1>5, <1>6 DEF Stepped, CleanInv
<1>9. cl[c].alone => (WrittenThere(c) /\ MarginAhead(c) /\ DataGone(c))'
  <2>1. SUFFICES ASSUME cl[c].alone
        PROVE  (WrittenThere(c) /\ MarginAhead(c) /\ DataGone(c))'
    OBVIOUS
  <2>2. WrittenThere(c) /\ MarginAhead(c)
    BY <1>1, <1>2, <2>1 DEF AloneInv
  <2>3. WrittenThere(c)'
    BY <1>6, <1>7 DEF WrittenThere
  <2>4. MarginAhead(c)'
    BY <1>3, <1>4, <1>6, <1>7, <2>2, MarginStays
  <2>5. DataGone(c)'
    <3>1. CASE ok
      <4>1. cl[c].budget <= Cardinality(Occupied)
        <5>1. cl[c].written <= Cardinality(Occupied)
          BY <1>2, <2>2, WrittenOccupied
        <5>. QED
          BY <3>1, <5>1, CleanNumbers, OccupiedFinite
      <4>2. dirty <= (cl[c].seen - cl[c].budget) + cl[c].late + cl[c].left
        BY <1>2, <4>1, BudgetWritten
      <4>. QED
        BY <1>3, <1>6, <1>7, <4>2 DEF DataGone
    <3>2. CASE ~ok
      BY <1>6, <1>7, <3>2 DEF DataGone
    <3>. QED
      BY <3>1, <3>2
  <2>. QED
    BY <2>3, <2>4, <2>5
<1>. QED
  BY <1>2, <1>4, <1>8, <1>9, BusyStep

(* Without a directory or random data the clean is over.                   *)
LEMMA SetupFailsStep ==
  ASSUME FillInv, NEW c \in Cleaners, SetupFails(c)
  PROVE  FillInv'
<1>1. media \in Media /\ dir \in BOOLEAN /\ file \in Nodes \union {NoNode}
  BY DEF FillInv
<1>2. /\ Happens("setup") /\ Cleaning(c) /\ cl' = [cl EXCEPT ![c] = Resting]
      /\ UNCHANGED <<media, used, dirty, blank, dir, file, data>>
  BY DEF SetupFails, At, GoTo, Cleaning, fill
<1>3. events' \in events..MaxEvents
  BY <1>2, HappensEvents
<1>4. VolumeKept
  BY <1>1, <1>2, <1>3, NodeExists, ReleaseKeeps
<1>. QED
  BY <1>2, <1>4, RestStep

LEMMA FillsStep ==
  ASSUME FillInv, NEW c \in Cleaners, Fills(c)
  PROVE  FillInv'
<1>1. CASE FillDone(c)
  BY <1>1, CloseFillStep DEF FillDone
<1>2. CASE DiskFull(c)
  BY <1>2, CloseFillStep DEF DiskFull
<1>. QED
  BY <1>1, <1>2, MakeDirStep, SetupFailsStep, OpenFillStep, WriteBlockStep DEF Fills

LEMMA CrashStep ==
  ASSUME FillInv, NEW c \in Cleaners, Crash(c)
  PROVE  FillInv'
<1>. DEFINE n == cl[c].node
<1>1. /\ media \in Media /\ dir \in BOOLEAN /\ file \in Nodes \union {NoNode}
      /\ n \in Nodes \union {NoNode}
  BY DEF FillInv, Cleanings
<1>2. /\ Happens("crash") /\ Cleaning(c) /\ cl' = [cl EXCEPT ![c] = Resting]
      /\ (n # NoNode /\ Release(n)) \/ UNCHANGED <<blank, data>>
      /\ UNCHANGED <<media, used, dirty, dir, file>>
  BY DEF Crash
<1>3. events' \in events..MaxEvents
  BY <1>2, HappensEvents
<1>4. \E m \in Nodes : Release(m) \/ UNCHANGED <<blank, data>>
  BY <1>1, <1>2, NodeExists
<1>5. VolumeKept
  BY <1>1, <1>2, <1>3, <1>4, ReleaseKeeps
<1>. QED
  BY <1>2, <1>5, RestStep

-----------------------------------------------------------------------------
(* Steps beside the cleaners that are at work.                             *)

(* c goes on; what it knows of the other programs may grow.                *)
Undisturbed(c) ==
  /\ cl'[c].pc = cl[c].pc /\ cl'[c].seen = cl[c].seen /\ cl'[c].left = cl[c].left
  /\ cl'[c].budget = cl[c].budget /\ cl'[c].written = cl[c].written
  /\ cl'[c].node = cl[c].node /\ cl'[c].ok = cl[c].ok

LEMMA UndisturbedClean ==
  ASSUME FillInv, NEW c \in Cleaners, Cleaning(c), Undisturbed(c), SpaceInv',
         NEW l \in Nat, NEW t \in Nat, cl'[c].late = cl[c].late + l, cl'[c].taken = cl[c].taken + t,
         used' + l = used + t, events' \in Nat, events + l <= events', events + t <= events'
  PROVE  CleanInv(c)'
<1>1. CleanInv(c) /\ used \in Nat /\ used' \in Nat /\ Blocks \in Nat
  BY SizeAssumption DEF FillInv, SpaceInv
<1>2. /\ cl[c].seen \in Nat /\ cl[c].left \in Nat /\ cl[c].late \in Nat /\ cl[c].taken \in Nat
      /\ events \in Nat
  BY CleanNumbers
<1>3. cl'[c].late <= events' /\ cl'[c].taken <= events'
  BY <1>1, <1>2 DEF CleanInv
<1>4. cl'[c].seen + cl'[c].left + cl'[c].late + used' = Blocks + cl'[c].taken
  <2>. DEFINE s == cl[c].seen + cl[c].left
              a == cl[c].late
              k == cl[c].taken
              v == used'
              u == used
  <2>1. s \in Nat /\ a \in Nat /\ k \in Nat
    BY <1>2
  <2>2. u \in Nat /\ v \in Nat
    BY <1>1
  <2>3. s + a + u = Blocks + k
    BY <1>1 DEF CleanInv
  <2>4. v + l = u + t
    OBVIOUS
  <2>5. s + (a + l) + v = Blocks + (k + t)
    <3>. HIDE DEF s, a, k, v, u
    <3>. QED
      BY <1>1, <2>1, <2>2, <2>3, <2>4
  <2>. QED
    BY <2>5 DEF Undisturbed
<1>. QED
  BY <1>1, <1>3, <1>4 DEF CleanInv, Undisturbed

LEMMA UndisturbedAlone ==
  ASSUME FillInv, NEW c \in Cleaners, Cleaning(c), Undisturbed(c), cl'[c].alone = cl[c].alone,
         SpaceInv', data' = data, Solitary(c) => Solitary(c)',
         NEW l \in Nat, NEW t \in Nat, cl'[c].late = cl[c].late + l, cl'[c].taken = cl[c].taken + t,
         dirty' <= dirty + l, dirty' + blank' + t >= dirty + blank
  PROVE  AloneInv(c)'
<1>1. SUFFICES ASSUME cl[c].alone
      PROVE  (Solitary(c) /\ WrittenThere(c) /\ MarginAhead(c) /\ DataGone(c))'
  BY DEF AloneInv
<1>2. Solitary(c) /\ WrittenThere(c) /\ MarginAhead(c) /\ DataGone(c)
  BY <1>1 DEF FillInv, AloneInv
<1>3. WrittenThere(c)'
  BY <1>2 DEF WrittenThere, Undisturbed
<1>4. /\ dirty \in Nat /\ blank \in Nat /\ dirty' \in Nat /\ blank' \in Nat /\ Margin \in Nat
  BY SizeAssumption DEF FillInv, SpaceInv
<1>5. /\ cl[c].seen \in Nat /\ cl[c].left \in Nat /\ cl[c].late \in Nat /\ cl[c].taken \in Nat
      /\ cl[c].budget \in Nat /\ cl[c].written \in Nat
  BY CleanNumbers
<1>6. MarginAhead(c)'
  <2>. DEFINE f == dirty + blank
              e == dirty' + blank'
              k == cl[c].taken
              x == cl'[c].taken
              g == cl[c].budget
              w == cl[c].written
  <2>1. SUFFICES ASSUME g > 0
        PROVE  e + x >= Margin + (g - w)
    BY DEF MarginAhead, Undisturbed
  <2>2. f + k >= Margin + (g - w)
    BY <1>2, <2>1 DEF MarginAhead
  <2>3. x = k + t /\ e + t >= f
    OBVIOUS
  <2>4. f \in Nat /\ k \in Nat /\ g \in Nat /\ w \in Nat
    BY <1>4, <1>5
  <2>5. e \in Nat
    <3>1. \A i, j \in Nat : i + j \in Nat
      OBVIOUS
    <3>. QED
      BY <1>4, <3>1, Zenon
  <2>6. x \in Nat
    BY <2>3, <2>4
  <2>. HIDE DEF e, f, k, x, g, w
  <2>. QED
    BY <1>4, <2>2, <2>3, <2>4, <2>5, <2>6
<1>7. DataGone(c)'
  BY <1>2, <1>4, <1>5 DEF DataGone, Undisturbed
<1>. QED
  BY <1>2, <1>3, <1>6, <1>7

LEMMA TrimStep ==
  ASSUME FillInv, NEW c \in Cleaners, Trim(c)
  PROVE  FillInv'
<1>1. /\ SpaceInv /\ dirty \in Nat /\ blank \in Nat /\ used \in Nat /\ events \in Nat
  BY CleanNumbers DEF FillInv, SpaceInv
<1>2. /\ dirty' = 0 /\ blank' = dirty + blank /\ used' = used /\ data' = data /\ cl' = cl
      /\ media' = media /\ dir' = dir /\ file' = file /\ events' = events
  BY DEF Trim, Free, fill
<1>3. SpaceInv'
  BY <1>1, <1>2, SameFills
<1>4. ASSUME NEW d \in Cleaners
      PROVE  CleanInv(d)' /\ AloneInv(d)'
  <2>1. CleanInv(d) /\ AloneInv(d)
    BY DEF FillInv
  <2>2. CleanInv(d)'
    BY <1>2, <2>1 DEF CleanInv, Cleaning
  <2>3. AloneInv(d)'
    <3>1. CASE Cleaning(d)
      <4>1. Undisturbed(d) /\ Solitary(d) => Solitary(d)'
        BY <1>2 DEF Undisturbed, Solitary, Cleaning
      <4>2. /\ Undisturbed(d) /\ cl'[d].alone = cl[d].alone
            /\ cl'[d].late = cl[d].late + 0 /\ cl'[d].taken = cl[d].taken + 0
        BY <1>2, CleanNumbers DEF Undisturbed
      <4>3. dirty' <= dirty + 0 /\ dirty' + blank' + 0 >= dirty + blank
        BY <1>1, <1>2
      <4>. QED
        BY <1>2, <1>3, <3>1, <4>1, <4>2, <4>3, UndisturbedAlone
    <3>2. CASE ~Cleaning(d)
      BY <1>2, <3>2 DEF AloneInv, Cleaning
    <3>. QED
      BY <3>1, <3>2
  <2>. QED
    BY <2>2, <2>3
<1>. QED
  BY <1>2, <1>3, <1>4 DEF FillInv

(* Another program frees or takes a block, and every clean learns of it.   *)
LEMMA ProgramStep ==
  ASSUME FillInv, SpaceInv', data' = data, media' = media, dir' = dir, file' = file,
         NEW l \in {0, 1}, NEW t \in {0, 1}, events' = events + 1, events' \in 0..MaxEvents,
         used' + l = used + t, dirty' <= dirty + l, dirty' + blank' + t >= dirty + blank,
         \A c \in Cleaners : ~Cleaning(c) => cl'[c] = Resting,
         \A c \in Cleaners : Cleaning(c) =>
           /\ Undisturbed(c) /\ cl'[c].alone = cl[c].alone
           /\ cl'[c].late = cl[c].late + l /\ cl'[c].taken = cl[c].taken + t,
         cl' \in [Cleaners -> Cleanings]
  PROVE  FillInv'
<1>1. events \in Nat /\ l \in Nat /\ t \in Nat
  BY CleanNumbers DEF FillInv
<1>2. events' \in Nat /\ events + l <= events' /\ events + t <= events'
  BY <1>1
<1>3. \A d \in Cleaners : Cleaning(d)' <=> Cleaning(d)
  BY RestingType DEF Cleaning, Undisturbed
<1>4. ASSUME NEW c \in Cleaners
      PROVE  CleanInv(c)' /\ AloneInv(c)'
  <2>1. CASE Cleaning(c)
    <3>1. Solitary(c) => Solitary(c)'
      BY <1>3 DEF Solitary
    <3>2. CleanInv(c)'
      BY <1>1, <1>2, <2>1, UndisturbedClean
    <3>3. AloneInv(c)'
      BY <1>1, <2>1, <3>1, UndisturbedAlone
    <3>. QED
      BY <3>2, <3>3
  <2>2. CASE ~Cleaning(c)
    BY <1>2, <2>2, RestingType DEF CleanInv, AloneInv, Cleaning
  <2>. QED
    BY <2>1, <2>2
<1>. QED
  BY <1>4 DEF FillInv

(* What a clean learns of is counted within the bound of the events.       *)
LEMMA Learned ==
  ASSUME FillInv, NEW e, Happens(e), NEW c \in Cleaners
  PROVE  /\ [cl[c] EXCEPT !.late = @ + 1] \in Cleanings
         /\ [cl[c] EXCEPT !.taken = @ + 1] \in Cleanings
<1>1. cl[c] \in Cleanings /\ CleanInv(c) /\ events \in Nat /\ events < MaxEvents /\ MaxEvents \in Nat
  BY EventsAssumption DEF FillInv, Happens
<1>2. cl[c].late \in Nat /\ cl[c].taken \in Nat
  BY CleanNumbers
<1>3. cl[c].late + 1 \in 0..MaxEvents /\ cl[c].taken + 1 \in 0..MaxEvents
  BY <1>1, <1>2 DEF CleanInv
<1>. QED
  BY <1>1, <1>3 DEF Cleanings

LEMMA UserDeletesStep ==
  ASSUME FillInv, UserDeletes
  PROVE  FillInv'
<1>1. SpaceInv /\ cl \in [Cleaners -> Cleanings] /\ events \in 0..MaxEvents
  BY DEF FillInv
<1>2. /\ Happens("delete") /\ used > 0 /\ used' = used - 1 /\ dirty' = dirty + 1 /\ blank' = blank
      /\ cl' = [c \in Cleaners |-> IF Cleaning(c) THEN [cl[c] EXCEPT !.late = @ + 1] ELSE Resting]
      /\ media' = media /\ dir' = dir /\ file' = file /\ data' = data
  BY DEF UserDeletes, fill
<1>3. /\ used \in Nat /\ dirty \in Nat /\ blank \in Nat
  BY <1>1 DEF SpaceInv
<1>4. SpaceInv'
  BY <1>1, <1>2, <1>3, SameFills
<1>5. used' + 1 = used + 0 /\ dirty' <= dirty + 1 /\ dirty' + blank' + 0 >= dirty + blank
  BY <1>2, <1>3
<1>6. cl' \in [Cleaners -> Cleanings]
  BY <1>2, Learned, RestingType
<1>7. \A c \in Cleaners : Cleaning(c) =>
        /\ Undisturbed(c) /\ cl'[c].alone = cl[c].alone
        /\ cl'[c].late = cl[c].late + 1 /\ cl'[c].taken = cl[c].taken + 0
  <2>1. ASSUME NEW c \in Cleaners, Cleaning(c)
        PROVE  /\ Undisturbed(c) /\ cl'[c].alone = cl[c].alone
               /\ cl'[c].late = cl[c].late + 1 /\ cl'[c].taken = cl[c].taken
    BY <1>1, <1>2, <2>1 DEF Undisturbed, Cleanings
  <2>. QED
    BY <2>1, CleanNumbers
<1>8. events' = events + 1 /\ events' \in 0..MaxEvents
  BY <1>1, <1>2, HappensEvents
<1>9. \A c \in Cleaners : ~Cleaning(c) => cl'[c] = Resting
  BY <1>2
<1>. QED
  BY <1>2, <1>4, <1>5, <1>6, <1>7, <1>8, <1>9, ProgramStep

LEMMA UserWritesStep ==
  ASSUME FillInv, UserWrites
  PROVE  FillInv'
<1>1. SpaceInv /\ cl \in [Cleaners -> Cleanings] /\ events \in 0..MaxEvents
  BY DEF FillInv
<1>2. /\ Happens("write") /\ used' = used + 1 /\ Take
      /\ cl' = [c \in Cleaners |-> IF Cleaning(c) THEN [cl[c] EXCEPT !.taken = @ + 1] ELSE Resting]
      /\ media' = media /\ dir' = dir /\ file' = file /\ data' = data
  BY DEF UserWrites, fill
<1>3. /\ used \in Nat /\ dirty \in Nat /\ blank \in Nat
  BY <1>1 DEF SpaceInv
<1>4. /\ dirty' \in Nat /\ blank' \in Nat /\ dirty' <= dirty /\ dirty' + blank' + 1 = dirty + blank
  <2>1. CASE dirty > 0 /\ dirty' = dirty - 1 /\ blank' = blank
    BY <1>3, <2>1
  <2>2. CASE blank > 0 /\ blank' = blank - 1 /\ dirty' = dirty
    BY <1>3, <2>2
  <2>. QED
    BY <1>2, <2>1, <2>2 DEF Take
<1>5. used' \in Nat /\ used' + dirty' + blank' = used + dirty + blank
  BY <1>2, <1>3, <1>4
<1>6. SpaceInv'
  BY <1>1, <1>2, <1>4, <1>5, SameFills
<1>7. used' + 0 = used + 1 /\ dirty' <= dirty + 0 /\ dirty' + blank' + 1 >= dirty + blank
  BY <1>2, <1>3, <1>4
<1>8. cl' \in [Cleaners -> Cleanings]
  BY <1>2, Learned, RestingType
<1>9. \A c \in Cleaners : Cleaning(c) =>
        /\ Undisturbed(c) /\ cl'[c].alone = cl[c].alone
        /\ cl'[c].late = cl[c].late + 0 /\ cl'[c].taken = cl[c].taken + 1
  <2>1. ASSUME NEW c \in Cleaners, Cleaning(c)
        PROVE  /\ Undisturbed(c) /\ cl'[c].alone = cl[c].alone
               /\ cl'[c].late = cl[c].late /\ cl'[c].taken = cl[c].taken + 1
    BY <1>1, <1>2, <2>1 DEF Undisturbed, Cleanings
  <2>. QED
    BY <2>1, CleanNumbers
<1>10. events' = events + 1 /\ events' \in 0..MaxEvents
  BY <1>1, <1>2, HappensEvents
<1>11. \A c \in Cleaners : ~Cleaning(c) => cl'[c] = Resting
  BY <1>2
<1>. QED
  BY <1>2, <1>6, <1>7, <1>8, <1>9, <1>10, <1>11, ProgramStep

(* What a clean may write leaves the margin of what it saw.                *)
LEMMA BudgetBounds ==
  ASSUME SpaceInv, NEW b, b = AtMost(Minus(Free, Margin), MaxFill)
  PROVE  b \in 0..Blocks /\ b <= Free /\ (b > 0 => Free >= Margin + b)
<1>1. Free \in 0..Blocks /\ Margin \in Nat /\ MaxFill \in Nat /\ Blocks \in Nat
  BY SpaceBounds DEF Free
<1>. QED
  BY <1>1 DEF AtMost, Minus

LEMMA PlannedSelf ==
  ASSUME FillInv, NEW c \in Cleaners, ~Cleaning(c), NEW b, b = AtMost(Minus(Free, Margin), MaxFill),
         cl' = Planned(c, b), SpaceInv', used' = used, dirty' = dirty, blank' = blank,
         events' \in Nat
  PROVE  cl'[c] \in Cleanings /\ CleanInv(c)' /\ AloneInv(c)'
<1>. DEFINE a == \A e \in Cleaners \ {c} : ~Cleaning(e)
            r == [Resting EXCEPT !.pc = "sweep", !.seen = Free, !.left = Blocks - used - Free,
                                 !.budget = b, !.alone = a]
<1>1. cl'[c] = r
  BY DEF Planned
<1>2. SpaceInv /\ used \in Nat /\ dirty \in Nat /\ blank \in Nat
  BY DEF FillInv, SpaceInv
<1>3. b \in 0..Blocks /\ b <= Free /\ (b > 0 => Free >= Margin + b)
  BY <1>2, BudgetBounds
<1>4. Free \in 0..Blocks /\ Blocks - used - Free \in 0..Blocks /\ Blocks \in Nat /\ Margin \in Nat
  BY <1>2, SpaceBounds DEF Free
<1>5. a \in BOOLEAN
  OBVIOUS
<1>6. a => Solitary(c)'
  BY DEF Solitary, Cleaning, Planned
<1>. HIDE DEF a
<1>7. /\ r \in Cleanings /\ r.pc = "sweep" /\ r.seen = Free /\ r.left = Blocks - used - Free
      /\ r.budget = b /\ r.written = 0 /\ r.node = NoNode /\ r.ok = FALSE /\ r.late = 0
      /\ r.taken = 0
  BY <1>3, <1>4, <1>5, RestingType, EventsAssumption DEF Cleanings, Pcs, Resting
<1>8. r.alone = a
  BY RestingType DEF Cleanings
<1>. HIDE DEF r
<1>9. CleanInv(c)'
  <2>1. r.seen + r.left + r.late + used' = Blocks + r.taken
    BY <1>2, <1>4, <1>7
  <2>2. r.written <= r.budget /\ r.budget <= r.seen /\ r.late <= events' /\ r.taken <= events'
    BY <1>3, <1>4, <1>7
  <2>. QED
    BY <1>1, <1>7, <2>1, <2>2 DEF CleanInv
<1>10. AloneInv(c)'
  <2>1. WrittenThere(c)' /\ DataGone(c)'
    BY <1>1, <1>7 DEF WrittenThere, DataGone
  <2>2. MarginAhead(c)'
    <3>1. b > 0 => dirty' + blank' + 0 >= Margin + (b - 0)
      BY <1>2, <1>3, <1>4 DEF Free
    <3>. QED
      BY <1>1, <1>7, <3>1 DEF MarginAhead
  <2>. QED
    BY <1>1, <1>6, <1>8, <2>1, <2>2 DEF AloneInv
<1>. QED
  BY <1>1, <1>7, <1>9, <1>10

LEMMA PlannedOthers ==
  ASSUME FillInv, NEW c \in Cleaners, NEW d \in Cleaners, d # c, NEW b, cl' = Planned(c, b),
         SpaceInv', used' = used, events' \in Nat, events <= events'
  PROVE  cl'[d] \in Cleanings /\ CleanInv(d)' /\ AloneInv(d)'
<1>1. CleanInv(d) /\ AloneInv(d) /\ cl[d] \in Cleanings
  BY DEF FillInv
<1>2. CASE Cleaning(d)
  <2>. DEFINE r == [cl[d] EXCEPT !.alone = FALSE]
  <2>1. cl'[d] = r
    BY <1>2 DEF Planned
  <2>2. r \in Cleanings /\ r.alone = FALSE /\ Undisturbed(d) /\ r.late = cl[d].late /\ r.taken = cl[d].taken
    BY <1>1, <2>1 DEF Cleanings, Undisturbed
  <2>. HIDE DEF r
  <2>3. cl'[d].late = cl[d].late + 0 /\ cl'[d].taken = cl[d].taken + 0
    BY <2>1, <2>2, CleanNumbers
  <2>4. used' + 0 = used + 0 /\ events + 0 <= events'
    BY CleanNumbers
  <2>5. CleanInv(d)'
    BY <1>2, <2>2, <2>3, <2>4, UndisturbedClean
  <2>. QED
    BY <2>1, <2>2, <2>5 DEF AloneInv
<1>3. CASE ~Cleaning(d)
  <2>1. cl'[d] = cl[d]
    BY <1>3 DEF Planned
  <2>2. cl[d].late \in Nat /\ cl[d].taken \in Nat /\ events \in Nat
    BY CleanNumbers
  <2>3. cl'[d].late <= events' /\ cl'[d].taken <= events'
    BY <1>1, <2>1, <2>2 DEF CleanInv
  <2>4. CleanInv(d)'
    BY <1>1, <1>3, <2>1, <2>3 DEF CleanInv, Cleaning
  <2>. QED
    BY <1>1, <1>3, <2>1, <2>4 DEF AloneInv, Cleaning
<1>. QED
  BY <1>2, <1>3

LEMMA PlanStep ==
  ASSUME FillInv, NEW c \in Cleaners, Plan(c)
  PROVE  FillInv'
<1>1. /\ SpaceInv /\ events \in 0..MaxEvents /\ MaxEvents \in Nat
  BY EventsAssumption DEF FillInv
<1>2. PICK b : b = AtMost(Minus(Free, Margin), MaxFill) /\ cl' = Planned(c, b)
  BY DEF Plan
<1>3. /\ ~Cleaning(c) /\ media' = media /\ used' = used /\ dirty' = dirty /\ blank' = blank
      /\ dir' = dir /\ file' = file /\ data' = data
  BY DEF Plan, At, Cleaning, fill
<1>4. events' \in 0..MaxEvents /\ events <= events'
  <2>1. CASE Happens("probe")
    BY <1>1, <2>1, HappensEvents
  <2>2. CASE events' = events
    BY <1>1, <2>2
  <2>. QED
    BY <2>1, <2>2 DEF Plan, TakenForDisk
<1>5. SpaceInv'
  BY <1>1, <1>3, SameFills DEF SpaceInv
<1>6. \A d \in Cleaners : cl'[d] \in Cleanings /\ CleanInv(d)' /\ AloneInv(d)'
  <2>1. events' \in Nat
    BY <1>4
  <2>. QED
    BY <1>2, <1>3, <1>4, <1>5, <2>1, PlannedSelf, PlannedOthers
<1>7. cl' \in [Cleaners -> Cleanings]
  BY <1>2, <1>6 DEF Planned
<1>. QED
  BY <1>3, <1>4, <1>5, <1>6, <1>7 DEF FillInv

-----------------------------------------------------------------------------
LEMMA FillInit ==
  ASSUME Init
  PROVE  FillInv
<1>1. /\ used \in 0..Blocks /\ dirty = Blocks - used /\ blank = 0 /\ events = 0
      /\ media \in Media /\ dir = FALSE /\ file = NoNode /\ data = [n \in Nodes |-> {}]
      /\ cl = [c \in Cleaners |-> Resting]
  BY DEF Init
<1>2. SpaceInv
  <2>1. Occupied = {}
    BY <1>1 DEF Occupied
  <2>2. Cardinality(Occupied) = 0
    BY <2>1, FS_EmptySet
  <2>3. used \in Nat /\ dirty \in Nat /\ blank \in Nat /\ used + dirty + blank + 0 = Blocks
    BY <1>1, SizeAssumption
  <2>. QED
    BY <1>1, <2>2, <2>3 DEF SpaceInv
<1>3. \A c \in Cleaners : CleanInv(c) /\ AloneInv(c)
  BY <1>1, RestingType DEF CleanInv, AloneInv, Cleaning
<1>4. cl \in [Cleaners -> Cleanings]
  BY <1>1, RestingType
<1>5. dir \in BOOLEAN /\ file \in Nodes \union {NoNode}
  BY <1>1
<1>6. events \in 0..MaxEvents
  <2>1. events = 0 /\ MaxEvents \in Nat
    BY <1>1, EventsAssumption
  <2>. QED
    BY <2>1
<1>. QED
  BY <1>1, <1>2, <1>3, <1>4, <1>5, <1>6 DEF FillInv

LEMMA FillStutter ==
  ASSUME FillInv, UNCHANGED vars
  PROVE  FillInv'
<1>1. /\ media' = media /\ used' = used /\ dirty' = dirty /\ blank' = blank /\ dir' = dir
      /\ file' = file /\ data' = data /\ cl' = cl /\ events' = events
  BY DEF vars, fill
<1>2. SpaceInv'
  BY <1>1, SameFills DEF FillInv, SpaceInv
<1>. QED
  BY <1>1, <1>2 DEF FillInv, CleanInv, AloneInv, Cleaning, Solitary, WrittenThere, MarginAhead, DataGone

(* A refused clean changes nothing but the count of events.                *)
LEMMA RefusedStep ==
  ASSUME FillInv, NEW c \in Cleaners, Refused(c)
  PROVE  FillInv'
<1>1. /\ media' = media /\ used' = used /\ dirty' = dirty /\ blank' = blank /\ dir' = dir
      /\ file' = file /\ data' = data /\ cl' = cl
  BY DEF Refused, fill
<1>2. events \in Nat /\ events' \in 0..MaxEvents /\ events <= events'
  <2>1. events \in 0..MaxEvents /\ MaxEvents \in Nat
    BY EventsAssumption DEF FillInv
  <2>2. events' = events \/ events' \in events..MaxEvents
    BY HappensEvents DEF Refused
  <2>. QED
    BY <2>1, <2>2
<1>3. SpaceInv'
  BY <1>1, SameFills DEF FillInv, SpaceInv
<1>4. ASSUME NEW d \in Cleaners
      PROVE  CleanInv(d)' /\ AloneInv(d)'
  <2>1. CleanInv(d) /\ AloneInv(d)
    BY DEF FillInv
  <2>2. cl[d].late \in Nat /\ cl[d].taken \in Nat
    BY CleanNumbers
  <2>3. CleanInv(d)'
    BY <1>1, <1>2, <2>1, <2>2 DEF CleanInv, Cleaning
  <2>4. AloneInv(d)'
    BY <1>1, <2>1 DEF AloneInv, Cleaning, Solitary, WrittenThere, MarginAhead, DataGone
  <2>. QED
    BY <2>3, <2>4
<1>. QED
  BY <1>1, <1>2, <1>3, <1>4 DEF FillInv

LEMMA FillStep ==
  ASSUME FillInv, [Next]_vars
  PROVE  FillInv'
<1>1. CASE UNCHANGED vars
  BY <1>1, FillStutter
<1>2. ASSUME NEW c \in Cleaners, Clean(c)
      PROVE  FillInv'
  BY <1>2, TrimStep, RefusedStep, PlanStep, RemovesStep, FillsStep DEF Clean
<1>. QED
  BY <1>1, <1>2, CrashStep, UserDeletesStep, UserWritesStep DEF Next

LEMMA FillAlways == Spec => []FillInv
<1>1. Init => FillInv
  BY FillInit
<1>2. FillInv /\ [Next]_vars => FillInv'
  BY FillStep
<1>. QED
  BY <1>1, <1>2, PTL DEF Spec

LEMMA FillTypes ==
  ASSUME FillInv
  PROVE  TypeOK
  BY SpaceBounds DEF FillInv, SpaceInv, TypeOK, Cleanings

(* Whatever order several cleaners remove, fill and die in, the blocks     *)
(* they count, the files they hold and their pc stay what the code can     *)
(* mean by them.                                                           *)
THEOREM FreeSpaceTypeCorrect == Spec => []TypeOK
<1>1. FillInv => TypeOK
  BY FillTypes
<1>. QED
  BY <1>1, FillAlways, PTL

(* Nothing but the write of a block counts as written.                     *)
LEMMA OnlyWritesCount ==
  ASSUME FillInv, Next, NEW c \in Cleaners, cl'[c].written > cl[c].written
  PROVE  WriteBlock(c)
<1>1. cl \in [Cleaners -> Cleanings] /\ cl[c].written \in Nat
  BY CleanNumbers DEF FillInv
<1>2. cl'[c].written # cl[c].written /\ cl'[c].written # 0
  BY <1>1
<1>3. ASSUME NEW d \in Cleaners, Clean(d)
      PROVE  WriteBlock(c)
  <2>1. CASE Trim(d) \/ Refused(d)
    BY <1>2, <2>1 DEF Trim, Refused
  <2>2. CASE Plan(d)
    BY <1>1, <1>2, <2>2, RestingType DEF Plan, Planned, Cleanings
  <2>3. CASE Removes(d)
    BY <1>1, <1>2, <2>3, RestingType DEF Removes, UnlinkFill, RemoveDir, RemovalFails, GoTo, Cleanings
  <2>4. CASE MakeDir(d) \/ SetupFails(d)
    BY <1>1, <1>2, <2>4, RestingType DEF MakeDir, SetupFails, GoTo, Cleanings
  <2>5. CASE OpenFill(d)
    BY <1>1, <1>2, <2>5, RestingType DEF OpenFill, Opened, GoTo, Cleanings
  <2>6. CASE WriteBlock(d)
    BY <1>1, <1>2, <2>6 DEF WriteBlock, Cleanings
  <2>7. CASE FillDone(d) \/ DiskFull(d)
    BY <1>1, <1>2, <2>7 DEF FillDone, DiskFull, CloseFill, Cleanings
  <2>. QED
    BY <1>3, <2>1, <2>2, <2>3, <2>4, <2>5, <2>6, <2>7 DEF Clean, Fills
<1>4. ASSUME NEW d \in Cleaners, Crash(d)
      PROVE  FALSE
  BY <1>1, <1>2, <1>4, RestingType DEF Crash
<1>5. ~UserDeletes /\ ~UserWrites
  BY <1>1, <1>2, RestingType DEF UserDeletes, UserWrites, Cleanings
<1>. QED
  BY <1>3, <1>4, <1>5 DEF Next

(* A clean beside which no other one runs never takes the free space below *)
(* the margin (freespace.rs:8), whatever other programs delete and write   *)
(* and whatever an earlier clean left behind.                              *)
THEOREM MarginAlwaysKeptAlone == Spec => MarginKeptAlone
<1>1. ASSUME FillInv, FillInv', [Next]_vars, NEW c \in Cleaners, cl[c].alone
      PROVE  KeepsMargin(c)
  <2>1. SUFFICES ASSUME cl'[c].written > cl[c].written, Free' < Free
        PROVE  Free' + cl[c].taken >= Margin
    BY DEF KeepsMargin
  <2>2. WriteBlock(c)
    <3>1. cl[c].written \in Nat
      BY <1>1, CleanNumbers
    <3>2. ~UNCHANGED vars
      BY <2>1, <3>1 DEF vars
    <3>. QED
      BY <1>1, <2>1, <3>2, OnlyWritesCount
  <2>3. MarginAhead(c) /\ Cleaning(c) /\ cl[c].written < cl[c].budget
    BY <1>1, <2>2 DEF WriteBlock, At, Cleaning, FillInv, AloneInv
  <2>4. Free' + 1 >= Free
    <3>1. dirty \in Nat /\ blank \in Nat
      BY <1>1 DEF FillInv, SpaceInv
    <3>2. CASE Take
      BY <3>1, <3>2 DEF Take, Free
    <3>3. CASE UNCHANGED <<dirty, blank>>
      BY <3>1, <3>3 DEF Free
    <3>. QED
      BY <2>2, <3>2, <3>3 DEF WriteBlock
  <2>. DEFINE f == Free
              e == Free'
              t == cl[c].taken
              g == cl[c].budget
              w == cl[c].written
  <2>5. f \in Nat /\ t \in Nat /\ g \in Nat /\ w \in Nat /\ Margin \in Nat
    BY <1>1, CleanNumbers, SizeAssumption DEF FillInv, SpaceInv, Free
  <2>6. e \in Nat
    <3>1. dirty' \in Nat /\ blank' \in Nat
      BY <1>1 DEF FillInv, SpaceInv
    <3>2. \A i, j \in Nat : i + j \in Nat
      OBVIOUS
    <3>. QED
      BY <3>1, <3>2, Zenon DEF Free
  <2>7. f + t >= Margin + (g - w) /\ w < g
    BY <2>3, <2>5 DEF MarginAhead, Free
  <2>8. e + 1 >= f
    BY <2>4
  <2>. HIDE DEF f, e, t, g, w
  <2>9. e + t >= Margin
    BY <2>5, <2>6, <2>7, <2>8
  <2>. QED
    BY <2>9 DEF e, t
<1>2. FillInv /\ FillInv' /\ [Next]_vars => [\A c \in Cleaners : cl[c].alone => KeepsMargin(c)]_vars
  BY <1>1
<1>. QED
  BY <1>2, FillAlways, PTL DEF Spec, MarginKeptAlone

(* A clean that succeeds, no other beside it, has overwritten the deleted  *)
(* data but for the margin, what was deleted since it was planned, and as  *)
(* many blocks as a killed clean had left occupied.                        *)
THEOREM FreedDataAlwaysOverwritten == Spec => []FreedDataOverwritten
<1>1. FillInv => FreedDataOverwritten
  BY DEF FillInv, CleanInv, AloneInv, DataGone, Cleaning, FreedDataOverwritten
<1>. QED
  BY <1>1, FillAlways, PTL

-----------------------------------------------------------------------------
(* What is left when the last clean has ended.                             *)

(* No blocks but those of the file with a name and of files held open.     *)
NoOrphans == \A n \in Nodes : data[n] # {} => n = file \/ Holders(n) # {}

(* Whoever made the fill, or found it there, is still to remove it, and    *)
(* then the directory.                                                     *)
FillTended == file # NoNode => \E c \in Cleaners : cl[c].pc \in {"sweep", "write", "remove"}
DirTended ==
  dir => \E c \in Cleaners :
           cl[c].pc \in {"sweep", "sweep_dir", "open", "write", "remove", "remove_dir"}

Tended == FillTended /\ DirTended

(* The cleaners after a step of c.                                         *)
LEMMA GoToCleaners ==
  ASSUME FillInv, NEW c \in Cleaners, NEW pc, GoTo(c, pc)
  PROVE  /\ cl'[c].pc = pc /\ (cl[c].node = NoNode => cl'[c].node = NoNode)
         /\ \A d \in Cleaners \ {c} : cl'[d] = cl[d]
  BY RestingType DEF FillInv, Cleanings, GoTo

LEMMA IdleHoldsNothing ==
  ASSUME FillInv, NEW c \in Cleaners, cl[c].pc # "write"
  PROVE  cl[c].node = NoNode
  BY DEF FillInv, CleanInv

(* Removing leaves no orphan, and leaves the rest to those who will remove *)
(* it.                                                                     *)
LEMMA RemovesTended ==
  ASSUME FillInv, NoOrphans, "unlink" \notin Env, NEW c \in Cleaners, Removes(c)
  PROVE  NoOrphans' /\ (Tended => Tended')
<1>1. PICK r \in Removal :
        \/ /\ At(c, r.at) /\ GoTo(c, r.rmdir) /\ file' = NoNode
           /\ IF file # NoNode /\ Holders(file) = {} THEN Release(file) ELSE UNCHANGED <<blank, data>>
           /\ UNCHANGED <<media, used, dirty, dir, events>>
        \/ /\ At(c, r.rmdir) /\ GoTo(c, r.next) /\ dir' = (dir /\ file # NoNode)
           /\ UNCHANGED <<media, used, dirty, blank, file, data, events>>
  BY DEF Removes, UnlinkFill, RemoveDir, RemovalFails, Happens
<1>2. /\ r.at \in {"sweep", "remove"} /\ r.rmdir \in {"sweep_dir", "remove_dir"}
      /\ r.next \in {"mkdir", "idle"}
  BY DEF Removal
<1>3. cl[c].node = NoNode
  BY <1>1, <1>2, IdleHoldsNothing DEF At
<1>4. /\ cl'[c].node = NoNode
      /\ \A d \in Cleaners \ {c} : cl'[d] = cl[d]
  BY <1>1, <1>3, GoToCleaners
<1>5. \A n \in Nodes : Holders(n)' = Holders(n)
  BY <1>3, <1>4, NodesFinite DEF Holders
<1>6. data \in [Nodes -> SUBSET Offsets]
  BY DEF FillInv, SpaceInv
<1>7. CASE /\ At(c, r.at) /\ GoTo(c, r.rmdir) /\ file' = NoNode
           /\ IF file # NoNode /\ Holders(file) = {} THEN Release(file) ELSE UNCHANGED <<blank, data>>
           /\ UNCHANGED <<media, used, dirty, dir, events>>
  <2>1. NoOrphans'
    BY <1>5, <1>6, <1>7 DEF NoOrphans, Release
  <2>2. cl'[c].pc \in {"sweep_dir", "remove_dir"} /\ file' = NoNode
    BY <1>2, <1>7, GoToCleaners
  <2>. QED
    BY <2>1, <2>2 DEF Tended, FillTended, DirTended
<1>8. CASE /\ At(c, r.rmdir) /\ GoTo(c, r.next) /\ dir' = (dir /\ file # NoNode)
           /\ UNCHANGED <<media, used, dirty, blank, file, data, events>>
  <2>1. NoOrphans'
    BY <1>5, <1>8 DEF NoOrphans
  <2>2. cl[c].pc \notin {"sweep", "write", "remove"}
    BY <1>2, <1>8 DEF At
  <2>3. FillTended =>
          (file # NoNode => \E d \in Cleaners : cl'[d].pc \in {"sweep", "write", "remove"})
    BY <1>4, <2>2 DEF FillTended
  <2>. QED
    BY <1>8, <2>1, <2>3 DEF Tended, FillTended, DirTended
<1>. QED
  BY <1>1, <1>7, <1>8

LEMMA CloseTended ==
  ASSUME FillInv, NoOrphans, NEW c \in Cleaners, NEW ok \in BOOLEAN, cl[c].pc = "write",
         CloseFill(c, ok)
  PROVE  NoOrphans' /\ (Tended => Tended')
<1>. DEFINE n == cl[c].node
<1>1. n \in Nodes /\ cl \in [Cleaners -> Cleanings] /\ data \in [Nodes -> SUBSET Offsets]
  BY DEF FillInv, CleanInv, Cleanings, SpaceInv
<1>2. /\ cl'[c].pc = "remove" /\ cl'[c].node = NoNode /\ file' = file
      /\ \A d \in Cleaners \ {c} : cl'[d] = cl[d]
      /\ IF file # n /\ Holders(n) = {c} THEN Release(n) ELSE UNCHANGED <<blank, data>>
      /\ dir' = dir
  BY <1>1 DEF CloseFill, Cleanings
<1>. HIDE DEF n
<1>3. \A m \in Nodes : Holders(m)' = Holders(m) \ {c}
  BY <1>2, NodesFinite DEF Holders
<1>4. \A m \in Nodes \ {n} : c \notin Holders(m)
  BY DEF Holders, n
<1>5. NoOrphans'
  <2>. SUFFICES ASSUME NEW m \in Nodes, data'[m] # {}, m # file
                PROVE  Holders(m) \ {c} # {}
    BY <1>2, <1>3 DEF NoOrphans
  <2>1. data[m] # {} /\ Holders(m) # {}
    BY <1>1, <1>2 DEF NoOrphans, Release
  <2>2. CASE m # n
    BY <1>4, <2>1, <2>2
  <2>3. CASE m = n
    <3>1. Holders(n) # {c}
      BY <1>1, <1>2, <2>3 DEF Release
    <3>. QED
      BY <2>1, <2>3, <3>1
  <2>. QED
    BY <2>2, <2>3
<1>. QED
  BY <1>2, <1>5 DEF Tended, FillTended, DirTended

LEMMA OpenTended ==
  ASSUME FillInv, NoOrphans, NEW c \in Cleaners, OpenFill(c)
  PROVE  NoOrphans' /\ (Tended => Tended')
<1>0. /\ cl \in [Cleaners -> Cleanings] /\ data \in [Nodes -> SUBSET Offsets]
      /\ cl[c].pc = "open" /\ cl[c].node = NoNode /\ dir' = dir
  BY IdleHoldsNothing DEF FillInv, SpaceInv, OpenFill, At
<1>1. CASE ~dir
  <2>1. GoTo(c, "remove") /\ file' = file /\ data' = data
    BY <1>1 DEF OpenFill
  <2>2. /\ cl'[c].pc = "remove" /\ cl'[c].node = NoNode
        /\ \A d \in Cleaners \ {c} : cl'[d] = cl[d]
    BY <1>0, <2>1, GoToCleaners
  <2>3. \A n \in Nodes : Holders(n)' = Holders(n)
    BY <1>0, <2>2, NodesFinite DEF Holders
  <2>. QED
    BY <1>0, <1>1, <2>1, <2>2, <2>3 DEF NoOrphans, Tended, FillTended, DirTended
<1>2. ASSUME NEW n \in Nodes, Opened(c, n), file' = n, data'[n] = {} \/ data' = data,
             \A m \in Nodes \ {n} : data'[m] = data[m] /\ m # file
      PROVE  NoOrphans' /\ (Tended => Tended')
  <2>1. /\ cl'[c].pc = "write" /\ \A d \in Cleaners \ {c} : cl'[d] = cl[d]
    BY <1>0, <1>2 DEF Opened, Cleanings
  <2>2. \A m \in Nodes : Holders(m) \subseteq Holders(m)'
    BY <1>0, <2>1, NodesFinite DEF Holders
  <2>3. NoOrphans'
    BY <1>2, <2>2 DEF NoOrphans
  <2>. QED
    BY <1>0, <2>1, <2>3 DEF Tended, FillTended, DirTended
<1>3. CASE dir /\ file # NoNode
  <2>1. Opened(c, file) /\ Release(file) /\ file' = file /\ file \in Nodes
    BY <1>3 DEF OpenFill, FillInv
  <2>2. data'[file] = {} /\ \A m \in Nodes \ {file} : data'[m] = data[m]
    BY <1>0, <2>1 DEF Release
  <2>. QED
    BY <1>2, <2>1, <2>2
<1>4. CASE dir /\ file = NoNode
  <2>1. PICK n \in Nodes : Opened(c, n) /\ file' = n /\ UNCHANGED <<blank, data>>
    BY <1>4 DEF OpenFill
  <2>. QED
    BY <1>2, <1>4, <2>1, NodesFinite
<1>. QED
  BY <1>1, <1>3, <1>4

(* A clean that gives up before it fills leaves its directory.             *)
LEMMA SetupOrphans ==
  ASSUME FillInv, NoOrphans, NEW c \in Cleaners, SetupFails(c)
  PROVE  NoOrphans'
<1>1. GoTo(c, "idle") /\ cl[c].node = NoNode /\ file' = file /\ data' = data
  BY IdleHoldsNothing DEF SetupFails, At, fill
<1>2. cl'[c].node = NoNode /\ \A d \in Cleaners \ {c} : cl'[d] = cl[d]
  BY <1>1, GoToCleaners
<1>3. \A n \in Nodes : Holders(n)' = Holders(n)
  BY <1>1, <1>2, NodesFinite DEF Holders
<1>. QED
  BY <1>1, <1>3 DEF NoOrphans

LEMMA FillsTended ==
  ASSUME FillInv, NoOrphans, NEW c \in Cleaners, Fills(c)
  PROVE  NoOrphans' /\ (Tended => Tended' \/ SetupFails(c))
<1>0. cl \in [Cleaners -> Cleanings] /\ data \in [Nodes -> SUBSET Offsets]
  BY DEF FillInv, SpaceInv
<1>1. CASE MakeDir(c)
  <2>1. cl[c].pc = "mkdir" /\ GoTo(c, "open") /\ file' = file /\ data' = data
    BY <1>1 DEF MakeDir, At
  <2>2. /\ cl'[c].pc = "open" /\ cl'[c].node = NoNode /\ cl[c].node = NoNode
        /\ \A d \in Cleaners \ {c} : cl'[d] = cl[d]
    BY <2>1, GoToCleaners, IdleHoldsNothing
  <2>3. \A n \in Nodes : Holders(n)' = Holders(n)
    BY <2>2, NodesFinite DEF Holders
  <2>. QED
    BY <2>1, <2>2, <2>3 DEF NoOrphans, Tended, FillTended, DirTended
<1>2. CASE WriteBlock(c)
  <2>1. /\ file' = file /\ dir' = dir
        /\ \A d \in Cleaners : cl'[d].pc = cl[d].pc /\ cl'[d].node = cl[d].node
        /\ \A n \in Nodes : n # cl[c].node => data'[n] = data[n]
    BY <1>0, <1>2 DEF WriteBlock, Cleanings
  <2>2. \A n \in Nodes : Holders(n)' = Holders(n)
    BY <2>1 DEF Holders
  <2>3. NoOrphans'
    <3>1. \A n \in Nodes : n = cl[c].node => Holders(n) # {}
      BY DEF Holders
    <3>. QED
      BY <2>1, <2>2, <3>1 DEF NoOrphans
  <2>. QED
    BY <2>1, <2>3 DEF Tended, FillTended, DirTended
<1>3. CASE FillDone(c) \/ DiskFull(c)
  BY <1>3, CloseTended DEF FillDone, DiskFull, At
<1>. QED
  BY <1>1, <1>2, <1>3, SetupOrphans, OpenTended DEF Fills

(* A clean that begins will remove whatever it finds; one that trims, or   *)
(* is refused, touches no fill.                                            *)
LEMMA PlanTended ==
  ASSUME FillInv, NoOrphans, NEW c \in Cleaners, Plan(c)
  PROVE  NoOrphans' /\ Tended'
<1>1. cl \in [Cleaners -> Cleanings]
  BY DEF FillInv
<1>2. PICK b : cl' = Planned(c, b)
  BY DEF Plan
<1>3. cl[c].node = NoNode /\ UNCHANGED <<dir, file, data>>
  BY IdleHoldsNothing DEF Plan, At, fill
<1>4. cl'[c].pc = "sweep" /\ cl'[c].node = NoNode
  BY <1>2 DEF Planned, Resting
<1>5. \A d \in Cleaners : cl'[d].node = cl[d].node
  <2>1. \A d \in Cleaners \ {c} : cl'[d].node = cl[d].node
    BY <1>1, <1>2 DEF Planned, Cleanings
  <2>. QED
    BY <1>3, <1>4, <2>1
<1>6. \A n \in Nodes : Holders(n)' = Holders(n)
  BY <1>5 DEF Holders
<1>. QED
  BY <1>3, <1>4, <1>6 DEF NoOrphans, Tended, FillTended, DirTended

LEMMA TrimTended ==
  ASSUME NoOrphans, NEW c \in Cleaners, Trim(c) \/ Refused(c)
  PROVE  NoOrphans' /\ (Tended => Tended')
  BY DEF Trim, Refused, fill, NoOrphans, Holders, Tended, FillTended, DirTended

LEMMA CrashOrphans ==
  ASSUME FillInv, NoOrphans, NEW c \in Cleaners, Crash(c)
  PROVE  NoOrphans'
<1>. DEFINE n == cl[c].node
<1>1. /\ n \in Nodes \union {NoNode} /\ cl \in [Cleaners -> Cleanings]
      /\ data \in [Nodes -> SUBSET Offsets]
  BY DEF FillInv, Cleanings, SpaceInv
<1>2. /\ cl'[c].node = NoNode /\ file' = file
      /\ \A d \in Cleaners \ {c} : cl'[d] = cl[d]
      /\ IF n # NoNode /\ file # n /\ Holders(n) = {c} THEN Release(n) ELSE UNCHANGED <<blank, data>>
  BY <1>1, RestingType DEF Crash
<1>. HIDE DEF n
<1>3. \A m \in Nodes : Holders(m)' = Holders(m) \ {c}
  BY <1>2, NodesFinite DEF Holders
<1>4. \A m \in Nodes \ {n} : c \notin Holders(m)
  BY DEF Holders, n
<1>. SUFFICES ASSUME NEW m \in Nodes, data'[m] # {}, m # file
              PROVE  Holders(m) \ {c} # {}
  BY <1>2, <1>3 DEF NoOrphans
<1>5. data[m] # {} /\ Holders(m) # {}
  BY <1>1, <1>2 DEF NoOrphans, Release
<1>6. CASE m # n
  BY <1>4, <1>5, <1>6
<1>7. CASE m = n
  <2>1. Holders(n) # {c}
    BY <1>1, <1>2, <1>7, NodesFinite DEF Release
  <2>. QED
    BY <1>5, <1>7, <2>1
<1>. QED
  BY <1>6, <1>7

LEMMA OthersTended ==
  ASSUME FillInv, NoOrphans, UserDeletes \/ UserWrites
  PROVE  NoOrphans' /\ (Tended => Tended')
<1>1. cl \in [Cleaners -> Cleanings]
  BY DEF FillInv
<1>2. \A c \in Cleaners : cl[c].pc = "idle" => cl[c].node = NoNode
  BY IdleHoldsNothing
<1>3. \A c \in Cleaners : cl'[c].pc = cl[c].pc /\ cl'[c].node = cl[c].node
  <2>1. CASE UserDeletes
    BY <1>1, <1>2, <2>1, RestingType DEF UserDeletes, Cleaning, Cleanings
  <2>2. CASE UserWrites
    BY <1>1, <1>2, <2>2, RestingType DEF UserWrites, Cleaning, Cleanings
  <2>. QED
    BY <2>1, <2>2
<1>4. UNCHANGED <<dir, file, data>>
  BY DEF UserDeletes, UserWrites, fill
<1>5. \A n \in Nodes : Holders(n)' = Holders(n)
  BY <1>3 DEF Holders
<1>. QED
  BY <1>3, <1>4, <1>5 DEF NoOrphans, Tended, FillTended, DirTended

LEMMA TendedInit == Init => NoOrphans /\ Tended
  BY DEF Init, NoOrphans, Tended, FillTended, DirTended

(* With nobody at work, nothing of the fill is left.                       *)
LEMMA TendedAtRest ==
  ASSUME FillInv, NoOrphans, Tended
  PROVE  NoFillAtRest
<1>. SUFFICES ASSUME \A c \in Cleaners : cl[c].pc = "idle"
              PROVE  ~dir /\ file = NoNode /\ used + Free = Blocks
  BY DEF NoFillAtRest, Cleaning
<1>1. ~dir /\ file = NoNode
  BY DEF Tended, FillTended, DirTended, FillInv
<1>2. \A n \in Nodes : Holders(n) = {}
  BY IdleHoldsNothing, NodesFinite DEF Holders
<1>3. \A n \in Nodes : data[n] = {}
  BY <1>1, <1>2, NodesFinite DEF NoOrphans
<1>4. Occupied = {}
  BY <1>3 DEF Occupied
<1>5. Cardinality(Occupied) = 0
  BY <1>4, FS_EmptySet
<1>. QED
  BY <1>1, <1>5 DEF FillInv, SpaceInv, Free

(* However many cleans share the volume and in whatever order they remove  *)
(* what they share, the last to end leaves no fill, no directory and no    *)
(* block of either (SAFETY.md:27), if none is killed, unlinking works and  *)
(* none gives up between making the directory and the fill                 *)
(* (freespace.rs:136-138).                                                 *)
THEOREM NoFillAtRestUnlessKilled ==
  ASSUME "crash" \notin Env, "unlink" \notin Env, "setup" \notin Env
  PROVE  Spec => []NoFillAtRest
<1>1. FillInv /\ NoOrphans /\ Tended /\ [Next]_vars => NoOrphans' /\ Tended'
  <2>. SUFFICES ASSUME FillInv, NoOrphans, Tended, [Next]_vars
                PROVE  NoOrphans' /\ Tended'
    OBVIOUS
  <2>1. CASE UNCHANGED vars
    BY <2>1 DEF vars, fill, NoOrphans, Holders, Tended, FillTended, DirTended
  <2>2. ASSUME NEW c \in Cleaners, Clean(c) \/ Crash(c)
        PROVE  NoOrphans' /\ Tended'
    <3>1. ~Crash(c) /\ ~SetupFails(c)
      BY DEF Crash, SetupFails, Happens
    <3>. QED
      BY <2>2, <3>1, TrimTended, PlanTended, RemovesTended, FillsTended DEF Clean
  <2>. QED
    BY <2>1, <2>2, OthersTended DEF Next
<1>2. FillInv /\ NoOrphans /\ Tended => NoFillAtRest
  BY TendedAtRest
<1>. QED
  BY <1>1, <1>2, TendedInit, FillAlways, PTL DEF Spec
=============================================================================
