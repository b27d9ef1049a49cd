----------------------------- MODULE FreeSpace -----------------------------
(***************************************************************************)
(* Free-space cleaning, src/freespace.rs: a cleaner fills the unallocated  *)
(* space with random data, keeps a margin, and deletes the fill; an SSD is *)
(* trimmed instead.  Several cleaners may work on the volume: the service  *)
(* loop, the timer's clean, the initial clean of install, a clean by hand. *)
(* They share the directory .secure-delete-clean-tmp and know nothing of   *)
(* each other.                                                             *)
(*                                                                         *)
(* The unit of space is STEP, what one write of the fill loop allocates.   *)
(* A file that is unlinked while a cleaner has it open keeps its blocks    *)
(* until it is closed.                                                     *)
(***************************************************************************)
EXTENDS Naturals, FiniteSets

CONSTANTS
  Cleaners,    \* processes that clean this volume
  Blocks,      \* size of the volume
  Margin,      \* max(total / 10, 1 GiB), in blocks
  MaxFill,     \* the --max of the cleaners; above Blocks for none
  MaxEvents,   \* bound: how often the environment acts
  Env          \* how: a subset of EnvEvents

(* "delete", "write"  other programs delete and write files                *)
(* "crash"            a cleaner is killed                                  *)
(* "unlink"           the fill cannot be removed                           *)
(* "probe"            detect does not see that the volume is on an SSD     *)
(* "refuse"           a clean is refused                                   *)
(* "setup"            the directory or the random data cannot be made      *)
EnvEvents == {"delete", "write", "crash", "unlink", "probe", "refuse", "setup"}

ASSUME SizeAssumption == Blocks \in Nat /\ Margin \in Nat /\ MaxFill \in Nat
ASSUME CleanersAssumption == IsFiniteSet(Cleaners)
ASSUME EventsAssumption ==
  MaxEvents \in Nat /\ Env \subseteq EnvEvents

VARIABLES
  media,     \* what the volume is on: a disk, an SSD, or an SSD that is never trimmed
  used,      \* blocks of other programs' files
  dirty,     \* free blocks that still hold deleted data
  blank,     \* free blocks that do not
  dir,       \* the fill directory exists
  file,      \* the file fill.bin names, NoNode if there is none
  data,      \* the offsets each file of a cleaner has blocks for
  cl,        \* the cleaners
  events

fill == <<dir, file, data>>
vars == <<media, used, dirty, blank, fill, cl, events>>

(* "locked": the device cannot discard, or the user may not have it done.  *)
Media == {"disk", "ssd", "locked"}

NoNode == 0
Nodes == 1..(Cardinality(Cleaners) + 1)
Offsets == 0..(Blocks - 1)

(* seen, left: blocks free, and blocks a fill occupied, when the clean was  *)
(* planned; late, taken: blocks other programs have freed and used since;  *)
(* alone: no other clean has run since.  Only the properties read left,    *)
(* late, taken and alone.                                                  *)
Resting == [pc |-> "idle", seen |-> 0, left |-> 0, budget |-> 0, written |-> 0, node |-> NoNode,
            ok |-> FALSE, late |-> 0, taken |-> 0, alone |-> TRUE]

Free == dirty + blank
AtMost(a, b) == IF a <= b THEN a ELSE b

(* Mutated: the difference of two u64 wraps.                               *)
MinusWrapped(a, b) == IF a >= b THEN a - b ELSE Blocks + 1

(* saturating_sub                                                          *)
Minus(a, b) == IF a >= b THEN a - b ELSE 0

Init ==
  /\ media \in Media
  /\ used \in 0..Blocks /\ dirty = Blocks - used /\ blank = 0
  /\ dir = FALSE /\ file = NoNode /\ data = [n \in Nodes |-> {}]
  /\ cl = [c \in Cleaners |-> Resting]
  /\ events = 0

At(c, pc) == cl[c].pc = pc
GoTo(c, pc) == cl' = [cl EXCEPT ![c] = IF pc = "idle" THEN Resting ELSE [@ EXCEPT !.pc = pc]]
Holders(n) == {c \in Cleaners : cl[c].node = n}
Cleaning(c) == cl[c].pc # "idle"

(* Something of the environment happens.                                   *)
Happens(e) == e \in Env /\ events < MaxEvents /\ events' = events + 1

(* The blocks of node n become free; they hold fill, not deleted data.     *)
Release(n) ==
  /\ blank' = blank + Cardinality(data[n])
  /\ data' = [data EXCEPT ![n] = {}]

-----------------------------------------------------------------------------
(* clean_volume: what the volume is on is looked up every time; when that  *)
(* fails, it is filled.                                                    *)

TakenForDisk == IF media # "disk" THEN Happens("probe") ELSE UNCHANGED events

Trim(c) ==
  /\ At(c, "idle") /\ media = "ssd"
  /\ dirty' = 0 /\ blank' = Free
  /\ UNCHANGED <<media, used, fill, cl, events>>

(* No TRIM: fstrim says nothing, and Linux reports an error; on Windows    *)
(* the script prints ok all the same.  Or not a directory, the system      *)
(* volume, no figures from df.                                             *)
Refused(c) ==
  /\ At(c, "idle")
  /\ IF media = "locked" THEN UNCHANGED events ELSE Happens("refuse")
  /\ UNCHANGED <<media, used, dirty, blank, fill, cl>>

(* plan: df is read once, before anything is removed or written.           *)

Planned(c, budget) ==
  [d \in Cleaners |->
     IF d = c THEN [Resting EXCEPT !.pc = "sweep", !.seen = Free, !.left = Blocks - used - Free,
                                   !.budget = budget,
                                   !.alone = \A e \in Cleaners \ {c} : ~Cleaning(e)]
     ELSE IF Cleaning(d) THEN [cl[d] EXCEPT !.alone = FALSE] ELSE cl[d]]

(* Mutated: the margin is not taken off.                                   *)
PlanAllFree(c) ==
  /\ At(c, "idle") /\ TakenForDisk
  /\ cl' = Planned(c, AtMost(Free, MaxFill))
  /\ UNCHANGED <<media, used, dirty, blank, fill>>

Plan(c) ==
  /\ At(c, "idle") /\ TakenForDisk
  /\ cl' = Planned(c, AtMost(Minus(Free, Margin), MaxFill))
  /\ UNCHANGED <<media, used, dirty, blank, fill>>

-----------------------------------------------------------------------------
(* remove_dir_all, before the fill and after it: unlink fill.bin, then     *)
(* remove the directory if it is empty.  Its errors are ignored.           *)
Removal == {[at |-> "sweep", rmdir |-> "sweep_dir", next |-> "mkdir"],
            [at |-> "remove", rmdir |-> "remove_dir", next |-> "idle"]}

UnlinkFill(c) ==
  \E r \in Removal :
    /\ At(c, r.at)
    /\ GoTo(c, r.rmdir)
    /\ file' = NoNode
    /\ IF file # NoNode /\ Holders(file) = {} THEN Release(file) ELSE UNCHANGED <<blank, data>>
    /\ UNCHANGED <<media, used, dirty, dir, events>>

RemoveDir(c) ==
  \E r \in Removal :
    /\ At(c, r.rmdir)
    /\ GoTo(c, r.next)
    /\ dir' = (dir /\ file # NoNode)
    /\ UNCHANGED <<media, used, dirty, blank, file, data, events>>

RemovalFails(c) ==
  \E r \in Removal :
    /\ Happens("unlink")
    /\ At(c, r.at)
    /\ GoTo(c, r.next)
    /\ UNCHANGED <<media, used, dirty, blank, fill>>

-----------------------------------------------------------------------------
(* The fill.                                                               *)

MakeDir(c) ==
  /\ At(c, "mkdir")
  /\ dir' = TRUE
  /\ GoTo(c, "open")
  /\ UNCHANGED <<media, used, dirty, blank, file, data, events>>

(* No directory, or no random data: the function returns before the        *)
(* removal, and leaves the directory it may have made.                     *)
SetupFails(c) ==
  /\ Happens("setup")
  /\ At(c, "mkdir") \/ At(c, "open")
  /\ GoTo(c, "idle")
  /\ UNCHANGED <<media, used, dirty, blank, fill>>

(* create + truncate: a new file, or the one another cleaner has there; it *)
(* fails, and goes through the removal, if the directory has gone since.   *)
Opened(c, n) == cl' = [cl EXCEPT ![c].pc = "write", ![c].node = n]

OpenFill(c) ==
  /\ At(c, "open")
  /\ IF ~dir
     THEN GoTo(c, "remove") /\ UNCHANGED <<blank, file, data>>
     ELSE IF file # NoNode
     THEN Opened(c, file) /\ Release(file) /\ file' = file
     ELSE \E n \in Nodes :
            /\ Holders(n) = {}
            /\ Opened(c, n) /\ file' = n /\ UNCHANGED <<blank, data>>
  /\ UNCHANGED <<media, used, dirty, dir, events>>

(* A free block for somebody: the file system chooses which.               *)
Take == \/ dirty > 0 /\ dirty' = dirty - 1 /\ blank' = blank
        \/ blank > 0 /\ blank' = blank - 1 /\ dirty' = dirty

WriteBlock(c) ==
  LET n == cl[c].node
      o == cl[c].written
  IN  /\ At(c, "write") /\ o < cl[c].budget
      /\ cl' = [cl EXCEPT ![c].written = o + 1]
      /\ IF o \in data[n]
         THEN UNCHANGED <<dirty, blank, data>>
         ELSE Take /\ data' = [data EXCEPT ![n] = @ \union {o}]
      /\ UNCHANGED <<media, used, dir, file, events>>

(* The file is closed when the closure returns, with its blocks if no name *)
(* and no other cleaner holds it.                                          *)
CloseFill(c, ok) ==
  LET n == cl[c].node
  IN  /\ cl' = [cl EXCEPT ![c].pc = "remove", ![c].node = NoNode, ![c].ok = ok]
      /\ IF file # n /\ Holders(n) = {c} THEN Release(n) ELSE UNCHANGED <<blank, data>>
      /\ UNCHANGED <<media, used, dirty, dir, file, events>>

(* Mutated: the loop is left one block early.                              *)
FillDoneEarly(c) == At(c, "write") /\ cl[c].written + 1 >= cl[c].budget /\ CloseFill(c, TRUE)

FillDone(c) == At(c, "write") /\ cl[c].written >= cl[c].budget /\ CloseFill(c, TRUE)

(* Mutated: an error leaves the function before the fill is removed.       *)
DiskFullReturns(c) ==
  /\ At(c, "write") /\ cl[c].written < cl[c].budget
  /\ cl[c].written \notin data[cl[c].node] /\ Free = 0
  /\ cl' = [cl EXCEPT ![c] = Resting]
  /\ UNCHANGED <<media, used, dirty, blank, fill, events>>


DiskFull(c) ==
  /\ At(c, "write") /\ cl[c].written < cl[c].budget
  /\ cl[c].written \notin data[cl[c].node] /\ Free = 0
  /\ CloseFill(c, FALSE)

-----------------------------------------------------------------------------
(* The environment.                                                        *)

(* Somebody deletes a file: its data stays in the free blocks.             *)
UserDeletes ==
  /\ Happens("delete")
  /\ used > 0 /\ used' = used - 1 /\ dirty' = dirty + 1
  /\ cl' = [c \in Cleaners |-> IF Cleaning(c) THEN [cl[c] EXCEPT !.late = @ + 1] ELSE Resting]
  /\ UNCHANGED <<media, blank, fill>>

UserWrites ==
  /\ Happens("write")
  /\ used' = used + 1 /\ Take
  /\ cl' = [c \in Cleaners |-> IF Cleaning(c) THEN [cl[c] EXCEPT !.taken = @ + 1] ELSE Resting]
  /\ UNCHANGED <<media, fill>>

(* The cleaner is killed; its open file is closed.                         *)
Crash(c) ==
  LET n == cl[c].node
  IN  /\ Happens("crash") /\ Cleaning(c)
      /\ cl' = [cl EXCEPT ![c] = Resting]
      /\ IF n # NoNode /\ file # n /\ Holders(n) = {c}
         THEN Release(n) ELSE UNCHANGED <<blank, data>>
      /\ UNCHANGED <<media, used, dirty, dir, file>>

-----------------------------------------------------------------------------
Removes(c) == UnlinkFill(c) \/ RemoveDir(c) \/ RemovalFails(c)
Fills(c) ==
  \/ MakeDir(c) \/ SetupFails(c) \/ OpenFill(c)
  \/ WriteBlock(c) \/ FillDone(c) \/ DiskFull(c)
Clean(c) == Trim(c) \/ Refused(c) \/ Plan(c) \/ Removes(c) \/ Fills(c)

Next == (\E c \in Cleaners : Clean(c) \/ Crash(c)) \/ UserDeletes \/ UserWrites

Spec == Init /\ [][Next]_vars

(* service cleans again after every pass, failed or not, and the timer     *)
(* starts a clean that was killed again.                                   *)
FairSpec == Spec /\ \A c \in Cleaners : WF_vars(Clean(c))

-----------------------------------------------------------------------------
Pcs == {"idle", "sweep", "sweep_dir", "mkdir", "open", "write", "remove", "remove_dir"}

TypeOK ==
  /\ media \in Media
  /\ used \in 0..Blocks /\ dirty \in 0..Blocks /\ blank \in 0..Blocks
  /\ dir \in BOOLEAN /\ file \in Nodes \union {NoNode} /\ data \in [Nodes -> SUBSET Offsets]
  /\ cl \in [Cleaners -> [pc : Pcs, seen : 0..Blocks, left : 0..Blocks, budget : 0..Blocks, written : 0..Blocks,
                          node : Nodes \union {NoNode}, ok : BOOLEAN, late : 0..MaxEvents,
                          taken : 0..MaxEvents, alone : BOOLEAN]]
  /\ events \in 0..MaxEvents

(* No write of a cleaner takes the free space below the margin             *)
(* (freespace.rs:8) by more than what other programs wrote since the clean *)
(* was planned, whatever is deleted meanwhile and whatever an earlier      *)
(* clean left behind.                                                      *)
KeepsMargin(c) ==
  cl'[c].written > cl[c].written /\ Free' < Free => Free' + cl[c].taken >= Margin

MarginKept == [][\A c \in Cleaners : KeepsMargin(c)]_vars

(* The same of a clean while no other one has run beside it.               *)
MarginKeptAlone == [][\A c \in Cleaners : cl[c].alone => KeepsMargin(c)]_vars

(* A clean that succeeds, no other beside it, has overwritten the deleted  *)
(* data but for what it kept free, what was deleted since it was planned,  *)
(* and as many blocks as a killed clean had left occupied: plan did not    *)
(* count those, and the fill may be given just them.                       *)
FreedDataOverwritten ==
  \A c \in Cleaners :
    cl[c].ok /\ cl[c].alone
      => dirty <= (cl[c].seen - cl[c].budget) + cl[c].late + cl[c].left

(* When no clean is running the volume is as the last one should leave it: *)
(* the fill and its directory are gone, and every block is free again, in  *)
(* whatever order the cleaners removed what they share (SAFETY.md:27).     *)
NoFillAtRest ==
  (\A c \in Cleaners : ~Cleaning(c)) => /\ ~dir /\ file = NoNode
                                         /\ used + Free = Blocks

=============================================================================
