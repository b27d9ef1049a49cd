----------------------------- MODULE QuietMode -----------------------------
(***************************************************************************)
(* install, the timer and the volume together: the clean that install runs *)
(* itself and the one its timer starts are two cleaners of FreeSpace on    *)
(* one volume, the one that Home is on.  Another directory is on a volume  *)
(* of its own, of which nothing is said.                                   *)
(***************************************************************************)
EXTENDS InstallLinux

CONSTANTS
  Home,                                  \* the directory whose volume is modelled
  Blocks, Margin, MaxEvents, VolumeEnv   \* see FreeSpace

ASSUME HomeAssumption == Home \in Dirs
ASSUME VolumeAssumption ==
  /\ Blocks \in Nat /\ Margin \in Nat /\ MaxEvents \in Nat
  /\ VolumeEnv \subseteq {"delete", "write", "crash", "unlink", "probe", "refuse", "setup"}

VARIABLES
  media, used, dirty, blank, dir, file, data, cl, events,
  litter     \* history: a clean has died or given up, and none has begun since

Volume == INSTANCE FreeSpace WITH
            Cleaners <- {"initial", "timed"}, MaxFill <- Blocks + 1, Env <- VolumeEnv

volume == <<media, used, dirty, blank, dir, file, data, cl, events>>
vars == <<installVars, volume, litter>>

Init == InstallInit /\ Volume!Init /\ litter = FALSE

(* What the process that cleans does first.                                *)
CleanIf(home, c) ==
  IF ~home THEN UNCHANGED <<volume, litter>>
  ELSE \/ Volume!Plan(c) /\ litter' = FALSE
       \/ (Volume!Trim(c) \/ Volume!Refused(c)) /\ UNCHANGED litter

DieIf(cleaning, c) ==
  IF cleaning THEN Volume!Crash(c) /\ litter' = TRUE ELSE UNCHANGED <<volume, litter>>

InitialCleanBegins == BeginInitialClean /\ CleanIf(cmd.dir = Home, "initial")

InstallEnds == ReportInstall /\ ~Volume!Cleaning("initial") /\ UNCHANGED <<volume, litter>>

TimedCleanBegins == Elapse /\ CleanIf(Unit = Home, "timed")

TimedCleanEnds == EndScheduledClean /\ ~Volume!Cleaning("timed") /\ UNCHANGED <<volume, litter>>

CleanStep(c) ==
  /\ Volume!Cleaning(c)
  /\ Volume!Removes(c) \/ Volume!Fills(c)
  /\ litter' = (litter \/ Volume!SetupFails(c))
  /\ UNCHANGED installVars

CommandDies == KillCommand /\ DieIf(Volume!Cleaning("initial"), "initial")

TimedCleanDies == EndScheduledClean /\ Volume!Cleaning("timed") /\ DieIf(TRUE, "timed")

OthersUseVolume ==
  (Volume!UserDeletes \/ Volume!UserWrites) /\ UNCHANGED <<installVars, litter>>

OffVolume(A) == A /\ UNCHANGED <<volume, litter>>

TimerRuns == TimedCleanBegins \/ CleanStep("timed") \/ TimedCleanEnds

CommandRuns ==
  \/ OffVolume(InstallStep)
  \/ InitialCleanBegins \/ CleanStep("initial") \/ InstallEnds

UserActs == OffVolume(RunInstall) \/ OffVolume(RunUninstall) \/ OffVolume(Login)

Next ==
  \/ UserActs \/ CommandRuns \/ TimerRuns
  \/ CommandDies \/ TimedCleanDies \/ OthersUseVolume

Spec == Init /\ [][Next]_vars

(* systemd runs what the timer starts, again and again, and the operating  *)
(* system a command that was started; nobody has to start one.             *)
FairSpec == Spec /\ WF_vars(TimerRuns) /\ WF_vars(CommandRuns)

-----------------------------------------------------------------------------
TypeOK == InstallTypeOK /\ Volume!TypeOK

(* When no clean runs, the fill of the initial and the timed clean is gone *)
(* and every block is free again, in whatever order the two removed what   *)
(* they share.  What one leaves that was killed, or gave up before it      *)
(* filled, the next one that begins and gets through takes away            *)
(* (SAFETY.md:27).                                                         *)
NoFillAtRest == ~litter => Volume!NoFillAtRest

(* The margin is always kept (freespace.rs:8).                             *)
MarginKept == Volume!MarginKept

=============================================================================
