-------------------------- MODULE QuietModeProofs --------------------------
(***************************************************************************)
(* Theorems about quiet mode on Linux, for any directories, any number of  *)
(* commands and every Env: what install and uninstall have reported is so, *)
(* wherever they are killed, whichever systemctl fails, and whatever the   *)
(* timer and the user's logins do in between.                              *)
(***************************************************************************)
EXTENDS QuietMode, FiniteSetTheorems, TLAPS

InstallAct ==
  \/ RunInstall \/ RunUninstall \/ InstallStep \/ BeginInitialClean \/ ReportInstall
  \/ Elapse \/ EndScheduledClean \/ KillCommand \/ Login

(* What the volume does is nothing to install, and the other way round.    *)
LEMMA InstallSteps == [Next]_vars => InstallAct \/ UNCHANGED installVars
  BY DEF Next, vars, InstallAct, UserActs, CommandRuns, TimerRuns, CommandDies, TimedCleanDies,
         OthersUseVolume, OffVolume, InitialCleanBegins, InstallEnds, TimedCleanBegins,
         TimedCleanEnds, CleanStep

-----------------------------------------------------------------------------
(* How far the running command has come.                                   *)
InstallProgress ==
  cmd.op = "install" =>
    /\ cmd.dir \in Dirs
    /\ cmd.pc \in {"service", "timer", "reload", "enable", "clean", "cleaning"}
    /\ cmd.pc # "service" => service = cmd.dir
    /\ cmd.pc \notin {"service", "timer"} => timer
    /\ cmd.did => cmd.pc \in {"clean", "cleaning"} /\ linked /\ active /\ loaded = cmd.dir

UninstallProgress ==
  cmd.op = "uninstall" =>
    /\ cmd.pc \in {"disable", "remove_service", "remove_timer", "reload"}
    /\ cmd.pc # "disable" => ~linked \/ "disable" \in cmd.failed
    /\ cmd.pc \in {"remove_timer", "reload"} =>
         /\ service = NoDir \/ "unlink" \in cmd.failed
         /\ cmd.did /\ cmd.pc = "remove_timer" => service = NoDir
    /\ cmd.pc = "reload" =>
         /\ ~timer \/ "unlink" \in cmd.failed
         /\ cmd.did => ~timer \/ service = NoDir

(* A command says nothing before its end, and what was said holds until    *)
(* the next one begins.                                                    *)
InstallInv ==
  /\ InstallTypeOK
  /\ cmd.op = "none" <=> cmd.pc = "idle"
  /\ cmd.pc # "idle" => said.that = "nothing"
  /\ InstallProgress /\ UninstallProgress
  /\ ScheduledAsReported /\ OffAtNextLogin

InstallPcs ==
  {"idle", "service", "timer", "reload", "enable", "clean", "cleaning",
   "disable", "remove_service", "remove_timer"}

Commands ==
  [op : {"none", "install", "uninstall"}, dir : Dirs \union {NoDir}, pc : InstallPcs,
   clean : BOOLEAN, did : BOOLEAN, failed : SUBSET {"disable", "unlink"}]

LEMMA InstallInvInit == Init => InstallInv
<1>. SUFFICES ASSUME Init PROVE InstallInv
  OBVIOUS
<1>1. InstallInit
  BY DEF Init
<1>2. InstallTypeOK
  <2>1. 0 \in 0..MaxCommands
    BY InstallBoundAssumption
  <2>2. NoCommand \in Commands
    BY DEF NoCommand, Commands, InstallPcs
  <2>3. Silent \in [that : {"nothing", "enabled", "not_enabled", "removed", "absent"},
                   dir : Dirs \union {NoDir}, failed : SUBSET {"disable", "unlink"}]
    BY DEF Silent
  <2>. QED
    BY <1>1, <2>1, <2>2, <2>3 DEF InstallInit, InstallTypeOK, Commands, InstallPcs
<1>3. cmd.op = "none" /\ cmd.pc = "idle" /\ said.that = "nothing"
  BY <1>1 DEF InstallInit, NoCommand, Silent
<1>. QED
  BY <1>2, <1>3 DEF InstallInv, InstallProgress, UninstallProgress, ScheduledAsReported, OffAtNextLogin

MovedOn(op, from, to, did, failed) ==
  /\ cmd.op = op /\ cmd.pc = from
  /\ cmd' \in Commands /\ cmd'.failed = cmd.failed \union failed
  /\ cmd'.op = op /\ cmd'.pc = to /\ cmd'.did = did
  /\ cmd'.dir = cmd.dir /\ cmd'.clean = cmd.clean
  /\ UNCHANGED <<scheduled, said, commands>>

Moved(op, from, to, did) == MovedOn(op, from, to, did, {})

LEMMA CommandMovesOn ==
  ASSUME InstallTypeOK, NEW op, NEW from, NEW did \in BOOLEAN, NEW to \in InstallPcs,
         NEW failed \in SUBSET {"disable", "unlink"}, GoesOn(op, from, to, did, failed)
  PROVE  MovedOn(op, from, to, did, failed)
<1>1. cmd \in Commands
  BY DEF InstallTypeOK, Commands, InstallPcs
<1>. QED
  BY <1>1 DEF GoesOn, Doing, Commands, MovedOn

LEMMA CommandMoves ==
  ASSUME InstallTypeOK, NEW op, NEW from, NEW did \in BOOLEAN, NEW to \in InstallPcs,
         Goes(op, from, to, did)
  PROVE  Moved(op, from, to, did)
  BY CommandMovesOn DEF Goes, Moved

(* The types but for the command's, which change with the commands.        *)
LEMMA TypesNext ==
  ASSUME /\ service' \in Dirs \union {NoDir} /\ timer' \in BOOLEAN
         /\ linked' \in BOOLEAN /\ active' \in BOOLEAN
         /\ loaded' \in Dirs \union {NoDir} /\ scheduled' \in Dirs \union {NoDir}
         /\ cmd' \in Commands
         /\ said' \in [that : {"nothing", "enabled", "not_enabled", "removed", "absent"},
                       dir : Dirs \union {NoDir}, failed : SUBSET {"disable", "unlink"}]
         /\ commands' \in 0..MaxCommands
  PROVE  InstallTypeOK'
  BY DEF InstallTypeOK, Commands, InstallPcs

LEMMA InstallStepKeeps ==
  ASSUME InstallInv, InstallAct \/ UNCHANGED installVars
  PROVE  InstallInv'
<1>1. /\ service \in Dirs \union {NoDir} /\ timer \in BOOLEAN
      /\ linked \in BOOLEAN /\ active \in BOOLEAN
      /\ loaded \in Dirs \union {NoDir} /\ scheduled \in Dirs \union {NoDir}
      /\ cmd \in Commands
      /\ said \in [that : {"nothing", "enabled", "not_enabled", "removed", "absent"},
                   dir : Dirs \union {NoDir}, failed : SUBSET {"disable", "unlink"}]
      /\ commands \in 0..MaxCommands
      /\ InstallTypeOK /\ cmd.dir \in Dirs \union {NoDir} /\ cmd.did \in BOOLEAN
  BY DEF InstallInv, InstallTypeOK, Commands, InstallPcs
<1>2. CASE UNCHANGED installVars
  BY <1>2 DEF installVars, units, systemd, InstallInv, InstallTypeOK, InstallProgress,
              UninstallProgress, ScheduledAsReported, OffAtNextLogin, Unit
<1>3. NoCommand \in Commands /\ NoCommand.op = "none" /\ NoCommand.pc = "idle"
  BY DEF NoCommand, Commands, InstallPcs
<1>4. ASSUME NEW d \in Dirs, NEW clean \in BOOLEAN, NEW op, NEW pc,
             \/ op = "install" /\ pc = "service"
             \/ op = "uninstall" /\ pc = "disable",
             Run(op, pc, d, clean)
      PROVE  InstallInv'
  <2>1. /\ cmd' \in Commands /\ cmd'.op = op /\ cmd'.pc = pc /\ cmd'.dir = d /\ ~cmd'.did
        /\ UNCHANGED <<service, timer, linked, active, loaded, scheduled>>
    BY <1>4 DEF Run, Commands, InstallPcs, units, systemd
  <2>2. said' \in [that : {"nothing", "enabled", "not_enabled", "removed", "absent"},
                  dir : Dirs \union {NoDir}, failed : SUBSET {"disable", "unlink"}]
      /\ said'.that = "nothing"
    BY <1>4 DEF Run, Silent
  <2>3. commands' \in 0..MaxCommands
    BY <1>1, <1>4, InstallBoundAssumption DEF Run
  <2>4. InstallTypeOK'
    BY <1>1, <2>1, <2>2, <2>3, TypesNext
  <2>. QED
    BY <1>4, <2>1, <2>2, <2>4 DEF InstallInv, InstallProgress, UninstallProgress,
       ScheduledAsReported, OffAtNextLogin
<1>5. CASE RunInstall \/ RunUninstall
  BY <1>4, <1>5 DEF RunInstall, RunUninstall
(* A command that goes on says nothing, so its progress is what counts.    *)
<1>6. ASSUME NEW op, NEW from, NEW to, NEW did, NEW failed, MovedOn(op, from, to, did, failed),
             from # "idle", to # "idle",
             /\ service' \in Dirs \union {NoDir} /\ timer' \in BOOLEAN
             /\ linked' \in BOOLEAN /\ active' \in BOOLEAN /\ loaded' \in Dirs \union {NoDir},
             InstallProgress' /\ UninstallProgress'
      PROVE  InstallInv'
  <2>1. InstallTypeOK'
    BY <1>1, <1>6, TypesNext DEF Moved, MovedOn
  <2>2. /\ said.that = "nothing" /\ said' = said /\ cmd'.op = cmd.op /\ cmd'.pc # "idle"
        /\ cmd.op # "none"
    BY <1>6 DEF MovedOn, InstallInv
  <2>. QED
    BY <1>6, <2>1, <2>2 DEF InstallInv, ScheduledAsReported, OffAtNextLogin
<1>. USE DEF InstallInv, InstallProgress, UninstallProgress
<1>7. CASE WriteService
  <2>1. Moved("install", "service", "timer", FALSE) /\ service' = cmd.dir
        /\ UNCHANGED <<timer, linked, active, loaded>>
    BY <1>1, <1>7, CommandMoves DEF WriteService, systemd, InstallPcs
  <2>2. InstallProgress' /\ UninstallProgress'
    BY <1>1, <2>1 DEF Moved, MovedOn
  <2>. QED
    BY <1>1, <1>6, <2>1, <2>2 DEF Moved
<1>8. CASE WriteTimer
  <2>1. Moved("install", "timer", "reload", FALSE) /\ timer' = TRUE
        /\ UNCHANGED <<service, linked, active, loaded>>
    BY <1>1, <1>8, CommandMoves DEF WriteTimer, systemd, InstallPcs
  <2>2. InstallProgress' /\ UninstallProgress'
    BY <1>1, <2>1 DEF Moved, MovedOn
  <2>. QED
    BY <1>1, <1>6, <2>1, <2>2 DEF Moved
<1>9. CASE Reload
  <2>1. /\ Moved("install", "reload", "enable", FALSE) \/ Moved("install", "reload", "clean", FALSE)
        /\ loaded' \in {service, loaded}
        /\ UNCHANGED <<service, timer, linked, active>>
    BY <1>1, <1>9, CommandMoves DEF Reload, SystemctlFails, systemd, units, InstallPcs
  <2>2. InstallProgress' /\ UninstallProgress'
    BY <1>1, <2>1 DEF Moved, MovedOn
  <2>. QED
    BY <1>1, <1>6, <2>1, <2>2 DEF Moved
<1>10. CASE Enable
  <2>1. /\ \/ /\ Moved("install", "enable", "clean", TRUE)
              /\ linked' = TRUE /\ active' = TRUE /\ loaded' = service
           \/ Moved("install", "enable", "clean", FALSE) /\ UNCHANGED <<linked, active, loaded>>
        /\ UNCHANGED <<service, timer>>
    BY <1>1, <1>10, CommandMoves DEF Enable, SystemctlFails, systemd, units, InstallPcs
  <2>2. InstallProgress' /\ UninstallProgress'
    BY <1>1, <2>1 DEF Moved, MovedOn
  <2>. QED
    BY <1>1, <1>6, <2>1, <2>2 DEF Moved
<1>11. CASE BeginInitialClean
  <2>1. Moved("install", "clean", "cleaning", cmd.did)
        /\ UNCHANGED <<service, timer, linked, active, loaded>>
    BY <1>1, <1>11, CommandMoves DEF BeginInitialClean, systemd, units, InstallPcs
  <2>2. InstallProgress' /\ UninstallProgress'
    BY <1>1, <2>1 DEF Moved, MovedOn
  <2>. QED
    BY <1>1, <1>6, <2>1, <2>2 DEF Moved
<1>12. CASE Disable
  <2>1. /\ \/ MovedOn("uninstall", "disable", "remove_service", FALSE, {}) /\ ~linked'
           \/ MovedOn("uninstall", "disable", "remove_service", FALSE, {"disable"}) /\ linked' = linked
        /\ linked' \in BOOLEAN /\ active' \in BOOLEAN /\ loaded' \in {service, loaded}
        /\ UNCHANGED <<service, timer>>
    BY <1>1, <1>12, CommandMovesOn DEF Disable, Goes, SystemctlFails, systemd, units, InstallPcs
  <2>2. InstallProgress' /\ UninstallProgress'
    BY <1>1, <2>1 DEF MovedOn
  <2>. QED
    BY <1>1, <1>6, <2>1, <2>2
<1>13. CASE RemoveService
  <2>1. /\ \/ /\ MovedOn("uninstall", "remove_service", "remove_timer", service # NoDir, {})
              /\ service' = NoDir
           \/ /\ MovedOn("uninstall", "remove_service", "remove_timer", FALSE, {"unlink"})
              /\ service' = service
        /\ UNCHANGED <<timer, linked, active, loaded>>
    BY <1>1, <1>13, CommandMovesOn DEF RemoveService, StaysOnDisk, Goes, systemd, InstallPcs
  <2>2. InstallProgress' /\ UninstallProgress'
    BY <1>1, <2>1 DEF MovedOn
  <2>. QED
    BY <1>1, <1>6, <2>1, <2>2
<1>14. CASE RemoveTimer
  <2>1. /\ \/ MovedOn("uninstall", "remove_timer", "reload", cmd.did \/ timer, {}) /\ timer' = FALSE
           \/ MovedOn("uninstall", "remove_timer", "reload", cmd.did, {"unlink"}) /\ timer' = timer
        /\ UNCHANGED <<service, linked, active, loaded>>
    BY <1>1, <1>14, CommandMovesOn DEF RemoveTimer, StaysOnDisk, Goes, systemd, InstallPcs
  <2>2. InstallProgress' /\ UninstallProgress'
    BY <1>1, <2>1 DEF MovedOn
  <2>. QED
    BY <1>1, <1>6, <2>1, <2>2
(* A command that reports, or is killed.                                   *)
<1>15. ASSUME cmd' = NoCommand, UNCHANGED <<service, timer, scheduled, commands>>,
              linked' \in BOOLEAN, active' \in BOOLEAN, loaded' \in Dirs \union {NoDir},
              said' \in [that : {"nothing", "enabled", "not_enabled", "removed", "absent"},
                        dir : Dirs \union {NoDir}, failed : SUBSET {"disable", "unlink"}],
              ScheduledAsReported' /\ OffAtNextLogin'
       PROVE  InstallInv'
  <2>1. InstallTypeOK'
    BY <1>1, <1>3, <1>15, TypesNext
  <2>. QED
    BY <1>3, <1>15, <2>1
<1>16. CASE ReloadAndReport
  <2>1. /\ said' \in [that : {"removed", "absent"}, dir : Dirs \union {NoDir},
                     failed : SUBSET {"disable", "unlink"}]
        /\ said'.failed = cmd.failed /\ (said'.that = "removed" => cmd.did)
        /\ cmd' = NoCommand /\ UNCHANGED <<service, timer, linked, active, scheduled, commands>>
        /\ loaded' \in {service, loaded} /\ cmd.op = "uninstall" /\ cmd.pc = "reload"
    BY <1>1, <1>16 DEF ReloadAndReport, Commands, Doing, Report, SystemctlFails, systemd, units
  <2>2. ScheduledAsReported' /\ OffAtNextLogin'
    BY <1>1, <2>1 DEF ScheduledAsReported, OffAtNextLogin
  <2>. QED
    BY <1>1, <1>15, <2>1, <2>2
<1>17. CASE ReportInstall
  <2>1. /\ said' = [that |-> IF cmd.did THEN "enabled" ELSE "not_enabled", dir |-> cmd.dir,
                   failed |-> cmd.failed]
        /\ cmd' = NoCommand /\ UNCHANGED <<service, timer, linked, active, loaded, scheduled, commands>>
        /\ cmd.op = "install" /\ cmd.pc \in {"clean", "cleaning"}
        /\ cmd.failed \in SUBSET {"disable", "unlink"}
    BY <1>1, <1>17 DEF Commands, ReportInstall, Doing, Report, systemd, units
  <2>2. ScheduledAsReported' /\ OffAtNextLogin'
    BY <1>1, <2>1, DirsAssumption DEF ScheduledAsReported, OffAtNextLogin, Unit
  <2>. QED
    BY <1>1, <1>15, <2>1, <2>2
<1>18. CASE KillCommand
  <2>1. cmd.pc # "idle" /\ cmd' = NoCommand
        /\ UNCHANGED <<service, timer, linked, active, loaded, scheduled, said, commands>>
    BY <1>18 DEF KillCommand, systemd, units
  <2>2. ScheduledAsReported' /\ OffAtNextLogin'
    BY <2>1 DEF ScheduledAsReported, OffAtNextLogin
  <2>. QED
    BY <1>1, <1>15, <2>1, <2>2
(* systemd and the user.                                                   *)
<1>19. CASE Elapse \/ EndScheduledClean
  BY <1>1, <1>19 DEF Elapse, EndScheduledClean, Unit, InstallTypeOK, systemd, units,
                     ScheduledAsReported, OffAtNextLogin
<1>20. CASE Login
  BY <1>1, <1>20 DEF Login, Unit, InstallTypeOK, units, ScheduledAsReported, OffAtNextLogin
<1>. QED
  BY <1>2, <1>5, <1>7, <1>8, <1>9, <1>10, <1>11, <1>12, <1>13, <1>14, <1>16, <1>17, <1>18, <1>19,
     <1>20 DEF InstallAct, InstallStep

LEMMA InstallInvariant == Spec => []InstallInv
  BY InstallInvInit, InstallSteps, InstallStepKeeps, PTL DEF Spec

(* Quiet mode that was reported as on is on: the timer runs, comes back at *)
(* the next login and runs a service for the directory named last.         *)
THEOREM AlwaysScheduledAsReported == Spec => []ScheduledAsReported
<1>1. InstallInv => ScheduledAsReported
  BY DEF InstallInv
<1>. QED
  BY <1>1, InstallInvariant, PTL

(* Quiet mode that was reported as removed does not come back at a login,  *)
(* whichever systemctl or unlink has failed on the way, unless both have;  *)
(* then too its timer finds no service, if anything was removed.           *)
THEOREM AlwaysOffAtNextLogin == Spec => []OffAtNextLogin
<1>1. InstallInv => OffAtNextLogin
  BY DEF InstallInv
<1>. QED
  BY <1>1, InstallInvariant, PTL

-----------------------------------------------------------------------------
(* The volume: what is proved of FreeSpace holds of the two cleaners here. *)

Fill == INSTANCE FreeSpaceProofs WITH
          Cleaners <- {"initial", "timed"}, MaxFill <- Blocks + 1, Env <- VolumeEnv

Sharers == {"initial", "timed"}

LEMMA VolumeConstants ==
  /\ Blocks \in Nat /\ Margin \in Nat /\ Blocks + 1 \in Nat
  /\ MaxEvents \in Nat /\ VolumeEnv \subseteq Fill!EnvEvents
  /\ Fill!IsFiniteSet({"initial", "timed"})
<1>1. IsFiniteSet({"initial", "timed"})
  <2>1. IsFiniteSet({"initial"})
    BY FS_Singleton
  <2>. QED
    BY <2>1, FS_AddElement
<1>2. Fill!IsFiniteSet({"initial", "timed"})
  BY <1>1 DEF IsFiniteSet, Fill!IsFiniteSet
<1>. QED
  BY <1>2, VolumeAssumption DEF Fill!EnvEvents

LEMMA SameInit == Volume!Init => Fill!Init
  BY Zenon DEF Volume!Init, Fill!Init, Volume!Media, Fill!Media, Volume!Nodes, Fill!Nodes, Volume!NoNode, Fill!NoNode,
     Volume!Resting, Fill!Resting, Volume!Cardinality, Fill!Cardinality, Volume!IsFiniteSet, Fill!IsFiniteSet

LEMMA SamePlan == ASSUME NEW c, Volume!Plan(c) PROVE Fill!Plan(c)
  BY Zenon DEF Volume!Plan, Fill!Plan, Volume!At, Fill!At, Volume!TakenForDisk, Fill!TakenForDisk,
     Volume!Happens, Fill!Happens, Volume!Planned, Fill!Planned, Volume!Resting, Fill!Resting,
     Volume!Free, Fill!Free, Volume!Cleaning, Fill!Cleaning, Volume!AtMost, Fill!AtMost,
     Volume!Minus, Fill!Minus, Volume!fill, Fill!fill, Volume!NoNode, Fill!NoNode

LEMMA SameTrim == ASSUME NEW c, Volume!Trim(c) PROVE Fill!Trim(c)
  BY Zenon DEF Volume!Trim, Fill!Trim, Volume!At, Fill!At, Volume!Free, Fill!Free,
     Volume!fill, Fill!fill

LEMMA SameRefused == ASSUME NEW c, Volume!Refused(c) PROVE Fill!Refused(c)
  BY Zenon DEF Volume!Refused, Fill!Refused, Volume!At, Fill!At, Volume!Happens, Fill!Happens,
     Volume!fill, Fill!fill

LEMMA SameRelease == ASSUME NEW n, Volume!Release(n) PROVE Fill!Release(n)
  BY Zenon DEF Volume!Release, Fill!Release, Volume!Cardinality, Fill!Cardinality,
     Volume!IsFiniteSet, Fill!IsFiniteSet

LEMMA SameRemoves == ASSUME NEW c, Volume!Removes(c) PROVE Fill!Removes(c)
<1>1. CASE Volume!UnlinkFill(c)
  <2>1. Fill!UnlinkFill(c)
    BY <1>1, SameRelease, Zenon DEF Volume!UnlinkFill, Fill!UnlinkFill, Volume!Removal, Fill!Removal,
     Volume!At, Fill!At, Volume!GoTo, Fill!GoTo, Volume!Resting, Fill!Resting, Volume!NoNode, Fill!NoNode,
     Volume!Holders, Fill!Holders
  <2>. QED
    BY <2>1 DEF Fill!Removes
<1>2. CASE Volume!RemoveDir(c)
  <2>1. Fill!RemoveDir(c)
    BY <1>2, Zenon DEF Volume!RemoveDir, Fill!RemoveDir, Volume!Removal, Fill!Removal,
     Volume!At, Fill!At, Volume!GoTo, Fill!GoTo, Volume!Resting, Fill!Resting, Volume!NoNode, Fill!NoNode
  <2>. QED
    BY <2>1 DEF Fill!Removes
<1>3. CASE Volume!RemovalFails(c)
  <2>1. Fill!RemovalFails(c)
    BY <1>3, Zenon DEF Volume!RemovalFails, Fill!RemovalFails, Volume!Removal, Fill!Removal,
     Volume!Happens, Fill!Happens, Volume!At, Fill!At, Volume!GoTo, Fill!GoTo,
     Volume!Resting, Fill!Resting, Volume!NoNode, Fill!NoNode, Volume!fill, Fill!fill
  <2>. QED
    BY <2>1 DEF Fill!Removes
<1>. QED
  BY <1>1, <1>2, <1>3 DEF Volume!Removes

LEMMA SameClose == ASSUME NEW c, NEW ok, Volume!CloseFill(c, ok) PROVE Fill!CloseFill(c, ok)
  BY SameRelease, Zenon DEF Volume!CloseFill, Fill!CloseFill, Volume!NoNode, Fill!NoNode, Volume!Holders, Fill!Holders

LEMMA SameSetupFails == ASSUME NEW c PROVE Volume!SetupFails(c) <=> Fill!SetupFails(c)
  BY Zenon DEF Volume!SetupFails, Fill!SetupFails, Volume!Happens, Fill!Happens, Volume!At, Fill!At,
     Volume!GoTo, Fill!GoTo, Volume!Resting, Fill!Resting, Volume!NoNode, Fill!NoNode,
     Volume!fill, Fill!fill

LEMMA SameFills == ASSUME NEW c, Volume!Fills(c) PROVE Fill!Fills(c)
<1>1. CASE Volume!MakeDir(c)
  <2>1. Fill!MakeDir(c)
    BY <1>1, Zenon DEF Volume!MakeDir, Fill!MakeDir, Volume!At, Fill!At, Volume!GoTo, Fill!GoTo,
       Volume!Resting, Fill!Resting, Volume!NoNode, Fill!NoNode
  <2>. QED
    BY <2>1 DEF Fill!Fills
<1>2. CASE Volume!OpenFill(c)
  <2>1. Volume!Nodes = Fill!Nodes
    BY Zenon DEF Volume!Nodes, Fill!Nodes, Volume!Cardinality, Fill!Cardinality,
     Volume!IsFiniteSet, Fill!IsFiniteSet
  <2>2. Fill!OpenFill(c)
    BY <1>2, <2>1, SameRelease, Zenon DEF Volume!OpenFill, Fill!OpenFill, Volume!At, Fill!At, Volume!GoTo, Fill!GoTo,
       Volume!Resting, Fill!Resting, Volume!NoNode, Fill!NoNode, Volume!Opened, Fill!Opened, Volume!Holders, Fill!Holders
  <2>. QED
    BY <2>2 DEF Fill!Fills
<1>3. CASE Volume!WriteBlock(c)
  <2>1. Fill!WriteBlock(c)
    BY <1>3, Zenon DEF Volume!WriteBlock, Fill!WriteBlock, Volume!At, Fill!At, Volume!Take, Fill!Take
  <2>. QED
    BY <2>1 DEF Fill!Fills
<1>4. CASE Volume!FillDone(c)
  <2>1. Fill!FillDone(c)
    BY <1>4, SameClose, Zenon DEF Volume!FillDone, Fill!FillDone, Volume!At, Fill!At
  <2>. QED
    BY <2>1 DEF Fill!Fills
<1>5. CASE Volume!DiskFull(c)
  <2>1. Fill!DiskFull(c)
    BY <1>5, SameClose, Zenon DEF Volume!DiskFull, Fill!DiskFull, Volume!At, Fill!At, Volume!Free, Fill!Free
  <2>. QED
    BY <2>1 DEF Fill!Fills
<1>6. CASE Volume!SetupFails(c)
  BY <1>6, SameSetupFails DEF Fill!Fills
<1>. QED
  BY <1>1, <1>2, <1>3, <1>4, <1>5, <1>6 DEF Volume!Fills

LEMMA SameCrash == ASSUME NEW c, Volume!Crash(c) PROVE Fill!Crash(c)
  BY SameRelease, Zenon DEF Volume!Crash, Fill!Crash, Volume!Happens, Fill!Happens, Volume!Cleaning, Fill!Cleaning,
     Volume!Resting, Fill!Resting, Volume!NoNode, Fill!NoNode, Volume!Holders, Fill!Holders

LEMMA SameUsers ==
  /\ Volume!UserDeletes => Fill!UserDeletes
  /\ Volume!UserWrites => Fill!UserWrites
  BY Zenon DEF Volume!UserDeletes, Fill!UserDeletes, Volume!UserWrites, Fill!UserWrites, Volume!Take, Fill!Take,
     Volume!Happens, Fill!Happens, Volume!Cleaning, Fill!Cleaning, Volume!fill, Fill!fill,
     Volume!Resting, Fill!Resting, Volume!NoNode, Fill!NoNode

(* What a step of quiet mode is to the volume.                             *)
LEMMA VolumeSteps ==
  ASSUME [Next]_vars
  PROVE  \/ \E c \in Sharers :
              \/ Fill!Plan(c)
              \/ (Fill!Trim(c) \/ Fill!Refused(c)) /\ litter' = litter
              \/ (Fill!Removes(c) \/ Fill!Fills(c)) /\ litter' = (litter \/ Fill!SetupFails(c))
              \/ Fill!Crash(c) /\ litter' = TRUE
         \/ (Fill!UserDeletes \/ Fill!UserWrites) /\ litter' = litter
         \/ UNCHANGED <<volume, litter>>
<1>1. \/ UNCHANGED <<volume, litter>>
      \/ \E c \in Sharers :
            \/ Volume!Plan(c)
            \/ (Volume!Trim(c) \/ Volume!Refused(c)) /\ litter' = litter
            \/ (Volume!Removes(c) \/ Volume!Fills(c)) /\ litter' = (litter \/ Volume!SetupFails(c))
            \/ Volume!Crash(c) /\ litter' = TRUE
      \/ (Volume!UserDeletes \/ Volume!UserWrites) /\ litter' = litter
  BY DEF Next, vars, UserActs, CommandRuns, TimerRuns, CommandDies, TimedCleanDies,
         OthersUseVolume, OffVolume, InitialCleanBegins, InstallEnds, TimedCleanBegins,
         TimedCleanEnds, CleanStep, CleanIf, DieIf, Sharers
<1>. QED
  BY <1>1, SamePlan, SameTrim, SameRefused, SameRemoves, SameFills, SameSetupFails, SameCrash, SameUsers

-----------------------------------------------------------------------------
(* Nobody has to remove what there is only if the last clean has died or   *)
(* given up.                                                               *)
VolumeInv == Fill!FillInv /\ Fill!NoOrphans /\ (litter \/ Fill!Tended)

LEMMA FillHoldsInit == Init => Fill!FillInv
  BY SameInit, Fill!FillInit, VolumeConstants DEF Init

LEMMA FillHolds ==
  ASSUME Fill!FillInv, [Next]_vars
  PROVE  Fill!FillInv'
<1>. USE VolumeConstants
<1>1. ASSUME NEW c \in Sharers,
             \/ Fill!Plan(c) \/ Fill!Trim(c) \/ Fill!Refused(c)
             \/ Fill!Removes(c) \/ Fill!Fills(c) \/ Fill!Crash(c)
      PROVE  Fill!FillInv'
  BY <1>1, Fill!PlanStep, Fill!TrimStep, Fill!RefusedStep, Fill!RemovesStep, Fill!FillsStep,
     Fill!CrashStep DEF Sharers
<1>2. CASE Fill!UserDeletes \/ Fill!UserWrites
  BY <1>2, Fill!UserDeletesStep, Fill!UserWritesStep
<1>3. CASE UNCHANGED <<volume, litter>>
  <2>1. UNCHANGED Fill!vars
    BY <1>3 DEF volume, Fill!vars, Fill!fill
  <2>. QED
    BY <2>1, Fill!FillStutter
<1>. QED
  BY <1>1, <1>2, <1>3, VolumeSteps

LEMMA VolumeInvInit == Init => VolumeInv
<1>. SUFFICES ASSUME Init PROVE VolumeInv
  OBVIOUS
<1>1. Fill!NoOrphans /\ Fill!Tended
  BY SameInit, Fill!TendedInit, VolumeConstants DEF Init
<1>. QED
  BY <1>1, FillHoldsInit DEF VolumeInv

LEMMA VolumeInvStep ==
  ASSUME "unlink" \notin VolumeEnv, VolumeInv, [Next]_vars
  PROVE  VolumeInv'
<1>1. Fill!FillInv /\ Fill!NoOrphans /\ (litter \/ Fill!Tended)
  BY DEF VolumeInv
<1>2. Fill!FillInv'
  BY <1>1, FillHolds
<1>. SUFFICES Fill!NoOrphans' /\ (litter' \/ Fill!Tended')
  BY <1>2 DEF VolumeInv
<1>. USE VolumeConstants
<1>3. ASSUME NEW c \in Sharers, Fill!Plan(c)
      PROVE  Fill!NoOrphans' /\ Fill!Tended'
  BY <1>1, <1>3, Fill!PlanTended DEF Sharers
<1>4. ASSUME NEW c \in Sharers,
             \/ (Fill!Trim(c) \/ Fill!Refused(c)) /\ litter' = litter
             \/ (Fill!Removes(c) \/ Fill!Fills(c)) /\ litter' = (litter \/ Fill!SetupFails(c))
      PROVE  Fill!NoOrphans' /\ (litter' \/ Fill!Tended')
  BY <1>1, <1>4, Fill!TrimTended, Fill!RemovesTended, Fill!FillsTended DEF Sharers
<1>5. ASSUME NEW c \in Sharers, Fill!Crash(c), litter' = TRUE
      PROVE  Fill!NoOrphans' /\ litter'
  BY <1>1, <1>5, Fill!CrashOrphans DEF Sharers
<1>6. CASE (Fill!UserDeletes \/ Fill!UserWrites) /\ litter' = litter
  BY <1>1, <1>6, Fill!OthersTended
<1>7. CASE UNCHANGED <<volume, litter>>
  BY <1>1, <1>7 DEF volume, Fill!NoOrphans, Fill!Holders, Fill!Tended, Fill!FillTended, Fill!DirTended
<1>. QED
  BY <1>3, <1>4, <1>5, <1>6, <1>7, VolumeSteps

LEMMA SameTypes == ASSUME Fill!TypeOK PROVE Volume!TypeOK
  BY Zenon DEF Volume!TypeOK, Fill!TypeOK, Volume!Media, Fill!Media, Volume!Nodes, Fill!Nodes, Volume!NoNode, Fill!NoNode,
     Volume!Offsets, Fill!Offsets, Volume!Pcs, Fill!Pcs,
     Volume!Cardinality, Fill!Cardinality, Volume!IsFiniteSet, Fill!IsFiniteSet

(* Neither the commands, however they are killed, nor the two cleaners on  *)
(* the volume they share ever leave their types: no count of blocks goes   *)
(* below zero or above the volume.                                         *)
THEOREM QuietModeTypeCorrect == Spec => []TypeOK
<1>1. Fill!FillInv /\ [Next]_vars => Fill!FillInv'
  BY FillHolds
<1>2. InstallInv /\ Fill!FillInv => TypeOK
  <2>. SUFFICES ASSUME InstallInv, Fill!FillInv PROVE TypeOK
    OBVIOUS
  <2>1. Fill!TypeOK
    BY Fill!FillTypes, VolumeConstants
  <2>. QED
    BY <2>1, SameTypes DEF TypeOK, InstallInv
<1>. QED
  BY <1>1, <1>2, FillHoldsInit, InstallInvariant, PTL DEF Spec

(* When neither the initial clean nor the timed one runs, the fill both    *)
(* share is gone with its directory and every block is free, unless the    *)
(* last thing a clean did was to die, or to give up before its fill was    *)
(* there (SAFETY.md:27).                                                   *)
THEOREM NoFillAlwaysAtRest ==
  ASSUME "unlink" \notin VolumeEnv
  PROVE  Spec => []NoFillAtRest
<1>1. VolumeInv /\ [Next]_vars => VolumeInv'
  BY VolumeInvStep
<1>2. VolumeInv => NoFillAtRest
  <2>. SUFFICES ASSUME VolumeInv, ~litter PROVE Volume!NoFillAtRest
    BY DEF NoFillAtRest
  <2>1. Fill!NoFillAtRest
    BY Fill!TendedAtRest, VolumeConstants DEF VolumeInv
  <2>. QED
    BY <2>1, Zenon DEF Volume!NoFillAtRest, Fill!NoFillAtRest, Volume!Cleaning, Fill!Cleaning,
       Volume!NoNode, Fill!NoNode, Volume!Free, Fill!Free
<1>. QED
  BY <1>1, <1>2, VolumeInvInit, PTL DEF Spec
=============================================================================
