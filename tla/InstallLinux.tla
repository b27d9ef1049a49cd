---------------------------- MODULE InstallLinux ----------------------------
(***************************************************************************)
(* Quiet mode on Linux, src/install.rs: install writes a systemd user      *)
(* service and its timer, has systemd load them, enables the timer and     *)
(* cleans once itself; uninstall takes it all back.  The unit names are    *)
(* the same whatever directory is cleaned.                                 *)
(*                                                                         *)
(* systemd is external: it runs what it has loaded, not what is on disk,   *)
(* until it is told to reload or the user logs in again.                   *)
(***************************************************************************)
EXTENDS Naturals

CONSTANTS
  Dirs, NoDir,    \* the directories a user may have cleaned, and none
  MaxCommands,    \* bound: how often install and uninstall are run
  Env             \* a subset of InstallEvents

(* "systemctl"  a systemctl fails       "unlink"  a unit file stays        *)
(* "kill"       the command dies        "login"   the user logs in again   *)
InstallEvents == {"systemctl", "unlink", "kill", "login"}

ASSUME DirsAssumption == NoDir \notin Dirs
ASSUME InstallBoundAssumption == MaxCommands \in Nat
ASSUME InstallEnvAssumption == Env \subseteq InstallEvents

VARIABLES
  service,     \* the directory secure-delete-clean.service cleans, NoDir if there is no file
  timer,       \* secure-delete-clean.timer exists
  linked,      \* systemd has the timer enabled for the next login
  active,      \* the timer runs
  loaded,      \* the service as systemd has it loaded
  scheduled,   \* the directory the service is cleaning now
  cmd,         \* the running install or uninstall
  said,        \* what the last of them told the user
  commands     \* how many were run

units == <<service, timer>>
systemd == <<linked, active, loaded>>
installVars == <<units, systemd, scheduled, cmd, said, commands>>

(* failed: which parts of an uninstall have failed, "disable" or "unlink"; *)
(* the command goes on all the same.  Only the properties read it.         *)
NoCommand ==
  [op |-> "none", pc |-> "idle", dir |-> NoDir, clean |-> FALSE, did |-> FALSE, failed |-> {}]
Silent == [that |-> "nothing", dir |-> NoDir, failed |-> {}]

InstallInit ==
  /\ service = NoDir /\ timer = FALSE
  /\ linked = FALSE /\ active = FALSE /\ loaded = NoDir /\ scheduled = NoDir
  /\ cmd = NoCommand /\ said = Silent /\ commands = 0

Doing(op, pc) == cmd.op = op /\ cmd.pc = pc

(* What every effect of a command leaves alone, and where it goes on.      *)
GoesOn(op, from, to, did, failed) ==
  /\ Doing(op, from)
  /\ cmd' = [cmd EXCEPT !.pc = to, !.did = did, !.failed = @ \union failed]
  /\ UNCHANGED <<scheduled, said, commands>>

Goes(op, from, to, did) == GoesOn(op, from, to, did, {})

Report(that) ==
  /\ said' = [that |-> that, dir |-> cmd.dir, failed |-> cmd.failed] /\ cmd' = NoCommand
  /\ UNCHANGED <<scheduled, commands>>

SystemctlFails == "systemctl" \in Env /\ UNCHANGED systemd

Run(op, pc, d, clean) ==
  /\ cmd.pc = "idle" /\ commands < MaxCommands
  /\ commands' = commands + 1
  /\ cmd' = [op |-> op, pc |-> pc, dir |-> d, clean |-> clean, did |-> FALSE,
              failed |-> {}]
  /\ said' = Silent
  /\ UNCHANGED <<units, systemd, scheduled>>

RunInstall == \E d \in Dirs, clean \in BOOLEAN : Run("install", "service", d, clean)
RunUninstall == \E d \in Dirs : Run("uninstall", "disable", d, FALSE)

-----------------------------------------------------------------------------
(* install.                                                                *)

WriteService ==
  /\ Goes("install", "service", "timer", FALSE)
  /\ service' = cmd.dir /\ UNCHANGED <<timer, systemd>>

WriteTimer ==
  /\ Goes("install", "timer", "reload", FALSE)
  /\ timer' = TRUE /\ UNCHANGED <<service, systemd>>

(* daemon-reload && enable --now: the second only if the first worked.     *)
Reload ==
  /\ \/ Goes("install", "reload", "enable", FALSE) /\ loaded' = service /\ UNCHANGED <<linked, active>>
     \/ Goes("install", "reload", "clean", FALSE) /\ SystemctlFails
  /\ UNCHANGED units

(* Mutated: enable without --now.                                          *)
EnableForNextLogin ==
  /\ \/ /\ Goes("install", "enable", "clean", TRUE)
        /\ linked' = TRUE /\ loaded' = service /\ UNCHANGED active
     \/ Goes("install", "enable", "clean", FALSE) /\ SystemctlFails
  /\ UNCHANGED units

(* enable and disable make systemd reload as well.                         *)
Enable ==
  /\ \/ /\ Goes("install", "enable", "clean", TRUE)
        /\ linked' = TRUE /\ active' = TRUE /\ loaded' = service
     \/ Goes("install", "enable", "clean", FALSE) /\ SystemctlFails
  /\ UNCHANGED units

BeginInitialClean ==
  /\ cmd.clean /\ Goes("install", "clean", "cleaning", cmd.did)
  /\ UNCHANGED <<units, systemd>>

(* The report comes after the clean, if there is one.                      *)
ReportInstall ==
  /\ Doing("install", "cleaning") \/ (Doing("install", "clean") /\ ~cmd.clean)
  /\ Report(IF cmd.did THEN "enabled" ELSE "not_enabled")
  /\ UNCHANGED <<units, systemd>>

-----------------------------------------------------------------------------
(* uninstall; it does not look at the directory it is given.               *)

Disable ==
  /\ \/ /\ Goes("uninstall", "disable", "remove_service", FALSE)
        /\ linked' = FALSE /\ active' = FALSE /\ loaded' = service
     \/ /\ GoesOn("uninstall", "disable", "remove_service", FALSE, {"disable"})
        /\ SystemctlFails
  /\ UNCHANGED units

(* A removal that fails is taken for a file that was not there.            *)
StaysOnDisk(there, from, to, did) ==
  "unlink" \in Env /\ there /\ GoesOn("uninstall", from, to, did, {"unlink"})

RemoveService ==
  /\ \/ Goes("uninstall", "remove_service", "remove_timer", service # NoDir) /\ service' = NoDir
     \/ StaysOnDisk(service # NoDir, "remove_service", "remove_timer", FALSE) /\ service' = service
  /\ UNCHANGED <<timer, systemd>>

(* Mutated: the || of the report stops at the first removal that works.    *)
RemoveTimerIfNoService ==
  /\ Goes("uninstall", "remove_timer", "reload", cmd.did \/ timer)
  /\ timer' = (timer /\ cmd.did) /\ UNCHANGED <<service, systemd>>

RemoveTimer ==
  /\ \/ Goes("uninstall", "remove_timer", "reload", cmd.did \/ timer) /\ timer' = FALSE
     \/ StaysOnDisk(timer, "remove_timer", "reload", cmd.did) /\ timer' = timer
  /\ UNCHANGED <<service, systemd>>

ReloadAndReport ==
  /\ Doing("uninstall", "reload")
  /\ (loaded' = service /\ UNCHANGED <<linked, active>>) \/ SystemctlFails
  /\ Report(IF cmd.did THEN "removed" ELSE "absent")
  /\ UNCHANGED units

-----------------------------------------------------------------------------
(* systemd and the user.                                                   *)

(* What systemd runs when the timer elapses: the service it has loaded, or *)
(* else the file.  A service that is running is not started again.         *)
Unit == IF loaded # NoDir THEN loaded ELSE service

Elapse ==
  /\ active /\ scheduled = NoDir /\ Unit # NoDir
  /\ scheduled' = Unit /\ loaded' = Unit
  /\ UNCHANGED <<units, linked, active, cmd, said, commands>>

EndScheduledClean ==
  /\ scheduled # NoDir
  /\ scheduled' = NoDir
  /\ UNCHANGED <<units, systemd, cmd, said, commands>>

(* The process is killed, or a file operation of install fails.            *)
KillCommand ==
  /\ "kill" \in Env /\ cmd.pc # "idle"
  /\ cmd' = NoCommand
  /\ UNCHANGED <<units, systemd, scheduled, said, commands>>

(* The user's systemd starts anew, from what is on disk.                   *)
Login ==
  /\ "login" \in Env /\ cmd.pc = "idle" /\ scheduled = NoDir
  /\ loaded' = service /\ active' = (linked /\ timer)
  /\ UNCHANGED <<units, linked, scheduled, cmd, said, commands>>

InstallStep ==
  \/ WriteService \/ WriteTimer \/ Reload \/ Enable
  \/ Disable \/ RemoveService \/ RemoveTimer \/ ReloadAndReport

-----------------------------------------------------------------------------
InstallTypeOK ==
  /\ service \in Dirs \union {NoDir} /\ timer \in BOOLEAN
  /\ linked \in BOOLEAN /\ active \in BOOLEAN
  /\ loaded \in Dirs \union {NoDir} /\ scheduled \in Dirs \union {NoDir}
  /\ cmd \in [op : {"none", "install", "uninstall"}, dir : Dirs \union {NoDir},
              pc : {"idle", "service", "timer", "reload", "enable", "clean", "cleaning",
                    "disable", "remove_service", "remove_timer"},
              clean : BOOLEAN, did : BOOLEAN, failed : SUBSET {"disable", "unlink"}]
  /\ said \in [that : {"nothing", "enabled", "not_enabled", "removed", "absent"},
               dir : Dirs \union {NoDir}, failed : SUBSET {"disable", "unlink"}]
  /\ commands \in 0..MaxCommands

(* "It cleans on a schedule now" (install.rs:171): the timer runs, comes   *)
(* back at the next login, and runs a service that cleans the directory    *)
(* that was given last, whatever units earlier installs left on disk or    *)
(* loaded, and wherever they were killed.                                  *)
ScheduledAsReported ==
  said.that = "enabled" => active /\ linked /\ timer /\ Unit = said.dir /\ service = said.dir

(* After uninstall has reported, no login starts the timer again: the      *)
(* timer is not linked, or its file is gone.  Only when disabling and      *)
(* unlinking have both failed may it be started, and then, if uninstall    *)
(* says that it removed something (install.rs:198), it finds no service to *)
(* run.  Units that could be removed are.                                  *)
OffAtNextLogin ==
  said.that \in {"removed", "absent"} =>
    /\ "unlink" \notin said.failed => service = NoDir /\ ~timer
    /\ linked /\ timer => said.failed = {"disable", "unlink"}
    /\ linked /\ timer /\ said.that = "removed" => service = NoDir
=============================================================================
