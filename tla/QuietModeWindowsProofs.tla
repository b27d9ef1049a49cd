----------------------- MODULE QuietModeWindowsProofs -----------------------
(***************************************************************************)
(* Theorems about quiet mode on Windows, for any spellings of the          *)
(* directory, any number of commands and every Env.                        *)
(***************************************************************************)
EXTENDS QuietModeWindows, FiniteSetTheorems, TLAPS

InstallAct ==
  \/ RunInstall \/ RunUninstall \/ InstallStep \/ BeginInitialClean \/ ReportInstall
  \/ KillCommand \/ Logon \/ DirectoryComesOrGoes \/ \E n \in Spellings : ServiceEnds(n)

(* What the volume does is nothing to install, and the other way round.    *)
LEMMA InstallSteps == [Next]_vars => InstallAct \/ UNCHANGED installVars
  BY DEF Next, vars, InstallAct, CommandRuns, CommandDies, OthersUseVolume, OffVolume,
         InitialCleanBegins, InstallEnds, ServicePasses, ServiceDies, Works, DirectoryMoves

-----------------------------------------------------------------------------
InstallPcs ==
  {"idle", "launcher", "write", "register", "withdraw", "clean", "cleaning", "unregister", "remove"}

Answers == {"nothing", "installed", "failed", "removed", "absent"}

Commands ==
  [op : {"none", "install", "uninstall"}, name : Spellings, clean : BOOLEAN, pc : InstallPcs,
   did : Answers]

(* How far the running command has come with its launcher and its entry.   *)
InstallProgress ==
  cmd.op = "install" =>
    /\ cmd.pc \in {"launcher", "write", "register", "withdraw", "clean", "cleaning"}
    /\ cmd.pc \in {"write", "register"} => cmd.name \in launchers
    /\ cmd.pc \in {"register", "clean", "cleaning"} => cmd.name \notin torn
    /\ cmd.pc = "withdraw" => failed
    /\ cmd.did \notin {"removed", "absent"}

UninstallProgress ==
  cmd.op = "uninstall" =>
    /\ cmd.pc \in {"unregister", "remove"}
    /\ cmd.pc = "unregister" => cmd.did = "nothing"
    /\ cmd.pc = "remove" => /\ cmd.did # "failed" => cmd.name \notin entries
                            /\ cmd.did = "failed" => failed

(* While the directory was always in reach, one name is used for it.       *)
OneName ==
  ~strayed => reachable /\ entries \subseteq {Canonical} /\ cmd.name = Canonical

InstallInv ==
  /\ InstallTypeOK
  /\ cmd.op = "none" <=> cmd.pc = "idle"
  /\ cmd.pc # "idle" => said = "nothing"
  /\ InstallProgress /\ UninstallProgress /\ OneName
  /\ EntriesHaveLaunchers /\ UninstallFindsInstalled

LEMMA InstallInvInit == Init => InstallInv
<1>. SUFFICES ASSUME Init PROVE InstallInv
  OBVIOUS
<1>1. InstallInit /\ 0 \in 0..MaxCommands
  BY InstallBoundAssumption DEF Init
<1>2. /\ NoCommand.op = "none" /\ NoCommand.pc = "idle" /\ NoCommand.name = Canonical
      /\ NoCommand \in Commands
  BY SpellingsAssumption DEF NoCommand, Commands, InstallPcs, Answers
<1>3. InstallTypeOK
  BY <1>1, <1>2 DEF InstallInit, InstallTypeOK, Commands, InstallPcs, Answers
<1>. QED
  BY <1>1, <1>2, <1>3 DEF InstallInit, InstallInv, InstallProgress, UninstallProgress, OneName,
     EntriesHaveLaunchers, UninstallFindsInstalled

Moved(op, from, to, did) ==
  /\ cmd.op = op /\ cmd.pc = from
  /\ cmd' \in Commands
  /\ cmd'.op = op /\ cmd'.pc = to /\ cmd'.did = did /\ cmd'.name = cmd.name
  /\ UNCHANGED <<reachable, services, said, commands, strayed>>

LEMMA CommandMoves ==
  ASSUME InstallTypeOK, NEW op, NEW from, NEW did \in Answers, NEW to \in InstallPcs,
         Goes(op, from, to, did)
  PROVE  Moved(op, from, to, did)
<1>1. cmd \in Commands
  BY DEF InstallTypeOK, Commands, InstallPcs, Answers
<1>. QED
  BY <1>1 DEF Goes, Doing, Commands, Moved

(* Every step keeps InstallInv.                                            *)
LEMMA InstallStepKeeps ==
  ASSUME InstallInv, InstallAct \/ UNCHANGED installVars
  PROVE  InstallInv'
<1>1. /\ entries \subseteq Spellings /\ launchers \subseteq Spellings /\ torn \subseteq launchers /\ services \subseteq Spellings
      /\ reachable \in BOOLEAN /\ strayed \in BOOLEAN /\ failed \in BOOLEAN
      /\ cmd \in Commands /\ said \in Answers /\ commands \in 0..MaxCommands
      /\ InstallTypeOK /\ cmd.name \in Spellings
  BY DEF InstallInv, InstallTypeOK, Commands, InstallPcs, Answers
<1>2. ASSUME entries' \subseteq Spellings, launchers' \subseteq Spellings, torn' \subseteq launchers', services' \subseteq Spellings,
             reachable' \in BOOLEAN, strayed' \in BOOLEAN, failed' \in BOOLEAN,
             cmd' \in Commands, said' \in Answers, commands' \in 0..MaxCommands
      PROVE  InstallTypeOK'
  BY <1>2 DEF InstallTypeOK, Commands, InstallPcs, Answers
<1>3. /\ NoCommand \in Commands /\ NoCommand.op = "none" /\ NoCommand.pc = "idle"
      /\ NoCommand.name = Canonical
  BY SpellingsAssumption DEF NoCommand, Commands, InstallPcs, Answers
<1>. USE DEF InstallInv, InstallProgress, UninstallProgress, OneName, EntriesHaveLaunchers,
             UninstallFindsInstalled
<1>4. CASE UNCHANGED installVars
  BY <1>4 DEF installVars, registry, history, InstallTypeOK
<1>5. ASSUME NEW clean \in BOOLEAN, NEW op, NEW pc,
             \/ op = "install" /\ pc = "launcher"
             \/ op = "uninstall" /\ pc = "unregister",
             Run(op, pc, clean)
      PROVE  InstallInv'
  <2>1. PICK s \in Spellings :
          cmd' = [op |-> op, pc |-> pc, name |-> NameOf(s), clean |-> clean, did |-> "nothing"]
    BY <1>5 DEF Run
  <2>2. NameOf(s) \in Spellings /\ (reachable => NameOf(s) = Canonical)
    BY SpellingsAssumption DEF NameOf
  <2>3. cmd' \in Commands /\ cmd'.op = op /\ cmd'.pc = pc /\ cmd'.did = "nothing"
        /\ cmd'.name = NameOf(s)
    BY <1>5, <2>1, <2>2 DEF Commands, InstallPcs, Answers
  <2>4. /\ UNCHANGED <<entries, launchers, torn, reachable, services, strayed, failed>>
        /\ said' = "nothing" /\ commands' \in 0..MaxCommands
    BY <1>1, <1>5, InstallBoundAssumption DEF Run, registry, history
  <2>5. InstallTypeOK'
    BY <1>1, <1>2, <2>3, <2>4 DEF Answers
  <2>. QED
    BY <1>1, <1>5, <2>2, <2>3, <2>4, <2>5
<1>6. CASE RunInstall \/ RunUninstall
  BY <1>5, <1>6 DEF RunInstall, RunUninstall
(* A command that goes on.                                                 *)
<1>7. ASSUME NEW op, NEW from, NEW to, NEW did, Moved(op, from, to, did), from # "idle", to # "idle",
             entries' \subseteq Spellings, launchers' \subseteq Spellings, torn' \subseteq launchers', failed' \in BOOLEAN,
             InstallProgress' /\ UninstallProgress',
             entries' \subseteq entries \union {cmd.name}, EntriesHaveLaunchers'
      PROVE  InstallInv'
  <2>1. InstallTypeOK'
    BY <1>1, <1>2, <1>7 DEF Moved
  <2>2. /\ said = "nothing" /\ said' = said /\ cmd'.op = cmd.op /\ cmd'.pc # "idle"
        /\ cmd.op # "none" /\ OneName'
    BY <1>1, <1>7 DEF Moved
  <2>. QED
    BY <1>7, <2>1, <2>2
<1>8. CASE CutLauncher
  <2>1. Moved("install", "launcher", "write", "nothing") /\ torn' = torn \union {cmd.name}
        /\ launchers' = launchers \union {cmd.name} /\ UNCHANGED <<entries, failed>>
    BY <1>1, <1>8, CommandMoves DEF CutLauncher, InstallPcs, Answers
  <2>2. InstallProgress' /\ UninstallProgress' /\ EntriesHaveLaunchers'
    BY <1>1, <2>1 DEF Moved
  <2>. QED
    BY <1>1, <1>7, <2>1, <2>2
<1>20. CASE WriteLauncher
  <2>1. Moved("install", "write", "register", "nothing") /\ torn' = torn \ {cmd.name}
        /\ UNCHANGED <<entries, launchers, failed>>
    BY <1>1, <1>20, CommandMoves DEF WriteLauncher, InstallPcs, Answers
  <2>2. InstallProgress' /\ UninstallProgress' /\ EntriesHaveLaunchers'
    BY <1>1, <2>1 DEF Moved
  <2>. QED
    BY <1>1, <1>7, <2>1, <2>2
<1>9. CASE Register
  <2>1. Moved("install", "register", "clean", "installed")
        /\ entries' = entries \union {cmd.name} /\ UNCHANGED <<launchers, torn, failed>>
    BY <1>1, <1>9, CommandMoves DEF Register, InstallPcs, Answers
  <2>2. InstallProgress' /\ UninstallProgress' /\ EntriesHaveLaunchers'
    BY <1>1, <2>1 DEF Moved
  <2>. QED
    BY <1>1, <1>7, <2>1, <2>2
<1>10. CASE RegFails
  <2>1. Moved("install", "register", "withdraw", "failed")
        /\ failed' = TRUE /\ UNCHANGED <<entries, launchers, torn>>
    BY <1>1, <1>10, CommandMoves DEF RegFails, InstallPcs, Answers, registry
  <2>2. InstallProgress' /\ UninstallProgress' /\ EntriesHaveLaunchers'
    BY <1>1, <2>1 DEF Moved
  <2>. QED
    BY <1>1, <1>7, <2>1, <2>2
<1>11. CASE BeginInitialClean
  <2>1. Moved("install", "clean", "cleaning", cmd.did) /\ UNCHANGED <<entries, launchers, torn, failed>>
    <3>1. cmd.did \in Answers
      BY <1>1 DEF Commands
    <3>. QED
      BY <1>1, <1>11, <3>1, CommandMoves DEF BeginInitialClean, InstallPcs, registry
  <2>2. InstallProgress' /\ UninstallProgress' /\ EntriesHaveLaunchers'
    BY <1>1, <2>1 DEF Moved
  <2>. QED
    BY <1>1, <1>7, <2>1, <2>2
<1>12. CASE Unregister
  <2>1. Moved("uninstall", "unregister", "remove", Answer) /\ Answer \in {"removed", "absent"}
        /\ entries' = entries \ {cmd.name} /\ UNCHANGED <<launchers, torn, failed>>
    BY <1>1, <1>12, CommandMoves DEF Unregister, InstallPcs, Answers, Answer
  <2>2. InstallProgress' /\ UninstallProgress' /\ EntriesHaveLaunchers'
    BY <1>1, <2>1 DEF Moved
  <2>. QED
    BY <1>1, <1>7, <2>1, <2>2
<1>13. CASE UnregisterFails
  <2>1. Moved("uninstall", "unregister", "remove", "failed")
        /\ failed' = TRUE /\ UNCHANGED <<entries, launchers, torn>>
    BY <1>1, <1>13, CommandMoves DEF UnregisterFails, InstallPcs, Answers, registry
  <2>2. InstallProgress' /\ UninstallProgress' /\ EntriesHaveLaunchers'
    BY <1>1, <2>1 DEF Moved
  <2>. QED
    BY <1>1, <1>7, <2>1, <2>2
(* A command that reports, or is killed.                                   *)
<1>14. ASSUME cmd' = NoCommand, UNCHANGED <<entries, reachable, services, commands, history>>,
              launchers' \subseteq launchers, torn' \subseteq launchers', said' \in Answers,
              EntriesHaveLaunchers' /\ UninstallFindsInstalled'
       PROVE  InstallInv'
  <2>1. InstallTypeOK'
    BY <1>1, <1>2, <1>3, <1>14 DEF history
  <2>. QED
    BY <1>3, <1>14, <2>1 DEF history
<1>15. CASE Withdraw \/ RemoveLauncher
  <2>1. /\ cmd' = NoCommand /\ UNCHANGED <<entries, reachable, services, commands, history>>
        /\ launchers' \subseteq launchers /\ launchers \ {cmd.name} \subseteq launchers'
        /\ torn' \subseteq launchers' /\ said' = cmd.did
        /\ \/ cmd.op = "install" /\ cmd.pc = "withdraw"
           \/ cmd.op = "uninstall" /\ cmd.pc = "remove"
    BY <1>1, <1>15 DEF Withdraw, RemoveLauncher, DeleteLauncher, Doing, Report
  <2>2. EntriesHaveLaunchers' /\ UninstallFindsInstalled' /\ said' \in Answers
    BY <1>1, <2>1 DEF Commands, history
  <2>. QED
    BY <1>14, <2>1, <2>2
<1>16. CASE ReportInstall
  <2>1. /\ cmd' = NoCommand /\ UNCHANGED <<entries, launchers, torn, reachable, services, commands, history>>
        /\ said' = cmd.did /\ cmd.op = "install" /\ cmd.pc \in {"clean", "cleaning"}
    BY <1>16 DEF ReportInstall, Doing, Report, registry
  <2>2. EntriesHaveLaunchers' /\ UninstallFindsInstalled' /\ said' \in Answers
    BY <1>1, <2>1 DEF Commands, history
  <2>. QED
    BY <1>1, <1>14, <2>1, <2>2
<1>17. CASE KillCommand
  <2>1. /\ cmd' = NoCommand /\ cmd.pc # "idle"
        /\ UNCHANGED <<entries, launchers, torn, reachable, services, commands, said, history>>
    BY <1>17 DEF KillCommand, registry
  <2>2. EntriesHaveLaunchers' /\ UninstallFindsInstalled' /\ said' \in Answers
    BY <1>1, <2>1 DEF history
  <2>. QED
    BY <1>1, <1>14, <2>1, <2>2
(* The session and the directory.                                          *)
<1>18. CASE Logon \/ \E n \in Spellings : ServiceEnds(n)
  <2>1. /\ services' \subseteq Spellings
        /\ UNCHANGED <<entries, launchers, torn, reachable, cmd, said, commands, strayed, failed>>
    BY <1>1, <1>18 DEF Logon, ServiceEnds, registry, history
  <2>2. InstallTypeOK'
    BY <1>1, <1>2, <2>1
  <2>. QED
    BY <2>1, <2>2
<1>19. CASE DirectoryComesOrGoes
  <2>1. /\ reachable' \in BOOLEAN /\ strayed' = TRUE
        /\ UNCHANGED <<entries, launchers, torn, services, cmd, said, commands, failed>>
    BY <1>1, <1>19 DEF DirectoryComesOrGoes, registry
  <2>2. InstallTypeOK'
    BY <1>1, <1>2, <2>1
  <2>. QED
    BY <2>1, <2>2
<1>. QED
  BY <1>4, <1>6, <1>8, <1>20, <1>9, <1>10, <1>11, <1>12, <1>13, <1>15, <1>16, <1>17, <1>18, <1>19
     DEF InstallAct, InstallStep

LEMMA InstallInvariant == Spec => []InstallInv
  BY InstallInvInit, InstallSteps, InstallStepKeeps, PTL DEF Spec

(* Wherever install and uninstall are killed, no logon entry is left       *)
(* without its launcher while reg.exe works.                               *)
THEOREM EntriesAlwaysHaveLaunchers == Spec => []EntriesHaveLaunchers
<1>1. InstallInv => EntriesHaveLaunchers
  BY DEF InstallInv
<1>. QED
  BY <1>1, InstallInvariant, PTL

(* When uninstall says that nothing is registered any more, nothing is, by *)
(* whatever spelling it was installed, if the directory was in reach.      *)
THEOREM UninstallAlwaysFindsInstalled == Spec => []UninstallFindsInstalled
<1>1. InstallInv => UninstallFindsInstalled
  BY DEF InstallInv
<1>. QED
  BY <1>1, InstallInvariant, PTL

-----------------------------------------------------------------------------
(* The volume: what is proved of FreeSpace holds of the cleaners here.     *)

Fill == INSTANCE FreeSpaceProofs WITH
          Cleaners <- Spellings \union {Initial}, MaxFill <- Blocks + 1, Env <- VolumeEnv

Sharers == Spellings \union {Initial}

LEMMA VolumeConstants ==
  /\ Blocks \in Nat /\ Margin \in Nat /\ Blocks + 1 \in Nat
  /\ MaxEvents \in Nat /\ VolumeEnv \subseteq Fill!EnvEvents
  /\ Fill!IsFiniteSet(Spellings \union {Initial})
<1>1. IsFiniteSet(Spellings \union {Initial})
  BY VolumeAssumption, FS_AddElement
<1>2. Fill!IsFiniteSet(Spellings \union {Initial})
  BY <1>1 DEF IsFiniteSet, Fill!IsFiniteSet
<1>. QED
  BY <1>2, VolumeAssumption DEF Fill!EnvEvents

LEMMA SameInit == Volume!Init => Fill!Init
  BY Zenon DEF Volume!Init, Fill!Init, Volume!Media, Fill!Media, Volume!Nodes, Fill!Nodes, Volume!NoNode, Fill!NoNode,
     Volume!Resting, Fill!Resting, Volume!Cardinality, Fill!Cardinality, Volume!IsFiniteSet, Fill!IsFiniteSet

LEMMA SamePlan == ASSUME NEW c, Volume!Plan(c) PROVE Fill!Plan(c)
  BY Zenon DEF Volume!Plan, Fill!Plan, Volume!At, Fill!At, Volume!TakenForDisk, Fill!TakenForDisk,
     Volume!Happens, Fill!Happens, Volume!Planned, Fill!Planned, Volume!Resting, Fill!Resting,
     Volume!Free, Fill!Free, Volume!Cleaning, Fill!Cleaning, Volume!AtMost, Fill!AtMost,
     Volume!Minus, Fill!Minus, Volume!fill, Fill!fill, Volume!NoNode, Fill!NoNode

LEMMA SameTrim == ASSUME NEW c, Volume!Trim(c) PROVE Fill!Trim(c)
  BY Zenon DEF Volume!Trim, Fill!Trim, Volume!At, Fill!At, Volume!Free, Fill!Free,
     Volume!fill, Fill!fill

LEMMA SameRefused == ASSUME NEW c, Volume!Refused(c) PROVE Fill!Refused(c)
  BY Zenon DEF Volume!Refused, Fill!Refused, Volume!At, Fill!At, Volume!Happens, Fill!Happens,
     Volume!fill, Fill!fill

LEMMA SameRelease == ASSUME NEW n, Volume!Release(n) PROVE Fill!Release(n)
  BY Zenon DEF Volume!Release, Fill!Release, Volume!Cardinality, Fill!Cardinality,
     Volume!IsFiniteSet, Fill!IsFiniteSet

LEMMA SameRemoves == ASSUME NEW c, Volume!Removes(c) PROVE Fill!Removes(c)
<1>1. CASE Volume!UnlinkFill(c)
  <2>1. Fill!UnlinkFill(c)
    BY <1>1, SameRelease, Zenon DEF Volume!UnlinkFill, Fill!UnlinkFill, Volume!Removal, Fill!Removal,
     Volume!At, Fill!At, Volume!GoTo, Fill!GoTo, Volume!Resting, Fill!Resting, Volume!NoNode, Fill!NoNode,
     Volume!Holders, Fill!Holders
  <2>. QED
    BY <2>1 DEF Fill!Removes
<1>2. CASE Volume!RemoveDir(c)
  <2>1. Fill!RemoveDir(c)
    BY <1>2, Zenon DEF Volume!RemoveDir, Fill!RemoveDir, Volume!Removal, Fill!Removal,
     Volume!At, Fill!At, Volume!GoTo, Fill!GoTo, Volume!Resting, Fill!Resting, Volume!NoNode, Fill!NoNode
  <2>. QED
    BY <2>1 DEF Fill!Removes
<1>3. CASE Volume!RemovalFails(c)
  <2>1. Fill!RemovalFails(c)
    BY <1>3, Zenon DEF Volume!RemovalFails, Fill!RemovalFails, Volume!Removal, Fill!Removal,
     Volume!Happens, Fill!Happens, Volume!At, Fill!At, Volume!GoTo, Fill!GoTo,
     Volume!Resting, Fill!Resting, Volume!NoNode, Fill!NoNode, Volume!fill, Fill!fill
  <2>. QED
    BY <2>1 DEF Fill!Removes
<1>. QED
  BY <1>1, <1>2, <1>3 DEF Volume!Removes

LEMMA SameClose == ASSUME NEW c, NEW ok, Volume!CloseFill(c, ok) PROVE Fill!CloseFill(c, ok)
  BY SameRelease, Zenon DEF Volume!CloseFill, Fill!CloseFill, Volume!NoNode, Fill!NoNode, Volume!Holders, Fill!Holders

LEMMA SameSetupFails == ASSUME NEW c, Volume!SetupFails(c) PROVE Fill!SetupFails(c)
  BY Zenon DEF Volume!SetupFails, Fill!SetupFails, Volume!Happens, Fill!Happens, Volume!At, Fill!At,
     Volume!GoTo, Fill!GoTo, Volume!Resting, Fill!Resting, Volume!NoNode, Fill!NoNode,
     Volume!fill, Fill!fill

LEMMA SameFills == ASSUME NEW c, Volume!Fills(c) PROVE Fill!Fills(c)
<1>1. CASE Volume!MakeDir(c)
  <2>1. Fill!MakeDir(c)
    BY <1>1, Zenon DEF Volume!MakeDir, Fill!MakeDir, Volume!At, Fill!At, Volume!GoTo, Fill!GoTo,
       Volume!Resting, Fill!Resting, Volume!NoNode, Fill!NoNode
  <2>. QED
    BY <2>1 DEF Fill!Fills
<1>2. CASE Volume!OpenFill(c)
  <2>1. Volume!Nodes = Fill!Nodes
    BY Zenon DEF Volume!Nodes, Fill!Nodes, Volume!Cardinality, Fill!Cardinality,
     Volume!IsFiniteSet, Fill!IsFiniteSet
  <2>2. Fill!OpenFill(c)
    BY <1>2, <2>1, SameRelease, Zenon DEF Volume!OpenFill, Fill!OpenFill, Volume!At, Fill!At, Volume!GoTo, Fill!GoTo,
       Volume!Resting, Fill!Resting, Volume!NoNode, Fill!NoNode, Volume!Opened, Fill!Opened, Volume!Holders, Fill!Holders
  <2>. QED
    BY <2>2 DEF Fill!Fills
<1>3. CASE Volume!WriteBlock(c)
  <2>1. Fill!WriteBlock(c)
    BY <1>3, Zenon DEF Volume!WriteBlock, Fill!WriteBlock, Volume!At, Fill!At, Volume!Take, Fill!Take
  <2>. QED
    BY <2>1 DEF Fill!Fills
<1>4. CASE Volume!FillDone(c)
  <2>1. Fill!FillDone(c)
    BY <1>4, SameClose, Zenon DEF Volume!FillDone, Fill!FillDone, Volume!At, Fill!At
  <2>. QED
    BY <2>1 DEF Fill!Fills
<1>5. CASE Volume!DiskFull(c)
  <2>1. Fill!DiskFull(c)
    BY <1>5, SameClose, Zenon DEF Volume!DiskFull, Fill!DiskFull, Volume!At, Fill!At, Volume!Free, Fill!Free
  <2>. QED
    BY <2>1 DEF Fill!Fills
<1>6. CASE Volume!SetupFails(c)
  BY <1>6, SameSetupFails DEF Fill!Fills
<1>. QED
  BY <1>1, <1>2, <1>3, <1>4, <1>5, <1>6 DEF Volume!Fills

LEMMA SameCrash == ASSUME NEW c, Volume!Crash(c) PROVE Fill!Crash(c)
  BY SameRelease, Zenon DEF Volume!Crash, Fill!Crash, Volume!Happens, Fill!Happens, Volume!Cleaning, Fill!Cleaning,
     Volume!Resting, Fill!Resting, Volume!NoNode, Fill!NoNode, Volume!Holders, Fill!Holders

LEMMA SameUsers ==
  /\ Volume!UserDeletes => Fill!UserDeletes
  /\ Volume!UserWrites => Fill!UserWrites
  BY Zenon DEF Volume!UserDeletes, Fill!UserDeletes, Volume!UserWrites, Fill!UserWrites, Volume!Take, Fill!Take,
     Volume!Happens, Fill!Happens, Volume!Cleaning, Fill!Cleaning, Volume!fill, Fill!fill,
     Volume!Resting, Fill!Resting, Volume!NoNode, Fill!NoNode

(* What a step of quiet mode is to the volume.                             *)
LEMMA VolumeSteps ==
  ASSUME [Next]_vars
  PROVE  \/ \E c \in Sharers :
              \/ Fill!Plan(c) \/ Fill!Trim(c) \/ Fill!Refused(c)
              \/ Fill!Removes(c) \/ Fill!Fills(c) \/ Fill!Crash(c)
         \/ Fill!UserDeletes \/ Fill!UserWrites
         \/ UNCHANGED volume
<1>1. \/ \E c \in Sharers :
            \/ Volume!Plan(c) \/ Volume!Trim(c) \/ Volume!Refused(c)
            \/ Volume!Removes(c) \/ Volume!Fills(c) \/ Volume!Crash(c)
      \/ Volume!UserDeletes \/ Volume!UserWrites
      \/ UNCHANGED volume
  BY DEF Next, vars, CommandRuns, CommandDies, OthersUseVolume, OffVolume, InitialCleanBegins,
         InstallEnds, ServicePasses, ServiceDies, Works, DirectoryMoves, Begins, DiesIf, Sharers
<1>. QED
  BY <1>1, SamePlan, SameTrim, SameRefused, SameRemoves, SameFills, SameCrash, SameUsers

LEMMA FillHolds ==
  ASSUME Fill!FillInv, [Next]_vars
  PROVE  Fill!FillInv'
<1>. USE VolumeConstants
<1>1. ASSUME NEW c \in Sharers,
             \/ Fill!Plan(c) \/ Fill!Trim(c) \/ Fill!Refused(c)
             \/ Fill!Removes(c) \/ Fill!Fills(c) \/ Fill!Crash(c)
      PROVE  Fill!FillInv'
  BY <1>1, Fill!PlanStep, Fill!TrimStep, Fill!RefusedStep, Fill!RemovesStep, Fill!FillsStep,
     Fill!CrashStep DEF Sharers
<1>2. CASE Fill!UserDeletes \/ Fill!UserWrites
  BY <1>2, Fill!UserDeletesStep, Fill!UserWritesStep
<1>3. CASE UNCHANGED volume
  <2>1. UNCHANGED Fill!vars
    BY <1>3 DEF volume, Fill!vars, Fill!fill
  <2>. QED
    BY <2>1, Fill!FillStutter
<1>. QED
  BY <1>1, <1>2, <1>3, VolumeSteps

LEMMA SameTypes == ASSUME Fill!TypeOK PROVE Volume!TypeOK
  BY Zenon DEF Volume!TypeOK, Fill!TypeOK, Volume!Media, Fill!Media, Volume!Nodes, Fill!Nodes, Volume!NoNode, Fill!NoNode,
     Volume!Offsets, Fill!Offsets, Volume!Pcs, Fill!Pcs,
     Volume!Cardinality, Fill!Cardinality, Volume!IsFiniteSet, Fill!IsFiniteSet

(* However many services a user has registered, and whoever of them and of *)
(* the initial clean dies, no command leaves its types and no count of     *)
(* blocks goes below zero or above the volume.                             *)
THEOREM QuietModeWindowsTypeCorrect == Spec => []TypeOK
<1>1. Init => Fill!FillInv
  BY SameInit, Fill!FillInit, VolumeConstants DEF Init
<1>2. Fill!FillInv /\ [Next]_vars => Fill!FillInv'
  BY FillHolds
<1>3. InstallInv /\ Fill!FillInv => TypeOK
  <2>. SUFFICES ASSUME InstallInv, Fill!FillInv PROVE TypeOK
    OBVIOUS
  <2>1. Fill!TypeOK
    BY Fill!FillTypes, VolumeConstants
  <2>. QED
    BY <2>1, SameTypes DEF TypeOK, InstallInv
<1>. QED
  BY <1>1, <1>2, <1>3, InstallInvariant, PTL DEF Spec
=============================================================================
