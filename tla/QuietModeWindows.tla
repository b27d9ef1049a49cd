-------------------------- MODULE QuietModeWindows --------------------------
(***************************************************************************)
(* install, the service that a logon starts, and the volume together: the  *)
(* initial clean and the services are cleaners of FreeSpace.  A service    *)
(* cleans for ever, whatever comes of each clean.                          *)
(***************************************************************************)
EXTENDS InstallWindows, FiniteSets

CONSTANTS Blocks, Margin, MaxEvents, VolumeEnv   \* see FreeSpace

ASSUME VolumeAssumption ==
  /\ IsFiniteSet(Spellings)
  /\ Blocks \in Nat /\ Margin \in Nat /\ MaxEvents \in Nat
  /\ VolumeEnv \subseteq {"delete", "write", "crash", "unlink", "probe", "refuse", "setup"}

VARIABLES media, used, dirty, blank, dir, file, data, cl, events

Initial == "initial"
Volume == INSTANCE FreeSpace WITH
            Cleaners <- Spellings \union {Initial}, MaxFill <- Blocks + 1, Env <- VolumeEnv

volume == <<media, used, dirty, blank, dir, file, data, cl, events>>
vars == <<installVars, volume>>

Init == InstallInit /\ Volume!Init

Begins(c) == Volume!Plan(c) \/ Volume!Trim(c) \/ Volume!Refused(c)
Works(c) == Volume!Cleaning(c) /\ (Volume!Removes(c) \/ Volume!Fills(c)) /\ UNCHANGED installVars
DiesIf(c) == IF Volume!Cleaning(c) THEN Volume!Crash(c) ELSE UNCHANGED volume

InitialCleanBegins == BeginInitialClean /\ Begins(Initial)
InstallEnds == ReportInstall /\ ~Volume!Cleaning(Initial) /\ UNCHANGED volume
CommandDies == KillCommand /\ DiesIf(Initial)

(* One pass of the service after the other; none while there is nothing to *)
(* clean.                                                                  *)
ServicePasses(n) ==
  \/ n \in services /\ reachable /\ Begins(n) /\ UNCHANGED installVars
  \/ Works(n)

ServiceDies(n) == ServiceEnds(n) /\ DiesIf(n)

(* A directory somebody cleans does not go away.                           *)
DirectoryMoves ==
  /\ DirectoryComesOrGoes /\ UNCHANGED volume
  /\ \A c \in Spellings \union {Initial} : ~Volume!Cleaning(c)

OthersUseVolume == (Volume!UserDeletes \/ Volume!UserWrites) /\ UNCHANGED installVars

OffVolume(A) == A /\ UNCHANGED volume

CommandRuns == OffVolume(InstallStep) \/ InitialCleanBegins \/ Works(Initial) \/ InstallEnds

Next ==
  \/ OffVolume(RunInstall) \/ OffVolume(RunUninstall) \/ OffVolume(Logon)
  \/ CommandRuns \/ CommandDies
  \/ \E n \in Spellings : ServicePasses(n) \/ ServiceDies(n)
  \/ OthersUseVolume \/ DirectoryMoves

Spec == Init /\ [][Next]_vars

(* The operating system runs the processes that were started.              *)
FairSpec ==
  Spec /\ WF_vars(CommandRuns) /\ \A n \in Spellings : WF_vars(ServicePasses(n))

-----------------------------------------------------------------------------
TypeOK == InstallTypeOK /\ Volume!TypeOK

=============================================================================
