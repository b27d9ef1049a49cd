--------------------------- MODULE InstallWindows ---------------------------
(***************************************************************************)
(* Quiet mode on Windows, src/install.rs: install writes a launcher script *)
(* and an entry under HKCU\...\Run that starts it at logon, and cleans     *)
(* once itself; uninstall deletes both.  Either is found by a name, which  *)
(* is a hash of the directory's path: of the canonical one while the       *)
(* directory can be reached, else of what the user typed.                  *)
(*                                                                         *)
(* The logon and the service it starts, which cleans until it is killed,   *)
(* are external.  One directory, spelled in several ways.                  *)
(***************************************************************************)
EXTENDS Naturals

CONSTANTS
  Spellings, Canonical,   \* ways to write the directory's path
  MaxCommands,            \* bound: how often install and uninstall are run
  Env                     \* a subset of InstallEvents

(* "reg"   reg.exe fails        "unlink"  a launcher cannot be deleted     *)
(* "kill"  the command dies     "away"    the directory comes or goes      *)
InstallEvents == {"reg", "unlink", "kill", "away"}

ASSUME SpellingsAssumption == Canonical \in Spellings
ASSUME InstallBoundAssumption == MaxCommands \in Nat
ASSUME InstallEnvAssumption == Env \subseteq InstallEvents

VARIABLES
  entries,      \* names under the Run key
  launchers,    \* names whose .vbs exists
  torn,         \* names whose .vbs is cut short
  reachable,    \* the directory can be canonicalized
  services,     \* names whose service runs
  cmd,          \* the running install or uninstall
  said,         \* what the last of them told the user
  commands,     \* how many were run
  strayed,      \* history: the directory has been out of reach
  failed        \* history: reg.exe has failed

registry == <<entries, launchers, torn>>
history == <<strayed, failed>>
installVars == <<registry, reachable, services, cmd, said, commands, history>>

NoCommand == [op |-> "none", pc |-> "idle", name |-> Canonical, clean |-> FALSE, did |-> "nothing"]

InstallInit ==
  /\ entries = {} /\ launchers = {} /\ torn = {} /\ reachable = TRUE /\ services = {}
  /\ cmd = NoCommand /\ said = "nothing" /\ commands = 0
  /\ strayed = FALSE /\ failed = FALSE

(* Mutated: the path is hashed as it was typed.                            *)
NameAsTyped(s) == s

(* abs and entry_name                                                      *)
NameOf(s) == IF reachable THEN Canonical ELSE s

Doing(op, pc) == cmd.op = op /\ cmd.pc = pc

(* What every effect of a command leaves alone, and where it goes on.      *)
Goes(op, from, to, did) ==
  /\ Doing(op, from)
  /\ cmd' = [cmd EXCEPT !.pc = to, !.did = did]
  /\ UNCHANGED <<reachable, services, said, commands, strayed>>

Report ==
  /\ said' = cmd.did /\ cmd' = NoCommand
  /\ UNCHANGED <<reachable, services, commands, history>>

Run(op, pc, clean) ==
  /\ cmd.pc = "idle" /\ commands < MaxCommands
  /\ commands' = commands + 1
  /\ \E s \in Spellings :
       cmd' = [op |-> op, pc |-> pc, name |-> NameOf(s), clean |-> clean, did |-> "nothing"]
  /\ said' = "nothing"
  /\ UNCHANGED <<registry, reachable, services, history>>

RunInstall == \E clean \in BOOLEAN : Run("install", "launcher", clean)
RunUninstall == Run("uninstall", "unregister", FALSE)

-----------------------------------------------------------------------------
(* install.                                                                *)

(* fs::write cuts the file short, or makes it, and then writes it.         *)
CutLauncher ==
  /\ Goes("install", "launcher", "write", "nothing")
  /\ launchers' = launchers \union {cmd.name} /\ torn' = torn \union {cmd.name}
  /\ UNCHANGED <<entries, failed>>

WriteLauncher ==
  /\ Goes("install", "write", "register", "nothing")
  /\ torn' = torn \ {cmd.name} /\ UNCHANGED <<entries, launchers, failed>>

Register ==
  /\ Goes("install", "register", "clean", "installed")
  /\ entries' = entries \union {cmd.name} /\ UNCHANGED <<launchers, torn, failed>>

RegFails ==
  /\ "reg" \in Env /\ Goes("install", "register", "withdraw", "failed")
  /\ failed' = TRUE /\ UNCHANGED registry

(* remove_file, whose error is ignored.                                    *)
DeleteLauncher ==
  \/ launchers' = launchers \ {cmd.name} /\ torn' = torn \ {cmd.name}
  \/ "unlink" \in Env /\ UNCHANGED <<launchers, torn>>

Withdraw ==
  /\ Doing("install", "withdraw") /\ Report
  /\ DeleteLauncher /\ UNCHANGED entries

BeginInitialClean ==
  /\ cmd.clean /\ reachable /\ Goes("install", "clean", "cleaning", cmd.did)
  /\ UNCHANGED <<registry, failed>>

(* The report comes after the clean, if there is one.                      *)
ReportInstall ==
  /\ Doing("install", "cleaning") \/ (Doing("install", "clean") /\ ~(cmd.clean /\ reachable))
  /\ Report /\ UNCHANGED registry

-----------------------------------------------------------------------------
(* uninstall: what reg delete answers is looked at after the launcher.     *)

Answer == IF cmd.name \in entries THEN "removed" ELSE "absent"

(* Mutated: the launcher is deleted before the entry.                      *)
UnregisterAfterLauncher ==
  \/ /\ cmd.name \in launchers /\ Goes("uninstall", "unregister", "unregister", "nothing")
     /\ launchers' = launchers \ {cmd.name} /\ UNCHANGED <<entries, torn, failed>>
  \/ /\ cmd.name \notin launchers /\ Goes("uninstall", "unregister", "remove", Answer)
     /\ entries' = entries \ {cmd.name} /\ UNCHANGED <<launchers, torn, failed>>

Unregister ==
  /\ Goes("uninstall", "unregister", "remove", Answer)
  /\ entries' = entries \ {cmd.name} /\ UNCHANGED <<launchers, torn, failed>>

UnregisterFails ==
  /\ "reg" \in Env /\ Goes("uninstall", "unregister", "remove", "failed")
  /\ failed' = TRUE /\ UNCHANGED registry

RemoveLauncher ==
  /\ Doing("uninstall", "remove") /\ Report
  /\ DeleteLauncher /\ UNCHANGED entries

-----------------------------------------------------------------------------
(* The session.                                                            *)

Logon ==
  /\ services = {} /\ cmd.pc = "idle"
  /\ services' = (entries \intersect launchers) \ torn
  /\ UNCHANGED <<registry, reachable, cmd, said, commands, history>>

(* The user logs off or kills the service.                                 *)
ServiceEnds(n) ==
  /\ n \in services
  /\ services' = services \ {n}
  /\ UNCHANGED <<registry, reachable, cmd, said, commands, history>>

(* The process is killed, or a file operation of install fails.            *)
KillCommand ==
  /\ "kill" \in Env /\ cmd.pc # "idle"
  /\ cmd' = NoCommand
  /\ UNCHANGED <<registry, reachable, services, said, commands, history>>

(* The directory is deleted or made anew, or its drive comes and goes.     *)
DirectoryComesOrGoes ==
  /\ "away" \in Env
  /\ reachable' = ~reachable /\ strayed' = TRUE
  /\ UNCHANGED <<registry, services, cmd, said, commands, failed>>

InstallStep ==
  \/ CutLauncher \/ WriteLauncher \/ Register \/ RegFails \/ Withdraw
  \/ Unregister \/ UnregisterFails \/ RemoveLauncher

-----------------------------------------------------------------------------
InstallTypeOK ==
  /\ entries \subseteq Spellings /\ launchers \subseteq Spellings /\ torn \subseteq launchers
  /\ services \subseteq Spellings
  /\ reachable \in BOOLEAN /\ strayed \in BOOLEAN /\ failed \in BOOLEAN
  /\ cmd \in [op : {"none", "install", "uninstall"}, name : Spellings, clean : BOOLEAN,
              pc : {"idle", "launcher", "write", "register", "withdraw", "clean", "cleaning",
                    "unregister", "remove"},
              did : {"nothing", "installed", "failed", "removed", "absent"}]
  /\ said \in {"nothing", "installed", "failed", "removed", "absent"}
  /\ commands \in 0..MaxCommands

(* Every logon entry starts something: wherever install and uninstall are  *)
(* killed, no entry is left without its launcher, which would fail in the  *)
(* user's face at each logon.  (A failing reg.exe can leave one: the       *)
(* launcher goes though the entry stays, install.rs:77 and :104.)  An      *)
(* install that dies while it writes the launcher anew (install.rs:72)     *)
(* leaves it cut short; the next command that gets through puts that right *)
(* if the name has not changed.                                            *)
EntriesHaveLaunchers ==
  ~failed => /\ entries \subseteq launchers
             /\ said # "nothing" /\ ~strayed => entries \intersect torn = {}

(* After uninstall has said that nothing is registered any more, nothing   *)
(* is, by whatever spelling it was installed (install.rs:18), unless the   *)
(* directory was out of reach, when the name is another one.               *)
UninstallFindsInstalled ==
  said \in {"removed", "absent"} /\ ~strayed => entries = {}
=============================================================================
