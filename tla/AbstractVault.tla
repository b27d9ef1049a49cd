--------------------------- MODULE AbstractVault ---------------------------
(***************************************************************************)
(* What a vault promises its user, as if every command were one indivisible*)
(* step: which entries it holds, which passphrase opens it, whether it     *)
(* needs the hardware, whether it has a recovery kit, and that an erased   *)
(* entry is erased for ever.  Vault implements it through crashes,         *)
(* failing steps and TPM clears, see VaultRefinement.                      *)
(***************************************************************************)
EXTENDS Naturals

CONSTANTS
  Pass,    \* passphrases
  Id       \* names of entries

VARIABLES
  vault,   \* the vault, NoVault before init
  gone     \* the ids that have been erased

avars == <<vault, gone>>

NoVault == [exists |-> FALSE, entries |-> {}, pass |-> "none", hardware |-> FALSE, kit |-> FALSE]

AbstractInit == vault = NoVault /\ gone = {}

(* init, init_tpm: an empty vault, a kit only for a hardware one.          *)
Create(p, hardware, kit) ==
  /\ ~vault.exists
  /\ kit => hardware
  /\ vault' = [exists |-> TRUE, entries |-> {}, pass |-> p, hardware |-> hardware, kit |-> kit]
  /\ UNCHANGED gone

AddEntry(id) ==
  /\ vault.exists
  /\ id \notin vault.entries \union gone
  /\ vault' = [vault EXCEPT !.entries = @ \union {id}]
  /\ UNCHANGED gone

EraseEntry(id) ==
  /\ id \in vault.entries
  /\ vault' = [vault EXCEPT !.entries = @ \ {id}]
  /\ gone' = gone \union {id}

ChangePass(p) ==
  /\ vault.exists
  /\ vault' = [vault EXCEPT !.pass = p]
  /\ UNCHANGED gone

(* hardware-shred of drop (a set of at most one id): the only command that *)
(* may drop the kit and keep the hardware.                                 *)
RotateHardware(drop, dropKit) ==
  /\ vault.hardware
  /\ drop \subseteq vault.entries
  /\ vault' = [vault EXCEPT !.entries = @ \ drop, !.kit = @ /\ ~dropKit]
  /\ gone' = gone \union drop

(* recover --to-software; recover itself changes nothing the user sees.    *)
LeaveHardware ==
  /\ vault.hardware /\ vault.kit
  /\ vault' = [vault EXCEPT !.hardware = FALSE, !.kit = FALSE]
  /\ UNCHANGED gone

AbstractNext ==
  \/ \E p \in Pass, hardware, kit \in BOOLEAN : Create(p, hardware, kit)
  \/ \E id \in Id : AddEntry(id)
  \/ \E id \in vault.entries : EraseEntry(id)
  \/ \E p \in Pass : ChangePass(p)
  \/ \E drop \in {{}} \union {{id} : id \in vault.entries}, dropKit \in BOOLEAN :
       RotateHardware(drop, dropKit)
  \/ LeaveHardware

AbstractSpec == AbstractInit /\ [][AbstractNext]_avars
=============================================================================
