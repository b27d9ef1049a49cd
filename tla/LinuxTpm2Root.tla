--------------------------- MODULE LinuxTpm2Root ---------------------------
(***************************************************************************)
(* The Linux key root, src/keyroot.rs: an RWK sealed into a persistent     *)
(* object of a TPM 2.0 through the tpm2 tools, one tool call per step.     *)
(* Several programs use the TPM at once (commands on different vaults, or  *)
(* a repair-destroy beside a hardware-shred) and share its persistent      *)
(* handles, its storage root key and its few slots for transient objects.  *)
(*                                                                         *)
(* A key id is a number, given out once.  Its handle is 16 bits of a hash: *)
(* here the residue modulo Handles, so ids collide when Handles is small.  *)
(***************************************************************************)
EXTENDS Naturals, FiniteSets

CONSTANTS
  Procs,        \* programs using the key root
  MaxKeys,      \* bound: how many key ids are minted
  Handles,      \* number of persistent handles for vault keys
  MaxLoaded,    \* transient objects the TPM can hold
  Env           \* what may fail: a subset of {"tool", "getcap", "flush", "crash"}

ASSUME HandlesAssumption == MaxKeys \in Nat /\ Handles \in Nat \ {0} /\ MaxLoaded \in Nat
ASSUME ToolsAssumption == Env \subseteq {"tool", "getcap", "flush", "crash"}

VARIABLES
  nv,       \* what each persistent handle holds
  loaded,   \* programs that have a transient object loaded
  leaked,   \* number of transient objects no program will flush any more
  pr,       \* the programs
  minted,   \* number of key ids given out
  sealed,   \* keys whose seal_rwk has returned Ok
  evicted   \* history: keys that a destroy has taken out of their handle

transient == <<loaded, leaked>>
vars == <<nv, transient, pr, minted, sealed, evicted>>

Empty == 0
SrkObject == MaxKeys + 1         \* a number that is no key id
SRK == Handles                   \* its handle lies outside those of the keys

Handle(k) == k % Handles

Init ==
  /\ nv = [s \in 0..Handles |-> Empty] /\ loaded = {} /\ leaked = 0
  /\ pr = [p \in Procs |-> [op |-> "none", key |-> 0, pc |-> "idle", made |-> FALSE,
                            hit |-> FALSE, out |-> "none", rwk |-> 0]]
  /\ minted = 0 /\ sealed = {} /\ evicted = {}

-----------------------------------------------------------------------------
At(p, op, pc) == pr[p].op = op /\ pr[p].pc = pc

(* hit records for the properties that a tool did not work in this call.   *)
Goes(p, pc, made, hit) ==
  pr' = [pr EXCEPT ![p].pc = pc, ![p].made = made, ![p].hit = @ \/ hit]
Ends(p, out, rwk, hit) ==
  pr' = [pr EXCEPT ![p].pc = "idle", ![p].out = out, ![p].rwk = rwk, ![p].hit = @ \/ hit]

GoTo(p, pc, made) == Goes(p, pc, made, FALSE)
Return(p, out, rwk) == Ends(p, out, rwk, FALSE)

(* is_persistent: a getcap that fails reads as "not there".                *)
Sees(s) == [there : {nv[s] # Empty}, hit : {FALSE}]
             \union (IF "getcap" \in Env THEN [there : {FALSE}, hit : {TRUE}] ELSE {})

(* A tool call fails: the TPM refuses it, or the tool does not work.       *)
ToolFails(p, pc, refused) == (refused \/ "tool" \in Env) /\ Goes(p, pc, FALSE, ~refused)

Slot(p) == Handle(pr[p].key)
HasRoom == Cardinality(loaded) + leaked < MaxLoaded
MayFail == "tool" \in Env

Call(p, op, k) ==
  /\ pr[p].pc = "idle"
  /\ pr' = [pr EXCEPT ![p] = [op |-> op, key |-> k, pc |-> "check", made |-> FALSE,
                              hit |-> FALSE, out |-> "none", rwk |-> 0]]
  /\ UNCHANGED <<nv, transient, sealed, evicted>>

CallSeal(p) == minted < MaxKeys /\ minted' = minted + 1 /\ Call(p, "seal", minted + 1)

(* Only a header or a marker names the key of another call.                *)
CallOnSealed(p) ==
  \E k \in sealed, op \in {"unseal", "destroy", "present"} : Call(p, op, k) /\ UNCHANGED minted

-----------------------------------------------------------------------------
(* seal_rwk and ensure_srk.                                                *)

(* Mutated: a handle that is taken is made free.                           *)
SealMakesRoom(p) ==
  /\ At(p, "seal", "check")
  /\ nv' = [nv EXCEPT ![Slot(p)] = Empty] /\ GoTo(p, "srk", FALSE)
  /\ UNCHANGED <<transient, minted, sealed, evicted>>

SealCheck(p) ==
  /\ At(p, "seal", "check")
  /\ \E look \in Sees(Slot(p)) :
       IF look.there THEN Return(p, "exists", 0) ELSE Goes(p, "srk", FALSE, look.hit)
  /\ UNCHANGED <<nv, transient, minted, sealed, evicted>>

SrkCheck(p) ==
  /\ At(p, "seal", "srk")
  /\ \E look \in Sees(SRK) :
       Goes(p, IF look.there THEN "create" ELSE "primary", FALSE, look.hit)
  /\ UNCHANGED <<nv, transient, minted, sealed, evicted>>

CreatePrimary(p) ==
  /\ At(p, "seal", "primary")
  /\ \/ HasRoom /\ loaded' = loaded \union {p} /\ GoTo(p, "persist", FALSE)
     \/ loaded' = loaded /\ ToolFails(p, "flush_srk", ~HasRoom)
  /\ UNCHANGED <<nv, leaked, minted, sealed, evicted>>

(* Mutated: the primary is persisted at the handle of the key.             *)
PersistSrkAtSlot(p) ==
  /\ At(p, "seal", "persist")
  /\ nv' = [nv EXCEPT ![Slot(p)] = SrkObject] /\ GoTo(p, "flush_srk", TRUE)
  /\ UNCHANGED <<transient, minted, sealed, evicted>>

(* evictcontrol refuses a handle that is taken.                            *)
PersistSrk(p) ==
  /\ At(p, "seal", "persist")
  /\ \/ nv[SRK] = Empty /\ nv' = [nv EXCEPT ![SRK] = SrkObject] /\ GoTo(p, "flush_srk", TRUE)
     \/ nv' = nv /\ ToolFails(p, "flush_srk", nv[SRK] # Empty)
  /\ UNCHANGED <<transient, minted, sealed, evicted>>

(* What p has loaded stays, and p will not flush it.                       *)
Leaks(p) ==
  /\ loaded' = loaded \ {p}
  /\ leaked' = leaked + Cardinality(loaded \intersect {p})

(* flushcontext, its result ignored.                                       *)
Flushed(p) ==
  \/ loaded' = loaded \ {p} /\ leaked' = leaked
  \/ "flush" \in Env /\ Leaks(p)

FlushSrk(p) ==
  /\ At(p, "seal", "flush_srk")
  /\ Flushed(p)
  /\ GoTo(p, "srk_again", pr[p].made)
  /\ UNCHANGED <<nv, minted, sealed, evicted>>

(* Mutated: a concurrent creator is not looked for.                        *)
SrkMadeByUs(p) ==
  /\ At(p, "seal", "srk_again")
  /\ IF pr[p].made THEN GoTo(p, "create", FALSE) ELSE Return(p, "fail", 0)
  /\ UNCHANGED <<nv, transient, minted, sealed, evicted>>

SrkAgain(p) ==
  /\ At(p, "seal", "srk_again")
  /\ \E look \in Sees(SRK) :
       IF look.there \/ pr[p].made THEN Goes(p, "create", FALSE, look.hit)
                                   ELSE Ends(p, "fail", 0, look.hit)
  /\ UNCHANGED <<nv, transient, minted, sealed, evicted>>

(* work_dir: no directory for the files of the tools.                      *)
WorkDirFails(p) ==
  /\ MayFail /\ (At(p, "seal", "primary") \/ At(p, "seal", "create"))
  /\ Ends(p, "fail", 0, TRUE)
  /\ UNCHANGED <<nv, transient, minted, sealed, evicted>>

CreateSealed(p) ==
  /\ At(p, "seal", "create")
  /\ \/ nv[SRK] # Empty /\ GoTo(p, "load", FALSE)
     \/ ToolFails(p, "flush", nv[SRK] = Empty)
  /\ UNCHANGED <<nv, transient, minted, sealed, evicted>>

LoadSealed(p) ==
  /\ At(p, "seal", "load")
  /\ \/ HasRoom /\ loaded' = loaded \union {p} /\ GoTo(p, "evict", FALSE)
     \/ loaded' = loaded /\ ToolFails(p, "flush", ~HasRoom)
  /\ UNCHANGED <<nv, leaked, minted, sealed, evicted>>

(* Mutated: a key takes over its handle, whoever has it.                   *)
PersistOverTaken(p) ==
  /\ At(p, "seal", "evict")
  /\ \/ nv' = [nv EXCEPT ![Slot(p)] = pr[p].key] /\ GoTo(p, "flush", TRUE)
     \/ nv' = nv /\ ToolFails(p, "flush", FALSE)
  /\ UNCHANGED <<transient, minted, sealed, evicted>>

PersistSealed(p) ==
  /\ At(p, "seal", "evict")
  /\ \/ /\ nv[Slot(p)] = Empty
        /\ nv' = [nv EXCEPT ![Slot(p)] = pr[p].key] /\ GoTo(p, "flush", TRUE)
     \/ nv' = nv /\ ToolFails(p, "flush", nv[Slot(p)] # Empty)
  /\ UNCHANGED <<transient, minted, sealed, evicted>>

(* Mutated: an error skips the flush.                                      *)
FlushIfSealed(p) ==
  /\ At(p, "seal", "flush")
  /\ loaded' = (IF pr[p].made THEN loaded \ {p} ELSE loaded) /\ leaked' = leaked
  /\ Return(p, IF pr[p].made THEN "ok" ELSE "fail", 0)
  /\ sealed' = IF pr[p].made THEN sealed \union {pr[p].key} ELSE sealed
  /\ UNCHANGED <<nv, minted, evicted>>

FlushSealed(p) ==
  /\ At(p, "seal", "flush")
  /\ Flushed(p)
  /\ Return(p, IF pr[p].made THEN "ok" ELSE "fail", 0)
  /\ sealed' = IF pr[p].made THEN sealed \union {pr[p].key} ELSE sealed
  /\ UNCHANGED <<nv, minted, evicted>>

-----------------------------------------------------------------------------
(* unseal_rwk, destroy, key_present.                                       *)

Check(p) ==
  /\ \E look \in Sees(Slot(p)) :
       \/ /\ At(p, "unseal", "check")
          /\ IF look.there THEN GoTo(p, "use", FALSE) ELSE Ends(p, "not_found", 0, look.hit)
       \/ /\ At(p, "destroy", "check")
          /\ IF look.there THEN GoTo(p, "use", FALSE) ELSE Ends(p, "ok", 0, look.hit)
       \/ /\ At(p, "present", "check")
          /\ Ends(p, IF look.there THEN "ok" ELSE "not_found", 0, look.hit)
  /\ UNCHANGED <<nv, transient, minted, sealed, evicted>>

(* Mutated: every failure of the tool is a missing key.                    *)
UnsealOrNotFound(p) ==
  /\ At(p, "unseal", "use")
  /\ \/ nv[Slot(p)] # Empty /\ Return(p, "ok", nv[Slot(p)])
     \/ (MayFail \/ nv[Slot(p)] = Empty) /\ Return(p, "not_found", 0)
  /\ UNCHANGED <<nv, transient, minted, sealed, evicted>>

(* tpm2_unseal yields what the handle holds, whosever it is.               *)
Unseal(p) ==
  /\ At(p, "unseal", "use")
  /\ \/ nv[Slot(p)] # Empty /\ Return(p, "ok", nv[Slot(p)])
     \/ (MayFail \/ nv[Slot(p)] = Empty) /\ Return(p, "crypto_fail", 0)
  /\ UNCHANGED <<nv, transient, minted, sealed, evicted>>

(* Mutated: the exit code of evictcontrol is not looked at.                *)
DestroyUnchecked(p) ==
  /\ At(p, "destroy", "use")
  /\ nv' \in {[nv EXCEPT ![Slot(p)] = Empty]} \union (IF MayFail THEN {nv} ELSE {})
  /\ Return(p, "ok", 0)
  /\ UNCHANGED <<transient, minted, sealed, evicted>>

Destroy(p) ==
  /\ At(p, "destroy", "use")
  /\ \/ /\ nv[Slot(p)] # Empty /\ nv' = [nv EXCEPT ![Slot(p)] = Empty]
        /\ evicted' = evicted \union {nv[Slot(p)]} /\ Return(p, "ok", 0)
     \/ (MayFail \/ nv[Slot(p)] = Empty) /\ UNCHANGED <<nv, evicted>> /\ Return(p, "fail", 0)
  /\ UNCHANGED <<transient, minted, sealed>>

(* The program is killed between two tool calls.                           *)
Crash(p) ==
  /\ "crash" \in Env /\ pr[p].pc # "idle"
  /\ Leaks(p)
  /\ Return(p, "none", 0)
  /\ UNCHANGED <<nv, minted, sealed, evicted>>

-----------------------------------------------------------------------------
Seal(p) ==
  \/ SealCheck(p) \/ SrkCheck(p) \/ CreatePrimary(p) \/ PersistSrk(p) \/ FlushSrk(p)
  \/ SrkAgain(p) \/ WorkDirFails(p) \/ CreateSealed(p) \/ LoadSealed(p) \/ PersistSealed(p)
  \/ FlushSealed(p)

Next ==
  \E p \in Procs : \/ CallSeal(p) \/ CallOnSealed(p) \/ Seal(p)
                   \/ Check(p) \/ Unseal(p) \/ Destroy(p) \/ Crash(p)

Spec == Init /\ [][Next]_vars

-----------------------------------------------------------------------------
TypeOK ==
  /\ DOMAIN nv = 0..Handles /\ nv[SRK] \in {Empty, SrkObject}
  /\ \A s \in 0..(Handles - 1) : nv[s] # Empty => nv[s] \in 1..minted /\ Handle(nv[s]) = s
  /\ loaded \subseteq Procs /\ leaked \in 0..MaxLoaded
  /\ minted \in 0..MaxKeys /\ sealed \subseteq 1..minted /\ evicted \subseteq 1..minted
  /\ pr \in [Procs -> [op : {"none", "seal", "unseal", "destroy", "present"}, key : 0..minted,
                       pc : {"idle", "check", "srk", "primary", "persist", "flush_srk",
                             "srk_again", "create", "load", "evict", "flush", "use"},
                       made : BOOLEAN, hit : BOOLEAN, rwk : 0..minted,
                       out : {"none", "ok", "exists", "not_found", "crypto_fail", "fail"}]]

(* What unseal_rwk returns is the RWK of the key it was asked for; with    *)
(* another the vault would report a wrong passphrase (vault.rs:285).  Ids  *)
(* may share a handle (keyroot.rs:397): another key is met there only      *)
(* after the one that was asked for has been destroyed.                    *)
UnsealsOwnRwk ==
  \A p \in Procs : At(p, "unseal", "idle") /\ pr[p].out = "ok"
    => pr[p].rwk = pr[p].key \/ pr[p].key \in evicted

(* A sealed key goes only through a destroy of that very key               *)
(* (keyroot.rs:101), or of one that shared its handle and had been         *)
(* destroyed before: a second destroy of a key, which its marker may ask   *)
(* for, is the only one that can hit another.                              *)
DestroyLeavesOtherKeys ==
  [][\A k \in sealed : nv[Handle(k)] = k /\ nv'[Handle(k)] # k
       => \E p \in Procs : /\ At(p, "destroy", "use")
                           /\ \/ pr[p].key = k
                              \/ Slot(p) = Handle(k) /\ pr[p].key \in evicted]_vars

(* A destroy that reported success has destroyed its key, whatever other   *)
(* programs did between its check and its evictcontrol, unless the getcap  *)
(* of the check did not work (keyroot.rs:408).                             *)
DestroyedIsGone ==
  \A p \in Procs : At(p, "destroy", "idle") /\ pr[p].out = "ok" /\ ~pr[p].hit
    => nv[Slot(p)] # pr[p].key

(* "The key is gone" is never said of a key that is there: the failure     *)
(* modes are kept separate (keyroot.rs:43), but for a getcap that does not *)
(* work.                                                                   *)
KeyNotFoundMeansGone ==
  [][\A p \in Procs : pr[p].out = "none" /\ pr'[p].out = "not_found" /\ ~pr'[p].hit
       => nv[Slot(p)] # pr[p].key]_vars

(* A program that has returned has flushed what it loaded, whichever tool  *)
(* call failed, unless it was killed or the flush itself failed            *)
(* (keyroot.rs:367, :381).                                                 *)
NoTransientLeft == \A p \in Procs : pr[p].pc = "idle" => p \notin loaded

(* Another key id has the handle of the one p was called with.             *)
Collides(p) == \E k \in 1..minted : k # pr[p].key /\ Handle(k) = Slot(p)

(* Programs that enroll at the same time do not stand in each other's way, *)
(* also when each finds no storage root key and makes one (keyroot.rs:371):*)
(* an enrolment fails only by a tool that does not work, because its       *)
(* handle is another key's too, or on a TPM that killed programs have left *)
(* without room.                                                           *)
EnrolmentSucceeds ==
  \A p \in Procs : At(p, "seal", "idle") /\ pr[p].out \in {"fail", "exists"}
    => pr[p].hit \/ Collides(p) \/ leaked + Cardinality(Procs) > MaxLoaded
=============================================================================
