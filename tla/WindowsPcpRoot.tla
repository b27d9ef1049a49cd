--------------------------- MODULE WindowsPcpRoot ---------------------------
(***************************************************************************)
(* The Windows key root, src/keyroot.rs: a key of the Platform Crypto      *)
(* Provider per key id, reached through one PowerShell script per call.    *)
(* A script is a child process that nobody kills with its parent, so a     *)
(* call is one step; what may differ is how far the script got before an   *)
(* exception, and so what it leaves.                                       *)
(*                                                                         *)
(* Each operator is the set of outcomes of a call on the provider's keys:  *)
(* whether it returned Ok and the keys that exist then.  With faulty a     *)
(* call of the provider, or the start of the script, may fail.             *)
(***************************************************************************)
EXTENDS Naturals

Ok(keys) == [ok |-> TRUE, keys |-> keys]
Err(keys) == [ok |-> FALSE, keys |-> keys]

(* PS_SEAL creates the key, tries it out, then encrypts: an exception or a *)
(* failed self-test leaves the key behind.                                 *)
SealOutcomes(keys, k, faulty) ==
  IF k \in keys
  THEN {Err(keys)}
  ELSE {Ok(keys \union {k})}
         \union (IF faulty THEN {Err(keys), Err(keys \union {k})} ELSE {})

UnsealOutcomes(keys, k, faulty) ==
  (IF k \in keys THEN {Ok(keys)} ELSE {})
    \union (IF k \notin keys \/ faulty THEN {Err(keys)} ELSE {})

(* PS_DESTROY: no key, or deleted and looked for once more.                *)
DestroyOutcomes(keys, k, faulty) ==
  {Ok(keys \ {k})}
    \union (IF faulty THEN {Err(keys), Err(keys \ {k})} ELSE {})
=============================================================================
