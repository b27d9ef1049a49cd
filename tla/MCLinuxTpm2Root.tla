-------------------------- MODULE MCLinuxTpm2Root --------------------------
(***************************************************************************)
(* LinuxTpm2Root for TLC: two programs and three key ids on two handles,   *)
(* so that two of the ids share one.                                       *)
(***************************************************************************)
EXTENDS LinuxTpm2Root
=============================================================================
