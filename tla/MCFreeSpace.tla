---------------------------- MODULE MCFreeSpace ----------------------------
(***************************************************************************)
(* FreeSpace for TLC: a volume of a few blocks; the cleaners are model     *)
(* values, one (the service) or two (and a clean by hand).                 *)
(***************************************************************************)
EXTENDS FreeSpace
=============================================================================
