---------------------------- MODULE MCQuietMode ----------------------------
(***************************************************************************)
(* QuietMode for TLC: two directories, a volume of a few blocks.           *)
(***************************************************************************)
EXTENDS QuietMode
=============================================================================
