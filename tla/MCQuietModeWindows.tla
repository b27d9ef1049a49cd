------------------------- MODULE MCQuietModeWindows -------------------------
(***************************************************************************)
(* QuietModeWindows for TLC: one directory spelled in two ways.            *)
(***************************************************************************)
EXTENDS QuietModeWindows
=============================================================================
