---------------------------- MODULE MCSwitchInfo ----------------------------
(***************************************************************************)
(* SwitchInfo for TLC.  A ring of three slots keeps two records, so a burst *)
(* of three after a creation already makes it wrap around.                 *)
(***************************************************************************)
EXTENDS SwitchInfo

MCMinRemaining == -2

=============================================================================
