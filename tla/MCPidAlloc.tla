------------------------------ MODULE MCPidAlloc ------------------------------
(***************************************************************************)
(* PidAlloc for TLC: init and a few processes that go round a small range  *)
(* of ids.                                                                 *)
(***************************************************************************)
EXTENDS PidAlloc

=============================================================================
