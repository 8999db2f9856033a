------------------------------ MODULE SwitchLog ------------------------------
(***************************************************************************)
(* What the monitoring of context switches promises: a log of the latest   *)
(* switches, which grows only for a while after a process was created or   *)
(* has ended.  SwitchInfo implements it in the ring of the runqueue.       *)
(***************************************************************************)
EXTENDS Integers, Sequences

CONSTANTS
  Records,    \* the records a switch may leave
  Capacity,   \* records kept
  Burst       \* switches recorded after a creation or an end

VARIABLES
  log,        \* the records kept, oldest first
  left        \* switches still to be recorded

logVars == << log, left >>

LogTypeOK == log \in Seq(Records) /\ Len(log) <= Capacity /\ left \in 0 .. Burst

LogInit == log = << >> /\ left = 0

\* A process was created or has ended.
StartBurst == left' = Burst /\ UNCHANGED log

\* A switch leaves a record, the last one of log'; the oldest gives way when the
\* log is full.
Switched ==
  \/ /\ left > 0 /\ left' = left - 1
     /\ log' # << >>
     /\ LET r == log'[Len(log')]
        IN  /\ r \in Records
            /\ log' = Append(IF Len(log) = Capacity THEN Tail(log) ELSE log, r)
  \/ left = 0 /\ UNCHANGED logVars

LogNext == StartBurst \/ Switched

LogSpec == LogInit /\ [][LogNext]_logVars

=============================================================================
