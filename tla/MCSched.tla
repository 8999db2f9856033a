------------------------------- MODULE MCSched -------------------------------
(***************************************************************************)
(* Sched for TLC: values for its constants, and bounds.                    *)
(***************************************************************************)
EXTENDS SchedProps

\* At HZ = 500, a slice is requested_time / 2 ticks, divided by the trial.
Short(time, trials)    == [policy |-> "SHORT", priority |-> 0, time |-> time, trials |-> trials]
RealTime(policy, prio) == [policy |-> policy, priority |-> prio, time |-> 0, trials |-> 0]
Other                  == RealTime("OTHER", 0)

MCDelta(static_prio) == 1
Raise == {-1}

ShortOnly  == {Short(4, 2)}
ShortTiny  == {Short(2, 2)}
TinyMix    == {Short(2, 2), RealTime("RR", 1)}
TinyAll    == TinyMix \cup {Other}

\* A slice of no tick, which do_fork does not survive.
Brief      == {Short(1, 2)}
=============================================================================
