------------------------------ MODULE MCWaitQueue ------------------------------
(***************************************************************************)
(* WaitQueue for TLC: two or three waiters and one or two wakers.          *)
(***************************************************************************)
EXTENDS WaitQueue

CONSTANTS t1, t2, t3, w1, w2

AllStates == {"INTERRUPTIBLE", "UNINTERRUPTIBLE"}

\* Loops on several processors.
Events == [smp |-> TRUE, procs |-> {t1, t2, t3, w1}, calls |-> {"wait_event", "exclusive"},
           nrs |-> {1, 2}, modes |-> {AllStates}, tokens |-> 2]

\* Interruptible waits, and wake-ups for these alone, two at a time.
Interruptible == [Events EXCEPT !.procs = {t1, t2, w1, w2}, !.nrs = {0, 1},
                                !.calls = {"wait_event_interruptible", "exclusive"},
                                !.modes = {{"INTERRUPTIBLE"}}]

Completions == [Events EXCEPT !.procs = {t1, t2, t3, w1, w2}, !.calls = {"wait_for_completion"}]

\* sleep_on is for one processor, or for callers that all hold the kernel lock.
Sleeps == [Events EXCEPT !.smp = FALSE, !.procs = {t1, t2, t3, w1},
                         !.calls = SleepOns \cup {"exclusive"}]

AllBuilds == {Events, Interruptible, Completions, Sleeps}

=============================================================================
