------------------------------ MODULE MCWaitExit ------------------------------
(***************************************************************************)
(* WaitExit for TLC: init and two or three processes.                      *)
(***************************************************************************)
EXTENDS WaitExit

SomeOptions == {{}, {"WNOHANG"}, {"__WCLONE"}, {"__WALL", "__WNOTHREAD"}}

\* One processor, with tracing; with clones that send other signals than SIGCHLD;
\* and with threads, whose wait4 does not sleep in put_user.
Traced  == [smp |-> FALSE, pgrps |-> TRUE, faults |-> TRUE, ptrace |-> TRUE,
            options |-> {{}}, clone |-> {"CLONE_PARENT"}, forks |-> 3]
Clones  == [Traced EXCEPT !.ptrace = FALSE, !.options = SomeOptions,
                          !.clone = {"CLONE_PARENT", "CSIGNAL"}]
Threads == [Traced EXCEPT !.faults = FALSE, !.options = SomeOptions,
                          !.clone = {"CLONE_THREAD"}, !.forks = 2]

\* Several processors and one process group, without and with tracing.
Smp       == [Traced EXCEPT !.smp = TRUE, !.pgrps = FALSE, !.ptrace = FALSE]
SmpTraced == [Smp EXCEPT !.ptrace = TRUE, !.forks = 2]

TreeBuilds   == {Traced, Clones, Threads, Smp, SmpTraced}
ReapedBuilds == {[b EXCEPT !.options = {{}}, !.forks = 2] : b \in TreeBuilds}

\* Threads on several processors may give children to each other: breaks
\* ReparentingComplete.
ThreadsSmp == {[Threads EXCEPT !.smp = TRUE, !.pgrps = FALSE, !.ptrace = FALSE,
                               !.options = {{}}, !.forks = 3]}

=============================================================================
