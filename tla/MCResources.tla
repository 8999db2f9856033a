----------------------------- MODULE MCResources -----------------------------
(***************************************************************************)
(* Resources for TLC: the idle task, init and two processes.               *)
(***************************************************************************)
EXTENDS Resources

Plain   == {}
Vfork   == {"CLONE_VFORK", "CLONE_VM"}
Thread  == {"CLONE_VM", "CLONE_FILES", "CLONE_FS", "CLONE_SIGHAND"}
Files   == {"CLONE_FILES"}

NoFork  == [clone |-> {}, fails |-> {}, forks |-> 2, calls |-> {}]

\* Address spaces are shared, left, borrowed and given back.
Spaces  == [NoFork EXCEPT !.clone = {Plain, Vfork}, !.calls = {"exec", "daemonize", "lazy"},
                          !.forks = 3]
\* Every copy of a fork fails but the last, and the last one alone.
Failures == [NoFork EXCEPT !.clone = {Plain, Thread, Files}, !.fails = Failing \ {"copy_thread"}]
LateFailures == [NoFork EXCEPT !.clone = {Plain, Thread}, !.fails = {"copy_thread"},
                               !.calls = {"daemonize"}]

AllBuilds == {Spaces, Failures, LateFailures}

\* A vfork child whose own fork fails releases its parent: breaks VforkWaits.
VforkFails == {[NoFork EXCEPT !.clone = {Plain, Vfork}, !.fails = {"copy_thread"}]}
=============================================================================
