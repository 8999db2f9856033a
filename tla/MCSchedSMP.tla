------------------------------ MODULE MCSchedSMP ------------------------------
(***************************************************************************)
(* SchedSMP for TLC: two processors, each with an idle task and a          *)
(* migration thread, and two or three processes.                           *)
(***************************************************************************)
EXTENDS SchedSMP, TLC

CONSTANTS idle0, idle1, migration0, migration1

Processors == {0, 1}
MCidle == 0 :> idle0 @@ 1 :> idle1
MCmigration == 0 :> migration0 @@ 1 :> migration1

Nothing == [procs |-> 2, calls |-> {}, ops |-> 3, concurrent |-> FALSE, short |-> FALSE,
            overdue |-> FALSE]

Wakers   == [Nothing EXCEPT !.procs = 3, !.ops = 4, !.calls = {"sleep", "wake"}]
Forkers  == [Nothing EXCEPT !.procs = 1, !.calls = {"sleep", "wake", "fork"}]
Movers   == [Nothing EXCEPT !.calls = {"sleep", "wake", "affinity"}]
Exits    == [Nothing EXCEPT !.calls = {"fork", "exit", "sleep"}]
Setters  == [Nothing EXCEPT !.calls = {"sleep", "setscheduler"}]

AllBuilds   == {Wakers, Forkers, Movers, Exits, Setters}

\* schedule() with the runqueue lock held: breaks NoDeadlock.
ShortBuilds == {[Setters EXCEPT !.short = TRUE]}

\* Processes that never give way: breaks MigrationCompletes.
OverdueBuilds == {[Movers EXCEPT !.overdue = TRUE]}
=============================================================================
