------------------------------ MODULE SwitchInfo ------------------------------
(***************************************************************************)
(* The monitoring of context switches in kernel/sched.c: the ring of       *)
(* switch_info records in the runqueue of one processor, record_switch,    *)
(* which the scheduler's callers use to leave the reason of the switch     *)
(* that may follow, create_record, called by schedule when it switches,    *)
(* and copy_switch_info_to_user.                                           *)
(*                                                                         *)
(* Which process schedule picks is Sched's business: here it may pick any  *)
(* live process, another one when current goes to sleep or exits.          *)
(***************************************************************************)
EXTENDS Integers, Sequences

CONSTANTS
  Pid,                      \* process ids; 0 is the idle task
  SWITCH_INFO_ARRAY_SIZE,   \* 150
  BURST,                    \* 30, switches monitored after a creation or an end
  MaxJiffies,               \* bound: the clock stops there
  MinRemaining              \* bound: no switch once the counter has come down to it

ASSUME PidAssumption   == 0 \in Pid /\ Pid \subseteq Nat /\ 1 \in Pid
ASSUME RingAssumption  == SWITCH_INFO_ARRAY_SIZE \in Nat \ {0, 1} /\ BURST \in Nat \ {0}
ASSUME BoundAssumption == MaxJiffies \in Nat /\ MinRemaining \in Int /\ MinRemaining < 0

VARIABLES
  ring,      \* switch_info_arr, info_start, info_end, rec_switching_remaining
  curr,      \* pid of the current process
  live,      \* pids of the processes that exist
  jiffies,   \* the clock
  leaving    \* whether and how current is about to call schedule

vars == << ring, curr, live, jiffies, leaving >>

Reasons == {"TASK_CREATED", "TASK_ENDED", "TASK_YIELDS", "SHORT_OVER", "PREV_TASK_WAIT",
            "HIGHIER_TASK_ACTIVE", "TIME_SLICE_OVER"}
Index == 0 .. SWITCH_INFO_ARRAY_SIZE - 1

\* switch_info_t; the policies are copied along with the pids and left out.
Infos == [previous_pid : Pid \cup {-1}, next_pid : Pid \cup {-1},
          time : -1 .. MaxJiffies, reason : Reasons \cup {"none"}]
Rings == [info : [Index -> Infos], start : Index, end : Index, remaining : Int]

TypeOK ==
  /\ ring \in Rings
  /\ curr \in live /\ live \subseteq Pid
  /\ jiffies \in 0 .. MaxJiffies
  /\ leaving \in {"no", "may", "exit"}

-----------------------------------------------------------------------------
(* The ring *)

\* Mutant of INC_INFO: the index does not wrap around.
INC_INFO_no_wrap(inf) == inf + 1

INC_INFO(inf) == (inf + 1) % SWITCH_INFO_ARRAY_SIZE

\* Mutant of record_switch: only a creation starts a burst.
record_switch_created_only(r, reason) ==
  [r EXCEPT !.info[r.end].reason = reason,
            !.remaining = IF reason = "TASK_CREATED" THEN BURST ELSE @]

record_switch(r, reason) ==
  [r EXCEPT !.info[r.end].reason = reason,
            !.remaining = IF reason \in {"TASK_CREATED", "TASK_ENDED"} THEN BURST ELSE @]

\* create_record's first half: the record after the last one is filled in.
fill_record(r, prev, next) ==
  [r EXCEPT !.info[r.end] = [previous_pid |-> prev, next_pid |-> next, time |-> jiffies,
                             reason |-> r.info[r.end].reason],
            !.remaining = @ - 1]

\* Its second half, during a burst: the record is kept, the oldest one given up
\* when the ring is full.
advance(r) ==
  LET end == INC_INFO(r.end)
  IN  [r EXCEPT !.end = end, !.start = IF end = @ THEN INC_INFO(@) ELSE @]

\* Mutant of create_record: one switch more is recorded.
create_record_one_more(r, prev, next) ==
  LET r1 == fill_record(r, prev, next) IN IF r1.remaining >= 0 THEN advance(r1) ELSE r1

create_record(r, prev, next) ==
  LET r1 == fill_record(r, prev, next) IN IF r1.remaining > 0 THEN advance(r1) ELSE r1

\* The number of records copy_switch_info_to_user returns; it copies the array
\* as it is.
number_of_records(r) ==
  IF r.end > r.start THEN r.end - r.start
  ELSE SWITCH_INFO_ARRAY_SIZE - (r.start - r.end)

-----------------------------------------------------------------------------
(* Initial state: sched_init has run; the boot process, which becomes the    *)
(* idle task, is about to create init (pid 1).                              *)

sched_init ==
  [info |-> [i \in Index |-> [previous_pid |-> -1, next_pid |-> -1, time |-> -1,
                              reason |-> "none"]],
   start |-> 0, end |-> 0, remaining |-> 0]

Init ==
  /\ ring = sched_init
  /\ curr = 0 /\ live = {0}
  /\ jiffies = 0 /\ leaving = "no"

-----------------------------------------------------------------------------
(* The places that lead to a call of schedule.  Current is in the kernel    *)
(* (leaving goes from "no" to "may" or "exit"), or an interrupt comes at any *)
(* time.  A process that goes to sleep may be woken before schedule, which  *)
(* then may pick it again; one that exits is gone.                          *)

Record(reason) == ring' = record_switch(ring, reason)

\* current calls schedule, or will on its return to user mode.  The boot process
\* forks init; after that the idle task makes no calls.
Leave(how) == leaving = "no" /\ leaving' = how /\ UNCHANGED << curr, jiffies >>

\* An interrupt sets need_resched; a process on its way to schedule stays on it.
Interrupt ==
  /\ leaving' = IF leaving = "no" THEN "may" ELSE leaving
  /\ UNCHANGED << curr, live, jiffies >>

\* The end of do_fork, once the child is on the runqueue.
Created ==
  /\ \E child \in Pid \ live :
       (curr = 0 => live = {0} /\ child = 1) /\ live' = live \cup {child}
  /\ Leave("may") /\ Record("TASK_CREATED")

\* The end of do_exit.
Ended ==
  /\ curr # 1 /\ curr # 0 /\ Leave("exit") /\ Record("TASK_ENDED")
  /\ UNCHANGED live

\* sys_sched_yield
Yields ==
  /\ curr # 0 /\ Leave("may") /\ Record("TASK_YIELDS")
  /\ UNCHANGED live

\* wait_for_completion
WaitsForCompletion ==
  /\ curr # 0 /\ Leave("may") /\ Record("SHORT_OVER")
  /\ UNCHANGED live

\* Every other wait - wait4, sleep_on, a timeout: nothing records a reason.
Sleeps ==
  /\ curr # 0 /\ Leave("may")
  /\ UNCHANGED << ring, live >>

\* setscheduler to SHORT, and set_user_nice on current.
Reprioritised ==
  /\ curr # 0 /\ Leave("may") /\ Record("HIGHIER_TASK_ACTIVE")
  /\ UNCHANGED live

\* scheduler_tick on a SHORT process: out of trials, or at the end of a slice.
ShortOver ==
  /\ curr # 0 /\ Interrupt /\ Record("SHORT_OVER")
SliceOver ==
  /\ curr # 0 /\ Interrupt /\ Record("TIME_SLICE_OVER")

\* scheduler_tick on any other process: the slice ends without a record.
OtherSliceOver ==
  /\ curr # 0 /\ Interrupt /\ UNCHANGED ring

\* try_to_wake_up preempts current.
HigherWoken ==
  /\ Interrupt /\ Record("HIGHIER_TASK_ACTIVE")

\* schedule.  The idle task calls it when something has become runnable.
Schedule ==
  /\ leaving # "no" /\ ring.remaining > MinRemaining
  /\ \E next \in live :
       /\ leaving = "exit" => next # curr
       /\ ring' = IF next = curr THEN ring ELSE create_record(ring, curr, next)
       /\ curr' = next
  /\ live' = IF leaving = "exit" THEN live \ {curr} ELSE live
  /\ leaving' = "no"
  /\ UNCHANGED jiffies

\* do_timer advances the clock.
Clock ==
  /\ jiffies < MaxJiffies /\ jiffies' = jiffies + 1
  /\ UNCHANGED << ring, curr, live, leaving >>

Next ==
  \/ Created \/ Ended \/ Yields \/ WaitsForCompletion \/ Sleeps \/ Reprioritised
  \/ ShortOver \/ SliceOver \/ OtherSliceOver \/ HigherWoken \/ Schedule \/ Clock

Spec == Init /\ [][Next]_vars

-----------------------------------------------------------------------------
(* Properties *)

\* The records the ring keeps, oldest first: the slots from start up to end.
Kept == (ring.end - ring.start) % SWITCH_INFO_ARRAY_SIZE
kept_records ==
  [i \in 1 .. Kept |-> ring.info[(ring.start + i - 1) % SWITCH_INFO_ARRAY_SIZE]]

(* The ring is a log of the latest SWITCH_INFO_ARRAY_SIZE - 1 recorded       *)
(* switches: record_switch, which writes ahead into the next slot, and       *)
(* create_record, which writes whether it records or not, never touch a      *)
(* record that was kept; and exactly BURST - 1 switches are recorded after   *)
(* the last creation or end of a process.                                    *)
Log == INSTANCE SwitchLog WITH
         Records <- Infos, Capacity <- SWITCH_INFO_ARRAY_SIZE - 1, Burst <- BURST - 1,
         log <- kept_records,
         left <- IF ring.remaining > 0 THEN ring.remaining - 1 ELSE 0
ImplementsLog == Log!LogSpec

(* The switch away from an exiting process is recorded, whatever interrupts  *)
(* came between do_exit's record_switch and its last call of schedule.       *)
ExitIsRecorded ==
  [][leaving = "exit" /\ leaving' = "no" =>
       LET n == Kept' IN n > 0 /\ kept_records'[n].previous_pid = curr]_vars

(* sched_tester.c:116-117 prints the first get_scheduling_statistic() entries *)
(* of the array it was given as the recorded switches.                        *)
CountedEntriesAreRecords ==
  \A i \in 0 .. number_of_records(ring) - 1 :
    ring.info[i].previous_pid # -1 =>
      \E j \in 1 .. Kept : (ring.start + j - 1) % SWITCH_INFO_ARRAY_SIZE = i

=============================================================================
