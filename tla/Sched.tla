-------------------------------- MODULE Sched --------------------------------
(***************************************************************************)
(* The scheduler of kernel/sched.c on a uniprocessor (CONFIG_SMP off), with *)
(* the SCHED_SHORT policy, driven by what the rest of the kernel does to    *)
(* it: the timer interrupt, wake-ups from interrupts, system calls of the  *)
(* current process, and the fork and exit paths of kernel/fork.c and       *)
(* kernel/exit.c.                                                          *)
(*                                                                         *)
(* The kernel is not preemptible: one process, rq.curr, executes, and a    *)
(* section with interrupts disabled is one step.  Interrupts (Tick, Wake)  *)
(* come between any two steps.  The functions of the code are operators    *)
(* from a kernel state k = [task, rq, oops] to a kernel state, under the   *)
(* names they have in the code; an action applies one system call's chain  *)
(* of them.                                                                *)
(***************************************************************************)
EXTENDS PrioArray, FiniteSets

CONSTANTS
  Idle,               \* the idle task, rq->idle
  Reaper,             \* the init process, child_reaper
  MAX_RT_PRIO,        \* first priority that is not real-time
  HZ,                 \* timer interrupts per second
  UINT,               \* 2^32: time_slice is an unsigned int
  MIN_TIMESLICE, MAX_TIMESLICE,
  Bonuses,            \* values of bonus the sleep average can give
  DELTA(_),           \* DELTA(static_prio), the interactivity threshold
  MAX_REQUESTED_TIME, MAX_TRIALS,  \* 5000 and 50, bounds on SHORT parameters
  Requests,           \* setscheduler arguments processes use
  Nices,              \* nice values processes ask for
  Calls,              \* the system calls processes make
  AnyTarget           \* FALSE: setscheduler is called only on a runnable task,
                      \* and not as SCHED_SHORT on one that is SHORT already

UserPrio == MAX_RT_PRIO .. MAX_PRIO - 1
NiceHalf == (MAX_PRIO - MAX_RT_PRIO) \div 2       \* 20 of the nice range -20 .. 19
MAX_USER_RT_PRIO == MAX_RT_PRIO
Policies == {"OTHER", "FIFO", "RR", "SHORT"}
CallNames == {"sleep", "yield", "setscheduler", "nice", "fork", "exit", "wait"}

\* A call of sched_setscheduler, or with policy "KEEP" of sched_setparam (-1).
SchedRequests == [policy : Policies \cup {"KEEP"}, priority : 0 .. MAX_USER_RT_PRIO - 1,
                  time : Nat, trials : Nat]

ASSUME TaskAssumption   == IsFiniteSet(Task)      \* do_fork fails beyond max_threads
ASSUME IdleAssumption   == Idle \notin Task
ASSUME ReaperAssumption == Reaper \in Task
ASSUME PrioAssumption   == MAX_RT_PRIO \in Nat \ {0} /\ MAX_RT_PRIO + 1 < MAX_PRIO
ASSUME TimeAssumption   ==
  /\ HZ \in Nat /\ UINT \in Nat
  /\ MIN_TIMESLICE \in Nat \ {0} /\ MAX_TIMESLICE \in Nat
  /\ MIN_TIMESLICE <= MAX_TIMESLICE /\ MAX_TIMESLICE < UINT
ASSUME BonusAssumption  == Bonuses \subseteq Int
ASSUME CallAssumption   ==
  /\ MAX_REQUESTED_TIME \in Nat /\ MAX_TRIALS \in Nat
  /\ Requests \subseteq SchedRequests /\ Nices \subseteq Int
  /\ Calls \subseteq CallNames /\ AnyTarget \in BOOLEAN

VARIABLES
  task,   \* task_struct of every slot, and of the idle task
  rq,     \* the runqueue
  oops,   \* "none", or how the kernel has crashed
  pc      \* where in the kernel each process is

vars == << task, rq, oops, pc >>
AllTask == Task \cup {Idle}
kern == [task |-> task, rq |-> rq, oops |-> oops]

ArrayId == {"array0", "array1", "short_q", "overdue"}
States  == {"RUNNING", "INTERRUPTIBLE", "UNINTERRUPTIBLE", "ZOMBIE", "FREE"}
PCs     == {"none", "user", "sys", "sleep", "forking", "forked", "embryo", "exiting"}

\* The fields of struct task_struct the scheduler uses.  sleep_avg and
\* sleep_timestamp are abstracted by the choices of Bonuses.
TaskStructs ==
  [state : States, policy : Policies, prio : 0 .. MAX_PRIO, static_prio : UserPrio,
   array : ArrayId \cup {"NULL"}, time_slice : 0 .. UINT - 1,
   first_time_slice : BOOLEAN, need_resched : BOOLEAN, parent : Task,
   requested_time : Nat, number_of_trials : Int, current_trial : Nat,
   is_overdue : BOOLEAN]

RunQueues ==
  [arrays : [ArrayId -> PrioArrays], active : {"array0", "array1"},
   expired : {"array0", "array1"}, curr : AllTask, nr_running : Int,
   nr_uninterruptible : Int]

Oopses == {"none", "dequeue_null_array", "dequeue_unlinked", "fork_no_time_slice",
           "no_queue"}

TypeOK ==
  /\ task \in [AllTask -> TaskStructs]
  /\ \A p \in Task : task[p].prio \in Prio
  /\ rq \in RunQueues
  /\ oops \in Oopses
  /\ pc \in [Task -> PCs]

-----------------------------------------------------------------------------
(* Static inline helpers on one task_struct t. *)

rt_task(t) == t.prio < MAX_RT_PRIO

\* A chain of two bounds, prio := clamp(prio), at the end of effective_prio.
ClampUser(i) == IF i < MAX_RT_PRIO THEN MAX_RT_PRIO
                ELSE IF i > MAX_PRIO - 1 THEN MAX_PRIO - 1 ELSE i

\* The values effective_prio(p) can take: the bonus of an OTHER task depends on
\* its sleep average, that of a SHORT task does not.
effective_prio(t) ==
  LET bonus == IF t.policy # "SHORT" THEN Bonuses
               ELSE IF t.is_overdue THEN {t.static_prio} ELSE {0}
  IN  {ClampUser(t.static_prio - b) : b \in bonus}

TASK_INTERACTIVE(t) == t.prio <= t.static_prio - DELTA(t.static_prio)

TASK_TIMESLICE(t) ==
  MIN_TIMESLICE + ((MAX_TIMESLICE - MIN_TIMESLICE) * (MAX_PRIO - 1 - t.static_prio))
                    \div (MAX_PRIO - 1 - MAX_RT_PRIO)

\* The quotient is an int, stored in the unsigned int time_slice.
SHORT_TIMESLICE(t) ==
  (((t.requested_time * HZ) \div 1000) \div (t.current_trial + 1)) % UINT

\* --p->time_slice wraps around at zero.
Dec(n) == IF n = 0 THEN UINT - 1 ELSE n - 1

\* Mutant of NICE_TO_PRIO: the nice range starts at 0 instead of -20.
NICE_TO_PRIO_from_zero(nice) == MAX_RT_PRIO + nice

NICE_TO_PRIO(nice) == MAX_RT_PRIO + nice + NiceHalf

-----------------------------------------------------------------------------
(* The runqueue primitives.  After an oops the kernel is dead: no action is *)
(* enabled, so what an operator computes past it does not matter.          *)

Oops(k, what) == [k EXCEPT !.oops = what]
resched_task(k, p) == [k EXCEPT !.task[p].need_resched = TRUE]

\* dequeue_task(p, a).  Through a NULL array, or on a run_list that is not
\* linked there, list_del follows dead pointers.
dequeue_task(k, p, a) ==
  IF a = "NULL" THEN Oops(k, "dequeue_null_array")
  ELSE IF ~Linked(k.rq.arrays[a], p, k.task[p].prio) THEN Oops(k, "dequeue_unlinked")
  ELSE [k EXCEPT !.rq.arrays[a] = dequeue(@, p, k.task[p].prio)]

enqueue_task(k, p, a) ==
  [k EXCEPT !.rq.arrays[a] = enqueue(@, p, k.task[p].prio),
            !.task[p].array = a]

\* Mutant of HomeArray: every SHORT process goes to short_q.
HomeArray_short(k, t) == IF t.policy # "SHORT" THEN k.rq.active ELSE "short_q"

\* The array activate_task chooses for p.
HomeArray(k, t) == IF t.policy # "SHORT" THEN k.rq.active
                   ELSE IF t.is_overdue THEN "overdue" ELSE "short_q"

\* The priorities p can have after activate_task's bonus: unchanged when it is
\* real-time or was asleep for less than a jiffy.
WakePrios(t) == {t.prio} \cup (IF rt_task(t) THEN {} ELSE effective_prio(t))

activate_task(k, p, prio) ==
  LET k1 == enqueue_task([k EXCEPT !.task[p].prio = prio], p, HomeArray(k, k.task[p]))
  IN  [k1 EXCEPT !.rq.nr_running = @ + 1]

\* Mutant of deactivate_task: nr_running is not decremented.
deactivate_task_uncounted(k, p) ==
  LET k1 == [k EXCEPT !.rq.nr_uninterruptible =
                         IF k.task[p].state = "UNINTERRUPTIBLE" THEN @ + 1 ELSE @]
  IN  [dequeue_task(k1, p, k.task[p].array) EXCEPT !.task[p].array = "NULL"]

deactivate_task(k, p) ==
  LET k1 == [k EXCEPT !.rq.nr_running = @ - 1,
                      !.rq.nr_uninterruptible =
                         IF k.task[p].state = "UNINTERRUPTIBLE" THEN @ + 1 ELSE @]
      k2 == dequeue_task(k1, p, k.task[p].array)
  IN  [k2 EXCEPT !.task[p].array = "NULL"]

\* Mutant of try_to_wake_up: nr_uninterruptible is not decremented.
try_to_wake_up_uncounted(k, p, prio) ==
  LET kw == IF k.task[p].array = "NULL" THEN activate_task(k, p, prio) ELSE k
  IN  [kw EXCEPT !.task[p].state = "RUNNING"]

\* try_to_wake_up; prio is the priority activate_task computes.
try_to_wake_up(k, p, prio) ==
  LET k1 == [k EXCEPT !.rq.nr_uninterruptible =
                         IF k.task[p].state = "UNINTERRUPTIBLE" THEN @ - 1 ELSE @]
      k2 == activate_task(k1, p, prio)
      k3 == IF k2.task[p].prio < k2.task[k.rq.curr].prio
            THEN resched_task(k2, k.rq.curr) ELSE k2
      kw == IF k.task[p].array = "NULL" THEN k3 ELSE k
  IN  [kw EXCEPT !.task[p].state = "RUNNING"]

-----------------------------------------------------------------------------
(* schedule() *)

\* Mutant of leave_runqueue: a process woken before schedule leaves all the same.
leave_runqueue_always(k, p, signal_pending) ==
  IF p = Idle \/ pc[p] # "sleep" THEN k ELSE deactivate_task(k, p)

\* schedule's first part: a process that is going to sleep leaves the runqueue,
\* unless a signal is pending for an interruptible sleep.
leave_runqueue(k, p, signal_pending) ==
  IF k.task[p].state = "RUNNING" THEN k
  ELSE IF k.task[p].state = "INTERRUPTIBLE" /\ signal_pending
       THEN [k EXCEPT !.task[p].state = "RUNNING"]
       ELSE deactivate_task(k, p)

swap_arrays(k) ==
  IF k.rq.arrays[k.rq.active].nr_active # 0 THEN k
  ELSE [k EXCEPT !.rq.active = k.rq.expired, !.rq.expired = k.rq.active]

\* idx_active, idx_short and idx_overdue of schedule.
first_idx(arr) == IF arr.nr_active > 0 THEN find_first_bit(arr) ELSE -1

\* Mutant of pick_queue: the classes in another order.
pick_queue_short_first(k) ==
  LET idx_active  == first_idx(k.rq.arrays[k.rq.active])
      idx_short   == first_idx(k.rq.arrays["short_q"])
  IN  IF idx_short >= 0 THEN << "short_q", idx_short >>
      ELSE IF idx_active >= 0 THEN << k.rq.active, idx_active >>
      ELSE << "overdue", first_idx(k.rq.arrays["overdue"]) >>

\* The list schedule takes the next task from, << array, priority >>; "NULL" where
\* the code leaves the variable queue uninitialised.
pick_queue(k) ==
  LET idx_active  == first_idx(k.rq.arrays[k.rq.active])
      idx_short   == first_idx(k.rq.arrays["short_q"])
      idx_overdue == first_idx(k.rq.arrays["overdue"])
  IN  IF idx_active \in 0 .. MAX_RT_PRIO - 1 THEN << k.rq.active, idx_active >>
      ELSE IF idx_short >= 0 THEN << "short_q", idx_short >>
      ELSE IF idx_active >= MAX_RT_PRIO THEN << k.rq.active, idx_active >>
      ELSE IF idx_overdue >= 0 THEN << "overdue", idx_overdue >>
      ELSE << "NULL", 0 >>

\* The list itself; empty when there is none at that place.
list_at(k, q) == IF q[1] \in ArrayId /\ q[2] \in Prio
                 THEN k.rq.arrays[q[1]].queue[q[2]] ELSE << >>

switch_tasks(k, prev, next) ==
  [k EXCEPT !.task[prev].need_resched = FALSE, !.rq.curr = next]

pick_next_task(k, prev) ==
  LET k1 == swap_arrays(k)
      q  == list_at(k1, pick_queue(k1))
  IN  IF k.rq.nr_running = 0 THEN switch_tasks(k, prev, Idle)
      ELSE IF q = << >> THEN Oops(k1, "no_queue")
      ELSE switch_tasks(k1, prev, Head(q))

schedule(k, signal_pending) ==
  LET prev == k.rq.curr
  IN  pick_next_task(leave_runqueue(k, prev, signal_pending), prev)

-----------------------------------------------------------------------------
(* scheduler_tick() *)

\* Mutant of become_overdue: the process stays linked in short_q.
become_overdue_linked_twice(k, p) ==
  LET k1 == enqueue_task([k EXCEPT !.task[p].prio = 0], p, "overdue")
  IN  [k1 EXCEPT !.task[p].is_overdue = TRUE, !.task[p].time_slice = 1]

\* End of the slice of the last trial: the process becomes overdue.
become_overdue(k, p) ==
  LET k1 == dequeue_task([k EXCEPT !.task[p].time_slice = 1], p, "short_q")
      k2 == enqueue_task([k1 EXCEPT !.task[p].prio = 0], p, "overdue")
  IN  [k2 EXCEPT !.task[p].is_overdue = TRUE]

\* Mutants of next_trial: a slice that came out as zero is kept; the slice does
\* not get shorter with the trials.
next_trial_zero_slice(k, p) ==
  LET k1 == [k EXCEPT !.task[p].time_slice = SHORT_TIMESLICE(k.task[p])]
  IN  enqueue_task(dequeue_task(k1, p, "short_q"), p, "short_q")

next_trial_full_slice(k, p) ==
  LET k1 == [k EXCEPT !.task[p].time_slice =
                         SHORT_TIMESLICE([k.task[p] EXCEPT !.current_trial = 0])]
  IN  enqueue_task(dequeue_task(k1, p, "short_q"), p, "short_q")

\* End of the slice of any other trial: a shorter slice, at the end of the list.
next_trial(k, p) ==
  LET k1 == [k EXCEPT !.task[p].time_slice = SHORT_TIMESLICE(k.task[p])]
  IN  IF k1.task[p].time_slice = 0 THEN become_overdue(k1, p)
      ELSE enqueue_task(dequeue_task(k1, p, "short_q"), p, "short_q")

\* Mutant of tick_short: the end of a slice does not count as a trial.
tick_short_uncounted(k, p) ==
  LET k1 == [k EXCEPT !.task[p].time_slice = Dec(@)]
      k2 == next_trial(k1, p)
  IN  IF k1.task[p].time_slice > 0 THEN k1 ELSE resched_task(k2, p)

tick_short(k, p) ==
  LET k1 == [k EXCEPT !.task[p].time_slice = Dec(@)]
      k2 == [k1 EXCEPT !.task[p].current_trial = @ + 1,
                       !.task[p].first_time_slice = FALSE]
      k3 == IF k2.task[p].current_trial >= k2.task[p].number_of_trials
            THEN become_overdue(k2, p) ELSE next_trial(k2, p)
  IN  IF k1.task[p].time_slice > 0 THEN k1 ELSE resched_task(k3, p)

tick_rr(k, p) ==
  LET k1 == [k EXCEPT !.task[p].time_slice = Dec(@)]
      k2 == [k EXCEPT !.task[p].time_slice = TASK_TIMESLICE(k.task[p]),
                      !.task[p].first_time_slice = FALSE,
                      !.task[p].need_resched = TRUE]
  IN  IF k.task[p].policy # "RR" THEN k
      ELSE IF k1.task[p].time_slice > 0 THEN k1
      ELSE enqueue_task(dequeue_task(k2, p, k.rq.active), p, k.rq.active)

\* Mutant of tick_other: the process is given a slice and keeps its place in the list.
tick_other_in_place(k, p, prio, starving) ==
  LET k1 == [k EXCEPT !.task[p].time_slice = Dec(@)]
      k2 == [k EXCEPT !.task[p].need_resched = TRUE,
                      !.task[p].time_slice = TASK_TIMESLICE(k.task[p])]
  IN  IF k1.task[p].time_slice > 0 THEN k1 ELSE k2

\* prio is the value of effective_prio, starving that of EXPIRED_STARVING(rq).
tick_other(k, p, prio, starving) ==
  LET k1 == [k EXCEPT !.task[p].time_slice = Dec(@)]
      k2 == dequeue_task(k, p, k.rq.active)
      k3 == [k2 EXCEPT !.task[p].need_resched = TRUE,
                       !.task[p].prio = prio,
                       !.task[p].first_time_slice = FALSE,
                       !.task[p].time_slice = TASK_TIMESLICE(k.task[p])]
      a  == IF ~TASK_INTERACTIVE(k3.task[p]) \/ starving THEN k.rq.expired ELSE k.rq.active
  IN  IF k1.task[p].time_slice > 0 THEN k1 ELSE enqueue_task(k3, p, a)

scheduler_tick(k, prio, starving) ==
  LET p == k.rq.curr
      t == k.task[p]
  IN  IF p = Idle \/ (t.policy = "SHORT" /\ t.is_overdue) THEN k
      ELSE IF t.policy = "SHORT" THEN tick_short(k, p)
      ELSE IF t.array # k.rq.active THEN resched_task(k, p)
      ELSE IF rt_task(t) THEN tick_rr(k, p)
      ELSE tick_other(k, p, prio, starving)

-----------------------------------------------------------------------------
(* System calls *)

\* sys_sched_yield before its call of schedule: p gives way inside its list, or,
\* alone in it, moves down to the next lower priority in use.
requeue_yielding(k, p) ==
  LET t    == k.task[p]
      arr  == k.rq.arrays[t.array]
      q    == list_del(arr.queue[t.prio], p)
      bits == arr.bitmap \ {t.prio}
      i    == find_first_bit([arr EXCEPT !.bitmap = bits])
      to   == IF i = MAX_PRIO \/ i <= t.prio THEN t.prio ELSE i
      arr1 == [arr EXCEPT !.queue[t.prio] = q]
  IN  IF t.array = "NULL" THEN Oops(k, "dequeue_null_array")
      ELSE IF ~Linked(arr, p, t.prio) THEN Oops(k, "dequeue_unlinked")
      ELSE IF rt_task(t)
      THEN [k EXCEPT !.rq.arrays[t.array].queue[t.prio] = Append(q, p)]
      ELSE IF q # << >>
      THEN [k EXCEPT !.rq.arrays[t.array].queue[t.prio] = list_add_after_first(q, p)]
      ELSE [k EXCEPT !.task[p].prio = to,
                     !.rq.arrays[t.array] =
                        [arr1 EXCEPT !.bitmap = bits \cup {to},
                                     !.queue[to] = list_add_after_first(@, p)]]

sys_sched_yield(k) == schedule(requeue_yielding(k, k.rq.curr), FALSE)

\* set_user_nice.  The test for a raised priority compares the new priority with
\* static_prio after it has been assigned.
set_user_nice(k, p, nice) ==
  LET t    == k.task[p]
      prio == NICE_TO_PRIO(nice)
      k1   == IF t.array = "NULL" THEN k ELSE dequeue_task(k, p, t.array)
      k2   == [k1 EXCEPT !.task[p].static_prio = prio, !.task[p].prio = prio]
      k3   == enqueue_task(k2, p, t.array)
  IN  IF \/ t.static_prio = prio \/ t.policy = "SHORT"
         \/ nice < -NiceHalf \/ nice > NiceHalf - 1 THEN k
      ELSE IF rt_task(t) THEN [k EXCEPT !.task[p].static_prio = prio]
      ELSE IF t.array = "NULL" THEN k2
      ELSE IF prio < k3.task[p].static_prio \/ p = k.rq.curr
      THEN resched_task(k3, k.rq.curr) ELSE k3

\* sched_setparam passes policy -1, which keeps the policy of the task.
RequestedPolicy(t, r) == IF r.policy = "KEEP" THEN t.policy ELSE r.policy

\* Mutant of SetschedulerRejects: overdue processes may change their policy.
SetschedulerRejects_not_overdue(t, r) ==
  \/ r.policy = "SHORT" /\ ~( /\ r.time \in 1 .. MAX_REQUESTED_TIME
                             /\ r.trials \in 1 .. MAX_TRIALS )
  \/ (RequestedPolicy(t, r) \in {"OTHER", "SHORT"}) # (r.priority = 0)
  \/ t.policy \in {"FIFO", "RR"} /\ RequestedPolicy(t, r) = "SHORT"

\* The conditions under which setscheduler returns an error.  The bounds on the
\* SHORT parameters are tested only when the policy is given.
SetschedulerRejects(t, r) ==
  LET policy == RequestedPolicy(t, r)
  IN  \/ r.policy = "SHORT" /\ ~( /\ r.time \in 1 .. MAX_REQUESTED_TIME
                                 /\ r.trials \in 1 .. MAX_TRIALS )
      \/ (policy \in {"OTHER", "SHORT"}) # (r.priority = 0)
      \/ t.policy \in {"FIFO", "RR"} /\ policy = "SHORT"
      \/ t.policy = "SHORT" /\ t.is_overdue

\* OTHER becomes SHORT: the fresh parameters, and array set ahead of activate_task.
set_short(k, p, r) ==
  LET t == [k.task[p] EXCEPT !.requested_time = r.time, !.number_of_trials = r.trials,
                             !.array = "short_q", !.current_trial = 0,
                             !.is_overdue = FALSE]
  IN  [k EXCEPT !.task[p] = [t EXCEPT !.time_slice = SHORT_TIMESLICE(t)]]

\* The priorities p can have once setscheduler has run activate_task on it.
SetschedulerPrios(t, r) ==
  LET policy == RequestedPolicy(t, r)
  IN  IF policy \in {"FIFO", "RR"} THEN {MAX_USER_RT_PRIO - 1 - r.priority}
      ELSE {t.static_prio}
           \cup effective_prio([t EXCEPT !.policy = policy, !.is_overdue = FALSE])

\* setscheduler; prio is one of SetschedulerPrios.  SHORT on a SHORT task leaves
\* right after the update of its requested time.
setscheduler(k, p, r, prio) ==
  LET t      == k.task[p]
      policy == RequestedPolicy(t, r)
      k1     == IF t.array = "NULL" THEN k ELSE deactivate_task(k, p)
      k2     == IF t.policy = "OTHER" /\ policy = "SHORT" THEN set_short(k1, p, r) ELSE k1
      k3     == [k2 EXCEPT !.task[p].policy = policy,
                           !.task[p].prio = IF policy \in {"FIFO", "RR"} THEN prio
                                            ELSE t.static_prio]
      k4     == IF t.array = "NULL" THEN k3 ELSE activate_task(k3, p, prio)
  IN  IF SetschedulerRejects(t, r) THEN k
      ELSE IF t.policy = "SHORT" /\ policy = "SHORT"
      THEN [k1 EXCEPT !.task[p].requested_time = r.time]
      ELSE IF policy = "SHORT"
      THEN schedule(resched_task(k4, k.rq.curr), FALSE)
      ELSE k4

-----------------------------------------------------------------------------
(* fork and exit *)

\* What alloc_task_struct's page holds before do_fork fills it in.
FreeTask ==
  [state |-> "FREE", policy |-> "OTHER", prio |-> NICE_TO_PRIO(0),
   static_prio |-> NICE_TO_PRIO(0), array |-> "NULL", time_slice |-> 0,
   first_time_slice |-> FALSE, need_resched |-> FALSE, parent |-> Reaper,
   requested_time |-> 0, number_of_trials |-> 0, current_trial |-> 0,
   is_overdue |-> FALSE]

\* do_fork up to copy_thread: the child c starts as a copy of current.
dup_task(k, c) ==
  [k EXCEPT !.task[c] = [k.task[k.rq.curr] EXCEPT !.state = "UNINTERRUPTIBLE",
                                                  !.array = "NULL"]]

\* The slice is shared between current, p, and the child c.
split_slice(k, p, c) ==
  LET n  == k.task[p].time_slice
      t  == [k.task[c] EXCEPT !.time_slice = (n + 1) \div 2, !.first_time_slice = TRUE]
      k1 == [k EXCEPT !.task[c] = t]
  IN  [k1 EXCEPT !.task[p].time_slice = n \div 2]

\* Mutant of split_trials: the parent keeps its trials.
split_trials_child_only(k, p, c) ==
  LET t == k.task[p] IN
  IF t.policy # "SHORT" THEN k
  ELSE [k EXCEPT !.task[c].number_of_trials =
                    (t.number_of_trials - t.current_trial + 1) \div 2,
                 !.task[c].current_trial = 0]

\* So are the trials of a SHORT process.
split_trials(k, p, c) ==
  LET t  == k.task[p]
      n  == (t.number_of_trials - t.current_trial + 1) \div 2
      u  == [k.task[c] EXCEPT !.policy = "SHORT", !.number_of_trials = n,
                              !.current_trial = 0, !.is_overdue = FALSE]
      w  == [k.task[c] EXCEPT !.policy = "SHORT", !.is_overdue = TRUE]
      k1 == [k EXCEPT !.task[c] = u]
      m  == k1.task[p].number_of_trials
  IN  IF t.policy # "SHORT" THEN k
      ELSE IF t.is_overdue THEN [k EXCEPT !.task[c] = w]
      ELSE [k1 EXCEPT !.task[p].number_of_trials = m \div 2]

\* do_fork's section with interrupts disabled; a parent left with no slice takes
\* a tick.
share_timeslice(k, c, prio, starving) ==
  LET p  == k.rq.curr
      k1 == split_trials(split_slice(k, p, c), p, c)
  IN  IF k.task[p].time_slice = 0 THEN Oops(k, "fork_no_time_slice")
      ELSE IF k1.task[p].time_slice > 0 THEN k1
      ELSE scheduler_tick([k1 EXCEPT !.task[p].time_slice = 1], prio, starving)

\* wake_up_forked_process; pprio and cprio are the priorities activate_task
\* gives to current, when it is requeued, and to the child c.
wake_up_forked_process(k, c, pprio, cprio) ==
  LET p  == k.rq.curr
      k1 == [k EXCEPT !.task[c].state = "RUNNING"]
      k2 == IF k.task[c].policy # "SHORT" THEN k1
            ELSE activate_task(deactivate_task(k1, p), p, pprio)
  IN  activate_task(k2, c, cprio)

ForkedPrios(t) == IF rt_task(t) THEN {t.prio} ELSE effective_prio(t)

\* forget_original_parent: the children of p become the reaper's, and their
\* slices are no longer p's to take back.
forget_original_parent(k, p) ==
  [k EXCEPT !.task = [q \in AllTask |->
     IF q \in Task /\ k.task[q].parent = p /\ k.task[q].state # "FREE"
     THEN [k.task[q] EXCEPT !.parent = Reaper, !.first_time_slice = FALSE]
     ELSE k.task[q]]]

\* sched_exit: current takes back what is left of the slice it gave to c.
sched_exit(k, c) ==
  LET p   == k.rq.curr
      sum == (k.task[p].time_slice + k.task[c].time_slice) % UINT
  IN  IF ~k.task[c].first_time_slice THEN k
      ELSE [k EXCEPT !.task[p].time_slice = IF sum > MAX_TIMESLICE THEN MAX_TIMESLICE
                                            ELSE sum]

release_task(k, c) ==
  LET k1 == sched_exit(k, c) IN [k1 EXCEPT !.task[c] = FreeTask]

-----------------------------------------------------------------------------
(* The initial state: init runs, alone, with the slice of its last refill.  *)

InitTask ==
  [FreeTask EXCEPT !.state = "RUNNING", !.array = "array0",
                   !.time_slice = MAX_TIMESLICE]

Init ==
  /\ task = [p \in AllTask |->
               CASE p = Reaper -> InitTask
                 [] p = Idle   -> [FreeTask EXCEPT !.state = "RUNNING", !.prio = MAX_PRIO]
                 [] OTHER      -> FreeTask]
  /\ rq = [arrays |-> [a \in ArrayId |->
                         IF a = "array0" THEN enqueue(init_array, Reaper, NICE_TO_PRIO(0))
                         ELSE init_array],
            active |-> "array0", expired |-> "array1", curr |-> Reaper,
            nr_running |-> 1, nr_uninterruptible |-> 0]
  /\ oops = "none"
  /\ pc = [p \in Task |-> IF p = Reaper THEN "user" ELSE "none"]

-----------------------------------------------------------------------------
(* Actions *)

\* The step to kernel state k, in a kernel that has not crashed.
Become(k) ==
  /\ oops = "none"
  /\ task' = k.task
  /\ rq'   = k.rq
  /\ oops' = k.oops

\* The process p executes, at place at of the kernel.
At(p, at) == rq.curr = p /\ p \in Task /\ pc[p] = at
Goto(p, to) == pc' = [pc EXCEPT ![p] = to]
Call(p, name) == At(p, "sys") /\ name \in Calls

TickPrios(t) == IF t.policy \in {"OTHER"} /\ ~rt_task(t) THEN effective_prio(t) ELSE {t.prio}

\* The timer interrupt.
Tick ==
  \E prio \in TickPrios(task[rq.curr]), starving \in BOOLEAN :
    /\ Become(scheduler_tick(kern, prio, starving))
    /\ UNCHANGED pc

\* An interrupt wakes a sleeping process (__wake_up_common with a matching mode).
Wake(p) ==
  /\ task[p].state \in {"INTERRUPTIBLE", "UNINTERRUPTIBLE"} /\ pc[p] # "embryo"
  /\ \E prio \in WakePrios(task[p]) : Become(try_to_wake_up(kern, p, prio))
  /\ UNCHANGED pc

\* Return from an interrupt or a system call with need_resched set, and the
\* idle loop.
Reschedule ==
  /\ task[rq.curr].need_resched
  /\ rq.curr = Idle \/ At(rq.curr, "user")
  /\ Become(schedule(kern, FALSE))
  /\ UNCHANGED pc

\* system_call, entered from user mode, where need_resched is clear.
Enter(p) ==
  /\ At(p, "user") /\ ~task[p].need_resched
  /\ Become(kern) /\ Goto(p, "sys")

Return(p) == At(p, "sys") /\ Become(kern) /\ Goto(p, "user")

\* The first half of a wait loop: the state is set while still running.
PrepareToSleep(p) ==
  /\ Call(p, "sleep")
  /\ \E state \in {"INTERRUPTIBLE", "UNINTERRUPTIBLE"} :
       Become([kern EXCEPT !.task[p].state = state])
  /\ Goto(p, "sleep")

\* The awaited condition holds already: the loop ends without schedule(), and
\* so does the call.
CancelSleep(p) ==
  /\ At(p, "sleep")
  /\ Become([kern EXCEPT !.task[p].state = "RUNNING"])
  /\ Goto(p, "user")

Sleep(p) ==
  /\ At(p, "sleep")
  /\ \E signal_pending \in BOOLEAN : Become(schedule(kern, signal_pending))
  /\ Goto(p, "sys")

Yield(p) ==
  /\ Call(p, "yield")
  /\ Become(sys_sched_yield(kern)) /\ Goto(p, "user")

\* Processes a call may name: those in the pid hash.
Hashed(p) == task[p].state # "FREE" /\ pc[p] # "embryo"

WellBehaved(p, r) ==
  /\ task[p].array # "NULL"
  /\ ~(task[p].policy = "SHORT" /\ RequestedPolicy(task[p], r) = "SHORT")

SetScheduler(p) ==
  /\ Call(p, "setscheduler")
  /\ \E q \in Task, r \in Requests :
       /\ Hashed(q) /\ (AnyTarget \/ WellBehaved(q, r))
       /\ \E prio \in SetschedulerPrios(task[q], r) : Become(setscheduler(kern, q, r, prio))
  /\ Goto(p, "user")

Nice(p) ==
  /\ Call(p, "nice")
  /\ \E q \in Task, nice \in Nices : Hashed(q) /\ Become(set_user_nice(kern, q, nice))
  /\ Goto(p, "user")

\* do_fork in its three atomic parts; interrupts may come between them.
ForkDup(p, c) ==
  /\ Call(p, "fork") /\ task[c].state = "FREE"
  /\ Become(dup_task(kern, c))
  /\ pc' = [pc EXCEPT ![p] = "forking", ![c] = "embryo"]

\* bad_fork_*: copying the process failed.
ForkFail(p, c) ==
  /\ At(p, "forking") /\ pc[c] = "embryo"
  /\ Become([kern EXCEPT !.task[c] = FreeTask])
  /\ pc' = [pc EXCEPT ![p] = "user", ![c] = "none"]

ForkShare(p, c) ==
  /\ At(p, "forking") /\ pc[c] = "embryo"
  /\ \E prio \in TickPrios(task[p]), starving \in BOOLEAN :
       Become(share_timeslice(kern, c, prio, starving))
  /\ Goto(p, "forked")

ForkWake(p, c) ==
  /\ At(p, "forked") /\ pc[c] = "embryo"
  /\ \E pprio \in WakePrios(task[p]), cprio \in ForkedPrios(task[c]) :
       LET k1 == [kern EXCEPT !.task[c].parent = p]
           k2 == wake_up_forked_process(k1, c, pprio, cprio)
       IN  Become(resched_task(k2, p))
  /\ pc' = [pc EXCEPT ![p] = "user", ![c] = "user"]

\* do_exit up to exit_notify, which may wake a parent that waits for it.
ExitNotify(p) ==
  /\ Call(p, "exit") /\ p # Reaper
  /\ LET k1     == [forget_original_parent(kern, p) EXCEPT !.task[p].state = "ZOMBIE"]
         parent == k1.task[p].parent
     IN  \/ Become(k1)
         \/ /\ task[parent].state = "INTERRUPTIBLE"
            /\ \E prio \in WakePrios(task[parent]) : Become(try_to_wake_up(k1, parent, prio))
  /\ Goto(p, "exiting")

\* do_exit's last call of schedule.
ExitSchedule(p) ==
  /\ At(p, "exiting")
  /\ Become(schedule(kern, FALSE)) /\ Goto(p, "none")

\* wait4 finds a zombie child and releases it.
Reap(p, c) ==
  /\ Call(p, "wait") /\ p # c /\ task[c].state = "ZOMBIE" /\ task[c].parent = p
  /\ Become(release_task(kern, c)) /\ Goto(p, "user")

\* What the process p may do when it executes.
Step(p) ==
  \/ Enter(p) \/ Return(p) \/ PrepareToSleep(p) \/ CancelSleep(p) \/ Sleep(p)
  \/ Yield(p) \/ SetScheduler(p) \/ Nice(p) \/ ExitNotify(p) \/ ExitSchedule(p)
  \/ \E c \in Task : \/ ForkDup(p, c) \/ ForkFail(p, c) \/ ForkShare(p, c)
                      \/ ForkWake(p, c) \/ Reap(p, c)

Next ==
  \/ Tick
  \/ Reschedule
  \/ \E p \in Task : Wake(p) \/ Step(p)

Spec == Init /\ [][Next]_vars

=============================================================================
