# A TLA+ model of the SCHED_SHORT scheduler

This directory models and verifies the process scheduler, the process tree, and what fork,
exit and wait queues rest on, in this repository: Linux 2.4.18-14custom with the O(1) scheduler, extended by the policy
`SCHED_SHORT` and by a monitor of context switches. Paths below are relative to
`src/usr/src/linux-2.4.18-14custom/`.

## 1. The system

### Components

| component | code | state | operations |
|---|---|---|---|
| priority arrays | `kernel/sched.c` 128-132, 273-287 | per array: FIFO list per priority, bitmap, `nr_active` | enqueue, dequeue, first set bit |
| scheduler core | `kernel/sched.c` | `runqueue`: `active`, `expired`, `short_q`, `overdue`, `curr`, `nr_running`, `nr_uninterruptible`; scheduling fields of each `task_struct` | `scheduler_tick`, `schedule`, `try_to_wake_up`, `activate_task`, `deactivate_task`, `sys_sched_yield`, `set_user_nice`, `setscheduler` |
| fork, exit | `kernel/fork.c`, `kernel/exit.c` | task slots, parent links, slices and trials | `do_fork`, `wake_up_forked_process`, `exit_notify`, `do_exit`, `sys_wait4`, `release_task`, `sched_exit` |
| kernel entry | `arch/i386/kernel/entry.S` | `need_resched` of the current process | system call entry and return, rescheduling after interrupts |
| switch monitor | `kernel/sched.c` 187-224 | ring of 150 records, its two indices, a countdown | `record_switch`, `create_record`, `copy_switch_info_to_user` |
| queries | `kernel/hw2_syscalls.c` | none of its own | `is_SHORT`, `remaining_time`, `remaining_trials`, statistics |
| wait queues, completions | `kernel/sched.c` 1221-1374, `kernel/fork.c` 43-70, `wait.h`, `sched.h` 924-974 | lists of waiters with a lock each; `done` | `add_wait_queue`, `wait_event`, `sleep_on` in four forms, `wait_for_completion`, `__wake_up`, `complete` |
| process tree | `kernel/exit.c`, `kernel/fork.c`, `sched.h` 976-995 | the five tree pointers, `state` and thread ring of each task; `tasklist_lock` | `do_fork` (links), `reparent_to_init`, `sys_wait4`, `release_task`, `exit_notify`, `forget_original_parent` |
| process resources | `kernel/fork.c` 144-587, `kernel/exit.c` 172-400, `kernel/sched.c` 582-603 | counters of `mm_struct` (two), `files_struct`, `fs_struct`, `signal_struct`; `mm` and `active_mm` of each task | `copy_mm`, `copy_files`, ..., their failures, `exit_mm`, ..., `daemonize`, `context_switch`, vfork |
| pids | `kernel/fork.c` 88-142 | `last_pid`, `next_safe`; four ids per task | `get_pid`; `setsid`, `setpgid`, release |
| SMP | `kernel/sched.c` 230-262, 411-508, 635-837, 2074-2344 | a runqueue with its lock per processor, `cpu` and `cpus_allowed` of each task, queues of migration requests | `load_balance`, `double_lock_balance`, `wait_task_inactive`, `set_cpus_allowed`, `migration_thread` |

The components interact through shared state. The kernel is not preemptible: one process
executes at a time and keeps the processor until it calls `schedule()` or returns to user
mode with `need_resched` set. The concurrency is that of interrupts (the timer, and
wake-ups from devices) with the process, and of processes interleaved at their calls of
`schedule()`. A section with interrupts disabled is atomic. On several processors all this
runs in parallel, and sections are atomic only against those that take the same lock: a
runqueue's, a wait queue's, `tasklist_lock`, `lastpid_lock`.

A process is in one of four classes, ranked: real-time (FIFO, RR), SHORT, OTHER, overdue.
A SHORT process asks for a time and a number of trials. In trial *n* its slice is the
time divided by *n*. When the trials are used up, or the slice comes out as zero, it is overdue for good.
`do_fork` splits the slice, and the trials of a SHORT process, between parent and child.

### What is hard

* `p->array` says both whether a process is queued and where. `setscheduler` writes it in
  between, and has several ways out.
* `prio` and `array` of a *linked* task are changed in six functions, each of which has to
  unlink under the old priority and link under the new one.
* A sleeper may be woken between setting its state and `schedule()`; a tick may come
  between the copy of the parent and the sharing of its slice.
* `active` and `expired` change roles under the tasks that point to them.
* Slices are unsigned and wrap at zero; trials are divided with rounding.
* `wait4` sets its state, scans the children under `tasklist_lock`, and uses what it found
  after dropping the lock, while it may sleep in `put_user`; a child exits, is inherited or
  handed back in between.
* `exit_notify` relinks children by hand and drops the lock within the loop.
* The ring of switch records wraps around, and both its writers write ahead into the next
  slot.
* `do_fork` sleeps, or fails, between copies that each take a reference; the child is on no
  list meanwhile, and the failure labels must undo just what was done.
* A kernel thread runs on the address space of whoever ran before it, whose owner may exit.
* `get_pid` trusts a window it computed at an earlier call, and restarts its scan.
* The balancer and the migration threads read lengths, `cpu` and `cpus_allowed` without a
  lock, and drop one lock to take two; a sync wake-up moves the task and starts again.
* A waiter is woken, interrupted or timed out at any point on its way into `schedule()` and
  out of it, and another may take what it was woken for.

PROJECT.json lists each of these hazards at its line, with the properties aimed at it.

### What makes it correct

* arrays: bit set iff list non-empty; `nr_active` counts the tasks that name the array.
* core: a runnable process is linked where it says it is; every array holds its class; a
  switch goes to the best class; SHORT processes end; an OTHER process runs in the end, if
  no overdue one computes already and wake-ups cease; overdue is final.
* fork and exit: no ticks and no trials are created; a slice never exceeds its trial's.
* process tree: the five pointers agree; a process that has left `exit_notify` is nobody's
  parent; a found zombie stays one; no exit is missed by a waiter; a task is freed after
  its last switch; orphans are released in the end.
* monitor: the ring is a log of the latest recorded switches.
* resources: each structure is counted once per user, at every moment of a fork; a borrowed
  address space outlives its owner; a vfork parent waits for its child.
* pids: an id handed out is in use by nobody, as pid, thread group, process group or session.
* SMP: a task is queued where its `cpu` says and runs once; its affinity is kept; locks do
  not deadlock; idle processors learn of work; migrations complete where processes give way.
* wait queues: no wake-up is lost.

## 2. Modules

| module | content |
|---|---|
| `PrioArray` | `struct prio_array` and its operations, as operators |
| `Sched` | the scheduler core, fork, exit and kernel entry on one processor |
| `SchedProps` | the properties of `Sched`, and its specification with fairness |
| `MCSched` | constants for TLC |
| `SchedProofs` | lemmas on the bitmap search and on lists and what they hold; types: one lemma or two for each operator of `Sched`; theorems: types, and `OverdueIsFinal` |
| `SchedSafety` | the inductive invariant of `Sched`, that the operators on runqueues and then the calls keep it, the safety theorems; what each operator does to slices and trials, and the theorems on these |
| `SwitchLog` | abstract: a bounded log of switches |
| `SwitchInfo` | the ring of switch records, which implements `SwitchLog` |
| `MCSwitchInfo` | constants for TLC |
| `SwitchInfoProofs` | theorems: the ring implements the log |
| `WaitExit` | the process tree: fork, wait and exit as interleaved steps, on one processor and on several |
| `MCWaitExit` | constants for TLC |
| `WaitExitProofs` | what walks along pointers come to, what linking and unlinking do to the lists of siblings, the inductive invariant of `WaitExit`, that every step keeps it, and the theorems |
| `Resources` | the structures processes share, through fork, exit, exec and the context switch |
| `MCResources` | constants for TLC |
| `ResourcesProofs` | the invariants of `Resources`, that every step keeps them, and the theorems |
| `SchedSMP` | runqueues, their locks, balancing and migration on several processors |
| `MCSchedSMP` | constants for TLC |
| `SchedSMPProofs` | the inductive invariant of `SchedSMP`, that every step keeps it, what it takes besides for affinities and idle processors, and the theorems |
| `PidAlloc` | `get_pid`, and who changes ids |
| `MCPidAlloc` | constants for TLC |
| `PidAllocProofs` | that a scan of `get_pid` ends and what it finds, the inductive invariant of `PidAlloc`, and the theorems |
| `WaitQueue` | wait queues, completions and `sleep_on` against wake-ups |
| `MCWaitQueue` | constants for TLC |
| `WaitQueueProofs` | the inductive invariant of `WaitQueue`, that every step keeps it, and the theorems |

Fork, exit and the scheduler appear in several modules, each at the grain its question
needs. `Sched` keeps what they do to arrays and slices, with one atomic step for what
happens on one processor without sleeping. `WaitExit` keeps what they do to the tree, split
at every lock, and abstracts from who runs. `Resources` splits `do_fork` and `do_exit`
wherever they may sleep or fail, and keeps who runs, since that decides who borrows an
address space. `SchedSMP` keeps the locks of the runqueues and abstracts from priorities.
`WaitQueue` stands between: its `try_to_wake_up` is the step whose inside is in `Sched` and
`SchedSMP`. `PidAlloc` is the one call of `do_fork` the others leave out.

### Sched

A kernel state is a record `[task, rq, oops]`. Every C function is an operator from kernel
state to kernel state under its own name (`activate_task`, `schedule`, `setscheduler`,
...), so that an action composes them exactly as the code calls them. `oops` records that
the kernel followed a dead pointer, ran into `BUG()` or used the uninitialised variable
`queue` of `schedule()`; after that no action is enabled. The variable `pc` says where
each process is: in user mode, in a call, between the parts of a wait loop, of
`do_fork` or of `do_exit`.

| action | code |
|---|---|
| `Tick` | timer interrupt, `scheduler_tick` |
| `Wake` | an interrupt calls `__wake_up_common`, `try_to_wake_up` |
| `Reschedule` | return to user mode, or the idle loop, with `need_resched` set |
| `Enter`, `Return` | `system_call`, `ret_from_sys_call` |
| `PrepareToSleep`, `CancelSleep`, `Sleep` | the three exits of a wait loop: set the state; the condition holds; `schedule()` |
| `Yield`, `SetScheduler`, `Nice` | the calls, `schedule()` included where they make it |
| `ForkDup`, `ForkShare`, `ForkWake`, `ForkFail` | `do_fork`: copy; section with interrupts off; links, wake-up of the child and `need_resched`; failure |
| `ExitNotify`, `ExitSchedule` | `exit_notify` with reparenting and the parent's wake-up; the last `schedule()` |
| `Reap` | `wait4` finds a zombie and calls `release_task` |

Abstractions:

* `sleep_avg`, `jiffies` and `expired_timestamp` are not kept: the bonus is any element of
  `Bonuses`, `EXPIRED_STARVING` any Boolean.
* Permission checks that fail change no state and are left out, as are calls with a bad pid.
* Memory allocation in `do_fork` does not sleep in the model; it does in `Resources`.
* `do_notify_parent` (signal.c, not in the repository) either wakes a parent that sleeps
  interruptibly or does not. The wake-up of the reaper for zombies it inherits, and the
  signals to orphaned process groups, are among the behaviours of `Wake`.
* The state STOPPED, ptrace and thread groups are left out; vfork is in `Resources`.
* `schedule()` starts again when `need_resched` is set behind the switch; the model
  reschedules at the return to user mode.
* `#ifdef CONFIG_SMP` parts are in `SchedSMP`, and with them the locks, which are empty on
  one processor.
* `AnyTarget = FALSE` confines callers of `setscheduler` to runnable targets and not
  SHORT on SHORT. The passing runs are under that discipline because the code breaks
  without it: the run `Sched_wake_up_queues` shows how.

### SwitchInfo

`ring` holds `switch_info_arr`, `info_start`, `info_end` and `rec_switching_remaining`.
Each place that records a reason is an action; so is every way to `schedule()` that
records none (`Sleeps`, `OtherSliceOver`). Interrupts come at any time, also between the
record and the switch (`leaving`). `Schedule` may pick any live process, since the choice
is the business of `Sched`. `SwitchLog` is the abstract specification: a log of at most 149
records that grows for 29 switches after a creation or an end. The
refinement mapping reads the log out of the ring from `info_start` to `info_end`.

### WaitExit

`task` holds `p_pptr`, `p_opptr`, `p_cptr`, `p_ysptr`, `p_osptr` and the ring of threads just
as the code has them, so `SET_LINKS` and `REMOVE_LINKS` are the same stores in the same
order. `pc` says where a process is between two points where a lock is taken or
dropped, or where it may sleep. `tasklist_lock` has a set of readers and a writer. The
variable `build` does not change: it chooses among kernels (one or several processors) and
programs (traced, threaded, ...), so that one run covers them all.

| action | code |
|---|---|
| `Fork` | `do_fork`: parents, thread group, `SET_LINKS` (fork.c 771-795) |
| `PtraceAttach` | `ptrace_attach`, external: `kernel/ptrace.c` is not in the repository |
| `reparent_to_init` | exit.c 138 |
| `Wait4`, `Repeat` | entry of `sys_wait4`; `repeat:` sets `TASK_INTERRUPTIBLE` |
| `ScanFinds`, `ScanWaits`, `ScanReturns` | the scan under `read_lock`: zombie found; child but no zombie; `WNOHANG`, signal or no child |
| `Schedule`, `Resume` | `schedule()` and `goto repeat` |
| `CopyFails`, `CopyOut` | `getrusage`, `put_user` without the lock |
| `HandBack`, `release_task` | a tracer returns the zombie to its original parent; the zombie is freed |
| `DoExit` | `PF_EXITING` |
| `ChooseReaper`, `AssignReaper` | `forget_original_parent`, which holds the lock for reading only |
| `BecomeZombie`, `GiveAwayChild`, `Relock`, `NoChildLeft` | `exit_notify`: zombie and notice to the parent, the loop over the children with the lock dropped for another process group, its end |
| `Leave` | the last `schedule()` |
| `Signal` | a signal other than SIGCHLD |

On one processor (`~build.smp`) a process takes a step only when every other process is at
a place of `MayYield`, since the kernel is not preemptible. On several, all steps
interleave.

Abstractions:

* Stopped children (`WUNTRACED`), waiting for one pid or process group (`pid` is -1),
  `pdeath_signal`, `CLONE_PTRACE`, and signals to orphaned process groups are left out; of the latter the
  dropped lock remains. So are exec ids, with the reset of `exit_signal` in `exit_notify` that
  depends on them (exit.c:435). SIGCHLD wakes the parent's group in `wait4` and is not kept pending.
* Signals are `signal.c`'s, not in the repository: `do_notify_parent` and `Signal` are modelled
  from their use here. So are ptrace's attach; detach is left out.
* Init forks plain processes and waits for all its children, with valid pointers.
* SIGCHLD stands for one value of `exit_signal`, `CSIGNAL` for all others. Fork, which
  copies before it takes the lock, is a step of its own, and takes any free slot: slots
  are alike.

### Resources

`mm` has the two counters of each `mm_struct` and whether it is on `mmlist`, `count` those of
the other structures, and `task` what each process points to. A child has the state
`EMBRYO` from the copy of its parent's `task_struct` on, with the parent's pointers in
it, which is what makes a failure half-way interesting. `Switch` may happen wherever the code
may sleep and on the way to user mode.

| action | code |
|---|---|
| `Fork` | `do_fork` up to `copy_files`: the copy, `vfork_done`, `user->processes` |
| `CopyFiles`, `CopyFs`, `CopySighand`, `CopyMM` | share, make, or fail |
| `DupMmap`, `DupVmas` | `dup_mmap`: on `mmlist` first, then the copy of the pages, which may fail |
| `CopyThread` | `copy_thread`, external: succeeds or fails |
| `Link`, `WaitForVfork` | the child becomes visible and is woken; `wait_for_completion(&vfork)` |
| `BadForkMM` ... `BadFork` | the labels `bad_fork_cleanup_*`, one step each |
| `MMPut` | the end of `mmput`, after `exit_mmap`, which may sleep |
| `Exit`, `ExitFiles`, `ExitFs`, `ExitSighand`, `ExitNotify` | `do_exit`: `exit_mm`, ..., zombie |
| `Release` | `release_task` |
| `Daemonize`, `DaemonizeFs`, ... | `daemonize`: `exit_mm`, then the files and fs of `init_task` |
| `Exec` | `exec_mmap`, external (`fs/exec.c`) |
| `start_lazy_tlb`, `end_lazy_tlb` | exit.c 338-362 |
| `Switch` | `schedule()` with `context_switch` |

Abstractions:

* The contents of the structures (descriptors, mappings, pages) are left out, and so are
  namespaces, exec domains and modules, and the comparison of `nr_threads` with `max_threads`.
* `init_new_context` does not fail. `reparent_to_init`, which changes the user whose
  processes are counted, is left out: there is one user.
* Who wakes whom is left out: a process that is not at a wait may be switched to.
* Addresses are never so few that none is free where the code allocates; if they were, the step
  would not be taken. Failures of an allocation are those of `build.fails`.
* In `bad_fork_cleanup_mm` the code calls `exit_mm` on the child, which takes a reference in
  `mm_count` for lazy mode that nobody gives back. With `copy_thread` failing, `MMCounted`
  therefore allows the count to be too high.

### SchedSMP

`rq` has the lock of each runqueue, `nr_running`, `curr` and the queue of migration requests;
`task[t].array` is the processor in whose arrays a task is linked; `on` is the task whose
stack a processor uses, which differs from `curr` while it switches. What happens under one
lock is one step. Locks are in the state only where a processor keeps one beyond a step: it
spins on a second one, or switches with its own held. `build` chooses the calls.

| action | code |
|---|---|
| `Schedule`, `Pick`, `PickIdle`, `ContextSwitch` | `schedule()`: deactivate under the lock; choose; choose after balancing; the switch and the unlock on the other stack |
| `Tick`, `TickLock`, `Unlock` | `idle_tick`, `scheduler_tick`: the lock around balancing |
| `Balance` | `load_balance`: the busiest runqueue, without its lock |
| `double_lock_balance`, `SpinBusiest`, `Relock` | sched.c 635-657: try, wait, or drop the own lock and take both in order |
| `Pull` | the second look at the lengths, one migration, `resched_task` |
| `Preempt`, `GiveWay` | a task in user mode gives way, as it may or as it must; the idle task when `need_resched` is set |
| `Sleep`, `Exit`, `Release`, `wait_task_inactive` | a wait; `do_exit`; `release_task`, which waits until the stack is left |
| `Wake`, `try_to_wake_up` | `__wake_up`, also sync: one pass through `repeat_lock_task` per step |
| `Fork`, `wake_up_forked_process` | the copy; the child beside its parent |
| `setscheduler` | the lock of the target's runqueue; for SHORT, `schedule()` with it held |
| `Setaffinity`, `set_cpus_allowed` | pin, mask, and a request to the migration thread |
| `Down`, `DownCheck`, `Up` | the semaphore of the request, external |
| `migration_thread`, `ReadDest`, `ReadSrc`, `double_rq_lock`, `Migrate` | the loop of the migration thread, with its reads outside the locks |

Abstractions and assumptions:

* `schedule()` takes any queued task, a migration thread first, since it has the highest
  real-time priority. Which class goes first is in `Sched`.
* Averages of lengths and the cache-hot test are nondeterministic; one task is pulled at a
  time, as with fewer than five tasks on a queue.
* A process may give way at any time, as its slice may end; an idle task, which has none, gives
  way only if `need_resched` is set. So `need_resched` is kept for idle tasks. Where
  `build.overdue` is TRUE there are processes that need not give way ever: overdue ones, and
  FIFO ones of priority 0.
* The timer interrupt is taken in user mode only; the code takes it wherever interrupts are
  enabled.
* `do_fork` does not sleep between the copy of the parent and the wake-up of the child, and no
  other call finds the child before that.
* `tasklist_lock`, interrupts other than the timer's, and the start of the migration threads
  are left out. Affinity is changed by one caller per task at a time (`concurrent = FALSE`) and
  not together with fork, and no one turns SHORT (`short = FALSE`); see the violations below.

### PidAlloc

`tasklist` is the order of `for_each_task`, `task` has the four ids of each task. `get_pid`
is one step: `lastpid_lock` is held throughout and `tasklist_lock` during the scan. Its
`repeat` is a recursive function of `last_pid` and `next_safe`.

| action | code |
|---|---|
| `GetPid` | the copy of `current` and `get_pid` in `do_fork` |
| `Link`, `BadFork` | the child joins the list, or fails before |
| `release_task` | `unhash_process` |
| `sys_setsid`, `sys_setpgid` | external (`kernel/sys.c`) |
| `daemonize` | session and group 1 |

Assumptions:

* `NotOvertaken`: a fork is over before `last_pid` has wrapped around and `get_pid` finds a window
  of ids that spans the child's. Nothing in the code
  enforces it, since a fork under way is not on the list that is scanned; with 32 000 ids it is a
  matter of time only. The window matters, and makes this stricter than a full round: the fork may be linked by the time its id
  is handed out of the window once more. Three tasks are too few for that to happen; the
  attempt to prove `FreshPid` showed it, and with four tasks TLC shows it too.
* `CanScan`: with no id left and `last_pid` still below 300, the scan would not end, since
  its end is `last_pid` coming round to where it began, and the range wraps to 300.
* A parent does not call `setpgid` on a child that is itself forking. `CLONE_PID`, which is
  for the boot only, is left out.
* `FreshPid` is about the time before ids first run out, see below.

### WaitQueue

What is waited for is a number of `tokens`: a condition, or `done` of the completion. A waiter
in a loop sees that there is one; an exclusive waiter, and one for a completion, takes it.
`list` has the order of `add_wait_queue` and `add_wait_queue_exclusive`. Each test, store and
section under a lock is a step, of the waiter and of the wake-up, which walks the list
with the lock held and reads states without the runqueue's lock.

| action | code |
|---|---|
| `Wait`, `TestSucceeds`, `TestFails`, `GiveUp` | the test before the wait, in `wait_event` and in callers of `sleep_on` |
| `Add`, `set_current_state`, `Check`, `CheckSignal`, `SetRunning`, `Leave` | `__wait_event`, `__wait_event_interruptible`, an exclusive loop of the same form, `SLEEP_ON_*` |
| `Schedule`, `Resume` | `schedule()`, which keeps a waiter that was woken or has a signal |
| `wait_for_completion`, `Recheck` | sched.c 1288-1311 |
| `wake_up`, `Lock`, `ReadState`, `TryToWakeUp`, `EndOfList` | `__wake_up`, `__wake_up_common` |
| `complete` | sched.c 1278 |
| `Signal`, `Timeout` | external: `kernel/signal.c`, `kernel/timer.c` |

Abstractions and assumptions:

* The exclusive loop is the one drivers write with `add_wait_queue_exclusive`; no caller is in
  the repository.
* `sleep_on` is used on one processor, or, what comes to the same, by callers that all hold the
  kernel lock. On several it loses wake-ups, see below. And wake-ups of a queue are for the states
  its waiters sleep in: `wake_up_interruptible` of a queue with others on it passes them over.
  `UsageAssumption` says both.
* On one processor wake-ups come in where the current process is in user mode or asleep
  (`Turn`). For `sleep_on` that is an assumption, also part of `UsageAssumption`: that the waker
  is a process, or that the caller disables interrupts before its test. `sleep_on` itself does
  not see to it (sched.c:1352-1359), and a wake-up by an interrupt in between is lost.
* A completion on the waiter's stack (vfork) is safe because the waiter takes its lock
  once more before it returns, while `complete` holds it to its end.

## 3. Runs

The runs of `Sched` scale its constants down: 2 real-time and 2 to 4 user priorities, slices of one or
two ticks, two or three task slots. `HZ` is 500, so that a requested time of 2 is one tick,
4 two ticks, and 1 none. `UINT`, 2^32 in the code, is 16 or 32, larger than every
legal slice, so a wrap is visible. `CHECK_DEADLOCK FALSE`: after an oops the system stops,
and the ring's clock and countdown have bounds; in `WaitExit` a thread that waits counts
itself among the children of its group, so that a group may wait for itself for ever. The
runs of the other modules check for deadlock.

| run | states | shows |
|---|---|---|
| `Sched_all_calls` | 125 340 | two processes, every call, all classes: no oops; lists, counters, classes, sleepers consistent; overdue is final; every switch goes to the best class |
| `Sched_short_forks` | 897 428 | three processes, slices of two ticks: forks share slice and trials; a sleeper is woken at every point and none is lost |
| `Sched_liveness` | 229 144 | three processes, with fairness: SHORT becomes overdue or sleeps; once wake-ups cease, OTHER runs, unless an overdue process has the processor |
| `SwitchInfo_ring` | 325 443 | the ring implements the log; an exit is always recorded |
| `WaitExit_tree` | 1 036 812 | five builds: the tree is consistent, reparenting complete; a found zombie stays, no exit is missed; a task is freed after its last switch |
| `WaitExit_reaping` | 37 956 | the same builds, with fairness: orphans are released, exits complete |
| `Resources_forks` | 287 280 | three builds: forks that share, copy and fail, exec, daemonize, lazy mode; every structure is counted once per user, borrowed address spaces stay, vfork waits |
| `SchedSMP_two` | 264 955 | two processors, five builds: no task is lost, queued or run twice; affinity is kept; no deadlock of runqueue locks; idle processors are told; with fairness, migrations complete where processes give way |
| `PidAlloc_wrap` | 1 072 388 | `last_pid` goes round while ids come and go: no id in use is handed out |
| `WaitQueue_wakes` | 2 826 038 | four builds: no wake-up is lost |

Why the bounds are enough: two processes already give every pair of a current and a woken
or changed one, and three a child, a parent and a bystander in the same list. Two user
priorities and two trials reach every branch of `scheduler_tick`, `sys_sched_yield` and
`set_user_nice`. A ring of three slots wraps around within one burst of four.
`WaitExit_tree` has init and three more slots, which gives a parent, a tracer or a
second thread, and a child. Three forks fill them all, and slots are used again after a
release; builds with threads and with tracing on several processors are confined to two
forks. The builds of `MCWaitExit` are: `Traced`, `Clones` (with the flags
`CLONE_PARENT` and an `exit_signal` of their own), `Threads`, all on one processor with
several process groups; `Smp` and `SmpTraced` on several with one process group. Liveness
is checked with two processes besides init.

`Resources_forks` has the idle task, init and two processes, so that a child of a child exists
while its maker exits, and eight addresses, more than there are structures at a time.
The build `Spaces` has three forks, plain and vfork, with exec, daemonize and lazy mode;
`Failures` two forks, in which each of `copy_files` to `dup_mmap` may fail; `LateFailures` two
in which `copy_thread` may fail. A second fork by the child, or next to the first, is
what the counters depend on.

`SchedSMP_two` has two processors, which is what balancing, double locks and migration are
between, with their idle tasks and migration threads. `Wakers`: three processes, four
wake-ups and sleeps; `Forkers` and `Exits`: fork with wake-ups, or with exit and release;
`Movers`: three sleeps, wake-ups or changes of affinity, the number at which a sleeper whose
mask has changed is woken, and a migration meets a wake-up or another migration; `Setters`:
`setscheduler` on a task that sleeps. Ticks are unbounded.

`PidAlloc_wrap` has ids 1 to 5, of which 2 to 5 are handed out again, and three tasks with
four ids each, so that ids do run out, and windows of every length occur.

`WaitQueue_wakes` has two or three waiters and one or two wake-ups at a time, with at most
two tokens: an exclusive waiter between two others, and one whose token is taken. `Events` and
`Interruptible` are loops on several processors, `Completions` completions, `Sleeps` the four
`sleep_on` functions next to an exclusive loop on one processor, with timeouts and a signal.

The builds of `WaitExit` keep apart what the code does not support together:

* Tracing and clones with an `exit_signal` of their own: when the original parent of a traced
  zombie clone exits, `forget_original_parent` makes it a child its tracer waits
  for, and wakes nobody.
* Process groups and several processors: `exit_notify` leaves the next child with a stale
  `p_ysptr` while it drops the lock (exit.c 454-483). If that child is unlinked
  in this window (traced, or reparented to init), the list is corrupted.
* Threads and a `put_user` that sleeps: two threads may find the same zombie and both release it.
* Init without `__WALL` never waits for a clone with an `exit_signal` of its own made with
  `CLONE_PARENT` by a child of init. `OrphansReaped` is about the others, and with
  bounded forks: newer zombies are found first.

`SliceWithinTrial` is checked without `wait4`: `sched_exit` adds a child's slice to that of
a SHORT parent, or cuts it to `MAX_TIMESLICE`, without regard to the parent's trial.

The violation runs each show one place where the code does not do what a comment or a
test of the repository says:

| run | the code |
|---|---|
| `Sched_wake_up_queues` | making a sleeping OTHER process SHORT loses its wake-up: `p->array` is set although it is not queued (sched.c:1652, against 451) |
| `SwitchInfo_copied` | the count given to the user covers the scratch slot (sched.c:221, against sched_tester.c:116) |

More places where the code breaks a property can be seen by changing a constant of a run, or
without a condition of the property. The passing runs exclude them by what is named:

| change | violated | the code |
|---|---|---|
| `AnyTarget = TRUE` in `Sched_all_calls` | `RunnableIsQueued` | SHORT on SHORT leaves the caller on no queue (sched.c:1639) |
| `Requests <- Brief` in `Sched_all_calls` | `NoOops` | a requested time below one tick leads to `BUG()` in `do_fork` |
| `Builds <- ThreadsSmp` in `WaitExit_tree` | `ReparentingComplete` | on several processors children are given to a thread that has begun to exit, and keep a dead parent (exit.c:215) |
| `Builds <- VforkFails` in `Resources_forks` | `VforkWaits` | when the fork of a vfork child fails, `exit_mm` on *its* child calls `mm_release` for the current process, and so releases the vfork parent early (fork.c:826, exit.c:364) |
| `Builds <- ShortBuilds` in `SchedSMP_two` | `NoDeadlock` | `setscheduler` calls `schedule()` with the lock of a runqueue held, which that takes again (sched.c:1688) |
| without `~Overdue(...)` in `OtherRuns` | `OtherRuns` | an OTHER process that is woken while an overdue one computes waits for as long as that computes: the overdue process has the priority 0 and no slice (sched.c:493, 924, against code_test2.c:778) |
| `Builds <- OverdueBuilds` in `SchedSMP_two` | `MigrationCompletes` | nor does a woken migration thread, whose priority is 0 too, get the processor from it: it is not scheduled away, and the caller of `set_cpus_allowed` waits (sched.c:493, against 2224) |
| without `~exhausted` in `FreshPid` | `FreshPid` | when ids have run out, `next_safe` is that of a part of the list, and the next call trusts it (fork.c:124-139) |
| `smp = TRUE` in `Sleeps` | `NoLostWakeUp` | `sleep_on` sets the state after its caller has tested the condition (sched.c:1352) |

Three more concern processors and affinity. Two callers of `set_cpus_allowed` for one task at a
time (`concurrent = TRUE`), or a fork by a task while its migration is pending (`affinity` and
`fork` in one build), leave a task on a processor it is not allowed on, against
`AffinityKept`: the migration thread moves the task to what it read before the mask changed
(sched.c:2319), and the child is not the task the request names. The code has a third way to
the same end, which the model does not have: a mask changed on the child after `hash_pid`
(fork.c:793), while `wake_up_forked_process` puts it beside its parent whatever its mask
(sched.c:541). And `IdleIsTold` excludes
`affinity`, since the migration thread's `activate_task` is followed by no `resched_task`
(sched.c:2336): a task it brings to an idle processor waits for the next event there.

Other differences between comments and code were met while modelling. The model has the
behaviour of the code in each, and no run is devoted to them: a fork can leave a negative
number of trials (fork.c:742 against hw2_syscalls.c:46); `wait_for_completion` records `SR_SHORT_OVER` for a process
that merely waits (sched.c:1303 against hw2_syscalls.h:66); `sched_setparam` does not
test the bounds of the requested time (sched.c:1574); a tick during `do_fork` can leave an
overdue child with a priority other than 0 (fork.c:746); a yield changes the priority of
a SHORT process (sched.c:1898); a SHORT parent is queued ahead of its child
(sched.c:528); `set_user_nice` compares the new priority with itself (sched.c:1411); no
code passes `SR_PREV_TASK_WAIT`, and the reason of a switch can be overwritten before it
happens (sched.c:192); 29 switches are kept of a burst of 30 (sched.c:207);
`sched_setscheduler` for SHORT with bad parameters returns with `tasklist_lock` and
interrupts locked (sched.c:1579); the balancer looks at `active` and `expired` only, so that SHORT
and overdue processes stay where they were forked (sched.c:744).

### Fairness

`FairSpec` assumes weak fairness of `Tick` (the timer interrupt keeps coming), of
`Reschedule` (the entry code tests `need_resched` on every return to user mode, and the
timer forces such returns), and of the steps of a process in the kernel (kernel code is
not preempted and ends). `SchedProps` writes each of the three out, as "infinitely often it
cannot be taken, or infinitely often it is". Nothing is assumed of a process in user mode,
which may compute for ever, nor of wake-ups. `OtherRuns` is about behaviours in which wake-ups
cease: a woken process goes to `active` whatever it has used, and as long as `active` does not
run empty nobody in `expired` runs.

`FairSpec` of `WaitExit` assumes strong fairness of the kernel steps of each process: the
scheduler comes back to every runnable process, and a process that keeps getting the
chance to take `tasklist_lock`, or the processor, takes it in the end. It also assumes
that init keeps calling `wait4`, which is init's task. Nothing makes other processes exit
or wait.

`FairSpec` of `SchedSMP` assumes, for each processor, strong fairness of its kernel steps and
of `GiveWay`. A processor spins for a lock that is free again and again, because every section
ends and the timer, the only caller without end, comes once in a tick. A process in user
mode comes to the end of its slice, if it is OTHER, RR or SHORT, and a FIFO process of a lower
priority is preempted by a woken migration thread. Neither is so for an overdue process or a
FIFO one of priority 0: nothing is assumed of processes where `build.overdue` is TRUE, as in
`OverdueBuilds`. Strong fairness is needed because a lock is not free all
the time, and because a processor goes back and forth between kernel and user mode.

## 4. Proofs

All theorems hold for every value of the constants that the assumptions named in the
modules admit: any finite set of tasks, at least one real-time and two user priorities,
positive slices below `UINT`, well-typed arguments of calls, rings of at least two records, any
finite number of processors, each with an idle task and a migration thread of its own, any
finite number of processes that share structures, and of waiters and wake-ups. Where a
theorem needs more, its `ASSUME` says so, and the section on it says why.

### For every caller

* `TypeCorrect == Spec => []TypeOK`: for every number of tasks, all priorities and
  arguments, and every caller (`AnyTarget` too), the state stays well typed. `TypeOK` is inductive
  with one strengthening: the priority of a *process* lies in the range of the bitmap,
  although that of the idle task does not. The proof has a lemma for each operator (kernel
  states are mapped to kernel states), and one step per action. The part that needs
  arithmetic is that `effective_prio`, `TASK_TIMESLICE`, the clamped nice values, and the
  priority that `sys_sched_yield` finds in the bitmap, are in range.
* `OverdueForever == Spec => OverdueIsFinal`: no step takes a process out of being overdue
  before it is released. It rests on the frame lemmas `Evolves`: each
  operator leaves policy and `is_overdue` of every overdue task alone, which for
  `setscheduler` comes from its test at sched.c:1639 and for `do_fork` from its `else` at
  fork.c:745.

### For disciplined callers

`SchedSafety` proves, each as `ASSUME Disciplined PROVE Spec => []...`, the safety
properties the runs of `Sched` check: `NeverOops`, `ListsAlwaysConsistent`,
`CountsAlwaysConsistent`, `NoTaskLost`, `ClassesApart`, `SleepersAlwaysCounted`, and the
action property `DispatchesByClass`. `Disciplined` excludes what is known to break them,
and no more:

* `~AnyTarget`: `setscheduler` is called for runnable processes, and turns SHORT no process that
  is SHORT. The runs `Sched_all_calls` and `Sched_short_forks` make the same choice;
  section 3 says what happens otherwise, since the code does not test for it.
* A requested time is at least one tick. `sys_sched_setscheduler` admits 1 ms, which is no
  tick at `HZ` = 500, and then a fork finds a slice of zero to share (fork.c:727 has a `BUG`
  for what comes of it).
* `2 * MaxSlice < UINT`: the slices of two processes fit an unsigned int, which
  `sched_exit` needs when it adds that of a child to its parent's. The slices the code
  gives are at most 2500 ticks at that `HZ`, and `UINT` is 2^32.

None of the properties is inductive. The invariant (`IInv` in `SchedSafety`) says, of
the record `kern` of all a kernel function works on:

* `Sound`: each array `Holds` exactly the tasks that name it: a list per priority without
  repetition, its entries the members with that `prio`, its bit set when it is not empty,
  `nr_active` their number; each member `Fits` the class of its array; `nr_running` is the sum;
  `active` and `expired` are two arrays; `oops` is `"none"`.
* `Awake`: a process is queued iff it may run, but for current and the ones being created.
* `Counted`: `nr_uninterruptible` is the number of processes asleep in that state.
* `TaskOK`: of each process, what its policy says about slice, request and priority.
* `PlaceOK`: of each place a process may be at (`pc`), who is current, and what is known
  there that no other place knows, for instance that the child in the middle of
  `do_fork` is linked nowhere.

`Sound` has two parameters, the tasks that are out of their list for the moment and how
far `nr_running` is off: between `dequeue_task` and `enqueue_task` the runqueue is not sound, and
this says how. So each operator has a lemma that takes `Sound` to `Sound`, and compound
ones (`deactivate_task`, `setscheduler`, the turns of `scheduler_tick`, the sharing of slices in
`do_fork`) are chains of these. TLC checked the invariant on the bounds of `Sched_all_calls`
before it was proved. `DispatchesByClass` needs one fact more, of `schedule` alone: `Rank` orders
the tasks by class and priority, and the task its tests choose (sched.c:1107-1150) has the
least rank of all that are queued.

Two more theorems of `SchedSafety` are about the processor time a SHORT process has:

* `SliceAlwaysWithinTrial == ASSUME Disciplined, "wait" \notin Calls PROVE Spec =>
  []SliceWithinTrial`. Nobody reaps, for the reason section 3 gives.
* `ForksShareBudget == ASSUME Disciplined PROVE Spec => ForkSharesBudget`, with `wait4`.

They rest on `IInv` and on frame lemmas, one for each operator: most leave what a process has left
alone (`SameBudgets`); a tick may refill or take from current only, and counts trials upwards
(`Ticked`); `setscheduler` gives the first trial of the request; the section of `do_fork` with
interrupts disabled halves what there is (`Shares`), with a tick for a parent that is left without
a slice. The invariant on top of `IInv`, `BudgetInv`, says that there is one embryo at most, and
only while current forks (`OneEmbryo`); that until the split it has asked for what its parent has
(`Copied`), so that half the parent's slice is no more than the first trial of the child; and that
every process, zombies and embryos too, is `Within` its trial. TLC checked it on the bounds
of `Sched_short_forks` before it was proved. The arithmetic is `HalvesOfTrials`: the child's half is
of the trials that are left and the parent's of all it was given, and together they are no
more than what was left.

### The ring of switch records

* `RingImplementsLog == Spec => ImplementsLog`, the refinement of `SwitchLog`: every step of the
  ring is a step of the log, or a stutter, under the mapping that reads the records from
  `start` up to, and without, `end`. The write of the next record's blank half always goes to the slot
  `end`, which is kept by no record; that is the whole argument, and modular arithmetic the
  whole difficulty (`WrapMod`, `Slots`).
* `ExitsAreRecorded == ASSUME BURST > 1 PROVE Spec => ExitIsRecorded`. A burst keeps one record less than
  its length, so with a burst of one, the switch away from the process would not be in the log;
  in the code the ring has 150 records and `BURST` is 30. The invariant besides the type is `Ending`, that the burst `do_exit`
  starts is still running when `schedule` is called.
* `RingTypeCorrect == Spec => []TypeOK`.

### Several processors

`SchedSMPProofs` proves, each as `ASSUME LocksFree PROVE Spec => []...`, four invariants of
`SchedSMP`: `SMPTypeCorrect`, `QueuesAlwaysConsistent`, `TasksRunOnce` and `NeverDeadlocked`.
`LocksFree` says that no build has `setscheduler` make a process SHORT: that call reaches
`schedule()` with the lock of a runqueue held (sched.c:1688), which is the deadlock section 3
shows, and with it the processor would spin for ever. All other calls are in, also two that change
the affinity of one task at once.

None of the four is inductive. The invariant (`IInv`) has, for each task and each
processor:

* `LocksOf`: the locks a processor holds are those of the place its task is at (`Held`); at
  `balance_relock`, between the two locks it takes in order, which one depends on the
  lock itself. `BusiestOK`: a lock it waits for with its own in hand comes after its own.
* `StackOK`: what a processor runs is on its own runqueue, and current there, but between
  the choice of the next task and the change of stacks.
* `TaskInv`: a task is queued where its `cpu` says, if at all; a dead one nowhere, but on its way
  into `schedule()`; one that runs nowhere is at a place where tasks give way.
* `KindOK` and `ArgsOK`: which places processes, idle tasks and migration threads come to, and
  that the tasks in their local variables, read before a lock was taken, are still fit when
  they are used. `Apart`: no two create or release the same task.
* `RequestsWait` and `RequestsOnce`: each request for a migration is in one queue, or in the hands
  of one migration thread, and its maker waits for it, so that the request, which is on
  the stack of its maker, is there when the thread reads it.

A step changes one task besides the one that makes it, at most, so the proof has two
frame lemmas (`OwnStep`, `SubjectStep`) that reduce the whole invariant to these two, and then
one lemma per action. What makes `TasksRunOnce` hold is `OffStack`: under the lock of a runqueue nobody
is between the choice and the change of stacks, so a task that is not current there is on
no stack. For `NeverDeadlocked`, `WantsLarger`: a processor that waits with locks in hand waits
for a later one. Of all locks held in a set of processors take the last; its holder waits
for none held in the set. TLC checked `IInv` on the bounds of `SchedSMP_two` before it was proved.

The second part of the module adds who runs where. `OrderlyAffinityKept` is `ASSUME LocksFree PROVE Spec =>
[](Orderly(build) => AffinityKept)`, and `AffinityAlwaysKept` says `[]AffinityKept` when all builds
are `Orderly`: no two calls change the mask of a task at once, and with affinity calls there is no
fork. Of the model these are the only two ways out; section 3 names them, and a third one that is
in the code alone. Every build of `SchedSMP_two` is orderly. What is inductive beside `IInv` is `AInv`:

* `Affecting` and `OneAtATime`: `Affects(u)` says that `u` is in `set_cpus_allowed`, which shows
  in its place and in the place a wake-up returns to; only there it has a mask and a
  request, and no two have the same subject.
* `Settled`: the subject of a request is `Placed`, that is where its mask allows, or the request is
  `Pending` with the processor the subject is on. A pull that moves the subject away from there takes it to
  a processor that is allowed (sched.c:793), so either way it remains so.
* `DestOK`: the destination, which the migration thread reads without a lock (sched.c:2319), is
  still allowed when both locks are held. This is where two masks in a row, or a copied one, would break it.
* `Kept`: a task that is not placed is the subject of somebody. `AllAllowed`: without affinity
  calls all processors are allowed, which covers a child that copies its parent's mask.

Every action is shown to be one of a few kinds: nobody's part in `set_cpus_allowed` changes
(`SameRole`), a task is only put where it is allowed (`Placing`), or it is one of the steps
of `set_cpus_allowed` and of the migration thread, which have a lemma each. TLC checked `AInv` and
`Aware` on the bounds of `SchedSMP_two` first.

`IdleAlwaysTold == ASSUME LocksFree PROVE Spec => []IdleIsTold` needs two facts more in the builds
without affinity calls, `Aware`: all migration threads sleep (`Asleep`), so no task is queued where
nobody is told; and `Told`: an idle task in user mode or in the timer interrupt has
`need_resched` set when its queue is not empty, and a processor is on its way to its idle
task only while its queue is empty. The latter holds because the choice is made, and a
task queued, under the lock of the runqueue, which is not released before the change
of stacks. The test of priorities a wake-up makes before it tells anyone (sched.c:493) always
succeeds against an idle task, whose priority is the worst, and the model has it so.

### What processes share

`ResourcesProofs` proves the four invariants of `Resources` without any assumption beyond the
module's own (finitely many tasks; the idle task is not init; more than one address):
`ActiveAlwaysOwned`, `RefsAlwaysCounted`, `MMAlwaysCounted` and `TypeCorrect`. They hold for every
build, so for any number of forks, any flags, and failures anywhere. None is inductive, and they
build on each other:

* `Struct` comes first and has no counts in it: what a process has given up by where it is
  (`StateOK`), which of its locals are set (`LocalOK`), what a child has of its parent at each
  point of `do_fork` and of its failures (`ChildOK`), that a child has one maker and a maker one
  child (`Unshared`, `Made`), and the active address space (`ActiveOK`). A step changes the
  task it is of and that task's child, at most; `OwnStep` and `ChildStep` reduce the whole to
  these two, and there is one lemma per action. `ActiveMM` is part of it.
* `RefsOK`: every count is the number of holders. `HoldersMove` says that a step changes only
  the membership of the child or of the process itself, so that each action comes down to one task
  that becomes a holder, or ceases to be one. What makes it work at `bad_fork` is `Uncounted`:
  what a child was copied with and what is counted for it differ, and where is known from its
  maker's place.
* `MMOK` is `MMCounted` and three facts it needs: while an address space is being put by its last
  user it has no users, no two processes put the same one, and a new one has one user, which
  is its maker. The actions are `Trades`: thirteen ways in which what the process and its child use,
  hold, borrow, put or make changes together with `mm_users` and `mm_count` (`Shares`, `Exits`,
  `Settles`, ...). Each is `Lawful`, that is, the differences agree, and `Tally` adds what the other
  processes have, which does not change. `context_switch`, which changes what two processes
  borrow, has lemmas of its own. `Undoes`, the failed `copy_thread`, is the one where
  `mm_count` ends too high.
* `TypeCorrect` is last, since that no counter goes below zero follows from what it counts.

TLC checked the parts of `Struct` and `MMOK` on the bounds of `Resources_forks` before they were
proved. `VforkWaits` stays with TLC: it does not hold for all builds, as section 3 shows.

### Wait queues

`WaitQueueProofs` proves `NoWakeUpLost` and `TypesHold` from the assumptions of `WaitQueue` alone,
for every build: on one processor and several, all eight ways to wait, and every `nr_exclusive`.
Neither is inductive. `Struct` has no counts: which waiters are on which list
(`OnQueue`), in what order (`Ordered`: exclusive ones last), that the state and `array` of a waiter
fit where it is (`StateOK`), and who holds which lock (`WakerOK`). The counts are three
conditions on each queue:

* `SharedAwake`: a waiter that is not exclusive and may sleep although there is a token has a
  wake-up ahead of it, which has not begun or has not come to its place in the list.
* `Enough`: if an exclusive waiter may sleep, and no wake-up of all is under way, there are no more
  tokens than exclusive waiters that will look again (`Sure`) and wake-ups still owed
  (`Owed`, a set with one element for each exclusive waiter that a wake-up under way has yet to wake).
* `Passed`: if an exclusive waiter may sleep that the wake-up under way has already passed, the
  same without what that wake-up owes, since it does not come back.

A waiter that takes a token, or goes to sleep having found none, changes both sides alike or
has just seen that there are none (`CountOfWaiter`). A wake-up that wakes a sleeping exclusive waiter
moves one from `Owed` to `Sure`; one that finds it still on the runqueue, and so does not
count it (sched.c:1238), owes as many as before and has made it look again if it was going to
sleep. At the end of the list all on it have been passed, so `Passed` says then what `Enough`
has to say afterwards. So the test of `try_to_wake_up`'s result in `__wake_up_common` is what the proof turns on, and the mutant
that drops it is the one TLC refutes. TLC checked `IInv` on the bounds of `WaitQueue_wakes` before
it was proved.

### Process ids

`PidAllocProofs` proves `IdsAreFresh == Spec => FreshPid` and `PidTypesHold == Spec => []TypeOK`, for
every range of ids and any finite number of tasks. The invariant is `TypeOK` with

* `ListOK`: the list has each live task once, and no other.
* `EmbryoOK`: a fork's session, groups and maker are those of a live task, so that of all its ids
  only the new one is not on the list.
* `Window`: before ids run out, no task uses an id above `last_pid` and below `next_safe`. A
  fork adds the id it took, which the window has left behind, and the other calls only
  spread ids that are in use already.

`Window` has to hold again after a scan, and what the scan returns is the value of a recursive
function that goes up through the ids and wraps around. That `Repeat` satisfies its own equation is
not for free, because its domain has no order that its calls descend in: from some arguments,
which no call of `get_pid` has, it would not end. `TailRecursion` builds a function that satisfies it by
following the calls to where they end, if they do. `ScanEnds` then shows by a measure, how far
`last_pid` is from where the search ends, that for the arguments of `get_pid` they do; the search ends at the old `last_pid`
or at an id that is left (`CanScan`), whichever the wrapped search meets first. These are inductions
over the natural numbers, done here with a least counterexample (`LeastNat`, from the library's
theorem on well-founded sets), because the library's induction theorems are out of reach of the
backends.

### The process tree

`WaitExitProofs` proves the six safety properties of `WaitExit`, for any number of tasks, forks,
threads and signals. They hold for all `Builds` under one condition, `Apart`, which is written
as the hypothesis of each theorem: a build with several processors has neither process groups nor
threads, and one with threads has no faults in `wait4`. Each of the three combinations
is one in which the code goes wrong; section 3 says how. `NoExitMissed` has a second one, `Clear`:
clones with an `exit_signal` of their own are combined neither with tracing, where a wake-up is
missing for good (section 3), nor with threads, where it comes late:
`forget_original_parent` of one thread makes a zombie clone eligible for another, which sleeps
until the loop of `exit_notify` gives it the child. All builds that the runs check satisfy both
conditions. For each combination they exclude TLC finds a counterexample: to `LinksConsistent`, `ReparentingComplete`
and `FoundStaysZombie` for `Apart`, to `NoMissedExit` for `Clear`.

| theorem | property |
|---|---|
| `TreeTypesHold` | `TypeOK` |
| `LinksAlwaysConsistent` | `LinksConsistent` |
| `ReparentingAlwaysComplete` | `ReparentingComplete` |
| `FoundAlwaysZombie` | `FoundStaysZombie` |
| `NoExitMissed` | `NoMissedExit` |
| `FreedOnlyAfterLastSwitch` | `FreedAfterLastSwitch` |

None is inductive, and they need each other; `IInv` joins what they need:

* `StateOK`, `LockOK`, `Alone`: the state fits the place, `tasklist_lock` is held where the code holds
  it, and on one processor at most one process is where it does not yield.
* `GroupsOK`: `next_thread` is a permutation, so that each thread reaches all of its group
  (`GroupIsSymmetric`) and a thread that leaves does not cut the ring.
* `Kin`: parents have not left `exit_notify`, and original parents have not come to it. The second is
  stronger than `ReparentingComplete`: a task that is its children's original parent
  nowhere in `exit_notify` is why the loop over its children empties the list.
* `TreeOK`, that is `Lists`: the four pointers agree, except for the `p_ysptr` of the child that an
  `exit_notify` under way comes to next (`Stale`), and *siblings have ages*, natural numbers that grow along
  `p_osptr`. Without the ages the pointers could agree on a circle that no `p_cptr` leads to.
  `LinkKeepsLists`, `UnlinkKeepsLists` and `DropKeepsLists` say what `SET_LINKS`, `REMOVE_LINKS` and the loop of
  `exit_notify` do to it; a new task is younger than all.
* `LocalOK`: what `wait4` has found, and the reaper that `forget_original_parent` has chosen, which
  without threads is init, and on one processor cannot begin to exit before it is assigned.
* `SignalsOK` and `RestOK`: which zombies a process that goes to sleep waits for, namely none.

`Child` and `Thread` are recursive functions over as many steps as there are tasks. `WalkCovers`
shows that this is enough: a walk that meets as many tasks as there are has met all, and one that meets a task
twice is in a circle it does not leave. So `Group` is the least set closed under `next_thread`
(`GroupIsLeast`), the children on the way are all that have the parent (`ChildrenAreFound`,
by the ages), and the scan of `wait4` sees each zombie it should (`ZombiesAre`) and
returns one (`FirstZombieIs`). Steps that change no link are reduced to their own process by `StillKeeps`, those
that relink by `ShiftKeeps` and `MovesKeeps`; `Fork` and `release_task`, which make and free a task, are
proved on their own. TLC checked every part of `IInv` on the bounds of `WaitExit_tree`, and with more
options, tracing and flags at a time, before it was proved.

### Only model-checked

`VforkWaits` of `Resources`; and liveness, which is out of the prover's reach:
`OrphansReaped` and `ExitCompletes` of `WaitExit`, and those of `Sched` and `SchedSMP`.

## 5. Plan

1. Done: `PrioArray`, `Sched`, its properties and its theorems; `SwitchInfo` and its
   refinement; `SchedSMP`, `Resources`, `WaitQueue`, `PidAlloc` and `WaitExit`, each with its theorems.
2. `AbsSched`: a scheduler of four classes without arrays and bitmaps, refined by `Sched`.
3. The query calls over `Sched`.

## 6. Not modelled

* The contents of memory maps, files, signals and namespaces: they have no bearing on
  scheduling, and most of their code is not in the repository. What is shared and counted
  of them is in `Resources`.
* System call tracing, signal delivery and traps in `entry.S`.
* Boot: starting the migration threads, `sched_init`, `fork_init`.
* Locks other than those named above, and the lock leak of `setscheduler`, which shows by
  reading.
* `is_SHORT` and `remaining_time`, which only read fields.
* The user-space wrappers and tests, which serve as documentation of what is expected.
