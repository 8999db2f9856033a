------------------------------ MODULE SchedProps ------------------------------
(***************************************************************************)
(* The properties of Sched, and the specification with fairness.           *)
(***************************************************************************)
EXTENDS Sched

-----------------------------------------------------------------------------
(* Vocabulary *)

Alive == oops = "none"
Overdue(t) == t.policy = "SHORT" /\ t.is_overdue
ShortNow(t) == t.policy = "SHORT" /\ ~t.is_overdue

\* The class of a process; a lower rank is to run first.
Rank(t) == CASE t.policy \in {"FIFO", "RR"} -> 1
             [] ShortNow(t)                 -> 2
             [] t.policy = "OTHER"          -> 3
             [] Overdue(t)                  -> 4

Queued(t) == t.array # "NULL"
queue(a, i) == rq.arrays[a].queue[i]
remaining_trials(t) == t.number_of_trials - t.current_trial

-----------------------------------------------------------------------------
(* Invariants *)

(* No sequence of system calls, ticks and wake-ups makes the kernel follow a *)
(* dead run_list pointer, find no list to take the next task from, or hit    *)
(* do_fork's BUG().  The task lists are manipulated in nine functions, each  *)
(* of which relies on what the others left behind.  That is so while         *)
(* setscheduler is not called for a sleeper, nor as SHORT for a process that *)
(* is SHORT (AnyTarget), and asks for at least a tick (Requests).            *)
NoOops == oops = "none"

(* The four priority arrays agree with the tasks: a bit is set exactly for a *)
(* non-empty list, every entry of a list names the array and the priority    *)
(* it is linked under, and no task is linked twice.  scheduler_tick,         *)
(* set_user_nice and setscheduler change prio and array of a linked task and *)
(* have to unlink it first, under the old priority.                          *)
ListsConsistent == Alive =>
  \A a \in ArrayId :
    /\ rq.arrays[a].bitmap = {i \in Prio : queue(a, i) # << >>}
    /\ \A i \in Prio : \A m \in DOMAIN queue(a, i) :
         LET t == task[queue(a, i)[m]]
         IN  /\ t.array = a /\ t.prio = i
             /\ \A n \in DOMAIN queue(a, i) : queue(a, i)[m] = queue(a, i)[n] => m = n

(* nr_running, by which schedule decides to idle, and the nr_active of the   *)
(* arrays, by which it swaps active and expired, count the queued tasks.     *)
QueuedIn(a) == {p \in Task : task[p].array = a}
CountsConsistent == Alive =>
  /\ rq.nr_running = Cardinality({p \in Task : Queued(task[p])})
  /\ \A a \in ArrayId : rq.arrays[a].nr_active = Cardinality(QueuedIn(a))

(* A process that may run is linked in the array it names, so it cannot be   *)
(* lost; one that is not running is linked only while it is going to sleep   *)
(* or to exit.                                                               *)
RunnableIsQueued == Alive =>
  \A p \in Task : LET t == task[p] IN
    /\ Queued(t) => Linked(rq.arrays[t.array], p, t.prio)
    /\ t.state = "RUNNING" => Queued(t)
    /\ Queued(t) /\ t.state # "RUNNING" => p = rq.curr /\ pc[p] \in {"sleep", "exiting"}

(* Each array holds its own class of processes: short_q the SHORT ones with  *)
(* trials left, overdue the overdue ones, active and expired all others; and *)
(* a real-time process is never in expired (sched.c:1124), where schedule    *)
(* would not look for it.                                                    *)
ClassPlacement == Alive =>
  \A p \in Task : LET t == task[p] IN Queued(t) =>
    /\ t.array = "short_q" <=> ShortNow(t)
    /\ t.array = "overdue" <=> Overdue(t)
    /\ t.array = rq.expired => t.policy = "OTHER" /\ ~rt_task(t)

(* nr_uninterruptible, part of the load average, is the number of processes  *)
(* asleep uninterruptibly, although a process in the middle of do_fork has   *)
(* that state too and a sleeper may be woken before it is off the queue.     *)
SleepersCounted == Alive =>
  rq.nr_uninterruptible =
    Cardinality({p \in Task : /\ task[p].state = "UNINTERRUPTIBLE"
                              /\ ~Queued(task[p]) /\ pc[p] # "embryo"})

(* A SHORT process never holds more ticks than the slice of its trial,       *)
(* however forks split and ticks refill it (SHORT_TIMESLICE, sched.c:118).   *)
(* That is so while nobody reaps a child: sched_exit adds the child's slice  *)
(* without regard to the trial, so the runs of this invariant have no wait4. *)
SliceWithinTrial == Alive =>
  \A p \in Task : ShortNow(task[p]) /\ task[p].state # "ZOMBIE" /\ pc[p] # "embryo"
                    => task[p].time_slice <= SHORT_TIMESLICE(task[p])

-----------------------------------------------------------------------------
(* Action properties *)

(* Whenever schedule switches, nothing queued has a better class than the    *)
(* process it picks - real-time, SHORT, OTHER, overdue - and in the first two *)
(* classes nothing of that class has a better priority.  It picks the idle   *)
(* task only when nothing is queued.                                         *)
SwitchesToBest ==
  /\ Alive /\ oops' = "none" /\ rq'.curr # rq.curr
  => \A p \in Task : Queued(task'[p]) =>
       /\ rq'.curr # Idle
       /\ LET t == task'[rq'.curr] IN
            /\ Rank(t) <= Rank(task'[p])
            /\ Rank(t) \in {1, 2} /\ Rank(t) = Rank(task'[p]) => t.prio <= task'[p].prio
DispatchByClass == [][SwitchesToBest]_vars

(* A process that has become overdue stays overdue until it is released:     *)
(* neither setscheduler, nor fork, nor a tick gives it trials again.         *)
StaysOverdue(p) ==
  Overdue(task[p]) /\ Hashed(p) => Overdue(task'[p]) \/ task'[p].state = "FREE"
OverdueIsFinal == [][Alive => \A p \in Task : StaysOverdue(p)]_vars

(* Forking shares and does not create processor time: parent and child       *)
(* together hold the ticks the parent held, unless its slice has ended with  *)
(* the fork, and together no more trials than it had (fork.c:720).           *)
SharesBudget(p, c) ==
  /\ pc[p] = "forking" /\ pc'[p] = "forked" /\ pc[c] = "embryo" /\ oops' = "none"
  => /\ task[p].time_slice # 1 =>
          task'[c].time_slice + task'[p].time_slice = task[p].time_slice
     /\ task'[c].time_slice <= task[p].time_slice
     /\ ShortNow(task[p]) /\ ShortNow(task'[p]) =>
          remaining_trials(task'[c]) + remaining_trials(task'[p])
            <= remaining_trials(task[p])
ForkSharesBudget == [][\A p, c \in Task : SharesBudget(p, c)]_vars

-----------------------------------------------------------------------------
(* Liveness *)

(* The timer keeps ticking, a process in the kernel gets on until it leaves  *)
(* it or sleeps, and a set need_resched flag is acted on.  A process in user *)
(* mode may stay there, and nothing makes a sleeper wake up.  The three are  *)
(* weak fairness in words that spare TLC the ENABLED: infinitely often the   *)
(* action cannot be taken, or infinitely often it is.  TickCounts, Due and   *)
(* InKernel are the states in which a tick changes something, a set flag is  *)
(* acted on and a process in the kernel has a step.                          *)
KernelStep(p) == pc[p] # "user" /\ Step(p)
InKernel == Alive /\ rq.curr # Idle /\ pc[rq.curr] # "user"
Due == Alive /\ task[rq.curr].need_resched /\ (rq.curr = Idle \/ pc[rq.curr] = "user")
TickCounts == /\ Alive /\ rq.curr # Idle /\ ~task[rq.curr].need_resched
              /\ ~Overdue(task[rq.curr]) /\ task[rq.curr].policy # "FIFO"
Fairness == /\ []<>~TickCounts \/ []<><<Tick>>_vars
            /\ []<>~Due \/ []<><<Reschedule>>_vars
            /\ []<>~InKernel \/ []<><<\E p \in Task : KernelStep(p)>>_vars
FairSpec == Spec /\ Fairness

(* No SHORT process keeps trials and waits or runs for ever: it uses them up *)
(* and becomes overdue, or goes to sleep, although yields, forks and         *)
(* wake-ups of others keep reordering short_q before it; unless an overdue   *)
(* process has the processor already (sched.c:493, 924), see OtherRuns.      *)
ShortBecomesOverdue == \A p \in Task :
  []<>~(Alive /\ Hashed(p) /\ Queued(task[p]) /\ ShortNow(task[p]) /\ ~Overdue(task[rq.curr]))

(* Process p, asleep before, is queued by a wake-up.                         *)
WokenUp(p) == ~Queued(task[p]) /\ Queued(task'[p]) /\ task[p].state # "FREE"

(* An OTHER process is queued and does not have the processor.               *)
OtherWaits(p) == task[p].policy = "OTHER" /\ Queued(task[p]) /\ rq.curr # p

(* Without real-time processes, and once wake-ups cease, no OTHER process    *)
(* waits for ever, although SHORT processes go before it and although it may *)
(* be in expired.  Wake-ups must cease: a woken process goes to active       *)
(* whatever it has used, so that a stream of wake-ups can keep active        *)
(* filled, and those in expired waiting, for ever.  And no overdue process   *)
(* must have the processor already: with priority 0 and no slice it keeps it *)
(* as long as it computes, against code_test2.c:778, "OTHER is supposed to   *)
(* win".  That it is not given the processor before is DispatchByClass.      *)
OtherRuns ==
  <>[][\A p \in Task : ~WokenUp(p)]_vars =>
    \A p \in Task : []<>~(OtherWaits(p) /\ ~Overdue(task[rq.curr]))

-----------------------------------------------------------------------------
(* What a comment says and the code does not do.                            *)

(* sched.c:451: waking a process puts it on the run-queue if it is not there *)
(* already.                                                                  *)
WakeUpQueues == [][\A p \in Task :
  /\ task[p].state \in {"INTERRUPTIBLE", "UNINTERRUPTIBLE"} /\ p # rq.curr
  /\ task'[p].state = "RUNNING" /\ Queued(task'[p])
  => Linked(rq'.arrays[task'[p].array], p, task'[p].prio)]_vars

=============================================================================
