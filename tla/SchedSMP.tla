------------------------------- MODULE SchedSMP -------------------------------
(***************************************************************************)
(* The scheduler on several processors: wake-ups and context switches      *)
(* under the runqueues' locks, the load balancer, which takes two of them, *)
(* and the migration threads behind set_cpus_allowed.                      *)
(*                                                                         *)
(* Priorities and classes are Sched's business: here schedule() may choose *)
(* any queued process, a migration thread before others.  What happens     *)
(* under one lock is a step; locks are kept in the state where a processor *)
(* holds one and spins on another, or switches with it held.               *)
(***************************************************************************)
EXTENDS Naturals, Sequences, FiniteSets

CONSTANTS
  CPU,        \* the processors, in the order of their runqueues' addresses
  Task,       \* slots of task_structs of processes
  idle,       \* the idle task of each processor
  migration,  \* the migration thread of each processor
  NULL,       \* no processor, no task
  Builds      \* the programs considered, see BuildAssumption

Thread == Task \cup {idle[c] : c \in CPU} \cup {migration[c] : c \in CPU}

\* procs: how many processes there are at first.  calls: what processes do.  ops: a
\* bound on how often.  concurrent: two processes may change the affinity of one task
\* at a time.  short: setscheduler makes processes SHORT.  overdue: processes may have no
\* time slice and the priority of a migration thread.
Calls == {"sleep", "wake", "affinity", "fork", "exit", "setscheduler"}
ASSUME BuildAssumption ==
  Builds \subseteq [procs : 1 .. Cardinality(Task), calls : SUBSET Calls, ops : Nat,
                    concurrent : BOOLEAN, short : BOOLEAN, overdue : BOOLEAN]
ASSUME CPUAssumption ==
  IsFiniteSet(CPU) /\ CPU # {} /\ CPU \subseteq Nat /\ NULL \notin CPU \cup Thread
ASSUME ThreadAssumption ==
  /\ IsFiniteSet(Task)
  /\ idle \in [CPU -> Thread \ Task] /\ migration \in [CPU -> Thread \ Task]
  /\ \A c, d \in CPU : /\ idle[c] # migration[d]
                       /\ c # d => idle[c] # idle[d] /\ migration[c] # migration[d]

VARIABLES
  rq,     \* the runqueues
  task,   \* the task_structs
  on,     \* the task on whose stack each processor runs
  pc,     \* where each task is in the kernel
  local,  \* its local variables
  ops,    \* number of calls so far
  build   \* the element of Builds the behaviour is about

vars == << rq, task, on, pc, local, ops, build >>

PCs == {"none", "user", "schedule", "pick", "balanced", "switch", "balance",
        "balance_lock", "balance_spin", "balance_relock", "pull", "tick", "unlock", "wake", "fork",
        "setscheduler", "inactive", "inactive_lock", "affinity", "down", "down_check",
        "migrate", "migrate_dest", "migrate_src", "migrate_lock1", "migrate_lock2",
        "migrate_move", "migrate_up"}

\* array stands for the runqueue whose arrays a task is in.  In local: q is the task
\* of a call, or the request of a migration thread; w is woken; then, where a wake-up or a
\* schedule() returns to; done, the semaphore of a migration request.
TypeOK ==
  /\ rq \in [CPU -> [lock : CPU \cup {NULL}, nr_running : Nat, curr : Thread,
                     migration_queue : Seq(Task)]]
  /\ task \in [Thread -> [cpu : CPU, cpus_allowed : SUBSET CPU, array : CPU \cup {NULL},
                          state : {"FREE", "RUNNING", "SLEEPING", "ZOMBIE"},
                          need_resched : BOOLEAN]]
  /\ on \in [CPU -> Thread]
  /\ pc \in [Thread -> PCs]
  /\ local \in [Thread -> [q : Task \cup {NULL}, w : Thread \cup {NULL}, mask : SUBSET CPU,
                           sync : BOOLEAN, tick : BOOLEAN, busiest : CPU \cup {NULL}, src : CPU \cup {NULL},
                           dest : CPU \cup {NULL}, then : PCs, done : BOOLEAN]]
  /\ build \in Builds /\ ops \in 0 .. build.ops

NoLocal == [q |-> NULL, w |-> NULL, mask |-> {}, sync |-> FALSE, tick |-> FALSE,
            busiest |-> NULL, src |-> NULL, dest |-> NULL, then |-> "none", done |-> FALSE]

New(c, allowed, state, array) ==
  [cpu |-> c, cpus_allowed |-> allowed, array |-> array, state |-> state,
   need_resched |-> FALSE]

First(S) == CHOOSE c \in S : \A d \in S : c <= d

\* The processes are all on the first processor; the migration threads wait.
Init ==
  LET c0 == First(CPU)
  IN  /\ build \in Builds
      /\ LET procs == CHOOSE P \in SUBSET Task : Cardinality(P) = build.procs
             a == CHOOSE t \in procs : TRUE
         IN  /\ rq = [c \in CPU |->
                   [lock |-> NULL, nr_running |-> IF c = c0 THEN build.procs ELSE 0,
                    curr |-> IF c = c0 THEN a ELSE idle[c], migration_queue |-> << >>]]
             /\ task = [t \in Thread |->
                  IF t \in procs THEN New(c0, CPU, "RUNNING", c0)
                  ELSE IF t \in Task THEN New(c0, CPU, "FREE", NULL)
                  ELSE IF \E c \in CPU : t = idle[c]
                  THEN New(CHOOSE c \in CPU : t = idle[c], CPU, "RUNNING", NULL)
                  ELSE LET c == CHOOSE d \in CPU : t = migration[d]
                       IN  New(c, {c}, "SLEEPING", NULL)]
             /\ on = [c \in CPU |-> IF c = c0 THEN a ELSE idle[c]]
             /\ pc = [t \in Thread |-> IF t \in procs \/ \E c \in CPU : t = idle[c] THEN "user"
                                       ELSE IF t \in Task THEN "none" ELSE "migrate"]
      /\ local = [t \in Thread |-> NoLocal]
      /\ ops = 0

-----------------------------------------------------------------------------
(* Operators *)

At(c, t, place) == on[c] = t /\ pc[t] = place
Goto(t, place)  == pc' = [pc EXCEPT ![t] = place]

Unlocked(c) == rq[c].lock = NULL
Lock(c, d)  == rq' = [rq EXCEPT ![d].lock = c]

Queued(c) == {t \in Thread : task[t].array = c}

\* Mutant: nobody is told.
resched_task_never(T, t) == T

\* resched_task(t).  Any other task gives way when its time is up (Preempt); an idle
\* task has no time slice, and gives way only when it is told.
resched_task(T, t) ==
  [u \in Thread |-> IF u = t /\ \E c \in CPU : u = idle[c]
                    THEN [T[u] EXCEPT !.need_resched = TRUE] ELSE T[u]]

\* Mutant: every task is counted on the first runqueue.
activate_task_old(T, R, p) ==
  << [T EXCEPT ![p].array = T[p].cpu], [R EXCEPT ![First(CPU)].nr_running = @ + 1] >>

\* activate_task(p, task_rq(p)) and deactivate_task, of task_structs T and
\* runqueues R.
activate_task(T, R, p) ==
  << [T EXCEPT ![p].array = T[p].cpu], [R EXCEPT ![T[p].cpu].nr_running = @ + 1] >>
deactivate_task(T, R, p) ==
  << [T EXCEPT ![p].array = NULL], [R EXCEPT ![T[p].cpu].nr_running = @ - 1] >>

-----------------------------------------------------------------------------
(* schedule() *)

\* t, on processor c, takes the lock, and leaves the queue unless it is runnable.
Schedule(c, t) ==
  /\ At(c, t, "schedule") /\ Unlocked(c)
  /\ LET D == IF task[t].state = "RUNNING" THEN << task, rq >>
                                           ELSE deactivate_task(task, rq, t)
     IN  /\ task' = D[1]
         /\ rq' = [D[2] EXCEPT ![c].lock = c]
         /\ Goto(t, IF D[2][c].nr_running = 0 THEN "balance" ELSE "pick")
  /\ UNCHANGED << on, local, ops, build >>

\* Choose next; without a switch the lock is dropped.
SwitchTo(c, t, next) ==
  /\ task' = [task EXCEPT ![t].need_resched = FALSE]
  /\ IF next = t
     THEN /\ rq' = [rq EXCEPT ![c].lock = NULL]
          /\ Goto(t, local[t].then) /\ local' = [local EXCEPT ![t].then = "none"]
     ELSE /\ rq' = [rq EXCEPT ![c].curr = next]
          /\ Goto(t, "switch") /\ local' = local
  /\ UNCHANGED << on, ops, build >>

Pick(c, t) ==
  /\ At(c, t, "pick")
  /\ \E next \in Queued(c) :
       /\ migration[c] \in Queued(c) => next = migration[c]
       /\ SwitchTo(c, t, next)

\* After load_balance has looked for work elsewhere.
PickIdle(c, t) ==
  /\ At(c, t, "balanced")
  /\ IF rq[c].nr_running > 0
     THEN Goto(t, "pick") /\ UNCHANGED << rq, task, on, local, ops, build >>
     ELSE SwitchTo(c, t, idle[c])

\* The stack is switched, and then the lock dropped on the new one.
ContextSwitch(c, t) ==
  /\ At(c, t, "switch")
  /\ on' = [on EXCEPT ![c] = rq[c].curr]
  /\ rq' = [rq EXCEPT ![c].lock = NULL]
  /\ Goto(t, local[t].then) /\ local' = [local EXCEPT ![t].then = "none"]
  /\ UNCHANGED << task, ops, build >>

-----------------------------------------------------------------------------
(* load_balance, called from schedule() and from the timer *)

Return(t) == Goto(t, IF local[t].tick THEN "unlock" ELSE "balanced")

\* Look for a longer runqueue, without its lock.  In schedule() it is the longest; the
\* timer compares averages, which may name any, and may find the imbalance too small.
Balance(c, t) ==
  /\ At(c, t, "balance")
  /\ LET long == {b \in CPU \ {c} : rq[b].nr_running > 1}
         longest == {b \in long : \A d \in long : rq[d].nr_running <= rq[b].nr_running}
     IN  \/ /\ long = {} \/ local[t].tick
            /\ Return(t) /\ local' = local
         \/ \E b \in IF local[t].tick THEN long ELSE longest :
              local' = [local EXCEPT ![t].busiest = b] /\ Goto(t, "balance_lock")
  /\ UNCHANGED << rq, task, on, ops, build >>

\* double_lock_balance: a busy lock is waited for with the own lock held only if it
\* comes after that.
double_lock_balance(c, t) ==
  LET b == local[t].busiest
  IN  /\ At(c, t, "balance_lock")
      /\ \/ Unlocked(b) /\ Lock(c, b) /\ Goto(t, "pull")
         \/ ~Unlocked(b) /\ b < c /\ Lock(NULL, c) /\ Goto(t, "balance_relock")
         \/ ~Unlocked(b) /\ b > c /\ rq' = rq /\ Goto(t, "balance_spin")
      /\ UNCHANGED << task, on, local, ops, build >>

SpinBusiest(c, t) ==
  LET b == local[t].busiest
  IN  /\ At(c, t, "balance_spin")
      /\ Unlocked(b) /\ Lock(c, b) /\ Goto(t, "pull")
      /\ UNCHANGED << task, on, local, ops, build >>

\* The two locks in their order.
Relock(c, t) ==
  LET b == local[t].busiest
  IN  /\ At(c, t, "balance_relock")
      /\ \/ rq[b].lock # c /\ Unlocked(b) /\ Lock(c, b) /\ pc' = pc
         \/ rq[b].lock = c /\ Unlocked(c) /\ Lock(c, c) /\ Goto(t, "pull")
      /\ UNCHANGED << task, on, local, ops, build >>

CanMigrate(b, c) ==
  {p \in Queued(b) : p # rq[b].curr /\ c \in task[p].cpus_allowed}

\* With both locks: one task is taken from the busiest queue, if it still is longer
\* by two, unless all are cache-hot, SHORT, or may not run here.  With fewer than five
\* tasks on a queue the timer's imbalance asks for one, too.
Pull(c, t) ==
  LET b == local[t].busiest
      tasks == CanMigrate(b, c)
      R == [rq EXCEPT ![b].lock = NULL]
      Take(p) ==
        /\ task' = resched_task([task EXCEPT ![p].cpu = c, ![p].array = c], t)
        /\ rq' = [R EXCEPT ![b].nr_running = @ - 1, ![c].nr_running = @ + 1]
  IN  /\ At(c, t, "pull")
      /\ \/ rq' = R /\ task' = task
         \/ rq[b].nr_running > rq[c].nr_running + 1 /\ \E p \in tasks : Take(p)
      /\ local' = [local EXCEPT ![t].busiest = NULL]
      /\ Return(t)
      /\ UNCHANGED << on, ops, build >>

\* scheduler_tick may find the queues out of balance.  The interrupt is taken in user mode
\* only; the code takes it wherever interrupts are enabled.
Tick(c, t) ==
  /\ At(c, t, "user")
  /\ local' = [local EXCEPT ![t].tick = TRUE]
  /\ Goto(t, "tick")
  /\ UNCHANGED << rq, task, on, ops, build >>

TickLock(c, t) ==
  /\ At(c, t, "tick") /\ Unlocked(c)
  /\ Lock(c, c)
  /\ Goto(t, "balance")
  /\ UNCHANGED << task, on, local, ops, build >>

\* The end of scheduler_tick and of setscheduler: the lock is dropped.
Unlock(c, t) ==
  /\ At(c, t, "unlock")
  /\ Lock(NULL, IF local[t].q = NULL THEN c ELSE task[local[t].q].cpu)
  /\ local' = [local EXCEPT ![t] = NoLocal]
  /\ Goto(t, "user")
  /\ UNCHANGED << task, on, ops, build >>

-----------------------------------------------------------------------------
(* Calls *)

\* The beginning of a call of t, with local variables l.
Begin(c, t, call, place, l) ==
  /\ At(c, t, "user") /\ t \in Task
  /\ call \in build.calls /\ ops < build.ops
  /\ ops' = ops + 1
  /\ local' = [local EXCEPT ![t] = l]
  /\ Goto(t, place)
  /\ UNCHANGED << rq, on, build >>

\* A process gives way at the end of its time, the idle task when it is told to.
Preempt(c, t) ==
  /\ At(c, t, "user") /\ (t = idle[c] => task[t].need_resched)
  /\ local' = [local EXCEPT ![t].then = "user"]
  /\ Goto(t, "schedule")
  /\ UNCHANGED << rq, task, on, ops, build >>

\* A process on a wait queue: its state is set before schedule() is called.
Sleep(c, t) ==
  /\ Begin(c, t, "sleep", "schedule", [NoLocal EXCEPT !.then = "user"])
  /\ task' = [task EXCEPT ![t].state = "SLEEPING"]

\* do_exit.  Who wakes t holds the lock of the wait queue that t is on.
Exit(c, t) ==
  /\ \A u \in Thread : ~(pc[u] = "wake" /\ local[u].w = t)
  /\ Begin(c, t, "exit", "schedule", [NoLocal EXCEPT !.then = "none"])
  /\ task' = [task EXCEPT ![t].state = "ZOMBIE"]

\* wake_up, or wake_up_sync, of a process on a wait queue.
Wake(c, t) ==
  \E q \in Task \ {t}, sync \in BOOLEAN :
    /\ task[q].state = "SLEEPING"
    /\ Begin(c, t, "wake", "wake",
             [NoLocal EXCEPT !.w = q, !.sync = sync, !.then = "user"])
    /\ task' = task

\* Mutants: sync wake-ups also take a task that still runs on its processor, or one that
\* may not run here.
FastMigrates_curr(c, p, sync) ==
  sync /\ task[p].cpu # c /\ c \in task[p].cpus_allowed

FastMigrates_anywhere(c, p, sync) ==
  sync /\ rq[task[p].cpu].curr # p /\ task[p].cpu # c

\* Whether the wake-up moves p to the waker's processor c.
FastMigrates(c, p, sync) ==
  sync /\ rq[task[p].cpu].curr # p /\ task[p].cpu # c /\ c \in task[p].cpus_allowed

\* try_to_wake_up, under the lock of p's runqueue.
try_to_wake_up(c, t) ==
  LET p == local[t].w
      old == task[p].cpu
      awake == [task EXCEPT ![p].state = "RUNNING"]
  IN  /\ At(c, t, "wake") /\ Unlocked(old)
      /\ IF task[p].array = NULL /\ FastMigrates(c, p, local[t].sync)
         THEN /\ task' = [task EXCEPT ![p].cpu = c]
              /\ UNCHANGED << rq, pc, local >>
         ELSE /\ IF task[p].array # NULL THEN task' = awake /\ rq' = rq
                 ELSE LET A == activate_task(awake, rq, p)
                      IN  task' = resched_task(A[1], rq[old].curr) /\ rq' = A[2]
              /\ Goto(t, local[t].then)
              /\ local' = [local EXCEPT ![t].w = NULL, ![t].sync = FALSE, ![t].then = "none"]
      /\ UNCHANGED << on, ops, build >>

\* do_fork and wake_up_forked_process: the child, a copy, is queued beside its
\* parent.  A task_struct that sys_sched_setaffinity refers to is not free.  The parent does
\* not sleep in between, and the child is found by no other call before it is queued.
Fork(c, t) ==
  \E p \in Task :
    /\ task[p].state = "FREE" /\ \A u \in Thread : local[u].q # p
    /\ Begin(c, t, "fork", "fork", [NoLocal EXCEPT !.q = p])
    /\ task' = [task EXCEPT ![p].cpus_allowed = task[t].cpus_allowed]

wake_up_forked_process(c, t) ==
  LET p == local[t].q
      A == activate_task([task EXCEPT ![p].cpu = c, ![p].state = "RUNNING"], rq, p)
  IN  /\ At(c, t, "fork") /\ Unlocked(c)
      /\ task' = A[1] /\ rq' = A[2]
      /\ local' = [local EXCEPT ![t] = NoLocal, ![p] = NoLocal]
      /\ pc' = [pc EXCEPT ![t] = "user", ![p] = "user"]
      /\ UNCHANGED << on, ops, build >>

\* release_task of a zombie.
Release(c, t) ==
  \E q \in Task :
    /\ task[q].state = "ZOMBIE" /\ \A u \in Thread : local[u].q # q
    /\ Begin(c, t, "exit", "inactive", [NoLocal EXCEPT !.q = q])
    /\ task' = task

\* wait_task_inactive: q must not be current where it ran; first without the lock,
\* then with it, because the switch away from q takes place under the lock.
wait_task_inactive(c, t) ==
  LET q == local[t].q
      inactive == rq[task[q].cpu].curr # q
  IN  /\ \/ /\ At(c, t, "inactive") /\ inactive
            /\ Goto(t, "inactive_lock") /\ UNCHANGED << task, local >>
         \/ /\ At(c, t, "inactive_lock") /\ Unlocked(task[q].cpu)
            /\ IF inactive
               THEN /\ task' = [task EXCEPT ![q].state = "FREE"]
                    /\ local' = [local EXCEPT ![t] = NoLocal] /\ Goto(t, "user")
               ELSE Goto(t, "inactive") /\ UNCHANGED << task, local >>
      /\ UNCHANGED << rq, on, ops, build >>

\* setscheduler takes a task off its queue and puts it back; after it has made a
\* process SHORT it calls schedule() before it drops the lock.
setscheduler(c, t) ==
  \/ \E q \in Task :
       /\ task[q].state \notin {"FREE", "ZOMBIE"}
       /\ Begin(c, t, "setscheduler", "setscheduler", [NoLocal EXCEPT !.q = q])
       /\ task' = task
  \/ LET d == task[local[t].q].cpu
     IN  /\ At(c, t, "setscheduler") /\ Unlocked(d)
         /\ IF build.short
            THEN /\ Lock(c, d)
                 /\ local' = [local EXCEPT ![t].then = "unlock"]
                 /\ Goto(t, "schedule")
            ELSE /\ local' = [local EXCEPT ![t] = NoLocal]
                 /\ Goto(t, "user") /\ rq' = rq
         /\ UNCHANGED << task, on, ops, build >>

-----------------------------------------------------------------------------
(* set_cpus_allowed and the migration threads *)

\* sys_sched_setaffinity pins the task_struct of q.
Setaffinity(c, t) ==
  \E q \in Task, mask \in (SUBSET CPU) \ {{}} :
    /\ task[q].state # "FREE"
    /\ build.concurrent \/ \A u \in Task : ~(local[u].q = q /\ local[u].mask # {})
    /\ Begin(c, t, "affinity", "affinity", [NoLocal EXCEPT !.q = q, !.mask = mask])
    /\ task' = task

\* A task that must leave its processor is moved here if it is neither queued nor
\* running, and by the processor's migration thread otherwise.
set_cpus_allowed(c, t) ==
  LET p == local[t].q
      d == task[p].cpu
      mask == local[t].mask
      inactive == task[p].array = NULL /\ p # rq[d].curr
      Done == rq' = rq /\ local' = [local EXCEPT ![t] = NoLocal] /\ Goto(t, "user")
  IN  /\ At(c, t, "affinity") /\ Unlocked(d)
      /\ task' = [task EXCEPT ![p].cpus_allowed = mask,
                              ![p].cpu = IF d \notin mask /\ inactive THEN First(mask) ELSE @]
      /\ IF d \in mask \/ inactive THEN Done
         ELSE /\ rq' = [rq EXCEPT ![d].migration_queue = << t >> \o @]
              /\ local' = [local EXCEPT ![t].w = migration[d], ![t].then = "down"]
              /\ Goto(t, "wake")
      /\ UNCHANGED << on, ops, build >>

\* down(&req.sem), of the semaphore that the migration thread ups: the state is set
\* before the semaphore is looked at.
Down(c, t) ==
  /\ At(c, t, "down")
  /\ task' = [task EXCEPT ![t].state = "SLEEPING"]
  /\ Goto(t, "down_check")
  /\ UNCHANGED << rq, on, local, ops, build >>

DownCheck(c, t) ==
  /\ At(c, t, "down_check")
  /\ IF local[t].done
     THEN /\ task' = [task EXCEPT ![t].state = "RUNNING"]
          /\ local' = [local EXCEPT ![t] = NoLocal]
          /\ Goto(t, "user")
     ELSE /\ task' = task
          /\ local' = [local EXCEPT ![t].then = "down"]
          /\ Goto(t, "schedule")
  /\ UNCHANGED << rq, on, ops, build >>

\* Mutant: the thread sleeps without a look at its queue.
migration_thread_blind(c, t) ==
  /\ At(c, t, "migrate") /\ Unlocked(c)
  /\ task' = [task EXCEPT ![t].state = "SLEEPING"]
  /\ rq' = rq
  /\ local' = [local EXCEPT ![t].then = "migrate"]
  /\ Goto(t, "schedule")
  /\ UNCHANGED << on, ops, build >>

\* The loop of migration_thread: take a request from the own queue, or sleep.
migration_thread(c, t) ==
  LET queue == rq[c].migration_queue
  IN  /\ At(c, t, "migrate") /\ Unlocked(c)
      /\ task' = [task EXCEPT ![t].state = "SLEEPING"]
      /\ IF queue = << >>
         THEN /\ rq' = rq
              /\ local' = [local EXCEPT ![t].then = "migrate"]
              /\ Goto(t, "schedule")
         ELSE /\ rq' = [rq EXCEPT ![c].migration_queue = Tail(@)]
              /\ local' = [local EXCEPT ![t].q = Head(queue)]
              /\ Goto(t, "migrate_dest")
      /\ UNCHANGED << on, ops, build >>

\* req->task of the request.
ReqTask(t) == local[local[t].q].q

\* The destination and the source are read without a lock.
ReadDest(c, t) ==
  /\ At(c, t, "migrate_dest")
  /\ local' = [local EXCEPT ![t].dest = First(task[ReqTask(t)].cpus_allowed)]
  /\ Goto(t, "migrate_src")
  /\ UNCHANGED << rq, task, on, ops, build >>

ReadSrc(c, t) ==
  /\ At(c, t, "migrate_src")
  /\ local' = [local EXCEPT ![t].src = task[ReqTask(t)].cpu]
  /\ Goto(t, "migrate_lock1")
  /\ UNCHANGED << rq, task, on, ops, build >>

\* Mutant: the source is locked first, whatever the order of the addresses.
double_rq_lock_src(c, t) ==
  LET src == local[t].src
      dest == local[t].dest
  IN  /\ \/ /\ At(c, t, "migrate_lock1") /\ Unlocked(src) /\ Lock(c, src)
            /\ Goto(t, IF src = dest THEN "migrate_move" ELSE "migrate_lock2")
         \/ /\ At(c, t, "migrate_lock2") /\ Unlocked(dest) /\ Lock(c, dest)
            /\ Goto(t, "migrate_move")
      /\ UNCHANGED << task, on, local, ops, build >>

\* Two runqueues are locked in the order of their addresses.
double_rq_lock(c, t) ==
  LET first == First({local[t].src, local[t].dest})
      second == CHOOSE d \in {local[t].src, local[t].dest} : d >= first /\
                  \A e \in {local[t].src, local[t].dest} : d >= e
  IN  /\ \/ /\ At(c, t, "migrate_lock1") /\ Unlocked(first) /\ Lock(c, first)
            /\ Goto(t, IF first = second THEN "migrate_move" ELSE "migrate_lock2")
         \/ /\ At(c, t, "migrate_lock2") /\ Unlocked(second) /\ Lock(c, second)
            /\ Goto(t, "migrate_move")
      /\ UNCHANGED << task, on, local, ops, build >>

\* Mutant: the queued task gets a new processor but stays where it is queued.
Moved_array(p, dest) == << [task EXCEPT ![p].cpu = dest], rq >>

\* p->cpu = cpu_dest, and p is taken from one queue to the other if it is queued.
Moved(p, dest) ==
  IF task[p].array = NULL THEN << [task EXCEPT ![p].cpu = dest], rq >>
  ELSE LET D == deactivate_task(task, rq, p)
       IN  activate_task([D[1] EXCEPT ![p].cpu = dest], D[2], p)

\* With both locks: the task is moved if it is still on this processor.
Migrate(c, t) ==
  LET p == ReqTask(t)
      src == local[t].src
      dest == local[t].dest
      M == IF src = c THEN Moved(p, dest) ELSE << task, rq >>
      Unlock2(R) == [R EXCEPT ![src].lock = NULL, ![dest].lock = NULL]
  IN  /\ At(c, t, "migrate_move")
      /\ IF task[p].cpu # src
         THEN rq' = Unlock2(rq) /\ task' = task /\ Goto(t, "migrate_src")
         ELSE rq' = Unlock2(M[2]) /\ task' = M[1] /\ Goto(t, "migrate_up")
      /\ UNCHANGED << on, local, ops, build >>

\* up(&req->sem), with a wake-up of the process that waits in down.
Up(c, t) ==
  LET req == local[t].q
  IN  /\ At(c, t, "migrate_up")
      /\ local' = [local EXCEPT ![req].done = TRUE,
                                ![t] = [NoLocal EXCEPT !.w = req, !.then = "migrate"]]
      /\ Goto(t, "wake")
      /\ UNCHANGED << rq, task, on, ops, build >>

-----------------------------------------------------------------------------

\* What a task does in the kernel, once it is there.
Kernel(c, t) ==
  \/ Schedule(c, t) \/ Pick(c, t) \/ PickIdle(c, t) \/ ContextSwitch(c, t)
  \/ Balance(c, t) \/ double_lock_balance(c, t) \/ SpinBusiest(c, t) \/ Relock(c, t) \/ Pull(c, t)
  \/ TickLock(c, t) \/ Unlock(c, t) \/ try_to_wake_up(c, t)
  \/ wake_up_forked_process(c, t) \/ wait_task_inactive(c, t)
  \/ set_cpus_allowed(c, t) \/ Down(c, t) \/ DownCheck(c, t)
  \/ migration_thread(c, t) \/ ReadDest(c, t) \/ ReadSrc(c, t)
  \/ double_rq_lock(c, t) \/ Migrate(c, t) \/ Up(c, t)

Call(c, t) ==
  \/ Sleep(c, t) \/ Exit(c, t) \/ Wake(c, t) \/ Fork(c, t) \/ Release(c, t)
  \/ setscheduler(c, t) \/ Setaffinity(c, t)

KernelStep(c) == LET t == on[c] IN Kernel(c, t)
UserStep(c)   == LET t == on[c] IN Call(c, t) \/ Tick(c, t) \/ Preempt(c, t)

Next == \E c \in CPU : KernelStep(c) \/ UserStep(c)

Spec == Init /\ [][Next]_vars

\* What makes a task in user mode give way: an idle task is told to.  A process comes to
\* the end of its slice (OTHER, RR, SHORT), or a woken migration thread preempts it (FIFO
\* of a lower priority).  Neither happens to an overdue process, which has no slice and
\* the priority 0 (sched.c:924), nor to a FIFO process of priority 0: it may compute for ever.
GiveWay(c) ==
  LET t == on[c] IN (t \in Task => ~build.overdue) /\ Preempt(c, t)

\* A processor in the kernel goes on, and a task that is made to gives way.  A spinning
\* processor gets a lock that is free again and again: the timer, the only caller without
\* end, comes once in a tick.
FairSpec ==
  /\ Spec
  /\ \A c \in CPU : SF_vars(KernelStep(c)) /\ SF_vars(GiveWay(c))

-----------------------------------------------------------------------------
(* Properties *)

\* A task is queued where its cpu field says, and each runqueue counts the tasks
\* queued on it: no wake-up, pull or migration leaves one behind or queues it twice.
QueuesConsistent ==
  \A c \in CPU : /\ \A t \in Queued(c) : task[t].cpu = c /\ task[t].state # "FREE"
                 /\ rq[c].nr_running = Cardinality(Queued(c))

\* No task runs on two processors, none runs where it is not queued unless it is on its
\* way off, and the stack of a freed one is not in use.
RunsOnce ==
  /\ \A c, d \in CPU : on[c] = on[d] => c = d
  /\ \A c \in CPU :
       /\ task[on[c]].state # "FREE" /\ task[on[c]].cpu = c
       /\ pc[on[c]] # "switch" => rq[c].curr = on[c]
       /\ task[on[c]].array # c /\ on[c] # idle[c] =>
            pc[on[c]] \in {"pick", "balance", "balance_lock", "balance_spin",
                           "balance_relock", "pull", "balanced", "switch"}

\* Where set_cpus_allowed(p) is still at work.
Migrating(p) == \E u \in Task : local[u].q = p /\ local[u].mask # {}

\* Once set_cpus_allowed has returned, the task stays on the processors it is allowed
\* on, whoever wakes it, pulls it or moves another one.  The builds are those in which one
\* caller at a time changes the mask of a task, and none that forks or is created meanwhile.
AffinityKept ==
  \A p \in Task : task[p].state \in {"RUNNING", "SLEEPING"} =>
    task[p].cpu \in task[p].cpus_allowed \/ Migrating(p)

\* The runqueues whose lock processor c spins on.
Wants(c) ==
  LET t == on[c]
      l == local[t]
  IN  CASE pc[t] \in {"schedule", "tick", "fork", "migrate"}              -> {c}
        [] pc[t] = "balance_spin"                                        -> {l.busiest}
        [] pc[t] = "balance_relock"                                      ->
             IF rq[l.busiest].lock = c THEN {c} ELSE {l.busiest}
        [] pc[t] = "wake"                                                -> {task[l.w].cpu}
        [] pc[t] \in {"affinity", "inactive_lock", "setscheduler"}       -> {task[l.q].cpu}
        [] pc[t] = "migrate_lock2"                                       ->
             {d \in {l.src, l.dest} : rq[d].lock # c}
        [] pc[t] = "migrate_lock1"                                       ->
             {First({l.src, l.dest})}
        [] OTHER                                                         -> {}

\* No processor spins on a lock of its own, and no two on each other's: the locks are
\* taken "by ascending &runqueue".
NoDeadlock ==
  \A S \in (SUBSET CPU) \ {{}} :
    \E c \in S : \A d \in Wants(c) : rq[d].lock \notin S

\* t has asked for a migration, and it is not done, or t not woken since.
Waits(t) ==
  /\ pc[t] = "down_check" \/ "down" \in {pc[t], local[t].then}
  /\ ~local[t].done \/ task[t].array = NULL

\* No process waits for a migration for ever: the request finds the migration thread, and
\* the semaphore its waiter.  That is so in builds where every process gives way in the end
\* (~overdue): a process that does not keeps its processor from the migration thread too,
\* whose priority is no better (sched.c:493).
MigrationCompletes == \A t \in Task : []<>~Waits(t)

\* An idle processor that has something to run knows it, except for what a migration
\* thread has brought it: the activate_task there is followed by no resched_task.
IdleIsTold ==
  "affinity" \notin build.calls =>
    \A c \in CPU : on[c] = idle[c] /\ pc[idle[c]] = "user" /\ rq[c].nr_running > 0 =>
      task[idle[c]].need_resched

=============================================================================
