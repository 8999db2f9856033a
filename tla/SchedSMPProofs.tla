--------------------------- MODULE SchedSMPProofs ---------------------------
(***************************************************************************)
(* The runqueues of several processors: no deadlock between their locks,   *)
(* no task on two processors or queues, and counters that agree, for every *)
(* number of processors and tasks.  The builds are those in which nobody   *)
(* calls schedule() with a runqueue locked, as setscheduler does to make a *)
(* process SHORT (sched.c:1688).  Then who runs where: a task stays on the *)
(* processors it is allowed on, and an idle processor is told of work.     *)
(* Both rest on the first invariant, and on where the tasks are that       *)
(* change somebody's affinity.                                             *)
(***************************************************************************)
EXTENDS SchedSMP, FiniteSetTheorems, WellFoundedInduction, NaturalsInduction, TLAPS

\* No build has a process make another SHORT: the call returns to schedule() with the
\* lock of a runqueue held, which spins on it for ever (sched.c:1685-1691).
LocksFree == \A b \in Builds : ~b.short

-----------------------------------------------------------------------------
(* The inductive invariant *)

\* The migration threads and the idle tasks.
Migrators == {migration[c] : c \in CPU}
Idlers    == {idle[c] : c \in CPU}

\* The places in schedule(), in load_balance() and in migration_thread; and the states
\* of a task that is not there.
InSchedule == {"schedule", "pick", "balanced", "switch"}
Balancing  == {"balance", "balance_lock", "balance_spin", "balance_relock", "pull"}
Migration  == {"migrate_dest", "migrate_src", "migrate_lock1", "migrate_lock2",
               "migrate_move", "migrate_up"}
Dead       == {"FREE", "ZOMBIE"}

\* Where a task that is not running is, and where one that runs returns to.
Resume == {"none", "user", "down", "migrate"}
Back(t) ==
  IF pc[t] \in InSchedule \cup {"wake"} \/ (pc[t] \in Balancing /\ ~local[t].tick)
  THEN local[t].then ELSE pc[t]

\* The locks processor c holds, by where its task is.
Held(c) ==
  LET t == on[c]
      l == local[t]
  IN  CASE pc[t] \in {"pick", "balanced", "switch", "balance", "balance_lock",
                      "balance_spin", "unlock"} -> {c}
        [] pc[t] = "pull"           -> {c, l.busiest}
        [] pc[t] = "balance_relock" -> IF rq[l.busiest].lock = c THEN {l.busiest} ELSE {}
        [] pc[t] = "migrate_lock2"  -> {First({l.src, l.dest})}
        [] pc[t] = "migrate_move"   -> {l.src, l.dest}
        [] OTHER                    -> {}

\* The locks a processor holds are those.
LocksOf(c) == \A d \in CPU : rq[d].lock = c <=> d \in Held(c)

\* Which places processes, idle tasks and migration threads come to, and from where.
KindOK(t) ==
  LET p == pc[t]
      l == local[t]
  IN  /\ Back(t) \in {"tick", "unlock"} \cup Balancing => l.tick
      /\ l.tick => p \in {"tick", "unlock"} \cup Balancing
      /\ l.tick \/ Back(t) = "user" => l.q = NULL
      /\ p \in InSchedule \/ (p \in Balancing /\ ~l.tick) => l.then \in Resume
      /\ p = "wake" => l.then \in {"user", "down", "migrate"}
      /\ t \in Task => /\ p \notin Migration \cup {"migrate"} /\ Back(t) # "migrate"
      /\ t \in Migrators => /\ p \in {"migrate", "wake"} \cup Migration \cup InSchedule \cup Balancing
                            /\ ~l.tick /\ Back(t) \in {"migrate"} \cup Migration
      /\ t \in Idlers    => /\ p \in {"user", "tick", "unlock"} \cup InSchedule \cup Balancing
                            /\ ~l.tick => Back(t) = "user"

\* The local variables a place uses are set, and the tasks they name are fit for it.
ArgsOK(t) ==
  LET p == pc[t]
      l == local[t]
  IN  /\ p \in Balancing \ {"balance"} => l.busiest \in CPU
      /\ p = "wake" => l.w \in Task \cup Migrators /\ task[l.w].state \notin Dead
      /\ p = "fork" => l.q \in Task /\ task[l.q].state = "FREE"
      /\ p \in {"inactive", "inactive_lock"} => l.q \in Task /\ task[l.q].state = "ZOMBIE"
      /\ p = "affinity" => l.q \in Task /\ l.mask # {} /\ ~l.done
      /\ p = "setscheduler" => l.q \in Task
      /\ p \in {"migrate_src", "migrate_lock1", "migrate_lock2", "migrate_move"} => l.dest \in CPU
      /\ p \in {"migrate_lock1", "migrate_lock2", "migrate_move"} => l.src \in CPU
      /\ p = "migrate_lock2" => l.src # l.dest

\* Nobody else creates or releases the same task.
Apart(t, u) ==
  t # u /\ local[t].q = local[u].q =>
    /\ ~(pc[t] = "fork" /\ pc[u] = "fork")
    /\ ~(pc[t] \in {"inactive", "inactive_lock"} /\ pc[u] \in {"inactive", "inactive_lock"})

\* The lock waited for with the own lock held comes after it.
BusiestOK(c) ==
  LET t == on[c]
      b == local[t].busiest
  IN  /\ pc[t] \in Balancing \ {"balance"} => b # c
      /\ pc[t] = "balance_spin" => b > c
      /\ pc[t] = "balance_relock" => b < c

\* A processor runs a task of its own, which is queued there unless it is leaving.
StackOK(c) ==
  LET t == on[c]
      n == rq[c].curr
  IN  /\ task[t].cpu = c /\ task[t].state # "FREE"
      /\ pc[t] # "switch" => n = t
      /\ pc[t] = "switch" => /\ n # t /\ task[n].cpu = c
                             /\ task[n].array = c \/ n = idle[c]
      /\ \/ task[t].array = c \/ t = idle[c] \/ pc[t] \in {"pick", "balanced", "switch"}
         \/ pc[t] \in Balancing /\ ~local[t].tick

\* t runs nowhere.
Off(t) == \A c \in CPU : on[c] # t

\* A task is queued where its cpu field says, and a dead one nowhere, but on its way
\* into schedule(); one that does not run is where it gave way.
TaskInv(t) ==
  LET k == task[t]
  IN  /\ k.array # NULL => k.array = k.cpu /\ k.state # "FREE"
      /\ k.cpus_allowed # {}
      /\ k.state \in Dead => t \in Task /\ Back(t) = "none"
      /\ k.state = "ZOMBIE" /\ k.array # NULL => on[k.cpu] = t /\ pc[t] = "schedule"
      /\ Off(t) => pc[t] \in Resume
      /\ t \in Idlers => k.array = NULL /\ k.state = "RUNNING" /\ t = idle[k.cpu]
      /\ t \in Migrators => t = migration[k.cpu] /\ k.cpus_allowed = {k.cpu}

\* The counter of a runqueue counts the tasks queued on it.
CountsOf(c) == rq[c].nr_running = Cardinality(Queued(c))

\* A migration request is on one queue, or in the hands of one migration thread, and
\* the process that made it waits for it.
Waiting(r) ==
  /\ r \in Task /\ local[r].q \in Task /\ ~local[r].done
  /\ Back(r) \in {"down", "down_check"}

\* The requests of a processor: the one in the hands of its migration thread is at 0.
Places(c) ==
  DOMAIN rq[c].migration_queue \cup IF pc[migration[c]] \in Migration THEN {0} ELSE {}
ReqAt(c, i) == IF i = 0 THEN local[migration[c]].q ELSE rq[c].migration_queue[i]
RequestsWait == \A c \in CPU : \A i \in Places(c) : Waiting(ReqAt(c, i))
RequestsOnce ==
  \A c, d \in CPU : \A i \in Places(c), j \in Places(d) :
    ReqAt(c, i) = ReqAt(d, j) => c = d /\ i = j

\* What holds of each task, and of each processor.
ThreadOK(t) == KindOK(t) /\ ArgsOK(t) /\ TaskInv(t)
CpuOK(c)    == LocksOf(c) /\ BusiestOK(c) /\ StackOK(c) /\ CountsOf(c)

\* The inductive invariant.
IInv ==
  /\ TypeOK
  /\ \A t \in Thread : ThreadOK(t)
  /\ \A c \in CPU : CpuOK(c)
  /\ \A t, u \in Thread : Apart(t, u)
  /\ RequestsWait /\ RequestsOnce

-----------------------------------------------------------------------------
(* Types *)

\* The records of the model.
RunQueues   == [lock : CPU \cup {NULL}, nr_running : Nat, curr : Thread,
                migration_queue : Seq(Task)]
TaskStructs == [cpu : CPU, cpus_allowed : SUBSET CPU, array : CPU \cup {NULL},
                state : {"FREE", "RUNNING", "SLEEPING", "ZOMBIE"}, need_resched : BOOLEAN]
Locals == [q : Task \cup {NULL}, w : Thread \cup {NULL}, mask : SUBSET CPU,
           sync : BOOLEAN, tick : BOOLEAN, busiest : CPU \cup {NULL}, src : CPU \cup {NULL},
           dest : CPU \cup {NULL}, then : PCs, done : BOOLEAN]

\* The type invariant, with its sets of records named.
LEMMA TypeParts ==
  TypeOK <=> /\ rq \in [CPU -> RunQueues] /\ task \in [Thread -> TaskStructs]
             /\ on \in [CPU -> Thread] /\ pc \in [Thread -> PCs]
             /\ local \in [Thread -> Locals] /\ build \in Builds /\ ops \in 0 .. build.ops
BY DEF TypeOK, RunQueues, TaskStructs, Locals

\* The constants.
LEMMA Constants ==
  /\ IsFiniteSet(CPU) /\ CPU \subseteq Nat /\ CPU # {} /\ IsFiniteSet(Task)
  /\ NULL \notin CPU /\ NULL \notin Thread /\ NULL \notin Task
  /\ Task \subseteq Thread /\ Idlers \subseteq Thread /\ Migrators \subseteq Thread
  /\ Task \cap Idlers = {} /\ Task \cap Migrators = {} /\ Idlers \cap Migrators = {}
  /\ Thread = Task \cup Idlers \cup Migrators
  /\ \A c \in CPU : idle[c] \in Idlers /\ migration[c] \in Migrators
  /\ \A c, d \in CPU : /\ idle[c] = idle[d] => c = d
                       /\ migration[c] = migration[d] => c = d
<1>1. /\ IsFiniteSet(CPU) /\ CPU \subseteq Nat /\ CPU # {} /\ IsFiniteSet(Task)
      /\ NULL \notin CPU /\ NULL \notin Thread
  BY CPUAssumption, ThreadAssumption
<1>2. /\ Task \subseteq Thread /\ Idlers \subseteq Thread /\ Migrators \subseteq Thread
      /\ Thread = Task \cup Idlers \cup Migrators
  <2>1. Thread = Task \cup Idlers \cup Migrators
    BY DEF Thread, Idlers, Migrators
  <2> QED
    BY <2>1
<1>3. Task \cap Idlers = {} /\ Task \cap Migrators = {} /\ Idlers \cap Migrators = {}
  BY ThreadAssumption DEF Idlers, Migrators
<1>4. \A c \in CPU : idle[c] \in Idlers /\ migration[c] \in Migrators
  BY DEF Idlers, Migrators
<1>5. \A c, d \in CPU : /\ idle[c] = idle[d] => c = d
                        /\ migration[c] = migration[d] => c = d
  BY ThreadAssumption
<1> QED
  BY <1>1, <1>2, <1>3, <1>4, <1>5

\* First is the least of a set of processors that is not empty.
LEMMA FirstLeast ==
  ASSUME NEW S \in SUBSET CPU, S # {}
  PROVE  First(S) \in S /\ \A d \in S : First(S) <= d
<1>1. S \subseteq Nat
  BY Constants
<1> DEFINE R == {ss \in Nat \X Nat : ss[1] < ss[2]}
<1>2. IsWellFoundedOn(R, Nat)
  BY NatLessThanWellFounded, Zenon DEF OpToRel
<1> HIDE DEF R
<1>3. \E i \in S : \A j \in S : ~ (<< j, i >> \in R)
  BY <1>1, <1>2, WFMin
<1>4. \E i \in S : \A j \in S : i <= j
  <2>1. PICK i \in S : \A j \in S : ~ (<< j, i >> \in R)
    BY <1>3
  <2>2. \A m, n \in Nat : m < n => << m, n >> \in R
    BY DEF R
  <2>3. \A j \in S : j \in Nat /\ i \in Nat /\ ~ (j < i)
    BY <1>1, <2>1, <2>2
  <2> QED
    BY <2>3
<1> QED
  BY <1>4, Zenon DEF First

\* A set of processors that is not empty has a greatest one.
LEMMA Greatest ==
  ASSUME NEW S \in SUBSET CPU, S # {}
  PROVE  \E g \in S : \A d \in S : d <= g
<1> DEFINE U(d) == {e \in CPU : e > d}
           T    == {U(d) : d \in S}
           R    == StrictSubsetOrdering(CPU)
<1>1. T \subseteq FiniteSubsetsOf(CPU) /\ T # {}
  <2>1. \A d \in S : U(d) \in SUBSET CPU /\ IsFiniteSet(U(d))
    BY Constants, FS_Subset
  <2> QED
    BY <2>1 DEF FiniteSubsetsOf
<1>2. \E x \in T : \A y \in T : ~ (<< y, x >> \in R)
  BY <1>1, FS_StrictSubsetOrderingWellFounded, WFMin
<1>3. PICK g \in S : \A d \in S : ~ (<< U(d), U(g) >> \in R)
  BY <1>2
<1>4. \A A, B \in SUBSET CPU : A \subseteq B /\ A # B => << A, B >> \in R
  BY DEF StrictSubsetOrdering
<1> HIDE DEF R
<1>5. ASSUME NEW d \in S, d > g PROVE FALSE
  <2>1. U(d) \subseteq U(g) /\ d \in U(g) /\ d \notin U(d)
    <3>1. CPU \subseteq Nat /\ d \in CPU /\ d \in Nat /\ g \in Nat
      BY Constants
    <3>2. \A e \in CPU : e > d => e > g
      BY <1>5, <3>1
    <3>3. ~(d > d)
      BY <3>1
    <3> QED
      BY <1>5, <3>1, <3>2, <3>3
  <2>2. U(d) \subseteq CPU /\ U(g) \subseteq CPU
    OBVIOUS
  <2> HIDE DEF U
  <2>3. U(d) # U(g)
    BY <2>1
  <2>4. << U(d), U(g) >> \in R
    BY <1>4, <2>1, <2>2, <2>3
  <2> QED
    BY <1>3, <2>4
<1> QED
  BY <1>5, Constants

\* What is known of the task that processor c runs.
LEMMA Acting ==
  ASSUME IInv, NEW c \in CPU
  PROVE  /\ on[c] \in Thread /\ task[on[c]].cpu = c
         /\ \A d \in CPU : on[d] = on[c] => d = c
         /\ ThreadOK(on[c]) /\ CpuOK(c)
         /\ rq \in [CPU -> RunQueues] /\ task \in [Thread -> TaskStructs]
         /\ on \in [CPU -> Thread] /\ pc \in [Thread -> PCs] /\ local \in [Thread -> Locals]
BY TypeParts DEF IInv, CpuOK, StackOK

-----------------------------------------------------------------------------
(* Frames *)

\* What a step leaves alone of a task, or of the locks of a processor.
SameLocals(u) == pc'[u] = pc[u] /\ local'[u] = local[u]
SameLife(x)   == task[x].state \in Dead \/ task'[x].state \in Dead =>
                   task'[x].state = task[x].state
SameLocks(e)  == \A d \in CPU : rq'[d].lock = e <=> rq[d].lock = e

\* A task whose place and local variables stay is of its kind,
LEMMA KindKept ==
  ASSUME NEW u, KindOK(u), SameLocals(u)
  PROVE  KindOK(u)' /\ Back(u)' = Back(u)
BY DEF KindOK, Back, SameLocals

\* and its arguments are fit for the place while the tasks they name are neither freed
\* nor reused.
LEMMA ArgsKept ==
  ASSUME NEW u, ArgsOK(u), SameLocals(u),
         pc[u] = "wake" => SameLife(local[u].w),
         pc[u] \in {"fork", "inactive", "inactive_lock"} => SameLife(local[u].q)
  PROVE  ArgsOK(u)'
BY DEF ArgsOK, SameLocals, SameLife, Dead

\* A task is placed well while nothing about it changes.
LEMMA TaskKept ==
  ASSUME NEW u, TaskInv(u), KindOK(u), SameLocals(u), on' = on,
         task'[u].cpu = task[u].cpu, task'[u].array = task[u].array,
         task'[u].cpus_allowed = task[u].cpus_allowed, task'[u].state = task[u].state
  PROVE  TaskInv(u)'
<1>1. Back(u)' = Back(u) /\ Off(u)' = Off(u)
  BY KindKept DEF Off
<1> QED
  BY <1>1 DEF TaskInv, SameLocals

\* u stays where it is, whatever becomes of a semaphore of its.
SameCourse(u) ==
  /\ pc'[u] = pc[u] /\ local'[u].q = local[u].q /\ local'[u].busiest = local[u].busiest
  /\ local'[u].src = local[u].src /\ local'[u].dest = local[u].dest
  /\ local'[u].tick = local[u].tick /\ local'[u].then = local[u].then

\* What a processor e, whose task does not act, keeps.
LEMMA LocksKept ==
  ASSUME NEW e \in CPU, LocksOf(e), on'[e] = on[e], SameCourse(on[e]), SameLocks(e),
         ArgsOK(on[e])
  PROVE  LocksOf(e)'
<1>1. pc[on[e]] = "balance_relock" => local[on[e]].busiest \in CPU
  BY DEF ArgsOK, Balancing
<1>2. Held(e)' = Held(e)
  BY <1>1 DEF Held, SameCourse, SameLocks
<1> QED
  BY <1>2 DEF LocksOf, SameLocks

\* What runs on a processor stays fit for it while the task runs on there.
LEMMA StackKept ==
  ASSUME NEW e \in CPU, StackOK(e), BusiestOK(e), on'[e] = on[e], SameCourse(on[e]),
         rq'[e].curr = rq[e].curr,
         task'[on[e]].cpu = e, task'[on[e]].state # "FREE",
         task[on[e]].array = e => task'[on[e]].array = e,
         pc[on[e]] = "switch" =>
           LET n == rq[e].curr
           IN  task'[n].cpu = task[n].cpu /\ (task[n].array = e => task'[n].array = e)
  PROVE  StackOK(e)' /\ BusiestOK(e)'
BY DEF StackOK, BusiestOK, SameCourse

\* Two tasks that do not move stay apart, and
LEMMA ApartKept ==
  ASSUME NEW u, NEW v, Apart(u, v), SameLocals(u), SameLocals(v)
  PROVE  Apart(u, v)'
BY DEF Apart, SameLocals

\* one that waits for its request waits on.
LEMMA WaitingKept ==
  ASSUME NEW r, Waiting(r), SameLocals(r)
  PROVE  Waiting(r)'
BY DEF Waiting, SameLocals, Back

\* Requests, when the queues and what the migration threads hold are the same.
SamePlaces ==
  \A c \in CPU : /\ rq'[c].migration_queue = rq[c].migration_queue
                 /\ pc'[migration[c]] \in Migration <=> pc[migration[c]] \in Migration
                 /\ pc[migration[c]] \in Migration =>
                      local'[migration[c]].q = local[migration[c]].q

\* Requests stay on one queue each, and their makers wait.
LEMMA RequestsKept ==
  ASSUME RequestsWait, RequestsOnce, SamePlaces, rq \in [CPU -> RunQueues],
         \A r \in Task : Waiting(r) => Waiting(r)'
  PROVE  RequestsWait' /\ RequestsOnce'
<1>1. ASSUME NEW c \in CPU
      PROVE  Places(c)' = Places(c) /\ \A i \in Places(c) : ReqAt(c, i)' = ReqAt(c, i)
  <2>1. DOMAIN rq[c].migration_queue \subseteq Nat \ {0}
    BY DEF RunQueues
  <2>2. Places(c)' = Places(c)
    BY DEF SamePlaces, Places
  <2>3. ASSUME NEW i \in Places(c) PROVE ReqAt(c, i)' = ReqAt(c, i)
    BY <2>1 DEF SamePlaces, Places, ReqAt
  <2> QED
    BY <2>2, <2>3
<1>2. RequestsWait'
  <2>1. SUFFICES ASSUME NEW c \in CPU, NEW i \in Places(c)' PROVE Waiting(ReqAt(c, i))'
    BY DEF RequestsWait
  <2>2. PICK r : r = ReqAt(c, i)
    OBVIOUS
  <2>3. Waiting(r) /\ ReqAt(c, i)' = r
    BY <1>1, <2>2 DEF RequestsWait
  <2>4. Waiting(r)'
    BY <2>3 DEF Waiting
  <2> QED
    BY <2>3, <2>4 DEF Waiting, Back
<1>3. RequestsOnce'
  BY <1>1 DEF RequestsOnce
<1> QED
  BY <1>2, <1>3

-----------------------------------------------------------------------------
(* Steps of a task that touch no other *)

\* What a step of t on c leaves alone, but for counters, queues and requests.
Own(c, t) ==
  /\ on' = on
  /\ \A u \in Thread \ {t} : SameLocals(u) /\ task'[u].state = task[u].state
  /\ \A u \in Thread : /\ task'[u].cpu = task[u].cpu /\ task'[u].array = task[u].array
                       /\ task'[u].cpus_allowed = task[u].cpus_allowed
  /\ \/ task'[t].state = task[t].state
     \/ t \notin Idlers /\ task[t].state \notin Dead /\ task'[t].state \notin Dead
  /\ \A d \in CPU : /\ rq'[d].nr_running = rq[d].nr_running
                    /\ d # c => rq'[d].curr = rq[d].curr
  /\ \A e \in CPU \ {c} : SameLocks(e)

\* What t has to keep itself, where it comes to.
Arrives(c, t) ==
  /\ KindOK(t)' /\ ArgsOK(t)' /\ LocksOf(c)' /\ BusiestOK(c)'
  /\ \A u \in Thread : Apart(t, u)'
  /\ RequestsWait' /\ RequestsOnce'

\* A step of t that touches no other task keeps the invariant, when t is fit for the place
\* it comes to.
LEMMA OwnStep ==
  ASSUME IInv, TypeOK', NEW c \in CPU, NEW t, t = on[c], Own(c, t), Arrives(c, t),
         task[t].state \in Dead => Back(t)' = "none",
         task[t].state = "ZOMBIE" /\ task[t].array # NULL => pc'[t] = "schedule",
         IF pc'[t] = "switch"
         THEN LET n == rq'[c].curr
              IN  n \in Thread /\ n # t /\ task[n].cpu = c /\ (task[n].array = c \/ n = idle[c])
         ELSE rq'[c].curr = t,
         \/ task[t].array = c \/ t = idle[c] \/ pc'[t] \in {"pick", "balanced", "switch"}
         \/ pc'[t] \in Balancing /\ ~local'[t].tick
  PROVE  IInv'
<1>1. /\ t \in Thread /\ task[t].cpu = c /\ \A d \in CPU : on[d] = t => d = c
      /\ ThreadOK(t) /\ CpuOK(c) /\ rq \in [CPU -> RunQueues] /\ on \in [CPU -> Thread]
  BY Acting
<1>2. \A x \in Thread : SameLife(x)
  BY DEF Own, SameLife
<1>3. \A u \in Thread : ThreadOK(u)'
  <2>1. ASSUME NEW u \in Thread \ {t} PROVE ThreadOK(u)'
    <3>1. ThreadOK(u) /\ SameLocals(u) /\ local[u] \in Locals
      BY TypeParts DEF Own, IInv
    <3>2. KindOK(u)'
      BY <3>1, KindKept DEF ThreadOK
    <3>3. ArgsOK(u)'
      <4>1. pc[u] = "wake" => local[u].w \in Thread
        BY <3>1, Constants DEF ThreadOK, ArgsOK
      <4>2. pc[u] \in {"fork", "inactive", "inactive_lock"} => local[u].q \in Thread
        BY <3>1, Constants DEF ThreadOK, ArgsOK
      <4> QED
        BY <1>2, <3>1, <4>1, <4>2, ArgsKept DEF ThreadOK
    <3>4. TaskInv(u)'
      BY <3>1, TaskKept DEF ThreadOK, Own
    <3> QED
      BY <3>2, <3>3, <3>4 DEF ThreadOK
  <2>2. TaskInv(t)'
    <3>1. on'[c] = t
      BY DEF Own
    <3>2. ~Off(t)'
      BY <3>1 DEF Off
    <3> QED
      BY <1>1, <3>1, <3>2 DEF ThreadOK, TaskInv, Own, Dead
  <2> QED
    BY <2>1, <2>2 DEF ThreadOK, Arrives
<1>4. \A e \in CPU : CpuOK(e)'
  <2>1. \A e \in CPU : Queued(e)' = Queued(e) /\ CountsOf(e)'
    <3>1. \A e \in CPU : Queued(e)' = Queued(e)
      BY DEF Queued, Own
    <3> QED
      BY <3>1 DEF CountsOf, Own, IInv, CpuOK
  <2>2. ASSUME NEW e \in CPU \ {c} PROVE CpuOK(e)'
    <3>1. /\ on[e] \in Thread \ {t} /\ task[on[e]].cpu = e /\ ThreadOK(on[e]) /\ CpuOK(e)
          /\ on'[e] = on[e] /\ rq'[e].curr = rq[e].curr /\ rq[e].curr \in Thread
      BY <1>1, Acting DEF Own, RunQueues
    <3>2. SameCourse(on[e]) /\ SameLocks(e)
      BY <3>1 DEF Own, SameLocals, SameCourse
    <3>3. LocksOf(e)'
      BY <3>1, <3>2, LocksKept DEF CpuOK, ThreadOK
    <3>4. StackOK(e)' /\ BusiestOK(e)'
      <4>1. StackOK(e) /\ BusiestOK(e)
        BY <3>1 DEF CpuOK
      <4>2. task[on[e]].cpu = e /\ task[on[e]].state # "FREE"
        BY <4>1 DEF StackOK
      <4>3. /\ \A u \in Thread : task'[u].cpu = task[u].cpu /\ task'[u].array = task[u].array
            /\ task'[on[e]].state = task[on[e]].state
        BY <3>1 DEF Own
      <4> QED
        BY <3>1, <3>2, <4>1, <4>2, <4>3, StackKept
    <3> QED
      BY <2>1, <3>3, <3>4 DEF CpuOK
  <2>3. StackOK(c)'
    BY <1>1 DEF Own, CpuOK, StackOK, Dead
  <2> QED
    BY <2>1, <2>2, <2>3 DEF CpuOK, Arrives
<1>5. ASSUME NEW u \in Thread, NEW v \in Thread PROVE Apart(u, v)'
  <2>1. CASE u = t
    BY <2>1 DEF Arrives
  <2>2. CASE v = t
    <3>1. Apart(t, u)'
      BY DEF Arrives
    <3> QED
      BY <2>2, <3>1 DEF Apart
  <2>3. CASE u # t /\ v # t
    BY <2>3, ApartKept DEF Own, IInv
  <2> QED
    BY <2>1, <2>2, <2>3
<1> QED
  BY <1>3, <1>4, <1>5 DEF IInv, Arrives

\* t comes from a place where it is neither in schedule() nor balancing, goes to one
\* that is not the switch of the stack, and takes or makes no request.
LEMMA CallStep ==
  ASSUME IInv, TypeOK', NEW c \in CPU, NEW t, t = on[c], Own(c, t),
         pc[t] \notin InSchedule \cup Balancing \cup {"none"}, pc'[t] # "switch",
         rq'[c].curr = rq[c].curr,
         KindOK(t)', ArgsOK(t)', LocksOf(c)', BusiestOK(c)',
         \A u \in Thread : Apart(t, u)',
         RequestsWait', RequestsOnce'
  PROVE  IInv'
<1>1. KindOK(t) /\ TaskInv(t) /\ StackOK(c)
  BY Acting DEF ThreadOK, CpuOK
<1>2. task[t].state \notin Dead /\ pc[t] \notin {"schedule", "pick", "balanced", "switch"}
  BY <1>1 DEF KindOK, TaskInv, Back, InSchedule
<1>3. rq'[c].curr = t /\ (task[t].array = c \/ t = idle[c])
  BY <1>1, <1>2 DEF StackOK
<1> QED
  BY <1>2, <1>3, OwnStep DEF Arrives, Dead

\* Requests in a step that takes and makes none.
LEMMA NoRequest ==
  ASSUME IInv, NEW c \in CPU, NEW t, t = on[c], \A u \in Thread \ {t} : SameLocals(u),
         \A d \in CPU : rq'[d].migration_queue = rq[d].migration_queue,
         pc'[t] \in Migration <=> pc[t] \in Migration,
         pc[t] \in Migration => local'[t].q = local[t].q,
         Waiting(t) => Waiting(t)'
  PROVE  RequestsWait' /\ RequestsOnce'
<1>1. \A d \in CPU : migration[d] \in Thread
  BY Constants
<1>2. SamePlaces
  BY <1>1 DEF SamePlaces, SameLocals
<1>3. \A r \in Task : Waiting(r) => Waiting(r)'
  BY WaitingKept, Constants
<1> QED
  BY <1>2, <1>3, RequestsKept, Acting DEF IInv

\* Who neither creates nor releases a task shares none.
LEMMA ApartElsewhere ==
  ASSUME NEW t, pc'[t] \notin {"fork", "inactive", "inactive_lock"}
  PROVE  \A u \in Thread : Apart(t, u)'
BY DEF Apart

\* Only t goes elsewhere.
Alone(t) ==
  /\ pc' \in [Thread -> PCs] /\ local' \in [Thread -> Locals]
  /\ \A u \in Thread \ {t} : SameLocals(u)

\* A step to another place that changes no local variable.
LEMMA Stays ==
  ASSUME IInv, NEW t \in Thread, NEW place \in PCs,
         Goto(t, place) \/ (pc' = pc /\ pc[t] = place), local' = local
  PROVE  Alone(t) /\ pc'[t] = place /\ local'[t] = local[t]
BY TypeParts DEF Alone, SameLocals, Goto, IInv

\* A step of t alone that changes no task: its types, and what it leaves alone.
LEMMA Move ==
  ASSUME IInv, NEW c \in CPU, NEW t, t = on[c], on' = on, task' = task, build' = build,
         ops' \in 0 .. build.ops, Alone(t), rq' \in [CPU -> RunQueues],
         \A d \in CPU : /\ rq'[d].nr_running = rq[d].nr_running
                        /\ d # c => rq'[d].curr = rq[d].curr,
         \A e \in CPU \ {c} : SameLocks(e)
  PROVE  TypeOK' /\ Own(c, t)
<1>1. /\ on \in [CPU -> Thread] /\ task \in [Thread -> TaskStructs] /\ build \in Builds
  BY TypeParts DEF IInv
<1>2. TypeOK'
  BY <1>1, TypeParts DEF TypeOK, RunQueues, TaskStructs, Locals, Alone
<1> QED
  BY <1>2 DEF Own, Alone

\* The runqueues R with one lock set, and with the counts of two moved, by name.
SetLock(R, d, x)    == [R EXCEPT ![d].lock = x]
MoveCount(R, b, c)  == [R EXCEPT ![b].nr_running = @ - 1, ![c].nr_running = @ + 1]

\* A lock is set.
LEMMA LockSet ==
  ASSUME NEW R \in [CPU -> RunQueues], NEW d \in CPU, NEW x \in CPU \cup {NULL}
  PROVE  /\ SetLock(R, d, x) \in [CPU -> RunQueues]
         /\ \A e \in CPU : /\ SetLock(R, d, x)[e].lock = IF e = d THEN x ELSE R[e].lock
                           /\ SetLock(R, d, x)[e].nr_running = R[e].nr_running
                           /\ SetLock(R, d, x)[e].curr = R[e].curr
                           /\ SetLock(R, d, x)[e].migration_queue = R[e].migration_queue
BY DEF RunQueues, SetLock

\* A count is moved.
LEMMA CountMoved ==
  ASSUME NEW R \in [CPU -> RunQueues], NEW b \in CPU, NEW c \in CPU \ {b}
  PROVE  \A e \in CPU :
           /\ MoveCount(R, b, c)[e].lock = R[e].lock /\ MoveCount(R, b, c)[e].curr = R[e].curr
           /\ MoveCount(R, b, c)[e].migration_queue = R[e].migration_queue
           /\ MoveCount(R, b, c)[e].nr_running = IF e = b THEN R[e].nr_running - 1
                                                 ELSE IF e = c THEN R[e].nr_running + 1
                                                 ELSE R[e].nr_running
<1>1. PICK Q : Q = [R EXCEPT ![b].nr_running = @ - 1]
  OBVIOUS
<1>2. /\ DOMAIN Q = CPU /\ \A e \in CPU \ {b} : Q[e] = R[e]
      /\ Q[b] = [R[b] EXCEPT !.nr_running = @ - 1]
  BY <1>1
<1>3. PICK Z : Z = [Q EXCEPT ![c].nr_running = @ + 1]
  OBVIOUS
<1>4. MoveCount(R, b, c) = Z
  BY <1>1, <1>3 DEF MoveCount
<1>5. /\ \A e \in CPU \ {c} : Z[e] = Q[e]
      /\ Z[c] = [R[c] EXCEPT !.nr_running = @ + 1]
  BY <1>2, <1>3
<1>6. PICK k : k = R[b]
  OBVIOUS
<1>7. PICK l : l = R[c]
  OBVIOUS
<1>8. k \in RunQueues /\ l \in RunQueues
  BY <1>6, <1>7
<1>9. PICK f : f = [k EXCEPT !.nr_running = @ - 1]
  OBVIOUS
<1>10. PICK g : g = [l EXCEPT !.nr_running = @ + 1]
  OBVIOUS
<1>11. /\ f.lock = k.lock /\ f.curr = k.curr /\ f.migration_queue = k.migration_queue
       /\ f.nr_running = k.nr_running - 1
       /\ g.lock = l.lock /\ g.curr = l.curr /\ g.migration_queue = l.migration_queue
       /\ g.nr_running = l.nr_running + 1
  BY <1>8, <1>9, <1>10 DEF RunQueues
<1>12. Z[b] = f /\ Z[c] = g /\ \A e \in CPU \ {b, c} : Z[e] = R[e]
  BY <1>2, <1>5, <1>6, <1>7, <1>9, <1>10
<1> QED
  BY <1>4, <1>6, <1>7, <1>11, <1>12

\* Taking or dropping the lock of runqueue d.
LEMMA Locking ==
  ASSUME rq \in [CPU -> RunQueues], NEW c \in CPU, NEW d \in CPU, NEW x \in {NULL, c},
         rq[d].lock \in {NULL, c}, rq' = [rq EXCEPT ![d].lock = x]
  PROVE  /\ rq' \in [CPU -> RunQueues]
         /\ \A e \in CPU : /\ rq'[e].lock = IF e = d THEN x ELSE rq[e].lock
                           /\ rq'[e].nr_running = rq[e].nr_running
                           /\ rq'[e].curr = rq[e].curr
                           /\ rq'[e].migration_queue = rq[e].migration_queue
         /\ \A e \in CPU \ {c} : SameLocks(e)
<1>1. /\ rq' \in [CPU -> RunQueues]
      /\ \A e \in CPU : /\ rq'[e].lock = IF e = d THEN x ELSE rq[e].lock
                        /\ rq'[e].nr_running = rq[e].nr_running
                        /\ rq'[e].curr = rq[e].curr
                        /\ rq'[e].migration_queue = rq[e].migration_queue
  BY DEF RunQueues
<1>2. NULL \notin CPU
  BY Constants
<1>3. \A e \in CPU \ {c} : SameLocks(e)
  BY <1>1, <1>2 DEF SameLocks
<1> QED
  BY <1>1, <1>3

\* A lock that is free is taken, or one's own dropped.
Locks(c) ==
  \/ rq' = rq
  \/ \E d \in CPU, x \in {NULL, c} :
       rq[d].lock \in {NULL, c} /\ rq' = [rq EXCEPT ![d].lock = x]

\* A step of t alone that takes or drops a lock at most.
LEMMA LockMove ==
  ASSUME IInv, NEW c \in CPU, NEW t, t = on[c], task' = task, on' = on, build' = build,
         ops' \in 0 .. build.ops, Alone(t), Locks(c)
  PROVE  /\ TypeOK' /\ Own(c, t) /\ rq' \in [CPU -> RunQueues]
         /\ \A d \in CPU : /\ rq'[d].curr = rq[d].curr
                           /\ rq'[d].migration_queue = rq[d].migration_queue
<1>1. rq \in [CPU -> RunQueues]
  BY TypeParts DEF IInv
<1>2. /\ rq' \in [CPU -> RunQueues]
      /\ \A e \in CPU : /\ rq'[e].nr_running = rq[e].nr_running /\ rq'[e].curr = rq[e].curr
                        /\ rq'[e].migration_queue = rq[e].migration_queue
      /\ \A e \in CPU \ {c} : SameLocks(e)
  <2>1. CASE rq' = rq
    BY <1>1, <2>1 DEF SameLocks
  <2>2. CASE rq' # rq
    BY <1>1, <2>2, Locking DEF Locks
  <2> QED
    BY <2>1, <2>2
<1> QED
  BY <1>2, Move

\* A step within load_balance, or out of it.
LEMMA BalancingStep ==
  ASSUME IInv, TypeOK', NEW c \in CPU, NEW t, t = on[c], Own(c, t),
         pc[t] \in Balancing,
         pc'[t] \in Balancing \cup {IF local[t].tick THEN "unlock" ELSE "balanced"},
         \A f \in {"tick", "then", "q", "done"} : local'[t][f] = local[t][f],
         pc'[t] \in Balancing \ {"balance"} => local'[t].busiest \in CPU,
         rq'[c].curr = rq[c].curr,
         \A d \in CPU : rq'[d].migration_queue = rq[d].migration_queue,
         LocksOf(c)', BusiestOK(c)'
  PROVE  IInv'
<1>1. /\ t \in Thread /\ KindOK(t) /\ TaskInv(t) /\ StackOK(c)
  BY Acting DEF ThreadOK, CpuOK
<1>2. /\ local'[t].tick = local[t].tick /\ local'[t].then = local[t].then
      /\ local'[t].q = local[t].q /\ local'[t].done = local[t].done
  OBVIOUS
<1>3. KindOK(t)' /\ (~local[t].tick => Back(t)' = Back(t))
  BY <1>1, <1>2 DEF KindOK, Back, InSchedule, Balancing, Migration, Resume
<1>4. ArgsOK(t)'
  BY DEF ArgsOK, Balancing
<1>5. \A u \in Thread : Apart(t, u)'
  BY ApartElsewhere DEF Balancing
<1>6. Waiting(t) => Waiting(t)'
  <2>1. CASE local[t].tick
    BY <2>1 DEF Waiting, Back, Balancing, InSchedule
  <2> QED
    BY <1>2, <1>3, <2>1 DEF Waiting
<1>7. RequestsWait' /\ RequestsOnce'
  BY <1>6, NoRequest DEF Balancing, Migration, Own
<1>8. task[t].state \in Dead => ~local[t].tick /\ Back(t)' = "none"
  <2>1. local[t].tick => Back(t) # "none"
    BY DEF Back, Balancing, InSchedule
  <2> QED
    BY <1>1, <1>3, <2>1 DEF TaskInv
<1>9. task[t].state = "ZOMBIE" => task[t].array = NULL
  BY <1>1 DEF TaskInv, Balancing
<1>10. /\ pc'[t] # "switch" /\ rq'[c].curr = t
       /\ \/ task[t].array = c \/ t = idle[c] \/ pc'[t] \in {"pick", "balanced", "switch"}
          \/ pc'[t] \in Balancing /\ ~local'[t].tick
  BY <1>1, <1>2 DEF StackOK, Balancing
<1> QED
  BY <1>3, <1>4, <1>5, <1>7, <1>8, <1>9, <1>10, OwnStep DEF Arrives

\* Looking around without the lock of the others (sched.c:667-728).
LEMMA BalanceStep ==
  ASSUME IInv, NEW c \in CPU, NEW t, Balance(c, t)
  PROVE  IInv'
<1>1. /\ t = on[c] /\ pc[t] = "balance" /\ t \in Thread /\ ThreadOK(t) /\ CpuOK(c)
      /\ rq \in [CPU -> RunQueues] /\ local \in [Thread -> Locals] /\ pc \in [Thread -> PCs]
      /\ ops' \in 0 .. build.ops
      /\ rq' = rq /\ task' = task /\ on' = on /\ build' = build /\ Locks(c)
  BY Acting, TypeParts DEF Balance, At, IInv, Locks
<1>3. CASE local' = local /\ Return(t)
  <2> DEFINE place == IF local[t].tick THEN "unlock" ELSE "balanced"
  <2>1. Alone(t) /\ pc'[t] = place /\ local'[t] = local[t]
    <3>1. place \in PCs /\ Goto(t, place)
      BY <1>3 DEF Return, PCs
    <3> HIDE DEF place
    <3> QED
      BY <1>1, <1>3, <3>1, Stays
  <2>3. TypeOK' /\ Own(c, t)
    BY <1>1, <2>1, LockMove
  <2>2. LocksOf(c)' /\ BusiestOK(c)'
    BY <1>1, <2>1 DEF CpuOK, LocksOf, Held, BusiestOK, Balancing
  <2> QED
    BY <1>1, <2>1, <2>2, <2>3, BalancingStep DEF Balancing
<1>4. ASSUME NEW b \in CPU \ {c}, local' = [local EXCEPT ![t].busiest = b],
             Goto(t, "balance_lock")
      PROVE  IInv'
  <2>1. Alone(t) /\ pc'[t] = "balance_lock" /\ local'[t] = [local[t] EXCEPT !.busiest = b]
    <3>1. PICK l : l = [local[t] EXCEPT !.busiest = b]
      OBVIOUS
    <3>2. l \in Locals
      BY <1>1, <1>4, <3>1 DEF Locals
    <3>3. local' = [local EXCEPT ![t] = l]
      BY <1>4, <3>1
    <3>4. "balance_lock" \in PCs /\ pc' = [pc EXCEPT ![t] = "balance_lock"]
      BY <1>4 DEF PCs, Goto
    <3> QED
      BY <1>1, <3>1, <3>2, <3>3, <3>4 DEF Alone, SameLocals
  <2>2. TypeOK' /\ Own(c, t)
    BY <1>1, <2>1, LockMove
  <2>3. local'[t].busiest = b /\ \A f \in {"tick", "then", "q", "done"} : local'[t][f] = local[t][f]
    BY <1>1, <2>1 DEF Locals
  <2>4. LocksOf(c)' /\ BusiestOK(c)'
    BY <1>1, <2>1, <2>2, <2>3 DEF CpuOK, LocksOf, Held, BusiestOK, Balancing
  <2> QED
    BY <1>1, <2>1, <2>2, <2>3, <2>4, BalancingStep DEF Balancing
<1> QED
  BY <1>1, <1>3, <1>4 DEF Balance

\* Locks are taken or dropped within load_balance.
LEMMA BalanceLocks ==
  ASSUME IInv, NEW c \in CPU, NEW t, t = on[c], pc[t] \in Balancing \ {"balance"},
         NEW place \in Balancing \ {"balance"}, Goto(t, place) \/ (pc' = pc /\ place = pc[t]),
         Locks(c),
         UNCHANGED << task, on, local, ops, build >>
  PROVE  /\ TypeOK' /\ Own(c, t) /\ pc'[t] = place /\ local'[t] = local[t]
         /\ local[t].busiest \in CPU \ {c}
         /\ LocksOf(c)' /\ BusiestOK(c)' => IInv'
<1>1. /\ t \in Thread /\ ThreadOK(t) /\ CpuOK(c) /\ ops' \in 0 .. build.ops /\ place \in PCs
  BY Acting, TypeParts DEF IInv, PCs, Balancing
<1>2. Alone(t) /\ pc'[t] = place /\ local'[t] = local[t]
  BY <1>1, Stays
<1>3. /\ TypeOK' /\ Own(c, t) /\ pc'[t] = place /\ local'[t] = local[t]
      /\ \A d \in CPU : rq'[d].curr = rq[d].curr /\ rq'[d].migration_queue = rq[d].migration_queue
  BY <1>1, <1>2, LockMove
<1>4. local[t].busiest \in CPU \ {c}
  BY <1>1 DEF ThreadOK, ArgsOK, CpuOK, BusiestOK
<1>5. ASSUME LocksOf(c)' /\ BusiestOK(c)' PROVE IInv'
  BY <1>3, <1>4, <1>5, BalancingStep DEF Balancing
<1> QED
  BY <1>3, <1>4, <1>5

\* With both locks the processor may pull.
LEMMA BothLocks ==
  ASSUME NEW c \in CPU, NEW t, NEW b, on'[c] = t, pc'[t] = "pull", local'[t].busiest = b,
         b # c, \A d \in CPU : rq'[d].lock = c <=> d \in {c, b}
  PROVE  LocksOf(c)' /\ BusiestOK(c)'
<1>1. Held(c)' = {c, b}
  BY DEF Held
<1>2. BusiestOK(c)'
  BY DEF BusiestOK, Balancing
<1> QED
  BY <1>1, <1>2 DEF LocksOf

\* With the lock of the busiest runqueue it takes its own again, which comes after.
LEMMA BusiestLock ==
  ASSUME NEW c \in CPU, NEW t, NEW b, on'[c] = t, pc'[t] = "balance_relock",
         local'[t].busiest = b, b # c, b < c, rq'[b].lock = c,
         \A d \in CPU : rq'[d].lock = c <=> d = b
  PROVE  LocksOf(c)' /\ BusiestOK(c)'
<1>1. Held(c)' = {b}
  BY DEF Held
<1>2. BusiestOK(c)'
  BY DEF BusiestOK, Balancing
<1> QED
  BY <1>1, <1>2 DEF LocksOf

\* double_lock_balance (sched.c:640-657).
LEMMA DoubleLockStep ==
  ASSUME IInv, NEW c \in CPU, NEW t, double_lock_balance(c, t)
  PROVE  IInv'
<1> DEFINE b == local[t].busiest
<1>1. /\ t = on[c] /\ pc[t] = "balance_lock" /\ LocksOf(c) /\ rq \in [CPU -> RunQueues]
      /\ UNCHANGED << task, on, local, ops, build >> /\ b \in CPU \ {c}
      /\ on'[c] = t
  BY Acting DEF double_lock_balance, At, CpuOK, ThreadOK, ArgsOK, BusiestOK, Balancing
<1>2. rq[c].lock = c /\ \A d \in CPU : rq[d].lock = c => d = c
  BY <1>1 DEF LocksOf, Held
<1>3. CASE Unlocked(b) /\ Lock(c, b) /\ Goto(t, "pull")
  <2>1. rq' = [rq EXCEPT ![b].lock = c] /\ rq[b].lock = NULL /\ Locks(c)
    BY <1>1, <1>3 DEF Lock, Unlocked, Locks
  <2>2. pc'[t] = "pull" /\ local'[t] = local[t] /\ (LocksOf(c)' /\ BusiestOK(c)' => IInv')
    BY <1>1, <1>3, <2>1, BalanceLocks DEF Balancing
  <2>3. \A e \in CPU : rq'[e].lock = IF e = b THEN c ELSE rq[e].lock
    <3>1. rq' = SetLock(rq, b, c) /\ b \in CPU /\ rq \in [CPU -> RunQueues]
      BY <1>1, <2>1 DEF SetLock
    <3> HIDE DEF b
    <3> QED
      BY <3>1, LockSet
  <2>4. \A d \in CPU : rq'[d].lock = c <=> d \in {c, b}
    BY <1>1, <1>2, <2>3
  <2>5. LocksOf(c)' /\ BusiestOK(c)'
    BY <1>1, <2>2, <2>4, BothLocks
  <2> QED
    BY <2>2, <2>5
<1>4. CASE ~Unlocked(b) /\ b < c /\ Lock(NULL, c) /\ Goto(t, "balance_relock")
  <2>1. rq' = [rq EXCEPT ![c].lock = NULL] /\ Locks(c)
    BY <1>2, <1>4 DEF Lock, Locks
  <2>2. pc'[t] = "balance_relock" /\ local'[t] = local[t] /\ (LocksOf(c)' /\ BusiestOK(c)' => IInv')
    BY <1>1, <1>2, <1>4, <2>1, BalanceLocks DEF Balancing
  <2>3. LocksOf(c)' /\ BusiestOK(c)'
    BY <1>1, <1>2, <1>4, <2>1, <2>2, Locking, Constants DEF LocksOf, Held, BusiestOK, Balancing
  <2> QED
    BY <2>2, <2>3
<1>5. CASE ~Unlocked(b) /\ b > c /\ rq' = rq /\ Goto(t, "balance_spin")
  <2>1. pc'[t] = "balance_spin" /\ local'[t] = local[t] /\ (LocksOf(c)' /\ BusiestOK(c)' => IInv')
    BY <1>1, <1>5, BalanceLocks DEF Balancing, Locks
  <2>2. LocksOf(c)' /\ BusiestOK(c)'
    BY <1>1, <1>2, <1>5, <2>1 DEF LocksOf, Held, BusiestOK, Balancing
  <2> QED
    BY <2>1, <2>2
<1> QED
  BY <1>1, <1>3, <1>4, <1>5 DEF double_lock_balance

\* Spinning with the own lock held (sched.c:653).
LEMMA SpinStep ==
  ASSUME IInv, NEW c \in CPU, NEW t, SpinBusiest(c, t)
  PROVE  IInv'
<1> DEFINE b == local[t].busiest
<1>1. /\ t = on[c] /\ pc[t] = "balance_spin" /\ LocksOf(c) /\ rq \in [CPU -> RunQueues]
      /\ UNCHANGED << task, on, local, ops, build >> /\ b \in CPU \ {c} /\ on'[c] = t
      /\ Goto(t, "pull")
  BY Acting DEF SpinBusiest, At, CpuOK, ThreadOK, ArgsOK, BusiestOK, Balancing
<1>2. \A d \in CPU : rq[d].lock = c <=> d = c
  BY <1>1 DEF LocksOf, Held
<1>3. rq' = [rq EXCEPT ![b].lock = c] /\ rq[b].lock = NULL /\ Locks(c)
  BY <1>1 DEF SpinBusiest, Lock, Unlocked, Locks
<1>4. pc'[t] = "pull" /\ local'[t] = local[t] /\ (LocksOf(c)' /\ BusiestOK(c)' => IInv')
  BY <1>1, <1>3, BalanceLocks DEF Balancing
<1>5. \A e \in CPU : rq'[e].lock = IF e = b THEN c ELSE rq[e].lock
  <2>1. rq' = SetLock(rq, b, c) /\ b \in CPU /\ rq \in [CPU -> RunQueues]
    BY <1>1, <1>3 DEF SetLock
  <2> HIDE DEF b
  <2> QED
    BY <2>1, LockSet
<1>6. \A d \in CPU : rq'[d].lock = c <=> d \in {c, b}
  BY <1>1, <1>2, <1>5
<1>7. LocksOf(c)' /\ BusiestOK(c)'
  BY <1>1, <1>4, <1>6, BothLocks
<1> QED
  BY <1>4, <1>7

\* The two locks in their order, after the own was dropped (sched.c:644-652).
LEMMA RelockStep ==
  ASSUME IInv, NEW c \in CPU, NEW t, Relock(c, t)
  PROVE  IInv'
<1> DEFINE b == local[t].busiest
<1>1. /\ t = on[c] /\ pc[t] = "balance_relock" /\ LocksOf(c) /\ rq \in [CPU -> RunQueues]
      /\ UNCHANGED << task, on, local, ops, build >> /\ b \in CPU \ {c} /\ on'[c] = t /\ b < c
  BY Acting DEF Relock, At, CpuOK, ThreadOK, ArgsOK, BusiestOK, Balancing
<1>2. \A d \in CPU : rq[d].lock = c => d = b
  BY <1>1 DEF LocksOf, Held
<1>3. CASE rq[b].lock # c /\ Unlocked(b) /\ Lock(c, b) /\ pc' = pc
  <2>1. rq' = [rq EXCEPT ![b].lock = c] /\ rq[b].lock = NULL /\ Locks(c)
    BY <1>1, <1>3 DEF Lock, Unlocked, Locks
  <2>2. /\ pc'[t] = "balance_relock" /\ local'[t] = local[t]
        /\ LocksOf(c)' /\ BusiestOK(c)' => IInv'
    BY <1>1, <1>3, <2>1, BalanceLocks DEF Balancing
  <2>3. \A e \in CPU : rq'[e].lock = IF e = b THEN c ELSE rq[e].lock
    <3>1. rq' = SetLock(rq, b, c) /\ b \in CPU /\ rq \in [CPU -> RunQueues]
      BY <1>1, <2>1 DEF SetLock
    <3> HIDE DEF b
    <3> QED
      BY <3>1, LockSet
  <2>4. rq'[b].lock = c /\ b # c /\ \A d \in CPU : rq'[d].lock = c <=> d = b
    BY <1>1, <1>2, <2>3
  <2>5. LocksOf(c)' /\ BusiestOK(c)'
    BY <1>1, <2>2, <2>4, BusiestLock
  <2> QED
    BY <2>2, <2>5
<1>4. CASE rq[b].lock = c /\ Unlocked(c) /\ Lock(c, c) /\ Goto(t, "pull")
  <2>1. rq' = [rq EXCEPT ![c].lock = c] /\ rq[c].lock = NULL /\ Locks(c)
    BY <1>1, <1>4 DEF Lock, Unlocked, Locks
  <2>2. pc'[t] = "pull" /\ local'[t] = local[t] /\ (LocksOf(c)' /\ BusiestOK(c)' => IInv')
    BY <1>1, <1>4, <2>1, BalanceLocks DEF Balancing
  <2>3. \A e \in CPU : rq'[e].lock = IF e = c THEN c ELSE rq[e].lock
    <3>1. rq' = SetLock(rq, c, c) /\ rq \in [CPU -> RunQueues]
      BY <1>1, <2>1 DEF SetLock
    <3> QED
      BY <3>1, LockSet
  <2>4. \A d \in CPU : rq'[d].lock = c <=> d \in {c, b}
    BY <1>1, <1>2, <1>4, <2>3
  <2>5. LocksOf(c)' /\ BusiestOK(c)'
    BY <1>1, <2>2, <2>4, BothLocks
  <2> QED
    BY <2>2, <2>5
<1> QED
  BY <1>1, <1>3, <1>4 DEF Relock

\* The timer interrupts a task in user mode (sched.c:818-835).
LEMMA TickStep ==
  ASSUME IInv, NEW c \in CPU, NEW t, Tick(c, t)
  PROVE  IInv'
<1>1. /\ t = on[c] /\ pc[t] = "user" /\ ThreadOK(t) /\ CpuOK(c)
      /\ rq \in [CPU -> RunQueues] /\ local \in [Thread -> Locals] /\ pc \in [Thread -> PCs]
      /\ ops' \in 0 .. build.ops /\ rq' = rq /\ task' = task /\ on' = on /\ build' = build
      /\ t \in Thread /\ local' = [local EXCEPT ![t] = [@ EXCEPT !.tick = TRUE]] /\ pc' = [pc EXCEPT ![t] = "tick"]
  BY Acting, TypeParts DEF Tick, At, IInv, Goto
<1>2. /\ Alone(t) /\ pc'[t] = "tick"
      /\ local'[t].tick = TRUE /\ local'[t].q = local[t].q
  <2>1. [local[t] EXCEPT !.tick = TRUE] \in Locals
    <3>1. local[t] \in Locals
      BY <1>1
    <3> QED
      BY <3>1, Zenon DEF Locals
  <2>2. local' = [local EXCEPT ![t] = [local[t] EXCEPT !.tick = TRUE]] /\ "tick" \in PCs
    BY <1>1 DEF PCs
  <2>3. pc' \in [Thread -> PCs] /\ pc'[t] = "tick" /\ \A u \in Thread \ {t} : pc'[u] = pc[u]
    BY <1>1, <2>2
  <2>4. /\ local' \in [Thread -> Locals] /\ local'[t] = [local[t] EXCEPT !.tick = TRUE]
        /\ \A u \in Thread \ {t} : local'[u] = local[u]
    BY <1>1, <2>1, <2>2, ZenonT(30)
  <2>5. local'[t].tick = TRUE /\ local'[t].q = local[t].q
    BY <1>1, <2>4 DEF Locals
  <2> QED
    BY <2>3, <2>4, <2>5 DEF Alone, SameLocals
<1>4. TypeOK' /\ Own(c, t) /\ pc'[t] = "tick"
  BY <1>1, <1>2, LockMove DEF Locks
<1>5. KindOK(t)'
  BY <1>1, <1>2, <1>4 DEF ThreadOK, KindOK, Back, InSchedule, Balancing, Migration, Resume
<1>6. ArgsOK(t)'
  BY <1>4 DEF ArgsOK, Balancing
<1>7. LocksOf(c)' /\ BusiestOK(c)'
  BY <1>1, <1>4 DEF CpuOK, LocksOf, Held, BusiestOK, Balancing
<1>8. ~Waiting(t)
  BY <1>1 DEF Waiting, Back, InSchedule, Balancing
<1>9. RequestsWait' /\ RequestsOnce'
  BY <1>1, <1>4, <1>8, NoRequest DEF Own, Migration
<1>10. \A u \in Thread : Apart(t, u)'
  BY <1>4, ApartElsewhere
<1> QED
  BY <1>1, <1>4, <1>5, <1>6, <1>7, <1>9, <1>10, CallStep DEF InSchedule, Balancing

\* It takes the lock of its runqueue.
LEMMA TickLockStep ==
  ASSUME IInv, NEW c \in CPU, NEW t, TickLock(c, t)
  PROVE  IInv'
<1>1. /\ t = on[c] /\ pc[t] = "tick" /\ ThreadOK(t) /\ CpuOK(c)
      /\ rq \in [CPU -> RunQueues] /\ ops' \in 0 .. build.ops
      /\ task' = task /\ on' = on /\ local' = local /\ build' = build /\ t \in Thread
      /\ rq' = [rq EXCEPT ![c].lock = c] /\ rq[c].lock = NULL /\ Goto(t, "balance")
  BY Acting, TypeParts DEF TickLock, At, IInv, Lock, Unlocked
<1>2. Alone(t) /\ pc'[t] = "balance" /\ local'[t] = local[t]
  BY <1>1, Stays DEF PCs
<1>9. TypeOK' /\ Own(c, t)
  BY <1>1, <1>2, LockMove DEF Locks
<1>3. KindOK(t)'
  BY <1>1, <1>2 DEF ThreadOK, KindOK, Back, InSchedule, Balancing, Migration, Resume
<1>4. ArgsOK(t)'
  BY <1>2 DEF ArgsOK, Balancing
<1>5. LocksOf(c)' /\ BusiestOK(c)'
  BY <1>1, <1>2, Locking DEF CpuOK, LocksOf, Held, BusiestOK, Balancing
<1>6. ~Waiting(t)
  BY <1>1 DEF Waiting, Back, InSchedule, Balancing
<1>7. RequestsWait' /\ RequestsOnce'
  BY <1>1, <1>2, <1>6, <1>9, Locking, NoRequest DEF Own, Migration
<1>8. \A u \in Thread : Apart(t, u)'
  BY <1>2, ApartElsewhere
<1> QED
  BY <1>1, <1>2, <1>3, <1>4, <1>5, <1>7, <1>8, <1>9, Locking, CallStep DEF InSchedule, Balancing

-----------------------------------------------------------------------------
(* Steps on another task *)

Same(u) == /\ task'[u].cpu = task[u].cpu /\ task'[u].array = task[u].array
           /\ task'[u].cpus_allowed = task[u].cpus_allowed /\ task'[u].state = task[u].state

\* Runs on no processor, and none is about to switch to it.
Gone(p) == Off(p) /\ \A e \in CPU : pc[on[e]] = "switch" => rq[e].curr # p

\* The tasks that u is about to wake, to create or to release do not change under it.
Undisturbed(u) ==
  /\ pc[u] = "wake" => SameLife(local[u].w)
  /\ pc[u] \in {"fork", "inactive", "inactive_lock"} => SameLife(local[u].q)

\* What a step of t on c does to p leaves all others alone.
Elsewhere(c, t, p) ==
  /\ on' = on
  /\ \A u \in Thread \ {t, p} : SameLocals(u) /\ Same(u) /\ Undisturbed(u)
  /\ \A e \in CPU \ {c} : SameLocks(e) /\ rq'[e].curr = rq[e].curr

\* A step of t that touches one other task p at most keeps the invariant, when both are
\* fit for what they become.
LEMMA SubjectStep ==
  ASSUME IInv, TypeOK', NEW c \in CPU, NEW t, t = on[c], NEW p \in Thread, Elsewhere(c, t, p),
         SameCourse(p) \/ p = t \/ Gone(p),
         p = t \/ Gone(p) \/ (/\ task'[p].cpu = task[p].cpu
                              /\ task[p].array = NULL \/ task'[p].array = task[p].array
                              /\ task[p].state # "FREE" => task'[p].state # "FREE"),
         ThreadOK(t)', ThreadOK(p)', LocksOf(c)', BusiestOK(c)', StackOK(c)',
         \A d \in CPU : CountsOf(d)',
         \A u \in Thread : Apart(t, u)' /\ Apart(p, u)',
         RequestsWait', RequestsOnce'
  PROVE  IInv'
<1>1. /\ t \in Thread /\ task[t].cpu = c /\ \A d \in CPU : on[d] = t => d = c
      /\ rq \in [CPU -> RunQueues] /\ on \in [CPU -> Thread]
  BY Acting
<1>2. \A u \in Thread : ThreadOK(u)'
  <2>1. ASSUME NEW u \in Thread \ {t, p} PROVE ThreadOK(u)'
    <3>1. ThreadOK(u) /\ SameLocals(u) /\ Same(u) /\ Undisturbed(u) /\ on' = on
      BY DEF Elsewhere, IInv
    <3>2. KindOK(u)'
      BY <3>1, KindKept DEF ThreadOK
    <3>3. ArgsOK(u)'
      BY <3>1, ArgsKept DEF ThreadOK, Undisturbed
    <3>4. TaskInv(u)'
      BY <3>1, TaskKept DEF ThreadOK, Same
    <3> QED
      BY <3>2, <3>3, <3>4 DEF ThreadOK
  <2> QED
    BY <2>1
<1>3. ASSUME NEW e \in CPU \ {c} PROVE CpuOK(e)'
  <2>1. /\ on[e] \in Thread \ {t} /\ task[on[e]].cpu = e /\ ThreadOK(on[e]) /\ CpuOK(e)
        /\ on'[e] = on[e] /\ rq'[e].curr = rq[e].curr /\ rq[e].curr \in Thread
    BY <1>1, Acting DEF Elsewhere, RunQueues
  <2>2. SameCourse(on[e]) /\ SameLocks(e)
    BY <2>1 DEF Elsewhere, Gone, Off, SameLocals, SameCourse
  <2>3. LocksOf(e)'
    BY <2>1, <2>2, LocksKept DEF CpuOK, ThreadOK
  <2>4. StackOK(e)' /\ BusiestOK(e)'
    <3>1. task[on[e]].state # "FREE"
      BY <2>1 DEF CpuOK, StackOK
    <3>2. /\ task'[on[e]].cpu = e /\ task'[on[e]].state # "FREE"
          /\ task[on[e]].array = e => task'[on[e]].array = e
      BY <2>1, <3>1, Constants DEF Elsewhere, Same, Gone, Off
    <3>3. ASSUME pc[on[e]] = "switch", NEW n, n = rq[e].curr
          PROVE  task'[n].cpu = task[n].cpu /\ (task[n].array = e => task'[n].array = e)
      <4>1. task[n].cpu = e /\ n # t /\ n \in Thread
        BY <1>1, <2>1, <3>3 DEF CpuOK, StackOK
      <4>2. CASE n = p
        BY <2>1, <3>3, <4>1, <4>2, Constants DEF Gone
      <4>3. CASE n # p
        BY <4>1, <4>3 DEF Elsewhere, Same
      <4> QED
        BY <4>2, <4>3
    <3> QED
      BY <2>1, <2>2, <3>2, <3>3, StackKept DEF CpuOK
  <2> QED
    BY <2>3, <2>4 DEF CpuOK
<1>4. ASSUME NEW u \in Thread, NEW v \in Thread PROVE Apart(u, v)'
  <2>1. CASE u \in {t, p}
    BY <2>1
  <2>2. CASE v \in {t, p}
    <3>1. Apart(v, u)'
      BY <2>2
    <3> QED
      BY <3>1 DEF Apart
  <2>3. CASE u \notin {t, p} /\ v \notin {t, p}
    BY <2>3, ApartKept DEF Elsewhere, IInv
  <2> QED
    BY <2>1, <2>2, <2>3
<1>5. \A e \in CPU : CpuOK(e)'
  BY <1>3 DEF CpuOK
<1> QED
  BY <1>2, <1>4, <1>5 DEF IInv

\* Nobody's array or counter changes.
LEMMA CountsSame ==
  ASSUME IInv, \A u \in Thread : task'[u].array = task[u].array,
         \A d \in CPU : rq'[d].nr_running = rq[d].nr_running
  PROVE  \A d \in CPU : CountsOf(d)'
<1>1. \A d \in CPU : Queued(d)' = Queued(d)
  BY DEF Queued
<1> QED
  BY <1>1 DEF CountsOf, IInv, CpuOK

\* The sets of queued tasks are finite.
LEMMA QueuedFinite ==
  ASSUME NEW d \in CPU
  PROVE  IsFiniteSet(Queued(d))
<1>1. IsFiniteSet(Idlers) /\ IsFiniteSet(Migrators)
  <2>1. idle \in Surjection(CPU, Idlers) /\ migration \in Surjection(CPU, Migrators)
    BY Constants, ThreadAssumption DEF Surjection, Idlers, Migrators
  <2> QED
    BY <2>1, Constants, FS_Surjection
<1>2. IsFiniteSet(Thread)
  BY <1>1, Constants, FS_Union
<1> QED
  BY <1>2, FS_Subset DEF Queued

\* p goes from queue x to queue y; NULL stands for none.
LEMMA CountMove ==
  ASSUME IInv, NEW p \in Thread, NEW x, NEW y, task[p].array = x, task'[p].array = y, x # y,
         \A u \in Thread \ {p} : task'[u].array = task[u].array,
         \A d \in CPU : rq'[d].nr_running = IF d = x THEN rq[d].nr_running - 1
                                            ELSE IF d = y THEN rq[d].nr_running + 1
                                            ELSE rq[d].nr_running
  PROVE  \A d \in CPU : CountsOf(d)' /\ rq'[d].nr_running \in Nat
<1> SUFFICES ASSUME NEW d \in CPU PROVE CountsOf(d)' /\ rq'[d].nr_running \in Nat
  OBVIOUS
<1>1. /\ rq[d].nr_running = Cardinality(Queued(d)) /\ Cardinality(Queued(d)) \in Nat
      /\ IsFiniteSet(Queued(d))
  BY QueuedFinite, FS_CardinalityType DEF IInv, CpuOK, CountsOf
<1>2. CASE d = x
  <2>1. Queued(d)' = Queued(d) \ {p} /\ p \in Queued(d)
    BY <1>2 DEF Queued
  <2>2. Cardinality(Queued(d)') = Cardinality(Queued(d)) - 1
    BY <1>1, <2>1, FS_RemoveElement
  <2>3. Cardinality(Queued(d)') \in Nat
    BY <1>1, <2>1, FS_RemoveElement, FS_CardinalityType
  <2> QED
    BY <1>1, <1>2, <2>2, <2>3 DEF CountsOf
<1>3. CASE d = y
  <2>1. Queued(d)' = Queued(d) \cup {p} /\ p \notin Queued(d)
    BY <1>3 DEF Queued
  <2>2. Cardinality(Queued(d)') = Cardinality(Queued(d)) + 1
    BY <1>1, <2>1, FS_AddElement
  <2> QED
    BY <1>1, <1>3, <2>2 DEF CountsOf
<1>4. CASE d # x /\ d # y
  <2>1. Queued(d)' = Queued(d)
    BY <1>4 DEF Queued
  <2> QED
    BY <1>1, <1>4, <2>1 DEF CountsOf
<1> QED
  BY <1>2, <1>3, <1>4

-----------------------------------------------------------------------------
(* Calls *)

\* The effect of the beginning of a call.
LEMMA BeginEffect ==
  ASSUME IInv, NEW c \in CPU, NEW t, NEW call, NEW place \in PCs, NEW l \in Locals,
         Begin(c, t, call, place, l)
  PROVE  /\ t = on[c] /\ t \in Task /\ pc[t] = "user" /\ task[t].state \notin Dead
         /\ pc'[t] = place /\ local'[t] = l /\ Alone(t)
         /\ ops' \in 0 .. build.ops /\ rq' = rq /\ on' = on /\ build' = build
<1>1. /\ t = on[c] /\ t \in Task /\ pc[t] = "user" /\ t \in Thread /\ TaskInv(t)
      /\ local \in [Thread -> Locals] /\ pc \in [Thread -> PCs]
      /\ rq' = rq /\ on' = on /\ build' = build
      /\ local' = [local EXCEPT ![t] = l] /\ pc' = [pc EXCEPT ![t] = place]
  BY Acting DEF Begin, At, Goto, ThreadOK
<1>2. /\ pc'[t] = place /\ local'[t] = l /\ Alone(t)
  BY <1>1 DEF Alone, SameLocals
<1>3. ops' \in 0 .. build.ops
  <2>1. ops < build.ops /\ ops' = ops + 1 /\ ops \in 0 .. build.ops /\ build.ops \in Nat
    BY TypeParts, BuildAssumption DEF Begin, IInv
  <2> QED
    BY <2>1
<1>4. task[t].state \notin Dead
  BY <1>1 DEF TaskInv, Back, InSchedule, Balancing
<1> QED
  BY <1>1, <1>2, <1>3, <1>4

\* Calls that touch no other task.
LEMMA CallBegins ==
  ASSUME IInv, NEW c \in CPU, NEW t, NEW call,
         NEW place \in {"schedule", "wake", "inactive", "setscheduler", "affinity"},
         NEW l \in Locals, Begin(c, t, call, place, l), l.tick = FALSE,
         place \in {"schedule", "wake"} => l.then = "user" /\ l.q = NULL,
         task' = task \/ task' = [task EXCEPT ![t].state = "SLEEPING"],
         ArgsOK(t)', \A u \in Thread : Apart(t, u)'
  PROVE  IInv'
<1>1. /\ t = on[c] /\ t \in Task /\ pc[t] = "user" /\ task[t].state \notin Dead
      /\ pc'[t] = place /\ local'[t] = l /\ Alone(t)
      /\ ops' \in 0 .. build.ops /\ rq' = rq /\ on' = on /\ build' = build
  <2>1. place \in PCs
    BY DEF PCs
  <2> QED
    BY <2>1, BeginEffect
<1>2. /\ ThreadOK(t) /\ CpuOK(c) /\ t \in Thread \ Idlers /\ t \notin Migrators
      /\ task \in [Thread -> TaskStructs] /\ rq \in [CPU -> RunQueues]
      /\ on \in [CPU -> Thread] /\ build \in Builds
  BY <1>1, Acting, Constants, TypeParts DEF IInv
<1>3. task' \in [Thread -> TaskStructs]
  <2>1. CASE task' = task
    BY <1>2, <2>1
  <2>2. CASE task' = [task EXCEPT ![t].state = "SLEEPING"]
    <3>1. task[t] \in TaskStructs
      BY <1>2
    <3>2. [task[t] EXCEPT !.state = "SLEEPING"] \in TaskStructs
      BY <3>1 DEF TaskStructs
    <3> QED
      BY <1>2, <2>2, <3>2
  <2> QED
    BY <2>1, <2>2
<1>4. TypeOK'
  BY <1>1, <1>2, <1>3, TypeParts DEF TypeOK, RunQueues, TaskStructs, Locals, Alone
<1>5. /\ \A u \in Thread \ {t} : task'[u].state = task[u].state
      /\ \A u \in Thread : /\ task'[u].cpu = task[u].cpu /\ task'[u].array = task[u].array
                           /\ task'[u].cpus_allowed = task[u].cpus_allowed
      /\ task'[t].state = task[t].state \/ task'[t].state = "SLEEPING"
  <2>1. CASE task' = task
    BY <1>2, <2>1
  <2>2. CASE task' = [task EXCEPT ![t].state = "SLEEPING"]
    BY <1>2, <2>2 DEF TaskStructs
  <2> QED
    BY <2>1, <2>2
<1>6. Own(c, t)
  BY <1>1, <1>2, <1>5 DEF Own, Alone, Dead, SameLocks
<1>7. KindOK(t)'
  BY <1>1, <1>2 DEF KindOK, Back, InSchedule, Balancing, Migration, Resume
<1>8. LocksOf(c)' /\ BusiestOK(c)'
  BY <1>1, <1>2 DEF CpuOK, LocksOf, Held, BusiestOK, Balancing
<1>9. ~Waiting(t)
  BY <1>1 DEF Waiting, Back, InSchedule, Balancing
<1>10. RequestsWait' /\ RequestsOnce'
  BY <1>1, <1>9, NoRequest DEF Alone, Migration
<1> QED
  BY <1>1, <1>4, <1>6, <1>7, <1>8, <1>10, CallStep DEF InSchedule, Balancing

\* A process on a wait queue gives way.
LEMMA SleepStep ==
  ASSUME IInv, NEW c \in CPU, NEW t, Sleep(c, t)
  PROVE  IInv'
<1> DEFINE l == [NoLocal EXCEPT !.then = "user"]
<1>1. l \in Locals /\ l.tick = FALSE /\ l.then = "user" /\ l.q = NULL
  BY DEF NoLocal, Locals, PCs
<1>2. Begin(c, t, "sleep", "schedule", l) /\ task' = [task EXCEPT ![t].state = "SLEEPING"]
  BY DEF Sleep
<1> HIDE DEF l
<1>3. pc'[t] = "schedule"
  BY <1>1, <1>2, BeginEffect DEF PCs
<1>4. ArgsOK(t)' /\ \A u \in Thread : Apart(t, u)'
  BY <1>3, ApartElsewhere DEF ArgsOK, Balancing
<1> QED
  BY <1>1, <1>2, <1>4, CallBegins

\* wake_up of a process on a wait queue begins.
LEMMA WakeStep ==
  ASSUME IInv, NEW c \in CPU, NEW t, Wake(c, t)
  PROVE  IInv'
<1>1. PICK q \in Task \ {t}, sync \in BOOLEAN :
        /\ task[q].state = "SLEEPING" /\ task' = task
        /\ Begin(c, t, "wake", "wake", [NoLocal EXCEPT !.w = q, !.sync = sync, !.then = "user"])
  BY DEF Wake
<1> DEFINE l == [NoLocal EXCEPT !.w = q, !.sync = sync, !.then = "user"]
<1>2. l \in Locals
  BY Constants, Zenon DEF NoLocal, Locals, PCs
<1>3. l.tick = FALSE /\ l.then = "user" /\ l.q = NULL /\ l.w = q
  BY DEF NoLocal
<1>p. "wake" \in PCs
  BY DEF PCs
<1>b. Begin(c, t, "wake", "wake", l)
  BY <1>1
<1> HIDE DEF l
<1>4. pc'[t] = "wake" /\ local'[t] = l
  BY <1>2, <1>b, <1>p, BeginEffect
<1>5. ArgsOK(t)' /\ \A u \in Thread : Apart(t, u)'
  BY <1>1, <1>3, <1>4, ApartElsewhere DEF ArgsOK, Balancing, Dead
<1> QED
  BY <1>1, <1>2, <1>3, <1>5, <1>b, CallBegins

\* release_task begins.
LEMMA ReleaseStep ==
  ASSUME IInv, NEW c \in CPU, NEW t, Release(c, t)
  PROVE  IInv'
<1>1. PICK q \in Task :
        /\ task[q].state = "ZOMBIE" /\ \A u \in Thread : local[u].q # q
        /\ Begin(c, t, "exit", "inactive", [NoLocal EXCEPT !.q = q]) /\ task' = task
  BY DEF Release
<1> DEFINE l == [NoLocal EXCEPT !.q = q]
<1>2. l \in Locals /\ l.tick = FALSE /\ l.q = q
  BY DEF NoLocal, Locals, PCs
<1>p. "inactive" \in PCs
  BY DEF PCs
<1>b. Begin(c, t, "exit", "inactive", l)
  BY <1>1
<1> HIDE DEF l
<1>3. pc'[t] = "inactive" /\ local'[t] = l /\ Alone(t)
  BY <1>2, <1>b, <1>p, BeginEffect
<1>4. ArgsOK(t)'
  BY <1>1, <1>2, <1>3 DEF ArgsOK, Balancing
<1>5. \A u \in Thread : Apart(t, u)'
  BY <1>1, <1>2, <1>3 DEF Apart, Alone, SameLocals
<1> QED
  BY <1>1, <1>2, <1>4, <1>5, <1>b, CallBegins

\* sys_sched_setaffinity begins.
LEMMA SetaffinityStep ==
  ASSUME IInv, NEW c \in CPU, NEW t, Setaffinity(c, t)
  PROVE  IInv'
<1>1. PICK q \in Task, mask \in (SUBSET CPU) \ {{}} :
        /\ Begin(c, t, "affinity", "affinity", [NoLocal EXCEPT !.q = q, !.mask = mask])
        /\ task' = task
  BY DEF Setaffinity
<1> DEFINE l == [NoLocal EXCEPT !.q = q, !.mask = mask]
<1>2. l \in Locals
  BY DEF NoLocal, Locals, PCs
<1>3. l.q = q /\ l.mask = mask
  BY DEF NoLocal
<1>6. l.tick = FALSE /\ l.done = FALSE
  BY DEF NoLocal
<1>p. "affinity" \in PCs
  BY DEF PCs
<1>b. Begin(c, t, "affinity", "affinity", l)
  BY <1>1
<1> HIDE DEF l
<1>4. pc'[t] = "affinity" /\ local'[t] = l
  BY <1>2, <1>b, <1>p, BeginEffect
<1>5. ArgsOK(t)' /\ \A u \in Thread : Apart(t, u)'
  <2>1. ~local'[t].done
    BY <1>4, <1>6, Zenon
  <2>2. ArgsOK(t)'
    <3>1. local'[t].q = q /\ local'[t].mask = mask /\ mask # {} /\ q \in Task
      BY <1>1, <1>3, <1>4
    <3> QED
      BY <1>4, <2>1, <3>1 DEF ArgsOK, Balancing
  <2> QED
    BY <2>2, <1>4, ApartElsewhere
<1> QED
  BY <1>1, <1>2, <1>3, <1>5, <1>6, <1>b, CallBegins

\* The fields of the local variables of a task that is in no call.
LEMMA NoLocalFields ==
  /\ NoLocal \in Locals /\ NoLocal.q = NULL /\ NoLocal.then = "none" /\ NoLocal.mask = {}
  /\ ~NoLocal.tick /\ ~NoLocal.done
<1>1. NoLocal \in Locals /\ NoLocal.q = NULL /\ NoLocal.then = "none" /\ NoLocal.mask = {}
  BY DEF NoLocal, Locals, PCs
<1>2. ~NoLocal.tick /\ ~NoLocal.done
  BY DEF NoLocal
<1> QED
  BY <1>1, <1>2

\* The end of a call.
LEMMA ToUser ==
  ASSUME IInv, TypeOK', NEW c \in CPU, NEW t, t = on[c], Own(c, t), t \notin Migrators,
         pc[t] \notin InSchedule \cup Balancing \cup {"none"} \cup Migration, ~Waiting(t),
         pc'[t] = "user", local'[t] = NoLocal, LocksOf(c)',
         \A d \in CPU : /\ rq'[d].curr = rq[d].curr
                        /\ rq'[d].migration_queue = rq[d].migration_queue
  PROVE  IInv'
<1>1. ~local'[t].tick /\ local'[t].q = NULL
  BY NoLocalFields
<1>2. KindOK(t)'
  BY <1>1 DEF KindOK, Back, InSchedule, Balancing, Migration
<1>3. ArgsOK(t)' /\ BusiestOK(c)'
  BY DEF ArgsOK, BusiestOK, Balancing, Own
<1>4. RequestsWait' /\ RequestsOnce'
  BY NoRequest DEF Own, Migration
<1>5. \A u \in Thread : Apart(t, u)'
  BY ApartElsewhere
<1> QED
  BY <1>2, <1>3, <1>4, <1>5, CallStep

\* The lock is dropped at the end of scheduler_tick.
LEMMA UnlockStep ==
  ASSUME IInv, NEW c \in CPU, NEW t, Unlock(c, t)
  PROVE  IInv'
<1>1. /\ t = on[c] /\ pc[t] = "unlock" /\ ThreadOK(t) /\ CpuOK(c) /\ t \in Thread
      /\ rq \in [CPU -> RunQueues] /\ local \in [Thread -> Locals] /\ pc \in [Thread -> PCs]
      /\ ops' \in 0 .. build.ops /\ task' = task /\ on' = on /\ build' = build
      /\ local' = [local EXCEPT ![t] = NoLocal] /\ pc' = [pc EXCEPT ![t] = "user"]
  BY Acting, TypeParts DEF Unlock, At, Goto, IInv
<1>2. local[t].q = NULL /\ t \notin Migrators
  BY <1>1 DEF ThreadOK, KindOK, Back, InSchedule, Balancing, Migration
<1>3. /\ \A d \in CPU : rq[d].lock = c <=> d = c
      /\ rq' = [rq EXCEPT ![c].lock = NULL]
  BY <1>1, <1>2 DEF CpuOK, LocksOf, Held, Unlock, Lock
<1>4. Alone(t) /\ pc'[t] = "user" /\ local'[t] = NoLocal
  <2>1. NoLocal \in Locals /\ "user" \in PCs
    BY NoLocalFields DEF PCs
  <2> QED
    BY <1>1, <2>1 DEF Alone, SameLocals
<1>5. Locks(c)
  BY <1>3 DEF Locks
<1>6. /\ TypeOK' /\ Own(c, t)
      /\ \A d \in CPU : /\ rq'[d].curr = rq[d].curr
                        /\ rq'[d].migration_queue = rq[d].migration_queue
  BY <1>1, <1>4, <1>5, LockMove
<1>7. LocksOf(c)'
  <2>1. \A d \in CPU : rq'[d].lock = IF d = c THEN NULL ELSE rq[d].lock
    BY <1>1, <1>3, Locking
  <2> QED
    BY <1>1, <1>3, <1>4, <2>1, Constants DEF LocksOf, Held
<1>8. ~Waiting(t)
  BY <1>1 DEF Waiting, Back, InSchedule, Balancing
<1> QED
  BY <1>1, <1>2, <1>4, <1>6, <1>7, <1>8, ToUser DEF InSchedule, Balancing, Migration

\* A process gives way at the end of its time, the idle task when it is told to.
LEMMA PreemptStep ==
  ASSUME IInv, NEW c \in CPU, NEW t, Preempt(c, t)
  PROVE  IInv'
<1>1. /\ t = on[c] /\ pc[t] = "user" /\ ThreadOK(t) /\ CpuOK(c) /\ t \in Thread
      /\ rq \in [CPU -> RunQueues] /\ local \in [Thread -> Locals] /\ pc \in [Thread -> PCs]
      /\ ops' \in 0 .. build.ops /\ rq' = rq /\ task' = task /\ on' = on /\ build' = build
      /\ local' = [local EXCEPT ![t].then = "user"] /\ pc' = [pc EXCEPT ![t] = "schedule"]
  BY Acting, TypeParts DEF Preempt, At, Goto, IInv
<1>2. /\ Alone(t) /\ pc'[t] = "schedule"
      /\ local'[t].then = "user" /\ local'[t].q = local[t].q /\ local'[t].tick = local[t].tick
  BY <1>1 DEF Alone, SameLocals, PCs, Locals
<1>3. TypeOK' /\ Own(c, t)
  BY <1>1, <1>2, LockMove DEF Locks
<1>4. KindOK(t)'
  BY <1>1, <1>2 DEF ThreadOK, KindOK, Back, InSchedule, Balancing, Migration, Resume
<1>5. ArgsOK(t)' /\ \A u \in Thread : Apart(t, u)'
  BY <1>2, ApartElsewhere DEF ArgsOK, Balancing
<1>6. LocksOf(c)' /\ BusiestOK(c)'
  BY <1>1, <1>2 DEF CpuOK, LocksOf, Held, BusiestOK, Balancing
<1>7. ~Waiting(t)
  BY <1>1 DEF Waiting, Back, InSchedule, Balancing
<1>8. RequestsWait' /\ RequestsOnce'
  BY <1>1, <1>3, <1>7, <1>2, NoRequest DEF Own, Migration
<1> QED
  BY <1>1, <1>2, <1>3, <1>4, <1>5, <1>6, <1>8, CallStep DEF InSchedule, Balancing

\* setscheduler, when it leaves the policy alone or drops the lock itself.
LEMMA SetschedulerStep ==
  ASSUME LocksFree, IInv, NEW c \in CPU, NEW t, setscheduler(c, t)
  PROVE  IInv'
<1>1. ASSUME NEW q \in Task, task' = task,
             Begin(c, t, "setscheduler", "setscheduler", [NoLocal EXCEPT !.q = q])
      PROVE  IInv'
  <2> DEFINE l == [NoLocal EXCEPT !.q = q]
  <2>1. l \in Locals /\ l.tick = FALSE /\ l.q = q
    BY DEF NoLocal, Locals, PCs
  <2>2. Begin(c, t, "setscheduler", "setscheduler", l)
    BY <1>1
  <2>3. "setscheduler" \in PCs
    BY DEF PCs
  <2> HIDE DEF l
  <2>4. pc'[t] = "setscheduler" /\ local'[t] = l
    BY <2>1, <2>2, <2>3, BeginEffect
  <2>5. ArgsOK(t)' /\ \A u \in Thread : Apart(t, u)'
    BY <2>1, <2>4, ApartElsewhere DEF ArgsOK, Balancing
  <2> QED
    BY <1>1, <2>1, <2>2, <2>5, CallBegins
<1>2. CASE At(c, t, "setscheduler") /\ rq' = rq /\ local' = [local EXCEPT ![t] = NoLocal]
           /\ Goto(t, "user") /\ UNCHANGED << task, on, ops, build >>
  <2>1. /\ t = on[c] /\ pc[t] = "setscheduler" /\ ThreadOK(t) /\ CpuOK(c) /\ t \in Thread
        /\ rq \in [CPU -> RunQueues] /\ local \in [Thread -> Locals] /\ pc \in [Thread -> PCs]
        /\ ops' \in 0 .. build.ops /\ rq' = rq /\ task' = task /\ on' = on /\ build' = build
        /\ local' = [local EXCEPT ![t] = NoLocal] /\ pc' = [pc EXCEPT ![t] = "user"]
    BY <1>2, Acting, TypeParts DEF At, Goto, IInv
  <2>2. Alone(t) /\ pc'[t] = "user" /\ local'[t] = NoLocal
    <3>1. NoLocal \in Locals /\ "user" \in PCs
      BY NoLocalFields DEF PCs
    <3> QED
      BY <2>1, <3>1 DEF Alone, SameLocals
  <2>3. TypeOK' /\ Own(c, t)
    BY <2>1, <2>2, LockMove DEF Locks
  <2>4. LocksOf(c)'
    BY <2>1, <2>2 DEF CpuOK, LocksOf, Held
  <2>5. t \notin Migrators
    BY <2>1 DEF ThreadOK, KindOK, InSchedule, Balancing, Migration
  <2>6. ~Waiting(t)
    BY <2>1 DEF Waiting, Back, InSchedule, Balancing
  <2> QED
    BY <2>1, <2>2, <2>3, <2>4, <2>5, <2>6, ToUser DEF InSchedule, Balancing, Migration
<1>3. ~build.short
  BY TypeParts DEF IInv, LocksFree
<1> QED
  BY <1>1, <1>2, <1>3 DEF setscheduler

-----------------------------------------------------------------------------
(* The semaphore of a migration request *)

\* A step of t alone that sets its state.
LEMMA StateMove ==
  ASSUME IInv, NEW c \in CPU, NEW t, t = on[c], t \notin Idlers, task[t].state \notin Dead,
         NEW s \in {"RUNNING", "SLEEPING"}, task' = [task EXCEPT ![t].state = s],
         on' = on, build' = build, ops' \in 0 .. build.ops, Alone(t),
         rq' \in [CPU -> RunQueues],
         \A d \in CPU : /\ rq'[d].nr_running = rq[d].nr_running
                        /\ rq'[d].curr = rq[d].curr /\ rq'[d].lock = rq[d].lock
  PROVE  TypeOK' /\ Own(c, t)
<1>1. /\ t \in Thread /\ on \in [CPU -> Thread] /\ task \in [Thread -> TaskStructs]
      /\ build \in Builds
  BY TypeParts, Acting DEF IInv
<1>2. task' \in [Thread -> TaskStructs] /\ task'[t].state = s
  <2>1. task[t] \in TaskStructs /\ s \in {"FREE", "RUNNING", "SLEEPING", "ZOMBIE"}
    BY <1>1
  <2>2. [task[t] EXCEPT !.state = s] \in TaskStructs /\ [task[t] EXCEPT !.state = s].state = s
    BY <2>1 DEF TaskStructs
  <2> QED
    BY <1>1, <2>2
<1>3. /\ \A u \in Thread \ {t} : task'[u].state = task[u].state
      /\ \A u \in Thread : /\ task'[u].cpu = task[u].cpu /\ task'[u].array = task[u].array
                           /\ task'[u].cpus_allowed = task[u].cpus_allowed
  BY <1>1 DEF TaskStructs
<1>4. TypeOK'
  BY <1>1, <1>2, TypeParts DEF TypeOK, RunQueues, TaskStructs, Locals, Alone
<1>5. s \notin Dead
  BY DEF Dead
<1> QED
  BY <1>2, <1>3, <1>4, <1>5 DEF Own, Alone, SameLocks

\* A task of a user that waits for its migration.
LEMMA InDown ==
  ASSUME IInv, NEW c \in CPU, NEW t, t = on[c], pc[t] \in {"down", "down_check"}
  PROVE  /\ t \in Thread /\ t \notin Idlers /\ t \notin Migrators /\ t \in Task
         /\ task[t].state \notin Dead /\ ThreadOK(t) /\ CpuOK(c)
         /\ local \in [Thread -> Locals] /\ pc \in [Thread -> PCs] /\ rq \in [CPU -> RunQueues]
         /\ task \in [Thread -> TaskStructs]
         /\ ops \in 0 .. build.ops
<1>1. /\ t \in Thread /\ ThreadOK(t) /\ CpuOK(c) /\ local \in [Thread -> Locals]
      /\ pc \in [Thread -> PCs] /\ rq \in [CPU -> RunQueues] /\ task \in [Thread -> TaskStructs]
      /\ ops \in 0 .. build.ops
  BY Acting, TypeParts DEF IInv
<1>2. t \notin Idlers /\ t \notin Migrators
  BY <1>1 DEF ThreadOK, KindOK, Balancing, InSchedule, Migration
<1>3. t \in Task
  BY <1>1, <1>2, Constants
<1>4. task[t].state \notin Dead
  BY <1>1 DEF ThreadOK, TaskInv, Back, InSchedule, Balancing
<1> QED
  BY <1>1, <1>2, <1>3, <1>4

\* down: the process goes to sleep on the semaphore of its request, and looks again.
LEMMA DownStep ==
  ASSUME IInv, NEW c \in CPU, NEW t, Down(c, t)
  PROVE  IInv'
<1>1. /\ t = on[c] /\ pc[t] = "down" /\ Goto(t, "down_check")
      /\ task' = [task EXCEPT ![t].state = "SLEEPING"]
      /\ rq' = rq /\ on' = on /\ local' = local /\ ops' = ops /\ build' = build
  BY DEF Down, At
<1>2. Alone(t) /\ pc'[t] = "down_check" /\ local'[t] = local[t]
  BY <1>1, InDown, Stays DEF PCs
<1>3. TypeOK' /\ Own(c, t)
  BY <1>1, <1>2, InDown, StateMove
<1>4. KindOK(t)'
  BY <1>1, <1>2, InDown DEF ThreadOK, KindOK, Back, InSchedule, Balancing, Migration, Resume
<1>5. ArgsOK(t)' /\ \A u \in Thread : Apart(t, u)'
  BY <1>2, ApartElsewhere DEF ArgsOK, Balancing
<1>6. LocksOf(c)' /\ BusiestOK(c)'
  <2>1. LocksOf(c) /\ on'[c] = t
    BY <1>1, InDown DEF CpuOK
  <2> QED
    BY <1>1, <1>2, <2>1 DEF LocksOf, Held, BusiestOK, Balancing
<1>7. Waiting(t) => Waiting(t)'
  BY <1>1, <1>2 DEF Waiting, Back, InSchedule, Balancing
<1>8. RequestsWait' /\ RequestsOnce'
  BY <1>1, <1>2, <1>3, <1>7, NoRequest DEF Own, Migration
<1> QED
  BY <1>1, <1>2, <1>3, <1>4, <1>5, <1>6, <1>8, CallStep DEF InSchedule, Balancing

\* It goes on if the semaphore was given, and gives way if not.
LEMMA DownCheckStep ==
  ASSUME IInv, NEW c \in CPU, NEW t, DownCheck(c, t)
  PROVE  IInv'
<1>1. /\ t = on[c] /\ pc[t] = "down_check"
      /\ rq' = rq /\ on' = on /\ ops' = ops /\ build' = build
  BY DEF DownCheck, At
<1>2. CASE /\ local[t].done /\ task' = [task EXCEPT ![t].state = "RUNNING"]
           /\ local' = [local EXCEPT ![t] = NoLocal] /\ Goto(t, "user")
  <2>1. Alone(t) /\ pc'[t] = "user" /\ local'[t] = NoLocal
    <3>1. NoLocal \in Locals /\ "user" \in PCs
      BY NoLocalFields DEF PCs
    <3>2. local' = [local EXCEPT ![t] = NoLocal] /\ pc' = [pc EXCEPT ![t] = "user"]
      BY <1>2 DEF Goto
    <3> QED
      BY <1>1, <3>1, <3>2, InDown DEF Alone, SameLocals
  <2>2. task' = [task EXCEPT ![t].state = "RUNNING"]
    BY <1>2
  <2>3. TypeOK' /\ Own(c, t)
    BY <1>1, <2>1, <2>2, InDown, StateMove
  <2>4. LocksOf(c)'
    <3>1. LocksOf(c) /\ on'[c] = t
      BY <1>1, InDown DEF CpuOK
    <3>2. Held(c) = {} /\ Held(c)' = {}
      BY <1>1, <2>1, <3>1 DEF Held
    <3> QED
      BY <1>1, <3>1, <3>2 DEF LocksOf
  <2>5. ~Waiting(t)
    BY <1>2 DEF Waiting
  <2> QED
    BY <1>1, <2>1, <2>3, <2>4, <2>5, InDown, ToUser DEF InSchedule, Balancing, Migration
<1>3. CASE /\ task' = task /\ local' = [local EXCEPT ![t].then = "down"] /\ Goto(t, "schedule")
  <2>1. /\ Alone(t) /\ pc'[t] = "schedule" /\ local'[t].then = "down"
        /\ local'[t].q = local[t].q /\ local'[t].tick = local[t].tick
        /\ local'[t].done = local[t].done
    BY <1>1, <1>3, InDown DEF Goto, Alone, SameLocals, PCs, Locals
  <2>2. TypeOK' /\ Own(c, t)
    BY <1>1, <1>3, <2>1, InDown, LockMove DEF Locks
  <2>3. KindOK(t)'
    BY <1>1, <2>1, InDown DEF ThreadOK, KindOK, Back, InSchedule, Balancing, Migration, Resume
  <2>4. ArgsOK(t)' /\ \A u \in Thread : Apart(t, u)'
    BY <2>1, ApartElsewhere DEF ArgsOK, Balancing
  <2>5. LocksOf(c)' /\ BusiestOK(c)'
    <3>1. LocksOf(c) /\ on'[c] = t
      BY <1>1, InDown DEF CpuOK
    <3> QED
      BY <1>1, <2>1, <3>1 DEF LocksOf, Held, BusiestOK, Balancing
  <2>6. Waiting(t) => Waiting(t)'
    BY <1>1, <2>1 DEF Waiting, Back, InSchedule, Balancing
  <2>7. RequestsWait' /\ RequestsOnce'
    BY <1>1, <2>1, <2>2, <2>6, NoRequest DEF Own, Migration
  <2> QED
    BY <1>1, <2>1, <2>2, <2>3, <2>4, <2>5, <2>7, CallStep DEF InSchedule, Balancing
<1> QED
  BY <1>2, <1>3 DEF DownCheck

-----------------------------------------------------------------------------
(* The migration threads *)

\* The task of the request that a migration thread has in hand.
LEMMA Requested ==
  ASSUME IInv, NEW c \in CPU, NEW t, t = on[c], pc[t] \in Migration
  PROVE  /\ t = migration[c] /\ t \in Migrators /\ t \in Thread /\ ThreadOK(t) /\ CpuOK(c)
         /\ Waiting(local[t].q) /\ local[t].q \in Task /\ ReqTask(t) \in Task
         /\ task[t].state \notin Dead
<1>1. t \in Thread /\ ThreadOK(t) /\ CpuOK(c) /\ task[t].cpu = c
  BY Acting
<1>2. t \in Migrators
  BY <1>1, Constants DEF ThreadOK, KindOK, Balancing, InSchedule, Migration
<1>3. t = migration[c] /\ task[t].state \notin Dead
  BY <1>1, <1>2, Constants DEF ThreadOK, TaskInv
<1>4. 0 \in Places(c) /\ ReqAt(c, 0) = local[t].q
  BY <1>3 DEF Places, ReqAt
<1>5. Waiting(local[t].q)
  <2>1. PICK r : r = ReqAt(c, 0)
    OBVIOUS
  <2>2. Waiting(r)
    BY <1>4, <2>1 DEF IInv, RequestsWait
  <2> QED
    BY <1>4, <2>1, <2>2
<1> QED
  BY <1>1, <1>2, <1>3, <1>5 DEF Waiting, ReqTask

\* A migration thread goes on with its request, and takes a lock at most.
LEMMA MigrationMove ==
  ASSUME IInv, NEW c \in CPU, NEW t, t = on[c], pc[t] \in Migration, pc'[t] \in Migration,
         task' = task, on' = on, build' = build, ops' \in 0 .. build.ops, Alone(t), Locks(c),
         local'[t].q = local[t].q, local'[t].tick = local[t].tick, ArgsOK(t)', LocksOf(c)'
  PROVE  IInv'
<1>1. /\ TypeOK' /\ Own(c, t)
      /\ \A d \in CPU : rq'[d].curr = rq[d].curr /\ rq'[d].migration_queue = rq[d].migration_queue
  BY LockMove
<1>2. t \in Migrators /\ ThreadOK(t) /\ t \notin Task /\ t \notin Idlers
  BY Requested, Constants
<1>3. KindOK(t)'
  BY <1>2 DEF ThreadOK, KindOK, Back, InSchedule, Balancing, Migration, Resume
<1>4. BusiestOK(c)'
  BY <1>1 DEF BusiestOK, Balancing, Migration, Own
<1>5. ~Waiting(t)
  BY <1>2 DEF Waiting
<1>6. RequestsWait' /\ RequestsOnce'
  BY <1>1, <1>5, NoRequest DEF Own
<1>7. \A u \in Thread : Apart(t, u)'
  BY ApartElsewhere DEF Migration
<1> QED
  BY <1>1, <1>3, <1>4, <1>6, <1>7, CallStep DEF InSchedule, Balancing, Migration

\* What a migration thread's step starts from.
LEMMA MigrationTypes ==
  ASSUME IInv, NEW c \in CPU, NEW t, t = on[c], pc[t] \in Migration
  PROVE  /\ t \in Thread /\ ThreadOK(t) /\ CpuOK(c) /\ ReqTask(t) \in Thread
         /\ rq \in [CPU -> RunQueues] /\ local \in [Thread -> Locals] /\ pc \in [Thread -> PCs]
         /\ task[ReqTask(t)].cpu \in CPU
         /\ First(task[ReqTask(t)].cpus_allowed) \in CPU
         /\ ops \in 0 .. build.ops
<1>1. /\ t \in Thread /\ ThreadOK(t) /\ CpuOK(c) /\ ReqTask(t) \in Thread
  BY Requested, Constants
<1>2. /\ rq \in [CPU -> RunQueues] /\ local \in [Thread -> Locals] /\ pc \in [Thread -> PCs]
      /\ task \in [Thread -> TaskStructs] /\ ops \in 0 .. build.ops
  BY TypeParts DEF IInv
<1>3. /\ task[ReqTask(t)].cpu \in CPU /\ task[ReqTask(t)].cpus_allowed \in SUBSET CPU
      /\ task[ReqTask(t)].cpus_allowed # {}
  BY <1>1, <1>2 DEF TaskStructs, IInv, ThreadOK, TaskInv
<1>4. First(task[ReqTask(t)].cpus_allowed) \in CPU
  BY <1>3, FirstLeast
<1> QED
  BY <1>1, <1>2, <1>3, <1>4

\* The destination is read without a lock (sched.c:2318-2320).
LEMMA ReadDestStep ==
  ASSUME IInv, NEW c \in CPU, NEW t, ReadDest(c, t)
  PROVE  IInv'
<1>1. /\ t = on[c] /\ pc[t] = "migrate_dest" /\ Goto(t, "migrate_src")
      /\ rq' = rq /\ task' = task /\ on' = on /\ ops' = ops /\ build' = build
  BY DEF ReadDest, At
<1>2. PICK d \in CPU : local' = [local EXCEPT ![t].dest = d]
  BY <1>1, MigrationTypes DEF ReadDest, Migration
<1>3. /\ Alone(t) /\ pc'[t] = "migrate_src" /\ local'[t].dest = d
      /\ local'[t].q = local[t].q /\ local'[t].tick = local[t].tick
  <2>1. /\ t \in Thread /\ local \in [Thread -> Locals] /\ pc \in [Thread -> PCs]
    BY <1>1, MigrationTypes DEF Migration
  <2> QED
    BY <1>1, <1>2, <2>1 DEF Alone, SameLocals, PCs, Locals, Goto
<1>4. ArgsOK(t)'
  BY <1>3 DEF ArgsOK, Balancing
<1>5. LocksOf(c)'
  <2>1. LocksOf(c) /\ on'[c] = t
    BY <1>1, Acting DEF CpuOK
  <2> QED
    BY <1>1, <1>3, <2>1 DEF LocksOf, Held
<1>6. ops' \in 0 .. build.ops /\ Locks(c) /\ pc[t] \in Migration /\ pc'[t] \in Migration
  BY <1>1, <1>3, MigrationTypes DEF Locks, Migration
<1> QED
  BY <1>1, <1>3, <1>4, <1>5, <1>6, MigrationMove

\* So is the source (sched.c:2321-2323).
LEMMA ReadSrcStep ==
  ASSUME IInv, NEW c \in CPU, NEW t, ReadSrc(c, t)
  PROVE  IInv'
<1>1. /\ t = on[c] /\ pc[t] = "migrate_src" /\ Goto(t, "migrate_lock1")
      /\ rq' = rq /\ task' = task /\ on' = on /\ ops' = ops /\ build' = build
  BY DEF ReadSrc, At
<1>2. PICK d \in CPU : local' = [local EXCEPT ![t].src = d]
  BY <1>1, MigrationTypes DEF ReadSrc, Migration
<1>3. /\ Alone(t) /\ pc'[t] = "migrate_lock1" /\ local'[t].src = d
      /\ local'[t].dest = local[t].dest
      /\ local'[t].q = local[t].q /\ local'[t].tick = local[t].tick
  <2>1. /\ t \in Thread /\ local \in [Thread -> Locals] /\ pc \in [Thread -> PCs]
    BY <1>1, MigrationTypes DEF Migration
  <2> QED
    BY <1>1, <1>2, <2>1 DEF Alone, SameLocals, PCs, Locals, Goto
<1>4. ArgsOK(t)'
  <2>1. local[t].dest \in CPU
    BY <1>1, Acting DEF ThreadOK, ArgsOK
  <2> QED
    BY <1>3, <2>1 DEF ArgsOK, Balancing
<1>5. LocksOf(c)'
  <2>1. LocksOf(c) /\ on'[c] = t
    BY <1>1, Acting DEF CpuOK
  <2> QED
    BY <1>1, <1>3, <2>1 DEF LocksOf, Held
<1>6. ops' \in 0 .. build.ops /\ Locks(c) /\ pc[t] \in Migration /\ pc'[t] \in Migration
  BY <1>1, <1>3, MigrationTypes DEF Locks, Migration
<1> QED
  BY <1>1, <1>3, <1>4, <1>5, <1>6, MigrationMove

\* The order in which two runqueues are locked.
Second(S) == CHOOSE d \in S : d >= First(S) /\ \A e \in S : d >= e

\* Of two runqueues the first and the second are the two, in the order of their addresses.
LEMMA Ordered ==
  ASSUME NEW a \in CPU, NEW b \in CPU
  PROVE  LET f == First({a, b})
             s == Second({a, b})
         IN  /\ f \in CPU /\ s \in CPU /\ {f, s} = {a, b} /\ (f = s <=> a = b)
             /\ f # s => f < s
<1> DEFINE S == {a, b}
           f == First(S)
           s == Second(S)
<1>1. S \in SUBSET CPU /\ S # {} /\ S \subseteq Nat
  BY Constants
<1>2. f \in S /\ \A d \in S : f <= d
  BY <1>1, FirstLeast
<1>3. \E d \in S : d >= f /\ \A e \in S : d >= e
  <2>1. PICK g \in S : \A d \in S : d <= g
    BY <1>1, Greatest
  <2> QED
    BY <1>1, <1>2, <2>1
<1>4. s \in S /\ s >= f /\ \A e \in S : s >= e
  BY <1>3, Zenon DEF Second
<1> HIDE DEF f, s
<1>5. f \in Nat /\ s \in Nat /\ a \in Nat /\ b \in Nat /\ f \in CPU /\ s \in CPU
  BY <1>1, <1>2, <1>4
<1>6. a = b => f = a /\ s = a
  BY <1>2, <1>4
<1>7. a < b => f = a /\ s = b
  BY <1>2, <1>4, <1>5
<1>8. b < a => f = b /\ s = a
  BY <1>2, <1>4, <1>5
<1>9. f \in CPU /\ s \in CPU /\ {f, s} = {a, b} /\ (f = s <=> a = b) /\ (f # s => f < s)
  BY <1>5, <1>6, <1>7, <1>8
<1> QED
  BY <1>9 DEF f, s

\* Two runqueues are locked in the order of their addresses (sched.c:2080-2093).
LEMMA RqLockStep ==
  ASSUME IInv, NEW c \in CPU, NEW t, double_rq_lock(c, t)
  PROVE  IInv'
<1>1. /\ t = on[c] /\ pc[t] \in {"migrate_lock1", "migrate_lock2"}
      /\ task' = task /\ on' = on /\ local' = local /\ ops' = ops /\ build' = build
  BY DEF double_rq_lock, At
<1> DEFINE f == First({local[t].src, local[t].dest})
           s == Second({local[t].src, local[t].dest})
<1>2. /\ local[t].src \in CPU /\ local[t].dest \in CPU
      /\ pc[t] = "migrate_lock2" => local[t].src # local[t].dest
  BY <1>1, Acting DEF ThreadOK, ArgsOK
<1>3. /\ f \in CPU /\ s \in CPU /\ {f, s} = {local[t].src, local[t].dest}
      /\ f = s <=> local[t].src = local[t].dest
  BY <1>2, Ordered
<1>4. \/ /\ pc[t] = "migrate_lock1" /\ Unlocked(f) /\ Lock(c, f)
         /\ Goto(t, IF f = s THEN "migrate_move" ELSE "migrate_lock2")
      \/ /\ pc[t] = "migrate_lock2" /\ Unlocked(s) /\ Lock(c, s)
         /\ Goto(t, "migrate_move")
  BY DEF double_rq_lock, Second, At
<1> HIDE DEF f, s
<1>5. PICK x, place : /\ x = IF pc[t] = "migrate_lock1" THEN f ELSE s
                      /\ place = IF pc[t] = "migrate_lock1" /\ f # s THEN "migrate_lock2"
                                                                  ELSE "migrate_move"
  OBVIOUS
<1>6. /\ Goto(t, place) /\ place \in PCs /\ place \in Migration /\ pc[t] \in Migration
      /\ x \in CPU /\ rq[x].lock = NULL /\ rq' = [rq EXCEPT ![x].lock = c]
  BY <1>1, <1>3, <1>4, <1>5 DEF Unlocked, Lock, PCs, Migration
<1>7. t \in Thread /\ rq \in [CPU -> RunQueues] /\ ops' \in 0 .. build.ops /\ LocksOf(c)
  BY <1>1, <1>6, MigrationTypes DEF CpuOK
<1>8. Alone(t) /\ pc'[t] = place /\ local'[t] = local[t]
  BY <1>1, <1>6, <1>7, Stays
<1>9. ArgsOK(t)'
  BY <1>2, <1>3, <1>5, <1>8 DEF ArgsOK, Balancing
<1>10. LocksOf(c)'
  <2>1. \A e \in CPU : rq'[e].lock = IF e = x THEN c ELSE rq[e].lock
    BY <1>6, <1>7, Locking
  <2>2. \A e \in CPU : rq[e].lock = c <=> pc[t] = "migrate_lock2" /\ e = f
    BY <1>1, <1>7 DEF LocksOf, Held, f
  <2>3. \A e \in CPU : rq'[e].lock = c <=> e = f \/ (place = "migrate_move" /\ e = s)
    BY <1>1, <1>5, <2>1, <2>2
  <2>4. Held(c)' = IF place = "migrate_move" THEN {f, s} ELSE {f}
    <3>1. on'[c] = t
      BY <1>1
    <3>2. CASE place = "migrate_move"
      BY <1>3, <1>8, <3>1, <3>2 DEF Held
    <3>3. CASE place = "migrate_lock2"
      BY <1>8, <3>1, <3>3 DEF Held, f
    <3> QED
      BY <1>5, <3>2, <3>3
  <2> QED
    BY <2>3, <2>4 DEF LocksOf
<1>11. Locks(c)
  BY <1>6 DEF Locks
<1> QED
  BY <1>1, <1>6, <1>7, <1>8, <1>9, <1>10, <1>11, MigrationMove

\* The requests of a step that makes, takes or answers one of x at c: place i of the queue of c
\* was place g[i], and x is at place n if anywhere.
LEMMA RequestsMoved ==
  ASSUME RequestsWait, RequestsOnce, NEW c \in CPU, NEW x, NEW n, NEW g,
         \A i \in Places(c)' \ {n} : g[i] \in Places(c) /\ ReqAt(c, i)' = ReqAt(c, g[i]),
         \A i, j \in Places(c)' \ {n} : g[i] = g[j] => i = j,
         n \in Places(c)' => ReqAt(c, n)' = x /\ Waiting(x)',
         \A d \in CPU \ {c} : \A i \in Places(d)' : i \in Places(d) /\ ReqAt(d, i)' = ReqAt(d, i),
         \A d \in CPU : \A i \in Places(d)' : d # c \/ i # n => ReqAt(d, i)' # x,
         \A r \in Task \ {x} : Waiting(r) => Waiting(r)'
  PROVE  RequestsWait' /\ RequestsOnce'
<1>1. ASSUME NEW d \in CPU, NEW i \in Places(d)', d # c \/ i # n
      PROVE  \E j \in Places(d) : ReqAt(d, i)' = ReqAt(d, j) /\ j = IF d = c THEN g[i] ELSE i
  BY <1>1
<1>2. RequestsWait'
  <2>1. SUFFICES ASSUME NEW d \in CPU, NEW i \in Places(d)' PROVE Waiting(ReqAt(d, i))'
    BY DEF RequestsWait
  <2>2. CASE d = c /\ i = n
    BY <2>2 DEF Waiting, Back
  <2>3. CASE d # c \/ i # n
    <3>1. PICK j \in Places(d) : ReqAt(d, i)' = ReqAt(d, j)
      BY <1>1, <2>3
    <3>2. PICK r : r = ReqAt(d, j)
      OBVIOUS
    <3>3. Waiting(r) /\ ReqAt(d, i)' = r /\ r # x
      BY <2>3, <3>1, <3>2 DEF RequestsWait
    <3>4. Waiting(r)'
      BY <3>3 DEF Waiting
    <3> QED
      BY <3>3, <3>4 DEF Waiting, Back
  <2> QED
    BY <2>2, <2>3
<1>3. ASSUME NEW d \in CPU, NEW e \in CPU, NEW i \in Places(d)', NEW j \in Places(e)',
             ReqAt(d, i)' = ReqAt(e, j)'
      PROVE  d = e /\ i = j
  <2>1. CASE d = c /\ i = n
    BY <1>3, <2>1
  <2>2. CASE e = c /\ j = n
    BY <1>3, <2>2
  <2>3. CASE (d # c \/ i # n) /\ (e # c \/ j # n)
    <3>1. PICK k \in Places(d) : ReqAt(d, i)' = ReqAt(d, k) /\ k = IF d = c THEN g[i] ELSE i
      BY <1>1, <2>3
    <3>2. PICK m \in Places(e) : ReqAt(e, j)' = ReqAt(e, m) /\ m = IF e = c THEN g[j] ELSE j
      BY <1>1, <2>3
    <3>3. ReqAt(d, k) = ReqAt(e, m)
      BY <1>3, <3>1, <3>2
    <3>4. d = e /\ k = m
      BY <3>3 DEF RequestsOnce
    <3> QED
      BY <2>3, <3>1, <3>2, <3>4
  <2> QED
    BY <2>1, <2>2, <2>3
<1> QED
  BY <1>2, <1>3 DEF RequestsOnce

\* Where the requests of a processor are.
LEMMA PlacesOf ==
  ASSUME IInv, NEW c \in CPU
  PROVE  /\ rq[c].migration_queue \in Seq(Task)
         /\ \A i \in Places(c) : i \in Nat /\ ReqAt(c, i) \in Task
         /\ \A i \in Nat \ {0} : i \in Places(c) <=> i <= Len(rq[c].migration_queue)
         /\ 0 \in Places(c) <=> pc[migration[c]] \in Migration
<1>1. rq[c].migration_queue \in Seq(Task)
  BY TypeParts DEF IInv, RunQueues
<1>2. DOMAIN rq[c].migration_queue = 1 .. Len(rq[c].migration_queue)
  BY <1>1
<1>3. ASSUME NEW i \in Places(c) PROVE ReqAt(c, i) \in Task
  <2>1. PICK r : r = ReqAt(c, i)
    OBVIOUS
  <2>2. Waiting(r)
    BY <2>1 DEF IInv, RequestsWait
  <2> QED
    BY <2>1, <2>2 DEF Waiting
<1>4. Len(rq[c].migration_queue) \in Nat
  BY <1>1
<1> QED
  BY <1>1, <1>2, <1>3, <1>4 DEF Places

\* The loop of migration_thread (sched.c:2298-2316).
LEMMA MigrationThreadStep ==
  ASSUME IInv, NEW c \in CPU, NEW t, migration_thread(c, t)
  PROVE  IInv'
<1>1. /\ t = on[c] /\ pc[t] = "migrate" /\ t \in Thread /\ ThreadOK(t) /\ CpuOK(c)
      /\ rq[c].lock = NULL /\ rq \in [CPU -> RunQueues] /\ local \in [Thread -> Locals]
      /\ pc \in [Thread -> PCs] /\ ops' \in 0 .. build.ops /\ on' = on /\ build' = build
      /\ task' = [task EXCEPT ![t].state = "SLEEPING"] /\ task[t].cpu = c
  BY Acting, TypeParts DEF migration_thread, At, Unlocked, IInv
<1>2. t \in Migrators /\ t \notin Task /\ t \notin Idlers
  BY <1>1, Constants DEF ThreadOK, KindOK, Balancing, InSchedule, Migration
<1>3. t = migration[c] /\ task[t].state \notin Dead
  BY <1>1, <1>2 DEF ThreadOK, TaskInv
<1>4. ~local[t].tick /\ ~Waiting(t)
  BY <1>1, <1>2 DEF ThreadOK, KindOK, Waiting
<1>5. CASE /\ rq' = rq /\ local' = [local EXCEPT ![t].then = "migrate"] /\ Goto(t, "schedule")
  <2>1. /\ Alone(t) /\ pc'[t] = "schedule" /\ local'[t].then = "migrate"
        /\ local'[t].tick = local[t].tick
    BY <1>1, <1>5 DEF Goto, Alone, SameLocals, PCs, Locals
  <2>2. TypeOK' /\ Own(c, t)
    BY <1>1, <1>2, <1>3, <1>5, <2>1, StateMove
  <2>3. KindOK(t)'
    BY <1>2, <1>4, <2>1 DEF KindOK, Back, InSchedule, Balancing, Migration, Resume
  <2>4. ArgsOK(t)' /\ \A u \in Thread : Apart(t, u)'
    BY <2>1, ApartElsewhere DEF ArgsOK, Balancing
  <2>5. LocksOf(c)' /\ BusiestOK(c)'
    BY <1>1, <1>5, <2>1 DEF CpuOK, LocksOf, Held, BusiestOK, Balancing
  <2>6. RequestsWait' /\ RequestsOnce'
    BY <1>1, <1>4, <1>5, <2>1, <2>2, NoRequest DEF Own, Migration
  <2> QED
    BY <1>1, <1>5, <2>1, <2>2, <2>3, <2>4, <2>5, <2>6, CallStep DEF InSchedule, Balancing
<1>6. ASSUME rq[c].migration_queue # << >>,
             rq' = [rq EXCEPT ![c].migration_queue = Tail(@)],
             local' = [local EXCEPT ![t].q = Head(rq[c].migration_queue)],
             Goto(t, "migrate_dest")
      PROVE  IInv'
  <2> DEFINE queue == rq[c].migration_queue
  <2>1. queue \in Seq(Task) /\ Head(queue) \in Task /\ Tail(queue) \in Seq(Task)
    BY <1>6, PlacesOf
  <2>2. /\ Alone(t) /\ pc'[t] = "migrate_dest" /\ local'[t].q = Head(queue)
        /\ local'[t].tick = local[t].tick
    <3>1. PICK r \in Task : r = Head(queue)
      BY <2>1
    <3>2. local' = [local EXCEPT ![t].q = r] /\ pc' = [pc EXCEPT ![t] = "migrate_dest"]
      BY <1>6, <3>1 DEF Goto
    <3> HIDE DEF queue
    <3> QED
      BY <1>1, <3>1, <3>2 DEF Alone, SameLocals, PCs, Locals
  <2>3. /\ rq' \in [CPU -> RunQueues]
        /\ \A d \in CPU : /\ rq'[d].nr_running = rq[d].nr_running
                          /\ rq'[d].curr = rq[d].curr /\ rq'[d].lock = rq[d].lock
                          /\ rq'[d].migration_queue = IF d = c THEN Tail(queue)
                                                      ELSE rq[d].migration_queue
    BY <1>1, <1>6, <2>1 DEF RunQueues
  <2> HIDE DEF queue
  <2>4. TypeOK' /\ Own(c, t)
    BY <1>1, <1>2, <1>3, <2>2, <2>3, StateMove
  <2>5. KindOK(t)'
    BY <1>2, <1>4, <2>2 DEF KindOK, Back, InSchedule, Balancing, Migration, Resume
  <2>6. ArgsOK(t)' /\ \A u \in Thread : Apart(t, u)'
    BY <2>2, ApartElsewhere DEF ArgsOK, Balancing
  <2>7. LocksOf(c)' /\ BusiestOK(c)'
    BY <1>1, <2>2, <2>3 DEF CpuOK, LocksOf, Held, BusiestOK, Balancing
  <2>8. RequestsWait' /\ RequestsOnce'
    <3> DEFINE g == [i \in Nat |-> i + 1]
    <3>1. /\ Len(queue) \in Nat /\ Len(queue) > 0 /\ Len(Tail(queue)) = Len(queue) - 1
          /\ \A i \in 1 .. Len(queue) - 1 : Tail(queue)[i] = queue[i + 1]
          /\ Head(queue) = queue[1] /\ DOMAIN Tail(queue) = 1 .. Len(queue) - 1
      BY <1>6, <2>1 DEF queue
    <3>2. Places(c)' = 0 .. Len(queue) - 1 /\ Places(c) = 1 .. Len(queue)
      <4>1. Places(c)' = DOMAIN Tail(queue) \cup {0}
        BY <1>3, <2>2, <2>3 DEF Places, Migration
      <4>2. Places(c) = DOMAIN queue
        BY <1>1, <1>3 DEF Places, Migration, queue
      <4> QED
        BY <2>1, <3>1, <4>1, <4>2
    <3>3. \A i \in Places(c)' : g[i] \in Places(c) /\ ReqAt(c, i)' = ReqAt(c, g[i])
      <4>1. SUFFICES ASSUME NEW i \in 0 .. Len(queue) - 1
                     PROVE  i + 1 \in Places(c) /\ ReqAt(c, i)' = ReqAt(c, i + 1)
        BY <3>1, <3>2
      <4>2. i + 1 \in 1 .. Len(queue) /\ i + 1 # 0
        BY <3>1
      <4>3. ReqAt(c, i + 1) = queue[i + 1]
        BY <4>2 DEF ReqAt, queue
      <4>4. ReqAt(c, i)' = IF i = 0 THEN Head(queue) ELSE Tail(queue)[i]
        BY <1>3, <2>2, <2>3 DEF ReqAt
      <4> QED
        BY <3>1, <3>2, <4>2, <4>3, <4>4
    <3>4. \A i, j \in Places(c)' : g[i] = g[j] => i = j
      BY <3>1, <3>2
    <3>5. \A d \in CPU \ {c} : /\ Places(d)' = Places(d)
                               /\ \A i \in Places(d) : ReqAt(d, i)' = ReqAt(d, i)
      <4>1. \A d \in CPU \ {c} : migration[d] \in Thread \ {t}
        BY <1>3, Constants
      <4> QED
        BY <2>2, <2>3, <4>1 DEF Places, ReqAt, Alone, SameLocals
    <3> HIDE DEF g
    <3>6. \A d \in CPU : \A i \in Places(d)' : ReqAt(d, i)' # NULL
      <4>1. \A d \in CPU : \A i \in Places(d) : ReqAt(d, i) # NULL
        BY PlacesOf, Constants
      <4>2. \A i \in Places(c)' : ReqAt(c, i)' # NULL
        BY <3>3, <4>1
      <4> QED
        BY <3>5, <4>1, <4>2
    <3>7. \A r \in Task \ {NULL} : Waiting(r) => Waiting(r)'
      BY <1>2, <2>2, WaitingKept, Constants DEF Alone
    <3>8. PICK n : n \notin Places(c)'
      <4>1. -1 \notin Places(c)'
        BY <3>1, <3>2
      <4> QED
        BY <4>1
    <3>9. /\ \A i \in Places(c)' \ {n} : g[i] \in Places(c) /\ ReqAt(c, i)' = ReqAt(c, g[i])
          /\ \A i, j \in Places(c)' \ {n} : g[i] = g[j] => i = j
          /\ \A d \in CPU \ {c} : \A i \in Places(d)' :
                i \in Places(d) /\ ReqAt(d, i)' = ReqAt(d, i)
          /\ \A d \in CPU : \A i \in Places(d)' : d # c \/ i # n => ReqAt(d, i)' # NULL
      BY <3>3, <3>4, <3>5, <3>6
    <3>10. RequestsWait /\ RequestsOnce
      BY DEF IInv
    <3> QED
      BY <3>7, <3>8, <3>9, <3>10, RequestsMoved
  <2> QED
    BY <1>1, <2>2, <2>3, <2>4, <2>5, <2>6, <2>7, <2>8, CallStep DEF InSchedule, Balancing
<1> QED
  BY <1>5, <1>6 DEF migration_thread

\* up(&req->sem) (sched.c:2342).
LEMMA UpStep ==
  ASSUME IInv, NEW c \in CPU, NEW t, Up(c, t)
  PROVE  IInv'
<1>1. /\ t = on[c] /\ pc[t] = "migrate_up" /\ pc[t] \in Migration
      /\ rq' = rq /\ task' = task /\ on' = on /\ ops' = ops /\ build' = build
      /\ Goto(t, "wake")
  BY DEF Up, At, Migration
<1>2. PICK req : req = local[t].q
  OBVIOUS
<1>3. /\ t = migration[c] /\ t \in Migrators /\ t \in Thread /\ ThreadOK(t) /\ CpuOK(c)
      /\ t \notin Task /\ t \notin Idlers
      /\ Waiting(req) /\ req \in Task /\ req \in Thread /\ req # t /\ task[t].state \notin Dead
  BY <1>1, <1>2, Requested, Constants
<1>4. /\ local \in [Thread -> Locals] /\ pc \in [Thread -> PCs] /\ rq \in [CPU -> RunQueues]
      /\ ThreadOK(req) /\ on \in [CPU -> Thread] /\ task \in [Thread -> TaskStructs]
  BY <1>3, TypeParts DEF IInv
<1>5. PICK l : l = [NoLocal EXCEPT !.w = req, !.then = "migrate"]
  OBVIOUS
<1>6. /\ l \in Locals /\ l.w = req /\ l.then = "migrate" /\ ~l.tick
  <2>1. /\ l \in Locals /\ l.w = req /\ l.then = "migrate"
    BY <1>3, <1>5 DEF NoLocal, Locals, PCs
  <2>2. ~l.tick
    BY <1>5 DEF NoLocal
  <2> QED
    BY <2>1, <2>2
<1>7. local' = [local EXCEPT ![req] = [local[req] EXCEPT !.done = TRUE], ![t] = l]
  <2>1. local' = [local EXCEPT ![req].done = TRUE, ![t] = l]
    BY <1>2, <1>5 DEF Up
  <2> QED
    BY <2>1, <1>3
<1>8. /\ local' \in [Thread -> Locals] /\ local'[t] = l /\ local'[req] = [local[req] EXCEPT !.done = TRUE]
      /\ \A u \in Thread \ {t, req} : local'[u] = local[u]
  <2>1. [local[req] EXCEPT !.done = TRUE] \in Locals
    <3>1. local[req] \in Locals
      BY <1>3, <1>4
    <3> QED
      BY <3>1, Zenon DEF Locals
  <2> QED
    BY <1>3, <1>4, <1>6, <1>7, <2>1, ZenonT(30)
<1>9. /\ pc' \in [Thread -> PCs] /\ pc'[t] = "wake" /\ \A u \in Thread \ {t} : pc'[u] = pc[u]
  BY <1>1, <1>3, <1>4 DEF Goto, PCs
<1>10. TypeOK'
  BY <1>1, <1>8, <1>9, TypeParts DEF IInv, TypeOK, RunQueues, TaskStructs, Locals
<1>11. SameCourse(req)
  <2>1. local[req] \in Locals
    BY <1>3, <1>4
  <2> QED
    BY <1>3, <1>8, <1>9, <2>1 DEF SameCourse, Locals
<1>12. Elsewhere(c, t, req)
  BY <1>1, <1>3, <1>8, <1>9 DEF Elsewhere, SameLocals, Same, Undisturbed, SameLife, SameLocks
<1>13. Back(req) \in {"down", "down_check"} /\ Back(req)' = Back(req)
  BY <1>3, <1>11 DEF Waiting, Back, SameCourse
<1>14. task[req].state \notin Dead
  BY <1>4, <1>13 DEF ThreadOK, TaskInv
<1>15. ThreadOK(t)'
  <2>1. KindOK(t)'
    BY <1>3, <1>6, <1>8, <1>9 DEF KindOK, Back, InSchedule, Balancing, Migration, Resume
  <2>2. ArgsOK(t)'
    BY <1>1, <1>3, <1>6, <1>8, <1>9, <1>14 DEF ArgsOK, Balancing
  <2>3. ~Off(t)'
    BY <1>1 DEF Off
  <2>4. TaskInv(t)'
    BY <1>1, <1>3, <2>3 DEF ThreadOK, TaskInv
  <2> QED
    BY <2>1, <2>2, <2>4 DEF ThreadOK
<1>16. pc[req] \notin {"affinity", "fork", "inactive", "inactive_lock"}
  BY <1>13 DEF Back, InSchedule, Balancing
<1>17. ThreadOK(req)'
  <2>1. KindOK(req)'
    BY <1>4, <1>11, <1>13 DEF ThreadOK, KindOK, SameCourse
  <2>2. ArgsOK(req)'
    <3>1. local'[req].w = local[req].w
      <4>1. local[req] \in Locals
        BY <1>3, <1>4
      <4> QED
        BY <1>8, <4>1 DEF Locals
    <3> QED
      BY <1>1, <1>4, <1>11, <1>16, <3>1 DEF ThreadOK, ArgsOK, SameCourse
  <2>3. TaskInv(req)'
    <3>1. Off(req)' = Off(req)
      BY <1>1 DEF Off
    <3> QED
      BY <1>1, <1>4, <1>11, <1>13, <3>1 DEF ThreadOK, TaskInv, SameCourse
  <2> QED
    BY <2>1, <2>2, <2>3 DEF ThreadOK
<1>18. LocksOf(c)' /\ BusiestOK(c)' /\ StackOK(c)'
  <2>1. LocksOf(c) /\ StackOK(c) /\ on'[c] = t
    BY <1>1, <1>3 DEF CpuOK
  <2>2. LocksOf(c)' /\ BusiestOK(c)'
    BY <1>1, <1>9, <2>1 DEF LocksOf, Held, BusiestOK, Balancing
  <2>3. task[t].array = c \/ t = idle[c]
    BY <1>1, <2>1 DEF StackOK, Balancing
  <2>4. StackOK(c)'
    BY <1>1, <1>9, <2>1, <2>3 DEF StackOK
  <2> QED
    BY <2>2, <2>4
<1>19. \A d \in CPU : CountsOf(d)'
  BY <1>1, CountsSame
<1>20. \A u \in Thread : Apart(t, u)' /\ Apart(req, u)'
  <2>1. pc'[req] \notin {"fork", "inactive", "inactive_lock"}
    BY <1>3, <1>9, <1>16
  <2> QED
    BY <1>9, <2>1, ApartElsewhere
<1>21. RequestsWait' /\ RequestsOnce'
  <2> DEFINE g == [i \in Nat |-> i]
  <2>1. ASSUME NEW d \in CPU, NEW i \in Places(d)'
        PROVE  i \in Places(d) /\ ReqAt(d, i)' = ReqAt(d, i) /\ (d # c \/ i # 0)
    <3>1. CASE d = c
      <4>1. i \in DOMAIN rq[c].migration_queue
        BY <1>1, <1>3, <1>9, <2>1, <3>1 DEF Places, Migration
      <4>2. i # 0
        BY <1>4, <4>1 DEF RunQueues
      <4> QED
        BY <1>1, <3>1, <4>1, <4>2 DEF Places, ReqAt
    <3>2. CASE d # c
      <4>1. migration[d] \in Thread \ {t, req}
        BY <1>3, <3>2, Constants
      <4> QED
        BY <1>1, <1>8, <1>9, <2>1, <3>2, <4>1 DEF Places, ReqAt
    <3> QED
      BY <3>1, <3>2
  <2>2. 0 \in Places(c) /\ ReqAt(c, 0) = req
    BY <1>1, <1>2, <1>3 DEF Places, ReqAt
  <2>3. ASSUME NEW d \in CPU, NEW i \in Places(d)' PROVE ReqAt(d, i)' # req
    <3>1. ReqAt(d, i) = ReqAt(c, 0) => d = c /\ i = 0
      BY <2>1, <2>2 DEF IInv, RequestsOnce
    <3> QED
      BY <2>1, <2>2, <3>1
  <2>4. \A r \in Task \ {req} : Waiting(r) => Waiting(r)'
    <3>1. \A r \in Task \ {req} : SameLocals(r)
      BY <1>3, <1>8, <1>9, Constants DEF SameLocals
    <3> QED
      BY <3>1, WaitingKept
  <2>5. \A i \in Places(c)' : i \in Nat /\ g[i] = i
    BY <2>1, PlacesOf
  <2>6. PICK n : n \notin Places(c)'
    BY <2>1
  <2> HIDE DEF g
  <2>7. /\ \A i \in Places(c)' \ {n} : g[i] \in Places(c) /\ ReqAt(c, i)' = ReqAt(c, g[i])
        /\ \A i, j \in Places(c)' \ {n} : g[i] = g[j] => i = j
    <3>1. \A i \in Places(c)' : i \in Places(c) /\ ReqAt(c, i)' = ReqAt(c, i)
      BY <2>1
    <3> QED
      BY <2>5, <3>1
  <2>8. /\ \A d \in CPU \ {c} : \A i \in Places(d)' : i \in Places(d) /\ ReqAt(d, i)' = ReqAt(d, i)
        /\ \A d \in CPU : \A i \in Places(d)' : d # c \/ i # n => ReqAt(d, i)' # req
    BY <2>1, <2>3
  <2>9. RequestsWait /\ RequestsOnce
    BY DEF IInv
  <2> QED
    <3>1. n \in Places(c)' => ReqAt(c, n)' = req /\ Waiting(req)'
      BY <2>6
    <3>2. PICK f : f = g
      OBVIOUS
    <3>3. /\ \A i \in Places(c)' \ {n} : f[i] \in Places(c) /\ ReqAt(c, i)' = ReqAt(c, f[i])
          /\ \A i, j \in Places(c)' \ {n} : f[i] = f[j] => i = j
      BY <2>7, <3>2
    <3> QED
      BY <2>4, <2>8, <2>9, <3>1, <3>3, RequestsMoved
<1> QED
  BY <1>1, <1>3, <1>10, <1>11, <1>12, <1>15, <1>17, <1>18, <1>19, <1>20, <1>21, SubjectStep

-----------------------------------------------------------------------------
(* schedule() *)

\* Who goes back to where it gave way is no part of load_balance.
LEMMA ThenResumes ==
  ASSUME NEW t, KindOK(t), pc[t] \in InSchedule, pc'[t] = local[t].then,
         local'[t].then = "none", local'[t].q = local[t].q, local'[t].tick = local[t].tick,
         local'[t].done = local[t].done
  PROVE  /\ KindOK(t)' /\ ArgsOK(t)' /\ Back(t)' = Back(t) /\ pc'[t] \in Resume
         /\ Waiting(t) => Waiting(t)'
<1>1. local[t].then \in Resume /\ ~local[t].tick /\ Back(t) = local[t].then
  BY DEF KindOK, Back, InSchedule, Balancing
<1>2. Back(t)' = Back(t) /\ pc'[t] \in Resume
  BY <1>1 DEF Back, Resume, InSchedule, Balancing
<1>3. KindOK(t)'
  BY <1>1, <1>2 DEF KindOK, Resume, InSchedule, Balancing, Migration
<1>4. ArgsOK(t)'
  BY <1>2 DEF ArgsOK, Resume, Balancing
<1> QED
  BY <1>2, <1>3, <1>4 DEF Waiting

\* The task that is chosen.
LEMMA SwitchStep ==
  ASSUME IInv, NEW c \in CPU, NEW t, t = on[c], pc[t] \in {"pick", "balanced"},
         NEW next \in Thread, SwitchTo(c, t, next), next \in Queued(c) \/ next = idle[c]
  PROVE  IInv'
<1>1. /\ t \in Thread /\ ThreadOK(t) /\ CpuOK(c) /\ rq \in [CPU -> RunQueues]
      /\ task \in [Thread -> TaskStructs] /\ on \in [CPU -> Thread] /\ pc \in [Thread -> PCs]
      /\ local \in [Thread -> Locals] /\ build \in Builds /\ ops \in 0 .. build.ops
      /\ task[t].cpu = c /\ LocksOf(c) /\ KindOK(t) /\ TaskInv(t) /\ StackOK(c)
  BY Acting, TypeParts DEF IInv, ThreadOK, CpuOK
<1>2. task' = [task EXCEPT ![t].need_resched = FALSE] /\ on' = on /\ ops' = ops /\ build' = build
  BY DEF SwitchTo
<1>3. /\ task' \in [Thread -> TaskStructs]
      /\ \A u \in Thread : Same(u)
  <2>1. [task[t] EXCEPT !.need_resched = FALSE] \in TaskStructs
    <3>1. task[t] \in TaskStructs
      BY <1>1
    <3> QED
      BY <3>1, Zenon DEF TaskStructs
  <2>2. task' = [task EXCEPT ![t] = [task[t] EXCEPT !.need_resched = FALSE]]
    BY <1>1, <1>2
  <2>3. /\ task'[t] = [task[t] EXCEPT !.need_resched = FALSE]
        /\ \A u \in Thread \ {t} : task'[u] = task[u]
    BY <1>1, <2>2, ZenonT(30)
  <2>4. Same(t)
    BY <1>1, <2>3 DEF Same, TaskStructs
  <2>5. \A u \in Thread \ {t} : Same(u)
    BY <2>3 DEF Same
  <2> QED
    BY <1>1, <2>1, <2>2, <2>4, <2>5
<1>4. task[next].cpu = c /\ (task[next].array = c \/ next = idle[c])
  <2>1. ThreadOK(next)
    BY DEF IInv
  <2>2. CASE next \in Queued(c)
    BY <2>1, <2>2, Constants DEF Queued, ThreadOK, TaskInv
  <2>3. CASE next = idle[c]
    <3>1. task[next].cpu \in CPU
      BY <1>1 DEF TaskStructs
    <3> QED
      BY <2>1, <2>3, <3>1, Constants DEF ThreadOK, TaskInv
  <2> QED
    BY <2>2, <2>3
<1>5. task[t].state = "ZOMBIE" => task[t].array = NULL
  BY <1>1 DEF TaskInv
<1>6. rq[c].curr = t /\ \A d \in CPU : rq[d].lock = c <=> d = c
  BY <1>1 DEF StackOK, LocksOf, Held
<1>7. CASE /\ next = t /\ rq' = [rq EXCEPT ![c].lock = NULL]
           /\ Goto(t, local[t].then) /\ local' = [local EXCEPT ![t].then = "none"]
  <2>1. /\ local'[t].then = "none" /\ local'[t].q = local[t].q /\ local'[t].tick = local[t].tick
        /\ local'[t].done = local[t].done /\ pc'[t] = local[t].then /\ Alone(t)
    BY <1>1, <1>7 DEF Goto, Alone, SameLocals, PCs, Locals
  <2>2. /\ KindOK(t)' /\ ArgsOK(t)' /\ Back(t)' = Back(t) /\ pc'[t] \in Resume
        /\ Waiting(t) => Waiting(t)'
    BY <1>1, <2>1, ThenResumes DEF InSchedule
  <2>3. /\ rq' \in [CPU -> RunQueues]
        /\ \A e \in CPU : /\ rq'[e].lock = IF e = c THEN NULL ELSE rq[e].lock
                          /\ rq'[e].nr_running = rq[e].nr_running
                          /\ rq'[e].curr = rq[e].curr
                          /\ rq'[e].migration_queue = rq[e].migration_queue
        /\ \A e \in CPU \ {c} : SameLocks(e)
    BY <1>1, <1>6, <1>7, Locking
  <2>4. TypeOK' /\ Own(c, t)
    <3>1. TypeOK'
      BY <1>1, <1>2, <1>3, <2>1, <2>3, TypeParts DEF TypeOK, RunQueues, TaskStructs, Locals, Alone
    <3> QED
      BY <1>1, <1>2, <1>3, <2>1, <2>3, <3>1 DEF Own, Same, Alone
  <2>5. LocksOf(c)' /\ BusiestOK(c)'
    BY <1>1, <1>2, <1>6, <2>2, <2>3, Constants DEF LocksOf, Held, BusiestOK, Balancing, Resume
  <2>6. RequestsWait' /\ RequestsOnce'
    BY <2>1, <2>2, <2>3, NoRequest DEF Alone, Migration, Resume
  <2>7. \A u \in Thread : Apart(t, u)'
    BY <2>2, ApartElsewhere DEF Resume
  <2>8. task[t].state \in Dead => Back(t)' = "none"
    BY <1>1, <2>2 DEF TaskInv
  <2>9. pc'[t] # "switch" /\ rq'[c].curr = t /\ (task[t].array = c \/ t = idle[c])
    BY <1>4, <1>6, <1>7, <2>2, <2>3 DEF Resume
  <2> QED
    BY <1>5, <2>2, <2>4, <2>5, <2>6, <2>7, <2>8, <2>9, OwnStep DEF Arrives
<1>8. CASE /\ next # t /\ rq' = [rq EXCEPT ![c].curr = next] /\ Goto(t, "switch") /\ local' = local
  <2>1. Alone(t) /\ pc'[t] = "switch" /\ local'[t] = local[t]
    BY <1>1, <1>8, Stays DEF PCs
  <2>2. /\ rq' \in [CPU -> RunQueues] /\ rq'[c].curr = next
        /\ \A e \in CPU : /\ rq'[e].lock = rq[e].lock
                          /\ rq'[e].nr_running = rq[e].nr_running
                          /\ e # c => rq'[e].curr = rq[e].curr
                          /\ rq'[e].migration_queue = rq[e].migration_queue
    BY <1>1, <1>8 DEF RunQueues
  <2>3. TypeOK' /\ Own(c, t)
    <3>1. TypeOK'
      BY <1>1, <1>2, <1>3, <2>1, <2>2, TypeParts DEF TypeOK, RunQueues, TaskStructs, Locals, Alone
    <3> QED
      BY <1>1, <1>2, <1>3, <2>1, <2>2, <3>1 DEF Own, Same, Alone, SameLocks
  <2>4. KindOK(t)' /\ Back(t)' = Back(t)
    BY <1>1, <2>1 DEF KindOK, Back, InSchedule, Balancing, Migration, Resume
  <2>5. LocksOf(c)' /\ BusiestOK(c)' /\ ArgsOK(t)'
    BY <1>1, <1>2, <1>6, <2>1, <2>2 DEF LocksOf, Held, BusiestOK, Balancing, ArgsOK
  <2>6. Waiting(t) => Waiting(t)'
    BY <2>1, <2>4 DEF Waiting
  <2>7. RequestsWait' /\ RequestsOnce'
    BY <2>1, <2>2, <2>6, NoRequest DEF Alone, Migration
  <2>8. \A u \in Thread : Apart(t, u)'
    BY <2>1, ApartElsewhere
  <2>9. task[t].state \in Dead => Back(t)' = "none"
    BY <1>1, <2>4 DEF TaskInv
  <2> QED
    BY <1>4, <1>5, <1>8, <2>1, <2>2, <2>3, <2>4, <2>5, <2>7, <2>8, <2>9, OwnStep DEF Arrives
<1> QED
  BY <1>7, <1>8 DEF SwitchTo

\* schedule() switches to a task of the queue, or
LEMMA PickStep ==
  ASSUME IInv, NEW c \in CPU, NEW t, Pick(c, t)
  PROVE  IInv'
<1>1. PICK next \in Queued(c) : SwitchTo(c, t, next)
  BY DEF Pick
<1>2. t = on[c] /\ pc[t] = "pick" /\ next \in Thread
  BY DEF Pick, At, Queued
<1> QED
  BY <1>1, <1>2, SwitchStep

\* to the idle task when there is none (sched.c:1082-1092).
LEMMA PickIdleStep ==
  ASSUME IInv, NEW c \in CPU, NEW t, PickIdle(c, t)
  PROVE  IInv'
<1>1. t = on[c] /\ pc[t] = "balanced"
  BY DEF PickIdle, At
<1>2. CASE SwitchTo(c, t, idle[c])
  <2>1. PICK next \in Thread : next = idle[c]
    BY Constants
  <2> QED
    BY <1>1, <1>2, <2>1, SwitchStep
<1>3. CASE Goto(t, "pick") /\ UNCHANGED << rq, task, on, local, ops, build >>
  <2>1. /\ t \in Thread /\ ThreadOK(t) /\ KindOK(t) /\ TaskInv(t) /\ StackOK(c) /\ LocksOf(c)
        /\ ops' \in 0 .. build.ops
        /\ rq' = rq /\ task' = task /\ on' = on /\ local' = local /\ build' = build
    BY <1>1, <1>3, Acting, TypeParts DEF IInv, ThreadOK, CpuOK
  <2>2. Alone(t) /\ pc'[t] = "pick" /\ local'[t] = local[t]
    BY <1>3, <2>1, Stays DEF PCs
  <2>3. TypeOK' /\ Own(c, t)
    BY <1>1, <2>1, <2>2, LockMove DEF Locks
  <2>4. KindOK(t)' /\ Back(t)' = Back(t)
    BY <1>1, <2>1, <2>2 DEF KindOK, Back, InSchedule, Balancing, Migration, Resume
  <2>5. LocksOf(c)' /\ BusiestOK(c)' /\ ArgsOK(t)'
    BY <1>1, <2>1, <2>2 DEF LocksOf, Held, BusiestOK, Balancing, ArgsOK
  <2>6. Waiting(t) => Waiting(t)'
    BY <2>1, <2>2, <2>4 DEF Waiting
  <2>7. RequestsWait' /\ RequestsOnce'
    BY <1>1, <2>1, <2>2, <2>6, NoRequest DEF Alone, Migration
  <2>8. \A u \in Thread : Apart(t, u)'
    BY <2>2, ApartElsewhere
  <2>9. /\ task[t].state \in Dead => Back(t)' = "none"
        /\ task[t].state = "ZOMBIE" => task[t].array = NULL
        /\ rq'[c].curr = t
    BY <1>1, <2>1, <2>4 DEF TaskInv, StackOK
  <2> QED
    BY <1>1, <2>2, <2>3, <2>4, <2>5, <2>7, <2>8, <2>9, OwnStep DEF Arrives
<1> QED
  BY <1>2, <1>3 DEF PickIdle

\* The stack is switched, and the lock dropped on the new one (sched.c:1201-1207).
LEMMA ContextSwitchStep ==
  ASSUME IInv, NEW c \in CPU, NEW t, ContextSwitch(c, t)
  PROVE  IInv'
<1>1. /\ t = on[c] /\ pc[t] = "switch" /\ t \in Thread /\ ThreadOK(t) /\ CpuOK(c)
      /\ rq \in [CPU -> RunQueues] /\ task \in [Thread -> TaskStructs]
      /\ on \in [CPU -> Thread] /\ pc \in [Thread -> PCs]
      /\ local \in [Thread -> Locals] /\ build \in Builds /\ ops \in 0 .. build.ops
      /\ KindOK(t) /\ TaskInv(t) /\ StackOK(c) /\ LocksOf(c)
      /\ \A d \in CPU : on[d] = t => d = c
      /\ task' = task /\ ops' = ops /\ build' = build
      /\ rq' = [rq EXCEPT ![c].lock = NULL] /\ Goto(t, local[t].then)
      /\ local' = [local EXCEPT ![t].then = "none"]
  BY Acting, TypeParts DEF ContextSwitch, At, IInv, ThreadOK, CpuOK
<1>2. PICK n \in Thread : n = rq[c].curr
  BY <1>1 DEF RunQueues
<1>3. /\ n # t /\ task[n].cpu = c /\ (task[n].array = c \/ n = idle[c])
      /\ on' = [on EXCEPT ![c] = n]
  BY <1>1, <1>2 DEF StackOK, ContextSwitch
<1>4. Off(n)
  BY <1>1, <1>3, Acting DEF Off
<1>5. ThreadOK(n) /\ pc[n] \in Resume /\ task[n].state # "FREE"
  <2>1. ThreadOK(n)
    BY DEF IInv
  <2>2. n = idle[c] => task[n].state = "RUNNING"
    BY <2>1, Constants DEF ThreadOK, TaskInv
  <2> QED
    BY <1>3, <1>4, <2>1, <2>2, Constants DEF ThreadOK, TaskInv
<1>6. /\ local'[t].then = "none" /\ local'[t].q = local[t].q /\ local'[t].tick = local[t].tick
      /\ local'[t].done = local[t].done /\ pc'[t] = local[t].then /\ Alone(t)
  <2>1. /\ t \in Thread /\ pc \in [Thread -> PCs] /\ local \in [Thread -> Locals]
        /\ pc' = [pc EXCEPT ![t] = local[t].then] /\ local' = [local EXCEPT ![t].then = "none"]
    BY <1>1 DEF Goto
  <2> QED
    BY <2>1 DEF Alone, SameLocals, PCs, Locals
<1>7. /\ KindOK(t)' /\ ArgsOK(t)' /\ Back(t)' = Back(t) /\ pc'[t] \in Resume
      /\ Waiting(t) => Waiting(t)'
  BY <1>1, <1>6, ThenResumes DEF InSchedule
<1>8. \A d \in CPU : rq[d].lock = c <=> d = c
  BY <1>1 DEF LocksOf, Held
<1>9. /\ rq' \in [CPU -> RunQueues]
      /\ \A e \in CPU : /\ rq'[e].lock = IF e = c THEN NULL ELSE rq[e].lock
                        /\ rq'[e].nr_running = rq[e].nr_running
                        /\ rq'[e].curr = rq[e].curr
                        /\ rq'[e].migration_queue = rq[e].migration_queue
      /\ \A e \in CPU \ {c} : SameLocks(e)
  BY <1>1, <1>8, Locking
<1>10. on' \in [CPU -> Thread] /\ on'[c] = n /\ \A e \in CPU \ {c} : on'[e] = on[e]
  BY <1>1, <1>3
<1>11. TypeOK'
  BY <1>1, <1>6, <1>9, <1>10, TypeParts DEF TypeOK, RunQueues, TaskStructs, Locals, Alone
<1>12. \A u \in Thread : ThreadOK(u)'
  <2>1. ASSUME NEW u \in Thread \ {t} PROVE ThreadOK(u)'
    <3>1. ThreadOK(u) /\ SameLocals(u)
      BY <1>6 DEF IInv, Alone
    <3>2. KindOK(u)' /\ Back(u)' = Back(u)
      BY <3>1, KindKept DEF ThreadOK
    <3>3. ArgsOK(u)'
      <4>1. \A x : SameLife(x)
        BY <1>1 DEF SameLife
      <4> QED
        BY <3>1, <4>1, ArgsKept DEF ThreadOK
    <3>4. TaskInv(u)'
      <4>1. Off(u)' => Off(u)
        BY <1>1, <1>10, <2>1 DEF Off
      <4>2. on[task[u].cpu] = u => on'[task[u].cpu] = u
        <5>1. task[u].cpu \in CPU
          BY <1>1 DEF TaskStructs
        <5> QED
          BY <1>1, <1>10, <2>1, <5>1
      <4> QED
        BY <1>1, <3>1, <3>2, <4>1, <4>2 DEF ThreadOK, TaskInv, SameLocals
    <3> QED
      BY <3>2, <3>3, <3>4 DEF ThreadOK
  <2>2. TaskInv(t)'
    BY <1>1, <1>7 DEF TaskInv
  <2> QED
    BY <1>7, <2>1, <2>2 DEF ThreadOK
<1>13. \A e \in CPU : CountsOf(e)'
  BY <1>1, <1>9, CountsSame
<1>14. \A e \in CPU : CpuOK(e)'
  <2>1. ASSUME NEW e \in CPU \ {c} PROVE CpuOK(e)'
    <3>1. /\ on[e] \in Thread \ {t} /\ task[on[e]].cpu = e /\ ThreadOK(on[e]) /\ CpuOK(e)
          /\ on'[e] = on[e] /\ rq'[e].curr = rq[e].curr
      BY <1>1, <1>9, <1>10, Acting
    <3>2. SameCourse(on[e]) /\ SameLocks(e)
      BY <1>6, <1>9, <3>1 DEF Alone, SameLocals, SameCourse
    <3>3. LocksOf(e)'
      BY <3>1, <3>2, LocksKept DEF CpuOK, ThreadOK
    <3>4. StackOK(e)' /\ BusiestOK(e)'
      BY <1>1, <3>1, <3>2, StackKept DEF CpuOK, StackOK
    <3> QED
      BY <1>13, <3>3, <3>4 DEF CpuOK
  <2>2. pc'[n] \in Resume
    BY <1>3, <1>5, <1>6 DEF Alone, SameLocals
  <2>3. LocksOf(c)'
    BY <1>8, <1>9, <1>10, <2>2, Constants DEF LocksOf, Held, Resume
  <2>4. StackOK(c)' /\ BusiestOK(c)'
    BY <1>1, <1>2, <1>3, <1>5, <1>9, <1>10, <2>2 DEF StackOK, BusiestOK, Resume, Balancing
  <2> QED
    BY <1>13, <2>1, <2>3, <2>4 DEF CpuOK
<1>15. \A u, v \in Thread : Apart(u, v)'
  <2>1. \A u \in Thread : Apart(t, u)'
    BY <1>7, ApartElsewhere DEF Resume
  <2>2. \A u, v \in Thread \ {t} : Apart(u, v)'
    BY <1>6, ApartKept DEF IInv, Alone
  <2>3. \A u \in Thread : Apart(u, t)'
    BY <2>1 DEF Apart
  <2> QED
    BY <2>1, <2>2, <2>3
<1>16. RequestsWait' /\ RequestsOnce'
  BY <1>1, <1>6, <1>7, <1>9, NoRequest DEF Alone, Migration, Resume
<1> QED
  BY <1>11, <1>12, <1>14, <1>15, <1>16 DEF IInv

\* t takes the lock, and leaves the queue unless it is runnable (sched.c:1057-1084).
LEMMA ScheduleStep ==
  ASSUME IInv, NEW c \in CPU, NEW t, Schedule(c, t)
  PROVE  IInv'
<1>1. /\ t = on[c] /\ pc[t] = "schedule" /\ t \in Thread /\ ThreadOK(t) /\ CpuOK(c)
      /\ rq \in [CPU -> RunQueues] /\ task \in [Thread -> TaskStructs]
      /\ on \in [CPU -> Thread] /\ pc \in [Thread -> PCs]
      /\ local \in [Thread -> Locals] /\ build \in Builds /\ ops' \in 0 .. build.ops
      /\ KindOK(t) /\ TaskInv(t) /\ StackOK(c) /\ LocksOf(c) /\ task[t].cpu = c
      /\ on' = on /\ local' = local /\ build' = build /\ rq[c].lock = NULL
  BY Acting, TypeParts DEF Schedule, At, IInv, ThreadOK, CpuOK, Unlocked
<1>2. /\ task[t].array = c \/ t = idle[c]
      /\ rq[c].curr = t
      /\ \A d \in CPU : rq[d].lock # c
  BY <1>1 DEF StackOK, LocksOf, Held, Balancing
<1>3. PICK place \in {"balance", "pick"} : Goto(t, place)
  BY DEF Schedule
<1>4. Alone(t) /\ pc'[t] = place /\ local'[t] = local[t] /\ place \in PCs
  <2>1. place \in PCs
    BY DEF PCs
  <2> QED
    BY <1>1, <1>3, <2>1, Stays
<1>5. ~local[t].tick /\ KindOK(t)' /\ Back(t)' = Back(t)
  <2>1. ~local[t].tick
    BY <1>1 DEF KindOK, Balancing
  <2> QED
    BY <1>1, <1>4, <2>1 DEF KindOK, Back, InSchedule, Balancing, Migration, Resume
<1>6. ArgsOK(t)'
  BY <1>4 DEF ArgsOK, Balancing
<1>7. Waiting(t) => Waiting(t)'
  BY <1>1, <1>5 DEF Waiting
<1>8. \A u \in Thread : Apart(t, u)'
  BY <1>4, ApartElsewhere
\* The effect on the task_struct and the runqueue.
<1>9. /\ task' \in [Thread -> TaskStructs] /\ rq' \in [CPU -> RunQueues]
      /\ \A u \in Thread \ {t} : task'[u] = task[u]
      /\ task'[t].cpu = c /\ task'[t].state = task[t].state
      /\ task'[t].cpus_allowed = task[t].cpus_allowed
      /\ IF task[t].state = "RUNNING" THEN task'[t].array = task[t].array
                                      ELSE task'[t].array = NULL
      /\ \A d \in CPU : /\ rq'[d].lock = IF d = c THEN c ELSE rq[d].lock
                        /\ rq'[d].curr = rq[d].curr
                        /\ rq'[d].migration_queue = rq[d].migration_queue
      /\ \A d \in CPU : CountsOf(d)'
  <2>1. CASE task[t].state = "RUNNING"
    <3>1. task' = task /\ rq' = [rq EXCEPT ![c].lock = c]
      BY <2>1 DEF Schedule
    <3>2. /\ rq' \in [CPU -> RunQueues]
          /\ \A d \in CPU : /\ rq'[d].lock = IF d = c THEN c ELSE rq[d].lock
                            /\ rq'[d].nr_running = rq[d].nr_running
                            /\ rq'[d].curr = rq[d].curr
                            /\ rq'[d].migration_queue = rq[d].migration_queue
      BY <1>1, <3>1, Locking
    <3>3. \A d \in CPU : CountsOf(d)'
      BY <3>1, <3>2, CountsSame
    <3> QED
      BY <1>1, <2>1, <3>1, <3>2, <3>3
  <2>2. CASE task[t].state # "RUNNING"
    <3>1. task[t].array = c
      BY <1>1, <1>2, <2>2, Constants DEF TaskInv
    <3>2. /\ task' = [task EXCEPT ![t].array = NULL]
          /\ rq' = [[rq EXCEPT ![c].nr_running = @ - 1] EXCEPT ![c].lock = c]
      BY <1>1, <2>2 DEF Schedule, deactivate_task
    <3>3. /\ task' \in [Thread -> TaskStructs] /\ \A u \in Thread \ {t} : task'[u] = task[u]
          /\ task'[t].cpu = c /\ task'[t].state = task[t].state
          /\ task'[t].cpus_allowed = task[t].cpus_allowed /\ task'[t].array = NULL
      <4>1. task[t] \in TaskStructs /\ t \in Thread
        BY <1>1
      <4>2. PICK k : k = [task[t] EXCEPT !.array = NULL]
        OBVIOUS
      <4>3. /\ k \in TaskStructs /\ k.cpu = task[t].cpu /\ k.state = task[t].state
            /\ k.cpus_allowed = task[t].cpus_allowed /\ k.array = NULL
        BY <4>1, <4>2 DEF TaskStructs
      <4>4. task' = [task EXCEPT ![t] = k]
        BY <3>2, <4>2
      <4> QED
        BY <1>1, <4>3, <4>4
    <3>4. \A d \in CPU : /\ rq'[d].lock = IF d = c THEN c ELSE rq[d].lock
                         /\ rq'[d].curr = rq[d].curr
                         /\ rq'[d].migration_queue = rq[d].migration_queue
                         /\ rq'[d].nr_running = IF d = c THEN rq[d].nr_running - 1
                                                ELSE rq[d].nr_running
      BY <1>1, <3>2 DEF RunQueues
    <3>5. \A d \in CPU : CountsOf(d)' /\ rq'[d].nr_running \in Nat
      <4>1. \A u \in Thread \ {t} : task'[u].array = task[u].array
        BY <3>3
      <4>2. NULL # c /\ \A d \in CPU : d # NULL
        BY Constants
      <4>3. \A d \in CPU : rq'[d].nr_running = IF d = c THEN rq[d].nr_running - 1
                                               ELSE IF d = NULL THEN rq[d].nr_running + 1
                                               ELSE rq[d].nr_running
        BY <3>4, <4>2
      <4> QED
        BY <1>1, <3>1, <3>3, <4>1, <4>2, <4>3, CountMove
    <3>6. rq' \in [CPU -> RunQueues]
      <4>1. rq[c] \in RunQueues /\ rq[c].nr_running - 1 \in Nat
        BY <1>1, <3>4, <3>5
      <4>2. PICK r : r = [rq[c] EXCEPT !.nr_running = @ - 1, !.lock = c]
        OBVIOUS
      <4>3. r \in RunQueues
        BY <4>1, <4>2 DEF RunQueues
      <4>4. rq' = [rq EXCEPT ![c] = r]
        BY <1>1, <3>2, <4>2
      <4> QED
        BY <1>1, <4>3, <4>4
    <3> QED
      BY <2>2, <3>3, <3>4, <3>5, <3>6
  <2> QED
    BY <2>1, <2>2
<1>10. TypeOK'
  BY <1>1, <1>4, <1>9, TypeParts DEF TypeOK, RunQueues, TaskStructs, Locals, Alone
<1>11. Elsewhere(c, t, t)
  <2>1. \A u \in Thread : SameLife(u)
    BY <1>9 DEF SameLife
  <2>2. \A u \in Thread \ {t} : Undisturbed(u)
    <3>1. ASSUME NEW u \in Thread \ {t} PROVE Undisturbed(u)
      <4>1. /\ pc[u] = "wake" => local[u].w \in Thread
            /\ pc[u] \in {"fork", "inactive", "inactive_lock"} => local[u].q \in Thread
        BY Constants DEF IInv, ThreadOK, ArgsOK
      <4> QED
        BY <2>1, <4>1 DEF Undisturbed
    <3> QED
      BY <3>1
  <2>3. \A e \in CPU \ {c} : SameLocks(e) /\ rq'[e].curr = rq[e].curr
    BY <1>1, <1>9, Constants DEF SameLocks
  <2> QED
    BY <1>1, <1>4, <1>9, <2>2, <2>3 DEF Elsewhere, Same, Alone
<1>12. ThreadOK(t)'
  <2>1. on'[c] = t
    BY <1>1
  <2>2. TaskInv(t)'
    BY <1>1, <1>2, <1>4, <1>5, <1>9, <2>1, Constants DEF TaskInv, Off, Dead
  <2> QED
    BY <1>5, <1>6, <2>2 DEF ThreadOK
<1>13. LocksOf(c)' /\ BusiestOK(c)' /\ StackOK(c)'
  <2>1. on'[c] = t
    BY <1>1
  <2>2. LocksOf(c)' /\ BusiestOK(c)'
    BY <1>2, <1>4, <1>9, <2>1 DEF LocksOf, Held, BusiestOK, Balancing
  <2>3. rq[c].curr = t /\ task[t].state # "FREE" /\ local'[t].tick = local[t].tick
    BY <1>1, <1>4 DEF StackOK
  <2>4. StackOK(c)'
    BY <1>4, <1>5, <1>9, <2>1, <2>3 DEF StackOK, Balancing
  <2> QED
    BY <2>2, <2>4
<1>14. RequestsWait' /\ RequestsOnce'
  BY <1>1, <1>4, <1>7, <1>9, NoRequest DEF Alone, Migration
<1>15. \A d \in CPU : CountsOf(d)'
  BY <1>9
<1> QED
  BY <1>1, <1>8, <1>10, <1>11, <1>12, <1>13, <1>14, <1>15, SubjectStep

-----------------------------------------------------------------------------
(* Tasks taken from one processor to another *)

\* Under the lock of its runqueue nobody switches to p or away from it.
LEMMA NoSwitch ==
  ASSUME IInv, NEW b \in CPU, rq[b].lock # b
  PROVE  pc[on[b]] # "switch"
BY DEF IInv, CpuOK, LocksOf, Held

\* So a task that is not current on its runqueue is on no stack.
LEMMA OffStack ==
  ASSUME IInv, NEW p \in Thread, NEW b \in CPU, task[p].cpu = b, pc[on[b]] # "switch",
         rq[b].curr # p
  PROVE  Gone(p)
<1>1. ASSUME NEW e \in CPU, on[e] = p PROVE FALSE
  BY <1>1 DEF IInv, CpuOK, StackOK
<1>2. ASSUME NEW e \in CPU, pc[on[e]] = "switch", rq[e].curr = p PROVE FALSE
  BY <1>2 DEF IInv, CpuOK, StackOK
<1> QED
  BY <1>1, <1>2 DEF Gone, Off

\* resched_task touches need_resched only.
LEMMA ReschedSame ==
  ASSUME NEW T, T \in [Thread -> TaskStructs], NEW v
  PROVE  /\ resched_task(T, v) \in [Thread -> TaskStructs]
         /\ \A u \in Thread : LET r == resched_task(T, v)[u]
                              IN  /\ r.cpu = T[u].cpu /\ r.array = T[u].array /\ r.state = T[u].state
                                  /\ r.cpus_allowed = T[u].cpus_allowed
<1>1. ASSUME NEW u \in Thread
      PROVE  LET r == resched_task(T, v)[u]
             IN  /\ r \in TaskStructs
                 /\ r.cpu = T[u].cpu /\ r.array = T[u].array /\ r.state = T[u].state
                 /\ r.cpus_allowed = T[u].cpus_allowed
  <2>1. T[u] \in TaskStructs
    OBVIOUS
  <2>2. PICK k : k = [T[u] EXCEPT !.need_resched = TRUE]
    OBVIOUS
  <2>3. k \in TaskStructs
    BY <2>1, <2>2, Zenon DEF TaskStructs
  <2>4. /\ k.cpu = T[u].cpu /\ k.array = T[u].array /\ k.state = T[u].state
        /\ k.cpus_allowed = T[u].cpus_allowed
    BY <2>1, <2>2 DEF TaskStructs
  <2>5. resched_task(T, v)[u] = k \/ resched_task(T, v)[u] = T[u]
    BY <2>2, Zenon DEF resched_task
  <2> QED
    BY <2>1, <2>3, <2>4, <2>5
<1>2. resched_task(T, v) = [u \in Thread |-> resched_task(T, v)[u]]
  BY DEF resched_task
<1> QED
  BY <1>1, <1>2

\* With both locks one task is taken from the busiest queue (sched.c:730-816).
LEMMA PullStep ==
  ASSUME IInv, NEW c \in CPU, NEW t, Pull(c, t)
  PROVE  IInv'
<1>1. /\ t = on[c] /\ pc[t] = "pull" /\ t \in Thread /\ ThreadOK(t) /\ CpuOK(c)
      /\ rq \in [CPU -> RunQueues] /\ task \in [Thread -> TaskStructs]
      /\ on \in [CPU -> Thread] /\ pc \in [Thread -> PCs]
      /\ local \in [Thread -> Locals] /\ build \in Builds /\ ops' \in 0 .. build.ops
      /\ KindOK(t) /\ TaskInv(t) /\ StackOK(c) /\ LocksOf(c) /\ task[t].cpu = c
      /\ on' = on /\ build' = build
  BY Acting, TypeParts DEF Pull, At, IInv, ThreadOK, CpuOK
<1>2. PICK b : b = local[t].busiest
  OBVIOUS
<1>3. b \in CPU \ {c} /\ \A d \in CPU : rq[d].lock = c <=> d \in {c, b}
  BY <1>1, <1>2 DEF ThreadOK, ArgsOK, CpuOK, BusiestOK, Balancing, LocksOf, Held
<1>4. PICK place : place = IF local[t].tick THEN "unlock" ELSE "balanced"
  OBVIOUS
<1>5. /\ Alone(t) /\ pc'[t] = place
      /\ \A f \in {"tick", "then", "q", "done"} : local'[t][f] = local[t][f]
  <2>1. /\ pc' = [pc EXCEPT ![t] = place] /\ place \in PCs
        /\ local' = [local EXCEPT ![t].busiest = NULL]
    BY <1>4 DEF Pull, Return, Goto, PCs
  <2>2. /\ t \in Thread /\ pc \in [Thread -> PCs] /\ local \in [Thread -> Locals]
    BY <1>1
  <2> QED
    BY <2>1, <2>2 DEF Alone, SameLocals, Locals
<1>6. CASE rq' = [rq EXCEPT ![b].lock = NULL] /\ task' = task
  <2>1. Locks(c)
    BY <1>3, <1>6 DEF Locks
  <2>2. /\ TypeOK' /\ Own(c, t)
        /\ \A d \in CPU : rq'[d].curr = rq[d].curr /\ rq'[d].migration_queue = rq[d].migration_queue
    BY <1>1, <1>5, <1>6, <2>1, LockMove
  <2>3. \A e \in CPU : rq'[e].lock = IF e = b THEN NULL ELSE rq[e].lock
    BY <1>1, <1>3, <1>6, Locking
  <2>4. LocksOf(c)' /\ BusiestOK(c)'
    BY <1>1, <1>3, <1>4, <1>5, <2>3, Constants DEF LocksOf, Held, BusiestOK, Balancing
  <2> QED
    BY <1>1, <1>4, <1>5, <2>2, <2>4, BalancingStep DEF Balancing
<1>7. ASSUME NEW p \in CanMigrate(b, c),
             task' = resched_task([task EXCEPT ![p].cpu = c, ![p].array = c], t),
             rq' = [[rq EXCEPT ![b].lock = NULL] EXCEPT ![b].nr_running = @ - 1,
                                                        ![c].nr_running = @ + 1]
      PROVE  IInv'
  <2>1. /\ p \in Thread /\ task[p].array = b /\ p # rq[b].curr /\ c \in task[p].cpus_allowed
        /\ ThreadOK(p)
    BY <1>7 DEF CanMigrate, Queued, IInv
  <2>2. task[p].cpu = b /\ task[p].state # "FREE"
    BY <1>3, <2>1, Constants DEF ThreadOK, TaskInv
  <2>3. Gone(p)
    BY <1>3, <2>1, <2>2, NoSwitch, OffStack
  <2>4. p # t /\ p \notin Migrators /\ p \notin Idlers
    <3>1. p # t
      BY <1>1, <2>3 DEF Gone, Off
    <3> QED
      BY <1>3, <2>1, <2>2, <3>1, Constants DEF ThreadOK, TaskInv
  <2>5. /\ task' \in [Thread -> TaskStructs]
        /\ task'[p].cpu = c /\ task'[p].array = c /\ task'[p].state = task[p].state
        /\ task'[p].cpus_allowed = task[p].cpus_allowed
        /\ \A u \in Thread \ {p} : Same(u)
    <3>1. PICK T : T = [task EXCEPT ![p].cpu = c, ![p].array = c]
      OBVIOUS
    <3>2. PICK k : k = [task[p] EXCEPT !.cpu = c, !.array = c]
      OBVIOUS
    <3>3. /\ k \in TaskStructs /\ k.cpu = c /\ k.array = c /\ k.state = task[p].state
          /\ k.cpus_allowed = task[p].cpus_allowed
      <4>1. task[p] \in TaskStructs
        BY <1>1, <2>1
      <4> QED
        BY <3>2, <4>1 DEF TaskStructs
    <3>4. T = [task EXCEPT ![p] = k]
      BY <1>1, <2>1, <3>1, <3>2
    <3>5. T \in [Thread -> TaskStructs] /\ T[p] = k /\ \A u \in Thread \ {p} : T[u] = task[u]
      BY <1>1, <2>1, <3>3, <3>4
    <3>6. task' = resched_task(T, t)
      BY <1>7, <3>1
    <3>7. /\ task' \in [Thread -> TaskStructs]
          /\ \A u \in Thread : /\ task'[u].cpu = T[u].cpu /\ task'[u].array = T[u].array
                               /\ task'[u].state = T[u].state
                               /\ task'[u].cpus_allowed = T[u].cpus_allowed
      BY <3>5, <3>6, ReschedSame
    <3> QED
      BY <2>1, <3>3, <3>5, <3>7 DEF Same
  <2>6. \A d \in CPU : /\ rq'[d].lock = IF d = b THEN NULL ELSE rq[d].lock
                       /\ rq'[d].curr = rq[d].curr
                       /\ rq'[d].migration_queue = rq[d].migration_queue
                       /\ rq'[d].nr_running = IF d = b THEN rq[d].nr_running - 1
                                              ELSE IF d = c THEN rq[d].nr_running + 1
                                              ELSE rq[d].nr_running
    <3>1. rq' = MoveCount(SetLock(rq, b, NULL), b, c)
      BY <1>7 DEF MoveCount, SetLock
    <3>2. b \in CPU /\ c \in CPU \ {b} /\ rq \in [CPU -> RunQueues]
      BY <1>1, <1>3
    <3>3. PICK R : R = SetLock(rq, b, NULL)
      OBVIOUS
    <3>4. /\ R \in [CPU -> RunQueues]
          /\ \A d \in CPU : /\ R[d].lock = IF d = b THEN NULL ELSE rq[d].lock
                            /\ R[d].nr_running = rq[d].nr_running /\ R[d].curr = rq[d].curr
                            /\ R[d].migration_queue = rq[d].migration_queue
      BY <3>2, <3>3, LockSet
    <3>5. \A d \in CPU :
             /\ rq'[d].lock = R[d].lock /\ rq'[d].curr = R[d].curr
             /\ rq'[d].migration_queue = R[d].migration_queue
             /\ rq'[d].nr_running = IF d = b THEN R[d].nr_running - 1
                                    ELSE IF d = c THEN R[d].nr_running + 1
                                    ELSE R[d].nr_running
      BY <3>1, <3>2, <3>3, <3>4, CountMoved
    <3> QED
      BY <3>4, <3>5
  <2>7. \A d \in CPU : CountsOf(d)' /\ rq'[d].nr_running \in Nat
    <3>1. \A u \in Thread \ {p} : task'[u].array = task[u].array
      BY <2>5 DEF Same
    <3> QED
      BY <1>3, <2>1, <2>5, <2>6, <3>1, CountMove
  <2>8. rq' \in [CPU -> RunQueues]
    <3>1. /\ rq[b] \in RunQueues /\ rq[b].nr_running - 1 \in Nat
          /\ rq[c] \in RunQueues /\ rq[c].nr_running + 1 \in Nat
      BY <1>1, <1>3, <2>6, <2>7
    <3>2. PICK r : r = [rq[b] EXCEPT !.lock = NULL, !.nr_running = @ - 1]
      OBVIOUS
    <3>3. PICK s : s = [rq[c] EXCEPT !.nr_running = @ + 1]
      OBVIOUS
    <3>4. r \in RunQueues /\ s \in RunQueues
      BY <3>1, <3>2, <3>3 DEF RunQueues
    <3>5. rq' = [rq EXCEPT ![b] = r, ![c] = s]
      BY <1>1, <1>3, <1>7, <3>2, <3>3
    <3> QED
      BY <1>1, <1>3, <3>4, <3>5
  <2>9. TypeOK'
    BY <1>1, <1>5, <2>5, <2>8, TypeParts DEF TypeOK, RunQueues, TaskStructs, Locals, Alone
  <2>10. \A u \in Thread : SameLife(u)
    BY <2>1, <2>5 DEF SameLife, Same
  <2>11. \A u \in Thread \ {t} : Undisturbed(u)
    <3>1. ASSUME NEW u \in Thread \ {t} PROVE Undisturbed(u)
      <4>1. /\ pc[u] = "wake" => local[u].w \in Thread
            /\ pc[u] \in {"fork", "inactive", "inactive_lock"} => local[u].q \in Thread
        BY Constants DEF IInv, ThreadOK, ArgsOK
      <4> QED
        BY <2>10, <4>1 DEF Undisturbed
    <3> QED
      BY <3>1
  <2>12. Elsewhere(c, t, p)
    <3>1. \A e \in CPU \ {c} : SameLocks(e) /\ rq'[e].curr = rq[e].curr
      <4>1. rq[b].lock = c /\ NULL \notin CPU /\ b \in CPU
        BY <1>3, Constants
      <4>2. \A d \in CPU : /\ rq'[d].lock = IF d = b THEN NULL ELSE rq[d].lock
                           /\ rq'[d].curr = rq[d].curr
        BY <2>6
      <4> QED
        BY <4>1, <4>2 DEF SameLocks
    <3> QED
      BY <1>1, <1>5, <2>5, <2>11, <3>1 DEF Elsewhere, Alone
  <2>13. SameLocals(p)
    BY <1>5, <2>1, <2>4 DEF Alone
  <2>14. ThreadOK(p)'
    <3>1. KindOK(p)' /\ Back(p)' = Back(p)
      BY <2>1, <2>13, KindKept DEF ThreadOK
    <3>2. ArgsOK(p)'
      BY <2>1, <2>4, <2>11, <2>13, ArgsKept DEF ThreadOK, Undisturbed
    <3>3. TaskInv(p)'
      <4>1. Off(p) /\ Off(p)'
        BY <1>1, <2>3 DEF Gone, Off
      <4>2. ~(task[p].state = "ZOMBIE")
        BY <1>3, <2>1, <2>2, <4>1, Constants DEF ThreadOK, TaskInv, Off
      <4> QED
        BY <2>1, <2>2, <2>4, <2>5, <2>13, <3>1, <4>1, <4>2 DEF ThreadOK, TaskInv, SameLocals
    <3> QED
      BY <3>1, <3>2, <3>3 DEF ThreadOK
  <2>15. /\ local'[t].tick = local[t].tick /\ local'[t].then = local[t].then
         /\ local'[t].q = local[t].q /\ local'[t].done = local[t].done
    BY <1>5
  <2>16. KindOK(t)' /\ (~local[t].tick => Back(t)' = Back(t))
    BY <1>1, <1>4, <1>5, <2>15 DEF KindOK, Back, InSchedule, Balancing, Migration, Resume
  <2>17. ThreadOK(t)'
    <3>1. ArgsOK(t)'
      BY <1>4, <1>5 DEF ArgsOK, Balancing
    <3>2. on'[c] = t
      BY <1>1
    <3>3. local[t].tick => Back(t) # "none"
      BY <1>1 DEF Back, Balancing, InSchedule
    <3>4. Same(t)
      BY <1>1, <2>4, <2>5
    <3>5. TaskInv(t)'
      BY <1>1, <2>16, <3>2, <3>3, <3>4 DEF TaskInv, Same, Off, Dead
    <3> QED
      BY <2>16, <3>1, <3>5 DEF ThreadOK
  <2>18. LocksOf(c)' /\ BusiestOK(c)' /\ StackOK(c)'
    <3>1. on'[c] = t /\ Same(t)
      BY <1>1, <2>4, <2>5
    <3>2. LocksOf(c)' /\ BusiestOK(c)'
      BY <1>3, <1>4, <1>5, <2>6, <3>1, Constants DEF LocksOf, Held, BusiestOK, Balancing
    <3>3. StackOK(c)'
      BY <1>1, <1>4, <1>5, <2>6, <3>1 DEF StackOK, Same, Balancing
    <3> QED
      BY <3>2, <3>3
  <2>19. \A u \in Thread : Apart(t, u)' /\ Apart(p, u)'
    <3>1. \A u \in Thread : Apart(t, u)'
      BY <1>4, <1>5, ApartElsewhere
    <3>2. \A u \in Thread \ {t} : Apart(p, u)'
      BY <1>5, <2>1, <2>13, ApartKept DEF Alone, IInv
    <3>3. Apart(p, t)'
      <4>1. Apart(t, p)'
        BY <2>1, <3>1
      <4> QED
        BY <4>1 DEF Apart
    <3> QED
      BY <3>1, <3>2, <3>3
  <2>20. Waiting(t) => Waiting(t)'
    <3>1. CASE local[t].tick
      BY <1>1, <3>1 DEF Waiting, Back, Balancing, InSchedule
    <3> QED
      BY <2>15, <2>16, <3>1 DEF Waiting
  <2>21. RequestsWait' /\ RequestsOnce'
    BY <1>1, <1>4, <1>5, <2>6, <2>20, NoRequest DEF Alone, Migration
  <2>22. SameCourse(p) \/ p = t \/ Gone(p)
    BY <2>3
  <2>23. \A d \in CPU : CountsOf(d)'
    BY <2>7
  <2> QED
    BY <1>1, <2>1, <2>3, <2>9, <2>12, <2>14, <2>17, <2>18, <2>19, <2>21, <2>22, <2>23, SubjectStep
<1> QED
  BY <1>2, <1>6, <1>7 DEF Pull

\* When no task is freed or reused, the arguments of nobody are disturbed.
LEMMA AllUndisturbed ==
  ASSUME IInv, \A u \in Thread : SameLife(u)
  PROVE  \A u \in Thread : Undisturbed(u)
<1>1. ASSUME NEW u \in Thread PROVE Undisturbed(u)
  <2>1. /\ pc[u] = "wake" => local[u].w \in Thread
        /\ pc[u] \in {"fork", "inactive", "inactive_lock"} => local[u].q \in Thread
    BY Constants DEF IInv, ThreadOK, ArgsOK
  <2> QED
    BY <2>1 DEF Undisturbed
<1> QED
  BY <1>1

\* A task that runs nowhere keeps its place when it is moved to processor d.
LEMMA MovedOK ==
  ASSUME IInv, NEW p \in Thread, Gone(p), p \notin Idlers, p \notin Migrators, on' = on,
         SameLocals(p), Undisturbed(p), task \in [Thread -> TaskStructs],
         task'[p].array # NULL => task'[p].array = task'[p].cpu /\ task'[p].state # "FREE",
         task'[p].cpus_allowed # {},
         task'[p].state \in Dead => task[p].state \in Dead,
         task'[p].state = "ZOMBIE" => task'[p].array = NULL
  PROVE  ThreadOK(p)'
<1>1. ThreadOK(p)
  BY DEF IInv
<1>2. KindOK(p)' /\ Back(p)' = Back(p)
  BY <1>1, KindKept DEF ThreadOK
<1>3. ArgsOK(p)'
  BY <1>1, ArgsKept DEF ThreadOK, Undisturbed
<1>4. Off(p) /\ Off(p)'
  BY DEF Gone, Off
<1>5. TaskInv(p)'
  BY <1>1, <1>2, <1>4 DEF ThreadOK, TaskInv, SameLocals
<1> QED
  BY <1>2, <1>3, <1>5 DEF ThreadOK

\* A task that is queued and runs nowhere is no zombie.
LEMMA NoZombie ==
  ASSUME IInv, NEW p \in Thread, Gone(p), task[p].array # NULL
  PROVE  task[p].state \notin Dead /\ task[p].cpu \in CPU /\ task[p].array = task[p].cpu
<1>1. TaskInv(p) /\ task[p].cpu \in CPU
  BY TypeParts DEF IInv, ThreadOK, TaskStructs
<1> QED
  BY <1>1 DEF TaskInv, Gone, Off, Dead

\* Tasks whose places stay the same are as far apart as they were.
LEMMA ApartBoth ==
  ASSUME IInv, NEW t \in Thread, NEW p \in Thread \ {t}, SameLocals(p),
         \A u \in Thread \ {t} : SameLocals(u), \A u \in Thread : Apart(t, u)'
  PROVE  \A u \in Thread : Apart(p, u)'
<1>1. \A u \in Thread \ {t} : Apart(p, u)'
  BY ApartKept DEF IInv
<1>2. Apart(p, t)'
  <2>1. Apart(t, p)'
    OBVIOUS
  <2> QED
    BY <2>1 DEF Apart
<1> QED
  BY <1>1, <1>2

\* A queue that somebody is on is not empty.
LEMMA QueueNotEmpty ==
  ASSUME IInv, NEW p \in Thread, NEW d \in CPU, task[p].array = d
  PROVE  rq[d].nr_running - 1 \in Nat
<1>1. p \in Queued(d) /\ IsFiniteSet(Queued(d))
  BY QueuedFinite DEF Queued
<1>2. /\ Cardinality(Queued(d)) \in Nat /\ Cardinality(Queued(d) \ {p}) \in Nat
      /\ Cardinality(Queued(d) \ {p}) = Cardinality(Queued(d)) - 1
  BY <1>1, FS_CardinalityType, FS_RemoveElement
<1> QED
  BY <1>2 DEF IInv, CpuOK, CountsOf

\* A counter goes up or down.
LEMMA CounterSet ==
  ASSUME NEW R \in [CPU -> RunQueues], NEW d \in CPU, NEW n \in Nat,
         NEW S, S = [R EXCEPT ![d].nr_running = n]
  PROVE  /\ S \in [CPU -> RunQueues]
         /\ \A e \in CPU : /\ S[e].nr_running = IF e = d THEN n ELSE R[e].nr_running
                           /\ S[e].lock = R[e].lock /\ S[e].curr = R[e].curr
                           /\ S[e].migration_queue = R[e].migration_queue
BY DEF RunQueues

\* The effect of Moved: a task that runs nowhere goes from src to dest.
LEMMA MovedEffect ==
  ASSUME IInv, NEW p \in Thread, NEW src \in CPU, NEW dest \in CPU, task[p].cpu = src,
         task[p].array \in {NULL, src}, NEW M, M = Moved(p, dest)
  PROVE  /\ M[1] \in [Thread -> TaskStructs] /\ M[2] \in [CPU -> RunQueues]
         /\ \A u \in Thread \ {p} : M[1][u] = task[u]
         /\ M[1][p].cpu = dest /\ M[1][p].state = task[p].state
         /\ M[1][p].cpus_allowed = task[p].cpus_allowed
         /\ M[1][p].array = IF task[p].array = NULL THEN NULL ELSE dest
         /\ \A d \in CPU : /\ M[2][d].lock = rq[d].lock /\ M[2][d].curr = rq[d].curr
                           /\ M[2][d].migration_queue = rq[d].migration_queue
                           /\ M[2][d].nr_running =
                                IF task[p].array = NULL \/ src = dest THEN rq[d].nr_running
                                ELSE IF d = src THEN rq[d].nr_running - 1
                                ELSE IF d = dest THEN rq[d].nr_running + 1
                                ELSE rq[d].nr_running
<1>1. /\ task \in [Thread -> TaskStructs] /\ rq \in [CPU -> RunQueues]
      /\ task[p] \in TaskStructs
  BY TypeParts DEF IInv
<1>2. NULL \notin CPU
  BY Constants
<1>3. CASE task[p].array = NULL
  <2>1. M[1] = [task EXCEPT ![p].cpu = dest] /\ M[2] = rq
    BY <1>3 DEF Moved
  <2>2. PICK k : k = [task[p] EXCEPT !.cpu = dest]
    OBVIOUS
  <2>3. /\ k \in TaskStructs /\ k.cpu = dest /\ k.array = NULL /\ k.state = task[p].state
        /\ k.cpus_allowed = task[p].cpus_allowed
    BY <1>1, <1>3, <2>2 DEF TaskStructs
  <2>4. M[1] = [task EXCEPT ![p] = k]
    BY <2>1, <2>2
  <2>5. /\ M[1] \in [Thread -> TaskStructs] /\ M[1][p] = k
        /\ \A u \in Thread \ {p} : M[1][u] = task[u]
    BY <1>1, <2>3, <2>4
  <2> QED
    BY <1>1, <1>3, <2>1, <2>3, <2>5
<1>4. CASE task[p].array = src
  <2>1. PICK n : n = rq[src].nr_running - 1
    OBVIOUS
  <2>2. n \in Nat
    BY <1>4, <2>1, QueueNotEmpty
  <2>3. PICK S : S = [rq EXCEPT ![src].nr_running = n]
    OBVIOUS
  <2>4. /\ S \in [CPU -> RunQueues]
        /\ \A e \in CPU : /\ S[e].nr_running = IF e = src THEN n ELSE rq[e].nr_running
                          /\ S[e].lock = rq[e].lock /\ S[e].curr = rq[e].curr
                          /\ S[e].migration_queue = rq[e].migration_queue
    BY <1>1, <2>2, <2>3, CounterSet
  <2>5. PICK m : m = S[dest].nr_running + 1
    OBVIOUS
  <2>6. m \in Nat
    BY <2>4, <2>5 DEF RunQueues
  <2>7. PICK E : E = [task EXCEPT ![p] = [task[p] EXCEPT !.array = NULL, !.cpu = dest]]
    OBVIOUS
  <2>8. M = << [E EXCEPT ![p].array = dest], [S EXCEPT ![dest].nr_running = m] >>
    <3>1. deactivate_task(task, rq, p) = << [task EXCEPT ![p].array = NULL], S >>
      BY <1>1, <2>1, <2>3 DEF deactivate_task
    <3>2. [[task EXCEPT ![p].array = NULL] EXCEPT ![p].cpu = dest] = E
      BY <1>1, <2>7
    <3>3. M = activate_task(E, S, p)
      <4>1. task[p].array # NULL
        BY <1>2, <1>4
      <4>2. M = activate_task([deactivate_task(task, rq, p)[1] EXCEPT ![p].cpu = dest],
                              deactivate_task(task, rq, p)[2], p)
        BY <4>1, Zenon DEF Moved
      <4>3. PICK F : F = [task EXCEPT ![p].array = NULL]
        OBVIOUS
      <4>4. /\ deactivate_task(task, rq, p)[1] = F /\ deactivate_task(task, rq, p)[2] = S
            /\ [F EXCEPT ![p].cpu = dest] = E
        BY <3>1, <3>2, <4>3
      <4> QED
        BY <4>2, <4>4
    <3>4. E[p].cpu = dest
      BY <1>1, <2>7 DEF TaskStructs
    <3>5. [S EXCEPT ![dest].nr_running = @ + 1] = [S EXCEPT ![dest].nr_running = m]
      BY <2>5
    <3> QED
      BY <3>3, <3>4, <3>5 DEF activate_task
  <2>9. PICK T : T = [S EXCEPT ![dest].nr_running = m]
    OBVIOUS
  <2>10. /\ T \in [CPU -> RunQueues]
         /\ \A e \in CPU : /\ T[e].nr_running = IF e = dest THEN m ELSE S[e].nr_running
                           /\ T[e].lock = S[e].lock /\ T[e].curr = S[e].curr
                           /\ T[e].migration_queue = S[e].migration_queue
    BY <2>4, <2>6, <2>9, CounterSet
  <2>11. PICK k : k = [task[p] EXCEPT !.array = dest, !.cpu = dest]
    OBVIOUS
  <2>12. /\ k \in TaskStructs /\ k.cpu = dest /\ k.array = dest /\ k.state = task[p].state
         /\ k.cpus_allowed = task[p].cpus_allowed
    BY <1>1, <2>11 DEF TaskStructs
  <2>13. M[1] = [task EXCEPT ![p] = k]
    <3>1. PICK f : f = [task[p] EXCEPT !.array = NULL, !.cpu = dest]
      OBVIOUS
    <3>2. [f EXCEPT !.array = dest] = k
      BY <1>1, <2>11, <3>1 DEF TaskStructs
    <3>3. E = [task EXCEPT ![p] = f]
      BY <2>7, <3>1
    <3>4. M[1] = [E EXCEPT ![p] = [f EXCEPT !.array = dest]]
      BY <1>1, <2>8, <3>3
    <3> QED
      BY <1>1, <3>2, <3>3, <3>4
  <2>14. /\ M[1] \in [Thread -> TaskStructs] /\ M[1][p] = k
         /\ \A u \in Thread \ {p} : M[1][u] = task[u]
    BY <1>1, <2>12, <2>13
  <2>15. M[2] = T
    BY <2>8, <2>9
  <2>16. \A d \in CPU : rq[d].nr_running \in Nat
    BY <1>1 DEF RunQueues
  <2>17. \A d \in CPU : T[d].nr_running =
                                IF task[p].array = NULL \/ src = dest THEN rq[d].nr_running
                                ELSE IF d = src THEN rq[d].nr_running - 1
                                ELSE IF d = dest THEN rq[d].nr_running + 1
                                ELSE rq[d].nr_running
    <3>1. \A d \in CPU : T[d].nr_running = IF d = dest THEN m
                                          ELSE IF d = src THEN n ELSE rq[d].nr_running
      BY <2>4, <2>10
    <3>2. m = (IF dest = src THEN n ELSE rq[dest].nr_running) + 1
      BY <2>4, <2>5
    <3>3. rq[src].nr_running \in Nat /\ rq[dest].nr_running \in Nat /\ task[p].array # NULL
      BY <1>2, <1>4, <2>16
    <3>4. CASE src = dest
      <4>1. m = rq[dest].nr_running
        BY <2>1, <3>2, <3>3, <3>4
      <4> QED
        BY <3>1, <3>4, <4>1
    <3>5. CASE src # dest
      BY <2>1, <3>1, <3>2, <3>3, <3>5
    <3> QED
      BY <3>4, <3>5
  <2> QED
    BY <1>2, <1>4, <2>4, <2>10, <2>12, <2>14, <2>15, <2>17
<1> QED
  BY <1>3, <1>4

\* Two locks are dropped.
UnlockTwo(R, a, b) == [R EXCEPT ![a].lock = NULL, ![b].lock = NULL]

LEMMA TwoUnlocked ==
  ASSUME NEW R \in [CPU -> RunQueues], NEW a \in CPU, NEW b \in CPU
  PROVE  /\ UnlockTwo(R, a, b) \in [CPU -> RunQueues]
         /\ \A e \in CPU : /\ UnlockTwo(R, a, b)[e].lock = IF e \in {a, b} THEN NULL
                                                           ELSE R[e].lock
                           /\ UnlockTwo(R, a, b)[e].nr_running = R[e].nr_running
                           /\ UnlockTwo(R, a, b)[e].curr = R[e].curr
                           /\ UnlockTwo(R, a, b)[e].migration_queue = R[e].migration_queue
<1>1. UnlockTwo(R, a, b) = SetLock(SetLock(R, a, NULL), b, NULL)
  BY DEF UnlockTwo, SetLock
<1>2. PICK Q : Q = SetLock(R, a, NULL)
  OBVIOUS
<1>3. /\ Q \in [CPU -> RunQueues]
      /\ \A e \in CPU : /\ Q[e].lock = IF e = a THEN NULL ELSE R[e].lock
                        /\ Q[e].nr_running = R[e].nr_running /\ Q[e].curr = R[e].curr
                        /\ Q[e].migration_queue = R[e].migration_queue
  BY <1>2, LockSet
<1>4. PICK Z : Z = SetLock(Q, b, NULL)
  OBVIOUS
<1>5. /\ Z \in [CPU -> RunQueues]
      /\ \A e \in CPU : /\ Z[e].lock = IF e = b THEN NULL ELSE Q[e].lock
                        /\ Z[e].nr_running = Q[e].nr_running /\ Z[e].curr = Q[e].curr
                        /\ Z[e].migration_queue = Q[e].migration_queue
  <2>1. Q \in [CPU -> RunQueues]
    BY <1>3
  <2> QED
    BY <1>4, <2>1, LockSet
<1>6. UnlockTwo(R, a, b) = Z
  BY <1>1, <1>2, <1>4
<1> QED
  BY <1>3, <1>5, <1>6

\* The task is moved if it is still on this processor (sched.c:2325-2340).
LEMMA MigrateStep ==
  ASSUME IInv, NEW c \in CPU, NEW t, Migrate(c, t)
  PROVE  IInv'
<1>1. /\ t = on[c] /\ pc[t] = "migrate_move" /\ pc[t] \in Migration
      /\ on' = on /\ local' = local /\ ops' = ops /\ build' = build
  BY DEF Migrate, At, Migration
<1>2. PICK p, src, dest : p = ReqTask(t) /\ src = local[t].src /\ dest = local[t].dest
  OBVIOUS
<1>3. /\ t = migration[c] /\ t \in Migrators /\ t \in Thread /\ ThreadOK(t) /\ CpuOK(c)
      /\ t \notin Task /\ t \notin Idlers /\ p \in Task /\ p \in Thread /\ p # t
      /\ p \notin Migrators /\ p \notin Idlers /\ task[t].state \notin Dead
  BY <1>1, <1>2, Requested, Constants
<1>4. /\ rq \in [CPU -> RunQueues] /\ task \in [Thread -> TaskStructs]
      /\ on \in [CPU -> Thread] /\ pc \in [Thread -> PCs] /\ local \in [Thread -> Locals]
      /\ build \in Builds /\ ops \in 0 .. build.ops
  BY TypeParts DEF IInv
<1>5. /\ src \in CPU /\ dest \in CPU /\ LocksOf(c) /\ StackOK(c) /\ KindOK(t) /\ TaskInv(t)
      /\ TaskInv(p)
  BY <1>1, <1>2, <1>3 DEF ThreadOK, ArgsOK, CpuOK, IInv
<1>6. \A d \in CPU : rq[d].lock = c <=> d \in {src, dest}
  BY <1>1, <1>2, <1>5 DEF LocksOf, Held
<1>7. /\ rq[c].curr = t /\ (task[t].array = c \/ t = idle[c]) /\ task[t].cpu = c
      /\ task[t].state # "FREE"
  BY <1>1, <1>5 DEF StackOK, Balancing
<1>8. PICK place \in {"migrate_src", "migrate_up"} : Goto(t, place)
  BY DEF Migrate
<1>9. Alone(t) /\ pc'[t] = place /\ local'[t] = local[t] /\ SameLocals(p)
  <2>1. place \in PCs
    BY DEF PCs
  <2>2. Alone(t) /\ pc'[t] = place /\ local'[t] = local[t]
    BY <1>1, <1>3, <1>8, <2>1, Stays
  <2> QED
    BY <1>3, <2>2 DEF Alone
<1>10. PICK M : M = IF task[p].cpu = src /\ src = c THEN Moved(p, dest) ELSE << task, rq >>
  OBVIOUS
<1>11. task' = M[1] /\ rq' = [M[2] EXCEPT ![src].lock = NULL, ![dest].lock = NULL]
  <2>1. CASE task[p].cpu # src
    BY <1>2, <1>10, <2>1 DEF Migrate
  <2>2. CASE task[p].cpu = src
    BY <1>2, <1>10, <2>2 DEF Migrate
  <2> QED
    BY <2>1, <2>2
\* The effect on the task and the counters.
<1>12. /\ M[1] \in [Thread -> TaskStructs] /\ M[2] \in [CPU -> RunQueues]
       /\ \A u \in Thread \ {p} : M[1][u] = task[u]
       /\ M[1][p].state = task[p].state /\ M[1][p].cpus_allowed = task[p].cpus_allowed
       /\ \/ M[1][p] = task[p]
          \/ Gone(p) /\ M[1][p].array = IF task[p].array = NULL THEN NULL ELSE M[1][p].cpu
       /\ \A d \in CPU : /\ M[2][d].lock = rq[d].lock /\ M[2][d].curr = rq[d].curr
                         /\ M[2][d].migration_queue = rq[d].migration_queue
  <2>1. CASE task[p].cpu = src /\ src = c
    <3>1. task[p].array \in {NULL, src}
      BY <1>5, <2>1 DEF TaskInv
    <3>2. M = Moved(p, dest)
      BY <1>10, <2>1
    <3>3. Gone(p)
      BY <1>1, <1>3, <1>7, <2>1, OffStack
    <3> QED
      BY <1>3, <1>5, <2>1, <3>1, <3>2, <3>3, MovedEffect
  <2>2. CASE ~(task[p].cpu = src /\ src = c)
    BY <1>4, <1>10, <2>2
  <2> QED
    BY <2>1, <2>2
<1>13. /\ rq' \in [CPU -> RunQueues]
       /\ \A d \in CPU : /\ rq'[d].lock = IF d \in {src, dest} THEN NULL ELSE rq[d].lock
                         /\ rq'[d].curr = rq[d].curr /\ rq'[d].nr_running = M[2][d].nr_running
                         /\ rq'[d].migration_queue = rq[d].migration_queue
  <2>1. PICK R \in [CPU -> RunQueues] : R = M[2]
    BY <1>12
  <2>2. PICK S : S = rq'
    OBVIOUS
  <2>3. S = UnlockTwo(R, src, dest)
    BY <1>11, <2>1, <2>2 DEF UnlockTwo
  <2>4. /\ S \in [CPU -> RunQueues]
        /\ \A e \in CPU : /\ S[e].lock = IF e \in {src, dest} THEN NULL ELSE R[e].lock
                          /\ S[e].nr_running = R[e].nr_running /\ S[e].curr = R[e].curr
                          /\ S[e].migration_queue = R[e].migration_queue
    <3>1. src \in CPU /\ dest \in CPU
      BY <1>5
    <3> QED
      BY <2>3, <3>1, TwoUnlocked
  <2> QED
    BY <1>12, <2>1, <2>2, <2>4
<1>14. /\ task' \in [Thread -> TaskStructs] /\ \A u \in Thread \ {p} : Same(u) /\ task'[u] = task[u]
       /\ task'[p].state = task[p].state /\ task'[p].cpus_allowed = task[p].cpus_allowed
       /\ \/ task'[p] = task[p]
          \/ Gone(p) /\ task'[p].array = IF task[p].array = NULL THEN NULL ELSE task'[p].cpu
  <2>1. PICK T : T = M[1]
    OBVIOUS
  <2>2. task' = T
    BY <1>11, <2>1
  <2>3. T \in [Thread -> TaskStructs] /\ \A u \in Thread \ {p} : T[u] = task[u]
    BY <1>12, <2>1
  <2>4. /\ T[p].state = task[p].state /\ T[p].cpus_allowed = task[p].cpus_allowed
        /\ \/ T[p] = task[p]
           \/ Gone(p) /\ T[p].array = IF task[p].array = NULL THEN NULL ELSE T[p].cpu
    BY <1>12, <2>1
  <2>5. \A u \in Thread \ {p} : Same(u)
    BY <2>2, <2>3 DEF Same
  <2> QED
    BY <2>2, <2>3, <2>4, <2>5
<1>15. \A d \in CPU : CountsOf(d)'
  <2>1. \A u \in Thread \ {p} : task'[u].array = task[u].array
    BY <1>14
  <2>2. CASE task[p].cpu = src /\ src = c
    <3>1. task[p].array \in {NULL, src}
      BY <1>5, <2>2 DEF TaskInv
    <3>2. M = Moved(p, dest)
      BY <1>10, <2>2
    <3>3. /\ task'[p].array = IF task[p].array = NULL THEN NULL ELSE dest
          /\ \A d \in CPU : rq'[d].nr_running =
                                IF task[p].array = NULL \/ src = dest THEN rq[d].nr_running
                                ELSE IF d = src THEN rq[d].nr_running - 1
                                ELSE IF d = dest THEN rq[d].nr_running + 1
                                ELSE rq[d].nr_running
      <4>1. /\ M[1][p].array = IF task[p].array = NULL THEN NULL ELSE dest
            /\ \A d \in CPU : M[2][d].nr_running =
                                IF task[p].array = NULL \/ src = dest THEN rq[d].nr_running
                                ELSE IF d = src THEN rq[d].nr_running - 1
                                ELSE IF d = dest THEN rq[d].nr_running + 1
                                ELSE rq[d].nr_running
        BY <1>3, <1>5, <2>2, <3>1, <3>2, MovedEffect
      <4>2. \A d \in CPU : rq'[d].nr_running = M[2][d].nr_running
        BY <1>13
      <4> QED
        BY <1>11, <4>1, <4>2
    <3>4. CASE task[p].array = NULL \/ src = dest
      <4>1. task'[p].array = task[p].array
        BY <3>1, <3>3, <3>4
      <4> QED
        BY <1>3, <2>1, <3>3, <3>4, <4>1, CountsSame
    <3>5. CASE task[p].array # NULL /\ src # dest
      <4>1. task[p].array = src /\ task'[p].array = dest
        BY <3>1, <3>3, <3>5
      <4>2. \A d \in CPU : rq'[d].nr_running = IF d = src THEN rq[d].nr_running - 1
                                ELSE IF d = dest THEN rq[d].nr_running + 1
                                ELSE rq[d].nr_running
        BY <3>3, <3>5
      <4> QED
        BY <1>3, <1>5, <2>1, <3>5, <4>1, <4>2, CountMove
    <3> QED
      BY <3>4, <3>5
  <2>3. CASE ~(task[p].cpu = src /\ src = c)
    <3>1. task' = task /\ M[2] = rq
      BY <1>10, <1>11, <2>3
    <3> QED
      BY <1>13, <3>1, CountsSame
  <2> QED
    BY <2>2, <2>3
<1>16. TypeOK'
  BY <1>1, <1>4, <1>9, <1>13, <1>14, TypeParts DEF TypeOK, RunQueues, TaskStructs, Locals, Alone
<1>17. \A u \in Thread : Undisturbed(u)
  <2>1. \A u \in Thread : SameLife(u)
    BY <1>14 DEF SameLife
  <2> QED
    BY <2>1, AllUndisturbed
<1>18. Elsewhere(c, t, p)
  <2>1. \A e \in CPU \ {c} : SameLocks(e) /\ rq'[e].curr = rq[e].curr
    <3>1. rq[src].lock = c /\ rq[dest].lock = c /\ NULL \notin CPU
      BY <1>5, <1>6, Constants
    <3> QED
      BY <1>13, <3>1 DEF SameLocks
  <2> QED
    BY <1>1, <1>9, <1>14, <1>17, <2>1 DEF Elsewhere, Alone
<1>19. ThreadOK(p)'
  <2>1. CASE task'[p] = task[p]
    <3>1. ThreadOK(p) /\ Same(p) /\ Undisturbed(p)
      BY <1>3, <1>17, <2>1 DEF IInv, Same
    <3> QED
      BY <1>1, <1>9, <3>1, KindKept, ArgsKept, TaskKept DEF ThreadOK, Same, Undisturbed
  <2>2. CASE task'[p] # task[p]
    <3>1. Gone(p) /\ task'[p].array = IF task[p].array = NULL THEN NULL ELSE task'[p].cpu
      BY <1>14, <2>2
    <3>2. task[p].array # NULL => task[p].state \notin Dead
      BY <1>3, <3>1, NoZombie
    <3>3. task'[p].array # NULL => task'[p].array = task'[p].cpu /\ task'[p].state # "FREE"
      BY <1>14, <3>1, <3>2 DEF Dead
    <3>4. task'[p].state = "ZOMBIE" => task'[p].array = NULL
      BY <1>14, <3>1, <3>2 DEF Dead
    <3>5. task'[p].cpus_allowed # {} /\ (task'[p].state \in Dead => task[p].state \in Dead)
      BY <1>5, <1>14 DEF TaskInv
    <3> QED
      BY <1>1, <1>3, <1>4, <1>9, <1>17, <3>1, <3>3, <3>4, <3>5, MovedOK
  <2> QED
    BY <2>1, <2>2
<1>20. ThreadOK(t)'
  <2>1. KindOK(t)'
    BY <1>1, <1>3, <1>5, <1>9 DEF ThreadOK, KindOK, Back, InSchedule, Balancing, Migration, Resume
  <2>2. ArgsOK(t)'
    BY <1>2, <1>5, <1>9 DEF ArgsOK, Balancing
  <2>3. TaskInv(t)'
    <3>1. on'[c] = t /\ task'[t] = task[t]
      BY <1>1, <1>3, <1>14
    <3>2. ~Off(t)'
      BY <3>1 DEF Off
    <3> QED
      BY <1>3, <1>5, <3>1, <3>2 DEF TaskInv, Dead
  <2> QED
    BY <2>1, <2>2, <2>3 DEF ThreadOK
<1>21. LocksOf(c)' /\ BusiestOK(c)' /\ StackOK(c)'
  <2>1. on'[c] = t /\ task'[t] = task[t]
    BY <1>1, <1>3, <1>14
  <2>2. LocksOf(c)' /\ BusiestOK(c)'
    BY <1>6, <1>8, <1>9, <1>13, <2>1, Constants DEF LocksOf, Held, BusiestOK, Balancing
  <2>3. StackOK(c)'
    BY <1>7, <1>8, <1>9, <1>13, <2>1 DEF StackOK
  <2> QED
    BY <2>2, <2>3
<1>22. \A u \in Thread : Apart(t, u)' /\ Apart(p, u)'
  <2>1. \A u \in Thread : Apart(t, u)'
    BY <1>8, <1>9, ApartElsewhere
  <2> QED
    BY <1>3, <1>9, <2>1, ApartBoth DEF Alone
<1>23. RequestsWait' /\ RequestsOnce'
  <2>1. ~Waiting(t) /\ pc'[t] \in Migration
    BY <1>3, <1>8, <1>9 DEF Waiting, Migration
  <2> QED
    BY <1>1, <1>9, <1>13, <2>1, NoRequest DEF Alone
<1>24. /\ SameCourse(p) \/ p = t \/ Gone(p)
       /\ p = t \/ Gone(p) \/ (/\ task'[p].cpu = task[p].cpu /\ task'[p].array = task[p].array
                               /\ task[p].state # "FREE" => task'[p].state # "FREE")
  BY <1>9, <1>14 DEF SameLocals, SameCourse
<1> QED
  BY <1>1, <1>3, <1>15, <1>16, <1>18, <1>19, <1>20, <1>21, <1>22, <1>23, <1>24, SubjectStep

-----------------------------------------------------------------------------
(* The life of a task *)

\* A task_struct whose state is set.
LEMMA StateSet ==
  ASSUME task \in [Thread -> TaskStructs], NEW p \in Thread,
         NEW s \in {"FREE", "RUNNING", "SLEEPING", "ZOMBIE"},
         task' = [task EXCEPT ![p].state = s]
  PROVE  /\ task' \in [Thread -> TaskStructs]
         /\ \A u \in Thread \ {p} : task'[u] = task[u]
         /\ task'[p].state = s /\ task'[p].cpu = task[p].cpu /\ task'[p].array = task[p].array
         /\ task'[p].cpus_allowed = task[p].cpus_allowed
<1>1. PICK k : k = [task[p] EXCEPT !.state = s]
  OBVIOUS
<1>2. /\ k \in TaskStructs /\ k.state = s /\ k.cpu = task[p].cpu /\ k.array = task[p].array
      /\ k.cpus_allowed = task[p].cpus_allowed
  <2>1. task[p] \in TaskStructs
    OBVIOUS
  <2> QED
    BY <1>1, <2>1 DEF TaskStructs
<1>3. task' = [task EXCEPT ![p] = k]
  BY <1>1
<1> QED
  BY <1>2, <1>3

\* A process that is created, exits or is released, and the tasks that others refer to.
LEMMA OthersUndisturbed ==
  ASSUME IInv, NEW t \in Thread, NEW p \in Thread, \A u \in Thread \ {p} : task'[u] = task[u],
         \A u \in Thread \ {t} : /\ pc[u] = "wake" => local[u].w # p \/ SameLife(p)
                                 /\ pc[u] \in {"fork", "inactive", "inactive_lock"} =>
                                      local[u].q # p \/ SameLife(p)
  PROVE  \A u \in Thread \ {t} : Undisturbed(u)
<1>1. ASSUME NEW u \in Thread \ {t} PROVE Undisturbed(u)
  <2>1. /\ pc[u] = "wake" => local[u].w \in Thread
        /\ pc[u] \in {"fork", "inactive", "inactive_lock"} => local[u].q \in Thread
    BY Constants DEF IInv, ThreadOK, ArgsOK
  <2>2. \A x \in Thread \ {p} : SameLife(x)
    BY DEF SameLife
  <2> QED
    BY <2>1, <2>2 DEF Undisturbed
<1> QED
  BY <1>1

\* do_exit (exit.c:529-537): nobody is about to wake the process.
LEMMA ExitStep ==
  ASSUME IInv, NEW c \in CPU, NEW t, Exit(c, t)
  PROVE  IInv'
<1>1. PICK l : l = [NoLocal EXCEPT !.then = "none"]
  OBVIOUS
<1>2. l \in Locals /\ l.then = "none" /\ l.q = NULL
  BY <1>1 DEF NoLocal, Locals, PCs
<1>3. l.tick = FALSE
  BY <1>1 DEF NoLocal
<1>4. /\ Begin(c, t, "exit", "schedule", l) /\ task' = [task EXCEPT ![t].state = "ZOMBIE"]
      /\ \A u \in Thread : ~(pc[u] = "wake" /\ local[u].w = t)
  BY <1>1 DEF Exit
<1>5. /\ t = on[c] /\ t \in Task /\ pc[t] = "user" /\ task[t].state \notin Dead
      /\ pc'[t] = "schedule" /\ local'[t] = l /\ Alone(t)
      /\ ops' \in 0 .. build.ops /\ rq' = rq /\ on' = on /\ build' = build
  <2>1. "schedule" \in PCs
    BY DEF PCs
  <2> QED
    BY <1>2, <1>4, <2>1, BeginEffect
<1>6. /\ t \in Thread /\ ThreadOK(t) /\ CpuOK(c) /\ task[t].cpu = c /\ t \notin Idlers
      /\ t \notin Migrators /\ task \in [Thread -> TaskStructs] /\ rq \in [CPU -> RunQueues]
      /\ on \in [CPU -> Thread] /\ build \in Builds
  BY <1>5, Acting, TypeParts, Constants DEF IInv
<1>7. /\ task' \in [Thread -> TaskStructs] /\ \A u \in Thread \ {t} : task'[u] = task[u]
      /\ task'[t].state = "ZOMBIE" /\ task'[t].cpu = c /\ task'[t].array = task[t].array
      /\ task'[t].cpus_allowed = task[t].cpus_allowed
  BY <1>4, <1>6, StateSet
<1>8. TypeOK'
  BY <1>5, <1>6, <1>7, TypeParts DEF TypeOK, RunQueues, TaskStructs, Locals, Alone
<1>9. Elsewhere(c, t, t)
  <2>1. \A u \in Thread \ {t} : Undisturbed(u)
    <3>1. \A u \in Thread \ {t} : /\ pc[u] = "wake" => local[u].w # t
                                  /\ pc[u] \in {"fork", "inactive", "inactive_lock"} =>
                                       local[u].q # t
      BY <1>4, <1>5 DEF IInv, ThreadOK, ArgsOK, Dead
    <3> QED
      BY <1>6, <1>7, <3>1, OthersUndisturbed
  <2> QED
    BY <1>5, <1>7, <2>1 DEF Elsewhere, Alone, Same, SameLocks
<1>10. KindOK(t)' /\ Back(t)' = "none"
  BY <1>2, <1>3, <1>5, <1>6 DEF KindOK, Back, InSchedule, Balancing, Migration, Resume
<1>11. on'[c] = t /\ task[t].array = c
  BY <1>5, <1>6, Constants DEF CpuOK, StackOK, Balancing, Idlers
<1>12. ThreadOK(t)'
  <2>1. ArgsOK(t)'
    BY <1>5 DEF ArgsOK, Balancing
  <2>2. TaskInv(t)'
    BY <1>5, <1>6, <1>7, <1>10, <1>11 DEF ThreadOK, TaskInv, Off
  <2> QED
    BY <1>10, <2>1, <2>2 DEF ThreadOK
<1>13. LocksOf(c)' /\ BusiestOK(c)' /\ StackOK(c)'
  BY <1>5, <1>6, <1>7, <1>11 DEF CpuOK, LocksOf, Held, BusiestOK, StackOK, Balancing
<1>14. \A d \in CPU : CountsOf(d)'
  <2>1. \A u \in Thread : task'[u].array = task[u].array
    BY <1>7
  <2> QED
    BY <1>5, <2>1, CountsSame
<1>15. \A u \in Thread : Apart(t, u)'
  BY <1>5, ApartElsewhere
<1>16. RequestsWait' /\ RequestsOnce'
  <2>1. ~Waiting(t)
    BY <1>5 DEF Waiting, Back, InSchedule, Balancing
  <2> QED
    BY <1>5, <2>1, NoRequest DEF Alone, Migration
<1> QED
  BY <1>5, <1>6, <1>8, <1>9, <1>12, <1>13, <1>14, <1>15, <1>16, SubjectStep

\* A free task_struct is in use nowhere.
LEMMA FreeGone ==
  ASSUME IInv, NEW p \in Thread, task[p].state = "FREE"
  PROVE  Gone(p) /\ task[p].array = NULL /\ p \in Task /\ pc[p] = "none"
<1>1. task[p].array = NULL /\ p \in Task /\ Back(p) = "none" /\ (Off(p) => pc[p] \in Resume)
  BY DEF IInv, ThreadOK, TaskInv, Dead
<1>2. Off(p)
  BY DEF IInv, CpuOK, StackOK, Off
<1>3. \A e \in CPU : pc[on[e]] = "switch" => rq[e].curr # p
  BY <1>1, Constants DEF IInv, CpuOK, StackOK
<1>4. pc[p] = "none"
  BY <1>1, <1>2 DEF Back, Resume, InSchedule, Balancing
<1> QED
  BY <1>1, <1>2, <1>3, <1>4 DEF Gone

\* do_fork (fork.c:609-717) takes a task_struct that nobody refers to.
LEMMA ForkStep ==
  ASSUME IInv, NEW c \in CPU, NEW t, Fork(c, t)
  PROVE  IInv'
<1>1. PICK p \in Task :
        /\ task[p].state = "FREE" /\ \A u \in Thread : local[u].q # p
        /\ Begin(c, t, "fork", "fork", [NoLocal EXCEPT !.q = p])
        /\ task' = [task EXCEPT ![p].cpus_allowed = task[t].cpus_allowed]
  BY DEF Fork
<1>2. PICK l : l = [NoLocal EXCEPT !.q = p]
  OBVIOUS
<1>3. l \in Locals /\ l.q = p /\ l.tick = FALSE
  <2>1. l \in Locals /\ l.q = p
    BY <1>2 DEF NoLocal, Locals, PCs
  <2>2. l.tick = FALSE
    BY <1>2 DEF NoLocal
  <2> QED
    BY <2>1, <2>2
<1>4. /\ t = on[c] /\ t \in Task /\ pc[t] = "user" /\ task[t].state \notin Dead
      /\ pc'[t] = "fork" /\ local'[t] = l /\ Alone(t)
      /\ ops' \in 0 .. build.ops /\ rq' = rq /\ on' = on /\ build' = build
  <2>1. "fork" \in PCs
    BY DEF PCs
  <2> QED
    BY <1>1, <1>2, <1>3, <2>1, BeginEffect
<1>5. /\ t \in Thread /\ p \in Thread /\ p # t /\ ThreadOK(t) /\ CpuOK(c) /\ t \notin Idlers
      /\ t \notin Migrators /\ p \notin Idlers /\ p \notin Migrators
      /\ task \in [Thread -> TaskStructs] /\ rq \in [CPU -> RunQueues] /\ build \in Builds
      /\ on \in [CPU -> Thread] /\ Gone(p) /\ task[p].array = NULL
  BY <1>1, <1>4, Acting, FreeGone, TypeParts, Constants DEF IInv, Dead
<1>6. /\ task' \in [Thread -> TaskStructs] /\ \A u \in Thread \ {p} : task'[u] = task[u]
      /\ task'[p].state = "FREE" /\ task'[p].array = NULL
      /\ task'[p].cpus_allowed = task[t].cpus_allowed
  <2>1. PICK k : k = [task[p] EXCEPT !.cpus_allowed = task[t].cpus_allowed]
    OBVIOUS
  <2>2. /\ k \in TaskStructs /\ k.state = "FREE" /\ k.array = NULL
        /\ k.cpus_allowed = task[t].cpus_allowed
    <3>1. task[p] \in TaskStructs /\ task[t].cpus_allowed \in SUBSET CPU
      BY <1>5 DEF TaskStructs
    <3> QED
      BY <1>1, <1>5, <2>1, <3>1 DEF TaskStructs
  <2>3. task' = [task EXCEPT ![p] = k]
    BY <1>1, <1>5, <2>1
  <2> QED
    BY <1>5, <2>2, <2>3
<1>7. TypeOK'
  BY <1>4, <1>5, <1>6, TypeParts DEF TypeOK, RunQueues, TaskStructs, Locals, Alone
<1>8. SameLife(p)
  BY <1>1, <1>6 DEF SameLife
<1>9. Elsewhere(c, t, p)
  <2>1. \A u \in Thread \ {t} : Undisturbed(u)
    BY <1>5, <1>6, <1>8, OthersUndisturbed
  <2> QED
    BY <1>4, <1>5, <1>6, <2>1 DEF Elsewhere, Alone, Same, SameLocks
<1>10. ThreadOK(p)'
  <2>1. SameLocals(p) /\ Undisturbed(p)
    <3>1. \A u \in Thread \ {t} : Undisturbed(u)
      BY <1>5, <1>6, <1>8, OthersUndisturbed
    <3> QED
      BY <1>4, <1>5, <3>1 DEF Alone
  <2>2. task'[p].cpus_allowed # {} /\ task[p].state \in Dead
    BY <1>1, <1>5, <1>6 DEF ThreadOK, TaskInv, Dead
  <2> QED
    BY <1>4, <1>5, <1>6, <2>1, <2>2, MovedOK
<1>11. on'[c] = t /\ task[t].array = c /\ task'[t] = task[t]
  BY <1>4, <1>5, <1>6, Constants DEF CpuOK, StackOK, Balancing, Idlers
<1>12. ThreadOK(t)'
  <2>1. KindOK(t)'
    BY <1>3, <1>4, <1>5 DEF KindOK, Back, InSchedule, Balancing, Migration, Resume
  <2>2. ArgsOK(t)'
    BY <1>3, <1>4, <1>6 DEF ArgsOK, Balancing
  <2>3. ~Off(t)'
    BY <1>11 DEF Off
  <2>4. TaskInv(t)'
    BY <1>4, <1>5, <1>11, <2>3 DEF ThreadOK, TaskInv, Dead
  <2> QED
    BY <2>1, <2>2, <2>4 DEF ThreadOK
<1>13. LocksOf(c)' /\ BusiestOK(c)' /\ StackOK(c)'
  BY <1>4, <1>5, <1>11 DEF CpuOK, LocksOf, Held, BusiestOK, StackOK, Balancing
<1>14. \A d \in CPU : CountsOf(d)'
  <2>1. \A u \in Thread : task'[u].array = task[u].array
    BY <1>5, <1>6
  <2> QED
    BY <1>4, <2>1, CountsSame
<1>15. \A u \in Thread : Apart(t, u)' /\ Apart(p, u)'
  <2>1. \A u \in Thread : Apart(t, u)'
    BY <1>1, <1>3, <1>4 DEF Apart, Alone, SameLocals
  <2> QED
    BY <1>4, <1>5, <2>1, ApartBoth DEF Alone
<1>16. RequestsWait' /\ RequestsOnce'
  <2>1. ~Waiting(t)
    BY <1>4 DEF Waiting, Back, InSchedule, Balancing
  <2> QED
    BY <1>4, <2>1, NoRequest DEF Alone, Migration
<1> QED
  BY <1>4, <1>5, <1>7, <1>9, <1>10, <1>12, <1>13, <1>14, <1>15, <1>16, SubjectStep

\* A task that is back in user mode has no local variables.
LEMMA InUserMode ==
  ASSUME NEW t, t \notin Migrators, pc'[t] = "user", local'[t] = NoLocal
  PROVE  /\ KindOK(t)' /\ ArgsOK(t)' /\ Back(t)' = "user"
         /\ \A u \in Thread : Apart(t, u)'
<1>1. ~local'[t].tick /\ local'[t].q = NULL
  BY NoLocalFields
<1>2. KindOK(t)' /\ Back(t)' = "user"
  BY <1>1 DEF KindOK, Back, InSchedule, Balancing, Migration
<1>3. ArgsOK(t)'
  BY DEF ArgsOK, Balancing
<1> QED
  BY <1>2, <1>3, ApartElsewhere

\* The task that release_task waits for.
LEMMA Releasing ==
  ASSUME IInv, NEW c \in CPU, NEW t, t = on[c], pc[t] \in {"inactive", "inactive_lock"}
  PROVE  /\ t \in Task /\ t \notin Idlers /\ t \notin Migrators /\ task[t].state \notin Dead
         /\ ThreadOK(t) /\ CpuOK(c) /\ t \in Thread /\ task[t].cpu = c /\ task[t].array = c
         /\ local[t].q \in Task /\ task[local[t].q].state = "ZOMBIE" /\ local[t].q # t
         /\ rq \in [CPU -> RunQueues] /\ task \in [Thread -> TaskStructs]
         /\ on \in [CPU -> Thread] /\ pc \in [Thread -> PCs] /\ local \in [Thread -> Locals]
         /\ build \in Builds /\ ops \in 0 .. build.ops
<1>1. /\ t \in Thread /\ ThreadOK(t) /\ CpuOK(c) /\ task[t].cpu = c
      /\ rq \in [CPU -> RunQueues] /\ task \in [Thread -> TaskStructs]
      /\ on \in [CPU -> Thread] /\ pc \in [Thread -> PCs] /\ local \in [Thread -> Locals]
      /\ build \in Builds /\ ops \in 0 .. build.ops
  BY Acting, TypeParts DEF IInv
<1>2. t \notin Idlers /\ t \notin Migrators
  BY <1>1 DEF ThreadOK, KindOK, Balancing, InSchedule, Migration
<1>3. t \in Task
  BY <1>1, <1>2, Constants
<1>4. task[t].state \notin Dead
  BY <1>1 DEF ThreadOK, TaskInv, Back, InSchedule, Balancing
<1>5. task[t].array = c
  BY <1>1, <1>2 DEF CpuOK, StackOK, Balancing, Idlers
<1>6. local[t].q \in Task /\ task[local[t].q].state = "ZOMBIE" /\ local[t].q # t
  BY <1>1, <1>4 DEF ThreadOK, ArgsOK, Dead
<1> QED
  BY <1>1, <1>2, <1>3, <1>4, <1>5, <1>6

\* It looks again.
LEMMA LooksAgain ==
  ASSUME IInv, NEW c \in CPU, NEW t, t = on[c], pc[t] \in {"inactive", "inactive_lock"},
         NEW place \in {"inactive", "inactive_lock"}, Goto(t, place), local' = local,
         task' = task, rq' = rq, on' = on, ops' = ops, build' = build
  PROVE  IInv'
<1>1. t \in Thread /\ ThreadOK(t) /\ CpuOK(c) /\ rq \in [CPU -> RunQueues] /\ ops \in 0 .. build.ops
  BY Releasing
<1>2. Alone(t) /\ pc'[t] = place /\ local'[t] = local[t]
  <2>1. place \in PCs
    BY DEF PCs
  <2> QED
    BY <1>1, <2>1, Stays
<1>3. TypeOK' /\ Own(c, t)
  BY <1>1, <1>2, Move DEF SameLocks
<1>4. KindOK(t)'
  BY <1>1, <1>2 DEF ThreadOK, KindOK, Back, InSchedule, Balancing, Migration
<1>5. ArgsOK(t)'
  BY <1>1, <1>2 DEF ThreadOK, ArgsOK, Balancing
<1>6. \A u \in Thread : Apart(t, u)'
  <2>1. \A u \in Thread : Apart(t, u)
    BY <1>1 DEF IInv
  <2> QED
    BY <1>2, <2>1 DEF Apart, Alone, SameLocals
<1>7. LocksOf(c)' /\ BusiestOK(c)'
  <2>1. LocksOf(c) /\ on'[c] = t
    BY <1>1 DEF CpuOK
  <2> QED
    BY <1>2, <2>1 DEF LocksOf, Held, BusiestOK, Balancing
<1>8. ~Waiting(t)
  BY DEF Waiting, Back, InSchedule, Balancing
<1>9. RequestsWait' /\ RequestsOnce'
  BY <1>2, <1>8, NoRequest DEF Alone, Migration
<1> QED
  BY <1>2, <1>3, <1>4, <1>5, <1>6, <1>7, <1>9, CallStep DEF InSchedule, Balancing

\* wait_task_inactive (sched.c:415-432): the task_struct is freed when the switch away
\* from it is over.
LEMMA InactiveStep ==
  ASSUME IInv, NEW c \in CPU, NEW t, wait_task_inactive(c, t)
  PROVE  IInv'
<1>1. /\ t = on[c] /\ pc[t] \in {"inactive", "inactive_lock"}
      /\ rq' = rq /\ on' = on /\ ops' = ops /\ build' = build
  BY DEF wait_task_inactive, At
<1>2. CASE task' = task /\ local' = local /\ \E place \in {"inactive", "inactive_lock"} : Goto(t, place)
  BY <1>1, <1>2, LooksAgain
<1>3. PICK q : q = local[t].q
  OBVIOUS
<1>4. CASE /\ Unlocked(task[q].cpu) /\ rq[task[q].cpu].curr # q
           /\ task' = [task EXCEPT ![q].state = "FREE"]
           /\ local' = [local EXCEPT ![t] = NoLocal] /\ Goto(t, "user")
  <2>1. /\ t \in Task /\ t \notin Idlers /\ t \notin Migrators /\ task[t].state \notin Dead
        /\ ThreadOK(t) /\ CpuOK(c) /\ t \in Thread /\ task[t].cpu = c /\ task[t].array = c
        /\ q \in Task /\ task[q].state = "ZOMBIE" /\ q # t
        /\ rq \in [CPU -> RunQueues] /\ task \in [Thread -> TaskStructs]
        /\ on \in [CPU -> Thread] /\ pc \in [Thread -> PCs] /\ local \in [Thread -> Locals]
        /\ build \in Builds /\ ops \in 0 .. build.ops
    BY <1>1, <1>3, Releasing
  <2>2. q \in Thread /\ q \notin Idlers /\ q \notin Migrators /\ ThreadOK(q)
    BY <2>1, Constants DEF IInv
  <2>3. Gone(q) /\ task[q].array = NULL
    <3>1. PICK d \in CPU : d = task[q].cpu
      BY <2>1, <2>2 DEF TaskStructs
    <3>2. rq[d].lock # d /\ rq[d].curr # q
      BY <1>4, <3>1, Constants DEF Unlocked
    <3>3. Gone(q)
      BY <2>2, <3>1, <3>2, NoSwitch, OffStack
    <3>4. task[q].array = NULL
      BY <2>1, <2>2, <3>3, NoZombie DEF Dead
    <3> QED
      BY <3>3, <3>4
  <2>4. /\ task' \in [Thread -> TaskStructs] /\ \A u \in Thread \ {q} : task'[u] = task[u]
        /\ task'[q].state = "FREE" /\ task'[q].array = NULL
        /\ task'[q].cpus_allowed = task[q].cpus_allowed
    BY <1>4, <2>1, <2>2, <2>3, StateSet
  <2>5. Alone(t) /\ pc'[t] = "user" /\ local'[t] = NoLocal
    <3>1. NoLocal \in Locals /\ "user" \in PCs
      BY NoLocalFields DEF PCs
    <3>2. local' = [local EXCEPT ![t] = NoLocal] /\ pc' = [pc EXCEPT ![t] = "user"]
      BY <1>4 DEF Goto
    <3> QED
      BY <2>1, <3>1, <3>2 DEF Alone, SameLocals
  <2>6. TypeOK'
    BY <1>1, <2>1, <2>4, <2>5, TypeParts DEF TypeOK, RunQueues, TaskStructs, Locals, Alone
  <2>7. \A u \in Thread \ {t} : Undisturbed(u)
    <3>1. ASSUME NEW u \in Thread \ {t}
          PROVE  /\ pc[u] = "wake" => local[u].w # q
                 /\ pc[u] \in {"fork", "inactive", "inactive_lock"} => local[u].q # q
      <4>1. ThreadOK(u) /\ Apart(t, u)
        BY <2>1 DEF IInv
      <4>2. pc[u] = "wake" => local[u].w # q
        BY <2>1, <4>1 DEF ThreadOK, ArgsOK, Dead
      <4>3. pc[u] = "fork" => local[u].q # q
        BY <2>1, <4>1 DEF ThreadOK, ArgsOK
      <4>4. pc[u] \in {"inactive", "inactive_lock"} => local[u].q # q
        BY <1>1, <1>3, <3>1, <4>1 DEF Apart
      <4> QED
        BY <4>2, <4>3, <4>4
    <3> QED
      BY <2>1, <2>2, <2>4, <3>1, OthersUndisturbed
  <2>8. Elsewhere(c, t, q)
    BY <1>1, <2>1, <2>4, <2>5, <2>7 DEF Elsewhere, Alone, Same, SameLocks
  <2>9. ThreadOK(q)'
    <3>1. SameLocals(q) /\ Undisturbed(q)
      BY <2>1, <2>2, <2>5, <2>7 DEF Alone
    <3>2. task'[q].cpus_allowed # {} /\ task[q].state \in Dead
      BY <2>1, <2>2, <2>4 DEF ThreadOK, TaskInv, Dead
    <3> QED
      BY <1>1, <2>1, <2>2, <2>3, <2>4, <3>1, <3>2, MovedOK
  <2>10. KindOK(t)' /\ ArgsOK(t)' /\ \A u \in Thread : Apart(t, u)'
    BY <2>1, <2>5, InUserMode
  <2>11. on'[c] = t /\ task'[t] = task[t]
    BY <1>1, <2>1, <2>4
  <2>12. ThreadOK(t)'
    <3>1. ~Off(t)'
      BY <2>11 DEF Off
    <3>2. TaskInv(t)'
      BY <2>1, <2>11, <3>1 DEF ThreadOK, TaskInv, Dead
    <3> QED
      BY <2>10, <3>2 DEF ThreadOK
  <2>13. LocksOf(c)' /\ BusiestOK(c)' /\ StackOK(c)'
    BY <1>1, <2>1, <2>5, <2>11 DEF CpuOK, LocksOf, Held, BusiestOK, StackOK, Balancing
  <2>14. \A d \in CPU : CountsOf(d)'
    <3>1. \A u \in Thread : task'[u].array = task[u].array
      BY <2>3, <2>4
    <3> QED
      BY <1>1, <3>1, CountsSame
  <2>15. \A u \in Thread : Apart(t, u)' /\ Apart(q, u)'
    BY <2>1, <2>2, <2>5, <2>10, ApartBoth DEF Alone
  <2>16. RequestsWait' /\ RequestsOnce'
    <3>1. ~Waiting(t)
      BY <1>1 DEF Waiting, Back, InSchedule, Balancing
    <3> QED
      BY <1>1, <2>5, <3>1, NoRequest DEF Alone, Migration
  <2> QED
    BY <1>1, <2>2, <2>3, <2>6, <2>8, <2>9, <2>12, <2>13, <2>14, <2>15, <2>16, SubjectStep
<1> QED
  BY <1>1, <1>2, <1>3, <1>4 DEF wait_task_inactive

\* The effect of activate_task (sched.c:328-383): p is queued on the processor d that
\* its cpu field names.
LEMMA ActivateEffect ==
  ASSUME NEW T \in [Thread -> TaskStructs], NEW R \in [CPU -> RunQueues], NEW p \in Thread,
         NEW d \in CPU, T[p].cpu = d, NEW A, A = activate_task(T, R, p)
  PROVE  /\ A[1] \in [Thread -> TaskStructs] /\ A[2] \in [CPU -> RunQueues]
         /\ \A u \in Thread \ {p} : A[1][u] = T[u]
         /\ A[1][p].array = d /\ A[1][p].cpu = d /\ A[1][p].state = T[p].state
         /\ A[1][p].cpus_allowed = T[p].cpus_allowed
         /\ \A e \in CPU : /\ A[2][e].nr_running = IF e = d THEN R[e].nr_running + 1
                                                            ELSE R[e].nr_running
                           /\ A[2][e].lock = R[e].lock /\ A[2][e].curr = R[e].curr
                           /\ A[2][e].migration_queue = R[e].migration_queue
<1>1. A[1] = [T EXCEPT ![p].array = d] /\ A[2] = [R EXCEPT ![d].nr_running = @ + 1]
  BY DEF activate_task
<1>2. PICK k : k = [T[p] EXCEPT !.array = d]
  OBVIOUS
<1>3. /\ k \in TaskStructs /\ k.array = d /\ k.cpu = d /\ k.state = T[p].state
      /\ k.cpus_allowed = T[p].cpus_allowed
  <2>1. T[p] \in TaskStructs
    OBVIOUS
  <2> QED
    BY <1>2, <2>1 DEF TaskStructs
<1>4. A[1] = [T EXCEPT ![p] = k]
  BY <1>1, <1>2
<1>5. PICK n : n = R[d].nr_running + 1
  OBVIOUS
<1>6. n \in Nat
  BY <1>5 DEF RunQueues
<1>7. PICK S : S = [R EXCEPT ![d].nr_running = n]
  OBVIOUS
<1>8. A[2] = S
  BY <1>1, <1>5, <1>7
<1>9. /\ S \in [CPU -> RunQueues]
      /\ \A e \in CPU : /\ S[e].nr_running = IF e = d THEN n ELSE R[e].nr_running
                        /\ S[e].lock = R[e].lock /\ S[e].curr = R[e].curr
                        /\ S[e].migration_queue = R[e].migration_queue
  BY <1>6, <1>7, CounterSet
<1>10. /\ A[1] \in [Thread -> TaskStructs] /\ \A u \in Thread \ {p} : A[1][u] = T[u]
       /\ A[1][p] = k
  BY <1>3, <1>4
<1> QED
  BY <1>3, <1>5, <1>8, <1>9, <1>10

\* wake_up_forked_process (sched.c:510-545): the child starts beside its parent.
LEMMA ForkedStep ==
  ASSUME IInv, NEW c \in CPU, NEW t, wake_up_forked_process(c, t)
  PROVE  IInv'
<1>1. PICK p : p = local[t].q
  OBVIOUS
<1>2. PICK T : T = [task EXCEPT ![p].cpu = c, ![p].state = "RUNNING"]
  OBVIOUS
<1>3. PICK A : A = activate_task(T, rq, p)
  OBVIOUS
<1>4. /\ t = on[c] /\ pc[t] = "fork" /\ task' = A[1] /\ rq' = A[2]
      /\ local' = [local EXCEPT ![t] = NoLocal, ![p] = NoLocal]
      /\ pc' = [pc EXCEPT ![t] = "user", ![p] = "user"]
      /\ on' = on /\ ops' = ops /\ build' = build
  BY <1>1, <1>2, <1>3 DEF wake_up_forked_process, At
<1>5. /\ t \in Thread /\ ThreadOK(t) /\ CpuOK(c) /\ task[t].cpu = c
      /\ rq \in [CPU -> RunQueues] /\ task \in [Thread -> TaskStructs]
      /\ on \in [CPU -> Thread] /\ pc \in [Thread -> PCs] /\ local \in [Thread -> Locals]
      /\ build \in Builds /\ ops \in 0 .. build.ops
  BY <1>4, Acting, TypeParts DEF IInv
<1>6. t \notin Idlers /\ t \notin Migrators
  BY <1>4, <1>5 DEF ThreadOK, KindOK, Balancing, InSchedule, Migration
<1>7. task[t].state \notin Dead /\ task[t].array = c
  <2>1. task[t].state \notin Dead
    BY <1>4, <1>5 DEF ThreadOK, TaskInv, Back, InSchedule, Balancing
  <2>2. task[t].array = c
    BY <1>4, <1>5, <1>6 DEF CpuOK, StackOK, Balancing, Idlers
  <2> QED
    BY <2>1, <2>2
<1>8. /\ p \in Task /\ p \in Thread /\ task[p].state = "FREE" /\ p # t /\ Gone(p)
      /\ task[p].array = NULL /\ pc[p] = "none" /\ p \notin Idlers /\ p \notin Migrators
      /\ ThreadOK(p)
  <2>1. p \in Task /\ p \in Thread /\ task[p].state = "FREE" /\ p # t
    BY <1>1, <1>4, <1>5, <1>7, Constants DEF ThreadOK, ArgsOK, Dead
  <2> QED
    BY <2>1, FreeGone, Constants DEF IInv
<1>9. /\ T \in [Thread -> TaskStructs] /\ \A u \in Thread \ {p} : T[u] = task[u]
      /\ T[p].cpu = c /\ T[p].state = "RUNNING" /\ T[p].cpus_allowed = task[p].cpus_allowed
  <2>1. PICK k : k = [task[p] EXCEPT !.cpu = c, !.state = "RUNNING"]
    OBVIOUS
  <2>2. /\ k \in TaskStructs /\ k.cpu = c /\ k.state = "RUNNING"
        /\ k.cpus_allowed = task[p].cpus_allowed
    <3>1. task[p] \in TaskStructs
      BY <1>5, <1>8
    <3> QED
      BY <2>1, <3>1 DEF TaskStructs
  <2>3. T = [task EXCEPT ![p] = k]
    BY <1>2, <1>5, <1>8, <2>1
  <2> QED
    BY <1>5, <1>8, <2>2, <2>3
<1>10. /\ task' \in [Thread -> TaskStructs] /\ rq' \in [CPU -> RunQueues]
       /\ \A u \in Thread \ {p} : task'[u] = task[u]
       /\ task'[p].array = c /\ task'[p].cpu = c /\ task'[p].state = "RUNNING"
       /\ task'[p].cpus_allowed = task[p].cpus_allowed
       /\ \A e \in CPU : /\ rq'[e].nr_running = IF e = c THEN rq[e].nr_running + 1
                                                         ELSE rq[e].nr_running
                         /\ rq'[e].lock = rq[e].lock /\ rq'[e].curr = rq[e].curr
                         /\ rq'[e].migration_queue = rq[e].migration_queue
  <2>1. PICK R \in [CPU -> RunQueues] : R = rq
    BY <1>5
  <2>2. A = activate_task(T, R, p)
    BY <1>3, <2>1
  <2>3. /\ A[1] \in [Thread -> TaskStructs] /\ A[2] \in [CPU -> RunQueues]
        /\ \A u \in Thread \ {p} : A[1][u] = T[u]
        /\ A[1][p].array = c /\ A[1][p].cpu = c /\ A[1][p].state = T[p].state
        /\ A[1][p].cpus_allowed = T[p].cpus_allowed
        /\ \A e \in CPU : /\ A[2][e].nr_running = IF e = c THEN R[e].nr_running + 1
                                                           ELSE R[e].nr_running
                          /\ A[2][e].lock = R[e].lock /\ A[2][e].curr = R[e].curr
                          /\ A[2][e].migration_queue = R[e].migration_queue
    BY <1>8, <1>9, <2>1, <2>2, ActivateEffect
  <2> QED
    BY <1>4, <1>8, <1>9, <2>1, <2>3
<1>11. /\ pc' \in [Thread -> PCs] /\ local' \in [Thread -> Locals]
       /\ pc'[t] = "user" /\ local'[t] = NoLocal /\ pc'[p] = "user" /\ local'[p] = NoLocal
       /\ \A u \in Thread \ {t, p} : SameLocals(u)
  <2>1. NoLocal \in Locals /\ "user" \in PCs
    BY NoLocalFields DEF PCs
  <2> QED
    BY <1>4, <1>5, <1>8, <2>1 DEF SameLocals
<1>12. TypeOK'
  BY <1>4, <1>5, <1>10, <1>11, TypeParts DEF TypeOK, RunQueues, TaskStructs, Locals
<1>13. \A u \in Thread \ {t} : Undisturbed(u)
  <2>1. ASSUME NEW u \in Thread \ {t}
        PROVE  /\ pc[u] = "wake" => local[u].w # p
               /\ pc[u] \in {"fork", "inactive", "inactive_lock"} => local[u].q # p
    <3>1. ThreadOK(u) /\ Apart(t, u)
      BY <1>5 DEF IInv
    <3>2. pc[u] = "wake" => local[u].w # p
      BY <1>8, <3>1 DEF ThreadOK, ArgsOK, Dead
    <3>3. pc[u] \in {"inactive", "inactive_lock"} => local[u].q # p
      BY <1>8, <3>1 DEF ThreadOK, ArgsOK
    <3>4. pc[u] = "fork" => local[u].q # p
      BY <1>1, <1>4, <2>1, <3>1 DEF Apart
    <3> QED
      BY <3>2, <3>3, <3>4
  <2> QED
    BY <1>5, <1>8, <1>10, <2>1, OthersUndisturbed
<1>14. Elsewhere(c, t, p)
  BY <1>4, <1>10, <1>11, <1>13 DEF Elsewhere, Same, SameLocks
<1>15. ThreadOK(p)'
  <2>1. KindOK(p)' /\ ArgsOK(p)' /\ Back(p)' = "user"
    BY <1>8, <1>11, InUserMode
  <2>2. TaskInv(p)'
    BY <1>8, <1>10, <1>11, <2>1 DEF ThreadOK, TaskInv, Dead, Resume
  <2> QED
    BY <2>1, <2>2 DEF ThreadOK
<1>16. on'[c] = t /\ task'[t] = task[t]
  BY <1>4, <1>5, <1>8, <1>10
<1>17. ThreadOK(t)'
  <2>1. KindOK(t)' /\ ArgsOK(t)'
    BY <1>6, <1>11, InUserMode
  <2>2. ~Off(t)'
    BY <1>16 DEF Off
  <2>3. TaskInv(t)'
    BY <1>5, <1>6, <1>7, <1>16, <2>2 DEF ThreadOK, TaskInv, Dead
  <2> QED
    BY <2>1, <2>3 DEF ThreadOK
<1>18. LocksOf(c)' /\ BusiestOK(c)' /\ StackOK(c)'
  <2>1. LocksOf(c) /\ StackOK(c) /\ pc[t] = "fork" /\ on[c] = t
    BY <1>4, <1>5, <1>7 DEF CpuOK
  <2>2. pc'[t] = "user" /\ on'[c] = t
    BY <1>4, <1>5, <1>11, <1>16
  <2>3. LocksOf(c)'
    <3>1. Held(c) = {} /\ Held(c)' = {}
      BY <2>1, <2>2 DEF Held
    <3> QED
      BY <1>4, <1>10, <2>1, <3>1 DEF LocksOf
  <2>4. BusiestOK(c)'
    BY <2>2 DEF BusiestOK, Balancing
  <2>5. StackOK(c)'
    BY <1>4, <1>10, <1>16, <2>1, <2>2 DEF StackOK, Balancing
  <2> QED
    BY <2>3, <2>4, <2>5
<1>19. \A d \in CPU : CountsOf(d)'
  <2>1. \A u \in Thread \ {p} : task'[u].array = task[u].array
    BY <1>10
  <2>2. NULL # c /\ \A d \in CPU : d # NULL
    BY Constants
  <2>3. \A d \in CPU : rq'[d].nr_running = IF d = NULL THEN rq[d].nr_running - 1
                                           ELSE IF d = c THEN rq[d].nr_running + 1
                                           ELSE rq[d].nr_running
    BY <1>10, <2>2
  <2> QED
    BY <1>8, <1>10, <2>1, <2>2, <2>3, CountMove
<1>20. \A u \in Thread : Apart(t, u)' /\ Apart(p, u)'
  BY <1>11, ApartElsewhere
<1>21. RequestsWait' /\ RequestsOnce'
  <2>1. SamePlaces
    <3>1. \A e \in CPU : migration[e] \in Thread \ {t, p}
      <4>1. \A e \in CPU : migration[e] \in Migrators
        BY Constants
      <4>2. Migrators \subseteq Thread
        BY Constants
      <4> QED
        BY <1>6, <1>8, <4>1, <4>2
    <3> QED
      BY <1>10, <1>11, <3>1 DEF SamePlaces, SameLocals
  <2>2. \A r \in Task : Waiting(r) => Waiting(r)'
    <3>1. ~Waiting(t) /\ ~Waiting(p)
      BY <1>4, <1>8 DEF Waiting, Back, InSchedule, Balancing
    <3>2. \A r \in Task \ {t, p} : SameLocals(r)
      BY <1>11, Constants
    <3> QED
      BY <3>1, <3>2, WaitingKept
  <2> QED
    BY <1>5, <2>1, <2>2, RequestsKept DEF IInv
<1>22. /\ SameCourse(p) \/ p = t \/ Gone(p)
       /\ p = t \/ Gone(p) \/ (/\ task'[p].cpu = task[p].cpu /\ task'[p].array = task[p].array
                               /\ task[p].state # "FREE" => task'[p].state # "FREE")
  BY <1>8
<1> QED
  BY <1>4, <1>5, <1>8, <1>12, <1>14, <1>15, <1>17, <1>18, <1>19, <1>20, <1>21, <1>22, SubjectStep

-----------------------------------------------------------------------------
(* set_cpus_allowed *)

\* A request comes first in the queue (list_add, sched.c:2263).
LEMMA Prefixed ==
  ASSUME NEW Q \in Seq(Task), NEW t \in Task, NEW S, S = << t >> \o Q
  PROVE  /\ S \in Seq(Task) /\ DOMAIN S = 1 .. Len(Q) + 1 /\ S[1] = t
         /\ \A i \in 2 .. Len(Q) + 1 : i - 1 \in 1 .. Len(Q) /\ S[i] = Q[i - 1]
         /\ Len(Q) \in Nat /\ DOMAIN Q = 1 .. Len(Q)
OBVIOUS

\* The runqueues with a new request.
LEMMA RequestMade ==
  ASSUME rq \in [CPU -> RunQueues], NEW d \in CPU, NEW t \in Task,
         rq' = [rq EXCEPT ![d].migration_queue = << t >> \o @]
  PROVE  /\ rq' \in [CPU -> RunQueues]
         /\ \A e \in CPU : /\ rq'[e].nr_running = rq[e].nr_running
                           /\ rq'[e].curr = rq[e].curr /\ rq'[e].lock = rq[e].lock
                           /\ rq'[e].migration_queue = IF e = d
                                                       THEN << t >> \o rq[e].migration_queue
                                                       ELSE rq[e].migration_queue
<1>1. rq[d] \in RunQueues /\ rq[d].migration_queue \in Seq(Task)
  BY DEF RunQueues
<1>2. PICK S : S = << t >> \o rq[d].migration_queue
  OBVIOUS
<1>3. S \in Seq(Task)
  BY <1>1, <1>2, Prefixed
<1>4. PICK k : k = [rq[d] EXCEPT !.migration_queue = S]
  OBVIOUS
<1>5. /\ k \in RunQueues /\ k.migration_queue = S /\ k.nr_running = rq[d].nr_running
      /\ k.curr = rq[d].curr /\ k.lock = rq[d].lock
  BY <1>1, <1>3, <1>4 DEF RunQueues
<1>6. rq' = [rq EXCEPT ![d] = k]
  BY <1>2, <1>4
<1> QED
  BY <1>2, <1>5, <1>6

\* Only t acts; it makes a request of processor d and waits for it.
MakesRequest(d, t) ==
  /\ t \in Task /\ ~Waiting(t) /\ Waiting(t)'
  /\ \A u \in Thread \ {t} : SameLocals(u)
  /\ \A e \in CPU : rq'[e].migration_queue = IF e = d THEN << t >> \o rq[e].migration_queue
                                             ELSE rq[e].migration_queue

\* The request of t is the only one of t's.
LEMMA Requests ==
  ASSUME IInv, NEW c \in CPU, NEW t, MakesRequest(c, t)
  PROVE  RequestsWait' /\ RequestsOnce'
<1>1. \A d \in CPU \ {c} : rq'[d].migration_queue = rq[d].migration_queue
  BY DEF MakesRequest
<1>2. PICK Q : Q = rq[c].migration_queue /\ Q \in Seq(Task)
  BY PlacesOf
<1>3. PICK S : S = << t >> \o Q
  OBVIOUS
<1>4. /\ DOMAIN S = 1 .. Len(Q) + 1 /\ S[1] = t /\ Len(Q) \in Nat /\ DOMAIN Q = 1 .. Len(Q)
      /\ \A i \in 2 .. Len(Q) + 1 : i - 1 \in 1 .. Len(Q) /\ S[i] = Q[i - 1]
  BY <1>2, <1>3, Prefixed DEF MakesRequest
<1>5. rq'[c].migration_queue = S
  BY <1>2, <1>3 DEF MakesRequest
<1>6. \A d \in CPU : SameLocals(migration[d])
  <2>1. \A d \in CPU : migration[d] \in Migrators
    BY Constants
  <2>2. Migrators \subseteq Thread /\ t \notin Migrators
    BY Constants DEF MakesRequest
  <2> QED
    BY <2>1, <2>2 DEF MakesRequest
<1>7. PICK Z : Z = IF pc[migration[c]] \in Migration THEN {0} ELSE {}
  OBVIOUS
<1>8. Places(c) = 1 .. Len(Q) \cup Z /\ Places(c)' = 1 .. Len(Q) + 1 \cup Z /\ Z \subseteq {0}
  BY <1>2, <1>4, <1>5, <1>6, <1>7 DEF Places, SameLocals
<1>9. /\ \A i \in 1 .. Len(Q) : ReqAt(c, i) = Q[i]
      /\ \A i \in 1 .. Len(Q) + 1 : ReqAt(c, i)' = S[i]
      /\ ReqAt(c, 0)' = ReqAt(c, 0)
  <2>1. \A i \in 1 .. Len(Q) + 1 : i # 0
    BY <1>4
  <2> QED
    BY <1>2, <1>4, <1>5, <1>6, <2>1 DEF ReqAt, SameLocals
<1>10. PICK g : g = [i \in Nat |-> IF i = 0 THEN 0 ELSE i - 1]
  OBVIOUS
<1>11. ASSUME NEW i \in Places(c)' \ {1}
       PROVE  g[i] \in Places(c) /\ ReqAt(c, i)' = ReqAt(c, g[i])
  <2>1. CASE i = 0
    <3>1. g[i] = 0 /\ i \in Z
      BY <1>4, <1>8, <1>10, <2>1
    <3> QED
      BY <1>8, <1>9, <2>1, <3>1
  <2>2. CASE i # 0
    <3>1. i \in 2 .. Len(Q) + 1
      <4>1. i \in 1 .. Len(Q) + 1 /\ i # 1
        BY <1>8, <1>11, <2>2, Zenon
      <4>2. Len(Q) \in Nat
        BY <1>4
      <4> QED
        BY <4>1, <4>2
    <3>2. g[i] = i - 1 /\ i - 1 \in 1 .. Len(Q)
      BY <1>4, <1>10, <2>2, <3>1
    <3>3. i \in 1 .. Len(Q) + 1
      BY <1>4, <3>1
    <3> QED
      BY <1>4, <1>8, <1>9, <3>1, <3>2, <3>3
  <2> QED
    BY <2>1, <2>2
<1>12. \A i, j \in Places(c)' \ {1} : g[i] = g[j] => i = j
  <2>1. ASSUME NEW i \in Places(c)' \ {1}
        PROVE  i \in Nat /\ i # 1 /\ g[i] = IF i = 0 THEN 0 ELSE i - 1
    <3>1. i \in 0 .. Len(Q) + 1
      <4>1. i \in 1 .. Len(Q) + 1 \/ i = 0
        BY <1>8, <2>1, Zenon
      <4>2. Len(Q) \in Nat
        BY <1>4
      <4> QED
        BY <4>1, <4>2
    <3> QED
      BY <1>4, <1>10, <2>1, <3>1
  <2> QED
    BY <2>1
<1>13. 1 \in Places(c)' => ReqAt(c, 1)' = t /\ Waiting(t)'
  <2>1. 1 \in 1 .. Len(Q) + 1
    BY <1>4
  <2> QED
    BY <1>4, <1>9, <2>1 DEF MakesRequest
<1>14. \A d \in CPU \ {c} : \A i \in Places(d)' : i \in Places(d) /\ ReqAt(d, i)' = ReqAt(d, i)
  BY <1>1, <1>6 DEF Places, ReqAt, SameLocals
<1>15. ASSUME NEW d \in CPU, NEW i \in Places(d)', d # c \/ i # 1
       PROVE  ReqAt(d, i)' # t
  <2>1. PICK j \in Places(d) : ReqAt(d, i)' = ReqAt(d, j)
    <3>1. CASE d = c
      BY <1>11, <1>15, <3>1
    <3>2. CASE d # c
      BY <1>14, <3>2
    <3> QED
      BY <3>1, <3>2
  <2>2. PICK r : r = ReqAt(d, j)
    OBVIOUS
  <2>3. Waiting(r)
    BY <2>2 DEF IInv, RequestsWait
  <2> QED
    BY <2>1, <2>2, <2>3 DEF MakesRequest
<1>16. \A r \in Task \ {t} : Waiting(r) => Waiting(r)'
  BY WaitingKept, Constants DEF MakesRequest
<1>17. RequestsWait /\ RequestsOnce
  BY DEF IInv
<1>18. PICK n : n = 1
  OBVIOUS
<1>19. /\ \A i \in Places(c)' \ {n} : g[i] \in Places(c) /\ ReqAt(c, i)' = ReqAt(c, g[i])
       /\ \A i, j \in Places(c)' \ {n} : g[i] = g[j] => i = j
       /\ n \in Places(c)' => ReqAt(c, n)' = t /\ Waiting(t)'
       /\ \A d \in CPU : \A i \in Places(d)' : d # c \/ i # n => ReqAt(d, i)' # t
  BY <1>11, <1>12, <1>13, <1>15, <1>18
<1>20. /\ \A i \in Places(c)' \ {n} : g[i] \in Places(c) /\ ReqAt(c, i)' = ReqAt(c, g[i])
       /\ \A i, j \in Places(c)' \ {n} : g[i] = g[j] => i = j
  BY <1>19
<1>21. n \in Places(c)' => ReqAt(c, n)' = t /\ Waiting(t)'
  BY <1>19
<1>22. /\ \A d \in CPU \ {c} : \A i \in Places(d)' : i \in Places(d) /\ ReqAt(d, i)' = ReqAt(d, i)
       /\ \A d \in CPU : \A i \in Places(d)' : d # c \/ i # n => ReqAt(d, i)' # t
  BY <1>14, <1>19
<1> QED
  BY <1>16, <1>17, <1>20, <1>21, <1>22, RequestsMoved

\* set_cpus_allowed (sched.c:2232-2266): the mask is set; a task that must leave its
\* processor is moved if it is inactive, else the migration thread is asked to.
LEMMA SetCpusStep ==
  ASSUME IInv, NEW c \in CPU, NEW t, set_cpus_allowed(c, t)
  PROVE  IInv'
<1>1. PICK p, d, mask : p = local[t].q /\ d = task[p].cpu /\ mask = local[t].mask
  OBVIOUS
<1>2. /\ t = on[c] /\ pc[t] = "affinity" /\ rq[d].lock = NULL
      /\ on' = on /\ ops' = ops /\ build' = build
  BY <1>1 DEF set_cpus_allowed, At, Unlocked
<1>3. /\ t \in Thread /\ ThreadOK(t) /\ CpuOK(c) /\ task[t].cpu = c
      /\ rq \in [CPU -> RunQueues] /\ task \in [Thread -> TaskStructs]
      /\ on \in [CPU -> Thread] /\ pc \in [Thread -> PCs] /\ local \in [Thread -> Locals]
      /\ build \in Builds /\ ops \in 0 .. build.ops
  BY <1>2, Acting, TypeParts DEF IInv
<1>4. t \notin Idlers /\ t \notin Migrators
  BY <1>2, <1>3 DEF ThreadOK, KindOK, Balancing, InSchedule, Migration
<1>5. t \in Task
  BY <1>3, <1>4, Constants
<1>6. /\ p \in Task /\ p \in Thread /\ p \notin Idlers /\ p \notin Migrators /\ ThreadOK(p)
      /\ d \in CPU /\ mask \in SUBSET CPU /\ mask # {} /\ First(mask) \in CPU
      /\ task[p] \in TaskStructs
  <2>1. p \in Task /\ mask # {}
    BY <1>1, <1>2, <1>3 DEF ThreadOK, ArgsOK
  <2>2. mask \in SUBSET CPU
    BY <1>1, <1>3 DEF Locals
  <2>3. p \in Thread /\ p \notin Idlers /\ p \notin Migrators
    BY <2>1, Constants
  <2>4. d \in CPU /\ task[p] \in TaskStructs
    BY <1>1, <1>3, <2>3 DEF TaskStructs
  <2> QED
    BY <2>1, <2>2, <2>3, <2>4, FirstLeast DEF IInv
<1>7. task[t].state \notin Dead /\ task[t].array = c
  <2>1. task[t].state \notin Dead
    BY <1>2, <1>3 DEF ThreadOK, TaskInv, Back, InSchedule, Balancing
  <2>2. task[t].array = c
    BY <1>2, <1>3, <1>4 DEF CpuOK, StackOK, Balancing, Idlers
  <2> QED
    BY <2>1, <2>2
<1>8. PICK to \in CPU : to = IF d \notin mask /\ task[p].array = NULL /\ p # rq[d].curr
                             THEN First(mask) ELSE d
  BY <1>6
<1>9. to # d => Gone(p) /\ task[p].array = NULL
  <2>1. rq[d].lock # d
    BY <1>2, <1>6, Constants
  <2>2. rq[d].curr # p => Gone(p)
    BY <1>1, <1>6, <2>1, NoSwitch, OffStack
  <2> QED
    BY <1>8, <2>2
<1>10. /\ task' \in [Thread -> TaskStructs] /\ \A u \in Thread \ {p} : task'[u] = task[u]
       /\ task'[p].cpus_allowed = mask /\ task'[p].cpu = to
       /\ task'[p].array = task[p].array /\ task'[p].state = task[p].state
  <2>1. task' = [task EXCEPT ![p].cpus_allowed = mask, ![p].cpu = to]
    BY <1>1, <1>8 DEF set_cpus_allowed
  <2>2. PICK k : k = [task[p] EXCEPT !.cpus_allowed = mask, !.cpu = to]
    OBVIOUS
  <2>3. /\ k \in TaskStructs /\ k.cpus_allowed = mask /\ k.cpu = to
        /\ k.array = task[p].array /\ k.state = task[p].state
    BY <1>6, <2>2 DEF TaskStructs
  <2>4. task' = [task EXCEPT ![p] = k]
    BY <1>3, <1>6, <2>1, <2>2
  <2> QED
    BY <1>3, <1>6, <2>3, <2>4
<1>11. \A u \in Thread : SameLife(u) /\ Undisturbed(u) /\ task'[u].array = task[u].array
  <2>1. \A u \in Thread : SameLife(u) /\ task'[u].array = task[u].array
    BY <1>6, <1>10 DEF SameLife
  <2> QED
    BY <2>1, AllUndisturbed
<1>12. task'[t].cpu = c /\ task'[t].state = task[t].state /\ task'[t].array = c
  <2>1. CASE p = t
    <3>1. ~Gone(t)
      BY <1>2 DEF Gone, Off
    <3>2. to = d /\ d = c
      BY <1>1, <1>3, <1>9, <2>1, <3>1
    <3> QED
      BY <1>7, <1>10, <2>1, <3>2
  <2>2. CASE p # t
    BY <1>3, <1>7, <1>10, <2>2
  <2> QED
    BY <2>1, <2>2
<1>13. ASSUME NEW u \in Thread, SameLocals(u) PROVE ThreadOK(u)'
  <2>1. ThreadOK(u)
    BY DEF IInv
  <2>2. CASE u = p /\ to # d
    <3>1. Gone(p) /\ task'[p].array = NULL /\ SameLocals(p) /\ Undisturbed(p)
      BY <1>6, <1>9, <1>10, <1>11, <1>13, <2>2
    <3>2. task'[p].cpus_allowed # {} /\ (task'[p].state \in Dead => task[p].state \in Dead)
      BY <1>6, <1>10
    <3>3. ThreadOK(p)'
      BY <1>2, <1>3, <1>6, <3>1, <3>2, MovedOK
    <3> QED
      BY <2>2, <3>3
  <2>3. CASE u # p \/ to = d
    <3>1. KindOK(u)' /\ Back(u)' = Back(u)
      BY <1>13, <2>1, KindKept DEF ThreadOK
    <3>2. ArgsOK(u)'
      BY <1>11, <1>13, <2>1, ArgsKept DEF ThreadOK, Undisturbed
    <3>3. /\ task'[u].cpu = task[u].cpu /\ task'[u].array = task[u].array
          /\ task'[u].state = task[u].state /\ task'[u].cpus_allowed # {}
          /\ u \in Migrators => task'[u].cpus_allowed = task[u].cpus_allowed
      BY <1>1, <1>6, <1>10, <2>1, <2>3 DEF ThreadOK, TaskInv
    <3>4. Off(u)' = Off(u)
      BY <1>2 DEF Off
    <3>5. TaskInv(u)'
      BY <1>2, <1>13, <2>1, <3>1, <3>3, <3>4 DEF ThreadOK, TaskInv, SameLocals
    <3> QED
      BY <3>1, <3>2, <3>5 DEF ThreadOK
  <2> QED
    BY <2>2, <2>3
<1>14. ASSUME NEW place \in {"user", "wake"}, NEW l \in Locals,
              Goto(t, place), local' = [local EXCEPT ![t] = l],
              KindOK(t)', ArgsOK(t)', RequestsWait', RequestsOnce', rq' \in [CPU -> RunQueues],
              \A e \in CPU : /\ rq'[e].nr_running = rq[e].nr_running
                             /\ rq'[e].curr = rq[e].curr /\ rq'[e].lock = rq[e].lock
       PROVE  IInv'
  <2>1. Alone(t) /\ pc'[t] = place
    <3>1. pc' = [pc EXCEPT ![t] = place] /\ place \in PCs
      BY <1>14 DEF Goto, PCs
    <3> QED
      BY <1>3, <1>14, <3>1 DEF Alone, SameLocals
  <2>2. TypeOK'
    BY <1>2, <1>3, <1>10, <1>14, <2>1, TypeParts DEF TypeOK, RunQueues, TaskStructs, Locals, Alone
  <2>3. Elsewhere(c, t, p)
    BY <1>2, <1>10, <1>11, <1>14, <2>1 DEF Elsewhere, Alone, Same, SameLocks
  <2>4. on'[c] = t
    BY <1>2
  <2>5. ThreadOK(t)'
    <3>1. ~Off(t)'
      BY <2>4 DEF Off
    <3>2. task'[t].cpus_allowed # {}
      BY <1>3, <1>6, <1>10 DEF ThreadOK, TaskInv
    <3>3. TaskInv(t)'
      BY <1>4, <1>7, <1>12, <3>1, <3>2 DEF TaskInv, Dead
    <3> QED
      BY <1>14, <3>3 DEF ThreadOK
  <2>6. ThreadOK(p)'
    <3>1. CASE p = t
      BY <2>5, <3>1
    <3>2. CASE p # t
      BY <1>6, <1>13, <2>1, <3>2 DEF Alone
    <3> QED
      BY <3>1, <3>2
  <2>7. LocksOf(c)' /\ BusiestOK(c)' /\ StackOK(c)'
    <3>1. LocksOf(c) /\ rq[c].curr = t
      BY <1>2, <1>3 DEF CpuOK, StackOK
    <3>2. LocksOf(c)' /\ BusiestOK(c)'
      BY <1>2, <1>14, <2>1, <2>4, <3>1 DEF LocksOf, Held, BusiestOK, Balancing
    <3>3. task[t].state # "FREE"
      BY <1>7 DEF Dead
    <3>4. StackOK(c)'
      BY <1>12, <1>14, <2>1, <2>4, <3>1, <3>3 DEF StackOK
    <3> QED
      BY <3>2, <3>4
  <2>8. \A e \in CPU : CountsOf(e)'
    BY <1>11, <1>14, CountsSame
  <2>9. \A u \in Thread : Apart(t, u)' /\ Apart(p, u)'
    <3>1. \A u \in Thread : Apart(t, u)'
      BY <2>1, ApartElsewhere
    <3>2. CASE p = t
      BY <3>1, <3>2
    <3>3. CASE p # t
      BY <1>3, <1>6, <2>1, <3>1, <3>3, ApartBoth DEF Alone
    <3> QED
      BY <3>1, <3>2, <3>3
  <2>10. /\ SameCourse(p) \/ p = t \/ Gone(p)
         /\ p = t \/ Gone(p) \/ (/\ task'[p].cpu = task[p].cpu /\ task'[p].array = task[p].array
                                 /\ task[p].state # "FREE" => task'[p].state # "FREE")
    <3>1. p # t => SameCourse(p)
      BY <1>6, <2>1 DEF Alone, SameLocals, SameCourse
    <3> QED
      BY <1>1, <1>9, <1>10, <3>1
  <2> QED
    BY <1>2, <1>6, <1>14, <2>2, <2>3, <2>5, <2>6, <2>7, <2>8, <2>9, <2>10, SubjectStep
<1>15. ~Waiting(t)
  BY <1>2 DEF Waiting, Back, InSchedule, Balancing
<1>16. CASE rq' = rq /\ local' = [local EXCEPT ![t] = NoLocal] /\ Goto(t, "user")
  <2>1. NoLocal \in Locals
    BY NoLocalFields
  <2>2. pc'[t] = "user" /\ local'[t] = NoLocal /\ \A u \in Thread \ {t} : SameLocals(u)
    BY <1>3, <1>16 DEF Goto, SameLocals
  <2>3. KindOK(t)' /\ ArgsOK(t)'
    BY <1>4, <2>2, InUserMode
  <2>4. RequestsWait' /\ RequestsOnce'
    BY <1>2, <1>15, <1>16, <2>2, NoRequest DEF Migration
  <2> QED
    BY <1>3, <1>14, <1>16, <2>1, <2>3, <2>4
<1>17. CASE /\ ~(d \in mask) /\ rq' = [rq EXCEPT ![d].migration_queue = << t >> \o @]
            /\ local' = [local EXCEPT ![t].w = migration[d], ![t].then = "down"]
            /\ Goto(t, "wake")
  <2>1. PICK m \in Thread : m = migration[d] /\ m \in Migrators /\ m # p
    <3>1. migration[d] \in Migrators /\ Migrators \subseteq Thread
      BY <1>6, Constants
    <3> QED
      BY <1>6, <3>1
  <2>2. PICK l : l = [local[t] EXCEPT !.w = m, !.then = "down"]
    OBVIOUS
  <2>3. /\ l \in Locals /\ l.w = m /\ l.then = "down" /\ l.q = p /\ l.mask = mask
    <3>1. local[t] \in Locals
      BY <1>3
    <3>2. "down" \in PCs
      BY DEF PCs
    <3> QED
      BY <1>1, <2>1, <2>2, <3>1, <3>2 DEF Locals
  <2>4. ~l.tick /\ ~l.done
    <3>1. ~local[t].tick /\ ~local[t].done
      BY <1>2, <1>3 DEF ThreadOK, KindOK, ArgsOK, Balancing
    <3>2. local[t] \in Locals
      BY <1>3
    <3>3. l.tick = local[t].tick /\ l.done = local[t].done
      BY <2>2, <3>2 DEF Locals
    <3> QED
      BY <3>1, <3>3
  <2>5. local' = [local EXCEPT ![t] = l]
    BY <1>3, <1>17, <2>1, <2>2
  <2>6. pc'[t] = "wake" /\ local'[t] = l /\ \A u \in Thread \ {t} : SameLocals(u)
    BY <1>3, <1>17, <2>3, <2>5 DEF Goto, SameLocals
  <2>7. KindOK(t)'
    BY <1>4, <2>3, <2>4, <2>6 DEF KindOK, Back, InSchedule, Balancing, Migration, Resume
  <2>8. ArgsOK(t)'
    <3>1. task'[m].state \notin Dead
      <4>1. ThreadOK(m) /\ m \notin Task
        BY <2>1, Constants DEF IInv
      <4>2. task[m].state \notin Dead
        BY <4>1 DEF ThreadOK, TaskInv
      <4> QED
        BY <1>10, <2>1, <4>2
    <3> QED
      BY <2>1, <2>3, <2>6, <3>1 DEF ArgsOK, Balancing
  <2>9. /\ rq' \in [CPU -> RunQueues]
        /\ \A e \in CPU : /\ rq'[e].nr_running = rq[e].nr_running
                          /\ rq'[e].curr = rq[e].curr /\ rq'[e].lock = rq[e].lock
                          /\ rq'[e].migration_queue = IF e = d
                                                      THEN << t >> \o rq[e].migration_queue
                                                      ELSE rq[e].migration_queue
    <3>1. rq' = [rq EXCEPT ![d].migration_queue = << t >> \o @]
      BY <1>17
    <3>2. rq \in [CPU -> RunQueues] /\ d \in CPU /\ t \in Task
      BY <1>3, <1>5, <1>6
    <3> QED
      BY <3>1, <3>2, RequestMade, ZenonT(30)
  <2>10. Waiting(t)'
    BY <1>5, <1>6, <2>3, <2>4, <2>6 DEF Waiting, Back, InSchedule
  <2>11. MakesRequest(d, t)
    BY <1>5, <1>15, <2>6, <2>9, <2>10 DEF MakesRequest
  <2>12. RequestsWait' /\ RequestsOnce'
    BY <1>6, <2>11, Requests
  <2> QED
    BY <1>14, <1>17, <2>3, <2>5, <2>7, <2>8, <2>9, <2>12
<1> QED
  BY <1>1, <1>16, <1>17 DEF set_cpus_allowed

-----------------------------------------------------------------------------
(* try_to_wake_up *)

\* Who wakes, and whom.
LEMMA Waking ==
  ASSUME IInv, NEW c \in CPU, NEW t, t = on[c], pc[t] = "wake"
  PROVE  /\ t \in Thread /\ ThreadOK(t) /\ CpuOK(c) /\ task[t].cpu = c /\ t \notin Idlers
         /\ rq \in [CPU -> RunQueues] /\ task \in [Thread -> TaskStructs]
         /\ on \in [CPU -> Thread] /\ pc \in [Thread -> PCs] /\ local \in [Thread -> Locals]
         /\ build \in Builds /\ ops \in 0 .. build.ops
         /\ local[t].then \in {"user", "down", "migrate"} /\ Back(t) = local[t].then
         /\ task[t].state \notin Dead /\ task[t].array = c
         /\ local[t].w \in Thread /\ local[t].w \notin Idlers
         /\ task[local[t].w].state \notin Dead
<1>1. /\ t \in Thread /\ ThreadOK(t) /\ CpuOK(c) /\ task[t].cpu = c
      /\ rq \in [CPU -> RunQueues] /\ task \in [Thread -> TaskStructs]
      /\ on \in [CPU -> Thread] /\ pc \in [Thread -> PCs] /\ local \in [Thread -> Locals]
      /\ build \in Builds /\ ops \in 0 .. build.ops
  BY Acting, TypeParts DEF IInv
<1>2. /\ t \notin Idlers /\ local[t].then \in {"user", "down", "migrate"}
      /\ Back(t) = local[t].then
  BY <1>1 DEF ThreadOK, KindOK, Back, Balancing, InSchedule
<1>3. task[t].state \notin Dead /\ task[t].array = c
  <2>1. task[t].state \notin Dead
    BY <1>1, <1>2 DEF ThreadOK, TaskInv
  <2>2. task[t].array = c
    BY <1>1, <1>2 DEF CpuOK, StackOK, Balancing, Idlers
  <2> QED
    BY <2>1, <2>2
<1>4. /\ local[t].w \in Thread /\ local[t].w \notin Idlers
      /\ task[local[t].w].state \notin Dead
  BY <1>1, Constants DEF ThreadOK, ArgsOK
<1> QED
  BY <1>1, <1>2, <1>3, <1>4

\* A task that is not queued is moved to the processor of who wakes it (sched.c:469-480).
LEMMA FastWakeStep ==
  ASSUME IInv, NEW c \in CPU, NEW t, t = on[c], pc[t] = "wake", NEW p, p = local[t].w,
         Unlocked(task[p].cpu), task[p].array = NULL, FastMigrates(c, p, local[t].sync),
         task' = [task EXCEPT ![p].cpu = c],
         rq' = rq, pc' = pc, local' = local, on' = on, ops' = ops, build' = build
  PROVE  IInv'
<1>1. /\ t \in Thread /\ ThreadOK(t) /\ CpuOK(c) /\ task[t].cpu = c
      /\ rq \in [CPU -> RunQueues] /\ task \in [Thread -> TaskStructs]
      /\ on \in [CPU -> Thread] /\ pc \in [Thread -> PCs] /\ local \in [Thread -> Locals]
      /\ build \in Builds /\ ops \in 0 .. build.ops
      /\ p \in Thread /\ p \notin Idlers /\ task[p].state \notin Dead
  BY Waking
<1>2. PICK old \in CPU : old = task[p].cpu
  BY <1>1 DEF TaskStructs
<1>3. rq[old].lock # old /\ rq[old].curr # p /\ old # c /\ c \in task[p].cpus_allowed
  BY <1>2, Constants DEF Unlocked, FastMigrates
<1>4. Gone(p)
  BY <1>1, <1>2, <1>3, NoSwitch, OffStack
<1>5. ThreadOK(p) /\ p \notin Migrators /\ p # t
  <2>1. ThreadOK(p)
    BY <1>1 DEF IInv
  <2>2. p # t
    BY <1>4 DEF Gone, Off
  <2> QED
    BY <1>2, <1>3, <2>1, <2>2 DEF ThreadOK, TaskInv
<1>6. /\ task' \in [Thread -> TaskStructs] /\ \A u \in Thread \ {p} : task'[u] = task[u]
      /\ task'[p].array = NULL /\ task'[p].state = task[p].state
      /\ task'[p].cpus_allowed = task[p].cpus_allowed
  <2>1. PICK k : k = [task[p] EXCEPT !.cpu = c]
    OBVIOUS
  <2>2. /\ k \in TaskStructs /\ k.array = NULL /\ k.state = task[p].state
        /\ k.cpus_allowed = task[p].cpus_allowed
    <3>1. task[p] \in TaskStructs
      BY <1>1
    <3> QED
      BY <2>1, <3>1 DEF TaskStructs
  <2>3. task' = [task EXCEPT ![p] = k]
    BY <1>1, <2>1
  <2> QED
    BY <1>1, <2>2, <2>3
<1>7. TypeOK'
  BY <1>1, <1>6, TypeParts DEF TypeOK, RunQueues, TaskStructs, Locals
<1>8. \A u \in Thread : SameLife(u) /\ SameLocals(u) /\ Undisturbed(u)
  <2>1. \A u \in Thread : SameLife(u) /\ SameLocals(u)
    BY <1>6 DEF SameLife, SameLocals
  <2> QED
    BY <2>1, AllUndisturbed
<1>9. Elsewhere(c, t, p)
  BY <1>6, <1>8 DEF Elsewhere, Same, SameLocks
<1>10. ThreadOK(p)'
  <2>1. task'[p].cpus_allowed # {}
    BY <1>5, <1>6 DEF ThreadOK, TaskInv
  <2> QED
    BY <1>1, <1>4, <1>5, <1>6, <1>8, <2>1, MovedOK
<1>11. on'[c] = t /\ task'[t] = task[t]
  BY <1>1, <1>5, <1>6
<1>12. ThreadOK(t)'
  <2>1. Same(t) /\ SameLocals(t) /\ Undisturbed(t)
    BY <1>1, <1>8, <1>11 DEF Same
  <2> QED
    BY <1>1, <2>1, KindKept, ArgsKept, TaskKept DEF ThreadOK, Same, Undisturbed
<1>13. LocksOf(c)' /\ BusiestOK(c)' /\ StackOK(c)'
  BY <1>1, <1>11 DEF CpuOK, LocksOf, Held, BusiestOK, StackOK, Balancing
<1>14. \A d \in CPU : CountsOf(d)'
  <2>1. \A u \in Thread : task'[u].array = task[u].array
    BY <1>1, <1>6
  <2> QED
    BY <2>1, CountsSame
<1>15. \A u \in Thread : Apart(t, u)' /\ Apart(p, u)'
  BY <1>1, <1>8, ApartKept DEF IInv
<1>16. RequestsWait' /\ RequestsOnce'
  <2>1. Waiting(t) => Waiting(t)'
    BY <1>1, <1>8, WaitingKept
  <2> QED
    BY <1>8, <2>1, NoRequest
<1> QED
  BY <1>1, <1>4, <1>7, <1>9, <1>10, <1>12, <1>13, <1>14, <1>15, <1>16, SubjectStep

\* What a wake-up that does not move the task changes (sched.c:481-500): the task is
\* runnable, and queued where it is if it was not; who wakes it goes on.
Awakes(c, t, p) ==
  /\ Goto(t, local[t].then)
  /\ local' = [local EXCEPT ![t].w = NULL, ![t].sync = FALSE, ![t].then = "none"]
  /\ on' = on /\ ops' = ops /\ build' = build
  /\ task' \in [Thread -> TaskStructs] /\ rq' \in [CPU -> RunQueues]
  /\ \A u \in Thread \ {p} : Same(u)
  /\ task'[p].state = "RUNNING" /\ task'[p].cpu = task[p].cpu
  /\ task'[p].cpus_allowed = task[p].cpus_allowed
  /\ task'[p].array = IF task[p].array = NULL THEN task[p].cpu ELSE task[p].array
  /\ \A d \in CPU : /\ rq'[d].lock = rq[d].lock /\ rq'[d].curr = rq[d].curr
                    /\ rq'[d].migration_queue = rq[d].migration_queue
  /\ \A d \in CPU : CountsOf(d)'

\* Such a wake-up keeps the invariant.
LEMMA AwakeStep ==
  ASSUME IInv, NEW c \in CPU, NEW t, t = on[c], pc[t] = "wake", NEW p, p = local[t].w,
         Awakes(c, t, p)
  PROVE  IInv'
<1>1. /\ t \in Thread /\ ThreadOK(t) /\ CpuOK(c) /\ task[t].cpu = c /\ t \notin Idlers
      /\ rq \in [CPU -> RunQueues] /\ task \in [Thread -> TaskStructs]
      /\ on \in [CPU -> Thread] /\ pc \in [Thread -> PCs] /\ local \in [Thread -> Locals]
      /\ build \in Builds /\ ops \in 0 .. build.ops
      /\ local[t].then \in {"user", "down", "migrate"} /\ Back(t) = local[t].then
      /\ task[t].state \notin Dead /\ task[t].array = c
      /\ p \in Thread /\ p \notin Idlers /\ task[p].state \notin Dead
  BY Waking
<1>0. /\ on' = on /\ ops' = ops /\ build' = build
      /\ task' \in [Thread -> TaskStructs] /\ rq' \in [CPU -> RunQueues]
      /\ \A u \in Thread \ {p} : Same(u)
      /\ task'[p].state = "RUNNING" /\ task'[p].cpu = task[p].cpu
      /\ task'[p].cpus_allowed = task[p].cpus_allowed
      /\ task'[p].array = IF task[p].array = NULL THEN task[p].cpu ELSE task[p].array
      /\ \A d \in CPU : /\ rq'[d].lock = rq[d].lock /\ rq'[d].curr = rq[d].curr
                        /\ rq'[d].migration_queue = rq[d].migration_queue
      /\ \A d \in CPU : CountsOf(d)'
  BY DEF Awakes
<1>2. /\ Alone(t) /\ pc'[t] = local[t].then /\ local'[t].then = "none"
      /\ local'[t].q = local[t].q /\ local'[t].tick = local[t].tick
      /\ local'[t].done = local[t].done
  <2>1. pc' = [pc EXCEPT ![t] = local[t].then] /\ local[t].then \in PCs
    BY <1>1 DEF Goto, PCs, Awakes
  <2>2. PICK l : l = [local[t] EXCEPT !.w = NULL, !.sync = FALSE, !.then = "none"]
    OBVIOUS
  <2>3. local[t] \in Locals
    BY <1>1
  <2>4. l \in Locals /\ l.then = "none" /\ l.q = local[t].q /\ l.tick = local[t].tick
        /\ l.done = local[t].done
    <3>1. "none" \in PCs
      BY DEF PCs
    <3>2. l \in Locals
      BY <2>2, <2>3, <3>1, Zenon DEF Locals
    <3>3. l.then = "none" /\ l.q = local[t].q
      BY <2>2, <2>3 DEF Locals
    <3>4. l.tick = local[t].tick /\ l.done = local[t].done
      BY <2>2, <2>3 DEF Locals
    <3> QED
      BY <3>2, <3>3, <3>4
  <2>5. local' = [local EXCEPT ![t] = l]
    BY <1>1, <2>2, ZenonT(30) DEF Awakes
  <2> QED
    BY <1>1, <2>1, <2>4, <2>5 DEF Alone, SameLocals
<1>3. TypeOK'
  BY <1>0, <1>1, <1>2, TypeParts DEF TypeOK, RunQueues, TaskStructs, Locals, Alone
<1>4. \A u \in Thread : SameLife(u) /\ Undisturbed(u)
  <2>1. \A u \in Thread : SameLife(u)
    BY <1>0, <1>1 DEF SameLife, Same, Dead
  <2> QED
    BY <1>0, <2>1, AllUndisturbed
<1>5. Elsewhere(c, t, p)
  BY <1>0, <1>2, <1>4 DEF Elsewhere, Alone, SameLocks
<1>6. KindOK(t)' /\ Back(t)' = Back(t)
  <2>1. KindOK(t) /\ ~local[t].tick
    BY <1>0, <1>1 DEF ThreadOK, KindOK, Balancing
  <2>2. Back(t)' = local[t].then
    BY <1>0, <1>1, <1>2 DEF Back, InSchedule, Balancing
  <2>3. KindOK(t)'
    BY <1>0, <1>1, <1>2, <2>1, <2>2 DEF KindOK, InSchedule, Balancing, Migration, Resume
  <2> QED
    BY <1>0, <1>1, <2>2, <2>3
<1>7. task'[t].cpu = c /\ task'[t].array = c /\ task'[t].state \notin Dead
  <2>1. CASE t = p
    <3>1. c # NULL /\ "RUNNING" \notin Dead
      BY Constants DEF Dead
    <3> QED
      BY <1>0, <1>1, <2>1, <3>1
  <2>2. CASE t # p
    BY <1>0, <1>1, <2>2 DEF Same
  <2> QED
    BY <2>1, <2>2
<1>8. on'[c] = t
  BY <1>0
<1>9. ThreadOK(t)'
  <2>1. ArgsOK(t)'
    BY <1>0, <1>1, <1>2 DEF ArgsOK, Balancing
  <2>2. task'[t].cpus_allowed = task[t].cpus_allowed
    BY <1>0, <1>1 DEF Same
  <2>3. ~Off(t)'
    BY <1>0, <1>8 DEF Off
  <2>4. TaskInv(t)'
    BY <1>0, <1>1, <1>7, <2>2, <2>3 DEF ThreadOK, TaskInv, Dead
  <2> QED
    BY <1>6, <2>1, <2>4 DEF ThreadOK
<1>10. ThreadOK(p)'
  <2>1. CASE p = t
    BY <1>9, <2>1
  <2>2. CASE p # t
    <3>1. ThreadOK(p) /\ SameLocals(p) /\ Undisturbed(p)
      BY <1>0, <1>1, <1>2, <1>4, <2>2 DEF IInv, Alone
    <3>2. KindOK(p)' /\ Back(p)' = Back(p)
      BY <1>0, <3>1, KindKept DEF ThreadOK
    <3>3. ArgsOK(p)'
      BY <1>0, <3>1, ArgsKept DEF ThreadOK, Undisturbed
    <3>4. Off(p)' = Off(p)
      BY <1>0 DEF Off
    <3>5. TaskInv(p)'
      <4>1. TaskInv(p) /\ Back(p)' = Back(p) /\ pc'[p] = pc[p]
        BY <3>1, <3>2 DEF ThreadOK, SameLocals
      <4>2. task'[p].state = "RUNNING" /\ "RUNNING" \notin Dead /\ "RUNNING" # "FREE"
            /\ "RUNNING" # "ZOMBIE"
        BY <1>0 DEF Dead
      <4>3. task'[p].array # NULL => task'[p].array = task'[p].cpu
        BY <1>0, <4>1 DEF TaskInv
      <4>4. p \in Migrators => p = migration[task'[p].cpu] /\ task'[p].cpus_allowed = {task'[p].cpu}
        BY <1>0, <4>1 DEF TaskInv
      <4>5. task'[p].cpus_allowed # {} /\ (Off(p)' => pc'[p] \in Resume)
        BY <1>0, <3>4, <4>1 DEF TaskInv
      <4> QED
        BY <1>1, <4>2, <4>3, <4>4, <4>5 DEF TaskInv
    <3> QED
      BY <3>2, <3>3, <3>5 DEF ThreadOK
  <2> QED
    BY <2>1, <2>2
<1>11. LocksOf(c)' /\ BusiestOK(c)' /\ StackOK(c)'
  <2>1. LocksOf(c) /\ rq[c].curr = t
    BY <1>0, <1>1 DEF CpuOK, StackOK
  <2>2. LocksOf(c)' /\ BusiestOK(c)'
    BY <1>0, <1>1, <1>2, <1>8, <2>1 DEF LocksOf, Held, BusiestOK, Balancing
  <2>3. StackOK(c)'
    BY <1>0, <1>1, <1>2, <1>7, <1>8, <2>1 DEF StackOK, Dead
  <2> QED
    BY <2>2, <2>3
<1>12. \A u \in Thread : Apart(t, u)' /\ Apart(p, u)'
  <2>1. \A u \in Thread : Apart(t, u)'
    BY <1>0, <1>1, <1>2, ApartElsewhere
  <2>2. CASE p = t
    BY <2>1, <2>2
  <2>3. CASE p # t
    BY <1>0, <1>1, <1>2, <2>1, <2>3, ApartBoth DEF Alone
  <2> QED
    BY <2>1, <2>2, <2>3
<1>13. RequestsWait' /\ RequestsOnce'
  <2>1. Waiting(t) => Waiting(t)'
    BY <1>0, <1>2, <1>6 DEF Waiting
  <2>2. pc'[t] \notin Migration /\ pc[t] \notin Migration
    BY <1>0, <1>1, <1>2 DEF Migration
  <2> QED
    BY <1>0, <1>2, <2>1, <2>2, NoRequest DEF Alone
<1>14. /\ SameCourse(p) \/ p = t \/ Gone(p)
       /\ p = t \/ Gone(p) \/ (/\ task'[p].cpu = task[p].cpu
                               /\ task[p].array = NULL \/ task'[p].array = task[p].array
                               /\ task[p].state # "FREE" => task'[p].state # "FREE")
  <2>1. p # t => SameCourse(p)
    BY <1>0, <1>1, <1>2 DEF Alone, SameLocals, SameCourse
  <2>2. task'[p].state # "FREE"
    BY <1>0
  <2> QED
    BY <1>0, <1>1, <2>1, <2>2
<1> QED
  BY <1>0, <1>1, <1>3, <1>5, <1>9, <1>10, <1>11, <1>12, <1>13, <1>14, SubjectStep

\* try_to_wake_up, under the lock of the task's runqueue (sched.c:458-502).
LEMMA TryToWakeStep ==
  ASSUME IInv, NEW c \in CPU, NEW t, try_to_wake_up(c, t)
  PROVE  IInv'
<1>1. PICK p, old : p = local[t].w /\ old = task[p].cpu
  OBVIOUS
<1>2. /\ t = on[c] /\ pc[t] = "wake" /\ Unlocked(old)
      /\ on' = on /\ ops' = ops /\ build' = build
  BY <1>1 DEF try_to_wake_up, At
<1>3. /\ rq \in [CPU -> RunQueues] /\ task \in [Thread -> TaskStructs]
      /\ p \in Thread /\ task[p].state \notin Dead /\ old \in CPU
  BY <1>1, <1>2, Waking DEF TaskStructs
<1>4. CASE task[p].array = NULL /\ FastMigrates(c, p, local[t].sync)
  BY <1>1, <1>2, <1>4, FastWakeStep DEF try_to_wake_up
<1>5. ASSUME ~(task[p].array = NULL /\ FastMigrates(c, p, local[t].sync)) PROVE IInv'
  <2>1. /\ Goto(t, local[t].then)
        /\ local' = [local EXCEPT ![t].w = NULL, ![t].sync = FALSE, ![t].then = "none"]
    BY <1>1, <1>5 DEF try_to_wake_up
  <2>2. PICK awake : awake = [task EXCEPT ![p].state = "RUNNING"]
    OBVIOUS
  <2>3. /\ awake \in [Thread -> TaskStructs] /\ \A u \in Thread \ {p} : awake[u] = task[u]
        /\ awake[p].state = "RUNNING" /\ awake[p].cpu = old /\ awake[p].array = task[p].array
        /\ awake[p].cpus_allowed = task[p].cpus_allowed
    <3>1. PICK k : k = [task[p] EXCEPT !.state = "RUNNING"]
      OBVIOUS
    <3>2. /\ k \in TaskStructs /\ k.state = "RUNNING" /\ k.cpu = old /\ k.array = task[p].array
          /\ k.cpus_allowed = task[p].cpus_allowed
      <4>1. task[p] \in TaskStructs
        BY <1>3
      <4> QED
        BY <1>1, <3>1, <4>1 DEF TaskStructs
    <3>3. awake = [task EXCEPT ![p] = k]
      BY <2>2, <3>1
    <3> QED
      BY <1>3, <3>2, <3>3
  <2>4. CASE task[p].array # NULL
    <3>1. task' = awake /\ rq' = rq
      BY <1>1, <1>5, <2>2, <2>4 DEF try_to_wake_up
    <3>2. \A d \in CPU : CountsOf(d)'
      <4>1. \A u \in Thread : task'[u].array = task[u].array
        BY <2>3, <3>1
      <4> QED
        BY <3>1, <4>1, CountsSame
    <3>3. \A u \in Thread \ {p} : Same(u)
      BY <2>3, <3>1 DEF Same
    <3>4. Awakes(c, t, p)
      BY <1>1, <1>2, <1>3, <2>1, <2>3, <2>4, <3>1, <3>2, <3>3 DEF Awakes
    <3> QED
      BY <1>1, <1>2, <3>4, AwakeStep
  <2>5. CASE task[p].array = NULL
    <3>1. PICK A, R, v : A = activate_task(awake, rq, p) /\ R = rq /\ v = rq[old].curr
      OBVIOUS
    <3>2. task' = resched_task(A[1], v) /\ rq' = A[2]
      BY <1>1, <1>5, <2>2, <2>5, <3>1 DEF try_to_wake_up
    <3>3. /\ A[1] \in [Thread -> TaskStructs] /\ A[2] \in [CPU -> RunQueues]
          /\ \A u \in Thread \ {p} : A[1][u] = awake[u]
          /\ A[1][p].array = old /\ A[1][p].cpu = old /\ A[1][p].state = awake[p].state
          /\ A[1][p].cpus_allowed = awake[p].cpus_allowed
          /\ \A e \in CPU : /\ A[2][e].nr_running = IF e = old THEN R[e].nr_running + 1
                                                               ELSE R[e].nr_running
                            /\ A[2][e].lock = R[e].lock /\ A[2][e].curr = R[e].curr
                            /\ A[2][e].migration_queue = R[e].migration_queue
      <4>1. R \in [CPU -> RunQueues] /\ A = activate_task(awake, R, p)
        BY <1>3, <3>1
      <4> QED
        BY <1>3, <2>3, <4>1, ActivateEffect
    <3>4. /\ task' \in [Thread -> TaskStructs]
          /\ \A u \in Thread : /\ task'[u].cpu = A[1][u].cpu /\ task'[u].array = A[1][u].array
                               /\ task'[u].state = A[1][u].state
                               /\ task'[u].cpus_allowed = A[1][u].cpus_allowed
      <4>1. PICK T : T = A[1]
        OBVIOUS
      <4> QED
        BY <3>2, <3>3, <4>1, ReschedSame
    <3>5. \A u \in Thread \ {p} : Same(u)
      BY <2>3, <3>3, <3>4 DEF Same
    <3>6. /\ task'[p].state = "RUNNING" /\ task'[p].cpu = old /\ task'[p].array = old
          /\ task'[p].cpus_allowed = task[p].cpus_allowed
      BY <1>3, <2>3, <3>3, <3>4
    <3>7. /\ rq' \in [CPU -> RunQueues]
          /\ \A d \in CPU : /\ rq'[d].lock = rq[d].lock /\ rq'[d].curr = rq[d].curr
                            /\ rq'[d].migration_queue = rq[d].migration_queue
                            /\ rq'[d].nr_running = IF d = old THEN rq[d].nr_running + 1
                                                   ELSE rq[d].nr_running
      BY <3>1, <3>2, <3>3
    <3>8. \A d \in CPU : CountsOf(d)'
      <4>1. \A u \in Thread \ {p} : task'[u].array = task[u].array
        BY <3>5 DEF Same
      <4>2. NULL # old /\ \A d \in CPU : d # NULL
        BY <1>3, Constants
      <4>3. \A d \in CPU : rq'[d].nr_running = IF d = NULL THEN rq[d].nr_running - 1
                                               ELSE IF d = old THEN rq[d].nr_running + 1
                                               ELSE rq[d].nr_running
        BY <3>7, <4>2
      <4> QED
        BY <1>3, <2>5, <3>6, <4>1, <4>2, <4>3, CountMove
    <3>9. Awakes(c, t, p)
      <4>1. /\ task'[p].array = IF task[p].array = NULL THEN task[p].cpu ELSE task[p].array
            /\ task'[p].cpu = task[p].cpu
        BY <1>1, <2>5, <3>6
      <4>2. \A d \in CPU : /\ rq'[d].lock = rq[d].lock /\ rq'[d].curr = rq[d].curr
                           /\ rq'[d].migration_queue = rq[d].migration_queue
        BY <3>7
      <4> QED
        BY <1>2, <2>1, <3>4, <3>5, <3>6, <3>7, <3>8, <4>1, <4>2, Zenon DEF Awakes
    <3> QED
      BY <1>1, <1>2, <3>9, AwakeStep
  <2> QED
    BY <2>4, <2>5
<1> QED
  BY <1>4, <1>5

-----------------------------------------------------------------------------
(* The initial states and the next-state relation *)

\* There are as many processes at first as the build says.
LEMMA ProcsExist ==
  ASSUME NEW b \in Builds
  PROVE  \E P \in SUBSET Task : Cardinality(P) = b.procs
<1>1. b.procs \in 1 .. Cardinality(Task) /\ IsFiniteSet(Task) /\ Cardinality(Task) \in Nat
  BY BuildAssumption, Constants, FS_CardinalityType
<1>2. PICK n \in Nat : n = Cardinality(Task)
  BY <1>1
<1>3. PICK f \in Bijection(1 .. n, Task) : TRUE
  BY <1>1, <1>2, FS_CardinalityType DEF ExistsBijection
<1>4. PICK m \in Nat : m = b.procs /\ m \in 1 .. n
  BY <1>1, <1>2
<1>5. PICK P : P = {f[i] : i \in 1 .. m}
  OBVIOUS
<1>6. P \subseteq Task /\ \A i \in 1 .. m : i \in 1 .. n
  BY <1>2, <1>3, <1>4, <1>5 DEF Bijection, Injection, IsInjective
<1>7. [i \in 1 .. m |-> f[i]] \in Bijection(1 .. m, P)
  <2>1. \A i, j \in 1 .. m : f[i] = f[j] => i = j
    BY <1>3, <1>6 DEF Bijection, Injection, IsInjective
  <2>2. \A x \in P : \E i \in 1 .. m : f[i] = x
    BY <1>5
  <2>3. \A i \in 1 .. m : f[i] \in P
    BY <1>5
  <2> QED
    BY <2>1, <2>2, <2>3 DEF Bijection, Injection, Surjection, IsInjective
<1>8. Cardinality(P) = m
  <2>1. ExistsBijection(1 .. m, P)
    BY <1>7 DEF ExistsBijection
  <2> QED
    BY <1>4, <2>1, FS_CountingElements
<1> QED
  BY <1>4, <1>6, <1>8

\* The processes that exist at first, and the one that runs.
FirstProcs == CHOOSE P \in SUBSET Task : Cardinality(P) = build.procs
FirstRuns  == CHOOSE t \in FirstProcs : TRUE

\* What the first processes, the others, the idle tasks and the migration threads are.
FirstTask(c0, P, t) ==
  IF t \in P THEN New(c0, CPU, "RUNNING", c0)
  ELSE IF t \in Task THEN New(c0, CPU, "FREE", NULL)
  ELSE IF \E c \in CPU : t = idle[c]
  THEN New(CHOOSE c \in CPU : t = idle[c], CPU, "RUNNING", NULL)
  ELSE LET c == CHOOSE d \in CPU : t = migration[d]
       IN  New(c, {c}, "SLEEPING", NULL)

\* What the initial states are made of.
LEMMA Initial ==
  ASSUME Init
  PROVE  \E c0 \in CPU, P \in SUBSET Task : \E a \in P :
           /\ P # {} /\ Cardinality(P) = build.procs /\ build.procs \in Nat /\ build \in Builds
           /\ rq = [c \in CPU |->
                     [lock |-> NULL, nr_running |-> IF c = c0 THEN build.procs ELSE 0,
                      curr |-> IF c = c0 THEN a ELSE idle[c], migration_queue |-> << >>]]
           /\ task = [t \in Thread |-> FirstTask(c0, P, t)]
           /\ on = [c \in CPU |-> IF c = c0 THEN a ELSE idle[c]]
           /\ pc = [t \in Thread |-> IF t \in P \/ \E c \in CPU : t = idle[c] THEN "user"
                                     ELSE IF t \in Task THEN "none" ELSE "migrate"]
           /\ local = [t \in Thread |-> NoLocal] /\ ops = 0 /\ build.ops \in Nat
<1>1. First(CPU) \in CPU
  BY Constants, FirstLeast
<1>2. build \in Builds /\ build.procs \in 1 .. Cardinality(Task) /\ build.ops \in Nat
  BY BuildAssumption DEF Init
<1>3. FirstProcs \in SUBSET Task /\ Cardinality(FirstProcs) = build.procs
  BY <1>2, ProcsExist DEF FirstProcs
<1>4. FirstProcs # {} /\ build.procs \in Nat
  BY <1>2, <1>3, FS_EmptySet
<1>5. FirstRuns \in FirstProcs
  BY <1>4 DEF FirstRuns
<1> QED
  BY <1>1, <1>2, <1>3, <1>4, <1>5 DEF Init, FirstProcs, FirstRuns, FirstTask

\* The initial states satisfy the invariant.
LEMMA InitInv ==
  ASSUME Init
  PROVE  IInv
<1>1. PICK c0 \in CPU, P \in SUBSET Task : \E a \in P :
        /\ P # {} /\ Cardinality(P) = build.procs /\ build.procs \in Nat /\ build \in Builds
        /\ rq = [c \in CPU |->
                  [lock |-> NULL, nr_running |-> IF c = c0 THEN build.procs ELSE 0,
                   curr |-> IF c = c0 THEN a ELSE idle[c], migration_queue |-> << >>]]
        /\ task = [t \in Thread |-> FirstTask(c0, P, t)]
        /\ on = [c \in CPU |-> IF c = c0 THEN a ELSE idle[c]]
        /\ pc = [t \in Thread |-> IF t \in P \/ \E c \in CPU : t = idle[c] THEN "user"
                                  ELSE IF t \in Task THEN "none" ELSE "migrate"]
        /\ local = [t \in Thread |-> NoLocal] /\ ops = 0 /\ build.ops \in Nat
  BY Initial
<1>2. PICK a \in P :
        /\ Cardinality(P) = build.procs /\ build.procs \in Nat /\ build \in Builds
        /\ rq = [c \in CPU |->
                  [lock |-> NULL, nr_running |-> IF c = c0 THEN build.procs ELSE 0,
                   curr |-> IF c = c0 THEN a ELSE idle[c], migration_queue |-> << >>]]
        /\ task = [t \in Thread |-> FirstTask(c0, P, t)]
        /\ on = [c \in CPU |-> IF c = c0 THEN a ELSE idle[c]]
        /\ pc = [t \in Thread |-> IF t \in P \/ \E c \in CPU : t = idle[c] THEN "user"
                                  ELSE IF t \in Task THEN "none" ELSE "migrate"]
        /\ local = [t \in Thread |-> NoLocal] /\ ops = 0 /\ build.ops \in Nat
  BY <1>1
<1>3. /\ \A c \in CPU : /\ rq[c].lock = NULL /\ rq[c].migration_queue = << >>
                        /\ rq[c].nr_running = IF c = c0 THEN build.procs ELSE 0
                        /\ rq[c].curr = IF c = c0 THEN a ELSE idle[c]
      /\ \A c \in CPU : on[c] = IF c = c0 THEN a ELSE idle[c]
  BY <1>2
<1>4. \A t \in Thread : local[t] = NoLocal
  BY <1>2
<1>5. \A t \in P : task[t] = New(c0, CPU, "RUNNING", c0) /\ pc[t] = "user"
  BY <1>2, Constants DEF FirstTask
<1>6. \A t \in Task \ P : task[t] = New(c0, CPU, "FREE", NULL) /\ pc[t] = "none"
  BY <1>2, Constants DEF Idlers, FirstTask
<1>7. \A c \in CPU : task[idle[c]] = New(c, CPU, "RUNNING", NULL) /\ pc[idle[c]] = "user"
  <2> TAKE c \in CPU
  <2>1. /\ idle[c] \in Thread /\ idle[c] \notin Task /\ idle[c] \notin P
        /\ \E d \in CPU : idle[c] = idle[d]
    BY Constants
  <2>2. (CHOOSE d \in CPU : idle[c] = idle[d]) = c
    BY Constants
  <2> QED
    BY <1>2, <2>1, <2>2 DEF FirstTask
<1>8. \A c \in CPU : /\ task[migration[c]] = New(c, {c}, "SLEEPING", NULL)
                     /\ pc[migration[c]] = "migrate"
  <2> TAKE c \in CPU
  <2>1. /\ migration[c] \in Thread /\ migration[c] \notin Task /\ migration[c] \notin P
        /\ ~ \E d \in CPU : migration[c] = idle[d]
    BY Constants DEF Idlers
  <2>2. (CHOOSE d \in CPU : migration[c] = migration[d]) = c
    BY Constants
  <2> QED
    BY <1>2, <2>1, <2>2 DEF FirstTask
<1>9. \A t \in Thread : \/ t \in P \/ t \in Task \ P
                        \/ \E c \in CPU : t = idle[c]
                        \/ \E c \in CPU : t = migration[c]
  BY Constants DEF Idlers, Migrators
<1>10. /\ NoLocal \in Locals /\ ~NoLocal.tick /\ NoLocal.q = NULL /\ NoLocal.then = "none"
  <2>1. "none" \in PCs
    BY DEF PCs
  <2>2. NoLocal \in Locals
    BY <2>1 DEF NoLocal, Locals
  <2> QED
    BY <2>2 DEF NoLocal
<1>11. TypeOK
  <2>1. rq \in [CPU -> RunQueues]
    <3>1. << >> \in Seq(Task) /\ a \in Thread /\ \A c \in CPU : idle[c] \in Thread
      BY Constants
    <3> QED
      BY <1>2, <3>1 DEF RunQueues
  <2>2. task \in [Thread -> TaskStructs]
    <3>1. \A c \in CPU, A \in SUBSET CPU :
            /\ New(c, A, "RUNNING", NULL) \in TaskStructs /\ New(c, A, "FREE", NULL) \in TaskStructs
            /\ New(c, A, "RUNNING", c) \in TaskStructs
            /\ New(c, A, "SLEEPING", NULL) \in TaskStructs
      BY DEF New, TaskStructs
    <3>2. \A t \in Thread : task[t] \in TaskStructs
      <4> TAKE t \in Thread
      <4>1. CASE t \in P
        BY <1>5, <3>1, <4>1
      <4>2. CASE t \in Task \ P
        BY <1>6, <3>1, <4>2
      <4>3. CASE \E c \in CPU : t = idle[c]
        BY <1>7, <3>1, <4>3
      <4>4. CASE \E c \in CPU : t = migration[c]
        BY <1>8, <3>1, <4>4
      <4> QED
        BY <1>9, <4>1, <4>2, <4>3, <4>4
    <3>3. task = [t \in Thread |-> task[t]]
      BY <1>2, Zenon
    <3> QED
      BY <3>2, <3>3
  <2>3. on \in [CPU -> Thread]
    BY <1>2, Constants
  <2>4. pc \in [Thread -> PCs]
    BY <1>2 DEF PCs
  <2>5. local \in [Thread -> Locals]
    BY <1>2, <1>10
  <2>6. build \in Builds /\ ops \in 0 .. build.ops
    BY <1>2
  <2> QED
    BY <2>1, <2>2, <2>3, <2>4, <2>5, <2>6, TypeParts
<1>12. \A t \in Thread : /\ pc[t] \in {"user", "none", "migrate"} /\ Back(t) = pc[t]
                         /\ t \in Task => pc[t] # "migrate"
                         /\ t \in Migrators => pc[t] = "migrate"
                         /\ t \in Idlers => pc[t] = "user"
  <2>1. \A t \in Thread : /\ pc[t] \in {"user", "none", "migrate"}
                          /\ t \in Task => pc[t] # "migrate"
                          /\ t \in Migrators => pc[t] = "migrate"
                          /\ t \in Idlers => pc[t] = "user"
    <3>1. /\ \A t \in P : pc[t] = "user"
          /\ \A t \in Task \ P : pc[t] = "none"
          /\ \A c \in CPU : pc[idle[c]] = "user" /\ pc[migration[c]] = "migrate"
      BY <1>5, <1>6, <1>7, <1>8
    <3>2. P \subseteq Task
      OBVIOUS
    <3> QED
      BY <1>9, <3>1, <3>2, Constants DEF Migrators, Idlers
  <2> QED
    BY <2>1 DEF Back, InSchedule, Balancing
<1>13. \A t \in Thread : KindOK(t) /\ ArgsOK(t)
  <2> TAKE t \in Thread
  <2>1. KindOK(t)
    BY <1>4, <1>10, <1>12 DEF KindOK, InSchedule, Balancing, Migration, Resume
  <2>2. ArgsOK(t)
    BY <1>12 DEF ArgsOK, Balancing
  <2> QED
    BY <2>1, <2>2
<1>14. \A t \in Thread : TaskInv(t)
  <2> TAKE t \in Thread
  <2>0. NULL \notin CPU
    BY Constants
  <2>1. CASE t \in P
    BY <1>5, <1>12, <2>1, Constants DEF TaskInv, New, Dead, Resume
  <2>2. CASE t \in Task \ P
    <3>1. Back(t) = "none" /\ task[t].cpu = c0 /\ task[t].cpus_allowed = CPU
          /\ task[t].state = "FREE" /\ task[t].array = NULL /\ pc[t] \in Resume
      BY <1>6, <1>12, <2>2, Constants DEF New, Resume
    <3> QED
      BY <2>2, <3>1, Constants DEF TaskInv
  <2>3. CASE \E c \in CPU : t = idle[c]
    <3>1. PICK c \in CPU : t = idle[c]
      BY <2>3
    <3>2. task[t].cpu = c /\ task[t].cpus_allowed = CPU /\ task[t].state = "RUNNING"
          /\ task[t].array = NULL /\ pc[t] \in Resume /\ t \in Idlers /\ t \notin Migrators
      <4>1. /\ t \in Idlers /\ t \notin Migrators
        BY <3>1, Constants
      <4>2. task[t] = New(c, CPU, "RUNNING", NULL) /\ pc[t] \in Resume
        BY <1>7, <3>1 DEF Resume
      <4> QED
        BY <4>1, <4>2 DEF New
    <3> QED
      BY <3>1, <3>2, Constants DEF TaskInv, Dead
  <2>4. CASE \E c \in CPU : t = migration[c]
    <3>1. PICK c \in CPU : t = migration[c]
      BY <2>4
    <3>2. task[t].cpu = c /\ task[t].cpus_allowed = {c} /\ task[t].state = "SLEEPING"
          /\ task[t].array = NULL /\ pc[t] \in Resume /\ t \notin Idlers /\ t \in Migrators
      <4>1. /\ t \notin Idlers /\ t \in Migrators
        BY <3>1, Constants
      <4>2. task[t] = New(c, {c}, "SLEEPING", NULL) /\ pc[t] \in Resume
        BY <1>8, <3>1 DEF Resume
      <4> QED
        BY <4>1, <4>2 DEF New
    <3> QED
      BY <3>1, <3>2, Constants DEF TaskInv, Dead
  <2> QED
    BY <1>9, <2>1, <2>2, <2>3, <2>4
<1>15. \A c \in CPU : LocksOf(c) /\ BusiestOK(c) /\ StackOK(c)
  <2> TAKE c \in CPU
  <2>1. on[c] \in Thread /\ pc[on[c]] = "user" /\ rq[c].curr = on[c]
        /\ task[on[c]].cpu = c /\ task[on[c]].state = "RUNNING"
        /\ (task[on[c]].array = c \/ on[c] = idle[c])
    <3>1. CASE c = c0
      <4>1. on[c] = a /\ rq[c].curr = a /\ a \in Thread
        BY <1>3, <3>1, Constants
      <4>2. task[a] = New(c, CPU, "RUNNING", c) /\ pc[a] = "user"
        BY <1>5, <3>1
      <4> QED
        BY <4>1, <4>2 DEF New
    <3>2. CASE c # c0
      <4>1. on[c] = idle[c] /\ rq[c].curr = idle[c] /\ idle[c] \in Thread
        BY <1>3, <3>2, Constants
      <4>2. task[idle[c]] = New(c, CPU, "RUNNING", NULL) /\ pc[idle[c]] = "user"
        BY <1>7
      <4> QED
        BY <4>1, <4>2 DEF New
    <3> QED
      BY <3>1, <3>2
  <2>2. LocksOf(c)
    BY <1>3, <2>1, Constants DEF LocksOf, Held
  <2>3. BusiestOK(c) /\ StackOK(c)
    BY <2>1 DEF BusiestOK, StackOK, Balancing
  <2> QED
    BY <2>2, <2>3
<1>16. \A c \in CPU : CountsOf(c)
  <2> TAKE c \in CPU
  <2>1. \A t \in Thread : task[t].array = IF t \in P THEN c0 ELSE NULL
    <3> TAKE t \in Thread
    <3>1. CASE t \in P
      BY <1>5, <3>1 DEF New
    <3>2. CASE t \in Task \ P
      BY <1>6, <3>2 DEF New
    <3>3. ASSUME NEW d \in CPU, t = idle[d] \/ t = migration[d]
          PROVE  task[t].array = IF t \in P THEN c0 ELSE NULL
      <4>1. t \notin P
        BY <3>3, Constants
      <4>2. task[t].array = NULL
        <5>1. \/ task[t] = New(d, CPU, "RUNNING", NULL)
              \/ task[t] = New(d, {d}, "SLEEPING", NULL)
          BY <1>7, <1>8, <3>3, Zenon
        <5> QED
          BY <5>1 DEF New
      <4> QED
        BY <4>1, <4>2
    <3> QED
      BY <1>9, <3>1, <3>2, <3>3
  <2>2. c # NULL /\ P \subseteq Thread
    BY Constants
  <2>3. Queued(c) = IF c = c0 THEN P ELSE {}
    BY <2>1, <2>2 DEF Queued
  <2> QED
    BY <1>2, <1>3, <2>3, FS_EmptySet DEF CountsOf
<1>17. \A t, u \in Thread : Apart(t, u)
  BY <1>12 DEF Apart
<1>18. RequestsWait /\ RequestsOnce
  <2>1. \A c \in CPU : Places(c) = {}
    <3> TAKE c \in CPU
    <3>1. DOMAIN rq[c].migration_queue = {}
      BY <1>3
    <3>2. pc[migration[c]] \notin Migration
      BY <1>8 DEF Migration
    <3> QED
      BY <3>1, <3>2 DEF Places
  <2> QED
    BY <2>1 DEF RequestsWait, RequestsOnce
<1> QED
  BY <1>11, <1>13, <1>14, <1>15, <1>16, <1>17, <1>18 DEF IInv, ThreadOK, CpuOK

\* Every step keeps the invariant: the steps of the kernel, the calls of a process, the
\* tick and the end of a time slice.
LEMMA NextStep ==
  ASSUME LocksFree, IInv, [Next]_vars
  PROVE  IInv'
<1>1. CASE UNCHANGED vars
  <2>1. /\ TypeOK' /\ \A t \in Thread : ThreadOK(t)'
    BY <1>1 DEF IInv, vars, TypeOK, ThreadOK, KindOK, ArgsOK, TaskInv, Back, Off
  <2>2. \A c \in CPU : CpuOK(c)'
    <3>1. \A c \in CPU : LocksOf(c)' = LocksOf(c) /\ CountsOf(c)' = CountsOf(c)
      BY <1>1 DEF vars, LocksOf, Held, CountsOf, Queued
    <3>2. \A c \in CPU : BusiestOK(c)' = BusiestOK(c) /\ StackOK(c)' = StackOK(c)
      BY <1>1 DEF vars, BusiestOK, StackOK
    <3> QED
      BY <3>1, <3>2 DEF IInv, CpuOK
  <2>3. \A t, u \in Thread : Apart(t, u)'
    BY <1>1 DEF IInv, vars, Apart
  <2>4. RequestsWait' /\ RequestsOnce'
    BY <1>1 DEF IInv, vars, RequestsWait, RequestsOnce, Places, ReqAt, Waiting, Back
  <2> QED
    BY <2>1, <2>2, <2>3, <2>4 DEF IInv
<1>2. CASE Next
  <2>1. PICK c \in CPU : KernelStep(c) \/ UserStep(c)
    BY <1>2 DEF Next
  <2>2. PICK t : t = on[c]
    OBVIOUS
  <2>3. Kernel(c, t) \/ Call(c, t) \/ Tick(c, t) \/ Preempt(c, t)
    BY <2>1, <2>2 DEF KernelStep, UserStep
  <2>4. CASE Kernel(c, t)
    <3>1. CASE Schedule(c, t) \/ Pick(c, t) \/ PickIdle(c, t) \/ ContextSwitch(c, t)
      BY <3>1, ScheduleStep, PickStep, PickIdleStep, ContextSwitchStep
    <3>2. CASE \/ Balance(c, t) \/ double_lock_balance(c, t) \/ SpinBusiest(c, t)
               \/ Relock(c, t) \/ Pull(c, t)
      BY <3>2, BalanceStep, DoubleLockStep, SpinStep, RelockStep, PullStep
    <3>3. CASE TickLock(c, t) \/ Unlock(c, t)
      BY <3>3, TickLockStep, UnlockStep
    <3>4. CASE \/ try_to_wake_up(c, t) \/ wake_up_forked_process(c, t)
               \/ wait_task_inactive(c, t)
      BY <3>4, TryToWakeStep, ForkedStep, InactiveStep
    <3>5. CASE set_cpus_allowed(c, t) \/ Down(c, t) \/ DownCheck(c, t)
      BY <3>5, SetCpusStep, DownStep, DownCheckStep
    <3>6. CASE \/ migration_thread(c, t) \/ ReadDest(c, t) \/ ReadSrc(c, t)
               \/ double_rq_lock(c, t) \/ Migrate(c, t) \/ Up(c, t)
      BY <3>6, MigrationThreadStep, ReadDestStep, ReadSrcStep, RqLockStep, MigrateStep, UpStep
    <3> QED
      BY <2>4, <3>1, <3>2, <3>3, <3>4, <3>5, <3>6 DEF Kernel
  <2>5. CASE Call(c, t)
    <3>1. CASE Sleep(c, t) \/ Exit(c, t) \/ Wake(c, t) \/ Fork(c, t) \/ Release(c, t)
      BY <3>1, SleepStep, ExitStep, WakeStep, ForkStep, ReleaseStep
    <3>2. CASE setscheduler(c, t) \/ Setaffinity(c, t)
      BY <3>2, SetschedulerStep, SetaffinityStep
    <3> QED
      BY <2>5, <3>1, <3>2 DEF Call
  <2>6. CASE Tick(c, t) \/ Preempt(c, t)
    BY <2>6, TickStep, PreemptStep
  <2> QED
    BY <2>3, <2>4, <2>5, <2>6
<1> QED
  BY <1>1, <1>2

-----------------------------------------------------------------------------
(* The theorems *)

\* The invariant holds in every state of every behaviour.
LEMMA InvariantHolds ==
  ASSUME LocksFree
  PROVE  Spec => []IInv
<1>1. Init => IInv
  BY InitInv
<1>2. IInv /\ [Next]_vars => IInv'
  BY NextStep
<1> QED
  BY <1>1, <1>2, PTL DEF Spec

\* Every variable of the model has its type: no field is read of a task, or a processor,
\* that is not there.
THEOREM SMPTypeCorrect ==
  ASSUME LocksFree
  PROVE  Spec => []TypeOK
<1>1. IInv => TypeOK
  BY DEF IInv
<1> QED
  BY <1>1, InvariantHolds, PTL

\* A task is queued where its cpu field says and counted once, whoever wakes it, pulls it
\* or moves it, and between any two steps of them (sched.c:458-502, 667-816, 2298-2343).
THEOREM QueuesAlwaysConsistent ==
  ASSUME LocksFree
  PROVE  Spec => []QueuesConsistent
<1>1. ASSUME IInv PROVE QueuesConsistent
  <2>1. \A c \in CPU : CountsOf(c)
    BY <1>1 DEF IInv, CpuOK
  <2>2. \A t \in Thread : TaskInv(t)
    BY <1>1 DEF IInv, ThreadOK
  <2>3. \A c \in CPU : c # NULL
    BY Constants
  <2>4. ASSUME NEW c \in CPU, NEW t \in Queued(c)
        PROVE  task[t].cpu = c /\ task[t].state # "FREE"
    <3>1. t \in Thread /\ task[t].array = c
      BY DEF Queued
    <3> QED
      BY <2>2, <2>3, <3>1 DEF TaskInv
  <2> QED
    BY <2>1, <2>4 DEF QueuesConsistent, CountsOf
<1> QED
  BY <1>1, InvariantHolds, PTL

\* No task runs on two processors, and none runs where it is not queued but on its way
\* off: no pull, migration or release catches a task whose stack is in use.
THEOREM TasksRunOnce ==
  ASSUME LocksFree
  PROVE  Spec => []RunsOnce
<1>1. ASSUME IInv PROVE RunsOnce
  <2>1. \A c, d \in CPU : on[c] = on[d] => c = d
    BY <1>1, Acting
  <2>2. \A c \in CPU : StackOK(c)
    BY <1>1 DEF IInv, CpuOK
  <2> QED
    BY <2>1, <2>2 DEF RunsOnce, StackOK, Balancing
<1> QED
  BY <1>1, InvariantHolds, PTL

\* What a processor spins on is the lock of a runqueue.
LEMMA WantsLocks ==
  ASSUME IInv, NEW c \in CPU
  PROVE  Wants(c) \subseteq CPU
<1>1. PICK t : t = on[c]
  OBVIOUS
<1>2. /\ t \in Thread /\ ArgsOK(t) /\ task \in [Thread -> TaskStructs]
  BY <1>1, Acting DEF ThreadOK
<1>3. \A u \in Thread : task[u].cpu \in CPU
  BY <1>2 DEF TaskStructs
<1>4. CASE pc[t] \in {"schedule", "tick", "fork", "migrate"}
  BY <1>1, <1>4 DEF Wants
<1>5. CASE pc[t] \in {"balance_spin", "balance_relock"}
  <2>1. local[t].busiest \in CPU
    BY <1>2, <1>5 DEF ArgsOK, Balancing
  <2> QED
    BY <1>1, <1>5, <2>1 DEF Wants
<1>6. CASE pc[t] = "wake"
  <2>1. local[t].w \in Thread
    BY <1>2, <1>6, Constants DEF ArgsOK
  <2> QED
    BY <1>1, <1>3, <1>6, <2>1 DEF Wants
<1>7. CASE pc[t] \in {"affinity", "inactive_lock", "setscheduler"}
  <2>1. local[t].q \in Thread
    BY <1>2, <1>7, Constants DEF ArgsOK
  <2> QED
    BY <1>1, <1>3, <1>7, <2>1 DEF Wants
<1>8. CASE pc[t] \in {"migrate_lock1", "migrate_lock2"}
  <2>1. PICK a, b : a = local[t].src /\ b = local[t].dest
    OBVIOUS
  <2>2. a \in CPU /\ b \in CPU
    BY <1>2, <1>8, <2>1 DEF ArgsOK
  <2>3. First({a, b}) \in CPU
    <3>1. {a, b} \in SUBSET CPU /\ {a, b} # {}
      BY <2>2
    <3> QED
      BY <3>1, FirstLeast
  <2> QED
    BY <1>1, <1>8, <2>1, <2>2, <2>3 DEF Wants
<1>9. CASE pc[t] \notin {"schedule", "tick", "fork", "migrate", "balance_spin",
                       "balance_relock", "wake", "affinity", "inactive_lock",
                       "setscheduler", "migrate_lock1", "migrate_lock2"}
  BY <1>1, <1>9 DEF Wants
<1> QED
  BY <1>4, <1>5, <1>6, <1>7, <1>8, <1>9

\* A processor that spins on a lock holds only locks that come before it: its own and then
\* the busier one's, or the lower one's and then its own (double_lock_balance,
\* sched.c:644-654), the lower one's and then the other one's (double_rq_lock), and none
\* anywhere else.
LEMMA WantsLarger ==
  ASSUME IInv, NEW c \in CPU, NEW g \in CPU, rq[g].lock = c, NEW d \in Wants(c)
  PROVE  d \in CPU /\ d > g
<1>1. PICK t : t = on[c]
  OBVIOUS
<1>2. /\ t \in Thread /\ ThreadOK(t) /\ CpuOK(c) /\ CPU \subseteq Nat
  BY <1>1, Acting, Constants
<1>3. g \in Held(c) /\ BusiestOK(c) /\ ArgsOK(t)
  BY <1>2 DEF CpuOK, LocksOf, ThreadOK
<1>4. CASE pc[t] = "balance_spin"
  <2>1. d = local[t].busiest /\ g = c
    BY <1>1, <1>3, <1>4 DEF Wants, Held
  <2> QED
    BY <1>1, <1>2, <1>3, <1>4, <2>1 DEF BusiestOK, ArgsOK, Balancing
<1>5. CASE pc[t] = "balance_relock"
  <2>1. g = local[t].busiest /\ d = c
    BY <1>1, <1>3, <1>5 DEF Wants, Held
  <2>2. local[t].busiest < c
    BY <1>1, <1>3, <1>5 DEF BusiestOK
  <2> QED
    BY <1>2, <2>1, <2>2
<1>6. CASE pc[t] = "migrate_lock2"
  <2>1. PICK a, b : a = local[t].src /\ b = local[t].dest
    OBVIOUS
  <2>2. a \in CPU /\ b \in CPU /\ a # b
    BY <1>3, <1>6, <2>1 DEF ArgsOK
  <2>3. g = First({a, b}) /\ d \in {a, b} /\ d # g
    BY <1>1, <1>3, <1>6, <2>1 DEF Wants, Held
  <2>4. First({a, b}) \in {a, b} /\ \A e \in {a, b} : First({a, b}) <= e
    <3>1. {a, b} \in SUBSET CPU /\ {a, b} # {}
      BY <2>2
    <3> QED
      BY <3>1, FirstLeast
  <2> QED
    BY <1>2, <2>2, <2>3, <2>4
<1>7. CASE pc[t] \notin {"balance_spin", "balance_relock", "migrate_lock2"}
  <2>1. pc[t] \in {"pick", "balanced", "switch", "balance", "balance_lock", "unlock",
                   "pull", "migrate_move"}
    BY <1>1, <1>3, <1>7 DEF Held
  <2>2. Wants(c) = {}
    BY <1>1, <2>1 DEF Wants
  <2> QED
    BY <2>2
<1> QED
  BY <1>4, <1>5, <1>6, <1>7

\* No set of processors spin on locks that others of the set hold: of those that hold a
\* lock somebody of the set waits for, the holder of the last one wants only locks after
\* it ("by ascending &runqueue", sched.c:140).
THEOREM NeverDeadlocked ==
  ASSUME LocksFree
  PROVE  Spec => []NoDeadlock
<1>1. ASSUME IInv PROVE NoDeadlock
  <2>1. SUFFICES ASSUME NEW S \in SUBSET CPU, S # {}
                 PROVE  \E c \in S : \A d \in Wants(c) : rq[d].lock \notin S
    BY DEF NoDeadlock
  <2>2. PICK L : L = {d \in CPU : rq[d].lock \in S}
    OBVIOUS
  <2>3. CASE L = {}
    <3>1. PICK c \in S : c \in CPU
      BY <2>1
    <3>2. \A d \in Wants(c) : d \in CPU /\ d \notin L
      BY <1>1, <2>3, <3>1, WantsLocks
    <3> QED
      BY <2>2, <3>1, <3>2
  <2>4. CASE L # {}
    <3>1. PICK g \in L : \A d \in L : d <= g
      BY <2>2, <2>4, Greatest
    <3>2. PICK c \in S : c = rq[g].lock /\ c \in CPU /\ g \in CPU
      BY <2>1, <2>2, <3>1
    <3>3. \A d \in Wants(c) : d \in CPU /\ d > g
      BY <1>1, <3>2, WantsLarger
    <3>4. ASSUME NEW d \in Wants(c), rq[d].lock \in S PROVE FALSE
      <4>1. d \in CPU /\ d > g /\ d \in L
        BY <2>2, <3>3, <3>4
      <4> QED
        BY <3>1, <3>2, <4>1, Constants
    <3> QED
      BY <3>4
  <2> QED
    BY <2>3, <2>4
<1> QED
  BY <1>1, InvariantHolds, PTL

-----------------------------------------------------------------------------
(* Affinities, and idle processors *)

\* Affinities are changed one at a time, and not while the task forks: else a mask is
\* copied, or replaced, under a migration that has read it (sched.c:2298-2343).
Orderly(b) == "affinity" \in b.calls => ~b.concurrent /\ "fork" \notin b.calls

-----------------------------------------------------------------------------
(* Affinities: the inductive invariant *)

\* u is in set_cpus_allowed, up to its return.
Affects(u) == pc[u] = "affinity" \/ Back(u) \in {"down", "down_check"}

\* Only there it has a mask, and a request to wake a migration thread for.
Affecting(u) ==
  /\ local[u].mask # {} <=> Affects(u)
  /\ Affects(u) => u \in Task /\ local[u].q \in Task /\ "affinity" \in build.calls
  /\ pc[u] = "wake" /\ local[u].w \in Migrators => Affects(u)
  /\ pc[u] = "fork" => "affinity" \notin build.calls

\* No two processes change the affinity of one task at once.
OneAtATime ==
  \A u, v \in Thread : Affects(u) /\ Affects(v) /\ local[u].q = local[v].q => u = v

\* Without changes of affinity all processors are allowed.
AllAllowed == "affinity" \notin build.calls => \A p \in Task : task[p].cpus_allowed = CPU

\* p is where it is allowed.
Placed(p) == task[p].cpu \in task[p].cpus_allowed

\* The migration thread of d has yet to see to the request of u.
Pending(u, d) ==
  \/ \E i \in DOMAIN rq[d].migration_queue : rq[d].migration_queue[i] = u
  \/ /\ pc[migration[d]] \in Migration \ {"migrate_up"}
     /\ local[migration[d]].q = u

\* The task of a request is placed, or the request is with the processor it is on.
Settled(u) ==
  Affects(u) /\ pc[u] # "affinity" =>
    Placed(local[u].q) \/ Pending(u, task[local[u].q].cpu)

\* The destination, read without a lock, is still allowed.
DestPlaces == {"migrate_src", "migrate_lock1", "migrate_lock2", "migrate_move"}
DestOK(c) ==
  pc[migration[c]] \in DestPlaces =>
    local[migration[c]].dest \in task[ReqTask(migration[c])].cpus_allowed

\* A task that may run is where it is allowed, or somebody is at work to bring it there.
Kept(p) == task[p].state # "FREE" => Placed(p) \/ \E u \in Task : Affects(u) /\ local[u].q = p

\* While affinities are changed in order this is inductive, beside IInv.
AInv ==
  /\ \A u \in Thread : Affecting(u) /\ Settled(u)
  /\ OneAtATime /\ AllAllowed
  /\ \A c \in CPU : DestOK(c)
  /\ \A p \in Task : Kept(p)

-----------------------------------------------------------------------------
(* Affinities: frames *)

\* u keeps its part in set_cpus_allowed, or gives it up.
SameRole(u) ==
  \/ SameLocals(u)
  \/ /\ pc'[u] = "wake" /\ local'[u].w \in Migrators => Affects(u)'
     /\ pc'[u] = "fork" => "affinity" \notin build.calls
     /\ \/ /\ Affects(u)' <=> Affects(u)
           /\ local'[u].mask = local[u].mask /\ local'[u].q = local[u].q
        \/ ~Affects(u)' /\ local'[u].mask = {}

\* Who keeps its locals is where it was.
LEMMA AffectsKept ==
  ASSUME NEW u, SameLocals(u)
  PROVE  Affects(u)' <=> Affects(u)
BY DEF Affects, SameLocals, Back

\* What is known of those who keep their part.
LEMMA RolesKept ==
  ASSUME AInv, build' = build, \A u \in Thread : SameRole(u),
         \/ "affinity" \in build.calls
         \/ \A p \in Task : task'[p].cpus_allowed = task[p].cpus_allowed
  PROVE  (\A u \in Thread : Affecting(u)') /\ OneAtATime' /\ AllAllowed'
<1>1. \A u \in Thread : Affecting(u)
  BY DEF AInv
<1>2. ASSUME NEW u \in Thread
      PROVE  /\ Affecting(u)'
             /\ Affects(u)' => Affects(u) /\ local'[u].q = local[u].q
  <2>1. CASE SameLocals(u)
    BY <1>1, <2>1, AffectsKept DEF Affecting, SameLocals
  <2>2. CASE ~SameLocals(u)
    BY <1>1, <2>2 DEF Affecting, SameRole
  <2> QED
    BY <2>1, <2>2
<1>3. OneAtATime'
  <2>1. OneAtATime
    BY DEF AInv
  <2> QED
    BY <1>2, <2>1 DEF OneAtATime
<1>4. AllAllowed'
  BY DEF AInv, AllAllowed
<1> QED
  BY <1>2, <1>3, <1>4

\* A request that waits is that of one who is in set_cpus_allowed.
LEMMA WaitingAffects ==
  ASSUME NEW r, Waiting(r)
  PROVE  Affects(r)
BY DEF Waiting, Affects

\* A request is with one processor, once, and has not been seen to.
LEMMA PendingOnce ==
  ASSUME IInv, NEW u \in Thread, NEW d \in CPU
  PROVE  /\ Pending(u, d) \/ (pc[migration[d]] \in Migration /\ local[migration[d]].q = u) =>
              /\ Waiting(u)
              /\ \A e \in CPU : Pending(u, e) => e = d
         /\ pc[migration[d]] = "migrate_up" /\ local[migration[d]].q = u => ~Pending(u, d)
<1>1. RequestsWait /\ RequestsOnce /\ rq \in [CPU -> RunQueues]
  BY TypeParts DEF IInv
<1>2. ASSUME NEW e \in CPU,
             Pending(u, e) \/ (pc[migration[e]] \in Migration /\ local[migration[e]].q = u)
      PROVE  \E i \in Places(e) : ReqAt(e, i) = u
  <2>1. CASE pc[migration[e]] \in Migration /\ local[migration[e]].q = u
    BY <2>1 DEF Places, ReqAt
  <2>2. CASE \E i \in DOMAIN rq[e].migration_queue : rq[e].migration_queue[i] = u
    <3>1. PICK i \in DOMAIN rq[e].migration_queue : rq[e].migration_queue[i] = u
      BY <2>2
    <3>2. i # 0
      BY <1>1, <3>1 DEF RunQueues
    <3> QED
      BY <3>1, <3>2 DEF Places, ReqAt
  <2> QED
    BY <1>2, <2>1, <2>2 DEF Pending
<1>3. ASSUME pc[migration[d]] = "migrate_up", local[migration[d]].q = u, Pending(u, d)
      PROVE  FALSE
  <2>1. PICK i \in DOMAIN rq[d].migration_queue : rq[d].migration_queue[i] = u
    BY <1>3 DEF Pending
  <2>2. i # 0 /\ i \in Places(d) /\ ReqAt(d, i) = u
    BY <1>1, <2>1 DEF RunQueues, Places, ReqAt
  <2>3. 0 \in Places(d) /\ ReqAt(d, 0) = u
    BY <1>3 DEF Places, ReqAt, Migration
  <2> QED
    BY <1>1, <2>2, <2>3 DEF RequestsOnce
<1>4. ASSUME Pending(u, d) \/ (pc[migration[d]] \in Migration /\ local[migration[d]].q = u)
      PROVE  Waiting(u) /\ \A e \in CPU : Pending(u, e) => e = d
  <2>1. PICK i \in Places(d) : ReqAt(d, i) = u
    BY <1>2, <1>4
  <2>2. Waiting(u)
    BY <1>1, <2>1 DEF RequestsWait
  <2>3. ASSUME NEW e \in CPU, Pending(u, e) PROVE e = d
    <3>1. PICK j \in Places(e) : ReqAt(e, j) = u
      BY <1>2, <2>3
    <3> QED
      BY <1>1, <2>1, <3>1 DEF RequestsOnce
  <2> QED
    BY <2>2, <2>3
<1> QED
  BY <1>3, <1>4

\* The request in the hands of a migration thread.
LEMMA InHand ==
  ASSUME IInv, AInv, NEW c \in CPU, pc[migration[c]] \in Migration
  PROVE  /\ local[migration[c]].q \in Task /\ Waiting(local[migration[c]].q)
         /\ Affects(local[migration[c]].q) /\ ReqTask(migration[c]) \in Task
         /\ ~local[local[migration[c]].q].done
<1>1. 0 \in Places(c) /\ ReqAt(c, 0) = local[migration[c]].q
  BY DEF Places, ReqAt
<1>2. Waiting(local[migration[c]].q)
  BY <1>1 DEF IInv, RequestsWait
<1> QED
  BY <1>2, WaitingAffects DEF Waiting, ReqTask

\* The invariant is kept by a step that changes no mask, and moves tasks only to where
\* they are allowed, when requests are not dropped.
LEMMA AffinityFrame ==
  ASSUME IInv, AInv, build' = build,
         \A u \in Thread : SameRole(u),
         \A u \in Thread : Waiting(u) => local'[u].q = local[u].q,
         \A p \in Task : /\ task'[p].cpus_allowed = task[p].cpus_allowed
                         /\ task'[p].cpu = task[p].cpu \/ Placed(p)'
                         /\ task'[p].state # "FREE" => task[p].state # "FREE" \/ Placed(p)',
         \A u \in Thread, p \in Task :
           Affects(u) /\ ~Affects(u)' /\ local[u].q = p => Placed(p)',
         \A u \in Thread : Affects(u)' /\ pc'[u] # "affinity" => pc[u] # "affinity",
         \A u \in Thread, p \in Task, d \in CPU :
           Affects(u)' /\ Pending(u, d) /\ local[u].q = p => Pending(u, d)' \/ Placed(p)',
         \A e \in CPU : SameLocals(migration[e]) \/ DestOK(e)'
  PROVE  AInv'
<1>1. (\A u \in Thread : Affecting(u)') /\ OneAtATime' /\ AllAllowed'
  BY RolesKept
<1>2. \A u \in Thread : Affects(u)' => Affects(u) /\ local'[u].q = local[u].q
  <2> TAKE u \in Thread
  <2>1. CASE SameLocals(u)
    BY <2>1, AffectsKept DEF SameLocals
  <2>2. CASE ~SameLocals(u)
    BY <2>2 DEF SameRole
  <2> QED
    BY <2>1, <2>2
<1>3. ASSUME NEW u \in Thread PROVE Settled(u)'
  <2>1. SUFFICES ASSUME Affects(u)', pc'[u] # "affinity"
                 PROVE  (Placed(local[u].q) \/ Pending(u, task[local[u].q].cpu))'
    BY DEF Settled
  <2>2. Affects(u) /\ pc[u] # "affinity" /\ local[u].q \in Task
    BY <1>2, <2>1 DEF AInv, Affecting
  <2>3. PICK p \in Task : p = local[u].q
    BY <2>2
  <2>4. local'[u].q = p
    BY <1>2, <2>1, <2>3
  <2>5. SUFFICES ASSUME ~Placed(p)' PROVE Pending(u, task[p].cpu)'
    BY <2>4 DEF Placed, Pending
  <2>6. task'[p].cpu = task[p].cpu /\ task'[p].cpus_allowed = task[p].cpus_allowed
    BY <2>5
  <2>7. ~Placed(p)
    BY <2>5, <2>6 DEF Placed
  <2>8. PICK d \in CPU : d = task[p].cpu
    BY TypeParts, Constants DEF IInv, TaskStructs
  <2>9. Pending(u, d)
    BY <2>2, <2>3, <2>7, <2>8 DEF AInv, Settled
  <2>10. Pending(u, d)'
    BY <2>1, <2>3, <2>5, <2>9
  <2>11. task'[p].cpu = d
    BY <2>6, <2>8
  <2> QED
    BY <2>10, <2>11 DEF Pending
<1>4. ASSUME NEW e \in CPU PROVE DestOK(e)'
  <2>1. SUFFICES ASSUME SameLocals(migration[e]), pc'[migration[e]] \in DestPlaces
                 PROVE  local'[migration[e]].dest \in task'[ReqTask(migration[e])'].cpus_allowed
    BY DEF DestOK
  <2>2. pc[migration[e]] \in DestPlaces /\ pc[migration[e]] \in Migration
    BY <2>1 DEF SameLocals, DestPlaces, Migration
  <2>3. PICK r : r = local[migration[e]].q
    OBVIOUS
  <2>4. r \in Task /\ Waiting(r) /\ ReqTask(migration[e]) = local[r].q /\ local[r].q \in Task
    BY <2>2, <2>3, InHand DEF ReqTask
  <2>5. ReqTask(migration[e])' = local[r].q
    <3>1. local'[migration[e]].q = r /\ local'[r].q = local[r].q
      BY <2>1, <2>3, <2>4, Constants DEF SameLocals
    <3> QED
      BY <3>1 DEF ReqTask
  <2>6. local[migration[e]].dest \in task[local[r].q].cpus_allowed
    BY <2>2, <2>4 DEF AInv, DestOK
  <2> QED
    BY <2>1, <2>4, <2>5, <2>6 DEF SameLocals
<1>5. ASSUME NEW p \in Task PROVE Kept(p)'
  <2>1. SUFFICES ASSUME task'[p].state # "FREE", ~Placed(p)'
                 PROVE  \E u \in Task : Affects(u)' /\ local'[u].q = p
    BY DEF Kept, Placed
  <2>2. task[p].state # "FREE" /\ ~Placed(p)
    <3>1. task'[p].cpu = task[p].cpu /\ task'[p].cpus_allowed = task[p].cpus_allowed
      BY <2>1
    <3> QED
      BY <2>1, <3>1 DEF Placed
  <2>3. PICK u \in Task : Affects(u) /\ local[u].q = p
    BY <2>2 DEF AInv, Kept
  <2>4. u \in Thread
    BY Constants
  <2>5. Affects(u)'
    BY <2>1, <2>3, <2>4
  <2> QED
    BY <1>2, <2>3, <2>4, <2>5
<1> QED
  BY <1>1, <1>3, <1>4, <1>5 DEF AInv

-----------------------------------------------------------------------------
(* Steps that have nothing to do with a migration *)

\* u keeps its part, and is no migration thread at work.
Calm(u) ==
  \/ SameLocals(u)
  \/ /\ SameRole(u) /\ pc[u] \notin Migration /\ pc'[u] \notin Migration
     /\ Affects(u) => Affects(u)'
     /\ Affects(u)' /\ pc'[u] # "affinity" => pc[u] # "affinity"

\* No mask changes, and no task is moved, or set up, where it is not allowed.
Placing ==
  \A p \in Task : /\ task'[p].cpus_allowed = task[p].cpus_allowed
                  /\ task'[p].cpu = task[p].cpu \/ Placed(p)'
                  /\ task'[p].state # "FREE" => task[p].state # "FREE" \/ Placed(p)'

\* Such a step of all tasks keeps the invariant.
LEMMA CalmStep ==
  ASSUME IInv, AInv, build' = build, \A u \in Thread : Calm(u), Placing,
         \A d \in CPU : rq'[d].migration_queue = rq[d].migration_queue
  PROVE  AInv'
<1>1. \A u \in Thread : SameRole(u)
  BY DEF Calm, SameRole
<1>2. \A u \in Thread : Affects(u) => Affects(u)' /\ local'[u].q = local[u].q
  <2> TAKE u \in Thread
  <2>1. CASE SameLocals(u)
    BY <2>1, AffectsKept DEF SameLocals
  <2>2. CASE ~SameLocals(u)
    BY <2>2 DEF Calm, SameRole
  <2> QED
    BY <2>1, <2>2
<1>3. \A u \in Thread : Waiting(u) => local'[u].q = local[u].q
  BY <1>2, WaitingAffects
<1>4. \A u \in Thread : Affects(u)' /\ pc'[u] # "affinity" => pc[u] # "affinity"
  BY DEF Calm, SameLocals
<1>5. \A e \in CPU : SameLocals(migration[e]) \/ DestOK(e)'
  <2> TAKE e \in CPU
  <2>1. migration[e] \in Thread
    BY Constants
  <2> QED
    BY <2>1 DEF Calm, DestOK, DestPlaces, Migration
<1>6. \A u \in Thread, d \in CPU : Pending(u, d) => Pending(u, d)'
  <2> TAKE u \in Thread, d \in CPU
  <2>1. migration[d] \in Thread
    BY Constants
  <2>2. CASE \E i \in DOMAIN rq[d].migration_queue : rq[d].migration_queue[i] = u
    BY <2>2 DEF Pending
  <2>3. CASE pc[migration[d]] \in Migration \ {"migrate_up"} /\ local[migration[d]].q = u
    BY <2>1, <2>3 DEF Pending, Calm, SameLocals
  <2> QED
    BY <2>2, <2>3 DEF Pending
<1> QED
  BY <1>1, <1>2, <1>3, <1>4, <1>5, <1>6, AffinityFrame DEF Placing

\* Who comes to user mode, from where it changed no affinity.
LEMMA UserCalm ==
  ASSUME IInv, NEW t, ~Affects(t), pc[t] \notin Migration, pc'[t] = "user", local'[t] = NoLocal
  PROVE  Calm(t)
<1>1. ~Affects(t)'
  BY DEF Affects, Back, InSchedule, Balancing
<1> QED
  BY <1>1, NoLocalFields DEF Calm, SameRole, Migration

\* A call begins, but for sys_sched_setaffinity.
LEMMA CallCalm ==
  ASSUME IInv, AInv, NEW c \in CPU, NEW t, NEW call,
         NEW place \in {"schedule", "wake", "inactive", "setscheduler", "fork"},
         NEW l \in Locals, Begin(c, t, call, place, l), l.mask = {}, l.then \in {"user", "none"},
         place = "wake" => l.w \in Task, place = "fork" => "affinity" \notin build.calls,
         Placing
  PROVE  AInv'
<1>1. /\ t = on[c] /\ t \in Task /\ pc[t] = "user" /\ pc'[t] = place /\ local'[t] = l
      /\ Alone(t) /\ rq' = rq /\ build' = build
  <2>1. place \in PCs
    BY DEF PCs
  <2> QED
    BY <2>1, BeginEffect
<1>2. ~Affects(t) /\ ~Affects(t)'
  BY <1>1 DEF Affects, Back, InSchedule, Balancing
<1>3. Calm(t)
  BY <1>1, <1>2, Constants DEF Calm, SameRole, Migration
<1> QED
  BY <1>1, <1>3, CalmStep DEF Alone, Calm

\* A process gives way to wait, or exits.
LEMMA SleepAffinity ==
  ASSUME IInv, AInv, NEW c \in CPU, NEW t, Sleep(c, t)
  PROVE  AInv'
<1> DEFINE l == [NoLocal EXCEPT !.then = "user"]
<1>1. l \in Locals /\ l.mask = {} /\ l.then = "user"
  BY DEF NoLocal, Locals, PCs
<1>2. Begin(c, t, "sleep", "schedule", l) /\ task' = [task EXCEPT ![t].state = "SLEEPING"]
  BY DEF Sleep
<1> HIDE DEF l
<1>3. t \in Task /\ task[t].state \notin Dead
  BY <1>1, <1>2, BeginEffect DEF PCs
<1>4. Placing
  BY <1>2, <1>3, TypeParts DEF IInv, Placing, TaskStructs, Dead
<1> QED
  BY <1>1, <1>2, <1>4, CallCalm

\* do_exit begins.
LEMMA ExitAffinity ==
  ASSUME IInv, AInv, NEW c \in CPU, NEW t, Exit(c, t)
  PROVE  AInv'
<1> DEFINE l == [NoLocal EXCEPT !.then = "none"]
<1>1. l \in Locals /\ l.mask = {} /\ l.then = "none"
  BY DEF NoLocal, Locals, PCs
<1>2. Begin(c, t, "exit", "schedule", l) /\ task' = [task EXCEPT ![t].state = "ZOMBIE"]
  BY DEF Exit
<1> HIDE DEF l
<1>3. t \in Task /\ task[t].state \notin Dead
  BY <1>1, <1>2, BeginEffect DEF PCs
<1>4. Placing
  BY <1>2, <1>3, TypeParts DEF IInv, Placing, TaskStructs, Dead
<1> QED
  BY <1>1, <1>2, <1>4, CallCalm

\* wake_up begins.
LEMMA WakeAffinity ==
  ASSUME IInv, AInv, NEW c \in CPU, NEW t, Wake(c, t)
  PROVE  AInv'
<1>1. PICK q \in Task \ {t}, sync \in BOOLEAN :
        /\ task' = task
        /\ Begin(c, t, "wake", "wake", [NoLocal EXCEPT !.w = q, !.sync = sync, !.then = "user"])
  BY DEF Wake
<1> DEFINE l == [NoLocal EXCEPT !.w = q, !.sync = sync, !.then = "user"]
<1>2. l \in Locals
  BY Constants, Zenon DEF NoLocal, Locals, PCs
<1>3. l.mask = {} /\ l.then = "user" /\ l.w = q
  BY DEF NoLocal
<1>4. Begin(c, t, "wake", "wake", l)
  BY <1>1
<1> HIDE DEF l
<1>5. Placing
  BY <1>1 DEF Placing
<1> QED
  BY <1>2, <1>3, <1>4, <1>5, CallCalm

\* release_task begins, or setscheduler.
LEMMA ReleaseAffinity ==
  ASSUME IInv, AInv, NEW c \in CPU, NEW t, NEW q \in Task, NEW call,
         NEW place \in {"inactive", "setscheduler"}, task' = task,
         Begin(c, t, call, place, [NoLocal EXCEPT !.q = q])
  PROVE  AInv'
<1> DEFINE l == [NoLocal EXCEPT !.q = q]
<1>2. l \in Locals
  BY Constants, Zenon DEF NoLocal, Locals, PCs
<1>3. l.mask = {} /\ l.then = "none"
  BY DEF NoLocal
<1>4. Begin(c, t, call, place, l)
  OBVIOUS
<1> HIDE DEF l
<1>5. Placing
  BY DEF Placing
<1> QED
  BY <1>2, <1>3, <1>4, <1>5, CallCalm

\* setscheduler begins, and ends, when nobody becomes SHORT.
LEMMA SetschedulerAffinity ==
  ASSUME LocksFree, IInv, AInv, NEW c \in CPU, NEW t, setscheduler(c, t)
  PROVE  AInv'
<1>1. CASE \E q \in Task : /\ task' = task
             /\ Begin(c, t, "setscheduler", "setscheduler", [NoLocal EXCEPT !.q = q])
  BY <1>1, ReleaseAffinity
<1>2. CASE /\ At(c, t, "setscheduler") /\ ~build.short
           /\ local' = [local EXCEPT ![t] = NoLocal] /\ Goto(t, "user") /\ rq' = rq
           /\ UNCHANGED << task, on, ops, build >>
  <2>1. /\ t \in Thread /\ pc[t] = "setscheduler" /\ pc \in [Thread -> PCs]
        /\ local \in [Thread -> Locals]
    BY <1>2, Acting DEF At
  <2>2. ~Affects(t) /\ pc'[t] = "user" /\ local'[t] = NoLocal
    BY <1>2, <2>1 DEF Affects, Back, InSchedule, Balancing, Goto
  <2>3. Calm(t)
    BY <2>1, <2>2, UserCalm DEF Migration
  <2>4. \A u \in Thread \ {t} : SameLocals(u)
    BY <1>2, <2>1 DEF SameLocals, Goto
  <2>5. Placing
    BY <1>2 DEF Placing
  <2> QED
    BY <1>2, <2>3, <2>4, <2>5, CalmStep DEF Calm
<1>3. ~build.short
  BY TypeParts DEF LocksFree, IInv
<1> QED
  BY <1>1, <1>2, <1>3 DEF setscheduler

\* do_fork begins: the copy has the mask of its parent, which is that of all.
LEMMA ForkAffinity ==
  ASSUME IInv, AInv, Orderly(build), NEW c \in CPU, NEW t, Fork(c, t)
  PROVE  AInv'
<1>1. PICK p \in Task :
        /\ task[p].state = "FREE"
        /\ Begin(c, t, "fork", "fork", [NoLocal EXCEPT !.q = p])
        /\ task' = [task EXCEPT ![p].cpus_allowed = task[t].cpus_allowed]
  BY DEF Fork
<1> DEFINE l == [NoLocal EXCEPT !.q = p]
<1>2. l \in Locals
  BY Constants, Zenon DEF NoLocal, Locals, PCs
<1>3. l.mask = {} /\ l.then = "none"
  BY DEF NoLocal
<1>4. Begin(c, t, "fork", "fork", l)
  BY <1>1
<1> HIDE DEF l
<1>5. t \in Task
  BY <1>2, <1>4, BeginEffect DEF PCs
<1>6. "affinity" \notin build.calls
  BY <1>1 DEF Begin, Orderly
<1>7. Placing
  <2>1. task[t].cpus_allowed = CPU /\ task[p].cpus_allowed = CPU
    BY <1>5, <1>6 DEF AInv, AllAllowed
  <2> QED
    BY <1>1, <2>1, TypeParts DEF IInv, Placing, TaskStructs
<1> QED
  BY <1>2, <1>3, <1>4, <1>6, <1>7, CallCalm

-----------------------------------------------------------------------------
(* schedule(), the balancer and the timer *)

\* Who is as much in set_cpus_allowed as before, and not at its beginning.
LEMMA RoleStays ==
  ASSUME NEW t, pc[t] \notin Migration \cup {"affinity"},
         pc'[t] \notin Migration \cup {"affinity", "wake", "fork"},
         Affects(t)' <=> Affects(t), local'[t].mask = local[t].mask, local'[t].q = local[t].q
  PROVE  Calm(t)
BY DEF Calm, SameRole

\* A step of t alone that changes no task, and takes or drops a lock at most.
LEMMA QuietAffinity ==
  ASSUME IInv, AInv, NEW c \in CPU, NEW t, t = on[c], task' = task, build' = build,
         Alone(t), Calm(t), Locks(c)
  PROVE  AInv'
<1>1. rq \in [CPU -> RunQueues]
  BY Acting
<1>2. \A d \in CPU : rq'[d].migration_queue = rq[d].migration_queue
  <2>1. CASE rq' = rq
    BY <2>1
  <2>2. CASE rq' # rq
    BY <1>1, <2>2, Locking DEF Locks
  <2> QED
    BY <2>1, <2>2
<1>3. Placing
  BY DEF Placing
<1> QED
  BY <1>2, <1>3, CalmStep DEF Alone, Calm

\* load_balance goes on.
LEMMA BalancerAffinity ==
  ASSUME IInv, AInv, NEW c \in CPU, NEW t, t = on[c], pc[t] \in Balancing,
         NEW place \in Balancing \cup {IF local[t].tick THEN "unlock" ELSE "balanced"},
         Goto(t, place) \/ (pc' = pc /\ place = pc[t]), Locks(c), task' = task, build' = build,
         local' = local \/ \E b \in CPU : local' = [local EXCEPT ![t].busiest = b]
  PROVE  AInv'
<1>1. /\ t \in Thread /\ local \in [Thread -> Locals] /\ pc \in [Thread -> PCs]
      /\ place \in PCs
  BY Acting DEF PCs, Balancing
<1>2. /\ Alone(t) /\ pc'[t] = place
      /\ \A f \in {"tick", "then", "q", "mask"} : local'[t][f] = local[t][f]
  <2>1. pc' \in [Thread -> PCs] /\ pc'[t] = place /\ \A u \in Thread \ {t} : pc'[u] = pc[u]
    BY <1>1 DEF Goto
  <2>2. CASE local' = local
    BY <1>1, <2>1, <2>2 DEF Alone, SameLocals
  <2>3. ASSUME NEW b \in CPU, local' = [local EXCEPT ![t].busiest = b]
        PROVE  /\ local' \in [Thread -> Locals] /\ \A u \in Thread \ {t} : local'[u] = local[u]
               /\ \A f \in {"tick", "then", "q", "mask"} : local'[t][f] = local[t][f]
    BY <1>1, <2>3 DEF Locals
  <2> QED
    BY <2>1, <2>2, <2>3 DEF Alone, SameLocals
<1>3. /\ local'[t].tick = local[t].tick /\ local'[t].then = local[t].then
      /\ local'[t].q = local[t].q /\ local'[t].mask = local[t].mask
  BY <1>2
<1>4. Affects(t)' <=> Affects(t)
  BY <1>2, <1>3 DEF Affects, Back, InSchedule, Balancing
<1>5. Calm(t)
  BY <1>2, <1>3, <1>4, RoleStays DEF Balancing, Migration
<1> QED
  BY <1>2, <1>5, QuietAffinity

\* Looking around.
LEMMA BalanceAffinity ==
  ASSUME IInv, AInv, NEW c \in CPU, NEW t, Balance(c, t)
  PROVE  AInv'
<1>1. /\ t = on[c] /\ pc[t] = "balance" /\ rq' = rq /\ task' = task /\ build' = build
  BY DEF Balance, At
<1>2. \/ Return(t) /\ local' = local
      \/ Goto(t, "balance_lock") /\ \E b \in CPU : local' = [local EXCEPT ![t].busiest = b]
  BY DEF Balance
<1>3. PICK place \in Balancing \cup {IF local[t].tick THEN "unlock" ELSE "balanced"} :
        Goto(t, place)
  BY <1>2 DEF Return, Balancing
<1> QED
  BY <1>1, <1>2, <1>3, BalancerAffinity DEF Balancing, Locks

\* double_lock_balance.
LEMMA DoubleLockAffinity ==
  ASSUME IInv, AInv, NEW c \in CPU, NEW t, double_lock_balance(c, t)
  PROVE  AInv'
<1>1. PICK b : b = local[t].busiest
  OBVIOUS
<1>2. /\ t = on[c] /\ pc[t] = "balance_lock" /\ LocksOf(c) /\ b \in CPU
      /\ UNCHANGED << task, local, build >>
  BY <1>1, Acting DEF double_lock_balance, At, CpuOK, ThreadOK, ArgsOK, Balancing
<1>3. rq[c].lock = c
  BY <1>2 DEF LocksOf, Held
<1>4. PICK place \in Balancing : Goto(t, place) /\ Locks(c)
  BY <1>1, <1>2, <1>3 DEF double_lock_balance, Lock, Unlocked, Locks, Balancing
<1> QED
  BY <1>2, <1>4, BalancerAffinity DEF Balancing

\* The lock of the busiest queue is taken later.
LEMMA SpinAffinity ==
  ASSUME IInv, AInv, NEW c \in CPU, NEW t, SpinBusiest(c, t) \/ Relock(c, t)
  PROVE  AInv'
<1>1. PICK b : b = local[t].busiest
  OBVIOUS
<1>2. /\ t = on[c] /\ pc[t] \in {"balance_spin", "balance_relock"} /\ b \in CPU
      /\ UNCHANGED << task, local, build >>
  BY <1>1, Acting DEF SpinBusiest, Relock, At, ThreadOK, ArgsOK, Balancing
<1>3. (Goto(t, "pull") \/ pc' = pc) /\ Locks(c)
  BY <1>1, <1>2 DEF SpinBusiest, Relock, Lock, Unlocked, Locks
<1>4. PICK place \in Balancing : Goto(t, place) \/ (pc' = pc /\ place = pc[t])
  BY <1>2, <1>3 DEF Balancing
<1> QED
  BY <1>2, <1>3, <1>4, BalancerAffinity DEF Balancing

\* The timer comes, and its load_balance returns.
LEMMA TickAffinity ==
  ASSUME IInv, AInv, NEW c \in CPU, NEW t, Tick(c, t)
  PROVE  AInv'
<1>1. /\ t = on[c] /\ pc[t] = "user" /\ t \in Thread /\ local[t] \in Locals
      /\ rq' = rq /\ local \in [Thread -> Locals] /\ pc \in [Thread -> PCs]
      /\ task' = task /\ build' = build
      /\ local' = [local EXCEPT ![t] = [@ EXCEPT !.tick = TRUE]]
      /\ pc' = [pc EXCEPT ![t] = "tick"]
  BY Acting DEF Tick, At, Goto
<1>2. PICK l : l = [local[t] EXCEPT !.tick = TRUE]
  OBVIOUS
<1>3. l \in Locals
  BY <1>1, <1>2, Zenon DEF Locals
<1>4. l.q = local[t].q /\ l.mask = local[t].mask
  BY <1>1, <1>2 DEF Locals
<1>5. local' = [local EXCEPT ![t] = l]
  BY <1>1, <1>2
<1>6. Alone(t) /\ pc'[t] = "tick" /\ local'[t] = l
  BY <1>1, <1>3, <1>5 DEF Alone, SameLocals, PCs
<1>7. ~Affects(t) /\ ~Affects(t)'
  BY <1>1, <1>6 DEF Affects, Back, InSchedule, Balancing
<1>8. Calm(t)
  BY <1>1, <1>4, <1>6, <1>7, RoleStays DEF Migration
<1> QED
  BY <1>1, <1>6, <1>8, QuietAffinity DEF Locks

\* The timer takes the lock,
LEMMA TickLockAffinity ==
  ASSUME IInv, AInv, NEW c \in CPU, NEW t, TickLock(c, t)
  PROVE  AInv'
<1>1. /\ t = on[c] /\ pc[t] = "tick" /\ t \in Thread /\ KindOK(t)
      /\ task' = task /\ local' = local /\ build' = build
      /\ rq' = [rq EXCEPT ![c].lock = c] /\ rq[c].lock = NULL /\ Goto(t, "balance")
  BY Acting DEF TickLock, At, Lock, Unlocked, ThreadOK
<1>2. Alone(t) /\ pc'[t] = "balance" /\ local'[t] = local[t]
  BY <1>1, Stays DEF PCs
<1>3. local[t].tick
  BY <1>1 DEF KindOK, Back, InSchedule, Balancing
<1>4. ~Affects(t) /\ ~Affects(t)'
  BY <1>1, <1>2, <1>3 DEF Affects, Back, InSchedule, Balancing
<1>5. Calm(t)
  BY <1>1, <1>2, <1>4, RoleStays DEF Migration
<1> QED
  BY <1>1, <1>2, <1>5, QuietAffinity DEF Locks

\* and drops it.
LEMMA UnlockAffinity ==
  ASSUME IInv, AInv, NEW c \in CPU, NEW t, Unlock(c, t)
  PROVE  AInv'
<1>1. /\ t = on[c] /\ pc[t] = "unlock" /\ ThreadOK(t) /\ CpuOK(c) /\ t \in Thread
      /\ local \in [Thread -> Locals] /\ pc \in [Thread -> PCs]
      /\ task' = task /\ build' = build
      /\ local' = [local EXCEPT ![t] = NoLocal] /\ pc' = [pc EXCEPT ![t] = "user"]
  BY Acting DEF Unlock, At, Goto
<1>2. local[t].q = NULL
  BY <1>1 DEF ThreadOK, KindOK, Back, InSchedule, Balancing, Migration
<1>3. rq[c].lock = c /\ rq' = [rq EXCEPT ![c].lock = NULL]
  BY <1>1, <1>2 DEF CpuOK, LocksOf, Held, Unlock, Lock
<1>4. Alone(t) /\ pc'[t] = "user" /\ local'[t] = NoLocal
  <2>1. NoLocal \in Locals /\ "user" \in PCs
    BY NoLocalFields DEF PCs
  <2> QED
    BY <1>1, <2>1 DEF Alone, SameLocals
<1>5. ~Affects(t)
  BY <1>1 DEF Affects, Back, InSchedule, Balancing
<1>6. Calm(t)
  BY <1>1, <1>4, <1>5, UserCalm DEF Migration
<1> QED
  BY <1>1, <1>3, <1>4, <1>6, QuietAffinity DEF Locks

\* A task gives way.
LEMMA PreemptAffinity ==
  ASSUME IInv, AInv, NEW c \in CPU, NEW t, Preempt(c, t)
  PROVE  AInv'
<1>1. /\ t = on[c] /\ pc[t] = "user" /\ t \in Thread
      /\ local \in [Thread -> Locals] /\ pc \in [Thread -> PCs]
      /\ rq' = rq /\ task' = task /\ build' = build
      /\ local' = [local EXCEPT ![t].then = "user"] /\ pc' = [pc EXCEPT ![t] = "schedule"]
  BY Acting DEF Preempt, At, Goto
<1>2. /\ Alone(t) /\ pc'[t] = "schedule" /\ local'[t].then = "user"
      /\ local'[t].q = local[t].q /\ local'[t].mask = local[t].mask
  BY <1>1 DEF Alone, SameLocals, PCs, Locals
<1>3. ~Affects(t) /\ ~Affects(t)'
  BY <1>1, <1>2 DEF Affects, Back, InSchedule, Balancing
<1>4. Calm(t)
  BY <1>1, <1>2, <1>3, RoleStays DEF Migration
<1> QED
  BY <1>1, <1>2, <1>4, QuietAffinity DEF Locks

\* schedule() takes the lock, and the task off its queue.
LEMMA ScheduleAffinity ==
  ASSUME IInv, AInv, NEW c \in CPU, NEW t, Schedule(c, t)
  PROVE  AInv'
<1>1. /\ t = on[c] /\ pc[t] = "schedule" /\ t \in Thread /\ KindOK(t)
      /\ rq \in [CPU -> RunQueues] /\ task \in [Thread -> TaskStructs] /\ task[t].cpu = c
      /\ local' = local /\ build' = build
  BY Acting DEF Schedule, At, ThreadOK
<1>2. PICK place \in {"balance", "pick"} : Goto(t, place)
  BY DEF Schedule
<1>3. Alone(t) /\ pc'[t] = place /\ local'[t] = local[t]
  <2>1. place \in PCs
    BY DEF PCs
  <2> QED
    BY <1>1, <1>2, <2>1, Stays
<1>4. ~local[t].tick
  BY <1>1 DEF KindOK, Balancing
<1>5. Affects(t)' <=> Affects(t)
  BY <1>1, <1>3, <1>4 DEF Affects, Back, InSchedule, Balancing
<1>6. Calm(t)
  BY <1>1, <1>3, <1>5, RoleStays DEF Migration
<1>7. /\ \A d \in CPU : rq'[d].migration_queue = rq[d].migration_queue
      /\ Placing
  <2>1. CASE task[t].state = "RUNNING"
    <3>1. task' = task /\ rq' = [rq EXCEPT ![c].lock = c]
      BY <2>1 DEF Schedule
    <3> QED
      BY <1>1, <3>1 DEF RunQueues, Placing
  <2>2. CASE task[t].state # "RUNNING"
    <3>1. /\ task' = [task EXCEPT ![t].array = NULL]
          /\ rq' = [[rq EXCEPT ![c].nr_running = @ - 1] EXCEPT ![c].lock = c]
      BY <1>1, <2>2 DEF Schedule, deactivate_task
    <3>2. \A d \in CPU : rq'[d].migration_queue = rq[d].migration_queue
      BY <1>1, <3>1 DEF RunQueues
    <3> QED
      BY <1>1, <3>1, <3>2, Constants DEF TaskStructs, Placing
  <2> QED
    BY <2>1, <2>2
<1> QED
  BY <1>1, <1>3, <1>6, <1>7, CalmStep DEF Alone, Calm

\* The task that is chosen.
LEMMA SwitchAffinity ==
  ASSUME IInv, AInv, NEW c \in CPU, NEW t, t = on[c], pc[t] \in {"pick", "balanced"},
         NEW next, SwitchTo(c, t, next)
  PROVE  AInv'
<1>1. /\ t \in Thread /\ KindOK(t) /\ rq \in [CPU -> RunQueues]
      /\ task \in [Thread -> TaskStructs] /\ pc \in [Thread -> PCs]
      /\ local \in [Thread -> Locals] /\ build' = build
      /\ task' = [task EXCEPT ![t].need_resched = FALSE]
  BY Acting DEF ThreadOK, SwitchTo
<1>2. /\ pc'[t] \in {local[t].then, "switch"} /\ local'[t].then = IF pc'[t] = "switch"
                                                   THEN local[t].then ELSE "none"
      /\ local'[t].q = local[t].q /\ local'[t].mask = local[t].mask
      /\ \A u \in Thread \ {t} : SameLocals(u)
      /\ \A d \in CPU : rq'[d].migration_queue = rq[d].migration_queue
      /\ local[t].then \in Resume
  <2>1. local[t].then \in Resume
    BY <1>1 DEF KindOK, InSchedule
  <2>2. CASE /\ rq' = [rq EXCEPT ![c].lock = NULL]
             /\ Goto(t, local[t].then) /\ local' = [local EXCEPT ![t].then = "none"]
    BY <1>1, <2>1, <2>2 DEF Goto, SameLocals, PCs, Locals, RunQueues, Resume
  <2>3. CASE /\ rq' = [rq EXCEPT ![c].curr = next]
             /\ Goto(t, "switch") /\ local' = local
    BY <1>1, <2>1, <2>3 DEF Goto, SameLocals, PCs, RunQueues
  <2> QED
    BY <2>2, <2>3 DEF SwitchTo
<1>3. Affects(t)' <=> Affects(t)
  BY <1>1, <1>2 DEF Affects, Back, InSchedule, Balancing, Resume
<1>4. Calm(t)
  BY <1>1, <1>2, <1>3, RoleStays DEF Migration, Resume
<1>5. Placing
  BY <1>1, Constants DEF TaskStructs, Placing
<1> QED
  BY <1>1, <1>2, <1>4, <1>5, CalmStep DEF Calm

\* schedule() goes on, to a task of the queue or to the idle task.
LEMMA PickAffinity ==
  ASSUME IInv, AInv, NEW c \in CPU, NEW t, Pick(c, t) \/ PickIdle(c, t)
  PROVE  AInv'
<1>1. t = on[c] /\ pc[t] \in {"pick", "balanced"}
  BY DEF Pick, PickIdle, At
<1>2. CASE \E next : SwitchTo(c, t, next)
  BY <1>1, <1>2, SwitchAffinity
<1>3. CASE /\ pc[t] = "balanced" /\ Goto(t, "pick")
           /\ UNCHANGED << rq, task, on, local, ops, build >>
  <2>1. t \in Thread
    BY <1>1, Acting
  <2>2. Alone(t) /\ pc'[t] = "pick" /\ local'[t] = local[t]
    BY <1>3, <2>1, Stays DEF PCs
  <2>3. Affects(t)' <=> Affects(t)
    BY <1>3, <2>2 DEF Affects, Back, InSchedule, Balancing
  <2>4. Calm(t)
    BY <1>1, <2>2, <2>3, RoleStays DEF Migration
  <2> QED
    BY <1>1, <1>3, <2>2, <2>4, QuietAffinity DEF Locks
<1> QED
  BY <1>1, <1>2, <1>3 DEF Pick, PickIdle, At

\* The stack is switched.
LEMMA ContextSwitchAffinity ==
  ASSUME IInv, AInv, NEW c \in CPU, NEW t, ContextSwitch(c, t)
  PROVE  AInv'
<1>1. /\ t = on[c] /\ pc[t] = "switch" /\ t \in Thread /\ KindOK(t) /\ LocksOf(c)
      /\ rq \in [CPU -> RunQueues] /\ pc \in [Thread -> PCs]
      /\ local \in [Thread -> Locals] /\ build' = build /\ task' = task
      /\ rq' = [rq EXCEPT ![c].lock = NULL] /\ Goto(t, local[t].then)
      /\ local' = [local EXCEPT ![t].then = "none"]
  BY Acting DEF ContextSwitch, At, ThreadOK, CpuOK
<1>2. /\ pc'[t] = local[t].then /\ local'[t].then = "none" /\ Alone(t)
      /\ local'[t].q = local[t].q /\ local'[t].mask = local[t].mask
      /\ local[t].then \in Resume
  <2>1. local[t].then \in Resume
    BY <1>1 DEF KindOK, InSchedule
  <2> QED
    BY <1>1, <2>1 DEF Goto, Alone, SameLocals, PCs, Locals, Resume
<1>3. Affects(t)' <=> Affects(t)
  BY <1>1, <1>2 DEF Affects, Back, InSchedule, Balancing, Resume
<1>4. Calm(t)
  BY <1>1, <1>2, <1>3, RoleStays DEF Migration, Resume
<1>5. rq[c].lock = c
  BY <1>1 DEF LocksOf, Held
<1> QED
  BY <1>1, <1>2, <1>4, <1>5, QuietAffinity DEF Locks

\* A task is pulled only to where it may run.
LEMMA PullAffinity ==
  ASSUME IInv, AInv, NEW c \in CPU, NEW t, Pull(c, t)
  PROVE  AInv'
<1>1. /\ t = on[c] /\ pc[t] = "pull" /\ t \in Thread /\ rq \in [CPU -> RunQueues]
      /\ task \in [Thread -> TaskStructs] /\ pc \in [Thread -> PCs]
      /\ local \in [Thread -> Locals] /\ build' = build
  BY Acting DEF Pull, At
<1>2. PICK b : b = local[t].busiest
  OBVIOUS
<1>3. PICK place : place = IF local[t].tick THEN "unlock" ELSE "balanced"
  OBVIOUS
<1>4. /\ Alone(t) /\ pc'[t] = place
      /\ \A f \in {"tick", "then", "q", "mask"} : local'[t][f] = local[t][f]
  <2>1. /\ pc' = [pc EXCEPT ![t] = place] /\ place \in PCs
        /\ local' = [local EXCEPT ![t].busiest = NULL]
    BY <1>3 DEF Pull, Return, Goto, PCs
  <2> QED
    BY <1>1, <2>1 DEF Alone, SameLocals, Locals
<1>5. /\ local'[t].tick = local[t].tick /\ local'[t].then = local[t].then
      /\ local'[t].q = local[t].q /\ local'[t].mask = local[t].mask
  BY <1>4
<1>6. Affects(t)' <=> Affects(t)
  BY <1>1, <1>3, <1>4, <1>5 DEF Affects, Back, InSchedule, Balancing
<1>7. Calm(t)
  BY <1>1, <1>3, <1>4, <1>5, <1>6, RoleStays DEF Migration
<1>8. CASE rq' = [rq EXCEPT ![b].lock = NULL] /\ task' = task
  <2>1. \A d \in CPU : rq'[d].migration_queue = rq[d].migration_queue
    BY <1>1, <1>8 DEF RunQueues
  <2> QED
    BY <1>1, <1>4, <1>7, <1>8, <2>1, CalmStep DEF Alone, Calm, Placing
<1>9. ASSUME NEW p \in CanMigrate(b, c),
             task' = resched_task([task EXCEPT ![p].cpu = c, ![p].array = c], t),
             rq' = [[rq EXCEPT ![b].lock = NULL] EXCEPT ![b].nr_running = @ - 1,
                                                        ![c].nr_running = @ + 1]
      PROVE  AInv'
  <2>1. p \in Thread /\ c \in task[p].cpus_allowed
    BY <1>9 DEF CanMigrate, Queued
  <2>2. \A d \in CPU : rq'[d].migration_queue = rq[d].migration_queue
    BY <1>1, <1>9 DEF RunQueues
  <2>3. PICK T : T = [task EXCEPT ![p].cpu = c, ![p].array = c]
    OBVIOUS
  <2>4. /\ T \in [Thread -> TaskStructs] /\ T[p].cpu = c
        /\ T[p].state = task[p].state /\ T[p].cpus_allowed = task[p].cpus_allowed
        /\ \A u \in Thread \ {p} : T[u] = task[u]
    <3>1. PICK k : k = [task[p] EXCEPT !.cpu = c, !.array = c]
      OBVIOUS
    <3>2. task[p] \in TaskStructs
      BY <1>1, <2>1
    <3>3. /\ k \in TaskStructs /\ k.cpu = c /\ k.state = task[p].state
          /\ k.cpus_allowed = task[p].cpus_allowed
      BY <3>1, <3>2 DEF TaskStructs
    <3>4. T = [task EXCEPT ![p] = k]
      BY <1>1, <2>1, <2>3, <3>1
    <3> QED
      BY <1>1, <2>1, <3>3, <3>4
  <2>5. \A u \in Thread : /\ task'[u].cpu = T[u].cpu /\ task'[u].state = T[u].state
                          /\ task'[u].cpus_allowed = T[u].cpus_allowed
    <3>1. PICK v : v = t
      OBVIOUS
    <3>2. task' = resched_task(T, v)
      BY <1>9, <2>3, <3>1
    <3> QED
      BY <2>4, <3>2, ReschedSame
  <2>6. Placing
    BY <2>1, <2>4, <2>5, Constants DEF Placing, Placed
  <2> QED
    BY <1>1, <1>4, <1>7, <2>2, <2>6, CalmStep DEF Alone, Calm
<1> QED
  BY <1>2, <1>8, <1>9 DEF Pull

-----------------------------------------------------------------------------
(* Wake-ups, fork and release_task *)

\* try_to_wake_up moves a task only to where it may run.
LEMMA TryToWakeAffinity ==
  ASSUME IInv, AInv, NEW c \in CPU, NEW t, try_to_wake_up(c, t)
  PROVE  AInv'
<1>1. PICK p, old : p = local[t].w /\ old = task[p].cpu
  OBVIOUS
<1>2. t = on[c] /\ pc[t] = "wake" /\ build' = build
  BY DEF try_to_wake_up, At
<1>3. /\ t \in Thread /\ rq \in [CPU -> RunQueues] /\ task \in [Thread -> TaskStructs]
      /\ pc \in [Thread -> PCs] /\ local \in [Thread -> Locals]
      /\ local[t].then \in {"user", "down", "migrate"} /\ Back(t) = local[t].then
      /\ p \in Thread /\ task[p].state \notin Dead /\ old \in CPU
  BY <1>1, <1>2, Waking DEF TaskStructs
<1>4. CASE task[p].array = NULL /\ FastMigrates(c, p, local[t].sync)
  <2>1. task' = [task EXCEPT ![p].cpu = c] /\ UNCHANGED << rq, pc, local >>
    BY <1>1, <1>4 DEF try_to_wake_up
  <2>2. c \in task[p].cpus_allowed
    BY <1>4 DEF FastMigrates
  <2>3. Placing
    BY <1>3, <2>1, <2>2, Constants DEF TaskStructs, Placing, Placed
  <2> QED
    BY <1>2, <2>1, <2>3, CalmStep DEF Calm, SameLocals
<1>5. ASSUME ~(task[p].array = NULL /\ FastMigrates(c, p, local[t].sync)) PROVE AInv'
  <2>1. /\ Goto(t, local[t].then)
        /\ local' = [local EXCEPT ![t].w = NULL, ![t].sync = FALSE, ![t].then = "none"]
    BY <1>1, <1>5 DEF try_to_wake_up
  <2>2. PICK l : l = [local[t] EXCEPT !.w = NULL, !.sync = FALSE, !.then = "none"]
    OBVIOUS
  <2>3. l.q = local[t].q /\ l.mask = local[t].mask
    <3>1. local[t] \in Locals
      BY <1>3
    <3> QED
      BY <2>2, <3>1 DEF Locals
  <2>4. local' = [local EXCEPT ![t] = l]
    BY <1>3, <2>1, <2>2, ZenonT(30)
  <2>5. /\ local'[t] = l /\ pc'[t] = local[t].then
        /\ \A u \in Thread \ {t} : SameLocals(u)
    BY <1>3, <2>1, <2>4 DEF Goto, SameLocals
  <2>6. Affects(t)' <=> Affects(t)
    BY <1>2, <1>3, <2>5 DEF Affects, Back, InSchedule, Balancing
  <2>7. Calm(t)
    BY <1>2, <1>3, <2>3, <2>5, <2>6, RoleStays DEF Migration
  <2>8. PICK awake : awake = [task EXCEPT ![p].state = "RUNNING"]
    OBVIOUS
  <2>9. /\ awake \in [Thread -> TaskStructs] /\ \A u \in Thread \ {p} : awake[u] = task[u]
        /\ awake[p].cpu = old /\ awake[p].cpus_allowed = task[p].cpus_allowed
    <3>1. PICK k : k = [task[p] EXCEPT !.state = "RUNNING"]
      OBVIOUS
    <3>2. k \in TaskStructs /\ k.cpu = old /\ k.cpus_allowed = task[p].cpus_allowed
      <4>1. task[p] \in TaskStructs
        BY <1>3
      <4> QED
        BY <1>1, <3>1, <4>1 DEF TaskStructs
    <3>3. awake = [task EXCEPT ![p] = k]
      BY <2>8, <3>1
    <3> QED
      BY <1>3, <3>2, <3>3
  <2>10. /\ \A u \in Thread : /\ task'[u].cpu = task[u].cpu
                              /\ task'[u].cpus_allowed = task[u].cpus_allowed
         /\ \A u \in Thread \ {p} : task'[u].state = task[u].state
         /\ \A d \in CPU : rq'[d].migration_queue = rq[d].migration_queue
    <3>1. CASE task[p].array # NULL
      <4>1. task' = awake /\ rq' = rq
        BY <1>1, <1>5, <2>8, <3>1 DEF try_to_wake_up
      <4> QED
        BY <1>1, <2>9, <4>1
    <3>2. CASE task[p].array = NULL
      <4>1. PICK A, R, v : A = activate_task(awake, rq, p) /\ R = rq /\ v = rq[old].curr
        OBVIOUS
      <4>2. task' = resched_task(A[1], v) /\ rq' = A[2]
        BY <1>1, <1>5, <2>8, <3>2, <4>1 DEF try_to_wake_up
      <4>3. /\ A[1] \in [Thread -> TaskStructs] /\ \A u \in Thread \ {p} : A[1][u] = awake[u]
            /\ A[1][p].cpu = old /\ A[1][p].cpus_allowed = awake[p].cpus_allowed
            /\ \A e \in CPU : A[2][e].migration_queue = R[e].migration_queue
        <5>1. A = activate_task(awake, R, p) /\ R \in [CPU -> RunQueues] /\ awake[p].cpu = old
          BY <1>3, <2>9, <4>1
        <5>2. /\ A[1] \in [Thread -> TaskStructs] /\ \A u \in Thread \ {p} : A[1][u] = awake[u]
              /\ A[1][p].cpu = old /\ A[1][p].cpus_allowed = awake[p].cpus_allowed
              /\ \A e \in CPU : A[2][e].migration_queue = R[e].migration_queue
          BY <1>3, <2>9, <5>1, ActivateEffect
        <5> QED
          BY <5>2
      <4>4. PICK T : T = A[1]
        OBVIOUS
      <4>5. \A u \in Thread : /\ task'[u].cpu = T[u].cpu /\ task'[u].state = T[u].state
                              /\ task'[u].cpus_allowed = T[u].cpus_allowed
        BY <4>2, <4>3, <4>4, ReschedSame
      <4>6. ASSUME NEW u \in Thread \ {p} PROVE T[u] = task[u]
        BY <2>9, <4>3, <4>4
      <4>7. \A d \in CPU : rq'[d].migration_queue = rq[d].migration_queue
        BY <4>1, <4>2, <4>3
      <4>8. T[p].cpu = task[p].cpu /\ T[p].cpus_allowed = task[p].cpus_allowed
        BY <1>1, <2>9, <4>3, <4>4
      <4> QED
        BY <4>5, <4>6, <4>7, <4>8
    <3> QED
      BY <3>1, <3>2
  <2>11. Placing
    BY <1>3, <2>10, Constants DEF Placing, Dead
  <2> QED
    BY <1>2, <2>5, <2>7, <2>10, <2>11, CalmStep DEF Calm
<1> QED
  BY <1>4, <1>5

\* A new process starts beside its parent, where it may run.
LEMMA ForkedAffinity ==
  ASSUME IInv, AInv, NEW c \in CPU, NEW t, wake_up_forked_process(c, t)
  PROVE  AInv'
<1>1. PICK p, T : p = local[t].q /\ T = [task EXCEPT ![p].cpu = c, ![p].state = "RUNNING"]
  OBVIOUS
<1>2. PICK A, R : A = activate_task(T, rq, p) /\ R = rq
  OBVIOUS
<1>3. /\ t = on[c] /\ pc[t] = "fork" /\ task' = A[1] /\ rq' = A[2]
      /\ local' = [local EXCEPT ![t] = NoLocal, ![p] = NoLocal]
      /\ pc' = [pc EXCEPT ![t] = "user", ![p] = "user"] /\ build' = build
  BY <1>1, <1>2 DEF wake_up_forked_process, At
<1>4. /\ t \in Thread /\ ThreadOK(t) /\ rq \in [CPU -> RunQueues]
      /\ task \in [Thread -> TaskStructs] /\ pc \in [Thread -> PCs]
      /\ local \in [Thread -> Locals]
  BY <1>3, Acting
<1>5. p \in Task /\ p \in Thread /\ task[p].state = "FREE"
  BY <1>1, <1>3, <1>4, Constants DEF ThreadOK, ArgsOK
<1>6. pc[p] = "none"
  BY <1>5, FreeGone
<1>7. task[p].cpus_allowed = CPU
  BY <1>3, <1>4, <1>5 DEF AInv, Affecting, AllAllowed
<1>8. /\ T \in [Thread -> TaskStructs] /\ \A u \in Thread \ {p} : T[u] = task[u]
      /\ T[p].cpu = c /\ T[p].cpus_allowed = CPU
  <2>1. PICK k : k = [task[p] EXCEPT !.cpu = c, !.state = "RUNNING"]
    OBVIOUS
  <2>2. k \in TaskStructs /\ k.cpu = c /\ k.cpus_allowed = CPU
    <3>1. task[p] \in TaskStructs
      BY <1>4, <1>5
    <3> QED
      BY <1>7, <2>1, <3>1 DEF TaskStructs
  <2>3. T = [task EXCEPT ![p] = k]
    BY <1>1, <1>4, <1>5, <2>1
  <2> QED
    BY <1>4, <1>5, <2>2, <2>3
<1>9. /\ \A u \in Thread \ {p} : task'[u] = task[u]
      /\ task'[p].cpu = c /\ task'[p].cpus_allowed = CPU
      /\ \A e \in CPU : rq'[e].migration_queue = rq[e].migration_queue
  <2>1. /\ \A u \in Thread \ {p} : A[1][u] = T[u]
        /\ A[1][p].cpu = c /\ A[1][p].cpus_allowed = T[p].cpus_allowed
        /\ \A e \in CPU : A[2][e].migration_queue = R[e].migration_queue
    BY <1>2, <1>4, <1>5, <1>8, ActivateEffect
  <2> QED
    BY <1>2, <1>3, <1>8, <2>1
<1>10. Placing
  BY <1>5, <1>7, <1>9, Constants DEF Placing, Placed
<1>11. /\ pc'[t] = "user" /\ local'[t] = NoLocal /\ pc'[p] = "user" /\ local'[p] = NoLocal
       /\ \A u \in Thread \ {t, p} : SameLocals(u)
  BY <1>3, <1>4, <1>5 DEF SameLocals
<1>12. Calm(t) /\ Calm(p)
  <2>1. ~Affects(t) /\ ~Affects(p)
    BY <1>3, <1>6 DEF Affects, Back, InSchedule, Balancing
  <2> QED
    BY <1>3, <1>6, <1>11, <2>1, UserCalm DEF Migration
<1> QED
  BY <1>3, <1>9, <1>10, <1>11, <1>12, CalmStep DEF Calm

\* wait_task_inactive.
LEMMA InactiveAffinity ==
  ASSUME IInv, AInv, NEW c \in CPU, NEW t, wait_task_inactive(c, t)
  PROVE  AInv'
<1>1. /\ t = on[c] /\ pc[t] \in {"inactive", "inactive_lock"} /\ rq' = rq /\ build' = build
  BY DEF wait_task_inactive, At
<1>2. /\ t \in Thread /\ task \in [Thread -> TaskStructs] /\ pc \in [Thread -> PCs]
      /\ local \in [Thread -> Locals]
  BY <1>1, Acting
<1>3. ~Affects(t)
  BY <1>1 DEF Affects, Back, InSchedule, Balancing
<1>4. CASE /\ task' = task /\ local' = local
           /\ \E place \in {"inactive", "inactive_lock"} : Goto(t, place)
  <2>1. PICK place \in {"inactive", "inactive_lock"} : Goto(t, place)
    BY <1>4
  <2>2. Alone(t) /\ pc'[t] = place /\ local'[t] = local[t]
    <3>1. place \in PCs
      BY DEF PCs
    <3> QED
      BY <1>2, <1>4, <2>1, <3>1, Stays
  <2>3. ~Affects(t)'
    BY <2>2 DEF Affects, Back, InSchedule, Balancing
  <2>4. Calm(t)
    BY <1>1, <1>3, <2>2, <2>3, RoleStays DEF Migration
  <2> QED
    BY <1>1, <1>4, <2>2, <2>4, QuietAffinity DEF Locks
<1>5. ASSUME NEW q \in Thread, task' = [task EXCEPT ![q].state = "FREE"],
             local' = [local EXCEPT ![t] = NoLocal], Goto(t, "user")
      PROVE  AInv'
  <2>1. pc'[t] = "user" /\ local'[t] = NoLocal /\ \A u \in Thread \ {t} : SameLocals(u)
    BY <1>2, <1>5 DEF Goto, SameLocals
  <2>2. Calm(t)
    BY <1>1, <1>3, <2>1, UserCalm DEF Migration
  <2>3. Placing
    BY <1>2, <1>5, Constants DEF TaskStructs, Placing
  <2> QED
    BY <1>1, <2>1, <2>2, <2>3, CalmStep DEF Calm
<1>6. local[t].q \in Thread
  BY <1>1, Acting, Constants DEF ThreadOK, ArgsOK
<1> QED
  BY <1>1, <1>4, <1>5, <1>6 DEF wait_task_inactive

-----------------------------------------------------------------------------
(* down, and the migration threads *)

\* The state is set, before the semaphore is looked at.
LEMMA DownAffinity ==
  ASSUME IInv, AInv, NEW c \in CPU, NEW t, Down(c, t)
  PROVE  AInv'
<1>1. /\ t = on[c] /\ pc[t] = "down" /\ Goto(t, "down_check")
      /\ task' = [task EXCEPT ![t].state = "SLEEPING"]
      /\ rq' = rq /\ local' = local /\ build' = build
  BY DEF Down, At
<1>2. t \in Thread /\ task[t].state \notin Dead /\ task \in [Thread -> TaskStructs]
  BY <1>1, InDown
<1>3. Alone(t) /\ pc'[t] = "down_check" /\ local'[t] = local[t]
  BY <1>1, <1>2, Stays DEF PCs
<1>4. Affects(t) /\ Affects(t)'
  BY <1>1, <1>3 DEF Affects, Back, InSchedule, Balancing
<1>5. Calm(t)
  BY <1>1, <1>3, <1>4, RoleStays DEF Migration
<1>6. Placing
  BY <1>1, <1>2, Constants DEF TaskStructs, Placing, Dead
<1> QED
  BY <1>1, <1>3, <1>5, <1>6, CalmStep DEF Alone, Calm

\* set_cpus_allowed returns when its request has been seen to.
LEMMA DownCheckAffinity ==
  ASSUME IInv, AInv, NEW c \in CPU, NEW t, DownCheck(c, t)
  PROVE  AInv'
<1>1. t = on[c] /\ pc[t] = "down_check" /\ rq' = rq /\ build' = build
  BY DEF DownCheck, At
<1>2. /\ t \in Thread /\ t \in Task /\ t \notin Migrators /\ task[t].state \notin Dead
      /\ task \in [Thread -> TaskStructs] /\ local \in [Thread -> Locals]
      /\ pc \in [Thread -> PCs]
  BY <1>1, InDown
<1>3. Affects(t)
  BY <1>1 DEF Affects, Back, InSchedule, Balancing
<1>4. CASE ~local[t].done /\ task' = task /\ local' = [local EXCEPT ![t].then = "down"]
           /\ Goto(t, "schedule")
  <2>1. /\ Alone(t) /\ pc'[t] = "schedule" /\ local'[t].then = "down"
        /\ local'[t].q = local[t].q /\ local'[t].mask = local[t].mask
    BY <1>2, <1>4 DEF Goto, Alone, SameLocals, PCs, Locals
  <2>2. Affects(t)'
    BY <2>1 DEF Affects, Back, InSchedule
  <2>3. Calm(t)
    BY <1>1, <1>3, <2>1, <2>2, RoleStays DEF Migration
  <2> QED
    BY <1>1, <1>4, <2>1, <2>3, QuietAffinity DEF Locks
<1>5. CASE local[t].done /\ task' = [task EXCEPT ![t].state = "RUNNING"]
           /\ local' = [local EXCEPT ![t] = NoLocal] /\ Goto(t, "user")
  <2>1. pc'[t] = "user" /\ local'[t] = NoLocal /\ \A u \in Thread \ {t} : SameLocals(u)
    BY <1>2, <1>5 DEF Goto, SameLocals
  <2>2. ~Affects(t)'
    BY <2>1 DEF Affects, Back, InSchedule, Balancing
  <2>3. \A u \in Thread : SameRole(u)
    BY <2>1, <2>2, NoLocalFields DEF SameRole
  <2>4. ~Waiting(t)
    BY <1>5 DEF Waiting
  <2>5. /\ \A p \in Task : /\ task'[p].cpus_allowed = task[p].cpus_allowed
                           /\ task'[p].cpu = task[p].cpu
                           /\ task'[p].state # "FREE" => task[p].state # "FREE"
    BY <1>2, <1>5, Constants DEF TaskStructs, Dead
  <2>6. ASSUME NEW u \in Thread, NEW p \in Task, Affects(u), ~Affects(u)', local[u].q = p
        PROVE  Placed(p)'
    <3>1. u = t
      BY <2>1, <2>6, AffectsKept
    <3>2. PICK d \in CPU : d = task[p].cpu
      BY <1>2, Constants DEF TaskStructs
    <3>3. ~Pending(t, d)
      BY <1>2, <2>4, PendingOnce
    <3>4. Placed(p)
      BY <1>1, <1>2, <1>3, <2>6, <3>1, <3>2, <3>3 DEF AInv, Settled
    <3> QED
      BY <2>5, <3>4 DEF Placed
  <2>7. \A d \in CPU : SameLocals(migration[d])
    BY <1>2, <2>1, Constants
  <2>8. \A u \in Thread, d \in CPU : Pending(u, d) => Pending(u, d)'
    BY <1>1, <2>7 DEF Pending, SameLocals
  <2>9. \A u \in Thread : Affects(u)' /\ pc'[u] # "affinity" => pc[u] # "affinity"
    BY <2>1, <2>2 DEF SameLocals
  <2>10. \A u \in Thread : Waiting(u) => local'[u].q = local[u].q
    BY <2>1, <2>4 DEF SameLocals
  <2> QED
    BY <1>1, <2>3, <2>5, <2>6, <2>7, <2>8, <2>9, <2>10, AffinityFrame
<1> QED
  BY <1>4, <1>5 DEF DownCheck

\* A migration thread takes a request, or sleeps.
LEMMA MigrationThreadAffinity ==
  ASSUME IInv, AInv, NEW c \in CPU, NEW t, migration_thread(c, t)
  PROVE  AInv'
<1>1. /\ t = on[c] /\ pc[t] = "migrate" /\ t \in Thread /\ ThreadOK(t)
      /\ rq \in [CPU -> RunQueues] /\ local \in [Thread -> Locals] /\ pc \in [Thread -> PCs]
      /\ task \in [Thread -> TaskStructs] /\ build' = build /\ task[t].cpu = c
      /\ task' = [task EXCEPT ![t].state = "SLEEPING"]
  BY Acting DEF migration_thread, At
<1>2. t = migration[c] /\ t \in Migrators /\ t \notin Task
  BY <1>1, Constants DEF ThreadOK, KindOK, Balancing, InSchedule, Migration, TaskInv
<1>3. ~Affects(t) /\ local[t].mask = {}
  BY <1>1 DEF AInv, Affecting, Affects, Back, InSchedule, Balancing
<1>4. \A p \in Task : task'[p] = task[p]
  BY <1>1, <1>2, Constants
<1>5. CASE rq' = rq /\ local' = [local EXCEPT ![t].then = "migrate"] /\ Goto(t, "schedule")
  <2>1. /\ Alone(t) /\ pc'[t] = "schedule" /\ local'[t].then = "migrate"
        /\ local'[t].q = local[t].q /\ local'[t].mask = local[t].mask
    BY <1>1, <1>5 DEF Goto, Alone, SameLocals, PCs, Locals
  <2>2. ~Affects(t)'
    BY <2>1 DEF Affects, Back, InSchedule
  <2>3. Calm(t)
    BY <1>1, <1>3, <2>1, <2>2, RoleStays DEF Migration
  <2> QED
    BY <1>1, <1>4, <1>5, <2>1, <2>3, CalmStep DEF Alone, Calm, Placing
<1>6. ASSUME rq[c].migration_queue # << >>,
             rq' = [rq EXCEPT ![c].migration_queue = Tail(@)],
             local' = [local EXCEPT ![t].q = Head(rq[c].migration_queue)],
             Goto(t, "migrate_dest")
      PROVE  AInv'
  <2>1. PICK Q : Q = rq[c].migration_queue
    OBVIOUS
  <2>2. Q \in Seq(Task) /\ Q # << >>
    BY <1>1, <1>6, <2>1 DEF RunQueues
  <2>3. PICK r, S : r = Head(Q) /\ S = Tail(Q)
    OBVIOUS
  <2>4. /\ r \in Task /\ S \in Seq(Task) /\ r = Q[1]
        /\ \A i \in DOMAIN Q : i = 1 \/ (i - 1 \in DOMAIN S /\ S[i - 1] = Q[i])
    BY <2>2, <2>3
  <2>5. local' = [local EXCEPT ![t].q = r] /\ rq' = [rq EXCEPT ![c].migration_queue = S]
    BY <1>6, <2>1, <2>3
  <2>6. /\ pc'[t] = "migrate_dest" /\ local'[t].q = r /\ local'[t].mask = {}
        /\ \A u \in Thread \ {t} : SameLocals(u)
    BY <1>1, <1>3, <1>6, <2>4, <2>5 DEF Goto, SameLocals, Locals
  <2>7. ~Affects(t)'
    BY <2>6 DEF Affects, Back, InSchedule, Balancing
  <2>8. \A u \in Thread : SameRole(u)
    BY <2>6, <2>7 DEF SameRole
  <2>9. \A d \in CPU : rq'[d].migration_queue = IF d = c THEN S ELSE rq[d].migration_queue
    BY <1>1, <2>4, <2>5 DEF RunQueues
  <2>10. ASSUME NEW u \in Thread, NEW d \in CPU, Pending(u, d) PROVE Pending(u, d)'
    <3>1. CASE d # c
      <4>1. SameLocals(migration[d])
        BY <1>2, <2>6, <3>1, Constants
      <4> QED
        BY <2>9, <2>10, <3>1, <4>1 DEF Pending, SameLocals
    <3>2. CASE d = c
      <4>1. PICK i \in DOMAIN Q : Q[i] = u
        BY <1>1, <1>2, <2>1, <2>10, <3>2 DEF Pending, Migration
      <4>2. CASE i = 1
        BY <1>2, <2>4, <2>6, <3>2, <4>1, <4>2 DEF Pending, Migration
      <4>3. CASE i # 1
        <5>1. i - 1 \in DOMAIN S /\ S[i - 1] = u
          BY <2>4, <4>1, <4>3
        <5> QED
          BY <2>9, <3>2, <5>1 DEF Pending
      <4> QED
        BY <4>2, <4>3
    <3> QED
      BY <3>1, <3>2
  <2>11. \A e \in CPU : SameLocals(migration[e]) \/ DestOK(e)'
    <3> TAKE e \in CPU
    <3>1. CASE e = c
      BY <1>2, <2>6, <3>1 DEF DestOK, DestPlaces
    <3>2. CASE e # c
      BY <1>2, <2>6, <3>2, Constants
    <3> QED
      BY <3>1, <3>2
  <2>12. \A u \in Thread : Affects(u) => SameLocals(u)
    BY <1>3, <2>6
  <2>13. \A u \in Thread : Waiting(u) => local'[u].q = local[u].q
    BY <2>12, WaitingAffects DEF SameLocals
  <2>14. \A u \in Thread : Affects(u) => Affects(u)'
    BY <2>12, AffectsKept
  <2>15. \A u \in Thread : Affects(u)' /\ pc'[u] # "affinity" => pc[u] # "affinity"
    BY <2>6, <2>7 DEF SameLocals
  <2> QED
    BY <1>1, <1>4, <2>8, <2>10, <2>11, <2>13, <2>14, <2>15, AffinityFrame
<1>7. \/ rq' = rq /\ local' = [local EXCEPT ![t].then = "migrate"] /\ Goto(t, "schedule")
      \/ /\ rq[c].migration_queue # << >> /\ rq' = [rq EXCEPT ![c].migration_queue = Tail(@)]
         /\ local' = [local EXCEPT ![t].q = Head(rq[c].migration_queue)]
         /\ Goto(t, "migrate_dest")
  BY DEF migration_thread
<1> QED
  BY <1>5, <1>6, <1>7

\* A migration thread goes on with its request; when it has seen to it, the task is placed.
LEMMA MigratorMoves ==
  ASSUME IInv, AInv, build' = build, NEW c \in CPU, NEW t, t = on[c],
         pc[t] \in Migration \ {"migrate_up"}, pc'[t] \in Migration,
         \A u \in Thread \ {t} : SameLocals(u),
         local'[t].q = local[t].q, local'[t].mask = local[t].mask,
         \A d \in CPU : rq'[d].migration_queue = rq[d].migration_queue, Placing, DestOK(c)',
         \A p : pc'[t] = "migrate_up" /\ p = ReqTask(t) => Placed(p)'
  PROVE  AInv'
<1>1. t \in Thread /\ t = migration[c] /\ t \in Migrators /\ t \notin Task
  BY Requested, Constants
<1>2. ~Affects(t) /\ ~Affects(t)'
  BY DEF Affects, Back, InSchedule, Balancing, Migration
<1>3. \A u \in Thread : SameRole(u)
  BY <1>2 DEF SameRole, Migration
<1>4. \A e \in CPU : SameLocals(migration[e]) \/ DestOK(e)'
  BY <1>1, Constants
<1>5. ASSUME NEW u \in Thread, NEW p \in Task, NEW d \in CPU, Pending(u, d), local[u].q = p
      PROVE  Pending(u, d)' \/ Placed(p)'
  <2>1. CASE \E i \in DOMAIN rq[d].migration_queue : rq[d].migration_queue[i] = u
    BY <2>1 DEF Pending
  <2>2. CASE pc[migration[d]] \in Migration \ {"migrate_up"} /\ local[migration[d]].q = u
    <3>1. CASE d = c
      BY <1>1, <1>5, <2>2, <3>1 DEF Pending, ReqTask
    <3>2. CASE d # c
      <4>1. SameLocals(migration[d])
        BY <1>1, <3>2, Constants
      <4> QED
        BY <2>2, <4>1 DEF Pending, SameLocals
    <3> QED
      BY <3>1, <3>2
  <2> QED
    BY <1>5, <2>1, <2>2 DEF Pending
<1>6. \A u \in Thread : Affects(u) => Affects(u)'
  BY <1>2, AffectsKept
<1>7. \A u \in Thread : Affects(u)' /\ pc'[u] # "affinity" => pc[u] # "affinity"
  BY <1>2 DEF SameLocals
<1>8. \A u \in Thread : Waiting(u) => local'[u].q = local[u].q
  BY DEF SameLocals
<1> QED
  BY <1>3, <1>4, <1>5, <1>6, <1>7, <1>8, AffinityFrame DEF Placing

\* The destination is one the task is allowed on.
LEMMA ReadDestAffinity ==
  ASSUME IInv, AInv, NEW c \in CPU, NEW t, ReadDest(c, t)
  PROVE  AInv'
<1>1. /\ t = on[c] /\ pc[t] = "migrate_dest" /\ pc[t] \in Migration
      /\ Goto(t, "migrate_src") /\ rq' = rq /\ task' = task /\ build' = build
  BY DEF ReadDest, At, Migration
<1>2. /\ t \in Thread /\ t = migration[c] /\ t \notin Task
      /\ local[t].q \in Task /\ ReqTask(t) \in Task
  BY <1>1, Requested, Constants
<1>3. /\ local \in [Thread -> Locals] /\ pc \in [Thread -> PCs]
      /\ task \in [Thread -> TaskStructs]
  BY <1>1, Acting
<1>4. PICK p, d : p \in Task /\ p = ReqTask(t) /\ d = First(task[p].cpus_allowed)
  BY <1>2
<1>5. d \in task[p].cpus_allowed /\ d \in CPU
  <2>1. p \in Thread /\ TaskInv(p)
    BY <1>4, Constants DEF IInv, ThreadOK
  <2>2. PICK S \in SUBSET CPU : S = task[p].cpus_allowed /\ S # {}
    BY <1>3, <2>1 DEF TaskStructs, TaskInv
  <2> QED
    BY <1>4, <2>2, FirstLeast
<1>6. local' = [local EXCEPT ![t].dest = d]
  BY <1>4 DEF ReadDest
<1>7. /\ pc'[t] = "migrate_src" /\ local'[t].dest = d /\ local'[t].q = local[t].q
      /\ local'[t].mask = local[t].mask /\ \A u \in Thread \ {t} : SameLocals(u)
  BY <1>1, <1>2, <1>3, <1>5, <1>6 DEF SameLocals, Locals, Goto
<1>8. DestOK(c)'
  <2>1. PICK r \in Task : r = local[t].q
    BY <1>2
  <2>2. local'[r].q = local[r].q /\ ReqTask(t) = local[r].q
    BY <1>2, <1>7, <2>1, Constants DEF SameLocals, ReqTask
  <2>3. ReqTask(t)' = p
    BY <1>4, <1>7, <2>1, <2>2 DEF ReqTask
  <2> QED
    BY <1>1, <1>2, <1>5, <1>7, <2>3 DEF DestOK
<1>9. Placing
  BY <1>1 DEF Placing
<1>10. pc[t] \in Migration \ {"migrate_up"} /\ pc'[t] \in Migration /\ pc'[t] # "migrate_up"
  BY <1>1, <1>7 DEF Migration
<1> QED
  BY <1>1, <1>7, <1>8, <1>9, <1>10, MigratorMoves

\* The destination stays allowed while the request is in the hands of c's thread.
LEMMA DestKept ==
  ASSUME IInv, AInv, NEW c \in CPU, NEW t, t = on[c], pc[t] \in DestPlaces, Placing,
         \A u \in Thread \ {t} : SameLocals(u),
         local'[t].q = local[t].q, local'[t].dest = local[t].dest
  PROVE  /\ DestOK(c)'
         /\ \A p : p = ReqTask(t) => p \in Task /\ local[t].dest \in task'[p].cpus_allowed
<1>1. pc[t] \in Migration
  BY DEF Migration, DestPlaces
<1>2. t = migration[c] /\ local[t].q \in Task /\ ReqTask(t) \in Task /\ t \notin Task
  BY <1>1, Requested, Constants
<1>3. PICK r \in Task, p \in Task : r = local[t].q /\ p = ReqTask(t)
  BY <1>2
<1>4. local[t].dest \in task[p].cpus_allowed
  BY <1>2, <1>3 DEF AInv, DestOK
<1>5. local[t].dest \in task'[p].cpus_allowed
  BY <1>3, <1>4 DEF Placing
<1>6. local'[r].q = local[r].q /\ ReqTask(t) = local[r].q
  BY <1>2, <1>3, Constants DEF SameLocals, ReqTask
<1>7. ReqTask(t)' = p
  BY <1>3, <1>6 DEF ReqTask
<1> QED
  BY <1>2, <1>3, <1>5, <1>7 DEF DestOK

\* The source is read.
LEMMA ReadSrcAffinity ==
  ASSUME IInv, AInv, NEW c \in CPU, NEW t, ReadSrc(c, t)
  PROVE  AInv'
<1>1. /\ t = on[c] /\ pc[t] = "migrate_src" /\ pc[t] \in Migration /\ pc[t] \in DestPlaces
      /\ Goto(t, "migrate_lock1") /\ rq' = rq /\ task' = task /\ build' = build
  BY DEF ReadSrc, At, Migration, DestPlaces
<1>2. /\ t \in Thread /\ local \in [Thread -> Locals] /\ pc \in [Thread -> PCs]
  BY <1>1, Acting
<1>3. PICK s : local' = [local EXCEPT ![t].src = s]
  BY DEF ReadSrc
<1>4. /\ pc'[t] = "migrate_lock1" /\ local'[t].dest = local[t].dest
      /\ local'[t].q = local[t].q /\ local'[t].mask = local[t].mask
      /\ \A u \in Thread \ {t} : SameLocals(u)
  BY <1>1, <1>2, <1>3 DEF SameLocals, Locals, Goto
<1>5. Placing
  BY <1>1 DEF Placing
<1>6. DestOK(c)'
  BY <1>1, <1>4, <1>5, DestKept
<1>7. pc[t] \in Migration \ {"migrate_up"} /\ pc'[t] \in Migration /\ pc'[t] # "migrate_up"
  BY <1>1, <1>4 DEF Migration
<1> QED
  BY <1>1, <1>4, <1>5, <1>6, <1>7, MigratorMoves

\* Two runqueues are locked.
LEMMA RqLockAffinity ==
  ASSUME IInv, AInv, NEW c \in CPU, NEW t, double_rq_lock(c, t)
  PROVE  AInv'
<1>1. /\ t = on[c] /\ pc[t] \in {"migrate_lock1", "migrate_lock2"} /\ task' = task
      /\ local' = local /\ build' = build
  BY DEF double_rq_lock, At
<1>2. PICK place, d : /\ place \in {"migrate_lock2", "migrate_move"}
                      /\ Goto(t, place) /\ Lock(c, d)
  BY DEF double_rq_lock
<1>3. t \in Thread /\ pc \in [Thread -> PCs] /\ rq \in [CPU -> RunQueues]
  BY <1>1, Acting
<1>4. pc'[t] = place /\ \A u \in Thread \ {t} : SameLocals(u)
  BY <1>1, <1>2, <1>3 DEF SameLocals, Goto
<1>5. \A e \in CPU : rq'[e].migration_queue = rq[e].migration_queue
  BY <1>2, <1>3 DEF RunQueues, Lock
<1>6. Placing
  BY <1>1 DEF Placing
<1>7. DestOK(c)'
  BY <1>1, <1>4, <1>6, DestKept DEF DestPlaces
<1>8. pc[t] \in Migration \ {"migrate_up"} /\ pc'[t] \in Migration /\ pc'[t] # "migrate_up"
  BY <1>1, <1>2, <1>4 DEF Migration
<1> QED
  BY <1>1, <1>4, <1>5, <1>6, <1>7, <1>8, MigratorMoves

\* The task is moved to where it is allowed, or was there already.
LEMMA MigrateAffinity ==
  ASSUME IInv, AInv, NEW c \in CPU, NEW t, Migrate(c, t)
  PROVE  AInv'
<1>1. /\ t = on[c] /\ pc[t] = "migrate_move" /\ pc[t] \in Migration /\ pc[t] \in DestPlaces
      /\ local' = local /\ build' = build
  BY DEF Migrate, At, Migration, DestPlaces
<1>2. PICK p, src, dest : p = ReqTask(t) /\ src = local[t].src /\ dest = local[t].dest
  OBVIOUS
<1>3. /\ t = migration[c] /\ t \in Thread /\ ThreadOK(t) /\ CpuOK(c) /\ p \in Task
      /\ local[t].q \in Task /\ Waiting(local[t].q)
  BY <1>1, <1>2, Requested, Constants
<1>4. /\ rq \in [CPU -> RunQueues] /\ task \in [Thread -> TaskStructs]
      /\ pc \in [Thread -> PCs] /\ local \in [Thread -> Locals]
  BY TypeParts DEF IInv
<1>5. src \in CPU /\ dest \in CPU /\ TaskInv(p) /\ p \in Thread
  BY <1>1, <1>2, <1>3, Constants DEF ThreadOK, ArgsOK, IInv
<1>6. PICK place \in {"migrate_src", "migrate_up"} : Goto(t, place)
  BY DEF Migrate
<1>7. pc'[t] = place /\ \A u \in Thread \ {t} : SameLocals(u)
  BY <1>1, <1>3, <1>4, <1>6 DEF SameLocals, Goto
<1>8. PICK M : M = IF task[p].cpu = src /\ src = c THEN Moved(p, dest) ELSE << task, rq >>
  OBVIOUS
<1>9. task' = M[1] /\ rq' = [M[2] EXCEPT ![src].lock = NULL, ![dest].lock = NULL]
  <2>1. CASE task[p].cpu # src
    BY <1>2, <1>8, <2>1 DEF Migrate
  <2>2. CASE task[p].cpu = src
    BY <1>2, <1>8, <2>2 DEF Migrate
  <2> QED
    BY <2>1, <2>2
<1>10. /\ M[2] \in [CPU -> RunQueues] /\ \A u \in Thread \ {p} : M[1][u] = task[u]
       /\ M[1][p].state = task[p].state /\ M[1][p].cpus_allowed = task[p].cpus_allowed
       /\ M[1][p].cpu = IF task[p].cpu = src /\ src = c THEN dest ELSE task[p].cpu
       /\ \A d \in CPU : M[2][d].migration_queue = rq[d].migration_queue
  <2>1. CASE task[p].cpu = src /\ src = c
    <3>1. task[p].array \in {NULL, src} /\ M = Moved(p, dest)
      BY <1>5, <1>8, <2>1 DEF TaskInv
    <3> QED
      BY <1>5, <2>1, <3>1, MovedEffect
  <2>2. CASE ~(task[p].cpu = src /\ src = c)
    BY <1>4, <1>8, <2>2
  <2> QED
    BY <2>1, <2>2
<1>11. \A d \in CPU : rq'[d].migration_queue = rq[d].migration_queue
  <2>1. PICK R \in [CPU -> RunQueues] : R = M[2]
    BY <1>10
  <2>2. PICK S : S = rq'
    OBVIOUS
  <2>3. S = UnlockTwo(R, src, dest)
    BY <1>9, <2>1, <2>2 DEF UnlockTwo
  <2>4. \A e \in CPU : S[e].migration_queue = R[e].migration_queue
    <3>1. src \in CPU /\ dest \in CPU
      BY <1>5
    <3> QED
      BY <2>3, <3>1, TwoUnlocked
  <2> QED
    BY <1>10, <2>1, <2>2, <2>4
<1>12. dest \in task[p].cpus_allowed
  BY <1>1, <1>2, <1>3 DEF AInv, DestOK
<1>13. Placing
  BY <1>3, <1>9, <1>10, <1>12, Constants DEF Placing, Placed
<1>14. DestOK(c)'
  BY <1>1, <1>7, <1>13, DestKept
<1>15. ASSUME place = "migrate_up" PROVE Placed(p)'
  <2>1. task[p].cpu = src
    <3>1. "migrate_src" # "migrate_up"
      OBVIOUS
    <3> QED
      BY <1>2, <1>3, <1>4, <1>6, <1>15, <3>1 DEF Migrate, Goto
  <2>2. CASE src = c
    BY <1>9, <1>10, <1>12, <2>1, <2>2 DEF Placed
  <2>3. CASE src # c
    <3>1. PICK u \in Thread : u = local[t].q
      BY <1>3, Constants
    <3>2. local[u].q = p /\ Waiting(u) /\ Affects(u) /\ pc[u] # "affinity"
      BY <1>2, <1>3, <3>1, WaitingAffects
        DEF ReqTask, Waiting, Back, InSchedule, Balancing
    <3>3. Pending(u, c)
      BY <1>1, <1>3, <3>1 DEF Pending, Migration
    <3>4. ~Pending(u, src)
      BY <1>5, <2>3, <3>3, PendingOnce
    <3>5. Placed(p)
      BY <2>1, <3>2, <3>4 DEF AInv, Settled
    <3> QED
      BY <1>9, <1>10, <2>1, <2>3, <3>5 DEF Placed
  <2> QED
    BY <2>2, <2>3
<1>16. pc[t] \in Migration \ {"migrate_up"} /\ pc'[t] \in Migration
  BY <1>1, <1>7 DEF Migration
<1> QED
  BY <1>1, <1>2, <1>7, <1>11, <1>13, <1>14, <1>15, <1>16, MigratorMoves

\* The process that waits is woken.
LEMMA UpAffinity ==
  ASSUME IInv, AInv, NEW c \in CPU, NEW t, Up(c, t)
  PROVE  AInv'
<1>1. /\ t = on[c] /\ pc[t] = "migrate_up" /\ pc[t] \in Migration /\ Goto(t, "wake")
      /\ rq' = rq /\ task' = task /\ build' = build
  BY DEF Up, At, Migration
<1>2. PICK req : req = local[t].q
  OBVIOUS
<1>3. /\ t = migration[c] /\ t \in Thread /\ t \in Migrators /\ t \notin Task
      /\ Waiting(req) /\ req \in Task /\ req \in Thread /\ req # t
  BY <1>1, <1>2, Requested, Constants
<1>4. local \in [Thread -> Locals] /\ pc \in [Thread -> PCs]
  BY <1>1, Acting
<1>5. PICK l : l = [NoLocal EXCEPT !.w = req, !.then = "migrate"]
  OBVIOUS
<1>6. l \in Locals /\ l.w = req /\ l.then = "migrate" /\ l.mask = {}
  BY <1>3, <1>5 DEF NoLocal, Locals, PCs
<1>7. PICK k : k = [local[req] EXCEPT !.done = TRUE]
  OBVIOUS
<1>8. /\ k.q = local[req].q /\ k.mask = local[req].mask /\ k.w = local[req].w
      /\ k.then = local[req].then /\ k.tick = local[req].tick
  <2>1. local[req] \in Locals
    BY <1>3, <1>4
  <2> QED
    BY <1>7, <2>1 DEF Locals
<1>9. local' = [local EXCEPT ![req] = k, ![t] = l]
  <2>1. local' = [local EXCEPT ![req].done = TRUE, ![t] = l]
    BY <1>2, <1>5 DEF Up
  <2> QED
    BY <1>7, <2>1
<1>10. /\ pc'[t] = "wake" /\ local'[t] = l /\ local'[req] = k /\ pc'[req] = pc[req]
       /\ \A u \in Thread \ {t, req} : SameLocals(u)
  BY <1>1, <1>3, <1>4, <1>9 DEF SameLocals, Goto
<1>11. ~Affects(t) /\ ~Affects(t)'
  BY <1>1, <1>6, <1>10 DEF Affects, Back, InSchedule, Balancing, Migration
<1>12. SameRole(t)
  <2>1. req \notin Migrators
    BY <1>3, Constants
  <2> QED
    BY <1>6, <1>10, <1>11, <2>1 DEF SameRole
<1>13. (Affects(req)' <=> Affects(req)) /\ SameRole(req)
  <2>1. Affects(req)' <=> Affects(req)
    BY <1>8, <1>10 DEF Affects, Back
  <2>2. Affecting(req)
    BY <1>3 DEF AInv
  <2> QED
    BY <1>8, <1>10, <2>1, <2>2 DEF SameRole, Affecting
<1>14. \A u \in Thread : SameRole(u)
  BY <1>10, <1>12, <1>13 DEF SameRole
<1>15. \A e \in CPU \ {c} : SameLocals(migration[e])
  <2> TAKE e \in CPU \ {c}
  <2>1. migration[e] # t /\ migration[e] # req /\ migration[e] \in Thread
    BY <1>3, Constants
  <2> QED
    BY <1>10, <2>1
<1>16. \A u \in Thread, d \in CPU : Pending(u, d) => Pending(u, d)'
  <2> TAKE u \in Thread, d \in CPU
  <2>1. CASE d = c
    BY <1>1, <1>3, <2>1 DEF Pending
  <2>2. CASE d # c
    BY <1>1, <1>15, <2>2 DEF Pending, SameLocals
  <2> QED
    BY <2>1, <2>2
<1>17. DestOK(c)'
  BY <1>3, <1>10 DEF DestOK, DestPlaces
<1>18. \A u \in Thread : Affects(u) => Affects(u)'
  BY <1>10, <1>11, <1>13, AffectsKept
<1>19. \A u \in Thread : Affects(u)' /\ pc'[u] # "affinity" => pc[u] # "affinity"
  BY <1>10, <1>11 DEF SameLocals
<1>20. \A u \in Thread : Waiting(u) => local'[u].q = local[u].q
  BY <1>3, <1>8, <1>10 DEF SameLocals, Waiting
<1> QED
  BY <1>1, <1>14, <1>15, <1>16, <1>17, <1>18, <1>19, <1>20, AffinityFrame

-----------------------------------------------------------------------------
(* sys_sched_setaffinity and set_cpus_allowed *)

\* Nobody else is at the affinity of the task.
LEMMA SetaffinityAffinity ==
  ASSUME IInv, AInv, Orderly(build), NEW c \in CPU, NEW t, Setaffinity(c, t)
  PROVE  AInv'
<1>1. PICK q \in Task, mask \in (SUBSET CPU) \ {{}} :
        /\ build.concurrent \/ \A u \in Task : ~(local[u].q = q /\ local[u].mask # {})
        /\ Begin(c, t, "affinity", "affinity", [NoLocal EXCEPT !.q = q, !.mask = mask])
        /\ task' = task
  BY DEF Setaffinity
<1>2. PICK l : l = [NoLocal EXCEPT !.q = q, !.mask = mask]
  OBVIOUS
<1>3. l \in Locals
  BY <1>2, Constants, Zenon DEF NoLocal, Locals, PCs
<1>4. l.q = q /\ l.mask = mask
  BY <1>2 DEF NoLocal
<1>5. Begin(c, t, "affinity", "affinity", l)
  BY <1>1, <1>2
<1>6. /\ t \in Task /\ t \in Thread /\ pc[t] = "user" /\ pc'[t] = "affinity" /\ local'[t] = l
      /\ rq' = rq /\ build' = build /\ \A u \in Thread \ {t} : SameLocals(u)
  <2>1. "affinity" \in PCs
    BY DEF PCs
  <2>2. /\ t \in Task /\ pc[t] = "user" /\ pc'[t] = "affinity" /\ local'[t] = l
        /\ rq' = rq /\ build' = build /\ Alone(t)
    BY <1>3, <1>5, <2>1, BeginEffect
  <2> QED
    BY <2>2, Constants DEF Alone
<1>7. "affinity" \in build.calls /\ ~build.concurrent
  BY <1>5 DEF Begin, Orderly
<1>8. ~Affects(t) /\ Affects(t)'
  BY <1>6 DEF Affects, Back, InSchedule, Balancing
<1>9. \A u \in Thread : Affects(u) => local[u].q # q
  BY <1>1, <1>7 DEF AInv, Affecting
<1>10. \A u \in Thread \ {t} : Affects(u)' <=> Affects(u)
  BY <1>6, AffectsKept
<1>11. \A d \in CPU : SameLocals(migration[d])
  BY <1>6, Constants
<1>12. \A u \in Thread : Affecting(u)'
  <2> TAKE u \in Thread
  <2>1. CASE u = t
    BY <1>4, <1>6, <1>7, <1>8, <2>1 DEF Affecting
  <2>2. CASE u # t
    BY <1>6, <1>10, <2>2 DEF AInv, Affecting, SameLocals
  <2> QED
    BY <2>1, <2>2
<1>13. \A u \in Thread : Settled(u)'
  <2> TAKE u \in Thread
  <2>1. CASE u = t
    BY <1>6, <2>1 DEF Settled
  <2>2. CASE u # t
    <3>1. \A d : d \in CPU /\ Pending(u, d) => Pending(u, d)'
      BY <1>6, <1>11 DEF Pending, SameLocals
    <3>2. Affects(u) => task[local[u].q].cpu \in CPU
      <4>1. Affects(u) => local[u].q \in Thread
        BY Constants DEF AInv, Affecting
      <4> QED
        BY <4>1, TypeParts DEF IInv, TaskStructs
    <3>3. PICK p, d : p = local[u].q /\ d = task[p].cpu
      OBVIOUS
    <3>4. Affects(u)' /\ pc'[u] # "affinity" => Placed(p)' \/ Pending(u, d)'
      BY <1>1, <1>6, <1>10, <2>2, <3>1, <3>2, <3>3 DEF AInv, Settled, Placed, SameLocals
    <3>5. local'[u].q = p /\ task'[p].cpu = d
      BY <1>1, <1>6, <2>2, <3>3 DEF SameLocals
    <3> QED
      BY <3>4, <3>5 DEF Settled, Placed, Pending
  <2> QED
    BY <2>1, <2>2
<1>14. OneAtATime'
  <2>1. OneAtATime
    BY DEF AInv
  <2>2. ASSUME NEW u \in Thread, NEW v \in Thread, Affects(u)', Affects(v)',
               local'[u].q = local'[v].q
        PROVE  u = v
    BY <1>4, <1>6, <1>9, <1>10, <2>1, <2>2 DEF OneAtATime, SameLocals
  <2> QED
    BY <2>2 DEF OneAtATime
<1>15. AllAllowed'
  BY <1>6, <1>7 DEF AllAllowed
<1>16. ASSUME NEW e \in CPU PROVE DestOK(e)'
  <2>1. SUFFICES ASSUME pc[migration[e]] \in DestPlaces PROVE DestOK(e)'
    BY <1>11 DEF DestOK, SameLocals
  <2>2. PICK r : r = local[migration[e]].q
    OBVIOUS
  <2>3. r \in Task /\ r # t
    BY <1>8, <2>1, <2>2, InHand DEF DestPlaces, Migration
  <2>4. local'[r].q = local[r].q
    BY <1>6, <2>3, Constants DEF SameLocals
  <2>5. ReqTask(migration[e])' = ReqTask(migration[e])
    BY <1>11, <2>2, <2>4 DEF ReqTask, SameLocals
  <2> QED
    BY <1>1, <1>11, <2>1, <2>5 DEF AInv, DestOK, SameLocals
<1>17. ASSUME NEW p \in Task PROVE Kept(p)'
  <2>1. ASSUME NEW u \in Task, Affects(u), local[u].q = p
        PROVE  Affects(u)' /\ local'[u].q = p
    BY <1>6, <1>8, <1>10, <2>1, Constants DEF SameLocals
  <2> QED
    BY <1>1, <2>1 DEF AInv, Kept, Placed
<1> QED
  BY <1>12, <1>13, <1>14, <1>15, <1>16, <1>17 DEF AInv

\* The mask is set, and the task moved, or the migration asked for.
LEMMA SetCpusAffinity ==
  ASSUME IInv, AInv, NEW c \in CPU, NEW t, set_cpus_allowed(c, t)
  PROVE  AInv'
<1>1. PICK p, d, mask : p = local[t].q /\ d = task[p].cpu /\ mask = local[t].mask
  OBVIOUS
<1>2. t = on[c] /\ pc[t] = "affinity" /\ build' = build
  BY DEF set_cpus_allowed, At
<1>3. /\ t \in Thread /\ ThreadOK(t) /\ rq \in [CPU -> RunQueues]
      /\ task \in [Thread -> TaskStructs] /\ pc \in [Thread -> PCs]
      /\ local \in [Thread -> Locals]
  BY <1>2, Acting
<1>4. /\ Affects(t) /\ t \in Task /\ p \in Task /\ p \in Thread /\ "affinity" \in build.calls
      /\ \A u \in Thread : Affects(u) /\ local[u].q = p => u = t
  <2>1. Affects(t)
    BY <1>2 DEF Affects
  <2>2. t \in Task /\ p \in Task /\ "affinity" \in build.calls
    BY <1>1, <1>3, <2>1 DEF AInv, Affecting
  <2>3. OneAtATime
    BY DEF AInv
  <2> QED
    BY <1>1, <1>3, <2>1, <2>2, <2>3, Constants DEF OneAtATime
<1>5. d \in CPU /\ mask \in SUBSET CPU /\ mask # {} /\ First(mask) \in mask
  <2>1. d \in CPU /\ mask \in SUBSET CPU
    BY <1>1, <1>3, <1>4 DEF TaskStructs, Locals
  <2>2. mask # {}
    BY <1>1, <1>2, <1>3 DEF ThreadOK, ArgsOK
  <2> QED
    BY <2>1, <2>2, FirstLeast
<1>6. PICK to \in CPU : to = IF d \notin mask /\ task[p].array = NULL /\ p # rq[d].curr
                             THEN First(mask) ELSE d
  BY <1>5
<1>7. /\ \A u \in Thread \ {p} : task'[u] = task[u]
      /\ task'[p].cpus_allowed = mask /\ task'[p].cpu = to
  <2>1. task' = [task EXCEPT ![p].cpus_allowed = mask, ![p].cpu = to]
    BY <1>1, <1>6 DEF set_cpus_allowed
  <2>2. PICK k : k = [task[p] EXCEPT !.cpus_allowed = mask, !.cpu = to]
    OBVIOUS
  <2>3. k.cpus_allowed = mask /\ k.cpu = to
    <3>1. task[p] \in TaskStructs
      BY <1>3, <1>4
    <3> QED
      BY <2>2, <3>1 DEF TaskStructs
  <2>4. task' = [task EXCEPT ![p] = k]
    BY <1>3, <1>4, <2>1, <2>2
  <2> QED
    BY <1>3, <1>4, <2>3, <2>4
\* Either the call is over, or it waits for the migration thread of the processor.
<1>8. \/ /\ Placed(p)' /\ rq' = rq /\ pc'[t] = "user" /\ local'[t] = NoLocal
      \/ /\ to = d /\ rq' = [rq EXCEPT ![d].migration_queue = << t >> \o @]
         /\ pc'[t] = "wake" /\ local'[t].then = "down" /\ local'[t].q = p
         /\ local'[t].mask = mask
  <2>1. CASE d \in mask \/ (task[p].array = NULL /\ p # rq[d].curr)
    <3>1. rq' = rq /\ local' = [local EXCEPT ![t] = NoLocal] /\ Goto(t, "user")
      BY <1>1, <2>1 DEF set_cpus_allowed
    <3>2. to \in mask
      BY <1>5, <1>6, <2>1
    <3> QED
      BY <1>3, <1>7, <3>1, <3>2 DEF Placed, Goto
  <2>2. CASE ~(d \in mask \/ (task[p].array = NULL /\ p # rq[d].curr))
    <3>1. /\ rq' = [rq EXCEPT ![d].migration_queue = << t >> \o @]
          /\ local' = [local EXCEPT ![t].w = migration[d], ![t].then = "down"]
          /\ Goto(t, "wake")
      BY <1>1, <2>2 DEF set_cpus_allowed
    <3>2. PICK l : l = [local[t] EXCEPT !.w = migration[d], !.then = "down"]
      OBVIOUS
    <3>3. l.then = "down" /\ l.q = p /\ l.mask = mask
      <4>1. local[t] \in Locals
        BY <1>3
      <4> QED
        BY <1>1, <3>2, <4>1 DEF Locals
    <3>4. local' = [local EXCEPT ![t] = l]
      BY <1>3, <3>1, <3>2
    <3> QED
      BY <1>3, <1>6, <2>2, <3>1, <3>3, <3>4 DEF Goto
  <2> QED
    BY <2>1, <2>2
<1>9. \A u \in Thread \ {t} : SameLocals(u)
  <2>1. \A u \in Thread \ {t} : pc'[u] = pc[u] /\ local'[u] = local[u]
    BY <1>3 DEF set_cpus_allowed, Goto
  <2> QED
    BY <2>1 DEF SameLocals
<1>10. \A e \in CPU : /\ SameLocals(migration[e])
                      /\ rq'[e].migration_queue = rq[e].migration_queue \/
                           (e = d /\ rq'[e].migration_queue = << t >> \o rq[e].migration_queue)
  <2>1. \A e \in CPU : SameLocals(migration[e])
    BY <1>4, <1>9, Constants
  <2>2. CASE rq' = rq
    BY <2>1, <2>2
  <2>3. CASE rq' = [rq EXCEPT ![d].migration_queue = << t >> \o @]
    BY <1>3, <1>4, <1>5, <2>1, <2>3, RequestMade
  <2> QED
    BY <1>8, <2>2, <2>3
<1>11. \A u \in Thread \ {t} : Affects(u)' <=> Affects(u)
  BY <1>9, AffectsKept
<1>12. \A u \in Thread \ {t} : Affects(u) => local[u].q # p
  BY <1>4
<1>13. ASSUME NEW u \in Thread, NEW e \in CPU, Pending(u, e)
       PROVE  Pending(u, e)'
  <2>1. CASE \E i \in DOMAIN rq[e].migration_queue : rq[e].migration_queue[i] = u
    <3>1. PICK Q, S : Q = rq[e].migration_queue /\ S = << t >> \o Q
      OBVIOUS
    <3>2. Q \in Seq(Task)
      BY <1>3, <3>1 DEF RunQueues
    <3>3. PICK i \in DOMAIN Q : Q[i] = u
      BY <2>1, <3>1
    <3>4. PICK j \in 2 .. Len(Q) + 1 : j - 1 = i
      <4>1. Len(Q) \in Nat /\ i \in 1 .. Len(Q)
        BY <3>2, <3>3
      <4>2. i + 1 \in 2 .. Len(Q) + 1 /\ (i + 1) - 1 = i
        BY <4>1
      <4> QED
        BY <4>2
    <3>5. j \in DOMAIN S /\ S[j] = u
      BY <1>4, <3>1, <3>2, <3>3, <3>4, Prefixed
    <3> QED
      BY <1>10, <3>1, <3>3, <3>5 DEF Pending
  <2>2. CASE pc[migration[e]] \in Migration \ {"migrate_up"} /\ local[migration[e]].q = u
    BY <1>10, <2>2 DEF Pending, SameLocals
  <2> QED
    BY <1>13, <2>1, <2>2 DEF Pending
<1>14. ASSUME pc'[t] = "wake"
       PROVE  /\ to = d /\ Pending(t, d)' /\ local'[t].q = p /\ local'[t].mask = mask
              /\ Affects(t)'
  <2>1. PICK Q, S : Q = rq[d].migration_queue /\ S = << t >> \o Q
    OBVIOUS
  <2>2. Q \in Seq(Task)
    BY <1>3, <1>5, <2>1 DEF RunQueues
  <2>3. 1 \in DOMAIN S /\ S[1] = t
    BY <1>4, <2>1, <2>2
  <2>4. rq'[d].migration_queue = S
    BY <1>3, <1>4, <1>5, <1>8, <1>14, <2>1, RequestMade
  <2>5. Affects(t)'
    BY <1>8, <1>14 DEF Affects, Back
  <2> QED
    BY <1>8, <1>14, <2>3, <2>4, <2>5 DEF Pending
<1>15. ASSUME pc'[t] # "wake"
       PROVE  pc'[t] = "user" /\ Placed(p)' /\ ~Affects(t)' /\ local'[t].mask = {}
  <2>1. pc'[t] = "user" /\ Placed(p)' /\ local'[t] = NoLocal
    BY <1>8, <1>15
  <2>2. ~Affects(t)'
    BY <2>1 DEF Affects, Back, InSchedule, Balancing
  <2> QED
    BY <2>1, <2>2, NoLocalFields
<1>16. \A u \in Thread : Affecting(u)'
  <2> TAKE u \in Thread
  <2>1. CASE u = t /\ pc'[t] = "wake"
    BY <1>2, <1>4, <1>5, <1>14, <2>1 DEF Affecting
  <2>2. CASE u = t /\ pc'[t] # "wake"
    BY <1>15, <2>2 DEF Affecting
  <2>3. CASE u # t
    BY <1>2, <1>9, <1>11, <2>3 DEF AInv, Affecting, SameLocals
  <2> QED
    BY <2>1, <2>2, <2>3
<1>17. \A u \in Thread : Settled(u)'
  <2> TAKE u \in Thread
  <2>1. CASE u = t
    BY <1>7, <1>14, <1>15, <2>1 DEF Settled, Pending
  <2>2. CASE u # t /\ Affects(u)
    <3>1. PICK q, e : q \in Task /\ q = local[u].q /\ e = task[q].cpu
      BY <2>2 DEF AInv, Affecting
    <3>2. q # p /\ q \in Thread /\ e \in CPU
      BY <1>3, <1>12, <2>2, <3>1, Constants DEF TaskStructs
    <3>3. task'[q] = task[q] /\ local'[u].q = q
      BY <1>7, <1>9, <2>2, <3>1, <3>2 DEF SameLocals
    <3>4. Affects(u)' /\ pc'[u] # "affinity" => Placed(q)' \/ Pending(u, e)'
      BY <1>9, <1>13, <2>2, <3>1, <3>2, <3>3 DEF AInv, Settled, Placed, SameLocals
    <3> QED
      BY <3>1, <3>3, <3>4 DEF Settled, Placed, Pending
  <2>3. CASE u # t /\ ~Affects(u)
    BY <1>11, <2>3 DEF Settled
  <2> QED
    BY <2>1, <2>2, <2>3
<1>18. OneAtATime'
  <2>1. ASSUME NEW u \in Thread, Affects(u)'
        PROVE  Affects(u) /\ local'[u].q = local[u].q
    BY <1>1, <1>4, <1>9, <1>11, <1>14, <1>15, <2>1 DEF SameLocals
  <2>2. OneAtATime
    BY DEF AInv
  <2> QED
    BY <2>1, <2>2 DEF OneAtATime
<1>19. AllAllowed'
  BY <1>2, <1>4 DEF AllAllowed
<1>20. ASSUME NEW e \in CPU PROVE DestOK(e)'
  <2>1. SUFFICES ASSUME pc[migration[e]] \in DestPlaces PROVE DestOK(e)'
    BY <1>10 DEF DestOK, SameLocals
  <2>2. PICK r : r = local[migration[e]].q
    OBVIOUS
  <2>3. r \in Task /\ r \in Thread /\ Waiting(r) /\ Affects(r)
    BY <2>1, <2>2, InHand, Constants DEF DestPlaces, Migration
  <2>4. r # t
    BY <1>2, <2>3 DEF Waiting, Back, InSchedule, Balancing
  <2>5. PICK q \in Task : q = local[r].q /\ q # p /\ q \in Thread
    BY <1>12, <2>3, <2>4, Constants DEF Waiting
  <2>6. ReqTask(migration[e]) = q /\ ReqTask(migration[e])' = q
    BY <1>9, <1>10, <2>2, <2>3, <2>4, <2>5 DEF ReqTask, SameLocals
  <2>7. task'[q] = task[q]
    BY <1>7, <2>5
  <2> QED
    BY <1>10, <2>1, <2>6, <2>7 DEF AInv, DestOK, SameLocals
<1>21. ASSUME NEW x \in Task PROVE Kept(x)'
  <2>1. CASE x = p
    BY <1>4, <1>14, <1>15, <2>1 DEF Kept
  <2>2. CASE x # p
    <3>1. task'[x] = task[x]
      BY <1>7, <2>2, Constants
    <3>2. ASSUME NEW u \in Task, Affects(u), local[u].q = x
          PROVE  Affects(u)' /\ local'[u].q = x
      BY <1>1, <1>9, <1>11, <2>2, <3>2, Constants DEF SameLocals
    <3> QED
      BY <3>1, <3>2 DEF AInv, Kept, Placed
  <2> QED
    BY <2>1, <2>2
<1> QED
  BY <1>16, <1>17, <1>18, <1>19, <1>20, <1>21 DEF AInv

-----------------------------------------------------------------------------
(* A task stays where it is allowed *)

\* Nobody changes an affinity at first, and all processors are allowed.
LEMMA InitAffinity ==
  ASSUME Init
  PROVE  AInv
<1>1. PICK c0 \in CPU, P \in SUBSET Task :
        /\ task = [t \in Thread |-> FirstTask(c0, P, t)]
        /\ pc = [t \in Thread |-> IF t \in P \/ \E c \in CPU : t = idle[c] THEN "user"
                                  ELSE IF t \in Task THEN "none" ELSE "migrate"]
        /\ local = [t \in Thread |-> NoLocal]
  BY Initial
<1>2. \A u \in Thread : pc[u] \in {"user", "none", "migrate"} /\ local[u] = NoLocal
  BY <1>1
<1>3. \A u \in Thread : ~Affects(u)
  BY <1>2 DEF Affects, Back, InSchedule, Balancing
<1>4. \A u \in Thread : Affecting(u) /\ Settled(u)
  BY <1>2, <1>3, NoLocalFields DEF Affecting, Settled
<1>5. \A p \in Task : task[p].cpus_allowed = CPU /\ task[p].cpu = c0
  BY <1>1, Constants DEF FirstTask, New
<1>6. \A c \in CPU : DestOK(c)
  BY <1>2, Constants DEF DestOK, DestPlaces
<1> QED
  BY <1>3, <1>4, <1>5, <1>6 DEF AInv, OneAtATime, AllAllowed, Kept, Placed

\* Every step keeps the invariant.
LEMMA NextAffinity ==
  ASSUME LocksFree, IInv, AInv, Orderly(build), [Next]_vars
  PROVE  AInv'
<1>1. CASE UNCHANGED vars
  BY <1>1, CalmStep DEF vars, Calm, SameLocals, Placing
<1>2. CASE Next
  <2>1. PICK c \in CPU : KernelStep(c) \/ UserStep(c)
    BY <1>2 DEF Next
  <2>2. PICK t : t = on[c]
    OBVIOUS
  <2>3. Kernel(c, t) \/ Call(c, t) \/ Tick(c, t) \/ Preempt(c, t)
    BY <2>1, <2>2 DEF KernelStep, UserStep
  <2>4. CASE Kernel(c, t)
    <3>1. CASE Schedule(c, t) \/ Pick(c, t) \/ PickIdle(c, t) \/ ContextSwitch(c, t)
      BY <3>1, ScheduleAffinity, PickAffinity, ContextSwitchAffinity
    <3>2. CASE \/ Balance(c, t) \/ double_lock_balance(c, t) \/ SpinBusiest(c, t)
               \/ Relock(c, t) \/ Pull(c, t)
      BY <3>2, BalanceAffinity, DoubleLockAffinity, SpinAffinity, PullAffinity
    <3>3. CASE TickLock(c, t) \/ Unlock(c, t)
      BY <3>3, TickLockAffinity, UnlockAffinity
    <3>4. CASE \/ try_to_wake_up(c, t) \/ wake_up_forked_process(c, t)
               \/ wait_task_inactive(c, t)
      BY <3>4, TryToWakeAffinity, ForkedAffinity, InactiveAffinity
    <3>5. CASE set_cpus_allowed(c, t) \/ Down(c, t) \/ DownCheck(c, t)
      BY <3>5, SetCpusAffinity, DownAffinity, DownCheckAffinity
    <3>6. CASE \/ migration_thread(c, t) \/ ReadDest(c, t) \/ ReadSrc(c, t)
               \/ double_rq_lock(c, t) \/ Migrate(c, t) \/ Up(c, t)
      BY <3>6, MigrationThreadAffinity, ReadDestAffinity, ReadSrcAffinity, RqLockAffinity,
         MigrateAffinity, UpAffinity
    <3> QED
      BY <2>4, <3>1, <3>2, <3>3, <3>4, <3>5, <3>6 DEF Kernel
  <2>5. CASE Call(c, t)
    <3>1. CASE Sleep(c, t) \/ Exit(c, t) \/ Wake(c, t) \/ Fork(c, t)
      BY <3>1, SleepAffinity, ExitAffinity, WakeAffinity, ForkAffinity
    <3>2. CASE Release(c, t)
      BY <3>2, ReleaseAffinity DEF Release
    <3>3. CASE setscheduler(c, t) \/ Setaffinity(c, t)
      BY <3>3, SetschedulerAffinity, SetaffinityAffinity
    <3> QED
      BY <2>5, <3>1, <3>2, <3>3 DEF Call
  <2>6. CASE Tick(c, t) \/ Preempt(c, t)
    BY <2>6, TickAffinity, PreemptAffinity
  <2> QED
    BY <2>3, <2>4, <2>5, <2>6
<1> QED
  BY <1>1, <1>2

\* The build stays the same.
LEMMA BuildStays ==
  ASSUME [Next]_vars
  PROVE  build' = build
<1>1. CASE UNCHANGED vars
  BY <1>1 DEF vars
<1>2. ASSUME NEW c, NEW t, Kernel(c, t) PROVE build' = build
  BY <1>2 DEF Kernel, Schedule, Pick, PickIdle, SwitchTo, ContextSwitch, Balance,
    double_lock_balance, SpinBusiest, Relock, Pull, TickLock, Unlock, try_to_wake_up,
    wake_up_forked_process, wait_task_inactive, set_cpus_allowed, Down, DownCheck,
    migration_thread, ReadDest, ReadSrc, double_rq_lock, Migrate, Up
<1>3. ASSUME NEW c, NEW t, Call(c, t) \/ Tick(c, t) \/ Preempt(c, t) PROVE build' = build
  BY <1>3 DEF Call, Begin, Sleep, Exit, Wake, Fork, Release, setscheduler, Setaffinity, Tick,
    Preempt
<1> QED
  BY <1>1, <1>2, <1>3 DEF Next, KernelStep, UserStep

\* While affinities are changed in order the invariant holds in every state.
LEMMA AffinityInvariant ==
  ASSUME LocksFree
  PROVE  Spec => [](IInv /\ (Orderly(build) => AInv))
<1> DEFINE J == IInv /\ (Orderly(build) => AInv)
<1>1. Init => J
  BY InitInv, InitAffinity
<1>2. J /\ [Next]_vars => J'
  <2>1. SUFFICES ASSUME J, [Next]_vars PROVE J'
    OBVIOUS
  <2>2. IInv'
    BY <2>1, NextStep
  <2>3. build' = build
    BY <2>1, BuildStays
  <2>4. Orderly(build)' => AInv'
    BY <2>1, <2>3, NextAffinity
  <2> QED
    BY <2>2, <2>4
<1> QED
  BY <1>1, <1>2, PTL DEF Spec

\* Once set_cpus_allowed has returned, the task stays on the processors it is allowed on,
\* whoever wakes it, pulls it or moves it (sched.c:458-502, 667-816, 2233-2343): in every
\* build in which no second call changes its mask at the same time, and no fork copies it.
THEOREM OrderlyAffinityKept ==
  ASSUME LocksFree
  PROVE  Spec => [](Orderly(build) => AffinityKept)
<1>1. ASSUME IInv, Orderly(build) => AInv PROVE Orderly(build) => AffinityKept
  <2>1. SUFFICES ASSUME Orderly(build) PROVE AffinityKept
    OBVIOUS
  <2>2. ASSUME NEW p \in Task, task[p].state \in {"RUNNING", "SLEEPING"}, ~Placed(p)
        PROVE  Migrating(p)
    <3>1. PICK u \in Task : Affects(u) /\ local[u].q = p
      BY <1>1, <2>1, <2>2 DEF AInv, Kept
    <3>2. local[u].mask # {}
      BY <1>1, <2>1, <3>1, Constants DEF AInv, Affecting
    <3> QED
      BY <3>1, <3>2 DEF Migrating
  <2> QED
    BY <2>2 DEF AffinityKept, Placed
<1> QED
  BY <1>1, AffinityInvariant, PTL

\* So it stays there in every build, if all are such.
THEOREM AffinityAlwaysKept ==
  ASSUME LocksFree, \A b \in Builds : Orderly(b)
  PROVE  Spec => []AffinityKept
<1>1. IInv => Orderly(build)
  BY TypeParts DEF IInv
<1> QED
  BY <1>1, InvariantHolds, OrderlyAffinityKept, PTL

-----------------------------------------------------------------------------
(* An idle processor is told of work *)

\* The migration thread of c sleeps.
Asleep(c) ==
  /\ task[migration[c]].array = NULL /\ pc[migration[c]] = "migrate"
  /\ \A d \in CPU : on[d] # migration[c] /\ rq[d].curr # migration[c]

\* An idle task in user mode, or in the timer, is told; who is about to be is switched to
\* while the queue is empty.
Told(c) ==
  /\ on[c] = idle[c] /\ (pc[idle[c]] = "user" \/ local[idle[c]].tick) =>
       rq[c].nr_running = 0 \/ task[idle[c]].need_resched
  /\ pc[on[c]] = "switch" /\ rq[c].curr = idle[c] => rq[c].nr_running = 0

\* Where affinities are not changed this is inductive, too.
Aware == \A c \in CPU : Asleep(c) /\ Told(c)

\* Nothing changes for the idle task of processor d.
SameNews(d) ==
  /\ rq'[d].nr_running = rq[d].nr_running /\ rq'[d].curr = rq[d].curr
  /\ task[idle[d]].need_resched => task'[idle[d]].need_resched

\* What a step on c has to leave alone.
LEMMA AwareFrame ==
  ASSUME IInv, Aware, NEW c \in CPU, on' = on,
         \A d \in CPU \ {c} : SameLocals(on[d]),
         \A d \in CPU \ {c} : SameNews(d) \/ Told(d)', Told(c)',
         \A m \in Migrators : /\ pc'[m] = pc[m]
                              /\ task'[m].array = NULL \/ task'[m].array = task[m].array,
         \A d \in CPU : rq'[d].curr \notin Migrators
  PROVE  Aware'
<1>1. ASSUME NEW d \in CPU PROVE Told(d)'
  <2>1. CASE d # c /\ SameNews(d)
    <3>1. SameLocals(on[d]) /\ Told(d)
      BY <2>1 DEF Aware
    <3> QED
      BY <2>1, <3>1 DEF Told, SameLocals, SameNews
  <2> QED
    BY <2>1
<1>2. ASSUME NEW d \in CPU PROVE Asleep(d)'
  <2>1. Asleep(d) /\ migration[d] \in Migrators
    BY Constants DEF Aware
  <2> QED
    BY <2>1 DEF Asleep
<1> QED
  BY <1>1, <1>2 DEF Aware

\* A step of t alone that changes no counter, and tells no idle task anything.
LEMMA AwareAlone ==
  ASSUME IInv, Aware, NEW c \in CPU, NEW t, t = on[c], on' = on,
         \A u \in Thread \ {t} : SameLocals(u),
         \A u \in Thread : /\ task'[u].array = task[u].array
                           /\ task'[u].need_resched = task[u].need_resched,
         \A d \in CPU : rq'[d].nr_running = rq[d].nr_running /\ rq'[d].curr = rq[d].curr,
         pc'[t] # "switch",
         t \in Idlers /\ (pc'[t] = "user" \/ local'[t].tick) => pc[t] = "user" \/ local[t].tick
  PROVE  Aware'
<1>1. \A d \in CPU : /\ on[d] \in Thread /\ idle[d] \in Thread /\ idle[d] \in Idlers
                     /\ migration[d] \in Thread
                     /\ d # c => on[d] # t
  BY Acting, Constants
<1>2. \A d \in CPU : SameNews(d)
  BY <1>1 DEF SameNews
<1>3. \A d \in CPU \ {c} : SameLocals(on[d])
  BY <1>1
<1>4. ASSUME NEW m \in Migrators PROVE m # t /\ m \in Thread
  <2>1. PICK d \in CPU : m = migration[d]
    BY DEF Migrators
  <2>2. Asleep(d)
    BY DEF Aware
  <2> QED
    BY <1>1, <2>1, <2>2 DEF Asleep
<1>5. \A d \in CPU : rq'[d].curr \notin Migrators
  BY DEF Aware, Asleep, Migrators
<1>6. Told(c)'
  <2>1. Told(c)
    BY DEF Aware
  <2> QED
    BY <1>1, <2>1 DEF Told
<1>7. \A m \in Migrators : /\ pc'[m] = pc[m]
                           /\ task'[m].array = NULL \/ task'[m].array = task[m].array
  BY <1>4 DEF SameLocals
<1> QED
  BY <1>2, <1>3, <1>5, <1>6, <1>7, AwareFrame

\* Where affinities are not changed only processes and idle tasks run, and wake others.
LEMMA NoMigrator ==
  ASSUME IInv, AInv, Aware, "affinity" \notin build.calls, NEW c \in CPU, NEW t, t = on[c]
  PROVE  /\ t \in Thread /\ t \notin Migrators
         /\ pc[t] \notin {"affinity", "down", "down_check", "migrate"} \cup Migration
         /\ pc[t] = "wake" => local[t].w \in Task
<1>1. t \in Thread /\ ThreadOK(t)
  BY Acting
<1>2. t \notin Migrators
  BY DEF Aware, Asleep, Migrators
<1>3. t \in Task \/ t \in Idlers
  BY <1>1, <1>2, Constants
<1>4. pc[t] \notin {"migrate"} \cup Migration
  BY <1>1, <1>3 DEF ThreadOK, KindOK, InSchedule, Balancing, Migration
<1>5. ~Affects(t)
  BY <1>1 DEF AInv, Affecting
<1>6. pc[t] \notin {"affinity", "down", "down_check"}
  BY <1>5 DEF Affects, Back, InSchedule, Balancing
<1>7. pc[t] = "wake" => local[t].w \in Task
  BY <1>1, <1>5 DEF AInv, Affecting, ThreadOK, ArgsOK
<1> QED
  BY <1>1, <1>2, <1>4, <1>6, <1>7

\* A call begins.
LEMMA CallTold ==
  ASSUME IInv, Aware, NEW c \in CPU, NEW t, NEW call, NEW place \in PCs \ {"switch"},
         NEW l \in Locals, Begin(c, t, call, place, l),
         \A u \in Thread : /\ task'[u].array = task[u].array
                           /\ task'[u].need_resched = task[u].need_resched
  PROVE  Aware'
<1>1. /\ t = on[c] /\ t \in Task /\ pc'[t] = place /\ Alone(t) /\ rq' = rq /\ on' = on
  BY BeginEffect
<1>2. t \notin Idlers
  BY <1>1, Constants
<1> QED
  BY <1>1, <1>2, AwareAlone DEF Alone

-----------------------------------------------------------------------------
(* Steps of one task alone *)

\* A process gives way to wait.
LEMMA SleepTold ==
  ASSUME IInv, Aware, NEW c \in CPU, NEW t, Sleep(c, t)
  PROVE  Aware'
<1> DEFINE l == [NoLocal EXCEPT !.then = "user"]
<1>1. l \in Locals
  BY DEF NoLocal, Locals, PCs
<1>2. Begin(c, t, "sleep", "schedule", l) /\ task' = [task EXCEPT ![t].state = "SLEEPING"]
  BY DEF Sleep
<1> HIDE DEF l
<1>3. "schedule" \in PCs \ {"switch"}
  BY DEF PCs
<1>4. \A u \in Thread : /\ task'[u].array = task[u].array
                        /\ task'[u].need_resched = task[u].need_resched
  BY <1>2, TypeParts DEF IInv, TaskStructs
<1> QED
  BY <1>1, <1>2, <1>3, <1>4, CallTold

\* do_exit begins.
LEMMA ExitTold ==
  ASSUME IInv, Aware, NEW c \in CPU, NEW t, Exit(c, t)
  PROVE  Aware'
<1> DEFINE l == [NoLocal EXCEPT !.then = "none"]
<1>1. l \in Locals
  BY DEF NoLocal, Locals, PCs
<1>2. Begin(c, t, "exit", "schedule", l) /\ task' = [task EXCEPT ![t].state = "ZOMBIE"]
  BY DEF Exit
<1> HIDE DEF l
<1>3. "schedule" \in PCs \ {"switch"}
  BY DEF PCs
<1>4. \A u \in Thread : /\ task'[u].array = task[u].array
                        /\ task'[u].need_resched = task[u].need_resched
  BY <1>2, TypeParts DEF IInv, TaskStructs
<1> QED
  BY <1>1, <1>2, <1>3, <1>4, CallTold

\* wake_up begins.
LEMMA WakeTold ==
  ASSUME IInv, Aware, NEW c \in CPU, NEW t, Wake(c, t)
  PROVE  Aware'
<1>1. PICK q \in Task \ {t}, sync \in BOOLEAN :
        /\ task' = task
        /\ Begin(c, t, "wake", "wake", [NoLocal EXCEPT !.w = q, !.sync = sync, !.then = "user"])
  BY DEF Wake
<1> DEFINE l == [NoLocal EXCEPT !.w = q, !.sync = sync, !.then = "user"]
<1>2. l \in Locals
  BY Constants, Zenon DEF NoLocal, Locals, PCs
<1>3. Begin(c, t, "wake", "wake", l)
  BY <1>1
<1> HIDE DEF l
<1>4. "wake" \in PCs \ {"switch"}
  BY DEF PCs
<1> QED
  BY <1>1, <1>2, <1>3, <1>4, CallTold

\* A call about process q begins: release_task, setscheduler, or do_fork.
LEMMA AboutTold ==
  ASSUME IInv, Aware, NEW c \in CPU, NEW t, NEW q \in Task, NEW call,
         NEW place \in {"inactive", "setscheduler", "fork"},
         Begin(c, t, call, place, [NoLocal EXCEPT !.q = q]),
         \A u \in Thread : /\ task'[u].array = task[u].array
                           /\ task'[u].need_resched = task[u].need_resched
  PROVE  Aware'
<1> DEFINE l == [NoLocal EXCEPT !.q = q]
<1>1. l \in Locals
  BY Constants, Zenon DEF NoLocal, Locals, PCs
<1>2. Begin(c, t, call, place, l)
  OBVIOUS
<1> HIDE DEF l
<1>3. place \in PCs \ {"switch"}
  BY DEF PCs
<1> QED
  BY <1>1, <1>2, <1>3, CallTold

\* Calls about another process, and the end of setscheduler.
LEMMA CallsTold ==
  ASSUME LocksFree, IInv, Aware, "affinity" \notin build.calls, NEW c \in CPU, NEW t, Call(c, t)
  PROVE  Aware'
<1>1. CASE Sleep(c, t) \/ Exit(c, t) \/ Wake(c, t)
  BY <1>1, SleepTold, ExitTold, WakeTold
<1>2. CASE Fork(c, t)
  <2>1. PICK p \in Task :
          /\ Begin(c, t, "fork", "fork", [NoLocal EXCEPT !.q = p])
          /\ task' = [task EXCEPT ![p].cpus_allowed = task[t].cpus_allowed]
    BY <1>2 DEF Fork
  <2>2. PICK mask : mask = task[t].cpus_allowed
    OBVIOUS
  <2>3. task' = [task EXCEPT ![p].cpus_allowed = mask]
    BY <2>1, <2>2
  <2>4. \A u \in Thread : /\ task'[u].array = task[u].array
                          /\ task'[u].need_resched = task[u].need_resched
    BY <2>3, TypeParts DEF IInv, TaskStructs
  <2> QED
    BY <2>1, <2>4, AboutTold
<1>3. CASE Release(c, t)
  BY <1>3, AboutTold DEF Release
<1>4. CASE setscheduler(c, t)
  <2>1. CASE \E q \in Task : /\ task' = task
               /\ Begin(c, t, "setscheduler", "setscheduler", [NoLocal EXCEPT !.q = q])
    BY <2>1, AboutTold
  <2>2. CASE /\ At(c, t, "setscheduler") /\ ~build.short
             /\ local' = [local EXCEPT ![t] = NoLocal] /\ Goto(t, "user") /\ rq' = rq
             /\ UNCHANGED << task, on, ops, build >>
    <3>1. /\ t = on[c] /\ t \in Thread /\ pc[t] = "setscheduler" /\ KindOK(t)
          /\ pc \in [Thread -> PCs] /\ local \in [Thread -> Locals]
      BY <2>2, Acting DEF At, ThreadOK
    <3>2. t \notin Idlers
      BY <3>1 DEF KindOK, InSchedule, Balancing
    <3>3. pc'[t] = "user" /\ \A u \in Thread \ {t} : SameLocals(u)
      BY <2>2, <3>1 DEF SameLocals, Goto
    <3> QED
      BY <2>2, <3>1, <3>2, <3>3, AwareAlone
  <2>3. ~build.short
    BY TypeParts DEF LocksFree, IInv
  <2> QED
    BY <1>4, <2>1, <2>2, <2>3 DEF setscheduler
<1>5. CASE Setaffinity(c, t)
  BY <1>5 DEF Setaffinity, Begin
<1> QED
  BY <1>1, <1>2, <1>3, <1>4, <1>5 DEF Call

\* load_balance goes on.
LEMMA BalancerTold ==
  ASSUME IInv, Aware, NEW c \in CPU, NEW t, t = on[c], pc[t] \in Balancing,
         NEW place \in Balancing \cup {IF local[t].tick THEN "unlock" ELSE "balanced"},
         Goto(t, place) \/ (pc' = pc /\ place = pc[t]), Locks(c), task' = task, on' = on,
         local' = local \/ \E b \in CPU : local' = [local EXCEPT ![t].busiest = b]
  PROVE  Aware'
<1>1. /\ t \in Thread /\ local \in [Thread -> Locals] /\ pc \in [Thread -> PCs]
      /\ place \in PCs /\ rq \in [CPU -> RunQueues]
  BY Acting DEF PCs, Balancing
<1>2. pc'[t] = place /\ \A u \in Thread \ {t} : pc'[u] = pc[u]
  BY <1>1 DEF Goto
<1>3. local'[t].tick = local[t].tick /\ \A u \in Thread \ {t} : local'[u] = local[u]
  <2>1. CASE local' = local
    BY <2>1
  <2>2. ASSUME NEW b \in CPU, local' = [local EXCEPT ![t].busiest = b]
        PROVE  local'[t].tick = local[t].tick /\ \A u \in Thread \ {t} : local'[u] = local[u]
    BY <1>1, <2>2 DEF Locals
  <2> QED
    BY <2>1, <2>2
<1>4. \A d \in CPU : rq'[d].nr_running = rq[d].nr_running /\ rq'[d].curr = rq[d].curr
  <2>1. CASE rq' = rq
    BY <2>1
  <2>2. CASE rq' # rq
    BY <1>1, <2>2, Locking DEF Locks
  <2> QED
    BY <2>1, <2>2
<1>5. \A u \in Thread \ {t} : SameLocals(u)
  BY <1>2, <1>3 DEF SameLocals
<1>6. pc'[t] \notin {"switch", "user"}
  BY <1>2 DEF Balancing
<1> QED
  BY <1>3, <1>4, <1>5, <1>6, AwareAlone

\* Looking around.
LEMMA BalanceTold ==
  ASSUME IInv, Aware, NEW c \in CPU, NEW t, Balance(c, t)
  PROVE  Aware'
<1>1. /\ t = on[c] /\ pc[t] = "balance" /\ rq' = rq /\ task' = task /\ on' = on
  BY DEF Balance, At
<1>2. \/ Return(t) /\ local' = local
      \/ Goto(t, "balance_lock") /\ \E b \in CPU : local' = [local EXCEPT ![t].busiest = b]
  BY DEF Balance
<1>3. PICK place \in Balancing \cup {IF local[t].tick THEN "unlock" ELSE "balanced"} :
        Goto(t, place)
  BY <1>2 DEF Return, Balancing
<1> QED
  BY <1>1, <1>2, <1>3, BalancerTold DEF Balancing, Locks

\* double_lock_balance.
LEMMA DoubleLockTold ==
  ASSUME IInv, Aware, NEW c \in CPU, NEW t, double_lock_balance(c, t)
  PROVE  Aware'
<1>1. PICK b : b = local[t].busiest
  OBVIOUS
<1>2. /\ t = on[c] /\ pc[t] = "balance_lock" /\ LocksOf(c) /\ b \in CPU
      /\ UNCHANGED << task, on, local >>
  BY <1>1, Acting DEF double_lock_balance, At, CpuOK, ThreadOK, ArgsOK, Balancing
<1>3. rq[c].lock = c
  BY <1>2 DEF LocksOf, Held
<1>4. PICK place \in Balancing : Goto(t, place) /\ Locks(c)
  BY <1>1, <1>2, <1>3 DEF double_lock_balance, Lock, Unlocked, Locks, Balancing
<1> QED
  BY <1>2, <1>4, BalancerTold DEF Balancing

\* The lock of the busiest queue is taken later.
LEMMA SpinTold ==
  ASSUME IInv, Aware, NEW c \in CPU, NEW t, SpinBusiest(c, t) \/ Relock(c, t)
  PROVE  Aware'
<1>1. PICK b : b = local[t].busiest
  OBVIOUS
<1>2. /\ t = on[c] /\ pc[t] \in {"balance_spin", "balance_relock"} /\ b \in CPU
      /\ UNCHANGED << task, on, local >>
  BY <1>1, Acting DEF SpinBusiest, Relock, At, ThreadOK, ArgsOK, Balancing
<1>3. (Goto(t, "pull") \/ pc' = pc) /\ Locks(c)
  BY <1>1, <1>2 DEF SpinBusiest, Relock, Lock, Unlocked, Locks
<1>4. PICK place \in Balancing : Goto(t, place) \/ (pc' = pc /\ place = pc[t])
  BY <1>2, <1>3 DEF Balancing
<1> QED
  BY <1>2, <1>3, <1>4, BalancerTold DEF Balancing

-----------------------------------------------------------------------------
(* The timer, wait_task_inactive and schedule() *)

\* The timer comes, and its load_balance begins and returns; a task gives way.
LEMMA TimerTold ==
  ASSUME IInv, Aware, NEW c \in CPU, NEW t,
         Tick(c, t) \/ TickLock(c, t) \/ Unlock(c, t) \/ Preempt(c, t)
  PROVE  Aware'
<1>1. /\ t = on[c] /\ t \in Thread /\ KindOK(t) /\ LocksOf(c) /\ rq \in [CPU -> RunQueues]
      /\ pc \in [Thread -> PCs] /\ local \in [Thread -> Locals] /\ on' = on /\ task' = task
  BY Acting DEF Tick, TickLock, Unlock, Preempt, At, ThreadOK, CpuOK
<1>2. CASE Tick(c, t) \/ Preempt(c, t)
  <2>1. /\ rq' = rq /\ pc[t] = "user" /\ pc'[t] \in {"tick", "schedule"}
        /\ \A u \in Thread \ {t} : SameLocals(u)
    BY <1>1, <1>2 DEF Tick, Preempt, At, Goto, SameLocals
  <2> QED
    BY <1>1, <2>1, AwareAlone
<1>3. CASE TickLock(c, t)
  <2>1. /\ rq' = [rq EXCEPT ![c].lock = c] /\ pc'[t] = "balance" /\ local' = local
        /\ \A u \in Thread \ {t} : SameLocals(u)
    BY <1>1, <1>3 DEF TickLock, Lock, Goto, SameLocals
  <2>2. \A d \in CPU : rq'[d].nr_running = rq[d].nr_running /\ rq'[d].curr = rq[d].curr
    BY <1>1, <2>1 DEF RunQueues
  <2> QED
    BY <1>1, <2>1, <2>2, AwareAlone
<1>4. CASE Unlock(c, t)
  <2>1. pc[t] = "unlock" /\ pc'[t] = "user" /\ \A u \in Thread \ {t} : SameLocals(u)
    BY <1>1, <1>4 DEF Unlock, At, Goto, SameLocals
  <2>2. local[t].tick /\ local[t].q = NULL
    BY <1>1, <2>1 DEF KindOK, Back, InSchedule, Balancing
  <2>3. rq' = [rq EXCEPT ![c].lock = NULL]
    BY <1>4, <2>2 DEF Unlock, Lock
  <2>4. \A d \in CPU : rq'[d].nr_running = rq[d].nr_running /\ rq'[d].curr = rq[d].curr
    BY <1>1, <2>3 DEF RunQueues
  <2> QED
    BY <1>1, <2>1, <2>2, <2>4, AwareAlone
<1> QED
  BY <1>2, <1>3, <1>4

\* wait_task_inactive.
LEMMA InactiveTold ==
  ASSUME IInv, Aware, NEW c \in CPU, NEW t, wait_task_inactive(c, t)
  PROVE  Aware'
<1>1. t = on[c] /\ pc[t] \in {"inactive", "inactive_lock"} /\ rq' = rq /\ on' = on
  BY DEF wait_task_inactive, At
<1>2. /\ t \in Thread /\ t \notin Idlers /\ task \in [Thread -> TaskStructs]
      /\ pc \in [Thread -> PCs] /\ local \in [Thread -> Locals]
  BY <1>1, Releasing
<1>3. pc'[t] # "switch" /\ \A u \in Thread \ {t} : SameLocals(u)
  BY <1>2 DEF wait_task_inactive, Goto, SameLocals
<1>4. PICK q : q = local[t].q
  OBVIOUS
<1>5. \A u \in Thread : /\ task'[u].array = task[u].array
                        /\ task'[u].need_resched = task[u].need_resched
  <2>1. CASE task' = task
    BY <2>1
  <2>2. CASE task' = [task EXCEPT ![q].state = "FREE"]
    BY <1>2, <2>2 DEF TaskStructs
  <2> QED
    BY <1>4, <2>1, <2>2 DEF wait_task_inactive
<1> QED
  BY <1>1, <1>2, <1>3, <1>5, AwareAlone

\* schedule() begins: the counter goes down at most.
LEMMA ScheduleTold ==
  ASSUME IInv, Aware, NEW c \in CPU, NEW t, Schedule(c, t)
  PROVE  Aware'
<1>1. /\ t = on[c] /\ pc[t] = "schedule" /\ t \in Thread /\ KindOK(t)
      /\ rq \in [CPU -> RunQueues] /\ task \in [Thread -> TaskStructs] /\ task[t].cpu = c
      /\ pc \in [Thread -> PCs] /\ local' = local /\ on' = on
  BY Acting DEF Schedule, At, ThreadOK
<1>2. pc'[t] \in {"balance", "pick"} /\ \A u \in Thread \ {t} : SameLocals(u)
  BY <1>1 DEF Schedule, Goto, SameLocals
<1>3. ~local[t].tick
  BY <1>1 DEF KindOK, Balancing
<1>4. /\ \A d \in CPU : rq'[d].curr = rq[d].curr
      /\ \A d \in CPU \ {c} : rq'[d].nr_running = rq[d].nr_running
      /\ \A u \in Thread : /\ task'[u].need_resched = task[u].need_resched
                           /\ task'[u].array = NULL \/ task'[u].array = task[u].array
  <2>1. CASE task[t].state = "RUNNING"
    <3>1. task' = task /\ rq' = [rq EXCEPT ![c].lock = c]
      BY <2>1 DEF Schedule
    <3> QED
      BY <1>1, <3>1 DEF RunQueues
  <2>2. CASE task[t].state # "RUNNING"
    <3>1. /\ task' = [task EXCEPT ![t].array = NULL]
          /\ rq' = [[rq EXCEPT ![c].nr_running = @ - 1] EXCEPT ![c].lock = c]
      BY <1>1, <2>2 DEF Schedule, deactivate_task
    <3>2. /\ \A d \in CPU : rq'[d].curr = rq[d].curr
          /\ \A d \in CPU \ {c} : rq'[d].nr_running = rq[d].nr_running
      BY <1>1, <3>1 DEF RunQueues
    <3> QED
      BY <1>1, <3>1, <3>2 DEF TaskStructs
  <2> QED
    BY <2>1, <2>2
<1>5. \A d \in CPU \ {c} : SameLocals(on[d])
  BY <1>1, <1>2, Acting
<1>6. \A d \in CPU : SameNews(d) \/ d = c
  BY <1>4, Constants DEF SameNews
<1>7. Told(c)'
  BY <1>1, <1>2, <1>3 DEF Told
<1>8. \A m \in Migrators : m \in Thread /\ m # t
  BY <1>1, Constants DEF Aware, Asleep, Migrators
<1>9. \A d \in CPU : rq'[d].curr \notin Migrators
  BY <1>4 DEF Aware, Asleep, Migrators
<1>10. \A m \in Migrators : /\ pc'[m] = pc[m]
                            /\ task'[m].array = NULL \/ task'[m].array = task[m].array
  BY <1>2, <1>4, <1>8 DEF SameLocals
<1> QED
  BY <1>1, <1>5, <1>6, <1>7, <1>9, <1>10, AwareFrame

\* Who is chosen: the idle task only when the queue is empty.
LEMMA SwitchTold ==
  ASSUME IInv, Aware, NEW c \in CPU, NEW t, t = on[c], pc[t] \in {"pick", "balanced"},
         NEW next, SwitchTo(c, t, next),
         next \in Queued(c) \/ (next = idle[c] /\ rq[c].nr_running = 0)
  PROVE  Aware'
<1>1. /\ t \in Thread /\ KindOK(t) /\ TaskInv(t) /\ rq \in [CPU -> RunQueues]
      /\ task \in [Thread -> TaskStructs] /\ pc \in [Thread -> PCs] /\ task[t].cpu = c
      /\ local \in [Thread -> Locals] /\ on' = on
      /\ task' = [task EXCEPT ![t].need_resched = FALSE]
  BY Acting DEF ThreadOK, SwitchTo
<1>2. ~local[t].tick /\ local[t].then \in Resume
  BY <1>1 DEF KindOK, InSchedule, Balancing
<1>3. next \in Queued(c) => next \in Thread /\ next \notin Migrators /\ next \notin Idlers
  <2>1. SUFFICES ASSUME next \in Thread, task[next].array = c
                 PROVE  next \notin Migrators /\ next \notin Idlers
    BY DEF Queued
  <2>2. TaskInv(next) /\ c # NULL
    BY <2>1, Constants DEF IInv, ThreadOK
  <2> QED
    BY <2>1, <2>2 DEF TaskInv, Aware, Asleep, Migrators
<1>4. \/ /\ next = t /\ rq' = [rq EXCEPT ![c].lock = NULL] /\ pc'[t] = local[t].then
         /\ local'[t].tick = local[t].tick
      \/ /\ next # t /\ rq' = [rq EXCEPT ![c].curr = next] /\ pc'[t] = "switch"
         /\ local' = local
  BY <1>1 DEF SwitchTo, Goto, Locals
<1>5. \A u \in Thread \ {t} : SameLocals(u)
  BY <1>1 DEF SwitchTo, Goto, SameLocals
<1>6. /\ \A d \in CPU : /\ rq'[d].nr_running = rq[d].nr_running
                        /\ rq'[d].curr = rq[d].curr \/ (d = c /\ rq'[d].curr = next)
      /\ pc'[t] = "switch" => rq'[c].curr = next
  BY <1>1, <1>2, <1>4 DEF RunQueues, Resume
<1>7. /\ \A u \in Thread : task'[u].array = task[u].array
      /\ \A u \in Thread \ {t} : task'[u] = task[u]
  BY <1>1 DEF TaskStructs
<1>8. \A d \in CPU \ {c} : SameLocals(on[d]) /\ SameNews(d)
  <2> TAKE d \in CPU \ {c}
  <2>1. on[d] \in Thread /\ on[d] # t
    BY Acting
  <2>2. idle[d] \in Thread /\ idle[d] # t
    BY <1>1, Constants DEF TaskInv
  <2> QED
    BY <1>5, <1>6, <1>7, <2>1, <2>2 DEF SameNews
<1>9. Told(c)'
  <2>1. on'[c] = t /\ rq'[c].nr_running = rq[c].nr_running
    BY <1>1, <1>6
  <2>2. idle[c] \in Idlers
    BY Constants
  <2>3. CASE next = t
    <3>1. pc'[t] # "switch"
      BY <1>2, <1>4, <2>3 DEF Resume
    <3> QED
      BY <1>3, <2>1, <2>2, <2>3, <3>1 DEF Told
  <2>4. CASE next # t
    BY <1>2, <1>3, <1>4, <1>6, <2>1, <2>2, <2>4 DEF Told
  <2> QED
    BY <2>3, <2>4
<1>10. \A m \in Migrators : m \in Thread /\ m # t
  BY Constants DEF Aware, Asleep, Migrators
<1>11. \A d \in CPU : rq'[d].curr \notin Migrators
  BY <1>3, <1>6, Constants DEF Aware, Asleep, Migrators
<1>12. \A m \in Migrators : /\ pc'[m] = pc[m]
                            /\ task'[m].array = NULL \/ task'[m].array = task[m].array
  BY <1>5, <1>7, <1>10 DEF SameLocals
<1> QED
  BY <1>1, <1>8, <1>9, <1>11, <1>12, AwareFrame

\* schedule() goes on, to a task of the queue or to the idle task.
LEMMA PickTold ==
  ASSUME IInv, Aware, NEW c \in CPU, NEW t, Pick(c, t) \/ PickIdle(c, t)
  PROVE  Aware'
<1>1. t = on[c] /\ pc[t] \in {"pick", "balanced"}
  BY DEF Pick, PickIdle, At
<1>2. CASE \E next : /\ SwitchTo(c, t, next)
                     /\ next \in Queued(c) \/ (next = idle[c] /\ rq[c].nr_running = 0)
  BY <1>1, <1>2, SwitchTold
<1>3. CASE /\ pc[t] = "balanced" /\ Goto(t, "pick")
           /\ UNCHANGED << rq, task, on, local, ops, build >>
  <2>1. t \in Thread /\ pc \in [Thread -> PCs]
    BY <1>1, Acting
  <2>2. pc'[t] = "pick" /\ \A u \in Thread \ {t} : SameLocals(u)
    BY <1>3, <2>1 DEF Goto, SameLocals
  <2> QED
    BY <1>1, <1>3, <2>2, AwareAlone
<1>4. rq[c].nr_running \in Nat
  BY TypeParts DEF IInv, RunQueues
<1> QED
  BY <1>1, <1>2, <1>3, <1>4 DEF Pick, PickIdle, At

\* The stack is switched to the idle task only while the queue is empty.
LEMMA ContextSwitchTold ==
  ASSUME IInv, Aware, NEW c \in CPU, NEW t, ContextSwitch(c, t)
  PROVE  Aware'
<1>1. PICK n : n = rq[c].curr
  OBVIOUS
<1>2. /\ t = on[c] /\ pc[t] = "switch" /\ t \in Thread /\ StackOK(c)
      /\ rq \in [CPU -> RunQueues] /\ pc \in [Thread -> PCs] /\ on \in [CPU -> Thread]
      /\ local \in [Thread -> Locals] /\ task' = task /\ on' = [on EXCEPT ![c] = n]
      /\ rq' = [rq EXCEPT ![c].lock = NULL] /\ Goto(t, local[t].then)
      /\ local' = [local EXCEPT ![t].then = "none"]
  BY <1>1, Acting DEF ContextSwitch, At, CpuOK
<1>3. n \in Thread /\ n # t /\ pc[n] # "switch"
  <2>1. n \in Thread /\ n # t /\ task[n].cpu = c
    BY <1>1, <1>2 DEF StackOK, RunQueues
  <2>2. Off(n)
    BY <1>2, <2>1, Acting DEF Off
  <2> QED
    BY <2>1, <2>2 DEF IInv, ThreadOK, TaskInv, Resume
<1>4. \A u \in Thread \ {t} : SameLocals(u)
  BY <1>2 DEF Goto, SameLocals
<1>5. \A d \in CPU : rq'[d].nr_running = rq[d].nr_running /\ rq'[d].curr = rq[d].curr
  BY <1>2 DEF RunQueues
<1>6. \A d \in CPU : on'[d] = IF d = c THEN n ELSE on[d]
  BY <1>2
<1>7. ASSUME NEW d \in CPU PROVE Told(d)'
  <2>1. Told(d) /\ Told(c)
    BY DEF Aware
  <2>2. CASE d = c
    BY <1>1, <1>2, <1>3, <1>4, <1>5, <1>6, <2>1, <2>2 DEF Told, SameLocals
  <2>3. CASE d # c
    <3>1. on[d] \in Thread \ {t} /\ on'[d] = on[d]
      BY <1>2, <1>6, <2>3, Acting
    <3>2. SameLocals(on[d])
      BY <1>4, <3>1
    <3> QED
      BY <1>2, <1>5, <2>1, <3>1, <3>2 DEF Told, SameLocals
  <2> QED
    BY <2>2, <2>3
<1>8. ASSUME NEW d \in CPU PROVE Asleep(d)'
  <2>1. Asleep(d) /\ migration[d] \in Thread
    BY Constants DEF Aware
  <2>2. migration[d] # t /\ migration[d] # n
    BY <1>1, <1>2, <2>1 DEF Asleep
  <2>3. SameLocals(migration[d])
    BY <1>4, <2>1, <2>2
  <2> QED
    BY <1>2, <1>5, <1>6, <2>1, <2>2, <2>3 DEF Asleep, SameLocals
<1> QED
  BY <1>7, <1>8 DEF Aware

-----------------------------------------------------------------------------
(* Steps that bring a processor work *)

\* resched_task tells an idle task, and takes nothing back.
LEMMA ReschedTells ==
  ASSUME NEW T, T \in [Thread -> TaskStructs], NEW v
  PROVE  \A u \in Thread :
           LET r == resched_task(T, v)[u]
           IN  /\ T[u].need_resched => r.need_resched
               /\ u = v /\ u \in Idlers => r.need_resched
<1>1. ASSUME NEW u \in Thread
      PROVE  LET r == resched_task(T, v)[u]
             IN  /\ T[u].need_resched => r.need_resched
                 /\ u = v /\ u \in Idlers => r.need_resched
  <2>1. PICK k : k = [T[u] EXCEPT !.need_resched = TRUE]
    OBVIOUS
  <2>2. k.need_resched
    <3>1. T[u] \in TaskStructs
      OBVIOUS
    <3> QED
      BY <2>1, <3>1 DEF TaskStructs
  <2>3. CASE u = v /\ u \in Idlers
    <3>1. resched_task(T, v)[u] = k
      BY <2>1, <2>3, Zenon DEF resched_task, Idlers
    <3> QED
      BY <2>2, <3>1
  <2>4. CASE ~(u = v /\ u \in Idlers)
    <3>1. resched_task(T, v)[u] = T[u]
      BY <2>4, Zenon DEF resched_task, Idlers
    <3> QED
      BY <2>4, <3>1
  <2> QED
    BY <2>3, <2>4
<1> QED
  BY <1>1

\* try_to_wake_up tells the processor that the task is queued on.
LEMMA TryToWakeTold ==
  ASSUME IInv, AInv, Aware, "affinity" \notin build.calls, NEW c \in CPU, NEW t,
         try_to_wake_up(c, t)
  PROVE  Aware'
<1>1. PICK p, old : p = local[t].w /\ old = task[p].cpu
  OBVIOUS
<1>2. t = on[c] /\ pc[t] = "wake" /\ on' = on /\ Unlocked(old)
  BY <1>1 DEF try_to_wake_up, At
<1>3. /\ t \in Thread /\ rq \in [CPU -> RunQueues] /\ task \in [Thread -> TaskStructs]
      /\ pc \in [Thread -> PCs] /\ local \in [Thread -> Locals] /\ t \notin Idlers
      /\ local[t].then \in {"user", "down", "migrate"}
      /\ p \in Thread /\ old \in CPU
  BY <1>1, <1>2, Waking DEF TaskStructs
<1>4. p \in Task /\ p \notin Migrators /\ p \notin Idlers /\ t \notin Migrators
  BY <1>1, <1>2, NoMigrator, Constants
<1>5. CASE task[p].array = NULL /\ FastMigrates(c, p, local[t].sync)
  <2>1. task' = [task EXCEPT ![p].cpu = c] /\ UNCHANGED << rq, pc, local >>
    BY <1>1, <1>5 DEF try_to_wake_up
  <2>2. \A u \in Thread : /\ task'[u].array = task[u].array
                          /\ task'[u].need_resched = task[u].need_resched
    BY <1>3, <2>1 DEF TaskStructs
  <2> QED
    BY <1>2, <1>3, <2>1, <2>2, AwareAlone DEF SameLocals
<1>6. ASSUME ~(task[p].array = NULL /\ FastMigrates(c, p, local[t].sync)) PROVE Aware'
  <2>1. pc'[t] # "switch" /\ \A u \in Thread \ {t} : SameLocals(u)
    <3>1. /\ Goto(t, local[t].then)
          /\ local' = [local EXCEPT ![t].w = NULL, ![t].sync = FALSE, ![t].then = "none"]
      BY <1>1, <1>6 DEF try_to_wake_up
    <3>2. \A u \in Thread \ {t} : local'[u] = local[u]
      BY <1>3, <3>1
    <3> QED
      BY <1>3, <3>1, <3>2 DEF Goto, SameLocals
  <2>2. PICK awake : awake = [task EXCEPT ![p].state = "RUNNING"]
    OBVIOUS
  <2>3. /\ awake \in [Thread -> TaskStructs] /\ \A u \in Thread \ {p} : awake[u] = task[u]
        /\ awake[p].cpu = old /\ awake[p].array = task[p].array
        /\ awake[p].need_resched = task[p].need_resched
    <3>1. PICK k : k = [task[p] EXCEPT !.state = "RUNNING"]
      OBVIOUS
    <3>2. task[p] \in TaskStructs
      BY <1>3
    <3>3. /\ k \in TaskStructs /\ k.cpu = old /\ k.array = task[p].array
          /\ k.need_resched = task[p].need_resched
      BY <1>1, <3>1, <3>2 DEF TaskStructs
    <3>4. awake = [task EXCEPT ![p] = k]
      BY <2>2, <3>1
    <3> QED
      BY <1>3, <3>3, <3>4
  <2>4. CASE task[p].array # NULL
    <3>1. task' = awake /\ rq' = rq
      BY <1>1, <1>6, <2>2, <2>4 DEF try_to_wake_up
    <3>2. \A u \in Thread : /\ task'[u].array = task[u].array
                            /\ task'[u].need_resched = task[u].need_resched
      BY <2>3, <3>1
    <3> QED
      BY <1>2, <1>3, <2>1, <3>1, <3>2, AwareAlone
  <2>5. CASE task[p].array = NULL
    <3>1. PICK A, R, v : A = activate_task(awake, rq, p) /\ R = rq /\ v = rq[old].curr
      OBVIOUS
    <3>2. task' = resched_task(A[1], v) /\ rq' = A[2]
      BY <1>1, <1>6, <2>2, <2>5, <3>1 DEF try_to_wake_up
    <3>3. /\ A[1] \in [Thread -> TaskStructs]
          /\ \A u \in Thread \ {p} : A[1][u] = awake[u]
          /\ \A e \in CPU : /\ A[2][e].nr_running = IF e = old THEN R[e].nr_running + 1
                                                               ELSE R[e].nr_running
                            /\ A[2][e].curr = R[e].curr
      <4>1. /\ R \in [CPU -> RunQueues] /\ A = activate_task(awake, R, p) /\ awake[p].cpu = old
            /\ awake \in [Thread -> TaskStructs] /\ p \in Thread /\ old \in CPU
        BY <1>3, <2>3, <3>1
      <4>2. /\ A[1] \in [Thread -> TaskStructs]
            /\ \A u \in Thread \ {p} : A[1][u] = awake[u]
            /\ \A e \in CPU : /\ A[2][e].nr_running = IF e = old THEN R[e].nr_running + 1
                                                                 ELSE R[e].nr_running
                              /\ A[2][e].curr = R[e].curr
        BY <4>1, ActivateEffect
      <4> QED
        BY <4>2
    <3>4. PICK T : T = A[1]
      OBVIOUS
    <3>5. \A u \in Thread :
            /\ T[u].need_resched => task'[u].need_resched
            /\ u = v /\ u \in Idlers => task'[u].need_resched
      BY <3>2, <3>3, <3>4, ReschedTells
    <3>6. \A u \in Thread : task'[u].array = T[u].array
      BY <3>2, <3>3, <3>4, ReschedSame
    <3>7. \A u \in Thread \ {p} : T[u] = task[u]
      BY <2>3, <3>3, <3>4
    <3>8. \A d \in CPU : /\ rq'[d].curr = rq[d].curr
                         /\ d # old => rq'[d].nr_running = rq[d].nr_running
      BY <3>1, <3>2, <3>3
    <3>9. \A d \in CPU \ {c} : SameLocals(on[d])
      BY <1>2, <2>1, Acting
    <3>10. \A d \in CPU : idle[d] \in Thread /\ idle[d] \in Idlers /\ idle[d] # p
      BY <1>4, Constants
    <3>11. \A d \in CPU \ {old} : SameNews(d)
      BY <3>5, <3>7, <3>8, <3>10 DEF SameNews
    <3>12. Told(c)'
      BY <1>2, <1>3, <2>1, <3>10 DEF Told
    <3>13. old # c => Told(old)'
      <4>1. SUFFICES ASSUME old # c PROVE Told(old)'
        OBVIOUS
      <4>2. rq[old].lock # old /\ StackOK(old)
        BY <1>2, <1>3, Constants DEF Unlocked, IInv, CpuOK
      <4>3. pc[on[old]] # "switch"
        BY <1>3, <4>2, NoSwitch
      <4>4. v = on[old]
        BY <3>1, <4>2, <4>3 DEF StackOK
      <4>5. on'[old] = on[old] /\ pc'[on[old]] # "switch"
        BY <1>2, <1>3, <3>9, <4>1, <4>3 DEF SameLocals
      <4> QED
        BY <3>5, <3>10, <1>3, <4>4, <4>5 DEF Told
    <3>14. \A m \in Migrators : m \in Thread /\ m # t /\ m # p
      BY <1>4, Constants
    <3>15. \A m \in Migrators : pc'[m] = pc[m] /\ task'[m].array = task[m].array
      BY <2>1, <3>6, <3>7, <3>14 DEF SameLocals
    <3>16. \A d \in CPU : rq'[d].curr \notin Migrators
      BY <3>8 DEF Aware, Asleep, Migrators
    <3> QED
      BY <1>2, <3>9, <3>11, <3>12, <3>13, <3>15, <3>16, AwareFrame
  <2> QED
    BY <2>4, <2>5
<1> QED
  BY <1>5, <1>6

\* A new process starts beside its parent, not on an idle processor.
LEMMA ForkedTold ==
  ASSUME IInv, Aware, NEW c \in CPU, NEW t, wake_up_forked_process(c, t)
  PROVE  Aware'
<1>1. PICK p, T : p = local[t].q /\ T = [task EXCEPT ![p].cpu = c, ![p].state = "RUNNING"]
  OBVIOUS
<1>2. PICK A, R : A = activate_task(T, rq, p) /\ R = rq
  OBVIOUS
<1>3. /\ t = on[c] /\ pc[t] = "fork" /\ task' = A[1] /\ rq' = A[2] /\ on' = on
      /\ local' = [local EXCEPT ![t] = NoLocal, ![p] = NoLocal]
      /\ pc' = [pc EXCEPT ![t] = "user", ![p] = "user"]
  BY <1>1, <1>2 DEF wake_up_forked_process, At
<1>4. /\ t \in Thread /\ ThreadOK(t) /\ rq \in [CPU -> RunQueues]
      /\ task \in [Thread -> TaskStructs] /\ pc \in [Thread -> PCs]
      /\ local \in [Thread -> Locals]
  BY <1>3, Acting
<1>5. /\ p \in Task /\ p \in Thread /\ task[p].state = "FREE"
      /\ p \notin Migrators /\ p \notin Idlers /\ t \notin Idlers /\ t \notin Migrators
  BY <1>1, <1>3, <1>4, Constants
     DEF ThreadOK, ArgsOK, KindOK, InSchedule, Balancing, Migration
<1>6. Off(p)
  BY <1>5, FreeGone DEF Gone
<1>7. T \in [Thread -> TaskStructs] /\ \A u \in Thread \ {p} : T[u] = task[u]
  <2>1. PICK k : k = [task[p] EXCEPT !.cpu = c, !.state = "RUNNING"]
    OBVIOUS
  <2>2. task[p] \in TaskStructs
    BY <1>4, <1>5
  <2>3. k \in TaskStructs
    BY <2>1, <2>2 DEF TaskStructs
  <2>4. T = [task EXCEPT ![p] = k]
    BY <1>1, <1>4, <1>5, <2>1
  <2> QED
    BY <1>4, <1>5, <2>3, <2>4
<1>8. /\ \A u \in Thread \ {p} : task'[u] = task[u]
      /\ \A e \in CPU : /\ rq'[e].curr = rq[e].curr
                        /\ e # c => rq'[e].nr_running = rq[e].nr_running
  <2>1. T[p].cpu = c
    <3>1. task[p] \in TaskStructs /\ p \in DOMAIN task
      BY <1>4, <1>5
    <3>2. T = [task EXCEPT ![p] = [task[p] EXCEPT !.cpu = c, !.state = "RUNNING"]]
      BY <1>1, <1>4, <1>5
    <3>3. T[p] = [task[p] EXCEPT !.cpu = c, !.state = "RUNNING"]
      BY <3>1, <3>2
    <3> QED
      BY <3>1, <3>3 DEF TaskStructs
  <2>2. /\ \A u \in Thread \ {p} : A[1][u] = T[u]
        /\ \A e \in CPU : /\ A[2][e].nr_running = IF e = c THEN R[e].nr_running + 1
                                                           ELSE R[e].nr_running
                          /\ A[2][e].curr = R[e].curr
    BY <1>2, <1>4, <1>5, <1>7, <2>1, ActivateEffect
  <2> QED
    BY <1>2, <1>3, <1>7, <2>2
<1>9. pc'[t] = "user" /\ \A u \in Thread \ {t, p} : SameLocals(u)
  BY <1>3, <1>4, <1>5 DEF SameLocals
<1>10. \A d \in CPU \ {c} : SameLocals(on[d])
  <2> TAKE d \in CPU \ {c}
  <2>1. on[d] \in Thread /\ on[d] # t /\ on[d] # p
    BY <1>3, <1>6, Acting DEF Off
  <2> QED
    BY <1>9, <2>1
<1>11. \A d \in CPU : idle[d] \in Thread /\ idle[d] \in Idlers
  BY Constants
<1>12. \A d \in CPU \ {c} : SameNews(d)
  BY <1>5, <1>8, <1>11 DEF SameNews
<1>13. Told(c)'
  BY <1>3, <1>5, <1>9, <1>11 DEF Told
<1>14. \A m \in Migrators : m \in Thread /\ m # t /\ m # p
  BY <1>5, Constants
<1>15. \A m \in Migrators : pc'[m] = pc[m] /\ task'[m].array = task[m].array
  BY <1>8, <1>9, <1>14 DEF SameLocals
<1>16. \A d \in CPU : rq'[d].curr \notin Migrators
  BY <1>8 DEF Aware, Asleep, Migrators
<1> QED
  BY <1>3, <1>10, <1>12, <1>13, <1>15, <1>16, AwareFrame

\* Who pulls a task, in the timer of the idle task, tells itself; the busiest processor has
\* one less.
LEMMA PullTold ==
  ASSUME IInv, Aware, NEW c \in CPU, NEW t, Pull(c, t)
  PROVE  Aware'
<1>1. /\ t = on[c] /\ pc[t] = "pull" /\ t \in Thread /\ rq \in [CPU -> RunQueues]
      /\ task \in [Thread -> TaskStructs] /\ pc \in [Thread -> PCs]
      /\ local \in [Thread -> Locals] /\ on' = on /\ ThreadOK(t) /\ CpuOK(c)
  BY Acting DEF Pull, At
<1>2. PICK b : b = local[t].busiest
  OBVIOUS
<1>3. b \in CPU \ {c} /\ rq[b].lock = c
  BY <1>1, <1>2 DEF ThreadOK, ArgsOK, CpuOK, BusiestOK, Balancing, LocksOf, Held
<1>4. /\ pc'[t] \in {"unlock", "balanced"} /\ local'[t].tick = local[t].tick
      /\ \A u \in Thread \ {t} : SameLocals(u)
  <2>1. PICK place \in {"unlock", "balanced"} : pc' = [pc EXCEPT ![t] = place]
    BY DEF Pull, Return, Goto
  <2>2. local' = [local EXCEPT ![t].busiest = NULL]
    BY DEF Pull
  <2> QED
    BY <1>1, <2>1, <2>2 DEF SameLocals, Locals
<1>5. CASE rq' = [rq EXCEPT ![b].lock = NULL] /\ task' = task
  <2>1. \A d \in CPU : rq'[d].nr_running = rq[d].nr_running /\ rq'[d].curr = rq[d].curr
    BY <1>1, <1>5 DEF RunQueues
  <2> QED
    BY <1>1, <1>4, <1>5, <2>1, AwareAlone
<1>6. ASSUME NEW p \in CanMigrate(b, c),
             task' = resched_task([task EXCEPT ![p].cpu = c, ![p].array = c], t),
             rq' = [[rq EXCEPT ![b].lock = NULL] EXCEPT ![b].nr_running = @ - 1,
                                                        ![c].nr_running = @ + 1]
      PROVE  Aware'
  <2>1. p \in Thread /\ task[p].array = b
    BY <1>6 DEF CanMigrate, Queued
  <2>2. p \notin Migrators /\ p \notin Idlers
    <3>1. TaskInv(p) /\ b # NULL
      BY <1>3, <2>1, Constants DEF IInv, ThreadOK
    <3> QED
      BY <2>1, <3>1 DEF TaskInv, Aware, Asleep, Migrators
  <2>3. /\ \A d \in CPU : rq'[d].curr = rq[d].curr
        /\ \A d \in CPU \ {b, c} : rq'[d].nr_running = rq[d].nr_running
    BY <1>1, <1>6 DEF RunQueues
  <2>4. PICK T, v : T = [task EXCEPT ![p].cpu = c, ![p].array = c] /\ v = t
    OBVIOUS
  <2>5. T \in [Thread -> TaskStructs] /\ \A u \in Thread \ {p} : T[u] = task[u]
    <3>1. PICK k : k = [task[p] EXCEPT !.cpu = c, !.array = c]
      OBVIOUS
    <3>2. task[p] \in TaskStructs
      BY <1>1, <2>1
    <3>3. k \in TaskStructs
      BY <3>1, <3>2 DEF TaskStructs
    <3>4. T = [task EXCEPT ![p] = k]
      BY <1>1, <2>1, <2>4, <3>1
    <3> QED
      BY <1>1, <2>1, <3>3, <3>4
  <2>6. task' = resched_task(T, v)
    BY <1>6, <2>4
  <2>7. \A u \in Thread : /\ T[u].need_resched => task'[u].need_resched
                          /\ u = v /\ u \in Idlers => task'[u].need_resched
    BY <2>5, <2>6, ReschedTells
  <2>8. \A u \in Thread : task'[u].array = T[u].array
    BY <2>5, <2>6, ReschedSame
  <2>9. \A d \in CPU : /\ idle[d] \in Thread /\ idle[d] \in Idlers
                       /\ task[idle[d]].need_resched => task'[idle[d]].need_resched
    <3> TAKE d \in CPU
    <3>1. idle[d] \in Thread /\ idle[d] \in Idlers /\ idle[d] # p
      BY <2>2, Constants
    <3> QED
      BY <2>5, <2>7, <3>1
  <2>10. \A d \in CPU \ {c} : SameLocals(on[d])
    BY <1>1, <1>4, Acting
  <2>11. \A d \in CPU \ {b, c} : SameNews(d)
    BY <2>3, <2>9 DEF SameNews
  <2>12. Told(c)'
    BY <1>1, <1>4, <2>4, <2>7, <2>9 DEF Told
  <2>13. Told(b)'
    <3>1. pc[on[b]] # "switch"
      BY <1>3, NoSwitch
    <3>2. rq[b].nr_running # 0
      <4>1. rq[b].nr_running - 1 \in Nat /\ rq[b].nr_running \in Nat
        BY <1>1, <1>3, <2>1, QueueNotEmpty DEF RunQueues
      <4> QED
        BY <4>1
    <3>3. Told(b) /\ SameLocals(on[b]) /\ on'[b] = on[b]
      BY <1>1, <1>3, <2>10 DEF Aware
    <3> QED
      BY <1>3, <2>9, <3>1, <3>2, <3>3 DEF Told, SameLocals
  <2>14. \A m \in Migrators : m \in Thread /\ m # t /\ m # p
    BY <1>1, <2>2, Constants DEF Aware, Asleep, Migrators
  <2>15. \A m \in Migrators : pc'[m] = pc[m] /\ task'[m].array = task[m].array
    BY <1>4, <2>5, <2>8, <2>14 DEF SameLocals
  <2>16. \A d \in CPU : rq'[d].curr \notin Migrators
    BY <2>3 DEF Aware, Asleep, Migrators
  <2>17. \A d \in CPU \ {c} : SameNews(d) \/ Told(d)'
    BY <2>11, <2>13
  <2> QED
    BY <1>1, <2>10, <2>12, <2>15, <2>16, <2>17, AwareFrame
<1> QED
  BY <1>2, <1>5, <1>6 DEF Pull

-----------------------------------------------------------------------------
(* An idle processor is told *)

\* At first every idle processor has nothing to run.
LEMMA InitAware ==
  ASSUME Init
  PROVE  Aware
<1>1. PICK c0 \in CPU, P \in SUBSET Task : \E a \in P :
        /\ P # {} /\ Cardinality(P) = build.procs /\ build.procs \in Nat /\ build \in Builds
        /\ rq = [c \in CPU |->
                  [lock |-> NULL, nr_running |-> IF c = c0 THEN build.procs ELSE 0,
                   curr |-> IF c = c0 THEN a ELSE idle[c], migration_queue |-> << >>]]
        /\ task = [t \in Thread |-> FirstTask(c0, P, t)]
        /\ on = [c \in CPU |-> IF c = c0 THEN a ELSE idle[c]]
        /\ pc = [t \in Thread |-> IF t \in P \/ \E c \in CPU : t = idle[c] THEN "user"
                                  ELSE IF t \in Task THEN "none" ELSE "migrate"]
        /\ local = [t \in Thread |-> NoLocal] /\ ops = 0 /\ build.ops \in Nat
  BY Initial
<1>2. PICK a \in P :
        /\ rq = [c \in CPU |->
                  [lock |-> NULL, nr_running |-> IF c = c0 THEN build.procs ELSE 0,
                   curr |-> IF c = c0 THEN a ELSE idle[c], migration_queue |-> << >>]]
        /\ on = [c \in CPU |-> IF c = c0 THEN a ELSE idle[c]]
  BY <1>1
<1>3. ASSUME NEW c \in CPU PROVE Told(c)
  <2>1. on[c] \in Thread /\ pc[on[c]] = "user"
    BY <1>1, <1>2, Constants
  <2>2. c = c0 => on[c] # idle[c]
    BY <1>2, Constants
  <2>3. c # c0 => rq[c].nr_running = 0
    BY <1>2
  <2> QED
    BY <2>1, <2>2, <2>3 DEF Told
<1>4. ASSUME NEW c \in CPU PROVE Asleep(c)
  <2>1. PICK m : m = migration[c]
    OBVIOUS
  <2>2. m \in Thread /\ m \notin Task /\ m \notin Idlers /\ m \in Migrators
    BY <2>1, Constants
  <2>3. pc[m] = "migrate" /\ task[m].array = NULL
    <3>1. m \notin P /\ ~(\E d \in CPU : m = idle[d])
      BY <2>2 DEF Idlers
    <3>2. task[m] = FirstTask(c0, P, m)
      BY <1>1, <2>2
    <3>3. FirstTask(c0, P, m).array = NULL
      BY <2>2, <3>1 DEF FirstTask, New
    <3> QED
      BY <1>1, <2>2, <3>1, <3>2, <3>3
  <2>4. \A d \in CPU : on[d] # m /\ rq[d].curr # m
    BY <1>2, <2>2, Constants
  <2> QED
    BY <2>1, <2>3, <2>4 DEF Asleep
<1> QED
  BY <1>3, <1>4 DEF Aware

\* Where affinities are not changed no migration thread is woken, and nothing is in the way
\* of a change of affinity.
LEMMA NoMigration ==
  ASSUME IInv, AInv, Aware, "affinity" \notin build.calls, NEW c \in CPU, NEW t,
         \/ set_cpus_allowed(c, t) \/ Down(c, t) \/ DownCheck(c, t)
         \/ migration_thread(c, t) \/ ReadDest(c, t) \/ ReadSrc(c, t)
         \/ double_rq_lock(c, t) \/ Migrate(c, t) \/ Up(c, t)
  PROVE  FALSE
<1>1. /\ t = on[c]
      /\ pc[t] \in {"affinity", "down", "down_check", "migrate"} \cup Migration
  BY DEF set_cpus_allowed, Down, DownCheck, migration_thread, ReadDest, ReadSrc, double_rq_lock,
    Migrate, Up, At, Migration
<1> QED
  BY <1>1, NoMigrator

\* Every step keeps idle processors told.
LEMMA NextAware ==
  ASSUME LocksFree, IInv, AInv, Aware, "affinity" \notin build.calls, [Next]_vars
  PROVE  Aware'
<1>1. CASE UNCHANGED vars
  BY <1>1 DEF vars, Aware, Asleep, Told
<1>2. CASE Next
  <2>1. PICK c \in CPU : KernelStep(c) \/ UserStep(c)
    BY <1>2 DEF Next
  <2>2. PICK t : t = on[c]
    OBVIOUS
  <2>3. Kernel(c, t) \/ Call(c, t) \/ Tick(c, t) \/ Preempt(c, t)
    BY <2>1, <2>2 DEF KernelStep, UserStep
  <2>4. CASE Kernel(c, t)
    <3>1. CASE Schedule(c, t) \/ Pick(c, t) \/ PickIdle(c, t) \/ ContextSwitch(c, t)
      BY <3>1, ScheduleTold, PickTold, ContextSwitchTold
    <3>2. CASE \/ Balance(c, t) \/ double_lock_balance(c, t) \/ SpinBusiest(c, t)
               \/ Relock(c, t) \/ Pull(c, t)
      BY <3>2, BalanceTold, DoubleLockTold, SpinTold, PullTold
    <3>3. CASE TickLock(c, t) \/ Unlock(c, t)
      BY <3>3, TimerTold
    <3>4. CASE \/ try_to_wake_up(c, t) \/ wake_up_forked_process(c, t)
               \/ wait_task_inactive(c, t)
      BY <3>4, TryToWakeTold, ForkedTold, InactiveTold
    <3>5. CASE \/ set_cpus_allowed(c, t) \/ Down(c, t) \/ DownCheck(c, t)
               \/ migration_thread(c, t) \/ ReadDest(c, t) \/ ReadSrc(c, t)
               \/ double_rq_lock(c, t) \/ Migrate(c, t) \/ Up(c, t)
      BY <3>5, NoMigration
    <3> QED
      BY <2>4, <3>1, <3>2, <3>3, <3>4, <3>5 DEF Kernel
  <2>5. CASE Call(c, t)
    BY <2>5, CallsTold
  <2>6. CASE Tick(c, t) \/ Preempt(c, t)
    BY <2>6, TimerTold
  <2> QED
    BY <2>3, <2>4, <2>5, <2>6
<1> QED
  BY <1>1, <1>2

\* An idle processor that has something to run has been told: no wake-up, fork or pull
\* leaves a task on a runqueue that nobody looks at (sched.c:458-545, 730-816), where no
\* migration thread brings it.
THEOREM IdleAlwaysTold ==
  ASSUME LocksFree
  PROVE  Spec => []IdleIsTold
<1> DEFINE J == IInv /\ (Orderly(build) => AInv) /\ ("affinity" \notin build.calls => Aware)
<1>1. Init => J
  BY InitInv, InitAffinity, InitAware
<1>2. J /\ [Next]_vars => J'
  <2>1. SUFFICES ASSUME J, [Next]_vars PROVE J'
    OBVIOUS
  <2>2. IInv' /\ build' = build
    BY <2>1, NextStep, BuildStays
  <2>3. Orderly(build)' => AInv'
    BY <2>1, <2>2, NextAffinity
  <2>4. ASSUME "affinity" \notin build.calls PROVE Aware'
    <3>1. Orderly(build)
      BY <2>4 DEF Orderly
    <3> QED
      BY <2>1, <2>4, <3>1, NextAware
  <2> QED
    BY <2>2, <2>3, <2>4
<1>3. J => IdleIsTold
  <2>1. SUFFICES ASSUME J, "affinity" \notin build.calls, NEW c \in CPU,
                        on[c] = idle[c], pc[idle[c]] = "user", rq[c].nr_running > 0
                 PROVE  task[idle[c]].need_resched
    BY DEF IdleIsTold
  <2>2. Told(c) /\ rq[c].nr_running # 0
    BY <2>1, TypeParts DEF Aware, IInv, RunQueues
  <2> QED
    BY <2>1, <2>2 DEF Told
<1> QED
  BY <1>1, <1>2, <1>3, PTL DEF Spec

=============================================================================
