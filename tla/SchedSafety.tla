---------------------------- MODULE SchedSafety -----------------------------
(***************************************************************************)
(* The inductive invariant of Sched, and the proof that its structural     *)
(* safety properties hold for every value of the constants: the kernel     *)
(* never crashes in a list operation, the priority arrays agree with the   *)
(* task_structs and with the counters, a process that may run is queued,   *)
(* each array holds its own class, and schedule picks the best class.      *)
(* First that the operations on the runqueue keep the invariant, then that *)
(* the system calls, fork, exit and wait4 do, then what follows.  On top   *)
(* of it, what a step does to slices and trials: no SHORT process holds    *)
(* more than the slice of its trial, and forks create no processor time.   *)
(***************************************************************************)
EXTENDS SchedProofs

-----------------------------------------------------------------------------
(* The discipline the theorems are about *)

\* The largest slice: the one of an OTHER process, or of the longest request.
RequestTicks(time) == (time * HZ) \div 1000
MaxSlice == IF RequestTicks(MAX_REQUESTED_TIME) > MAX_TIMESLICE
            THEN RequestTicks(MAX_REQUESTED_TIME) ELSE MAX_TIMESLICE

\* setscheduler is called on runnable processes only, and turns SHORT no process
\* that is SHORT already; a requested time is at least a tick; and the sum of two
\* slices does not overflow an unsigned int.
Disciplined ==
  /\ ~AnyTarget
  /\ \A r \in Requests : r.policy = "SHORT" => RequestTicks(r.time) >= 1
  /\ 2 * MaxSlice < UINT

-----------------------------------------------------------------------------
(* The invariant of the runqueue.  Between dequeue_task and enqueue_task the *)
(* kernel has tasks in hand, X, that are linked nowhere; nr_running counts d *)
(* more than the tasks that are.                                            *)

Members(k, X, a) == {q \in Task \ X : k.task[q].array = a}
QueuedBut(k, X)  == {q \in Task \ X : Queued(k.task[q])}

\* The array a is the right one for a process t.
Fits(t, a, r) ==
  /\ a = "short_q" <=> ShortNow(t)
  /\ a = "overdue" <=> Overdue(t)
  /\ a = r.expired => t.policy = "OTHER" /\ ~rt_task(t)

Sound(k, X, d) ==
  /\ k \in Kernels /\ k.oops = "none"
  /\ k.rq.active # k.rq.expired
  /\ \A a \in ArrayId : Holds(k.rq.arrays[a], Members(k, X, a), k.task)
  /\ \A q \in QueuedBut(k, X) : Fits(k.task[q], k.task[q].array, k.rq)
  /\ k.rq.nr_running = Cardinality(QueuedBut(k, X)) + d

\* A process has a slice, its priority is of its policy, and it is off the runqueue
\* when it is free.
TaskOK(t) ==
  /\ t.state # "FREE" => t.time_slice \in 1 .. MaxSlice
  /\ t.state = "FREE" => ~Queued(t)
  /\ RequestTicks(t.requested_time) <= MaxSlice
  /\ t.policy # "SHORT" => (t.policy = "OTHER" <=> ~rt_task(t))

\* The runqueue holds the processes that are running, and current, which may be
\* about to leave.
Awake(k) ==
  \A q \in Task : IF q = k.rq.curr THEN Queued(k.task[q])
                  ELSE Queued(k.task[q]) <=> k.task[q].state = "RUNNING"

KernelInv(k) ==
  /\ Sound(k, {}, 0)
  /\ Awake(k)
  /\ \A q \in Task : TaskOK(k.task[q])
  /\ k.task[Idle].state = "RUNNING"

\* Only current is in the middle of a call, except that a sleeper is inside
\* schedule; only on the way into schedule is it not running; an embryo is asleep.
PlaceOK(k, at) ==
  \A q \in Task :
    /\ at[q] \in {"forking", "forked", "sleep", "exiting"} => q = k.rq.curr
    /\ q = k.rq.curr /\ k.task[q].state # "RUNNING" => at[q] \in {"sleep", "exiting"}
    /\ at[q] = "embryo" => k.task[q].state = "UNINTERRUPTIBLE" /\ ~Queued(k.task[q])
    /\ at[q] = "exiting" => k.task[q].state = "ZOMBIE"

IInv == TypeOK /\ KernelInv(kern) /\ PlaceOK(kern, pc)

-----------------------------------------------------------------------------
(* Sound, and the operations on the lists *)

\* The parts of Sound, typed.
LEMMA SoundParts ==
  ASSUME NEW k, NEW X, NEW d, Sound(k, X, d)
  PROVE  /\ k \in Kernels /\ k.oops = "none" /\ k.rq \in RunQueues
         /\ k.task \in [AllTask -> TaskStructs] /\ \A q \in Task : k.task[q].prio \in Prio
         /\ k.rq.active \in ArrayId /\ k.rq.expired \in ArrayId
         /\ k.rq.active # k.rq.expired /\ k.rq.curr \in AllTask
BY KernelParts, Counts DEF Sound

\* What an array of a sound runqueue holds.
LEMMA SoundArray ==
  ASSUME NEW k, NEW X, NEW d, Sound(k, X, d), NEW a \in ArrayId
  PROVE  /\ k.rq.arrays[a] \in PrioArrays
         /\ Holds(k.rq.arrays[a], Members(k, X, a), k.task)
         /\ Members(k, X, a) \in SUBSET Task /\ IsFiniteSet(Members(k, X, a))
<1>1. Members(k, X, a) \in SUBSET Task
  BY DEF Members
<1>2. IsFiniteSet(Members(k, X, a))
  BY <1>1, TaskAssumption, FS_Subset
<1> QED
  BY <1>1, <1>2, Counts DEF Sound

\* nr_running of a sound runqueue.
LEMMA SoundCount ==
  ASSUME NEW k, NEW X, NEW d, Sound(k, X, d)
  PROVE  /\ IsFiniteSet(QueuedBut(k, X)) /\ Cardinality(QueuedBut(k, X)) \in Nat
         /\ k.rq.nr_running = Cardinality(QueuedBut(k, X)) + d
<1>1. QueuedBut(k, X) \in SUBSET Task
  BY DEF QueuedBut
<1> QED
  BY <1>1, TaskAssumption, FS_Subset, FS_CardinalityType DEF Sound

\* The fields that say where a task is linked, and whether it may be.
SameLink(t, t2) ==
  /\ t2.array = t.array /\ t2.prio = t.prio
  /\ t2.policy = t.policy /\ t2.is_overdue = t.is_overdue

\* Sound depends on these fields of the tasks that are not in hand.
LEMMA SoundSame ==
  ASSUME NEW k, NEW X, NEW d, Sound(k, X, d),
         NEW k2 \in Kernels, k2.rq = k.rq, k2.oops = "none",
         \A q \in Task \ X : SameLink(k.task[q], k2.task[q])
  PROVE  Sound(k2, X, d)
<1>1. QueuedBut(k2, X) = QueuedBut(k, X)
  BY DEF QueuedBut, SameLink, Queued
<1>2. \A a \in ArrayId : Members(k2, X, a) = Members(k, X, a)
  BY DEF Members, SameLink
<1>3. \A a \in ArrayId : Holds(k2.rq.arrays[a], Members(k2, X, a), k2.task)
  <2>1. SUFFICES ASSUME NEW a \in ArrayId
                 PROVE  Holds(k2.rq.arrays[a], Members(k2, X, a), k2.task)
    OBVIOUS
  <2>2. Holds(k.rq.arrays[a], Members(k, X, a), k.task)
    BY DEF Sound
  <2>3. \A q \in Members(k, X, a) : k2.task[q].prio = k.task[q].prio
    BY DEF Members, SameLink
  <2> QED
    BY <1>2, <2>2, <2>3, HoldsSame
<1>4. \A q \in QueuedBut(k2, X) : Fits(k2.task[q], k2.task[q].array, k2.rq)
  BY <1>1 DEF Sound, QueuedBut, SameLink, Fits, ShortNow, Overdue, rt_task
<1> QED
  BY <1>1, <1>3, <1>4 DEF Sound

\* A task that is not queued may as well be in hand.
LEMMA SoundInHand ==
  ASSUME NEW k, NEW d, NEW p \in Task, ~Queued(k.task[p])
  PROVE  Sound(k, {}, d) <=> Sound(k, {p}, d)
<1>1. QueuedBut(k, {p}) = QueuedBut(k, {})
  BY DEF QueuedBut
<1>2. \A a \in ArrayId : Members(k, {p}, a) = Members(k, {}, a)
  BY DEF Members, Queued, ArrayId
<1> QED
  BY <1>1, <1>2 DEF Sound

\* The runqueue apart from the arrays and nr_running, with m sleepers counted.
SameRqBut(r, r2, m) ==
  /\ r2.curr = r.curr /\ r2.active = r.active /\ r2.expired = r.expired
  /\ r2.nr_uninterruptible = m
SameRq(r, r2) == SameRqBut(r, r2, r.nr_uninterruptible)

\* dequeue_task of a queued task finds it in its list, so there is no crash, and
\* takes it in hand (sched.c:273-279).
LEMMA SoundDequeue ==
  ASSUME NEW k, NEW d \in Int, Sound(k, {}, d), NEW p \in Task, NEW a \in ArrayId,
         k.task[p].array = a
  PROVE  LET k2 == dequeue_task(k, p, a)
         IN  Sound(k2, {p}, d + 1) /\ k2.task = k.task /\ SameRq(k.rq, k2.rq)
<1> DEFINE i    == k.task[p].prio
           arr2 == dequeue(k.rq.arrays[a], p, i)
           r2   == [k.rq EXCEPT !.arrays[a] = arr2]
           k2   == dequeue_task(k, p, a)
<1>1. k \in Kernels /\ k.rq \in RunQueues /\ i \in Prio /\ k.oops = "none"
  BY SoundParts
<1>2. Linked(k.rq.arrays[a], p, i) /\ Holds(arr2, Members(k, {p}, a), k.task)
  <2> DEFINE M == Members(k, {}, a)
  <2>1. /\ M \in SUBSET Task /\ IsFiniteSet(M) /\ k.rq.arrays[a] \in PrioArrays
        /\ Holds(k.rq.arrays[a], M, k.task)
    BY SoundArray
  <2>2. p \in M /\ Members(k, {p}, a) = M \ {p}
    BY DEF Members
  <2> HIDE DEF M, i
  <2>3. k.task[p].prio = i
    BY DEF i
  <2>4. Linked(k.rq.arrays[a], p, i) /\ Holds(arr2, M \ {p}, k.task)
    BY <1>1, <2>1, <2>2, <2>3, DequeueHolds
  <2> QED
    BY <2>2, <2>4
<1>3. k2 = [k EXCEPT !.rq = r2]
  <2>1. a # "NULL"
    BY DEF ArrayId
  <2>2. k2 = [k EXCEPT !.rq.arrays[a] = arr2]
    BY <1>1, <1>2, <2>1 DEF dequeue_task, Kernels
  <2> QED
    BY <1>1, <2>2 DEF Kernels
<1>4. arr2 \in PrioArrays
  BY <1>1, <1>2, SoundArray, DequeueType
<1> HIDE DEF i, arr2
<1>5. /\ r2 \in RunQueues /\ SameRq(k.rq, r2) /\ r2.nr_running = k.rq.nr_running
      /\ r2.arrays[a] = arr2 /\ \A b \in ArrayId \ {a} : r2.arrays[b] = k.rq.arrays[b]
  BY <1>1, <1>4 DEF RunQueues, SameRq, SameRqBut
<1> HIDE DEF r2
<1>6. k2 \in Kernels /\ k2.task = k.task /\ k2.rq = r2 /\ k2.oops = "none"
  BY <1>1, <1>3, <1>5, SetRq DEF Evolves, Kernels
<1> HIDE DEF k2
<1>7. \A b \in ArrayId : Holds(r2.arrays[b], Members(k2, {p}, b), k2.task)
  <2>1. \A b \in ArrayId : Members(k2, {p}, b) = Members(k, {p}, b)
    BY <1>6 DEF Members
  <2>2. \A b \in ArrayId \ {a} : Holds(k.rq.arrays[b], Members(k, {p}, b), k.task)
    <3>1. SUFFICES ASSUME NEW b \in ArrayId \ {a}
                   PROVE  Holds(k.rq.arrays[b], Members(k, {p}, b), k.task)
      OBVIOUS
    <3>2. Members(k, {p}, b) = Members(k, {}, b)
      BY DEF Members
    <3>3. Holds(k.rq.arrays[b], Members(k, {}, b), k.task)
      BY SoundArray
    <3> QED
      BY <3>2, <3>3, Zenon
  <2> QED
    BY <1>2, <1>5, <1>6, <2>1, <2>2
<1>8. QueuedBut(k2, {p}) = QueuedBut(k, {}) \ {p}
  BY <1>6 DEF QueuedBut
<1>9. r2.nr_running = Cardinality(QueuedBut(k2, {p})) + (d + 1)
  <2>1. Cardinality(QueuedBut(k, {}) \ {p}) = Cardinality(QueuedBut(k, {})) - 1
    <3>1. IsFiniteSet(QueuedBut(k, {}))
      BY SoundCount
    <3>2. p \in QueuedBut(k, {})
      BY DEF QueuedBut, Queued, ArrayId
    <3> QED
      BY <3>1, <3>2, FS_RemoveElement
  <2>2. k.rq.nr_running = Cardinality(QueuedBut(k, {})) + d /\ Cardinality(QueuedBut(k, {})) \in Nat
    BY SoundCount
  <2>3. Cardinality(QueuedBut(k2, {p})) = Cardinality(QueuedBut(k, {})) - 1
    BY <1>8, <2>1, Zenon
  <2>4. \A c \in Nat : c + d = (c - 1) + (d + 1)
    OBVIOUS
  <2> QED
    BY <1>5, <2>2, <2>3, <2>4
<1>10. \A q \in QueuedBut(k2, {p}) : Fits(k2.task[q], k2.task[q].array, k2.rq)
  BY <1>5, <1>6, <1>8 DEF Sound, Fits, SameRq, SameRqBut
<1>11. k2.rq.active # k2.rq.expired
  BY <1>5, <1>6, SoundParts DEF SameRq, SameRqBut
<1> QED
  BY <1>5, <1>6, <1>7, <1>9, <1>10, <1>11 DEF Sound, k2

\* enqueue_task links the task in hand again (sched.c:281-287).
LEMMA SoundEnqueue ==
  ASSUME NEW k, NEW d \in Int, NEW p \in Task, Sound(k, {p}, d), NEW a \in ArrayId,
         Fits(k.task[p], a, k.rq)
  PROVE  LET k2 == enqueue_task(k, p, a)
         IN  /\ Sound(k2, {}, d - 1) /\ SameRq(k.rq, k2.rq)
             /\ k2.task = [k.task EXCEPT ![p].array = a]
<1> DEFINE i    == k.task[p].prio
           arr2 == enqueue(k.rq.arrays[a], p, i)
           k2   == enqueue_task(k, p, a)
           M    == Members(k, {p}, a)
<1>1. /\ k \in Kernels /\ k.rq \in RunQueues /\ i \in Prio /\ k.oops = "none"
      /\ k.task \in [AllTask -> TaskStructs]
  BY SoundParts
<1>2. Holds(arr2, M \cup {p}, k.task)
  <2>1. p \in Task \ M
    BY DEF Members
  <2> QED
    <3>1. /\ k.rq.arrays[a] \in PrioArrays /\ Holds(k.rq.arrays[a], M, k.task)
          /\ M \in SUBSET Task /\ IsFiniteSet(M)
      BY SoundArray
    <3> HIDE DEF M
    <3> QED
      BY <1>1, <2>1, <3>1, EnqueueHolds
<1>3. /\ k2.task = [k.task EXCEPT ![p].array = a] /\ k2.oops = k.oops
      /\ k2.rq = [k.rq EXCEPT !.arrays[a] = arr2]
  BY <1>1 DEF enqueue_task, Kernels
<1>4. k2 \in Kernels
  BY <1>1, EnqueueEvolves DEF Evolves
<1> HIDE DEF i, arr2, k2, M
<1>5. /\ SameRq(k.rq, k2.rq) /\ k2.rq.nr_running = k.rq.nr_running
      /\ k2.rq.arrays[a] = arr2
      /\ \A b \in ArrayId \ {a} : k2.rq.arrays[b] = k.rq.arrays[b]
  BY <1>1, <1>3 DEF RunQueues, SameRq, SameRqBut
<1>6. /\ k2.task[p].array = a /\ \A q \in Task \ {p} : k2.task[q] = k.task[q]
      /\ \A q \in Task : SameLink(k2.task[q], [k.task[q] EXCEPT !.array = k2.task[q].array])
  BY <1>1, <1>3 DEF AllTask, SameLink, TaskStructs
<1>7. \A q \in Task : k2.task[q].prio = k.task[q].prio
  BY <1>1, <1>3 DEF AllTask, TaskStructs
<1>8. Members(k2, {}, a) = M \cup {p}
  BY <1>6 DEF Members, M
<1>9. \A b \in ArrayId \ {a} : Members(k2, {}, b) = Members(k, {p}, b)
  BY <1>6 DEF Members
<1>10. \A b \in ArrayId : Holds(k2.rq.arrays[b], Members(k2, {}, b), k2.task)
  <2>1. SUFFICES ASSUME NEW b \in ArrayId
                 PROVE  Holds(k2.rq.arrays[b], Members(k2, {}, b), k2.task)
    OBVIOUS
  <2>2. Holds(k2.rq.arrays[b], Members(k2, {}, b), k.task)
    <3>1. CASE b = a
      BY <1>2, <1>5, <1>8, <3>1
    <3>2. CASE b # a
      BY <1>5, <1>9, <3>2, SoundArray
    <3> QED
      BY <3>1, <3>2
  <2>3. \A q \in Members(k2, {}, b) : k2.task[q].prio = k.task[q].prio
    BY <1>7 DEF Members
  <2> QED
    BY <2>2, <2>3, HoldsSame
<1>11. QueuedBut(k2, {}) = QueuedBut(k, {p}) \cup {p}
  BY <1>6 DEF QueuedBut, Queued, ArrayId
<1>12. k2.rq.nr_running = Cardinality(QueuedBut(k2, {})) + (d - 1)
  <2>1. p \notin QueuedBut(k, {p})
    BY DEF QueuedBut
  <2>2. Cardinality(QueuedBut(k, {p}) \cup {p}) = Cardinality(QueuedBut(k, {p})) + 1
    <3>1. IsFiniteSet(QueuedBut(k, {p}))
      BY SoundCount
    <3> QED
      BY <2>1, <3>1, FS_AddElement
  <2>3. /\ k.rq.nr_running = Cardinality(QueuedBut(k, {p})) + d
        /\ Cardinality(QueuedBut(k, {p})) \in Nat
    BY SoundCount
  <2>4. Cardinality(QueuedBut(k2, {})) = Cardinality(QueuedBut(k, {p})) + 1
    BY <1>11, <2>2, Zenon
  <2>5. \A c \in Nat : c + d = (c + 1) + (d - 1)
    OBVIOUS
  <2> QED
    BY <1>5, <2>3, <2>4, <2>5
<1>13. \A q \in QueuedBut(k2, {}) : Fits(k2.task[q], k2.task[q].array, k2.rq)
  <2>1. Fits(k2.task[p], a, k2.rq)
    BY <1>1, <1>3, <1>5 DEF Fits, SameRq, SameRqBut, ShortNow, Overdue, rt_task, AllTask, TaskStructs
  <2>2. \A q \in QueuedBut(k, {p}) : Fits(k2.task[q], k2.task[q].array, k2.rq)
    BY <1>5, <1>6 DEF Sound, Fits, SameRq, SameRqBut, QueuedBut
  <2> QED
    BY <1>6, <1>11, <2>1, <2>2
<1>14. k2.rq.active # k2.rq.expired
  BY <1>5, SoundParts DEF SameRq, SameRqBut
<1> QED
  BY <1>1, <1>3, <1>4, <1>5, <1>10, <1>12, <1>13, <1>14 DEF Sound, k2

\* An assignment to one task_struct keeps the runqueue sound when the task is in
\* hand, or its link fields stay.
LEMMA SoundSetTask ==
  ASSUME NEW k, NEW X, NEW d, Sound(k, X, d), NEW p \in AllTask, NEW t \in TaskStructs,
         p \in Task => t.prio \in Prio, p \in X \cup {Idle} \/ SameLink(k.task[p], t)
  PROVE  LET k2 == [k EXCEPT !.task[p] = t]
         IN  /\ Sound(k2, X, d) /\ k2.rq = k.rq
             /\ k2.task = [k.task EXCEPT ![p] = t]
<1> DEFINE tk == [k.task EXCEPT ![p] = t]
           k2 == [k EXCEPT !.task[p] = t]
<1>1. k \in Kernels /\ k.oops = "none"
  BY SoundParts
<1>2. k2 = [task |-> tk, rq |-> k.rq, oops |-> k.oops]
  BY <1>1, KernelParts DEF Kernels
<1>3. tk \in [AllTask -> TaskStructs] /\ \A q \in Task : tk[q].prio \in Prio
  BY <1>1, KernelParts DEF AllTask
<1>4. \A q \in Task \ X : SameLink(k.task[q], tk[q])
  BY <1>1, KernelParts, IdleAssumption DEF SameLink, AllTask
<1> HIDE DEF tk
<1>5. k2 \in Kernels
  BY <1>1, <1>2, <1>3, KernelMake, KernelParts
<1>6. k2.rq = k.rq /\ k2.task = tk /\ k2.oops = "none"
  BY <1>1, <1>2
<1> HIDE DEF k2
<1>7. Sound(k2, X, d)
  BY <1>4, <1>5, <1>6, SoundSame
<1> QED
  BY <1>6, <1>7 DEF k2, tk

\* resched_task keeps it sound, and changes need_resched only.
LEMMA SoundResched ==
  ASSUME NEW k, NEW X, NEW d, Sound(k, X, d), NEW p \in AllTask
  PROVE  LET k2 == resched_task(k, p)
         IN  /\ Sound(k2, X, d) /\ k2.rq = k.rq
             /\ k2.task = [k.task EXCEPT ![p].need_resched = TRUE]
<1> DEFINE t == [k.task[p] EXCEPT !.need_resched = TRUE]
<1>1. k \in Kernels /\ k.task[p] \in TaskStructs /\ (p \in Task => k.task[p].prio \in Prio)
  BY SoundParts
<1>2. t \in TaskStructs /\ (p \in Task => t.prio \in Prio) /\ SameLink(k.task[p], t)
  <2>1. t \in TaskStructs
    BY <1>1, SetField
  <2> QED
    BY <1>1, <2>1 DEF TaskStructs, SameLink
<1>3. resched_task(k, p) = [k EXCEPT !.task[p] = t]
  BY <1>1 DEF resched_task, Kernels
<1>4. [k.task EXCEPT ![p].need_resched = TRUE] = [k.task EXCEPT ![p] = t]
  BY <1>1 DEF Kernels
<1> HIDE DEF t
<1> QED
  BY <1>2, <1>3, <1>4, SoundSetTask

\* An assignment of the counters changes nothing else.
LEMMA CountsEffect ==
  ASSUME NEW k \in Kernels, NEW n \in Int, NEW m \in Int
  PROVE  LET k2 == WithCounts(k, n, m)
         IN  /\ SameRqBut(k.rq, k2.rq, m) /\ k2.task = k.task
             /\ k2.rq.nr_running = n
BY DEF WithCounts, Kernels, RunQueues, SameRqBut

\* A change of nr_running is a change of the number of tasks in flight.
LEMMA SoundCounts ==
  ASSUME NEW k, NEW X, NEW d \in Int, Sound(k, X, d), NEW n \in Int, NEW m \in Int
  PROVE  Sound(WithCounts(k, k.rq.nr_running + n, m), X, d + n)
<1> DEFINE k2 == WithCounts(k, k.rq.nr_running + n, m)
<1>1. k \in Kernels /\ k.rq \in RunQueues /\ k.oops = "none" /\ k.rq.nr_running \in Int
  BY SoundParts DEF RunQueues
<1>2. k2 \in Kernels
  <2>1. k.rq.nr_running + n \in Int
    BY <1>1
  <2> QED
    BY <1>1, <2>1, SetCounts DEF Evolves
<1>3. /\ k2.task = k.task /\ k2.oops = "none" /\ k2.rq.arrays = k.rq.arrays
      /\ SameRqBut(k.rq, k2.rq, m) /\ k2.rq.nr_running = k.rq.nr_running + n
  BY <1>1 DEF WithCounts, Kernels, RunQueues, SameRqBut
<1> HIDE DEF k2
<1>4. QueuedBut(k2, X) = QueuedBut(k, X)
  BY <1>3 DEF QueuedBut
<1>5. \A a \in ArrayId : Holds(k2.rq.arrays[a], Members(k2, X, a), k2.task)
  <2>1. \A a \in ArrayId : Members(k2, X, a) = Members(k, X, a)
    BY <1>3 DEF Members
  <2> QED
    BY <1>3, <2>1 DEF Sound
<1>6. k2.rq.nr_running = Cardinality(QueuedBut(k, X)) + (d + n)
  <2>1. k.rq.nr_running = Cardinality(QueuedBut(k, X)) + d /\ Cardinality(QueuedBut(k, X)) \in Nat
    BY SoundCount
  <2> QED
    BY <1>3, <2>1
<1>7. \A q \in QueuedBut(k2, X) : Fits(k2.task[q], k2.task[q].array, k2.rq)
  BY <1>3, <1>4 DEF Sound, Fits, SameRq, SameRqBut
<1>8. k2.rq.active # k2.rq.expired
  BY <1>3, SoundParts DEF SameRq, SameRqBut
<1> QED
  BY <1>2, <1>3, <1>4, <1>5, <1>6, <1>7, <1>8 DEF Sound, k2

-----------------------------------------------------------------------------
(* Entering and leaving a sound runqueue *)

\* deactivate_task of a queued task takes it off the runqueue (sched.c:385-392).
LEMMA SoundDeactivate ==
  ASSUME NEW k, Sound(k, {}, 0), NEW p \in Task, Queued(k.task[p])
  PROVE  LET k2 == deactivate_task(k, p)
             m  == IF k.task[p].state = "UNINTERRUPTIBLE" THEN k.rq.nr_uninterruptible + 1
                   ELSE k.rq.nr_uninterruptible
         IN  /\ Sound(k2, {}, 0) /\ SameRqBut(k.rq, k2.rq, m)
             /\ k2.task = [k.task EXCEPT ![p].array = "NULL"]
             /\ Sound(k2, {p}, 0)
<1> DEFINE m  == IF k.task[p].state = "UNINTERRUPTIBLE" THEN k.rq.nr_uninterruptible + 1
                 ELSE k.rq.nr_uninterruptible
           k1 == WithCounts(k, k.rq.nr_running + (-1), m)
           a  == k.task[p].array
           k2 == dequeue_task(k1, p, a)
           t  == [k2.task[p] EXCEPT !.array = "NULL"]
           k3 == [k2 EXCEPT !.task[p] = t]
<1>1. k \in Kernels /\ k.rq \in RunQueues /\ m \in Int /\ k.rq.nr_running \in Int
  BY SoundParts DEF RunQueues
<1>2. a \in ArrayId
  BY <1>1, KernelParts, TaskFields DEF Queued, AllTask
<1>3. Sound(k1, {}, -1) /\ SameRqBut(k.rq, k1.rq, m) /\ k1.task = k.task
  <2> HIDE DEF m
  <2>1. PICK e \in Int : e = -1
    OBVIOUS
  <2> DEFINE kk == WithCounts(k, k.rq.nr_running + e, m)
  <2>2. Sound(kk, {}, 0 + e)
    <3>1. Sound(k, {}, 0) /\ 0 \in Int
      OBVIOUS
    <3>2. \A n \in Int : Sound(WithCounts(k, k.rq.nr_running + n, m), {}, 0 + n)
      BY <1>1, <3>1, SoundCounts, ZenonT(30)
    <3> QED
      BY <3>2
  <2>3. SameRqBut(k.rq, kk.rq, m) /\ kk.task = k.task
    <3>1. k.rq.nr_running + e \in Int
      BY <1>1
    <3> QED
      BY <1>1, <3>1, CountsEffect
  <2>4. k1 = kk /\ 0 + e = e
    BY <2>1
  <2> HIDE DEF k1, kk
  <2> QED
    BY <2>1, <2>2, <2>3, <2>4
<1>4. deactivate_task(k, p) = [k2 EXCEPT !.task[p].array = "NULL"]
  <2>1. k1 = [k EXCEPT !.rq.nr_running = @ - 1,
                      !.rq.nr_uninterruptible =
                         IF k.task[p].state = "UNINTERRUPTIBLE" THEN @ + 1 ELSE @]
    BY <1>1 DEF Kernels, RunQueues, WithCounts
  <2> QED
    BY <2>1, Zenon DEF deactivate_task
<1> HIDE DEF k1, a
<1>5. Sound(k2, {p}, 0) /\ k2.task = k.task /\ SameRqBut(k.rq, k2.rq, m)
  <2>1. k1.task[p].array = a
    BY <1>3 DEF a
  <2>2. Sound(k2, {p}, -1 + 1) /\ k2.task = k1.task /\ SameRq(k1.rq, k2.rq)
    BY <1>2, <1>3, <2>1, SoundDequeue
  <2>3. -1 + 1 = 0
    OBVIOUS
  <2> QED
    BY <1>3, <2>2, <2>3 DEF SameRq, SameRqBut
<1> HIDE DEF k2
<1>6. k2 \in Kernels /\ k2.task[p] \in TaskStructs /\ k2.task[p].prio \in Prio
  BY <1>5, SoundParts DEF AllTask
<1>7. k3 = [k2 EXCEPT !.task[p].array = "NULL"]
  BY <1>6 DEF Kernels
<1>8. t \in TaskStructs /\ t.prio \in Prio
  BY <1>6, SetField DEF TaskStructs
<1>9. [k.task EXCEPT ![p].array = "NULL"] = [k2.task EXCEPT ![p] = t]
  BY <1>5, <1>6
<1>10. ~Queued(t)
  BY <1>6 DEF Queued, TaskStructs
<1> HIDE DEF t
<1>11. Sound(k3, {p}, 0) /\ k3.rq = k2.rq /\ k3.task = [k2.task EXCEPT ![p] = t]
  BY <1>5, <1>6, <1>8, SoundSetTask DEF AllTask
<1> HIDE DEF k3
<1>12. ~Queued(k3.task[p])
  BY <1>6, <1>10, <1>11 DEF Kernels, AllTask
<1>13. Sound(k3, {}, 0)
  BY <1>11, <1>12, SoundInHand
<1> QED
  BY <1>4, <1>5, <1>7, <1>9, <1>11, <1>13, Zenon DEF SameRq, SameRqBut

\* HomeArray is the array that fits (sched.c:357-369).
LEMMA HomeFits ==
  ASSUME NEW k, NEW X, NEW d, Sound(k, X, d), NEW t
  PROVE  HomeArray(k, t) \in ArrayId /\ Fits(t, HomeArray(k, t), k.rq)
<1>1. /\ k.rq.active \in {"array0", "array1"} /\ k.rq.expired \in {"array0", "array1"}
      /\ k.rq.active # k.rq.expired
  BY SoundParts DEF RunQueues
<1> QED
  BY <1>1 DEF HomeArray, Fits, ShortNow, Overdue, ArrayId

\* activate_task of a task in hand queues it where its class belongs
\* (sched.c:328-383).
LEMMA SoundActivate ==
  ASSUME NEW k, NEW p \in Task, Sound(k, {p}, 0), NEW prio \in Prio
  PROVE  LET k2 == activate_task(k, p, prio)
             a  == HomeArray(k, k.task[p])
         IN  /\ Sound(k2, {}, 0) /\ SameRq(k.rq, k2.rq) /\ a \in ArrayId
             /\ k2.task = [k.task EXCEPT ![p] = [k.task[p] EXCEPT !.prio = prio, !.array = a]]
<1> DEFINE a  == HomeArray(k, k.task[p])
           t  == [k.task[p] EXCEPT !.prio = prio]
           k0 == [k EXCEPT !.task[p] = t]
           k1 == enqueue_task(k0, p, a)
           k2 == WithCounts(k1, k1.rq.nr_running + 1, k1.rq.nr_uninterruptible)
<1>1. k \in Kernels /\ k.task[p] \in TaskStructs /\ k.task[p].prio \in Prio /\ p \in AllTask
  BY SoundParts DEF AllTask
<1>2. t \in TaskStructs /\ t.prio \in Prio
  BY <1>1, SetField DEF TaskStructs
<1>3. a \in ArrayId /\ Fits(t, a, k.rq)
  <2>1. a = HomeArray(k, t)
    BY <1>1 DEF HomeArray, TaskStructs
  <2> QED
    BY <2>1, HomeFits
<1>4. activate_task(k, p, prio) = [k1 EXCEPT !.rq.nr_running = @ + 1]
  <2>1. k0 = [k EXCEPT !.task[p].prio = prio]
    BY <1>1 DEF Kernels
  <2> QED
    BY <2>1, Zenon DEF activate_task
<1>5. [k.task EXCEPT ![p] = [k.task[p] EXCEPT !.prio = prio, !.array = a]]
        = [k.task EXCEPT ![p] = [t EXCEPT !.array = a]]
  BY <1>1 DEF TaskStructs
<1> HIDE DEF a, t
<1>6. Sound(k0, {p}, 0) /\ k0.rq = k.rq /\ k0.task = [k.task EXCEPT ![p] = t]
  BY <1>1, <1>2, SoundSetTask
<1> HIDE DEF k0
<1>7. k0.task[p] = t /\ p \in DOMAIN k.task
  BY <1>1, <1>6 DEF Kernels
<1>8. /\ Sound(k1, {}, 0 - 1) /\ SameRq(k0.rq, k1.rq)
      /\ k1.task = [k0.task EXCEPT ![p].array = a]
  BY <1>3, <1>6, <1>7, SoundEnqueue
<1> HIDE DEF k1
<1>10. k1.rq.nr_running \in Int /\ k1.rq.nr_uninterruptible \in Int /\ k1 \in Kernels
  BY <1>8, SoundParts DEF RunQueues
<1>11. [k1 EXCEPT !.rq.nr_running = @ + 1] = k2
  BY <1>10 DEF Kernels, RunQueues, WithCounts
<1>12. /\ Sound(k2, {}, (0 - 1) + 1) /\ SameRq(k1.rq, k2.rq) /\ k2.task = k1.task
  <2>1. k1.rq.nr_running + 1 \in Int
    BY <1>10
  <2> QED
    BY <1>8, <1>10, <2>1, SoundCounts, CountsEffect DEF SameRq
<1> HIDE DEF k2
<1>13. k2.task = [k.task EXCEPT ![p] = [t EXCEPT !.array = a]]
  BY <1>6, <1>7, <1>8, <1>12
<1>14. Sound(k2, {}, 0)
  <2>1. (0 - 1) + 1 = 0
    OBVIOUS
  <2> QED
    BY <1>12, <2>1
<1> QED
  BY <1>3, <1>4, <1>5, <1>6, <1>8, <1>11, <1>12, <1>13, <1>14 DEF SameRq, SameRqBut, a

\* The task_struct of another task, at most its need_resched flag differs.
Alike(t, t2) ==
  /\ SameLink(t, t2) /\ t2.state = t.state /\ t2.time_slice = t.time_slice
  /\ t2.requested_time = t.requested_time
Others(k, k2, p) == \A q \in AllTask \ {p} : Alike(k.task[q], k2.task[q])

\* try_to_wake_up of any task makes it a queued, running one (sched.c:459-503).
LEMMA SoundWake ==
  ASSUME NEW k, Sound(k, {}, 0), NEW p \in Task, NEW prio \in Prio
  PROVE  LET k2 == try_to_wake_up(k, p, prio)
             m  == IF ~Queued(k.task[p]) /\ k.task[p].state = "UNINTERRUPTIBLE"
                   THEN k.rq.nr_uninterruptible - 1 ELSE k.rq.nr_uninterruptible
         IN  /\ Sound(k2, {}, 0) /\ SameRqBut(k.rq, k2.rq, m) /\ Others(k, k2, p)
             /\ \E t \in TaskStructs :
                  /\ Alike([k.task[p] EXCEPT !.state = "RUNNING", !.array = t.array,
                                            !.prio = t.prio], t)
                  /\ k2.task[p] = t /\ Queued(t) /\ t.prio \in {prio, k.task[p].prio}
                  /\ Queued(k.task[p]) => t.prio = k.task[p].prio
<1> DEFINE m  == IF k.task[p].state = "UNINTERRUPTIBLE" THEN k.rq.nr_uninterruptible - 1
                 ELSE k.rq.nr_uninterruptible
           n  == IF Queued(k.task[p]) THEN k.rq.nr_uninterruptible ELSE m
           k1 == [k EXCEPT !.rq.nr_uninterruptible =
                         IF k.task[p].state = "UNINTERRUPTIBLE" THEN @ - 1 ELSE @]
           k2 == activate_task(k1, p, prio)
           k3 == IF k2.task[p].prio < k2.task[k.rq.curr].prio
                 THEN resched_task(k2, k.rq.curr) ELSE k2
           kw == IF k.task[p].array = "NULL" THEN k3 ELSE k
           ke == [kw EXCEPT !.task[p].state = "RUNNING"]
<1>1. ke = try_to_wake_up(k, p, prio)
  BY Zenon DEF try_to_wake_up
<1>2. /\ k \in Kernels /\ k.task[p] \in TaskStructs /\ k.task[p].prio \in Prio
      /\ p \in AllTask /\ k.rq.curr \in AllTask /\ k.task \in [AllTask -> TaskStructs]
      /\ k.rq.nr_uninterruptible \in Int /\ k.rq.nr_running \in Int
  BY SoundParts DEF AllTask, RunQueues
<1>3. Sound(k1, {}, 0) /\ SameRqBut(k.rq, k1.rq, m) /\ k1.task = k.task
  <2>1. k1 = WithCounts(k, k.rq.nr_running, m)
    BY <1>2 DEF Kernels, RunQueues, WithCounts
  <2>2. m \in Int /\ k.rq.nr_running + 0 = k.rq.nr_running
    BY <1>2
  <2> HIDE DEF k1, m
  <2>3. Sound(WithCounts(k, k.rq.nr_running + 0, m), {}, 0 + 0)
    BY <2>2, SoundCounts
  <2>4. SameRqBut(k.rq, k1.rq, m) /\ k1.task = k.task
    BY <1>2, <2>1, <2>2, CountsEffect
  <2> QED
    BY <2>1, <2>2, <2>3, <2>4
<1> HIDE DEF k1
<1>4. /\ Sound(kw, {}, 0) /\ SameRqBut(k.rq, kw.rq, n) /\ Others(k, kw, p)
      /\ Queued(kw.task[p]) /\ kw.task[p].prio \in {prio, k.task[p].prio}
      /\ Queued(k.task[p]) => kw.task[p].prio = k.task[p].prio
      /\ Alike([k.task[p] EXCEPT !.array = kw.task[p].array, !.prio = kw.task[p].prio],
               kw.task[p])
  <2>1. CASE Queued(k.task[p])
    <3>1. kw = k
      BY <2>1 DEF Queued
    <3> QED
      BY <1>2, <2>1, <3>1 DEF SameRqBut, Others, Alike, SameLink, TaskStructs, Queued
  <2>2. CASE ~Queued(k.task[p])
    <3> DEFINE a == HomeArray(k1, k1.task[p])
    <3>1. /\ Sound(k2, {}, 0) /\ SameRq(k1.rq, k2.rq) /\ a \in ArrayId
          /\ k2.task = [k.task EXCEPT ![p] = [k.task[p] EXCEPT !.prio = prio, !.array = a]]
      <4>1. Sound(k1, {p}, 0)
        BY <1>3, <2>2, SoundInHand
      <4>2. /\ Sound(k2, {}, 0) /\ SameRq(k1.rq, k2.rq) /\ a \in ArrayId
            /\ k2.task = [k1.task EXCEPT
                 ![p] = [k1.task[p] EXCEPT !.prio = prio, !.array = a]]
        BY <4>1, SoundActivate
      <4> HIDE DEF k2, a
      <4> QED
        BY <1>3, <4>2
    <3> HIDE DEF k2, a
    <3>2. /\ Sound(k3, {}, 0) /\ k3.rq = k2.rq
          /\ k3.task \in {k2.task, [k2.task EXCEPT ![k.rq.curr].need_resched = TRUE]}
      BY <1>2, <3>1, SoundResched
    <3>3. kw = k3
      BY <2>2 DEF Queued
    <3> HIDE DEF k3, kw
    <3>4. /\ k2.task[p] = [k.task[p] EXCEPT !.prio = prio, !.array = a]
          /\ \A q \in AllTask \ {p} : k2.task[q] = k.task[q]
          /\ \A q \in AllTask : k2.task[q] \in TaskStructs
      <4>1. k2.task \in [AllTask -> TaskStructs]
        BY <3>1, SoundParts
      <4> QED
        BY <1>2, <3>1, <4>1
    <3>5. \A q \in AllTask :
            k3.task[q] \in {k2.task[q], [k2.task[q] EXCEPT !.need_resched = TRUE]}
      <4>1. k2.task \in [AllTask -> TaskStructs]
        BY <3>1, SoundParts
      <4> QED
        BY <3>2, <4>1
    <3>6. \A t \in TaskStructs : Alike(t, t) /\ Alike(t, [t EXCEPT !.need_resched = TRUE])
      BY DEF Alike, SameLink, TaskStructs
    <3>7. Others(k, k3, p) /\ Alike(k2.task[p], k3.task[p])
      BY <1>2, <3>4, <3>5, <3>6 DEF Others
    <3>8. /\ k3.task[p].prio = prio /\ k3.task[p].array = a
          /\ Alike([k.task[p] EXCEPT !.array = a, !.prio = prio], k3.task[p])
      BY <1>2, <3>4, <3>7 DEF Alike, SameLink, TaskStructs
    <3>9. SameRqBut(k.rq, k3.rq, n)
      BY <1>3, <2>2, <3>1, <3>2 DEF SameRq, SameRqBut
    <3> QED
      BY <2>2, <3>1, <3>2, <3>3, <3>7, <3>8, <3>9 DEF Queued, ArrayId
  <2> QED
    BY <2>1, <2>2
<1> HIDE DEF kw, m
<1>5. /\ kw \in Kernels /\ kw.task[p] \in TaskStructs /\ kw.task[p].prio \in Prio
      /\ kw.task \in [AllTask -> TaskStructs]
  BY <1>2, <1>4, SoundParts
<1> DEFINE t == [kw.task[p] EXCEPT !.state = "RUNNING"]
<1>6. t \in TaskStructs /\ t.prio \in Prio /\ SameLink(kw.task[p], t)
  <2>1. t \in TaskStructs
    BY <1>5, SetField DEF States
  <2> QED
    BY <1>5, <2>1 DEF TaskStructs, SameLink
<1>7. ke = [kw EXCEPT !.task[p] = t]
  BY <1>5 DEF Kernels
<1>8. /\ t.array = kw.task[p].array /\ t.prio = kw.task[p].prio
      /\ Alike([k.task[p] EXCEPT !.state = "RUNNING", !.array = t.array, !.prio = t.prio], t)
  BY <1>2, <1>4, <1>5 DEF Alike, SameLink, TaskStructs
<1> HIDE DEF t, ke
<1>9. Sound(ke, {}, 0) /\ ke.rq = kw.rq /\ ke.task = [kw.task EXCEPT ![p] = t]
  BY <1>2, <1>4, <1>6, <1>7, SoundSetTask
<1>10. ke.task[p] = t /\ Others(k, ke, p)
  BY <1>2, <1>4, <1>5, <1>9 DEF Others
<1>11. Queued(t)
  BY <1>4, <1>8 DEF Queued
<1>12. n = IF ~Queued(k.task[p]) /\ k.task[p].state = "UNINTERRUPTIBLE"
           THEN k.rq.nr_uninterruptible - 1 ELSE k.rq.nr_uninterruptible
  BY DEF m
<1> QED
  BY <1>1, <1>4, <1>6, <1>8, <1>9, <1>10, <1>11, <1>12

-----------------------------------------------------------------------------
(* schedule() *)

\* The first part of schedule: current stays on the runqueue exactly when it is
\* running, or is made so by a pending signal (sched.c:1067-1078).
LEMMA SoundLeave ==
  ASSUME NEW k, KernelInv(k), NEW signal_pending \in BOOLEAN
  PROVE  LET p  == k.rq.curr
             k2 == leave_runqueue(k, p, signal_pending)
             t  == k2.task[p]
             m  == IF t.state = "UNINTERRUPTIBLE" THEN k.rq.nr_uninterruptible + 1
                   ELSE k.rq.nr_uninterruptible
         IN  /\ Sound(k2, {}, 0) /\ SameRqBut(k.rq, k2.rq, m) /\ Others(k, k2, p)
             /\ Alike([k.task[p] EXCEPT !.state = t.state, !.array = t.array], t)
             /\ t.state \in {k.task[p].state, "RUNNING"}
             /\ p \in Task => (Queued(t) <=> t.state = "RUNNING")
<1> DEFINE p  == k.rq.curr
           k2 == leave_runqueue(k, p, signal_pending)
           m  == IF k2.task[p].state = "UNINTERRUPTIBLE" THEN k.rq.nr_uninterruptible + 1
                 ELSE k.rq.nr_uninterruptible
           good == /\ Sound(k2, {}, 0) /\ SameRqBut(k.rq, k2.rq, m) /\ Others(k, k2, p)
                   /\ Alike([k.task[p] EXCEPT !.state = k2.task[p].state,
                                              !.array = k2.task[p].array], k2.task[p])
                   /\ k2.task[p].state \in {k.task[p].state, "RUNNING"}
                   /\ p \in Task => (Queued(k2.task[p]) <=> k2.task[p].state = "RUNNING")
<1>1. /\ Sound(k, {}, 0) /\ k \in Kernels /\ p \in AllTask
      /\ k.task \in [AllTask -> TaskStructs]
      /\ p \in Task => Queued(k.task[p]) /\ k.task[p].prio \in Prio
      /\ p \notin Task => k.task[p].state = "RUNNING"
  BY SoundParts DEF KernelInv, Awake, AllTask
<1>2. \A t \in TaskStructs : Alike(t, t) /\ Alike([t EXCEPT !.state = t.state, !.array = t.array], t)
  BY DEF Alike, SameLink, TaskStructs
<1>3. ASSUME k.task[p].state = "RUNNING"
      PROVE  good
  <2>1. k2 = k
    BY <1>3 DEF leave_runqueue
  <2> QED
    BY <1>1, <1>2, <1>3, <2>1 DEF Others, SameRqBut
<1>4. ASSUME k.task[p].state = "INTERRUPTIBLE", signal_pending
      PROVE  good
  <2> DEFINE t == [k.task[p] EXCEPT !.state = "RUNNING"]
  <2>1. k2 = [k EXCEPT !.task[p] = t]
    BY <1>1, <1>4 DEF leave_runqueue, Kernels
  <2>2. t \in TaskStructs
    BY <1>1, SetField DEF States
  <2>3. /\ t.state = "RUNNING" /\ t.array = k.task[p].array /\ t.prio = k.task[p].prio
        /\ SameLink(k.task[p], t)
        /\ Alike([k.task[p] EXCEPT !.state = t.state, !.array = t.array], t)
    BY <1>1, <2>2 DEF SameLink, Alike, TaskStructs
  <2> HIDE DEF t, k2
  <2>4. Sound(k2, {}, 0) /\ k2.rq = k.rq /\ k2.task = [k.task EXCEPT ![p] = t]
    BY <1>1, <2>1, <2>2, <2>3, SoundSetTask
  <2>5. k2.task[p] = t
    BY <1>1, <2>4
  <2>6. Others(k, k2, p)
    <3>1. \A q \in AllTask \ {p} : k2.task[q] = k.task[q]
      BY <1>1, <2>4
    <3> QED
      BY <1>1, <1>2, <3>1 DEF Others
  <2>7. p \in Task => Queued(t)
    BY <1>1, <2>3 DEF Queued
  <2>8. SameRqBut(k.rq, k2.rq, m)
    BY <2>3, <2>4, <2>5 DEF SameRqBut
  <2> HIDE DEF p, m
  <2> QED
    BY <2>3, <2>4, <2>5, <2>6, <2>7, <2>8
<1>5. ASSUME k.task[p].state # "RUNNING", ~(k.task[p].state = "INTERRUPTIBLE" /\ signal_pending)
      PROVE  good
  <2>1. k2 = deactivate_task(k, p)
    BY <1>5 DEF leave_runqueue
  <2>2. p \in Task
    BY <1>1, <1>5
  <2> DEFINE n == IF k.task[p].state = "UNINTERRUPTIBLE" THEN k.rq.nr_uninterruptible + 1
                  ELSE k.rq.nr_uninterruptible
  <2>3. /\ Sound(k2, {}, 0) /\ SameRqBut(k.rq, k2.rq, n)
        /\ k2.task = [k.task EXCEPT ![p].array = "NULL"]
    <3> HIDE DEF p
    <3>1. LET kd == deactivate_task(k, p)
          IN  /\ Sound(kd, {}, 0) /\ SameRqBut(k.rq, kd.rq, n)
              /\ kd.task = [k.task EXCEPT ![p].array = "NULL"]
      BY <1>1, <2>2, SoundDeactivate
    <3> HIDE DEF k2, n
    <3> QED
      BY <2>1, <3>1
  <2> HIDE DEF k2
  <2>4. k2.task[p] = [k.task[p] EXCEPT !.array = "NULL"]
    BY <1>1, <2>3
  <2>5. /\ k2.task[p].state = k.task[p].state /\ ~Queued(k2.task[p])
        /\ Alike([k.task[p] EXCEPT !.state = k2.task[p].state, !.array = k2.task[p].array],
                 k2.task[p])
    BY <1>1, <2>4 DEF Queued, Alike, SameLink, TaskStructs
  <2>6. Others(k, k2, p)
    <3>1. \A q \in AllTask \ {p} : k2.task[q] = k.task[q]
      BY <1>1, <2>3
    <3> QED
      BY <1>1, <1>2, <3>1 DEF Others
  <2>7. m = n
    BY <2>5
  <2> HIDE DEF p, n, m
  <2> QED
    BY <1>5, <2>3, <2>5, <2>6, <2>7
<1> HIDE DEF good
<1>6. good
  BY <1>3, <1>4, <1>5
<1> QED
  BY <1>6 DEF good

\* The swap of active and expired: what becomes expired is empty
\* (sched.c:1107-1117).
LEMMA SoundSwap ==
  ASSUME NEW k, Sound(k, {}, 0)
  PROVE  LET k2 == swap_arrays(k)
         IN  /\ Sound(k2, {}, 0) /\ k2.task = k.task /\ k2.rq.curr = k.rq.curr
             /\ k2.rq.nr_uninterruptible = k.rq.nr_uninterruptible
             /\ k2.rq.nr_running = k.rq.nr_running
             /\ k2.rq.arrays[k2.rq.active].nr_active = 0 => Members(k2, {}, k2.rq.expired) = {}
<1>1. k \in Kernels /\ k.rq \in RunQueues /\ k.oops = "none" /\ k.rq.active \in ArrayId
  BY SoundParts
<1>2. k.rq.arrays[k.rq.active].nr_active = 0 => Members(k, {}, k.rq.active) = {}
  <2>1. /\ Holds(k.rq.arrays[k.rq.active], Members(k, {}, k.rq.active), k.task)
        /\ IsFiniteSet(Members(k, {}, k.rq.active))
    BY <1>1, SoundArray
  <2> QED
    BY <2>1, FS_EmptySet DEF Holds
<1>3. CASE k.rq.arrays[k.rq.active].nr_active # 0
  <2>1. swap_arrays(k) = k
    BY <1>3 DEF swap_arrays
  <2> QED
    BY <1>3, <2>1
<1>4. CASE k.rq.arrays[k.rq.active].nr_active = 0
  <2> DEFINE k2 == swap_arrays(k)
  <2>1. k2 \in Kernels
    BY <1>1, SwapEvolves DEF Evolves
  <2>2. /\ k2.task = k.task /\ k2.oops = "none" /\ k2.rq.arrays = k.rq.arrays
        /\ k2.rq.active = k.rq.expired /\ k2.rq.expired = k.rq.active
        /\ k2.rq.curr = k.rq.curr /\ k2.rq.nr_running = k.rq.nr_running
        /\ k2.rq.nr_uninterruptible = k.rq.nr_uninterruptible
    BY <1>1, <1>4 DEF swap_arrays, Kernels, RunQueues
  <2> HIDE DEF k2
  <2>3. /\ \A a : Members(k2, {}, a) = Members(k, {}, a)
        /\ QueuedBut(k2, {}) = QueuedBut(k, {})
    BY <2>2 DEF Members, QueuedBut
  <2>4. \A a \in ArrayId : Holds(k2.rq.arrays[a], Members(k2, {}, a), k2.task)
    BY <2>2, <2>3 DEF Sound
  <2>5. \A q \in QueuedBut(k2, {}) : Fits(k2.task[q], k2.task[q].array, k2.rq)
    <3>1. \A q \in QueuedBut(k, {}) : k.task[q].array # k.rq.active
      BY <1>2, <1>4 DEF Members, QueuedBut
    <3> QED
      BY <2>2, <2>3, <3>1 DEF Sound, Fits
  <2>6. Sound(k2, {}, 0)
    BY <2>1, <2>2, <2>3, <2>4, <2>5 DEF Sound
  <2> QED
    BY <1>2, <1>4, <2>2, <2>3, <2>6 DEF k2
<1> QED
  BY <1>3, <1>4

\* The switch (sched.c:1183-1190).
LEMMA SoundSwitch ==
  ASSUME NEW k, Sound(k, {}, 0), NEW prev \in AllTask, NEW next \in AllTask
  PROVE  LET k2 == switch_tasks(k, prev, next)
         IN  /\ Sound(k2, {}, 0) /\ k2.rq.curr = next
             /\ k2.rq.nr_uninterruptible = k.rq.nr_uninterruptible
             /\ \A q \in AllTask : Alike(k.task[q], k2.task[q])
<1> DEFINE k2 == switch_tasks(k, prev, next)
<1>1. k \in Kernels /\ k.rq \in RunQueues /\ k.oops = "none" /\ k.task \in [AllTask -> TaskStructs]
  BY SoundParts
<1>2. k2 \in Kernels
  BY <1>1, SwitchEvolves DEF Evolves
<1>3. /\ k2.task = [k.task EXCEPT ![prev].need_resched = FALSE] /\ k2.oops = "none"
      /\ k2.rq = [k.rq EXCEPT !.curr = next]
  BY <1>1 DEF switch_tasks, Kernels
<1> HIDE DEF k2
<1>4. /\ k2.rq.arrays = k.rq.arrays /\ k2.rq.curr = next /\ k2.rq.active = k.rq.active
      /\ k2.rq.expired = k.rq.expired /\ k2.rq.nr_running = k.rq.nr_running
      /\ k2.rq.nr_uninterruptible = k.rq.nr_uninterruptible
  BY <1>1, <1>3 DEF RunQueues
<1>5. \A q \in AllTask : Alike(k.task[q], k2.task[q])
  BY <1>1, <1>3 DEF Alike, SameLink, TaskStructs
<1>6. k2.task \in [AllTask -> TaskStructs] /\ Task \subseteq AllTask
  BY <1>2, KernelParts DEF AllTask
<1>7. \A q \in Task : SameLink(k.task[q], k2.task[q])
  BY <1>5, <1>6 DEF Alike
<1>8. /\ \A a : Members(k2, {}, a) = Members(k, {}, a)
      /\ QueuedBut(k2, {}) = QueuedBut(k, {})
  BY <1>7 DEF Members, QueuedBut, SameLink, Queued
<1>9. \A a \in ArrayId : Holds(k2.rq.arrays[a], Members(k2, {}, a), k2.task)
  <2>1. SUFFICES ASSUME NEW a \in ArrayId
                 PROVE  Holds(k2.rq.arrays[a], Members(k2, {}, a), k2.task)
    OBVIOUS
  <2>2. Holds(k2.rq.arrays[a], Members(k2, {}, a), k.task)
    BY <1>4, <1>8, SoundArray
  <2>3. \A q \in Members(k2, {}, a) : k2.task[q].prio = k.task[q].prio
    BY <1>7 DEF Members, SameLink
  <2> QED
    BY <2>2, <2>3, HoldsSame
<1>10. \A q \in QueuedBut(k2, {}) : Fits(k2.task[q], k2.task[q].array, k2.rq)
  BY <1>4, <1>7, <1>8 DEF Sound, Fits, SameLink, QueuedBut, ShortNow, Overdue, rt_task
<1>11. Sound(k2, {}, 0)
  BY <1>2, <1>3, <1>4, <1>8, <1>9, <1>10 DEF Sound
<1> QED
  BY <1>4, <1>5, <1>11 DEF k2

\* t is of a better class than u, or of the same and in the first two classes of
\* no lower priority.
Beats(t, u) ==
  /\ Rank(t) <= Rank(u)
  /\ Rank(t) \in {1, 2} /\ Rank(t) = Rank(u) => t.prio <= u.prio

\* current is the best of what is queued; idle, it has no rival.
Best(k) == \A q \in QueuedBut(k, {}) :
  k.rq.curr \in Task /\ Beats(k.task[k.rq.curr], k.task[q])

\* The array of a queued process tells its class.
RankPlace(t, r) ==
  /\ t.array = r.active => Rank(t) = IF t.prio < MAX_RT_PRIO THEN 1 ELSE 3
  /\ t.array = "short_q" => Rank(t) = 2
  /\ t.array = r.expired => Rank(t) = 3
  /\ t.array = "overdue" => Rank(t) = 4
  /\ t.array \in {r.active, r.expired, "short_q", "overdue"}

\* It does so for every queued process of a sound runqueue.
LEMMA RankOf ==
  ASSUME NEW k, Sound(k, {}, 0), NEW p \in QueuedBut(k, {}), TaskOK(k.task[p])
  PROVE  RankPlace(k.task[p], k.rq)
<1> DEFINE t == k.task[p]
<1>1. /\ k.rq.active \in {"array0", "array1"} /\ k.rq.expired \in {"array0", "array1"}
      /\ k.rq.active # k.rq.expired /\ t \in TaskStructs
  BY SoundParts DEF RunQueues, AllTask, QueuedBut
<1>2. t.array \in ArrayId /\ t.policy \in Policies /\ t.is_overdue \in BOOLEAN
  BY <1>1, TaskFields DEF QueuedBut, Queued
<1>3. Fits(t, t.array, k.rq) /\ TaskOK(t)
  BY DEF Sound
<1> HIDE DEF t
<1>4. ASSUME t.policy = "SHORT"
      PROVE  RankPlace(t, k.rq)
  <2>1. /\ t.array = "short_q" <=> ~t.is_overdue
        /\ t.array = "overdue" <=> t.is_overdue
        /\ t.array # k.rq.expired /\ t.array # k.rq.active
    BY <1>1, <1>2, <1>3, <1>4 DEF Fits, ShortNow, Overdue
  <2>2. Rank(t) = IF t.is_overdue THEN 4 ELSE 2
    BY <1>2, <1>4 DEF Rank, ShortNow, Overdue
  <2> QED
    BY <1>2, <2>1, <2>2 DEF RankPlace
<1>5. ASSUME t.policy # "SHORT"
      PROVE  RankPlace(t, k.rq)
  <2>1. t.policy = "OTHER" <=> ~(t.prio < MAX_RT_PRIO)
    BY <1>3, <1>5 DEF TaskOK, rt_task
  <2>2. Rank(t) = IF t.policy = "OTHER" THEN 3 ELSE 1
    BY <1>2, <1>5 DEF Rank, ShortNow, Overdue, Policies
  <2>3. t.array # "short_q" /\ t.array # "overdue" /\ (t.array = k.rq.expired => t.policy = "OTHER")
    BY <1>3, <1>5 DEF Fits, ShortNow, Overdue
  <2> QED
    BY <1>1, <1>2, <2>1, <2>2, <2>3 DEF RankPlace, ArrayId
<1>6. RankPlace(t, k.rq)
  BY <1>4, <1>5
<1> QED
  BY <1>6 DEF t

\* The head of the first list of an array.
LEMMA FirstIdx ==
  ASSUME NEW k, Sound(k, {}, 0), NEW a \in ArrayId
  PROVE  LET i == first_idx(k.rq.arrays[a])
             q == list_at(k, << a, i >>)
         IN  IF Members(k, {}, a) = {} THEN i = -1
             ELSE /\ i \in Prio /\ q # << >> /\ Head(q) \in Members(k, {}, a)
                  /\ k.task[Head(q)].prio = i
                  /\ \A p \in Members(k, {}, a) : i <= k.task[p].prio
<1> DEFINE arr == k.rq.arrays[a]
           M   == Members(k, {}, a)
           i   == first_idx(arr)
<1>1. arr \in PrioArrays /\ Holds(arr, M, k.task) /\ M \in SUBSET Task /\ IsFiniteSet(M)
  BY SoundArray
<1>2. \A q \in M : k.task[q].prio \in Prio
  BY SoundParts DEF Members
<1> HIDE DEF M, arr
<1>3. /\ arr.nr_active \in Nat /\ (arr.nr_active = 0 <=> M = {})
      /\ M # {} =>
           LET j == find_first_bit(arr)
           IN  /\ j \in Prio /\ arr.queue[j] # << >>
               /\ Head(arr.queue[j]) \in {q \in M : k.task[q].prio = j}
               /\ \A q \in M : j <= k.task[q].prio
  BY <1>1, <1>2, FirstHolds
<1>4. i = IF M = {} THEN -1 ELSE find_first_bit(arr)
  BY <1>3 DEF first_idx
<1>5. i \in Prio => list_at(k, << a, i >>) = arr.queue[i]
  BY DEF list_at, arr
<1> HIDE DEF i
<1>6. IF M = {} THEN i = -1
      ELSE /\ i \in Prio /\ list_at(k, << a, i >>) # << >>
           /\ Head(list_at(k, << a, i >>)) \in M
           /\ k.task[Head(list_at(k, << a, i >>))].prio = i
           /\ \A p \in M : i <= k.task[p].prio
  BY <1>3, <1>4, <1>5
<1> QED
  BY <1>6 DEF M, i, arr

\* The list schedule chooses is not empty, and its head is the best of what is
\* queued: real-time processes of active, then SHORT ones, then OTHER ones, then
\* the overdue (sched.c:1119-1150).
LEMMA PickBest ==
  ASSUME NEW k, Sound(k, {}, 0), QueuedBut(k, {}) # {},
         \A p \in Task : TaskOK(k.task[p]),
         k.rq.arrays[k.rq.active].nr_active = 0 => Members(k, {}, k.rq.expired) = {}
  PROVE  LET q == list_at(k, pick_queue(k))
         IN  /\ q # << >> /\ Head(q) \in QueuedBut(k, {})
             /\ \A p \in QueuedBut(k, {}) : Beats(k.task[Head(q)], k.task[p])
<1> DEFINE M(a)  == Members(k, {}, a)
           at(a) == << a, first_idx(k.rq.arrays[a]) >>
           act   == k.rq.active
           exp   == k.rq.expired
           idx(a) == first_idx(k.rq.arrays[a])
           wins(a) == /\ list_at(k, at(a)) # << >> /\ Head(list_at(k, at(a))) \in QueuedBut(k, {})
                      /\ \A p \in QueuedBut(k, {}) :
                           Beats(k.task[Head(list_at(k, at(a)))], k.task[p])
<1>1. /\ act \in ArrayId /\ exp \in ArrayId /\ "short_q" \in ArrayId /\ "overdue" \in ArrayId
      /\ MAX_RT_PRIO \in Nat /\ Prio = 0 .. MAX_PRIO - 1
  BY SoundParts, PrioAssumption DEF ArrayId, Prio
<1>2. \A a \in ArrayId :
        IF M(a) = {} THEN idx(a) = -1
        ELSE /\ idx(a) \in Prio /\ list_at(k, at(a)) # << >>
             /\ Head(list_at(k, at(a))) \in M(a)
             /\ k.task[Head(list_at(k, at(a)))].prio = idx(a)
             /\ \A p \in M(a) : idx(a) <= k.task[p].prio
  BY FirstIdx
<1>3. \A a \in ArrayId : M(a) \subseteq QueuedBut(k, {}) /\ \A p \in M(a) : k.task[p].array = a
  BY DEF Members, QueuedBut, Queued, ArrayId
<1>4. \A p \in QueuedBut(k, {}) : p \in M(k.task[p].array) /\ RankPlace(k.task[p], k.rq)
  BY RankOf DEF Members, QueuedBut
<1>5. M(act) = {} => M(exp) = {}
  <2>1. /\ Holds(k.rq.arrays[act], M(act), k.task) /\ M(act) \in SUBSET Task
        /\ IsFiniteSet(M(act)) /\ k.rq.arrays[act] \in PrioArrays
    BY <1>1, SoundArray
  <2> QED
    BY <2>1, FS_EmptySet DEF Holds
<1>6. \A p \in QueuedBut(k, {}) : k.task[p].prio \in Prio
  BY SoundParts DEF QueuedBut
<1> HIDE DEF M, idx, at, act, exp
<1>7. pick_queue(k) =
        IF idx(act) \in 0 .. MAX_RT_PRIO - 1 THEN at(act)
        ELSE IF idx("short_q") >= 0 THEN at("short_q")
        ELSE IF idx(act) >= MAX_RT_PRIO THEN at(act)
        ELSE IF idx("overdue") >= 0 THEN at("overdue")
        ELSE << "NULL", 0 >>
  BY DEF pick_queue, idx, at, act
<1>8. ASSUME NEW a \in ArrayId, M(a) # {}, NEW n \in 1 .. 4,
             RankPlace(k.task[Head(list_at(k, at(a)))], k.rq) => Rank(k.task[Head(list_at(k, at(a)))]) = n,
             \A p \in QueuedBut(k, {}) :
               n <= Rank(k.task[p]) /\ (n \in {1, 2} /\ Rank(k.task[p]) = n => k.task[p].array = a)
      PROVE  wins(a)
  <2> DEFINE h == Head(list_at(k, at(a)))
  <2>1. /\ list_at(k, at(a)) # << >> /\ h \in M(a) /\ h \in QueuedBut(k, {})
        /\ k.task[h].prio = idx(a) /\ \A p \in M(a) : idx(a) <= k.task[p].prio
    BY <1>2, <1>3, <1>8
  <2>2. Rank(k.task[h]) = n
    BY <1>4, <1>8, <2>1
  <2> HIDE DEF h
  <2>3. ASSUME NEW p \in QueuedBut(k, {})
        PROVE  Beats(k.task[h], k.task[p])
    <3>1. n <= Rank(k.task[p]) /\ (n \in {1, 2} /\ Rank(k.task[p]) = n => k.task[p].array = a)
      BY <1>8
    <3>2. k.task[p].array = a => idx(a) <= k.task[p].prio
      BY <1>4, <2>1
    <3> QED
      BY <2>1, <2>2, <3>1, <3>2 DEF Beats
  <2> QED
    BY <2>1, <2>3 DEF h
<1>9. \A p \in QueuedBut(k, {}) : LET t == k.task[p] IN
        /\ t.array = act => (t.prio < MAX_RT_PRIO /\ Rank(t) = 1) \/ (t.prio >= MAX_RT_PRIO /\ Rank(t) = 3)
        /\ t.array = act => act \in ArrayId /\ M(act) # {} /\ idx(act) <= t.prio
        /\ t.array = "short_q" => Rank(t) = 2 /\ M("short_q") # {}
        /\ t.array = exp => Rank(t) = 3 /\ M(exp) # {}
        /\ t.array = "overdue" => Rank(t) = 4 /\ M("overdue") # {}
        /\ t.array \in {act, exp, "short_q", "overdue"}
  <2>1. SUFFICES ASSUME NEW p \in QueuedBut(k, {}), NEW t, t = k.task[p]
        PROVE
        /\ t.array = act => (t.prio < MAX_RT_PRIO /\ Rank(t) = 1) \/ (t.prio >= MAX_RT_PRIO /\ Rank(t) = 3)
        /\ t.array = act => act \in ArrayId /\ M(act) # {} /\ idx(act) <= t.prio
        /\ t.array = "short_q" => Rank(t) = 2 /\ M("short_q") # {}
        /\ t.array = exp => Rank(t) = 3 /\ M(exp) # {}
        /\ t.array = "overdue" => Rank(t) = 4 /\ M("overdue") # {}
        /\ t.array \in {act, exp, "short_q", "overdue"}
    OBVIOUS
  <2>2. RankPlace(t, k.rq) /\ t.prio \in 0 .. MAX_PRIO - 1 /\ p \in M(t.array)
    BY <1>1, <1>4, <1>6, <2>1
  <2>3. t.array = act => idx(act) <= t.prio
    BY <1>1, <1>2, <2>1, <2>2
  <2>4. MAX_PRIO \in Int
    BY MaxPrioAssumption
  <2> QED
    BY <1>1, <2>2, <2>3, <2>4 DEF RankPlace, act, exp
<1>10. PICK w \in QueuedBut(k, {}) : TRUE
  OBVIOUS
<1>11. MAX_PRIO \in Int
  BY MaxPrioAssumption
<1>12. CASE idx(act) \in 0 .. MAX_RT_PRIO - 1
  <2>1. M(act) # {}
    BY <1>1, <1>2, <1>12
  <2>2. LET t == k.task[Head(list_at(k, at(act)))] IN RankPlace(t, k.rq) => Rank(t) = 1
    BY <1>1, <1>2, <1>3, <1>9, <1>12, <2>1
  <2>3. \A p \in QueuedBut(k, {}) :
          1 <= Rank(k.task[p]) /\ (Rank(k.task[p]) = 1 => k.task[p].array = act)
    BY <1>9
  <2> HIDE DEF wins
  <2>4. wins(act)
    BY <1>1, <1>8, <2>1, <2>2, <2>3
  <2> QED
    BY <1>7, <1>12, <2>4 DEF wins
<1>13. CASE ~(idx(act) \in 0 .. MAX_RT_PRIO - 1) /\ idx("short_q") >= 0
  <2>1. M("short_q") # {}
    BY <1>1, <1>2, <1>13
  <2>2. LET t == k.task[Head(list_at(k, at("short_q")))] IN RankPlace(t, k.rq) => Rank(t) = 2
    BY <1>1, <1>2, <1>3, <1>9, <2>1
  <2>3. \A p \in QueuedBut(k, {}) :
          2 <= Rank(k.task[p]) /\ (Rank(k.task[p]) = 2 => k.task[p].array = "short_q")
    <3>1. M(act) # {} => idx(act) >= MAX_RT_PRIO
      BY <1>1, <1>2, <1>11, <1>13
    <3>2. \A p \in QueuedBut(k, {}) : k.task[p].array = act => k.task[p].prio >= MAX_RT_PRIO
      BY <1>1, <1>2, <1>6, <1>9, <1>11, <3>1
    <3> QED
      BY <1>1, <1>6, <1>9, <1>11, <3>2
  <2> HIDE DEF wins
  <2>4. wins("short_q")
    BY <1>1, <1>8, <2>1, <2>2, <2>3
  <2> QED
    BY <1>7, <1>13, <2>4 DEF wins
<1>14. CASE ~(idx(act) \in 0 .. MAX_RT_PRIO - 1) /\ idx("short_q") = -1 /\ idx(act) # -1
  <2>1. M(act) # {} /\ M("short_q") = {} /\ idx(act) >= MAX_RT_PRIO
    BY <1>1, <1>2, <1>11, <1>14
  <2>2. LET t == k.task[Head(list_at(k, at(act)))] IN RankPlace(t, k.rq) => Rank(t) = 3
    BY <1>1, <1>2, <1>3, <1>6, <1>9, <1>11, <2>1
  <2>3. \A p \in QueuedBut(k, {}) : 3 <= Rank(k.task[p])
    <3>1. idx(act) \in Int /\ \A p \in QueuedBut(k, {}) : k.task[p].prio \in Int
      BY <1>1, <1>2, <1>6, <1>11
    <3>2. \A p \in QueuedBut(k, {}) : k.task[p].array = act => ~(k.task[p].prio < MAX_RT_PRIO)
      BY <1>1, <1>9, <2>1, <3>1
    <3> QED
      BY <1>9, <2>1, <3>2
  <2> HIDE DEF wins
  <2>4. wins(act)
    BY <1>1, <1>8, <2>1, <2>2, <2>3
  <2> QED
    BY <1>7, <1>14, <2>1, <2>4 DEF wins
<1>15. CASE idx("short_q") = -1 /\ idx(act) = -1
  <2>1. M(act) = {} /\ M(exp) = {} /\ M("short_q") = {}
    BY <1>1, <1>2, <1>5, <1>15
  <2>2. M("overdue") # {}
    BY <1>9, <1>10, <2>1
  <2>3. LET t == k.task[Head(list_at(k, at("overdue")))] IN RankPlace(t, k.rq) => Rank(t) = 4
    BY <1>1, <1>2, <1>3, <1>9, <2>2
  <2>4. \A p \in QueuedBut(k, {}) : 4 <= Rank(k.task[p])
    BY <1>9, <2>1
  <2> HIDE DEF wins
  <2>5. wins("overdue")
    BY <1>1, <1>8, <2>2, <2>3, <2>4
  <2>6. idx("overdue") >= 0
    BY <1>1, <1>2, <1>11, <2>2
  <2>7. pick_queue(k) = at("overdue")
    BY <1>1, <1>7, <1>15, <2>6
  <2> QED
    BY <2>5, <2>7 DEF wins
<1>16. idx("short_q") = -1 \/ idx("short_q") >= 0
  BY <1>1, <1>2, <1>11
<1> QED
  BY <1>12, <1>13, <1>14, <1>15, <1>16

\* What the choice of the next task leaves: the runqueue as it was, and as current
\* the best of what is queued.
Picked(k, k2) ==
  /\ Sound(k2, {}, 0) /\ Best(k2)
  /\ k2.rq.nr_uninterruptible = k.rq.nr_uninterruptible
  /\ k2.rq.curr \in Task => Queued(k2.task[k2.rq.curr])
  /\ \A q \in AllTask : Alike(k.task[q], k2.task[q])

\* Tasks that are alike are of the same class.
LEMMA AlikeBeats ==
  ASSUME NEW t, NEW t2, NEW u, NEW u2, Alike(t, t2), Alike(u, u2), Beats(t, u)
  PROVE  Beats(t2, u2)
<1>1. Rank(t2) = Rank(t) /\ Rank(u2) = Rank(u)
  BY DEF Alike, SameLink, Rank, ShortNow, Overdue
<1> QED
  BY <1>1 DEF Beats, Alike, SameLink

\* The choice of the next task finds one unless nothing is queued, so there is no
\* crash for want of a list, and finds the best (sched.c:1082-1150).
LEMMA SoundPick ==
  ASSUME NEW k, Sound(k, {}, 0), NEW prev \in AllTask, \A p \in Task : TaskOK(k.task[p])
  PROVE  Picked(k, pick_next_task(k, prev))
<1>1. /\ IsFiniteSet(QueuedBut(k, {})) /\ Cardinality(QueuedBut(k, {})) \in Nat
      /\ k.rq.nr_running = Cardinality(QueuedBut(k, {})) + 0
  BY SoundCount
<1>2. k.rq.nr_running = 0 <=> QueuedBut(k, {}) = {}
  BY <1>1, FS_EmptySet
<1>3. ASSUME NEW k1, Sound(k1, {}, 0), NEW next \in AllTask, NEW k2, k2 = switch_tasks(k1, prev, next)
      PROVE  /\ Sound(k2, {}, 0) /\ k2.rq.curr = next
             /\ k2.rq.nr_uninterruptible = k1.rq.nr_uninterruptible
             /\ \A q \in AllTask : Alike(k1.task[q], k2.task[q])
             /\ QueuedBut(k2, {}) = QueuedBut(k1, {})
  <2>1. /\ Sound(k2, {}, 0) /\ k2.rq.curr = next
        /\ k2.rq.nr_uninterruptible = k1.rq.nr_uninterruptible
        /\ \A q \in AllTask : Alike(k1.task[q], k2.task[q])
    BY <1>3, SoundSwitch
  <2> QED
    BY <2>1 DEF QueuedBut, Queued, Alike, SameLink, AllTask
<1>4. CASE k.rq.nr_running = 0
  <2> DEFINE k2 == switch_tasks(k, prev, Idle)
  <2>1. k2 = pick_next_task(k, prev)
    BY <1>4 DEF pick_next_task
  <2> HIDE DEF k2
  <2>2. /\ Sound(k2, {}, 0) /\ k2.rq.curr = Idle
        /\ k2.rq.nr_uninterruptible = k.rq.nr_uninterruptible
        /\ \A q \in AllTask : Alike(k.task[q], k2.task[q])
        /\ QueuedBut(k2, {}) = QueuedBut(k, {})
    BY <1>3 DEF AllTask, k2
  <2> QED
    BY <1>2, <1>4, <2>1, <2>2, IdleAssumption DEF Picked, Best
<1>5. CASE k.rq.nr_running # 0
  <2> DEFINE k1 == swap_arrays(k)
             q  == list_at(k1, pick_queue(k1))
             k2 == switch_tasks(k1, prev, Head(q))
  <2>1. /\ Sound(k1, {}, 0) /\ k1.task = k.task
        /\ k1.rq.nr_uninterruptible = k.rq.nr_uninterruptible
        /\ k1.rq.arrays[k1.rq.active].nr_active = 0 => Members(k1, {}, k1.rq.expired) = {}
    BY SoundSwap
  <2>2. QueuedBut(k1, {}) = QueuedBut(k, {})
    BY <2>1 DEF QueuedBut
  <2>3. k2 = pick_next_task(k, prev) \/ q = << >>
    BY <1>5 DEF pick_next_task
  <2> HIDE DEF k1
  <2>4. /\ q # << >> /\ Head(q) \in QueuedBut(k1, {})
        /\ \A p \in QueuedBut(k1, {}) : Beats(k1.task[Head(q)], k1.task[p])
    BY <1>2, <1>5, <2>1, <2>2, PickBest
  <2> DEFINE h == Head(q)
  <2>5. h \in Task /\ h \in AllTask /\ Queued(k1.task[h])
    BY <2>4 DEF QueuedBut, AllTask
  <2> HIDE DEF q, k2
  <2>6. /\ Sound(k2, {}, 0) /\ k2.rq.curr = h
        /\ k2.rq.nr_uninterruptible = k1.rq.nr_uninterruptible
        /\ \A p \in AllTask : Alike(k1.task[p], k2.task[p])
        /\ QueuedBut(k2, {}) = QueuedBut(k1, {})
    BY <1>3, <2>1, <2>5 DEF k2
  <2>7. Queued(k2.task[h])
    BY <2>5, <2>6 DEF Queued, Alike, SameLink
  <2>8. \A p \in QueuedBut(k1, {}) : Beats(k2.task[h], k2.task[p])
    <3>1. QueuedBut(k1, {}) \subseteq AllTask
      BY DEF QueuedBut, AllTask
    <3> QED
      BY <2>4, <2>5, <2>6, <3>1, AlikeBeats
  <2> HIDE DEF h
  <2>9. Best(k2)
    BY <2>5, <2>6, <2>8 DEF Best
  <2> QED
    BY <2>1, <2>3, <2>4, <2>5, <2>6, <2>7, <2>9 DEF Picked
<1> QED
  BY <1>4, <1>5

-----------------------------------------------------------------------------
(* The sleepers *)

\* The processes asleep uninterruptibly, but for those in E, that are about to be
\* born; nr_uninterruptible is to count them.
Asleep(k, E)  == {q \in Task \ E : k.task[q].state = "UNINTERRUPTIBLE" /\ ~Queued(k.task[q])}
Counted(k, E) == k.rq.nr_uninterruptible = Cardinality(Asleep(k, E))

\* Nothing about it changes unless a process changes state, or is queued.
SameSleep(t, t2) == t2.state = t.state /\ (Queued(t2) <=> Queued(t))

\* An operation that moves nobody in or out of sleep leaves the count right.
LEMMA CountSame ==
  ASSUME NEW k, NEW k2, NEW E, Counted(k, E),
         \A q \in Task \ E : SameSleep(k.task[q], k2.task[q]),
         k2.rq.nr_uninterruptible = k.rq.nr_uninterruptible
  PROVE  Counted(k2, E)
<1>1. Asleep(k2, E) = Asleep(k, E)
  BY DEF Asleep, SameSleep
<1> QED
  BY <1>1 DEF Counted

\* One process falls asleep.
LEMMA CountMore ==
  ASSUME NEW k, NEW k2, NEW E, NEW p \in Task \ E, p \notin Asleep(k, E), p \in Asleep(k2, E),
         \A q \in Task \ {p} : SameSleep(k.task[q], k2.task[q])
  PROVE  /\ Cardinality(Asleep(k, E)) \in Nat
         /\ Cardinality(Asleep(k2, E)) = Cardinality(Asleep(k, E)) + 1
<1>1. Asleep(k2, E) = Asleep(k, E) \cup {p}
  BY DEF Asleep, SameSleep
<1>2. IsFiniteSet(Asleep(k, E))
  <2>1. Asleep(k, E) \in SUBSET Task
    BY DEF Asleep
  <2> QED
    BY <2>1, TaskAssumption, FS_Subset
<1> QED
  BY <1>1, <1>2, FS_AddElement, FS_CardinalityType

\* Alike tasks sleep alike.
LEMMA AlikeSleep ==
  ASSUME NEW t, NEW t2, Alike(t, t2)
  PROVE  SameSleep(t, t2)
BY DEF Alike, SameLink, SameSleep, Queued

\* Being alike is transitive.
LEMMA AlikeTrans ==
  ASSUME NEW t, NEW u, NEW v, Alike(t, u), Alike(u, v)
  PROVE  Alike(t, v)
BY DEF Alike, SameLink

\* What is good of a task_struct is good of one like it.
LEMMA AlikeOK ==
  ASSUME NEW t, NEW t2, Alike(t, t2), TaskOK(t)
  PROVE  TaskOK(t2)
BY DEF Alike, SameLink, TaskOK, Queued, rt_task

\* The runqueue holds exactly the processes that are running.
Settled(k) == \A q \in Task : Queued(k.task[q]) <=> k.task[q].state = "RUNNING"

\* What schedule achieves: the best process is current, everything that is not
\* running is off the runqueue, and the sleepers are counted.
Scheduled(k, k2) ==
  /\ KernelInv(k2) /\ Best(k2) /\ Settled(k2)
  /\ \A q \in AllTask \ {k.rq.curr} : SameSleep(k.task[q], k2.task[q])
  /\ k2.task[k.rq.curr].state \in {k.task[k.rq.curr].state, "RUNNING"}
  /\ \A E : k.rq.curr \notin E /\ Counted(k, E) => Counted(k2, E)

\* schedule, in all its ways in (sched.c:1046-1219).
LEMMA ScheduleKeeps ==
  ASSUME NEW k, KernelInv(k), NEW signal_pending \in BOOLEAN
  PROVE  Scheduled(k, schedule(k, signal_pending))
<1> DEFINE p  == k.rq.curr
           k1 == leave_runqueue(k, p, signal_pending)
           k2 == pick_next_task(k1, p)
           m  == IF k1.task[p].state = "UNINTERRUPTIBLE" THEN k.rq.nr_uninterruptible + 1
                 ELSE k.rq.nr_uninterruptible
<1>1. k2 = schedule(k, signal_pending)
  BY DEF schedule
<1>2. /\ Sound(k1, {}, 0) /\ SameRqBut(k.rq, k1.rq, m) /\ Others(k, k1, p)
      /\ Alike([k.task[p] EXCEPT !.state = k1.task[p].state, !.array = k1.task[p].array],
               k1.task[p])
      /\ k1.task[p].state \in {k.task[p].state, "RUNNING"}
      /\ p \in Task => (Queued(k1.task[p]) <=> k1.task[p].state = "RUNNING")
  BY SoundLeave
<1>3. /\ k \in Kernels /\ p \in AllTask
      /\ p \in Task => Queued(k.task[p])
      /\ p \notin Task => p = Idle
      /\ \A q \in Task : q \in AllTask /\ TaskOK(k.task[q])
      /\ \A q \in AllTask : k.task[q] \in TaskStructs
      /\ k.task[Idle].state = "RUNNING" /\ Awake(k) /\ Idle \in AllTask
      /\ k.rq.nr_uninterruptible \in Int
  BY SoundParts DEF KernelInv, Awake, AllTask, RunQueues
<1> HIDE DEF m, k1, p
<1>4. \A q \in Task : TaskOK(k1.task[q])
  <2>1. \A q \in Task \ {p} : TaskOK(k1.task[q])
    BY <1>2, <1>3, AlikeOK DEF Others
  <2>2. ASSUME p \in Task PROVE TaskOK(k1.task[p])
    <3> DEFINE t == [k.task[p] EXCEPT !.state = k1.task[p].state, !.array = k1.task[p].array]
    <3>1. /\ k.task[p] \in TaskStructs /\ TaskOK(k.task[p]) /\ Queued(k.task[p])
          /\ k1.task[p].state \in {k.task[p].state, "RUNNING"}
      BY <1>2, <1>3, <2>2
    <3>2. TaskOK(t)
      <4>1. /\ t.state = k1.task[p].state /\ t.time_slice = k.task[p].time_slice
            /\ t.policy = k.task[p].policy /\ t.prio = k.task[p].prio
            /\ t.requested_time = k.task[p].requested_time
        BY <3>1 DEF TaskStructs
      <4>2. k.task[p].state # "FREE" /\ t.state # "FREE"
        BY <3>1, <4>1 DEF TaskOK
      <4> HIDE DEF t
      <4> QED
        BY <3>1, <4>1, <4>2 DEF TaskOK, rt_task
    <3> QED
      BY <1>2, <3>2, AlikeOK
  <2> QED
    BY <2>1, <2>2
<1>5. Picked(k1, k2)
  BY <1>2, <1>3, <1>4, SoundPick
<1> HIDE DEF k2
<1>6. \A q \in AllTask : Alike(k1.task[q], k2.task[q]) /\ SameSleep(k1.task[q], k2.task[q])
  BY <1>5, AlikeSleep DEF Picked
<1>7. Others(k, k2, p)
  BY <1>2, <1>6, AlikeTrans DEF Others
<1>8. \A q \in Task : Queued(k1.task[q]) <=> k1.task[q].state = "RUNNING"
  <2>1. \A q \in Task \ {p} : SameSleep(k.task[q], k1.task[q])
    BY <1>2, <1>3, AlikeSleep DEF Others
  <2> QED
    BY <1>2, <1>3, <2>1 DEF SameSleep, Awake, p
<1>9. Settled(k2)
  BY <1>3, <1>6, <1>8 DEF Settled, SameSleep
<1>10. k2.task[p].state \in {k.task[p].state, "RUNNING"}
  BY <1>2, <1>3, <1>6 DEF SameSleep
<1>11. KernelInv(k2)
  <2>1. Sound(k2, {}, 0) /\ Awake(k2)
    BY <1>5, <1>9 DEF Picked, Settled, Awake
  <2>2. \A q \in Task : TaskOK(k2.task[q])
    BY <1>3, <1>4, <1>6, AlikeOK
  <2>3. k2.task[Idle].state = "RUNNING"
    BY <1>3, <1>7, <1>10, AlikeSleep DEF Others, SameSleep
  <2> QED
    BY <2>1, <2>2, <2>3 DEF KernelInv
<1>12. ASSUME NEW E, p \notin E, Counted(k, E)
       PROVE  Counted(k2, E)
  <2>1. \A q \in Task \ {p} : SameSleep(k.task[q], k1.task[q])
    BY <1>2, <1>3, AlikeSleep DEF Others
  <2>2. \A q \in Task : SameSleep(k1.task[q], k2.task[q])
    BY <1>3, <1>6
  <2>3. Counted(k1, E)
    <3>1. CASE p \in Task /\ k1.task[p].state = "UNINTERRUPTIBLE"
      <4>0. Queued(k.task[p]) /\ ~Queued(k1.task[p])
        BY <1>2, <1>3, <3>1
      <4>1. p \notin Asleep(k, E) /\ p \in Asleep(k1, E)
        BY <1>12, <3>1, <4>0 DEF Asleep
      <4>2. /\ Cardinality(Asleep(k, E)) \in Nat
            /\ Cardinality(Asleep(k1, E)) = Cardinality(Asleep(k, E)) + 1
        BY <1>12, <2>1, <3>1, <4>1, CountMore
      <4> QED
        BY <1>2, <1>12, <3>1, <4>2 DEF Counted, SameRqBut, m
    <3>2. CASE p \in Task /\ k1.task[p].state # "UNINTERRUPTIBLE"
      <4>0. Queued(k.task[p])
        BY <1>3, <3>2
      <4>1. Asleep(k1, E) = Asleep(k, E)
        BY <2>1, <3>2, <4>0 DEF Asleep, SameSleep
      <4> QED
        BY <1>2, <1>12, <3>2, <4>1 DEF Counted, SameRqBut, m
    <3>3. CASE p \notin Task
      <4>1. Asleep(k1, E) = Asleep(k, E)
        BY <2>1, <3>3 DEF Asleep, SameSleep
      <4>2. k1.task[p].state = "RUNNING"
        BY <1>2, <1>3, <3>3
      <4> QED
        BY <1>2, <1>12, <4>1, <4>2 DEF Counted, SameRqBut, m
    <3> QED
      BY <3>1, <3>2, <3>3
  <2>4. k2.rq.nr_uninterruptible = k1.rq.nr_uninterruptible
    BY <1>5 DEF Picked
  <2> QED
    BY <2>2, <2>3, <2>4, CountSame
<1>13. Best(k2)
  BY <1>5 DEF Picked
<1>14. \A q \in AllTask \ {p} : SameSleep(k.task[q], k2.task[q])
  BY <1>7, AlikeSleep DEF Others
<1> QED
  BY <1>1, <1>9, <1>10, <1>11, <1>12, <1>13, <1>14 DEF Scheduled, p

-----------------------------------------------------------------------------
(* Operations on one process p *)

\* On the way from k to k2 only p has been worked on, and is in hand if X holds it.
Mid(k, k2, p, X, d) == Sound(k2, X, d) /\ SameRq(k.rq, k2.rq) /\ Others(k, k2, p)

\* The way starts at k itself.
LEMMA MidRefl ==
  ASSUME NEW k, NEW p, NEW X, NEW d, Sound(k, X, d)
  PROVE  Mid(k, k, p, X, d)
BY DEF Mid, SameRq, SameRqBut, Others, Alike, SameLink

\* Others are alike when they are the same.
LEMMA OthersSame ==
  ASSUME NEW k, NEW k1, NEW k2, NEW p, Others(k, k1, p),
         \A q \in AllTask \ {p} : k2.task[q] = k1.task[q]
  PROVE  Others(k, k2, p)
BY DEF Others

\* An assignment to the task_struct of p.
LEMMA MidSet ==
  ASSUME NEW k, NEW k1, NEW p \in Task, NEW X, NEW d, Mid(k, k1, p, X, d),
         NEW t \in TaskStructs, t.prio \in Prio, p \in X \/ SameLink(k1.task[p], t)
  PROVE  LET k2 == [k1 EXCEPT !.task[p] = t]
         IN  Mid(k, k2, p, X, d) /\ k2.task[p] = t
<1> DEFINE k2 == [k1 EXCEPT !.task[p] = t]
<1>1. /\ Sound(k1, X, d) /\ SameRq(k.rq, k1.rq) /\ Others(k, k1, p) /\ p \in AllTask
      /\ k1.task \in [AllTask -> TaskStructs]
  BY SoundParts DEF Mid, AllTask
<1>2. Sound(k2, X, d) /\ k2.rq = k1.rq /\ k2.task = [k1.task EXCEPT ![p] = t]
  BY <1>1, SoundSetTask
<1> HIDE DEF k2
<1>3. k2.task[p] = t /\ \A q \in AllTask \ {p} : k2.task[q] = k1.task[q]
  BY <1>1, <1>2
<1>4. Others(k, k2, p)
  BY <1>1, <1>3, OthersSame
<1>5. Mid(k, k2, p, X, d)
  BY <1>1, <1>2, <1>4 DEF Mid
<1> QED
  BY <1>3, <1>5 DEF k2

\* An assignment to the task_struct of p, first of all.
LEMMA MidFirst ==
  ASSUME NEW k, NEW p \in Task, Sound(k, {}, 0),
         NEW t \in TaskStructs, t.prio \in Prio, SameLink(k.task[p], t)
  PROVE  LET k2 == [k EXCEPT !.task[p] = t]
         IN  Mid(k, k2, p, {}, 0) /\ k2.task[p] = t
<1>1. Mid(k, k, p, {}, 0)
  BY MidRefl
<1> QED
  BY <1>1, MidSet

\* dequeue_task takes p in hand.
LEMMA MidDequeue ==
  ASSUME NEW k, NEW k1, NEW p \in Task, Mid(k, k1, p, {}, 0),
         NEW a \in ArrayId, k1.task[p].array = a
  PROVE  LET k2 == dequeue_task(k1, p, a)
         IN  Mid(k, k2, p, {p}, 1) /\ k2.task = k1.task
<1> DEFINE k2 == dequeue_task(k1, p, a)
<1>1. Sound(k1, {}, 0) /\ SameRq(k.rq, k1.rq) /\ Others(k, k1, p)
  BY DEF Mid
<1>2. Sound(k2, {p}, 1) /\ k2.task = k1.task /\ SameRq(k1.rq, k2.rq)
  <2>1. Sound(k2, {p}, 0 + 1) /\ k2.task = k1.task /\ SameRq(k1.rq, k2.rq)
    BY <1>1, SoundDequeue
  <2> QED
    BY <2>1
<1> HIDE DEF k2
<1>3. Others(k, k2, p) /\ SameRq(k.rq, k2.rq)
  BY <1>1, <1>2 DEF Others, SameRq, SameRqBut
<1>4. Mid(k, k2, p, {p}, 1)
  BY <1>2, <1>3 DEF Mid
<1> QED
  BY <1>2, <1>4 DEF k2

\* enqueue_task puts it back.
LEMMA MidEnqueue ==
  ASSUME NEW k, NEW k1, NEW p \in Task, Mid(k, k1, p, {p}, 1),
         NEW a \in ArrayId, Fits(k1.task[p], a, k1.rq)
  PROVE  LET k2 == enqueue_task(k1, p, a)
         IN  Mid(k, k2, p, {}, 0) /\ k2.task[p] = [k1.task[p] EXCEPT !.array = a]
<1> DEFINE k2 == enqueue_task(k1, p, a)
<1>1. /\ Sound(k1, {p}, 1) /\ SameRq(k.rq, k1.rq) /\ Others(k, k1, p) /\ p \in AllTask
      /\ k1.task \in [AllTask -> TaskStructs]
  BY SoundParts DEF Mid, AllTask
<1> HIDE DEF k2
<1>2. /\ Sound(k2, {}, 0) /\ SameRq(k1.rq, k2.rq)
      /\ k2.task = [k1.task EXCEPT ![p].array = a]
  <2>1. PICK d \in Int : d = 1
    OBVIOUS
  <2>2. /\ Sound(k2, {}, d - 1) /\ SameRq(k1.rq, k2.rq)
        /\ k2.task = [k1.task EXCEPT ![p].array = a]
    BY <1>1, <2>1, SoundEnqueue DEF k2
  <2> QED
    BY <2>1, <2>2
<1>3. /\ k2.task[p] = [k1.task[p] EXCEPT !.array = a]
      /\ \A q \in AllTask \ {p} : k2.task[q] = k1.task[q]
  BY <1>1, <1>2
<1>4. Others(k, k2, p) /\ SameRq(k.rq, k2.rq)
  BY <1>1, <1>2, <1>3, OthersSame DEF SameRq, SameRqBut
<1>5. Mid(k, k2, p, {}, 0)
  BY <1>2, <1>4 DEF Mid
<1> QED
  BY <1>3, <1>5 DEF k2

\* resched_task of any task.
LEMMA MidResched ==
  ASSUME NEW k, NEW k1, NEW p \in Task, NEW X, NEW d, Mid(k, k1, p, X, d), NEW c \in AllTask
  PROVE  LET k2 == resched_task(k1, c)
         IN  Mid(k, k2, p, X, d) /\ Alike(k1.task[p], k2.task[p])
<1> DEFINE k2 == resched_task(k1, c)
<1>1. /\ Sound(k1, X, d) /\ SameRq(k.rq, k1.rq) /\ Others(k, k1, p) /\ p \in AllTask
      /\ k1.task \in [AllTask -> TaskStructs]
  BY SoundParts DEF Mid, AllTask
<1>2. Sound(k2, X, d) /\ k2.rq = k1.rq /\ k2.task = [k1.task EXCEPT ![c].need_resched = TRUE]
  BY <1>1, SoundResched
<1> HIDE DEF k2
<1>3. \A q \in AllTask : Alike(k1.task[q], k2.task[q])
  BY <1>1, <1>2 DEF Alike, SameLink, TaskStructs
<1>4. Others(k, k2, p)
  BY <1>1, <1>3, AlikeTrans DEF Others
<1>5. Mid(k, k2, p, X, d)
  BY <1>1, <1>2, <1>4 DEF Mid
<1> QED
  BY <1>1, <1>3, <1>5 DEF k2

\* What an operation guarantees that moves nobody between running and sleeping.
Kept(k, k2) ==
  /\ KernelInv(k2) /\ k2.rq.curr = k.rq.curr
  /\ k2.rq.nr_uninterruptible = k.rq.nr_uninterruptible
  /\ \A q \in AllTask : SameSleep(k.task[q], k2.task[q])

\* An operation on one process that leaves it awake or asleep keeps the invariant.
LEMMA MidKept ==
  ASSUME NEW k, KernelInv(k), NEW k2, NEW p \in Task, Mid(k, k2, p, {}, 0),
         TaskOK(k2.task[p]), SameSleep(k.task[p], k2.task[p])
  PROVE  Kept(k, k2)
<1>1. \A q \in AllTask : SameSleep(k.task[q], k2.task[q])
  BY AlikeSleep DEF Mid, Others
<1>2. /\ k2.rq.curr = k.rq.curr /\ k2.rq.nr_uninterruptible = k.rq.nr_uninterruptible
      /\ Sound(k2, {}, 0)
  BY DEF Mid, SameRq, SameRqBut
<1>3. \A q \in Task : TaskOK(k2.task[q])
  BY AlikeOK DEF Mid, Others, KernelInv, AllTask
<1>4. Awake(k2) /\ k2.task[Idle].state = "RUNNING"
  BY <1>1, <1>2 DEF Awake, KernelInv, SameSleep, AllTask
<1> QED
  BY <1>1, <1>2, <1>3, <1>4 DEF Kept, KernelInv

-----------------------------------------------------------------------------
(* Slices *)

\* A quotient by a positive number is no larger than the number.
LEMMA QuotientBound ==
  ASSUME NEW n \in Nat, NEW c \in Nat \ {0}
  PROVE  n \div c \in 0 .. n
<1>1. n \div c \in Nat /\ c * (n \div c) <= n
  OBVIOUS
<1>2. n \div c <= c * (n \div c)
  BY <1>1
<1> QED
  BY <1>1, <1>2

\* RequestTicks is a number of ticks that grows with the time.
LEMMA RequestTicksGrows ==
  ASSUME NEW n \in Nat, NEW m \in Nat, n <= m
  PROVE  RequestTicks(n) \in Nat /\ RequestTicks(n) <= RequestTicks(m)
<1>1. n * HZ \in Nat /\ m * HZ \in Nat /\ n * HZ <= m * HZ
  BY TimeAssumption
<1>2. \A a, b \in Nat : a <= b => a \div 1000 \in Nat /\ a \div 1000 <= b \div 1000
  OBVIOUS
<1> QED
  BY <1>1, <1>2 DEF RequestTicks

\* The bounds on slices: every tick count up to MaxSlice is a value of the unsigned
\* int time_slice.
LEMMA SliceBounds ==
  ASSUME Disciplined
  PROVE  /\ MaxSlice \in Nat /\ UINT \in Nat /\ 1 <= MIN_TIMESLICE
         /\ MIN_TIMESLICE <= MAX_TIMESLICE /\ MAX_TIMESLICE <= MaxSlice
         /\ MIN_TIMESLICE \in Nat /\ MAX_TIMESLICE \in Nat
         /\ RequestTicks(MAX_REQUESTED_TIME) <= MaxSlice
         /\ 2 * MaxSlice < UINT
<1>1. RequestTicks(MAX_REQUESTED_TIME) \in Nat
  BY CallAssumption, RequestTicksGrows
<1> QED
  BY <1>1, TimeAssumption DEF MaxSlice, Disciplined

\* TASK_TIMESLICE is a legal slice (sched.c:112-113).
LEMMA TaskSlice ==
  ASSUME Disciplined, NEW t \in TaskStructs
  PROVE  TASK_TIMESLICE(t) \in 1 .. MaxSlice
<1> DEFINE a == MAX_TIMESLICE - MIN_TIMESLICE
           b == MAX_PRIO - 1 - t.static_prio
           c == MAX_PRIO - 1 - MAX_RT_PRIO
<1>1. a \in Nat /\ b \in Nat /\ c \in Nat \ {0} /\ b <= c
  BY TaskFields, PrioAssumption, MaxPrioAssumption, TimeAssumption DEF UserPrio
<1>2. TASK_TIMESLICE(t) = MIN_TIMESLICE + (a * b) \div c
  BY DEF TASK_TIMESLICE
<1> HIDE DEF a, b, c
<1>3. (a * b) \div c \in 0 .. a
  BY <1>1, SliceBound
<1> QED
  BY <1>2, <1>3, SliceBounds DEF a

\* SHORT_TIMESLICE is at most the requested time in ticks, and that in the first
\* trial (sched.c:118).
LEMMA ShortSlice ==
  ASSUME Disciplined, NEW t \in TaskStructs, RequestTicks(t.requested_time) <= MaxSlice
  PROVE  /\ SHORT_TIMESLICE(t) \in 0 .. MaxSlice
         /\ SHORT_TIMESLICE(t) <= RequestTicks(t.requested_time)
         /\ t.current_trial = 0 => SHORT_TIMESLICE(t) = RequestTicks(t.requested_time)
<1> DEFINE n == RequestTicks(t.requested_time)
           c == t.current_trial + 1
<1>1. n \in Nat /\ c \in Nat \ {0} /\ n <= MaxSlice /\ MaxSlice \in Nat /\ MaxSlice < UINT
      /\ UINT \in Nat
  BY TaskFields, RequestTicksGrows, SliceBounds
<1>2. SHORT_TIMESLICE(t) = (n \div c) % UINT
  BY DEF SHORT_TIMESLICE, RequestTicks
<1>3. t.current_trial = 0 => c = 1
  OBVIOUS
<1> HIDE DEF n, c
<1>4. n \div c \in 0 .. n /\ n \div 1 = n
  BY <1>1, QuotientBound
<1>5. \A m \in Nat : m < UINT => m % UINT = m
  BY <1>1
<1>6. SHORT_TIMESLICE(t) = n \div c
  BY <1>1, <1>2, <1>4, <1>5
<1> QED
  BY <1>1, <1>3, <1>4, <1>6 DEF n

-----------------------------------------------------------------------------
(* scheduler_tick() *)

\* enqueue_task, part by part.
LEMMA EnqueueRecord ==
  ASSUME NEW k \in Kernels, NEW p \in Task, NEW a \in ArrayId
  PROVE  enqueue_task(k, p, a) =
           [task |-> [k.task EXCEPT ![p] = [k.task[p] EXCEPT !.array = a]],
            rq   |-> [k.rq EXCEPT !.arrays[a] =
                        enqueue(k.rq.arrays[a], p, k.task[p].prio)],
            oops |-> k.oops]
<1> DEFINE arr == enqueue(k.rq.arrays[a], p, k.task[p].prio)
           k1  == [k EXCEPT !.rq.arrays[a] = arr]
<1>1. p \in AllTask
  BY DEF AllTask
<1>2. enqueue_task(k, p, a) = [k1 EXCEPT !.task[p].array = a]
  BY DEF enqueue_task, Kernels
<1> HIDE DEF arr
<1>3. k1 = [task |-> k.task, rq |-> [k.rq EXCEPT !.arrays[a] = arr], oops |-> k.oops]
  BY DEF Kernels
<1> HIDE DEF k1
<1>4. [k1 EXCEPT !.task[p].array = a] =
        [task |-> [k.task EXCEPT ![p] = [k.task[p] EXCEPT !.array = a]],
         rq |-> [k.rq EXCEPT !.arrays[a] = arr], oops |-> k.oops]
  BY <1>1, <1>3, KernelParts
<1> QED
  BY <1>2, <1>4 DEF arr, k1

\* is_overdue does not matter to enqueue_task.
LEMMA OverdueAfter ==
  ASSUME NEW k \in Kernels, NEW p \in Task, NEW a \in ArrayId
  PROVE  [enqueue_task(k, p, a) EXCEPT !.task[p].is_overdue = TRUE] =
            enqueue_task([k EXCEPT !.task[p].is_overdue = TRUE], p, a)
<1> DEFINE t  == k.task[p]
           u  == [t EXCEPT !.is_overdue = TRUE]
           k1 == [k EXCEPT !.task[p].is_overdue = TRUE]
           r  == [k.rq EXCEPT !.arrays[a] = enqueue(k.rq.arrays[a], p, t.prio)]
<1>1. /\ k.task \in [AllTask -> TaskStructs] /\ p \in AllTask /\ t \in TaskStructs
      /\ t.prio \in Prio
  BY KernelParts DEF AllTask
<1>2. enqueue_task(k, p, a) = [task |-> [k.task EXCEPT ![p] = [t EXCEPT !.array = a]],
                               rq |-> r, oops |-> k.oops]
  BY EnqueueRecord
<1>3. k1 = [task |-> [k.task EXCEPT ![p] = u], rq |-> k.rq, oops |-> k.oops]
  <2>1. k1 = [k EXCEPT !.task = [k.task EXCEPT ![p] = u]]
    OBVIOUS
  <2>2. k = [task |-> k.task, rq |-> k.rq, oops |-> k.oops]
    BY KernelParts
  <2> HIDE DEF k1, u
  <2> QED
    BY <2>1, <2>2
<1>4. u.prio = t.prio /\ u \in TaskStructs
  <2>1. u \in TaskStructs
    BY <1>1, SetField
  <2> QED
    BY <1>1, <2>1 DEF TaskStructs
<1>5. [u EXCEPT !.array = a] = [[t EXCEPT !.array = a] EXCEPT !.is_overdue = TRUE]
  BY <1>1 DEF TaskStructs
<1> HIDE DEF u, r, k1
<1>6. k1 \in Kernels /\ k1.task[p] = u
  <2>1. k1 = [k EXCEPT !.task[p] = u]
    BY <1>1, <1>3 DEF Kernels
  <2>2. Overdue(t) => Overdue(u)
    BY <1>1 DEF Overdue, u, TaskStructs
  <2>3. k1 \in Kernels
    BY <1>1, <1>4, <2>1, <2>2, SetTask DEF Evolves
  <2> QED
    BY <1>1, <1>3, <2>3
<1>7. enqueue_task(k1, p, a) =
        [task |-> [k1.task EXCEPT ![p] = [u EXCEPT !.array = a]], rq |-> r, oops |-> k.oops]
  <2>1. enqueue_task(k1, p, a) =
           [task |-> [k1.task EXCEPT ![p] = [k1.task[p] EXCEPT !.array = a]],
            rq   |-> [k1.rq EXCEPT !.arrays[a] =
                        enqueue(k1.rq.arrays[a], p, k1.task[p].prio)],
            oops |-> k1.oops]
    BY <1>6, EnqueueRecord
  <2>2. k1.rq = k.rq /\ k1.oops = k.oops
    BY <1>3
  <2> QED
    BY <1>4, <1>6, <2>1, <2>2 DEF r
<1>8. [k1.task EXCEPT ![p] = [u EXCEPT !.array = a]]
        = [k.task EXCEPT ![p] = [u EXCEPT !.array = a]]
  BY <1>1, <1>3
<1>9. [enqueue_task(k, p, a) EXCEPT !.task[p].is_overdue = TRUE] =
        [task |-> [k.task EXCEPT ![p] = [[t EXCEPT !.array = a] EXCEPT !.is_overdue = TRUE]],
         rq |-> r, oops |-> k.oops]
  <2> DEFINE w == [t EXCEPT !.array = a]
  <2> HIDE DEF w
  <2>1. enqueue_task(k, p, a) = [task |-> [k.task EXCEPT ![p] = w], rq |-> r, oops |-> k.oops]
    BY <1>2 DEF w
  <2> DEFINE x == [w EXCEPT !.is_overdue = TRUE]
             f == [k.task EXCEPT ![p] = w]
             e == enqueue_task(k, p, a)
  <2>2. f[p] = w /\ [f EXCEPT ![p] = x] = [k.task EXCEPT ![p] = x]
    BY <1>1
  <2>3. e = [task |-> f, rq |-> r, oops |-> k.oops]
    BY <2>1
  <2>4. [e EXCEPT !.task[p].is_overdue = TRUE]
          = [e EXCEPT !.task = [e.task EXCEPT ![p] = [e.task[p] EXCEPT !.is_overdue = TRUE]]]
    OBVIOUS
  <2> DEFINE g == [k.task EXCEPT ![p] = x]
  <2> HIDE DEF f, e, x, g
  <2>5. e.task = f /\ [e EXCEPT !.task = g] = [task |-> g, rq |-> r, oops |-> k.oops]
    BY <2>3
  <2>6. [e EXCEPT !.task[p].is_overdue = TRUE]
          = [task |-> g, rq |-> r, oops |-> k.oops]
    <3>1. [e.task EXCEPT ![p] = [e.task[p] EXCEPT !.is_overdue = TRUE]] = g
      BY <2>2, <2>5 DEF x, g
    <3> QED
      BY <2>4, <2>5, <3>1
  <2> QED
    BY <2>6 DEF w, e, x, g
<1> QED
  BY <1>5, <1>7, <1>8, <1>9 DEF k1

\* The end of the last trial: from short_q to overdue, with a tick left
\* (sched.c:921-928).
LEMMA BecomeOverdueKeeps ==
  ASSUME Disciplined, NEW k0, NEW k, NEW p \in Task, Mid(k0, k, p, {}, 0),
         k.task[p].array = "short_q"
  PROVE  LET k2 == become_overdue(k, p)
             t2 == k2.task[p]
         IN  /\ Mid(k0, k2, p, {}, 0) /\ Queued(t2) /\ t2.state = k.task[p].state
             /\ t2.policy = "SHORT" /\ t2.time_slice = 1
             /\ t2.requested_time = k.task[p].requested_time
<1> DEFINE t  == k.task[p]
           t1 == [t EXCEPT !.time_slice = 1]
           u  == [t1 EXCEPT !.prio = 0]
           v  == [u EXCEPT !.is_overdue = TRUE]
           k1 == [k EXCEPT !.task[p] = t1]
           k2 == dequeue_task(k1, p, "short_q")
           k3 == [k2 EXCEPT !.task[p] = v]
           k4 == enqueue_task(k3, p, "overdue")
<1>1. /\ k \in Kernels /\ t \in TaskStructs /\ t.prio \in Prio /\ p \in AllTask
      /\ Sound(k, {}, 0) /\ "short_q" \in ArrayId /\ "overdue" \in ArrayId /\ 0 \in Prio
  BY SoundParts, MaxPrioAssumption DEF Mid, AllTask, ArrayId, Prio
<1>2. t.policy = "SHORT"
  <2>1. p \in QueuedBut(k, {})
    BY DEF QueuedBut, Queued
  <2> QED
    BY <1>1, <2>1 DEF Sound, Fits, ShortNow
<1>3. /\ t1 \in TaskStructs /\ t1.prio \in Prio /\ SameLink(t, t1) /\ t1.array = "short_q"
      /\ t1.time_slice = 1 /\ t1.state = t.state /\ t1.requested_time = t.requested_time
      /\ t1.policy = "SHORT"
  <2>1. 1 \in 0 .. UINT - 1
    BY TimeAssumption
  <2>2. t1 \in TaskStructs
    BY <1>1, <2>1, SetField
  <2> QED
    BY <1>1, <1>2, <2>2 DEF TaskStructs, SameLink
<1> HIDE DEF t1
<1>4. v \in TaskStructs /\ v.prio \in Prio
  <2>1. u \in TaskStructs
    BY <1>1, <1>3, SetField
  <2>2. v \in TaskStructs
    BY <2>1, SetField
  <2> QED
    BY <1>1, <1>3, <2>2 DEF TaskStructs
<1>5. /\ v.policy = "SHORT" /\ v.is_overdue /\ v.time_slice = 1 /\ v.state = t.state
      /\ v.requested_time = t.requested_time
  BY <1>3 DEF TaskStructs
<1>6. k1 = [k EXCEPT !.task[p].time_slice = 1]
  BY <1>1 DEF Kernels, t1
<1>7. become_overdue(k, p) = k4
  <2>1. k1 \in Kernels
    BY <1>1, <1>3, SoundSetTask, SoundParts
  <2> HIDE DEF k1
  <2>2. k2 \in Kernels
    BY <1>1, <2>1, DequeueEvolves DEF Evolves
  <2> DEFINE kz == [k2 EXCEPT !.task[p].prio = 0]
  <2> HIDE DEF k2
  <2>3. kz \in Kernels
    BY <1>1, <2>2, SetPrio DEF Evolves
  <2>4. become_overdue(k, p) =
          [enqueue_task(kz, p, "overdue") EXCEPT !.task[p].is_overdue = TRUE]
    BY <1>6, Zenon DEF become_overdue, k1, k2
  <2>5. k2.task[p] = t1
    <3>1. Mid(k0, k1, p, {}, 0) /\ k1.task[p] = t1
      BY <1>1, <1>3, MidSet DEF k1
    <3>2. k1.task[p].array = "short_q"
      BY <1>3, <3>1
    <3>3. /\ Mid(k0, dequeue_task(k1, p, "short_q"), p, {p}, 1)
          /\ dequeue_task(k1, p, "short_q").task = k1.task
      BY <1>1, <3>1, <3>2, MidDequeue
    <3> QED
      BY <3>1, <3>3 DEF k2
  <2>6. k3 = [kz EXCEPT !.task[p].is_overdue = TRUE]
    BY <1>1, <2>2, <2>5 DEF Kernels
  <2> HIDE DEF kz, k3
  <2>7. [enqueue_task(kz, p, "overdue") EXCEPT !.task[p].is_overdue = TRUE]
          = enqueue_task([kz EXCEPT !.task[p].is_overdue = TRUE], p, "overdue")
    BY <1>1, <2>3, OverdueAfter
  <2> QED
    BY <2>4, <2>6, <2>7
<1> HIDE DEF u, v
<1>8. Mid(k0, k1, p, {}, 0) /\ k1.task[p] = t1
  BY <1>1, <1>3, MidSet
<1> HIDE DEF k1
<1>9. Mid(k0, k2, p, {p}, 1)
  <2>1. k1.task[p].array = "short_q"
    BY <1>3, <1>8
  <2> QED
    BY <1>1, <1>8, <2>1, MidDequeue
<1> HIDE DEF k2
<1>11. Mid(k0, k3, p, {p}, 1) /\ k3.task[p] = v
  BY <1>4, <1>9, MidSet
<1> HIDE DEF k3
<1>12. Fits(k3.task[p], "overdue", k3.rq)
  <2>1. k3.rq.expired # "overdue"
    <3>1. k3 \in Kernels
      BY <1>11, SoundParts DEF Mid
    <3> QED
      BY <3>1 DEF Kernels, RunQueues
  <2> QED
    BY <1>5, <1>11, <2>1 DEF Fits, ShortNow, Overdue
<1>13. Mid(k0, k4, p, {}, 0) /\ k4.task[p] = [v EXCEPT !.array = "overdue"]
  <2>1. /\ Mid(k0, k4, p, {}, 0)
        /\ k4.task[p] = [k3.task[p] EXCEPT !.array = "overdue"]
    BY <1>1, <1>11, <1>12, MidEnqueue
  <2> QED
    BY <1>11, <2>1
<1> HIDE DEF k4
<1>14. /\ k4.task[p].array = "overdue" /\ k4.task[p].state = v.state
       /\ k4.task[p].time_slice = v.time_slice /\ k4.task[p].policy = v.policy
       /\ k4.task[p].requested_time = v.requested_time
  BY <1>4, <1>13 DEF TaskStructs
<1> QED
  BY <1>5, <1>7, <1>13, <1>14 DEF Queued

\* A SHORT process with a new slice.
Refilled(k0, k, k2, p) ==
  /\ Mid(k0, k2, p, {}, 0) /\ Queued(k2.task[p])
  /\ k2.task[p].state = k.task[p].state /\ k2.task[p].policy = "SHORT"
  /\ k2.task[p].time_slice \in 1 .. MaxSlice
  /\ k2.task[p].requested_time = k.task[p].requested_time

\* The end of any other trial: the next slice, unless that would be no tick at all
\* (sched.c:930-938).
LEMMA NextTrialKeeps ==
  ASSUME Disciplined, NEW k0, NEW k, NEW p \in Task, Mid(k0, k, p, {}, 0),
         k.task[p].array = "short_q", RequestTicks(k.task[p].requested_time) <= MaxSlice
  PROVE  Refilled(k0, k, next_trial(k, p), p)
<1> DEFINE t  == k.task[p]
           n  == SHORT_TIMESLICE(t)
           t1 == [t EXCEPT !.time_slice = n]
           k1 == [k EXCEPT !.task[p] = t1]
           k2 == dequeue_task(k1, p, "short_q")
           k3 == enqueue_task(k2, p, "short_q")
<1>1. /\ k \in Kernels /\ t \in TaskStructs /\ t.prio \in Prio /\ p \in AllTask
      /\ Sound(k, {}, 0) /\ "short_q" \in ArrayId
  BY SoundParts DEF Mid, AllTask, ArrayId
<1>2. n \in 0 .. MaxSlice /\ n \in 0 .. UINT - 1 /\ 1 \in 1 .. MaxSlice
  BY <1>1, ShortSlice, SliceBounds
<1>3. t.policy = "SHORT" /\ Fits(t, "short_q", k.rq)
  <2>1. p \in QueuedBut(k, {})
    BY DEF QueuedBut, Queued
  <2> QED
    BY <1>1, <2>1 DEF Sound, Fits, ShortNow
<1>4. k1 = [k EXCEPT !.task[p].time_slice = n]
  BY <1>1 DEF Kernels
<1> HIDE DEF n
<1>5. /\ t1 \in TaskStructs /\ t1.prio \in Prio /\ SameLink(t, t1) /\ t1.array = "short_q"
      /\ t1.time_slice = n /\ t1.state = t.state /\ t1.requested_time = t.requested_time
      /\ t1.policy = "SHORT"
  <2>1. t1 \in TaskStructs
    BY <1>1, <1>2, SetField
  <2> QED
    BY <1>1, <1>3, <2>1 DEF TaskStructs, SameLink
<1> HIDE DEF t1
<1>6. Mid(k0, k1, p, {}, 0) /\ k1.task[p] = t1
  BY <1>1, <1>5, MidSet
<1>7. k1.task[p].array = "short_q" /\ k1.task[p].time_slice = n
  BY <1>5, <1>6
<1>8. next_trial(k, p) = IF n = 0 THEN become_overdue(k1, p) ELSE k3
  BY <1>4, <1>7, Zenon DEF next_trial, k1, k2, k3, n
<1> HIDE DEF k1
<1>9. CASE n = 0
  <2> DEFINE ko == become_overdue(k1, p)
  <2>1. /\ Mid(k0, ko, p, {}, 0) /\ Queued(ko.task[p]) /\ ko.task[p].state = k1.task[p].state
        /\ ko.task[p].policy = "SHORT" /\ ko.task[p].time_slice = 1
        /\ ko.task[p].requested_time = k1.task[p].requested_time
    BY <1>6, <1>7, BecomeOverdueKeeps
  <2> HIDE DEF ko
  <2>2. Refilled(k0, k, ko, p)
    BY <1>2, <1>5, <1>6, <2>1 DEF Refilled
  <2> QED
    BY <1>8, <1>9, <2>2 DEF ko
<1>10. CASE n # 0
  <2>1. Mid(k0, k2, p, {p}, 1) /\ k2.task = k1.task
    BY <1>1, <1>6, <1>7, MidDequeue
  <2> HIDE DEF k2
  <2>2. k2.task[p] = t1 /\ k2.rq.expired = k0.rq.expired /\ k1.rq.expired = k0.rq.expired
    BY <1>6, <2>1 DEF Mid, SameRq, SameRqBut
  <2>3. Fits(k2.task[p], "short_q", k2.rq)
    <3>1. k.rq.expired = k0.rq.expired
      BY DEF Mid, SameRq, SameRqBut
    <3> QED
      BY <1>3, <1>5, <2>2, <3>1 DEF Fits, ShortNow, Overdue, SameLink, rt_task
  <2>4. Mid(k0, k3, p, {}, 0) /\ k3.task[p] = [k2.task[p] EXCEPT !.array = "short_q"]
    BY <1>1, <2>1, <2>3, MidEnqueue
  <2> HIDE DEF k3
  <2>5. /\ k3.task[p].array = "short_q" /\ k3.task[p].state = t.state
        /\ k3.task[p].policy = "SHORT" /\ k3.task[p].time_slice = n
        /\ k3.task[p].requested_time = t.requested_time
    BY <1>5, <2>2, <2>4 DEF TaskStructs
  <2>6. Refilled(k0, k, k3, p)
    BY <1>2, <1>10, <2>4, <2>5 DEF Refilled, Queued
  <2> QED
    BY <1>8, <1>10, <2>6
<1> QED
  BY <1>9, <1>10

\* A running or sleeping process p has been served.
Served(k, k2, p) ==
  Mid(k, k2, p, {}, 0) /\ TaskOK(k2.task[p]) /\ SameSleep(k.task[p], k2.task[p])

\* A queued process has a slice to count down.
LEMMA QueuedSlice ==
  ASSUME Disciplined, NEW k, KernelInv(k), NEW p \in Task, Queued(k.task[p])
  PROVE  /\ k.task[p].time_slice \in 1 .. MaxSlice /\ k.task[p].state # "FREE"
         /\ Dec(k.task[p].time_slice) = k.task[p].time_slice - 1
         /\ Dec(k.task[p].time_slice) \in 0 .. MaxSlice
         /\ Dec(k.task[p].time_slice) \in 0 .. UINT - 1
         /\ TaskOK(k.task[p]) /\ Fits(k.task[p], k.task[p].array, k.rq)
         /\ k.task[p].array \in ArrayId
<1>1. TaskOK(k.task[p]) /\ p \in QueuedBut(k, {}) /\ Sound(k, {}, 0)
  BY DEF KernelInv, QueuedBut
<1>2. k.task[p].time_slice \in 1 .. MaxSlice /\ k.task[p].state # "FREE"
  BY <1>1 DEF TaskOK
<1>3. k.task[p].array \in ArrayId
  <2>1. k.task[p] \in TaskStructs
    BY <1>1, SoundParts DEF AllTask
  <2> QED
    BY <2>1, TaskFields DEF Queued
<1>4. Fits(k.task[p], k.task[p].array, k.rq)
  BY <1>1 DEF Sound
<1> QED
  BY <1>1, <1>2, <1>3, <1>4, SliceBounds DEF Dec

\* What a process keeps is good when only its slice changes, within bounds.
LEMMA SliceOK ==
  ASSUME NEW t \in TaskStructs, TaskOK(t), NEW t2, t2.time_slice \in 1 .. MaxSlice,
         t2.state = t.state, t2.policy = t.policy, t2.prio = t.prio,
         t2.requested_time = t.requested_time, Queued(t2) <=> Queued(t)
  PROVE  TaskOK(t2) /\ SameSleep(t, t2)
BY DEF TaskOK, SameSleep, rt_task

\* One tick less: the slice is not used up.
LEMMA TickDownServed ==
  ASSUME Disciplined, NEW k, KernelInv(k), NEW p \in Task, Queued(k.task[p]),
         Dec(k.task[p].time_slice) > 0
  PROVE  Served(k, [k EXCEPT !.task[p].time_slice = Dec(@)], p)
<1> DEFINE t  == k.task[p]
           n  == Dec(t.time_slice)
           t1 == [t EXCEPT !.time_slice = n]
           k1 == [k EXCEPT !.task[p] = t1]
<1>1. /\ k \in Kernels /\ t \in TaskStructs /\ t.prio \in Prio /\ p \in AllTask
      /\ Sound(k, {}, 0)
  BY SoundParts DEF KernelInv, AllTask
<1>2. n \in 1 .. MaxSlice /\ n \in 0 .. UINT - 1 /\ TaskOK(t)
  BY QueuedSlice, SliceBounds
<1>3. k1 = [k EXCEPT !.task[p].time_slice = Dec(@)]
  BY <1>1 DEF Kernels
<1> HIDE DEF n
<1>4. t1 \in TaskStructs
  BY <1>1, <1>2, SetField
<1>5. /\ t1.prio = t.prio /\ SameLink(t, t1) /\ t1.state = t.state /\ t1.policy = t.policy
      /\ t1.requested_time = t.requested_time /\ t1.time_slice = n
      /\ t1.array = t.array
  BY <1>1, <1>4 DEF TaskStructs, SameLink
<1> HIDE DEF t1
<1>6. Mid(k, k1, p, {}, 0) /\ k1.task[p] = t1
  BY <1>1, <1>4, <1>5, MidFirst
<1>7. TaskOK(t1) /\ SameSleep(t, t1)
  BY <1>1, <1>2, <1>5, SliceOK DEF Queued
<1> QED
  BY <1>3, <1>6, <1>7 DEF Served

\* The tick of a SHORT process with trials left (sched.c:914-942).
LEMMA TickShortServed ==
  ASSUME Disciplined, NEW k, KernelInv(k), NEW p \in Task, Queued(k.task[p]),
         ShortNow(k.task[p])
  PROVE  Served(k, tick_short(k, p), p)
<1> DEFINE t  == k.task[p]
           n  == Dec(t.time_slice)
           t1 == [t EXCEPT !.time_slice = n]
           k1 == [k EXCEPT !.task[p].time_slice = Dec(@)]
           t2 == [t1 EXCEPT !.current_trial = @ + 1, !.first_time_slice = FALSE]
           k2 == [k1 EXCEPT !.task[p].current_trial = @ + 1, !.task[p].first_time_slice = FALSE]
           kb == become_overdue(k2, p)
           kn == next_trial(k2, p)
           k3 == IF k2.task[p].current_trial >= k2.task[p].number_of_trials THEN kb ELSE kn
           k4 == resched_task(k3, p)
<1>1. /\ k \in Kernels /\ t \in TaskStructs /\ t.prio \in Prio /\ p \in AllTask
      /\ Sound(k, {}, 0)
  BY SoundParts DEF KernelInv, AllTask
<1>2. /\ n \in 0 .. MaxSlice /\ n \in 0 .. UINT - 1 /\ TaskOK(t) /\ t.state # "FREE"
      /\ Fits(t, t.array, k.rq) /\ MaxSlice \in Nat /\ 1 \in 1 .. MaxSlice
  BY QueuedSlice, SliceBounds
<1>3. t.array = "short_q" /\ t.policy = "SHORT"
  BY <1>2 DEF Fits, ShortNow
<1>4. tick_short(k, p) = IF k1.task[p].time_slice > 0 THEN k1 ELSE k4
  BY DEF tick_short
<1>5. /\ t1 \in TaskStructs /\ t1.time_slice = n
      /\ k1 = [k EXCEPT !.task[p] = t1]
  <2>1. t1 \in TaskStructs
    BY <1>1, <1>2, SetField
  <2> QED
    BY <1>1, <2>1 DEF Kernels, TaskStructs
<1>6. t2 \in TaskStructs
  BY <1>5, EndOfSliceType
<1>7. /\ SameLink(t, t2) /\ t2.state = t.state /\ t2.policy = t.policy /\ t2.prio = t.prio
      /\ t2.requested_time = t.requested_time /\ t2.array = t.array
  BY <1>1, <1>5, <1>6 DEF TaskStructs, SameLink
<1>8. k1.task[p] = t1 /\ k2 = [k EXCEPT !.task[p] = t2]
  <2> HIDE DEF t1, k1
  <2>1. k1 = [task |-> [k.task EXCEPT ![p] = t1], rq |-> k.rq, oops |-> k.oops]
    BY <1>1, <1>5, KernelParts
  <2>2. k1.task[p] = t1
    BY <1>1, <2>1 DEF Kernels
  <2>3. k2 = [k1 EXCEPT !.task[p] = t2]
    BY <2>2
  <2> HIDE DEF k2, t2
  <2>4. k2 = [task |-> [[k.task EXCEPT ![p] = t1] EXCEPT ![p] = t2], rq |-> k.rq, oops |-> k.oops]
    BY <2>1, <2>3
  <2>5. [[k.task EXCEPT ![p] = t1] EXCEPT ![p] = t2] = [k.task EXCEPT ![p] = t2]
    OBVIOUS
  <2>6. [k EXCEPT !.task[p] = t2] = [task |-> [k.task EXCEPT ![p] = t2], rq |-> k.rq, oops |-> k.oops]
    BY <1>1, KernelParts
  <2> QED
    BY <2>2, <2>4, <2>5, <2>6
<1> HIDE DEF t1, t2, k1, k2, n
<1>9. CASE n > 0
  <2>1. Served(k, k1, p)
    BY <1>9, TickDownServed DEF k1, n
  <2> QED
    BY <1>4, <1>5, <1>8, <1>9, <2>1
<1>10. CASE n = 0
  <2>1. Mid(k, k2, p, {}, 0) /\ k2.task[p] = t2
    BY <1>1, <1>6, <1>7, <1>8, MidFirst
  <2>2. /\ k2.task[p].array = "short_q" /\ RequestTicks(k2.task[p].requested_time) <= MaxSlice
        /\ k2.task[p].state = t.state /\ k2.task[p].requested_time = t.requested_time
    BY <1>2, <1>3, <1>7, <2>1 DEF TaskOK
  <2>3. Refilled(k, k2, kb, p)
    <3>1. /\ Mid(k, kb, p, {}, 0) /\ Queued(kb.task[p])
          /\ kb.task[p].state = k2.task[p].state
          /\ kb.task[p].policy = "SHORT" /\ kb.task[p].time_slice = 1
          /\ kb.task[p].requested_time = k2.task[p].requested_time
      BY <2>1, <2>2, BecomeOverdueKeeps
    <3> HIDE DEF kb
    <3> QED
      BY <1>2, <3>1 DEF Refilled
  <2>4. Refilled(k, k2, kn, p)
    BY <2>1, <2>2, NextTrialKeeps
  <2> HIDE DEF kb, kn
  <2>5. Refilled(k, k2, k3, p)
    BY <2>3, <2>4
  <2> HIDE DEF k3
  <2>6. Mid(k, k4, p, {}, 0) /\ Alike(k3.task[p], k4.task[p])
    BY <1>1, <2>5, MidResched DEF Refilled
  <2> HIDE DEF k4
  <2>7. TaskOK(k3.task[p]) /\ SameSleep(t, k3.task[p])
    BY <1>2, <2>2, <2>5 DEF Refilled, TaskOK, SameSleep
  <2>8. TaskOK(k4.task[p]) /\ SameSleep(t, k4.task[p])
    BY <2>6, <2>7, AlikeOK, AlikeSleep DEF SameSleep
  <2>9. Served(k, k4, p)
    BY <2>6, <2>8 DEF Served
  <2> QED
    BY <1>4, <1>5, <1>8, <1>10, <2>9
<1> QED
  BY <1>2, <1>9, <1>10

\* The tick of a real-time process (sched.c:957-971).
LEMMA TickRRServed ==
  ASSUME Disciplined, NEW k, KernelInv(k), NEW p \in Task, Queued(k.task[p]),
         k.task[p].array = k.rq.active
  PROVE  Served(k, tick_rr(k, p), p)
<1> DEFINE t  == k.task[p]
           n  == Dec(t.time_slice)
           a  == k.rq.active
           k1 == [k EXCEPT !.task[p].time_slice = Dec(@)]
           t2 == [t EXCEPT !.time_slice = TASK_TIMESLICE(t),
                           !.first_time_slice = FALSE, !.need_resched = TRUE]
           k2 == [k EXCEPT !.task[p].time_slice = TASK_TIMESLICE(k.task[p]),
                     !.task[p].first_time_slice = FALSE, !.task[p].need_resched = TRUE]
           k3 == dequeue_task(k2, p, a)
           k4 == enqueue_task(k3, p, a)
<1>1. /\ k \in Kernels /\ t \in TaskStructs /\ t.prio \in Prio /\ p \in AllTask
      /\ Sound(k, {}, 0) /\ a \in ArrayId
  BY SoundParts DEF KernelInv, AllTask
<1>2. /\ TaskOK(t) /\ Fits(t, a, k.rq) /\ TASK_TIMESLICE(t) \in 1 .. MaxSlice
      /\ TASK_TIMESLICE(t) \in 0 .. UINT - 1
  BY <1>1, QueuedSlice, TaskSlice, SliceBounds
<1>3. tick_rr(k, p) = IF t.policy # "RR" THEN k
                      ELSE IF k1.task[p].time_slice > 0 THEN k1 ELSE k4
  BY DEF tick_rr
<1>4. k1.task[p].time_slice = n
  BY <1>1 DEF Kernels, TaskStructs
<1>5. k2 = [k EXCEPT !.task[p] = t2]
  BY <1>1 DEF Kernels
<1>6. /\ t2 \in TaskStructs /\ SameLink(t, t2) /\ t2.state = t.state /\ t2.policy = t.policy
      /\ t2.prio = t.prio /\ t2.requested_time = t.requested_time /\ t2.array = a
      /\ t2.time_slice \in 1 .. MaxSlice
  BY <1>1, <1>2 DEF TaskStructs, SameLink
<1>7. Served(k, k, p)
  BY <1>1, <1>2, MidRefl DEF Served, SameSleep
<1>8. n > 0 => Served(k, k1, p)
  BY TickDownServed
<1> HIDE DEF k1, k2, t2, n
<1>9. Mid(k, k2, p, {}, 0) /\ k2.task[p] = t2
  BY <1>1, <1>5, <1>6, MidFirst
<1>10. k2.task[p].array = a
  BY <1>6, <1>9
<1> HIDE DEF a
<1>11. Mid(k, k3, p, {p}, 1) /\ k3.task = k2.task
  BY <1>1, <1>9, <1>10, MidDequeue
<1> HIDE DEF k3
<1>12. Fits(k3.task[p], a, k3.rq)
  <2>1. k3.task[p] = t2 /\ k3.rq.expired = k.rq.expired
    BY <1>9, <1>11 DEF Mid, SameRq, SameRqBut
  <2> QED
    BY <1>2, <1>6, <2>1 DEF Fits, ShortNow, Overdue, SameLink, rt_task
<1>13. Mid(k, k4, p, {}, 0) /\ k4.task[p] = [k3.task[p] EXCEPT !.array = a]
  BY <1>1, <1>11, <1>12, MidEnqueue
<1> HIDE DEF k4
<1>14. /\ k4.task[p].state = t.state /\ k4.task[p].policy = t.policy
       /\ k4.task[p].prio = t.prio /\ k4.task[p].requested_time = t.requested_time
       /\ k4.task[p].time_slice \in 1 .. MaxSlice /\ Queued(k4.task[p])
  BY <1>1, <1>6, <1>9, <1>11, <1>13 DEF TaskStructs, Queued, ArrayId
<1>15. TaskOK(k4.task[p]) /\ SameSleep(t, k4.task[p])
  BY <1>1, <1>2, <1>14, SliceOK
<1>16. Served(k, k4, p)
  BY <1>13, <1>15 DEF Served
<1> QED
  BY <1>3, <1>4, <1>7, <1>8, <1>16

\* effective_prio is never a real-time priority (sched.c:289-326).
LEMMA EffectiveUser ==
  ASSUME NEW t, t.static_prio \in UserPrio
  PROVE  effective_prio(t) \subseteq UserPrio
<1>1. \A b \in Bonuses \cup {t.static_prio, 0} : ClampUser(t.static_prio - b) \in UserPrio
  BY PrioAssumption, MaxPrioAssumption, BonusAssumption DEF ClampUser, UserPrio, Prio
<1> QED
  BY <1>1 DEF effective_prio

\* The tick of an OTHER process (sched.c:978-993).
LEMMA TickOtherServed ==
  ASSUME Disciplined, NEW k, KernelInv(k), NEW p \in Task, Queued(k.task[p]),
         k.task[p].array = k.rq.active, ~rt_task(k.task[p]),
         NEW prio \in UserPrio, NEW starving \in BOOLEAN
  PROVE  Served(k, tick_other(k, p, prio, starving), p)
<1> DEFINE t  == k.task[p]
           n  == Dec(t.time_slice)
           b  == k.rq.active
           k1 == [k EXCEPT !.task[p].time_slice = Dec(@)]
           k2 == dequeue_task(k, p, b)
           t3 == [t EXCEPT !.need_resched = TRUE, !.prio = prio,
                    !.first_time_slice = FALSE, !.time_slice = TASK_TIMESLICE(t)]
           k3 == [k2 EXCEPT !.task[p].need_resched = TRUE, !.task[p].prio = prio,
                            !.task[p].first_time_slice = FALSE,
                            !.task[p].time_slice = TASK_TIMESLICE(k.task[p])]
           a  == IF ~TASK_INTERACTIVE(k3.task[p]) \/ starving THEN k.rq.expired
                 ELSE k.rq.active
           k4 == enqueue_task(k3, p, a)
<1>1. /\ k \in Kernels /\ t \in TaskStructs /\ t.prio \in Prio /\ p \in AllTask
      /\ Sound(k, {}, 0) /\ b \in ArrayId /\ k.rq.expired \in ArrayId
      /\ k.rq.expired \in {"array0", "array1"} /\ b \in {"array0", "array1"}
  BY SoundParts DEF KernelInv, AllTask, RunQueues
<1>2. /\ TaskOK(t) /\ Fits(t, b, k.rq) /\ TASK_TIMESLICE(t) \in 1 .. MaxSlice
      /\ TASK_TIMESLICE(t) \in 0 .. UINT - 1
  BY <1>1, QueuedSlice, TaskSlice, SliceBounds
<1>3. tick_other(k, p, prio, starving) = IF k1.task[p].time_slice > 0 THEN k1 ELSE k4
  BY DEF tick_other
<1>4. k1.task[p].time_slice = n
  BY <1>1 DEF Kernels, TaskStructs
<1>5. n > 0 => Served(k, k1, p)
  BY TickDownServed
<1>6. prio \in Prio /\ prio \in 0 .. MAX_PRIO /\ ~(prio < MAX_RT_PRIO)
  BY PrioAssumption, MaxPrioAssumption DEF UserPrio, Prio
<1>7. t.policy = "OTHER"
  <2>1. t.policy \in Policies /\ t.is_overdue \in BOOLEAN
    BY <1>1, TaskFields
  <2> QED
    BY <1>1, <1>2, <2>1 DEF Fits, ShortNow, Overdue, TaskOK
<1>8. Mid(k, k2, p, {p}, 1) /\ k2.task = k.task
  BY <1>1, MidRefl, MidDequeue
<1> HIDE DEF k1, n
<1>9. k3 = [k2 EXCEPT !.task[p] = t3]
  <2>1. k2 \in Kernels
    BY <1>8, SoundParts DEF Mid
  <2> HIDE DEF k2
  <2> QED
    BY <1>1, <1>8, <2>1, ZenonT(30) DEF Kernels
<1>10. /\ t3 \in TaskStructs /\ t3.state = t.state /\ t3.policy = "OTHER"
       /\ t3.prio = prio /\ t3.requested_time = t.requested_time
       /\ t3.time_slice \in 1 .. MaxSlice
  BY <1>1, <1>2, <1>6, <1>7 DEF TaskStructs
<1> HIDE DEF k2, t3, k3, b
<1>11. Mid(k, k3, p, {p}, 1) /\ k3.task[p] = t3
  BY <1>6, <1>8, <1>9, <1>10, MidSet
<1>12. a \in ArrayId /\ a \in {"array0", "array1"}
  BY <1>1 DEF b
<1> HIDE DEF a
<1>13. Fits(k3.task[p], a, k3.rq)
  BY <1>6, <1>10, <1>11, <1>12 DEF Fits, ShortNow, Overdue, rt_task
<1>14. Mid(k, k4, p, {}, 0) /\ k4.task[p] = [k3.task[p] EXCEPT !.array = a]
  BY <1>11, <1>12, <1>13, MidEnqueue
<1> HIDE DEF k4
<1>15. /\ k4.task[p].state = t.state /\ k4.task[p].policy = "OTHER"
       /\ k4.task[p].prio = prio /\ Queued(k4.task[p])
       /\ k4.task[p].time_slice \in 1 .. MaxSlice
       /\ k4.task[p].requested_time = t.requested_time
  BY <1>10, <1>11, <1>12, <1>14 DEF TaskStructs, Queued
<1>16. TaskOK(k4.task[p]) /\ SameSleep(t, k4.task[p])
  BY <1>2, <1>6, <1>15 DEF TaskOK, SameSleep, rt_task
<1>17. Served(k, k4, p)
  BY <1>14, <1>16 DEF Served
<1> QED
  BY <1>3, <1>4, <1>5, <1>17

\* What is served is kept.
LEMMA ServedKept ==
  ASSUME NEW k, KernelInv(k), NEW k2, NEW p \in Task, Served(k, k2, p)
  PROVE  Kept(k, k2)
BY MidKept DEF Served

\* Nothing at all keeps everything.
LEMMA KeptRefl == ASSUME NEW k, KernelInv(k) PROVE Kept(k, k)
BY DEF Kept, SameSleep

\* What keeps the invariant does so twice.
LEMMA KeptTrans ==
  ASSUME NEW k1, NEW k2, NEW k3, Kept(k1, k2), Kept(k2, k3)
  PROVE  Kept(k1, k3)
BY DEF Kept, SameSleep

\* scheduler_tick (sched.c:859-1002).
LEMMA TickKept ==
  ASSUME Disciplined, NEW k, KernelInv(k), NEW starving \in BOOLEAN,
         NEW prio \in TickPrios(k.task[k.rq.curr])
  PROVE  Kept(k, scheduler_tick(k, prio, starving))
<1> DEFINE p == k.rq.curr
           t == k.task[p]
           k2 == scheduler_tick(k, prio, starving)
<1>1. /\ k \in Kernels /\ p \in AllTask /\ (p \notin Task => p = Idle) /\ Sound(k, {}, 0)
      /\ t \in TaskStructs
  BY SoundParts DEF KernelInv, AllTask
<1>2. ASSUME p \in Task PROVE Queued(t) /\ TaskOK(t) /\ Fits(t, t.array, k.rq)
  <2>1. Queued(t)
    BY <1>2 DEF KernelInv, Awake
  <2> QED
    BY <1>2, <2>1, QueuedSlice DEF KernelInv, Sound, QueuedBut
<1>3. CASE p = Idle \/ Overdue(t)
  BY <1>3, KeptRefl DEF scheduler_tick, Overdue
<1>4. CASE p # Idle /\ t.policy = "SHORT" /\ ~t.is_overdue
  <2>1. p \in Task /\ ShortNow(t)
    BY <1>1, <1>4 DEF ShortNow
  <2>2. k2 = tick_short(k, p)
    BY <1>4 DEF scheduler_tick
  <2> HIDE DEF p
  <2>3. Served(k, tick_short(k, p), p)
    BY <1>2, <2>1, TickShortServed
  <2>4. Kept(k, tick_short(k, p))
    BY <2>1, <2>3, ServedKept
  <2> QED
    BY <2>2, <2>4
<1>5. CASE p # Idle /\ t.policy # "SHORT" /\ t.array # k.rq.active
  <2>1. k2 = resched_task(k, p)
    BY <1>5 DEF scheduler_tick
  <2> HIDE DEF p
  <2> DEFINE kr == resched_task(k, p)
  <2>2. p \in Task
    BY <1>1, <1>5
  <2>3. Mid(k, kr, p, {}, 0) /\ Alike(t, kr.task[p])
    BY <1>1, <2>2, MidRefl, MidResched
  <2> HIDE DEF kr
  <2>4. Kept(k, kr)
    BY <1>2, <2>2, <2>3, MidKept, AlikeOK, AlikeSleep
  <2> QED
    BY <2>1, <2>4 DEF kr
<1>6. CASE p # Idle /\ t.policy # "SHORT" /\ t.array = k.rq.active /\ rt_task(t)
  <2>1. k2 = tick_rr(k, p)
    BY <1>6 DEF scheduler_tick
  <2> HIDE DEF p
  <2>2. p \in Task
    BY <1>1, <1>6
  <2>3. Served(k, tick_rr(k, p), p)
    BY <1>2, <1>6, <2>2, TickRRServed
  <2>4. Kept(k, tick_rr(k, p))
    BY <2>2, <2>3, ServedKept
  <2> QED
    BY <2>1, <2>4
<1>7. CASE p # Idle /\ t.policy # "SHORT" /\ t.array = k.rq.active /\ ~rt_task(t)
  <2>1. k2 = tick_other(k, p, prio, starving)
    BY <1>7 DEF scheduler_tick
  <2>2. p \in Task
    BY <1>1, <1>7
  <2>3. prio \in UserPrio
    <3>1. t.policy = "OTHER"
      BY <1>2, <1>7, <2>2 DEF TaskOK
    <3>2. prio \in effective_prio(t)
      BY <1>7, <3>1 DEF TickPrios
    <3> QED
      BY <1>1, <3>2, EffectiveUser, TaskFields
  <2> HIDE DEF p
  <2>4. Served(k, tick_other(k, p, prio, starving), p)
    BY <1>2, <1>7, <2>2, <2>3, TickOtherServed
  <2>5. Kept(k, tick_other(k, p, prio, starving))
    BY <2>2, <2>4, ServedKept
  <2> QED
    BY <2>1, <2>5
<1>8. \/ p = Idle \/ Overdue(t)
      \/ p # Idle /\ t.policy = "SHORT" /\ ~t.is_overdue
      \/ p # Idle /\ t.policy # "SHORT"
  BY DEF Overdue
<1> QED
  BY <1>3, <1>4, <1>5, <1>6, <1>7, <1>8

-----------------------------------------------------------------------------
(* sched_yield *)

\* k with t2 for the task_struct of p, and arr2 for the array a.
Relinks(k, p, t2, a, arr2) == [[k EXCEPT !.task[p] = t2] EXCEPT !.rq.arrays[a] = arr2]

\* Moving p inside its array, to a priority that fits there.
LEMMA MidRelink ==
  ASSUME NEW k, Sound(k, {}, 0), NEW p \in Task, NEW a \in ArrayId, k.task[p].array = a,
         NEW t2 \in TaskStructs, t2.prio \in Prio, t2.array = a, Fits(t2, a, k.rq),
         NEW arr2 \in PrioArrays,
         NEW tk, tk = [k.task EXCEPT ![p] = t2], Holds(arr2, Members(k, {}, a), tk)
  PROVE  LET k2 == Relinks(k, p, t2, a, arr2)
         IN  Mid(k, k2, p, {}, 0) /\ k2.task[p] = t2
<1> DEFINE r  == [k.rq EXCEPT !.arrays[a] = arr2]
           k2 == Relinks(k, p, t2, a, arr2)
<1>1. /\ k \in Kernels /\ k.rq \in RunQueues /\ k.task \in [AllTask -> TaskStructs]
      /\ p \in AllTask /\ k.oops = "none" /\ \A q \in Task : k.task[q].prio \in Prio
  BY SoundParts DEF AllTask
<1>2. k2 = [task |-> tk, rq |-> r, oops |-> "none"]
  <2> DEFINE k1 == [k EXCEPT !.task[p] = t2]
  <2>1. k1 = [task |-> tk, rq |-> k.rq, oops |-> "none"]
    BY <1>1, KernelParts DEF Kernels
  <2> HIDE DEF k1
  <2>2. [k1 EXCEPT !.rq.arrays[a] = arr2] = [task |-> tk, rq |-> r, oops |-> "none"]
    BY <2>1
  <2> QED
    BY <2>2 DEF k1, Relinks
<1>3. tk \in [AllTask -> TaskStructs] /\ \A q \in Task : tk[q].prio \in Prio
  BY <1>1 DEF AllTask
<1>4. tk[p] = t2 /\ \A q \in AllTask \ {p} : tk[q] = k.task[q]
  BY <1>1
<1>5. /\ r \in RunQueues /\ SameRq(k.rq, r) /\ r.nr_running = k.rq.nr_running
      /\ r.arrays[a] = arr2 /\ \A b \in ArrayId \ {a} : r.arrays[b] = k.rq.arrays[b]
  BY <1>1 DEF RunQueues, SameRq, SameRqBut
<1> HIDE DEF r
<1>6. k2 \in Kernels /\ k2.task = tk /\ k2.rq = r /\ k2.oops = "none"
  <2>1. k2 \in Kernels
    BY <1>2, <1>3, <1>5, KernelMake DEF Oopses
  <2> QED
    BY <1>2, <2>1
<1> HIDE DEF k2
<1>7. \A q \in Task : k2.task[q].array = k.task[q].array
  BY <1>4, <1>6 DEF AllTask
<1>8. /\ \A b : Members(k2, {}, b) = Members(k, {}, b)
      /\ QueuedBut(k2, {}) = QueuedBut(k, {})
  BY <1>7 DEF Members, QueuedBut, Queued
<1>9. \A b \in ArrayId : Holds(k2.rq.arrays[b], Members(k2, {}, b), k2.task)
  <2>1. SUFFICES ASSUME NEW b \in ArrayId
                 PROVE  Holds(k2.rq.arrays[b], Members(k2, {}, b), k2.task)
    OBVIOUS
  <2>2. CASE b = a
    BY <1>5, <1>6, <1>8, <2>2
  <2>3. CASE b # a
    <3>1. Holds(k.rq.arrays[b], Members(k, {}, b), k.task)
      BY SoundArray
    <3>2. \A q \in Members(k, {}, b) : tk[q].prio = k.task[q].prio
      BY <1>4, <2>3 DEF Members, AllTask
    <3>3. Holds(k.rq.arrays[b], Members(k, {}, b), tk)
      BY <3>1, <3>2, HoldsSame
    <3> QED
      BY <1>5, <1>6, <1>8, <2>3, <3>3
  <2> QED
    BY <2>2, <2>3
<1>10. \A q \in QueuedBut(k2, {}) : Fits(k2.task[q], k2.task[q].array, k2.rq)
  <2>1. SUFFICES ASSUME NEW q \in QueuedBut(k, {})
                 PROVE  Fits(tk[q], tk[q].array, r)
    BY <1>6, <1>8
  <2>2. CASE q = p
    BY <1>4, <1>5, <2>2 DEF Fits, SameRq, SameRqBut
  <2>3. CASE q # p
    BY <1>4, <1>5, <2>3 DEF Fits, SameRq, SameRqBut, Sound, QueuedBut, AllTask
  <2> QED
    BY <2>2, <2>3
<1>11. k2.rq.active # k2.rq.expired
  BY <1>5, <1>6, SoundParts DEF SameRq, SameRqBut
<1>12. k2.rq.nr_running = Cardinality(QueuedBut(k2, {})) + 0
  BY <1>5, <1>6, <1>8 DEF Sound
<1>13. Sound(k2, {}, 0)
  BY <1>6, <1>9, <1>10, <1>11, <1>12 DEF Sound
<1>14. Others(k, k2, p)
  BY <1>4, <1>6 DEF Others, Alike, SameLink
<1> QED
  BY <1>4, <1>5, <1>6, <1>13, <1>14 DEF Mid, k2

\* What requeue_yielding does to a linked process.
LEMMA RequeueForm ==
  ASSUME NEW k \in Kernels, NEW p \in Task, k.task[p].array \in ArrayId,
         Linked(k.rq.arrays[k.task[p].array], p, k.task[p].prio)
  PROVE  LET t    == k.task[p]
             arr  == k.rq.arrays[t.array]
             q    == list_del(arr.queue[t.prio], p)
             bits == arr.bitmap \ {t.prio}
             i    == find_first_bit([arr EXCEPT !.bitmap = bits])
             to   == IF i = MAX_PRIO \/ i <= t.prio THEN t.prio ELSE i
             arr1 == [arr EXCEPT !.queue[t.prio] = q]
             arr2 == [arr1 EXCEPT !.bitmap = bits \cup {to},
                                  !.queue[to] = list_add_after_first(@, p)]
             b(w) == [k EXCEPT !.rq.arrays[t.array] = [arr EXCEPT !.queue[t.prio] = w]]
         IN  requeue_yielding(k, p) =
               IF rt_task(t) THEN b(Append(q, p))
               ELSE IF q # << >> THEN b(list_add_after_first(q, p))
               ELSE [[k EXCEPT !.task[p] = [t EXCEPT !.prio = to]]
                       EXCEPT !.rq.arrays[t.array] = arr2]
<1>1. p \in AllTask /\ k.task[p] \in TaskStructs /\ k.task[p].prio \in Prio
  BY KernelParts DEF AllTask
<1>2. k = [task |-> k.task, rq |-> k.rq, oops |-> k.oops]
  BY KernelParts
<1>3. k.task[p].array # "NULL" /\ k.rq.arrays[k.task[p].array] \in PrioArrays
  BY Counts DEF ArrayId
<1> QED
  BY <1>1, <1>2, <1>3 DEF requeue_yielding, Kernels, RunQueues, PrioArrays

\* The requeueing of a yielding process: to the end of its list, to the second
\* place, or, alone in its list, to a lower priority in use (sched.c:1880-1904).
LEMMA RequeueServed ==
  ASSUME NEW k, KernelInv(k), NEW p \in Task, Queued(k.task[p])
  PROVE  Served(k, requeue_yielding(k, p), p)
<1> DEFINE t    == k.task[p]
           a    == t.array
           arr  == k.rq.arrays[t.array]
           q    == list_del(arr.queue[t.prio], p)
           bits == arr.bitmap \ {t.prio}
           i    == find_first_bit([arr EXCEPT !.bitmap = bits])
           to   == IF i = MAX_PRIO \/ i <= t.prio THEN t.prio ELSE i
           arr1 == [arr EXCEPT !.queue[t.prio] = q]
           arr2 == [arr1 EXCEPT !.bitmap = bits \cup {to},
                                !.queue[to] = list_add_after_first(@, p)]
           M    == Members(k, {}, a)
           k2   == requeue_yielding(k, p)
<1>1. /\ k \in Kernels /\ t \in TaskStructs /\ t.prio \in Prio /\ p \in AllTask
      /\ Sound(k, {}, 0) /\ k.task \in [AllTask -> TaskStructs]
  BY SoundParts DEF KernelInv, AllTask
<1>2. a \in ArrayId /\ TaskOK(t) /\ p \in QueuedBut(k, {}) /\ Fits(t, a, k.rq)
  BY <1>1, TaskFields DEF KernelInv, QueuedBut, Queued, Sound
<1>3. /\ arr \in PrioArrays /\ M \in SUBSET Task /\ IsFiniteSet(M) /\ p \in M
      /\ Holds(arr, M, k.task)
  <2>1. /\ arr \in PrioArrays /\ M \in SUBSET Task /\ IsFiniteSet(M)
        /\ Holds(arr, M, k.task)
    BY <1>1, <1>2, SoundArray, ZenonT(30)
  <2> QED
    BY <1>2, <2>1, ZenonT(30) DEF Members
<1>4. /\ arr.queue \in [Prio -> Seq(Task)] /\ arr.bitmap \in SUBSET Prio
      /\ t.prio \in arr.bitmap /\ arr.nr_active \in Int
  <2>1. arr.queue \in [Prio -> Seq(Task)] /\ arr.bitmap \in SUBSET Prio /\ arr.nr_active \in Int
    BY <1>3 DEF PrioArrays
  <2>2. p \in Entries(arr.queue[t.prio])
    BY <1>1, <1>3 DEF Holds
  <2>3. arr.queue[t.prio] # << >>
    BY <1>1, <2>1, <2>2, NoEntries
  <2> QED
    BY <1>1, <1>3, <2>1, <2>3 DEF Holds
<1>5. Linked(arr, p, t.prio) /\ q \in Seq(Task)
  <2>1. Linked(arr, p, t.prio)
    BY <1>1, <1>3, DequeueHolds
  <2> QED
    BY <1>1, <1>4, <2>1, ListDelType DEF Linked
<1>6. to \in Prio /\ to >= t.prio
  <2>1. i \in Prio \cup {MAX_PRIO}
    <3> DEFINE b == [arr EXCEPT !.bitmap = bits]
    <3>1. b.bitmap = bits /\ bits \in SUBSET Prio
      BY <1>3, <1>4 DEF PrioArrays
    <3> HIDE DEF b
    <3>2. find_first_bit(b) \in Prio \cup {MAX_PRIO}
      BY <3>1, FirstBit DEF find_first_bit
    <3> QED
      BY <3>2 DEF b
  <2> HIDE DEF i
  <2> QED
    BY <1>1, <2>1 DEF Prio
<1>7. k2 = IF rt_task(t)
           THEN [k EXCEPT !.rq.arrays[t.array] = [arr EXCEPT !.queue[t.prio] = Append(q, p)]]
           ELSE IF q # << >>
           THEN [k EXCEPT !.rq.arrays[t.array] =
                            [arr EXCEPT !.queue[t.prio] = list_add_after_first(q, p)]]
           ELSE [[k EXCEPT !.task[p] = [t EXCEPT !.prio = to]] EXCEPT !.rq.arrays[t.array] = arr2]
  BY <1>1, <1>2, <1>5, RequeueForm
<1> HIDE DEF k2, i, q, bits, t, arr, M
<1> DEFINE relinked(t2, w) == Relinks(k, p, t2, a, w)
<1>8. ASSUME NEW n \in Prio, n = t.prio \/ (~rt_task(t) /\ n >= t.prio),
             NEW w \in PrioArrays, Relinked(arr, w, p, t.prio, n)
      PROVE  Served(k, relinked([t EXCEPT !.prio = n], w), p)
  <2> DEFINE t2 == [t EXCEPT !.prio = n]
  <2>1. /\ t2 \in TaskStructs /\ t2.prio = n /\ t2.array = a /\ t2.state = t.state
        /\ t2.policy = t.policy /\ t2.is_overdue = t.is_overdue
        /\ t2.time_slice = t.time_slice /\ t2.requested_time = t.requested_time
    <3>1. t2 \in TaskStructs
      BY <1>1, SetField
    <3> QED
      BY <1>1, <3>1 DEF TaskStructs
  <2> HIDE DEF t2
  <2>2. n = t.prio \/ (~rt_task(t) /\ ~rt_task(t2))
    BY <1>1, <1>8, <2>1, PrioAssumption DEF rt_task, Prio
  <2>3. Fits(t2, a, k.rq)
    BY <1>2, <2>1, <2>2 DEF Fits, ShortNow, Overdue, rt_task
  <2>4. TaskOK(t2) /\ SameSleep(t, t2)
    BY <1>2, <2>1, <2>2 DEF TaskOK, SameSleep, Queued, rt_task
  <2> DEFINE tk == [k.task EXCEPT ![p] = t2]
  <2>5. /\ k.task[p].prio = t.prio /\ tk[p].prio = n
        /\ \A x \in M \ {p} : tk[x].prio = k.task[x].prio
    BY <1>1, <1>3, <2>1 DEF t, AllTask
  <2> HIDE DEF tk, a
  <2>6. Holds(w, M, tk)
    BY <1>1, <1>3, <1>8, <2>5, RelinkHolds
  <2>7. Mid(k, relinked(t2, w), p, {}, 0) /\ relinked(t2, w).task[p] = t2
    <3>1. k.task[p].array = a /\ Holds(w, Members(k, {}, a), tk)
      BY <2>6 DEF M, t, a
    <3>2. t2.array = a /\ t2.prio \in Prio /\ a \in ArrayId /\ tk = [k.task EXCEPT ![p] = t2]
      BY <1>2, <1>8, <2>1 DEF tk
    <3> QED
      BY <1>1, <1>8, <2>1, <2>3, <3>1, <3>2, MidRelink
  <2> HIDE DEF relinked
  <2>8. Served(k, relinked(t2, w), p)
    BY <2>4, <2>7 DEF Served, t
  <2> QED
    BY <2>8 DEF t2
<1>9. ASSUME NEW w \in Seq(Task), w \in {Append(q, p), list_add_after_first(q, p)}
      PROVE  Served(k, [k EXCEPT !.rq.arrays[t.array] = [arr EXCEPT !.queue[t.prio] = w]], p)
  <2> DEFINE arr3 == [arr EXCEPT !.queue[t.prio] = w]
  <2>1. /\ arr3 \in PrioArrays /\ arr3.nr_active = arr.nr_active
        /\ arr3.bitmap = arr.bitmap /\ arr3.queue[t.prio] = w
        /\ \A j \in Prio \ {t.prio} : arr3.queue[j] = arr.queue[j]
    <3>1. arr3 \in PrioArrays
      BY <1>1, <1>3, SetQueueType
    <3> QED
      BY <1>1, <1>3, <1>4, <3>1 DEF PrioArrays
  <2>2. arr.bitmap = (arr.bitmap \ {t.prio}) \cup {t.prio}
    BY <1>4
  <2>3. [t EXCEPT !.prio = t.prio] = t
    BY <1>1 DEF TaskStructs
  <2> HIDE DEF arr3, relinked
  <2>4. Served(k, relinked([t EXCEPT !.prio = t.prio], arr3), p)
    <3>1. Relinked(arr, arr3, p, t.prio, t.prio)
      BY <1>9, <2>1, <2>2 DEF Relinked, q
    <3> QED
      BY <1>1, <1>8, <2>1, <3>1
  <2>5. relinked(t, arr3) = [k EXCEPT !.rq.arrays[t.array] = arr3]
    BY <1>1 DEF relinked, Relinks, Kernels, t
  <2> QED
    BY <2>3, <2>4, <2>5 DEF arr3
<1>10. CASE rt_task(t)
  <2>1. Append(q, p) \in Seq(Task)
    BY <1>5
  <2> QED
    BY <1>7, <1>9, <1>10, <2>1 DEF k2
<1>11. CASE ~rt_task(t) /\ q # << >>
  <2>1. list_add_after_first(q, p) \in Seq(Task)
    BY <1>5, ListAddType
  <2> QED
    BY <1>7, <1>9, <1>11, <2>1 DEF k2
<1>12. CASE ~rt_task(t) /\ q = << >>
  <2>1. arr1 \in PrioArrays
    BY <1>1, <1>3, <1>5, SetQueueType
  <2>2. /\ arr1.queue[t.prio] = q /\ arr1.nr_active = arr.nr_active
        /\ \A j \in Prio \ {t.prio} : arr1.queue[j] = arr.queue[j]
    BY <1>1, <1>3, <1>4 DEF PrioArrays
  <2> HIDE DEF arr1, to
  <2>3. /\ arr2.nr_active = arr.nr_active /\ arr2.bitmap = bits \cup {to}
        /\ arr2.queue[to] = list_add_after_first(arr1.queue[to], p)
        /\ \A j \in Prio \ {to} : arr2.queue[j] = arr1.queue[j]
    BY <1>6, <2>1, <2>2 DEF PrioArrays
  <2>4. arr2 \in PrioArrays
    <3>1. list_add_after_first(arr1.queue[to], p) \in Seq(Task) /\ bits \cup {to} \in SUBSET Prio
      <4>1. arr1.queue[to] \in Seq(Task)
        BY <1>6, <2>1 DEF PrioArrays
      <4> QED
        BY <1>4, <1>6, <4>1, ListAddType DEF bits
    <3> QED
      BY <1>6, <2>1, <3>1 DEF PrioArrays
  <2> DEFINE from == IF to = t.prio THEN q ELSE arr.queue[to]
  <2>5. arr1.queue[to] = from
    BY <1>6, <2>2
  <2> HIDE DEF from, arr2, relinked
  <2>6. to # t.prio => arr2.queue[t.prio] = q
    BY <1>1, <2>2, <2>3
  <2>7. \A j \in Prio \ {t.prio, to} : arr2.queue[j] = arr.queue[j]
    BY <2>2, <2>3
  <2>8. Served(k, relinked([t EXCEPT !.prio = to], arr2), p)
    <3>1. Relinked(arr, arr2, p, t.prio, to)
      BY <1>12, <2>3, <2>5, <2>6, <2>7 DEF Relinked, bits, from, q
    <3> QED
      BY <1>6, <1>8, <1>12, <2>4, <3>1
  <2> QED
    BY <1>7, <1>12, <2>8 DEF relinked, Relinks, k2
<1> QED
  BY <1>10, <1>11, <1>12 DEF k2

\* What is scheduled after an operation that keeps everything.
LEMMA KeptScheduled ==
  ASSUME NEW k, NEW k1, NEW k2, k.rq.curr \in AllTask, Kept(k, k1), Scheduled(k1, k2)
  PROVE  Scheduled(k, k2)
<1>1. k1.rq.curr = k.rq.curr /\ \A q \in AllTask : SameSleep(k.task[q], k1.task[q])
  BY DEF Kept
<1>2. \A q \in AllTask \ {k.rq.curr} : SameSleep(k.task[q], k2.task[q])
  BY <1>1 DEF Scheduled, SameSleep
<1>3. k2.task[k.rq.curr].state \in {k.task[k.rq.curr].state, "RUNNING"}
  BY <1>1 DEF Scheduled, SameSleep
<1>4. ASSUME NEW E, Counted(k, E) PROVE Counted(k1, E)
  BY <1>1, <1>4, CountSame DEF Kept, AllTask
<1>5. \A E : k.rq.curr \notin E /\ Counted(k, E) => Counted(k2, E)
  BY <1>1, <1>4 DEF Scheduled
<1> QED
  BY <1>2, <1>3, <1>5 DEF Scheduled

\* sched_yield (sched.c:1874-1910).
LEMMA YieldKeeps ==
  ASSUME NEW k, KernelInv(k), k.rq.curr \in Task
  PROVE  Scheduled(k, sys_sched_yield(k))
<1> DEFINE p  == k.rq.curr
           k1 == requeue_yielding(k, p)
<1>1. Queued(k.task[p])
  BY DEF KernelInv, Awake
<1>2. Kept(k, k1)
  BY <1>1, RequeueServed, ServedKept
<1> HIDE DEF k1
<1>3. KernelInv(k1) /\ k1.rq.curr = p /\ SameSleep(k.task[p], k1.task[p])
  BY <1>2 DEF Kept, AllTask
<1>4. Scheduled(k1, schedule(k1, FALSE))
  BY <1>3, ScheduleKeeps
<1> QED
  BY <1>2, <1>4, KeptScheduled DEF sys_sched_yield, k1, AllTask

-----------------------------------------------------------------------------
(* nice *)

\* set_user_nice, on any process: one that is queued is requeued under its new
\* priority, and a real-time or SHORT one keeps its own (sched.c:1378-1419).
LEMMA NiceServed ==
  ASSUME NEW k, KernelInv(k), NEW p \in Task, NEW nice \in Int
  PROVE  Served(k, set_user_nice(k, p, nice), p)
<1> DEFINE t    == k.task[p]
           a    == t.array
           prio == NICE_TO_PRIO(nice)
           t2   == [t EXCEPT !.static_prio = prio, !.prio = prio]
           k1   == IF t.array = "NULL" THEN k ELSE dequeue_task(k, p, t.array)
           k2   == [k1 EXCEPT !.task[p].static_prio = prio, !.task[p].prio = prio]
           k3   == enqueue_task(k2, p, t.array)
           kr   == resched_task(k3, k.rq.curr)
           out  == \/ t.static_prio = prio \/ t.policy = "SHORT"
                   \/ nice < -NiceHalf \/ nice > NiceHalf - 1
           good(kk) == Served(k, kk, p)
<1>1. /\ k \in Kernels /\ t \in TaskStructs /\ t.prio \in Prio /\ p \in AllTask
      /\ Sound(k, {}, 0) /\ TaskOK(t) /\ k.rq.curr \in AllTask
  BY SoundParts DEF KernelInv, AllTask
<1>2. set_user_nice(k, p, nice) =
        IF out THEN k ELSE IF rt_task(t) THEN [k EXCEPT !.task[p].static_prio = prio]
        ELSE IF a = "NULL" THEN k2
        ELSE IF prio < k3.task[p].static_prio \/ p = k.rq.curr THEN kr ELSE k3
  BY DEF set_user_nice
<1>3. CASE out
  BY <1>1, <1>2, <1>3, MidRefl DEF Served, SameSleep
<1>4. ~out => prio \in UserPrio /\ prio \in Prio /\ prio >= MAX_RT_PRIO
  <2>1. ~out => nice \in -NiceHalf .. NiceHalf - 1
    BY PrioAssumption, MaxPrioAssumption DEF NiceHalf
  <2> QED
    BY <2>1, NicePrioType, PrioAssumption, MaxPrioAssumption DEF UserPrio, Prio
<1>5. CASE ~out /\ rt_task(t)
  <2> DEFINE u == [t EXCEPT !.static_prio = prio]
  <2>1. [k EXCEPT !.task[p].static_prio = prio] = [k EXCEPT !.task[p] = u]
    BY <1>1 DEF Kernels
  <2>2. u \in TaskStructs
    BY <1>1, <1>4, <1>5, SetField
  <2>3. /\ SameLink(t, u) /\ u.prio = t.prio /\ u.state = t.state /\ u.policy = t.policy
        /\ u.requested_time = t.requested_time /\ u.time_slice = t.time_slice
    BY <1>1, <2>2 DEF TaskStructs, SameLink
  <2> HIDE DEF u, out, prio
  <2> DEFINE ku == [k EXCEPT !.task[p] = u]
  <2>4. Mid(k, ku, p, {}, 0) /\ ku.task[p] = u
    BY <1>1, <2>2, <2>3, MidFirst
  <2> HIDE DEF ku
  <2>5. TaskOK(u) /\ SameSleep(t, u)
    BY <1>1, <2>3 DEF TaskOK, SameSleep, SameLink, Queued, rt_task
  <2>6. good(ku)
    BY <2>4, <2>5 DEF Served
  <2> QED
    BY <1>2, <1>5, <2>1, <2>6 DEF ku
<1>6. ASSUME ~out, ~rt_task(t)
      PROVE  /\ t2 \in TaskStructs /\ t2.prio = prio /\ t2.array = a /\ t2.state = t.state
             /\ t2.policy = "OTHER" /\ t.policy = "OTHER" /\ t2.time_slice = t.time_slice
             /\ t2.requested_time = t.requested_time /\ ~rt_task(t2)
             /\ TaskOK(t2) /\ SameSleep(t, t2)
  <2>1. t.policy = "OTHER"
    BY <1>1, <1>6, TaskFields DEF TaskOK
  <2>2. t2 \in TaskStructs
    <3> DEFINE u == [t EXCEPT !.static_prio = prio]
    <3> HIDE DEF prio, out
    <3>1. u \in TaskStructs
      BY <1>1, <1>4, <1>6, SetField
    <3>2. t2 = [u EXCEPT !.prio = prio]
      BY <1>1
    <3> HIDE DEF u, t2
    <3> QED
      BY <1>4, <1>6, <3>1, <3>2, SetField
  <2>3. /\ t2.prio = prio /\ t2.array = a /\ t2.state = t.state
        /\ t2.policy = "OTHER" /\ t2.time_slice = t.time_slice
        /\ t2.requested_time = t.requested_time
    BY <1>1, <2>1, <2>2 DEF TaskStructs
  <2> HIDE DEF t2
  <2>4. ~rt_task(t2)
    BY <1>4, <1>6, <2>3, PrioAssumption DEF rt_task, UserPrio
  <2>5. TaskOK(t2) /\ SameSleep(t, t2)
    BY <1>1, <2>1, <2>3, <2>4 DEF TaskOK, SameSleep, Queued
  <2> QED
    BY <2>1, <2>2, <2>3, <2>4, <2>5
<1>7. ASSUME k1 \in Kernels, k1.task = k.task PROVE k2 = [k1 EXCEPT !.task[p] = t2]
  <2> HIDE DEF k1
  <2> QED
    BY <1>1, <1>7 DEF Kernels
<1>8. CASE ~out /\ ~rt_task(t) /\ ~Queued(t)
  <2>1. a = "NULL" /\ k1 = k
    BY <1>8 DEF Queued
  <2>2. k2 = [k EXCEPT !.task[p] = t2]
    BY <1>1, <1>7, <2>1
  <2> HIDE DEF t2, k2, k1, out, prio
  <2> DEFINE ku == [k EXCEPT !.task[p] = t2]
  <2>3. Mid(k, k, p, {p}, 0)
    <3>1. Sound(k, {p}, 0)
      BY <1>1, <1>8, SoundInHand
    <3> QED
      BY <3>1, MidRefl
  <2>4. Mid(k, ku, p, {p}, 0) /\ ku.task[p] = t2
    BY <1>4, <1>6, <1>8, <2>3, MidSet
  <2> HIDE DEF ku
  <2>5. Mid(k, ku, p, {}, 0)
    <3>1. ~Queued(ku.task[p])
      BY <1>6, <1>8, <2>4 DEF SameSleep
    <3>2. Sound(ku, {p}, 0)
      BY <2>4 DEF Mid
    <3>3. Sound(ku, {}, 0)
      BY <3>1, <3>2, SoundInHand
    <3> QED
      BY <2>4, <3>3 DEF Mid
  <2>6. good(ku)
    BY <1>6, <1>8, <2>4, <2>5 DEF Served
  <2> QED
    BY <1>2, <1>8, <2>1, <2>2, <2>6 DEF ku
<1>9. CASE ~out /\ ~rt_task(t) /\ Queued(t)
  <2>1. a \in ArrayId /\ Fits(t, a, k.rq)
    <3>1. p \in QueuedBut(k, {})
      BY <1>9 DEF QueuedBut
    <3> QED
      BY <1>1, <1>9, <3>1, TaskFields DEF Queued, Sound
  <2>2. k1 = dequeue_task(k, p, a) /\ a # "NULL"
    BY <1>9 DEF Queued
  <2>3. Mid(k, k1, p, {p}, 1) /\ k1.task = k.task
    <3> DEFINE kd == dequeue_task(k, p, a)
    <3>1. Mid(k, kd, p, {p}, 1) /\ kd.task = k.task
      BY <1>1, <2>1, MidRefl, MidDequeue
    <3> QED
      BY <2>2, <3>1
  <2>4. k1 \in Kernels
    BY <2>3, SoundParts DEF Mid
  <2>5. k2 = [k1 EXCEPT !.task[p] = t2]
    BY <1>7, <2>3, <2>4
  <2> HIDE DEF t2, k1, k2, k3, out, prio
  <2>6. Mid(k, k2, p, {p}, 1) /\ k2.task[p] = t2
    BY <1>4, <1>6, <1>9, <2>3, <2>5, MidSet
  <2>7. Fits(k2.task[p], a, k2.rq)
    BY <1>6, <1>9, <2>1, <2>6 DEF Fits, ShortNow, Overdue
  <2>8. Mid(k, k3, p, {}, 0) /\ k3.task[p] = [k2.task[p] EXCEPT !.array = a]
    <3> DEFINE ke == enqueue_task(k2, p, a)
    <3>1. Mid(k, ke, p, {}, 0) /\ ke.task[p] = [k2.task[p] EXCEPT !.array = a]
      BY <2>1, <2>6, <2>7, MidEnqueue
    <3> QED
      BY <3>1 DEF k3
  <2>9. k3.task[p] = t2
    BY <1>6, <1>9, <2>6, <2>8 DEF TaskStructs
  <2>10. good(k3)
    BY <1>6, <1>9, <2>8, <2>9 DEF Served
  <2>11. good(kr)
    <3> DEFINE kq == resched_task(k3, k.rq.curr)
    <3>1. Mid(k, kq, p, {}, 0) /\ Alike(k3.task[p], kq.task[p])
      BY <1>1, <2>8, MidResched
    <3> HIDE DEF kq
    <3>2. TaskOK(kq.task[p]) /\ SameSleep(t, kq.task[p])
      BY <1>6, <1>9, <2>9, <3>1, AlikeOK, AlikeSleep DEF SameSleep
    <3>3. good(kq)
      BY <3>1, <3>2 DEF Served
    <3> QED
      BY <3>3 DEF kq
  <2> HIDE DEF kr
  <2> QED
    BY <1>2, <1>9, <2>2, <2>10, <2>11
<1> QED
  BY <1>3, <1>5, <1>8, <1>9

-----------------------------------------------------------------------------
(* sched_setscheduler *)

\* deactivate_task takes a process in hand that is running.
LEMMA MidDeactivate ==
  ASSUME NEW k, NEW k1, NEW p \in Task, Mid(k, k1, p, {}, 0), Queued(k1.task[p]),
         k1.task[p].state # "UNINTERRUPTIBLE"
  PROVE  LET k2 == deactivate_task(k1, p)
         IN  Mid(k, k2, p, {p}, 0) /\ k2.task[p] = [k1.task[p] EXCEPT !.array = "NULL"]
<1> DEFINE k2 == deactivate_task(k1, p)
<1>1. /\ Sound(k1, {}, 0) /\ SameRq(k.rq, k1.rq) /\ Others(k, k1, p) /\ p \in AllTask
      /\ k1.task \in [AllTask -> TaskStructs]
  BY SoundParts DEF Mid, AllTask
<1>2. /\ Sound(k2, {p}, 0) /\ SameRqBut(k1.rq, k2.rq, k1.rq.nr_uninterruptible)
      /\ k2.task = [k1.task EXCEPT ![p].array = "NULL"]
  BY <1>1, SoundDeactivate
<1> HIDE DEF k2
<1>3. /\ k2.task[p] = [k1.task[p] EXCEPT !.array = "NULL"]
      /\ \A q \in AllTask \ {p} : k2.task[q] = k1.task[q]
  BY <1>1, <1>2
<1>4. Others(k, k2, p) /\ SameRq(k.rq, k2.rq)
  BY <1>1, <1>2, <1>3, OthersSame DEF SameRq, SameRqBut
<1>5. Mid(k, k2, p, {p}, 0)
  BY <1>2, <1>4 DEF Mid
<1> QED
  BY <1>3, <1>5 DEF k2

\* t2 is t, queued with priority prio.
Activated(t, t2, prio) ==
  /\ Queued(t2) /\ t2.prio = prio /\ t2.state = t.state /\ t2.policy = t.policy
  /\ t2.time_slice = t.time_slice /\ t2.requested_time = t.requested_time

\* activate_task queues the process in hand.
LEMMA MidActivate ==
  ASSUME NEW k, NEW k1, NEW p \in Task, Mid(k, k1, p, {p}, 0), NEW prio \in Prio
  PROVE  LET k2 == activate_task(k1, p, prio)
         IN  Mid(k, k2, p, {}, 0) /\ Activated(k1.task[p], k2.task[p], prio)
<1> DEFINE k2 == activate_task(k1, p, prio)
           a  == HomeArray(k1, k1.task[p])
           t2 == [k1.task[p] EXCEPT !.prio = prio, !.array = a]
<1>1. /\ Sound(k1, {p}, 0) /\ SameRq(k.rq, k1.rq) /\ Others(k, k1, p) /\ p \in AllTask
      /\ k1.task \in [AllTask -> TaskStructs]
  BY SoundParts DEF Mid, AllTask
<1>2. /\ Sound(k2, {}, 0) /\ SameRq(k1.rq, k2.rq) /\ a \in ArrayId
      /\ k2.task = [k1.task EXCEPT ![p] = t2]
  BY <1>1, SoundActivate
<1> HIDE DEF k2, a, t2
<1>3. k2.task[p] = t2 /\ \A q \in AllTask \ {p} : k2.task[q] = k1.task[q]
  BY <1>1, <1>2
<1>4. Others(k, k2, p) /\ SameRq(k.rq, k2.rq)
  BY <1>1, <1>2, <1>3, OthersSame DEF SameRq, SameRqBut
<1>5. Mid(k, k2, p, {}, 0)
  BY <1>2, <1>4 DEF Mid
<1>6. Activated(k1.task[p], t2, prio)
  <2>1. a # "NULL" /\ a \in ArrayId
    BY <1>2 DEF ArrayId
  <2> QED
    BY <1>1, <2>1 DEF Activated, t2, Queued, TaskStructs
<1> QED
  BY <1>3, <1>5, <1>6 DEF k2

\* The priorities setscheduler gives are of the class of the policy
\* (sched.c:1668-1680, 289-326).
LEMMA SetschedulerPrioClass ==
  ASSUME NEW t \in TaskStructs, NEW r \in SchedRequests, NEW prio \in SetschedulerPrios(t, r)
  PROVE  /\ prio \in Prio
         /\ RequestedPolicy(t, r) \in {"FIFO", "RR"} => prio < MAX_RT_PRIO
         /\ RequestedPolicy(t, r) \notin {"FIFO", "RR"} => prio >= MAX_RT_PRIO
<1> DEFINE policy == RequestedPolicy(t, r)
           u      == [t EXCEPT !.policy = policy, !.is_overdue = FALSE]
<1>1. CASE policy \in {"FIFO", "RR"}
  <2>1. prio = MAX_USER_RT_PRIO - 1 - r.priority
    BY <1>1 DEF SetschedulerPrios
  <2>2. r.priority \in 0 .. MAX_USER_RT_PRIO - 1
    BY DEF SchedRequests
  <2> HIDE DEF policy
  <2> QED
    BY <1>1, <2>1, <2>2, PrioAssumption, MaxPrioAssumption DEF MAX_USER_RT_PRIO, Prio, policy
<1>2. CASE policy \notin {"FIFO", "RR"}
  <2>1. t.static_prio \in UserPrio /\ u.static_prio = t.static_prio
    BY DEF TaskStructs
  <2>2. prio \in {t.static_prio} \cup effective_prio(u)
    BY <1>2 DEF SetschedulerPrios
  <2> HIDE DEF u, policy
  <2>3. prio \in UserPrio
    BY <2>1, <2>2, EffectiveUser
  <2>4. prio \in Prio /\ prio >= MAX_RT_PRIO
    BY <2>3, PrioAssumption, MaxPrioAssumption DEF UserPrio, Prio
  <2> QED
    BY <1>2, <2>4 DEF policy
<1> QED
  BY <1>1, <1>2

\* The parameters setscheduler gives a process that becomes SHORT: the slice is the
\* requested time, in ticks, for the first trial (sched.c:1648-1659).
LEMMA SetShortForm ==
  ASSUME Disciplined, NEW k1 \in Kernels, NEW p \in Task, NEW r \in Requests,
         r.policy = "SHORT", r.time \in 1 .. MAX_REQUESTED_TIME
  PROVE  \E u \in TaskStructs :
           /\ set_short(k1, p, r) = [k1 EXCEPT !.task[p] = u]
           /\ u.prio = k1.task[p].prio /\ u.state = k1.task[p].state
           /\ u.requested_time = r.time /\ u.time_slice = RequestTicks(r.time)
           /\ RequestTicks(r.time) \in 1 .. MaxSlice
<1> DEFINE t == [k1.task[p] EXCEPT !.requested_time = r.time,
                    !.number_of_trials = r.trials, !.array = "short_q",
                    !.current_trial = 0, !.is_overdue = FALSE]
           u == [t EXCEPT !.time_slice = SHORT_TIMESLICE(t)]
<1>0. p \in AllTask /\ k1.task[p] \in TaskStructs /\ r \in SchedRequests
  BY KernelParts, CallAssumption DEF AllTask
<1>1. set_short(k1, p, r) = [k1 EXCEPT !.task[p] = u]
  BY DEF set_short
<1>2. t \in TaskStructs
  <2>1. r.time \in Nat /\ r.trials \in Int
    BY <1>0 DEF SchedRequests
  <2> QED
    BY <1>0, <2>1 DEF TaskStructs, ArrayId
<1>3. /\ t.current_trial = 0 /\ t.requested_time = r.time /\ t.prio = k1.task[p].prio
      /\ t.state = k1.task[p].state
  BY <1>0 DEF TaskStructs
<1>4. RequestTicks(r.time) \in 1 .. MaxSlice
  <2>1. /\ RequestTicks(r.time) \in Nat
        /\ RequestTicks(r.time) <= RequestTicks(MAX_REQUESTED_TIME)
    BY CallAssumption, RequestTicksGrows
  <2>2. RequestTicks(r.time) >= 1
    BY DEF Disciplined
  <2>3. RequestTicks(MAX_REQUESTED_TIME) \in Nat
    BY CallAssumption, RequestTicksGrows
  <2> QED
    BY <2>1, <2>2, <2>3, SliceBounds
<1> HIDE DEF t
<1>5. SHORT_TIMESLICE(t) = RequestTicks(r.time)
  BY <1>2, <1>3, <1>4, ShortSlice
<1>6. u \in TaskStructs
  BY <1>2, ShortTimesliceType, SetField
<1>7. /\ u.prio = t.prio /\ u.state = t.state /\ u.requested_time = t.requested_time
      /\ u.time_slice = SHORT_TIMESLICE(t)
  BY <1>2 DEF TaskStructs
<1> HIDE DEF u
<1> QED
  BY <1>1, <1>3, <1>4, <1>5, <1>6, <1>7

\* setscheduler of a queued process that is not SHORT already, up to the call of
\* schedule: off the runqueue, the new policy, and on it again (sched.c:1643-1680).
LEMMA SetschedulerServed ==
  ASSUME Disciplined, NEW k, KernelInv(k), NEW p \in Task, NEW r \in Requests,
         Queued(k.task[p]), k.task[p].state = "RUNNING",
         ~SetschedulerRejects(k.task[p], r),
         ~(k.task[p].policy = "SHORT" /\ RequestedPolicy(k.task[p], r) = "SHORT"),
         NEW prio \in SetschedulerPrios(k.task[p], r)
  PROVE  \E k4 : /\ Served(k, k4, p)
                 /\ setscheduler(k, p, r, prio) =
                      IF RequestedPolicy(k.task[p], r) = "SHORT"
                      THEN schedule(resched_task(k4, k.rq.curr), FALSE) ELSE k4
<1> DEFINE t      == k.task[p]
           policy == RequestedPolicy(t, r)
           k1     == IF t.array = "NULL" THEN k ELSE deactivate_task(k, p)
           k2     == IF t.policy = "OTHER" /\ policy = "SHORT" THEN set_short(k1, p, r)
                     ELSE k1
           pr     == IF policy \in {"FIFO", "RR"} THEN prio ELSE t.static_prio
           k3     == [k2 EXCEPT !.task[p].policy = policy,
                                !.task[p].prio = IF policy \in {"FIFO", "RR"} THEN prio
                                                 ELSE t.static_prio]
           k4     == IF t.array = "NULL" THEN k3 ELSE activate_task(k3, p, prio)
<1>1. /\ k \in Kernels /\ t \in TaskStructs /\ t.prio \in Prio /\ p \in AllTask
      /\ Sound(k, {}, 0) /\ TaskOK(t) /\ r \in SchedRequests /\ t.array # "NULL"
  BY SoundParts, CallAssumption DEF KernelInv, AllTask, Queued
<1>2. setscheduler(k, p, r, prio) =
        IF policy = "SHORT" THEN schedule(resched_task(k4, k.rq.curr), FALSE) ELSE k4
  BY DEF setscheduler
<1>3. /\ prio \in Prio /\ (policy \in {"FIFO", "RR"} => prio < MAX_RT_PRIO)
      /\ policy \notin {"FIFO", "RR"} => prio >= MAX_RT_PRIO
  BY <1>1, SetschedulerPrioClass
<1>4. policy \in Policies /\ t.static_prio \in Prio
  BY <1>1, TaskFields, NicePrioType DEF RequestedPolicy, SchedRequests
<1>5. policy = "SHORT" => /\ t.policy = "OTHER" /\ r.policy = "SHORT"
                          /\ r.time \in 1 .. MAX_REQUESTED_TIME
  BY <1>1, TaskFields DEF SetschedulerRejects, RequestedPolicy, Policies
<1>6. Mid(k, k1, p, {p}, 0) /\ k1.task[p] = [t EXCEPT !.array = "NULL"]
  <2> DEFINE kd == deactivate_task(k, p)
  <2>1. Mid(k, kd, p, {p}, 0) /\ kd.task[p] = [t EXCEPT !.array = "NULL"]
    BY <1>1, MidRefl, MidDeactivate
  <2> QED
    BY <1>1, <2>1
<1> HIDE DEF k1
<1>7. \E u \in TaskStructs :
        /\ Mid(k, k2, p, {p}, 0) /\ k2.task[p] = u /\ u.prio \in Prio /\ u.state = "RUNNING"
        /\ u.time_slice \in 1 .. MaxSlice
        /\ RequestTicks(u.requested_time) <= MaxSlice
  <2>1. /\ k1 \in Kernels /\ k1.task[p] \in TaskStructs /\ k1.task[p].prio = t.prio
        /\ k1.task[p].state = "RUNNING" /\ k1.task[p].time_slice = t.time_slice
    <3>1. k1 \in Kernels /\ k1.task[p] \in TaskStructs
      BY <1>1, <1>6, SoundParts DEF Mid
    <3> QED
      BY <1>1, <1>6, <3>1 DEF TaskStructs
  <2>2. CASE policy = "SHORT"
    <3>1. PICK u \in TaskStructs :
            /\ set_short(k1, p, r) = [k1 EXCEPT !.task[p] = u]
            /\ u.prio = k1.task[p].prio /\ u.state = k1.task[p].state
            /\ u.requested_time = r.time /\ u.time_slice = RequestTicks(r.time)
            /\ RequestTicks(r.time) \in 1 .. MaxSlice
      BY <1>5, <2>1, <2>2, SetShortForm
    <3>2. k2 = [k1 EXCEPT !.task[p] = u]
      BY <1>5, <2>2, <3>1
    <3> HIDE DEF k2, policy
    <3> DEFINE ku == [k1 EXCEPT !.task[p] = u]
    <3>3. Mid(k, ku, p, {p}, 0) /\ ku.task[p] = u
      <4>1. u.prio \in Prio /\ p \in {p}
        BY <1>1, <2>1, <3>1
      <4> QED
        BY <1>6, <4>1, MidSet
    <3> HIDE DEF ku
    <3> QED
      BY <1>1, <2>1, <3>1, <3>2, <3>3 DEF ku
  <2>3. CASE policy # "SHORT"
    <3>1. k2 = k1
      BY <2>3
    <3>2. t.time_slice \in 1 .. MaxSlice /\ RequestTicks(t.requested_time) <= MaxSlice
      BY <1>1 DEF TaskOK
    <3>3. k1.task[p].requested_time = t.requested_time
      BY <1>1, <1>6 DEF TaskStructs
    <3> HIDE DEF k2, policy
    <3> QED
      BY <1>1, <1>6, <2>1, <2>3, <3>1, <3>2, <3>3
  <2> QED
    BY <2>2, <2>3
<1> HIDE DEF k2
<1>8. PICK u \in TaskStructs :
        /\ Mid(k, k2, p, {p}, 0) /\ k2.task[p] = u /\ u.prio \in Prio /\ u.state = "RUNNING"
        /\ u.time_slice \in 1 .. MaxSlice
        /\ RequestTicks(u.requested_time) <= MaxSlice
  BY <1>7
<1> DEFINE w == [u EXCEPT !.policy = policy, !.prio = pr]
<1>9. pr \in Prio /\ pr \in 0 .. MAX_PRIO
  <2>1. \A n \in Prio : n \in 0 .. MAX_PRIO
    BY MaxPrioAssumption DEF Prio
  <2>2. pr \in {prio, t.static_prio}
    OBVIOUS
  <2> HIDE DEF pr
  <2> QED
    BY <1>3, <1>4, <2>1, <2>2
<1>10. k3 = [k2 EXCEPT !.task[p] = w]
  <2>1. k2 \in Kernels
    BY <1>8, SoundParts DEF Mid
  <2> QED
    BY <1>1, <1>8, <2>1 DEF Kernels
<1> HIDE DEF pr, policy
<1>11. /\ w \in TaskStructs /\ w.prio = pr /\ w.policy = policy /\ w.state = "RUNNING"
       /\ w.time_slice = u.time_slice /\ w.requested_time = u.requested_time
  <2>1. w \in TaskStructs
    BY <1>4, <1>8, <1>9 DEF TaskStructs
  <2> QED
    BY <1>4, <1>8, <1>9, <2>1 DEF TaskStructs
<1> HIDE DEF w, k3
<1>12. Mid(k, k3, p, {p}, 0) /\ k3.task[p] = w
  <2> DEFINE kw == [k2 EXCEPT !.task[p] = w]
  <2>1. Mid(k, kw, p, {p}, 0) /\ kw.task[p] = w
    BY <1>8, <1>9, <1>11, MidSet
  <2> HIDE DEF kw
  <2> QED
    BY <1>10, <2>1 DEF kw
<1>13. Mid(k, k4, p, {}, 0) /\ Activated(w, k4.task[p], prio)
  <2> DEFINE ka == activate_task(k3, p, prio)
  <2>1. Mid(k, ka, p, {}, 0) /\ Activated(k3.task[p], ka.task[p], prio)
    BY <1>3, <1>12, MidActivate
  <2>2. k4 = ka
    BY <1>1
  <2> HIDE DEF ka, k4
  <2> QED
    BY <1>12, <2>1, <2>2
<1> HIDE DEF k4
<1>14. /\ k4.task[p].policy = policy /\ k4.task[p].prio = prio /\ k4.task[p].state = "RUNNING"
       /\ k4.task[p].time_slice = u.time_slice /\ Queued(k4.task[p])
       /\ k4.task[p].requested_time = u.requested_time
  BY <1>11, <1>13 DEF Activated
<1>15. TaskOK(k4.task[p]) /\ SameSleep(t, k4.task[p])
  <2>1. prio \in Nat /\ MAX_RT_PRIO \in Nat
    BY <1>3, PrioAssumption, MaxPrioAssumption DEF Prio
  <2>2. policy # "SHORT" => (policy = "OTHER" <=> ~(prio < MAX_RT_PRIO))
    BY <1>3, <1>4, <2>1 DEF Policies, policy
  <2> QED
    BY <1>1, <1>8, <1>14, <2>2 DEF TaskOK, SameSleep, Queued, rt_task
<1>16. Served(k, k4, p)
  BY <1>13, <1>15 DEF Served
<1> QED
  BY <1>2, <1>16 DEF policy

\* What a system call does to the kernel: it keeps everything, or schedules.
Called(k, k2) == Kept(k, k2) \/ Scheduled(k, k2)

\* sched_setscheduler: only the one that makes a process SHORT calls schedule
\* (sched.c:1681-1700).
LEMMA SetschedulerCalled ==
  ASSUME Disciplined, NEW k, KernelInv(k), NEW p \in Task, NEW r \in Requests,
         Queued(k.task[p]), k.task[p].state = "RUNNING",
         ~(k.task[p].policy = "SHORT" /\ RequestedPolicy(k.task[p], r) = "SHORT"),
         NEW prio \in SetschedulerPrios(k.task[p], r)
  PROVE  Called(k, setscheduler(k, p, r, prio))
<1> DEFINE k2 == setscheduler(k, p, r, prio)
<1>1. CASE SetschedulerRejects(k.task[p], r)
  <2>1. k2 = k
    BY <1>1 DEF setscheduler
  <2> HIDE DEF k2
  <2>2. Called(k, k2)
    BY <2>1, KeptRefl DEF Called
  <2> QED
    BY <2>2 DEF k2
<1>2. CASE ~SetschedulerRejects(k.task[p], r)
  <2>1. PICK k4 : /\ Served(k, k4, p)
                  /\ k2 = IF RequestedPolicy(k.task[p], r) = "SHORT"
                          THEN schedule(resched_task(k4, k.rq.curr), FALSE) ELSE k4
    BY <1>2, SetschedulerServed
  <2> HIDE DEF k2
  <2> DEFINE k5 == resched_task(k4, k.rq.curr)
  <2>2. k.rq.curr \in AllTask
    BY SoundParts DEF KernelInv
  <2>3. Kept(k, k4)
    BY <2>1, ServedKept
  <2>4. Kept(k, k5)
    <3>1. Mid(k, k5, p, {}, 0) /\ Alike(k4.task[p], k5.task[p])
      BY <2>1, <2>2, MidResched DEF Served
    <3> HIDE DEF k5
    <3>2. TaskOK(k5.task[p]) /\ SameSleep(k.task[p], k5.task[p])
      BY <2>1, <3>1, AlikeOK, AlikeSleep DEF Served, SameSleep
    <3> QED
      BY <3>1, <3>2, MidKept
  <2> HIDE DEF k5
  <2>5. Scheduled(k5, schedule(k5, FALSE))
    BY <2>4, ScheduleKeeps DEF Kept
  <2>6. Scheduled(k, schedule(k5, FALSE))
    BY <2>2, <2>4, <2>5, KeptScheduled
  <2>7. Called(k, k2)
    BY <2>1, <2>3, <2>6 DEF Called, k5
  <2> QED
    BY <2>7 DEF k2
<1> QED
  BY <1>1, <1>2
-----------------------------------------------------------------------------
(* One process changes its state *)

\* The rest of the kernel keeps everything when p changes.
KeptBut(k, k2, p) ==
  /\ KernelInv(k2) /\ k2.rq.curr = k.rq.curr
  /\ k2.rq.nr_uninterruptible = k.rq.nr_uninterruptible
  /\ \A q \in AllTask \ {p} : SameSleep(k.task[q], k2.task[q])

\* Keeping everything is a special case.
LEMMA KeptKeptBut ==
  ASSUME NEW k, NEW k2, NEW p, Kept(k, k2)
  PROVE  KeptBut(k, k2, p)
BY DEF Kept, KeptBut

\* k2 keeps the invariant when it keeps all but p, and p is as a process is to be.
LEMMA MidKeptBut ==
  ASSUME NEW k, KernelInv(k), NEW k2, NEW p \in Task, Mid(k, k2, p, {}, 0),
         TaskOK(k2.task[p]), p = k.rq.curr => Queued(k2.task[p]),
         p # k.rq.curr => (Queued(k2.task[p]) <=> k2.task[p].state = "RUNNING")
  PROVE  KeptBut(k, k2, p)
<1>1. /\ Sound(k2, {}, 0) /\ k2.rq.curr = k.rq.curr
      /\ k2.rq.nr_uninterruptible = k.rq.nr_uninterruptible
      /\ \A q \in AllTask \ {p} : Alike(k.task[q], k2.task[q])
  BY DEF Mid, SameRq, SameRqBut, Others
<1>2. \A q \in AllTask \ {p} : SameSleep(k.task[q], k2.task[q])
  BY <1>1, AlikeSleep
<1>3. \A q \in Task : TaskOK(k2.task[q])
  BY <1>1, AlikeOK DEF KernelInv, AllTask
<1>4. Awake(k2)
  BY <1>1, <1>2 DEF KernelInv, Awake, SameSleep, AllTask
<1>5. k2.task[Idle].state = "RUNNING"
  BY <1>2, IdleAssumption DEF KernelInv, SameSleep, AllTask
<1> QED
  BY <1>1, <1>2, <1>3, <1>4, <1>5 DEF KernelInv, KeptBut

\* The sleepers are counted still when p is one of them before and after, or is
\* neither.
LEMMA CountBut ==
  ASSUME NEW k, NEW k2, NEW p, KeptBut(k, k2, p), NEW E, NEW E2, Counted(k, E),
         E \ {p} = E2 \ {p}, p \in Asleep(k, E) <=> p \in Asleep(k2, E2)
  PROVE  Counted(k2, E2)
<1>1. Asleep(k, E) = Asleep(k2, E2)
  <2>1. ASSUME NEW q \in Task PROVE q \in Asleep(k, E) <=> q \in Asleep(k2, E2)
    <3>1. CASE q = p
      BY <3>1
    <3>2. CASE q # p
      BY <3>2 DEF KeptBut, Asleep, SameSleep, AllTask
    <3> QED
      BY <3>1, <3>2
  <2> QED
    BY <2>1 DEF Asleep
<1> QED
  BY <1>1 DEF Counted, KeptBut

\* A process that is off the runqueue, and stays off it, is replaced at will.
LEMMA SetUnqueued ==
  ASSUME NEW k, KernelInv(k), NEW p \in Task, ~Queued(k.task[p]),
         NEW t \in TaskStructs, t.prio \in Prio, ~Queued(t), t.state # "RUNNING", TaskOK(t)
  PROVE  LET k2 == [k EXCEPT !.task[p] = t]
         IN  KeptBut(k, k2, p) /\ k2.task[p] = t
<1> DEFINE k2 == [k EXCEPT !.task[p] = t]
<1>1. Sound(k, {p}, 0)
  BY SoundInHand DEF KernelInv
<1>2. Mid(k, k2, p, {p}, 0) /\ k2.task[p] = t
  <2>1. Mid(k, k, p, {p}, 0) /\ p \in {p}
    BY <1>1, MidRefl
  <2> QED
    BY <2>1, MidSet
<1> HIDE DEF k2
<1>3. Mid(k, k2, p, {}, 0)
  BY <1>2, SoundInHand DEF Mid
<1>4. p # k.rq.curr
  BY DEF KernelInv, Awake
<1>5. KeptBut(k, k2, p)
  BY <1>2, <1>3, <1>4, MidKeptBut
<1> QED
  BY <1>2, <1>5 DEF k2

\* The first half of a wait loop and its early end set the state of current, which
\* is linked still (sched.c:1313-1344).
LEMMA SetStateKept ==
  ASSUME NEW k, KernelInv(k), NEW p \in Task, p = k.rq.curr,
         NEW s \in {"RUNNING", "INTERRUPTIBLE", "UNINTERRUPTIBLE"},
         NEW k2, k2 = [k EXCEPT !.task[p].state = s]
  PROVE  KeptBut(k, k2, p) /\ Queued(k2.task[p]) /\ k2.task[p].state = s
<1> DEFINE t  == [k.task[p] EXCEPT !.state = s]
           kt == [k EXCEPT !.task[p] = t]
<1>1. /\ k \in Kernels /\ k.task[p] \in TaskStructs /\ k.task[p].prio \in Prio
      /\ Sound(k, {}, 0) /\ TaskOK(k.task[p]) /\ Queued(k.task[p])
  BY SoundParts DEF KernelInv, Awake, AllTask
<1>2. k2 = kt
  BY <1>1 DEF Kernels
<1>3. t \in TaskStructs
  BY <1>1, SetField DEF States
<1>4. /\ t.prio = k.task[p].prio /\ SameLink(k.task[p], t) /\ t.state = s
      /\ t.requested_time = k.task[p].requested_time
      /\ t.time_slice = k.task[p].time_slice
  BY <1>1, <1>3 DEF TaskStructs, SameLink
<1> HIDE DEF t
<1>5. Mid(k, kt, p, {}, 0) /\ kt.task[p] = t
  BY <1>1, <1>3, <1>4, MidFirst, ZenonT(30)
<1> HIDE DEF kt
<1>6. TaskOK(t) /\ Queued(t)
  BY <1>1, <1>4 DEF TaskOK, SameLink, Queued, rt_task
<1>7. KeptBut(k, kt, p)
  BY <1>5, <1>6, MidKeptBut
<1> QED
  BY <1>2, <1>4, <1>5, <1>6, <1>7

-----------------------------------------------------------------------------
(* fork *)

\* A free task_struct is as a process is to be.
LEMMA FreeTaskOK ==
  ASSUME Disciplined
  PROVE  /\ FreeTask \in TaskStructs /\ FreeTask.prio \in Prio /\ ~Queued(FreeTask)
         /\ FreeTask.state = "FREE" /\ TaskOK(FreeTask)
<1>1. FreeTask \in TaskStructs /\ FreeTask.prio \in Prio
  BY FreeTaskType
<1>2. NICE_TO_PRIO(0) \in UserPrio
  BY NicePrioType
<1>3. /\ FreeTask.array = "NULL" /\ FreeTask.state = "FREE" /\ FreeTask.policy = "OTHER"
      /\ FreeTask.prio = NICE_TO_PRIO(0) /\ FreeTask.requested_time = 0
  BY DEF FreeTask
<1>4. ~rt_task(FreeTask)
  BY <1>2, <1>3, PrioAssumption DEF UserPrio, rt_task
<1>5. RequestTicks(0) <= MaxSlice
  <2>1. HZ \in Nat
    BY TimeAssumption
  <2>2. RequestTicks(0) = 0
    BY <2>1 DEF RequestTicks
  <2> QED
    BY <2>2, SliceBounds
<1>6. TaskOK(FreeTask)
  BY <1>3, <1>4, <1>5 DEF TaskOK, Queued
<1> QED
  BY <1>1, <1>3, <1>6 DEF Queued

\* The copy of current is not to be run before its slice is its own: its state is
\* UNINTERRUPTIBLE and it is on no runqueue (fork.c:612-655).
LEMMA DupKept ==
  ASSUME NEW k, KernelInv(k), k.rq.curr \in Task, NEW c \in Task, k.task[c].state = "FREE"
  PROVE  LET k2 == dup_task(k, c)
         IN  /\ KeptBut(k, k2, c) /\ ~Queued(k.task[c]) /\ ~Queued(k2.task[c])
             /\ k2.task[c].state = "UNINTERRUPTIBLE"
<1> DEFINE u == k.task[k.rq.curr]
           t == [u EXCEPT !.state = "UNINTERRUPTIBLE", !.array = "NULL"]
           k2 == [k EXCEPT !.task[c] = t]
<1>1. /\ k \in Kernels /\ u \in TaskStructs /\ u.prio \in Prio /\ TaskOK(u) /\ Queued(u)
      /\ TaskOK(k.task[c])
  BY SoundParts DEF KernelInv, Awake, AllTask
<1>2. ~Queued(k.task[c])
  BY <1>1 DEF TaskOK
<1>3. /\ t \in TaskStructs /\ t.prio = u.prio /\ t.policy = u.policy
      /\ t.state = "UNINTERRUPTIBLE" /\ t.array = "NULL"
      /\ t.requested_time = u.requested_time /\ t.time_slice = u.time_slice
  <2>1. t \in TaskStructs
    BY <1>1 DEF TaskStructs, States
  <2> QED
    BY <1>1, <2>1 DEF TaskStructs
<1>4. dup_task(k, c) = k2
  BY DEF dup_task
<1> HIDE DEF t, u
<1>5. TaskOK(t) /\ ~Queued(t)
  BY <1>1, <1>3 DEF TaskOK, Queued, rt_task
<1>6. KeptBut(k, k2, c) /\ k2.task[c] = t
  BY <1>1, <1>2, <1>3, <1>5, SetUnqueued
<1> QED
  BY <1>2, <1>3, <1>4, <1>5, <1>6
\* k2 is k but for the slices of p and c, m and n, and the budget of trials that
\* goes with them; c may become SHORT.
Shared(k, k2, p, c, m, n) ==
  /\ k2 \in Kernels /\ k2.rq = k.rq /\ k2.oops = k.oops
  /\ \A q \in AllTask \ {p, c} : k2.task[q] = k.task[q]
  /\ LET t  == k.task[p]
         t2 == k2.task[p]
     IN  /\ SameLink(t, t2) /\ t2.state = t.state /\ t2.static_prio = t.static_prio
         /\ t2.requested_time = t.requested_time /\ t2.time_slice = m
  /\ LET u  == k.task[c]
         u2 == k2.task[c]
     IN  /\ u2.state = u.state /\ u2.array = u.array /\ u2.prio = u.prio
         /\ u2.policy \in {u.policy, "SHORT"}
         /\ u2.requested_time = u.requested_time /\ u2.time_slice = n

\* The split of the slice: half for each, the odd tick for the child (fork.c:728-730).
LEMMA SplitSliceShared ==
  ASSUME NEW k \in Kernels, NEW p \in Task, NEW c \in Task, p # c, NEW n \in Nat,
         n = k.task[p].time_slice
  PROVE  Shared(k, split_slice(k, p, c), p, c, n \div 2, (n + 1) \div 2)
<1> DEFINE u  == [k.task[c] EXCEPT !.time_slice = (n + 1) \div 2, !.first_time_slice = TRUE]
           k1 == [k EXCEPT !.task[c] = u]
           t  == [k.task[p] EXCEPT !.time_slice = n \div 2]
           k2 == [k1 EXCEPT !.task[p].time_slice = n \div 2]
<1>1. split_slice(k, p, c) = k2
  BY DEF split_slice
<1>2. k2 \in Kernels
  BY <1>1, SplitSliceEvolves DEF Evolves
<1>3. /\ p \in AllTask /\ c \in AllTask /\ k.task \in [AllTask -> TaskStructs]
      /\ k.task[p] \in TaskStructs /\ k.task[c] \in TaskStructs
  BY KernelParts DEF AllTask
<1>4. k1 = [task |-> [k.task EXCEPT ![c] = u], rq |-> k.rq, oops |-> k.oops]
  BY <1>3, KernelParts DEF Kernels
<1>5. k2 = [task |-> [[k.task EXCEPT ![c] = u] EXCEPT ![p] = t], rq |-> k.rq, oops |-> k.oops]
  <2>1. [k.task EXCEPT ![c] = u][p] = k.task[p]
    BY <1>3
  <2> HIDE DEF u, k1
  <2> QED
    BY <1>3, <1>4, <2>1
<1>6. /\ k2.task[p] = t /\ k2.task[c] = u /\ k2.rq = k.rq /\ k2.oops = k.oops
      /\ \A q \in AllTask \ {p, c} : k2.task[q] = k.task[q]
  <2> HIDE DEF u, t, k1, k2
  <2> QED
    BY <1>3, <1>5
<1>7. /\ SameLink(k.task[p], t) /\ t.state = k.task[p].state
      /\ t.static_prio = k.task[p].static_prio
      /\ t.requested_time = k.task[p].requested_time /\ t.time_slice = n \div 2
  BY <1>3 DEF TaskStructs, SameLink
<1>8. /\ u.state = k.task[c].state /\ u.array = k.task[c].array /\ u.prio = k.task[c].prio
      /\ u.policy = k.task[c].policy /\ u.requested_time = k.task[c].requested_time
      /\ u.time_slice = (n + 1) \div 2
  BY <1>3 DEF TaskStructs
<1> HIDE DEF u, t, k1, k2
<1> QED
  BY <1>1, <1>2, <1>6, <1>7, <1>8 DEF Shared

\* One process is replaced, in a kernel whose slices are shared: p, whose link and
\* slice stay, or c, whose place stays.
LEMMA SharedSet ==
  ASSUME NEW k, NEW k1, NEW p \in Task, NEW c \in Task, p # c, NEW m, NEW n, NEW m2,
         Shared(k, k1, p, c, m, n), NEW k2 \in Kernels,
         NEW q \in {p, c}, NEW t, k2 = [k1 EXCEPT !.task[q] = t],
         q = p => /\ SameLink(k1.task[p], t) /\ t.state = k1.task[p].state
                  /\ t.static_prio = k1.task[p].static_prio
                  /\ t.requested_time = k1.task[p].requested_time /\ t.time_slice = m2,
         q = c => /\ t.state = k1.task[c].state /\ t.array = k1.task[c].array
                  /\ t.prio = k1.task[c].prio /\ t.time_slice = k1.task[c].time_slice
                  /\ t.policy \in {k1.task[c].policy, "SHORT"}
                  /\ t.requested_time = k1.task[c].requested_time /\ m2 = m
  PROVE  Shared(k, k2, p, c, m2, n)
<1>1. /\ k1 \in Kernels /\ k1.task \in [AllTask -> TaskStructs]
      /\ p \in AllTask /\ c \in AllTask /\ q \in AllTask
  BY KernelParts DEF Shared, AllTask
<1>2. k1 = [task |-> k1.task, rq |-> k1.rq, oops |-> k1.oops]
  BY <1>1, KernelParts
<1>3. k2 = [task |-> [k1.task EXCEPT ![q] = t], rq |-> k1.rq, oops |-> k1.oops]
  BY <1>1, <1>2
<1>4. /\ k2.rq = k1.rq /\ k2.oops = k1.oops /\ k2.task[q] = t
      /\ \A x \in AllTask \ {q} : k2.task[x] = k1.task[x]
  BY <1>1, <1>3
<1>5. CASE q = p
  <2>1. k2.task[c] = k1.task[c]
    BY <1>1, <1>4, <1>5
  <2> QED
    BY <1>4, <1>5, <2>1 DEF Shared, SameLink
<1>6. CASE q = c
  <2>1. k2.task[p] = k1.task[p]
    BY <1>1, <1>4, <1>6
  <2> QED
    BY <1>4, <1>6, <2>1 DEF Shared, SameLink
<1> QED
  BY <1>5, <1>6
\* The case of the parent alone: its slice is replaced, the rest of its link kept.
LEMMA SharedSetParent ==
  ASSUME NEW k, NEW k1, NEW p \in Task, NEW c \in Task, p # c, NEW m, NEW n, NEW m2,
         Shared(k, k1, p, c, m, n), NEW k2 \in Kernels,
         NEW t, k2 = [k1 EXCEPT !.task[p] = t],
         SameLink(k1.task[p], t), t.state = k1.task[p].state,
         t.static_prio = k1.task[p].static_prio,
         t.requested_time = k1.task[p].requested_time, t.time_slice = m2
  PROVE  Shared(k, k2, p, c, m2, n)
<1>1. /\ k1 \in Kernels /\ k1.task \in [AllTask -> TaskStructs]
      /\ p \in AllTask /\ c \in AllTask
  BY KernelParts DEF Shared, AllTask
<1>2. k1 = [task |-> k1.task, rq |-> k1.rq, oops |-> k1.oops]
  BY <1>1, KernelParts
<1>3. k2 = [task |-> [k1.task EXCEPT ![p] = t], rq |-> k1.rq, oops |-> k1.oops]
  BY <1>1, <1>2
<1>4. /\ k2.rq = k1.rq /\ k2.oops = k1.oops /\ k2.task[p] = t
      /\ \A x \in AllTask \ {p} : k2.task[x] = k1.task[x]
  BY <1>1, <1>3
<1>5. k2.task[c] = k1.task[c]
  BY <1>1, <1>4
<1> QED
  BY <1>4, <1>5 DEF Shared, SameLink
\* The split of the trials leaves the slices alone (fork.c:737-747).
LEMMA SplitTrialsShared ==
  ASSUME NEW k, NEW k1, NEW p \in Task, NEW c \in Task, p # c, NEW m, NEW n,
         Shared(k, k1, p, c, m, n)
  PROVE  Shared(k, split_trials(k1, p, c), p, c, m, n)
<1> DEFINE t  == k1.task[p]
           h  == (t.number_of_trials - t.current_trial + 1) \div 2
           u  == [k1.task[c] EXCEPT !.policy = "SHORT", !.number_of_trials = h,
                                    !.current_trial = 0, !.is_overdue = FALSE]
           w  == [k1.task[c] EXCEPT !.policy = "SHORT", !.is_overdue = TRUE]
           ku == [k1 EXCEPT !.task[c] = u]
           j  == ku.task[p].number_of_trials \div 2
           kw == [k1 EXCEPT !.task[c] = w]
           v  == [t EXCEPT !.number_of_trials = j]
           kv == [ku EXCEPT !.task[p].number_of_trials = j]
           k2 == split_trials(k1, p, c)
<1>1. /\ k1 \in Kernels /\ p \in AllTask /\ c \in AllTask
      /\ t \in TaskStructs /\ k1.task[c] \in TaskStructs
      /\ k1.task \in [AllTask -> TaskStructs]
  BY KernelParts DEF Shared, AllTask
<1>2. k2 = IF t.policy # "SHORT" THEN k1 ELSE IF t.is_overdue THEN kw ELSE kv
  BY DEF split_trials
<1>3. k2 \in Kernels
  BY <1>1, SplitTrialsEvolves DEF EvolvesBut
<1>4. CASE t.policy # "SHORT"
  BY <1>2, <1>4
<1>5. CASE t.policy = "SHORT" /\ t.is_overdue
  <2>1. /\ w.state = k1.task[c].state /\ w.array = k1.task[c].array
        /\ w.prio = k1.task[c].prio /\ w.time_slice = k1.task[c].time_slice
        /\ w.policy = "SHORT" /\ w.requested_time = k1.task[c].requested_time
    BY <1>1 DEF TaskStructs
  <2>2. k2 = [k1 EXCEPT !.task[c] = w]
    BY <1>2, <1>5
  <2> HIDE DEF w, k2, t
  <2> QED
    BY <1>3, <2>1, <2>2, SharedSet DEF k2
<1>6. CASE t.policy = "SHORT" /\ ~t.is_overdue
  <2>1. k2 = kv
    BY <1>2, <1>6
  <2>2. h \in Int
    BY <1>1, TaskFields
  <2>3. /\ u \in TaskStructs
        /\ u.state = k1.task[c].state /\ u.array = k1.task[c].array
        /\ u.prio = k1.task[c].prio /\ u.time_slice = k1.task[c].time_slice
        /\ u.policy = "SHORT" /\ u.requested_time = k1.task[c].requested_time
    <3> HIDE DEF h, t
    <3>1. u \in TaskStructs
      BY <1>1, <2>2 DEF TaskStructs, Policies
    <3> QED
      BY <1>1, <3>1 DEF TaskStructs
  <2> HIDE DEF u
  <2>4. ku \in Kernels
    <3>1. u.prio \in Prio
      BY <1>1, <2>3, KernelParts
    <3>2. EvolvesBut(k1, ku, c)
      BY <1>1, <2>3, <3>1, ReplaceTask
    <3> QED
      BY <3>2 DEF EvolvesBut
  <2>5. Shared(k, ku, p, c, m, n) /\ ku.task[p] = t
    <3>1. ku.task[p] = t
      BY <1>1
    <3> HIDE DEF t
    <3>2. Shared(k, ku, p, c, m, n)
      <4> DEFINE kc == ku
      <4>1. kc = [k1 EXCEPT !.task[c] = u]
        OBVIOUS
      <4> HIDE DEF kc, ku
      <4>2. kc \in Kernels
        BY <2>4 DEF kc
      <4>3. Shared(k, kc, p, c, m, n)
        BY <2>3, <4>1, <4>2, SharedSet
      <4> QED
        BY <4>3 DEF kc
    <3> QED
      BY <3>1, <3>2
  <2>6. kv = [ku EXCEPT !.task[p] = v]
    <3> HIDE DEF ku, t, j
    <3> QED
      BY <1>1, <2>4, <2>5 DEF Kernels
  <2> HIDE DEF ku, kv, k2, j
  <2>7. /\ SameLink(ku.task[p], v) /\ v.state = ku.task[p].state
        /\ v.static_prio = ku.task[p].static_prio
        /\ v.requested_time = ku.task[p].requested_time
        /\ v.time_slice = ku.task[p].time_slice
    BY <1>1, <2>5 DEF TaskStructs, SameLink
  <2>8. ku.task[p].time_slice = m
    BY <2>5 DEF Shared
  <2> HIDE DEF v, t
  <2>9. Shared(k, kv, p, c, m, n)
    <3>1. kv \in Kernels /\ p \in {p, c}
      BY <1>3, <2>1
    <3> QED
      BY <2>5, <2>6, <2>7, <2>8, <3>1, SharedSet
  <2> QED
    BY <2>1, <2>9 DEF k2
<1> QED
  BY <1>4, <1>5, <1>6

\* Sharing keeps everything, once both have a slice.
LEMMA SharedKept ==
  ASSUME NEW k, KernelInv(k), NEW k2, NEW p \in Task, NEW c \in Task, p # c,
         Queued(k.task[p]), ~Queued(k.task[c]), k.task[c].state # "FREE",
         NEW m \in 1 .. MaxSlice, NEW n \in 1 .. MaxSlice, Shared(k, k2, p, c, m, n)
  PROVE  Kept(k, k2)
<1>1. /\ k.oops = "none" /\ p \in AllTask /\ c \in AllTask /\ TaskOK(k.task[p])
      /\ TaskOK(k.task[c]) /\ Sound(k, {c}, 0)
  BY SoundInHand DEF KernelInv, Sound, AllTask
<1>2. /\ k2 \in Kernels /\ k2.rq = k.rq /\ k2.oops = "none"
      /\ \A q \in AllTask \ {p, c} : k2.task[q] = k.task[q]
  BY <1>1 DEF Shared
<1>3. ~Queued(k2.task[c]) /\ SameSleep(k.task[c], k2.task[c]) /\ TaskOK(k2.task[c])
  BY <1>1 DEF Shared, Queued, SameSleep, TaskOK, rt_task
<1>4. /\ SameLink(k.task[p], k2.task[p]) /\ SameSleep(k.task[p], k2.task[p])
      /\ TaskOK(k2.task[p])
  BY <1>1 DEF Shared, Queued, SameSleep, SameLink, TaskOK, rt_task
<1>5. Sound(k2, {}, 0)
  <2>1. \A q \in Task \ {c} : SameLink(k.task[q], k2.task[q])
    BY <1>2, <1>4 DEF SameLink, AllTask
  <2>2. Sound(k2, {c}, 0)
    BY <1>1, <1>2, <2>1, SoundSame
  <2> QED
    BY <1>3, <2>2, SoundInHand
<1>6. \A q \in AllTask : SameSleep(k.task[q], k2.task[q])
  BY <1>2, <1>3, <1>4 DEF SameSleep
<1>7. \A q \in Task : TaskOK(k2.task[q])
  BY <1>2, <1>3, <1>4 DEF KernelInv, AllTask
<1>8. Awake(k2) /\ k2.task[Idle].state = "RUNNING"
  BY <1>2, <1>6 DEF KernelInv, Awake, SameSleep, AllTask
<1> QED
  BY <1>2, <1>5, <1>6, <1>7, <1>8 DEF Kept, KernelInv

\* The halves of a slice.
LEMMA HalvesBound ==
  ASSUME Disciplined, NEW n \in 1 .. MaxSlice
  PROVE  /\ n \div 2 \in 0 .. MaxSlice /\ (n + 1) \div 2 \in 1 .. MaxSlice
         /\ 1 \in 1 .. MaxSlice /\ 1 \in 0 .. UINT - 1
BY SliceBounds

\* do_fork shares the slice, with a tick for a parent that is left without
\* (fork.c:724-763).
LEMMA ShareKept ==
  ASSUME Disciplined, NEW k, KernelInv(k), NEW p \in Task, p = k.rq.curr, NEW c \in Task,
         ~Queued(k.task[c]), k.task[c].state = "UNINTERRUPTIBLE",
         NEW prio \in TickPrios(k.task[p]), NEW starving \in BOOLEAN
  PROVE  Kept(k, share_timeslice(k, c, prio, starving))
<1> DEFINE n  == k.task[p].time_slice
           ks == split_slice(k, p, c)
           k1 == split_trials(ks, p, c)
           k2 == [k1 EXCEPT !.task[p].time_slice = 1]
           k3 == scheduler_tick(k2, prio, starving)
           m  == n \div 2
           cn == (n + 1) \div 2
<1>1. /\ k \in Kernels /\ Queued(k.task[p]) /\ k.task[p].state # "FREE"
      /\ n \in 1 .. MaxSlice /\ p # c /\ k.task[p] \in TaskStructs
  BY SoundParts DEF KernelInv, Awake, TaskOK, AllTask
<1>2. share_timeslice(k, c, prio, starving) = IF k1.task[p].time_slice > 0 THEN k1 ELSE k3
  <2>1. n # 0
    BY <1>1, SliceBounds
  <2> QED
    BY <2>1 DEF share_timeslice
<1>3. m \in 0 .. MaxSlice /\ cn \in 1 .. MaxSlice /\ 1 \in 1 .. MaxSlice /\ 1 \in 0 .. UINT - 1
  BY <1>1, HalvesBound
<1>4. Shared(k, ks, p, c, m, cn)
  <2>1. n \in Nat
    BY <1>1, TaskFields
  <2> QED
    BY <1>1, <2>1, SplitSliceShared
<1> HIDE DEF ks, n, m, cn
<1>5. Shared(k, k1, p, c, m, cn)
  BY <1>1, <1>4, SplitTrialsShared
<1> HIDE DEF k1
<1>6. k1.task[p].time_slice = m /\ k1 \in Kernels /\ k1.task[p] \in TaskStructs
  BY <1>5, KernelParts DEF Shared, AllTask
<1>7. CASE k1.task[p].time_slice > 0
  <2>1. m \in 1 .. MaxSlice
    BY <1>3, <1>6, <1>7, SliceBounds
  <2>2. Kept(k, k1)
    BY <1>1, <1>3, <1>5, <2>1, SharedKept
  <2> QED
    BY <1>2, <1>7, <2>2
<1>8. CASE ~(k1.task[p].time_slice > 0)
  <2> DEFINE t == [k1.task[p] EXCEPT !.time_slice = 1]
  <2>1. k2 = [k1 EXCEPT !.task[p] = t]
    BY <1>6 DEF Kernels
  <2>2. t \in TaskStructs
    BY <1>3, <1>6, SetField
  <2>3. /\ SameLink(k1.task[p], t) /\ t.state = k1.task[p].state /\ t.time_slice = 1
        /\ t.static_prio = k1.task[p].static_prio
        /\ t.requested_time = k1.task[p].requested_time /\ t.prio = k1.task[p].prio
    BY <1>6, <2>2 DEF TaskStructs, SameLink
  <2> HIDE DEF t, k2
  <2>4. k2 \in Kernels
    <3> DEFINE kt == [k1 EXCEPT !.task[p] = t]
    <3>1. t.prio \in Prio
      BY <1>6, <2>3, KernelParts
    <3>2. EvolvesBut(k1, kt, p)
      BY <1>6, <2>2, <3>1, ReplaceTask DEF AllTask
    <3> QED
      BY <2>1, <3>2 DEF EvolvesBut
  <2>5. Shared(k, k2, p, c, 1, cn)
    <3>1. p # c
      BY <1>1
    <3> QED
      BY <1>5, <2>1, <2>3, <2>4, <3>1, SharedSetParent
  <2>6. Kept(k, k2)
    BY <1>1, <1>3, <2>5, SharedKept
  <2>7. prio \in TickPrios(k2.task[p]) /\ k2.rq.curr = p
    <3>1. /\ SameLink(k.task[p], k2.task[p]) /\ k2.rq = k.rq
          /\ k2.task[p].static_prio = k.task[p].static_prio
      BY <2>5 DEF Shared
    <3>2. effective_prio(k2.task[p]) = effective_prio(k.task[p])
      BY <3>1 DEF SameLink, effective_prio
    <3> QED
      BY <3>1, <3>2 DEF SameLink, TickPrios, rt_task
  <2>8. Kept(k2, k3)
    BY <2>6, <2>7, TickKept DEF Kept
  <2>9. Kept(k, k3)
    BY <2>6, <2>8, KeptTrans
  <2> QED
    BY <1>2, <1>8, <2>9
<1> QED
  BY <1>7, <1>8
\* A priority given on a wake-up or a fork is of the class of the policy
\* (sched.c:356-370, 531-540).
LEMMA WakePrioClass ==
  ASSUME NEW t \in TaskStructs, t.prio \in Prio, TaskOK(t),
         NEW prio \in WakePrios(t) \cup ForkedPrios(t)
  PROVE  /\ prio \in Prio
         /\ t.policy # "SHORT" => (t.policy = "OTHER" <=> ~(prio < MAX_RT_PRIO))
<1>1. prio = t.prio \/ (~rt_task(t) /\ prio \in effective_prio(t))
  BY DEF WakePrios, ForkedPrios
<1>2. effective_prio(t) \subseteq UserPrio /\ UserPrio \subseteq Prio
  BY TaskFields, EffectiveUser, NicePrioType
<1>3. \A n \in UserPrio : ~(n < MAX_RT_PRIO)
  BY PrioAssumption DEF UserPrio
<1> QED
  BY <1>1, <1>2, <1>3 DEF TaskOK, rt_task

\* Where an operation on p starts: nothing is touched yet, and a process that is off
\* the runqueue counts as in hand.
LEMMA MidStart ==
  ASSUME NEW k, Sound(k, {}, 0), NEW p \in Task
  PROVE  /\ Mid(k, k, p, {}, 0)
         /\ ~Queued(k.task[p]) => Mid(k, k, p, {p}, 0)
BY MidRefl, SoundInHand

\* A SHORT parent is requeued behind its child, with its new slice (sched.c:510-545).
LEMMA RequeueParent ==
  ASSUME NEW k, Sound(k, {}, 0), NEW p \in Task, NEW prio \in Prio,
         Queued(k.task[p]), k.task[p].state = "RUNNING"
  PROVE  LET k2 == activate_task(deactivate_task(k, p), p, prio)
         IN  Mid(k, k2, p, {}, 0) /\ Activated(k.task[p], k2.task[p], prio)
<1> DEFINE k1 == deactivate_task(k, p)
           k2 == activate_task(k1, p, prio)
<1>1. Mid(k, k, p, {}, 0) /\ k.task[p] \in TaskStructs
  BY MidStart, SoundParts DEF AllTask
<1>2. Mid(k, k1, p, {p}, 0) /\ k1.task[p] = [k.task[p] EXCEPT !.array = "NULL"]
  BY <1>1, MidDeactivate
<1> HIDE DEF k1
<1>3. Mid(k, k2, p, {}, 0) /\ Activated(k1.task[p], k2.task[p], prio)
  BY <1>2, MidActivate
<1> HIDE DEF k2
<1>4. Activated(k.task[p], k2.task[p], prio)
  BY <1>1, <1>2, <1>3 DEF Activated, TaskStructs
<1> QED
  BY <1>3, <1>4 DEF k1, k2

\* do_fork's end: the child gets its parent, is woken, and current is to give way
\* (fork.c:765-821, sched.c:510-545).
LEMMA ForkWakeKept ==
  ASSUME Disciplined, NEW k, KernelInv(k), NEW p \in Task, p = k.rq.curr,
         k.task[p].state = "RUNNING", NEW c \in Task,
         ~Queued(k.task[c]), k.task[c].state = "UNINTERRUPTIBLE",
         NEW pprio \in WakePrios(k.task[p]), NEW cprio \in ForkedPrios(k.task[c])
  PROVE  LET k0 == [k EXCEPT !.task[c].parent = p]
             k2 == resched_task(wake_up_forked_process(k0, c, pprio, cprio), p)
         IN  KeptBut(k, k2, c) /\ Queued(k2.task[c])
<1> DEFINE k0 == [k EXCEPT !.task[c].parent = p]
           u  == [[k.task[c] EXCEPT !.parent = p] EXCEPT !.state = "RUNNING"]
           k1 == [k0 EXCEPT !.task[c].state = "RUNNING"]
           kr == activate_task(deactivate_task(k1, p), p, pprio)
           k2 == IF k0.task[c].policy # "SHORT" THEN k1 ELSE kr
           k3 == activate_task(k2, c, cprio)
           k4 == resched_task(k3, p)
<1>1. /\ k \in Kernels /\ Queued(k.task[p]) /\ p # c /\ p \in AllTask /\ c \in AllTask
      /\ k.task[p] \in TaskStructs /\ k.task[c] \in TaskStructs
      /\ k.task[p].prio \in Prio /\ k.task[c].prio \in Prio
      /\ TaskOK(k.task[p]) /\ TaskOK(k.task[c]) /\ Sound(k, {}, 0) /\ Sound(k, {c}, 0)
      /\ k.task \in [AllTask -> TaskStructs]
  BY SoundParts, SoundInHand DEF KernelInv, Awake, AllTask
<1>2. /\ pprio \in Prio /\ cprio \in Prio
      /\ k.task[p].policy # "SHORT" =>
           (k.task[p].policy = "OTHER" <=> ~(pprio < MAX_RT_PRIO))
      /\ k.task[c].policy # "SHORT" =>
           (k.task[c].policy = "OTHER" <=> ~(cprio < MAX_RT_PRIO))
  BY <1>1, WakePrioClass
<1>3. k0.rq = k.rq /\ wake_up_forked_process(k0, c, pprio, cprio) = k3
  BY <1>1 DEF wake_up_forked_process, Kernels
<1>4. k1 = [k EXCEPT !.task[c] = u]
  BY <1>1 DEF Kernels
<1>5. /\ u \in TaskStructs /\ u.prio = k.task[c].prio /\ u.policy = k.task[c].policy
      /\ u.state = "RUNNING" /\ u.array = k.task[c].array
      /\ u.time_slice = k.task[c].time_slice
      /\ u.requested_time = k.task[c].requested_time /\ u.is_overdue = k.task[c].is_overdue
  <2>1. u \in TaskStructs
    BY <1>1 DEF TaskStructs, States
  <2> QED
    BY <1>1, <2>1 DEF TaskStructs
<1> HIDE DEF u, k0, k1
<1>6. /\ Sound(k1, {}, 0) /\ k1.rq = k.rq /\ k1.task[c] = u
      /\ \A q \in AllTask \ {c} : k1.task[q] = k.task[q]
  <2>1. SameLink(k.task[c], u)
    BY <1>5 DEF SameLink
  <2> DEFINE ku == [k EXCEPT !.task[c] = u]
  <2>2. Sound(ku, {}, 0) /\ ku.rq = k.rq /\ ku.task = [k.task EXCEPT ![c] = u]
    BY <1>1, <1>5, <2>1, SoundSetTask
  <2> HIDE DEF ku, u
  <2>3. k1 = ku
    BY <1>4 DEF ku
  <2> QED
    BY <1>1, <2>2, <2>3
<1>7. /\ Mid(k1, k2, p, {}, 0) /\ Queued(k2.task[p]) /\ TaskOK(k2.task[p])
      /\ k2.task[p].state = "RUNNING"
  <2>1. k1.task[p] = k.task[p]
    BY <1>1, <1>6
  <2>2. CASE k2 = k1
    <3> HIDE DEF k2
    <3> QED
      BY <1>1, <1>6, <2>1, <2>2, MidStart
  <2>3. CASE k2 = kr
    <3>1. Mid(k1, kr, p, {}, 0) /\ Activated(k1.task[p], kr.task[p], pprio)
      BY <1>1, <1>2, <1>6, <2>1, RequeueParent
    <3> HIDE DEF k2, kr
    <3>2. TaskOK(kr.task[p])
      BY <1>1, <1>2, <2>1, <3>1 DEF Activated, TaskOK, rt_task
    <3> QED
      BY <2>1, <2>3, <3>1, <3>2 DEF Activated
  <2> QED
    BY <2>2, <2>3
<1> HIDE DEF k2
<1>8. /\ Sound(k2, {}, 0) /\ Alike(u, k2.task[c])
      /\ \A q \in AllTask \ {p, c} : Alike(k.task[q], k2.task[q])
  BY <1>1, <1>6, <1>7 DEF Mid, Others
<1>9. ~Queued(k2.task[c])
  BY <1>5, <1>8 DEF Alike, SameLink, Queued
<1>10. Mid(k2, k3, c, {}, 0) /\ Activated(k2.task[c], k3.task[c], cprio)
  <2>1. Mid(k2, k2, c, {c}, 0)
    BY <1>8, <1>9, MidStart
  <2> QED
    BY <1>2, <2>1, MidActivate
<1> HIDE DEF k3
<1>11. Mid(k2, k4, c, {}, 0) /\ Alike(k3.task[c], k4.task[c])
  BY <1>1, <1>10, MidResched
<1> HIDE DEF k4
<1>12. /\ Sound(k4, {}, 0) /\ k4.rq.curr = k.rq.curr
       /\ k4.rq.nr_uninterruptible = k.rq.nr_uninterruptible
       /\ \A q \in AllTask \ {c} : Alike(k2.task[q], k4.task[q])
  BY <1>6, <1>7, <1>11 DEF Mid, SameRq, SameRqBut, Others
<1>13. \A q \in AllTask \ {p, c} : Alike(k.task[q], k4.task[q])
  BY <1>8, <1>12, AlikeTrans
<1>14. SameSleep(k.task[p], k4.task[p]) /\ TaskOK(k4.task[p])
  <2>1. Alike(k2.task[p], k4.task[p])
    BY <1>1, <1>12
  <2> QED
    <3>1. SameSleep(k2.task[p], k4.task[p])
      BY <2>1, AlikeSleep
    <3>2. TaskOK(k4.task[p])
      BY <1>7, <2>1, AlikeOK
    <3> QED
      BY <1>1, <1>7, <3>1, <3>2 DEF SameSleep
<1>15. Queued(k4.task[c]) /\ k4.task[c].state = "RUNNING" /\ TaskOK(k4.task[c])
  <2>1. /\ Queued(k3.task[c]) /\ k3.task[c].state = "RUNNING" /\ k3.task[c].prio = cprio
        /\ k3.task[c].policy = k.task[c].policy
        /\ k3.task[c].time_slice = k.task[c].time_slice
        /\ k3.task[c].requested_time = k.task[c].requested_time
    BY <1>5, <1>8, <1>10 DEF Activated, Alike, SameLink
  <2>2. TaskOK(k3.task[c])
    BY <1>1, <1>2, <2>1 DEF TaskOK, rt_task
  <2> QED
    BY <1>11, <2>1, <2>2, AlikeOK DEF Alike, SameLink, Queued
<1>16. \A q \in AllTask \ {c} : SameSleep(k.task[q], k4.task[q])
  BY <1>13, <1>14, AlikeSleep
<1>17. \A q \in Task : TaskOK(k4.task[q])
  BY <1>13, <1>14, <1>15, AlikeOK DEF KernelInv, AllTask
<1>18. Awake(k4)
  BY <1>12, <1>15, <1>16 DEF KernelInv, Awake, SameSleep, AllTask
<1>19. k4.task[Idle].state = "RUNNING"
  BY <1>16, IdleAssumption DEF KernelInv, SameSleep, AllTask
<1>20. KeptBut(k, k4, c) /\ Queued(k4.task[c])
  BY <1>12, <1>15, <1>16, <1>17, <1>18, <1>19 DEF KernelInv, KeptBut
<1> QED
  BY <1>3, <1>20 DEF k0, k4
-----------------------------------------------------------------------------
(* Wake-ups, exit and wait4 *)

\* try_to_wake_up keeps the invariant, and leaves the process running and queued
\* (sched.c:459-503).
Woken(k, k2, p) ==
  /\ KernelInv(k2) /\ k2.rq.curr = k.rq.curr
  /\ Queued(k2.task[p]) /\ k2.task[p].state = "RUNNING"
  /\ k2.rq.nr_uninterruptible = IF ~Queued(k.task[p]) /\ k.task[p].state = "UNINTERRUPTIBLE"
                                THEN k.rq.nr_uninterruptible - 1
                                ELSE k.rq.nr_uninterruptible
  /\ \A q \in AllTask \ {p} : SameSleep(k.task[q], k2.task[q])

\* The task_struct of a woken process is as a process is to be.
LEMMA WokenOK ==
  ASSUME NEW t \in TaskStructs, t.prio \in Prio, TaskOK(t), t.state # "FREE",
         NEW prio \in WakePrios(t), NEW u,
         u.state = "RUNNING", u.policy = t.policy, u.prio \in {prio, t.prio},
         u.time_slice = t.time_slice, u.requested_time = t.requested_time
  PROVE  TaskOK(u)
<1>1. t.policy # "SHORT" => (t.policy = "OTHER" <=> ~(prio < MAX_RT_PRIO))
  BY WakePrioClass
<1> QED
  BY <1>1 DEF TaskOK, rt_task

\* What SoundWake says of the woken process, one field at a time.
LEMMA WokenFields ==
  ASSUME NEW u \in TaskStructs, NEW t \in TaskStructs,
         Alike([u EXCEPT !.state = "RUNNING", !.array = t.array, !.prio = t.prio], t)
  PROVE  /\ t.state = "RUNNING" /\ t.policy = u.policy
         /\ t.time_slice = u.time_slice /\ t.requested_time = u.requested_time
BY DEF Alike, SameLink, TaskStructs

\* A wake-up of a process that is not free.
LEMMA WakeKeeps ==
  ASSUME NEW k, KernelInv(k), NEW p \in Task, k.task[p].state # "FREE",
         NEW prio \in WakePrios(k.task[p])
  PROVE  Woken(k, try_to_wake_up(k, p, prio), p)
<1> DEFINE k2 == try_to_wake_up(k, p, prio)
           m  == IF ~Queued(k.task[p]) /\ k.task[p].state = "UNINTERRUPTIBLE"
                 THEN k.rq.nr_uninterruptible - 1 ELSE k.rq.nr_uninterruptible
<1>1. /\ Sound(k, {}, 0) /\ k.task[p] \in TaskStructs /\ k.task[p].prio \in Prio
      /\ TaskOK(k.task[p])
  BY SoundParts DEF KernelInv, AllTask
<1>2. prio \in Prio
  BY <1>1, WakePrioClass
<1>3. /\ Sound(k2, {}, 0) /\ SameRqBut(k.rq, k2.rq, m) /\ Others(k, k2, p)
      /\ \E t \in TaskStructs :
           /\ Alike([k.task[p] EXCEPT !.state = "RUNNING", !.array = t.array,
                                      !.prio = t.prio], t)
           /\ k2.task[p] = t /\ Queued(t) /\ t.prio \in {prio, k.task[p].prio}
           /\ Queued(k.task[p]) => t.prio = k.task[p].prio
  BY <1>1, <1>2, SoundWake
<1> HIDE DEF k2
<1>4. PICK t \in TaskStructs :
        /\ Alike([k.task[p] EXCEPT !.state = "RUNNING", !.array = t.array,
                                   !.prio = t.prio], t)
        /\ k2.task[p] = t /\ Queued(t) /\ t.prio \in {prio, k.task[p].prio}
  BY <1>3
<1>5. /\ t.state = "RUNNING" /\ t.policy = k.task[p].policy
      /\ t.time_slice = k.task[p].time_slice
      /\ t.requested_time = k.task[p].requested_time
  BY <1>1, <1>4, WokenFields
<1>6. TaskOK(k2.task[p])
  BY <1>1, <1>4, <1>5, WokenOK
<1>7. \A q \in AllTask \ {p} : SameSleep(k.task[q], k2.task[q])
  BY <1>3, AlikeSleep DEF Others
<1>8. \A q \in Task : TaskOK(k2.task[q])
  BY <1>3, <1>6, AlikeOK DEF KernelInv, Others, AllTask
<1>9. k2.rq.curr = k.rq.curr /\ k2.rq.nr_uninterruptible = m
  BY <1>3 DEF SameRqBut
<1>10. Awake(k2)
  BY <1>4, <1>5, <1>7, <1>9 DEF KernelInv, Awake, SameSleep, AllTask
<1>11. k2.task[Idle].state = "RUNNING"
  BY <1>7, IdleAssumption DEF KernelInv, SameSleep, AllTask
<1>12. Woken(k, k2, p)
  BY <1>3, <1>4, <1>5, <1>7, <1>8, <1>9, <1>10, <1>11 DEF Woken, KernelInv
<1> QED
  BY <1>12 DEF k2

\* A sleeper that is woken is no longer counted; a process that was woken before it
\* had left the runqueue never was (sched.c:470-485).
LEMMA WokenCounted ==
  ASSUME NEW k, NEW k2, NEW p \in Task, Woken(k, k2, p), NEW E, p \notin E, Counted(k, E)
  PROVE  Counted(k2, E)
<1>1. p \notin Asleep(k2, E)
  BY DEF Woken, Asleep
<1>2. \A q \in Task \ {p} : SameSleep(k.task[q], k2.task[q]) /\ SameSleep(k2.task[q], k.task[q])
  BY DEF Woken, SameSleep, AllTask
<1>3. CASE p \in Asleep(k, E)
  <2>1. /\ Cardinality(Asleep(k2, E)) \in Nat
        /\ Cardinality(Asleep(k, E)) = Cardinality(Asleep(k2, E)) + 1
    BY <1>1, <1>2, <1>3, CountMore
  <2>2. k2.rq.nr_uninterruptible = k.rq.nr_uninterruptible - 1
    BY <1>3 DEF Woken, Asleep
  <2> QED
    BY <2>1, <2>2 DEF Counted
<1>4. CASE p \notin Asleep(k, E)
  <2>1. Asleep(k2, E) = Asleep(k, E)
    <3>1. ASSUME NEW q \in Task PROVE q \in Asleep(k, E) <=> q \in Asleep(k2, E)
      BY <1>1, <1>2, <1>4 DEF Asleep, SameSleep
    <3> QED
      BY <3>1 DEF Asleep
  <2>2. k2.rq.nr_uninterruptible = k.rq.nr_uninterruptible
    BY <1>4 DEF Woken, Asleep
  <2> QED
    BY <2>1, <2>2 DEF Counted
<1> QED
  BY <1>3, <1>4

\* What forget_original_parent leaves of a task_struct.
LEMMA ForgetAlike ==
  ASSUME NEW k \in Kernels, NEW p \in Task
  PROVE  LET k2 == forget_original_parent(k, p)
         IN  /\ k2.rq = k.rq /\ k2.oops = k.oops
             /\ \A q \in AllTask : /\ Alike(k.task[q], k2.task[q])
                                   /\ k2.task[q].static_prio = k.task[q].static_prio
<1> DEFINE k2 == forget_original_parent(k, p)
<1>1. k2.rq = k.rq /\ k2.oops = k.oops
  BY DEF forget_original_parent, Kernels
<1>2. ASSUME NEW q \in AllTask
      PROVE  k2.task[q] \in {k.task[q], [k.task[q] EXCEPT !.parent = Reaper,
                                                        !.first_time_slice = FALSE]}
  BY DEF forget_original_parent, Kernels
<1>3. ASSUME NEW t \in TaskStructs
      PROVE  LET u == [t EXCEPT !.parent = Reaper, !.first_time_slice = FALSE]
             IN  Alike(t, u) /\ u.static_prio = t.static_prio
  BY DEF Alike, SameLink, TaskStructs
<1> HIDE DEF k2
<1>4. ASSUME NEW q \in AllTask
      PROVE  Alike(k.task[q], k2.task[q]) /\ k2.task[q].static_prio = k.task[q].static_prio
  <2>1. k.task[q] \in TaskStructs
    BY KernelParts
  <2> QED
    BY <1>2, <1>3, <2>1 DEF Alike, SameLink
<1> QED
  BY <1>1, <1>4 DEF k2

\* exit_notify gives the children away and makes current a zombie that still runs
\* (exit.c:394-530).
LEMMA ZombieKept ==
  ASSUME NEW k, KernelInv(k), NEW p \in Task, p = k.rq.curr
  PROVE  LET k2 == [forget_original_parent(k, p) EXCEPT !.task[p].state = "ZOMBIE"]
         IN  /\ KeptBut(k, k2, p) /\ k2.task[p].state = "ZOMBIE" /\ Queued(k2.task[p])
             /\ \A q \in Task \ {p} : WakePrios(k2.task[q]) = WakePrios(k.task[q])
<1> DEFINE k1 == forget_original_parent(k, p)
           t  == [k1.task[p] EXCEPT !.state = "ZOMBIE"]
           k2 == [k1 EXCEPT !.task[p] = t]
<1>1. /\ k \in Kernels /\ Sound(k, {}, 0) /\ p \in AllTask /\ Queued(k.task[p])
      /\ k.oops = "none"
  BY SoundParts DEF KernelInv, Awake, AllTask
<1>2. k1 \in Kernels
  BY <1>1, ForgetEvolves DEF Evolves
<1>3. /\ k1.rq = k.rq /\ k1.oops = "none"
      /\ \A q \in AllTask : /\ Alike(k.task[q], k1.task[q])
                            /\ k1.task[q].static_prio = k.task[q].static_prio
  BY <1>1, ForgetAlike
<1> HIDE DEF k1
<1>4. [k1 EXCEPT !.task[p].state = "ZOMBIE"] = k2
  BY <1>2 DEF Kernels
<1>5. Sound(k1, {}, 0)
  <2>1. \A q \in Task \ {} : SameLink(k.task[q], k1.task[q])
    BY <1>3 DEF Alike, AllTask
  <2> QED
    BY <1>1, <1>2, <1>3, <2>1, SoundSame
<1>6. k1.task[p] \in TaskStructs /\ k1.task[p].prio \in Prio
  BY <1>1, <1>2, KernelParts
<1>7. /\ t \in TaskStructs /\ t.prio = k1.task[p].prio /\ SameLink(k1.task[p], t)
      /\ t.state = "ZOMBIE" /\ t.requested_time = k1.task[p].requested_time
      /\ t.time_slice = k1.task[p].time_slice
  <2>1. t \in TaskStructs
    BY <1>6, SetField DEF States
  <2> QED
    BY <1>6, <2>1 DEF TaskStructs, SameLink
<1> HIDE DEF t
<1>8. Mid(k1, k2, p, {}, 0) /\ k2.task[p] = t
  BY <1>5, <1>6, <1>7, MidFirst
<1>9. \A q \in AllTask \ {p} : k2.task[q] = k1.task[q]
  BY <1>1, <1>2, KernelParts DEF Kernels
<1> HIDE DEF k2
<1>10. Mid(k, k2, p, {}, 0)
  <2>1. \A q \in AllTask \ {p} : Alike(k.task[q], k2.task[q])
    BY <1>3, <1>9
  <2> QED
    BY <1>3, <1>8, <2>1 DEF Mid, Others, SameRq, SameRqBut
<1>11. TaskOK(t) /\ Queued(t)
  <2>1. TaskOK(k1.task[p]) /\ Queued(k1.task[p]) /\ k1.task[p].state # "FREE"
    <3>1. TaskOK(k.task[p]) /\ k.task[p].state # "FREE"
      BY <1>1 DEF KernelInv, TaskOK
    <3> QED
      BY <1>1, <1>3, <3>1, AlikeOK DEF Alike, SameLink, Queued
  <2> QED
    BY <1>7, <2>1 DEF TaskOK, SameLink, Queued, rt_task
<1>12. KeptBut(k, k2, p)
  BY <1>8, <1>10, <1>11, MidKeptBut
<1>13. ASSUME NEW q \in Task \ {p} PROVE WakePrios(k2.task[q]) = WakePrios(k.task[q])
  <2>1. /\ Alike(k.task[q], k2.task[q])
        /\ k2.task[q].static_prio = k.task[q].static_prio
    BY <1>3, <1>9 DEF AllTask
  <2>2. effective_prio(k2.task[q]) = effective_prio(k.task[q])
    BY <2>1 DEF Alike, SameLink, effective_prio
  <2> QED
    BY <2>1, <2>2 DEF Alike, SameLink, WakePrios, rt_task
<1> QED
  BY <1>4, <1>7, <1>8, <1>11, <1>12, <1>13 DEF k1

\* current takes back the slice it gave to the zombie, which is freed
\* (exit.c:29-47, sched.c:547-572).
LEMMA ReapKept ==
  ASSUME Disciplined, NEW k, KernelInv(k), k.rq.curr \in Task, NEW c \in Task,
         c # k.rq.curr, k.task[c].state = "ZOMBIE"
  PROVE  LET k2 == release_task(k, c)
         IN  /\ KeptBut(k, k2, c) /\ k2.task[c].state = "FREE"
             /\ ~Queued(k.task[c]) /\ ~Queued(k2.task[c])
<1> DEFINE p   == k.rq.curr
           sum == (k.task[p].time_slice + k.task[c].time_slice) % UINT
           n   == IF sum > MAX_TIMESLICE THEN MAX_TIMESLICE ELSE sum
           t   == [k.task[p] EXCEPT !.time_slice = n]
           k1  == sched_exit(k, c)
           k2  == [k1 EXCEPT !.task[c] = FreeTask]
<1>1. /\ k \in Kernels /\ Sound(k, {}, 0) /\ p \in AllTask /\ Queued(k.task[p])
      /\ k.task[p] \in TaskStructs /\ k.task[p].prio \in Prio /\ TaskOK(k.task[p])
      /\ TaskOK(k.task[c]) /\ ~Queued(k.task[c]) /\ k.task[c] \in TaskStructs
  BY SoundParts DEF KernelInv, Awake, AllTask
<1>2. Kept(k, k1)
  <2>1. CASE ~k.task[c].first_time_slice
    <3>1. k1 = k
      BY <2>1 DEF sched_exit
    <3> HIDE DEF k1
    <3> QED
      BY <3>1, KeptRefl
  <2>2. CASE k.task[c].first_time_slice
    <3>1. /\ k.task[p].time_slice \in 1 .. MaxSlice
          /\ k.task[c].time_slice \in 1 .. MaxSlice
      BY <1>1 DEF TaskOK
    <3>2. sum \in 1 .. 2 * MaxSlice
      <4>1. k.task[p].time_slice + k.task[c].time_slice \in 1 .. UINT - 1
        BY <3>1, SliceBounds
      <4>2. \A x \in 1 .. UINT - 1 : x % UINT = x
        BY SliceBounds
      <4> QED
        BY <3>1, <4>1, <4>2, SliceBounds
    <3>3. n \in 1 .. MaxSlice /\ n \in 0 .. UINT - 1
      <4> HIDE DEF sum
      <4> QED
        BY <3>2, SliceBounds
    <3>4. k1 = [k EXCEPT !.task[p].time_slice = n]
      BY <2>2 DEF sched_exit
    <3> HIDE DEF k1, n
    <3>5. k1 = [k EXCEPT !.task[p] = t]
      BY <1>1, <3>4 DEF Kernels
    <3>6. t \in TaskStructs
      BY <1>1, <3>3, SetField
    <3>7. /\ SameLink(k.task[p], t) /\ t.prio = k.task[p].prio
          /\ t.time_slice = n /\ t.state = k.task[p].state /\ t.policy = k.task[p].policy
          /\ t.requested_time = k.task[p].requested_time
      BY <1>1, <3>6 DEF TaskStructs, SameLink
    <3> HIDE DEF t
    <3>8. Mid(k, k1, p, {}, 0) /\ k1.task[p] = t
      <4> DEFINE kt == [k EXCEPT !.task[p] = t]
      <4>1. Mid(k, kt, p, {}, 0) /\ kt.task[p] = t
        BY <1>1, <3>6, <3>7, MidFirst
      <4> QED
        BY <3>5, <4>1
    <3>9. TaskOK(t) /\ SameSleep(k.task[p], t)
      <4>1. Queued(t) <=> Queued(k.task[p])
        BY <3>7 DEF SameLink, Queued
      <4> QED
        BY <1>1, <3>3, <3>7, <4>1, SliceOK
    <3> QED
      BY <3>8, <3>9, MidKept
  <2> QED
    BY <2>1, <2>2
<1>3. release_task(k, c) = k2
  BY DEF release_task
<1> HIDE DEF k1
<1>4. KernelInv(k1) /\ ~Queued(k1.task[c])
  BY <1>1, <1>2 DEF Kept, SameSleep, AllTask
<1>5. KeptBut(k1, k2, c) /\ k2.task[c] = FreeTask
  BY <1>4, FreeTaskOK, SetUnqueued
<1> HIDE DEF k2
<1>6. KeptBut(k, k2, c)
  BY <1>2, <1>5 DEF Kept, KeptBut, SameSleep
<1> QED
  BY <1>1, <1>3, <1>5, <1>6, FreeTaskOK
-----------------------------------------------------------------------------
(* The actions *)

Embryos(at) == {q \in Task : at[q] = "embryo"}

\* What every step achieves; only schedule switches, and to the best process.
SafeStep ==
  /\ KernelInv(kern') /\ PlaceOK(kern', pc')
  /\ Counted(kern, Embryos(pc)) => Counted(kern', Embryos(pc'))
  /\ rq'.curr # rq.curr => Best(kern')

\* The kernel state after the step.
LEMMA BecomeKern ==
  ASSUME NEW STATE k, KernelInv(k), Become(k)
  PROVE  kern' = k /\ rq' = k.rq
<1>1. k = [task |-> k.task, rq |-> k.rq, oops |-> k.oops]
  BY SoundParts, KernelParts DEF KernelInv
<1>2. kern' = [task |-> task', rq |-> rq', oops |-> oops']
  BY DEF kern
<1> QED
  BY <1>1, <1>2 DEF Become

\* What the invariant says of the kernel and of current.
LEMMA IInvFacts ==
  ASSUME IInv
  PROVE  /\ KernelInv(kern) /\ PlaceOK(kern, pc) /\ pc \in [Task -> PCs]
         /\ kern \in Kernels /\ kern.task = task /\ kern.rq = rq /\ rq.curr \in AllTask
         /\ rq.curr \in Task => Queued(task[rq.curr])
         /\ \A p \in Task : p = rq.curr /\ pc[p] \notin {"sleep", "exiting"}
                              => task[p].state = "RUNNING"
         /\ \A q \in Task : pc[q] = "embryo" =>
              task[q].state = "UNINTERRUPTIBLE" /\ ~Queued(task[q]) /\ q # rq.curr
         /\ \A q \in Task \ {rq.curr} : Queued(task[q]) <=> task[q].state = "RUNNING"
<1>1. /\ KernelInv(kern) /\ PlaceOK(kern, pc) /\ pc \in [Task -> PCs]
      /\ kern \in Kernels /\ kern.task = task /\ kern.rq = rq /\ rq.curr \in AllTask
  BY KernType DEF IInv
<1>2. /\ rq.curr \in Task => Queued(task[rq.curr])
      /\ \A q \in Task \ {rq.curr} : Queued(task[q]) <=> task[q].state = "RUNNING"
  BY <1>1 DEF KernelInv, Awake
<1>3. \A p \in Task : p = rq.curr /\ pc[p] \notin {"sleep", "exiting"}
                        => task[p].state = "RUNNING"
  BY <1>1 DEF PlaceOK
<1>4. \A q \in Task : pc[q] = "embryo" =>
        task[q].state = "UNINTERRUPTIBLE" /\ ~Queued(task[q]) /\ q # rq.curr
  BY <1>1, <1>2 DEF PlaceOK
<1> QED
  BY <1>1, <1>2, <1>3, <1>4

\* A step that keeps all but c, and the place of c.
LEMMA StepKeptBut ==
  ASSUME IInv, NEW STATE k, NEW c \in Task, KeptBut(kern, k, c), Become(k), PlaceOK(k, pc'),
         Embryos(pc) \ {c} = Embryos(pc') \ {c},
         c \in Asleep(kern, Embryos(pc)) <=> c \in Asleep(k, Embryos(pc'))
  PROVE  SafeStep
<1>1. KernelInv(k) /\ k.rq.curr = rq.curr
  BY IInvFacts DEF KeptBut
<1>2. kern' = k /\ rq' = k.rq
  BY <1>1, BecomeKern
<1>3. Counted(kern, Embryos(pc)) => Counted(k, Embryos(pc'))
  BY CountBut
<1> QED
  BY <1>1, <1>2, <1>3 DEF SafeStep

\* A step that keeps everything, with current p moving on in the kernel.
LEMMA StepKept ==
  ASSUME IInv, NEW STATE k, Kept(kern, k), Become(k),
         \/ pc' = pc
         \/ \E p \in Task, to \in {"user", "sys", "forked"} :
              Goto(p, to) /\ p = rq.curr /\ pc[p] \notin {"sleep", "exiting"}
  PROVE  SafeStep
<1>1. /\ KernelInv(k) /\ k.rq.curr = rq.curr
      /\ k.rq.nr_uninterruptible = kern.rq.nr_uninterruptible
      /\ \A q \in AllTask : SameSleep(kern.task[q], k.task[q])
  BY IInvFacts DEF Kept
<1>2. kern' = k /\ rq' = k.rq
  BY <1>1, BecomeKern
<1>3. \A q \in Task : pc'[q] # pc[q] =>
        /\ q = rq.curr /\ pc'[q] \in {"user", "sys", "forked"}
        /\ pc[q] \notin {"sleep", "exiting"}
  BY IInvFacts DEF Goto
<1>4. PlaceOK(k, pc')
  <2>1. SUFFICES ASSUME NEW q \in Task
                 PROVE  /\ pc'[q] \in {"forking", "forked", "sleep", "exiting"} => q = k.rq.curr
                        /\ q = k.rq.curr /\ k.task[q].state # "RUNNING"
                             => pc'[q] \in {"sleep", "exiting"}
                        /\ pc'[q] = "embryo" =>
                             k.task[q].state = "UNINTERRUPTIBLE" /\ ~Queued(k.task[q])
                        /\ pc'[q] = "exiting" => k.task[q].state = "ZOMBIE"
    BY DEF PlaceOK
  <2>2. SameSleep(task[q], k.task[q])
    BY <1>1, IInvFacts DEF AllTask
  <2>3. CASE pc'[q] = pc[q]
    BY <1>1, <2>2, <2>3, IInvFacts DEF PlaceOK, SameSleep
  <2>4. CASE pc'[q] # pc[q]
    BY <1>1, <1>3, <2>2, <2>4, IInvFacts DEF SameSleep
  <2> QED
    BY <2>3, <2>4
<1>5. Embryos(pc') = Embryos(pc)
  BY <1>3, IInvFacts DEF Embryos
<1>6. Counted(kern, Embryos(pc)) => Counted(k, Embryos(pc'))
  BY <1>1, <1>5, CountSame DEF AllTask
<1> QED
  BY <1>1, <1>2, <1>4, <1>6 DEF SafeStep

\* A step that ends with schedule, with the process it leaves at a safe place.
LEMMA StepScheduled ==
  ASSUME IInv, NEW STATE k, Scheduled(kern, k), Become(k), pc' \in [Task -> PCs],
         \A q \in Task \ {rq.curr} : pc'[q] = pc[q],
         rq.curr \in Task => pc'[rq.curr] \in {"user", "sys", "none"}
  PROVE  SafeStep
<1>1. /\ KernelInv(k) /\ Best(k) /\ Settled(k)
      /\ \A q \in AllTask \ {rq.curr} : SameSleep(task[q], k.task[q])
      /\ \A E : rq.curr \notin E /\ Counted(kern, E) => Counted(k, E)
  BY IInvFacts DEF Scheduled
<1>2. kern' = k /\ rq' = k.rq
  BY <1>1, BecomeKern
<1>3. PlaceOK(k, pc')
  <2>1. SUFFICES ASSUME NEW q \in Task
                 PROVE  /\ pc'[q] \in {"forking", "forked", "sleep", "exiting"} => q = k.rq.curr
                        /\ q = k.rq.curr /\ k.task[q].state # "RUNNING"
                             => pc'[q] \in {"sleep", "exiting"}
                        /\ pc'[q] = "embryo" =>
                             k.task[q].state = "UNINTERRUPTIBLE" /\ ~Queued(k.task[q])
                        /\ pc'[q] = "exiting" => k.task[q].state = "ZOMBIE"
    BY DEF PlaceOK
  <2>2. pc'[q] \notin {"forking", "forked", "sleep", "exiting"}
    BY IInvFacts DEF PlaceOK
  <2>3. q = k.rq.curr => k.task[q].state = "RUNNING"
    BY <1>1 DEF KernelInv, Awake, Settled
  <2>4. pc'[q] = "embryo" => k.task[q].state = "UNINTERRUPTIBLE" /\ ~Queued(k.task[q])
    BY <1>1, IInvFacts DEF SameSleep, AllTask
  <2> QED
    BY <2>2, <2>3, <2>4
<1>4. Embryos(pc') = Embryos(pc) /\ rq.curr \notin Embryos(pc)
  BY IInvFacts DEF Embryos
<1> QED
  BY <1>1, <1>2, <1>3, <1>4 DEF SafeStep

\* The timer interrupt.
LEMMA TickSafe == ASSUME Disciplined, IInv, Tick PROVE SafeStep
<1>1. PICK prio \in TickPrios(task[rq.curr]), starving \in BOOLEAN :
        Become(scheduler_tick(kern, prio, starving)) /\ pc' = pc
  BY DEF Tick
<1>2. Kept(kern, scheduler_tick(kern, prio, starving))
  BY IInvFacts, TickKept
<1> QED
  BY <1>1, <1>2, StepKept

\* The wake-up of a sleeper.
LEMMA WakeSafe == ASSUME IInv, NEW p \in Task, Wake(p) PROVE SafeStep
<1>1. PICK prio \in WakePrios(task[p]) : Become(try_to_wake_up(kern, p, prio))
  BY DEF Wake
<1> DEFINE k == try_to_wake_up(kern, p, prio)
<1>2. /\ pc' = pc /\ task[p].state \in {"INTERRUPTIBLE", "UNINTERRUPTIBLE"}
      /\ pc[p] # "embryo"
  BY DEF Wake
<1>3. Woken(kern, k, p)
  BY <1>2, IInvFacts, WakeKeeps
<1> HIDE DEF k
<1>4. /\ KernelInv(k) /\ k.rq.curr = rq.curr /\ k.task[p].state = "RUNNING"
      /\ \A q \in AllTask \ {p} : SameSleep(task[q], k.task[q])
  BY <1>3, IInvFacts DEF Woken
<1>5. kern' = k /\ rq' = k.rq
  BY <1>1, <1>4, BecomeKern DEF k
<1>6. PlaceOK(k, pc')
  <2>1. ASSUME NEW q \in Task \ {p} PROVE SameSleep(task[q], k.task[q])
    BY <1>4 DEF AllTask
  <2>2. pc[p] # "exiting"
    BY <1>2, IInvFacts DEF PlaceOK
  <2> QED
    BY <1>2, <1>4, <2>1, <2>2, IInvFacts DEF PlaceOK, SameSleep
<1>7. Counted(kern, Embryos(pc)) => Counted(k, Embryos(pc'))
  BY <1>2, <1>3, WokenCounted DEF Embryos
<1> QED
  BY <1>4, <1>5, <1>6, <1>7 DEF SafeStep

\* A reschedule on the return to user mode, and of the idle loop.
LEMMA RescheduleSafe == ASSUME IInv, Reschedule PROVE SafeStep
<1>1. Become(schedule(kern, FALSE)) /\ pc' = pc
  BY DEF Reschedule
<1>2. Scheduled(kern, schedule(kern, FALSE))
  BY IInvFacts, ScheduleKeeps
<1>3. rq.curr \in Task => pc[rq.curr] = "user"
  BY IdleAssumption DEF Reschedule, At
<1> QED
  BY <1>1, <1>2, <1>3, IInvFacts, StepScheduled

\* Entry of and return from a system call.
LEMMA EnterSafe ==
  ASSUME IInv, NEW p \in Task, Enter(p) \/ Return(p) PROVE SafeStep
<1>1. /\ Become(kern) /\ p = rq.curr /\ pc[p] \in {"user", "sys"}
      /\ \E to \in {"user", "sys", "forked"} : Goto(p, to)
  BY DEF Enter, Return, At
<1>2. Kept(kern, kern)
  BY IInvFacts, KeptRefl
<1> QED
  BY <1>1, <1>2, StepKept

\* The first half of a wait loop, and its early end.
LEMMA PrepareSafe ==
  ASSUME IInv, NEW p \in Task, PrepareToSleep(p) \/ CancelSleep(p) PROVE SafeStep
<1>1. PICK s \in {"RUNNING", "INTERRUPTIBLE", "UNINTERRUPTIBLE"}, to \in {"sleep", "user"} :
        /\ Become([kern EXCEPT !.task[p].state = s]) /\ Goto(p, to)
        /\ s # "RUNNING" => to = "sleep"
  BY DEF PrepareToSleep, CancelSleep
<1>2. p = rq.curr /\ pc[p] \in {"sys", "sleep"}
  BY DEF PrepareToSleep, CancelSleep, Call, At
<1> DEFINE k == [kern EXCEPT !.task[p].state = s]
<1>3. KeptBut(kern, k, p) /\ Queued(k.task[p]) /\ k.task[p].state = s
  <2>1. KernelInv(kern) /\ p = kern.rq.curr
    BY <1>2, IInvFacts
  <2>2. k = [kern EXCEPT !.task[p].state = s]
    OBVIOUS
  <2> HIDE DEF k
  <2> QED
    BY <2>1, <2>2, SetStateKept
<1> HIDE DEF k
<1>4. pc' = [pc EXCEPT ![p] = to] /\ Become(k)
  BY <1>1 DEF Goto, k
<1>5. pc'[p] = to /\ \A q \in Task \ {p} : pc'[q] = pc[q]
  BY <1>4, IInvFacts
<1>6. PlaceOK(k, pc')
  <2>1. k.rq.curr = p /\ \A q \in Task \ {p} : SameSleep(task[q], k.task[q])
    BY <1>2, <1>3, IInvFacts DEF KeptBut, AllTask
  <2>2. \A q \in Task \ {p} : pc'[q] \notin {"forking", "forked", "sleep", "exiting"}
    BY <1>2, <1>5, IInvFacts DEF PlaceOK
  <2>3. \A q \in Task \ {p} : pc'[q] = "embryo" =>
          k.task[q].state = "UNINTERRUPTIBLE" /\ ~Queued(k.task[q])
    BY <1>5, <2>1, IInvFacts DEF SameSleep
  <2> QED
    BY <1>1, <1>3, <1>5, <2>1, <2>2, <2>3 DEF PlaceOK
<1>7. Embryos(pc) \ {p} = Embryos(pc') \ {p}
  BY <1>5 DEF Embryos
<1>8. p \notin Asleep(kern, Embryos(pc)) /\ p \notin Asleep(k, Embryos(pc'))
  BY <1>2, <1>3, IInvFacts DEF Asleep
<1> QED
  BY <1>3, <1>4, <1>6, <1>7, <1>8, StepKeptBut

\* The call of schedule of a wait loop, and of do_exit.
LEMMA SleepSafe ==
  ASSUME IInv, NEW p \in Task, Sleep(p) \/ ExitSchedule(p) PROVE SafeStep
<1>1. PICK b \in BOOLEAN, to \in {"sys", "none"} : Become(schedule(kern, b)) /\ Goto(p, to)
  BY DEF Sleep, ExitSchedule
<1>2. p = rq.curr
  BY DEF Sleep, ExitSchedule, At
<1>3. Scheduled(kern, schedule(kern, b))
  BY IInvFacts, ScheduleKeeps
<1>4. pc' \in [Task -> PCs] /\ pc'[p] = to /\ \A q \in Task \ {p} : pc'[q] = pc[q]
  BY <1>1, IInvFacts DEF Goto, PCs
<1> QED
  BY <1>1, <1>2, <1>3, <1>4, StepScheduled

\* sched_yield.
LEMMA YieldSafe == ASSUME IInv, NEW p \in Task, Yield(p) PROVE SafeStep
<1>1. Become(sys_sched_yield(kern)) /\ Goto(p, "user") /\ p = rq.curr
  BY DEF Yield, Call, At
<1>2. Scheduled(kern, sys_sched_yield(kern))
  BY <1>1, IInvFacts, YieldKeeps
<1>3. pc' \in [Task -> PCs] /\ pc'[p] = "user" /\ \A q \in Task \ {p} : pc'[q] = pc[q]
  BY <1>1, IInvFacts DEF Goto, PCs
<1> QED
  BY <1>1, <1>2, <1>3, StepScheduled

\* nice and setpriority.
LEMMA NiceSafe == ASSUME IInv, NEW p \in Task, Nice(p) PROVE SafeStep
<1>1. PICK q \in Task, nice \in Nices : Become(set_user_nice(kern, q, nice))
  BY DEF Nice
<1>2. Goto(p, "user") /\ p = rq.curr /\ pc[p] = "sys"
  BY DEF Nice, Call, At
<1>3. Kept(kern, set_user_nice(kern, q, nice))
  <2>1. nice \in Int
    BY CallAssumption
  <2>2. Served(kern, set_user_nice(kern, q, nice), q)
    BY <2>1, IInvFacts, NiceServed
  <2> QED
    BY <2>2, IInvFacts, ServedKept
<1> QED
  BY <1>1, <1>2, <1>3, StepKept

\* sched_setscheduler, on a process that is to run: current runs, and any other that
\* is queued does.
LEMMA SetSchedulerSafe ==
  ASSUME Disciplined, IInv, NEW p \in Task, SetScheduler(p) PROVE SafeStep
<1>1. PICK q \in Task, r \in Requests :
        /\ WellBehaved(q, r)
        /\ \E prio \in SetschedulerPrios(task[q], r) : Become(setscheduler(kern, q, r, prio))
  BY DEF SetScheduler, Disciplined
<1>2. PICK prio \in SetschedulerPrios(task[q], r) : Become(setscheduler(kern, q, r, prio))
  BY <1>1
<1>3. Goto(p, "user") /\ p = rq.curr /\ pc[p] = "sys"
  BY DEF SetScheduler, Call, At
<1>4. /\ Queued(task[q]) /\ task[q].state = "RUNNING"
      /\ ~(task[q].policy = "SHORT" /\ RequestedPolicy(task[q], r) = "SHORT")
  BY <1>1, <1>3, IInvFacts DEF WellBehaved, Queued
<1> DEFINE k == setscheduler(kern, q, r, prio)
<1>5. Called(kern, k)
  BY <1>2, <1>4, IInvFacts, SetschedulerCalled
<1>6. Become(k)
  BY <1>2
<1> HIDE DEF k
<1>7. CASE Kept(kern, k)
  BY <1>3, <1>6, <1>7, StepKept
<1>8. CASE Scheduled(kern, k)
  <2>1. pc' \in [Task -> PCs] /\ pc'[p] = "user" /\ \A x \in Task \ {p} : pc'[x] = pc[x]
    BY <1>3, IInvFacts DEF Goto, PCs
  <2> QED
    BY <1>3, <1>6, <1>8, <2>1, StepScheduled
<1> QED
  BY <1>5, <1>7, <1>8 DEF Called
\* The copy of current becomes the embryo.
LEMMA ForkDupSafe ==
  ASSUME IInv, NEW p \in Task, NEW c \in Task, ForkDup(p, c) PROVE SafeStep
<1>1. /\ Become(dup_task(kern, c)) /\ p = rq.curr /\ pc[p] = "sys" /\ task[c].state = "FREE"
      /\ pc' = [pc EXCEPT ![p] = "forking", ![c] = "embryo"]
  BY DEF ForkDup, Call, At
<1> DEFINE k == dup_task(kern, c)
<1>2. /\ KeptBut(kern, k, c) /\ ~Queued(k.task[c]) /\ k.task[c].state = "UNINTERRUPTIBLE"
  BY <1>1, IInvFacts, DupKept
<1>3. Become(k)
  BY <1>1
<1> HIDE DEF k
<1>4. c # p
  BY <1>1, IInvFacts
<1>5. /\ pc'[p] = "forking" /\ pc'[c] = "embryo"
      /\ \A q \in Task \ {p, c} : pc'[q] = pc[q]
  BY <1>1, <1>4, IInvFacts
<1>6. k.rq.curr = p /\ \A q \in Task \ {c} : SameSleep(task[q], k.task[q])
  BY <1>1, <1>2, IInvFacts DEF KeptBut, AllTask
<1>7. PlaceOK(k, pc')
  <2>1. \A q \in Task \ {p, c} : pc'[q] \notin {"forking", "forked", "sleep", "exiting"}
    BY <1>1, <1>5, IInvFacts DEF PlaceOK
  <2>2. k.task[p].state = "RUNNING"
    BY <1>1, <1>4, <1>6, IInvFacts DEF SameSleep
  <2>3. \A q \in Task \ {p, c} : pc'[q] = "embryo" =>
          k.task[q].state = "UNINTERRUPTIBLE" /\ ~Queued(k.task[q])
    BY <1>5, <1>6, IInvFacts DEF SameSleep
  <2> QED
    BY <1>2, <1>4, <1>5, <1>6, <2>1, <2>2, <2>3 DEF PlaceOK
<1>8. Embryos(pc) \ {c} = Embryos(pc') \ {c}
  BY <1>1, <1>4, <1>5 DEF Embryos
<1>9. c \notin Asleep(kern, Embryos(pc)) /\ c \notin Asleep(k, Embryos(pc'))
  BY <1>1, <1>5, IInvFacts DEF Asleep, Embryos
<1> QED
  BY <1>2, <1>3, <1>7, <1>8, <1>9, StepKeptBut

\* The embryo leaves its place, for good or ill: c is an embryo no more, and p, that
\* forks, goes back to user mode.
LEMMA BirthSafe ==
  ASSUME IInv, NEW p \in Task, NEW c \in Task, p = rq.curr,
         pc[p] \in {"forking", "forked"}, pc[c] = "embryo", NEW to \in {"user", "none"},
         NEW STATE k, KeptBut(kern, k, c), Become(k),
         k.task[c].state = "UNINTERRUPTIBLE" => Queued(k.task[c]),
         pc' = [pc EXCEPT ![p] = "user", ![c] = to]
  PROVE  SafeStep
<1>1. c # p
  BY IInvFacts
<1>2. pc'[p] = "user" /\ pc'[c] = to /\ \A q \in Task \ {p, c} : pc'[q] = pc[q]
  BY <1>1, IInvFacts
<1>3. k.rq.curr = p /\ \A q \in Task \ {c} : SameSleep(task[q], k.task[q])
  BY IInvFacts DEF KeptBut, AllTask
<1>4. PlaceOK(k, pc')
  <2>1. \A q \in Task : pc'[q] \notin {"forking", "forked", "sleep", "exiting"}
    BY <1>2, IInvFacts DEF PlaceOK
  <2>2. k.task[p].state = "RUNNING"
    BY <1>1, <1>3, IInvFacts DEF SameSleep
  <2>3. \A q \in Task : pc'[q] = "embryo" =>
          k.task[q].state = "UNINTERRUPTIBLE" /\ ~Queued(k.task[q])
    BY <1>2, <1>3, IInvFacts DEF SameSleep
  <2> QED
    BY <1>3, <2>1, <2>2, <2>3 DEF PlaceOK
<1>5. Embryos(pc) \ {c} = Embryos(pc') \ {c}
  BY <1>2 DEF Embryos
<1>6. c \notin Asleep(kern, Embryos(pc)) /\ c \notin Asleep(k, Embryos(pc'))
  BY DEF Asleep, Embryos
<1> QED
  BY <1>4, <1>5, <1>6, StepKeptBut

\* A fork that fails.
LEMMA ForkFailSafe ==
  ASSUME Disciplined, IInv, NEW p \in Task, NEW c \in Task, ForkFail(p, c) PROVE SafeStep
<1> DEFINE k == [kern EXCEPT !.task[c] = FreeTask]
<1>1. /\ Become(k) /\ p = rq.curr /\ pc[p] = "forking" /\ pc[c] = "embryo"
      /\ pc' = [pc EXCEPT ![p] = "user", ![c] = "none"]
  BY DEF ForkFail, At
<1>2. KeptBut(kern, k, c) /\ k.task[c] = FreeTask
  <2>1. ~Queued(kern.task[c]) /\ KernelInv(kern)
    BY <1>1, IInvFacts
  <2>2. /\ FreeTask \in TaskStructs /\ FreeTask.prio \in Prio /\ ~Queued(FreeTask)
        /\ FreeTask.state # "RUNNING" /\ TaskOK(FreeTask)
    BY FreeTaskOK
  <2> QED
    BY <2>1, <2>2, SetUnqueued
<1> HIDE DEF k
<1>3. k.task[c].state # "UNINTERRUPTIBLE"
  BY <1>2, FreeTaskOK
<1> QED
  BY <1>1, <1>2, <1>3, BirthSafe

\* The split of the slice.
LEMMA ForkShareSafe ==
  ASSUME Disciplined, IInv, NEW p \in Task, NEW c \in Task, ForkShare(p, c) PROVE SafeStep
<1>1. PICK prio \in TickPrios(task[p]), starving \in BOOLEAN :
        Become(share_timeslice(kern, c, prio, starving))
  BY DEF ForkShare
<1>2. p = rq.curr /\ pc[p] = "forking" /\ pc[c] = "embryo" /\ Goto(p, "forked")
  BY DEF ForkShare, At
<1>3. Kept(kern, share_timeslice(kern, c, prio, starving))
  BY <1>2, IInvFacts, ShareKept
<1> QED
  BY <1>1, <1>2, <1>3, StepKept

\* The wake-up of the child.
LEMMA ForkWakeSafe ==
  ASSUME Disciplined, IInv, NEW p \in Task, NEW c \in Task, ForkWake(p, c) PROVE SafeStep
<1> DEFINE k0 == [kern EXCEPT !.task[c].parent = p]
           k(pprio, cprio) == resched_task(wake_up_forked_process(k0, c, pprio, cprio), p)
<1>1. PICK pprio \in WakePrios(task[p]), cprio \in ForkedPrios(task[c]) :
        Become(k(pprio, cprio))
  BY DEF ForkWake
<1>2. /\ p = rq.curr /\ pc[p] = "forked" /\ pc[c] = "embryo"
      /\ pc' = [pc EXCEPT ![p] = "user", ![c] = "user"]
  BY DEF ForkWake, At
<1>3. KeptBut(kern, k(pprio, cprio), c) /\ Queued(k(pprio, cprio).task[c])
  <2>1. /\ KernelInv(kern) /\ p = kern.rq.curr /\ kern.task[p].state = "RUNNING"
        /\ ~Queued(kern.task[c]) /\ kern.task[c].state = "UNINTERRUPTIBLE"
    BY <1>2, IInvFacts
  <2>2. pprio \in WakePrios(kern.task[p]) /\ cprio \in ForkedPrios(kern.task[c])
    BY IInvFacts
  <2> QED
    BY <2>1, <2>2, ForkWakeKept
<1> HIDE DEF k
<1> QED
  BY <1>1, <1>2, <1>3, BirthSafe

\* do_exit up to exit_notify.
LEMMA ExitNotifySafe == ASSUME IInv, NEW p \in Task, ExitNotify(p) PROVE SafeStep
<1> DEFINE k1     == [forget_original_parent(kern, p) EXCEPT !.task[p].state = "ZOMBIE"]
           parent == k1.task[p].parent
<1>1. \/ Become(k1)
      \/ /\ task[parent].state = "INTERRUPTIBLE"
         /\ \E prio \in WakePrios(task[parent]) : Become(try_to_wake_up(k1, parent, prio))
  BY DEF ExitNotify
<1>2. p = rq.curr /\ pc[p] = "sys" /\ Goto(p, "exiting")
  BY DEF ExitNotify, Call, At
<1>3. /\ KeptBut(kern, k1, p) /\ k1.task[p].state = "ZOMBIE" /\ Queued(k1.task[p])
      /\ \A q \in Task \ {p} : WakePrios(k1.task[q]) = WakePrios(task[q])
  BY <1>2, IInvFacts, ZombieKept
<1> HIDE DEF k1
<1>4. pc'[p] = "exiting" /\ \A q \in Task \ {p} : pc'[q] = pc[q]
  BY <1>2, IInvFacts DEF Goto
<1>5. /\ KernelInv(k1) /\ k1.rq.curr = p
      /\ \A q \in Task \ {p} : SameSleep(task[q], k1.task[q])
  BY <1>2, <1>3, IInvFacts DEF KeptBut, AllTask
<1>6. ASSUME NEW k2, k2.rq.curr = p, k2.task[p].state = "ZOMBIE",
             \A q \in Task : pc[q] = "embryo" => SameSleep(task[q], k2.task[q])
      PROVE  PlaceOK(k2, pc')
  <2>1. \A q \in Task \ {p} : pc'[q] \notin {"forking", "forked", "sleep", "exiting"}
    BY <1>2, <1>4, IInvFacts DEF PlaceOK
  <2>2. \A q \in Task \ {p} : pc'[q] = "embryo" =>
          k2.task[q].state = "UNINTERRUPTIBLE" /\ ~Queued(k2.task[q])
    BY <1>4, <1>6, IInvFacts DEF SameSleep
  <2> QED
    BY <1>4, <1>6, <2>1, <2>2 DEF PlaceOK
<1>7. /\ Embryos(pc) \ {p} = Embryos(pc') \ {p} /\ Embryos(pc) = Embryos(pc')
      /\ p \notin Embryos(pc)
  BY <1>2, <1>4 DEF Embryos
<1>8. p \notin Asleep(kern, Embryos(pc)) /\ p \notin Asleep(k1, Embryos(pc'))
  BY <1>2, <1>3, IInvFacts DEF Asleep
<1>9. CASE Become(k1)
  <2>1. PlaceOK(k1, pc')
    BY <1>2, <1>3, <1>5, <1>6, IInvFacts
  <2> QED
    BY <1>3, <1>7, <1>8, <1>9, <2>1, StepKeptBut
<1>10. CASE /\ task[parent].state = "INTERRUPTIBLE"
            /\ \E prio \in WakePrios(task[parent]) : Become(try_to_wake_up(k1, parent, prio))
  <2>1. PICK prio \in WakePrios(task[parent]) : Become(try_to_wake_up(k1, parent, prio))
    BY <1>10
  <2>2. parent \in Task /\ parent # p
    <3>1. k1.task[p] \in TaskStructs
      BY <1>5, SoundParts DEF KernelInv, AllTask
    <3>2. parent # p
      BY <1>2, <1>10, IInvFacts
    <3> QED
      BY <3>1, <3>2, TaskFields
  <2> HIDE DEF parent
  <2> DEFINE k2 == try_to_wake_up(k1, parent, prio)
  <2>3. Woken(k1, k2, parent)
    <3>1. k1.task[parent].state = "INTERRUPTIBLE"
      BY <1>5, <1>10, <2>2 DEF SameSleep
    <3>2. prio \in WakePrios(k1.task[parent])
      BY <1>3, <2>2
    <3> QED
      BY <1>5, <2>2, <3>1, <3>2, WakeKeeps
  <2>4. Become(k2)
    BY <2>1
  <2> HIDE DEF k2
  <2>5. /\ KernelInv(k2) /\ k2.rq.curr = p
        /\ \A q \in Task \ {parent} : SameSleep(k1.task[q], k2.task[q])
    BY <1>5, <2>3 DEF Woken, AllTask
  <2>6. kern' = k2 /\ rq' = k2.rq
    BY <2>4, <2>5, BecomeKern
  <2>7. PlaceOK(k2, pc')
    <3>1. k2.task[p].state = "ZOMBIE"
      BY <1>3, <2>2, <2>5 DEF SameSleep
    <3>2. \A q \in Task : pc[q] = "embryo" => SameSleep(task[q], k2.task[q])
      <4>1. ASSUME NEW q \in Task, pc[q] = "embryo" PROVE q # p /\ q # parent
        BY <1>2, <1>10, <4>1, IInvFacts
      <4> QED
        BY <1>5, <2>5, <4>1 DEF SameSleep
    <3> QED
      BY <1>6, <2>5, <3>1, <3>2
  <2>8. Counted(kern, Embryos(pc)) => Counted(k2, Embryos(pc'))
    <3>1. SUFFICES ASSUME Counted(kern, Embryos(pc)) PROVE Counted(k2, Embryos(pc'))
      OBVIOUS
    <3>2. Counted(k1, Embryos(pc'))
      BY <1>3, <1>7, <1>8, <3>1, CountBut
    <3>3. parent \notin Embryos(pc')
      BY <1>7, <1>10, <2>2, IInvFacts DEF Embryos
    <3> QED
      BY <2>2, <2>3, <3>2, <3>3, WokenCounted
  <2>9. rq'.curr = rq.curr
    BY <1>2, <2>5, <2>6
  <2> QED
    BY <2>5, <2>6, <2>7, <2>8, <2>9 DEF SafeStep
<1> QED
  BY <1>1, <1>9, <1>10

\* wait4 releases a zombie.
LEMMA ReapSafe ==
  ASSUME Disciplined, IInv, NEW p \in Task, NEW c \in Task, Reap(p, c) PROVE SafeStep
<1> DEFINE k == release_task(kern, c)
<1>1. /\ Become(k) /\ p = rq.curr /\ pc[p] = "sys" /\ p # c /\ task[c].state = "ZOMBIE"
      /\ Goto(p, "user")
  BY DEF Reap, Call, At
<1>2. KeptBut(kern, k, c) /\ k.task[c].state = "FREE" /\ ~Queued(k.task[c])
  BY <1>1, IInvFacts, ReapKept
<1> HIDE DEF k
<1>3. pc'[p] = "user" /\ \A q \in Task \ {p} : pc'[q] = pc[q]
  BY <1>1, IInvFacts DEF Goto
<1>4. k.rq.curr = p /\ \A q \in Task \ {c} : SameSleep(task[q], k.task[q])
  BY <1>1, <1>2, IInvFacts DEF KeptBut, AllTask
<1>5. pc[c] # "embryo"
  BY <1>1, IInvFacts
<1>6. PlaceOK(k, pc')
  <2>1. \A q \in Task : pc'[q] \notin {"forking", "forked", "sleep", "exiting"}
    BY <1>1, <1>3, IInvFacts DEF PlaceOK
  <2>2. k.task[p].state = "RUNNING"
    BY <1>1, <1>4, IInvFacts DEF SameSleep
  <2>3. \A q \in Task : pc'[q] = "embryo" =>
          k.task[q].state = "UNINTERRUPTIBLE" /\ ~Queued(k.task[q])
    BY <1>1, <1>3, <1>4, <1>5, IInvFacts DEF SameSleep
  <2> QED
    BY <1>4, <2>1, <2>2, <2>3 DEF PlaceOK
<1>7. Embryos(pc) = Embryos(pc')
  BY <1>1, <1>3 DEF Embryos
<1>8. c \notin Asleep(kern, Embryos(pc)) /\ c \notin Asleep(k, Embryos(pc'))
  BY <1>1, <1>2, IInvFacts DEF Asleep
<1> QED
  BY <1>1, <1>2, <1>6, <1>7, <1>8, StepKeptBut

\* The initial state: only init is queued, under the priority of nice 0.
LEMMA InitInv == ASSUME Disciplined, Init PROVE IInv /\ Counted(kern, Embryos(pc))
<1> DEFINE n   == NICE_TO_PRIO(0)
           arr == enqueue(init_array, Reaper, n)
<1>1. TypeOK /\ kern \in Kernels /\ kern.task = task /\ kern.rq = rq /\ kern.oops = "none"
  BY InitType, KernType DEF Init
<1>2. /\ n \in UserPrio /\ n \in Prio /\ ~(n < MAX_RT_PRIO)
  BY NicePrioType, PrioAssumption DEF UserPrio
<1>3. /\ task[Reaper] = InitTask
      /\ \A q \in Task \ {Reaper} : task[q] = FreeTask
      /\ task[Idle].state = "RUNNING"
  <2>1. Reaper # Idle /\ Reaper \in AllTask /\ Idle \in AllTask
    BY ReaperAssumption, IdleAssumption DEF AllTask
  <2>2. task[Reaper] = InitTask
    BY <2>1 DEF Init
  <2>3. \A q \in Task \ {Reaper} : task[q] = FreeTask
    BY IdleAssumption DEF Init, AllTask
  <2>4. task[Idle] = [FreeTask EXCEPT !.state = "RUNNING", !.prio = MAX_PRIO]
    BY <2>1 DEF Init
  <2> QED
    BY <2>2, <2>3, <2>4 DEF FreeTask
<1>4. /\ InitTask.state = "RUNNING" /\ InitTask.array = "array0" /\ InitTask.policy = "OTHER"
      /\ InitTask.prio = n /\ InitTask.time_slice = MAX_TIMESLICE
      /\ InitTask.requested_time = 0 /\ InitTask.is_overdue = FALSE
  BY DEF InitTask, FreeTask
<1>5. /\ FreeTask.state = "FREE" /\ FreeTask.array = "NULL" /\ TaskOK(FreeTask)
  BY FreeTaskOK DEF Queued
<1>6. TaskOK(InitTask)
  <2>1. FreeTask.requested_time = 0
    BY DEF FreeTask
  <2>2. RequestTicks(0) <= MaxSlice
    BY <1>5, <2>1 DEF TaskOK
  <2>3. MAX_TIMESLICE \in 1 .. MaxSlice
    BY SliceBounds
  <2> QED
    BY <1>2, <1>4, <2>2, <2>3 DEF TaskOK, Queued, rt_task
<1>7. /\ rq.arrays["array0"] = arr
      /\ \A a \in ArrayId \ {"array0"} : rq.arrays[a] = init_array
      /\ rq.active = "array0" /\ rq.expired = "array1" /\ rq.curr = Reaper
      /\ rq.nr_running = 1 /\ rq.nr_uninterruptible = 0
  BY DEF Init, ArrayId
<1>8. QueuedBut(kern, {}) = {Reaper} /\ Members(kern, {}, "array0") = {Reaper}
  <2>1. \A q \in Task : Queued(kern.task[q]) <=> q = Reaper
    BY <1>1, <1>3, <1>4, <1>5 DEF Queued
  <2>2. \A q \in Task : kern.task[q].array = "array0" <=> q = Reaper
    BY <1>1, <1>3, <1>4, <1>5
  <2> QED
    BY <2>1, <2>2, ReaperAssumption DEF QueuedBut, Members
<1>9. \A a \in ArrayId \ {"array0"} : Members(kern, {}, a) = {}
  BY <1>1, <1>3, <1>4, <1>5 DEF Members, ArrayId
<1>10. Holds(init_array, {}, task)
  <2>1. /\ Distinct(<< >>) /\ Entries(<< >>) = {}
    BY DEF Distinct, Entries
  <2>2. Cardinality({}) = 0
    BY FS_EmptySet
  <2> QED
    BY <2>1, <2>2 DEF Holds, init_array
<1>11. Holds(arr, {Reaper}, task)
  <2>1. init_array \in PrioArrays /\ IsFiniteSet({})
    BY FS_EmptySet DEF init_array, PrioArrays
  <2>2. Holds(arr, {} \cup {Reaper}, task)
    BY <1>2, <1>3, <1>4, <1>10, <2>1, ReaperAssumption, EnqueueHolds
  <2> QED
    BY <2>2
<1>12. Sound(kern, {}, 0)
  <2>1. \A a \in ArrayId : Holds(kern.rq.arrays[a], Members(kern, {}, a), kern.task)
    BY <1>1, <1>7, <1>8, <1>9, <1>10, <1>11
  <2>2. Fits(InitTask, "array0", rq)
    BY <1>4, <1>7 DEF Fits, ShortNow, Overdue
  <2>3. Cardinality({Reaper}) = 1
    BY FS_Singleton
  <2> QED
    BY <1>1, <1>3, <1>4, <1>7, <1>8, <2>1, <2>2, <2>3 DEF Sound
<1>13. KernelInv(kern)
  <2>1. Awake(kern)
    BY <1>1, <1>3, <1>4, <1>5, <1>7 DEF Awake, Queued
  <2>2. \A q \in Task : TaskOK(kern.task[q])
    BY <1>1, <1>3, <1>5, <1>6
  <2> QED
    BY <1>1, <1>3, <1>12, <2>1, <2>2 DEF KernelInv
<1>14. PlaceOK(kern, pc)
  <2>1. \A q \in Task : pc[q] = IF q = Reaper THEN "user" ELSE "none"
    BY DEF Init
  <2> QED
    BY <1>1, <1>3, <1>4, <1>7, <2>1 DEF PlaceOK
<1>15. Counted(kern, Embryos(pc))
  <2>1. Asleep(kern, Embryos(pc)) = {}
    BY <1>1, <1>3, <1>4, <1>5 DEF Asleep
  <2> QED
    BY <1>1, <1>7, <2>1, FS_EmptySet DEF Counted
<1> QED
  BY <1>1, <1>13, <1>14, <1>15 DEF IInv
-----------------------------------------------------------------------------
(* The invariant, and the theorems *)

\* What the invariant of the theorems is.
Safe == IInv /\ Counted(kern, Embryos(pc))

\* Every step is safe.
LEMMA NextSafe == ASSUME Disciplined, IInv, [Next]_vars PROVE SafeStep
<1>1. CASE UNCHANGED vars
  <2>1. kern' = kern /\ rq' = rq /\ pc' = pc
    BY <1>1 DEF vars, kern
  <2> QED
    BY <2>1, IInvFacts DEF SafeStep
<1>2. ASSUME NEW p \in Task, Step(p) PROVE SafeStep
  BY <1>2, EnterSafe, PrepareSafe, SleepSafe, YieldSafe, SetSchedulerSafe, NiceSafe,
     ExitNotifySafe, ForkDupSafe, ForkFailSafe, ForkShareSafe, ForkWakeSafe, ReapSafe
  DEF Step
<1> QED
  BY <1>1, <1>2, TickSafe, RescheduleSafe, WakeSafe DEF Next

\* The invariant is inductive.
LEMMA SafeInductive == ASSUME Disciplined, Safe, [Next]_vars PROVE Safe'
<1>1. IInv
  BY DEF Safe
<1>2. SafeStep
  BY <1>1, NextSafe
<1>3. TypeOK'
  BY <1>1, NextGood DEF IInv, GoodStep
<1>4. IInv'
  BY <1>2, <1>3 DEF SafeStep, IInv
<1>5. Counted(kern', Embryos(pc'))
  BY <1>2 DEF SafeStep, Safe
<1> QED
  BY <1>4, <1>5 DEF Safe

\* It holds in every reachable state.
LEMMA AlwaysSafe == ASSUME Disciplined PROVE Spec => []Safe
<1>1. Init => Safe
  BY InitInv DEF Safe
<1>2. Safe /\ [Next]_vars => Safe'
  BY SafeInductive
<1> QED
  BY <1>1, <1>2, PTL DEF Spec

\* What the invariant says of the lists.
LEMMA SafeLists == ASSUME Safe PROVE ListsConsistent
<1>1. Sound(kern, {}, 0) /\ kern.task = task /\ kern.rq = rq
  BY IInvFacts DEF Safe, KernelInv
<1>2. ASSUME NEW a \in ArrayId
      PROVE  /\ rq.arrays[a].bitmap = {i \in Prio : queue(a, i) # << >>}
             /\ \A i \in Prio : \A m \in DOMAIN queue(a, i) :
                  LET t == task[queue(a, i)[m]]
                  IN  /\ t.array = a /\ t.prio = i
                      /\ \A n \in DOMAIN queue(a, i) :
                           queue(a, i)[m] = queue(a, i)[n] => m = n
  <2>1. /\ rq.arrays[a] \in PrioArrays
        /\ Holds(rq.arrays[a], Members(kern, {}, a), task)
    BY <1>1, SoundArray
  <2>2. rq.arrays[a].bitmap \subseteq Prio /\ \A i \in Prio : queue(a, i) \in Seq(Task)
    BY <2>1 DEF PrioArrays, queue
  <2>3. rq.arrays[a].bitmap = {i \in Prio : queue(a, i) # << >>}
    BY <2>1, <2>2 DEF Holds, queue
  <2>4. ASSUME NEW i \in Prio, NEW m \in DOMAIN queue(a, i)
        PROVE  /\ task[queue(a, i)[m]].array = a /\ task[queue(a, i)[m]].prio = i
               /\ \A n \in DOMAIN queue(a, i) : queue(a, i)[m] = queue(a, i)[n] => m = n
    <3>1. /\ Distinct(queue(a, i))
          /\ Entries(queue(a, i)) = {q \in Members(kern, {}, a) : task[q].prio = i}
      BY <2>1 DEF Holds, queue
    <3>2. DOMAIN queue(a, i) = 1 .. Len(queue(a, i))
      BY <2>2
    <3>3. queue(a, i)[m] \in Entries(queue(a, i))
      BY <2>2, <3>2 DEF Entries
    <3>4. \A n \in DOMAIN queue(a, i) : queue(a, i)[m] = queue(a, i)[n] => m = n
      BY <2>2, <3>1, <3>2 DEF Distinct
    <3> QED
      BY <1>1, <3>1, <3>3, <3>4 DEF Members
  <2> QED
    BY <2>3, <2>4
<1> QED
  BY <1>2 DEF ListsConsistent

\* What it says of the counts.
LEMMA SafeCounts == ASSUME Safe PROVE CountsConsistent
<1>1. Sound(kern, {}, 0) /\ kern.task = task /\ kern.rq = rq
  BY IInvFacts DEF Safe, KernelInv
<1>2. /\ QueuedBut(kern, {}) = {p \in Task : Queued(task[p])}
      /\ \A a : Members(kern, {}, a) = QueuedIn(a)
  BY <1>1 DEF QueuedBut, Members, QueuedIn
<1>3. rq.nr_running = Cardinality({p \in Task : Queued(task[p])})
  <2>1. /\ rq.nr_running = Cardinality(QueuedBut(kern, {})) + 0
        /\ Cardinality(QueuedBut(kern, {})) \in Nat
    BY <1>1, SoundCount
  <2>2. rq.nr_running = Cardinality(QueuedBut(kern, {}))
    BY <2>1
  <2> QED
    BY <1>2, <2>2
<1>4. \A a \in ArrayId : rq.arrays[a].nr_active = Cardinality(QueuedIn(a))
  BY <1>1, <1>2, SoundArray DEF Holds
<1> QED
  BY <1>3, <1>4 DEF CountsConsistent

\* What it says of a queued process.
LEMMA SafeQueued ==
  ASSUME Safe, NEW p \in Task, Queued(task[p])
  PROVE  /\ Linked(rq.arrays[task[p].array], p, task[p].prio)
         /\ Fits(task[p], task[p].array, rq)
         /\ task[p].state # "RUNNING" => p = rq.curr /\ pc[p] \in {"sleep", "exiting"}
<1>1. /\ IInv /\ Sound(kern, {}, 0) /\ kern.task = task /\ kern.rq = rq
      /\ task[p] \in TaskStructs /\ task[p].prio \in Prio
  BY IInvFacts, KernType DEF Safe, IInv, KernelInv
<1>2. task[p].array \in ArrayId
  BY <1>1, TaskFields DEF Queued
<1>3. Linked(rq.arrays[task[p].array], p, task[p].prio)
  <2> DEFINE a == task[p].array
  <2>1. /\ rq.arrays[a] \in PrioArrays /\ Members(kern, {}, a) \in SUBSET Task
        /\ IsFiniteSet(Members(kern, {}, a))
        /\ Holds(rq.arrays[a], Members(kern, {}, a), task)
    BY <1>1, <1>2, SoundArray
  <2>2. p \in Members(kern, {}, a)
    BY <1>1 DEF Members
  <2> QED
    BY <1>1, <2>1, <2>2, DequeueHolds
<1>4. Fits(task[p], task[p].array, rq)
  BY <1>1 DEF Sound, QueuedBut
<1>5. task[p].state # "RUNNING" => p = rq.curr /\ pc[p] \in {"sleep", "exiting"}
  BY <1>1, IInvFacts
<1> QED
  BY <1>3, <1>4, <1>5

\* No sequence of system calls, ticks and wake-ups, on any number of processes,
\* makes the kernel follow a dead run_list pointer, find no list to take the next
\* task from, or hit do_fork's BUG (fork.c:727).  The requests of processes have to be
\* Disciplined: the two kinds of setscheduler calls that it excludes do lose a process,
\* and a slice requested below a tick is no slice.
THEOREM NeverOops == ASSUME Disciplined PROVE Spec => []NoOops
<1>1. Safe => NoOops
  BY IInvFacts DEF Safe, KernelInv, Sound, NoOops, kern
<1> QED
  BY <1>1, AlwaysSafe, PTL

\* The four priority arrays agree with the tasks at any time: the bitmap with the
\* lists, the lists with the array and priority of their entries (sched.c:273-287).
THEOREM ListsAlwaysConsistent == ASSUME Disciplined PROVE Spec => []ListsConsistent
<1> QED
  BY SafeLists, AlwaysSafe, PTL

\* nr_running and the nr_active of the arrays count the queued tasks at any time
\* (sched.c:328-392).
THEOREM CountsAlwaysConsistent == ASSUME Disciplined PROVE Spec => []CountsConsistent
<1> QED
  BY SafeCounts, AlwaysSafe, PTL

\* No process is lost: one that may run is linked, and is linked where it says, and
\* only current is linked without being about to run (sched.c:459-503, 1067-1078).
THEOREM NoTaskLost == ASSUME Disciplined PROVE Spec => []RunnableIsQueued
<1>1. Safe => RunnableIsQueued
  <2>1. SUFFICES ASSUME Safe PROVE RunnableIsQueued
    OBVIOUS
  <2>2. IInv
    BY <2>1 DEF Safe
  <2>3. \A p \in Task : task[p].state = "RUNNING" => Queued(task[p])
    BY <2>2, IInvFacts
  <2> QED
    BY <2>1, <2>3, SafeQueued DEF RunnableIsQueued
<1> QED
  BY <1>1, AlwaysSafe, PTL

\* Each array holds its own class of processes at any time, and no real-time process
\* is ever in expired (sched.c:342-354, 1107-1144).
THEOREM ClassesApart == ASSUME Disciplined PROVE Spec => []ClassPlacement
<1>1. Safe => ClassPlacement
  BY SafeQueued DEF ClassPlacement, Fits
<1> QED
  BY <1>1, AlwaysSafe, PTL

\* nr_uninterruptible is the number of processes asleep uninterruptibly, whatever
\* wakes up before it has left the runqueue (sched.c:385-392, 459-503).
THEOREM SleepersAlwaysCounted == ASSUME Disciplined PROVE Spec => []SleepersCounted
<1>1. ASSUME Safe PROVE SleepersCounted
  <2>1. kern.task = task /\ kern.rq = rq /\ Counted(kern, Embryos(pc))
    BY <1>1, IInvFacts DEF Safe
  <2>2. Asleep(kern, Embryos(pc)) =
          {p \in Task : /\ task[p].state = "UNINTERRUPTIBLE"
                        /\ ~Queued(task[p]) /\ pc[p] # "embryo"}
    BY <2>1 DEF Asleep, Embryos
  <2> QED
    BY <2>1, <2>2 DEF Counted, SleepersCounted
<1> QED
  BY <1>1, AlwaysSafe, PTL

\* schedule never passes over a process of a better class, nor over a better priority
\* among real-time and among SHORT processes, and idles only when nothing is queued
\* (sched.c:1107-1150).
THEOREM DispatchesByClass == ASSUME Disciplined PROVE Spec => DispatchByClass
<1>1. ASSUME Safe, [Next]_vars PROVE [SwitchesToBest]_vars
  <2>1. SUFFICES ASSUME rq'.curr # rq.curr, NEW p \in Task, Queued(task'[p])
                 PROVE  /\ rq'.curr # Idle
                        /\ LET t == task'[rq'.curr] IN
                             /\ Rank(t) <= Rank(task'[p])
                             /\ Rank(t) \in {1, 2} /\ Rank(t) = Rank(task'[p])
                                  => t.prio <= task'[p].prio
    BY DEF SwitchesToBest
  <2>2. Best(kern')
    BY <1>1, <2>1, NextSafe DEF Safe, SafeStep
  <2>3. kern'.task = task' /\ kern'.rq = rq'
    BY DEF kern
  <2>4. p \in QueuedBut(kern', {})
    BY <2>1, <2>3 DEF QueuedBut
  <2>5. rq'.curr \in Task /\ Beats(task'[rq'.curr], task'[p])
    BY <2>2, <2>3, <2>4 DEF Best
  <2> QED
    BY <2>5, IdleAssumption DEF Beats
<1> QED
  BY <1>1, AlwaysSafe, PTL DEF Spec, DispatchByClass

-----------------------------------------------------------------------------
(* Slices and trials.  Most of the kernel moves processes about and leaves   *)
(* what processor time they have alone.                                      *)

\* The fields that say what processor time a process has left.
SameBudget(t, t2) ==
  /\ t2.policy = t.policy /\ t2.is_overdue = t.is_overdue
  /\ t2.requested_time = t.requested_time /\ t2.time_slice = t.time_slice
  /\ t2.number_of_trials = t.number_of_trials /\ t2.current_trial = t.current_trial
SameBudgets(k, k2, X) == \A q \in AllTask \ X : SameBudget(k.task[q], k2.task[q])

\* A process on its trials holds no more ticks than the slice of its trial.
Within(t) == ShortNow(t) => t.time_slice <= SHORT_TIMESLICE(t)

\* Budgets that stay the same, stay the same twice.
LEMMA BudgetsTrans ==
  ASSUME NEW k1, NEW k2, NEW k3, NEW X, SameBudgets(k1, k2, X), SameBudgets(k2, k3, X)
  PROVE  SameBudgets(k1, k3, X)
BY DEF SameBudgets, SameBudget

\* The tasks are the same ones.
LEMMA BudgetsTask ==
  ASSUME NEW k1, NEW k2, NEW X, k2.task = k1.task
  PROVE  SameBudgets(k1, k2, X)
BY DEF SameBudgets, SameBudget

\* What is the same for all is the same for all but some.
LEMMA BudgetsBut ==
  ASSUME NEW k1, NEW k2, NEW X, SameBudgets(k1, k2, {})
  PROVE  SameBudgets(k1, k2, X)
BY DEF SameBudgets

\* A process with the same budget holds as much of its trial.
LEMMA BudgetWithin ==
  ASSUME NEW t, NEW t2, SameBudget(t, t2), Within(t)
  PROVE  Within(t2)
BY DEF SameBudget, Within, ShortNow, SHORT_TIMESLICE

\* An assignment to fields of one task.
LEMMA BudgetsSet ==
  ASSUME NEW k \in Kernels, NEW p \in AllTask, NEW t, NEW X,
         p \in X \/ SameBudget(k.task[p], t)
  PROVE  /\ SameBudgets(k, [k EXCEPT !.task[p] = t], X)
         /\ [k EXCEPT !.task[p] = t].task[p] = t
BY KernelParts DEF SameBudgets, SameBudget, Kernels

\* resched_task (sched.c:394-407).
LEMMA ReschedBudgets ==
  ASSUME NEW k \in Kernels, NEW p \in AllTask
  PROVE  SameBudgets(k, resched_task(k, p), {})
<1> DEFINE t == [k.task[p] EXCEPT !.need_resched = TRUE]
<1>1. resched_task(k, p) = [k EXCEPT !.task[p] = t]
  BY DEF resched_task, Kernels
<1>2. SameBudget(k.task[p], t)
  BY KernelParts DEF SameBudget, TaskStructs
<1> HIDE DEF t
<1> QED
  BY <1>1, <1>2, BudgetsSet

\* enqueue_task (sched.c:281-287).
LEMMA EnqueueBudgets ==
  ASSUME NEW k \in Kernels, NEW p \in Task, NEW a \in ArrayId
  PROVE  SameBudgets(k, enqueue_task(k, p, a), {})
<1> DEFINE t == [k.task[p] EXCEPT !.array = a]
<1>1. enqueue_task(k, p, a).task = [k.task EXCEPT ![p] = t]
  BY EnqueueRecord
<1>2. SameBudget(k.task[p], t) /\ p \in AllTask
  BY KernelParts DEF SameBudget, TaskStructs, AllTask
<1> HIDE DEF t
<1> QED
  BY <1>1, <1>2, KernelParts DEF SameBudgets, SameBudget

\* dequeue_task (sched.c:273-279).
LEMMA DequeueTask ==
  ASSUME NEW k \in Kernels, NEW p, NEW a
  PROVE  dequeue_task(k, p, a).task = k.task
BY DEF dequeue_task, Oops, Kernels

\* activate_task (sched.c:328-383).
LEMMA ActivateBudgets ==
  ASSUME NEW k \in Kernels, NEW p \in Task, NEW prio \in Prio
  PROVE  SameBudgets(k, activate_task(k, p, prio), {})
<1> DEFINE k0 == [k EXCEPT !.task[p].prio = prio]
           t  == [k.task[p] EXCEPT !.prio = prio]
           a  == HomeArray(k, k.task[p])
           k1 == enqueue_task(k0, p, a)
<1>1. k0 = [k EXCEPT !.task[p] = t]
  BY DEF Kernels
<1>2. SameBudget(k.task[p], t) /\ p \in AllTask
  BY KernelParts DEF SameBudget, TaskStructs, AllTask
<1>3. k0 \in Kernels /\ a \in ArrayId
  BY <1>2, SetPrio, Counts DEF Evolves, HomeArray, ArrayId
<1>4. activate_task(k, p, prio) = [k1 EXCEPT !.rq.nr_running = @ + 1]
  BY DEF activate_task
<1> HIDE DEF t
<1>5. SameBudgets(k, k0, {})
  BY <1>1, <1>2, BudgetsSet
<1> HIDE DEF k0, a
<1>6. SameBudgets(k0, k1, {}) /\ k1 \in Kernels
  BY <1>3, EnqueueBudgets, EnqueueEvolves DEF Evolves
<1> HIDE DEF k1
<1>7. activate_task(k, p, prio).task = k1.task
  BY <1>4, <1>6 DEF Kernels
<1> QED
  BY <1>5, <1>6, <1>7, BudgetsTrans, BudgetsTask

\* deactivate_task (sched.c:385-392).
LEMMA DeactivateBudgets ==
  ASSUME NEW k \in Kernels, NEW p \in AllTask
  PROVE  SameBudgets(k, deactivate_task(k, p), {})
<1> DEFINE m  == IF k.task[p].state = "UNINTERRUPTIBLE" THEN k.rq.nr_uninterruptible + 1
                 ELSE k.rq.nr_uninterruptible
           k1 == WithCounts(k, k.rq.nr_running - 1, m)
           k2 == dequeue_task(k1, p, k.task[p].array)
           t  == [k2.task[p] EXCEPT !.array = "NULL"]
<1>1. k1 \in Kernels /\ k1.task = k.task
  BY SetCounts, Counts, CountsEffect DEF Evolves
<1>2. deactivate_task(k, p) = [k2 EXCEPT !.task[p].array = "NULL"]
  <2>1. k1 = [k EXCEPT !.rq.nr_running = @ - 1,
                      !.rq.nr_uninterruptible =
                         IF k.task[p].state = "UNINTERRUPTIBLE" THEN @ + 1 ELSE @]
    BY DEF Kernels, RunQueues, WithCounts
  <2> QED
    BY <2>1, Zenon DEF deactivate_task
<1>3. k.task[p].array \in ArrayId \cup {"NULL"}
  BY KernelParts, TaskFields
<1> HIDE DEF k1
<1>4. k2.task = k1.task /\ k2 \in Kernels
  BY <1>1, <1>3, DequeueTask, DequeueEvolves DEF Evolves
<1> HIDE DEF k2
<1>5. [k2 EXCEPT !.task[p].array = "NULL"] = [k2 EXCEPT !.task[p] = t]
  BY <1>4 DEF Kernels
<1>6. SameBudget(k2.task[p], t)
  BY <1>4, KernelParts DEF SameBudget, TaskStructs
<1> HIDE DEF t
<1>7. SameBudgets(k2, deactivate_task(k, p), {})
  BY <1>2, <1>4, <1>5, <1>6, BudgetsSet
<1> QED
  BY <1>1, <1>4, <1>7, BudgetsTask, BudgetsTrans

\* An assignment to the state of a task.
LEMMA StateBudgets ==
  ASSUME NEW k \in Kernels, NEW p \in AllTask, NEW s
  PROVE  SameBudgets(k, [k EXCEPT !.task[p].state = s], {})
<1> DEFINE t == [k.task[p] EXCEPT !.state = s]
<1>1. [k EXCEPT !.task[p].state = s] = [k EXCEPT !.task[p] = t]
  BY DEF Kernels
<1>2. SameBudget(k.task[p], t)
  BY KernelParts DEF SameBudget, TaskStructs
<1> HIDE DEF t
<1> QED
  BY <1>1, <1>2, BudgetsSet

\* try_to_wake_up (sched.c:459-503).
LEMMA WakeBudgets ==
  ASSUME NEW k \in Kernels, NEW p \in Task, NEW prio \in Prio
  PROVE  SameBudgets(k, try_to_wake_up(k, p, prio), {})
<1> DEFINE k1 == [k EXCEPT !.rq.nr_uninterruptible =
                         IF k.task[p].state = "UNINTERRUPTIBLE" THEN @ - 1 ELSE @]
           m  == IF k.task[p].state = "UNINTERRUPTIBLE" THEN k.rq.nr_uninterruptible - 1
                 ELSE k.rq.nr_uninterruptible
           k2 == activate_task(k1, p, prio)
           k3 == IF k2.task[p].prio < k2.task[k.rq.curr].prio
                 THEN resched_task(k2, k.rq.curr) ELSE k2
           kw == IF k.task[p].array = "NULL" THEN k3 ELSE k
           ke == [kw EXCEPT !.task[p].state = "RUNNING"]
<1>1. ke = try_to_wake_up(k, p, prio)
  BY Zenon DEF try_to_wake_up
<1>2. k1 \in Kernels /\ k1.task = k.task
  <2>1. k1 = WithCounts(k, k.rq.nr_running, m)
    BY DEF Kernels, RunQueues, WithCounts
  <2> QED
    BY <2>1, SetCounts, Counts, CountsEffect DEF Evolves
<1> HIDE DEF k1
<1>3. SameBudgets(k1, k2, {}) /\ k2 \in Kernels
  BY <1>2, ActivateBudgets, ActivateEvolves DEF Evolves
<1> HIDE DEF k2
<1>4. SameBudgets(k2, k3, {}) /\ k3 \in Kernels
  BY <1>3, ReschedBudgets, ReschedEvolves, Counts, BudgetsTask DEF Evolves
<1> HIDE DEF k3
<1>5. SameBudgets(k, kw, {}) /\ kw \in Kernels
  BY <1>2, <1>3, <1>4, BudgetsTask, BudgetsTrans
<1> HIDE DEF kw
<1>6. SameBudgets(kw, ke, {})
  BY <1>5, StateBudgets DEF AllTask
<1> HIDE DEF ke
<1> QED
  BY <1>1, <1>5, <1>6, BudgetsTrans

\* The choice of the next task, and the switch to it (sched.c:1082-1219).
LEMMA PickBudgets ==
  ASSUME NEW k \in Kernels, NEW prev \in AllTask
  PROVE  SameBudgets(k, pick_next_task(k, prev), {})
<1> DEFINE t == [k.task[prev] EXCEPT !.need_resched = FALSE]
           k1 == swap_arrays(k)
           q  == list_at(k1, pick_queue(k1))
<1>1. k1.task = k.task /\ k1 \in Kernels
  BY SwapEvolves DEF swap_arrays, Kernels, Evolves
<1>2. pick_next_task(k, prev) =
        IF k.rq.nr_running = 0 THEN switch_tasks(k, prev, Idle)
        ELSE IF q = << >> THEN Oops(k1, "no_queue")
        ELSE switch_tasks(k1, prev, Head(q))
  BY DEF pick_next_task
<1> HIDE DEF k1, q
<1>3. SameBudget(k.task[prev], t)
  BY KernelParts DEF SameBudget, TaskStructs
<1>4. \A kk \in {k, k1} : \A next :
         switch_tasks(kk, prev, next).task = [k.task EXCEPT ![prev] = t]
  BY <1>1 DEF switch_tasks, Kernels
<1>5. Oops(k1, "no_queue").task = k.task
  BY <1>1 DEF Oops, Kernels
<1>6. \/ pick_next_task(k, prev).task = k.task
      \/ pick_next_task(k, prev).task = [k.task EXCEPT ![prev] = t]
  BY <1>2, <1>4, <1>5
<1> HIDE DEF t
<1> QED
  BY <1>3, <1>6, KernelParts DEF SameBudgets, SameBudget

\* schedule (sched.c:1046-1219).
LEMMA ScheduleBudgets ==
  ASSUME NEW k \in Kernels, NEW signal_pending \in BOOLEAN
  PROVE  SameBudgets(k, schedule(k, signal_pending), {})
<1> DEFINE k1 == leave_runqueue(k, k.rq.curr, signal_pending)
<1>1. k1 \in Kernels /\ k.rq.curr \in AllTask
  BY LeaveEvolves, Counts DEF Evolves
<1>2. SameBudgets(k, k1, {})
  BY <1>1, StateBudgets, DeactivateBudgets, BudgetsTask DEF leave_runqueue
<1> HIDE DEF k1
<1>3. SameBudgets(k1, pick_next_task(k1, k.rq.curr), {})
  BY <1>1, PickBudgets
<1> QED
  BY <1>2, <1>3, BudgetsTrans DEF schedule, k1


\* The requeueing of a yielding process (sched.c:1880-1904).
LEMMA RequeueBudgets ==
  ASSUME NEW k \in Kernels, NEW p \in Task
  PROVE  SameBudgets(k, requeue_yielding(k, p), {})
<1> DEFINE t    == k.task[p]
           arr  == k.rq.arrays[t.array]
           q    == list_del(arr.queue[t.prio], p)
           bits == arr.bitmap \ {t.prio}
           i    == find_first_bit([arr EXCEPT !.bitmap = bits])
           to   == IF i = MAX_PRIO \/ i <= t.prio THEN t.prio ELSE i
           arr1 == [arr EXCEPT !.queue[t.prio] = q]
           u    == [t EXCEPT !.prio = to]
           k2   == requeue_yielding(k, p)
<1>1. p \in AllTask /\ t \in TaskStructs
  BY KernelParts DEF AllTask
<1>2. k2 = IF t.array = "NULL" THEN Oops(k, "dequeue_null_array")
           ELSE IF ~Linked(arr, p, t.prio) THEN Oops(k, "dequeue_unlinked")
           ELSE IF rt_task(t)
           THEN [k EXCEPT !.rq.arrays[t.array].queue[t.prio] = Append(q, p)]
           ELSE IF q # << >>
           THEN [k EXCEPT !.rq.arrays[t.array].queue[t.prio] = list_add_after_first(q, p)]
           ELSE [k EXCEPT !.task[p].prio = to,
                          !.rq.arrays[t.array] =
                             [arr1 EXCEPT !.bitmap = bits \cup {to},
                                          !.queue[to] = list_add_after_first(@, p)]]
  BY DEF requeue_yielding
<1> HIDE DEF arr, q, bits, to, arr1
<1>3. SameBudget(t, u)
  BY <1>1 DEF SameBudget, TaskStructs
<1>4. k2.task = k.task \/ k2.task = [k.task EXCEPT ![p] = u]
  <2>1. \A what : Oops(k, what).task = k.task
    BY DEF Oops, Kernels
  <2>2. \A x, a, j : [k EXCEPT !.rq.arrays[a].queue[j] = x].task = k.task
    BY DEF Kernels
  <2>3. \A x, a : [k EXCEPT !.task[p].prio = to, !.rq.arrays[a] = x].task
                    = [k.task EXCEPT ![p] = u]
    BY DEF Kernels
  <2> HIDE DEF t, u
  <2> QED
    BY <1>2, <2>1, <2>2, <2>3
<1> HIDE DEF u, t, k2
<1> QED
  BY <1>1, <1>3, <1>4, KernelParts DEF SameBudgets, SameBudget, t, k2

\* set_user_nice (sched.c:1378-1419).
LEMMA NiceBudgets ==
  ASSUME NEW k \in Kernels, NEW p \in Task, NEW nice \in Int
  PROVE  SameBudgets(k, set_user_nice(k, p, nice), {})
<1> DEFINE t    == k.task[p]
           prio == NICE_TO_PRIO(nice)
           k1   == IF t.array = "NULL" THEN k ELSE dequeue_task(k, p, t.array)
           u    == [k1.task[p] EXCEPT !.static_prio = prio, !.prio = prio]
           k2   == [k1 EXCEPT !.task[p].static_prio = prio, !.task[p].prio = prio]
           k3   == enqueue_task(k2, p, t.array)
           v    == [t EXCEPT !.static_prio = prio]
           k4   == set_user_nice(k, p, nice)
<1>0. p \in AllTask /\ t \in TaskStructs /\ t.prio \in Prio /\ k.rq.curr \in AllTask
  BY KernelParts, Counts DEF AllTask
<1>1. \/ k4 = k
      \/ k4 = [k EXCEPT !.task[p].static_prio = prio]
      \/ k4 = k2
      \/ prio \in UserPrio /\ t.array # "NULL" /\ k4 \in {k3, resched_task(k3, k.rq.curr)}
  <2>1. CASE nice < -NiceHalf \/ nice > NiceHalf - 1
    BY <2>1 DEF set_user_nice
  <2>2. CASE ~ (nice < -NiceHalf \/ nice > NiceHalf - 1)
    <3>1. prio \in UserPrio
      <4>1. -NiceHalf \in Int /\ NiceHalf - 1 \in Int
        BY PrioAssumption, MaxPrioAssumption DEF NiceHalf
      <4> QED
        BY <2>2, <4>1, NicePrioType
    <3> QED
      BY <3>1 DEF set_user_nice
  <2> QED
    BY <2>1, <2>2
<1>2. [k EXCEPT !.task[p].static_prio = prio] = [k EXCEPT !.task[p] = v]
  BY DEF Kernels
<1>3. SameBudget(t, v)
  BY <1>0 DEF SameBudget, TaskStructs
<1> HIDE DEF prio, v, k4
<1>4. SameBudgets(k, [k EXCEPT !.task[p].static_prio = prio], {})
  BY <1>0, <1>2, <1>3, BudgetsSet
<1>5. k1.task = k.task /\ k1 \in Kernels
  BY <1>0, TaskFields, DequeueTask, DequeueEvolves DEF Evolves
<1> HIDE DEF k1
<1>6. k2 = [k1 EXCEPT !.task[p] = u]
  BY <1>5 DEF Kernels
<1>7. SameBudget(k1.task[p], u) /\ (prio \in UserPrio => u \in TaskStructs /\ u.prio \in Prio)
  <2>1. k1.task[p] \in TaskStructs
    BY <1>0, <1>5, KernelParts
  <2>2. prio \in UserPrio => prio \in Prio /\ prio \in 0 .. MAX_PRIO
    BY NicePrioType, MaxPrioAssumption DEF Prio
  <2> QED
    BY <2>1, <2>2 DEF SameBudget, TaskStructs
<1> HIDE DEF u, k2
<1>8. SameBudgets(k1, k2, {}) /\ (prio \in UserPrio => k2 \in Kernels)
  BY <1>0, <1>5, <1>6, <1>7, BudgetsSet, ReplaceTask DEF EvolvesBut
<1>9. SameBudgets(k, k2, {})
  BY <1>5, <1>8, BudgetsTask, BudgetsTrans
<1>10. ASSUME prio \in UserPrio, t.array # "NULL"
       PROVE  SameBudgets(k2, k3, {}) /\ k3 \in Kernels
  <2>1. t.array \in ArrayId
    BY <1>0, <1>10, TaskFields
  <2> QED
    BY <1>8, <1>10, <2>1, EnqueueBudgets, EnqueueEvolves DEF Evolves
<1> HIDE DEF k3, t
<1>11. ASSUME prio \in UserPrio, t.array # "NULL"
       PROVE  SameBudgets(k3, resched_task(k3, k.rq.curr), {})
  BY <1>0, <1>10, <1>11, ReschedBudgets
<1>12. SameBudgets(k, k4, {})
  BY <1>1, <1>4, <1>9, <1>10, <1>11, BudgetsTask, BudgetsTrans
<1> QED
  BY <1>12 DEF k4

-----------------------------------------------------------------------------
(* What a tick takes *)

\* A step that leaves the budgets of others alone, and of that of p the policy and what
\* p has asked for; trials are counted upwards.
Spent(k, k2, p) ==
  /\ SameBudgets(k, k2, {p})
  /\ LET t  == k.task[p]
         t2 == k2.task[p]
     IN  /\ t2.policy = t.policy /\ t2.requested_time = t.requested_time
         /\ t2.number_of_trials = t.number_of_trials
         /\ t.current_trial \in Nat /\ t2.current_trial \in Nat
         /\ t.current_trial <= t2.current_trial

\* A tick moreover keeps p within its trial.
Ticked(k, k2, p) == Spent(k, k2, p) /\ (Within(k.task[p]) => Within(k2.task[p]))

\* Two such steps are one.
LEMMA SpentTrans ==
  ASSUME NEW k1, NEW k2, NEW k3, NEW p, Spent(k1, k2, p), Spent(k2, k3, p)
  PROVE  Spent(k1, k3, p)
BY BudgetsTrans DEF Spent

\* A step that leaves budgets alone spends nothing.
LEMMA SpentSame ==
  ASSUME NEW k \in Kernels, NEW k2, NEW p \in AllTask, SameBudgets(k, k2, {})
  PROVE  Spent(k, k2, p) /\ Ticked(k, k2, p) /\ SameBudget(k.task[p], k2.task[p])
<1>1. SameBudget(k.task[p], k2.task[p])
  BY DEF SameBudgets
<1>2. k.task[p].current_trial \in Nat
  BY KernelParts, TaskFields
<1>3. Spent(k, k2, p)
  BY <1>1, <1>2, BudgetsBut DEF Spent, SameBudget
<1> QED
  BY <1>1, <1>3, BudgetWithin DEF Ticked

\* An assignment to the slice of p.
LEMMA SpentSlice ==
  ASSUME NEW k \in Kernels, NEW p \in AllTask, NEW n \in 0 .. UINT - 1
  PROVE  LET k2 == [k EXCEPT !.task[p].time_slice = n]
         IN  /\ Spent(k, k2, p) /\ k2 \in Kernels
             /\ k2.task[p] = [k.task[p] EXCEPT !.time_slice = n]
<1> DEFINE t  == [k.task[p] EXCEPT !.time_slice = n]
           k2 == [k EXCEPT !.task[p].time_slice = n]
<1>1. k2 = [k EXCEPT !.task[p] = t]
  BY DEF Kernels
<1>2. k2 \in Kernels
  BY SetSlice DEF Evolves
<1>3. /\ t.policy = k.task[p].policy /\ t.requested_time = k.task[p].requested_time
      /\ t.number_of_trials = k.task[p].number_of_trials
      /\ t.current_trial = k.task[p].current_trial /\ t.current_trial \in Nat
  BY KernelParts DEF TaskStructs
<1> HIDE DEF t, k2
<1>4. SameBudgets(k, k2, {p}) /\ k2.task[p] = t
  BY <1>1, BudgetsSet
<1>5. Spent(k, k2, p)
  BY <1>3, <1>4 DEF Spent
<1> QED
  BY <1>2, <1>4, <1>5 DEF k2, t

\* The end of the last trial: an overdue process is within any trial
\* (sched.c:921-928).
LEMMA BecomeOverdueSpent ==
  ASSUME NEW k \in Kernels, NEW p \in Task
  PROVE  LET k2 == become_overdue(k, p)
         IN  Spent(k, k2, p) /\ Within(k2.task[p])
<1> DEFINE k0 == [k EXCEPT !.task[p].time_slice = 1]
           k1 == dequeue_task(k0, p, "short_q")
           u  == [k1.task[p] EXCEPT !.prio = 0]
           k2 == [k1 EXCEPT !.task[p].prio = 0]
           k3 == enqueue_task(k2, p, "overdue")
           t  == [k3.task[p] EXCEPT !.is_overdue = TRUE]
           k4 == [k3 EXCEPT !.task[p] = t]
<1>0. /\ p \in AllTask /\ 0 \in Prio /\ "overdue" \in ArrayId
      /\ "short_q" \in ArrayId \cup {"NULL"} /\ 1 \in 0 .. UINT - 1
  BY MaxPrioAssumption, TimeAssumption DEF AllTask, Prio, ArrayId
<1>1. Spent(k, k0, p) /\ k0 \in Kernels
  BY <1>0, SpentSlice
<1>2. become_overdue(k, p) = [k3 EXCEPT !.task[p].is_overdue = TRUE]
  BY DEF become_overdue
<1> HIDE DEF k0
<1>3. k1.task = k0.task /\ k1 \in Kernels
  BY <1>0, <1>1, DequeueTask, DequeueEvolves DEF Evolves
<1> HIDE DEF k1
<1>4. k2 = [k1 EXCEPT !.task[p] = u] /\ k2 \in Kernels
  BY <1>0, <1>3, SetPrio DEF Kernels, Evolves
<1>5. SameBudget(k1.task[p], u)
  BY <1>0, <1>3, KernelParts DEF SameBudget, TaskStructs
<1> HIDE DEF k2, u
<1>6. SameBudgets(k1, k2, {})
  BY <1>0, <1>3, <1>4, <1>5, BudgetsSet
<1>7. SameBudgets(k2, k3, {}) /\ k3 \in Kernels
  BY <1>0, <1>4, EnqueueBudgets, EnqueueEvolves DEF Evolves
<1> HIDE DEF k3
<1>8. SameBudgets(k0, k3, {})
  BY <1>3, <1>6, <1>7, BudgetsTask, BudgetsTrans
<1>9. Spent(k, k3, p)
  BY <1>0, <1>1, <1>8, SpentSame, SpentTrans
<1>10. become_overdue(k, p) = k4
  BY <1>2, <1>7 DEF Kernels
<1>11. /\ t.policy = k3.task[p].policy /\ t.requested_time = k3.task[p].requested_time
       /\ t.number_of_trials = k3.task[p].number_of_trials /\ t.is_overdue = TRUE
       /\ t.current_trial = k3.task[p].current_trial /\ t.current_trial \in Nat
  BY <1>0, <1>7, KernelParts DEF TaskStructs
<1> HIDE DEF t
<1>12. SameBudgets(k3, k4, {p}) /\ k4.task[p] = t
  BY <1>0, <1>7, BudgetsSet
<1> HIDE DEF k4
<1>13. Spent(k3, k4, p)
  BY <1>11, <1>12 DEF Spent
<1>14. Within(k4.task[p])
  BY <1>11, <1>12 DEF Within, ShortNow
<1> QED
  BY <1>9, <1>10, <1>13, <1>14, SpentTrans

\* SHORT_TIMESLICE depends on the request and the trial only.
LEMMA SliceOfTrial ==
  ASSUME NEW t, NEW t2, t2.requested_time = t.requested_time,
         t2.current_trial = t.current_trial
  PROVE  SHORT_TIMESLICE(t2) = SHORT_TIMESLICE(t)
BY DEF SHORT_TIMESLICE

\* The end of any other trial: the slice of the next one (sched.c:930-938).
LEMMA NextTrialSpent ==
  ASSUME NEW k \in Kernels, NEW p \in Task
  PROVE  LET k2 == next_trial(k, p)
         IN  Spent(k, k2, p) /\ Within(k2.task[p])
<1> DEFINE n  == SHORT_TIMESLICE(k.task[p])
           k1 == [k EXCEPT !.task[p].time_slice = SHORT_TIMESLICE(k.task[p])]
           k2 == dequeue_task(k1, p, "short_q")
           k3 == enqueue_task(k2, p, "short_q")
           t1 == [k.task[p] EXCEPT !.time_slice = n]
<1>0. /\ p \in AllTask /\ "short_q" \in ArrayId /\ "short_q" \in ArrayId \cup {"NULL"}
      /\ k.task[p] \in TaskStructs
  BY KernelParts DEF AllTask, ArrayId
<1>1. n \in 0 .. UINT - 1
  BY <1>0, ShortTimesliceType
<1>2. next_trial(k, p) = IF k1.task[p].time_slice = 0 THEN become_overdue(k1, p) ELSE k3
  BY DEF next_trial
<1>3. Spent(k, k1, p) /\ k1 \in Kernels /\ k1.task[p] = t1
  BY <1>0, <1>1, SpentSlice
<1>4. /\ t1.time_slice = n /\ t1.requested_time = k.task[p].requested_time
      /\ t1.current_trial = k.task[p].current_trial
  BY <1>0 DEF TaskStructs
<1>5. SHORT_TIMESLICE(t1) = n
  BY <1>4, SliceOfTrial
<1> HIDE DEF k1, t1, n
<1>6. Spent(k1, become_overdue(k1, p), p) /\ Within(become_overdue(k1, p).task[p])
  BY <1>3, BecomeOverdueSpent
<1>7. k2.task = k1.task /\ k2 \in Kernels
  BY <1>0, <1>3, DequeueTask, DequeueEvolves DEF Evolves
<1> HIDE DEF k2
<1>8. SameBudgets(k2, k3, {})
  BY <1>0, <1>7, EnqueueBudgets
<1> HIDE DEF k3
<1>9. Spent(k1, k3, p) /\ SameBudget(t1, k3.task[p])
  BY <1>0, <1>3, <1>7, <1>8, SpentSame, BudgetsTask, BudgetsTrans
<1>10. n <= n
  BY <1>1, TimeAssumption
<1>11. Within(t1)
  BY <1>4, <1>5, <1>10 DEF Within
<1>12. Within(k3.task[p])
  BY <1>9, <1>11, BudgetWithin
<1> QED
  BY <1>2, <1>3, <1>6, <1>9, <1>12, SpentTrans

\* A slice that counts down is a slice that gets shorter.
LEMMA TickDownTicked ==
  ASSUME NEW k \in Kernels, NEW p \in Task, k.task[p].time_slice # 0
  PROVE  LET k2 == [k EXCEPT !.task[p].time_slice = Dec(@)]
         IN  Ticked(k, k2, p) /\ k2 \in Kernels
<1> DEFINE t  == k.task[p]
           n  == Dec(t.time_slice)
           t2 == [t EXCEPT !.time_slice = n]
           k2 == [k EXCEPT !.task[p].time_slice = n]
<1>1. p \in AllTask /\ t \in TaskStructs /\ t.time_slice \in 0 .. UINT - 1 /\ UINT \in Nat
  BY KernelParts, TaskFields, TimeAssumption DEF AllTask
<1>2. n \in 0 .. UINT - 1 /\ n <= t.time_slice
  BY <1>1 DEF Dec
<1>3. [k EXCEPT !.task[p].time_slice = Dec(@)] = k2
  BY DEF Kernels
<1> HIDE DEF n
<1>4. Spent(k, k2, p) /\ k2 \in Kernels /\ k2.task[p] = t2
  BY <1>1, <1>2, SpentSlice
<1>5. /\ t2.time_slice = n /\ t2.requested_time = t.requested_time
      /\ t2.current_trial = t.current_trial /\ t2.policy = t.policy
      /\ t2.is_overdue = t.is_overdue
  BY <1>1 DEF TaskStructs
<1>6. SHORT_TIMESLICE(t2) = SHORT_TIMESLICE(t) /\ SHORT_TIMESLICE(t) \in 0 .. UINT - 1
  BY <1>1, <1>5, SliceOfTrial, ShortTimesliceType
<1> HIDE DEF t2, k2, t
<1>7. Within(t) => Within(t2)
  BY <1>1, <1>2, <1>5, <1>6 DEF Within, ShortNow
<1>8. Ticked(k, k2, p)
  BY <1>4, <1>7 DEF Ticked, t
<1> QED
  BY <1>3, <1>4, <1>8

\* The tick of a SHORT process (sched.c:914-942).
LEMMA TickShortTicked ==
  ASSUME NEW k \in Kernels, NEW p \in Task, k.task[p].time_slice # 0
  PROVE  Ticked(k, tick_short(k, p), p)
<1> DEFINE k1 == [k EXCEPT !.task[p].time_slice = Dec(@)]
           t  == [k1.task[p] EXCEPT !.current_trial = @ + 1, !.first_time_slice = FALSE]
           k2 == [k1 EXCEPT !.task[p].current_trial = @ + 1, !.task[p].first_time_slice = FALSE]
           k3 == IF k2.task[p].current_trial >= k2.task[p].number_of_trials
                 THEN become_overdue(k2, p) ELSE next_trial(k2, p)
           k4 == resched_task(k3, p)
<1>0. p \in AllTask
  BY DEF AllTask
<1>1. Ticked(k, k1, p) /\ k1 \in Kernels
  BY TickDownTicked
<1>2. tick_short(k, p) = IF k1.task[p].time_slice > 0 THEN k1 ELSE k4
  BY DEF tick_short
<1> HIDE DEF k1
<1>3. k2 = [k1 EXCEPT !.task[p] = t]
  BY <1>0, <1>1 DEF Kernels
<1>4. k1.task[p] \in TaskStructs /\ t \in TaskStructs /\ k1.task[p].prio \in Prio
  BY <1>0, <1>1, KernelParts, EndOfSliceType
<1>5. /\ t.policy = k1.task[p].policy /\ t.requested_time = k1.task[p].requested_time
      /\ t.number_of_trials = k1.task[p].number_of_trials /\ t.prio \in Prio
      /\ t.current_trial = k1.task[p].current_trial + 1
  BY <1>4 DEF TaskStructs
<1>6. k1.task[p].current_trial \in Nat
  BY <1>4, TaskFields
<1> HIDE DEF t, k2
<1>7. SameBudgets(k1, k2, {p}) /\ k2.task[p] = t /\ k2 \in Kernels
  BY <1>0, <1>1, <1>3, <1>4, <1>5, BudgetsSet, ReplaceTask DEF EvolvesBut
<1>8. Spent(k1, k2, p)
  BY <1>5, <1>6, <1>7 DEF Spent
<1>9. Spent(k2, k3, p) /\ Within(k3.task[p]) /\ k3 \in Kernels
  BY <1>7, BecomeOverdueSpent, NextTrialSpent, BecomeOverdueEvolves, NextTrialEvolves DEF Evolves
<1> HIDE DEF k3
<1>10. SameBudgets(k3, k4, {})
  BY <1>0, <1>9, ReschedBudgets
<1> HIDE DEF k4
<1>11. Spent(k3, k4, p) /\ Within(k4.task[p])
  BY <1>0, <1>9, <1>10, SpentSame, BudgetWithin
<1>12. Ticked(k, k4, p)
  BY <1>1, <1>8, <1>9, <1>11, SpentTrans DEF Ticked
<1> QED
  BY <1>1, <1>2, <1>12

\* A process that is not SHORT is within any trial.
LEMMA NotShortTicked ==
  ASSUME NEW k, NEW k2, NEW p, Spent(k, k2, p), k.task[p].policy # "SHORT"
  PROVE  Ticked(k, k2, p)
BY DEF Ticked, Spent, Within, ShortNow

\* The tick of a real-time process (sched.c:957-971).
LEMMA TickRRTicked ==
  ASSUME NEW k \in Kernels, NEW p \in Task, k.task[p].time_slice # 0,
         k.task[p].policy # "SHORT"
  PROVE  Ticked(k, tick_rr(k, p), p)
<1> DEFINE k1 == [k EXCEPT !.task[p].time_slice = Dec(@)]
           n  == TASK_TIMESLICE(k.task[p])
           t  == [k.task[p] EXCEPT !.time_slice = n,
                                   !.first_time_slice = FALSE, !.need_resched = TRUE]
           k2 == [k EXCEPT !.task[p].time_slice = TASK_TIMESLICE(k.task[p]),
                     !.task[p].first_time_slice = FALSE, !.task[p].need_resched = TRUE]
           k3 == dequeue_task(k2, p, k.rq.active)
           k4 == enqueue_task(k3, p, k.rq.active)
<1>0. /\ p \in AllTask /\ k.task[p] \in TaskStructs /\ k.task[p].prio \in Prio
      /\ k.rq.active \in ArrayId /\ k.rq.active \in ArrayId \cup {"NULL"}
  BY KernelParts, Counts DEF AllTask
<1>1. Ticked(k, k1, p)
  BY TickDownTicked
<1>2. k2 = [k EXCEPT !.task[p] = t]
  BY <1>0 DEF Kernels
<1>3. tick_rr(k, p) = IF k.task[p].policy # "RR" THEN k
                      ELSE IF k1.task[p].time_slice > 0 THEN k1 ELSE k4
  BY DEF tick_rr
<1>4. n \in 0 .. UINT - 1
  BY <1>0, TimesliceType
<1> HIDE DEF n, k1
<1>5. t \in TaskStructs
  BY <1>0, <1>4 DEF TaskStructs
<1>6. /\ t.policy = k.task[p].policy /\ t.requested_time = k.task[p].requested_time
      /\ t.number_of_trials = k.task[p].number_of_trials /\ t.prio \in Prio
      /\ t.current_trial = k.task[p].current_trial /\ t.current_trial \in Nat
  BY <1>0, <1>5 DEF TaskStructs
<1> HIDE DEF t, k2
<1>7. SameBudgets(k, k2, {p}) /\ k2.task[p] = t /\ k2 \in Kernels
  BY <1>0, <1>2, <1>5, <1>6, BudgetsSet, ReplaceTask DEF EvolvesBut
<1>8. Spent(k, k2, p)
  BY <1>6, <1>7 DEF Spent
<1>9. k3.task = k2.task /\ k3 \in Kernels
  BY <1>0, <1>7, DequeueTask, DequeueEvolves DEF Evolves
<1> HIDE DEF k3
<1>10. SameBudgets(k3, k4, {})
  BY <1>0, <1>9, EnqueueBudgets
<1> HIDE DEF k4
<1>11. Spent(k, k4, p)
  BY <1>0, <1>7, <1>8, <1>9, <1>10, BudgetsTask, BudgetsTrans, SpentSame, SpentTrans
<1>12. Ticked(k, k, p)
  BY <1>0, SpentSame, BudgetsTask
<1> QED
  BY <1>1, <1>3, <1>11, <1>12, NotShortTicked

\* The tick of an OTHER process (sched.c:978-993).
LEMMA TickOtherTicked ==
  ASSUME NEW k \in Kernels, NEW p \in Task, k.task[p].time_slice # 0,
         k.task[p].policy # "SHORT", NEW prio \in Prio, NEW starving \in BOOLEAN
  PROVE  Ticked(k, tick_other(k, p, prio, starving), p)
<1> DEFINE k1 == [k EXCEPT !.task[p].time_slice = Dec(@)]
           k2 == dequeue_task(k, p, k.rq.active)
           n  == TASK_TIMESLICE(k.task[p])
           t  == [k2.task[p] EXCEPT !.need_resched = TRUE, !.prio = prio,
                    !.first_time_slice = FALSE, !.time_slice = n]
           k3 == [k2 EXCEPT !.task[p].need_resched = TRUE, !.task[p].prio = prio,
                            !.task[p].first_time_slice = FALSE,
                            !.task[p].time_slice = n]
           a  == IF ~TASK_INTERACTIVE(k3.task[p]) \/ starving THEN k.rq.expired
                 ELSE k.rq.active
           k4 == enqueue_task(k3, p, a)
<1>0. /\ p \in AllTask /\ k.task[p] \in TaskStructs
      /\ k.rq.active \in ArrayId \cup {"NULL"}
  BY KernelParts, Counts DEF AllTask
<1>1. Ticked(k, k1, p)
  BY TickDownTicked
<1>2. k2.task = k.task /\ k2 \in Kernels
  BY <1>0, DequeueTask, DequeueEvolves DEF Evolves
<1>3. tick_other(k, p, prio, starving) = IF k1.task[p].time_slice > 0 THEN k1 ELSE k4
  BY DEF tick_other
<1>4. n \in 0 .. UINT - 1
  BY <1>0, TimesliceType
<1>5. a \in ArrayId
  BY Counts
<1> HIDE DEF k1, k2, n, a
<1>6. k3 = [k2 EXCEPT !.task[p] = t]
  BY <1>0, <1>2, ZenonT(30) DEF Kernels
<1>7. k2.task[p] \in TaskStructs /\ t \in TaskStructs
  <2>1. prio \in 0 .. MAX_PRIO
    BY MaxPrioAssumption DEF Prio
  <2>2. k2.task[p] \in TaskStructs
    BY <1>0, <1>2
  <2> QED
    BY <1>4, <2>1, <2>2 DEF TaskStructs
<1>8. /\ t.policy = k2.task[p].policy /\ t.requested_time = k2.task[p].requested_time
      /\ t.number_of_trials = k2.task[p].number_of_trials /\ t.prio \in Prio
      /\ t.current_trial = k2.task[p].current_trial /\ t.current_trial \in Nat
  BY <1>7 DEF TaskStructs
<1> HIDE DEF t, k3
<1>9. SameBudgets(k2, k3, {p}) /\ k3.task[p] = t /\ k3 \in Kernels
  BY <1>0, <1>2, <1>6, <1>7, <1>8, BudgetsSet, ReplaceTask DEF EvolvesBut
<1>10. Spent(k2, k3, p)
  BY <1>8, <1>9 DEF Spent
<1>11. SameBudgets(k3, k4, {})
  BY <1>5, <1>9, EnqueueBudgets
<1> HIDE DEF k4
<1>12. Spent(k, k4, p)
  BY <1>0, <1>2, <1>9, <1>10, <1>11, BudgetsTask, SpentSame, SpentTrans
<1> QED
  BY <1>1, <1>3, <1>12, NotShortTicked

\* scheduler_tick (sched.c:859-1002).
LEMMA TickTicked ==
  ASSUME NEW k \in Kernels, NEW p \in AllTask, p = k.rq.curr,
         p \in Task => k.task[p].time_slice # 0,
         NEW prio, p \in Task => prio \in Prio, NEW starving \in BOOLEAN
  PROVE  Ticked(k, scheduler_tick(k, prio, starving), p)
<1>1. p # Idle => p \in Task
  BY DEF AllTask
<1>2. Ticked(k, k, p) /\ Ticked(k, resched_task(k, p), p)
  BY BudgetsTask, ReschedBudgets, SpentSame
<1> QED
  BY <1>1, <1>2, TickShortTicked, TickRRTicked, TickOtherTicked DEF scheduler_tick

-----------------------------------------------------------------------------
(* What setscheduler gives, and what fork shares *)

\* setscheduler gives p the first trial of its request, and takes nothing from others
\* (sched.c:1643-1700).
LEMMA SetschedulerWithin ==
  ASSUME NEW k \in Kernels, NEW p \in Task, NEW r \in SchedRequests, NEW prio \in Prio,
         ~(k.task[p].policy = "SHORT" /\ RequestedPolicy(k.task[p], r) = "SHORT"),
         Within(k.task[p])
  PROVE  LET k2 == setscheduler(k, p, r, prio)
         IN  SameBudgets(k, k2, {p}) /\ Within(k2.task[p])
<1> DEFINE t      == k.task[p]
           policy == RequestedPolicy(t, r)
           k1     == IF t.array = "NULL" THEN k ELSE deactivate_task(k, p)
           k2     == IF t.policy = "OTHER" /\ policy = "SHORT" THEN set_short(k1, p, r)
                     ELSE k1
           pr     == IF policy \in {"FIFO", "RR"} THEN prio ELSE t.static_prio
           k3     == [k2 EXCEPT !.task[p].policy = policy,
                                !.task[p].prio = IF policy \in {"FIFO", "RR"} THEN prio
                                                 ELSE t.static_prio]
           w      == [k2.task[p] EXCEPT !.policy = policy, !.prio = pr]
           k4     == IF t.array = "NULL" THEN k3 ELSE activate_task(k3, p, prio)
           k6     == resched_task(k4, k.rq.curr)
           ks     == schedule(k6, FALSE)
           ke     == setscheduler(k, p, r, prio)
<1>0. p \in AllTask /\ t \in TaskStructs /\ t.prio \in Prio /\ k.rq.curr \in AllTask
  BY KernelParts, Counts DEF AllTask
<1>1. ke = IF SetschedulerRejects(t, r) THEN k ELSE IF policy = "SHORT" THEN ks ELSE k4
  <2> DEFINE k5 == [k1 EXCEPT !.task[p].requested_time = r.time]
  <2>1. ke = IF SetschedulerRejects(t, r) THEN k
             ELSE IF t.policy = "SHORT" /\ policy = "SHORT" THEN k5
             ELSE IF policy = "SHORT" THEN ks ELSE k4
    BY DEF setscheduler
  <2> HIDE DEF ke, ks, k4, k5
  <2> QED
    BY <2>1
<1>2. CASE SetschedulerRejects(t, r)
  <2>1. ke = k
    BY <1>1, <1>2
  <2> HIDE DEF ke
  <2>2. SameBudgets(k, ke, {p}) /\ Within(ke.task[p])
    BY <2>1, BudgetsTask
  <2> QED
    BY <2>2 DEF ke
<1>3. CASE ~SetschedulerRejects(t, r)
  <2>1. policy \in Policies /\ pr \in Prio /\ (policy = "SHORT" => t.policy = "OTHER")
    <3>1. t.policy \in Policies /\ t.static_prio \in Prio
      BY <1>0, TaskFields, NicePrioType
    <3>2. r.policy # "KEEP" => r.policy \in Policies
      BY DEF SchedRequests
    <3>3. policy = "SHORT" => t.policy = "OTHER"
      BY <1>3, <3>1 DEF SetschedulerRejects, Policies
    <3> QED
      BY <3>1, <3>2, <3>3 DEF RequestedPolicy
  <2>2. SameBudgets(k, k1, {p}) /\ k1 \in Kernels
    BY <1>0, DeactivateBudgets, BudgetsTask, BudgetsBut, DeactivateEvolves DEF Evolves
  <2> HIDE DEF k1, pr
  <2>3. /\ SameBudgets(k1, k2, {p}) /\ k2 \in Kernels
        /\ policy = "SHORT" => k2.task[p].time_slice = SHORT_TIMESLICE(k2.task[p])
    <3> DEFINE u == [k1.task[p] EXCEPT !.requested_time = r.time,
                       !.number_of_trials = r.trials, !.array = "short_q",
                       !.current_trial = 0, !.is_overdue = FALSE]
               v == [u EXCEPT !.time_slice = SHORT_TIMESLICE(u)]
    <3>1. set_short(k1, p, r) = [k1 EXCEPT !.task[p] = v]
      BY DEF set_short
    <3>2. set_short(k1, p, r) \in Kernels
      BY <2>2, SetShortEvolves DEF EvolvesBut
    <3>3. k1.task[p] \in TaskStructs
      BY <1>0, <2>2, KernelParts
    <3>4. u \in TaskStructs
      <4>1. r.time \in Nat /\ r.trials \in Int
        BY DEF SchedRequests
      <4> QED
        BY <3>3, <4>1 DEF TaskStructs, ArrayId
    <3> HIDE DEF u
    <3>5. /\ v.time_slice = SHORT_TIMESLICE(u) /\ v.requested_time = u.requested_time
          /\ v.current_trial = u.current_trial
      BY <3>4 DEF TaskStructs
    <3>6. v.time_slice = SHORT_TIMESLICE(v)
      BY <3>5, SliceOfTrial
    <3> HIDE DEF v
    <3>7. /\ SameBudgets(k1, set_short(k1, p, r), {p})
          /\ set_short(k1, p, r).task[p] = v
      BY <1>0, <2>2, <3>1, BudgetsSet
    <3> HIDE DEF policy, t
    <3> QED
      BY <2>1, <2>2, <3>2, <3>6, <3>7, BudgetsTask
  <2> HIDE DEF k2, policy
  <2>4. k3 = [k2 EXCEPT !.task[p] = w]
    BY <1>0, <2>3 DEF Kernels, pr
  <2>5. k2.task[p] \in TaskStructs
    BY <1>0, <2>3, KernelParts
  <2>6. /\ w \in TaskStructs /\ w.prio \in Prio /\ w.policy = policy
        /\ w.time_slice = k2.task[p].time_slice
        /\ w.requested_time = k2.task[p].requested_time
        /\ w.current_trial = k2.task[p].current_trial
    <3>1. pr \in 0 .. MAX_PRIO
      BY <2>1, MaxPrioAssumption DEF Prio
    <3>2. w \in TaskStructs
      BY <2>1, <2>5, <3>1 DEF TaskStructs
    <3> QED
      BY <2>1, <2>5, <3>2 DEF TaskStructs
  <2> HIDE DEF w, k3
  <2>7. SameBudgets(k2, k3, {p}) /\ k3.task[p] = w /\ k3 \in Kernels
    <3>1. k2 \in Kernels /\ w \in TaskStructs /\ w.prio \in Prio
      BY <2>3, <2>6
    <3>2. SameBudgets(k2, k3, {p}) /\ k3.task[p] = w
      BY <1>0, <2>4, <3>1, BudgetsSet
    <3>3. EvolvesBut(k2, k3, p)
      BY <1>0, <2>4, <3>1, ReplaceTask
    <3> QED
      BY <3>2, <3>3 DEF EvolvesBut
  <2>8. Within(w)
    <3>1. CASE policy = "SHORT"
      <4>1. w.time_slice = SHORT_TIMESLICE(w)
        BY <2>3, <2>6, <3>1, SliceOfTrial
      <4>2. w.time_slice <= w.time_slice
        BY <2>6, TaskFields, TimeAssumption
      <4> QED
        BY <4>1, <4>2 DEF Within
    <3>2. CASE policy # "SHORT"
      BY <2>6, <3>2 DEF Within, ShortNow
    <3> QED
      BY <3>1, <3>2
  <2>9. SameBudgets(k3, k4, {}) /\ k4 \in Kernels
    BY <2>7, ActivateBudgets, ActivateEvolves, BudgetsTask DEF Evolves
  <2> HIDE DEF k4
  <2>10. SameBudgets(k4, k6, {}) /\ k6 \in Kernels
    BY <1>0, <2>9, ReschedBudgets, ReschedEvolves DEF Evolves
  <2> HIDE DEF k6
  <2>11. SameBudgets(k6, ks, {})
    BY <2>10, ScheduleBudgets
  <2> HIDE DEF ks
  <2>12. SameBudgets(k3, ke, {})
    BY <1>1, <1>3, <2>9, <2>10, <2>11, BudgetsTrans
  <2> HIDE DEF ke
  <2>13. SameBudget(w, ke.task[p])
    BY <1>0, <2>7, <2>12 DEF SameBudgets
  <2>14. Within(ke.task[p])
    BY <2>8, <2>13, BudgetWithin
  <2>15. SameBudgets(k, ke, {p})
    BY <2>2, <2>3, <2>7, <2>12, BudgetsBut, BudgetsTrans
  <2> QED
    BY <2>14, <2>15 DEF ke
<1> QED
  BY <1>2, <1>3

\* What the split leaves p and c, of what p had.
Split(k, k2, p, c) ==
  /\ SameBudgets(k, k2, {p, c})
  /\ LET t  == k.task[p]
         t2 == k2.task[p]
         n  == t.number_of_trials
     IN  /\ t2.policy = t.policy /\ t2.is_overdue = t.is_overdue
         /\ t2.requested_time = t.requested_time /\ t2.current_trial = t.current_trial
         /\ t2.time_slice = t.time_slice \div 2
         /\ t2.number_of_trials = IF ShortNow(t) THEN n \div 2 ELSE n
  /\ LET t  == k.task[p]
         u  == k.task[c]
         u2 == k2.task[c]
     IN  /\ u2.requested_time = u.requested_time
         /\ u2.time_slice = (t.time_slice + 1) \div 2
         /\ ShortNow(t) => /\ u2.current_trial = 0
                           /\ u2.number_of_trials =
                                (t.number_of_trials - t.current_trial + 1) \div 2
         /\ Overdue(t) => u2.is_overdue
         /\ t.policy # "SHORT" => u2.policy = u.policy

\* The split of slice and trials, before the tick of a parent that is left without a
\* slice (fork.c:728-747).
LEMMA SplitBudgets ==
  ASSUME NEW k \in Kernels, NEW p \in Task, NEW c \in Task, p # c
  PROVE  LET k2 == split_trials(split_slice(k, p, c), p, c)
         IN  Split(k, k2, p, c) /\ k2 \in Kernels
<1> DEFINE n  == k.task[p].time_slice
           u0 == [k.task[c] EXCEPT !.time_slice = (n + 1) \div 2, !.first_time_slice = TRUE]
           t0 == [k.task[p] EXCEPT !.time_slice = n \div 2]
           ka == [k EXCEPT !.task[c] = u0]
           ks == split_slice(k, p, c)
           h  == (t0.number_of_trials - t0.current_trial + 1) \div 2
           u  == [u0 EXCEPT !.policy = "SHORT", !.number_of_trials = h,
                            !.current_trial = 0, !.is_overdue = FALSE]
           w  == [u0 EXCEPT !.policy = "SHORT", !.is_overdue = TRUE]
           ku == [ks EXCEPT !.task[c] = u]
           kw == [ks EXCEPT !.task[c] = w]
           v  == [t0 EXCEPT !.number_of_trials = t0.number_of_trials \div 2]
           kv == [ku EXCEPT !.task[p].number_of_trials =
                               ku.task[p].number_of_trials \div 2]
           k2 == split_trials(ks, p, c)
<1>1. /\ p \in AllTask /\ c \in AllTask /\ k.task[p] \in TaskStructs
      /\ k.task[c] \in TaskStructs /\ k.task \in [AllTask -> TaskStructs]
  BY KernelParts DEF AllTask
<1>2. ks \in Kernels /\ k2 \in Kernels
  <2>1. ks \in Kernels
    BY SplitSliceEvolves DEF Evolves
  <2> QED
    BY <2>1, SplitTrialsEvolves DEF EvolvesBut
<1>3. /\ t0.policy = k.task[p].policy /\ t0.is_overdue = k.task[p].is_overdue
      /\ t0.requested_time = k.task[p].requested_time
      /\ t0.current_trial = k.task[p].current_trial
      /\ t0.number_of_trials = k.task[p].number_of_trials /\ t0.time_slice = n \div 2
      /\ u0.policy = k.task[c].policy /\ u0.requested_time = k.task[c].requested_time
      /\ u0.time_slice = (n + 1) \div 2
  BY <1>1 DEF TaskStructs
<1>4. /\ ks.task[p] = t0 /\ ks.task[c] = u0
      /\ \A q \in AllTask \ {p, c} : ks.task[q] = k.task[q]
  <2>1. ks = [ka EXCEPT !.task[p].time_slice = n \div 2]
    BY DEF split_slice
  <2>2. ka = [task |-> [k.task EXCEPT ![c] = u0], rq |-> k.rq, oops |-> k.oops]
    BY <1>1, KernelParts DEF Kernels
  <2>3. ka.task[p] = k.task[p]
    BY <1>1, <2>2
  <2> HIDE DEF u0, ka, ks
  <2>4. ks.task = [[k.task EXCEPT ![c] = u0] EXCEPT ![p] = t0]
    BY <1>1, <2>1, <2>2, <2>3
  <2> HIDE DEF t0
  <2> QED
    BY <1>1, <2>4
<1>5. /\ v.policy = t0.policy /\ v.is_overdue = t0.is_overdue
      /\ v.requested_time = t0.requested_time /\ v.current_trial = t0.current_trial
      /\ v.number_of_trials = t0.number_of_trials \div 2 /\ v.time_slice = t0.time_slice
      /\ u.policy = "SHORT" /\ u.requested_time = u0.requested_time
      /\ u.time_slice = u0.time_slice /\ u.current_trial = 0 /\ u.number_of_trials = h
      /\ w.requested_time = u0.requested_time /\ w.time_slice = u0.time_slice
      /\ w.is_overdue
  <2>1. ks.task[p] \in TaskStructs /\ ks.task[c] \in TaskStructs
    BY <1>1, <1>2, KernelParts
  <2>2. t0 \in TaskStructs /\ u0 \in TaskStructs
    BY <1>4, <2>1
  <2> HIDE DEF t0, u0, h, n
  <2> QED
    BY <2>2 DEF TaskStructs
<1>6. k2 = IF t0.policy # "SHORT" THEN ks ELSE IF t0.is_overdue THEN kw ELSE kv
  <2> HIDE DEF t0, u0, ks
  <2> QED
    BY <1>4 DEF split_trials
<1>7. /\ k2.task[p] = IF ShortNow(t0) THEN v ELSE t0
      /\ k2.task[c] = IF t0.policy # "SHORT" THEN u0 ELSE IF t0.is_overdue THEN w ELSE u
      /\ \A q \in AllTask \ {p, c} : k2.task[q] = ks.task[q]
  <2> HIDE DEF u, w, ks, t0, u0, k2
  <2>1. ks.task \in [AllTask -> TaskStructs] /\ ks = [task |-> ks.task, rq |-> ks.rq, oops |-> ks.oops]
    BY <1>2, KernelParts
  <2>2. kw.task = [ks.task EXCEPT ![c] = w]
    BY <1>2 DEF Kernels
  <2>3. ku.task = [ks.task EXCEPT ![c] = u] /\ ku = [task |-> ku.task, rq |-> ks.rq, oops |-> ks.oops]
    BY <1>1, <2>1
  <2>4. ku.task[p] = t0
    BY <1>1, <1>4, <2>1, <2>3
  <2> HIDE DEF ku, kw
  <2>5. kv.task = [ku.task EXCEPT ![p] = v]
    BY <1>1, <2>3, <2>4
  <2> HIDE DEF kv, v
  <2>6. CASE t0.policy # "SHORT"
    BY <1>4, <1>6, <2>6 DEF ShortNow
  <2>7. CASE t0.policy = "SHORT" /\ t0.is_overdue
    BY <1>1, <1>4, <1>6, <2>1, <2>2, <2>7 DEF ShortNow
  <2>8. CASE t0.policy = "SHORT" /\ ~t0.is_overdue
    BY <1>1, <1>4, <1>6, <2>1, <2>3, <2>5, <2>8 DEF ShortNow
  <2> QED
    BY <2>6, <2>7, <2>8
<1> HIDE DEF t0, u0, u, w, v, ks, k2
<1>8. SameBudgets(k, k2, {p, c})
  BY <1>4, <1>7 DEF SameBudgets, SameBudget
<1>9. (ShortNow(t0) <=> ShortNow(k.task[p])) /\ (Overdue(t0) <=> Overdue(k.task[p]))
  BY <1>3 DEF ShortNow, Overdue
<1>10. Split(k, k2, p, c)
  <2> DEFINE t  == k.task[p]
             t2 == k2.task[p]
             m  == t.number_of_trials
             c1 == k.task[c]
             c2 == k2.task[c]
  <2>1. /\ t2.policy = t.policy /\ t2.is_overdue = t.is_overdue
        /\ t2.requested_time = t.requested_time /\ t2.current_trial = t.current_trial
        /\ t2.time_slice = t.time_slice \div 2
        /\ t2.number_of_trials = IF ShortNow(t) THEN m \div 2 ELSE m
    BY <1>3, <1>5, <1>7, <1>9
  <2>2. c2.requested_time = c1.requested_time /\ c2.time_slice = (t.time_slice + 1) \div 2
    BY <1>3, <1>5, <1>7
  <2>3. ShortNow(t) => c2.current_trial = 0 /\ c2.number_of_trials = (m - t.current_trial + 1) \div 2
    BY <1>3, <1>5, <1>7, <1>9 DEF ShortNow
  <2>4. Overdue(t) => c2.is_overdue
    BY <1>5, <1>7, <1>9 DEF Overdue
  <2>5. t.policy # "SHORT" => c2.policy = c1.policy
    BY <1>3, <1>7
  <2> QED
    BY <1>8, <2>1, <2>2, <2>3, <2>4, <2>5 DEF Split
<1> QED
  BY <1>2, <1>10 DEF k2, ks

\* What do_fork's sharing leaves p and c: the split, and a tick for a p that had a slice
\* of one tick.
Shares(k, k2, p, c) ==
  /\ SameBudgets(k, k2, {p, c})
  /\ LET t  == k.task[p]
         t2 == k2.task[p]
         n  == t.number_of_trials
     IN  /\ t2.policy = t.policy
         /\ t.current_trial \in Nat /\ t2.current_trial \in Nat
         /\ t.current_trial <= t2.current_trial
         /\ t.time_slice # 1 => t2.time_slice = t.time_slice \div 2
         /\ ShortNow(t) => t2.number_of_trials = n \div 2
         /\ Within(t) => Within(t2)
  /\ LET t  == k.task[p]
         u  == k.task[c]
         u2 == k2.task[c]
     IN  /\ u2.requested_time = u.requested_time
         /\ u2.time_slice = (t.time_slice + 1) \div 2
         /\ ShortNow(t) => /\ u2.current_trial = 0
                           /\ u2.number_of_trials =
                                (t.number_of_trials - t.current_trial + 1) \div 2
         /\ Overdue(t) => u2.is_overdue
         /\ t.policy # "SHORT" => u2.policy = u.policy

\* The split and the assignment to the slice leave current in its place.
LEMMA SplitCurr ==
  ASSUME NEW k \in Kernels, NEW p \in Task, NEW c \in Task
  PROVE  split_trials(split_slice(k, p, c), p, c).rq = k.rq
<1> DEFINE ks == split_slice(k, p, c)
<1>1. ks.rq = k.rq /\ ks \in Kernels
  <2>1. ks.rq = k.rq
    BY DEF split_slice, Kernels
  <2>2. p \in AllTask /\ c \in AllTask
    BY DEF AllTask
  <2> QED
    BY <2>1, <2>2, SplitSliceEvolves DEF Evolves
<1> HIDE DEF ks
<1>2. split_trials(ks, p, c).rq = ks.rq
  BY <1>1 DEF split_trials, Kernels
<1> QED
  BY <1>1, <1>2 DEF ks

\* What the split leaves p, without the tick.
LEMMA SplitShares ==
  ASSUME NEW k \in Kernels, NEW p \in Task, NEW c \in Task, NEW k1, Split(k, k1, p, c)
  PROVE  Shares(k, k1, p, c)
<1> DEFINE t == k.task[p]
           t1 == k1.task[p]
<1>1. t.time_slice \in Nat /\ t.current_trial \in Nat
  <2>1. p \in AllTask
    BY DEF AllTask
  <2>2. t \in TaskStructs
    BY <2>1, KernelParts
  <2>3. UINT \in Nat
    BY TimeAssumption
  <2> QED
    BY <2>2, <2>3 DEF TaskStructs
<1>2. t1.time_slice <= t.time_slice
  BY <1>1 DEF Split
<1>3. Within(t) => Within(t1)
  <2>1. ShortNow(t1) <=> ShortNow(t)
    BY DEF Split, ShortNow
  <2>2. SHORT_TIMESLICE(t1) = SHORT_TIMESLICE(t)
    BY SliceOfTrial DEF Split
  <2>3. SHORT_TIMESLICE(t) \in Nat
    <3>1. t \in TaskStructs
      BY KernelParts DEF AllTask
    <3>2. SHORT_TIMESLICE(t) \in 0 .. UINT - 1
      BY <3>1, ShortTimesliceType
    <3> QED
      BY <3>2, TimeAssumption
  <2>4. t1.time_slice = t.time_slice \div 2
    BY DEF Split
  <2> QED
    BY <1>1, <2>1, <2>2, <2>3, <2>4 DEF Within
<1> QED
  BY <1>1, <1>3 DEF Split, Shares

\* do_fork's section with interrupts disabled (fork.c:724-763).
LEMMA ShareShares ==
  ASSUME NEW k \in Kernels, NEW p \in Task, p = k.rq.curr, NEW c \in Task, p # c,
         k.task[p].time_slice # 0, NEW prio \in Prio, NEW starving \in BOOLEAN
  PROVE  Shares(k, share_timeslice(k, c, prio, starving), p, c)
<1> DEFINE n  == k.task[p].time_slice
           k1 == split_trials(split_slice(k, p, c), p, c)
           k2 == [k1 EXCEPT !.task[p].time_slice = 1]
           k3 == scheduler_tick(k2, prio, starving)
<1>0. p \in AllTask /\ c \in AllTask /\ 1 \in 0 .. UINT - 1
  BY TimeAssumption DEF AllTask
<1>1. Split(k, k1, p, c) /\ k1 \in Kernels
  BY SplitBudgets
<1>2. k1.rq = k.rq
  BY SplitCurr
<1>3. share_timeslice(k, c, prio, starving) = IF k1.task[p].time_slice > 0 THEN k1 ELSE k3
  BY DEF share_timeslice
<1> HIDE DEF k1
<1>4. Shares(k, k1, p, c)
  BY <1>1, SplitShares
<1>5. /\ Spent(k1, k2, p) /\ k2 \in Kernels
      /\ k2.task[p] = [k1.task[p] EXCEPT !.time_slice = 1]
  BY <1>0, <1>1, SpentSlice
<1>6. k2.rq = k.rq
  BY <1>1, <1>2 DEF Kernels
<1>7. k2.task[p].time_slice = 1 /\ k2.task[p].is_overdue = k1.task[p].is_overdue
      /\ k2.task[p].current_trial = k1.task[p].current_trial
  <2>1. k1.task[p] \in TaskStructs
    BY <1>0, <1>1, KernelParts
  <2> QED
    BY <1>5, <2>1 DEF TaskStructs
<1> HIDE DEF k2
<1>8. Ticked(k2, k3, p)
  <2>1. k2.task[p].time_slice # 0
    BY <1>7
  <2> QED
    BY <1>0, <1>5, <1>6, <2>1, TickTicked
<1> HIDE DEF k3
<1>9. CASE ~(k1.task[p].time_slice > 0)
  <2> DEFINE t  == k.task[p]
             t1 == k1.task[p]
             t2 == k2.task[p]
             t3 == k3.task[p]
  <2>1. n = 1
    <3>1. n \in 0 .. UINT - 1
      BY <1>0, KernelParts, TaskFields
    <3>2. n \in Nat
      BY <3>1, TimeAssumption
    <3>3. t1.time_slice = n \div 2
      BY <1>1 DEF Split
    <3> QED
      BY <1>9, <3>2, <3>3
  <2>2. Spent(k1, k3, p)
    BY <1>5, <1>8, SpentTrans DEF Ticked
  <2>3. Within(t) => Within(t3)
    <3>1. SUFFICES ASSUME Within(t) PROVE Within(t2)
      BY <1>8 DEF Ticked
    <3>2. /\ ShortNow(t2) <=> ShortNow(t)
          /\ t2.requested_time = t.requested_time /\ t2.current_trial = t.current_trial
      BY <1>1, <1>5, <1>7 DEF Split, Spent, ShortNow
    <3>3. SHORT_TIMESLICE(t2) = SHORT_TIMESLICE(t)
      BY <3>2, SliceOfTrial
    <3> QED
      BY <1>7, <2>1, <3>1, <3>2, <3>3 DEF Within
  <2>4. SameBudgets(k, k3, {p, c})
    BY <1>4, <2>2 DEF Shares, Spent, SameBudgets, SameBudget
  <2>5. SameBudget(k1.task[c], k3.task[c])
    BY <1>0, <2>2 DEF Spent, SameBudgets
  <2>6. /\ t3.policy = t.policy
        /\ t.current_trial \in Nat /\ t3.current_trial \in Nat
        /\ t.current_trial <= t3.current_trial
        /\ ShortNow(t) => t3.number_of_trials = t.number_of_trials \div 2
    BY <1>1, <2>2 DEF Split, Spent
  <2>7. Shares(k, k3, p, c)
    BY <1>4, <2>1, <2>3, <2>4, <2>5, <2>6 DEF Shares, SameBudget
  <2> QED
    BY <1>3, <1>9, <2>7
<1> QED
  BY <1>3, <1>4, <1>9

\* The child is within its trial when current was (fork.c:726-747).
LEMMA ShareWithin ==
  ASSUME Disciplined, NEW k \in Kernels, NEW k2 \in Kernels, NEW p \in Task, NEW c \in Task,
         Shares(k, k2, p, c), \A q \in Task : Within(k.task[q]),
         RequestTicks(k.task[p].requested_time) <= MaxSlice,
         k.task[c].policy = k.task[p].policy,
         k.task[c].requested_time = k.task[p].requested_time
  PROVE  \A q \in Task : Within(k2.task[q])
<1> DEFINE t  == k.task[p]
           u2 == k2.task[c]
<1>1. Within(k2.task[p])
  BY DEF Shares
<1>2. \A q \in Task \ {p, c} : Within(k2.task[q])
  BY BudgetWithin DEF Shares, SameBudgets, AllTask
<1>3. Within(u2)
  <2>1. SUFFICES ASSUME ShortNow(u2) PROVE u2.time_slice <= SHORT_TIMESLICE(u2)
    BY DEF Within
  <2>2. ShortNow(t)
    BY <2>1 DEF Shares, ShortNow, Overdue
  <2>3. t \in TaskStructs /\ u2 \in TaskStructs
    BY KernelParts DEF AllTask
  <2>4. /\ u2.time_slice = (t.time_slice + 1) \div 2 /\ u2.current_trial = 0
        /\ u2.requested_time = t.requested_time
    BY <2>2 DEF Shares
  <2>5. /\ SHORT_TIMESLICE(u2) = RequestTicks(t.requested_time)
        /\ SHORT_TIMESLICE(t) <= RequestTicks(t.requested_time)
        /\ SHORT_TIMESLICE(t) \in 0 .. MaxSlice
    BY <2>3, <2>4, ShortSlice
  <2>6. t.time_slice <= SHORT_TIMESLICE(t)
    BY <2>2 DEF Within
  <2>7. t.time_slice \in Nat /\ RequestTicks(t.requested_time) \in Nat /\ MaxSlice \in Nat
    <3>1. t.time_slice \in 0 .. UINT - 1 /\ t.requested_time \in Nat
      BY <2>3, TaskFields
    <3> QED
      BY <3>1, TimeAssumption, SliceBounds, RequestTicksGrows
  <2> QED
    BY <2>4, <2>5, <2>6, <2>7
<1> QED
  BY <1>1, <1>2, <1>3

\* The halves of what is left of the trials are no more than what was left.
LEMMA HalvesOfTrials ==
  ASSUME NEW n \in Int, NEW d \in Nat, NEW e \in Nat, d <= e
  PROVE  (n - d + 1) \div 2 + (n \div 2 - e) <= n - d
OBVIOUS

\* The shares are no more than what there was (fork.c:720).
LEMMA SharesLess ==
  ASSUME NEW k \in Kernels, NEW k2, NEW p \in Task, NEW c \in Task, Shares(k, k2, p, c),
         k.task[p].time_slice # 0
  PROVE  LET t  == k.task[p]
             t2 == k2.task[p]
             u2 == k2.task[c]
         IN  /\ t.time_slice # 1 => u2.time_slice + t2.time_slice = t.time_slice
             /\ u2.time_slice <= t.time_slice
             /\ ShortNow(t) => remaining_trials(u2) + remaining_trials(t2)
                                 <= remaining_trials(t)
<1> DEFINE t  == k.task[p]
           t2 == k2.task[p]
           u2 == k2.task[c]
<1>1. t \in TaskStructs
  BY KernelParts DEF AllTask
<1>2. t.time_slice \in Nat \ {0}
  <2>1. t.time_slice \in 0 .. UINT - 1
    BY <1>1, TaskFields
  <2> QED
    BY <2>1, TimeAssumption
<1>3. /\ t.time_slice # 1 => t2.time_slice = t.time_slice \div 2
      /\ u2.time_slice = (t.time_slice + 1) \div 2
  BY DEF Shares
<1>4. /\ t.time_slice # 1 => u2.time_slice + t2.time_slice = t.time_slice
      /\ u2.time_slice <= t.time_slice
  BY <1>2, <1>3
<1>5. ASSUME ShortNow(t)
      PROVE  remaining_trials(u2) + remaining_trials(t2) <= remaining_trials(t)
  <2> DEFINE n == t.number_of_trials
             d == t.current_trial
             e == t2.current_trial
  <2>1. n \in Int /\ d \in Nat /\ e \in Nat /\ d <= e
    BY <1>1 DEF TaskStructs, Shares
  <2>2. remaining_trials(u2) = (n - d + 1) \div 2 - 0 /\ remaining_trials(t2) = n \div 2 - e
    BY <1>5 DEF Shares, remaining_trials
  <2>3. remaining_trials(t) = n - d
    BY DEF remaining_trials
  <2> HIDE DEF n, d, e
  <2> QED
    BY <2>1, <2>2, <2>3, HalvesOfTrials
<1> QED
  BY <1>4, <1>5

-----------------------------------------------------------------------------
(* The rest of fork, and exit *)

\* The copy of current has the budget of current (fork.c:614-690).
LEMMA DupBudgets ==
  ASSUME NEW k \in Kernels, k.rq.curr \in Task, NEW c \in Task
  PROVE  LET k2 == dup_task(k, c)
         IN  SameBudgets(k, k2, {c}) /\ SameBudget(k.task[k.rq.curr], k2.task[c])
<1> DEFINE u == k.task[k.rq.curr]
           t == [u EXCEPT !.state = "UNINTERRUPTIBLE", !.array = "NULL"]
<1>1. u \in TaskStructs /\ c \in AllTask
  BY KernelParts DEF AllTask
<1>2. SameBudget(u, t)
  BY <1>1 DEF SameBudget, TaskStructs
<1>3. dup_task(k, c) = [k EXCEPT !.task[c] = t]
  BY DEF dup_task
<1> HIDE DEF t, u
<1>4. SameBudgets(k, dup_task(k, c), {c}) /\ dup_task(k, c).task[c] = t
  BY <1>1, <1>3, BudgetsSet
<1> QED
  BY <1>2, <1>4 DEF u

\* wake_up_forked_process requeues current and queues the child (sched.c:510-545).
LEMMA WakeForkedBudgets ==
  ASSUME NEW k \in Kernels, k.rq.curr \in Task, NEW c \in Task, NEW pprio \in Prio,
         NEW cprio \in Prio
  PROVE  SameBudgets(k, wake_up_forked_process(k, c, pprio, cprio), {})
<1> DEFINE p  == k.rq.curr
           k1 == [k EXCEPT !.task[c].state = "RUNNING"]
           k2 == deactivate_task(k1, p)
           k3 == activate_task(k2, p, pprio)
           k4 == IF k.task[c].policy # "SHORT" THEN k1 ELSE k3
           k5 == activate_task(k4, c, cprio)
<1>0. p \in AllTask /\ c \in AllTask
  BY DEF AllTask
<1>1. wake_up_forked_process(k, c, pprio, cprio) = k5
  BY DEF wake_up_forked_process
<1>2. SameBudgets(k, k1, {}) /\ k1 \in Kernels
  BY <1>0, SetState, StateBudgets DEF States, Evolves
<1> HIDE DEF k1
<1>3. SameBudgets(k1, k2, {}) /\ k2 \in Kernels
  BY <1>0, <1>2, DeactivateEvolves, DeactivateBudgets DEF Evolves
<1> HIDE DEF k2
<1>4. SameBudgets(k2, k3, {}) /\ k3 \in Kernels
  BY <1>3, ActivateEvolves, ActivateBudgets DEF Evolves
<1> HIDE DEF k3
<1>5. SameBudgets(k, k3, {})
  BY <1>2, <1>3, <1>4, BudgetsTrans
<1>6. SameBudgets(k, k4, {}) /\ k4 \in Kernels
  BY <1>2, <1>4, <1>5
<1> HIDE DEF k4
<1>7. SameBudgets(k4, k5, {})
  BY <1>6, ActivateBudgets
<1> QED
  BY <1>1, <1>6, <1>7, BudgetsTrans

\* The last part of do_fork (fork.c:768-815).
LEMMA ForkWakeBudgets ==
  ASSUME NEW k \in Kernels, NEW p \in Task, p = k.rq.curr, NEW c \in Task,
         NEW pprio \in Prio, NEW cprio \in Prio
  PROVE  LET k1 == [k EXCEPT !.task[c].parent = p]
             k2 == wake_up_forked_process(k1, c, pprio, cprio)
         IN  SameBudgets(k, resched_task(k2, p), {})
<1> DEFINE t  == [k.task[c] EXCEPT !.parent = p]
           k1 == [k EXCEPT !.task[c].parent = p]
           k2 == wake_up_forked_process(k1, c, pprio, cprio)
<1>1. p \in AllTask /\ c \in AllTask /\ k.task[c] \in TaskStructs /\ k.task[c].prio \in Prio
  BY KernelParts DEF AllTask
<1>2. k1 = [k EXCEPT !.task[c] = t]
  BY DEF Kernels
<1>3. t \in TaskStructs /\ t.prio \in Prio /\ SameBudget(k.task[c], t)
  BY <1>1 DEF TaskStructs, SameBudget
<1> HIDE DEF t
<1>4. k1 \in Kernels /\ k1.rq.curr = p
  <2>1. k1 \in Kernels
    BY <1>1, <1>2, <1>3, ReplaceTask DEF EvolvesBut
  <2> QED
    BY <2>1 DEF Kernels
<1>5. SameBudgets(k, k1, {})
  BY <1>1, <1>2, <1>3, BudgetsSet
<1> HIDE DEF k1
<1>6. SameBudgets(k1, k2, {}) /\ k2 \in Kernels
  BY <1>4, WakeForkedBudgets, WakeForkedEvolves DEF Evolves
<1> HIDE DEF k2
<1>7. SameBudgets(k2, resched_task(k2, p), {})
  BY <1>1, <1>6, ReschedBudgets
<1>8. SameBudgets(k, resched_task(k2, p), {})
  BY <1>5, <1>6, <1>7, BudgetsTrans
<1> QED
  BY <1>8 DEF k1, k2

\* forget_original_parent gives the children away, with their slices (exit.c:205-240).
LEMMA ForgetBudgets ==
  ASSUME NEW k \in Kernels, NEW p \in Task
  PROVE  SameBudgets(k, forget_original_parent(k, p), {})
<1> DEFINE k2 == forget_original_parent(k, p)
<1>1. ASSUME NEW q \in AllTask
      PROVE  k2.task[q] \in {k.task[q], [k.task[q] EXCEPT !.parent = Reaper,
                                                        !.first_time_slice = FALSE]}
  BY DEF forget_original_parent, Kernels
<1>2. ASSUME NEW t \in TaskStructs
      PROVE  SameBudget(t, t) /\ SameBudget(t, [t EXCEPT !.parent = Reaper,
                                                       !.first_time_slice = FALSE])
  BY DEF SameBudget, TaskStructs
<1> HIDE DEF k2
<1>3. ASSUME NEW q \in AllTask PROVE SameBudget(k.task[q], k2.task[q])
  <2>1. k.task[q] \in TaskStructs
    BY KernelParts
  <2> QED
    BY <1>1, <1>2, <2>1
<1> QED
  BY <1>3 DEF k2, SameBudgets

\* exit_notify up to the wake-up of the parent (exit.c:394-530).
LEMMA ZombieBudgets ==
  ASSUME NEW k \in Kernels, NEW p \in Task
  PROVE  LET k2 == [forget_original_parent(k, p) EXCEPT !.task[p].state = "ZOMBIE"]
         IN  SameBudgets(k, k2, {}) /\ k2 \in Kernels
<1> DEFINE k1 == forget_original_parent(k, p)
<1>1. SameBudgets(k, k1, {}) /\ k1 \in Kernels
  BY ForgetBudgets, ForgetEvolves DEF Evolves
<1> HIDE DEF k1
<1>2. LET k2 == [k1 EXCEPT !.task[p].state = "ZOMBIE"]
      IN  SameBudgets(k1, k2, {}) /\ k2 \in Kernels
  <2>1. p \in AllTask /\ "ZOMBIE" \in States
    BY DEF AllTask, States
  <2> QED
    BY <1>1, <2>1, SetState, StateBudgets DEF Evolves
<1> QED
  BY <1>1, <1>2, BudgetsTrans DEF k1

\* A free task_struct is within any trial.
LEMMA FreeWithin == Within(FreeTask)
BY DEF Within, ShortNow, FreeTask

-----------------------------------------------------------------------------
(* One fork at a time *)

\* The process that forks is current, and there is one embryo at most: the copy it is
\* making.
OneEmbryo ==
  \A c \in Task : pc[c] = "embryo" =>
    /\ \E p \in Task : pc[p] \in {"forking", "forked"}
    /\ \A c2 \in Task : pc[c2] = "embryo" => c2 = c

\* There is none while current is elsewhere.
LEMMA NoEmbryo ==
  ASSUME IInv, OneEmbryo, rq.curr \in Task => pc[rq.curr] \notin {"forking", "forked"}
  PROVE  \A c \in Task : pc[c] # "embryo"
<1>1. \A p \in Task : pc[p] \in {"forking", "forked"} => p = rq.curr
  BY IInvFacts DEF PlaceOK
<1> QED
  BY <1>1 DEF OneEmbryo

\* What a step of current does to its place.
LEMMA StepGoes ==
  ASSUME NEW p \in Task, Step(p), \A c \in Task : ~ForkDup(p, c) /\ ~ForkShare(p, c)
  PROVE  /\ p = rq.curr
         /\ \/ /\ pc[p] \notin {"forking", "forked"}
               /\ \E to \in {"none", "user", "sys", "sleep", "exiting"} : Goto(p, to)
            \/ /\ pc[p] \in {"forking", "forked"}
               /\ \E c \in Task, to \in {"none", "user"} :
                    pc[c] = "embryo" /\ pc' = [pc EXCEPT ![p] = "user", ![c] = to]
BY DEF Step, Enter, Return, PrepareToSleep, CancelSleep, Sleep, Yield, SetScheduler, Nice,
       ExitNotify, ExitSchedule, ForkFail, ForkWake, Reap, Call, At

\* After a step of current that neither copies nor splits there is no embryo.
LEMMA StepNoEmbryo ==
  ASSUME IInv, OneEmbryo, NEW p \in Task, Step(p),
         \A c \in Task : ~ForkDup(p, c) /\ ~ForkShare(p, c)
  PROVE  \A c \in Task : pc'[c] # "embryo"
<1>1. p = rq.curr /\ pc \in [Task -> PCs]
  BY StepGoes, IInvFacts
<1>2. CASE pc[p] \notin {"forking", "forked"}
  <2>1. \A c \in Task : pc[c] # "embryo"
    BY <1>1, <1>2, NoEmbryo
  <2>2. PICK to \in {"none", "user", "sys", "sleep", "exiting"} : Goto(p, to)
    BY <1>2, StepGoes
  <2> QED
    BY <1>1, <2>1, <2>2 DEF Goto
<1>3. CASE pc[p] \in {"forking", "forked"}
  <2>1. PICK c \in Task, to \in {"none", "user"} :
          pc[c] = "embryo" /\ pc' = [pc EXCEPT ![p] = "user", ![c] = to]
    BY <1>3, StepGoes
  <2>2. \A c2 \in Task : pc[c2] = "embryo" => c2 = c
    BY <2>1 DEF OneEmbryo
  <2> QED
    BY <1>1, <2>1, <2>2
<1> QED
  BY <1>2, <1>3

\* The copy is the only embryo.
LEMMA DupEmbryo ==
  ASSUME IInv, OneEmbryo, NEW p \in Task, NEW c \in Task, ForkDup(p, c)
  PROVE  /\ p # c /\ pc'[p] = "forking" /\ pc'[c] = "embryo"
         /\ \A q \in Task : /\ pc'[q] = "embryo" => q = c
                            /\ pc'[q] \in {"forking", "forked"} => q = p
<1>1. /\ p = rq.curr /\ pc[p] = "sys" /\ task[c].state = "FREE"
      /\ pc' = [pc EXCEPT ![p] = "forking", ![c] = "embryo"]
  BY DEF ForkDup, Call, At
<1>2. p # c
  BY <1>1, IInvFacts
<1>3. \A q \in Task : pc[q] # "embryo"
  BY <1>1, NoEmbryo
<1>4. \A q \in Task : pc[q] \in {"forking", "forked"} => q = p
  BY <1>1, IInvFacts DEF PlaceOK
<1> QED
  BY <1>1, <1>2, <1>3, <1>4, IInvFacts

\* One embryo there stays.
LEMMA NextOneEmbryo == ASSUME IInv, OneEmbryo, [Next]_vars PROVE OneEmbryo'
<1>1. CASE pc' = pc
  BY <1>1 DEF OneEmbryo
<1>2. CASE \E p \in Task : Step(p)
  <2>1. PICK p \in Task : Step(p)
    BY <1>2
  <2>2. CASE \A c \in Task : ~ForkDup(p, c) /\ ~ForkShare(p, c)
    BY <2>1, <2>2, StepNoEmbryo DEF OneEmbryo
  <2>3. CASE \E c \in Task : ForkDup(p, c)
    <3>1. PICK c \in Task : ForkDup(p, c)
      BY <2>3
    <3> QED
      BY <3>1, DupEmbryo DEF OneEmbryo
  <2>4. CASE \E c \in Task : ForkShare(p, c)
    <3>1. pc' = [pc EXCEPT ![p] = "forked"]
      BY <2>4 DEF ForkShare, Goto
    <3>2. pc'[p] = "forked" /\ \A q \in Task \ {p} : pc'[q] = pc[q]
      BY <3>1, IInvFacts
    <3> QED
      BY <3>2 DEF OneEmbryo
  <2> QED
    BY <2>2, <2>3, <2>4
<1> QED
  BY <1>1, <1>2 DEF Next, Tick, Reschedule, Wake, vars

\* There is none at first.
LEMMA InitOneEmbryo == ASSUME Init PROVE OneEmbryo
BY DEF Init, OneEmbryo

-----------------------------------------------------------------------------
(* Every process within its trial *)

\* The copy has asked for what current has, until the split.
Copied ==
  \A p, c \in Task : pc[p] = "forking" /\ pc[c] = "embryo"
    => task[c].policy = task[p].policy /\ task[c].requested_time = task[p].requested_time

BudgetInv == OneEmbryo /\ Copied /\ \A p \in Task : Within(task[p])

\* A step that leaves budgets alone, but those of X.
LEMMA SameWithin ==
  ASSUME IInv, BudgetInv, NEW STATE k, Become(k), NEW X, SameBudgets(kern, k, X),
         \A q \in X : Within(k.task[q])
  PROVE  \A q \in Task : Within(task'[q])
<1>1. task' = k.task /\ kern.task = task
  BY IInvFacts DEF Become
<1>2. ASSUME NEW q \in Task, q \notin X PROVE Within(k.task[q])
  BY <1>1, <1>2, BudgetWithin DEF SameBudgets, AllTask, BudgetInv
<1> QED
  BY <1>1, <1>2

\* The timer interrupt.
LEMMA TickBudget ==
  ASSUME IInv, BudgetInv, Tick PROVE Copied' /\ \A q \in Task : Within(task'[q])
<1>1. PICK prio \in TickPrios(task[rq.curr]), starving \in BOOLEAN :
        Become(scheduler_tick(kern, prio, starving)) /\ pc' = pc
  BY DEF Tick
<1> DEFINE p == rq.curr
           k == scheduler_tick(kern, prio, starving)
<1>2. p \in AllTask /\ kern \in Kernels /\ p = kern.rq.curr /\ kern.task = task
  BY IInvFacts
<1>3. p \in Task => prio \in Prio /\ task[p].time_slice # 0
  <2>1. SUFFICES ASSUME p \in Task PROVE prio \in Prio /\ task[p].time_slice # 0
    OBVIOUS
  <2>2. task[p] \in TaskStructs /\ task[p].prio \in Prio
    BY <2>1, KernType DEF IInv
  <2>3. prio \in Prio
    BY <1>1, <2>2, PrioChoices
  <2>4. TaskOK(task[p]) /\ Queued(task[p])
    BY <2>1, IInvFacts DEF KernelInv
  <2>5. task[p].time_slice \in 1 .. MaxSlice
    BY <2>4 DEF TaskOK
  <2> QED
    BY <2>3, <2>5
<1>4. Ticked(kern, k, p)
  BY <1>2, <1>3, TickTicked
<1>5. Become(k)
  BY <1>1
<1> HIDE DEF k
<1>6. Within(k.task[p]) \/ p \notin Task
  BY <1>2, <1>4 DEF Ticked, BudgetInv
<1>7. \A q \in Task : Within(task'[q])
  <2>1. task' = k.task
    BY <1>5 DEF Become
  <2>2. ASSUME NEW q \in Task, q # p PROVE Within(k.task[q])
    BY <1>2, <1>4, <2>2, BudgetWithin DEF Ticked, Spent, SameBudgets, AllTask, BudgetInv
  <2> QED
    BY <1>6, <2>1, <2>2
<1>8. \A q \in Task : /\ task'[q].policy = task[q].policy
                      /\ task'[q].requested_time = task[q].requested_time
  <2>1. task' = k.task
    BY <1>5 DEF Become
  <2>2. ASSUME NEW q \in Task
        PROVE  /\ k.task[q].policy = task[q].policy
               /\ k.task[q].requested_time = task[q].requested_time
    BY <1>2, <1>4 DEF Ticked, Spent, SameBudgets, SameBudget, AllTask
  <2> QED
    BY <2>1, <2>2
<1>9. Copied'
  BY <1>1, <1>8 DEF BudgetInv, Copied
<1> QED
  BY <1>7, <1>9

\* A step that leaves all budgets alone, and everybody in its place.
LEMMA SameCopied ==
  ASSUME IInv, BudgetInv, NEW STATE k, Become(k), SameBudgets(kern, k, {}), pc' = pc
  PROVE  Copied' /\ \A q \in Task : Within(task'[q])
<1>1. \A q \in Task : Within(task'[q])
  BY SameWithin
<1>2. \A q \in Task : SameBudget(task[q], task'[q])
  BY IInvFacts DEF Become, SameBudgets, AllTask
<1> QED
  BY <1>1, <1>2 DEF BudgetInv, Copied, SameBudget

\* The wake-up of a sleeper.
LEMMA WakeBudget ==
  ASSUME IInv, BudgetInv, NEW p \in Task, Wake(p)
  PROVE  Copied' /\ \A q \in Task : Within(task'[q])
<1>1. PICK prio \in WakePrios(task[p]) : Become(try_to_wake_up(kern, p, prio))
  BY DEF Wake
<1>2. prio \in Prio /\ kern \in Kernels
  BY KernType, PrioChoices DEF IInv
<1>3. SameBudgets(kern, try_to_wake_up(kern, p, prio), {})
  BY <1>2, WakeBudgets
<1>4. pc' = pc
  BY DEF Wake
<1> QED
  BY <1>1, <1>3, <1>4, SameCopied

\* A reschedule.
LEMMA RescheduleBudget ==
  ASSUME IInv, BudgetInv, Reschedule PROVE Copied' /\ \A q \in Task : Within(task'[q])
<1>1. Become(schedule(kern, FALSE)) /\ pc' = pc
  BY DEF Reschedule
<1>2. SameBudgets(kern, schedule(kern, FALSE), {})
  BY IInvFacts, ScheduleBudgets
<1> QED
  BY <1>1, <1>2, SameCopied

\* The calls that have nothing to do with budgets.
LEMMA PlainBudget ==
  ASSUME IInv, BudgetInv, NEW p \in Task,
         \/ Enter(p) \/ Return(p) \/ PrepareToSleep(p) \/ CancelSleep(p) \/ Sleep(p)
         \/ Yield(p) \/ Nice(p) \/ ExitSchedule(p)
  PROVE  \A q \in Task : Within(task'[q])
<1>1. kern \in Kernels /\ p \in AllTask
  BY IInvFacts DEF AllTask
<1>2. CASE Enter(p) \/ Return(p)
  <2>1. Become(kern) /\ SameBudgets(kern, kern, {})
    BY <1>2, BudgetsTask DEF Enter, Return
  <2> QED
    BY <2>1, SameWithin
<1>3. CASE PrepareToSleep(p) \/ CancelSleep(p)
  <2>1. PICK s \in States : Become([kern EXCEPT !.task[p].state = s])
    BY <1>3 DEF PrepareToSleep, CancelSleep, States
  <2>2. SameBudgets(kern, [kern EXCEPT !.task[p].state = s], {})
    BY <1>1, StateBudgets
  <2> QED
    BY <2>1, <2>2, SameWithin
<1>4. CASE Sleep(p) \/ ExitSchedule(p)
  <2>1. PICK b \in BOOLEAN : Become(schedule(kern, b))
    BY <1>4 DEF Sleep, ExitSchedule
  <2>2. SameBudgets(kern, schedule(kern, b), {})
    BY <1>1, ScheduleBudgets
  <2> QED
    BY <2>1, <2>2, SameWithin
<1>5. CASE Yield(p)
  <2> DEFINE k1 == requeue_yielding(kern, p)
             k2 == schedule(k1, FALSE)
  <2>1. Become(k2)
    BY <1>5, IInvFacts DEF Yield, Call, At, sys_sched_yield
  <2>2. SameBudgets(kern, k1, {}) /\ k1 \in Kernels
    BY <1>1, RequeueBudgets, RequeueEvolves DEF Evolves
  <2> HIDE DEF k1
  <2>3. SameBudgets(k1, k2, {})
    BY <2>2, ScheduleBudgets
  <2>4. SameBudgets(kern, k2, {})
    BY <2>2, <2>3, BudgetsTrans
  <2> HIDE DEF k2
  <2> QED
    BY <2>1, <2>4, SameWithin
<1>6. CASE Nice(p)
  <2>1. PICK q \in Task, nice \in Nices : Become(set_user_nice(kern, q, nice))
    BY <1>6 DEF Nice
  <2>2. SameBudgets(kern, set_user_nice(kern, q, nice), {})
    BY <1>1, CallAssumption, NiceBudgets
  <2> QED
    BY <2>1, <2>2, SameWithin
<1> QED
  BY <1>2, <1>3, <1>4, <1>5, <1>6

\* sched_setscheduler.
LEMMA SetSchedulerBudget ==
  ASSUME Disciplined, IInv, BudgetInv, NEW p \in Task, SetScheduler(p)
  PROVE  \A q \in Task : Within(task'[q])
<1>1. PICK q \in Task, r \in Requests :
        /\ WellBehaved(q, r)
        /\ \E prio \in SetschedulerPrios(task[q], r) : Become(setscheduler(kern, q, r, prio))
  BY DEF SetScheduler, Disciplined
<1>2. PICK prio \in SetschedulerPrios(task[q], r) : Become(setscheduler(kern, q, r, prio))
  BY <1>1
<1>3. ~(task[q].policy = "SHORT" /\ RequestedPolicy(task[q], r) = "SHORT")
  BY <1>1 DEF WellBehaved
<1>4. r \in SchedRequests /\ kern \in Kernels /\ kern.task = task /\ prio \in Prio
  <2>1. r \in SchedRequests
    BY CallAssumption
  <2>2. task[q] \in TaskStructs /\ task[q].prio \in Prio
    BY KernType DEF IInv
  <2> QED
    BY <1>2, <2>1, <2>2, PrioChoices, IInvFacts
<1> DEFINE k == setscheduler(kern, q, r, prio)
<1>5. SameBudgets(kern, k, {q}) /\ Within(k.task[q])
  BY <1>3, <1>4, SetschedulerWithin DEF BudgetInv
<1>6. Become(k)
  BY <1>2
<1> HIDE DEF k
<1> QED
  BY <1>5, <1>6, SameWithin

\* exit_notify.
LEMMA ExitBudget ==
  ASSUME IInv, BudgetInv, NEW p \in Task, ExitNotify(p)
  PROVE  \A q \in Task : Within(task'[q])
<1> DEFINE k1     == [forget_original_parent(kern, p) EXCEPT !.task[p].state = "ZOMBIE"]
           parent == k1.task[p].parent
<1>1. \/ Become(k1)
      \/ \E prio \in WakePrios(task[parent]) : Become(try_to_wake_up(k1, parent, prio))
  BY DEF ExitNotify
<1>2. SameBudgets(kern, k1, {}) /\ k1 \in Kernels
  BY IInvFacts, ZombieBudgets
<1> HIDE DEF k1
<1>3. parent \in Task
  <2>1. k1.task[p] \in TaskStructs
    BY <1>2, KernelParts DEF AllTask
  <2> QED
    BY <2>1, TaskFields
<1>4. CASE Become(k1)
  BY <1>2, <1>4, SameWithin
<1>5. CASE \E prio \in WakePrios(task[parent]) : Become(try_to_wake_up(k1, parent, prio))
  <2>1. PICK prio \in WakePrios(task[parent]) : Become(try_to_wake_up(k1, parent, prio))
    BY <1>5
  <2>2. prio \in Prio
    BY <1>3, KernType, PrioChoices DEF IInv
  <2> HIDE DEF parent
  <2> DEFINE k2 == try_to_wake_up(k1, parent, prio)
  <2>3. SameBudgets(k1, k2, {})
    BY <1>2, <1>3, <2>2, WakeBudgets
  <2>4. SameBudgets(kern, k2, {})
    BY <1>2, <2>3, BudgetsTrans
  <2>5. Become(k2)
    BY <2>1
  <2> HIDE DEF k2
  <2> QED
    BY <2>4, <2>5, SameWithin
<1> QED
  BY <1>1, <1>4, <1>5

\* The copy of current.
LEMMA ForkDupBudget ==
  ASSUME IInv, BudgetInv, NEW p \in Task, NEW c \in Task, ForkDup(p, c)
  PROVE  Copied' /\ \A q \in Task : Within(task'[q])
<1> DEFINE k == dup_task(kern, c)
<1>1. Become(k) /\ p = rq.curr
  BY DEF ForkDup, Call, At
<1>2. SameBudgets(kern, k, {c}) /\ SameBudget(task[p], k.task[c])
  BY <1>1, IInvFacts, DupBudgets
<1> HIDE DEF k
<1>3. Within(k.task[c])
  BY <1>2, BudgetWithin DEF BudgetInv
<1>4. \A q \in Task : Within(task'[q])
  BY <1>1, <1>2, <1>3, SameWithin
<1>5. p # c /\ \A q \in Task : /\ pc'[q] = "embryo" => q = c
                               /\ pc'[q] = "forking" => q = p
  BY DupEmbryo DEF BudgetInv
<1>6. SameBudget(task[p], task'[p]) /\ SameBudget(task[p], task'[c])
  BY <1>1, <1>2, <1>5, IInvFacts DEF Become, SameBudgets, AllTask
<1>7. Copied'
  BY <1>5, <1>6 DEF Copied, SameBudget
<1> QED
  BY <1>4, <1>7

\* A fork that fails, and the wake-up of the child.
LEMMA BirthBudget ==
  ASSUME IInv, BudgetInv, NEW p \in Task, NEW c \in Task, ForkFail(p, c) \/ ForkWake(p, c)
  PROVE  \A q \in Task : Within(task'[q])
<1>1. kern \in Kernels /\ c \in AllTask
  BY IInvFacts DEF AllTask
<1>2. CASE ForkFail(p, c)
  <2>1. Become([kern EXCEPT !.task[c] = FreeTask])
    BY <1>2 DEF ForkFail
  <2> DEFINE k == [kern EXCEPT !.task[c] = FreeTask]
  <2>2. SameBudgets(kern, k, {c}) /\ k.task[c] = FreeTask
    BY <1>1, BudgetsSet
  <2>3. Become(k)
    BY <2>1
  <2> HIDE DEF k
  <2> QED
    BY <2>2, <2>3, FreeWithin, SameWithin
<1>3. CASE ForkWake(p, c)
  <2> DEFINE k1 == [kern EXCEPT !.task[c].parent = p]
             k(pprio, cprio) == resched_task(wake_up_forked_process(k1, c, pprio, cprio), p)
  <2>1. PICK pprio \in WakePrios(task[p]), cprio \in ForkedPrios(task[c]) :
          Become(k(pprio, cprio))
    BY <1>3 DEF ForkWake
  <2>2. p = kern.rq.curr /\ pprio \in Prio /\ cprio \in Prio
    BY <1>3, IInvFacts, KernType, PrioChoices DEF ForkWake, At, IInv
  <2>3. SameBudgets(kern, k(pprio, cprio), {})
    BY <1>1, <2>2, ForkWakeBudgets
  <2> HIDE DEF k
  <2> QED
    BY <2>1, <2>3, SameWithin
<1> QED
  BY <1>2, <1>3

\* What a split does to the budgets.
LEMMA ForkShares ==
  ASSUME IInv, NEW p \in Task, NEW c \in Task, ForkShare(p, c)
  PROVE  /\ Shares(kern, kern', p, c) /\ p # c /\ p = rq.curr /\ pc[p] = "forking"
         /\ pc[c] = "embryo" /\ task[p].time_slice # 0
<1>1. PICK prio \in TickPrios(task[p]), starving \in BOOLEAN :
        Become(share_timeslice(kern, c, prio, starving))
  BY DEF ForkShare
<1>2. p = rq.curr /\ pc[p] = "forking" /\ pc[c] = "embryo"
  BY DEF ForkShare, At
<1>3. p # c /\ kern \in Kernels /\ kern.rq = rq /\ kern.task = task
  BY <1>2, IInvFacts
<1>4. prio \in Prio
  BY KernType, PrioChoices DEF IInv
<1>5. task[p].time_slice # 0
  <2>1. TaskOK(task[p]) /\ Queued(task[p])
    BY <1>2, IInvFacts DEF KernelInv
  <2>2. task[p].time_slice \in 1 .. MaxSlice
    BY <2>1 DEF TaskOK
  <2> QED
    BY <2>2
<1> DEFINE k == share_timeslice(kern, c, prio, starving)
<1>6. Shares(kern, k, p, c)
  BY <1>2, <1>3, <1>4, <1>5, ShareShares
<1>7. Become(k)
  BY <1>1
<1> HIDE DEF k
<1>8. kern'.task = k.task
  BY <1>7 DEF Become, kern
<1>9. Shares(kern, kern', p, c)
  BY <1>6, <1>8 DEF Shares, SameBudgets
<1> QED
  BY <1>2, <1>3, <1>5, <1>9

\* The split.
LEMMA ForkShareBudget ==
  ASSUME Disciplined, IInv, BudgetInv, NEW p \in Task, NEW c \in Task, ForkShare(p, c)
  PROVE  Copied' /\ \A q \in Task : Within(task'[q])
<1>1. /\ Shares(kern, kern', p, c) /\ p = rq.curr /\ pc[p] = "forking" /\ pc[c] = "embryo"
      /\ p # c
  BY ForkShares
<1>2. Goto(p, "forked")
  BY DEF ForkShare
<1>3. kern' \in Kernels /\ kern'.task = task' /\ kern.task = task
  <2>1. TypeOK'
    BY NextGood DEF IInv, GoodStep, Next, Step
  <2> QED
    BY <2>1, KernType DEF TypeOK, kern, Kernels
<1>4. RequestTicks(task[p].requested_time) <= MaxSlice
  BY IInvFacts DEF KernelInv, TaskOK
<1>5. /\ task[c].policy = task[p].policy
      /\ task[c].requested_time = task[p].requested_time
      /\ \A q \in Task : Within(task[q])
  BY <1>1 DEF BudgetInv, Copied
<1>6. \A q \in Task : Within(task'[q])
  BY <1>1, <1>3, <1>4, <1>5, IInvFacts, ShareWithin
<1>7. \A q \in Task : pc'[q] # "forking"
  <2>1. \A q \in Task : pc[q] = "forking" => q = p
    BY <1>1, IInvFacts DEF PlaceOK
  <2> QED
    BY <1>2, <2>1, IInvFacts DEF Goto
<1> QED
  BY <1>6, <1>7 DEF Copied

\* The invariant is inductive while nobody reaps a child.
LEMMA NextBudget ==
  ASSUME Disciplined, "wait" \notin Calls, IInv, BudgetInv, [Next]_vars
  PROVE  BudgetInv'
<1>1. OneEmbryo'
  BY NextOneEmbryo DEF BudgetInv
<1>2. SUFFICES Copied' /\ \A q \in Task : Within(task'[q])
  BY <1>1 DEF BudgetInv
<1>3. CASE UNCHANGED vars
  BY <1>3 DEF vars, BudgetInv, Copied
<1>4. ASSUME NEW p \in Task, Step(p) PROVE Copied' /\ \A q \in Task : Within(task'[q])
  <2>1. ASSUME NEW c \in Task PROVE ~Reap(p, c)
    BY DEF Reap, Call
  <2>2. CASE \A c \in Task : ~ForkDup(p, c) /\ ~ForkShare(p, c)
    <3>1. \A c \in Task : pc'[c] # "embryo"
      BY <1>4, <2>2, StepNoEmbryo DEF BudgetInv
    <3>2. Copied'
      BY <3>1 DEF Copied
    <3>3. \A q \in Task : Within(task'[q])
      BY <1>4, <2>1, <2>2, PlainBudget, SetSchedulerBudget, ExitBudget, BirthBudget DEF Step
    <3> QED
      BY <3>2, <3>3
  <2>3. CASE \E c \in Task : ForkDup(p, c) \/ ForkShare(p, c)
    BY <2>3, ForkDupBudget, ForkShareBudget
  <2> QED
    BY <2>2, <2>3
<1> QED
  BY <1>3, <1>4, TickBudget, RescheduleBudget, WakeBudget DEF Next

\* A SHORT process never holds more ticks than the slice of its trial, on any number of
\* processes, however forks split and ticks refill its slice (sched.c:118, 903-945;
\* fork.c:724-763).  The requests have to be Disciplined, and nobody may reap a child:
\* sched_exit gives the slice of the child back without regard to the trial.
THEOREM SliceAlwaysWithinTrial ==
  ASSUME Disciplined, "wait" \notin Calls PROVE Spec => []SliceWithinTrial
<1>1. Init => BudgetInv
  <2>1. SUFFICES ASSUME Init PROVE BudgetInv
    OBVIOUS
  <2>2. ASSUME NEW q \in Task PROVE task[q].policy = "OTHER"
    <3>1. task[q] \in {InitTask, FreeTask}
      BY <2>1, IdleAssumption DEF Init, AllTask
    <3>2. FreeTask.policy = "OTHER" /\ InitTask.policy = "OTHER"
      BY DEF InitTask, FreeTask
    <3> QED
      BY <3>1, <3>2
  <2>3. Copied
    BY <2>1 DEF Init, Copied
  <2> QED
    BY <2>1, <2>2, <2>3, InitOneEmbryo DEF BudgetInv, Within, ShortNow
<1>2. Safe /\ BudgetInv /\ [Next]_vars => BudgetInv'
  BY NextBudget DEF Safe
<1>3. BudgetInv => SliceWithinTrial
  BY DEF BudgetInv, SliceWithinTrial, Within
<1> QED
  BY <1>1, <1>2, <1>3, AlwaysSafe, PTL DEF Spec

\* Forking creates no processor time: parent and child together hold the ticks the
\* parent held, unless its slice ends with the fork, and no more trials than it had, on
\* any number of processes and with reaping parents too (fork.c:720-763).
THEOREM ForksShareBudget == ASSUME Disciplined PROVE Spec => ForkSharesBudget
<1>1. Init => OneEmbryo
  BY InitOneEmbryo
<1>2. Safe /\ OneEmbryo /\ [Next]_vars => OneEmbryo'
  BY NextOneEmbryo DEF Safe
<1>3. ASSUME Safe, OneEmbryo, [Next]_vars
      PROVE  [\A p, c \in Task : SharesBudget(p, c)]_vars
  <2>1. SUFFICES ASSUME NEW p \in Task, NEW c \in Task,
                        pc[p] = "forking", pc'[p] = "forked", pc[c] = "embryo"
                 PROVE  SharesBudget(p, c)
    BY DEF SharesBudget
  <2>2. IInv
    BY <1>3 DEF Safe
  <2>3. PICK q \in Task : Step(q)
    BY <1>3, <2>1 DEF Next, Tick, Reschedule, Wake, vars
  <2>4. PICK d \in Task : ForkDup(q, d) \/ ForkShare(q, d)
    <3>1. SUFFICES ASSUME \A d \in Task : ~ForkDup(q, d) /\ ~ForkShare(q, d) PROVE FALSE
      OBVIOUS
    <3>2. \A x \in Task : pc[x] \in {"forking", "forked"} => x = rq.curr
      BY <2>2, IInvFacts DEF PlaceOK
    <3>3. q = p
      BY <2>1, <2>3, <3>1, <3>2, StepGoes
    <3> QED
      BY <2>1, <2>2, <2>3, <3>1, <3>3, StepGoes, IInvFacts
  <2>5. ForkShare(q, d)
    BY <2>1, <2>2, <2>4, <1>3, DupEmbryo
  <2>6. /\ Shares(kern, kern', q, d) /\ q = rq.curr /\ pc[d] = "embryo"
        /\ task[q].time_slice # 0
    BY <2>2, <2>5, ForkShares
  <2>7. q = p /\ d = c
    BY <1>3, <2>1, <2>2, <2>6, IInvFacts DEF PlaceOK, OneEmbryo
  <2>8. kern \in Kernels /\ kern.task = task /\ kern'.task = task'
    BY <2>2, IInvFacts DEF kern
  <2> QED
    BY <2>6, <2>7, <2>8, SharesLess DEF SharesBudget
<1> QED
  BY <1>1, <1>2, <1>3, AlwaysSafe, PTL DEF Spec, ForkSharesBudget

=============================================================================
