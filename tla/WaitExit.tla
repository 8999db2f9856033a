------------------------------- MODULE WaitExit -------------------------------
(***************************************************************************)
(* The process tree: wait4 of kernel/exit.c against do_exit and do_fork.   *)
(* The tree is kept as the code keeps it, in the pointers p_pptr, p_opptr, *)
(* p_cptr, p_ysptr and p_osptr of the task_structs, under tasklist_lock.   *)
(*                                                                         *)
(* A step ends where the code takes or drops a lock, reads without one, or *)
(* may sleep.  On several processors the steps of all processes interleave; *)
(* on one, a process keeps the processor up to the next point where it may *)
(* sleep or return to user mode.  Which processes run is Sched's business. *)
(***************************************************************************)
EXTENDS Naturals, FiniteSets

CONSTANTS
  Task,          \* slots of task_structs
  child_reaper,  \* the init process
  NULL,          \* the null pointer
  Builds,        \* the kernels and programs considered, see BuildAssumption
  Signalled      \* processes that receive signals other than SIGCHLD

Options == {"WNOHANG", "__WNOTHREAD", "__WCLONE", "__WALL"}
\* "CSIGNAL" stands for an exit_signal other than SIGCHLD.
CloneFlags == {"CLONE_PARENT", "CLONE_THREAD", "CSIGNAL"}

\* smp: several processors.  pgrps: processes have children in other process
\* groups of their session.  faults: put_user and getrusage in wait4 may fault
\* (and then sleep, or fail).  ptrace: processes trace each other.  options, clone:
\* what is passed to wait4 (by others than init) and do_fork.  forks: a bound on
\* the number of forks.
ASSUME BuildAssumption ==
  Builds \subseteq [smp : BOOLEAN, pgrps : BOOLEAN, faults : BOOLEAN, ptrace : BOOLEAN,
                    options : SUBSET SUBSET Options, clone : SUBSET CloneFlags, forks : Nat]
ASSUME TaskAssumption == IsFiniteSet(Task) /\ child_reaper \in Task /\ NULL \notin Task
ASSUME SignalAssumption == Signalled \subseteq Task

VARIABLES
  task,           \* the task_struct in each slot
  pc,             \* where each process is in fork, wait4 or exit
  local,          \* options, and p or reaper, of wait4 and exit
  tasklist_lock,  \* its readers, and its writer
  forks,          \* number of forks so far
  build           \* the element of Builds the behaviour is about

vars == << task, pc, local, tasklist_lock, forks, build >>

Pointer == Task \cup {NULL}
States  == {"FREE", "RUNNING", "INTERRUPTIBLE", "ZOMBIE"}
PCs     == {"none", "user", "repeat", "scan", "sched", "asleep", "found", "release",
            "handback", "forget", "assign", "notify", "loop", "relock", "leave", "dead"}

\* The fields of task_struct the tree is made of; sigchld is exit_signal = SIGCHLD,
\* exiting is PF_EXITING, and next_thread the successor in the ring thread_group.
TaskStructs ==
  [state : States, p_opptr : Pointer, p_pptr : Pointer, p_cptr : Pointer,
   p_ysptr : Pointer, p_osptr : Pointer, next_thread : Task,
   sigchld : BOOLEAN, exiting : BOOLEAN, ptrace : BOOLEAN, sigpending : BOOLEAN]

TypeOK ==
  /\ task \in [Task -> TaskStructs]
  /\ pc \in [Task -> PCs]
  /\ local \in [Task -> [options : SUBSET Options, p : Pointer]]
  /\ tasklist_lock \in [readers : SUBSET Task, writer : Pointer]
  /\ build \in Builds /\ forks \in 0 .. build.forks

Free(t) ==
  [state |-> "FREE", p_opptr |-> NULL, p_pptr |-> NULL, p_cptr |-> NULL,
   p_ysptr |-> NULL, p_osptr |-> NULL, next_thread |-> t,
   sigchld |-> TRUE, exiting |-> FALSE, ptrace |-> FALSE, sigpending |-> FALSE]

NoLocal == [options |-> {}, p |-> NULL]

\* The parent of init, the idle task, is outside the model.
Init ==
  /\ task = [t \in Task |-> IF t = child_reaper THEN [Free(t) EXCEPT !.state = "RUNNING"]
                                                ELSE Free(t)]
  /\ pc = [t \in Task |-> IF t = child_reaper THEN "user" ELSE "none"]
  /\ local = [t \in Task |-> NoLocal]
  /\ tasklist_lock = [readers |-> {}, writer |-> NULL]
  /\ forks = 0
  /\ build \in Builds

-----------------------------------------------------------------------------
(* The tree, T standing for task *)

\* A store through the pointer p.
Store(T, p, field, value) == [T EXCEPT ![p][field] = value]

\* Mutant: the older sibling of an unlinked task keeps its p_ysptr.
REMOVE_LINKS_one_way(T, p) ==
  IF T[p].p_ysptr # NULL THEN Store(T, T[p].p_ysptr, "p_osptr", T[p].p_osptr)
                         ELSE Store(T, T[p].p_pptr, "p_cptr", T[p].p_osptr)

REMOVE_LINKS(T, p) ==
  LET O == IF T[p].p_osptr # NULL THEN Store(T, T[p].p_osptr, "p_ysptr", T[p].p_ysptr)
                                  ELSE T
  IN  IF O[p].p_ysptr # NULL THEN Store(O, O[p].p_ysptr, "p_osptr", O[p].p_osptr)
                             ELSE Store(O, O[p].p_pptr, "p_cptr", O[p].p_osptr)

\* Link p as the youngest child of its p_pptr.
SET_LINKS(T, p) ==
  LET oldest == T[T[p].p_pptr].p_cptr
      S == [T EXCEPT ![p].p_ysptr = NULL, ![p].p_osptr = oldest]
      O == IF oldest # NULL THEN Store(S, oldest, "p_ysptr", p) ELSE S
  IN  Store(O, O[p].p_pptr, "p_cptr", p)

\* Mutant: p stays on the list of the parent it had.
Relink_no_remove(T, p) == SET_LINKS(Store(T, p, "p_pptr", T[p].p_opptr), p)

\* Give p to its original parent.
Relink(T, p) == SET_LINKS(Store(REMOVE_LINKS(T, p), p, "p_pptr", T[p].p_opptr), p)

\* The n-th task on the way through the children of t, NULL after the last.
Child(T, t) ==
  LET c[n \in 1 .. Cardinality(Task)] ==
        IF n = 1 THEN T[t].p_cptr
        ELSE LET younger == c[n - 1]
             IN  IF younger = NULL THEN NULL ELSE T[younger].p_osptr
  IN  c

\* The n-th task on the way through the thread group of t.
Thread(T, t) ==
  LET g[n \in 1 .. Cardinality(Task)] == IF n = 1 THEN t ELSE T[g[n - 1]].next_thread
  IN  g

Group(T, t) == {Thread(T, t)[n] : n \in 1 .. Cardinality(Task)}

\* Mutant: the wake-up reaches only tasks that have gone to sleep already.
do_notify_parent_asleep(T, p) ==
  [u \in Task |-> IF /\ u \in Group(T, T[p].p_pptr)
                     /\ T[u].state = "INTERRUPTIBLE" /\ pc[u] = "asleep"
                  THEN [T[u] EXCEPT !.state = "RUNNING"] ELSE T[u]]

\* signal.c: wake whoever waits on wait_chldexit in the parent's thread group.
\* The only interruptible sleep of the model is that of wait4.
do_notify_parent(T, p) ==
  [u \in Task |-> IF u \in Group(T, T[p].p_pptr) /\ T[u].state = "INTERRUPTIBLE"
                  THEN [T[u] EXCEPT !.state = "RUNNING"] ELSE T[u]]

\* Mutant: the ring of threads is cut at the thread before p.
unhash_process_cut(T, p) ==
  LET R == REMOVE_LINKS(T, p)
  IN  [u \in Task |-> IF u = p THEN Free(p)
                      ELSE IF R[u].next_thread = p
                      THEN [R[u] EXCEPT !.next_thread = NULL] ELSE R[u]]

\* Take p off the tree and out of its thread group, and free its slot.
unhash_process(T, p) ==
  LET R == REMOVE_LINKS(T, p)
  IN  [u \in Task |-> IF u = p THEN Free(p)
                      ELSE IF R[u].next_thread = p
                      THEN [R[u] EXCEPT !.next_thread = R[p].next_thread] ELSE R[u]]

-----------------------------------------------------------------------------
(* Processors and locks *)

\* Places where a process on a single processor lets others run.
MayYield == {"none", "user", "asleep", "forget", "dead"}
              \cup (IF build.faults THEN {"found"} ELSE {})

Turn(t) == build.smp \/ \A u \in Task \ {t} : pc[u] \in MayYield

At(t, place) == pc[t] = place /\ Turn(t)
Goto(t, place) == pc' = [pc EXCEPT ![t] = place]

CanRead  == tasklist_lock.writer = NULL
CanWrite == tasklist_lock.writer = NULL /\ tasklist_lock.readers = {}

Unallocated == {q \in Task : task[q].state = "FREE"}

-----------------------------------------------------------------------------
(* do_fork *)

\* The part of do_fork under tasklist_lock, with the copy before it.  Init forks
\* plain processes.
Fork(t) ==
  /\ At(t, "user") /\ CanWrite
  /\ forks < build.forks /\ Unallocated # {}
  /\ \E flags \in SUBSET build.clone :
       LET p == CHOOSE q \in Unallocated : TRUE
           me == task[t]
           child == [Free(p) EXCEPT
             !.state = "RUNNING",
             !.p_opptr = IF "CLONE_PARENT" \in flags THEN me.p_opptr ELSE t,
             !.p_pptr = IF "CLONE_PARENT" \in flags THEN me.p_pptr ELSE t,
             !.next_thread = IF "CLONE_THREAD" \in flags THEN me.next_thread ELSE p,
             !.sigchld = "CSIGNAL" \notin flags]
           T == [task EXCEPT ![p] = child]
           L == IF "CLONE_THREAD" \in flags THEN Store(T, t, "next_thread", p) ELSE T
       IN  /\ t = child_reaper => flags = {}
           /\ task' = SET_LINKS(L, p)
           /\ pc' = [pc EXCEPT ![p] = "user"]
  /\ forks' = forks + 1
  /\ UNCHANGED << local, tasklist_lock, build >>

\* kernel/ptrace.c: t makes itself the parent of q, which keeps its p_opptr.
PtraceAttach(t, q) ==
  /\ build.ptrace /\ At(t, "user") /\ CanWrite
  /\ q \notin {t, child_reaper}
  /\ task[q].state \notin {"FREE", "ZOMBIE"} /\ ~task[q].ptrace
  /\ LET T == Store(task, q, "ptrace", TRUE)
     IN  task' = IF T[q].p_pptr = t THEN T
                 ELSE SET_LINKS(Store(REMOVE_LINKS(T, q), q, "p_pptr", t), q)
  /\ UNCHANGED << pc, local, tasklist_lock, forks, build >>

\* A kernel thread that becomes a child of init.
reparent_to_init(t) ==
  /\ At(t, "user") /\ t # child_reaper /\ CanWrite
  /\ LET T == Store(Store(REMOVE_LINKS(task, t), t, "p_pptr", child_reaper),
                    t, "p_opptr", child_reaper)
     IN  task' = Store(Store(SET_LINKS(T, t), t, "sigchld", TRUE), t, "ptrace", FALSE)
  /\ UNCHANGED << pc, local, tasklist_lock, forks, build >>

-----------------------------------------------------------------------------
(* sys_wait4 *)

Wait4(t) ==
  /\ At(t, "user")
  /\ \E options \in IF t = child_reaper THEN {{}} ELSE build.options :
       local' = [local EXCEPT ![t].options = options]
  /\ Goto(t, "repeat")
  /\ UNCHANGED << task, tasklist_lock, forks, build >>

Repeat(t) ==
  /\ At(t, "repeat")
  /\ task' = Store(task, t, "state", "INTERRUPTIBLE")
  /\ Goto(t, "scan")
  /\ UNCHANGED << local, tasklist_lock, forks, build >>

\* Whether a wait with these options waits for child p at all.
Eligible(p, options) ==
  task[p].sigchld # ("__WCLONE" \in options) \/ "__WALL" \in options

\* The children of each thread of the group of t that wait4 looks at, in order.
Children(t) ==
  LET threads == IF "__WNOTHREAD" \in local[t].options THEN {1} ELSE 1 .. Cardinality(Task)
      thread == Thread(task, t)
  IN  [i \in threads |-> Child(task, thread[i])]

Scan(t) ==
  LET c == Children(t)
  IN  {p \in UNION {{c[i][j] : j \in 1 .. Cardinality(Task)} : i \in DOMAIN c} :
         p # NULL /\ Eligible(p, local[t].options)}
Zombies(t) == {p \in Scan(t) : task[p].state = "ZOMBIE"}

\* The zombie the loop comes to first.
FirstZombie(t) ==
  LET c == Children(t)
      zombies == Zombies(t)
      found == {x \in (DOMAIN c) \X (1 .. Cardinality(Task)) : c[x[1]][x[2]] \in zombies}
      first == CHOOSE x \in found :
                 \A y \in found : x[1] < y[1] \/ (x[1] = y[1] /\ x[2] <= y[2])
  IN  c[first[1]][first[2]]

ScanFinds(t) ==
  /\ At(t, "scan") /\ CanRead
  /\ Zombies(t) # {}
  /\ local' = [local EXCEPT ![t].p = FirstZombie(t)]
  /\ Goto(t, "found")
  /\ UNCHANGED << task, tasklist_lock, forks, build >>

ScanWaits(t) ==
  /\ At(t, "scan") /\ CanRead
  /\ Zombies(t) = {} /\ Scan(t) # {}
  /\ "WNOHANG" \notin local[t].options /\ ~task[t].sigpending
  /\ Goto(t, "sched")
  /\ UNCHANGED << task, local, tasklist_lock, forks, build >>

\* end_wait4, and the delivery of signals on the way to user mode.
EndWait4(T, t) ==
  /\ task' = [T EXCEPT ![t].state = "RUNNING", ![t].sigpending = FALSE]
  /\ local' = [local EXCEPT ![t] = NoLocal]

ScanReturns(t) ==
  /\ At(t, "scan") /\ CanRead
  /\ Zombies(t) = {}
  /\ Scan(t) = {} \/ "WNOHANG" \in local[t].options \/ task[t].sigpending
  /\ EndWait4(task, t)
  /\ Goto(t, "user")
  /\ UNCHANGED << tasklist_lock, forks, build >>

\* Mutant: the state is set right before schedule, not before the scan.
Schedule_late_state(t) ==
  /\ At(t, "sched") /\ ~task[t].sigpending
  /\ task' = Store(task, t, "state", "INTERRUPTIBLE")
  /\ Goto(t, "asleep")
  /\ UNCHANGED << local, tasklist_lock, forks, build >>

\* schedule() keeps a process on the processor that was woken or has a signal.
Schedule(t) ==
  /\ At(t, "sched")
  /\ \/ /\ task[t].state = "INTERRUPTIBLE" /\ ~task[t].sigpending
        /\ Goto(t, "asleep")
        /\ UNCHANGED task
     \/ /\ task[t].state = "RUNNING" \/ task[t].sigpending
        /\ Goto(t, "repeat")
        /\ task' = Store(task, t, "state", "RUNNING")
  /\ UNCHANGED << local, tasklist_lock, forks, build >>

Resume(t) ==
  /\ At(t, "asleep") /\ task[t].state = "RUNNING"
  /\ Goto(t, "repeat")
  /\ UNCHANGED << task, local, tasklist_lock, forks, build >>

\* Rusage and status are copied out, without the lock.  Init passes valid pointers.
CopyFails(t) ==
  /\ At(t, "found") /\ build.faults /\ t # child_reaper
  /\ EndWait4(task, t)
  /\ Goto(t, "user")
  /\ UNCHANGED << tasklist_lock, forks, build >>

CopyOut(t) ==
  /\ At(t, "found")
  /\ LET p == local[t].p
     IN  Goto(t, IF task[p].p_opptr # task[p].p_pptr THEN "handback" ELSE "release")
  /\ UNCHANGED << task, local, tasklist_lock, forks, build >>

\* A tracer gives the zombie to its original parent.
HandBack(t) ==
  /\ At(t, "handback") /\ CanWrite
  /\ LET p == local[t].p
     IN  EndWait4(do_notify_parent(Relink(task, p), p), t)
  /\ Goto(t, "user")
  /\ UNCHANGED << tasklist_lock, forks, build >>

\* Mutant: nobody waits for the last schedule() of p.
wait_task_inactive_not(p) == TRUE

\* Several processors wait here for the last schedule() of p.
wait_task_inactive(p) == build.smp => pc[p] = "dead"

release_task(t) ==
  /\ At(t, "release") /\ CanWrite
  /\ LET p == local[t].p
     IN  /\ wait_task_inactive(p)
         /\ EndWait4(unhash_process(task, p), t)
         /\ pc' = [pc EXCEPT ![p] = "none", ![t] = "user"]
  /\ UNCHANGED << tasklist_lock, forks, build >>

-----------------------------------------------------------------------------
(* do_exit *)

DoExit(t) ==
  /\ At(t, "user") /\ t # child_reaper
  /\ task' = Store(task, t, "exiting", TRUE)
  /\ Goto(t, "forget")
  /\ UNCHANGED << local, tasklist_lock, forks, build >>

\* The next thread of the group that is not exiting, or else init.
NextReaper(t) ==
  LET g == Thread(task, t)
      able == {n \in 2 .. Cardinality(Task) : ~task[g[n]].exiting}
  IN  IF able = {} THEN child_reaper
      ELSE g[CHOOSE n \in able : \A m \in able : n <= m]

\* Mutant: the original parent of children traced by others is left alone.
reparented_own(p, father, reaper) ==
  IF task[p].p_opptr # father \/ task[p].p_pptr # father THEN task[p]
  ELSE [task[p] EXCEPT !.sigchld = TRUE, !.p_opptr = reaper]

\* What forget_original_parent makes of task p.
reparented(p, father, reaper) ==
  IF task[p].p_opptr # father THEN task[p]
  ELSE [task[p] EXCEPT !.sigchld = TRUE,
                       !.p_opptr = IF p = reaper THEN child_reaper ELSE reaper]

\* Mutant: tasklist_lock stays read-locked.
read_unlock_not(t) == tasklist_lock

read_unlock(t) == [tasklist_lock EXCEPT !.readers = @ \ {t}]

\* forget_original_parent holds tasklist_lock for reading, as others may at the same
\* time, over two steps: the choice of the reaper, and the new original parents.
ChooseReaper(t) ==
  /\ At(t, "forget") /\ CanRead
  /\ local' = [local EXCEPT ![t].p = NextReaper(t)]
  /\ tasklist_lock' = [tasklist_lock EXCEPT !.readers = @ \cup {t}]
  /\ Goto(t, "assign")
  /\ UNCHANGED << task, forks, build >>

AssignReaper(t) ==
  /\ At(t, "assign")
  /\ task' = [p \in Task |-> reparented(p, t, local[t].p)]
  /\ tasklist_lock' = read_unlock(t)
  /\ local' = [local EXCEPT ![t] = NoLocal]
  /\ Goto(t, "notify")
  /\ UNCHANGED << forks, build >>

\* The rest of exit_notify takes the lock for writing.  Exec ids, and the reset of
\* exit_signal to SIGCHLD that depends on them (exit.c:435), are left out.
BecomeZombie(t) ==
  /\ At(t, "notify") /\ CanWrite
  /\ task' = do_notify_parent(Store(task, t, "state", "ZOMBIE"), t)
  /\ tasklist_lock' = [tasklist_lock EXCEPT !.writer = t]
  /\ Goto(t, "loop")
  /\ UNCHANGED << local, forks, build >>

\* One round of the loop.  The younger sibling pointer of the next child is not
\* reset, only its own round does that.
MoveChild(T, t, p) ==
  LET U == Store(T, t, "p_cptr", T[p].p_osptr)
      L == SET_LINKS([U EXCEPT ![p].ptrace = FALSE, ![p].p_pptr = U[p].p_opptr], p)
  IN  IF L[p].state = "ZOMBIE" THEN do_notify_parent(L, p) ELSE L

\* The lock is dropped after a child of another process group.
GiveAwayChild(t) ==
  /\ At(t, "loop") /\ task[t].p_cptr # NULL
  /\ task' = MoveChild(task, t, task[t].p_cptr)
  /\ \/ UNCHANGED << pc, tasklist_lock >>
     \/ /\ build.pgrps
        /\ tasklist_lock' = [tasklist_lock EXCEPT !.writer = NULL]
        /\ Goto(t, "relock")
  /\ UNCHANGED << local, forks, build >>

Relock(t) ==
  /\ At(t, "relock") /\ CanWrite
  /\ tasklist_lock' = [tasklist_lock EXCEPT !.writer = t]
  /\ Goto(t, "loop")
  /\ UNCHANGED << task, local, forks, build >>

NoChildLeft(t) ==
  /\ At(t, "loop") /\ task[t].p_cptr = NULL
  /\ tasklist_lock' = [tasklist_lock EXCEPT !.writer = NULL]
  /\ Goto(t, "leave")
  /\ UNCHANGED << task, local, forks, build >>

\* The last schedule().
Leave(t) ==
  /\ At(t, "leave")
  /\ Goto(t, "dead")
  /\ UNCHANGED << task, local, tasklist_lock, forks, build >>

\* A signal other than SIGCHLD for a process in wait4.
Signal(t) ==
  /\ t \in Signalled /\ pc[t] \in {"repeat", "scan", "sched", "asleep"}
  /\ ~task[t].sigpending
  /\ task' = [task EXCEPT ![t].sigpending = TRUE, ![t].state = "RUNNING"]
  /\ UNCHANGED << pc, local, tasklist_lock, forks, build >>

-----------------------------------------------------------------------------
\* The steps a process in the kernel makes without being asked.
KernelStep(t) ==
  \/ Repeat(t) \/ ScanFinds(t) \/ ScanWaits(t) \/ ScanReturns(t) \/ Schedule(t)
  \/ Resume(t) \/ CopyFails(t) \/ CopyOut(t) \/ HandBack(t) \/ release_task(t)
  \/ ChooseReaper(t) \/ AssignReaper(t) \/ BecomeZombie(t) \/ GiveAwayChild(t)
  \/ Relock(t) \/ NoChildLeft(t) \/ Leave(t)

Next ==
  \E t \in Task :
    \/ KernelStep(t)
    \/ Fork(t) \/ reparent_to_init(t) \/ Wait4(t) \/ DoExit(t) \/ Signal(t)
    \/ \E q \in Task : PtraceAttach(t, q)

Spec == Init /\ [][Next]_vars

-----------------------------------------------------------------------------
(* Properties *)

Live(p) == task[p].state # "FREE"

\* The pointers of the tree agree whenever tasklist_lock can be taken: the children
\* of a task are the list that starts at its p_cptr and goes on through p_osptr, and
\* p_ysptr leads back.  SET_LINKS, REMOVE_LINKS and exit_notify, which relinks by
\* hand, each store one to five of them.  Between two rounds of exit_notify the first
\* child's p_ysptr is stale.
LinksConsistent ==
  CanRead =>
    \A p \in {q \in Task : Live(q)} :
      LET c == task[p].p_cptr
          o == task[p].p_osptr
          stale == pc[task[p].p_pptr] = "relock" /\ task[task[p].p_pptr].p_cptr = p
      IN  /\ c # NULL => /\ Live(c) /\ task[c].p_pptr = p
                         /\ pc[p] # "relock" => task[c].p_ysptr = NULL
          /\ o # NULL => /\ Live(o) /\ task[o].p_pptr = task[p].p_pptr
                         /\ task[o].p_ysptr = p
          /\ p # child_reaper =>
               /\ Live(task[p].p_pptr) /\ Live(task[p].p_opptr)
               /\ LET siblings == Child(task, task[p].p_pptr)
                  IN  \E n \in 1 .. Cardinality(Task) : siblings[n] = p
               /\ task[p].p_ysptr # NULL /\ ~stale => task[task[p].p_ysptr].p_osptr = p

\* exit.c:198, "When we die, we re-parent all our children": once a process has left
\* exit_notify it is nobody's parent or original parent any more, whoever forked,
\* traced or gave back children meanwhile.
ReparentingComplete ==
  \A t \in Task : pc[t] \in {"leave", "dead", "none"} =>
    \A p \in Task : Live(p) => t \notin {task[p].p_pptr, task[p].p_opptr}

\* wait4 works on the zombie it has found without a lock, and may sleep before it
\* releases it: meanwhile nobody else releases it or takes it away.
FoundStaysZombie ==
  \A t \in Task : pc[t] \in {"found", "release", "handback"} =>
    /\ task[local[t].p].state = "ZOMBIE"
    /\ task[local[t].p].p_pptr \in Group(task, t)

\* No exit is missed: a process that is going to sleep or sleeps in wait4 has no
\* zombie among the children it waits for, whether the child died, was inherited, or
\* was handed back by a tracer between the scan and the sleep.
NoMissedExit ==
  CanRead => \A t \in Task :
    pc[t] \in {"sched", "asleep"} /\ task[t].state = "INTERRUPTIBLE" => Zombies(t) = {}

\* The task_struct, and the stack in it, are freed after the last schedule() of the
\* process, never while it is still in exit_notify.
FreedAfterLastSwitch ==
  [][\A p \in Task : task[p].state = "ZOMBIE" /\ task'[p].state = "FREE"
                       => pc[p] = "dead"]_vars

\* Every process gets on in the kernel, on one processor because the scheduler runs
\* all of them, and init keeps calling wait4.
FairSpec ==
  /\ Spec
  /\ \A t \in Task : SF_vars(KernelStep(t))
  /\ SF_vars(Wait4(child_reaper))

\* A dead process that init has inherited or forked is released in the end.
OrphansReaped ==
  \A p \in Task \ {child_reaper} :
    (pc[p] = "dead" /\ task[p].p_pptr = child_reaper /\ task[p].p_opptr = child_reaper
       /\ task[p].sigchld)
      ~> task[p].state = "FREE"

\* A process that exits gets to its last schedule().
ExitCompletes == \A p \in Task : pc[p] = "forget" ~> pc[p] = "dead"

=============================================================================
