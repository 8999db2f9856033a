------------------------------- MODULE PidAlloc -------------------------------
(***************************************************************************)
(* Process ids: get_pid of kernel/fork.c.  It counts up, wraps around to   *)
(* RESERVED and skips ids in use, and scans the task list for these only   *)
(* when it leaves the window below next_safe that the last scan found free. *)
(*                                                                         *)
(* get_pid is one step: lastpid_lock is held throughout, and tasklist_lock  *)
(* during the scan.  The task with the new id joins the list much later in *)
(* do_fork, which may sleep, run next to other forks, or fail in between.  *)
(***************************************************************************)
EXTENDS Naturals, Sequences, FiniteSets, SequencesExt

CONSTANTS
  Task,          \* slots of task_structs
  child_reaper,  \* the init process
  NULL,          \* the null pointer
  RESERVED,      \* 300: the ids below are handed out only before the first wrap
  PID_MAX        \* 0x8000

ASSUME IdAssumption ==
  /\ RESERVED \in Nat /\ PID_MAX \in Nat
  /\ 1 < RESERVED /\ RESERVED < PID_MAX
ASSUME TaskAssumption ==
  IsFiniteSet(Task) /\ child_reaper \in Task /\ NULL \notin Task

VARIABLES
  task,       \* the ids of each task, and the fork that is making it
  tasklist,   \* the order of for_each_task
  last_pid,
  next_safe,
  exhausted   \* history: get_pid has failed before

vars == << task, tasklist, last_pid, next_safe, exhausted >>

Id == 0 .. PID_MAX - 1

\* forker is the process in do_fork that a task not on the list yet belongs to,
\* thread whether it was called with CLONE_THREAD.
TypeOK ==
  /\ task \in [Task -> [state : {"FREE", "EMBRYO", "LIVE"}, pid : Id, tgid : Id, pgrp : Id,
                        session : Id, forker : Task \cup {NULL}, thread : BOOLEAN]]
  /\ tasklist \in Seq(Task)
  /\ last_pid \in Id \ {0} /\ next_safe \in 1 .. PID_MAX
  /\ exhausted \in BOOLEAN

FreeTask == [state |-> "FREE", pid |-> 0, tgid |-> 0, pgrp |-> 0, session |-> 0,
             forker |-> NULL, thread |-> FALSE]

\* Init is in the session of the idle task.
Init ==
  /\ task = [t \in Task |->
       IF t = child_reaper THEN [FreeTask EXCEPT !.state = "LIVE", !.pid = 1, !.tgid = 1]
                           ELSE FreeTask]
  /\ tasklist = << child_reaper >>
  /\ last_pid = 1 /\ next_safe = PID_MAX
  /\ exhausted = FALSE

-----------------------------------------------------------------------------
(* get_pid *)

\* The ids t keeps in use.
Ids(t) == {task[t].pid, task[t].pgrp, task[t].tgid, task[t].session}

\* Mutant: no wrap-around.
Wrap_not(pid) == pid

Wrap(pid) == IF pid >= PID_MAX THEN RESERVED ELSE pid

Least(S) == CHOOSE n \in S : \A m \in S : n <= m

\* The tasks on the list that keep last_pid in use.
Users(last) == {i \in DOMAIN tasklist : last \in Ids(tasklist[i])}

\* next_safe after a pass over the list, which ends at the first of them.
Safe(last, safe) ==
  LET seen  == IF Users(last) = {} THEN DOMAIN tasklist ELSE 1 .. Least(Users(last)) - 1
      above == {id \in UNION {Ids(tasklist[i]) : i \in seen} : id > last}
  IN  Least(above \cup {safe})

\* last_pid and next_safe for the next pass.
Onward(last, safe) ==
  LET n == last + 1
      s == Safe(last, safe)
  IN  IF n >= s THEN << Wrap(n), PID_MAX >> ELSE << n, s >>

\* From the label repeat on, with last_pid and next_safe as they are there.  beginpid
\* is last_pid before the call.
Repeat[x \in Nat \X Nat] ==
  LET last == x[1]
      safe == x[2]
      next == Onward(last, safe)
  IN  IF Users(last) = {}
      THEN [pid |-> last, last_pid |-> last, next_safe |-> Safe(last, safe)]
      ELSE IF next[1] = last_pid
      THEN [pid |-> 0, last_pid |-> next[1], next_safe |-> next[2]]
      ELSE Repeat[next]

\* Mutant: after the wrap-around the old window is trusted.
get_pid_trusting ==
  LET n == Wrap(last_pid + 1)
  IN  IF n >= next_safe THEN Repeat[<< n, PID_MAX >>]
      ELSE [pid |-> n, last_pid |-> n, next_safe |-> next_safe]

\* What a call returns, with the new last_pid and next_safe.
get_pid ==
  LET n == last_pid + 1
  IN  IF n >= PID_MAX THEN Repeat[<< RESERVED, PID_MAX >>]
      ELSE IF n >= next_safe THEN Repeat[<< n, PID_MAX >>]
      ELSE [pid |-> n, last_pid |-> n, next_safe |-> next_safe]

-----------------------------------------------------------------------------
(* do_fork, and the end of a process *)

Unallocated == {q \in Task : task[q].state = "FREE"}
Embryos     == {q \in Task : task[q].state = "EMBRYO"}
Forking(t)  == \E q \in Embryos : task[q].forker = t
Running(t)  == task[t].state = "LIVE" /\ ~Forking(t)

\* An id that get_pid can find.
IdLeft == \E id \in RESERVED .. PID_MAX - 1 :
            id # last_pid /\ \A t \in ToSet(tasklist) : id \notin Ids(t)

\* Without an id left, and last_pid still below RESERVED, the scan would not end.
CanScan == IdLeft \/ last_pid >= RESERVED

\* Assumption on timing, which the code does not see to: a fork is over before last_pid has
\* wrapped around and get_pid finds a window that spans the id of the child.  That is
\* sooner than last_pid would come to the id itself.
NotOvertaken(r) == r.pid # 0 => \A q \in Embryos : task[q].pid \notin r.pid .. r.next_safe - 1

\* The copy of current, and get_pid.
GetPid(t) ==
  /\ Running(t) /\ Unallocated # {} /\ CanScan
  /\ LET p == CHOOSE q \in Unallocated : TRUE
         r == get_pid
     IN  /\ NotOvertaken(r)
         /\ last_pid' = r.last_pid /\ next_safe' = r.next_safe
         /\ IF r.pid = 0
            THEN exhausted' = TRUE /\ UNCHANGED task
            ELSE /\ \E thread \in BOOLEAN :
                      task' = [task EXCEPT ![p] =
                        [task[t] EXCEPT !.state = "EMBRYO", !.pid = r.pid,
                                        !.forker = t, !.thread = thread]]
                 /\ UNCHANGED exhausted
  /\ UNCHANGED tasklist

\* One of the copies fails: bad_fork_cleanup.
BadFork(p) ==
  /\ p \in Embryos
  /\ task' = [task EXCEPT ![p] = FreeTask]
  /\ UNCHANGED << tasklist, last_pid, next_safe, exhausted >>

\* Under tasklist_lock the child joins the list, at its end.
Link(p) ==
  /\ p \in Embryos
  /\ LET tgid == IF task[p].thread THEN task[task[p].forker].tgid ELSE task[p].pid
     IN  task' = [task EXCEPT ![p] = [@ EXCEPT !.state = "LIVE", !.tgid = tgid,
                                               !.forker = NULL, !.thread = FALSE]]
  /\ tasklist' = Append(tasklist, p)
  /\ UNCHANGED << last_pid, next_safe, exhausted >>

\* A process that has exited keeps its ids until it is released.
release_task(p) ==
  /\ Running(p) /\ p # child_reaper
  /\ task' = [task EXCEPT ![p] = FreeTask]
  /\ tasklist' = RemoveAt(tasklist, CHOOSE i \in DOMAIN tasklist : tasklist[i] = p)
  /\ UNCHANGED << last_pid, next_safe, exhausted >>

-----------------------------------------------------------------------------
(* Who changes the ids of a process *)

SetIds(t, session, pgrp) ==
  /\ task' = [task EXCEPT ![t].session = session, ![t].pgrp = pgrp]
  /\ UNCHANGED << tasklist, last_pid, next_safe, exhausted >>

\* kernel/sys.c: unless it leads a group, a process starts a session.
sys_setsid(t) ==
  /\ Running(t)
  /\ \A p \in ToSet(tasklist) : task[p].pgrp # task[t].pid
  /\ SetIds(t, task[t].pid, task[t].pid)

\* kernel/sys.c: a process moves to a group of its own, or of its session.  Its parent
\* may move it too, before it has called exec; that is not considered.
sys_setpgid(t) ==
  /\ Running(t) /\ task[t].session # task[t].pid
  /\ \E p \in ToSet(tasklist) :
       /\ task[p].session = task[t].session
       /\ \E pgid \in {task[t].pid, task[p].pgrp} : SetIds(t, task[t].session, pgid)

\* Kernel threads.
daemonize(t) ==
  /\ Running(t)
  /\ SetIds(t, 1, 1)

-----------------------------------------------------------------------------
Next ==
  \E t \in Task :
    \/ GetPid(t) \/ BadFork(t) \/ Link(t) \/ release_task(t)
    \/ sys_setsid(t) \/ sys_setpgid(t) \/ daemonize(t)

Spec == Init /\ [][Next]_vars

-----------------------------------------------------------------------------
(* Properties *)

\* An id that get_pid hands out is in no use as a process, thread group, process
\* group or session id, neither by a task on the list nor by a fork under way: the
\* window below next_safe is still free when it is used up, whatever was forked,
\* released or regrouped since the scan, and although the scan restarts in the middle.
\* Up to the first time that ids run out: then the window is left half computed.
FreshPid ==
  [][\A p \in Task : ~exhausted /\ task[p].state = "FREE" /\ task'[p].state = "EMBRYO"
       => \A t \in {q \in Task : task[q].state # "FREE"} :
            task'[p].pid \notin {task[t].pid, task[t].tgid, task[t].pgrp, task[t].session}]_vars

=============================================================================
