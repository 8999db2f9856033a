------------------------------ MODULE Resources ------------------------------
(***************************************************************************)
(* What processes share: address spaces, open files, file system contexts  *)
(* and signal handlers, counted by do_fork, do_exit, daemonize, exec and   *)
(* context_switch.  A kernel thread has no address space of its own: while *)
(* it runs it borrows, in active_mm, the one of the process before it.     *)
(*                                                                         *)
(* There is one processor.  A step ends where the code may sleep; there,   *)
(* and on the way to user mode, another process may be switched to.        *)
(***************************************************************************)
EXTENDS Naturals, FiniteSets

CONSTANTS
  Task,          \* slots of task_structs
  swapper,       \* the idle task, which is init_task
  child_reaper,  \* the init process
  NULL,          \* the null pointer
  Obj,           \* addresses of mm_structs, and of the other structures
  init_obj,      \* that of init_mm, init_files, init_fs and init_signals
  Builds         \* the programs considered, see BuildAssumption

Kinds == {"files", "fs", "sig"}
CloneFlags == {"CLONE_VM", "CLONE_FILES", "CLONE_FS", "CLONE_SIGHAND", "CLONE_VFORK"}
Failing == {"copy_files", "copy_fs", "copy_sighand", "copy_mm", "dup_mmap", "copy_thread"}

\* clone: the flags passed to do_fork.  fails: what may run out of memory or
\* permission.  forks: a bound on the forks.  calls: what processes do besides.
ASSUME BuildAssumption ==
  Builds \subseteq [clone : SUBSET SUBSET CloneFlags, fails : SUBSET Failing, forks : Nat,
                    calls : SUBSET {"exec", "daemonize", "lazy"}]
ASSUME TaskAssumption ==
  /\ IsFiniteSet(Task) /\ {swapper, child_reaper} \subseteq Task /\ NULL \notin Task
  /\ swapper # child_reaper
ASSUME ObjAssumption == init_obj \in Obj /\ Obj # {init_obj} /\ NULL \notin Obj

VARIABLES
  curr,        \* current, the running process
  task,        \* the task_structs
  pc,          \* where each process is in do_fork, do_exit, daemonize
  local,       \* their local variables
  mm,          \* the reference counts of the mm_structs, and mmlist
  count,       \* those of the other structures
  nr_threads,  \* processes on the list
  processes,   \* processes of the user
  forks,       \* number of forks so far
  build        \* the element of Builds the behaviour is about

vars == << curr, task, pc, local, mm, count, nr_threads, processes, forks, build >>

PCs == {"none", "user", "lazy", "copy_files", "copy_fs", "copy_sighand", "copy_mm",
        "dup_mmap", "dup_vmas", "copy_thread", "link", "vfork", "mmput",
        "bad_fork_mm", "bad_fork_sighand", "bad_fork_fs", "bad_fork_files", "bad_fork",
        "exit_files", "exit_fs", "exit_sighand", "exit_notify", "dead",
        "daemonize_fs", "daemonize_init_fs", "daemonize_files", "daemonize_init_files"}

Ref == Obj \cup {NULL}

\* In local: p is the child of do_fork, mm what mmput puts or copy_mm makes, then
\* where mmput returns to, and done the completion vfork, on the parent's stack.
TypeOK ==
  /\ curr \in Task
  /\ task \in [Task -> [state : {"FREE", "EMBRYO", "RUNNING", "ZOMBIE"},
                        mm : Ref, active_mm : Ref, files : Ref, fs : Ref, sig : Ref,
                        vfork_done : Task \cup {NULL}]]
  /\ pc \in [Task -> PCs]
  /\ local \in [Task -> [p : Task \cup {NULL}, flags : SUBSET CloneFlags, mm : Ref,
                         then : PCs, done : BOOLEAN]]
  /\ mm \in [Obj -> [users : Nat, count : Nat, listed : BOOLEAN]]
  /\ count \in [Kinds -> [Obj -> Nat]]
  /\ nr_threads \in Nat /\ processes \in Nat
  /\ build \in Builds /\ forks \in 0 .. build.forks

FreeTask == [state |-> "FREE", mm |-> NULL, active_mm |-> NULL, files |-> NULL,
             fs |-> NULL, sig |-> NULL, vfork_done |-> NULL]
NoLocal  == [p |-> NULL, flags |-> {}, mm |-> NULL, then |-> "none", done |-> FALSE]
FreeMM   == [users |-> 0, count |-> 0, listed |-> FALSE]

\* Init was cloned from the idle task with its files and fs, and has executed a
\* program: its address space and signal handlers are its own.
Init ==
  LET own == CHOOSE o \in Obj : o # init_obj
  IN  /\ curr = child_reaper
      /\ task = [t \in Task |->
           CASE t = swapper ->
                  [FreeTask EXCEPT !.state = "RUNNING", !.files = init_obj,
                                   !.fs = init_obj, !.sig = init_obj]
             [] t = child_reaper ->
                  [FreeTask EXCEPT !.state = "RUNNING", !.mm = own, !.active_mm = own,
                                   !.files = init_obj, !.fs = init_obj, !.sig = own]
             [] OTHER -> FreeTask]
      /\ pc = [t \in Task |-> IF t \in {swapper, child_reaper} THEN "user" ELSE "none"]
      /\ local = [t \in Task |-> NoLocal]
      /\ mm = [m \in Obj |->
           CASE m = init_obj -> [users |-> 2, count |-> 1, listed |-> FALSE]
             [] m = own      -> [users |-> 1, count |-> 1, listed |-> TRUE]
             [] OTHER        -> FreeMM]
      /\ count = [k \in Kinds |-> [o \in Obj |->
           IF k = "sig" THEN (IF o \in {init_obj, own} THEN 1 ELSE 0)
                        ELSE (IF o = init_obj THEN 2 ELSE 0)]]
      /\ nr_threads = 1 /\ processes = 1 /\ forks = 0
      /\ build \in Builds

-----------------------------------------------------------------------------
(* Operators *)

At(t, place) == curr = t /\ pc[t] = place
Goto(t, place) == pc' = [pc EXCEPT ![t] = place]

Set(t, field, value) == task' = [task EXCEPT ![t][field] = value]

\* Nothing is made when no address is left.
FreeObjs(k) == {o \in Obj : count[k][o] = 0}
FreeObj(k)  == CHOOSE o \in FreeObjs(k) : TRUE
FreeMMs     == {m \in Obj : mm[m] = FreeMM}
Unallocated == {q \in Task : task[q].state = "FREE"}

\* Functions of the mm_structs M.
GrabUser(M, m) == [M EXCEPT ![m].users = @ + 1]
GrabMM(M, m)   == [M EXCEPT ![m].count = @ + 1]
mmdrop(M, m)   == [M EXCEPT ![m].count = @ - 1]

\* mmput up to exit_mmap, which may sleep; the last user has its mmdrop to do.
LastUser(M, m)   == M[m].users = 1
mmput_user(M, m) == [M EXCEPT ![m].users = @ - 1,
                              ![m].listed = @ /\ ~LastUser(M, m)]

\* t puts the user m of M, and goes on at place then.
PutMM(t, M, m, then, l) ==
  /\ mm' = mmput_user(M, m)
  /\ IF LastUser(M, m)
     THEN Goto(t, "mmput") /\ local' = [l EXCEPT ![t].mm = m, ![t].then = then]
     ELSE Goto(t, then) /\ local' = [l EXCEPT ![t].mm = NULL]

\* The end of mmput.
MMPut(t) ==
  /\ At(t, "mmput")
  /\ mm' = mmdrop(mm, local[t].mm)
  /\ Goto(t, local[t].then)
  /\ local' = [local EXCEPT ![t].mm = NULL, ![t].then = "none"]
  /\ UNCHANGED << curr, task, count, nr_threads, processes, forks, build >>

\* mm_release: t, the current process, forgets the completion; its parent's done
\* is set by Completed.
mm_release(t, T) == [T EXCEPT ![t].vfork_done = NULL]
Completed(t) ==
  IF task[t].vfork_done = NULL THEN local
  ELSE [local EXCEPT ![task[t].vfork_done].done = TRUE]

\* Mutant: the lazy reference is not taken before the address space is put.
exit_mm_no_count(t, tsk, then) ==
  LET m == task[tsk].mm
  IN  /\ task' = [mm_release(t, task) EXCEPT ![tsk].mm = NULL]
      /\ IF m = NULL THEN mm' = mm /\ local' = Completed(t) /\ Goto(t, then)
                     ELSE PutMM(t, mm, m, then, Completed(t))

\* exit_mm(tsk), called by t: the address space becomes a borrowed one.
exit_mm(t, tsk, then) ==
  LET m == task[tsk].mm
  IN  /\ task' = [mm_release(t, task) EXCEPT ![tsk].mm = NULL]
      /\ IF m = NULL THEN mm' = mm /\ local' = Completed(t) /\ Goto(t, then)
                     ELSE PutMM(t, GrabMM(mm, m), m, then, Completed(t))

\* __exit_files, __exit_fs, exit_sighand of task q.
ExitStruct(t, q, kind, here, next) ==
  /\ At(t, here)
  /\ LET o == task[q][kind]
     IN  count' = IF o = NULL THEN count ELSE [count EXCEPT ![kind][o] = @ - 1]
  /\ Set(q, kind, NULL)
  /\ Goto(t, next)
  /\ UNCHANGED << curr, local, mm, nr_threads, processes, forks, build >>

-----------------------------------------------------------------------------
(* do_fork *)

\* Mutant: without CLONE_VFORK the child keeps the parent's vfork_done.
Copied_keep(t, flags) ==
  [task[t] EXCEPT !.state = "EMBRYO",
                  !.vfork_done = IF "CLONE_VFORK" \in flags THEN t ELSE @]

\* The copy *p = *current, and vfork_done.
Copied(t, flags) ==
  [task[t] EXCEPT !.state = "EMBRYO",
                  !.vfork_done = IF "CLONE_VFORK" \in flags THEN t ELSE NULL]

\* The beginning of do_fork; a failure there leaves no trace.
Fork(t) ==
  /\ At(t, "user") /\ t # swapper /\ forks < build.forks
  /\ Unallocated # {}
  /\ LET p == CHOOSE q \in Unallocated : TRUE
     IN  \E flags \in build.clone :
           /\ task' = [task EXCEPT ![p] = Copied(t, flags)]
           /\ local' = [local EXCEPT ![t] = [NoLocal EXCEPT !.p = p, !.flags = flags]]
  /\ processes' = processes + 1 /\ forks' = forks + 1
  /\ Goto(t, "copy_files")
  /\ UNCHANGED << curr, mm, count, nr_threads, build >>

\* Mutant: the shared structure is not counted for the child.
CopyStruct_no_count(t, kind, flag, here, next, cleanup) ==
  LET p == local[t].p
      o == FreeObj(kind)
  IN  /\ At(t, here)
      /\ IF task[t][kind] = NULL \/ flag \in local[t].flags
         THEN task' = task /\ count' = count /\ Goto(t, next)
         ELSE \/ /\ Set(p, kind, o) /\ count' = [count EXCEPT ![kind][o] = 1]
                 /\ Goto(t, next)
              \/ /\ here \in build.fails /\ Set(p, kind, NULL) /\ count' = count
                 /\ Goto(t, cleanup)
      /\ UNCHANGED << curr, local, mm, nr_threads, processes, forks, build >>

\* copy_files, copy_fs and copy_sighand: the child p, a copy, shares the structure
\* of its parent or gets one of its own.
CopyStruct(t, kind, flag, here, next, cleanup) ==
  LET p == local[t].p
      old == task[t][kind]
      Share ==
        /\ task' = task
        /\ count' = IF old = NULL THEN count ELSE [count EXCEPT ![kind][old] = @ + 1]
        /\ Goto(t, next)
      Make ==
        LET o == FreeObj(kind)
        IN  /\ FreeObjs(kind) # {}
            /\ Set(p, kind, o) /\ count' = [count EXCEPT ![kind][o] = 1]
            /\ Goto(t, next)
      Fail ==
        here \in build.fails /\ Set(p, kind, NULL) /\ count' = count /\ Goto(t, cleanup)
  IN  /\ At(t, here)
      /\ IF old = NULL \/ flag \in local[t].flags THEN Share ELSE Make \/ Fail
      /\ UNCHANGED << curr, local, mm, nr_threads, processes, forks, build >>

CopyFiles(t) ==
  CopyStruct(t, "files", "CLONE_FILES", "copy_files", "copy_fs", "bad_fork")
CopyFs(t) ==
  CopyStruct(t, "fs", "CLONE_FS", "copy_fs", "copy_sighand", "bad_fork_files")
CopySighand(t) ==
  CopyStruct(t, "sig", "CLONE_SIGHAND", "copy_sighand", "copy_mm", "bad_fork_fs")

\* What copy_mm gives the child p.
SetMM(p, m) == task' = [task EXCEPT ![p].mm = m, ![p].active_mm = m]

\* copy_mm: a kernel thread has none, CLONE_VM shares it, and otherwise one is made.
CopyMM(t) ==
  LET p == local[t].p
      oldmm == task[t].mm
      m == CHOOSE o \in FreeMMs : TRUE
      Share == SetMM(p, oldmm) /\ mm' = GrabUser(mm, oldmm)
                 /\ local' = local /\ Goto(t, "copy_thread")
      Make  == FreeMMs # {} /\ SetMM(p, NULL)
                 /\ mm' = [mm EXCEPT ![m] = [users |-> 1, count |-> 1, listed |-> FALSE]]
                 /\ local' = [local EXCEPT ![t].mm = m] /\ Goto(t, "dup_mmap")
      Fail  == "copy_mm" \in build.fails /\ SetMM(p, NULL)
                 /\ UNCHANGED << mm, local >> /\ Goto(t, "bad_fork_sighand")
  IN  /\ At(t, "copy_mm")
      /\ IF oldmm = NULL
         THEN SetMM(p, NULL) /\ UNCHANGED << mm, local >> /\ Goto(t, "copy_thread")
         ELSE IF "CLONE_VM" \in local[t].flags THEN Share ELSE Make \/ Fail
      /\ UNCHANGED << curr, count, nr_threads, processes, forks, build >>

\* dup_mmap: the new mm goes on mmlist before its pages are copied, and stays there
\* when that fails.
DupMmap(t) ==
  /\ At(t, "dup_mmap")
  /\ mm' = [mm EXCEPT ![local[t].mm].listed = TRUE]
  /\ Goto(t, "dup_vmas")
  /\ UNCHANGED << curr, task, local, count, nr_threads, processes, forks, build >>

DupVmas(t) ==
  /\ At(t, "dup_vmas")
  /\ \/ /\ SetMM(local[t].p, local[t].mm)
        /\ local' = [local EXCEPT ![t].mm = NULL]
        /\ Goto(t, "copy_thread") /\ mm' = mm
     \/ /\ "dup_mmap" \in build.fails
        /\ PutMM(t, mm, local[t].mm, "bad_fork_sighand", local)
        /\ task' = task
  /\ UNCHANGED << curr, count, nr_threads, processes, forks, build >>

\* copy_namespace and copy_thread, which are not in this code, may fail.
CopyThread(t) ==
  /\ At(t, "copy_thread")
  /\ \/ Goto(t, "link")
     \/ "copy_thread" \in build.fails /\ Goto(t, "bad_fork_mm")
  /\ UNCHANGED << curr, task, local, mm, count, nr_threads, processes, forks, build >>

\* The child is put on the list of tasks and woken.
Link(t) ==
  LET p == local[t].p
      vfork == "CLONE_VFORK" \in local[t].flags
  IN  /\ At(t, "link")
      /\ Set(p, "state", "RUNNING")
      /\ pc' = [pc EXCEPT ![p] = "user", ![t] = IF vfork THEN "vfork" ELSE "user"]
      /\ local' = IF vfork THEN local ELSE [local EXCEPT ![t] = NoLocal]
      /\ nr_threads' = nr_threads + 1
  /\ UNCHANGED << curr, mm, count, processes, forks, build >>

WaitForVfork(t) ==
  /\ At(t, "vfork") /\ local[t].done
  /\ local' = [local EXCEPT ![t] = NoLocal]
  /\ Goto(t, "user")
  /\ UNCHANGED << curr, task, mm, count, nr_threads, processes, forks, build >>

\* The failures, in the order of the labels bad_fork_cleanup_*.
BadForkMM(t) ==
  /\ At(t, "bad_fork_mm")
  /\ exit_mm(t, local[t].p, "bad_fork_sighand")
  /\ UNCHANGED << curr, count, nr_threads, processes, forks, build >>

BadForkSighand(t) == ExitStruct(t, local[t].p, "sig", "bad_fork_sighand", "bad_fork_fs")
BadForkFs(t)      == ExitStruct(t, local[t].p, "fs", "bad_fork_fs", "bad_fork_files")
BadForkFiles(t)   == ExitStruct(t, local[t].p, "files", "bad_fork_files", "bad_fork")

BadFork(t) ==
  /\ At(t, "bad_fork")
  /\ task' = [task EXCEPT ![local[t].p] = FreeTask]
  /\ processes' = processes - 1
  /\ local' = [local EXCEPT ![t] = NoLocal]
  /\ Goto(t, "user")
  /\ UNCHANGED << curr, mm, count, nr_threads, forks, build >>

-----------------------------------------------------------------------------
(* do_exit and release_task *)

Exit(t) ==
  /\ At(t, "user") /\ t \notin {swapper, child_reaper}
  /\ exit_mm(t, t, "exit_files")
  /\ UNCHANGED << curr, count, nr_threads, processes, forks, build >>

ExitFiles(t)   == ExitStruct(t, t, "files", "exit_files", "exit_fs")
ExitFs(t)      == ExitStruct(t, t, "fs", "exit_fs", "exit_sighand")
ExitSighand(t) == ExitStruct(t, t, "sig", "exit_sighand", "exit_notify")

ExitNotify(t) ==
  /\ At(t, "exit_notify")
  /\ Set(t, "state", "ZOMBIE")
  /\ Goto(t, "dead")
  /\ UNCHANGED << curr, local, mm, count, nr_threads, processes, forks, build >>

\* release_task, by whoever reaps p.
Release(t, p) ==
  /\ At(t, "user") /\ t # swapper /\ task[p].state = "ZOMBIE"
  /\ task' = [task EXCEPT ![p] = FreeTask]
  /\ pc' = [pc EXCEPT ![p] = "none"]
  /\ processes' = processes - 1 /\ nr_threads' = nr_threads - 1
  /\ UNCHANGED << curr, local, mm, count, forks, build >>

-----------------------------------------------------------------------------
(* daemonize, exec and lazy TLB mode *)

\* A process becomes a kernel thread, with the files and fs of init_task.
Daemonize(t) ==
  /\ At(t, "user") /\ "daemonize" \in build.calls /\ t \notin {swapper, child_reaper}
  /\ exit_mm(t, t, "daemonize_fs")
  /\ UNCHANGED << curr, count, nr_threads, processes, forks, build >>

AdoptStruct(t, kind, here, next) ==
  /\ At(t, here)
  /\ Set(t, kind, task[swapper][kind])
  /\ count' = [count EXCEPT ![kind][task[swapper][kind]] = @ + 1]
  /\ Goto(t, next)
  /\ UNCHANGED << curr, local, mm, nr_threads, processes, forks, build >>

DaemonizeFs(t)        == ExitStruct(t, t, "fs", "daemonize_fs", "daemonize_init_fs")
DaemonizeInitFs(t)    == AdoptStruct(t, "fs", "daemonize_init_fs", "daemonize_files")
DaemonizeFiles(t)     == ExitStruct(t, t, "files", "daemonize_files", "daemonize_init_files")
DaemonizeInitFiles(t) == AdoptStruct(t, "files", "daemonize_init_files", "user")

\* fs/exec.c: the only user of an address space empties it, another leaves it for a
\* new one, and a kernel thread gives its borrowed one back.
Exec(t) ==
  LET old == task[t].mm
      new == CHOOSE o \in FreeMMs : TRUE
      M == [mm EXCEPT ![new] = [users |-> 1, count |-> 1, listed |-> TRUE]]
      T == mm_release(t, task)
      N == [T EXCEPT ![t].mm = new, ![t].active_mm = new]
  IN  /\ At(t, "user") /\ t # swapper /\ "exec" \in build.calls
      /\ IF old = NULL
         THEN /\ FreeMMs # {} /\ mm' = mmdrop(M, task[t].active_mm) /\ task' = N
              /\ local' = Completed(t) /\ pc' = pc
         ELSE IF LastUser(mm, old)
         THEN mm' = mm /\ task' = T /\ local' = Completed(t) /\ pc' = pc
         ELSE FreeMMs # {} /\ PutMM(t, M, old, "user", Completed(t)) /\ task' = N
  /\ UNCHANGED << curr, count, nr_threads, processes, forks, build >>

start_lazy_tlb(t) ==
  LET m == task[t].mm
  IN  /\ At(t, "user") /\ "lazy" \in build.calls /\ m # NULL
      /\ Set(t, "mm", NULL)
      /\ mm' = GrabMM(mm, m)
      /\ local' = [local EXCEPT ![t].mm = m]
      /\ Goto(t, "lazy")
      /\ UNCHANGED << curr, count, nr_threads, processes, forks, build >>

\* Mutant: the address space dropped is the own one, not the borrowed one.
end_lazy_tlb_own(t) ==
  LET m == local[t].mm
  IN  /\ At(t, "lazy")
      /\ SetMM(t, m)
      /\ mm' = mmdrop(mm, m)
      /\ local' = [local EXCEPT ![t].mm = NULL]
      /\ Goto(t, "user")
      /\ UNCHANGED << curr, count, nr_threads, processes, forks, build >>

end_lazy_tlb(t) ==
  LET m == local[t].mm
  IN  /\ At(t, "lazy")
      /\ SetMM(t, m)
      /\ mm' = mmdrop(mm, task[t].active_mm)
      /\ local' = [local EXCEPT ![t].mm = NULL]
      /\ Goto(t, "user")
      /\ UNCHANGED << curr, count, nr_threads, processes, forks, build >>

-----------------------------------------------------------------------------
(* context_switch *)

\* Whether t may leave the processor: it returns to user mode, waits, or sleeps for
\* memory, for a lock or while it closes files and unmaps pages.
MaySleep(t) ==
  \/ pc[t] \in {"user", "lazy", "dup_mmap", "dup_vmas", "copy_thread", "mmput",
                "bad_fork_files", "bad_fork", "exit_fs", "exit_sighand", "exit_notify",
                "dead", "daemonize_init_fs", "daemonize_init_files"}
  \/ pc[t] = "copy_files" /\ "CLONE_FILES" \notin local[t].flags
  \/ pc[t] = "copy_fs" /\ "CLONE_FS" \notin local[t].flags
  \/ pc[t] = "copy_sighand" /\ "CLONE_SIGHAND" \notin local[t].flags
  \/ pc[t] = "copy_mm" /\ "CLONE_VM" \notin local[t].flags /\ task[t].mm # NULL
  \/ pc[t] = "vfork" /\ ~local[t].done

Runnable(t) == task[t].state = "RUNNING" /\ (pc[t] = "vfork" => local[t].done)

\* Mutant: prev keeps the address space it borrowed.
context_switch_keep(prev, next) ==
  LET oldmm == task[prev].active_mm
      T == IF task[next].mm = NULL THEN [task EXCEPT ![next].active_mm = oldmm] ELSE task
      M == IF task[next].mm = NULL THEN GrabMM(mm, oldmm) ELSE mm
  IN  task' = T /\ mm' = M

\* A next without an address space borrows prev's, and a prev without one gives its
\* borrowed one back.
context_switch(prev, next) ==
  LET oldmm == task[prev].active_mm
      T == IF task[next].mm = NULL THEN [task EXCEPT ![next].active_mm = oldmm] ELSE task
      M == IF task[next].mm = NULL THEN GrabMM(mm, oldmm) ELSE mm
  IN  IF task[prev].mm = NULL
      THEN task' = [T EXCEPT ![prev].active_mm = NULL] /\ mm' = mmdrop(M, oldmm)
      ELSE task' = T /\ mm' = M

Switch(prev, next) ==
  /\ curr = prev /\ MaySleep(prev)
  /\ next # prev /\ Runnable(next)
  /\ curr' = next
  /\ context_switch(prev, next)
  /\ UNCHANGED << pc, local, count, nr_threads, processes, forks, build >>

-----------------------------------------------------------------------------

Step(t) ==
  \/ CopyFiles(t) \/ CopyFs(t) \/ CopySighand(t) \/ CopyMM(t) \/ DupMmap(t)
  \/ DupVmas(t) \/ CopyThread(t) \/ Link(t) \/ WaitForVfork(t) \/ MMPut(t)
  \/ BadForkMM(t) \/ BadForkSighand(t) \/ BadForkFs(t) \/ BadForkFiles(t) \/ BadFork(t)
  \/ ExitFiles(t) \/ ExitFs(t) \/ ExitSighand(t) \/ ExitNotify(t)
  \/ DaemonizeFs(t) \/ DaemonizeInitFs(t) \/ DaemonizeFiles(t) \/ DaemonizeInitFiles(t)

Call(t) ==
  \/ Fork(t) \/ Exit(t) \/ Daemonize(t) \/ Exec(t)
  \/ start_lazy_tlb(t) \/ end_lazy_tlb(t)
  \/ \E p \in Task : Release(t, p) \/ Switch(t, p)

Next == \E t \in Task : Step(t) \/ Call(t)

Spec == Init /\ [][Next]_vars

-----------------------------------------------------------------------------
(* Properties *)

\* The process in do_fork that makes the child q.
Maker(q) == CHOOSE t \in Task : local[t].p = q /\ pc[t] # "vfork"

\* Where do_fork has not counted, or no longer counts, what the child was copied with.
Uncounted == [files |-> {"copy_files"},
              fs    |-> {"copy_files", "copy_fs", "bad_fork"},
              sig   |-> {"copy_files", "copy_fs", "copy_sighand", "bad_fork_files", "bad_fork"}]

Holders(k, o) == {q \in Task : /\ task[q][k] = o
                               /\ task[q].state = "EMBRYO" => pc[Maker(q)] \notin Uncounted[k]}

\* Every files_struct, fs_struct and signal_struct is counted once for each process
\* that uses it, also while a fork sleeps between its copies or undoes them, and
\* nr_threads and user->processes count the processes there are.
RefsCounted ==
  /\ \A k \in Kinds, o \in Obj : count[k][o] = Cardinality(Holders(k, o))
  /\ nr_threads = Cardinality({q \in Task \ {swapper} : task[q].state \in {"RUNNING", "ZOMBIE"}})
  /\ processes = Cardinality({q \in Task \ {swapper} : task[q].state # "FREE"})

Users(m) ==
  {q \in Task : /\ task[q].mm = m
                /\ task[q].state = "EMBRYO" =>
                     pc[Maker(q)] \in {"copy_thread", "link", "bad_fork_mm"}}
HeldUsers(m) == {t \in Task : pc[t] \in {"lazy", "dup_mmap", "dup_vmas"} /\ local[t].mm = m}
Borrowers(m) ==
  {q \in Task : task[q].state # "EMBRYO" /\ task[q].mm = NULL /\ task[q].active_mm = m}
Putting(m)   == \E t \in Task : pc[t] = "mmput" /\ local[t].mm = m

\* An address space is counted for its users, and its page tables for the users
\* together and for whoever borrows it: it is not freed under a kernel thread or an
\* exiting process, and none is lost unless a fork fails in copy_thread.
MMCounted ==
  \A m \in Obj :
    LET users == Cardinality(Users(m)) + Cardinality(HeldUsers(m))
                   + (IF m = init_obj THEN 2 ELSE 0)
        holders == Cardinality(Borrowers(m)) + (IF users > 0 \/ Putting(m) THEN 1 ELSE 0)
        new == \E t \in Task : pc[t] = "dup_mmap" /\ local[t].mm = m
    IN  /\ mm[m].users = users
        /\ mm[m].count >= holders
        /\ "copy_thread" \notin build.fails => mm[m].count = holders
        /\ mm[m].listed <=> users > 0 /\ m # init_obj /\ ~new

\* The running process has an active address space, its own if it has one; a
\* process that waits keeps none it has not got itself (BUG_ON in __exit_mm).
ActiveMM ==
  \A q \in Task : task[q].state \in {"RUNNING", "ZOMBIE"} =>
    IF task[q].mm # NULL THEN task[q].active_mm = task[q].mm
                         ELSE q = curr <=> task[q].active_mm # NULL

\* A parent in vfork is released no earlier than its child has left the parent's
\* address space: mm_release "is called after a mm_struct has been removed from the
\* current process".
VforkWaits ==
  [][\A t \in Task : ~local[t].done /\ local'[t].done /\ task'[t].mm # NULL =>
       task'[local[t].p].mm # task'[t].mm]_vars

=============================================================================
