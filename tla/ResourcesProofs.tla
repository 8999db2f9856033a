--------------------------- MODULE ResourcesProofs ---------------------------
(***************************************************************************)
(* What processes share is counted right, and the active address space is  *)
(* the one that is borrowed: for every number of processes, of structures  *)
(* and of forks, whatever fails in them.                                   *)
(***************************************************************************)
EXTENDS Resources, Integers, FiniteSetTheorems, TLAPS

-----------------------------------------------------------------------------
(* The invariant, without the counts *)

TaskStructs == [state : {"FREE", "EMBRYO", "RUNNING", "ZOMBIE"},
                mm : Ref, active_mm : Ref, files : Ref, fs : Ref, sig : Ref,
                vfork_done : Task \cup {NULL}]
Locals == [p : Task \cup {NULL}, flags : SUBSET CloneFlags, mm : Ref, then : PCs,
           done : BOOLEAN]
MMs == [users : Int, count : Int, listed : BOOLEAN]

\* The types, of the counts no more than that they are numbers.
Shape ==
  /\ curr \in Task /\ task \in [Task -> TaskStructs] /\ pc \in [Task -> PCs]
  /\ local \in [Task -> Locals] /\ mm \in [Obj -> MMs] /\ count \in [Kinds -> [Obj -> Int]]
  /\ nr_threads \in Int /\ processes \in Int /\ build \in Builds /\ forks \in 0 .. build.forks

\* Where a process has a child that is not on the list of tasks yet.
Forking == {"copy_files", "copy_fs", "copy_sighand", "copy_mm", "dup_mmap", "dup_vmas",
            "copy_thread", "link", "bad_fork_mm", "bad_fork_sighand", "bad_fork_fs",
            "bad_fork_files", "bad_fork"}
Makes(t) == pc[t] \in Forking \/ (pc[t] = "mmput" /\ local[t].then = "bad_fork_sighand")

\* Where an exiting process has no address space any more.
Ending == {"exit_files", "exit_fs", "exit_sighand", "exit_notify", "dead"}

\* What a process has given up, by where it is.
StateOK(t) ==
  LET k == task[t]
  IN  /\ k.state = "FREE" => k = FreeTask
      /\ k.state \in {"FREE", "EMBRYO"} <=> pc[t] = "none"
      /\ k.state = "ZOMBIE" <=> pc[t] = "dead"
      /\ \/ pc[t] \in {"lazy"} \cup Ending
         \/ pc[t] = "mmput" /\ local[t].then = "exit_files"
         => k.mm = NULL
      /\ pc[t] \in {"exit_fs", "exit_sighand", "exit_notify", "dead", "daemonize_init_files"} =>
           k.files = NULL
      /\ pc[t] \in {"exit_sighand", "exit_notify", "dead", "daemonize_init_fs"} => k.fs = NULL
      /\ pc[t] \in {"exit_notify", "dead"} => k.sig = NULL

\* Which local variables are set.
LocalOK(t) ==
  LET l == local[t]
  IN  /\ l.p # NULL => Makes(t) \/ pc[t] = "vfork"
      /\ l.mm # NULL <=> pc[t] \in {"lazy", "dup_mmap", "dup_vmas", "mmput"}
      /\ pc[t] = "mmput" => l.then \in {"bad_fork_sighand", "exit_files", "daemonize_fs", "user"}
      /\ pc[t] = "bad_fork_mm" => "copy_thread" \in build.fails

\* What a child has: what it was copied with, until it is given its own, and nothing
\* that a failed fork has undone.
ChildOK(t) ==
  Makes(t) =>
    LET k == task[t]
        c == task[local[t].p]
    IN  /\ local[t].p \in Task /\ c.state = "EMBRYO"
        /\ pc[t] = "copy_files" => c.files = k.files
        /\ pc[t] \in {"copy_files", "copy_fs"} => c.fs = k.fs
        /\ pc[t] \in {"copy_files", "copy_fs", "copy_sighand"} => c.sig = k.sig
        /\ pc[t] \in {"copy_thread", "link"} => c.active_mm = c.mm
        /\ pc[t] = "bad_fork_fs" => c.sig = NULL
        /\ pc[t] = "bad_fork_files" => c.fs = NULL
        /\ pc[t] = "bad_fork" => c.files = NULL

\* A child has one maker.
Unshared == \A t, u \in Task : Makes(t) /\ Makes(u) /\ local[t].p = local[u].p => t = u
Made == \A q \in Task : task[q].state = "EMBRYO" => \E t \in Task : Makes(t) /\ local[t].p = q

SwapperOK ==
  /\ task[swapper].state = "RUNNING" /\ pc[swapper] = "user" /\ task[swapper].mm = NULL
  /\ task[swapper].files = init_obj /\ task[swapper].fs = init_obj

Living == {"RUNNING", "ZOMBIE"}

\* ActiveMM of one process.
ActiveOK(q) ==
  task[q].state \in Living =>
    IF task[q].mm # NULL THEN task[q].active_mm = task[q].mm
                         ELSE q = curr <=> task[q].active_mm # NULL

Struct ==
  /\ Shape /\ \A t \in Task : StateOK(t) /\ LocalOK(t) /\ ChildOK(t) /\ ActiveOK(t)
  /\ Unshared /\ Made /\ SwapperOK /\ task[curr].state \in Living

-----------------------------------------------------------------------------
(* Frames *)

\* The constants.
LEMMA Constants ==
  /\ IsFiniteSet(Task) /\ swapper \in Task /\ child_reaper \in Task /\ NULL \notin Task
  /\ swapper # child_reaper /\ init_obj \in Obj /\ NULL \notin Obj
  /\ \E o \in Obj : o # init_obj
BY TaskAssumption, ObjAssumption

\* What is known of the running process.
LEMMA Acting ==
  ASSUME Struct, NEW t, curr = t
  PROVE  /\ t \in Task /\ StateOK(t) /\ LocalOK(t) /\ ChildOK(t) /\ ActiveOK(t)
         /\ task[t] \in TaskStructs /\ local[t] \in Locals
         /\ task[t].state \in Living /\ pc[t] # "none"
         /\ pc[t] # "dead" => task[t].state = "RUNNING"
         /\ \A u \in Task : Makes(u) => local[u].p # t
         /\ pc[t] # "user" => t # swapper
         /\ Shape
BY DEF Struct, Shape, StateOK, ChildOK, SwapperOK, Living

\* What is known of its child.
LEMMA Child ==
  ASSUME Struct, NEW t, curr = t, Makes(t), NEW p, p = local[t].p
  PROVE  /\ p \in Task /\ p # t /\ p # swapper /\ t # swapper
         /\ task[p] \in TaskStructs /\ task[p].state = "EMBRYO" /\ pc[p] = "none" /\ ~Makes(p)
         /\ StateOK(p) /\ LocalOK(p) /\ local[p].p = NULL /\ local[p].mm = NULL
         /\ \A u \in Task \ {t} : Makes(u) => local[u].p # p
         /\ task[t].state = "RUNNING"
<1>1. /\ p \in Task /\ task[p].state = "EMBRYO" /\ pc[t] # "dead" /\ t # swapper
      /\ t \in Task /\ task[t].state = "RUNNING"
  BY Acting DEF ChildOK, Makes, Forking
<1>2. StateOK(p) /\ LocalOK(p) /\ task[p] \in TaskStructs /\ local[p] \in Locals
  BY <1>1 DEF Struct, Shape
<1>3. pc[p] = "none"
  BY <1>1, <1>2 DEF StateOK
<1>4. ~Makes(p)
  BY <1>3 DEF Makes, Forking
<1> QED
  BY <1>1, <1>2, <1>3, <1>4 DEF LocalOK, Struct, Unshared, SwapperOK

\* A process that a step leaves alone.
Same(u) ==
  /\ pc'[u] = pc[u] /\ task'[u] = task[u] /\ local'[u].p = local[u].p
  /\ local'[u].mm = local[u].mm /\ local'[u].then = local[u].then

\* A step of t that changes the task_struct of x besides, the child of t if it has one.
Moves(t, x) ==
  /\ t \in Task /\ x \in Task /\ curr = t /\ curr' = t /\ \A u \in Task \ {t, x} : Same(u)
  /\ task[t].state \in Living /\ task'[t].state \in Living
  /\ Makes(t) => local[t].p = x
  /\ Makes(t)' => local'[t].p = x
  /\ task[x].state = "EMBRYO" => Makes(t)
  /\ task'[x].state = "EMBRYO" => Makes(t)'
  /\ x # t => ~Makes(x) /\ ~Makes(x)'

\* Which process that is.
Subject(t) == IF Makes(t) THEN local[t].p ELSE t

\* Where a child has what is not counted for it.
Early == {"copy_files", "copy_fs", "copy_sighand", "bad_fork_files", "bad_fork"}

\* A step that leaves the files, the fs and the signal handlers alone.
RefsSame(t) ==
  /\ UNCHANGED << count, nr_threads, processes >> /\ pc[t] \notin Early /\ pc'[t] \notin Early
  /\ \A u \in Task : /\ task'[u].files = task[u].files /\ task'[u].fs = task[u].fs
                     /\ task'[u].sig = task[u].sig
                     /\ task'[u].state = "EMBRYO" <=> task[u].state = "EMBRYO"
                     /\ task'[u].state \in Living <=> task[u].state \in Living

\* Where a child's address space is counted for it, and where that makes a difference.
Sharing == {"copy_thread", "link", "bad_fork_mm"}
MMPlaces == Sharing \cup {"lazy", "dup_mmap", "dup_vmas", "mmput"}

\* A step that leaves the address spaces alone.
MMSame(t) ==
  /\ mm' = mm
  /\ \/ pc[t] \in Sharing /\ pc'[t] \in Sharing
     \/ pc[t] \notin MMPlaces /\ pc'[t] \notin MMPlaces
  /\ \A u \in Task : /\ task'[u].mm = task[u].mm /\ task'[u].active_mm = task[u].active_mm
                     /\ local'[u].mm = local[u].mm
                     /\ task'[u].state = "EMBRYO" <=> task[u].state = "EMBRYO"

\* The steps that make a task_struct p used, put it on the list, or free it.
Forked(t, p) ==
  /\ Moves(t, p) /\ p # t /\ p # swapper /\ task[p] = FreeTask /\ task'[p].state = "EMBRYO"
  /\ task'[t] = task[t] /\ pc[t] = "user" /\ pc'[t] = "copy_files"
  /\ processes' = processes + 1 /\ UNCHANGED << mm, count, nr_threads >>
Linked(t, p) ==
  /\ Moves(t, p) /\ p # t /\ p # swapper /\ task[p].state = "EMBRYO" /\ task'[p].state = "RUNNING"
  /\ task'[p].mm = task[p].mm /\ task'[p].active_mm = task[p].mm /\ task[p].active_mm = task[p].mm
  /\ \A k \in Kinds : task'[p][k] = task[p][k]
  /\ task'[t] = task[t] /\ pc[t] = "link" /\ pc'[t] \in {"user", "vfork"} /\ pc'[p] = "user"
  /\ nr_threads' = nr_threads + 1 /\ UNCHANGED << mm, count, processes >>
Undone(t, p) ==
  /\ Moves(t, p) /\ p # t /\ p # swapper /\ task[p].state = "EMBRYO" /\ task'[p] = FreeTask
  /\ task'[t] = task[t] /\ pc[t] = "bad_fork" /\ pc'[t] = "user"
  /\ processes' = processes - 1 /\ UNCHANGED << mm, count, nr_threads >>
Reaped(t, p) ==
  /\ Moves(t, p) /\ p # t /\ p # swapper /\ task[p].state = "ZOMBIE" /\ task'[p] = FreeTask
  /\ pc[p] = "dead" /\ task'[t] = task[t] /\ pc[t] = "user" /\ pc'[t] = "user"
  /\ processes' = processes - 1 /\ nr_threads' = nr_threads - 1 /\ UNCHANGED << mm, count >>

\* What such a step keeps when it keeps it of t and x.
LEMMA StepKeeps ==
  ASSUME Struct, Shape', NEW t \in Task, NEW x \in Task, curr = t, curr' = t, build' = build,
         \A u \in Task \ {t, x} : Same(u),
         \A u \in Task \ {t} : Makes(u) => local[u].p # x,
         t # swapper, x # swapper, Makes(t) => local[t].p = x,
         Makes(t)' => local'[t].p = x /\ x # t,
         task[x].state = "EMBRYO" => Makes(t),
         task'[x].state = "EMBRYO" => Makes(t)', x # t => ~Makes(x) /\ ~Makes(x)',
         StateOK(t)', LocalOK(t)', ChildOK(t)', StateOK(x)', LocalOK(x)',
         ActiveOK(t)', ActiveOK(x)', task'[t].state \in Living
  PROVE  Struct' /\ Moves(t, x)
<1>1. /\ \A u \in Task : Makes(u) => local[u].p # t
      /\ \A u \in Task : StateOK(u) /\ LocalOK(u) /\ ChildOK(u) /\ ActiveOK(u)
      /\ Unshared /\ Made /\ SwapperOK
  BY Acting DEF Struct
<1>2. \A u \in Task \ {t, x} : Makes(u)' <=> Makes(u)
  BY DEF Makes, Same
<1>3. ASSUME NEW u \in Task \ {t, x}
      PROVE  StateOK(u)' /\ LocalOK(u)' /\ ActiveOK(u)'
  BY <1>1, <1>2 DEF StateOK, LocalOK, ActiveOK, Same
<1>4. ASSUME NEW u \in Task \ {t, x}
      PROVE  ChildOK(u)'
  <2>1. ASSUME Makes(u)
        PROVE  /\ local'[u].p = local[u].p /\ local[u].p \in Task /\ task'[u] = task[u]
               /\ pc'[u] = pc[u] /\ task'[local[u].p] = task[local[u].p]
    <3>1. local[u].p \in Task /\ local[u].p # x /\ local[u].p # t
      BY <1>1, <2>1 DEF ChildOK
    <3> QED
      BY <3>1 DEF Same
  <2> QED
    BY <1>1, <1>2, <2>1 DEF ChildOK
<1>5. ChildOK(x)'
  BY DEF ChildOK
<1>6. Unshared'
  <2>1. ASSUME NEW u \in Task, NEW v \in Task, Makes(u)', Makes(v)', local'[u].p = local'[v].p,
               u # v
        PROVE  FALSE
    <3>1. \A w \in Task \ {t} : Makes(w)' => Makes(w) /\ local'[w].p = local[w].p /\ local[w].p # x
      BY <1>2 DEF Same
    <3> QED
      BY <1>1, <2>1, <3>1 DEF Unshared
  <2> QED
    BY <2>1 DEF Unshared
<1>7. Made'
  <2>1. ASSUME NEW q \in Task, task'[q].state = "EMBRYO"
        PROVE  \E u \in Task : Makes(u)' /\ local'[u].p = q
    <3>1. q # t
      BY <2>1 DEF Living
    <3>2. CASE q = x
      BY <2>1, <3>2
    <3>3. CASE q # x
      <4>1. task[q].state = "EMBRYO"
        BY <2>1, <3>1, <3>3 DEF Same
      <4>2. PICK u \in Task : Makes(u) /\ local[u].p = q
        BY <1>1, <4>1 DEF Made
      <4>3. u \notin {t, x}
        BY <3>3, <4>2
      <4> QED
        BY <1>2, <4>2, <4>3 DEF Same
    <3> QED
      BY <3>2, <3>3
  <2> QED
    BY <2>1 DEF Made
<1>8. SwapperOK'
  BY <1>1, Constants DEF SwapperOK, Same
<1>9. Moves(t, x)
  BY DEF Moves, Struct
<1> QED
  BY <1>3, <1>4, <1>5, <1>6, <1>7, <1>8, <1>9 DEF Struct

-----------------------------------------------------------------------------
(* Operators *)

\* Completed sets the flag of a completion and nothing else.
LEMMA CompletedKeeps ==
  ASSUME Shape, NEW t \in Task, NEW L, L = Completed(t)
  PROVE  /\ L \in [Task -> Locals]
         /\ \A u \in Task : /\ L[u].p = local[u].p /\ L[u].flags = local[u].flags
                            /\ L[u].mm = local[u].mm /\ L[u].then = local[u].then
<1>1. local \in [Task -> Locals] /\ task[t].vfork_done \in Task \cup {NULL}
  BY DEF Shape, TaskStructs
<1>2. CASE task[t].vfork_done = NULL
  BY <1>1, <1>2 DEF Completed
<1>3. CASE task[t].vfork_done # NULL
  <2>1. PICK v \in Task : v = task[t].vfork_done
    BY <1>1, <1>3
  <2>2. PICK k : k = [local[v] EXCEPT !.done = TRUE]
    OBVIOUS
  <2>3. local[v] \in Locals
    BY <1>1
  <2>4. k \in Locals
    BY <2>2, <2>3, Zenon DEF Locals
  <2>5. k.p = local[v].p /\ k.flags = local[v].flags /\ k.mm = local[v].mm /\ k.then = local[v].then
    BY <2>2, <2>3 DEF Locals
  <2>6. L = [local EXCEPT ![v] = k]
    BY <1>3, <2>1, <2>2, Zenon DEF Completed
  <2> QED
    BY <1>1, <2>4, <2>5, <2>6
<1> QED
  BY <1>2, <1>3

\* Where PutMM goes.
LEMMA PutKeeps ==
  ASSUME NEW t \in Task, NEW L \in [Task -> Locals], NEW M \in [Obj -> MMs], NEW m \in Obj,
         pc \in [Task -> PCs], NEW then \in PCs, PutMM(t, M, m, then, L)
  PROVE  /\ mm' \in [Obj -> MMs] /\ pc' \in [Task -> PCs] /\ local' \in [Task -> Locals]
         /\ \A u \in Task \ {t} : pc'[u] = pc[u] /\ local'[u] = L[u]
         /\ local'[t].p = L[t].p /\ local'[t].flags = L[t].flags
         /\ \/ pc'[t] = "mmput" /\ local'[t].then = then /\ local'[t].mm = m
            \/ pc'[t] = then /\ local'[t].then = L[t].then /\ local'[t].mm = NULL
<1>1. "mmput" \in PCs
  BY DEF PCs
<1>2. M[m] \in MMs /\ L[t] \in Locals
  OBVIOUS
<1>3. PICK k : k = [M[m] EXCEPT !.users = @ - 1, !.listed = @ /\ ~LastUser(M, m)]
  OBVIOUS
<1>4. k \in MMs
  <2>1. k = [users |-> M[m].users - 1, count |-> M[m].count,
             listed |-> M[m].listed /\ ~LastUser(M, m)]
    BY <1>2, <1>3, Zenon DEF MMs
  <2>2. M[m].users - 1 \in Int /\ M[m].count \in Int
    BY <1>2 DEF MMs
  <2> QED
    BY <2>1, <2>2, Zenon DEF MMs
<1>5. mm' = [M EXCEPT ![m] = k]
  BY <1>3, Zenon DEF PutMM, mmput_user
<1>6. mm' \in [Obj -> MMs]
  BY <1>4, <1>5
<1>7. CASE LastUser(M, m)
  <2>1. PICK j : j = [L[t] EXCEPT !.mm = m, !.then = then]
    OBVIOUS
  <2>2. j \in Locals /\ j.p = L[t].p /\ j.flags = L[t].flags /\ j.then = then /\ j.mm = m
    <3>1. m \in Ref
      BY DEF Ref
    <3> QED
      BY <1>2, <2>1, <3>1, Zenon DEF Locals
  <2>3. local' = [L EXCEPT ![t] = j] /\ pc' = [pc EXCEPT ![t] = "mmput"]
    BY <1>7, <2>1, Zenon DEF PutMM, Goto
  <2> QED
    BY <1>1, <1>6, <2>2, <2>3
<1>8. CASE ~LastUser(M, m)
  <2>1. PICK j : j = [L[t] EXCEPT !.mm = NULL]
    OBVIOUS
  <2>2. j \in Locals /\ j.p = L[t].p /\ j.flags = L[t].flags /\ j.then = L[t].then /\ j.mm = NULL
    <3>1. NULL \in Ref
      BY DEF Ref
    <3> QED
      BY <1>2, <2>1, <3>1, Zenon DEF Locals
  <2>3. local' = [L EXCEPT ![t] = j] /\ pc' = [pc EXCEPT ![t] = then]
    BY <1>8, <2>1, Zenon DEF PutMM, Goto
  <2> QED
    BY <1>6, <2>2, <2>3
<1> QED
  BY <1>7, <1>8

\* Setting a counted reference.
LEMMA SetKeeps ==
  ASSUME task \in [Task -> TaskStructs], NEW x \in Task, NEW k \in Kinds, NEW v \in Ref,
         Set(x, k, v)
  PROVE  /\ task' \in [Task -> TaskStructs] /\ \A u \in Task \ {x} : task'[u] = task[u]
         /\ task'[x].state = task[x].state /\ task'[x].mm = task[x].mm
         /\ task'[x].active_mm = task[x].active_mm /\ task'[x].vfork_done = task[x].vfork_done
         /\ task'[x][k] = v /\ \A j \in Kinds \ {k} : task'[x][j] = task[x][j]
<1>1. task' = [task EXCEPT ![x][k] = v] /\ task[x] \in TaskStructs
  BY DEF Set
<1>2. PICK n : n = [task[x] EXCEPT ![k] = v]
  OBVIOUS
<1>3. task' = [task EXCEPT ![x] = n]
  BY <1>1, <1>2
<1>4. /\ n \in TaskStructs /\ n.state = task[x].state /\ n.mm = task[x].mm
      /\ n.active_mm = task[x].active_mm /\ n.vfork_done = task[x].vfork_done
      /\ n[k] = v /\ \A j \in Kinds \ {k} : n[j] = task[x][j]
  BY <1>1, <1>2 DEF TaskStructs, Kinds
<1> QED
  BY <1>3, <1>4

\* A count that changes.
LEMMA CountKeeps ==
  ASSUME count \in [Kinds -> [Obj -> Int]], NEW k \in Kinds, NEW o \in Obj, NEW i \in Int,
         count' = [count EXCEPT ![k][o] = i]
  PROVE  /\ count' \in [Kinds -> [Obj -> Int]] /\ count'[k][o] = i
         /\ \A j \in Kinds, p \in Obj : j # k \/ p # o => count'[j][p] = count[j][p]
<1>1. PICK f : f = [count[k] EXCEPT ![o] = i]
  OBVIOUS
<1>2. count' = [count EXCEPT ![k] = f]
  BY <1>1
<1>3. f \in [Obj -> Int] /\ f[o] = i /\ \A p \in Obj \ {o} : f[p] = count[k][p]
  BY <1>1
<1> QED
  BY <1>2, <1>3

\* What t does when it moves on.
LEMMA GotoKeeps ==
  ASSUME pc \in [Task -> PCs], NEW t \in Task, NEW place \in PCs, Goto(t, place)
  PROVE  /\ pc' \in [Task -> PCs] /\ pc'[t] = place
         /\ \A u \in Task \ {t} : pc'[u] = pc[u]
BY DEF Goto

-----------------------------------------------------------------------------
(* Every step keeps the structure *)

\* What ExitStruct does.
LEMMA ExitStructEffect ==
  ASSUME Struct, NEW t \in Task, NEW q \in Task, NEW kind \in Kinds, NEW here, NEW next \in PCs,
         ExitStruct(t, q, kind, here, next)
  PROVE  /\ Shape' /\ curr = t /\ curr' = t /\ build' = build /\ local' = local
         /\ mm' = mm
         /\ pc[t] = here /\ pc'[t] = next /\ \A u \in Task \ {t} : pc'[u] = pc[u]
         /\ \A u \in Task \ {q} : task'[u] = task[u]
         /\ task'[q].state = task[q].state /\ task'[q].mm = task[q].mm
         /\ task'[q].active_mm = task[q].active_mm
         /\ task'[q][kind] = NULL /\ \A j \in Kinds \ {kind} : task'[q][j] = task[q][j]
<1>1. Shape
  BY DEF Struct
<1>2. NULL \in Ref
  BY DEF Ref
<1>3. Set(q, kind, NULL) /\ Goto(t, next) /\ At(t, here)
  BY DEF ExitStruct
<1>4. count' \in [Kinds -> [Obj -> Int]]
  <2>1. PICK o : o = task[q][kind]
    OBVIOUS
  <2>2. o \in Ref
    BY <1>1, <2>1 DEF Shape, TaskStructs, Kinds
  <2>3. CASE o = NULL
    BY <1>1, <2>1, <2>3 DEF Shape, ExitStruct
  <2>4. CASE o # NULL
    <3>1. o \in Obj
      BY <2>2, <2>4 DEF Ref
    <3>2. count[kind][o] - 1 \in Int /\ count \in [Kinds -> [Obj -> Int]]
      BY <1>1, <3>1 DEF Shape
    <3>3. count' = [count EXCEPT ![kind][o] = count[kind][o] - 1]
      BY <2>1, <2>4, <3>2, <3>1 DEF ExitStruct
    <3> QED
      BY <3>1, <3>2, <3>3, CountKeeps
  <2> QED
    BY <2>3, <2>4
<1>5. /\ task' \in [Task -> TaskStructs] /\ \A u \in Task \ {q} : task'[u] = task[u]
      /\ task'[q].state = task[q].state /\ task'[q].mm = task[q].mm
      /\ task'[q].active_mm = task[q].active_mm
      /\ task'[q][kind] = NULL /\ \A j \in Kinds \ {kind} : task'[q][j] = task[q][j]
  BY <1>1, <1>2, <1>3, SetKeeps DEF Shape
<1>6. pc' \in [Task -> PCs] /\ pc'[t] = next /\ \A u \in Task \ {t} : pc'[u] = pc[u]
  BY <1>1, <1>3, GotoKeeps DEF Shape
<1>7. UNCHANGED << curr, local, mm, nr_threads, processes, forks, build >>
  BY DEF ExitStruct
<1>8. Shape'
  BY <1>1, <1>4, <1>5, <1>6, <1>7 DEF Shape
<1> QED
  BY <1>3, <1>5, <1>6, <1>7, <1>8 DEF At

\* A step of a process that makes no child, on itself.
LEMMA OwnStep ==
  ASSUME Struct, Shape', NEW t \in Task, curr = t, curr' = t, build' = build, t # swapper,
         \A u \in Task \ {t} : Same(u), ~Makes(t), ~Makes(t)',
         StateOK(t)', LocalOK(t)', ActiveOK(t)', task'[t].state \in Living
  PROVE  Struct' /\ Moves(t, Subject(t))
<1>1. \A u \in Task : Makes(u) => local[u].p # t
  BY Acting
<1>2. ChildOK(t)'
  BY DEF ChildOK
<1>3. Subject(t) = t /\ task[t].state # "EMBRYO"
  BY Acting DEF Subject, Living
<1> QED
  BY <1>1, <1>2, <1>3, StepKeeps DEF Living

\* A step of a process in do_fork that changes its child only.
LEMMA ChildStep ==
  ASSUME Struct, Shape', NEW t \in Task, curr = t, curr' = t, build' = build,
         Makes(t), Makes(t)', NEW p, p = local[t].p, local'[t].p = p,
         \A u \in Task \ {p} : task'[u] = task[u], task'[p].state = "EMBRYO",
         \A u \in Task \ {t} : pc'[u] = pc[u] /\ local'[u].p = local[u].p
           /\ local'[u].mm = local[u].mm /\ local'[u].then = local[u].then,
         LocalOK(t)', ChildOK(t)'
  PROVE  Struct' /\ Moves(t, Subject(t))
<1>1. /\ p \in Task /\ p # t /\ p # swapper /\ t # swapper /\ pc[p] = "none" /\ ~Makes(p)
      /\ local[p].p = NULL /\ local[p].mm = NULL /\ task[t].state = "RUNNING"
      /\ \A u \in Task \ {t} : Makes(u) => local[u].p # p
  BY Child
<1>2. StateOK(t) /\ ActiveOK(t) /\ \A u \in Task : Makes(u) => local[u].p # t
  BY Acting
<1>3. pc'[p] = "none" /\ local'[p].p = NULL /\ local'[p].mm = NULL /\ task'[t] = task[t]
  BY <1>1
<1>4. ~Makes(p)'
  BY <1>3 DEF Makes, Forking
<1>5. StateOK(p)' /\ LocalOK(p)' /\ ActiveOK(p)'
  BY <1>3 DEF StateOK, LocalOK, ActiveOK, Ending, Living
<1>6. StateOK(t)' /\ ActiveOK(t)'
  BY <1>1, <1>2, <1>3 DEF StateOK, ActiveOK, Ending, Makes, Forking
<1>7. \A u \in Task \ {t, p} : Same(u)
  BY DEF Same
<1>8. Subject(t) = p
  BY DEF Subject
<1> QED
  BY <1>1, <1>2, <1>3, <1>4, <1>5, <1>6, <1>7, <1>8, StepKeeps DEF Living

\* exit_files, exit_fs and exit_sighand of the running process.
LEMMA ExitOwnKeeps ==
  ASSUME Struct, NEW t \in Task,
         \/ ExitFiles(t) \/ ExitFs(t) \/ ExitSighand(t) \/ DaemonizeFs(t) \/ DaemonizeFiles(t)
  PROVE  Struct' /\ Moves(t, Subject(t)) /\ MMSame(t)
<1> DEFINE Left(kind, here, next) ==
      /\ Shape' /\ curr = t /\ curr' = t /\ build' = build /\ local' = local
      /\ mm' = mm
      /\ pc[t] = here /\ pc'[t] = next /\ \A u \in Task \ {t} : pc'[u] = pc[u]
      /\ \A u \in Task \ {t} : task'[u] = task[u]
      /\ task'[t].state = task[t].state /\ task'[t].mm = task[t].mm
      /\ task'[t].active_mm = task[t].active_mm
      /\ task'[t][kind] = NULL /\ \A j \in Kinds \ {kind} : task'[t][j] = task[t][j]
<1>1. \/ Left("files", "exit_files", "exit_fs") \/ Left("fs", "exit_fs", "exit_sighand")
      \/ Left("sig", "exit_sighand", "exit_notify")
      \/ Left("fs", "daemonize_fs", "daemonize_init_fs")
      \/ Left("files", "daemonize_files", "daemonize_init_files")
  <2>1. {"files", "fs", "sig"} = Kinds
        /\ {"exit_fs", "exit_sighand", "exit_notify", "daemonize_init_fs",
            "daemonize_init_files"} \subseteq PCs
    BY DEF Kinds, PCs
  <2>2. CASE ExitFiles(t)
    BY <2>1, <2>2, ExitStructEffect DEF ExitFiles
  <2>3. CASE ExitFs(t)
    BY <2>1, <2>3, ExitStructEffect DEF ExitFs
  <2>4. CASE ExitSighand(t)
    BY <2>1, <2>4, ExitStructEffect DEF ExitSighand
  <2>5. CASE DaemonizeFs(t)
    BY <2>1, <2>5, ExitStructEffect DEF DaemonizeFs
  <2>6. CASE DaemonizeFiles(t)
    BY <2>1, <2>6, ExitStructEffect DEF DaemonizeFiles
  <2> HIDE DEF Left
  <2> QED
    BY <2>2, <2>3, <2>4, <2>5, <2>6
<1>2. /\ Shape' /\ curr = t /\ curr' = t /\ build' = build /\ local' = local
      /\ mm' = mm
      /\ \A u \in Task \ {t} : pc'[u] = pc[u] /\ task'[u] = task[u]
      /\ pc[t] \in {"exit_files", "exit_fs", "exit_sighand", "daemonize_fs", "daemonize_files"}
      /\ pc'[t] \in {"exit_fs", "exit_sighand", "exit_notify", "daemonize_init_fs",
                     "daemonize_init_files"}
      /\ task'[t].state = task[t].state /\ task'[t].mm = task[t].mm
      /\ task'[t].active_mm = task[t].active_mm
  BY <1>1
<1>3. /\ StateOK(t) /\ LocalOK(t) /\ ActiveOK(t) /\ task[t].state = "RUNNING"
      /\ t # swapper
  BY <1>2, Acting
<1>4. ~Makes(t) /\ ~Makes(t)'
  BY <1>2 DEF Makes, Forking
<1>5. StateOK(t)'
  BY <1>1, <1>3 DEF StateOK, Ending, Kinds
<1>6. LocalOK(t)'
  BY <1>2, <1>3, <1>4 DEF LocalOK
<1>7. ActiveOK(t)'
  BY <1>2, <1>3 DEF ActiveOK
<1>8. \A u \in Task \ {t} : Same(u)
  BY <1>2 DEF Same
<1>9. MMSame(t)
  BY <1>2 DEF MMSame, Sharing, MMPlaces
<1> QED
  BY <1>2, <1>3, <1>4, <1>5, <1>6, <1>7, <1>8, <1>9, OwnStep DEF Living

\* The same of the child of a failed fork.
LEMMA ExitChildKeeps ==
  ASSUME Struct, NEW t \in Task, BadForkSighand(t) \/ BadForkFs(t) \/ BadForkFiles(t)
  PROVE  Struct' /\ Moves(t, Subject(t)) /\ MMSame(t)
<1> DEFINE Left(p, kind, here, next) ==
      /\ Shape' /\ curr = t /\ curr' = t /\ build' = build /\ local' = local
      /\ mm' = mm
      /\ pc[t] = here /\ pc'[t] = next /\ \A u \in Task \ {t} : pc'[u] = pc[u]
      /\ \A u \in Task \ {p} : task'[u] = task[u]
      /\ task'[p].state = task[p].state /\ task'[p].mm = task[p].mm
      /\ task'[p].active_mm = task[p].active_mm
      /\ task'[p][kind] = NULL /\ \A j \in Kinds \ {kind} : task'[p][j] = task[p][j]
<1>1. curr = t /\ pc[t] \in {"bad_fork_sighand", "bad_fork_fs", "bad_fork_files"}
  BY DEF BadForkSighand, BadForkFs, BadForkFiles, ExitStruct, At
<1>2. Makes(t)
  BY <1>1 DEF Makes, Forking
<1>3. PICK p : p = local[t].p
  OBVIOUS
<1>4. p \in Task /\ p # t /\ task[p].state = "EMBRYO"
  BY <1>1, <1>2, <1>3, Child
<1>5. \/ Left(p, "sig", "bad_fork_sighand", "bad_fork_fs")
      \/ Left(p, "fs", "bad_fork_fs", "bad_fork_files")
      \/ Left(p, "files", "bad_fork_files", "bad_fork")
  <2>1. {"files", "fs", "sig"} = Kinds
        /\ {"bad_fork_fs", "bad_fork_files", "bad_fork"} \subseteq PCs
    BY DEF Kinds, PCs
  <2>2. CASE BadForkSighand(t)
    BY <1>3, <1>4, <2>1, <2>2, ExitStructEffect DEF BadForkSighand
  <2>3. CASE BadForkFs(t)
    BY <1>3, <1>4, <2>1, <2>3, ExitStructEffect DEF BadForkFs
  <2>4. CASE BadForkFiles(t)
    BY <1>3, <1>4, <2>1, <2>4, ExitStructEffect DEF BadForkFiles
  <2> HIDE DEF Left
  <2> QED
    BY <2>2, <2>3, <2>4
<1>6. /\ Shape' /\ curr' = t /\ build' = build /\ local' = local
      /\ mm' = mm
      /\ \A u \in Task \ {t} : pc'[u] = pc[u]
      /\ \A u \in Task \ {p} : task'[u] = task[u]
      /\ pc'[t] \in {"bad_fork_fs", "bad_fork_files", "bad_fork"}
      /\ task'[p].state = "EMBRYO" /\ task'[p].mm = task[p].mm
      /\ task'[p].active_mm = task[p].active_mm /\ mm' = mm
  BY <1>4, <1>5
<1>7. LocalOK(t) /\ ChildOK(t)
  BY <1>1, Acting
<1>8. Makes(t)'
  BY <1>6 DEF Makes, Forking
<1>9. LocalOK(t)'
  BY <1>1, <1>6, <1>7, <1>8 DEF LocalOK
<1>10. ChildOK(t)'
  BY <1>2, <1>3, <1>4, <1>5, <1>7 DEF ChildOK, Kinds
<1> HIDE DEF Left
<1>11. MMSame(t)
  BY <1>1, <1>4, <1>6 DEF MMSame, Sharing, MMPlaces
<1> QED
  BY <1>1, <1>2, <1>3, <1>6, <1>8, <1>9, <1>10, <1>11, ChildStep

\* daemonize takes the files and the fs of init_task.
LEMMA AdoptKeeps ==
  ASSUME Struct, NEW t \in Task, DaemonizeInitFs(t) \/ DaemonizeInitFiles(t)
  PROVE  Struct' /\ Moves(t, Subject(t)) /\ MMSame(t)
<1> DEFINE Case(kind, here, next) ==
      /\ AdoptStruct(t, kind, here, next) /\ kind \in Kinds /\ kind \in {"fs", "files"}
      /\ next \in {"daemonize_files", "user"}
      /\ here \in {"daemonize_init_fs", "daemonize_init_files"}
<1>0. \/ Case("fs", "daemonize_init_fs", "daemonize_files")
      \/ Case("files", "daemonize_init_files", "user")
  BY DEF DaemonizeInitFs, DaemonizeInitFiles, Kinds
<1> HIDE DEF Case
<1>00. \E kind, here, next : Case(kind, here, next)
  BY <1>0, Zenon
<1> USE DEF Case
<1>1. PICK kind, here, next : Case(kind, here, next)
  BY <1>00, Zenon
<1>2. curr = t /\ pc[t] = here /\ Shape /\ next \in PCs
  BY <1>1 DEF AdoptStruct, At, Struct, PCs
<1>3. /\ StateOK(t) /\ LocalOK(t) /\ ActiveOK(t) /\ task[t].state = "RUNNING"
      /\ t # swapper
  BY <1>1, <1>2, Acting
<1>4. task[swapper][kind] = init_obj /\ init_obj \in Obj /\ init_obj \in Ref
  BY <1>1, Constants DEF Struct, SwapperOK, Ref
<1>5. /\ Set(t, kind, init_obj) /\ Goto(t, next)
      /\ UNCHANGED << curr, local, mm, nr_threads, processes, forks, build >>
  BY <1>1, <1>4 DEF AdoptStruct
<1>6. /\ task' \in [Task -> TaskStructs] /\ \A u \in Task \ {t} : task'[u] = task[u]
      /\ task'[t].state = task[t].state /\ task'[t].mm = task[t].mm
      /\ task'[t].active_mm = task[t].active_mm
  BY <1>1, <1>2, <1>4, <1>5, SetKeeps DEF Shape
<1>7. pc' \in [Task -> PCs] /\ pc'[t] = next /\ \A u \in Task \ {t} : pc'[u] = pc[u]
  BY <1>2, <1>5, GotoKeeps DEF Shape
<1>8. count' \in [Kinds -> [Obj -> Int]]
  <2>1. count[kind][init_obj] + 1 \in Int /\ count \in [Kinds -> [Obj -> Int]]
    BY <1>1, <1>2, <1>4 DEF Shape
  <2>2. count' = [count EXCEPT ![kind][init_obj] = count[kind][init_obj] + 1]
    BY <1>1, <1>4, <2>1 DEF AdoptStruct
  <2> QED
    BY <1>1, <1>4, <2>1, <2>2, CountKeeps
<1>9. Shape'
  BY <1>2, <1>5, <1>6, <1>7, <1>8 DEF Shape
<1>10. ~Makes(t) /\ ~Makes(t)'
  BY <1>1, <1>2, <1>7 DEF Makes, Forking
<1>11. StateOK(t)' /\ ActiveOK(t)'
  BY <1>1, <1>3, <1>5, <1>6, <1>7 DEF StateOK, Ending, ActiveOK
<1>12. LocalOK(t)'
  BY <1>1, <1>2, <1>3, <1>5, <1>7, <1>10 DEF LocalOK
<1>13. \A u \in Task \ {t} : Same(u)
  BY <1>5, <1>6, <1>7 DEF Same
<1>14. MMSame(t)
  BY <1>1, <1>2, <1>5, <1>6, <1>7 DEF MMSame, Sharing, MMPlaces
<1> QED
  BY <1>2, <1>3, <1>5, <1>6, <1>9, <1>10, <1>11, <1>12, <1>13, <1>14, OwnStep DEF Living

\* What copy_files, copy_fs and copy_sighand do.
StructCopied(t, p, kind, here, next, cleanup) ==
  /\ Shape' /\ curr = t /\ curr' = t /\ build' = build /\ local' = local
  /\ mm' = mm
  /\ pc[t] = here /\ \A u \in Task \ {t} : pc'[u] = pc[u]
  /\ p \in Task /\ p # t /\ Makes(t) /\ \A u \in Task \ {p} : task'[u] = task[u]
  /\ task'[p].state = "EMBRYO" /\ task'[p].mm = task[p].mm
  /\ task'[p].active_mm = task[p].active_mm
  /\ \A j \in Kinds \ {kind} : task'[p][j] = task[p][j]
  /\ \/ pc'[t] = next
     \/ pc'[t] = cleanup /\ task'[p][kind] = NULL

\* As they do.
LEMMA CopyStructEffect ==
  ASSUME Struct, NEW t \in Task, NEW kind \in Kinds, NEW flag, NEW here \in Forking,
         NEW next \in PCs, NEW cleanup \in PCs, NEW p, p = local[t].p,
         CopyStruct(t, kind, flag, here, next, cleanup)
  PROVE  StructCopied(t, p, kind, here, next, cleanup)
<1>1. /\ Shape /\ curr = t /\ pc[t] = here
      /\ UNCHANGED << curr, local, mm, nr_threads, processes, forks, build >>
  BY DEF Struct, CopyStruct, At
<1>2. Makes(t)
  BY <1>1 DEF Makes
<1>3. p \in Task /\ p # t /\ task[p].state = "EMBRYO"
  BY <1>1, <1>2, Child
<1>4. PICK old : old = task[t][kind]
  OBVIOUS
<1>5. old \in Obj \cup {NULL}
  BY <1>1, <1>4 DEF Shape, TaskStructs, Kinds, Ref
<1>6. task \in [Task -> TaskStructs] /\ pc \in [Task -> PCs] /\ count \in [Kinds -> [Obj -> Int]]
  BY <1>1 DEF Shape
<1> DEFINE Share ==
             /\ task' = task
             /\ count' = IF old = NULL THEN count ELSE [count EXCEPT ![kind][old] = @ + 1]
             /\ Goto(t, next)
           Make ==
             /\ FreeObjs(kind) # {}
             /\ Set(p, kind, FreeObj(kind)) /\ count' = [count EXCEPT ![kind][FreeObj(kind)] = 1]
             /\ Goto(t, next)
           Fail == Set(p, kind, NULL) /\ count' = count /\ Goto(t, cleanup)
<1>7. Share \/ Make \/ Fail
  BY <1>4, Zenon DEF CopyStruct
<1>8. CASE Share
  <2>1. count' \in [Kinds -> [Obj -> Int]]
    <3>1. CASE old = NULL
      BY <1>6, <1>8, <3>1
    <3>2. CASE old # NULL
      <4>1. old \in Obj /\ count[kind][old] + 1 \in Int
        BY <1>5, <1>6, <3>2
      <4>2. count' = [count EXCEPT ![kind][old] = count[kind][old] + 1]
        BY <1>6, <1>8, <3>2, <4>1
      <4> QED
        BY <1>6, <4>1, <4>2, CountKeeps
    <3> QED
      BY <3>1, <3>2
  <2>2. pc' \in [Task -> PCs] /\ pc'[t] = next /\ \A u \in Task \ {t} : pc'[u] = pc[u]
    BY <1>6, <1>8, GotoKeeps
  <2>3. Shape'
    BY <1>1, <1>8, <2>1, <2>2 DEF Shape
  <2> QED
    BY <1>1, <1>2, <1>3, <1>8, <2>2, <2>3 DEF StructCopied
<1>9. CASE Make
  <2>1. PICK o : o = FreeObj(kind)
    OBVIOUS
  <2>2. o \in Obj
    BY <1>9, <2>1 DEF FreeObj, FreeObjs
  <2>3. count' \in [Kinds -> [Obj -> Int]]
    BY <1>6, <1>9, <2>1, <2>2, CountKeeps
  <2>4. pc' \in [Task -> PCs] /\ pc'[t] = next /\ \A u \in Task \ {t} : pc'[u] = pc[u]
    BY <1>6, <1>9, GotoKeeps
  <2>5. o \in Ref /\ Set(p, kind, o)
    BY <1>9, <2>1, <2>2 DEF Ref
  <2>6. /\ task' \in [Task -> TaskStructs] /\ \A u \in Task \ {p} : task'[u] = task[u]
        /\ task'[p].state = task[p].state /\ task'[p].mm = task[p].mm
        /\ task'[p].active_mm = task[p].active_mm
        /\ \A j \in Kinds \ {kind} : task'[p][j] = task[p][j]
    BY <1>3, <1>6, <2>5, SetKeeps
  <2>7. Shape'
    BY <1>1, <2>3, <2>4, <2>6 DEF Shape
  <2> QED
    BY <1>1, <1>2, <1>3, <2>4, <2>6, <2>7 DEF StructCopied
<1>10. CASE Fail
  <2>1. pc' \in [Task -> PCs] /\ pc'[t] = cleanup /\ \A u \in Task \ {t} : pc'[u] = pc[u]
    BY <1>6, <1>10, GotoKeeps
  <2>2. NULL \in Ref /\ Set(p, kind, NULL)
    BY <1>10 DEF Ref
  <2>3. /\ task' \in [Task -> TaskStructs] /\ \A u \in Task \ {p} : task'[u] = task[u]
        /\ task'[p].state = task[p].state /\ task'[p].mm = task[p].mm
        /\ task'[p].active_mm = task[p].active_mm /\ task'[p][kind] = NULL
        /\ \A j \in Kinds \ {kind} : task'[p][j] = task[p][j]
    BY <1>3, <1>6, <2>2, SetKeeps
  <2>4. Shape'
    BY <1>1, <1>10, <2>1, <2>3 DEF Shape
  <2> QED
    BY <1>1, <1>2, <1>3, <2>1, <2>3, <2>4 DEF StructCopied
<1> QED
  BY <1>7, <1>8, <1>9, <1>10

\* copy_files, copy_fs and copy_sighand change what the child has of files, fs and handlers only.
LEMMA CopyStructKeeps ==
  ASSUME Struct, NEW t \in Task, CopyFiles(t) \/ CopyFs(t) \/ CopySighand(t)
  PROVE  Struct' /\ Moves(t, Subject(t)) /\ MMSame(t)
<1>1. PICK p : p = local[t].p
  OBVIOUS
<1>2. \/ StructCopied(t, p, "files", "copy_files", "copy_fs", "bad_fork")
      \/ StructCopied(t, p, "fs", "copy_fs", "copy_sighand", "bad_fork_files")
      \/ StructCopied(t, p, "sig", "copy_sighand", "copy_mm", "bad_fork_fs")
  <2>2. CASE CopyFiles(t)
    <3>1. CopyStruct(t, "files", "CLONE_FILES", "copy_files", "copy_fs", "bad_fork")
      BY <2>2 DEF CopyFiles
    <3>2. "files" \in Kinds /\ "copy_files" \in Forking /\ "copy_fs" \in PCs /\ "bad_fork" \in PCs
      BY DEF Kinds, PCs, Forking
    <3> QED
      BY <1>1, <3>1, <3>2, CopyStructEffect
  <2>3. CASE CopyFs(t)
    <3>1. CopyStruct(t, "fs", "CLONE_FS", "copy_fs", "copy_sighand", "bad_fork_files")
      BY <2>3 DEF CopyFs
    <3>2. "fs" \in Kinds /\ "copy_fs" \in Forking /\ "copy_sighand" \in PCs /\ "bad_fork_files" \in PCs
      BY DEF Kinds, PCs, Forking
    <3> QED
      BY <1>1, <3>1, <3>2, CopyStructEffect
  <2>4. CASE CopySighand(t)
    <3>1. CopyStruct(t, "sig", "CLONE_SIGHAND", "copy_sighand", "copy_mm", "bad_fork_fs")
      BY <2>4 DEF CopySighand
    <3>2. "sig" \in Kinds /\ "copy_sighand" \in Forking /\ "copy_mm" \in PCs /\ "bad_fork_fs" \in PCs
      BY DEF Kinds, PCs, Forking
    <3> QED
      BY <1>1, <3>1, <3>2, CopyStructEffect
  <2> QED
    BY <2>2, <2>3, <2>4
<1>3. /\ Shape' /\ curr = t /\ curr' = t /\ build' = build /\ local' = local
      /\ mm' = mm
      /\ \A u \in Task \ {t} : pc'[u] = pc[u]
      /\ p \in Task /\ p # t /\ Makes(t) /\ \A u \in Task \ {p} : task'[u] = task[u]
      /\ task'[p].state = "EMBRYO"
      /\ pc[t] \in {"copy_files", "copy_fs", "copy_sighand"}
      /\ pc'[t] \in {"copy_fs", "copy_sighand", "copy_mm", "bad_fork", "bad_fork_files",
                     "bad_fork_fs"}
  BY <1>2 DEF StructCopied
<1>4. LocalOK(t) /\ ChildOK(t)
  BY <1>3, Acting
<1>5. Makes(t)'
  BY <1>3 DEF Makes, Forking
<1>6. LocalOK(t)'
  BY <1>3, <1>4, <1>5 DEF LocalOK
<1>7. ChildOK(t)'
  BY <1>1, <1>2, <1>4 DEF ChildOK, Kinds, StructCopied
<1>9. /\ task'[p].mm = task[p].mm /\ task'[p].active_mm = task[p].active_mm
      /\ task[p].state = "EMBRYO" /\ mm' = mm
  BY <1>1, <1>2, <1>3, Child DEF StructCopied, CopyFiles, CopyFs, CopySighand, CopyStruct
<1>8. MMSame(t)
  BY <1>2, <1>3, <1>9 DEF MMSame, Sharing, MMPlaces
<1> QED
  BY <1>1, <1>3, <1>5, <1>6, <1>7, <1>8, ChildStep

-----------------------------------------------------------------------------
(* Operators on the address spaces *)

\* What copy_mm gives the child.
LEMMA SetMMKeeps ==
  ASSUME task \in [Task -> TaskStructs], NEW p \in Task, NEW m \in Ref, SetMM(p, m)
  PROVE  /\ task' \in [Task -> TaskStructs] /\ \A u \in Task \ {p} : task'[u] = task[u]
         /\ task'[p].state = task[p].state /\ task'[p].mm = m /\ task'[p].active_mm = m
         /\ task'[p].files = task[p].files /\ task'[p].fs = task[p].fs
         /\ task'[p].sig = task[p].sig
<1>1. PICK n : n = [task[p] EXCEPT !.mm = m, !.active_mm = m]
  OBVIOUS
<1>2. task' = [task EXCEPT ![p] = n] /\ task[p] \in TaskStructs
  BY <1>1 DEF SetMM
<1>3. /\ n \in TaskStructs /\ n.state = task[p].state /\ n.mm = m
      /\ n.active_mm = m /\ n.files = task[p].files /\ n.fs = task[p].fs /\ n.sig = task[p].sig
  BY <1>1, <1>2 DEF TaskStructs
<1> QED
  BY <1>2, <1>3

\* The counts of an address space, changed.
LEMMA MMKeeps ==
  ASSUME NEW M \in [Obj -> MMs], NEW m \in Obj
  PROVE  /\ GrabUser(M, m) \in [Obj -> MMs] /\ GrabMM(M, m) \in [Obj -> MMs]
         /\ mmdrop(M, m) \in [Obj -> MMs]
         /\ [M EXCEPT ![m] = [users |-> 1, count |-> 1, listed |-> FALSE]] \in [Obj -> MMs]
         /\ [M EXCEPT ![m] = [users |-> 1, count |-> 1, listed |-> TRUE]] \in [Obj -> MMs]
         /\ [M EXCEPT ![m].listed = TRUE] \in [Obj -> MMs]
<1>1. M[m] \in MMs /\ M[m].users + 1 \in Int /\ M[m].count + 1 \in Int /\ M[m].count - 1 \in Int
  BY DEF MMs
<1>2. /\ [M[m] EXCEPT !.users = @ + 1] \in MMs /\ [M[m] EXCEPT !.count = @ + 1] \in MMs
      /\ [M[m] EXCEPT !.count = @ - 1] \in MMs
  BY <1>1, Zenon DEF MMs
<1>3. /\ [users |-> 1, count |-> 1, listed |-> FALSE] \in MMs
      /\ [users |-> 1, count |-> 1, listed |-> TRUE] \in MMs
  BY DEF MMs
<1>4. [M[m] EXCEPT !.listed = TRUE] \in MMs
  BY <1>1, Zenon DEF MMs
<1>5. ASSUME NEW k \in MMs
      PROVE  [M EXCEPT ![m] = k] \in [Obj -> MMs]
  OBVIOUS
<1>6. GrabUser(M, m) \in [Obj -> MMs]
  BY <1>2, <1>5, Zenon DEF GrabUser
<1>7. GrabMM(M, m) \in [Obj -> MMs]
  BY <1>2, <1>5, Zenon DEF GrabMM
<1>8. mmdrop(M, m) \in [Obj -> MMs]
  BY <1>2, <1>5, Zenon DEF mmdrop
<1>9. [M EXCEPT ![m].listed = TRUE] \in [Obj -> MMs]
  BY <1>4, <1>5, Zenon
<1> QED
  BY <1>3, <1>5, <1>6, <1>7, <1>8, <1>9

\* A local variable mm that changes.
LEMMA LocalMMKeeps ==
  ASSUME local \in [Task -> Locals], NEW t \in Task, NEW m \in Ref,
         local' = [local EXCEPT ![t].mm = m]
  PROVE  /\ local' \in [Task -> Locals] /\ \A u \in Task \ {t} : local'[u] = local[u]
         /\ local'[t].p = local[t].p /\ local'[t].flags = local[t].flags
         /\ local'[t].mm = m /\ local'[t].then = local[t].then
<1>1. PICK k : k = [local[t] EXCEPT !.mm = m]
  OBVIOUS
<1>2. local[t] \in Locals
  OBVIOUS
<1>3. k \in Locals
  BY <1>1, <1>2, Zenon DEF Locals
<1>4. /\ k.p = local[t].p /\ k.flags = local[t].flags /\ k.mm = m /\ k.then = local[t].then
  BY <1>1, <1>2 DEF Locals
<1>5. local' = [local EXCEPT ![t] = k]
  BY <1>1, Zenon
<1> QED
  BY <1>3, <1>4, <1>5

-----------------------------------------------------------------------------
(* Every step keeps the structure, continued *)

\* copy_mm gives the child no address space, its parent's, or a new one that is being made.
LEMMA CopyMMKeeps ==
  ASSUME Struct, NEW t \in Task, CopyMM(t)
  PROVE  Struct' /\ Moves(t, Subject(t)) /\ RefsSame(t)
<1>1. /\ Shape /\ curr = t /\ pc[t] = "copy_mm"
      /\ UNCHANGED << curr, count, nr_threads, processes, forks, build >>
  BY DEF Struct, CopyMM, At
<1>2. Makes(t)
  BY <1>1 DEF Makes, Forking
<1>3. PICK p : p = local[t].p
  OBVIOUS
<1>4. p \in Task /\ p # t /\ task[p].state = "EMBRYO"
  BY <1>1, <1>2, <1>3, Child
<1>5. LocalOK(t) /\ ChildOK(t)
  BY <1>1, Acting
<1>6. task \in [Task -> TaskStructs] /\ pc \in [Task -> PCs] /\ mm \in [Obj -> MMs]
      /\ local \in [Task -> Locals]
  BY <1>1 DEF Shape
<1>7. PICK old : old = task[t].mm
  OBVIOUS
<1>8. old \in Ref /\ NULL \in Ref
  BY <1>6, <1>7 DEF TaskStructs, Ref
<1>9. PICK m : m = CHOOSE o \in FreeMMs : TRUE
  OBVIOUS
<1> DEFINE Share == SetMM(p, old) /\ mm' = GrabUser(mm, old)
                      /\ local' = local /\ Goto(t, "copy_thread")
           Make  == FreeMMs # {} /\ SetMM(p, NULL)
                      /\ mm' = [mm EXCEPT ![m] = [users |-> 1, count |-> 1, listed |-> FALSE]]
                      /\ local' = [local EXCEPT ![t].mm = m] /\ Goto(t, "dup_mmap")
           None(next) == SetMM(p, NULL) /\ UNCHANGED << mm, local >> /\ Goto(t, next)
<1>10. \/ None("copy_thread") \/ None("bad_fork_sighand")
       \/ old # NULL /\ Share
       \/ Make
  BY <1>3, <1>7, <1>9, Zenon DEF CopyMM
<1>11. "copy_thread" \in PCs /\ "bad_fork_sighand" \in PCs /\ "dup_mmap" \in PCs
  BY DEF PCs
<1> DEFINE Done == /\ Shape' /\ \A u \in Task \ {t} : pc'[u] = pc[u] /\ local'[u] = local[u]
                   /\ \A u \in Task \ {p} : task'[u] = task[u]
                   /\ task'[p].state = "EMBRYO" /\ task'[p].active_mm = task'[p].mm
                   /\ task'[p].files = task[p].files /\ task'[p].fs = task[p].fs
                   /\ task'[p].sig = task[p].sig
                   /\ local'[t].p = p
                   /\ \/ pc'[t] \in {"copy_thread", "bad_fork_sighand"} /\ local'[t].mm = NULL
                      \/ pc'[t] = "dup_mmap" /\ local'[t].mm # NULL
<1>12. ASSUME NEW next \in {"copy_thread", "bad_fork_sighand"}, None(next)
       PROVE  Done
  <2>1. next \in PCs /\ SetMM(p, NULL) /\ Goto(t, next)
    BY <1>11, <1>12
  <2>2. /\ task' \in [Task -> TaskStructs] /\ \A u \in Task \ {p} : task'[u] = task[u]
        /\ task'[p].state = task[p].state /\ task'[p].mm = NULL /\ task'[p].active_mm = NULL
        /\ task'[p].files = task[p].files /\ task'[p].fs = task[p].fs
        /\ task'[p].sig = task[p].sig
    BY <1>4, <1>6, <1>8, <2>1, SetMMKeeps
  <2>3. pc' \in [Task -> PCs] /\ pc'[t] = next /\ \A u \in Task \ {t} : pc'[u] = pc[u]
    BY <1>6, <2>1, GotoKeeps
  <2>4. Shape'
    BY <1>1, <1>12, <2>2, <2>3 DEF Shape
  <2>5. local[t].mm = NULL
    BY <1>1, <1>5 DEF LocalOK
  <2> QED
    BY <1>3, <1>4, <1>12, <2>2, <2>3, <2>4, <2>5
<1>13. ASSUME old # NULL /\ Share
       PROVE  Done
  <2>1. SetMM(p, old) /\ Goto(t, "copy_thread") /\ old \in Obj
    BY <1>8, <1>13 DEF Ref
  <2>2. /\ task' \in [Task -> TaskStructs] /\ \A u \in Task \ {p} : task'[u] = task[u]
        /\ task'[p].state = task[p].state /\ task'[p].mm = old /\ task'[p].active_mm = old
        /\ task'[p].files = task[p].files /\ task'[p].fs = task[p].fs
        /\ task'[p].sig = task[p].sig
    BY <1>4, <1>6, <1>8, <2>1, SetMMKeeps
  <2>3. pc' \in [Task -> PCs] /\ pc'[t] = "copy_thread" /\ \A u \in Task \ {t} : pc'[u] = pc[u]
    BY <1>6, <1>11, <2>1, GotoKeeps
  <2>4. mm' \in [Obj -> MMs]
    BY <1>6, <1>13, <2>1, MMKeeps
  <2>5. Shape'
    BY <1>1, <1>13, <2>2, <2>3, <2>4 DEF Shape
  <2>6. local[t].mm = NULL
    BY <1>1, <1>5 DEF LocalOK
  <2> QED
    <3>1. local' = local
      BY <1>13
    <3>2. \A u \in Task \ {t} : pc'[u] = pc[u] /\ local'[u] = local[u]
      BY <2>3, <3>1
    <3>3. /\ task'[p].state = "EMBRYO" /\ task'[p].active_mm = task'[p].mm
          /\ task'[p].files = task[p].files /\ task'[p].fs = task[p].fs
          /\ task'[p].sig = task[p].sig
      BY <1>4, <2>2
    <3>4. local'[t].p = p /\ pc'[t] \in {"copy_thread", "bad_fork_sighand"} /\ local'[t].mm = NULL
      BY <1>3, <2>3, <2>6, <3>1
    <3>5. \A u \in Task \ {p} : task'[u] = task[u]
      BY <2>2
    <3> QED
      BY <2>5, <3>2, <3>3, <3>4, <3>5
<1>14. ASSUME Make
       PROVE  Done
  <2>1. SetMM(p, NULL) /\ Goto(t, "dup_mmap") /\ m \in Obj /\ m \in Ref /\ m # NULL
    BY <1>9, <1>14, Constants DEF FreeMMs, Ref
  <2>2. /\ task' \in [Task -> TaskStructs] /\ \A u \in Task \ {p} : task'[u] = task[u]
        /\ task'[p].state = task[p].state /\ task'[p].mm = NULL /\ task'[p].active_mm = NULL
        /\ task'[p].files = task[p].files /\ task'[p].fs = task[p].fs
        /\ task'[p].sig = task[p].sig
    BY <1>4, <1>6, <1>8, <2>1, SetMMKeeps
  <2>3. pc' \in [Task -> PCs] /\ pc'[t] = "dup_mmap" /\ \A u \in Task \ {t} : pc'[u] = pc[u]
    BY <1>6, <1>11, <2>1, GotoKeeps
  <2>4. mm' \in [Obj -> MMs]
    BY <1>6, <1>14, <2>1, MMKeeps
  <2>5. /\ local' \in [Task -> Locals] /\ \A u \in Task \ {t} : local'[u] = local[u]
        /\ local'[t].p = local[t].p /\ local'[t].mm = m
    BY <1>6, <1>14, <2>1, LocalMMKeeps
  <2>6. Shape'
    BY <1>1, <2>2, <2>3, <2>4, <2>5 DEF Shape
  <2> QED
    <3>2. \A u \in Task \ {t} : pc'[u] = pc[u] /\ local'[u] = local[u]
      BY <2>3, <2>5
    <3>3. /\ task'[p].state = "EMBRYO" /\ task'[p].active_mm = task'[p].mm
          /\ task'[p].files = task[p].files /\ task'[p].fs = task[p].fs
          /\ task'[p].sig = task[p].sig
      BY <1>4, <2>2
    <3>4. local'[t].p = p /\ pc'[t] = "dup_mmap" /\ local'[t].mm # NULL
      BY <1>3, <2>1, <2>3, <2>5
    <3>5. \A u \in Task \ {p} : task'[u] = task[u]
      BY <2>2
    <3> QED
      BY <2>6, <3>2, <3>3, <3>4, <3>5
<1> HIDE DEF None, Share, Make, Done
<1>15. Done
  <2>1. CASE None("copy_thread")
    BY <1>12, <2>1
  <2>2. CASE None("bad_fork_sighand")
    BY <1>12, <2>2
  <2> QED
    BY <1>10, <1>13, <1>14, <2>1, <2>2
<1> USE DEF Done
<1>16. LocalOK(t)' /\ ChildOK(t)' /\ Makes(t)'
  BY <1>4, <1>15 DEF LocalOK, ChildOK, Makes, Forking
<1>17. RefsSame(t)
  BY <1>1, <1>4, <1>15 DEF RefsSame, Early, Living
<1> QED
  BY <1>1, <1>2, <1>3, <1>15, <1>16, <1>17, ChildStep

\* dup_mmap starts on the address space that the parent holds for the child.
LEMMA DupMmapKeeps ==
  ASSUME Struct, NEW t \in Task, DupMmap(t)
  PROVE  Struct' /\ Moves(t, Subject(t)) /\ RefsSame(t)
<1>1. /\ Shape /\ curr = t /\ pc[t] = "dup_mmap" /\ Goto(t, "dup_vmas")
      /\ UNCHANGED << curr, task, local, count, nr_threads, processes, forks, build >>
  BY DEF Struct, DupMmap, At
<1>2. Makes(t)
  BY <1>1 DEF Makes, Forking
<1>3. PICK p : p = local[t].p
  OBVIOUS
<1>4. p \in Task /\ p # t /\ task[p].state = "EMBRYO"
  BY <1>1, <1>2, <1>3, Child
<1>5. LocalOK(t) /\ ChildOK(t) /\ local[t] \in Locals
  BY <1>1, Acting
<1>6. pc' \in [Task -> PCs] /\ pc'[t] = "dup_vmas" /\ \A u \in Task \ {t} : pc'[u] = pc[u]
  <2>1. "dup_vmas" \in PCs /\ pc \in [Task -> PCs]
    BY <1>1 DEF PCs, Shape
  <2> QED
    BY <1>1, <2>1, GotoKeeps
<1>7. mm' \in [Obj -> MMs]
  <2>1. PICK m : m = local[t].mm
    OBVIOUS
  <2>2. m \in Obj
    BY <1>1, <1>5, <2>1 DEF LocalOK, Locals, Ref
  <2>3. mm \in [Obj -> MMs] /\ mm' = [mm EXCEPT ![m].listed = TRUE]
    BY <1>1, <2>1 DEF DupMmap, Shape
  <2> QED
    BY <2>2, <2>3, MMKeeps
<1>8. Shape'
  BY <1>1, <1>6, <1>7 DEF Shape
<1>9. Makes(t)' /\ LocalOK(t)' /\ ChildOK(t)'
  BY <1>1, <1>2, <1>5, <1>6 DEF LocalOK, ChildOK, Makes, Forking
<1>10. RefsSame(t)
  BY <1>1, <1>6 DEF RefsSame, Early, Living
<1> QED
  BY <1>1, <1>2, <1>3, <1>4, <1>6, <1>8, <1>9, <1>10, ChildStep

\* When its pages are copied the child has it, and when they are not nobody does.
LEMMA DupVmasKeeps ==
  ASSUME Struct, NEW t \in Task, DupVmas(t)
  PROVE  Struct' /\ Moves(t, Subject(t)) /\ RefsSame(t)
<1>1. /\ Shape /\ curr = t /\ pc[t] = "dup_vmas"
      /\ UNCHANGED << curr, count, nr_threads, processes, forks, build >>
  BY DEF Struct, DupVmas, At
<1>2. Makes(t)
  BY <1>1 DEF Makes, Forking
<1>3. PICK p : p = local[t].p
  OBVIOUS
<1>4. p \in Task /\ p # t /\ task[p].state = "EMBRYO"
  BY <1>1, <1>2, <1>3, Child
<1>5. LocalOK(t) /\ ChildOK(t) /\ local[t] \in Locals
  BY <1>1, Acting
<1>6. PICK m : m = local[t].mm
  OBVIOUS
<1>7. m \in Obj /\ m \in Ref /\ NULL \in Ref
  BY <1>1, <1>5, <1>6 DEF LocalOK, Locals, Ref
<1>8. /\ task \in [Task -> TaskStructs] /\ pc \in [Task -> PCs] /\ local \in [Task -> Locals]
      /\ mm \in [Obj -> MMs] /\ "copy_thread" \in PCs /\ "bad_fork_sighand" \in PCs
  BY <1>1 DEF Shape, PCs
<1>9. CASE /\ SetMM(p, m) /\ local' = [local EXCEPT ![t].mm = NULL]
           /\ Goto(t, "copy_thread") /\ mm' = mm
  <2>1. /\ task' \in [Task -> TaskStructs] /\ \A u \in Task \ {p} : task'[u] = task[u]
        /\ task'[p].state = task[p].state /\ task'[p].mm = m /\ task'[p].active_mm = m
        /\ task'[p].files = task[p].files /\ task'[p].fs = task[p].fs
        /\ task'[p].sig = task[p].sig
    BY <1>4, <1>7, <1>8, <1>9, SetMMKeeps
  <2>2. pc' \in [Task -> PCs] /\ pc'[t] = "copy_thread" /\ \A u \in Task \ {t} : pc'[u] = pc[u]
    BY <1>8, <1>9, GotoKeeps
  <2>3. /\ local' \in [Task -> Locals] /\ \A u \in Task \ {t} : local'[u] = local[u]
        /\ local'[t].p = local[t].p /\ local'[t].mm = NULL
    BY <1>7, <1>8, <1>9, LocalMMKeeps
  <2>4. Shape'
    BY <1>1, <1>9, <2>1, <2>2, <2>3 DEF Shape
  <2>5. Makes(t)' /\ LocalOK(t)' /\ ChildOK(t)'
    BY <1>3, <1>4, <2>1, <2>2, <2>3 DEF LocalOK, ChildOK, Makes, Forking
  <2>6. RefsSame(t)
    BY <1>1, <1>4, <2>1, <2>2 DEF RefsSame, Early, Living
  <2> QED
    BY <1>1, <1>2, <1>3, <1>4, <2>1, <2>2, <2>3, <2>4, <2>5, <2>6, ChildStep
<1>10. CASE PutMM(t, mm, m, "bad_fork_sighand", local) /\ task' = task
  <2>1. /\ mm' \in [Obj -> MMs] /\ pc' \in [Task -> PCs] /\ local' \in [Task -> Locals]
        /\ \A u \in Task \ {t} : pc'[u] = pc[u] /\ local'[u] = local[u]
        /\ local'[t].p = local[t].p
        /\ \/ pc'[t] = "mmput" /\ local'[t].then = "bad_fork_sighand" /\ local'[t].mm = m
           \/ pc'[t] = "bad_fork_sighand" /\ local'[t].mm = NULL
    BY <1>7, <1>8, <1>10, PutKeeps
  <2>2. Shape'
    BY <1>1, <1>10, <2>1 DEF Shape
  <2>3. m # NULL
    BY <1>7, Constants
  <2>4. Makes(t)' /\ LocalOK(t)' /\ ChildOK(t)'
    BY <1>3, <1>4, <1>10, <2>1, <2>3 DEF LocalOK, ChildOK, Makes, Forking
  <2>5. RefsSame(t)
    BY <1>1, <1>10, <2>1 DEF RefsSame, Early, Living
  <2> QED
    BY <1>1, <1>2, <1>3, <1>4, <1>10, <2>1, <2>2, <2>4, <2>5, ChildStep
<1> QED
  BY <1>3, <1>6, <1>9, <1>10 DEF DupVmas

\* copy_thread changes only where the fork is.
LEMMA CopyThreadKeeps ==
  ASSUME Struct, NEW t \in Task, CopyThread(t)
  PROVE  Struct' /\ Moves(t, Subject(t)) /\ RefsSame(t) /\ MMSame(t)
<1>1. /\ Shape /\ curr = t /\ pc[t] = "copy_thread"
      /\ UNCHANGED << curr, task, local, mm, count, nr_threads, processes, forks, build >>
  BY DEF Struct, CopyThread, At
<1>2. Makes(t)
  BY <1>1 DEF Makes, Forking
<1>3. PICK p : p = local[t].p
  OBVIOUS
<1>4. p \in Task /\ p # t /\ task[p].state = "EMBRYO"
  BY <1>1, <1>2, <1>3, Child
<1>5. LocalOK(t) /\ ChildOK(t)
  BY <1>1, Acting
<1>6. PICK place \in {"link", "bad_fork_mm"} :
        Goto(t, place) /\ (place = "bad_fork_mm" => "copy_thread" \in build.fails)
  BY DEF CopyThread
<1>7. pc' \in [Task -> PCs] /\ pc'[t] = place /\ \A u \in Task \ {t} : pc'[u] = pc[u]
  <2>1. place \in PCs /\ pc \in [Task -> PCs]
    BY <1>1, <1>6 DEF PCs, Shape
  <2> QED
    BY <1>6, <2>1, GotoKeeps
<1>8. Shape'
  BY <1>1, <1>7 DEF Shape
<1>9. Makes(t)' /\ LocalOK(t)' /\ ChildOK(t)'
  BY <1>1, <1>2, <1>5, <1>6, <1>7 DEF LocalOK, ChildOK, Makes, Forking
<1>10. RefsSame(t)
  BY <1>1, <1>6, <1>7 DEF RefsSame, Early, Living
<1>11. MMSame(t)
  BY <1>1, <1>6, <1>7 DEF MMSame, Sharing, MMPlaces
<1> QED
  BY <1>1, <1>2, <1>3, <1>4, <1>7, <1>8, <1>9, <1>10, <1>11, ChildStep

\* The end of mmput lets go of an address space that no process has any more.
LEMMA MMPutKeeps ==
  ASSUME Struct, NEW t \in Task, MMPut(t)
  PROVE  Struct' /\ Moves(t, Subject(t)) /\ RefsSame(t)
<1>1. /\ Shape /\ curr = t /\ pc[t] = "mmput" /\ Goto(t, local[t].then)
      /\ UNCHANGED << curr, task, count, nr_threads, processes, forks, build >>
  BY DEF Struct, MMPut, At
<1>2. /\ StateOK(t) /\ LocalOK(t) /\ ChildOK(t) /\ ActiveOK(t) /\ local[t] \in Locals
      /\ t # swapper /\ task[t].state = "RUNNING"
  BY <1>1, Acting
<1>3. PICK m, then : m = local[t].mm /\ then = local[t].then
  OBVIOUS
<1>4. /\ m \in Obj /\ then \in {"bad_fork_sighand", "exit_files", "daemonize_fs", "user"}
      /\ then \in PCs /\ NULL \in Ref /\ "none" \in PCs
  BY <1>1, <1>2, <1>3 DEF LocalOK, Locals, Ref, PCs
<1>5. pc' \in [Task -> PCs] /\ pc'[t] = then /\ \A u \in Task \ {t} : pc'[u] = pc[u]
  BY <1>1, <1>3, <1>4, GotoKeeps DEF Shape
<1>6. mm' \in [Obj -> MMs]
  BY <1>1, <1>3, <1>4, MMKeeps DEF Shape, MMPut
<1>7. /\ local' \in [Task -> Locals] /\ \A u \in Task \ {t} : local'[u] = local[u]
      /\ local'[t].p = local[t].p /\ local'[t].mm = NULL
  <2>1. PICK k : k = [local[t] EXCEPT !.mm = NULL, !.then = "none"]
    OBVIOUS
  <2>2. k \in Locals /\ k.p = local[t].p /\ k.mm = NULL
    BY <1>2, <1>4, <2>1, Zenon DEF Locals
  <2>3. local' = [local EXCEPT ![t] = k] /\ local \in [Task -> Locals]
    BY <1>1, <2>1, Zenon DEF MMPut, Shape
  <2> QED
    BY <2>2, <2>3
<1>8. Shape'
  BY <1>1, <1>5, <1>6, <1>7 DEF Shape
<1>9. LocalOK(t)'
  BY <1>1, <1>2, <1>3, <1>4, <1>5, <1>7 DEF LocalOK, Makes, Forking
<1>12. RefsSame(t)
  BY <1>1, <1>4, <1>5 DEF RefsSame, Early, Living
<1>10. CASE then = "bad_fork_sighand"
  <2>1. Makes(t) /\ Makes(t)'
    BY <1>1, <1>3, <1>5, <1>10 DEF Makes, Forking
  <2>2. PICK p : p = local[t].p
    OBVIOUS
  <2>3. p \in Task /\ task[p].state = "EMBRYO"
    BY <1>2, <2>1, <2>2 DEF ChildOK
  <2>4. ChildOK(t)'
    BY <1>1, <1>5, <1>7, <1>10, <2>2, <2>3 DEF ChildOK
  <2> QED
    BY <1>1, <1>5, <1>7, <1>8, <1>9, <1>12, <2>1, <2>2, <2>3, <2>4, ChildStep
<1>11. CASE then # "bad_fork_sighand"
  <2>1. ~Makes(t) /\ ~Makes(t)'
    BY <1>1, <1>3, <1>4, <1>5, <1>11 DEF Makes, Forking
  <2>2. StateOK(t)' /\ ActiveOK(t)'
    BY <1>1, <1>2, <1>3, <1>4, <1>5, <1>11 DEF StateOK, ActiveOK, Ending
  <2>3. \A u \in Task \ {t} : Same(u)
    BY <1>1, <1>5, <1>7 DEF Same
  <2> QED
    BY <1>1, <1>2, <1>8, <1>9, <1>12, <2>1, <2>2, <2>3, OwnStep DEF Living
<1> QED
  BY <1>10, <1>11

\* What mm_release does to the task_structs.
LEMMA ReleaseKeeps ==
  ASSUME task \in [Task -> TaskStructs], NEW t \in Task, NEW T, T = mm_release(t, task)
  PROVE  /\ T \in [Task -> TaskStructs] /\ \A u \in Task \ {t} : T[u] = task[u]
         /\ T[t].state = task[t].state /\ T[t].active_mm = task[t].active_mm
         /\ T[t].mm = task[t].mm
         /\ T[t].files = task[t].files /\ T[t].fs = task[t].fs /\ T[t].sig = task[t].sig
<1>1. PICK n : n = [task[t] EXCEPT !.vfork_done = NULL]
  OBVIOUS
<1>2. T = [task EXCEPT ![t] = n] /\ task[t] \in TaskStructs
  BY <1>1 DEF mm_release
<1>3. /\ n \in TaskStructs /\ n.state = task[t].state /\ n.active_mm = task[t].active_mm
      /\ n.mm = task[t].mm
      /\ n.files = task[t].files /\ n.fs = task[t].fs /\ n.sig = task[t].sig
  BY <1>1, <1>2 DEF TaskStructs
<1> QED
  BY <1>2, <1>3

\* What exit_mm does.
LEMMA ExitMMEffect ==
  ASSUME Struct, NEW t \in Task, NEW q \in Task, NEW then \in PCs, exit_mm(t, q, then),
         local[t].mm = NULL
  PROVE  /\ task' \in [Task -> TaskStructs] /\ pc' \in [Task -> PCs]
         /\ local' \in [Task -> Locals] /\ mm' \in [Obj -> MMs]
         /\ \A u \in Task : /\ u \notin {t, q} => task'[u] = task[u]
                            /\ task'[u].state = task[u].state
                            /\ task'[u].active_mm = task[u].active_mm
                            /\ task'[u].files = task[u].files /\ task'[u].fs = task[u].fs
                            /\ task'[u].sig = task[u].sig
                            /\ u # q => task'[u].mm = task[u].mm
                            /\ local'[u].p = local[u].p
         /\ task'[q].mm = NULL
         /\ \A u \in Task \ {t} : pc'[u] = pc[u] /\ local'[u].mm = local[u].mm
                                    /\ local'[u].then = local[u].then
         /\ \/ pc'[t] = "mmput" /\ local'[t].then = then /\ local'[t].mm # NULL
            \/ pc'[t] = then /\ local'[t].mm = NULL
<1>1. /\ Shape /\ task \in [Task -> TaskStructs] /\ pc \in [Task -> PCs]
      /\ local \in [Task -> Locals] /\ mm \in [Obj -> MMs]
  BY DEF Struct, Shape
<1>2. PICK m : m = task[q].mm
  OBVIOUS
<1>3. m \in Obj \cup {NULL} /\ NULL \notin Obj
  BY <1>1, <1>2, Constants DEF TaskStructs, Ref
<1>4. PICK L : L = Completed(t)
  OBVIOUS
<1>5. /\ L \in [Task -> Locals]
      /\ \A u \in Task : L[u].p = local[u].p /\ L[u].mm = local[u].mm /\ L[u].then = local[u].then
  BY <1>1, <1>4, CompletedKeeps
<1>6. PICK T : T = mm_release(t, task)
  OBVIOUS
<1>7. /\ T \in [Task -> TaskStructs] /\ \A u \in Task \ {t} : T[u] = task[u]
      /\ T[t].state = task[t].state /\ T[t].active_mm = task[t].active_mm
      /\ T[t].mm = task[t].mm
      /\ T[t].files = task[t].files /\ T[t].fs = task[t].fs /\ T[t].sig = task[t].sig
  BY <1>1, <1>6, ReleaseKeeps
<1>8. /\ task' \in [Task -> TaskStructs] /\ \A u \in Task \ {q} : task'[u] = T[u]
      /\ task'[q].state = T[q].state /\ task'[q].active_mm = T[q].active_mm
      /\ task'[q].mm = NULL
      /\ task'[q].files = T[q].files /\ task'[q].fs = T[q].fs /\ task'[q].sig = T[q].sig
  <2>1. PICK n : n = [T[q] EXCEPT !.mm = NULL]
    OBVIOUS
  <2>2. task' = [T EXCEPT ![q] = n] /\ T[q] \in TaskStructs /\ NULL \in Ref
    BY <1>6, <1>7, <2>1 DEF exit_mm, Ref
  <2>3. /\ n \in TaskStructs /\ n.state = T[q].state /\ n.active_mm = T[q].active_mm
        /\ n.mm = NULL /\ n.files = T[q].files /\ n.fs = T[q].fs /\ n.sig = T[q].sig
    BY <2>1, <2>2 DEF TaskStructs
  <2> QED
    BY <1>7, <2>2, <2>3
<1>9. \A u \in Task : /\ u \notin {t, q} => task'[u] = task[u]
                      /\ task'[u].state = task[u].state
                      /\ task'[u].active_mm = task[u].active_mm
                      /\ task'[u].files = task[u].files /\ task'[u].fs = task[u].fs
                      /\ task'[u].sig = task[u].sig
                      /\ u # q => task'[u].mm = task[u].mm
  BY <1>7, <1>8
<1>10. CASE m = NULL
  <2>1. mm' = mm /\ local' = L /\ Goto(t, then)
    BY <1>2, <1>4, <1>10, Zenon DEF exit_mm
  <2>2. pc' \in [Task -> PCs] /\ pc'[t] = then /\ \A u \in Task \ {t} : pc'[u] = pc[u]
    BY <1>1, <2>1, GotoKeeps
  <2> QED
    BY <1>1, <1>5, <1>8, <1>9, <2>1, <2>2
<1>11. CASE m # NULL
  <2>1. PICK M : M = GrabMM(mm, m)
    OBVIOUS
  <2>2. PutMM(t, M, m, then, L) /\ m \in Obj
    BY <1>2, <1>3, <1>4, <1>11, <2>1, Zenon DEF exit_mm
  <2>3. M \in [Obj -> MMs]
    BY <1>1, <2>1, <2>2, MMKeeps
  <2>4. /\ mm' \in [Obj -> MMs] /\ pc' \in [Task -> PCs] /\ local' \in [Task -> Locals]
        /\ \A u \in Task \ {t} : pc'[u] = pc[u] /\ local'[u] = L[u]
        /\ local'[t].p = L[t].p
        /\ \/ pc'[t] = "mmput" /\ local'[t].then = then /\ local'[t].mm = m
           \/ pc'[t] = then /\ local'[t].mm = NULL
    BY <1>1, <1>5, <2>2, <2>3, PutKeeps, SMTT(30)
  <2>5. \A u \in Task : local'[u].p = local[u].p
    BY <1>5, <2>4
  <2>6. \A u \in Task \ {t} : local'[u].mm = local[u].mm /\ local'[u].then = local[u].then
    BY <1>5, <2>4
  <2> QED
    BY <1>3, <1>8, <1>9, <1>11, <2>4, <2>5, <2>6
<1> QED
  BY <1>10, <1>11

\* A fork that fails late takes the child's address space back.
LEMMA BadForkMMKeeps ==
  ASSUME Struct, NEW t \in Task, BadForkMM(t)
  PROVE  Struct' /\ Moves(t, Subject(t)) /\ RefsSame(t)
<1>1. /\ Shape /\ curr = t /\ pc[t] = "bad_fork_mm"
      /\ UNCHANGED << curr, count, nr_threads, processes, forks, build >>
  BY DEF Struct, BadForkMM, At
<1>2. Makes(t)
  BY <1>1 DEF Makes, Forking
<1>3. PICK p : p = local[t].p
  OBVIOUS
<1>4. /\ p \in Task /\ p # t /\ task[p].state = "EMBRYO" /\ p # swapper /\ t # swapper
      /\ pc[p] = "none" /\ ~Makes(p) /\ local[p].p = NULL /\ local[p].mm = NULL
      /\ task[t].state = "RUNNING" /\ \A u \in Task \ {t} : Makes(u) => local[u].p # p
  BY <1>1, <1>2, <1>3, Child
<1>5. StateOK(t) /\ LocalOK(t) /\ ActiveOK(t) /\ ChildOK(t)
  BY <1>1, Acting
<1>6. "bad_fork_sighand" \in PCs /\ local[t].mm = NULL
  BY <1>1, <1>5 DEF LocalOK, PCs
<1>7. /\ task' \in [Task -> TaskStructs] /\ pc' \in [Task -> PCs]
      /\ local' \in [Task -> Locals] /\ mm' \in [Obj -> MMs]
      /\ \A u \in Task : /\ u \notin {t, p} => task'[u] = task[u]
                         /\ task'[u].state = task[u].state
                         /\ task'[u].active_mm = task[u].active_mm
                         /\ task'[u].files = task[u].files /\ task'[u].fs = task[u].fs
                         /\ task'[u].sig = task[u].sig
                         /\ u # p => task'[u].mm = task[u].mm
                         /\ local'[u].p = local[u].p
      /\ \A u \in Task \ {t} : pc'[u] = pc[u] /\ local'[u].mm = local[u].mm
                                 /\ local'[u].then = local[u].then
      /\ \/ pc'[t] = "mmput" /\ local'[t].then = "bad_fork_sighand" /\ local'[t].mm # NULL
         \/ pc'[t] = "bad_fork_sighand" /\ local'[t].mm = NULL
  BY <1>3, <1>4, <1>6, ExitMMEffect DEF BadForkMM
<1>8. Shape'
  BY <1>1, <1>7 DEF Shape
<1>9. Makes(t)' /\ LocalOK(t)' /\ ChildOK(t)'
  BY <1>3, <1>4, <1>7 DEF LocalOK, ChildOK, Makes, Forking
<1>10. StateOK(t)' /\ ActiveOK(t)'
  BY <1>1, <1>4, <1>5, <1>7 DEF StateOK, ActiveOK, Ending, Living
<1>11. StateOK(p)' /\ LocalOK(p)' /\ ActiveOK(p)' /\ ~Makes(p)'
  BY <1>1, <1>4, <1>7 DEF StateOK, LocalOK, ActiveOK, Ending, Living, Makes, Forking
<1>12. \A u \in Task \ {t, p} : Same(u)
  BY <1>7 DEF Same
<1>13. RefsSame(t)
  BY <1>1, <1>7 DEF RefsSame, Early, Living
<1>14. Subject(t) = p
  BY <1>2, <1>3 DEF Subject
<1> QED
  BY <1>1, <1>2, <1>3, <1>4, <1>7, <1>8, <1>9, <1>10, <1>11, <1>12, <1>13, <1>14, StepKeeps DEF Living

\* exit_mm of the running process.
LEMMA ExitMMKeeps ==
  ASSUME Struct, NEW t \in Task, Exit(t) \/ Daemonize(t)
  PROVE  Struct' /\ Moves(t, Subject(t)) /\ RefsSame(t)
<1>1. /\ Shape /\ curr = t /\ pc[t] = "user" /\ t # swapper
      /\ UNCHANGED << curr, count, nr_threads, processes, forks, build >>
  BY DEF Struct, Exit, Daemonize, At
<1>2. PICK then \in {"exit_files", "daemonize_fs"} : exit_mm(t, t, then)
  BY DEF Exit, Daemonize
<1>3. StateOK(t) /\ LocalOK(t) /\ ActiveOK(t) /\ task[t].state = "RUNNING"
  BY <1>1, Acting
<1>4. then \in PCs /\ local[t].mm = NULL
  BY <1>1, <1>2, <1>3 DEF LocalOK, PCs
<1>5. /\ task' \in [Task -> TaskStructs] /\ pc' \in [Task -> PCs]
      /\ local' \in [Task -> Locals] /\ mm' \in [Obj -> MMs]
      /\ \A u \in Task : /\ u \notin {t, t} => task'[u] = task[u]
                         /\ task'[u].state = task[u].state
                         /\ task'[u].active_mm = task[u].active_mm
                         /\ task'[u].files = task[u].files /\ task'[u].fs = task[u].fs
                         /\ task'[u].sig = task[u].sig
                         /\ u # t => task'[u].mm = task[u].mm
                         /\ local'[u].p = local[u].p
      /\ task'[t].mm = NULL
      /\ \A u \in Task \ {t} : pc'[u] = pc[u] /\ local'[u].mm = local[u].mm
                                 /\ local'[u].then = local[u].then
      /\ \/ pc'[t] = "mmput" /\ local'[t].then = then /\ local'[t].mm # NULL
         \/ pc'[t] = then /\ local'[t].mm = NULL
  BY <1>2, <1>4, ExitMMEffect
<1>6. Shape'
  BY <1>1, <1>5 DEF Shape
<1>7. ~Makes(t) /\ ~Makes(t)'
  BY <1>1, <1>2, <1>5 DEF Makes, Forking
<1>8. LocalOK(t)'
  BY <1>1, <1>2, <1>3, <1>5, <1>7 DEF LocalOK
<1>9. task[t].mm = NULL => task[t].active_mm # NULL
  BY <1>1, <1>3 DEF ActiveOK, Living
<1>10. task[t].mm # NULL => task[t].active_mm # NULL
  BY <1>1, <1>3 DEF ActiveOK, Living
<1>11. ActiveOK(t)'
  BY <1>1, <1>5, <1>9, <1>10 DEF ActiveOK
<1>12. StateOK(t)'
  BY <1>2, <1>3, <1>5 DEF StateOK, Ending
<1>13. \A u \in Task \ {t} : Same(u)
  BY <1>5 DEF Same
<1>14. RefsSame(t)
  BY <1>1, <1>2, <1>5 DEF RefsSame, Early, Living
<1> QED
  BY <1>1, <1>3, <1>5, <1>6, <1>7, <1>8, <1>11, <1>12, <1>13, <1>14, OwnStep DEF Living

\* The constant records.
LEMMA Records ==
  /\ NoLocal \in Locals /\ NoLocal.p = NULL /\ NoLocal.mm = NULL
  /\ FreeTask \in TaskStructs /\ FreeTask.state = "FREE" /\ FreeTask.mm = NULL
  /\ FreeTask.active_mm = NULL
  /\ FreeTask.files = NULL /\ FreeTask.fs = NULL /\ FreeTask.sig = NULL
<1>1. "none" \in PCs /\ NULL \in Ref /\ FALSE \in BOOLEAN /\ {} \in SUBSET CloneFlags
  BY DEF PCs, Ref
<1>2. NoLocal \in Locals
  BY <1>1, Zenon DEF NoLocal, Locals
<1> QED
  BY <1>1, <1>2 DEF NoLocal, FreeTask, TaskStructs

\* The parent that waited in vfork forgets its child.
LEMMA WaitForVforkKeeps ==
  ASSUME Struct, NEW t \in Task, WaitForVfork(t)
  PROVE  Struct' /\ Moves(t, Subject(t)) /\ RefsSame(t) /\ MMSame(t)
<1>1. /\ Shape /\ curr = t /\ pc[t] = "vfork" /\ Goto(t, "user")
      /\ local' = [local EXCEPT ![t] = NoLocal]
      /\ UNCHANGED << curr, task, mm, count, nr_threads, processes, forks, build >>
  BY DEF Struct, WaitForVfork, At
<1>2. StateOK(t) /\ ActiveOK(t) /\ task[t].state = "RUNNING" /\ t # swapper
  BY <1>1, Acting
<1>3. pc' \in [Task -> PCs] /\ pc'[t] = "user" /\ \A u \in Task \ {t} : pc'[u] = pc[u]
  <2>1. pc \in [Task -> PCs] /\ "user" \in PCs
    BY <1>1 DEF Shape, PCs
  <2> QED
    BY <1>1, <2>1, GotoKeeps
<1>4. /\ local' \in [Task -> Locals] /\ \A u \in Task \ {t} : local'[u] = local[u]
      /\ local'[t] = NoLocal
  BY <1>1, Records DEF Shape
<1>5. Shape'
  BY <1>1, <1>3, <1>4 DEF Shape
<1>6. ~Makes(t) /\ ~Makes(t)'
  BY <1>1, <1>3 DEF Makes, Forking
<1>7. StateOK(t)' /\ ActiveOK(t)' /\ LocalOK(t)'
  BY <1>1, <1>2, <1>3, <1>4, Records DEF StateOK, ActiveOK, LocalOK, Ending
<1>8. \A u \in Task \ {t} : Same(u)
  BY <1>1, <1>3, <1>4 DEF Same
<1>9. RefsSame(t)
  BY <1>1, <1>3 DEF RefsSame, Early, Living
<1>10. MMSame(t)
  <2>1. local[t].mm = NULL
    BY <1>1, Acting DEF LocalOK
  <2> QED
    BY <1>1, <1>3, <1>4, <2>1, Records DEF MMSame, Sharing, MMPlaces
<1> QED
  BY <1>1, <1>2, <1>5, <1>6, <1>7, <1>8, <1>9, <1>10, OwnStep DEF Living

\* A process is a zombie when it has given everything up.
LEMMA ExitNotifyKeeps ==
  ASSUME Struct, NEW t \in Task, ExitNotify(t)
  PROVE  Struct' /\ Moves(t, Subject(t)) /\ RefsSame(t) /\ MMSame(t)
<1>1. /\ Shape /\ curr = t /\ pc[t] = "exit_notify" /\ Goto(t, "dead")
      /\ Set(t, "state", "ZOMBIE")
      /\ UNCHANGED << curr, local, mm, count, nr_threads, processes, forks, build >>
  BY DEF Struct, ExitNotify, At
<1>2. StateOK(t) /\ ActiveOK(t) /\ LocalOK(t) /\ task[t].state = "RUNNING" /\ t # swapper
  BY <1>1, Acting
<1>3. pc' \in [Task -> PCs] /\ pc'[t] = "dead" /\ \A u \in Task \ {t} : pc'[u] = pc[u]
  <2>1. pc \in [Task -> PCs] /\ "dead" \in PCs
    BY <1>1 DEF Shape, PCs
  <2> QED
    BY <1>1, <2>1, GotoKeeps
<1>4. /\ task' \in [Task -> TaskStructs] /\ \A u \in Task \ {t} : task'[u] = task[u]
      /\ task'[t].state = "ZOMBIE" /\ task'[t].mm = task[t].mm
      /\ task'[t].active_mm = task[t].active_mm
      /\ task'[t].files = task[t].files /\ task'[t].fs = task[t].fs /\ task'[t].sig = task[t].sig
  <2>1. PICK n : n = [task[t] EXCEPT !.state = "ZOMBIE"]
    OBVIOUS
  <2>2. task' = [task EXCEPT ![t] = n] /\ task[t] \in TaskStructs /\ task \in [Task -> TaskStructs]
    BY <1>1, <2>1 DEF Set, Shape
  <2>3. /\ n \in TaskStructs /\ n.state = "ZOMBIE" /\ n.active_mm = task[t].active_mm
        /\ n.mm = task[t].mm
        /\ n.files = task[t].files /\ n.fs = task[t].fs /\ n.sig = task[t].sig
    BY <2>1, <2>2 DEF TaskStructs
  <2> QED
    BY <2>2, <2>3
<1>5. Shape'
  BY <1>1, <1>3, <1>4 DEF Shape
<1>6. ~Makes(t) /\ ~Makes(t)'
  BY <1>1, <1>3 DEF Makes, Forking
<1>7. StateOK(t)' /\ ActiveOK(t)' /\ LocalOK(t)'
  BY <1>1, <1>2, <1>3, <1>4, <1>6 DEF StateOK, ActiveOK, LocalOK, Ending, Living
<1>8. \A u \in Task \ {t} : Same(u)
  BY <1>1, <1>3, <1>4 DEF Same
<1>9. RefsSame(t)
  BY <1>1, <1>2, <1>3, <1>4 DEF RefsSame, Early, Living
<1>10. MMSame(t)
  BY <1>1, <1>2, <1>3, <1>4 DEF MMSame, Sharing, MMPlaces
<1> QED
  BY <1>1, <1>2, <1>4, <1>5, <1>6, <1>7, <1>8, <1>9, <1>10, OwnStep DEF Living

\* In lazy TLB mode a process borrows the address space it had.
LEMMA StartLazyKeeps ==
  ASSUME Struct, NEW t \in Task, start_lazy_tlb(t)
  PROVE  Struct' /\ Moves(t, Subject(t)) /\ RefsSame(t)
<1>1. PICK m : m = task[t].mm
  OBVIOUS
<1>2. /\ Shape /\ curr = t /\ pc[t] = "user" /\ Goto(t, "lazy") /\ m # NULL
      /\ Set(t, "mm", NULL) /\ mm' = GrabMM(mm, m) /\ local' = [local EXCEPT ![t].mm = m]
      /\ UNCHANGED << curr, count, nr_threads, processes, forks, build >>
  BY <1>1 DEF Struct, start_lazy_tlb, At
<1>3. StateOK(t) /\ ActiveOK(t) /\ LocalOK(t) /\ task[t].state = "RUNNING"
  BY <1>2, Acting
<1>4. /\ task \in [Task -> TaskStructs] /\ pc \in [Task -> PCs] /\ local \in [Task -> Locals]
      /\ mm \in [Obj -> MMs] /\ "lazy" \in PCs /\ m \in Obj /\ m \in Ref /\ NULL \in Ref
  BY <1>1, <1>2 DEF Shape, PCs, TaskStructs, Ref
<1>5. pc' \in [Task -> PCs] /\ pc'[t] = "lazy" /\ \A u \in Task \ {t} : pc'[u] = pc[u]
  BY <1>2, <1>4, GotoKeeps
<1>6. /\ task' \in [Task -> TaskStructs] /\ \A u \in Task \ {t} : task'[u] = task[u]
      /\ task'[t].state = task[t].state /\ task'[t].mm = NULL
      /\ task'[t].active_mm = task[t].active_mm
      /\ task'[t].files = task[t].files /\ task'[t].fs = task[t].fs /\ task'[t].sig = task[t].sig
  <2>1. PICK n : n = [task[t] EXCEPT !.mm = NULL]
    OBVIOUS
  <2>2. task' = [task EXCEPT ![t] = n] /\ task[t] \in TaskStructs
    BY <1>2, <1>4, <2>1 DEF Set
  <2>3. /\ n \in TaskStructs /\ n.state = task[t].state /\ n.active_mm = task[t].active_mm
        /\ n.mm = NULL
        /\ n.files = task[t].files /\ n.fs = task[t].fs /\ n.sig = task[t].sig
    BY <1>4, <2>1, <2>2 DEF TaskStructs
  <2> QED
    BY <1>4, <2>2, <2>3
<1>7. mm' \in [Obj -> MMs]
  BY <1>2, <1>4, MMKeeps
<1>8. /\ local' \in [Task -> Locals] /\ \A u \in Task \ {t} : local'[u] = local[u]
      /\ local'[t].p = local[t].p /\ local'[t].mm = m
  BY <1>2, <1>4, LocalMMKeeps
<1>9. Shape'
  BY <1>2, <1>5, <1>6, <1>7, <1>8 DEF Shape
<1>10. ~Makes(t) /\ ~Makes(t)'
  BY <1>2, <1>5 DEF Makes, Forking
<1>11. ActiveOK(t)' /\ StateOK(t)'
  BY <1>1, <1>2, <1>3, <1>5, <1>6 DEF StateOK, ActiveOK, Ending, Living
<1>12. LocalOK(t)'
  BY <1>2, <1>3, <1>5, <1>8, <1>10 DEF LocalOK
<1>13. t # swapper
  BY <1>1, <1>2 DEF Struct, SwapperOK
<1>14. \A u \in Task \ {t} : Same(u)
  BY <1>5, <1>6, <1>8 DEF Same
<1>15. RefsSame(t)
  BY <1>2, <1>5, <1>6 DEF RefsSame, Early, Living
<1> QED
  BY <1>2, <1>3, <1>6, <1>9, <1>10, <1>11, <1>12, <1>13, <1>14, <1>15, OwnStep DEF Living

\* It takes it back, and gives up what it has borrowed since.
LEMMA EndLazyKeeps ==
  ASSUME Struct, NEW t \in Task, end_lazy_tlb(t)
  PROVE  Struct' /\ Moves(t, Subject(t)) /\ RefsSame(t)
<1>1. PICK m, old : m = local[t].mm /\ old = task[t].active_mm
  OBVIOUS
<1>2. /\ Shape /\ curr = t /\ pc[t] = "lazy" /\ Goto(t, "user")
      /\ SetMM(t, m) /\ mm' = mmdrop(mm, old) /\ local' = [local EXCEPT ![t].mm = NULL]
      /\ UNCHANGED << curr, count, nr_threads, processes, forks, build >>
  BY <1>1 DEF Struct, end_lazy_tlb, At
<1>3. /\ StateOK(t) /\ ActiveOK(t) /\ LocalOK(t) /\ task[t].state = "RUNNING" /\ t # swapper
      /\ local[t] \in Locals
  BY <1>2, Acting
<1>4. /\ task \in [Task -> TaskStructs] /\ pc \in [Task -> PCs] /\ local \in [Task -> Locals]
      /\ mm \in [Obj -> MMs] /\ "user" \in PCs /\ NULL \in Ref
  BY <1>2 DEF Shape, PCs, Ref
<1>5. m \in Obj /\ m \in Ref
  BY <1>1, <1>2, <1>3 DEF LocalOK, Locals, Ref
<1>6. old \in Obj
  <2>1. task[t].mm = NULL
    BY <1>2, <1>3 DEF StateOK
  <2>2. old # NULL
    BY <1>1, <1>2, <1>3, <2>1 DEF ActiveOK, Living
  <2> QED
    BY <1>1, <1>4, <2>2 DEF TaskStructs, Ref
<1>7. pc' \in [Task -> PCs] /\ pc'[t] = "user" /\ \A u \in Task \ {t} : pc'[u] = pc[u]
  BY <1>2, <1>4, GotoKeeps
<1>8. /\ task' \in [Task -> TaskStructs] /\ \A u \in Task \ {t} : task'[u] = task[u]
      /\ task'[t].state = task[t].state /\ task'[t].mm = m
      /\ task'[t].active_mm = m
      /\ task'[t].files = task[t].files /\ task'[t].fs = task[t].fs /\ task'[t].sig = task[t].sig
  BY <1>2, <1>4, <1>5, SetMMKeeps
<1>9. mm' \in [Obj -> MMs]
  BY <1>2, <1>4, <1>6, MMKeeps
<1>10. /\ local' \in [Task -> Locals] /\ \A u \in Task \ {t} : local'[u] = local[u]
       /\ local'[t].p = local[t].p /\ local'[t].mm = NULL
  BY <1>2, <1>4, LocalMMKeeps
<1>11. Shape'
  BY <1>2, <1>7, <1>8, <1>9, <1>10 DEF Shape
<1>12. ~Makes(t) /\ ~Makes(t)'
  BY <1>2, <1>7 DEF Makes, Forking
<1>13. ActiveOK(t)' /\ StateOK(t)'
  <2>1. m # NULL
    BY <1>5, Constants
  <2> QED
    BY <1>1, <1>2, <1>3, <1>7, <1>8, <2>1 DEF StateOK, ActiveOK, Ending, Living
<1>14. LocalOK(t)'
  BY <1>2, <1>3, <1>7, <1>10, <1>12 DEF LocalOK
<1>15. \A u \in Task \ {t} : Same(u)
  BY <1>7, <1>8, <1>10 DEF Same
<1>16. RefsSame(t)
  BY <1>2, <1>7, <1>8 DEF RefsSame, Early, Living
<1> QED
  BY <1>2, <1>3, <1>8, <1>11, <1>12, <1>13, <1>14, <1>15, <1>16, OwnStep DEF Living

\* After exec a process has an address space, and it is the active one.
LEMMA ExecKeeps ==
  ASSUME Struct, NEW t \in Task, Exec(t)
  PROVE  Struct' /\ Moves(t, Subject(t)) /\ RefsSame(t)
<1>1. /\ Shape /\ curr = t /\ pc[t] = "user" /\ t # swapper
      /\ UNCHANGED << curr, count, nr_threads, processes, forks, build >>
  BY DEF Struct, Exec, At
<1>2. StateOK(t) /\ ActiveOK(t) /\ LocalOK(t) /\ task[t].state = "RUNNING"
  BY <1>1, Acting
<1>3. /\ task \in [Task -> TaskStructs] /\ pc \in [Task -> PCs] /\ local \in [Task -> Locals]
      /\ mm \in [Obj -> MMs] /\ "user" \in PCs /\ local[t].mm = NULL
  BY <1>1, <1>2 DEF Shape, PCs, LocalOK
<1>4. PICK old, active, new : /\ old = task[t].mm /\ active = task[t].active_mm
                              /\ new = CHOOSE o \in FreeMMs : TRUE
  OBVIOUS
<1>5. PICK M : M = [mm EXCEPT ![new] = [users |-> 1, count |-> 1, listed |-> TRUE]]
  OBVIOUS
<1>6. PICK L : L = Completed(t)
  OBVIOUS
<1>7. /\ L \in [Task -> Locals]
      /\ \A u \in Task : L[u].p = local[u].p /\ L[u].mm = local[u].mm /\ L[u].then = local[u].then
  BY <1>1, <1>6, CompletedKeeps
<1>8. PICK T : T = mm_release(t, task)
  OBVIOUS
<1>9. /\ T \in [Task -> TaskStructs] /\ \A u \in Task \ {t} : T[u] = task[u]
      /\ T[t].state = task[t].state /\ T[t].active_mm = task[t].active_mm
      /\ T[t].mm = task[t].mm
      /\ T[t].files = task[t].files /\ T[t].fs = task[t].fs /\ T[t].sig = task[t].sig
  BY <1>3, <1>8, ReleaseKeeps
<1> DEFINE N == [T EXCEPT ![t].mm = new, ![t].active_mm = new]
           NewTask == FreeMMs # {} /\ task' = N
           Thread == old = NULL /\ mm' = mmdrop(M, active) /\ local' = L /\ pc' = pc
           Empty == old # NULL /\ mm' = mm /\ task' = T /\ local' = L /\ pc' = pc
           Leave == old # NULL /\ PutMM(t, M, old, "user", L)
<1>10. \/ NewTask /\ Thread
       \/ Empty
       \/ NewTask /\ Leave
  BY <1>4, <1>5, <1>6, <1>8, Zenon DEF Exec
<1>11. ASSUME NewTask
       PROVE  /\ new \in Obj /\ new # NULL /\ M \in [Obj -> MMs]
              /\ task' \in [Task -> TaskStructs] /\ \A u \in Task \ {t} : task'[u] = task[u]
              /\ task'[t].state = task[t].state /\ task'[t].active_mm = new
              /\ task'[t].mm = new
              /\ task'[t].files = task[t].files /\ task'[t].fs = task[t].fs
              /\ task'[t].sig = task[t].sig
  <2>1. new \in Obj /\ new \in Ref /\ new # NULL
    BY <1>4, <1>11, Constants DEF FreeMMs, Ref
  <2>2. M \in [Obj -> MMs]
    BY <1>3, <1>5, <2>1, MMKeeps
  <2>3. PICK n : n = [T[t] EXCEPT !.mm = new, !.active_mm = new]
    OBVIOUS
  <2>4. task' = [T EXCEPT ![t] = n] /\ T[t] \in TaskStructs
    BY <1>9, <1>11, <2>3
  <2>5. /\ n \in TaskStructs /\ n.state = T[t].state /\ n.active_mm = new
        /\ n.mm = new
        /\ n.files = T[t].files /\ n.fs = T[t].fs /\ n.sig = T[t].sig
    BY <2>1, <2>3, <2>4 DEF TaskStructs
  <2> QED
    BY <1>9, <2>1, <2>2, <2>4, <2>5
<1> DEFINE Done ==
      /\ task' \in [Task -> TaskStructs] /\ pc' \in [Task -> PCs]
      /\ local' \in [Task -> Locals] /\ mm' \in [Obj -> MMs]
      /\ \A u \in Task \ {t} : task'[u] = task[u] /\ pc'[u] = pc[u] /\ local'[u].p = local[u].p
           /\ local'[u].mm = local[u].mm /\ local'[u].then = local[u].then
      /\ local'[t].p = local[t].p
      /\ task'[t].state = task[t].state /\ task'[t].mm # NULL
      /\ task'[t].active_mm = task'[t].mm
      /\ task'[t].files = task[t].files /\ task'[t].fs = task[t].fs /\ task'[t].sig = task[t].sig
      /\ \/ pc'[t] = "mmput" /\ local'[t].then = "user" /\ local'[t].mm # NULL
         \/ pc'[t] = "user" /\ local'[t].mm = NULL
<1>12. ASSUME NewTask, Thread
       PROVE  Done
  <2>1. active \in Obj
    BY <1>1, <1>2, <1>3, <1>4, <1>12 DEF ActiveOK, Living, TaskStructs, Ref
  <2>2. mm' \in [Obj -> MMs]
    BY <1>11, <1>12, <2>1, MMKeeps
  <2>3. local' = L /\ pc' = pc
    BY <1>12
  <2> QED
    BY <1>1, <1>3, <1>7, <1>11, <1>12, <2>2, <2>3
<1>13. ASSUME Empty
       PROVE  Done
  <2>1. local' = L /\ pc' = pc /\ mm' = mm /\ task' = T /\ T[t].mm # NULL
    BY <1>4, <1>9, <1>13
  <2>2. T[t].active_mm = T[t].mm
    BY <1>2, <1>4, <1>9, <1>13 DEF ActiveOK, Living
  <2> QED
    BY <1>1, <1>3, <1>7, <1>9, <2>1, <2>2
<1>14. ASSUME NewTask, Leave
       PROVE  Done
  <2>1. old \in Obj /\ old # NULL /\ PutMM(t, M, old, "user", L)
    BY <1>3, <1>4, <1>14 DEF TaskStructs, Ref
  <2>2. /\ mm' \in [Obj -> MMs] /\ pc' \in [Task -> PCs] /\ local' \in [Task -> Locals]
        /\ \A u \in Task \ {t} : pc'[u] = pc[u] /\ local'[u] = L[u]
        /\ local'[t].p = L[t].p
        /\ \/ pc'[t] = "mmput" /\ local'[t].then = "user" /\ local'[t].mm = old
           \/ pc'[t] = "user" /\ local'[t].mm = NULL
    <3>1. M \in [Obj -> MMs]
      BY <1>11, <1>14
    <3> QED
      BY <1>3, <1>7, <2>1, <3>1, PutKeeps
  <2> QED
    BY <1>7, <1>11, <1>14, <2>1, <2>2
<1> HIDE DEF NewTask, Thread, Empty, Leave
<1>15. Done
  BY <1>10, <1>12, <1>13, <1>14
<1>16. Shape'
  BY <1>1, <1>15 DEF Shape
<1>17. ~Makes(t) /\ ~Makes(t)'
  BY <1>1, <1>15 DEF Makes, Forking
<1>18. ActiveOK(t)' /\ StateOK(t)'
  BY <1>1, <1>2, <1>15 DEF StateOK, ActiveOK, Ending, Living
<1>19. LocalOK(t)'
  BY <1>1, <1>2, <1>15, <1>17 DEF LocalOK
<1>20. \A u \in Task \ {t} : Same(u)
  BY <1>15 DEF Same
<1>21. task'[t].state \in Living
  BY <1>2, <1>15 DEF Living
<1>22. RefsSame(t)
  BY <1>1, <1>2, <1>15 DEF RefsSame, Early, Living
<1> HIDE DEF Done
<1> QED
  BY <1>1, <1>16, <1>17, <1>18, <1>19, <1>20, <1>21, <1>22, OwnStep

\* The child is put on the list with what it was given.
LEMMA LinkKeeps ==
  ASSUME Struct, NEW t \in Task, Link(t)
  PROVE  Struct' /\ \E p \in Task : Linked(t, p)
<1>1. /\ Shape /\ curr = t /\ pc[t] = "link"
      /\ UNCHANGED << curr, mm, count, processes, forks, build >>
      /\ nr_threads' = nr_threads + 1
  BY DEF Struct, Link, At
<1>2. Makes(t)
  BY <1>1 DEF Makes, Forking
<1>3. PICK p : p = local[t].p
  OBVIOUS
<1>4. /\ p \in Task /\ p # t /\ task[p].state = "EMBRYO" /\ p # swapper /\ t # swapper
      /\ pc[p] = "none" /\ ~Makes(p) /\ local[p].p = NULL /\ local[p].mm = NULL
      /\ task[t].state = "RUNNING" /\ \A u \in Task \ {t} : Makes(u) => local[u].p # p
  BY <1>1, <1>2, <1>3, Child
<1>5. StateOK(t) /\ LocalOK(t) /\ ActiveOK(t) /\ ChildOK(t)
  BY <1>1, Acting
<1>6. PICK place \in {"user", "vfork"} :
        /\ pc' = [pc EXCEPT ![p] = "user", ![t] = place]
        /\ \/ place = "vfork" /\ local' = local
           \/ place = "user" /\ local' = [local EXCEPT ![t] = NoLocal]
  BY <1>3 DEF Link
<1>7. /\ task \in [Task -> TaskStructs] /\ pc \in [Task -> PCs] /\ local \in [Task -> Locals]
      /\ place \in PCs /\ "user" \in PCs
  BY <1>1, <1>6 DEF Shape, PCs
<1>8. /\ pc' \in [Task -> PCs] /\ pc'[t] = place /\ pc'[p] = "user"
      /\ \A u \in Task \ {t, p} : pc'[u] = pc[u]
  BY <1>4, <1>6, <1>7
<1>9. /\ local' \in [Task -> Locals] /\ \A u \in Task \ {t} : local'[u] = local[u]
      /\ local'[t].mm = NULL
      /\ \/ place = "vfork" /\ local'[t].p = p
         \/ place = "user" /\ local'[t].p = NULL
  <2>1. local[t].mm = NULL
    BY <1>1, <1>5 DEF LocalOK
  <2>2. CASE place = "vfork" /\ local' = local
    BY <1>3, <1>7, <2>1, <2>2
  <2>3. CASE place = "user" /\ local' = [local EXCEPT ![t] = NoLocal]
    BY <1>7, <2>3, Records
  <2> QED
    BY <1>6, <2>2, <2>3
<1>10. /\ task' \in [Task -> TaskStructs] /\ \A u \in Task \ {p} : task'[u] = task[u]
       /\ task'[p].state = "RUNNING" /\ task'[p].mm = task[p].mm
       /\ task'[p].active_mm = task[p].active_mm
       /\ \A k \in Kinds : task'[p][k] = task[p][k]
  <2>1. PICK n : n = [task[p] EXCEPT !.state = "RUNNING"]
    OBVIOUS
  <2>2. task' = [task EXCEPT ![p] = n] /\ task[p] \in TaskStructs
    BY <1>3, <1>4, <1>7, <2>1 DEF Set, Link
  <2>3. n \in TaskStructs /\ n.state = "RUNNING" /\ n.active_mm = task[p].active_mm
        /\ n.mm = task[p].mm /\ \A k \in Kinds : n[k] = task[p][k]
    BY <2>1, <2>2 DEF TaskStructs, Kinds
  <2> QED
    BY <1>4, <1>7, <2>2, <2>3
<1>11. Shape'
  BY <1>1, <1>8, <1>9, <1>10 DEF Shape
<1>12. ~Makes(t)' /\ ~Makes(p)'
  BY <1>6, <1>8 DEF Makes, Forking
<1>13. StateOK(t)' /\ LocalOK(t)' /\ ActiveOK(t)' /\ ChildOK(t)'
  BY <1>1, <1>4, <1>5, <1>6, <1>8, <1>9, <1>10, <1>12
     DEF StateOK, LocalOK, ActiveOK, ChildOK, Ending
<1>14. task[p].active_mm = task[p].mm
  BY <1>1, <1>2, <1>3, <1>5 DEF ChildOK
<1>15. StateOK(p)' /\ LocalOK(p)' /\ ActiveOK(p)'
  BY <1>1, <1>4, <1>8, <1>9, <1>10, <1>12, <1>14 DEF StateOK, LocalOK, ActiveOK, Ending
<1>16. \A u \in Task \ {t, p} : Same(u)
  BY <1>8, <1>9, <1>10 DEF Same
<1>17. Struct' /\ Moves(t, p)
  BY <1>1, <1>2, <1>3, <1>4, <1>10, <1>11, <1>12, <1>13, <1>15, <1>16, StepKeeps DEF Living
<1>18. Linked(t, p)
  BY <1>1, <1>4, <1>6, <1>8, <1>10, <1>14, <1>17 DEF Linked
<1> QED
  BY <1>4, <1>17, <1>18

\* A fork that fails frees a task_struct that refers to nothing.
LEMMA BadForkKeeps ==
  ASSUME Struct, NEW t \in Task, BadFork(t)
  PROVE  Struct' /\ \E p \in Task : Undone(t, p)
<1>1. /\ Shape /\ curr = t /\ pc[t] = "bad_fork" /\ Goto(t, "user")
      /\ UNCHANGED << curr, mm, count, nr_threads, forks, build >>
      /\ processes' = processes - 1 /\ local' = [local EXCEPT ![t] = NoLocal]
  BY DEF Struct, BadFork, At
<1>2. Makes(t)
  BY <1>1 DEF Makes, Forking
<1>3. PICK p : p = local[t].p
  OBVIOUS
<1>4. /\ p \in Task /\ p # t /\ task[p].state = "EMBRYO" /\ p # swapper /\ t # swapper
      /\ pc[p] = "none" /\ ~Makes(p) /\ local[p].p = NULL /\ local[p].mm = NULL
      /\ task[t].state = "RUNNING" /\ \A u \in Task \ {t} : Makes(u) => local[u].p # p
  BY <1>1, <1>2, <1>3, Child
<1>5. StateOK(t) /\ ActiveOK(t)
  BY <1>1, Acting
<1>6. pc' \in [Task -> PCs] /\ pc'[t] = "user" /\ \A u \in Task \ {t} : pc'[u] = pc[u]
  <2>1. pc \in [Task -> PCs] /\ "user" \in PCs
    BY <1>1 DEF Shape, PCs
  <2> QED
    BY <1>1, <2>1, GotoKeeps
<1>7. /\ local' \in [Task -> Locals] /\ \A u \in Task \ {t} : local'[u] = local[u]
      /\ local'[t] = NoLocal
  BY <1>1, Records DEF Shape
<1>8. /\ task' \in [Task -> TaskStructs] /\ \A u \in Task \ {p} : task'[u] = task[u]
      /\ task'[p] = FreeTask
  BY <1>1, <1>3, <1>4, Records DEF BadFork, Shape
<1>9. Shape'
  BY <1>1, <1>6, <1>7, <1>8 DEF Shape
<1>10. ~Makes(t)' /\ ~Makes(p)'
  BY <1>4, <1>6 DEF Makes, Forking
<1>11. StateOK(t)' /\ LocalOK(t)' /\ ActiveOK(t)' /\ ChildOK(t)'
  BY <1>1, <1>4, <1>5, <1>6, <1>7, <1>8, <1>10, Records
     DEF StateOK, LocalOK, ActiveOK, ChildOK, Ending
<1>12. StateOK(p)' /\ LocalOK(p)' /\ ActiveOK(p)'
  BY <1>4, <1>6, <1>7, <1>8, Records DEF StateOK, LocalOK, ActiveOK, Ending, Living
<1>13. \A u \in Task \ {t, p} : Same(u)
  BY <1>6, <1>7, <1>8 DEF Same
<1>14. Struct' /\ Moves(t, p)
  BY <1>1, <1>2, <1>3, <1>4, <1>8, <1>9, <1>10, <1>11, <1>12, <1>13, Records, StepKeeps DEF Living
<1>15. Undone(t, p)
  BY <1>1, <1>4, <1>6, <1>8, <1>14 DEF Undone
<1> QED
  BY <1>4, <1>14, <1>15

\* do_fork makes a free task_struct a copy of its parent's.
LEMMA ForkKeeps ==
  ASSUME Struct, NEW t \in Task, Fork(t)
  PROVE  Struct' /\ \E p \in Task : Forked(t, p)
<1>1. /\ Shape /\ curr = t /\ pc[t] = "user" /\ t # swapper /\ forks < build.forks
      /\ Goto(t, "copy_files") /\ UNCHANGED << curr, mm, count, nr_threads, build >>
      /\ processes' = processes + 1 /\ forks' = forks + 1
  BY DEF Struct, Fork, At
<1>2. PICK p, flags : /\ p \in Unallocated /\ flags \in build.clone
                      /\ task' = [task EXCEPT ![p] = Copied(t, flags)]
                      /\ local' = [local EXCEPT ![t] = [NoLocal EXCEPT !.p = p, !.flags = flags]]
  <2>1. PICK p : p = CHOOSE q \in Unallocated : TRUE
    OBVIOUS
  <2>2. p \in Unallocated
    BY <2>1 DEF Fork
  <2> QED
    BY <2>1, <2>2, Zenon DEF Fork
<1>3. /\ p \in Task /\ task[p].state = "FREE" /\ flags \in SUBSET CloneFlags
      /\ build.forks \in Nat
  BY <1>1, <1>2, BuildAssumption DEF Unallocated, Shape
<1>4. /\ StateOK(t) /\ LocalOK(t) /\ ActiveOK(t) /\ task[t].state = "RUNNING"
      /\ task[t] \in TaskStructs
  BY <1>1, Acting
<1>5. /\ p # t /\ p # swapper /\ StateOK(p) /\ LocalOK(p)
      /\ \A u \in Task : Makes(u) => local[u].p # p
  BY <1>3, <1>4 DEF Struct, SwapperOK, ChildOK
<1>6. pc[p] = "none" /\ ~Makes(p) /\ local[p].p = NULL /\ local[p].mm = NULL
  BY <1>3, <1>5 DEF StateOK, LocalOK, Makes, Forking
<1>7. pc' \in [Task -> PCs] /\ pc'[t] = "copy_files" /\ \A u \in Task \ {t} : pc'[u] = pc[u]
  <2>1. pc \in [Task -> PCs] /\ "copy_files" \in PCs
    BY <1>1 DEF Shape, PCs
  <2> QED
    BY <1>1, <2>1, GotoKeeps
<1>8. /\ local' \in [Task -> Locals] /\ \A u \in Task \ {t} : local'[u] = local[u]
      /\ local'[t].p = p /\ local'[t].mm = NULL
  <2>1. PICK k : k = [NoLocal EXCEPT !.p = p, !.flags = flags]
    OBVIOUS
  <2>2. k \in Locals /\ k.p = p /\ k.mm = NULL
    BY <1>3, <2>1, Records, Zenon DEF Locals
  <2>3. local' = [local EXCEPT ![t] = k] /\ local \in [Task -> Locals]
    BY <1>1, <1>2, <2>1, Zenon DEF Shape
  <2> QED
    BY <2>2, <2>3
<1>9. /\ task' \in [Task -> TaskStructs] /\ \A u \in Task \ {p} : task'[u] = task[u]
      /\ task'[p].state = "EMBRYO" /\ task'[p].files = task[t].files
      /\ task'[p].fs = task[t].fs /\ task'[p].sig = task[t].sig
  <2>1. PICK n : n = Copied(t, flags)
    OBVIOUS
  <2>2. /\ n \in TaskStructs /\ n.state = "EMBRYO" /\ n.files = task[t].files
        /\ n.fs = task[t].fs /\ n.sig = task[t].sig
    BY <1>4, <2>1 DEF Copied, TaskStructs
  <2>3. task' = [task EXCEPT ![p] = n] /\ task \in [Task -> TaskStructs]
    BY <1>1, <1>2, <2>1 DEF Shape
  <2> QED
    BY <1>3, <2>2, <2>3
<1>10. Shape'
  <2>1. forks' \in 0 .. build'.forks /\ processes' \in Int
    BY <1>1, <1>3 DEF Shape
  <2> QED
    BY <1>1, <1>7, <1>8, <1>9, <2>1 DEF Shape
<1>11. ~Makes(t) /\ Makes(t)' /\ ~Makes(p)' /\ pc'[p] = "none"
       /\ local'[p].p = NULL /\ local'[p].mm = NULL
  <2>1. pc[t] = "user" /\ pc'[t] = "copy_files" /\ pc'[p] = "none" /\ local'[p] = local[p]
    BY <1>1, <1>3, <1>5, <1>6, <1>7, <1>8
  <2> QED
    BY <1>6, <2>1 DEF Makes, Forking
<1>12. StateOK(t)' /\ LocalOK(t)' /\ ActiveOK(t)'
  BY <1>1, <1>4, <1>5, <1>7, <1>8, <1>9, <1>11 DEF StateOK, LocalOK, ActiveOK, Ending
<1>13. ChildOK(t)'
  BY <1>3, <1>5, <1>7, <1>8, <1>9 DEF ChildOK
<1>14. StateOK(p)' /\ LocalOK(p)' /\ ActiveOK(p)'
  BY <1>9, <1>11 DEF StateOK, LocalOK, ActiveOK, Ending, Living
<1>15. \A u \in Task \ {t, p} : Same(u)
  BY <1>7, <1>8, <1>9 DEF Same
<1>16. Struct' /\ Moves(t, p)
  BY <1>1, <1>3, <1>4, <1>5, <1>6, <1>8, <1>9, <1>10, <1>11, <1>12, <1>13, <1>14, <1>15, StepKeeps
     DEF Living
<1>17. task[p] = FreeTask
  BY <1>3, <1>5 DEF StateOK
<1>18. Forked(t, p)
  BY <1>1, <1>3, <1>5, <1>7, <1>9, <1>16, <1>17 DEF Forked
<1> QED
  BY <1>3, <1>16, <1>18

\* release_task frees a task_struct that refers to nothing.
LEMMA ReleaseTaskKeeps ==
  ASSUME Struct, NEW t \in Task, NEW p \in Task, Release(t, p)
  PROVE  Struct' /\ Reaped(t, p)
<1>1. /\ Shape /\ curr = t /\ pc[t] = "user" /\ t # swapper /\ task[p].state = "ZOMBIE"
      /\ task' = [task EXCEPT ![p] = FreeTask] /\ pc' = [pc EXCEPT ![p] = "none"]
      /\ processes' = processes - 1 /\ nr_threads' = nr_threads - 1
      /\ UNCHANGED << curr, local, mm, count, forks, build >>
  BY DEF Struct, Release, At
<1>2. StateOK(t) /\ LocalOK(t) /\ ActiveOK(t) /\ task[t].state = "RUNNING"
  BY <1>1, Acting
<1>3. /\ p # t /\ p # swapper /\ StateOK(p) /\ LocalOK(p)
      /\ \A u \in Task : Makes(u) => local[u].p # p
  BY <1>1, <1>2 DEF Struct, SwapperOK, ChildOK
<1>4. pc[p] = "dead" /\ ~Makes(p) /\ local[p].p = NULL /\ local[p].mm = NULL
  BY <1>1, <1>3 DEF StateOK, LocalOK, Makes, Forking
<1>5. pc' \in [Task -> PCs] /\ pc'[p] = "none" /\ \A u \in Task \ {p} : pc'[u] = pc[u]
  BY <1>1 DEF Shape, PCs
<1>6. /\ task' \in [Task -> TaskStructs] /\ \A u \in Task \ {p} : task'[u] = task[u]
      /\ task'[p] = FreeTask
  BY <1>1, Records DEF Shape
<1>7. Shape'
  BY <1>1, <1>5, <1>6 DEF Shape
<1>8. ~Makes(t) /\ ~Makes(t)' /\ ~Makes(p)'
  BY <1>1, <1>3, <1>5 DEF Makes, Forking
<1>9. StateOK(t)' /\ LocalOK(t)' /\ ActiveOK(t)' /\ ChildOK(t)'
  BY <1>1, <1>2, <1>3, <1>5, <1>6, <1>8 DEF StateOK, LocalOK, ActiveOK, ChildOK, Ending
<1>10. StateOK(p)' /\ LocalOK(p)' /\ ActiveOK(p)'
  BY <1>1, <1>4, <1>5, <1>6, Records DEF StateOK, LocalOK, ActiveOK, Ending, Living
<1>11. \A u \in Task \ {t, p} : Same(u)
  BY <1>1, <1>5, <1>6 DEF Same
<1>12. Struct' /\ Moves(t, p)
  BY <1>1, <1>2, <1>3, <1>4, <1>6, <1>7, <1>8, <1>9, <1>10, <1>11, Records, StepKeeps DEF Living
<1>13. Reaped(t, p)
  BY <1>1, <1>3, <1>4, <1>5, <1>6, <1>12 DEF Reaped
<1> QED
  BY <1>12, <1>13

\* What context_switch does: the process switched to has an active address space and
\* the one switched from has its own or none.
LEMMA SwitchEffect ==
  ASSUME Struct, NEW prev \in Task, NEW next \in Task, Switch(prev, next)
  PROVE  /\ curr = prev /\ curr' = next /\ next # prev /\ task[next].state = "RUNNING"
         /\ task[prev].active_mm \in Obj /\ task[prev].state \in Living
         /\ UNCHANGED << pc, local, count, nr_threads, processes, forks, build >>
         /\ task' \in [Task -> TaskStructs] /\ mm' \in [Obj -> MMs]
         /\ \A u \in Task : /\ task'[u].state = task[u].state /\ task'[u].mm = task[u].mm
                            /\ task'[u].files = task[u].files /\ task'[u].fs = task[u].fs
                            /\ task'[u].sig = task[u].sig
                            /\ u \notin {prev, next} => task'[u] = task[u]
         /\ task'[prev].active_mm = IF task[prev].mm = NULL THEN NULL ELSE task[prev].active_mm
         /\ task'[next].active_mm = IF task[next].mm = NULL THEN task[prev].active_mm
                                                            ELSE task[next].active_mm
<1>1. /\ Shape /\ curr = prev /\ curr' = next /\ next # prev /\ task[next].state = "RUNNING"
      /\ UNCHANGED << pc, local, count, nr_threads, processes, forks, build >>
  BY DEF Struct, Switch, Runnable
<1>2. ActiveOK(prev) /\ task[prev].state \in Living
  BY <1>1, Acting
<1>3. task \in [Task -> TaskStructs] /\ mm \in [Obj -> MMs] /\ NULL \in Ref
  BY <1>1 DEF Shape, Ref
<1>4. PICK oldmm : oldmm = task[prev].active_mm
  OBVIOUS
<1>5. oldmm \in Obj /\ oldmm \in Ref
  <2>1. oldmm \in Obj \cup {NULL} /\ oldmm # NULL
    BY <1>1, <1>2, <1>3, <1>4 DEF ActiveOK, TaskStructs, Ref
  <2> QED
    BY <2>1 DEF Ref
<1> DEFINE T == IF task[next].mm = NULL THEN [task EXCEPT ![next].active_mm = oldmm] ELSE task
           M == IF task[next].mm = NULL THEN GrabMM(mm, oldmm) ELSE mm
<1>6. \/ task[prev].mm = NULL /\ task' = [T EXCEPT ![prev].active_mm = NULL] /\ mm' = mmdrop(M, oldmm)
      \/ task[prev].mm # NULL /\ task' = T /\ mm' = M
  BY <1>4, Zenon DEF Switch, context_switch
<1>7. ASSUME NEW S \in [Task -> TaskStructs], NEW q \in Task, NEW r \in Ref
      PROVE  LET S2 == [S EXCEPT ![q].active_mm = r]
             IN  /\ S2 \in [Task -> TaskStructs] /\ \A u \in Task \ {q} : S2[u] = S[u]
                 /\ S2[q].state = S[q].state /\ S2[q].mm = S[q].mm
                 /\ S2[q].files = S[q].files /\ S2[q].fs = S[q].fs /\ S2[q].sig = S[q].sig
                 /\ S2[q].active_mm = r
  <2>1. PICK n : n = [S[q] EXCEPT !.active_mm = r]
    OBVIOUS
  <2>2. PICK S2 : S2 = [S EXCEPT ![q] = n]
    OBVIOUS
  <2>3. S2 = [S EXCEPT ![q].active_mm = r] /\ S[q] \in TaskStructs
    BY <2>1, <2>2
  <2>4. /\ n \in TaskStructs /\ n.state = S[q].state /\ n.mm = S[q].mm
        /\ n.files = S[q].files /\ n.fs = S[q].fs /\ n.sig = S[q].sig /\ n.active_mm = r
    BY <2>1, <2>3 DEF TaskStructs
  <2>5. /\ S2 \in [Task -> TaskStructs] /\ \A u \in Task \ {q} : S2[u] = S[u] /\ S2[q] = n
    BY <2>2, <2>4
  <2> QED
    BY <2>2, <2>3, <2>4, <2>5
<1>8. /\ T \in [Task -> TaskStructs] /\ \A u \in Task \ {next} : T[u] = task[u]
      /\ T[next].state = task[next].state /\ T[next].mm = task[next].mm
      /\ T[next].files = task[next].files /\ T[next].fs = task[next].fs
      /\ T[next].sig = task[next].sig
      /\ T[next].active_mm = IF task[next].mm = NULL THEN oldmm ELSE task[next].active_mm
  <2>1. CASE task[next].mm = NULL
    BY <1>3, <1>5, <1>7, <2>1
  <2>2. CASE task[next].mm # NULL
    BY <1>3, <2>2
  <2> QED
    BY <2>1, <2>2
<1>9. M \in [Obj -> MMs]
  BY <1>3, <1>5, MMKeeps
<1> HIDE DEF T, M
<1>10. CASE task[prev].mm = NULL /\ task' = [T EXCEPT ![prev].active_mm = NULL] /\ mm' = mmdrop(M, oldmm)
  <2>1. mm' \in [Obj -> MMs]
    BY <1>5, <1>9, <1>10, MMKeeps
  <2>2. /\ task' \in [Task -> TaskStructs] /\ \A u \in Task \ {prev} : task'[u] = T[u]
        /\ task'[prev].state = T[prev].state /\ task'[prev].mm = T[prev].mm
        /\ task'[prev].files = T[prev].files /\ task'[prev].fs = T[prev].fs
        /\ task'[prev].sig = T[prev].sig /\ task'[prev].active_mm = NULL
    BY <1>3, <1>7, <1>8, <1>10
  <2>3. T[prev] = task[prev] /\ task'[next] = T[next]
    BY <1>1, <1>8, <2>2
  <2>4. \A u \in Task \ {prev, next} : task'[u] = task[u]
    BY <1>8, <2>2
  <2> QED
    BY <1>1, <1>2, <1>4, <1>5, <1>8, <1>10, <2>1, <2>2, <2>3, <2>4
<1>11. CASE task[prev].mm # NULL /\ task' = T /\ mm' = M
  BY <1>1, <1>2, <1>4, <1>5, <1>8, <1>9, <1>11
<1> QED
  BY <1>6, <1>10, <1>11

\* context_switch gives next the processor and an active address space.
LEMMA SwitchKeeps ==
  ASSUME Struct, NEW prev \in Task, NEW next \in Task, Switch(prev, next)
  PROVE  Struct'
<1>1. /\ curr = prev /\ curr' = next /\ next # prev /\ task[next].state = "RUNNING"
      /\ task[prev].active_mm \in Obj /\ task[prev].state \in Living
      /\ UNCHANGED << pc, local, count, nr_threads, processes, forks, build >>
      /\ task' \in [Task -> TaskStructs] /\ mm' \in [Obj -> MMs]
  BY SwitchEffect
<1>2. \A u \in Task : /\ task'[u].state = task[u].state /\ task'[u].mm = task[u].mm
                      /\ task'[u].files = task[u].files /\ task'[u].fs = task[u].fs
                      /\ task'[u].sig = task[u].sig
                      /\ u \notin {prev, next} => task'[u] = task[u]
  BY SwitchEffect
<1>3. /\ task'[prev].active_mm = IF task[prev].mm = NULL THEN NULL ELSE task[prev].active_mm
      /\ task'[next].active_mm = IF task[next].mm = NULL THEN task[prev].active_mm
                                                         ELSE task[next].active_mm
  BY SwitchEffect
<1>4. /\ \A u \in Task : StateOK(u) /\ LocalOK(u) /\ ChildOK(u) /\ ActiveOK(u)
      /\ Shape /\ Unshared /\ Made /\ SwapperOK
  BY DEF Struct
<1>5. \A u \in Task : Makes(u)' <=> Makes(u)
  BY <1>1 DEF Makes
<1>6. ASSUME NEW u \in Task
      PROVE  StateOK(u)' /\ LocalOK(u)' /\ ChildOK(u)' /\ ActiveOK(u)'
  <2>1. StateOK(u) /\ LocalOK(u) /\ ChildOK(u) /\ ActiveOK(u)
    BY <1>4
  <2>2. LocalOK(u)'
    BY <1>1, <1>5, <2>1 DEF LocalOK
  <2>3. StateOK(u)'
    <3>1. task[u].state = "FREE" => task'[u] = task[u]
      BY <1>1, <1>2 DEF Living
    <3> QED
      BY <1>1, <1>2, <2>1, <3>1 DEF StateOK
  <2>4. ChildOK(u)'
    <3>1. ASSUME Makes(u)
          PROVE  task'[local[u].p] = task[local[u].p] /\ local[u].p \in Task
      BY <1>1, <1>2, <2>1, <3>1 DEF ChildOK, Living
    <3> QED
      BY <1>1, <1>2, <1>5, <2>1, <3>1 DEF ChildOK
  <2>5. ActiveOK(u)'
    <3>1. NULL \notin Obj
      BY Constants
    <3>2. CASE u = prev
      BY <1>1, <1>2, <1>3, <2>1, <3>2 DEF ActiveOK
    <3>3. CASE u = next
      BY <1>1, <1>2, <1>3, <2>1, <3>1, <3>3 DEF ActiveOK, Living
    <3>4. CASE u \notin {prev, next}
      BY <1>1, <1>2, <2>1, <3>4 DEF ActiveOK
    <3> QED
      BY <3>2, <3>3, <3>4
  <2> QED
    BY <2>2, <2>3, <2>4, <2>5
<1>7. Shape'
  BY <1>1, <1>4 DEF Shape
<1>8. Unshared' /\ Made'
  BY <1>1, <1>2, <1>4, <1>5 DEF Unshared, Made
<1>9. SwapperOK'
  BY <1>1, <1>2, <1>4, Constants DEF SwapperOK
<1>10. task'[curr'].state \in Living
  BY <1>1, <1>2 DEF Living
<1> QED
  BY <1>6, <1>7, <1>8, <1>9, <1>10 DEF Struct

\* So does every step.
LEMMA NextKeeps ==
  ASSUME Struct, [Next]_vars
  PROVE  Struct'
<1>1. CASE UNCHANGED vars
  BY <1>1 DEF vars, Struct, Shape, StateOK, LocalOK, ChildOK, ActiveOK, Unshared, Made, SwapperOK,
              Makes
<1>2. CASE Next
  <2>1. PICK t \in Task : Step(t) \/ Call(t)
    BY <1>2 DEF Next
  <2>2. CASE Step(t)
    BY <2>2, CopyStructKeeps, CopyMMKeeps, DupMmapKeeps, DupVmasKeeps, CopyThreadKeeps, LinkKeeps,
       WaitForVforkKeeps, MMPutKeeps, BadForkMMKeeps, ExitChildKeeps, BadForkKeeps, ExitOwnKeeps,
       ExitNotifyKeeps, AdoptKeeps DEF Step
  <2>3. CASE Call(t)
    BY <2>3, ForkKeeps, ExitMMKeeps, ExecKeeps, StartLazyKeeps, EndLazyKeeps, ReleaseTaskKeeps,
       SwitchKeeps DEF Call
  <2> QED
    BY <2>1, <2>2, <2>3
<1> QED
  BY <1>1, <1>2

\* What there is at first.
AtFirst(own) ==
  /\ own \in Obj /\ own # init_obj /\ own # NULL /\ init_obj # NULL
  /\ \A t \in {swapper, child_reaper} :
       /\ task[t] \in TaskStructs /\ task[t].state = "RUNNING"
       /\ task[t].files = init_obj /\ task[t].fs = init_obj
  /\ task[swapper].mm = NULL /\ task[swapper].active_mm = NULL /\ task[swapper].sig = init_obj
  /\ task[child_reaper].mm = own /\ task[child_reaper].active_mm = own
  /\ task[child_reaper].sig = own
  /\ \A t \in Task \ {swapper, child_reaper} : task[t] = FreeTask
  /\ mm[init_obj] = [users |-> 2, count |-> 1, listed |-> FALSE]
  /\ mm[own] = [users |-> 1, count |-> 1, listed |-> TRUE]
  /\ \A m \in Obj \ {init_obj, own} : mm[m] = FreeMM
  /\ \A k \in {"files", "fs"}, o \in Obj : count[k][o] = IF o = init_obj THEN 2 ELSE 0
  /\ \A o \in Obj : count["sig"][o] = IF o \in {init_obj, own} THEN 1 ELSE 0
  /\ task \in [Task -> TaskStructs] /\ mm \in [Obj -> MMs] /\ count \in [Kinds -> [Obj -> Int]]

\* Init's clauses, with a name for what init has of its own.
LEMMA InitHas ==
  ASSUME Init
  PROVE  \E own : AtFirst(own)
<1> DEFINE own == CHOOSE o \in Obj : o # init_obj
<1> HIDE DEF own
<1>2. own \in Obj /\ own # init_obj /\ own # NULL /\ init_obj # NULL /\ init_obj \in Obj
  BY Constants DEF own
<1>3. own \in Ref /\ init_obj \in Ref /\ NULL \in Ref
  BY <1>2 DEF Ref
<1>4. /\ swapper \in Task /\ child_reaper \in Task /\ swapper # child_reaper /\ NULL \notin Task
  BY Constants
<1>5. PICK S, C : /\ S = [FreeTask EXCEPT !.state = "RUNNING", !.files = init_obj,
                                          !.fs = init_obj, !.sig = init_obj]
                  /\ C = [FreeTask EXCEPT !.state = "RUNNING", !.mm = own, !.active_mm = own,
                                          !.files = init_obj, !.fs = init_obj, !.sig = own]
  OBVIOUS
<1>6. /\ S \in TaskStructs /\ S.state = "RUNNING" /\ S.mm = NULL /\ S.active_mm = NULL
      /\ S.files = init_obj /\ S.fs = init_obj /\ S.sig = init_obj
      /\ C \in TaskStructs /\ C.state = "RUNNING" /\ C.mm = own /\ C.active_mm = own
      /\ C.files = init_obj /\ C.fs = init_obj /\ C.sig = own
  BY <1>3, <1>5 DEF FreeTask, TaskStructs
<1>7. task = [t \in Task |-> IF t = swapper THEN S ELSE IF t = child_reaper THEN C ELSE FreeTask]
  <2>1. task = [t \in Task |->
           CASE t = swapper ->
                  [FreeTask EXCEPT !.state = "RUNNING", !.files = init_obj,
                                   !.fs = init_obj, !.sig = init_obj]
             [] t = child_reaper ->
                  [FreeTask EXCEPT !.state = "RUNNING", !.mm = own, !.active_mm = own,
                                   !.files = init_obj, !.fs = init_obj, !.sig = own]
             [] OTHER -> FreeTask]
    BY DEF Init, own
  <2> QED
    BY <1>4, <1>5, <2>1
<1>8. /\ task \in [Task -> TaskStructs] /\ task[swapper] = S /\ task[child_reaper] = C
      /\ \A t \in Task \ {swapper, child_reaper} : task[t] = FreeTask
  BY <1>4, <1>6, <1>7, Records
<1>9. /\ mm \in [Obj -> MMs] /\ mm[init_obj] = [users |-> 2, count |-> 1, listed |-> FALSE]
      /\ mm[own] = [users |-> 1, count |-> 1, listed |-> TRUE]
      /\ \A m \in Obj \ {init_obj, own} : mm[m] = FreeMM
  <2>1. /\ [users |-> 2, count |-> 1, listed |-> FALSE] \in MMs
        /\ [users |-> 1, count |-> 1, listed |-> TRUE] \in MMs /\ FreeMM \in MMs
    BY DEF MMs, FreeMM
  <2>2. mm = [m \in Obj |->
           CASE m = init_obj -> [users |-> 2, count |-> 1, listed |-> FALSE]
             [] m = own      -> [users |-> 1, count |-> 1, listed |-> TRUE]
             [] OTHER        -> FreeMM]
    BY DEF Init, own
  <2> QED
    BY <1>2, <2>1, <2>2
<1>10. count = [k \in Kinds |-> [o \in Obj |->
                  IF k = "sig" THEN (IF o \in {init_obj, own} THEN 1 ELSE 0)
                               ELSE (IF o = init_obj THEN 2 ELSE 0)]]
  BY Zenon DEF Init, own
<1>11. count \in [Kinds -> [Obj -> Int]]
  BY <1>10
<1>12. \A k \in {"files", "fs"}, o \in Obj : count[k][o] = IF o = init_obj THEN 2 ELSE 0
  BY <1>10 DEF Kinds
<1>13. \A o \in Obj : count["sig"][o] = IF o \in {init_obj, own} THEN 1 ELSE 0
  BY <1>10 DEF Kinds
<1>14. AtFirst(own)
  BY <1>2, <1>6, <1>8, <1>9, <1>11, <1>12, <1>13 DEF AtFirst
<1> QED
  BY <1>14

\* Where a process is at first.
LEMMA InitStruct ==
  ASSUME Init
  PROVE  Struct
<1>1. PICK own : AtFirst(own)
  BY InitHas
<1>2. /\ own # NULL /\ init_obj # NULL /\ "none" \in PCs /\ "user" \in PCs
  BY <1>1 DEF AtFirst, PCs
<1>4. /\ swapper \in Task /\ child_reaper \in Task /\ swapper # child_reaper /\ NULL \notin Task
  BY Constants
<1>8. /\ task \in [Task -> TaskStructs] /\ mm \in [Obj -> MMs] /\ count \in [Kinds -> [Obj -> Int]]
      /\ \A t \in {swapper, child_reaper} : task[t].state = "RUNNING"
      /\ \A t \in Task \ {swapper, child_reaper} : task[t] = FreeTask
      /\ task[swapper].mm = NULL /\ task[swapper].active_mm = NULL
      /\ task[swapper].files = init_obj /\ task[swapper].fs = init_obj
      /\ task[child_reaper].mm = own /\ task[child_reaper].active_mm = own
  BY <1>1 DEF AtFirst
<1>9. /\ pc \in [Task -> PCs] /\ pc[swapper] = "user" /\ pc[child_reaper] = "user"
      /\ \A t \in Task \ {swapper, child_reaper} : pc[t] = "none"
  BY <1>2, <1>4 DEF Init
<1>10. local \in [Task -> Locals] /\ \A t \in Task : local[t] = NoLocal
  BY Records DEF Init
<1>13. /\ curr = child_reaper /\ nr_threads = 1 /\ processes = 1 /\ forks = 0
       /\ build \in Builds /\ build.forks \in Nat
  BY BuildAssumption DEF Init
<1>14. Shape
  BY <1>4, <1>8, <1>9, <1>10, <1>13 DEF Shape
<1>15. \A t \in Task : ~Makes(t) /\ task[t].state # "EMBRYO"
  BY <1>8, <1>9, Records DEF Makes, Forking
<1>16. ASSUME NEW t \in Task
       PROVE  StateOK(t) /\ LocalOK(t) /\ ChildOK(t) /\ ActiveOK(t)
  <2>1. LocalOK(t) /\ ChildOK(t)
    BY <1>8, <1>9, <1>10, <1>15, Records DEF LocalOK, ChildOK
  <2>2. CASE t \in {swapper, child_reaper}
    BY <1>2, <1>4, <1>8, <1>9, <1>13, <2>1, <2>2 DEF StateOK, ActiveOK, Ending
  <2>3. CASE t \notin {swapper, child_reaper}
    BY <1>8, <1>9, <2>1, <2>3, Records DEF StateOK, ActiveOK, Ending, Living
  <2> QED
    BY <2>2, <2>3
<1>17. Unshared /\ Made
  BY <1>15 DEF Unshared, Made
<1>18. SwapperOK /\ task[curr].state \in Living
  BY <1>4, <1>8, <1>9, <1>13 DEF SwapperOK, Living
<1> QED
  BY <1>14, <1>16, <1>17, <1>18 DEF Struct

\* Who shares what is consistent in every state.
THEOREM StructHolds == Spec => []Struct
<1> QED
  BY InitStruct, NextKeeps, PTL DEF Spec

\* The running process has an active address space, its own if it has one, and a
\* process that waits keeps none it has not got itself: context_switch and exit_mm.
THEOREM ActiveAlwaysOwned == Spec => []ActiveMM
<1>1. Struct => ActiveMM
  BY DEF Struct, ActiveOK, ActiveMM, Living
<1> QED
  BY <1>1, StructHolds, PTL

-----------------------------------------------------------------------------
(* The files, the fs and the signal handlers are counted *)

\* Whether what q has counts for it.
Counted(q, k) == task[q].state = "EMBRYO" => pc[Maker(q)] \notin Uncounted[k]

\* The conjuncts of RefsCounted.
RefCount(k, o) == count[k][o] = Cardinality(Holders(k, o))
Threads   == {q \in Task \ {swapper} : task[q].state \in {"RUNNING", "ZOMBIE"}}
Existing  == {q \in Task \ {swapper} : task[q].state # "FREE"}
Processes == nr_threads = Cardinality(Threads) /\ processes = Cardinality(Existing)

\* There is one maker to choose.
LEMMA TheMaker ==
  ASSUME NEW P, NEW L, NEW q, NEW t \in Task, L[t].p = q, P[t] # "vfork",
         \A u \in Task : L[u].p = q /\ P[u] # "vfork" => u = t
  PROVE  (CHOOSE u \in Task : L[u].p = q /\ P[u] # "vfork") = t
<1>1. PICK m : m = CHOOSE u \in Task : L[u].p = q /\ P[u] # "vfork"
  OBVIOUS
<1>2. m \in Task /\ L[m].p = q /\ P[m] # "vfork"
  BY <1>1
<1> QED
  BY <1>1, <1>2

\* The maker of a child, before a step and after it.
LEMMA MakerIs ==
  ASSUME Struct, NEW q \in Task, NEW t \in Task, Makes(t), local[t].p = q
  PROVE  Maker(q) = t
<1>1. pc[t] # "vfork"
  BY DEF Makes, Forking
<1>2. \A u \in Task : local[u].p = q /\ pc[u] # "vfork" => Makes(u)
  BY Constants DEF Struct, LocalOK
<1>3. \A u \in Task : local[u].p = q /\ pc[u] # "vfork" => u = t
  BY <1>2 DEF Struct, Unshared
<1>4. (CHOOSE u \in Task : local[u].p = q /\ pc[u] # "vfork") = t
  BY <1>1, <1>3, TheMaker, Zenon
<1> QED
  BY <1>4 DEF Maker

\* The same after a step.
LEMMA MakerWillBe ==
  ASSUME Struct', NEW q \in Task, NEW t \in Task, Makes(t)', local'[t].p = q
  PROVE  Maker(q)' = t
<1>1. pc'[t] # "vfork"
  BY DEF Makes, Forking
<1>2. \A u \in Task : local'[u].p = q /\ pc'[u] # "vfork" => Makes(u)'
  BY Constants DEF Struct, LocalOK
<1>3. \A u \in Task : local'[u].p = q /\ pc'[u] # "vfork" => u = t
  BY <1>2 DEF Struct, Unshared
<1>4. (CHOOSE u \in Task : local'[u].p = q /\ pc'[u] # "vfork") = t
  BY <1>1, <1>3, TheMaker, Zenon
<1> QED
  BY <1>4 DEF Maker

\* A child that a step is not about keeps its maker, and the maker its place.
LEMMA OtherMaker ==
  ASSUME Struct, Struct', NEW t, NEW x, Moves(t, x), NEW q \in Task \ {t, x},
         task[q].state = "EMBRYO"
  PROVE  Maker(q)' = Maker(q) /\ pc'[Maker(q)] = pc[Maker(q)]
<1>1. PICK m \in Task : Makes(m) /\ local[m].p = q
  BY DEF Struct, Made
<1>2. m \notin {t, x}
  BY <1>1 DEF Moves
<1>3. Makes(m)' /\ local'[m].p = q /\ pc'[m] = pc[m]
  BY <1>1, <1>2 DEF Moves, Same, Makes
<1>4. Maker(q) = m
  BY <1>1, MakerIs
<1>5. Maker(q)' = m
  BY <1>1, <1>3, MakerWillBe
<1> QED
  BY <1>3, <1>4, <1>5

\* The makers of the processes that a step is about.
LEMMA OwnMaker ==
  ASSUME Struct, Struct', NEW t, NEW x, Moves(t, x)
  PROVE  /\ task[t].state # "EMBRYO" /\ task'[t].state # "EMBRYO"
         /\ task[x].state = "EMBRYO" => Maker(x) = t
         /\ task'[x].state = "EMBRYO" => Maker(x)' = t
<1>1. t \in Task /\ x \in Task /\ task[t].state \in Living /\ task'[t].state \in Living
  BY DEF Moves
<1>2. ASSUME task[x].state = "EMBRYO"
      PROVE  Maker(x) = t
  BY <1>1, <1>2, MakerIs DEF Moves
<1>3. ASSUME task'[x].state = "EMBRYO"
      PROVE  Maker(x)' = t
  BY <1>1, <1>3, MakerWillBe DEF Moves
<1> QED
  BY <1>1, <1>2, <1>3 DEF Living

\* Who holds a structure before a step and after it.
LEMMA HoldersMove ==
  ASSUME Struct, Struct', NEW t, NEW x, Moves(t, x), NEW k \in Kinds, NEW o \in Obj
  PROVE  /\ Holders(k, o) \subseteq Task /\ Holders(k, o)' \subseteq Task
         /\ \A q \in Task \ {t, x} : q \in Holders(k, o)' <=> q \in Holders(k, o)
         /\ t \in Holders(k, o) <=> task[t][k] = o
         /\ t \in Holders(k, o)' <=> task'[t][k] = o
         /\ x \in Holders(k, o) <=>
              task[x][k] = o /\ (task[x].state = "EMBRYO" => pc[t] \notin Uncounted[k])
         /\ x \in Holders(k, o)' <=>
              task'[x][k] = o /\ (task'[x].state = "EMBRYO" => pc'[t] \notin Uncounted[k])
<1>1. /\ t \in Task /\ x \in Task /\ task[t].state # "EMBRYO" /\ task'[t].state # "EMBRYO"
      /\ task[x].state = "EMBRYO" => Maker(x) = t
      /\ task'[x].state = "EMBRYO" => Maker(x)' = t
  BY OwnMaker DEF Moves
<1>2. Holders(k, o)' = {q \in Task : /\ task'[q][k] = o
                                     /\ task'[q].state = "EMBRYO" => pc'[Maker(q)'] \notin Uncounted[k]}
  BY DEF Holders, Uncounted
<1>3. ASSUME NEW q \in Task \ {t, x}
      PROVE  q \in Holders(k, o)' <=> q \in Holders(k, o)
  <2>1. task'[q] = task[q]
    BY DEF Moves, Same
  <2>2. CASE task[q].state = "EMBRYO"
    <3>1. pc'[Maker(q)'] = pc[Maker(q)]
      BY <2>2, OtherMaker
    <3> QED
      BY <1>2, <2>1, <3>1 DEF Holders
  <2>3. CASE task[q].state # "EMBRYO"
    BY <1>2, <2>1, <2>3 DEF Holders
  <2> QED
    BY <2>2, <2>3
<1>4. t \in Holders(k, o) <=> task[t][k] = o
  BY <1>1 DEF Holders
<1>5. t \in Holders(k, o)' <=> task'[t][k] = o
  BY <1>1, <1>2
<1>6. x \in Holders(k, o) <=>
        task[x][k] = o /\ (task[x].state = "EMBRYO" => pc[t] \notin Uncounted[k])
  BY <1>1 DEF Holders
<1>7. x \in Holders(k, o)' <=>
        task'[x][k] = o /\ (task'[x].state = "EMBRYO" => pc'[t] \notin Uncounted[k])
  BY <1>1, <1>2
<1>8. Holders(k, o) \subseteq Task /\ Holders(k, o)' \subseteq Task
  BY DEF Holders
<1> QED
  BY <1>3, <1>4, <1>5, <1>6, <1>7, <1>8

\* Counting one more, or one less.
LEMMA OneMore ==
  ASSUME NEW S, NEW R, NEW q, S \subseteq Task, R \subseteq Task, q \in Task, q \notin S, q \in R,
         \A u \in Task \ {q} : u \in R <=> u \in S
  PROVE  Cardinality(R) = Cardinality(S) + 1 /\ Cardinality(S) \in Nat /\ Cardinality(R) \in Nat
<1>1. IsFiniteSet(S) /\ R = S \cup {q}
  BY Constants, FS_Subset
<1>2. IsFiniteSet(R) /\ Cardinality(R) = Cardinality(S) + 1
  BY <1>1, FS_AddElement
<1> QED
  BY <1>1, <1>2, FS_CardinalityType

\* What is counted is a number.
LEMMA Countable ==
  ASSUME NEW S, S \subseteq Task
  PROVE  IsFiniteSet(S) /\ Cardinality(S) \in Nat /\ (Cardinality(S) = 0 <=> S = {})
BY Constants, FS_Subset, FS_CardinalityType, FS_EmptySet

\* The counts, one by one.
RefsOK == (\A k \in Kinds, o \in Obj : RefCount(k, o)) /\ Processes

\* They are the conjuncts of RefsCounted.
LEMMA RefsSplit == RefsCounted <=> RefsOK
BY DEF RefsCounted, RefsOK, RefCount, Processes, Threads, Existing

\* Where everything is counted.
LEMMA Settled ==
  ASSUME NEW place, place \notin Early, NEW k \in Kinds
  PROVE  place \notin Uncounted[k]
BY DEF Early, Uncounted, Kinds

\* How the processes there are change.
LEMMA ProcessesKeep ==
  ASSUME Struct, Struct', Processes, NEW t, NEW x, Moves(t, x),
         UNCHANGED << nr_threads, processes >>,
         \A u \in {t, x} : /\ task'[u].state \in Living <=> task[u].state \in Living
                           /\ task'[u].state = "FREE" <=> task[u].state = "FREE"
  PROVE  Processes'
<1>1. \A u \in Task : /\ task'[u].state \in Living <=> task[u].state \in Living
                      /\ task'[u].state = "FREE" <=> task[u].state = "FREE"
  BY DEF Moves, Same
<1>2. Threads' = Threads /\ Existing' = Existing
  BY <1>1 DEF Threads, Existing, Living
<1> QED
  BY <1>2 DEF Processes

\* A step that does not touch the references.
LEMMA RefsSameKeeps ==
  ASSUME Struct, Struct', RefsOK, NEW t, NEW x, Moves(t, x), RefsSame(t)
  PROVE  RefsOK'
<1>1. t \in Task /\ x \in Task
  BY DEF Moves
<1>2. ASSUME NEW k \in Kinds, NEW o \in Obj
      PROVE  RefCount(k, o)'
  <2>1. pc[t] \notin Uncounted[k] /\ pc'[t] \notin Uncounted[k]
    BY Settled DEF RefsSame
  <2>2. \A u \in {t, x} : task'[u][k] = task[u][k]
    BY <1>1 DEF RefsSame, Kinds
  <2>3. \A q \in Task : q \in Holders(k, o)' <=> q \in Holders(k, o)
    BY <1>1, <2>1, <2>2, HoldersMove
  <2>4. Holders(k, o)' = Holders(k, o)
    BY <2>3, HoldersMove
  <2> QED
    BY <2>4 DEF RefsOK, RefCount, RefsSame
<1>3. \A u \in {t, x} : /\ task'[u].state \in Living <=> task[u].state \in Living
                        /\ task'[u].state = "FREE" <=> task[u].state = "FREE"
  BY <1>1 DEF RefsSame, Living, Struct, Shape, TaskStructs
<1>4. Processes'
  BY <1>3, ProcessesKeep DEF RefsSame, RefsOK
<1> QED
  BY <1>2, <1>4 DEF RefsOK

\* Whether a step leaves what q has of kind k counted as it was.
Steady(t, q, k) ==
  /\ task'[q][k] = task[q][k]
  /\ \/ task[q].state # "EMBRYO"
     \/ task[q][k] = NULL
     \/ pc[t] \in Uncounted[k] <=> pc'[t] \in Uncounted[k]

\* The holders of the other structures are who they were.
LEMMA SteadyKeeps ==
  ASSUME Struct, Struct', RefsOK, NEW t, NEW x, Moves(t, x), NEW k \in Kinds, NEW o \in Obj,
         count'[k][o] = count[k][o], task'[t][k] = task[t][k], Steady(t, x, k),
         task'[x].state = "EMBRYO" <=> task[x].state = "EMBRYO"
  PROVE  RefCount(k, o)'
<1>1. t \in Task /\ x \in Task /\ o # NULL
  BY Constants DEF Moves
<1>2. x \in Holders(k, o)' <=> x \in Holders(k, o)
  BY <1>1, HoldersMove DEF Steady
<1>3. t \in Holders(k, o)' <=> t \in Holders(k, o)
  BY HoldersMove
<1>4. \A q \in Task : q \in Holders(k, o)' <=> q \in Holders(k, o)
  BY <1>2, <1>3, HoldersMove
<1>5. Holders(k, o)' = Holders(k, o)
  BY <1>4, HoldersMove
<1> QED
  BY <1>5 DEF RefsOK, RefCount

\* __exit_files, __exit_fs and exit_sighand.
LEMMA ExitStructRefs ==
  ASSUME Struct, Struct', RefsOK, NEW t, NEW q, Moves(t, q), NEW kind \in Kinds, NEW here,
         NEW next \in PCs, ExitStruct(t, q, kind, here, next),
         task[q].state = "EMBRYO" => here \notin Uncounted[kind],
         \A k \in Kinds \ {kind} : \/ task[q].state # "EMBRYO"
                                   \/ task[q][k] = NULL
                                   \/ here \in Uncounted[k] <=> next \in Uncounted[k]
  PROVE  RefsOK'
<1>1. t \in Task /\ q \in Task
  BY DEF Moves
<1>2. /\ pc[t] = here /\ pc'[t] = next /\ \A u \in Task \ {q} : task'[u] = task[u]
      /\ task'[q].state = task[q].state
      /\ task'[q][kind] = NULL /\ \A j \in Kinds \ {kind} : task'[q][j] = task[q][j]
  BY <1>1, ExitStructEffect
<1>3. Processes'
  BY <1>1, <1>2, ProcessesKeep DEF RefsOK, ExitStruct
<1>4. PICK old : old = task[q][kind]
  OBVIOUS
<1>5. old \in Obj \cup {NULL} /\ NULL \notin Obj /\ count \in [Kinds -> [Obj -> Int]]
  BY <1>1, <1>4, Constants DEF Struct, Shape, TaskStructs, Kinds, Ref
<1>6. /\ old = NULL => count' = count
      /\ old # NULL => count' = [count EXCEPT ![kind][old] = count[kind][old] - 1]
  BY <1>4, <1>5 DEF ExitStruct
<1>7. ASSUME NEW k \in Kinds, NEW o \in Obj
      PROVE  RefCount(k, o)'
  <2>1. CASE k # kind
    <3>1. count'[k][o] = count[k][o]
      BY <1>5, <1>6, <2>1
    <3>2. Steady(t, q, k)
      BY <1>2, <2>1 DEF Steady
    <3>3. task'[t][k] = task[t][k]
      BY <1>1, <1>2, <2>1
    <3> QED
      BY <1>2, <3>1, <3>2, <3>3, SteadyKeeps
  <2>2. CASE k = kind /\ o # old
    <3>1. count'[k][o] = count[k][o]
      BY <1>5, <1>6, <2>2
    <3>2. t # q => task'[t][k] = task[t][k]
      BY <1>1, <1>2
    <3>3. q \notin Holders(k, o) /\ q \notin Holders(k, o)'
      BY <1>2, <1>4, <1>5, <2>2, HoldersMove
    <3>4. \A u \in Task : u \in Holders(k, o)' <=> u \in Holders(k, o)
      BY <3>2, <3>3, HoldersMove
    <3>5. Holders(k, o)' = Holders(k, o)
      BY <3>4, HoldersMove
    <3> QED
      BY <3>1, <3>5 DEF RefsOK, RefCount
  <2>3. CASE k = kind /\ o = old
    <3>1. count'[k][o] = count[k][o] - 1
      BY <1>5, <1>6, <2>3
    <3>2. t # q => task'[t][k] = task[t][k]
      BY <1>1, <1>2
    <3>3. q \in Holders(k, o) /\ q \notin Holders(k, o)'
      BY <1>2, <1>4, <1>5, <2>3, HoldersMove
    <3>4. \A u \in Task \ {q} : u \in Holders(k, o) <=> u \in Holders(k, o)'
      BY <3>2, HoldersMove
    <3>5. PICK S, R : S = Holders(k, o) /\ R = Holders(k, o)'
      OBVIOUS
    <3>6. S \subseteq Task /\ R \subseteq Task
      BY <3>5, HoldersMove
    <3>7. Cardinality(S) = Cardinality(R) + 1 /\ Cardinality(R) \in Nat
      BY <1>1, <3>3, <3>4, <3>5, <3>6, OneMore
    <3>8. count[k][o] = Cardinality(S)
      BY <3>5 DEF RefsOK, RefCount
    <3>9. count'[k][o] = Cardinality(R)
      BY <3>1, <3>7, <3>8
    <3> QED
      BY <3>5, <3>9 DEF RefCount
  <2> QED
    BY <2>1, <2>2, <2>3
<1> QED
  BY <1>3, <1>7 DEF RefsOK

\* A process that exits or becomes a daemon gives up what was counted for it.
LEMMA ExitOwnRefs ==
  ASSUME Struct, Struct', RefsOK, NEW t \in Task, Moves(t, Subject(t)),
         \/ ExitFiles(t) \/ ExitFs(t) \/ ExitSighand(t) \/ DaemonizeFs(t) \/ DaemonizeFiles(t)
  PROVE  RefsOK'
<1>1. /\ "files" \in Kinds /\ "fs" \in Kinds /\ "sig" \in Kinds
      /\ "exit_fs" \in PCs /\ "exit_sighand" \in PCs /\ "exit_notify" \in PCs
      /\ "daemonize_init_fs" \in PCs /\ "daemonize_init_files" \in PCs
  BY DEF Kinds, PCs
<1>2. Subject(t) = t
  <2>1. pc[t] \in {"exit_files", "exit_fs", "exit_sighand", "daemonize_fs", "daemonize_files"}
    BY DEF ExitFiles, ExitFs, ExitSighand, DaemonizeFs, DaemonizeFiles, ExitStruct, At
  <2> QED
    BY <2>1 DEF Subject, Makes, Forking
<1>3. Moves(t, t) /\ task[t].state # "EMBRYO"
  BY <1>2 DEF Moves, Living
<1>4. CASE ExitFiles(t)
  BY <1>1, <1>3, <1>4, ExitStructRefs DEF ExitFiles
<1>5. CASE ExitFs(t)
  BY <1>1, <1>3, <1>5, ExitStructRefs DEF ExitFs
<1>6. CASE ExitSighand(t)
  BY <1>1, <1>3, <1>6, ExitStructRefs DEF ExitSighand
<1>7. CASE DaemonizeFs(t)
  BY <1>1, <1>3, <1>7, ExitStructRefs DEF DaemonizeFs
<1>8. CASE DaemonizeFiles(t)
  BY <1>1, <1>3, <1>8, ExitStructRefs DEF DaemonizeFiles
<1> QED
  BY <1>4, <1>5, <1>6, <1>7, <1>8

\* A fork that fails takes back what was counted for its child.
LEMMA ExitChildRefs ==
  ASSUME Struct, Struct', RefsOK, NEW t \in Task, Moves(t, Subject(t)),
         BadForkSighand(t) \/ BadForkFs(t) \/ BadForkFiles(t)
  PROVE  RefsOK'
<1>1. /\ "files" \in Kinds /\ "fs" \in Kinds /\ "sig" \in Kinds
      /\ "bad_fork_fs" \in PCs /\ "bad_fork_files" \in PCs /\ "bad_fork" \in PCs
  BY DEF Kinds, PCs
<1>2. curr = t /\ pc[t] \in {"bad_fork_sighand", "bad_fork_fs", "bad_fork_files"}
  BY DEF BadForkSighand, BadForkFs, BadForkFiles, ExitStruct, At
<1>3. PICK q : q = local[t].p
  OBVIOUS
<1>4. Makes(t) /\ Subject(t) = q
  BY <1>2, <1>3 DEF Subject, Makes, Forking
<1>5. ChildOK(t) /\ Moves(t, q)
  BY <1>2, <1>4, Acting
<1>6. CASE BadForkSighand(t)
  <2>1. ExitStruct(t, q, "sig", "bad_fork_sighand", "bad_fork_fs")
    BY <1>3, <1>6 DEF BadForkSighand
  <2>2. /\ "bad_fork_sighand" \notin Uncounted["sig"]
        /\ \A k \in Kinds \ {"sig"} :
             "bad_fork_sighand" \notin Uncounted[k] /\ "bad_fork_fs" \notin Uncounted[k]
    BY DEF Uncounted, Kinds
  <2> QED
    BY <1>1, <1>5, <2>1, <2>2, ExitStructRefs
<1>7. CASE BadForkFs(t)
  <2>1. ExitStruct(t, q, "fs", "bad_fork_fs", "bad_fork_files") /\ pc[t] = "bad_fork_fs"
    BY <1>3, <1>7 DEF BadForkFs, ExitStruct, At
  <2>2. /\ "bad_fork_fs" \notin Uncounted["fs"] /\ "bad_fork_fs" \notin Uncounted["files"]
        /\ "bad_fork_files" \notin Uncounted["files"]
    BY DEF Uncounted
  <2>3. task[q]["sig"] = NULL
    BY <1>3, <1>4, <1>5, <2>1 DEF ChildOK
  <2>4. \A k \in Kinds \ {"fs"} : k = "sig" \/ k = "files"
    BY DEF Kinds
  <2> QED
    BY <1>1, <1>5, <2>1, <2>2, <2>3, <2>4, ExitStructRefs
<1>8. CASE BadForkFiles(t)
  <2>1. ExitStruct(t, q, "files", "bad_fork_files", "bad_fork") /\ pc[t] = "bad_fork_files"
    BY <1>3, <1>8 DEF BadForkFiles, ExitStruct, At
  <2>2. /\ "bad_fork_files" \notin Uncounted["files"] /\ "bad_fork_files" \in Uncounted["sig"]
        /\ "bad_fork" \in Uncounted["sig"]
    BY DEF Uncounted
  <2>3. task[q]["fs"] = NULL
    BY <1>3, <1>4, <1>5, <2>1 DEF ChildOK
  <2>4. \A k \in Kinds \ {"files"} : k = "sig" \/ k = "fs"
    BY DEF Kinds
  <2> QED
    BY <1>1, <1>5, <2>1, <2>2, <2>3, <2>4, ExitStructRefs
<1> QED
  BY <1>6, <1>7, <1>8

\* daemonize.
LEMMA AdoptRefs ==
  ASSUME Struct, Struct', RefsOK, NEW t \in Task, Moves(t, Subject(t)),
         DaemonizeInitFs(t) \/ DaemonizeInitFiles(t)
  PROVE  RefsOK'
<1> DEFINE Case(kind, here, next) ==
      /\ AdoptStruct(t, kind, here, next) /\ kind \in Kinds /\ kind \in {"fs", "files"}
      /\ here \in {"daemonize_init_fs", "daemonize_init_files"}
      /\ here = "daemonize_init_fs" <=> kind = "fs"
<1>0. \/ Case("fs", "daemonize_init_fs", "daemonize_files")
      \/ Case("files", "daemonize_init_files", "user")
  BY DEF DaemonizeInitFs, DaemonizeInitFiles, Kinds
<1> HIDE DEF Case
<1>00. \E kind, here, next : Case(kind, here, next)
  BY <1>0, Zenon
<1> USE DEF Case
<1>1. PICK kind, here, next : Case(kind, here, next)
  BY <1>00, Zenon
<1>2. /\ curr = t /\ pc[t] = here /\ UNCHANGED << nr_threads, processes >>
      /\ Set(t, kind, task[swapper][kind])
  BY <1>1 DEF AdoptStruct, At
<1>3. Subject(t) = t /\ StateOK(t) /\ task \in [Task -> TaskStructs]
      /\ count \in [Kinds -> [Obj -> Int]]
  BY <1>1, <1>2, Acting DEF Subject, Makes, Forking, Shape
<1>4. Moves(t, t)
  BY <1>3
<1>5. task[swapper][kind] = init_obj /\ init_obj \in Obj /\ init_obj \in Ref /\ init_obj # NULL
  BY <1>1, Constants DEF Struct, SwapperOK, Ref
<1>6. task[t][kind] = NULL
  BY <1>1, <1>2, <1>3 DEF StateOK
<1>7. /\ \A u \in Task \ {t} : task'[u] = task[u]
      /\ task'[t].state = task[t].state /\ task'[t][kind] = init_obj
      /\ \A j \in Kinds \ {kind} : task'[t][j] = task[t][j]
  <2>1. Set(t, kind, init_obj)
    BY <1>2, <1>5
  <2> QED
    BY <1>1, <1>3, <1>5, <2>1, SetKeeps
<1>8. Processes'
  BY <1>2, <1>4, <1>7, ProcessesKeep DEF RefsOK
<1>9. count' = [count EXCEPT ![kind][init_obj] = count[kind][init_obj] + 1]
  BY <1>1, <1>3, <1>5 DEF AdoptStruct
<1>10. ASSUME NEW k \in Kinds, NEW o \in Obj
       PROVE  RefCount(k, o)'
  <2>1. CASE k # kind \/ o # init_obj
    <3>1. count'[k][o] = count[k][o]
      BY <1>1, <1>3, <1>5, <1>9, <2>1
    <3>2. t \in Holders(k, o)' <=> t \in Holders(k, o)
      <4>1. task'[t][k] = o <=> task[t][k] = o
        BY <1>6, <1>7, <2>1, Constants
      <4> QED
        BY <1>4, <4>1, HoldersMove
    <3>3. \A u \in Task : u \in Holders(k, o)' <=> u \in Holders(k, o)
      BY <1>4, <3>2, HoldersMove
    <3>4. Holders(k, o)' = Holders(k, o)
      <4>1. PICK H, G : H = Holders(k, o) /\ G = Holders(k, o)'
        OBVIOUS
      <4>2. H \subseteq Task /\ G \subseteq Task
        BY <4>1 DEF Holders
      <4>3. \A u \in Task : u \in G <=> u \in H
        BY <3>3, <4>1
      <4>4. G = H
        BY <4>2, <4>3
      <4> QED
        BY <4>1, <4>4
    <3> QED
      BY <3>1, <3>4 DEF RefsOK, RefCount
  <2>2. CASE k = kind /\ o = init_obj
    <3>1. count'[k][o] = count[k][o] + 1
      BY <1>1, <1>3, <1>5, <1>9, <2>2
    <3>2. t \notin Holders(k, o) /\ t \in Holders(k, o)'
      BY <1>4, <1>5, <1>6, <1>7, <2>2, HoldersMove
    <3>3. \A u \in Task \ {t} : u \in Holders(k, o)' <=> u \in Holders(k, o)
      BY <1>4, HoldersMove
    <3>4. PICK S, R : S = Holders(k, o) /\ R = Holders(k, o)'
      OBVIOUS
    <3>5. S \subseteq Task /\ R \subseteq Task
      BY <1>4, <3>4, HoldersMove
    <3>6. Cardinality(R) = Cardinality(S) + 1 /\ Cardinality(S) \in Nat
      BY <3>2, <3>3, <3>4, <3>5, OneMore
    <3>7. count[k][o] = Cardinality(S)
      BY <3>4 DEF RefsOK, RefCount
    <3>8. count'[k][o] = Cardinality(R)
      BY <3>1, <3>6, <3>7
    <3> QED
      BY <3>4, <3>8 DEF RefCount
  <2> QED
    BY <2>1, <2>2
<1> QED
  BY <1>8, <1>10 DEF RefsOK

\* copy_files, copy_fs and copy_sighand.
LEMMA CopyStructRefs ==
  ASSUME Struct, Struct', RefsOK, NEW t \in Task, NEW kind \in Kinds, NEW flag, NEW here, NEW next,
         NEW cleanup, CopyStruct(t, kind, flag, here, next, cleanup),
         NEW p, p = local[t].p, Moves(t, p), StructCopied(t, p, kind, here, next, cleanup),
         here \in Uncounted[kind], next \notin Uncounted[kind], task[p][kind] = task[t][kind],
         \A k \in Kinds \ {kind} : /\ here \in Uncounted[k] <=> next \in Uncounted[k]
                                   /\ here \in Uncounted[k] <=> cleanup \in Uncounted[k]
  PROVE  RefsOK'
<1>1. /\ task[p].state = "EMBRYO" /\ p # t /\ p \in Task
      /\ UNCHANGED << nr_threads, processes >>
  <2>1. curr = t /\ Makes(t)
    BY DEF StructCopied
  <2> QED
    BY <2>1, Child DEF CopyStruct
<1>2. /\ pc[t] = here /\ task'[p].state = "EMBRYO" /\ task'[t] = task[t]
      /\ \A k \in Kinds \ {kind} : task'[p][k] = task[p][k]
      /\ pc'[t] \in {next, cleanup}
  BY <1>1 DEF StructCopied
<1>3. Processes'
  BY <1>1, <1>2, ProcessesKeep DEF RefsOK, Living
<1>4. count \in [Kinds -> [Obj -> Int]] /\ NULL \notin Obj
  BY Constants DEF Struct, Shape
<1>5. PICK old : old = task[t][kind]
  OBVIOUS
<1>6. old \in Obj \cup {NULL}
  BY <1>5 DEF Struct, Shape, TaskStructs, Kinds, Ref
<1> DEFINE Share ==
             /\ task' = task
             /\ count' = IF old = NULL THEN count ELSE [count EXCEPT ![kind][old] = @ + 1]
             /\ Goto(t, next)
           Make ==
             /\ FreeObjs(kind) # {}
             /\ Set(p, kind, FreeObj(kind)) /\ count' = [count EXCEPT ![kind][FreeObj(kind)] = 1]
             /\ Goto(t, next)
           Fail == Set(p, kind, NULL) /\ count' = count /\ Goto(t, cleanup)
<1>7. Share \/ Make \/ Fail
  BY <1>5, Zenon DEF CopyStruct
\* The other kinds.
<1>8. ASSUME NEW k \in Kinds \ {kind}, NEW o \in Obj, count'[k][o] = count[k][o]
      PROVE  RefCount(k, o)'
  <2>1. pc[t] \in Uncounted[k] <=> pc'[t] \in Uncounted[k]
    BY <1>2
  <2>2. Steady(t, p, k) /\ task'[t][k] = task[t][k]
    BY <1>2, <2>1 DEF Steady
  <2> QED
    BY <1>1, <1>2, <1>8, <2>2, SteadyKeeps
\* The child has nothing of this kind that counts.
<1>9. \A o \in Obj : p \notin Holders(kind, o)
  BY <1>1, <1>2, HoldersMove
<1>10. \A o \in Obj : t \in Holders(kind, o)' <=> t \in Holders(kind, o)
  BY <1>2, HoldersMove
<1>11. ASSUME NEW o \in Obj, count'[kind][o] = count[kind][o], p \notin Holders(kind, o)'
       PROVE  RefCount(kind, o)'
  <2>1. \A u \in Task : u \in Holders(kind, o)' <=> u \in Holders(kind, o)
    BY <1>9, <1>10, <1>11, HoldersMove
  <2>2. Holders(kind, o)' = Holders(kind, o)
    BY <2>1, HoldersMove
  <2> QED
    BY <1>11, <2>2 DEF RefsOK, RefCount
<1>12. ASSUME NEW o \in Obj, count'[kind][o] = count[kind][o] + 1, p \in Holders(kind, o)'
       PROVE  RefCount(kind, o)'
  <2>1. PICK S, R : S = Holders(kind, o) /\ R = Holders(kind, o)'
    OBVIOUS
  <2>2. S \subseteq Task /\ R \subseteq Task
    BY <2>1, HoldersMove
  <2>3. \A u \in Task \ {p} : u \in R <=> u \in S
    BY <1>10, <2>1, HoldersMove
  <2>4. Cardinality(R) = Cardinality(S) + 1 /\ Cardinality(S) \in Nat
    BY <1>1, <1>9, <1>12, <2>1, <2>2, <2>3, OneMore
  <2>5. count[kind][o] = Cardinality(S)
    BY <2>1 DEF RefsOK, RefCount
  <2>6. count'[kind][o] = Cardinality(R)
    BY <1>12, <2>4, <2>5
  <2> QED
    BY <2>1, <2>6 DEF RefCount
<1>13. pc'[t] = next => \A o \in Obj : p \in Holders(kind, o)' <=> task'[p][kind] = o
  BY <1>2, HoldersMove
<1>14. Goto(t, next) => pc'[t] = next
  BY DEF Goto, Struct, Shape
<1>15. ASSUME Share
       PROVE  \A k \in Kinds, o \in Obj : RefCount(k, o)'
  <2>1. task'[p][kind] = old
    BY <1>5, <1>15
  <2>2. \A k \in Kinds, o \in Obj : k # kind \/ o # old => count'[k][o] = count[k][o]
    BY <1>4, <1>6, <1>15
  <2>3. old # NULL => count'[kind][old] = count[kind][old] + 1
    BY <1>4, <1>6, <1>15
  <2>4. \A o \in Obj \ {old} : p \notin Holders(kind, o)'
    BY <1>13, <1>14, <1>15, <2>1
  <2>5. old # NULL => p \in Holders(kind, old)'
    BY <1>6, <1>13, <1>14, <1>15, <2>1
  <2>6. \A o \in Obj \ {old} : RefCount(kind, o)'
    BY <1>11, <2>2, <2>4
  <2>7. old # NULL => RefCount(kind, old)'
    BY <1>6, <1>12, <2>3, <2>5
  <2>8. \A k \in Kinds \ {kind}, o \in Obj : RefCount(k, o)'
    BY <1>8, <2>2
  <2> QED
    BY <1>4, <1>6, <2>6, <2>7, <2>8
<1>16. ASSUME Make
       PROVE  \A k \in Kinds, o \in Obj : RefCount(k, o)'
  <2>1. PICK new : new = FreeObj(kind)
    OBVIOUS
  <2>2. new \in Obj /\ count[kind][new] = 0
    BY <1>16, <2>1 DEF FreeObj, FreeObjs
  <2>3. count' = [count EXCEPT ![kind][new] = 1]
    BY <1>16, <2>1
  <2>4. /\ count'[kind][new] = count[kind][new] + 1
        /\ \A k \in Kinds, o \in Obj : k # kind \/ o # new => count'[k][o] = count[k][o]
    BY <1>4, <2>2, <2>3
  <2>5. task'[p][kind] = new
    <3>1. new \in Ref /\ Set(p, kind, new) /\ task \in [Task -> TaskStructs]
      BY <1>16, <2>1, <2>2 DEF Ref, Struct, Shape
    <3> QED
      BY <1>1, <3>1, SetKeeps
  <2>6. \A o \in Obj \ {new} : p \notin Holders(kind, o)'
    BY <1>13, <1>14, <1>16, <2>5
  <2>7. p \in Holders(kind, new)'
    BY <1>13, <1>14, <1>16, <2>2, <2>5
  <2>8. \A o \in Obj \ {new} : RefCount(kind, o)'
    BY <1>11, <2>4, <2>6
  <2>9. RefCount(kind, new)'
    BY <1>12, <2>2, <2>4, <2>7
  <2>10. \A k \in Kinds \ {kind}, o \in Obj : RefCount(k, o)'
    BY <1>8, <2>4
  <2> QED
    BY <2>8, <2>9, <2>10
<1>17. ASSUME Fail
       PROVE  \A k \in Kinds, o \in Obj : RefCount(k, o)'
  <2>1. task'[p][kind] = NULL
    <3>1. NULL \in Ref /\ Set(p, kind, NULL) /\ task \in [Task -> TaskStructs]
      BY <1>17 DEF Ref, Struct, Shape
    <3> QED
      BY <1>1, <3>1, SetKeeps
  <2>2. \A o \in Obj : p \notin Holders(kind, o)'
    BY <1>4, <2>1, HoldersMove
  <2>3. \A o \in Obj : RefCount(kind, o)'
    BY <1>11, <1>17, <2>2
  <2>4. \A k \in Kinds \ {kind}, o \in Obj : RefCount(k, o)'
    BY <1>8, <1>17
  <2> QED
    BY <2>3, <2>4
<1> HIDE DEF Share, Make, Fail
<1>18. \A k \in Kinds, o \in Obj : RefCount(k, o)'
  BY <1>7, <1>15, <1>16, <1>17
<1> QED
  BY <1>3, <1>18 DEF RefsOK

\* Each of the three copies counts for the child what it gives it.
LEMMA CopyRefs ==
  ASSUME Struct, Struct', RefsOK, NEW t \in Task, Moves(t, Subject(t)),
         CopyFiles(t) \/ CopyFs(t) \/ CopySighand(t)
  PROVE  RefsOK'
<1>1. /\ "files" \in Kinds /\ "fs" \in Kinds /\ "sig" \in Kinds
      /\ "copy_fs" \in PCs /\ "copy_sighand" \in PCs /\ "copy_mm" \in PCs
      /\ "bad_fork" \in PCs /\ "bad_fork_files" \in PCs /\ "bad_fork_fs" \in PCs
      /\ "copy_files" \in Forking /\ "copy_fs" \in Forking /\ "copy_sighand" \in Forking
  BY DEF Kinds, PCs, Forking
<1>2. curr = t /\ pc[t] \in {"copy_files", "copy_fs", "copy_sighand"}
  BY DEF CopyFiles, CopyFs, CopySighand, CopyStruct, At
<1>3. PICK p : p = local[t].p
  OBVIOUS
<1>4. Makes(t) /\ Subject(t) = p
  BY <1>2, <1>3 DEF Subject, Makes, Forking
<1>5. ChildOK(t) /\ Moves(t, p)
  BY <1>2, <1>4, Acting
<1>6. CASE CopyFiles(t)
  <2>1. CopyStruct(t, "files", "CLONE_FILES", "copy_files", "copy_fs", "bad_fork")
    BY <1>6 DEF CopyFiles
  <2>2. StructCopied(t, p, "files", "copy_files", "copy_fs", "bad_fork")
    BY <1>1, <1>3, <2>1, CopyStructEffect
  <2>3. task[p]["files"] = task[t]["files"]
    BY <1>3, <1>4, <1>5, <2>2 DEF ChildOK, StructCopied
  <2>4. /\ "copy_files" \in Uncounted["files"] /\ "copy_fs" \notin Uncounted["files"]
        /\ \A k \in Kinds \ {"files"} :
             /\ "copy_files" \in Uncounted[k] /\ "copy_fs" \in Uncounted[k]
             /\ "bad_fork" \in Uncounted[k]
    BY DEF Uncounted, Kinds
  <2> QED
    BY <1>1, <1>3, <1>5, <2>1, <2>2, <2>3, <2>4, CopyStructRefs
<1>7. CASE CopyFs(t)
  <2>1. CopyStruct(t, "fs", "CLONE_FS", "copy_fs", "copy_sighand", "bad_fork_files")
    BY <1>7 DEF CopyFs
  <2>2. StructCopied(t, p, "fs", "copy_fs", "copy_sighand", "bad_fork_files")
    BY <1>1, <1>3, <2>1, CopyStructEffect
  <2>3. task[p]["fs"] = task[t]["fs"]
    BY <1>3, <1>4, <1>5, <2>2 DEF ChildOK, StructCopied
  <2>4. /\ "copy_fs" \in Uncounted["fs"] /\ "copy_sighand" \notin Uncounted["fs"]
        /\ \A k \in Kinds \ {"fs"} :
             /\ "copy_fs" \in Uncounted[k] <=> "copy_sighand" \in Uncounted[k]
             /\ "copy_fs" \in Uncounted[k] <=> "bad_fork_files" \in Uncounted[k]
    BY DEF Uncounted, Kinds
  <2> QED
    BY <1>1, <1>3, <1>5, <2>1, <2>2, <2>3, <2>4, CopyStructRefs
<1>8. CASE CopySighand(t)
  <2>1. CopyStruct(t, "sig", "CLONE_SIGHAND", "copy_sighand", "copy_mm", "bad_fork_fs")
    BY <1>8 DEF CopySighand
  <2>2. StructCopied(t, p, "sig", "copy_sighand", "copy_mm", "bad_fork_fs")
    BY <1>1, <1>3, <2>1, CopyStructEffect
  <2>3. task[p]["sig"] = task[t]["sig"]
    BY <1>3, <1>4, <1>5, <2>2 DEF ChildOK, StructCopied
  <2>4. /\ "copy_sighand" \in Uncounted["sig"] /\ "copy_mm" \notin Uncounted["sig"]
        /\ \A k \in Kinds \ {"sig"} :
             /\ "copy_sighand" \notin Uncounted[k] /\ "copy_mm" \notin Uncounted[k]
             /\ "bad_fork_fs" \notin Uncounted[k]
    BY DEF Uncounted, Kinds
  <2> QED
    BY <1>1, <1>3, <1>5, <2>1, <2>2, <2>3, <2>4, CopyStructRefs
<1> QED
  BY <1>6, <1>7, <1>8

\* A process made, put on the list, undone or reaped holds nothing that is not counted
\* and gives nothing back.
LEMMA HoldersKept ==
  ASSUME Struct, Struct', RefsOK, NEW t, NEW p, Moves(t, p), task'[t] = task[t], count' = count,
         \A k \in Kinds, o \in Obj : p \in Holders(k, o)' <=> p \in Holders(k, o)
  PROVE  \A k \in Kinds, o \in Obj : RefCount(k, o)'
<1>1. ASSUME NEW k \in Kinds, NEW o \in Obj
      PROVE  RefCount(k, o)'
  <2>1. t \in Holders(k, o)' <=> t \in Holders(k, o)
    BY HoldersMove
  <2>2. \A q \in Task : q \in Holders(k, o)' <=> q \in Holders(k, o)
    BY <2>1, HoldersMove
  <2>3. PICK S, R : S = Holders(k, o) /\ R = Holders(k, o)'
    OBVIOUS
  <2>4. S \subseteq Task /\ R \subseteq Task
    BY <2>3 DEF Holders
  <2>5. \A q \in Task : q \in R <=> q \in S
    BY <2>2, <2>3
  <2>6. R = S
    BY <2>4, <2>5
  <2>7. Holders(k, o)' = Holders(k, o)
    BY <2>3, <2>6
  <2> QED
    BY <2>7 DEF RefsOK, RefCount
<1> QED
  BY <1>1

\* The copy in do_fork is counted as a process, and nothing of what it copied is counted yet.
LEMMA ForkRefs ==
  ASSUME Struct, Struct', RefsOK, NEW t \in Task, NEW p \in Task, Forked(t, p)
  PROVE  RefsOK'
<1>1. /\ Moves(t, p) /\ p # t /\ p # swapper /\ task[p] = FreeTask /\ task'[p].state = "EMBRYO"
      /\ task'[t] = task[t] /\ pc'[t] = "copy_files"
      /\ processes' = processes + 1 /\ count' = count /\ nr_threads' = nr_threads
  BY DEF Forked
<1>2. ASSUME NEW k \in Kinds, NEW o \in Obj
      PROVE  p \notin Holders(k, o) /\ p \notin Holders(k, o)'
  <2>1. "copy_files" \in Uncounted[k] /\ task[p][k] = NULL /\ o # NULL
    BY <1>1, Constants, Records DEF Uncounted, Kinds
  <2> QED
    BY <1>1, <2>1, HoldersMove
<1>3. \A k \in Kinds, o \in Obj : RefCount(k, o)'
  BY <1>1, <1>2, HoldersKept
<1>4. \A u \in Task \ {t, p} : task'[u] = task[u]
  BY <1>1 DEF Moves, Same
<1>5. \A u \in Task : task'[u].state \in Living <=> task[u].state \in Living
  BY <1>1, <1>4, Records DEF Living
<1>6. Threads' = Threads
  BY <1>5 DEF Threads, Living
<1>7. processes' = Cardinality(Existing')
  <2>1. PICK S, R : S = Existing /\ R = Existing'
    OBVIOUS
  <2>2. S \subseteq Task /\ R \subseteq Task /\ p \notin S /\ p \in R
    BY <1>1, <2>1, Records DEF Existing
  <2>3. \A u \in Task \ {p} : u \in R <=> u \in S
    BY <1>1, <1>4, <2>1 DEF Existing
  <2>4. Cardinality(R) = Cardinality(S) + 1 /\ Cardinality(S) \in Nat
    BY <2>2, <2>3, OneMore
  <2> QED
    BY <1>1, <2>1, <2>4 DEF RefsOK, Processes
<1> QED
  BY <1>1, <1>3, <1>6, <1>7 DEF RefsOK, Processes

\* Everything a child has is counted when it is put on the list.
LEMMA LinkRefs ==
  ASSUME Struct, Struct', RefsOK, NEW t \in Task, NEW p \in Task, Linked(t, p)
  PROVE  RefsOK'
<1>1. /\ Moves(t, p) /\ p # t /\ p # swapper /\ task[p].state = "EMBRYO"
      /\ task'[p].state = "RUNNING" /\ \A k \in Kinds : task'[p][k] = task[p][k]
      /\ task'[t] = task[t] /\ pc[t] = "link"
      /\ nr_threads' = nr_threads + 1 /\ count' = count /\ processes' = processes
  BY DEF Linked
<1>2. ASSUME NEW k \in Kinds, NEW o \in Obj
      PROVE  p \in Holders(k, o)' <=> p \in Holders(k, o)
  <2>1. "link" \notin Uncounted[k] /\ task'[p][k] = task[p][k]
    BY <1>1, Settled DEF Early
  <2> QED
    BY <1>1, <2>1, HoldersMove
<1>3. \A k \in Kinds, o \in Obj : RefCount(k, o)'
  BY <1>1, <1>2, HoldersKept
<1>4. \A u \in Task \ {t, p} : task'[u] = task[u]
  BY <1>1 DEF Moves, Same
<1>5. \A u \in Task : task'[u].state = "FREE" <=> task[u].state = "FREE"
  BY <1>1, <1>4
<1>6. Existing' = Existing
  BY <1>5 DEF Existing
<1>7. nr_threads' = Cardinality(Threads')
  <2>1. PICK S, R : S = Threads /\ R = Threads'
    OBVIOUS
  <2>2. S \subseteq Task /\ R \subseteq Task /\ p \notin S /\ p \in R
    BY <1>1, <2>1 DEF Threads
  <2>3. \A u \in Task \ {p} : u \in R <=> u \in S
    BY <1>1, <1>4, <2>1 DEF Threads
  <2>4. Cardinality(R) = Cardinality(S) + 1 /\ Cardinality(S) \in Nat
    BY <2>2, <2>3, OneMore
  <2> QED
    BY <1>1, <2>1, <2>4 DEF RefsOK, Processes
<1> QED
  BY <1>1, <1>3, <1>6, <1>7 DEF RefsOK, Processes

\* Nothing is counted for a child that a failed fork frees.
LEMMA BadForkRefs ==
  ASSUME Struct, Struct', RefsOK, NEW t \in Task, NEW p \in Task, Undone(t, p)
  PROVE  RefsOK'
<1>1. /\ Moves(t, p) /\ p # t /\ p # swapper /\ task[p].state = "EMBRYO" /\ task'[p] = FreeTask
      /\ task'[t] = task[t] /\ pc[t] = "bad_fork"
      /\ processes' = processes - 1 /\ count' = count /\ nr_threads' = nr_threads
  BY DEF Undone
<1>2. task[p].files = NULL
  <2>1. Makes(t) /\ local[t].p = p /\ ChildOK(t)
    BY <1>1 DEF Moves, Struct
  <2> QED
    BY <1>1, <2>1 DEF ChildOK
<1>3. ASSUME NEW k \in Kinds, NEW o \in Obj
      PROVE  p \notin Holders(k, o) /\ p \notin Holders(k, o)'
  <2>1. o # NULL /\ task'[p][k] = NULL
    BY <1>1, Constants, Records DEF Kinds
  <2>2. "bad_fork" \in Uncounted[k] \/ task[p][k] = NULL
    BY <1>2 DEF Uncounted, Kinds
  <2> QED
    BY <1>1, <2>1, <2>2, HoldersMove
<1>4. \A k \in Kinds, o \in Obj : RefCount(k, o)'
  BY <1>1, <1>3, HoldersKept
<1>5. \A u \in Task \ {t, p} : task'[u] = task[u]
  BY <1>1 DEF Moves, Same
<1>6. \A u \in Task : task'[u].state \in Living <=> task[u].state \in Living
  BY <1>1, <1>5, Records DEF Living
<1>7. Threads' = Threads
  BY <1>6 DEF Threads, Living
<1>8. processes' = Cardinality(Existing')
  <2>1. PICK S, R : S = Existing /\ R = Existing'
    OBVIOUS
  <2>2. S \subseteq Task /\ R \subseteq Task /\ p \in S /\ p \notin R
    BY <1>1, <2>1, Records DEF Existing
  <2>3. \A u \in Task \ {p} : u \in S <=> u \in R
    BY <1>1, <1>5, <2>1 DEF Existing
  <2>4. Cardinality(S) = Cardinality(R) + 1 /\ Cardinality(R) \in Nat
    BY <2>2, <2>3, OneMore
  <2> QED
    BY <1>1, <2>1, <2>4 DEF RefsOK, Processes
<1> QED
  BY <1>1, <1>4, <1>7, <1>8 DEF RefsOK, Processes

\* Nothing is counted for a process that is reaped.
LEMMA ReleaseRefs ==
  ASSUME Struct, Struct', RefsOK, NEW t \in Task, NEW p \in Task, Reaped(t, p)
  PROVE  RefsOK'
<1>1. /\ Moves(t, p) /\ p # t /\ p # swapper /\ task[p].state = "ZOMBIE" /\ task'[p] = FreeTask
      /\ pc[p] = "dead" /\ task'[t] = task[t]
      /\ processes' = processes - 1 /\ count' = count /\ nr_threads' = nr_threads - 1
  BY DEF Reaped
<1>2. task[p].files = NULL /\ task[p].fs = NULL /\ task[p].sig = NULL
  BY <1>1 DEF Struct, StateOK
<1>3. ASSUME NEW k \in Kinds, NEW o \in Obj
      PROVE  p \notin Holders(k, o) /\ p \notin Holders(k, o)'
  <2>1. o # NULL /\ task'[p][k] = NULL /\ task[p][k] = NULL
    BY <1>1, <1>2, Constants, Records DEF Kinds
  <2> QED
    BY <1>1, <2>1, HoldersMove
<1>4. \A k \in Kinds, o \in Obj : RefCount(k, o)'
  BY <1>1, <1>3, HoldersKept
<1>5. \A u \in Task \ {t, p} : task'[u] = task[u]
  BY <1>1 DEF Moves, Same
<1>6. nr_threads' = Cardinality(Threads')
  <2>1. PICK S, R : S = Threads /\ R = Threads'
    OBVIOUS
  <2>2. S \subseteq Task /\ R \subseteq Task /\ p \in S /\ p \notin R
    BY <1>1, <2>1, Records DEF Threads
  <2>3. \A u \in Task \ {p} : u \in S <=> u \in R
    BY <1>1, <1>5, <2>1 DEF Threads
  <2>4. Cardinality(S) = Cardinality(R) + 1 /\ Cardinality(R) \in Nat
    BY <2>2, <2>3, OneMore
  <2> QED
    BY <1>1, <2>1, <2>4 DEF RefsOK, Processes
<1>7. processes' = Cardinality(Existing')
  <2>1. PICK S, R : S = Existing /\ R = Existing'
    OBVIOUS
  <2>2. S \subseteq Task /\ R \subseteq Task /\ p \in S /\ p \notin R
    BY <1>1, <2>1, Records DEF Existing
  <2>3. \A u \in Task \ {p} : u \in S <=> u \in R
    BY <1>1, <1>5, <2>1 DEF Existing
  <2>4. Cardinality(S) = Cardinality(R) + 1 /\ Cardinality(R) \in Nat
    BY <2>2, <2>3, OneMore
  <2> QED
    BY <1>1, <2>1, <2>4 DEF RefsOK, Processes
<1> QED
  BY <1>4, <1>6, <1>7 DEF RefsOK, Processes

\* context_switch changes nobody's files, fs and handlers.
LEMMA SwitchRefs ==
  ASSUME Struct, RefsOK, NEW prev \in Task, NEW next \in Task, Switch(prev, next)
  PROVE  RefsOK'
<1>1. /\ UNCHANGED << pc, local, count, nr_threads, processes >>
      /\ \A u \in Task : /\ task'[u].state = task[u].state
                         /\ task'[u].files = task[u].files /\ task'[u].fs = task[u].fs
                         /\ task'[u].sig = task[u].sig
  BY SwitchEffect
<1>2. \A q : Maker(q)' = Maker(q)
  BY <1>1 DEF Maker
<1>3. ASSUME NEW k \in Kinds, NEW o \in Obj
      PROVE  RefCount(k, o)'
  <2>1. \A u \in Task : task'[u][k] = task[u][k]
    BY <1>1 DEF Kinds
  <2>2. \A q \in Task : q \in Holders(k, o)' <=> q \in Holders(k, o)
    BY <1>1, <1>2, <2>1 DEF Holders, Uncounted
  <2>3. Holders(k, o)' = Holders(k, o)
    BY <2>2 DEF Holders
  <2> QED
    BY <1>1, <2>3 DEF RefsOK, RefCount
<1>4. Threads' = Threads /\ Existing' = Existing
  BY <1>1 DEF Threads, Existing
<1> QED
  BY <1>1, <1>3, <1>4 DEF RefsOK, Processes

\* So does every step.
LEMMA NextRefs ==
  ASSUME Struct, RefsOK, [Next]_vars
  PROVE  RefsOK'
<1>1. CASE UNCHANGED vars
  BY <1>1 DEF vars, RefsOK, RefCount, Processes, Holders, Maker, Threads, Existing
<1>2. CASE Next
  <2>0. Struct'
    BY NextKeeps
  <2>1. PICK t \in Task : Step(t) \/ Call(t)
    BY <1>2 DEF Next
  <2>2. CASE \/ CopyMM(t) \/ DupMmap(t) \/ DupVmas(t) \/ CopyThread(t) \/ WaitForVfork(t) \/ MMPut(t)
             \/ BadForkMM(t) \/ ExitNotify(t) \/ Exit(t) \/ Daemonize(t) \/ Exec(t)
             \/ start_lazy_tlb(t) \/ end_lazy_tlb(t)
    <3>1. Moves(t, Subject(t)) /\ RefsSame(t)
      BY <2>2, CopyMMKeeps, DupMmapKeeps, DupVmasKeeps, CopyThreadKeeps, WaitForVforkKeeps,
         MMPutKeeps, BadForkMMKeeps, ExitNotifyKeeps, ExitMMKeeps, ExecKeeps, StartLazyKeeps,
         EndLazyKeeps
    <3>2. PICK x : x = Subject(t)
      OBVIOUS
    <3> QED
      BY <2>0, <3>1, <3>2, RefsSameKeeps
  <2>3. CASE CopyFiles(t) \/ CopyFs(t) \/ CopySighand(t)
    BY <2>0, <2>3, CopyStructKeeps, CopyRefs
  <2>4. CASE BadForkSighand(t) \/ BadForkFs(t) \/ BadForkFiles(t)
    BY <2>0, <2>4, ExitChildKeeps, ExitChildRefs
  <2>5. CASE ExitFiles(t) \/ ExitFs(t) \/ ExitSighand(t) \/ DaemonizeFs(t) \/ DaemonizeFiles(t)
    BY <2>0, <2>5, ExitOwnKeeps, ExitOwnRefs
  <2>6. CASE DaemonizeInitFs(t) \/ DaemonizeInitFiles(t)
    BY <2>0, <2>6, AdoptKeeps, AdoptRefs
  <2>7. CASE Link(t)
    BY <2>0, <2>7, LinkKeeps, LinkRefs
  <2>8. CASE BadFork(t)
    BY <2>0, <2>8, BadForkKeeps, BadForkRefs
  <2>9. CASE Fork(t)
    BY <2>0, <2>9, ForkKeeps, ForkRefs
  <2>10. ASSUME NEW p \in Task, Release(t, p)
         PROVE  RefsOK'
    BY <2>0, <2>10, ReleaseTaskKeeps, ReleaseRefs
  <2>11. ASSUME NEW p \in Task, Switch(t, p)
         PROVE  RefsOK'
    BY <2>11, SwitchRefs
  <2> QED
    BY <2>1, <2>2, <2>3, <2>4, <2>5, <2>6, <2>7, <2>8, <2>9, <2>10, <2>11 DEF Step, Call
<1> QED
  BY <1>1, <1>2

\* The references of init_task and of init.
LEMMA InitRefs ==
  ASSUME Init
  PROVE  RefsOK
<1>1. PICK own : AtFirst(own)
  BY InitHas
<1>2. /\ swapper \in Task /\ child_reaper \in Task /\ swapper # child_reaper
  BY Constants
<1>3. /\ own # NULL /\ init_obj # NULL /\ own # init_obj /\ own \in Obj /\ NULL \notin Obj
      /\ \A t \in {swapper, child_reaper} :
           task[t].state = "RUNNING" /\ task[t].files = init_obj /\ task[t].fs = init_obj
      /\ task[swapper].sig = init_obj /\ task[child_reaper].sig = own
      /\ \A t \in Task \ {swapper, child_reaper} : task[t] = FreeTask
      /\ \A k \in {"files", "fs"}, o \in Obj : count[k][o] = IF o = init_obj THEN 2 ELSE 0
      /\ \A o \in Obj : count["sig"][o] = IF o \in {init_obj, own} THEN 1 ELSE 0
  BY <1>1, Constants DEF AtFirst
<1>4. \A q \in Task : task[q].state # "EMBRYO"
  BY <1>3, Records
<1>5. /\ Cardinality({}) = 0 /\ \A q : Cardinality({q}) = 1
      /\ Cardinality({swapper, child_reaper}) = 2
  <2>1. \A q : Cardinality({q}) = 1
    BY FS_Singleton
  <2>2. PICK S, R : S = {swapper} /\ R = {swapper, child_reaper}
    OBVIOUS
  <2>3. S \subseteq Task /\ R \subseteq Task /\ child_reaper \notin S /\ child_reaper \in R
        /\ \A u \in Task \ {child_reaper} : u \in R <=> u \in S
    BY <1>2, <2>2
  <2>4. Cardinality(R) = Cardinality(S) + 1
    BY <1>2, <2>3, OneMore
  <2>5. Cardinality(S) = 1
    BY <2>1, <2>2
  <2>6. Cardinality(R) = 2
    BY <2>4, <2>5
  <2>7. Cardinality({swapper, child_reaper}) = 2
    BY <2>2, <2>6
  <2>8. Cardinality({}) = 0
    BY FS_EmptySet
  <2> QED
    BY <2>1, <2>7, <2>8
<1>6. ASSUME NEW k \in Kinds, NEW o \in Obj
      PROVE  RefCount(k, o)
  <2>1. PICK H : H = Holders(k, o)
    OBVIOUS
  <2>2. H \subseteq Task /\ \A q \in Task : q \in H <=> task[q][k] = o
    BY <1>4, <2>1 DEF Holders
  <2>3. \A q \in Task \ {swapper, child_reaper} : q \notin H
    BY <1>3, <2>2, Records DEF Kinds
  <2>4. CASE k \in {"files", "fs"}
    <3>1. H = IF o = init_obj THEN {swapper, child_reaper} ELSE {}
      BY <1>2, <1>3, <2>2, <2>3, <2>4
    <3> QED
      BY <1>3, <1>5, <2>1, <2>4, <3>1 DEF RefCount
  <2>5. CASE k = "sig"
    <3>1. H = IF o = init_obj THEN {swapper} ELSE IF o = own THEN {child_reaper} ELSE {}
      BY <1>2, <1>3, <2>2, <2>3, <2>5
    <3>2. count["sig"][o] = Cardinality(H)
      BY <1>3, <1>5, <3>1
    <3> QED
      BY <2>1, <2>5, <3>2 DEF RefCount
  <2> QED
    BY <2>4, <2>5 DEF Kinds
<1>7. Threads = {child_reaper} /\ Existing = {child_reaper}
  BY <1>2, <1>3, Records DEF Threads, Existing
<1>8. nr_threads = 1 /\ processes = 1
  BY DEF Init
<1> QED
  BY <1>5, <1>6, <1>7, <1>8 DEF RefsOK, Processes

\* Every files_struct, fs_struct and signal_struct is counted once for each process that
\* uses it, whatever of a fork is done or undone, and so are the processes: copy_files,
\* __exit_files and their like, daemonize, do_fork and release_task.
THEOREM RefsAlwaysCounted == Spec => []RefsCounted
<1>1. Init => Struct /\ RefsOK
  BY InitStruct, InitRefs
<1>2. Struct /\ RefsOK /\ [Next]_vars => (Struct /\ RefsOK)'
  BY NextKeeps, NextRefs
<1>3. Struct /\ RefsOK => RefsCounted
  BY RefsSplit
<1> QED
  BY <1>1, <1>2, <1>3, PTL DEF Spec

-----------------------------------------------------------------------------
(* The address spaces are counted *)

\* The operands of MMCounted.
Total(m)   == Cardinality(Users(m)) + Cardinality(HeldUsers(m)) + (IF m = init_obj THEN 2 ELSE 0)
Keepers(m) == Cardinality(Borrowers(m)) + (IF Total(m) > 0 \/ Putting(m) THEN 1 ELSE 0)
New(m)     == \E t \in Task : pc[t] = "dup_mmap" /\ local[t].mm = m

MMCount(m) ==
  /\ mm[m].users = Total(m)
  /\ mm[m].count >= Keepers(m)
  /\ "copy_thread" \notin build.fails => mm[m].count = Keepers(m)
  /\ mm[m].listed <=> Total(m) > 0 /\ m # init_obj /\ ~New(m)

\* They are those of each address space.
LEMMA MMSplit == MMCounted <=> \A m \in Obj : MMCount(m)
BY DEF MMCounted, MMCount, Total, Keepers, New

\* What the running process t and its child x have of address spaces: what is counted
\* for x, and what t holds, borrows, puts or makes.
UserOf(t, x)  == IF x # t /\ pc[t] \notin Sharing THEN NULL ELSE task[x].mm
HeldOf(t)     == IF pc[t] \in {"lazy", "dup_mmap", "dup_vmas"} THEN local[t].mm ELSE NULL
BorrowedOf(t) == IF task[t].mm = NULL THEN task[t].active_mm ELSE NULL
PutOf(t)      == IF pc[t] = "mmput" THEN local[t].mm ELSE NULL
NewOf(t)      == IF pc[t] = "dup_mmap" THEN local[t].mm ELSE NULL

\* What the others have of m.
OtherUsers(t, x, m)  == Cardinality(Users(m) \ {x}) + Cardinality(HeldUsers(m) \ {t})
OtherBorrowers(t, m) == Cardinality(Borrowers(m) \ {t})
OtherPuts(t, m)      == \E u \in Task \ {t} : pc[u] = "mmput" /\ local[u].mm = m
OtherNew(t, m)       == \E u \in Task \ {t} : pc[u] = "dup_mmap" /\ local[u].mm = m

Bit(v, m) == IF v = m THEN 1 ELSE 0

\* An address space whose last user puts it has no other that does, and a new one no
\* other user.
Alone(m) == \A t \in Task : PutOf(t) = m => ~OtherPuts(t, m)
MMGood(m) == MMCount(m) /\ (Putting(m) => Total(m) = 0) /\ Alone(m) /\ (New(m) => Total(m) = 1)
MMOK == \A m \in Obj : MMGood(m)

Makers(t, x) == task[t].state # "EMBRYO" /\ (x # t => task[x].state = "EMBRYO" /\ Maker(x) = t)
Parts(t, x, m) ==
  /\ Total(m) = OtherUsers(t, x, m) + Bit(UserOf(t, x), m) + Bit(HeldOf(t), m)
                  + (IF m = init_obj THEN 2 ELSE 0)
  /\ Cardinality(Borrowers(m)) = OtherBorrowers(t, m) + Bit(BorrowedOf(t), m)
  /\ Putting(m) <=> OtherPuts(t, m) \/ PutOf(t) = m
  /\ New(m) <=> OtherNew(t, m) \/ NewOf(t) = m
  /\ OtherNew(t, m) => OtherUsers(t, x, m) >= 1
  /\ OtherUsers(t, x, m) \in Nat /\ OtherBorrowers(t, m) \in Nat

\* A set is what is in it of one process and of the others.
LEMMA Others ==
  ASSUME NEW S, S \subseteq Task, NEW q \in Task
  PROVE  /\ Cardinality(S \ {q}) \in Nat
         /\ Cardinality(S) = Cardinality(S \ {q}) + (IF q \in S THEN 1 ELSE 0)
<1>1. PICK R : R = S \ {q}
  OBVIOUS
<1>2. R \subseteq Task /\ q \notin R /\ \A u \in Task \ {q} : u \in S <=> u \in R
  BY <1>1
<1>3. Cardinality(R) \in Nat
  BY <1>2, Countable
<1>4. CASE q \in S
  <2>1. Cardinality(S) = Cardinality(R) + 1
    BY <1>2, <1>4, OneMore
  <2> QED
    BY <1>1, <1>3, <1>4, <2>1
<1>5. CASE q \notin S
  <2>1. S = R
    BY <1>1, <1>5
  <2> QED
    BY <1>1, <1>3, <1>5, <2>1
<1> QED
  BY <1>4, <1>5

\* The parts make up the whole.
LEMMA PartsHold == \A t, x \in Task, m \in Obj : Struct /\ Makers(t, x) => Parts(t, x, m)
<1> SUFFICES ASSUME NEW t \in Task, NEW x \in Task, NEW m \in Obj, Struct, Makers(t, x)
             PROVE  Parts(t, x, m)
  OBVIOUS
<1>1. m # NULL
  BY Constants
<1>2. PICK U, H, B : U = Users(m) /\ H = HeldUsers(m) /\ B = Borrowers(m)
  OBVIOUS
<1>3. U \subseteq Task /\ H \subseteq Task /\ B \subseteq Task
  BY <1>2 DEF Users, HeldUsers, Borrowers
<1>4. x \in U <=> UserOf(t, x) = m
  <2>1. CASE x = t
    BY <1>2, <2>1 DEF Users, UserOf, Makers
  <2>2. CASE x # t
    BY <1>1, <1>2, <2>2 DEF Users, UserOf, Makers, Sharing
  <2> QED
    BY <2>1, <2>2
<1>5. t \in H <=> HeldOf(t) = m
  BY <1>1, <1>2 DEF HeldUsers, HeldOf
<1>6. t \in B <=> BorrowedOf(t) = m
  BY <1>1, <1>2 DEF Borrowers, BorrowedOf, Makers
<1>7. /\ Cardinality(U \ {x}) \in Nat /\ Cardinality(U) = Cardinality(U \ {x}) + Bit(UserOf(t, x), m)
      /\ Cardinality(H \ {t}) \in Nat /\ Cardinality(H) = Cardinality(H \ {t}) + Bit(HeldOf(t), m)
      /\ Cardinality(B \ {t}) \in Nat /\ Cardinality(B) = Cardinality(B \ {t}) + Bit(BorrowedOf(t), m)
  BY <1>3, <1>4, <1>5, <1>6, Others DEF Bit
<1>8. /\ Putting(m) <=> OtherPuts(t, m) \/ PutOf(t) = m
      /\ New(m) <=> OtherNew(t, m) \/ NewOf(t) = m
  BY <1>1 DEF Putting, OtherPuts, PutOf, New, OtherNew, NewOf
<1>9. ASSUME OtherNew(t, m)
      PROVE  Cardinality(H \ {t}) >= 1
  <2>1. PICK u \in Task \ {t} : u \in H
    BY <1>2, <1>9 DEF OtherNew, HeldUsers
  <2>2. PICK R : R = H \ {t}
    OBVIOUS
  <2>3. R \subseteq Task /\ R # {}
    BY <1>3, <2>1, <2>2
  <2>4. Cardinality(R) \in Nat /\ Cardinality(R) # 0
    BY <2>3, Countable
  <2> QED
    BY <2>2, <2>4
<1>10. OtherUsers(t, x, m) = Cardinality(U \ {x}) + Cardinality(H \ {t})
       /\ OtherBorrowers(t, m) = Cardinality(B \ {t})
       /\ Total(m) = Cardinality(U) + Cardinality(H) + (IF m = init_obj THEN 2 ELSE 0)
  BY <1>2 DEF OtherUsers, OtherBorrowers, Total
<1>11. Bit(UserOf(t, x), m) \in Nat /\ Bit(HeldOf(t), m) \in Nat
  BY DEF Bit
<1> QED
  BY <1>2, <1>7, <1>8, <1>9, <1>10, <1>11 DEF Parts

\* Before a step, and after it.
LEMMA PartsWillHold == (\A t, x \in Task, m \in Obj : Struct /\ Makers(t, x) => Parts(t, x, m))'
BY PartsHold, PTL

\* A step of t that, of a child, changes no more than the address space.
Inside(t, x) ==
  /\ Moves(t, x) /\ build' = build
  /\ x = t \/ (/\ task[x].state = "EMBRYO" /\ task'[x].state = "EMBRYO"
               /\ task'[t].mm = task[t].mm /\ task'[t].active_mm = task[t].active_mm)

\* It changes nothing of what the others have.
LEMMA OthersKeep ==
  ASSUME Struct, Struct', NEW t, NEW x, Inside(t, x), NEW m \in Obj
  PROVE  /\ Parts(t, x, m) /\ Parts(t, x, m)'
         /\ OtherUsers(t, x, m)' = OtherUsers(t, x, m)
         /\ OtherBorrowers(t, m)' = OtherBorrowers(t, m)
         /\ OtherPuts(t, m)' <=> OtherPuts(t, m)
         /\ OtherNew(t, m)' <=> OtherNew(t, m)
         /\ t \in Task
<1>1. /\ t \in Task /\ x \in Task /\ Moves(t, x) /\ \A u \in Task \ {t, x} : Same(u)
      /\ task[t].state # "EMBRYO" /\ task'[t].state # "EMBRYO"
      /\ task[x].state = "EMBRYO" => Maker(x) = t
      /\ task'[x].state = "EMBRYO" => Maker(x)' = t
  BY OwnMaker DEF Inside, Moves
<1>2. Makers(t, x) /\ Makers(t, x)'
  BY <1>1 DEF Makers, Inside
<1>3. Parts(t, x, m)
  BY <1>1, <1>2, PartsHold
<1>4. Parts(t, x, m)'
  BY <1>1, <1>2, PartsWillHold
<1>5. x # t => pc[x] = "none" /\ pc'[x] = "none"
  BY <1>1 DEF Inside, Struct, StateOK
<1>6. Users(m)' \ {x} = Users(m) \ {x}
  <2>1. Users(m)' = {q \in Task : /\ task'[q].mm = m
                                  /\ task'[q].state = "EMBRYO" =>
                                       pc'[Maker(q)'] \in {"copy_thread", "link", "bad_fork_mm"}}
    BY DEF Users
  <2>2. ASSUME NEW q \in Task \ {t, x}
        PROVE  q \in Users(m)' <=> q \in Users(m)
    <3>1. task'[q] = task[q]
      BY <1>1 DEF Same
    <3>2. CASE task[q].state = "EMBRYO"
      <4>1. pc'[Maker(q)'] = pc[Maker(q)]
        BY <1>1, <3>2, OtherMaker
      <4> QED
        BY <2>1, <3>1, <4>1 DEF Users
    <3>3. CASE task[q].state # "EMBRYO"
      BY <2>1, <3>1, <3>3 DEF Users
    <3> QED
      BY <3>2, <3>3
  <2>3. x # t => (t \in Users(m)' <=> t \in Users(m))
    BY <1>1, <2>1 DEF Inside, Users
  <2>4. PICK U, V : U = Users(m) /\ V = Users(m)'
    OBVIOUS
  <2>5. U \subseteq Task /\ V \subseteq Task
    BY <2>1, <2>4 DEF Users
  <2>6. \A q \in Task \ {x} : q \in V <=> q \in U
    BY <2>2, <2>3, <2>4
  <2>7. V \ {x} = U \ {x}
    BY <2>5, <2>6
  <2> QED
    BY <2>4, <2>7
<1>7. \A u \in Task \ {t} : /\ pc'[u] = pc[u]
                            /\ pc[u] # "none" => local'[u].mm = local[u].mm
  BY <1>1, <1>5 DEF Same
<1>8. HeldUsers(m)' \ {t} = HeldUsers(m) \ {t}
  <2>1. PICK U, V : U = HeldUsers(m) /\ V = HeldUsers(m)'
    OBVIOUS
  <2>2. U \subseteq Task /\ V \subseteq Task
    BY <2>1 DEF HeldUsers
  <2>3. \A q \in Task \ {t} : q \in V <=> q \in U
    BY <1>7, <2>1 DEF HeldUsers
  <2>4. V \ {t} = U \ {t}
    BY <2>2, <2>3
  <2> QED
    BY <2>1, <2>4
<1>9. Borrowers(m)' \ {t} = Borrowers(m) \ {t}
  <2>1. PICK U, V : U = Borrowers(m) /\ V = Borrowers(m)'
    OBVIOUS
  <2>2. U \subseteq Task /\ V \subseteq Task
    BY <2>1 DEF Borrowers
  <2>3. x # t => x \notin U /\ x \notin V
    BY <2>1 DEF Inside, Borrowers
  <2>4. \A q \in Task \ {t, x} : q \in V <=> q \in U
    BY <1>1, <2>1 DEF Borrowers, Same
  <2>5. V \ {t} = U \ {t}
    BY <2>2, <2>3, <2>4
  <2> QED
    BY <2>1, <2>5
<1>10. /\ OtherPuts(t, m)' <=> OtherPuts(t, m)
       /\ OtherNew(t, m)' <=> OtherNew(t, m)
  BY <1>7 DEF OtherPuts, OtherNew
<1>11. /\ OtherUsers(t, x, m)' = Cardinality(Users(m)' \ {x}) + Cardinality(HeldUsers(m)' \ {t})
       /\ OtherBorrowers(t, m)' = Cardinality(Borrowers(m)' \ {t})
  BY DEF OtherUsers, OtherBorrowers
<1>12. OtherUsers(t, x, m)' = OtherUsers(t, x, m)
  BY <1>6, <1>8, <1>11 DEF OtherUsers
<1>13. OtherBorrowers(t, m)' = OtherBorrowers(t, m)
  BY <1>9, <1>11 DEF OtherBorrowers
<1> QED
  BY <1>1, <1>3, <1>4, <1>10, <1>12, <1>13

\* Nor who else puts it.
LEMMA AloneKeeps ==
  ASSUME Struct, Struct', NEW t, NEW x, Inside(t, x), NEW m \in Obj, Alone(m),
         PutOf(t)' = m => ~OtherPuts(t, m)
  PROVE  Alone(m)'
<1>1. m # NULL /\ t \in Task
  BY Constants DEF Inside, Moves
<1>2. \A u \in Task \ {t} : PutOf(u)' = m <=> PutOf(u) = m
  <2>1. ASSUME NEW u \in Task \ {t, x}
        PROVE  PutOf(u)' = m <=> PutOf(u) = m
    BY DEF Inside, Moves, Same, PutOf
  <2>2. x # t => pc[x] = "none" /\ pc'[x] = "none"
    BY DEF Inside, Moves, Struct, StateOK
  <2>3. x # t => (PutOf(x)' = m <=> PutOf(x) = m)
    BY <1>1, <2>2 DEF PutOf
  <2> QED
    BY <2>1, <2>3
<1>3. \A u, v \in Task : PutOf(u) = m /\ PutOf(v) = m => u = v
  BY <1>1 DEF Alone, OtherPuts, PutOf
<1>4. \A u \in Task \ {t} : PutOf(t)' = m => PutOf(u) # m
  BY <1>1 DEF OtherPuts, PutOf
<1>5. \A u, v \in Task : PutOf(u)' = m /\ PutOf(v)' = m => u = v
  BY <1>1, <1>2, <1>3, <1>4
<1> QED
  BY <1>1, <1>5 DEF Alone, OtherPuts, PutOf

\* What the operations on the counts do to each.
LEMMA MMOps ==
  ASSUME NEW M \in [Obj -> MMs], NEW o \in Obj, NEW m \in Obj
  PROVE  /\ M[m].users \in Int /\ M[m].count \in Int
         /\ GrabUser(M, o)[m].users = M[m].users + Bit(o, m)
         /\ GrabUser(M, o)[m].count = M[m].count
         /\ GrabUser(M, o)[m].listed <=> M[m].listed
         /\ GrabMM(M, o)[m].users = M[m].users
         /\ GrabMM(M, o)[m].count = M[m].count + Bit(o, m)
         /\ GrabMM(M, o)[m].listed <=> M[m].listed
         /\ mmdrop(M, o)[m].users = M[m].users
         /\ mmdrop(M, o)[m].count = M[m].count - Bit(o, m)
         /\ mmdrop(M, o)[m].listed <=> M[m].listed
         /\ mmput_user(M, o)[m].users = M[m].users - Bit(o, m)
         /\ mmput_user(M, o)[m].count = M[m].count
         /\ mmput_user(M, o)[m].listed <=> M[m].listed /\ (o = m => M[m].users # 1)
<1>1. /\ M[m].users \in Int /\ M[m].count \in Int
      /\ M[m] = [users |-> M[m].users, count |-> M[m].count, listed |-> M[m].listed]
  BY DEF MMs
<1>2. /\ GrabUser(M, o)[m].users = M[m].users + Bit(o, m)
      /\ GrabMM(M, o)[m].count = M[m].count + Bit(o, m)
      /\ mmdrop(M, o)[m].count = M[m].count - Bit(o, m)
      /\ mmput_user(M, o)[m].users = M[m].users - Bit(o, m)
  BY <1>1 DEF GrabUser, GrabMM, mmdrop, mmput_user, Bit
<1>3. /\ GrabUser(M, o)[m].count = M[m].count
      /\ GrabMM(M, o)[m].users = M[m].users
      /\ mmdrop(M, o)[m].users = M[m].users
      /\ mmput_user(M, o)[m].count = M[m].count
  BY <1>1 DEF GrabUser, GrabMM, mmdrop, mmput_user
<1>4. /\ GrabUser(M, o)[m].listed <=> M[m].listed
      /\ GrabMM(M, o)[m].listed <=> M[m].listed
      /\ mmdrop(M, o)[m].listed <=> M[m].listed
  BY <1>1 DEF GrabUser, GrabMM, mmdrop
<1>5. mmput_user(M, o)[m].listed <=> M[m].listed /\ (o = m => M[m].users # 1)
  <2>1. CASE o = m
    <3>1. PICK k : k = [M[m] EXCEPT !.users = @ - 1, !.listed = @ /\ ~LastUser(M, m)]
      OBVIOUS
    <3>2. k.listed = (M[m].listed /\ ~LastUser(M, m))
      BY <1>1, <3>1, Zenon
    <3>3. mmput_user(M, o) = [M EXCEPT ![m] = k]
      BY <2>1, <3>1, Zenon DEF mmput_user
    <3>4. mmput_user(M, o)[m] = k
      BY <3>3
    <3> QED
      BY <2>1, <3>2, <3>4, Zenon DEF LastUser
  <2>2. CASE o # m
    <3>1. mmput_user(M, o)[m] = M[m]
      BY <2>2 DEF mmput_user
    <3> QED
      BY <2>2, <3>1
  <2> QED
    BY <2>1, <2>2
<1> QED
  BY <1>1, <1>2, <1>3, <1>4, <1>5

\* What is counted of m, for as long as it is used or put.
Kept(t, m) == IF mm[m].users > 0 \/ OtherPuts(t, m) \/ PutOf(t) = m THEN 1 ELSE 0

\* A step whose counts follow what t and x have.
Lawful(t, x, m) ==
  /\ mm'[m].users = mm[m].users + Bit(UserOf(t, x)', m) + Bit(HeldOf(t)', m)
                                - Bit(UserOf(t, x), m) - Bit(HeldOf(t), m)
  /\ mm'[m].count + Bit(BorrowedOf(t), m) + Kept(t, m)
       >= mm[m].count + Bit(BorrowedOf(t)', m) + Kept(t, m)'
  /\ "copy_thread" \notin build.fails =>
       mm'[m].count + Bit(BorrowedOf(t), m) + Kept(t, m)
         = mm[m].count + Bit(BorrowedOf(t)', m) + Kept(t, m)'
  /\ mm'[m].listed <=> mm'[m].users > 0 /\ m # init_obj /\ ~OtherNew(t, m) /\ NewOf(t)' # m
  /\ OtherPuts(t, m) \/ PutOf(t)' = m => mm'[m].users = 0
  /\ PutOf(t)' = m => ~OtherPuts(t, m)
  /\ OtherNew(t, m) \/ NewOf(t)' = m => mm'[m].users = 1

\* A lawful step keeps the counts of an address space right.
LEMMA Tally ==
  ASSUME Struct, Struct', MMOK, NEW t, NEW x, Inside(t, x), NEW m \in Obj, Lawful(t, x, m)
  PROVE  MMGood(m)'
<1>1. /\ Parts(t, x, m) /\ Parts(t, x, m)'
      /\ OtherUsers(t, x, m)' = OtherUsers(t, x, m)
      /\ OtherBorrowers(t, m)' = OtherBorrowers(t, m)
      /\ OtherPuts(t, m)' <=> OtherPuts(t, m)
      /\ OtherNew(t, m)' <=> OtherNew(t, m)
  BY OthersKeep
<1>2. /\ mm[m].users \in Int /\ mm[m].count \in Int /\ mm'[m].users \in Int /\ mm'[m].count \in Int
      /\ build' = build
  BY DEF Struct, Shape, MMs, Inside
<1>3. MMGood(m)
  BY DEF MMOK
<1>4. mm'[m].users = Total(m)'
  BY <1>1, <1>2, <1>3 DEF Parts, MMGood, MMCount, Lawful, Bit
<1>5. Keepers(m) = Cardinality(Borrowers(m)) + Kept(t, m)
  BY <1>1, <1>3 DEF Keepers, Kept, Parts, MMGood, MMCount
<1>6. Keepers(m)' = Cardinality(Borrowers(m)') + Kept(t, m)'
  BY <1>1, <1>4 DEF Keepers, Kept, Parts
<1>7. Kept(t, m) \in Nat /\ Kept(t, m)' \in Nat
  BY DEF Kept
<1>8. /\ Bit(BorrowedOf(t), m) \in Nat /\ Bit(BorrowedOf(t)', m) \in Nat
  BY DEF Bit
<1>9. /\ Cardinality(Borrowers(m)) = OtherBorrowers(t, m) + Bit(BorrowedOf(t), m)
      /\ Cardinality(Borrowers(m)') = OtherBorrowers(t, m) + Bit(BorrowedOf(t)', m)
      /\ OtherBorrowers(t, m) \in Nat
  BY <1>1 DEF Parts
<1>10. mm'[m].count >= Keepers(m)'
  BY <1>2, <1>3, <1>5, <1>6, <1>7, <1>8, <1>9 DEF MMGood, MMCount, Lawful
<1>11. "copy_thread" \notin build.fails => mm'[m].count = Keepers(m)'
  BY <1>2, <1>3, <1>5, <1>6, <1>7, <1>8, <1>9 DEF MMGood, MMCount, Lawful
<1>12. mm'[m].listed <=> Total(m)' > 0 /\ m # init_obj /\ ~New(m)'
  BY <1>1, <1>4 DEF Parts, Lawful
<1>13. MMCount(m)'
  BY <1>2, <1>4, <1>10, <1>11, <1>12 DEF MMCount
<1>14. (Putting(m)' => Total(m)' = 0) /\ (New(m)' => Total(m)' = 1)
  BY <1>1, <1>4 DEF Parts, Lawful
<1>15. Alone(m)'
  BY <1>3, AloneKeeps DEF MMGood, Lawful
<1> QED
  BY <1>13, <1>14, <1>15 DEF MMGood

\* What is known of m before a step.
LEMMA TallyBefore ==
  ASSUME Struct, Struct', MMOK, NEW t, NEW x, Inside(t, x), NEW m \in Obj
  PROVE  /\ mm \in [Obj -> MMs] /\ mm[m].users \in Int /\ mm[m].count \in Int
         /\ mm[m].users = OtherUsers(t, x, m) + Bit(UserOf(t, x), m) + Bit(HeldOf(t), m)
                            + (IF m = init_obj THEN 2 ELSE 0)
         /\ mm[m].count >= Bit(BorrowedOf(t), m) + Kept(t, m)
         /\ mm[m].listed <=> mm[m].users > 0 /\ m # init_obj /\ ~OtherNew(t, m) /\ NewOf(t) # m
         /\ OtherPuts(t, m) \/ PutOf(t) = m => mm[m].users = 0
         /\ PutOf(t) = m => ~OtherPuts(t, m)
         /\ OtherNew(t, m) \/ NewOf(t) = m => mm[m].users = 1
         /\ OtherNew(t, m) => OtherUsers(t, x, m) >= 1
         /\ OtherUsers(t, x, m) \in Nat /\ (OtherPuts(t, m)' <=> OtherPuts(t, m))
         /\ m # NULL
<1>1. Parts(t, x, m) /\ t \in Task /\ (OtherPuts(t, m)' <=> OtherPuts(t, m))
  BY OthersKeep
<1>2. /\ mm \in [Obj -> MMs] /\ mm[m].users \in Int /\ mm[m].count \in Int
  BY DEF Struct, Shape, MMs
<1>3. MMGood(m)
  BY DEF MMOK
<1>4. Keepers(m) = Cardinality(Borrowers(m)) + Kept(t, m)
  BY <1>1, <1>3 DEF Keepers, Kept, Parts, MMGood, MMCount
<1>5. mm[m].count >= Bit(BorrowedOf(t), m) + Kept(t, m)
  BY <1>1, <1>2, <1>3, <1>4 DEF MMGood, MMCount, Parts, Kept, Bit
<1>6. PutOf(t) = m => ~OtherPuts(t, m)
  BY <1>1, <1>3 DEF MMGood, Alone
<1>7. m # NULL
  BY Constants
<1> QED
  BY <1>1, <1>2, <1>3, <1>5, <1>6, <1>7 DEF Parts, MMGood, MMCount

\* An address space that t uses besides x.
LEMMA OwnUser ==
  ASSUME Struct, NEW t \in Task, NEW x \in Task, x # t, task[t].state # "EMBRYO", NEW m, task[t].mm = m
  PROVE  /\ OtherUsers(t, x, m) >= 1
         /\ OtherNew(t, m) => OtherUsers(t, x, m) >= 2
<1>1. PICK R, H : R = Users(m) \ {x} /\ H = HeldUsers(m) \ {t}
  OBVIOUS
<1>2. t \in R /\ R \subseteq Task /\ H \subseteq Task
  BY <1>1 DEF Users, HeldUsers
<1>3. Cardinality(R) \in Nat /\ Cardinality(R) # 0 /\ Cardinality(H) \in Nat
  BY <1>2, Countable
<1>4. ASSUME OtherNew(t, m)
      PROVE  Cardinality(H) # 0
  <2>1. H # {}
    BY <1>1, <1>4 DEF OtherNew, HeldUsers
  <2> QED
    BY <1>2, <2>1, Countable
<1>5. OtherUsers(t, x, m) = Cardinality(R) + Cardinality(H)
  BY <1>1 DEF OtherUsers
<1> QED
  BY <1>3, <1>4, <1>5

\* The steps, by what t and x have before and after: the users of x, what t holds,
\* borrows, puts and makes.
Has(t, x, u, h, b, p, n) ==
  UserOf(t, x) = u /\ HeldOf(t) = h /\ BorrowedOf(t) = b /\ PutOf(t) = p /\ NewOf(t) = n
Last(o) == IF mm[o].users = 1 THEN o ELSE NULL
NewMM(o, listed) == [mm EXCEPT ![o] = [users |-> 1, count |-> 1, listed |-> listed]]

Idle(t, x) ==
  /\ mm' = mm /\ UserOf(t, x)' = UserOf(t, x) /\ HeldOf(t)' = HeldOf(t)
  /\ BorrowedOf(t)' = BorrowedOf(t) /\ PutOf(t)' = PutOf(t) /\ NewOf(t)' = NewOf(t)
Shares(t, x, o) ==
  /\ x # t /\ task[t].mm = o /\ mm' = GrabUser(mm, o)
  /\ Has(t, x, NULL, NULL, NULL, NULL, NULL) /\ Has(t, x, o, NULL, NULL, NULL, NULL)'
MakesNew(t, x, o) ==
  /\ mm[o] = FreeMM /\ mm' = NewMM(o, FALSE)
  /\ Has(t, x, NULL, NULL, NULL, NULL, NULL) /\ Has(t, x, NULL, o, NULL, NULL, o)'
Lists(t, x, o) ==
  /\ mm' = [mm EXCEPT ![o].listed = TRUE]
  /\ \E b : Has(t, x, NULL, o, b, NULL, o) /\ Has(t, x, NULL, o, b, NULL, NULL)'
Gives(t, x, o) ==
  /\ mm' = mm
  /\ \E b : Has(t, x, NULL, o, b, NULL, NULL) /\ Has(t, x, o, NULL, b, NULL, NULL)'
Returns(t, x, o) ==
  /\ mm' = mmput_user(mm, o)
  /\ \E b, p : /\ p = Last(o)
               /\ Has(t, x, NULL, o, b, NULL, NULL) /\ Has(t, x, NULL, NULL, b, p, NULL)'
EndsPut(t, x, o) ==
  /\ mm' = mmdrop(mm, o)
  /\ \E u, b : Has(t, x, u, NULL, b, o, NULL) /\ Has(t, x, u, NULL, b, NULL, NULL)'
Undoes(t, x, o) ==
  /\ mm' = mmput_user(GrabMM(mm, o), o) /\ "copy_thread" \in build.fails
  /\ \E b, p : /\ p = Last(o)
               /\ Has(t, x, o, NULL, b, NULL, NULL) /\ Has(t, x, NULL, NULL, b, p, NULL)'
Exits(t, x, o) ==
  /\ mm' = mmput_user(GrabMM(mm, o), o)
  /\ \E p : /\ p = Last(o)
            /\ Has(t, x, o, NULL, NULL, NULL, NULL) /\ Has(t, x, NULL, NULL, o, p, NULL)'
Settles(t, x, a, o) ==
  /\ mm[o] = FreeMM /\ mm' = mmdrop(NewMM(o, TRUE), a)
  /\ Has(t, x, NULL, NULL, a, NULL, NULL) /\ Has(t, x, o, NULL, NULL, NULL, NULL)'
Leaves(t, x, a, o) ==
  /\ mm[o] = FreeMM /\ mm' = mmput_user(NewMM(o, TRUE), a) /\ mm[a].users # 1
  /\ Has(t, x, a, NULL, NULL, NULL, NULL) /\ Has(t, x, o, NULL, NULL, NULL, NULL)'
LazyOn(t, x, o) ==
  /\ mm' = GrabMM(mm, o)
  /\ Has(t, x, o, NULL, NULL, NULL, NULL) /\ Has(t, x, NULL, o, o, NULL, NULL)'
LazyOff(t, x, a, o) ==
  /\ mm' = mmdrop(mm, a)
  /\ Has(t, x, NULL, o, a, NULL, NULL) /\ Has(t, x, o, NULL, NULL, NULL, NULL)'

Trades(t, x) ==
  \/ Idle(t, x)
  \/ \E o \in Obj : \/ Shares(t, x, o) \/ MakesNew(t, x, o) \/ Lists(t, x, o) \/ Gives(t, x, o)
                    \/ Returns(t, x, o) \/ EndsPut(t, x, o) \/ Undoes(t, x, o)
                    \/ Exits(t, x, o) \/ LazyOn(t, x, o)
  \/ \E a, o \in Obj : Settles(t, x, a, o) \/ Leaves(t, x, a, o) \/ LazyOff(t, x, a, o)

\* A new address space.
LEMMA NewMMIs ==
  ASSUME mm \in [Obj -> MMs], NEW o \in Obj, NEW m \in Obj, NEW l \in BOOLEAN
  PROVE  /\ NewMM(o, l) \in [Obj -> MMs]
         /\ NewMM(o, l)[m].users = IF m = o THEN 1 ELSE mm[m].users
         /\ NewMM(o, l)[m].count = IF m = o THEN 1 ELSE mm[m].count
         /\ NewMM(o, l)[m].listed <=> IF m = o THEN l ELSE mm[m].listed
<1>1. PICK k : k = [users |-> 1, count |-> 1, listed |-> l]
  OBVIOUS
<1>2. k.users = 1 /\ k.count = 1 /\ k.listed = l
  BY <1>1, Zenon
<1>3. k \in MMs
  BY <1>1 DEF MMs
<1>4. NewMM(o, l) = [mm EXCEPT ![o] = k]
  BY <1>1 DEF NewMM
<1>5. CASE m = o
  <2>1. NewMM(o, l)[m] = k
    BY <1>4, <1>5
  <2>2. NewMM(o, l)[m].listed <=> l
    BY <1>2, <2>1, Zenon
  <2> QED
    BY <1>2, <1>3, <1>4, <1>5, <2>1, <2>2
<1>6. CASE m # o
  <2>1. NewMM(o, l)[m] = mm[m]
    BY <1>4, <1>6
  <2> QED
    BY <1>3, <1>4, <1>6, <2>1
<1> QED
  BY <1>5, <1>6

\* Each of them is lawful.
LEMMA IdleLawful ==
  ASSUME Struct, Struct', MMOK, NEW t, NEW x, Inside(t, x), NEW m \in Obj, Idle(t, x)
  PROVE  Lawful(t, x, m)
<1>1. /\ mm[m].users \in Int /\ mm[m].count \in Int
      /\ mm[m].listed <=> mm[m].users > 0 /\ m # init_obj /\ ~OtherNew(t, m) /\ NewOf(t) # m
      /\ OtherPuts(t, m) \/ PutOf(t) = m => mm[m].users = 0
      /\ PutOf(t) = m => ~OtherPuts(t, m)
      /\ OtherNew(t, m) \/ NewOf(t) = m => mm[m].users = 1
      /\ (OtherPuts(t, m)' <=> OtherPuts(t, m))
  BY TallyBefore
<1> QED
  BY <1>1, SMTT(30) DEF Lawful, Idle, Kept, Bit

\* copy_mm with CLONE_VM: one more user.
LEMMA SharesLawful ==
  ASSUME Struct, Struct', MMOK, NEW t, NEW x, Inside(t, x), NEW m \in Obj, NEW o \in Obj,
         Shares(t, x, o)
  PROVE  Lawful(t, x, m)
<1>1. /\ mm \in [Obj -> MMs] /\ mm[m].users \in Int /\ mm[m].count \in Int
      /\ mm[m].users = OtherUsers(t, x, m) + Bit(UserOf(t, x), m) + Bit(HeldOf(t), m)
                            + (IF m = init_obj THEN 2 ELSE 0)
      /\ mm[m].listed <=> mm[m].users > 0 /\ m # init_obj /\ ~OtherNew(t, m) /\ NewOf(t) # m
      /\ OtherPuts(t, m) \/ PutOf(t) = m => mm[m].users = 0
      /\ OtherNew(t, m) \/ NewOf(t) = m => mm[m].users = 1
      /\ OtherNew(t, m) => OtherUsers(t, x, m) >= 1
      /\ OtherUsers(t, x, m) \in Nat /\ (OtherPuts(t, m)' <=> OtherPuts(t, m))
      /\ m # NULL
  BY TallyBefore
<1>2. Has(t, x, NULL, NULL, NULL, NULL, NULL) /\ Has(t, x, o, NULL, NULL, NULL, NULL)'
  BY DEF Shares
<1>3. /\ mm'[m].users = mm[m].users + Bit(o, m) /\ mm'[m].count = mm[m].count
      /\ mm'[m].listed <=> mm[m].listed
  BY <1>1, MMOps DEF Shares
<1>4. ASSUME o = m
      PROVE  OtherUsers(t, x, m) >= 1 /\ ~OtherNew(t, m)
  <2>1. t \in Task /\ x \in Task /\ x # t /\ task[t].state # "EMBRYO" /\ task[t].mm = o
    BY OwnMaker DEF Inside, Moves, Shares
  <2>2. /\ OtherUsers(t, x, m) >= 1
        /\ OtherNew(t, m) => OtherUsers(t, x, m) >= 2
    BY <1>4, <2>1, OwnUser
  <2> QED
    BY <1>1, <1>2, <1>4, <2>2 DEF Has, Bit
<1> QED
  BY <1>1, <1>2, <1>3, <1>4, SMTT(30) DEF Lawful, Has, Kept, Bit

\* copy_mm without it: an address space that its maker holds.
LEMMA MakesNewLawful ==
  ASSUME Struct, Struct', MMOK, NEW t, NEW x, Inside(t, x), NEW m \in Obj, NEW o \in Obj,
         MakesNew(t, x, o)
  PROVE  Lawful(t, x, m)
<1>1. /\ mm \in [Obj -> MMs] /\ mm[m].users \in Int /\ mm[m].count \in Int
      /\ mm[m].users = OtherUsers(t, x, m) + Bit(UserOf(t, x), m) + Bit(HeldOf(t), m)
                            + (IF m = init_obj THEN 2 ELSE 0)
      /\ mm[m].count >= Bit(BorrowedOf(t), m) + Kept(t, m)
      /\ mm[m].listed <=> mm[m].users > 0 /\ m # init_obj /\ ~OtherNew(t, m) /\ NewOf(t) # m
      /\ OtherPuts(t, m) \/ PutOf(t) = m => mm[m].users = 0
      /\ PutOf(t) = m => ~OtherPuts(t, m)
      /\ OtherNew(t, m) \/ NewOf(t) = m => mm[m].users = 1
      /\ OtherNew(t, m) => OtherUsers(t, x, m) >= 1
      /\ OtherUsers(t, x, m) \in Nat /\ (OtherPuts(t, m)' <=> OtherPuts(t, m))
      /\ m # NULL
  BY TallyBefore
<1>2. Has(t, x, NULL, NULL, NULL, NULL, NULL) /\ Has(t, x, NULL, o, NULL, NULL, o)'
  BY DEF MakesNew
<1>3. /\ mm'[m].users = (IF m = o THEN 1 ELSE mm[m].users)
      /\ mm'[m].count = (IF m = o THEN 1 ELSE mm[m].count)
      /\ mm'[m].listed <=> (IF m = o THEN FALSE ELSE mm[m].listed)
  <2>1. PICK l : l \in BOOLEAN /\ l = FALSE
    OBVIOUS
  <2>2. mm' = NewMM(o, l)
    BY <2>1 DEF MakesNew
  <2>3. /\ mm'[m].users = (IF m = o THEN 1 ELSE mm[m].users)
        /\ mm'[m].count = (IF m = o THEN 1 ELSE mm[m].count)
        /\ mm'[m].listed <=> IF m = o THEN l ELSE mm[m].listed
    BY <1>1, <2>1, <2>2, NewMMIs
  <2>4. CASE m = o
    BY <2>1, <2>3, <2>4
  <2>5. CASE m # o
    BY <2>3, <2>5
  <2> QED
    BY <2>4, <2>5
<1>4. m = o => mm[m].users = 0 /\ mm[m].count = 0
  BY DEF MakesNew, FreeMM
<1> QED
  BY <1>1, <1>2, <1>3, <1>4, SMTT(30) DEF Lawful, Has, Kept, Bit, Last

\* dup_mmap puts it on mmlist.
LEMMA ListsLawful ==
  ASSUME Struct, Struct', MMOK, NEW t, NEW x, Inside(t, x), NEW m \in Obj, NEW o \in Obj,
         Lists(t, x, o)
  PROVE  Lawful(t, x, m)
<1>1. /\ mm \in [Obj -> MMs] /\ mm[m].users \in Int /\ mm[m].count \in Int
      /\ mm[m].users = OtherUsers(t, x, m) + Bit(UserOf(t, x), m) + Bit(HeldOf(t), m)
                            + (IF m = init_obj THEN 2 ELSE 0)
      /\ mm[m].count >= Bit(BorrowedOf(t), m) + Kept(t, m)
      /\ mm[m].listed <=> mm[m].users > 0 /\ m # init_obj /\ ~OtherNew(t, m) /\ NewOf(t) # m
      /\ OtherPuts(t, m) \/ PutOf(t) = m => mm[m].users = 0
      /\ PutOf(t) = m => ~OtherPuts(t, m)
      /\ OtherNew(t, m) \/ NewOf(t) = m => mm[m].users = 1
      /\ OtherNew(t, m) => OtherUsers(t, x, m) >= 1
      /\ OtherUsers(t, x, m) \in Nat /\ (OtherPuts(t, m)' <=> OtherPuts(t, m))
      /\ m # NULL
  BY TallyBefore
<1>2. PICK b : Has(t, x, NULL, o, b, NULL, o) /\ Has(t, x, NULL, o, b, NULL, NULL)'
  BY DEF Lists
<1>3. /\ mm'[m].users = mm[m].users /\ mm'[m].count = mm[m].count
      /\ mm'[m].listed <=> mm[m].listed \/ m = o
  <2>1. CASE m = o
    <3>1. PICK k : k = [mm[m] EXCEPT !.listed = TRUE]
      OBVIOUS
    <3>2. k.listed = TRUE /\ k.users = mm[m].users /\ k.count = mm[m].count
      BY <1>1, <3>1 DEF MMs
    <3>3. mm'[m] = k
      BY <1>1, <2>1, <3>1 DEF Lists
    <3> QED
      BY <2>1, <3>2, <3>3
  <2>2. CASE m # o
    BY <1>1, <2>2 DEF Lists
  <2> QED
    BY <2>1, <2>2
<1> QED
  BY <1>1, <1>2, <1>3, SMTT(30) DEF Lawful, Has, Kept, Bit, Last

\* The child gets what its parent held for it.
LEMMA GivesLawful ==
  ASSUME Struct, Struct', MMOK, NEW t, NEW x, Inside(t, x), NEW m \in Obj, NEW o \in Obj,
         Gives(t, x, o)
  PROVE  Lawful(t, x, m)
<1>1. /\ mm \in [Obj -> MMs] /\ mm[m].users \in Int /\ mm[m].count \in Int
      /\ mm[m].users = OtherUsers(t, x, m) + Bit(UserOf(t, x), m) + Bit(HeldOf(t), m)
                            + (IF m = init_obj THEN 2 ELSE 0)
      /\ mm[m].count >= Bit(BorrowedOf(t), m) + Kept(t, m)
      /\ mm[m].listed <=> mm[m].users > 0 /\ m # init_obj /\ ~OtherNew(t, m) /\ NewOf(t) # m
      /\ OtherPuts(t, m) \/ PutOf(t) = m => mm[m].users = 0
      /\ PutOf(t) = m => ~OtherPuts(t, m)
      /\ OtherNew(t, m) \/ NewOf(t) = m => mm[m].users = 1
      /\ OtherNew(t, m) => OtherUsers(t, x, m) >= 1
      /\ OtherUsers(t, x, m) \in Nat /\ (OtherPuts(t, m)' <=> OtherPuts(t, m))
      /\ m # NULL
  BY TallyBefore
<1>2. PICK b : Has(t, x, NULL, o, b, NULL, NULL) /\ Has(t, x, o, NULL, b, NULL, NULL)'
  BY DEF Gives
<1>3. mm' = mm
  BY DEF Gives
<1> QED
  BY <1>1, <1>2, <1>3, SMTT(30) DEF Lawful, Has, Kept, Bit, Last

\* A failed dup_mmap puts what the parent held.
LEMMA ReturnsLawful ==
  ASSUME Struct, Struct', MMOK, NEW t, NEW x, Inside(t, x), NEW m \in Obj, NEW o \in Obj,
         Returns(t, x, o)
  PROVE  Lawful(t, x, m)
<1>1. /\ mm \in [Obj -> MMs] /\ mm[m].users \in Int /\ mm[m].count \in Int
      /\ mm[m].users = OtherUsers(t, x, m) + Bit(UserOf(t, x), m) + Bit(HeldOf(t), m)
                            + (IF m = init_obj THEN 2 ELSE 0)
      /\ mm[m].count >= Bit(BorrowedOf(t), m) + Kept(t, m)
      /\ mm[m].listed <=> mm[m].users > 0 /\ m # init_obj /\ ~OtherNew(t, m) /\ NewOf(t) # m
      /\ OtherPuts(t, m) \/ PutOf(t) = m => mm[m].users = 0
      /\ PutOf(t) = m => ~OtherPuts(t, m)
      /\ OtherNew(t, m) \/ NewOf(t) = m => mm[m].users = 1
      /\ OtherNew(t, m) => OtherUsers(t, x, m) >= 1
      /\ OtherUsers(t, x, m) \in Nat /\ (OtherPuts(t, m)' <=> OtherPuts(t, m))
      /\ m # NULL
  BY TallyBefore
<1>2. PICK b, p : /\ p = Last(o) /\ Has(t, x, NULL, o, b, NULL, NULL)
                   /\ Has(t, x, NULL, NULL, b, p, NULL)'
  BY DEF Returns
<1>3. /\ mm'[m].users = mm[m].users - Bit(o, m) /\ mm'[m].count = mm[m].count
      /\ mm'[m].listed <=> mm[m].listed /\ (o = m => mm[m].users # 1)
  BY <1>1, MMOps DEF Returns
<1>4. CASE o = m /\ mm[m].users = 1
  BY <1>1, <1>2, <1>3, <1>4, SMTT(30) DEF Lawful, Has, Kept, Bit, Last
<1>5. CASE o = m /\ mm[m].users # 1
  BY <1>1, <1>2, <1>3, <1>5, SMTT(30) DEF Lawful, Has, Kept, Bit, Last
<1>6. CASE o # m
  BY <1>1, <1>2, <1>3, <1>6, SMTT(30) DEF Lawful, Has, Kept, Bit, Last
<1> QED
  BY <1>4, <1>5, <1>6

\* The end of mmput drops the count that the users had together.
LEMMA EndsPutLawful ==
  ASSUME Struct, Struct', MMOK, NEW t, NEW x, Inside(t, x), NEW m \in Obj, NEW o \in Obj,
         EndsPut(t, x, o)
  PROVE  Lawful(t, x, m)
<1>1. /\ mm \in [Obj -> MMs] /\ mm[m].users \in Int /\ mm[m].count \in Int
      /\ mm[m].users = OtherUsers(t, x, m) + Bit(UserOf(t, x), m) + Bit(HeldOf(t), m)
                            + (IF m = init_obj THEN 2 ELSE 0)
      /\ mm[m].count >= Bit(BorrowedOf(t), m) + Kept(t, m)
      /\ mm[m].listed <=> mm[m].users > 0 /\ m # init_obj /\ ~OtherNew(t, m) /\ NewOf(t) # m
      /\ OtherPuts(t, m) \/ PutOf(t) = m => mm[m].users = 0
      /\ PutOf(t) = m => ~OtherPuts(t, m)
      /\ OtherNew(t, m) \/ NewOf(t) = m => mm[m].users = 1
      /\ OtherNew(t, m) => OtherUsers(t, x, m) >= 1
      /\ OtherUsers(t, x, m) \in Nat /\ (OtherPuts(t, m)' <=> OtherPuts(t, m))
      /\ m # NULL
  BY TallyBefore
<1>2. PICK u, b : Has(t, x, u, NULL, b, o, NULL) /\ Has(t, x, u, NULL, b, NULL, NULL)'
  BY DEF EndsPut
<1>3. /\ mm'[m].users = mm[m].users /\ mm'[m].count = mm[m].count - Bit(o, m)
      /\ mm'[m].listed <=> mm[m].listed
  BY <1>1, MMOps DEF EndsPut
<1> QED
  BY <1>1, <1>2, <1>3, SMTT(30) DEF Lawful, Has, Kept, Bit, Last

\* A failed copy_thread leaves one count too many, and that is the one exception.
LEMMA UndoesLawful ==
  ASSUME Struct, Struct', MMOK, NEW t, NEW x, Inside(t, x), NEW m \in Obj, NEW o \in Obj,
         Undoes(t, x, o)
  PROVE  Lawful(t, x, m)
<1>1. /\ mm \in [Obj -> MMs] /\ mm[m].users \in Int /\ mm[m].count \in Int
      /\ mm[m].users = OtherUsers(t, x, m) + Bit(UserOf(t, x), m) + Bit(HeldOf(t), m)
                            + (IF m = init_obj THEN 2 ELSE 0)
      /\ mm[m].count >= Bit(BorrowedOf(t), m) + Kept(t, m)
      /\ mm[m].listed <=> mm[m].users > 0 /\ m # init_obj /\ ~OtherNew(t, m) /\ NewOf(t) # m
      /\ OtherPuts(t, m) \/ PutOf(t) = m => mm[m].users = 0
      /\ PutOf(t) = m => ~OtherPuts(t, m)
      /\ OtherNew(t, m) \/ NewOf(t) = m => mm[m].users = 1
      /\ OtherNew(t, m) => OtherUsers(t, x, m) >= 1
      /\ OtherUsers(t, x, m) \in Nat /\ (OtherPuts(t, m)' <=> OtherPuts(t, m))
      /\ m # NULL
  BY TallyBefore
<1>2. PICK b, p : /\ p = Last(o) /\ Has(t, x, o, NULL, b, NULL, NULL)
                   /\ Has(t, x, NULL, NULL, b, p, NULL)'
  BY DEF Undoes
<1>3. /\ mm'[m].users = mm[m].users - Bit(o, m) /\ mm'[m].count = mm[m].count + Bit(o, m)
      /\ mm'[m].listed <=> mm[m].listed /\ (o = m => mm[m].users # 1)
  <2>1. GrabMM(mm, o) \in [Obj -> MMs]
    BY <1>1, MMKeeps
  <2>2. /\ GrabMM(mm, o)[m].users = mm[m].users
        /\ GrabMM(mm, o)[m].count = mm[m].count + Bit(o, m)
        /\ GrabMM(mm, o)[m].listed <=> mm[m].listed
    BY <1>1, MMOps
  <2>3. mm' = mmput_user(GrabMM(mm, o), o)
    BY DEF Undoes
  <2> QED
    BY <2>1, <2>2, <2>3, MMOps
<1>4. "copy_thread" \in build.fails
  BY DEF Undoes
<1> QED
  BY <1>1, <1>2, <1>3, <1>4, SMTT(30) DEF Lawful, Has, Kept, Bit, Last

\* exit_mm: a user becomes a borrower.
LEMMA ExitsLawful ==
  ASSUME Struct, Struct', MMOK, NEW t, NEW x, Inside(t, x), NEW m \in Obj, NEW o \in Obj,
         Exits(t, x, o)
  PROVE  Lawful(t, x, m)
<1>1. /\ mm \in [Obj -> MMs] /\ mm[m].users \in Int /\ mm[m].count \in Int
      /\ mm[m].users = OtherUsers(t, x, m) + Bit(UserOf(t, x), m) + Bit(HeldOf(t), m)
                            + (IF m = init_obj THEN 2 ELSE 0)
      /\ mm[m].count >= Bit(BorrowedOf(t), m) + Kept(t, m)
      /\ mm[m].listed <=> mm[m].users > 0 /\ m # init_obj /\ ~OtherNew(t, m) /\ NewOf(t) # m
      /\ OtherPuts(t, m) \/ PutOf(t) = m => mm[m].users = 0
      /\ PutOf(t) = m => ~OtherPuts(t, m)
      /\ OtherNew(t, m) \/ NewOf(t) = m => mm[m].users = 1
      /\ OtherNew(t, m) => OtherUsers(t, x, m) >= 1
      /\ OtherUsers(t, x, m) \in Nat /\ (OtherPuts(t, m)' <=> OtherPuts(t, m))
      /\ m # NULL
  BY TallyBefore
<1>2. PICK p : /\ p = Last(o) /\ Has(t, x, o, NULL, NULL, NULL, NULL)
                /\ Has(t, x, NULL, NULL, o, p, NULL)'
  BY DEF Exits
<1>3. /\ mm'[m].users = mm[m].users - Bit(o, m) /\ mm'[m].count = mm[m].count + Bit(o, m)
      /\ mm'[m].listed <=> mm[m].listed /\ (o = m => mm[m].users # 1)
  <2>1. GrabMM(mm, o) \in [Obj -> MMs]
    BY <1>1, MMKeeps
  <2>2. /\ GrabMM(mm, o)[m].users = mm[m].users
        /\ GrabMM(mm, o)[m].count = mm[m].count + Bit(o, m)
        /\ GrabMM(mm, o)[m].listed <=> mm[m].listed
    BY <1>1, MMOps
  <2>3. mm' = mmput_user(GrabMM(mm, o), o)
    BY DEF Exits
  <2> QED
    BY <2>1, <2>2, <2>3, MMOps
<1> QED
  BY <1>1, <1>2, <1>3, SMTT(30) DEF Lawful, Has, Kept, Bit, Last

\* exec of a kernel thread: a borrower becomes the user of another.
LEMMA SettlesLawful ==
  ASSUME Struct, Struct', MMOK, NEW t, NEW x, Inside(t, x), NEW m \in Obj, NEW a \in Obj, NEW o \in Obj,
         Settles(t, x, a, o)
  PROVE  Lawful(t, x, m)
<1>1. /\ mm \in [Obj -> MMs] /\ mm[m].users \in Int /\ mm[m].count \in Int
      /\ mm[m].users = OtherUsers(t, x, m) + Bit(UserOf(t, x), m) + Bit(HeldOf(t), m)
                            + (IF m = init_obj THEN 2 ELSE 0)
      /\ mm[m].count >= Bit(BorrowedOf(t), m) + Kept(t, m)
      /\ mm[m].listed <=> mm[m].users > 0 /\ m # init_obj /\ ~OtherNew(t, m) /\ NewOf(t) # m
      /\ OtherPuts(t, m) \/ PutOf(t) = m => mm[m].users = 0
      /\ PutOf(t) = m => ~OtherPuts(t, m)
      /\ OtherNew(t, m) \/ NewOf(t) = m => mm[m].users = 1
      /\ OtherNew(t, m) => OtherUsers(t, x, m) >= 1
      /\ OtherUsers(t, x, m) \in Nat /\ (OtherPuts(t, m)' <=> OtherPuts(t, m))
      /\ m # NULL
  BY TallyBefore
<1>2. Has(t, x, NULL, NULL, a, NULL, NULL) /\ Has(t, x, o, NULL, NULL, NULL, NULL)'
  BY DEF Settles
<1>3. /\ NewMM(o, TRUE) \in [Obj -> MMs]
      /\ NewMM(o, TRUE)[m].users = (IF m = o THEN 1 ELSE mm[m].users)
      /\ NewMM(o, TRUE)[m].count = (IF m = o THEN 1 ELSE mm[m].count)
      /\ NewMM(o, TRUE)[m].listed <=> m = o \/ mm[m].listed
  <2>1. /\ NewMM(o, TRUE) \in [Obj -> MMs]
        /\ NewMM(o, TRUE)[m].users = (IF m = o THEN 1 ELSE mm[m].users)
        /\ NewMM(o, TRUE)[m].count = (IF m = o THEN 1 ELSE mm[m].count)
        /\ NewMM(o, TRUE)[m].listed <=> IF m = o THEN TRUE ELSE mm[m].listed
    BY <1>1, NewMMIs
  <2>2. CASE m = o
    BY <2>1, <2>2
  <2>3. CASE m # o
    BY <2>1, <2>3
  <2> QED
    BY <2>2, <2>3
<1>4. m = o => mm[m].users = 0 /\ mm[m].count = 0
  BY DEF Settles, FreeMM
<1>5. /\ mm'[m].users = NewMM(o, TRUE)[m].users
      /\ mm'[m].count = NewMM(o, TRUE)[m].count - Bit(a, m)
      /\ mm'[m].listed <=> NewMM(o, TRUE)[m].listed
  <2>1. PICK M : M = NewMM(o, TRUE)
    OBVIOUS
  <2>2. M \in [Obj -> MMs] /\ mm' = mmdrop(M, a)
    BY <1>3, <2>1 DEF Settles
  <2>3. /\ mmdrop(M, a)[m].users = M[m].users
        /\ mmdrop(M, a)[m].count = M[m].count - Bit(a, m)
        /\ mmdrop(M, a)[m].listed <=> M[m].listed
    BY <2>2, MMOps
  <2> QED
    BY <2>1, <2>2, <2>3
<1>6. /\ mm'[m].users = (IF m = o THEN 1 ELSE mm[m].users)
      /\ mm'[m].count = (IF m = o THEN 1 ELSE mm[m].count) - Bit(a, m)
      /\ mm'[m].listed <=> m = o \/ mm[m].listed
  BY <1>3, <1>5
<1>7. a \in Obj /\ a # NULL /\ o # NULL
  BY Constants
<1>8. CASE m = o /\ m = a
  BY <1>1, <1>2, <1>4, <1>6, <1>7, <1>8, SMTT(30) DEF Lawful, Has, Kept, Bit, Last
<1>9. CASE m = o /\ m # a
  BY <1>1, <1>2, <1>4, <1>6, <1>7, <1>9, SMTT(30) DEF Lawful, Has, Kept, Bit, Last
<1>10. CASE m = a /\ m # o
  BY <1>1, <1>2, <1>4, <1>6, <1>7, <1>10, SMTT(30) DEF Lawful, Has, Kept, Bit, Last
<1>11. CASE m # o /\ m # a
  BY <1>1, <1>2, <1>4, <1>6, <1>7, <1>11, SMTT(30) DEF Lawful, Has, Kept, Bit, Last
<1> QED
  BY <1>8, <1>9, <1>10, <1>11

\* exec of one of several users: it becomes the user of another.
LEMMA LeavesLawful ==
  ASSUME Struct, Struct', MMOK, NEW t, NEW x, Inside(t, x), NEW m \in Obj, NEW a \in Obj, NEW o \in Obj,
         Leaves(t, x, a, o)
  PROVE  Lawful(t, x, m)
<1>1. /\ mm \in [Obj -> MMs] /\ mm[m].users \in Int /\ mm[m].count \in Int
      /\ mm[m].users = OtherUsers(t, x, m) + Bit(UserOf(t, x), m) + Bit(HeldOf(t), m)
                            + (IF m = init_obj THEN 2 ELSE 0)
      /\ mm[m].count >= Bit(BorrowedOf(t), m) + Kept(t, m)
      /\ mm[m].listed <=> mm[m].users > 0 /\ m # init_obj /\ ~OtherNew(t, m) /\ NewOf(t) # m
      /\ OtherPuts(t, m) \/ PutOf(t) = m => mm[m].users = 0
      /\ PutOf(t) = m => ~OtherPuts(t, m)
      /\ OtherNew(t, m) \/ NewOf(t) = m => mm[m].users = 1
      /\ OtherNew(t, m) => OtherUsers(t, x, m) >= 1
      /\ OtherUsers(t, x, m) \in Nat /\ (OtherPuts(t, m)' <=> OtherPuts(t, m))
      /\ m # NULL
  BY TallyBefore
<1>2. Has(t, x, a, NULL, NULL, NULL, NULL) /\ Has(t, x, o, NULL, NULL, NULL, NULL)'
  BY DEF Leaves
<1>3. /\ NewMM(o, TRUE) \in [Obj -> MMs]
      /\ NewMM(o, TRUE)[m].users = (IF m = o THEN 1 ELSE mm[m].users)
      /\ NewMM(o, TRUE)[m].count = (IF m = o THEN 1 ELSE mm[m].count)
      /\ NewMM(o, TRUE)[m].listed <=> m = o \/ mm[m].listed
  <2>1. /\ NewMM(o, TRUE) \in [Obj -> MMs]
        /\ NewMM(o, TRUE)[m].users = (IF m = o THEN 1 ELSE mm[m].users)
        /\ NewMM(o, TRUE)[m].count = (IF m = o THEN 1 ELSE mm[m].count)
        /\ NewMM(o, TRUE)[m].listed <=> IF m = o THEN TRUE ELSE mm[m].listed
    BY <1>1, NewMMIs
  <2>2. CASE m = o
    BY <2>1, <2>2
  <2>3. CASE m # o
    BY <2>1, <2>3
  <2> QED
    BY <2>2, <2>3
<1>4. m = o => mm[m].users = 0 /\ mm[m].count = 0
  BY DEF Leaves, FreeMM
<1>5. /\ mm'[m].users = NewMM(o, TRUE)[m].users - Bit(a, m)
      /\ mm'[m].count = NewMM(o, TRUE)[m].count
      /\ mm'[m].listed <=> NewMM(o, TRUE)[m].listed /\ (a = m => NewMM(o, TRUE)[m].users # 1)
  <2>1. PICK M : M = NewMM(o, TRUE)
    OBVIOUS
  <2>2. M \in [Obj -> MMs] /\ mm' = mmput_user(M, a)
    BY <1>3, <2>1 DEF Leaves
  <2>3. /\ mmput_user(M, a)[m].users = M[m].users - Bit(a, m)
        /\ mmput_user(M, a)[m].count = M[m].count
        /\ mmput_user(M, a)[m].listed <=> M[m].listed /\ (a = m => M[m].users # 1)
    BY <2>2, MMOps
  <2> QED
    BY <2>1, <2>2, <2>3
<1>6. mm[a].users # 1
  BY DEF Leaves
<1>7. /\ mm'[m].users = (IF m = o THEN 1 ELSE mm[m].users) - Bit(a, m)
      /\ mm'[m].count = (IF m = o THEN 1 ELSE mm[m].count)
      /\ mm'[m].listed <=> (m = o \/ mm[m].listed) /\ (a = m => (IF m = o THEN 1 ELSE mm[m].users) # 1)
  BY <1>3, <1>5
<1>8. a \in Obj /\ a # NULL /\ o # NULL
  BY Constants
<1>9. CASE m = o /\ m = a
  BY <1>1, <1>2, <1>4, <1>6, <1>7, <1>8, <1>9, SMTT(30) DEF Lawful, Has, Kept, Bit, Last
<1>10. CASE m = o /\ m # a
  BY <1>1, <1>2, <1>4, <1>6, <1>7, <1>8, <1>10, SMTT(30) DEF Lawful, Has, Kept, Bit, Last
<1>11. CASE m = a /\ m # o
  BY <1>1, <1>2, <1>4, <1>6, <1>7, <1>8, <1>11, SMTT(30) DEF Lawful, Has, Kept, Bit, Last
<1>12. CASE m # o /\ m # a
  BY <1>1, <1>2, <1>4, <1>6, <1>7, <1>8, <1>12, SMTT(30) DEF Lawful, Has, Kept, Bit, Last
<1> QED
  BY <1>9, <1>10, <1>11, <1>12

\* Lazy TLB mode: a user holds what it borrows.
LEMMA LazyOnLawful ==
  ASSUME Struct, Struct', MMOK, NEW t, NEW x, Inside(t, x), NEW m \in Obj, NEW o \in Obj,
         LazyOn(t, x, o)
  PROVE  Lawful(t, x, m)
<1>1. /\ mm \in [Obj -> MMs] /\ mm[m].users \in Int /\ mm[m].count \in Int
      /\ mm[m].users = OtherUsers(t, x, m) + Bit(UserOf(t, x), m) + Bit(HeldOf(t), m)
                            + (IF m = init_obj THEN 2 ELSE 0)
      /\ mm[m].count >= Bit(BorrowedOf(t), m) + Kept(t, m)
      /\ mm[m].listed <=> mm[m].users > 0 /\ m # init_obj /\ ~OtherNew(t, m) /\ NewOf(t) # m
      /\ OtherPuts(t, m) \/ PutOf(t) = m => mm[m].users = 0
      /\ PutOf(t) = m => ~OtherPuts(t, m)
      /\ OtherNew(t, m) \/ NewOf(t) = m => mm[m].users = 1
      /\ OtherNew(t, m) => OtherUsers(t, x, m) >= 1
      /\ OtherUsers(t, x, m) \in Nat /\ (OtherPuts(t, m)' <=> OtherPuts(t, m))
      /\ m # NULL
  BY TallyBefore
<1>2. Has(t, x, o, NULL, NULL, NULL, NULL) /\ Has(t, x, NULL, o, o, NULL, NULL)'
  BY DEF LazyOn
<1>3. /\ mm'[m].users = mm[m].users /\ mm'[m].count = mm[m].count + Bit(o, m)
      /\ mm'[m].listed <=> mm[m].listed
  BY <1>1, MMOps DEF LazyOn
<1> QED
  BY <1>1, <1>2, <1>3, SMTT(30) DEF Lawful, Has, Kept, Bit, Last

\* Its end: the holder is a user again and borrows nothing.
LEMMA LazyOffLawful ==
  ASSUME Struct, Struct', MMOK, NEW t, NEW x, Inside(t, x), NEW m \in Obj, NEW a \in Obj, NEW o \in Obj,
         LazyOff(t, x, a, o)
  PROVE  Lawful(t, x, m)
<1>1. /\ mm \in [Obj -> MMs] /\ mm[m].users \in Int /\ mm[m].count \in Int
      /\ mm[m].users = OtherUsers(t, x, m) + Bit(UserOf(t, x), m) + Bit(HeldOf(t), m)
                            + (IF m = init_obj THEN 2 ELSE 0)
      /\ mm[m].count >= Bit(BorrowedOf(t), m) + Kept(t, m)
      /\ mm[m].listed <=> mm[m].users > 0 /\ m # init_obj /\ ~OtherNew(t, m) /\ NewOf(t) # m
      /\ OtherPuts(t, m) \/ PutOf(t) = m => mm[m].users = 0
      /\ PutOf(t) = m => ~OtherPuts(t, m)
      /\ OtherNew(t, m) \/ NewOf(t) = m => mm[m].users = 1
      /\ OtherNew(t, m) => OtherUsers(t, x, m) >= 1
      /\ OtherUsers(t, x, m) \in Nat /\ (OtherPuts(t, m)' <=> OtherPuts(t, m))
      /\ m # NULL
  BY TallyBefore
<1>2. Has(t, x, NULL, o, a, NULL, NULL) /\ Has(t, x, o, NULL, NULL, NULL, NULL)'
  BY DEF LazyOff
<1>3. /\ mm'[m].users = mm[m].users /\ mm'[m].count = mm[m].count - Bit(a, m)
      /\ mm'[m].listed <=> mm[m].listed
  BY <1>1, MMOps DEF LazyOff
<1> QED
  BY <1>1, <1>2, <1>3, SMTT(30) DEF Lawful, Has, Kept, Bit, Last

\* So every such step keeps the address spaces counted.
LEMMA TradesKeep ==
  ASSUME Struct, Struct', MMOK, NEW t, NEW x, Inside(t, x), Trades(t, x)
  PROVE  MMOK'
<1>1. ASSUME NEW m \in Obj
      PROVE  Lawful(t, x, m)
  <2>1. CASE Idle(t, x)
    BY <2>1, IdleLawful
  <2>2. ASSUME NEW o \in Obj, Shares(t, x, o) \/ MakesNew(t, x, o) \/ Lists(t, x, o)
        PROVE  Lawful(t, x, m)
    BY <2>2, SharesLawful, MakesNewLawful, ListsLawful
  <2>3. ASSUME NEW o \in Obj, Gives(t, x, o) \/ Returns(t, x, o) \/ EndsPut(t, x, o)
        PROVE  Lawful(t, x, m)
    BY <2>3, GivesLawful, ReturnsLawful, EndsPutLawful
  <2>4. ASSUME NEW o \in Obj, Undoes(t, x, o) \/ Exits(t, x, o) \/ LazyOn(t, x, o)
        PROVE  Lawful(t, x, m)
    BY <2>4, UndoesLawful, ExitsLawful, LazyOnLawful
  <2>5. ASSUME NEW a \in Obj, NEW o \in Obj,
               Settles(t, x, a, o) \/ Leaves(t, x, a, o) \/ LazyOff(t, x, a, o)
        PROVE  Lawful(t, x, m)
    BY <2>5, SettlesLawful, LeavesLawful, LazyOffLawful
  <2> QED
    BY <2>1, <2>2, <2>3, <2>4, <2>5 DEF Trades
<1> QED
  BY <1>1, Tally DEF MMOK

\* Which steps are of this kind.
LEMMA InsideSubject ==
  ASSUME Struct, Struct', NEW t, NEW x, x = Subject(t), Moves(t, x), build' = build,
         Makes(t) => /\ Makes(t)'
                     /\ task'[t].mm = task[t].mm /\ task'[t].active_mm = task[t].active_mm
  PROVE  Inside(t, x)
<1>1. CASE Makes(t)
  <2>1. t \in Task /\ curr = t /\ x = local[t].p /\ local'[t].p = x
    BY <1>1 DEF Subject, Moves
  <2>2. task[x].state = "EMBRYO" /\ task'[x].state = "EMBRYO"
    BY <1>1, <2>1 DEF Struct, ChildOK
  <2> QED
    BY <1>1, <2>2 DEF Inside
<1>2. CASE ~Makes(t)
  BY <1>2 DEF Inside, Subject
<1> QED
  BY <1>1, <1>2

\* A step that leaves the address spaces alone is one.
LEMMA MMSameKeeps ==
  ASSUME Struct, Struct', MMOK, NEW t, NEW x, x = Subject(t), Moves(t, x), build' = build, MMSame(t)
  PROVE  MMOK'
<1>1. t \in Task /\ x \in Task
  BY DEF Moves
<1>2. Inside(t, x)
  <2>1. CASE Makes(t)
    <3>1. x = local[t].p /\ task[x].state = "EMBRYO"
      BY <1>1, <2>1 DEF Subject, Struct, ChildOK
    <3>2. task'[x].state = "EMBRYO"
      BY <1>1, <3>1 DEF MMSame
    <3> QED
      BY <1>1, <3>1, <3>2 DEF Inside, MMSame
  <2>2. CASE ~Makes(t)
    BY <2>2 DEF Inside, Subject
  <2> QED
    BY <2>1, <2>2
<1>3. Idle(t, x)
  BY <1>1 DEF MMSame, Idle, UserOf, HeldOf, BorrowedOf, PutOf, NewOf, Sharing, MMPlaces
<1> QED
  BY <1>2, <1>3, TradesKeep DEF Trades

\* Nor does it matter that a process is made, put on the list, undone or reaped.
LEMMA SetsKept ==
  ASSUME MMOK, mm' = mm, build' = build,
         \A m \in Obj, q \in Task : /\ q \in Users(m)' <=> q \in Users(m)
                                    /\ q \in HeldUsers(m)' <=> q \in HeldUsers(m)
                                    /\ q \in Borrowers(m)' <=> q \in Borrowers(m)
                                    /\ PutOf(q)' = m <=> PutOf(q) = m
                                    /\ NewOf(q)' = m <=> NewOf(q) = m
  PROVE  MMOK'
<1>1. ASSUME NEW m \in Obj
      PROVE  MMGood(m)'
  <2>0. m # NULL
    BY Constants
  <2>1. PICK U, H, B, V, I, C :
          /\ U = Users(m) /\ H = HeldUsers(m) /\ B = Borrowers(m)
          /\ V = Users(m)' /\ I = HeldUsers(m)' /\ C = Borrowers(m)'
    OBVIOUS
  <2>2. /\ U \subseteq Task /\ H \subseteq Task /\ B \subseteq Task
        /\ V \subseteq Task /\ I \subseteq Task /\ C \subseteq Task
    BY <2>1 DEF Users, HeldUsers, Borrowers
  <2>3. \A q \in Task : (q \in V <=> q \in U) /\ (q \in I <=> q \in H) /\ (q \in C <=> q \in B)
    BY <2>1
  <2>4. V = U /\ I = H /\ C = B
    BY <2>2, <2>3
  <2>5. Total(m)' = Total(m) /\ Cardinality(Borrowers(m)') = Cardinality(Borrowers(m))
    BY <2>1, <2>4 DEF Total
  <2>6. \A q \in Task : (PutOf(q)' = m <=> PutOf(q) = m) /\ (NewOf(q)' = m <=> NewOf(q) = m)
    OBVIOUS
  <2>7. /\ Putting(m) <=> \E q \in Task : PutOf(q) = m
        /\ Putting(m)' <=> \E q \in Task : PutOf(q)' = m
        /\ New(m) <=> \E q \in Task : NewOf(q) = m
        /\ New(m)' <=> \E q \in Task : NewOf(q)' = m
    BY <2>0 DEF Putting, PutOf, New, NewOf
  <2>8. (Putting(m)' <=> Putting(m)) /\ (New(m)' <=> New(m))
    BY <2>6, <2>7
  <2>9. /\ Alone(m) <=> \A q \in Task : PutOf(q) = m => ~ \E u \in Task \ {q} : PutOf(u) = m
        /\ Alone(m)' <=> \A q \in Task : PutOf(q)' = m => ~ \E u \in Task \ {q} : PutOf(u)' = m
    BY <2>0 DEF Alone, OtherPuts, PutOf
  <2>10. Alone(m)' <=> Alone(m)
    BY <2>6, <2>9
  <2>11. Keepers(m)' = Keepers(m)
    BY <2>5, <2>8 DEF Keepers
  <2>12. MMGood(m)
    BY DEF MMOK
  <2>13. MMCount(m)'
    BY <2>5, <2>8, <2>11, <2>12 DEF MMCount, MMGood
  <2> QED
    BY <2>5, <2>8, <2>10, <2>12, <2>13 DEF MMGood
<1> QED
  BY <1>1 DEF MMOK

\* Who has what of an address space, besides t and x.
LEMMA UsersMove ==
  ASSUME Struct, Struct', NEW t, NEW x, Moves(t, x), NEW m \in Obj, NEW q \in Task \ {t, x}
  PROVE  /\ q \in Users(m)' <=> q \in Users(m)
         /\ q \in HeldUsers(m)' <=> q \in HeldUsers(m)
         /\ q \in Borrowers(m)' <=> q \in Borrowers(m)
         /\ PutOf(q)' = m <=> PutOf(q) = m
         /\ NewOf(q)' = m <=> NewOf(q) = m
<1>1. task'[q] = task[q] /\ pc'[q] = pc[q] /\ local'[q].mm = local[q].mm
  BY DEF Moves, Same
<1>2. Users(m)' = {u \in Task : /\ task'[u].mm = m
                                /\ task'[u].state = "EMBRYO" =>
                                     pc'[Maker(u)'] \in {"copy_thread", "link", "bad_fork_mm"}}
  BY DEF Users
<1>3. q \in Users(m)' <=> q \in Users(m)
  <2>1. CASE task[q].state = "EMBRYO"
    <3>1. pc'[Maker(q)'] = pc[Maker(q)]
      BY <2>1, OtherMaker
    <3> QED
      BY <1>1, <1>2, <3>1 DEF Users
  <2>2. CASE task[q].state # "EMBRYO"
    BY <1>1, <1>2, <2>2 DEF Users
  <2> QED
    BY <2>1, <2>2
<1>4. /\ q \in HeldUsers(m)' <=> q \in HeldUsers(m)
      /\ q \in Borrowers(m)' <=> q \in Borrowers(m)
      /\ PutOf(q)' = m <=> PutOf(q) = m
      /\ NewOf(q)' = m <=> NewOf(q) = m
  BY <1>1 DEF HeldUsers, Borrowers, PutOf, NewOf
<1> QED
  BY <1>3, <1>4

\* The processes that such a step is about.
LEMMA EdgeKeeps ==
  ASSUME Struct, Struct', MMOK, NEW t \in Task, NEW p \in Task, Moves(t, p), p # t, build' = build,
         mm' = mm, task'[t] = task[t], pc[t] \notin MMPlaces \ Sharing, pc'[t] \notin MMPlaces,
         pc[p] \notin MMPlaces, pc'[p] \notin MMPlaces,
         \/ /\ task[p].mm = NULL \/ (task[p].state = "EMBRYO" /\ pc[t] \notin Sharing)
            /\ task'[p].mm = NULL \/ task'[p].state = "EMBRYO"
         \/ /\ task[p].state = "EMBRYO" /\ pc[t] \in Sharing
            /\ task'[p].state # "EMBRYO" /\ task'[p].mm = task[p].mm,
         task[p].state = "EMBRYO" \/ task[p].mm # NULL \/ task[p].active_mm = NULL,
         task'[p].state = "EMBRYO" \/ task'[p].mm # NULL \/ task'[p].active_mm = NULL
  PROVE  MMOK'
<1>1. /\ task[t].state # "EMBRYO" /\ task'[t].state # "EMBRYO"
      /\ task[p].state = "EMBRYO" => Maker(p) = t
      /\ task'[p].state = "EMBRYO" => Maker(p)' = t
  BY OwnMaker
<1>2. ASSUME NEW m \in Obj, NEW q \in Task
      PROVE  /\ q \in Users(m)' <=> q \in Users(m)
             /\ q \in HeldUsers(m)' <=> q \in HeldUsers(m)
             /\ q \in Borrowers(m)' <=> q \in Borrowers(m)
             /\ PutOf(q)' = m <=> PutOf(q) = m
             /\ NewOf(q)' = m <=> NewOf(q) = m
  <2>1. m # NULL
    BY Constants
  <2>2. CASE q \notin {t, p}
    BY <2>2, UsersMove
  <2>3. CASE q = t
    <3>1. /\ q \in Users(m)' <=> q \in Users(m)
          /\ q \in Borrowers(m)' <=> q \in Borrowers(m)
      BY <1>1, <2>3 DEF Users, Borrowers
    <3>2. /\ q \notin HeldUsers(m) /\ q \notin HeldUsers(m)'
          /\ PutOf(q) = NULL /\ PutOf(q)' = NULL /\ NewOf(q) = NULL /\ NewOf(q)' = NULL
      BY <2>3 DEF HeldUsers, PutOf, NewOf, MMPlaces, Sharing
    <3> QED
      BY <2>1, <3>1, <3>2
  <2>4. CASE q = p
    <3>1. Users(m)' = {u \in Task : /\ task'[u].mm = m
                                    /\ task'[u].state = "EMBRYO" =>
                                         pc'[Maker(u)'] \in {"copy_thread", "link", "bad_fork_mm"}}
      BY DEF Users
    <3>2. q \in Users(m)' <=> q \in Users(m)
      BY <1>1, <2>1, <2>4, <3>1 DEF Users, Sharing, MMPlaces
    <3>3. q \notin Borrowers(m)' /\ q \notin Borrowers(m)
      BY <2>1, <2>4 DEF Borrowers
    <3>4. /\ q \notin HeldUsers(m) /\ q \notin HeldUsers(m)'
          /\ PutOf(q) = NULL /\ PutOf(q)' = NULL /\ NewOf(q) = NULL /\ NewOf(q)' = NULL
      BY <2>4 DEF HeldUsers, PutOf, NewOf, MMPlaces, Sharing
    <3> QED
      BY <2>1, <3>2, <3>3, <3>4
  <2> QED
    BY <2>2, <2>3, <2>4
<1> QED
  BY <1>2, SetsKept

\* What a copy in do_fork has of address spaces is not counted.
LEMMA ForkMM ==
  ASSUME Struct, Struct', MMOK, NEW t \in Task, NEW p \in Task, Forked(t, p), build' = build
  PROVE  MMOK'
<1>1. /\ Moves(t, p) /\ p # t /\ task[p] = FreeTask /\ task'[p].state = "EMBRYO" /\ mm' = mm
      /\ task'[t] = task[t] /\ pc[t] = "user" /\ pc'[t] = "copy_files"
  BY DEF Forked
<1>2. pc[p] = "none" /\ pc'[p] = "none"
  BY <1>1, Records DEF Struct, StateOK
<1> QED
  BY <1>1, <1>2, Records, EdgeKeeps DEF MMPlaces, Sharing

\* What a child has when it is put on the list was counted by copy_mm.
LEMMA LinkMM ==
  ASSUME Struct, Struct', MMOK, NEW t \in Task, NEW p \in Task, Linked(t, p), build' = build
  PROVE  MMOK'
<1>1. /\ Moves(t, p) /\ p # t /\ task[p].state = "EMBRYO" /\ task'[p].state = "RUNNING" /\ mm' = mm
      /\ task'[p].mm = task[p].mm /\ task'[p].active_mm = task[p].mm
      /\ task'[t] = task[t] /\ pc[t] = "link" /\ pc'[t] \in {"user", "vfork"}
  BY DEF Linked
<1>2. pc[p] = "none"
  BY <1>1 DEF Struct, StateOK
<1>3. pc'[p] \notin MMPlaces
  BY DEF Linked, MMPlaces, Sharing
<1> QED
  BY <1>1, <1>2, <1>3, EdgeKeeps DEF MMPlaces, Sharing

\* A child that a failed fork frees has no address space that is counted.
LEMMA BadForkMMs ==
  ASSUME Struct, Struct', MMOK, NEW t \in Task, NEW p \in Task, Undone(t, p), build' = build
  PROVE  MMOK'
<1>1. /\ Moves(t, p) /\ p # t /\ task[p].state = "EMBRYO" /\ task'[p] = FreeTask /\ mm' = mm
      /\ task'[t] = task[t] /\ pc[t] = "bad_fork" /\ pc'[t] = "user"
  BY DEF Undone
<1>2. pc[p] = "none" /\ pc'[p] = "none"
  BY <1>1, Records DEF Struct, StateOK
<1> QED
  BY <1>1, <1>2, Records, EdgeKeeps DEF MMPlaces, Sharing

\* A process that is reaped has none.
LEMMA ReleaseMM ==
  ASSUME Struct, Struct', MMOK, NEW t \in Task, NEW p \in Task, Reaped(t, p), build' = build
  PROVE  MMOK'
<1>1. /\ Moves(t, p) /\ p # t /\ task[p].state = "ZOMBIE" /\ task'[p] = FreeTask /\ mm' = mm
      /\ pc[p] = "dead" /\ task'[t] = task[t] /\ pc[t] = "user" /\ pc'[t] = "user"
  BY DEF Reaped
<1>2. pc'[p] = "none"
  BY <1>1, Records DEF Struct, StateOK
<1>3. task[p].mm = NULL /\ task[p].active_mm = NULL
  <2>1. StateOK(p) /\ ActiveOK(p) /\ curr # p
    BY <1>1 DEF Struct, Moves
  <2> QED
    BY <1>1, <2>1 DEF StateOK, ActiveOK, Ending, Living
<1> QED
  BY <1>1, <1>2, <1>3, Records, EdgeKeeps DEF MMPlaces, Sharing

\* context_switch moves the borrowed address space from one kernel thread to the next.
LEMMA SwitchCounts ==
  ASSUME Struct, NEW prev \in Task, NEW next \in Task, Switch(prev, next), NEW m \in Obj,
         NEW old, old = task[prev].active_mm
  PROVE  /\ mm'[m].users = mm[m].users /\ (mm'[m].listed <=> mm[m].listed)
         /\ mm'[m].count = mm[m].count
                             + (IF task[next].mm = NULL THEN Bit(old, m) ELSE 0)
                             - (IF task[prev].mm = NULL THEN Bit(old, m) ELSE 0)
<1>1. old \in Obj
  BY SwitchEffect
<1>2. mm \in [Obj -> MMs]
  BY DEF Struct, Shape
<1>3. PICK M : M = IF task[next].mm = NULL THEN GrabMM(mm, old) ELSE mm
  OBVIOUS
<1>4. mm' = IF task[prev].mm = NULL THEN mmdrop(M, old) ELSE M
  BY <1>3, Zenon DEF Switch, context_switch
<1>5. PICK g, d : /\ g = (IF task[next].mm = NULL THEN Bit(old, m) ELSE 0)
                  /\ d = (IF task[prev].mm = NULL THEN Bit(old, m) ELSE 0)
  OBVIOUS
<1>6. M \in [Obj -> MMs] /\ M[m].users = mm[m].users /\ M[m].count = mm[m].count + g
  <2>1. CASE task[next].mm = NULL
    <3>1. M = GrabMM(mm, old) /\ g = Bit(old, m)
      BY <1>3, <1>5, <2>1
    <3>2. GrabMM(mm, old) \in [Obj -> MMs]
      BY <1>1, <1>2, MMKeeps
    <3>3. GrabMM(mm, old)[m].users = mm[m].users /\ GrabMM(mm, old)[m].count = mm[m].count + Bit(old, m)
      BY <1>1, <1>2, MMOps
    <3> QED
      BY <3>1, <3>2, <3>3
  <2>2. CASE task[next].mm # NULL
    <3>1. M = mm /\ mm[m].count \in Int /\ g = 0
      BY <1>2, <1>3, <1>5, <2>2 DEF MMs
    <3> QED
      BY <1>2, <3>1
  <2> QED
    BY <2>1, <2>2
<1>7. M[m].listed <=> mm[m].listed
  <2>1. CASE task[next].mm = NULL
    <3>1. M = GrabMM(mm, old)
      BY <1>3, <2>1
    <3>2. GrabMM(mm, old)[m].listed <=> mm[m].listed
      BY <1>1, <1>2, MMOps
    <3> QED
      BY <3>1, <3>2
  <2>2. CASE task[next].mm # NULL
    BY <1>3, <2>2
  <2> QED
    BY <2>1, <2>2
<1>8. /\ mm'[m].users = M[m].users /\ mm'[m].count = M[m].count - d
      /\ mm'[m].listed <=> M[m].listed
  <2>1. CASE task[prev].mm = NULL
    <3>1. mm' = mmdrop(M, old) /\ d = Bit(old, m)
      BY <1>4, <1>5, <2>1
    <3>2. /\ mmdrop(M, old)[m].users = M[m].users
          /\ mmdrop(M, old)[m].count = M[m].count - Bit(old, m)
          /\ mmdrop(M, old)[m].listed <=> M[m].listed
      BY <1>1, <1>6, MMOps
    <3> QED
      BY <3>1, <3>2
  <2>2. CASE task[prev].mm # NULL
    <3>1. mm' = M /\ M[m].count \in Int /\ d = 0
      BY <1>4, <1>5, <1>6, <2>2 DEF MMs
    <3> QED
      BY <3>1
  <2> QED
    BY <2>1, <2>2
<1>9. mm'[m].users = mm[m].users /\ mm'[m].count = mm[m].count + g - d
  <2>1. mm[m].count \in Int /\ g \in Int /\ d \in Int
    BY <1>2, <1>5 DEF MMs, Bit
  <2> QED
    BY <1>6, <1>8, <2>1
<1>10. mm'[m].listed <=> mm[m].listed
  BY <1>7, <1>8
<1> QED
  BY <1>5, <1>9, <1>10

\* And so do the borrowers.
LEMMA SwitchBorrowers ==
  ASSUME Struct, NEW prev \in Task, NEW next \in Task, Switch(prev, next), NEW m \in Obj,
         NEW old, old = task[prev].active_mm
  PROVE  Cardinality(Borrowers(m)') = Cardinality(Borrowers(m))
                             + (IF task[next].mm = NULL THEN Bit(old, m) ELSE 0)
                             - (IF task[prev].mm = NULL THEN Bit(old, m) ELSE 0)
<1>1. /\ curr = prev /\ next # prev /\ task[next].state = "RUNNING" /\ task[prev].state \in Living
      /\ \A u \in Task : task'[u].state = task[u].state /\ task'[u].mm = task[u].mm
      /\ \A u \in Task \ {prev, next} : task'[u] = task[u]
      /\ task'[prev].active_mm = IF task[prev].mm = NULL THEN NULL ELSE task[prev].active_mm
      /\ task'[next].active_mm = IF task[next].mm = NULL THEN task[prev].active_mm
                                                          ELSE task[next].active_mm
  BY SwitchEffect
<1>2. task[next].mm = NULL => task[next].active_mm = NULL
  BY <1>1 DEF Struct, ActiveOK, Living
<1>3. m # NULL
  BY Constants
<1>4. PICK B, C : B = Borrowers(m) /\ C = Borrowers(m)'
  OBVIOUS
<1>5. B \subseteq Task /\ C \subseteq Task
  BY <1>4 DEF Borrowers
<1>6. \A u \in Task \ {prev, next} : u \in C <=> u \in B
  BY <1>1, <1>4 DEF Borrowers
<1>7. /\ next \notin B
      /\ next \in C <=> task[next].mm = NULL /\ old = m
      /\ prev \in B <=> task[prev].mm = NULL /\ old = m
      /\ prev \notin C
  BY <1>1, <1>2, <1>3, <1>4 DEF Borrowers, Living
<1>8. PICK D : D = B \ {prev}
  OBVIOUS
<1>9. D \subseteq Task /\ \A u \in Task \ {next} : u \in C <=> u \in D
  BY <1>1, <1>5, <1>6, <1>7, <1>8
<1>10. C \ {next} = D
  BY <1>5, <1>7, <1>8, <1>9
<1>11. /\ Cardinality(C \ {next}) \in Nat
       /\ Cardinality(C) = Cardinality(C \ {next}) + (IF next \in C THEN 1 ELSE 0)
  BY <1>5, Others
<1>12. /\ Cardinality(B \ {prev}) \in Nat
       /\ Cardinality(B) = Cardinality(B \ {prev}) + (IF prev \in B THEN 1 ELSE 0)
  BY <1>5, Others
<1>13. Cardinality(D) \in Nat /\ Cardinality(C) = Cardinality(D) + (IF next \in C THEN 1 ELSE 0)
       /\ Cardinality(B) = Cardinality(D) + (IF prev \in B THEN 1 ELSE 0)
  BY <1>8, <1>10, <1>11, <1>12
<1> QED
  BY <1>4, <1>7, <1>13 DEF Bit

\* So context_switch keeps the address spaces counted.
LEMMA SwitchMM ==
  ASSUME Struct, MMOK, NEW prev \in Task, NEW next \in Task, Switch(prev, next)
  PROVE  MMOK'
<1>1. /\ UNCHANGED << pc, local, build >> /\ mm \in [Obj -> MMs] /\ mm' \in [Obj -> MMs]
      /\ \A u \in Task : task'[u].state = task[u].state /\ task'[u].mm = task[u].mm
  BY SwitchEffect DEF Struct, Shape
<1>2. \A q : Maker(q)' = Maker(q)
  BY <1>1 DEF Maker
<1>3. ASSUME NEW m \in Obj
      PROVE  MMGood(m)'
  <2>1. PICK old : old = task[prev].active_mm
    OBVIOUS
  <2>2. Users(m)' = Users(m)
    <3>1. PICK U, V : U = Users(m) /\ V = Users(m)'
      OBVIOUS
    <3>2. U \subseteq Task /\ V \subseteq Task
      BY <3>1 DEF Users
    <3>3. \A q \in Task : q \in V <=> q \in U
      BY <1>1, <1>2, <3>1 DEF Users
    <3>4. V = U
      BY <3>2, <3>3
    <3> QED
      BY <3>1, <3>4
  <2>3. HeldUsers(m)' = HeldUsers(m)
    BY <1>1 DEF HeldUsers
  <2>4. Total(m)' = Total(m)
    BY <2>2, <2>3 DEF Total
  <2>5. /\ Putting(m)' <=> Putting(m)
        /\ New(m)' <=> New(m)
        /\ Alone(m)' <=> Alone(m)
    BY <1>1 DEF Putting, New, Alone, PutOf, OtherPuts
  <2>6. /\ mm'[m].users = mm[m].users /\ (mm'[m].listed <=> mm[m].listed)
        /\ mm'[m].count = mm[m].count
                            + (IF task[next].mm = NULL THEN Bit(old, m) ELSE 0)
                            - (IF task[prev].mm = NULL THEN Bit(old, m) ELSE 0)
    BY <2>1, SwitchCounts
  <2>7. Cardinality(Borrowers(m)') = Cardinality(Borrowers(m))
                            + (IF task[next].mm = NULL THEN Bit(old, m) ELSE 0)
                            - (IF task[prev].mm = NULL THEN Bit(old, m) ELSE 0)
    BY <2>1, SwitchBorrowers
  <2>8. Cardinality(Borrowers(m)) \in Nat
    <3>1. PICK B : B = Borrowers(m)
      OBVIOUS
    <3>2. B \subseteq Task
      BY <3>1 DEF Borrowers
    <3> QED
      BY <3>1, <3>2, Countable
  <2>9. MMGood(m) /\ mm[m].count \in Int
    BY <1>1 DEF MMOK, MMs
  <2>10. PICK k, g, d : /\ k = (IF Total(m) > 0 \/ Putting(m) THEN 1 ELSE 0)
                        /\ g = (IF task[next].mm = NULL THEN Bit(old, m) ELSE 0)
                        /\ d = (IF task[prev].mm = NULL THEN Bit(old, m) ELSE 0)
    OBVIOUS
  <2>11. k \in Int /\ g \in Int /\ d \in Int
    BY <2>10 DEF Bit
  <2>12. /\ Keepers(m) = Cardinality(Borrowers(m)) + k
         /\ Keepers(m)' = Cardinality(Borrowers(m)') + k
    BY <2>4, <2>5, <2>10 DEF Keepers
  <2>13. Keepers(m)' = Keepers(m) + g - d /\ mm'[m].count = mm[m].count + g - d
         /\ Keepers(m) \in Int
    BY <2>6, <2>7, <2>8, <2>9, <2>10, <2>11, <2>12
  <2>14. MMCount(m)'
    BY <1>1, <2>4, <2>5, <2>6, <2>9, <2>11, <2>13 DEF MMGood, MMCount
  <2> QED
    BY <2>4, <2>5, <2>9, <2>14 DEF MMGood
<1> QED
  BY <1>3 DEF MMOK

\* What each of these steps does with the address spaces.
LEMMA CopyMMCounts ==
  ASSUME Struct, Struct', MMOK, NEW t \in Task, CopyMM(t)
  PROVE  MMOK'
<1>1. curr = t /\ pc[t] = "copy_mm" /\ build' = build /\ Shape
  BY DEF Struct, CopyMM, At
<1>2. Makes(t)
  BY <1>1 DEF Makes, Forking
<1>3. PICK p : p = local[t].p
  OBVIOUS
<1>4. p \in Task /\ p # t /\ p = Subject(t)
  BY <1>1, <1>2, <1>3, Child DEF Subject
<1>5. LocalOK(t) /\ ActiveOK(t) /\ task[t].state \in Living
  BY <1>1, Acting
<1>6. task \in [Task -> TaskStructs] /\ pc \in [Task -> PCs] /\ local \in [Task -> Locals]
  BY <1>1 DEF Shape
<1>7. PICK old : old = task[t].mm
  OBVIOUS
<1>8. old \in Ref /\ NULL \in Ref /\ "copy_thread" \in PCs /\ "bad_fork_sighand" \in PCs
      /\ "dup_mmap" \in PCs
  BY <1>6, <1>7 DEF TaskStructs, Ref, PCs
<1>9. PICK m : m = CHOOSE o \in FreeMMs : TRUE
  OBVIOUS
<1> DEFINE Share == SetMM(p, old) /\ mm' = GrabUser(mm, old)
                      /\ local' = local /\ Goto(t, "copy_thread")
           Make  == FreeMMs # {} /\ SetMM(p, NULL)
                      /\ mm' = [mm EXCEPT ![m] = [users |-> 1, count |-> 1, listed |-> FALSE]]
                      /\ local' = [local EXCEPT ![t].mm = m] /\ Goto(t, "dup_mmap")
           None(next) == SetMM(p, NULL) /\ UNCHANGED << mm, local >> /\ Goto(t, next)
<1>10. \/ None("copy_thread") \/ None("bad_fork_sighand")
       \/ old # NULL /\ Share
       \/ old # NULL /\ Make
  BY <1>3, <1>7, <1>9, Zenon DEF CopyMM
<1>11. /\ UserOf(t, p) = NULL /\ HeldOf(t) = NULL /\ PutOf(t) = NULL /\ NewOf(t) = NULL
       /\ BorrowedOf(t) = (IF old = NULL THEN task[t].active_mm ELSE NULL)
       /\ local[t].mm = NULL
  BY <1>1, <1>4, <1>5, <1>7 DEF UserOf, HeldOf, PutOf, NewOf, BorrowedOf, Sharing, LocalOK
<1> DEFINE Done == /\ task'[t] = task[t] /\ pc'[t] \in {"copy_thread", "bad_fork_sighand", "dup_mmap"}
                   /\ Idle(t, p) \/ \E o \in Obj : Shares(t, p, o) \/ MakesNew(t, p, o)
<1>12. ASSUME NEW next \in {"copy_thread", "bad_fork_sighand"}, None(next)
       PROVE  Done
  <2>1. next \in PCs /\ SetMM(p, NULL) /\ Goto(t, next)
    BY <1>8, <1>12
  <2>2. task'[t] = task[t] /\ task'[p].mm = NULL
    BY <1>4, <1>6, <1>8, <2>1, SetMMKeeps
  <2>3. pc'[t] = next /\ mm' = mm /\ local' = local
    BY <1>6, <1>12, <2>1, GotoKeeps
  <2>4. Idle(t, p)
    BY <1>1, <1>4, <1>11, <2>2, <2>3 DEF Idle, UserOf, HeldOf, PutOf, NewOf, BorrowedOf, Sharing
  <2> QED
    BY <2>2, <2>3, <2>4
<1>13. ASSUME old # NULL /\ Share
       PROVE  Done
  <2>1. SetMM(p, old) /\ Goto(t, "copy_thread") /\ old \in Obj
    BY <1>8, <1>13 DEF Ref
  <2>2. task'[t] = task[t] /\ task'[p].mm = old
    BY <1>4, <1>6, <1>8, <2>1, SetMMKeeps
  <2>3. pc'[t] = "copy_thread" /\ mm' = GrabUser(mm, old) /\ local' = local
    BY <1>6, <1>8, <1>13, <2>1, GotoKeeps
  <2>4. /\ UserOf(t, p)' = old /\ HeldOf(t)' = NULL /\ PutOf(t)' = NULL /\ NewOf(t)' = NULL
        /\ BorrowedOf(t)' = NULL
    BY <1>4, <1>7, <1>13, <2>2, <2>3 DEF UserOf, HeldOf, PutOf, NewOf, BorrowedOf, Sharing
  <2>5. Shares(t, p, old)
    BY <1>4, <1>7, <1>11, <1>13, <2>3, <2>4 DEF Shares, Has
  <2> QED
    BY <2>1, <2>2, <2>3, <2>5
<1>14. ASSUME old # NULL /\ Make
       PROVE  Done
  <2>1. SetMM(p, NULL) /\ Goto(t, "dup_mmap") /\ m \in Obj /\ m \in Ref /\ mm[m] = FreeMM
    BY <1>9, <1>14 DEF FreeMMs, Ref
  <2>2. task'[t] = task[t] /\ task'[p].mm = NULL
    BY <1>4, <1>6, <1>8, <2>1, SetMMKeeps
  <2>3. pc'[t] = "dup_mmap" /\ mm' = NewMM(m, FALSE)
    BY <1>6, <1>8, <1>14, <2>1, GotoKeeps DEF NewMM
  <2>4. local'[t].mm = m
    BY <1>6, <1>14, <2>1, LocalMMKeeps
  <2>5. /\ UserOf(t, p)' = NULL /\ HeldOf(t)' = m /\ PutOf(t)' = NULL /\ NewOf(t)' = m
        /\ BorrowedOf(t)' = NULL
    BY <1>4, <1>7, <1>14, <2>2, <2>3, <2>4 DEF UserOf, HeldOf, PutOf, NewOf, BorrowedOf, Sharing
  <2>6. MakesNew(t, p, m)
    BY <1>4, <1>7, <1>11, <1>14, <2>1, <2>3, <2>5 DEF MakesNew, Has
  <2> QED
    BY <2>1, <2>2, <2>3, <2>6
<1> HIDE DEF None, Share, Make, Done
<1>15. Done
  <2>1. CASE None("copy_thread")
    BY <1>12, <2>1
  <2>2. CASE None("bad_fork_sighand")
    BY <1>12, <2>2
  <2> QED
    BY <1>10, <1>13, <1>14, <2>1, <2>2
<1> USE DEF Done
<1>16. Makes(t)' /\ Trades(t, p)
  BY <1>15 DEF Makes, Forking, Trades
<1>17. Moves(t, p)
  BY <1>4, CopyMMKeeps
<1>18. Inside(t, p)
  BY <1>1, <1>4, <1>15, <1>16, <1>17, InsideSubject
<1> QED
  BY <1>16, <1>18, TradesKeep

\* dup_mmap puts the new address space on mmlist.
LEMMA DupMmapCounts ==
  ASSUME Struct, Struct', MMOK, NEW t \in Task, DupMmap(t)
  PROVE  MMOK'
<1>1. /\ curr = t /\ pc[t] = "dup_mmap" /\ Goto(t, "dup_vmas") /\ Shape
      /\ UNCHANGED << curr, task, local, build >>
  BY DEF Struct, DupMmap, At
<1>2. Makes(t)
  BY <1>1 DEF Makes, Forking
<1>3. PICK p, o : p = Subject(t) /\ o = local[t].mm
  OBVIOUS
<1>4. p \in Task /\ p # t
  BY <1>1, <1>2, <1>3, Child DEF Subject
<1>5. o \in Obj
  BY <1>1, <1>3, Acting DEF LocalOK, Locals, Ref
<1>6. pc'[t] = "dup_vmas"
  <2>1. "dup_vmas" \in PCs /\ pc \in [Task -> PCs]
    BY <1>1 DEF PCs, Shape
  <2> QED
    BY <1>1, <2>1, GotoKeeps
<1>7. mm' = [mm EXCEPT ![o].listed = TRUE]
  BY <1>3 DEF DupMmap
<1>8. \E b : Has(t, p, NULL, o, b, NULL, o) /\ Has(t, p, NULL, o, b, NULL, NULL)'
  BY <1>1, <1>3, <1>4, <1>6 DEF Has, UserOf, HeldOf, PutOf, NewOf, BorrowedOf, Sharing
<1>9. Lists(t, p, o)
  BY <1>7, <1>8 DEF Lists
<1>10. Makes(t)'
  BY <1>6 DEF Makes, Forking
<1>11. Inside(t, p)
  BY <1>1, <1>3, <1>10, DupMmapKeeps, InsideSubject
<1> QED
  BY <1>5, <1>9, <1>11, TradesKeep DEF Trades

\* It gives it to the child, or puts it.
LEMMA DupVmasCounts ==
  ASSUME Struct, Struct', MMOK, NEW t \in Task, DupVmas(t)
  PROVE  MMOK'
<1>1. /\ curr = t /\ pc[t] = "dup_vmas" /\ Shape /\ build' = build
  BY DEF Struct, DupVmas, At
<1>2. Makes(t)
  BY <1>1 DEF Makes, Forking
<1>3. PICK p, o : p = local[t].p /\ o = local[t].mm
  OBVIOUS
<1>4. p \in Task /\ p # t /\ p = Subject(t)
  BY <1>1, <1>2, <1>3, Child DEF Subject
<1>5. o \in Obj /\ o \in Ref /\ NULL \in Ref
  BY <1>1, <1>3, Acting DEF LocalOK, Locals, Ref
<1>6. /\ task \in [Task -> TaskStructs] /\ pc \in [Task -> PCs] /\ local \in [Task -> Locals]
      /\ mm \in [Obj -> MMs] /\ "copy_thread" \in PCs /\ "bad_fork_sighand" \in PCs
  BY <1>1 DEF Shape, PCs
<1>7. PICK b : b = BorrowedOf(t)
  OBVIOUS
<1>8. Has(t, p, NULL, o, b, NULL, NULL)
  BY <1>1, <1>3, <1>4, <1>7 DEF Has, UserOf, HeldOf, PutOf, NewOf, Sharing
<1>9. ASSUME SetMM(p, o), local' = [local EXCEPT ![t].mm = NULL], Goto(t, "copy_thread"), mm' = mm
      PROVE  task'[t] = task[t] /\ Makes(t)' /\ Trades(t, p)
  <2>1. task'[t] = task[t] /\ task'[p].mm = o
    BY <1>4, <1>5, <1>6, <1>9, SetMMKeeps
  <2>2. pc'[t] = "copy_thread"
    BY <1>6, <1>9, GotoKeeps
  <2>3. Has(t, p, o, NULL, b, NULL, NULL)'
    BY <1>4, <1>7, <2>1, <2>2 DEF Has, UserOf, HeldOf, PutOf, NewOf, Sharing, BorrowedOf
  <2>4. Gives(t, p, o)
    BY <1>8, <1>9, <2>3 DEF Gives
  <2> QED
    BY <1>5, <2>1, <2>2, <2>4 DEF Trades, Makes, Forking
<1>10. ASSUME PutMM(t, mm, o, "bad_fork_sighand", local), task' = task
       PROVE  task'[t] = task[t] /\ Makes(t)' /\ Trades(t, p)
  <2>1. \/ pc'[t] = "mmput" /\ local'[t].then = "bad_fork_sighand" /\ local'[t].mm = o
        \/ pc'[t] = "bad_fork_sighand" /\ local'[t].mm = NULL
    BY <1>5, <1>6, <1>10, PutKeeps
  <2>2. pc'[t] = IF mm[o].users = 1 THEN "mmput" ELSE "bad_fork_sighand"
    BY <1>6, <1>10 DEF PutMM, LastUser, Goto
  <2>3. \E q : q = Last(o) /\ Has(t, p, NULL, NULL, b, q, NULL)'
    BY <1>4, <1>7, <1>10, <2>1, <2>2 DEF Last, Has, UserOf, HeldOf, PutOf, NewOf, Sharing, BorrowedOf
  <2>4. mm' = mmput_user(mm, o)
    BY <1>10 DEF PutMM
  <2>5. Returns(t, p, o)
    BY <1>8, <2>3, <2>4 DEF Returns
  <2> QED
    BY <1>5, <1>10, <2>1, <2>5 DEF Trades, Makes, Forking
<1>11. task'[t] = task[t] /\ Makes(t)' /\ Trades(t, p)
  BY <1>3, <1>9, <1>10 DEF DupVmas
<1>12. Inside(t, p)
  BY <1>1, <1>4, <1>11, DupVmasKeeps, InsideSubject
<1> QED
  BY <1>11, <1>12, TradesKeep

\* mmput ends with mmdrop.
LEMMA MMPutCounts ==
  ASSUME Struct, Struct', MMOK, NEW t \in Task, MMPut(t)
  PROVE  MMOK'
<1>1. /\ curr = t /\ pc[t] = "mmput" /\ Shape /\ Goto(t, local[t].then)
      /\ UNCHANGED << curr, task, build >>
  BY DEF Struct, MMPut, At
<1>2. PICK x, o, then : x = Subject(t) /\ o = local[t].mm /\ then = local[t].then
  OBVIOUS
<1>3. LocalOK(t) /\ local[t] \in Locals
  BY <1>1, Acting
<1>4. /\ o \in Obj /\ then \in {"bad_fork_sighand", "exit_files", "daemonize_fs", "user"}
      /\ then \in PCs
  BY <1>1, <1>2, <1>3 DEF LocalOK, Locals, Ref, PCs
<1>5. pc'[t] = then
  BY <1>1, <1>2, <1>4, GotoKeeps DEF Shape
<1>6. mm' = mmdrop(mm, o)
  BY <1>2 DEF MMPut
<1>7. PICK u, b : u = UserOf(t, x) /\ b = BorrowedOf(t)
  OBVIOUS
<1>8. Has(t, x, u, NULL, b, o, NULL)
  BY <1>1, <1>2, <1>7 DEF Has, HeldOf, PutOf, NewOf
<1>9. Has(t, x, u, NULL, b, NULL, NULL)'
  <2>1. UserOf(t, x)' = u
    BY <1>1, <1>4, <1>5, <1>7 DEF UserOf, Sharing
  <2>2. BorrowedOf(t)' = b
    BY <1>1, <1>7 DEF BorrowedOf
  <2> QED
    BY <1>4, <1>5, <1>7, <2>1, <2>2 DEF Has, HeldOf, PutOf, NewOf
<1>10. EndsPut(t, x, o)
  BY <1>6, <1>8, <1>9 DEF EndsPut
<1>11. Makes(t) => Makes(t)'
  BY <1>1, <1>2, <1>5 DEF Makes, Forking
<1>12. Inside(t, x)
  BY <1>1, <1>2, <1>11, MMPutKeeps, InsideSubject
<1> QED
  BY <1>4, <1>10, <1>12, TradesKeep DEF Trades

\* What exit_mm does with the address space.
LEMMA ExitMMTrade ==
  ASSUME Struct, NEW t \in Task, NEW q \in Task, NEW then \in PCs, exit_mm(t, q, then),
         local[t].mm = NULL, NEW m, m = task[q].mm
  PROVE  \/ m = NULL /\ mm' = mm /\ pc'[t] = then
         \/ /\ m \in Obj /\ mm' = mmput_user(GrabMM(mm, m), m)
            /\ \/ Last(m) = m /\ pc'[t] = "mmput" /\ local'[t].mm = m
               \/ Last(m) = NULL /\ pc'[t] = then /\ local'[t].mm = NULL
<1>1. /\ Shape /\ task \in [Task -> TaskStructs] /\ pc \in [Task -> PCs]
      /\ local \in [Task -> Locals] /\ mm \in [Obj -> MMs]
  BY DEF Struct, Shape
<1>2. PICK L : L = Completed(t)
  OBVIOUS
<1>3. CASE m = NULL
  <2>1. mm' = mm /\ Goto(t, then)
    BY <1>3, Zenon DEF exit_mm
  <2> QED
    BY <1>1, <1>3, <2>1, GotoKeeps
<1>4. CASE m # NULL
  <2>1. m \in Obj
    BY <1>1, <1>4 DEF TaskStructs, Ref
  <2>2. PICK M : M = GrabMM(mm, m)
    OBVIOUS
  <2>3. PutMM(t, M, m, then, L)
    BY <1>2, <1>4, <2>2, Zenon DEF exit_mm
  <2>4. M \in [Obj -> MMs] /\ L \in [Task -> Locals]
    <3>1. M \in [Obj -> MMs]
      BY <1>1, <2>1, <2>2, MMKeeps
    <3>2. L \in [Task -> Locals]
      BY <1>1, <1>2, CompletedKeeps
    <3> QED
      BY <3>1, <3>2
  <2>5. \/ pc'[t] = "mmput" /\ local'[t].mm = m
        \/ pc'[t] = then /\ local'[t].mm = NULL
    BY <1>1, <2>1, <2>3, <2>4, PutKeeps
  <2>6. M[m].users = mm[m].users
    BY <1>1, <2>1, <2>2, MMOps
  <2>7. mm' = mmput_user(M, m)
    BY <2>3 DEF PutMM
  <2>8. CASE LastUser(M, m)
    <3>1. Goto(t, "mmput") /\ local' = [L EXCEPT ![t].mm = m, ![t].then = then]
      BY <2>3, <2>8 DEF PutMM
    <3>2. pc'[t] = "mmput"
      BY <1>1, <3>1 DEF Goto
    <3>3. local'[t].mm = m
      BY <2>4, <3>1 DEF Locals
    <3> QED
      BY <2>1, <2>2, <2>6, <2>7, <2>8, <3>2, <3>3 DEF LastUser, Last
  <2>9. CASE ~LastUser(M, m)
    <3>1. Goto(t, then) /\ local' = [L EXCEPT ![t].mm = NULL]
      BY <2>3, <2>9 DEF PutMM
    <3>2. pc'[t] = then
      BY <1>1, <3>1 DEF Goto
    <3>3. local'[t].mm = NULL
      BY <2>4, <3>1 DEF Locals
    <3> QED
      BY <2>1, <2>2, <2>6, <2>7, <2>9, <3>2, <3>3 DEF LastUser, Last
  <2> QED
    BY <2>8, <2>9
<1> QED
  BY <1>3, <1>4

\* The exit_mm of a failed fork undoes copy_mm but for the lazy reference.
LEMMA BadForkMMCounts ==
  ASSUME Struct, Struct', MMOK, NEW t \in Task, BadForkMM(t)
  PROVE  MMOK'
<1>1. /\ curr = t /\ pc[t] = "bad_fork_mm" /\ Shape /\ build' = build
      /\ exit_mm(t, local[t].p, "bad_fork_sighand")
  BY DEF Struct, BadForkMM, At
<1>2. Makes(t)
  BY <1>1 DEF Makes, Forking
<1>3. PICK p, o : p = local[t].p /\ o = task[p].mm
  OBVIOUS
<1>4. p \in Task /\ p # t /\ p = Subject(t)
  BY <1>1, <1>2, <1>3, Child DEF Subject
<1>5. LocalOK(t)
  BY <1>1, Acting
<1>6. "bad_fork_sighand" \in PCs /\ local[t].mm = NULL /\ "copy_thread" \in build.fails
  BY <1>1, <1>5 DEF LocalOK, PCs
<1>7. /\ task'[p].mm = NULL /\ task'[t].mm = task[t].mm /\ task'[t].active_mm = task[t].active_mm
      /\ Makes(t)'
  BY <1>1, <1>3, <1>4, <1>6, ExitMMEffect DEF Makes, Forking
<1>8. PICK b : b = BorrowedOf(t)
  OBVIOUS
<1>9. Has(t, p, o, NULL, b, NULL, NULL) /\ BorrowedOf(t)' = b
  BY <1>1, <1>3, <1>4, <1>7, <1>8 DEF Has, UserOf, HeldOf, PutOf, NewOf, BorrowedOf, Sharing
<1>10. \/ o = NULL /\ mm' = mm /\ pc'[t] = "bad_fork_sighand"
       \/ /\ o \in Obj /\ mm' = mmput_user(GrabMM(mm, o), o)
          /\ \/ Last(o) = o /\ pc'[t] = "mmput" /\ local'[t].mm = o
             \/ Last(o) = NULL /\ pc'[t] = "bad_fork_sighand" /\ local'[t].mm = NULL
  BY <1>1, <1>3, <1>4, <1>6, ExitMMTrade
<1>11. ASSUME o = NULL
       PROVE  Trades(t, p)
  <2>1. mm' = mm /\ pc'[t] = "bad_fork_sighand"
    BY <1>10, <1>11, Constants
  <2>2. Has(t, p, NULL, NULL, b, NULL, NULL)'
    BY <1>4, <1>9, <2>1 DEF Has, UserOf, HeldOf, PutOf, NewOf, Sharing
  <2>3. Idle(t, p)
    BY <1>9, <1>11, <2>1, <2>2 DEF Idle, Has
  <2> QED
    BY <2>3 DEF Trades
<1>12. ASSUME o # NULL
       PROVE  Trades(t, p)
  <2>1. PICK q : q = Last(o)
    OBVIOUS
  <2>2. o \in Obj /\ mm' = mmput_user(GrabMM(mm, o), o)
    BY <1>10, <1>12
  <2>3. Has(t, p, NULL, NULL, b, q, NULL)'
    BY <1>4, <1>9, <1>10, <1>12, <2>1 DEF Has, UserOf, HeldOf, PutOf, NewOf, Sharing
  <2>4. Undoes(t, p, o)
    BY <1>6, <1>9, <2>1, <2>2, <2>3 DEF Undoes
  <2> QED
    BY <2>2, <2>4 DEF Trades
<1>13. Inside(t, p)
  BY <1>1, <1>4, <1>7, BadForkMMKeeps, InsideSubject
<1> QED
  BY <1>11, <1>12, <1>13, TradesKeep

\* That of the running process makes it borrow what it used.
LEMMA ExitMMCounts ==
  ASSUME Struct, Struct', MMOK, NEW t \in Task, Exit(t) \/ Daemonize(t)
  PROVE  MMOK'
<1>1. curr = t /\ pc[t] = "user" /\ Shape /\ build' = build
  BY DEF Struct, Exit, Daemonize, At
<1>2. PICK then \in {"exit_files", "daemonize_fs"} : exit_mm(t, t, then)
  BY DEF Exit, Daemonize
<1>3. PICK x, o : x = Subject(t) /\ o = task[t].mm
  OBVIOUS
<1>4. ~Makes(t) /\ x = t
  BY <1>1, <1>3 DEF Makes, Forking, Subject
<1>5. LocalOK(t) /\ ActiveOK(t) /\ task[t].state \in Living
  BY <1>1, Acting
<1>6. then \in PCs /\ local[t].mm = NULL
  BY <1>1, <1>2, <1>5 DEF LocalOK, PCs
<1>7. task'[t].mm = NULL /\ task'[t].active_mm = task[t].active_mm
  BY <1>2, <1>6, ExitMMEffect
<1>8. \/ o = NULL /\ mm' = mm /\ pc'[t] = then
      \/ /\ o \in Obj /\ mm' = mmput_user(GrabMM(mm, o), o)
         /\ \/ Last(o) = o /\ pc'[t] = "mmput" /\ local'[t].mm = o
            \/ Last(o) = NULL /\ pc'[t] = then /\ local'[t].mm = NULL
  BY <1>2, <1>3, <1>6, ExitMMTrade
<1>9. PICK a : a = task[t].active_mm
  OBVIOUS
<1>10. /\ UserOf(t, x) = o /\ HeldOf(t) = NULL /\ PutOf(t) = NULL /\ NewOf(t) = NULL
       /\ BorrowedOf(t) = (IF o = NULL THEN a ELSE NULL)
       /\ UserOf(t, x)' = NULL /\ BorrowedOf(t)' = a
  BY <1>1, <1>3, <1>4, <1>7, <1>9 DEF UserOf, HeldOf, PutOf, NewOf, BorrowedOf
<1>11. ASSUME o = NULL
       PROVE  Trades(t, x)
  <2>1. mm' = mm /\ pc'[t] = then
    BY <1>8, <1>11, Constants
  <2>2. HeldOf(t)' = NULL /\ PutOf(t)' = NULL /\ NewOf(t)' = NULL
    BY <1>2, <2>1 DEF HeldOf, PutOf, NewOf
  <2>3. Idle(t, x)
    BY <1>10, <1>11, <2>1, <2>2 DEF Idle
  <2> QED
    BY <2>3 DEF Trades
<1>12. ASSUME o # NULL
       PROVE  Trades(t, x)
  <2>1. PICK q : q = Last(o)
    OBVIOUS
  <2>2. o \in Obj /\ mm' = mmput_user(GrabMM(mm, o), o) /\ a = o
    BY <1>3, <1>5, <1>8, <1>9, <1>12 DEF ActiveOK
  <2>3. HeldOf(t)' = NULL /\ PutOf(t)' = q /\ NewOf(t)' = NULL
    BY <1>2, <1>8, <1>12, <2>1 DEF HeldOf, PutOf, NewOf
  <2>4. Has(t, x, o, NULL, NULL, NULL, NULL) /\ Has(t, x, NULL, NULL, o, q, NULL)'
    BY <1>10, <1>12, <2>2, <2>3 DEF Has
  <2>5. Exits(t, x, o)
    BY <2>1, <2>2, <2>4 DEF Exits
  <2> QED
    BY <2>2, <2>5 DEF Trades
<1>13. Inside(t, x)
  BY <1>1, <1>3, <1>4, ExitMMKeeps, InsideSubject
<1> QED
  BY <1>11, <1>12, <1>13, TradesKeep

\* A process in lazy TLB mode borrows the address space that it still holds.
LEMMA StartLazyCounts ==
  ASSUME Struct, Struct', MMOK, NEW t \in Task, start_lazy_tlb(t)
  PROVE  MMOK'
<1>1. PICK x, o : x = Subject(t) /\ o = task[t].mm
  OBVIOUS
<1>2. /\ Shape /\ curr = t /\ pc[t] = "user" /\ Goto(t, "lazy") /\ o # NULL /\ build' = build
      /\ Set(t, "mm", NULL) /\ mm' = GrabMM(mm, o) /\ local' = [local EXCEPT ![t].mm = o]
  BY <1>1 DEF Struct, start_lazy_tlb, At
<1>3. ~Makes(t) /\ x = t
  BY <1>1, <1>2 DEF Makes, Forking, Subject
<1>4. ActiveOK(t) /\ task[t].state \in Living
  BY <1>2, Acting
<1>5. /\ task \in [Task -> TaskStructs] /\ pc \in [Task -> PCs] /\ local \in [Task -> Locals]
      /\ "lazy" \in PCs /\ o \in Obj /\ o \in Ref
  BY <1>1, <1>2 DEF Shape, PCs, TaskStructs, Ref
<1>6. pc'[t] = "lazy" /\ local'[t].mm = o
  BY <1>2, <1>5, GotoKeeps, LocalMMKeeps
<1>7. task'[t].mm = NULL /\ task'[t].active_mm = o
  <2>1. task[t].active_mm = o
    BY <1>1, <1>2, <1>4 DEF ActiveOK
  <2>2. task' = [task EXCEPT ![t].mm = NULL] /\ task[t] \in TaskStructs
    BY <1>2, <1>5 DEF Set
  <2>3. PICK n : n = [task[t] EXCEPT !.mm = NULL]
    OBVIOUS
  <2>4. task' = [task EXCEPT ![t] = n]
    BY <2>2, <2>3
  <2>5. n.mm = NULL /\ n.active_mm = o
    BY <2>1, <2>2, <2>3 DEF TaskStructs
  <2> QED
    BY <1>5, <2>4, <2>5
<1>8. Has(t, x, o, NULL, NULL, NULL, NULL)
  BY <1>1, <1>2, <1>3 DEF Has, UserOf, HeldOf, PutOf, NewOf, BorrowedOf
<1>9. Has(t, x, NULL, o, o, NULL, NULL)'
  BY <1>3, <1>6, <1>7 DEF Has, UserOf, HeldOf, PutOf, NewOf, BorrowedOf
<1>10. LazyOn(t, x, o)
  BY <1>2, <1>8, <1>9 DEF LazyOn
<1>11. Inside(t, x)
  BY <1>1, <1>2, <1>3, StartLazyKeeps, InsideSubject
<1> QED
  BY <1>5, <1>10, <1>11, TradesKeep DEF Trades

\* At its end what is dropped is what the process borrows then.
LEMMA EndLazyCounts ==
  ASSUME Struct, Struct', MMOK, NEW t \in Task, end_lazy_tlb(t)
  PROVE  MMOK'
<1>1. PICK x, o, a : x = Subject(t) /\ o = local[t].mm /\ a = task[t].active_mm
  OBVIOUS
<1>2. /\ Shape /\ curr = t /\ pc[t] = "lazy" /\ Goto(t, "user") /\ build' = build
      /\ SetMM(t, o) /\ mm' = mmdrop(mm, a) /\ local' = [local EXCEPT ![t].mm = NULL]
  BY <1>1 DEF Struct, end_lazy_tlb, At
<1>3. ~Makes(t) /\ x = t
  BY <1>1, <1>2 DEF Makes, Forking, Subject
<1>4. StateOK(t) /\ ActiveOK(t) /\ LocalOK(t) /\ task[t].state \in Living /\ local[t] \in Locals
  BY <1>2, Acting
<1>5. /\ task \in [Task -> TaskStructs] /\ pc \in [Task -> PCs] /\ local \in [Task -> Locals]
      /\ "user" \in PCs /\ NULL \in Ref
  BY <1>2 DEF Shape, PCs, Ref
<1>6. o \in Obj /\ o \in Ref /\ task[t].mm = NULL
  BY <1>1, <1>2, <1>4 DEF LocalOK, StateOK, Locals, Ref
<1>7. a \in Obj
  <2>1. a # NULL
    BY <1>1, <1>2, <1>4, <1>6 DEF ActiveOK
  <2> QED
    BY <1>1, <1>5, <2>1 DEF TaskStructs, Ref
<1>8. pc'[t] = "user" /\ local'[t].mm = NULL
  BY <1>2, <1>5, GotoKeeps, LocalMMKeeps
<1>9. task'[t].mm = o /\ task'[t].active_mm = o /\ o # NULL
  BY <1>2, <1>5, <1>6, SetMMKeeps, Constants
<1>10. Has(t, x, NULL, o, a, NULL, NULL)
  BY <1>1, <1>2, <1>3, <1>6 DEF Has, UserOf, HeldOf, PutOf, NewOf, BorrowedOf
<1>11. Has(t, x, o, NULL, NULL, NULL, NULL)'
  BY <1>3, <1>8, <1>9 DEF Has, UserOf, HeldOf, PutOf, NewOf, BorrowedOf
<1>12. LazyOff(t, x, a, o)
  BY <1>2, <1>10, <1>11 DEF LazyOff
<1>13. Inside(t, x)
  BY <1>1, <1>2, <1>3, EndLazyKeeps, InsideSubject
<1> QED
  BY <1>6, <1>7, <1>12, <1>13, TradesKeep DEF Trades

\* exec drops a borrowed address space, keeps the only user's, or puts what others use.
LEMMA ExecCounts ==
  ASSUME Struct, Struct', MMOK, NEW t \in Task, Exec(t)
  PROVE  MMOK'
<1>1. Shape /\ curr = t /\ pc[t] = "user" /\ build' = build
  BY DEF Struct, Exec, At
<1>2. PICK x, old, a, new : /\ x = Subject(t) /\ old = task[t].mm /\ a = task[t].active_mm
                            /\ new = CHOOSE o \in FreeMMs : TRUE
  OBVIOUS
<1>3. ~Makes(t) /\ x = t
  BY <1>1, <1>2 DEF Makes, Forking, Subject
<1>4. ActiveOK(t) /\ task[t].state \in Living
  BY <1>1, Acting
<1>5. /\ task \in [Task -> TaskStructs] /\ pc \in [Task -> PCs]
      /\ local \in [Task -> Locals] /\ mm \in [Obj -> MMs] /\ "user" \in PCs
  BY <1>1 DEF Shape, PCs
<1>6. PICK M : M = NewMM(new, TRUE)
  OBVIOUS
<1>7. PICK L : L = Completed(t)
  OBVIOUS
<1>8. L \in [Task -> Locals]
  BY <1>1, <1>7, CompletedKeeps
<1>9. PICK T : T = mm_release(t, task)
  OBVIOUS
<1>10. T \in [Task -> TaskStructs] /\ T[t].mm = old /\ T[t].active_mm = a
  BY <1>2, <1>5, <1>9, ReleaseKeeps
<1>11. Inside(t, x)
  BY <1>1, <1>2, <1>3, ExecKeeps, InsideSubject
<1>12. Has(t, x, old, NULL, IF old = NULL THEN a ELSE NULL, NULL, NULL)
  BY <1>1, <1>2, <1>3 DEF Has, UserOf, HeldOf, PutOf, NewOf, BorrowedOf
<1> DEFINE N == [T EXCEPT ![t].mm = new, ![t].active_mm = new]
           NewTask == FreeMMs # {} /\ task' = N
           Thread == old = NULL /\ mm' = mmdrop(M, a) /\ local' = L /\ pc' = pc
           Empty == old # NULL /\ mm' = mm /\ task' = T /\ local' = L /\ pc' = pc
           Leave == old # NULL /\ ~LastUser(mm, old) /\ PutMM(t, M, old, "user", L)
<1>13. \/ NewTask /\ Thread
       \/ Empty
       \/ NewTask /\ Leave
  <2>1. M = [mm EXCEPT ![new] = [users |-> 1, count |-> 1, listed |-> TRUE]]
    BY <1>6 DEF NewMM
  <2> QED
    BY <1>2, <1>7, <1>9, <2>1, Zenon DEF Exec
<1>14. ASSUME NewTask
       PROVE  /\ new \in Obj /\ mm[new] = FreeMM /\ new # NULL /\ M \in [Obj -> MMs]
              /\ task'[t].mm = new
  <2>1. new \in Obj /\ new # NULL /\ mm[new] = FreeMM
    BY <1>2, <1>14, Constants DEF FreeMMs
  <2>2. M \in [Obj -> MMs]
    BY <1>5, <1>6, <2>1, NewMMIs
  <2>3. PICK n : n = [T[t] EXCEPT !.mm = new, !.active_mm = new]
    OBVIOUS
  <2>4. task' = [T EXCEPT ![t] = n] /\ T[t] \in TaskStructs
    BY <1>10, <1>14, <2>3
  <2>5. n.mm = new
    BY <2>3, <2>4 DEF TaskStructs
  <2> QED
    BY <1>10, <2>1, <2>2, <2>4, <2>5
<1>15. ASSUME NewTask, Thread
       PROVE  Trades(t, x)
  <2>1. pc'[t] = "user" /\ old = NULL /\ a \in Obj
    BY <1>1, <1>2, <1>4, <1>5, <1>15 DEF ActiveOK, TaskStructs, Ref
  <2>2. Has(t, x, new, NULL, NULL, NULL, NULL)'
    BY <1>3, <1>14, <1>15, <2>1 DEF Has, UserOf, HeldOf, PutOf, NewOf, BorrowedOf
  <2>3. Settles(t, x, a, new)
    BY <1>6, <1>12, <1>14, <1>15, <2>1, <2>2 DEF Settles
  <2> QED
    BY <1>14, <1>15, <2>1, <2>3 DEF Trades
<1>16. ASSUME Empty
       PROVE  Trades(t, x)
  <2>1. pc'[t] = "user" /\ task'[t].mm = old /\ mm' = mm /\ old # NULL
    BY <1>1, <1>10, <1>16
  <2>2. Has(t, x, old, NULL, NULL, NULL, NULL)'
    BY <1>3, <2>1 DEF Has, UserOf, HeldOf, PutOf, NewOf, BorrowedOf
  <2>3. Idle(t, x)
    BY <1>12, <2>1, <2>2 DEF Idle, Has
  <2> QED
    BY <2>3 DEF Trades
<1>17. ASSUME NewTask, Leave
       PROVE  Trades(t, x)
  <2>1. old \in Obj /\ old # NULL /\ PutMM(t, M, old, "user", L) /\ mm[old].users # 1
    BY <1>2, <1>5, <1>17 DEF TaskStructs, Ref, LastUser
  <2>2. mm[old].users >= 1
    <3>1. /\ mm[old].users = OtherUsers(t, x, old) + Bit(UserOf(t, x), old) + Bit(HeldOf(t), old)
                               + (IF old = init_obj THEN 2 ELSE 0)
          /\ OtherUsers(t, x, old) \in Nat
      BY <1>11, <2>1, TallyBefore
    <3>2. UserOf(t, x) = old
      BY <1>12 DEF Has
    <3> QED
      BY <3>1, <3>2 DEF Bit
  <2>3. new # old
    <3>1. mm[new].users = 0
      BY <1>14, <1>17 DEF FreeMM
    <3> QED
      BY <2>2, <3>1
  <2>4. M[old].users # 1
    <3>1. M[old] = mm[old]
      BY <1>5, <1>6, <2>1, <2>3 DEF NewMM
    <3> QED
      BY <2>1, <3>1
  <2>5. mm' = mmput_user(M, old) /\ Goto(t, "user")
    BY <2>1, <2>4 DEF PutMM, LastUser
  <2>6. pc'[t] = "user"
    BY <1>5, <2>5, GotoKeeps
  <2>7. Has(t, x, new, NULL, NULL, NULL, NULL)'
    BY <1>3, <1>14, <1>17, <2>6 DEF Has, UserOf, HeldOf, PutOf, NewOf, BorrowedOf
  <2>8. Leaves(t, x, old, new)
    BY <1>6, <1>12, <1>14, <1>17, <2>1, <2>5, <2>7 DEF Leaves
  <2> QED
    BY <1>14, <1>17, <2>1, <2>8 DEF Trades
<1> HIDE DEF NewTask, Thread, Empty, Leave
<1>18. Trades(t, x)
  BY <1>13, <1>15, <1>16, <1>17
<1> QED
  BY <1>11, <1>18, TradesKeep

\* The program is the same throughout.
LEMMA BuildKept ==
  ASSUME NEW t \in Task, Step(t) \/ Call(t)
  PROVE  build' = build
<1>1. CASE Step(t)
  BY <1>1 DEF Step, CopyFiles, CopyFs, CopySighand, CopyStruct, CopyMM, DupMmap, DupVmas, CopyThread,
     Link, WaitForVfork, MMPut, BadForkMM, BadForkSighand, BadForkFs, BadForkFiles, BadFork,
     ExitFiles, ExitFs, ExitSighand, ExitNotify, DaemonizeFs, DaemonizeInitFs, DaemonizeFiles,
     DaemonizeInitFiles, ExitStruct, AdoptStruct
<1>2. CASE Call(t)
  BY <1>2 DEF Call, Fork, Exit, Daemonize, Exec, start_lazy_tlb, end_lazy_tlb, Release, Switch
<1> QED
  BY <1>1, <1>2

\* Every step keeps the address spaces counted.
LEMMA NextMM ==
  ASSUME Struct, MMOK, [Next]_vars
  PROVE  MMOK'
<1>1. CASE UNCHANGED vars
  <2>1. UNCHANGED << task, pc, local, mm, build >>
    BY <1>1 DEF vars
  <2>2. \A q : Maker(q)' = Maker(q)
    BY <2>1 DEF Maker
  <2>3. ASSUME NEW m \in Obj, NEW q \in Task
        PROVE  /\ q \in Users(m)' <=> q \in Users(m)
               /\ q \in HeldUsers(m)' <=> q \in HeldUsers(m)
               /\ q \in Borrowers(m)' <=> q \in Borrowers(m)
               /\ PutOf(q)' = m <=> PutOf(q) = m
               /\ NewOf(q)' = m <=> NewOf(q) = m
    BY <2>1, <2>2 DEF Users, HeldUsers, Borrowers, PutOf, NewOf
  <2> QED
    BY <2>1, <2>3, SetsKept
<1>2. CASE Next
  <2>0. Struct'
    BY NextKeeps
  <2>1. PICK t \in Task : Step(t) \/ Call(t)
    BY <1>2 DEF Next
  <2>2. build' = build
    BY <2>1, BuildKept
  <2>3. CASE \/ CopyFiles(t) \/ CopyFs(t) \/ CopySighand(t) \/ CopyThread(t) \/ WaitForVfork(t)
             \/ BadForkSighand(t) \/ BadForkFs(t) \/ BadForkFiles(t)
             \/ ExitFiles(t) \/ ExitFs(t) \/ ExitSighand(t) \/ DaemonizeFs(t) \/ DaemonizeFiles(t)
             \/ DaemonizeInitFs(t) \/ DaemonizeInitFiles(t) \/ ExitNotify(t)
    <3>1. Moves(t, Subject(t)) /\ MMSame(t)
      BY <2>3, CopyStructKeeps, CopyThreadKeeps, WaitForVforkKeeps, ExitChildKeeps, ExitOwnKeeps,
         AdoptKeeps, ExitNotifyKeeps
    <3>2. PICK x : x = Subject(t)
      OBVIOUS
    <3> QED
      BY <2>0, <2>2, <3>1, <3>2, MMSameKeeps
  <2>4. CASE CopyMM(t) \/ DupMmap(t) \/ DupVmas(t) \/ MMPut(t) \/ BadForkMM(t)
    BY <2>0, <2>4, CopyMMCounts, DupMmapCounts, DupVmasCounts, MMPutCounts, BadForkMMCounts
  <2>5. CASE Exit(t) \/ Daemonize(t) \/ Exec(t) \/ start_lazy_tlb(t) \/ end_lazy_tlb(t)
    BY <2>0, <2>5, ExitMMCounts, ExecCounts, StartLazyCounts, EndLazyCounts
  <2>6. CASE Link(t)
    BY <2>0, <2>2, <2>6, LinkKeeps, LinkMM
  <2>7. CASE BadFork(t)
    BY <2>0, <2>2, <2>7, BadForkKeeps, BadForkMMs
  <2>8. CASE Fork(t)
    BY <2>0, <2>2, <2>8, ForkKeeps, ForkMM
  <2>9. ASSUME NEW p \in Task, Release(t, p)
        PROVE  MMOK'
    BY <2>0, <2>2, <2>9, ReleaseTaskKeeps, ReleaseMM
  <2>10. ASSUME NEW p \in Task, Switch(t, p)
         PROVE  MMOK'
    BY <2>10, SwitchMM
  <2> QED
    BY <2>1, <2>3, <2>4, <2>5, <2>6, <2>7, <2>8, <2>9, <2>10 DEF Step, Call
<1> QED
  BY <1>1, <1>2

\* The address spaces of init_task and of init.
LEMMA InitMM ==
  ASSUME Init
  PROVE  MMOK
<1>1. PICK own : AtFirst(own)
  BY InitHas
<1>2. /\ swapper \in Task /\ child_reaper \in Task /\ swapper # child_reaper
  BY Constants
<1>3. /\ own # NULL /\ init_obj # NULL /\ own # init_obj /\ own \in Obj /\ NULL \notin Obj
      /\ \A t \in {swapper, child_reaper} : task[t].state = "RUNNING"
      /\ task[swapper].mm = NULL /\ task[swapper].active_mm = NULL
      /\ task[child_reaper].mm = own /\ task[child_reaper].active_mm = own
      /\ \A t \in Task \ {swapper, child_reaper} : task[t] = FreeTask
      /\ mm[init_obj] = [users |-> 2, count |-> 1, listed |-> FALSE]
      /\ mm[own] = [users |-> 1, count |-> 1, listed |-> TRUE]
      /\ \A m \in Obj \ {init_obj, own} : mm[m] = FreeMM
  BY <1>1, Constants DEF AtFirst
<1>4. \A q \in Task : task[q].state # "EMBRYO"
  BY <1>3, Records
<1>5. \A q \in Task : pc[q] \in {"user", "none"}
  BY DEF Init
<1>6. Cardinality({}) = 0 /\ \A q : Cardinality({q}) = 1
  BY FS_Singleton, FS_EmptySet
<1>7. ASSUME NEW m \in Obj
      PROVE  MMGood(m)
  <2>1. PICK U, H, B : U = Users(m) /\ H = HeldUsers(m) /\ B = Borrowers(m)
    OBVIOUS
  <2>2. \A q \in Task \ {swapper, child_reaper} : task[q].mm = NULL /\ task[q].active_mm = NULL
    BY <1>3, Records
  <2>3. U = IF m = own THEN {child_reaper} ELSE {}
    BY <1>2, <1>3, <1>4, <2>1, <2>2 DEF Users
  <2>4. H = {}
    BY <1>5, <2>1 DEF HeldUsers
  <2>5. B = {}
    BY <1>2, <1>3, <1>4, <2>1, <2>2 DEF Borrowers
  <2>6. ~Putting(m) /\ ~New(m) /\ Alone(m)
    <3>1. \A q \in Task : PutOf(q) = NULL
      BY <1>5 DEF PutOf
    <3> QED
      BY <1>3, <1>5, <3>1 DEF Putting, New, Alone
  <2>7. Total(m) = IF m = init_obj THEN 2 ELSE IF m = own THEN 1 ELSE 0
    <3>1. Cardinality(U) = (IF m = own THEN 1 ELSE 0) /\ Cardinality(H) = 0
      BY <1>6, <2>3, <2>4
    <3> QED
      BY <1>3, <2>1, <3>1 DEF Total
  <2>8. Keepers(m) = IF m \in {init_obj, own} THEN 1 ELSE 0
    <3>1. Cardinality(Borrowers(m)) = 0
      BY <1>6, <2>1, <2>5
    <3> QED
      BY <2>6, <2>7, <3>1 DEF Keepers
  <2>9. /\ mm[m].users = Total(m) /\ mm[m].count = Keepers(m)
        /\ mm[m].listed <=> m = own
    <3>1. CASE m = init_obj
      BY <1>3, <2>7, <2>8, <3>1
    <3>2. CASE m = own
      BY <1>3, <2>7, <2>8, <3>2
    <3>3. CASE m \notin {init_obj, own}
      BY <1>3, <2>7, <2>8, <3>3 DEF FreeMM
    <3> QED
      BY <3>1, <3>2, <3>3
  <2>10. Total(m) > 0 <=> m \in {init_obj, own}
    BY <2>7
  <2>11. MMCount(m)
    BY <1>3, <2>6, <2>8, <2>9, <2>10 DEF MMCount
  <2> QED
    BY <2>6, <2>11 DEF MMGood
<1> QED
  BY <1>7 DEF MMOK

\* Every address space is counted for its users, and its page tables for the users
\* together and for whoever borrows it, whatever of a fork, an exit or an exec is done,
\* and so none is freed under a kernel thread or an exiting process: copy_mm, exit_mm,
\* mmput, exec_mmap, enter_lazy_tlb and context_switch.
THEOREM MMAlwaysCounted == Spec => []MMCounted
<1>1. Init => Struct /\ MMOK
  BY InitStruct, InitMM
<1>2. Struct /\ MMOK /\ [Next]_vars => (Struct /\ MMOK)'
  BY NextKeeps, NextMM
<1>3. Struct /\ MMOK => MMCounted
  BY MMSplit DEF MMOK, MMGood
<1> QED
  BY <1>1, <1>2, <1>3, PTL DEF Spec

\* The counts are numbers of holders, and never negative.
LEMMA CountsAreNat ==
  ASSUME Struct, RefsOK, MMOK
  PROVE  /\ \A m \in Obj : mm[m].users \in Nat /\ mm[m].count \in Nat
         /\ \A k \in Kinds, o \in Obj : count[k][o] \in Nat
         /\ nr_threads \in Nat /\ processes \in Nat
<1>1. ASSUME NEW m \in Obj
      PROVE  mm[m].users \in Nat /\ mm[m].count \in Nat
  <2>1. PICK U, H, B : U = Users(m) /\ H = HeldUsers(m) /\ B = Borrowers(m)
    OBVIOUS
  <2>2. U \subseteq Task /\ H \subseteq Task /\ B \subseteq Task
    BY <2>1 DEF Users, HeldUsers, Borrowers
  <2>3. Cardinality(U) \in Nat /\ Cardinality(H) \in Nat /\ Cardinality(B) \in Nat
    BY <2>2, Countable
  <2>4. Total(m) \in Nat
    BY <2>1, <2>3 DEF Total
  <2>5. Keepers(m) \in Nat
    BY <2>1, <2>3 DEF Keepers
  <2>6. mm[m].users = Total(m) /\ mm[m].count >= Keepers(m)
    BY DEF MMOK, MMGood, MMCount
  <2>7. mm[m].count \in Int
    BY DEF Struct, Shape, MMs
  <2> QED
    BY <2>4, <2>5, <2>6, <2>7
<1>2. ASSUME NEW k \in Kinds, NEW o \in Obj
      PROVE  count[k][o] \in Nat
  <2>1. PICK H : H = Holders(k, o)
    OBVIOUS
  <2>2. H \subseteq Task
    BY <2>1 DEF Holders
  <2>3. count[k][o] = Cardinality(H)
    BY <2>1 DEF RefsOK, RefCount
  <2> QED
    BY <2>2, <2>3, Countable
<1>3. nr_threads \in Nat /\ processes \in Nat
  <2>1. PICK S, R : S = Threads /\ R = Existing
    OBVIOUS
  <2>2. S \subseteq Task /\ R \subseteq Task
    BY <2>1 DEF Threads, Existing
  <2>3. nr_threads = Cardinality(S) /\ processes = Cardinality(R)
    BY <2>1 DEF RefsOK, Processes
  <2> QED
    BY <2>2, <2>3, Countable
<1> QED
  BY <1>1, <1>2, <1>3

\* The variables have their types, and no count is ever negative.
THEOREM TypeCorrect == Spec => []TypeOK
<1>1. Init => Struct /\ RefsOK /\ MMOK
  BY InitStruct, InitRefs, InitMM
<1>2. Struct /\ RefsOK /\ MMOK /\ [Next]_vars => (Struct /\ RefsOK /\ MMOK)'
  BY NextKeeps, NextRefs, NextMM
<1>3. Struct /\ RefsOK /\ MMOK => TypeOK
  <2> SUFFICES ASSUME Struct, RefsOK, MMOK
               PROVE  TypeOK
    OBVIOUS
  <2>1. Shape
    BY DEF Struct
  <2>2. mm \in [Obj -> [users : Nat, count : Nat, listed : BOOLEAN]]
    <3>1. mm \in [Obj -> MMs]
      BY <2>1 DEF Shape
    <3>2. ASSUME NEW m \in Obj
          PROVE  mm[m] \in [users : Nat, count : Nat, listed : BOOLEAN]
      <4>1. mm[m].users \in Nat /\ mm[m].count \in Nat
        BY CountsAreNat
      <4>2. mm[m] \in [users : Int, count : Int, listed : BOOLEAN]
        BY <3>1 DEF MMs
      <4> QED
        BY <4>1, <4>2
    <3> QED
      BY <3>1, <3>2
  <2>3. count \in [Kinds -> [Obj -> Nat]]
    <3>1. count \in [Kinds -> [Obj -> Int]]
      BY <2>1 DEF Shape
    <3>2. \A k \in Kinds, o \in Obj : count[k][o] \in Nat
      BY CountsAreNat
    <3> QED
      BY <3>1, <3>2
  <2>4. nr_threads \in Nat /\ processes \in Nat
    BY CountsAreNat
  <2> QED
    BY <2>1, <2>2, <2>3, <2>4 DEF Shape, TypeOK, TaskStructs, Locals
<1> QED
  BY <1>1, <1>2, <1>3, PTL DEF Spec
=============================================================================
