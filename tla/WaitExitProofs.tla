---------------------------- MODULE WaitExitProofs ----------------------------
(***************************************************************************)
(* The process tree: for every number of tasks and every build that keeps  *)
(* apart what the code does not support together, the links of the tree    *)
(* agree, dead processes are nobody's parents, and wait4 misses no exit.   *)
(***************************************************************************)
EXTENDS WaitExit, FiniteSetTheorems, WellFoundedInduction, TLAPS

-----------------------------------------------------------------------------
(* Walks along pointers *)

\* A set of naturals has a least element.
LEMMA LeastNat ==
  ASSUME NEW S \in SUBSET Nat, S # {}
  PROVE  \E n \in S : \A m \in S : n <= m
<1> DEFINE R == {ss \in Nat \X Nat : ss[1] < ss[2]}
<1>1. IsWellFoundedOn(R, Nat)
  BY NatLessThanWellFounded, Zenon DEF OpToRel
<1>2. \A m, n \in Nat : m < n => << m, n >> \in R
  OBVIOUS
<1> HIDE DEF R
<1>3. PICK i \in S : \A j \in S : ~ (<< j, i >> \in R)
  BY <1>1, WFMin
<1>4. \A j \in S : i \in Nat /\ j \in Nat /\ ~ (j < i)
  BY <1>2, <1>3
<1> QED
  BY <1>4

Slots == Cardinality(Task)

\* There is a task, init.
LEMMA SlotsAreSome == Slots \in Nat /\ 1 <= Slots
  BY TaskAssumption, FS_CardinalityType, FS_EmptySet DEF Slots

\* w goes from x along nxt, for as many steps as there are tasks.
Walk(w, x, nxt) ==
  /\ w \in [1 .. Slots -> Pointer]
  /\ w[1] = x
  /\ \A n \in 1 .. Slots : n < Slots => w[n + 1] = nxt[w[n]]

\* There is such a walk from everywhere.
LEMMA WalkExists ==
  ASSUME NEW x \in Pointer, NEW nxt \in [Pointer -> Pointer]
  PROVE  \E w : Walk(w, x, nxt)
<1> DEFINE Goes(k, w) == /\ w \in [1 .. k -> Pointer] /\ w[1] = x
                         /\ \A n \in 1 .. k : n < k => w[n + 1] = nxt[w[n]]
           Bad == {k \in Nat : 1 <= k /\ ~ \E w : Goes(k, w)}
<1>1. SUFFICES Bad = {}
  BY SlotsAreSome DEF Walk
<1>2. SUFFICES ASSUME Bad # {} PROVE FALSE
  OBVIOUS
<1>3. PICK k \in Bad : \A j \in Bad : k <= j
  BY <1>2, LeastNat
<1>4. CASE k = 1
  <2>1. Goes(1, [n \in 1 .. 1 |-> x])
    OBVIOUS
  <2> QED
    BY <1>3, <1>4, <2>1
<1>5. CASE k # 1
  <2>2. k \in Nat /\ k - 1 \in Nat /\ 1 <= k - 1 /\ ~ (k <= k - 1)
    BY <1>3, <1>5
  <2> HIDE DEF Goes
  <2>1. PICK w : Goes(k - 1, w)
    BY <1>3, <2>2
  <2> USE DEF Goes
  <2>3. PICK v : v = [n \in 1 .. k |-> IF n = k THEN nxt[w[k - 1]] ELSE w[n]]
    OBVIOUS
  <2>4. v \in [1 .. k -> Pointer] /\ v[1] = x
    BY <2>1, <2>2, <2>3
  <2>5. ASSUME NEW n \in 1 .. k, n < k PROVE v[n + 1] = nxt[v[n]]
    BY <2>1, <2>2, <2>3, <2>5
  <2>6. Goes(k, v)
    BY <2>3, <2>4, <2>5
  <2> HIDE DEF Goes
  <2> QED
    BY <1>3, <2>6
<1> QED
  BY <1>4, <1>5

\* A walk stays where nxt stays.
LEMMA WalkStays ==
  ASSUME NEW x, NEW nxt, NEW w, Walk(w, x, nxt), NEW S, x \in S,
         \A q \in Pointer : q \in S => nxt[q] \in S
  PROVE  \A n \in 1 .. Slots : w[n] \in S
<1> DEFINE Bad == {n \in 1 .. Slots : w[n] \notin S}
<1>1. SUFFICES ASSUME Bad # {} PROVE FALSE
  OBVIOUS
<1>2. Bad \in SUBSET Nat
  OBVIOUS
<1>3. PICK n \in Bad : \A m \in Bad : n <= m
  BY <1>1, <1>2, LeastNat
<1>4. n \in Nat /\ n # 1 /\ 1 <= n /\ n <= Slots
  BY <1>3, SlotsAreSome DEF Walk
<1>5. n - 1 \in 1 .. Slots /\ n - 1 < Slots /\ w[n - 1] \in S /\ w[(n - 1) + 1] = w[n]
  BY <1>3, <1>4, SlotsAreSome
<1> QED
  BY <1>3, <1>5 DEF Walk

\* It comes to all that can be reached: one that has met as many tasks as there are
\* has met all, and one that has met a task twice has closed a circle.
LEMMA WalkCovers ==
  ASSUME NEW x, NEW nxt, NEW w, Walk(w, x, nxt), nxt[NULL] = NULL,
         NEW n \in 1 .. Slots, nxt[w[n]] \in Task
  PROVE  \E m \in 1 .. Slots : w[m] = nxt[w[n]]
<1>1. CASE n < Slots
  BY <1>1, SlotsAreSome DEF Walk
<1>2. CASE n = Slots /\ \E i, j \in 1 .. Slots : i < j /\ w[i] = w[j]
  <2>1. PICK i, j \in 1 .. Slots : i < j /\ w[i] = w[j]
    BY <1>2
  <2> DEFINE S == {w[m] : m \in 1 .. j - 1}
  <2>2. x \in S
    BY <2>1, SlotsAreSome DEF Walk
  <2>3. ASSUME NEW q \in S PROVE nxt[q] \in S
    <3>1. PICK m \in 1 .. j - 1 : q = w[m]
      OBVIOUS
    <3>2. m \in 1 .. Slots /\ m < Slots /\ w[m + 1] = nxt[q]
      BY <2>1, <3>1, SlotsAreSome DEF Walk
    <3>3. CASE m = j - 1
      BY <2>1, <3>2, <3>3
    <3>4. CASE m < j - 1
      BY <2>1, <3>2, <3>4
    <3> QED
      BY <3>1, <3>3, <3>4
  <2> HIDE DEF S
  <2>4. w[n] \in S
    BY <2>2, <2>3, WalkStays
  <2>5. nxt[w[n]] \in S
    BY <2>3, <2>4
  <2> QED
    BY <2>1, <2>5, SlotsAreSome DEF S
<1>3. CASE n = Slots /\ \A i, j \in 1 .. Slots : i < j => w[i] # w[j]
  <2>1. ASSUME NEW m \in 1 .. Slots PROVE w[m] \in Task
    <3>1. CASE m = Slots
      BY <1>3, <3>1, TaskAssumption DEF Walk, Pointer
    <3>2. CASE m < Slots
      <4>1. m + 1 \in 1 .. Slots /\ m < m + 1 /\ w[m + 1] = nxt[w[m]]
        BY <3>2, SlotsAreSome DEF Walk
      <4>2. w[m] # NULL
        BY <1>3, <4>1
      <4> QED
        BY <4>2 DEF Walk, Pointer
    <3> QED
      BY <3>1, <3>2, SlotsAreSome
  <2>2. w \in [1 .. Slots -> Task]
    BY <2>1 DEF Walk
  <2>3. \A i, j \in 1 .. Slots : w[i] = w[j] => i = j
    BY <1>3, SlotsAreSome
  <2>4. w \in Injection(1 .. Slots, Task)
    BY <2>2, <2>3 DEF Injection, IsInjective
  <2>5. Cardinality(1 .. Slots) = Cardinality(Task)
    BY FS_Interval, SlotsAreSome DEF Slots
  <2>6. w \in Surjection(1 .. Slots, Task)
    BY <2>4, <2>5, FS_Injection, TaskAssumption
  <2> QED
    BY <2>6 DEF Surjection
<1> QED
  BY <1>1, <1>2, <1>3, SlotsAreSome

-----------------------------------------------------------------------------
(* Children and threads *)

\* The pointers followed by Child and by Thread.
Older(T)      == [q \in Pointer |-> IF q = NULL THEN NULL ELSE T[q].p_osptr]
NextThread(T) == [q \in Pointer |-> IF q = NULL THEN NULL ELSE T[q].next_thread]

Structs == [Task -> TaskStructs]

\* Pointers point to tasks, or are null.
LEMMA PointersAreTyped ==
  ASSUME NEW T \in Structs
  PROVE  /\ Older(T) \in [Pointer -> Pointer] /\ NextThread(T) \in [Pointer -> Pointer]
         /\ Older(T)[NULL] = NULL /\ NextThread(T)[NULL] = NULL
         /\ \A q \in Task : /\ q \in Pointer /\ q # NULL
                            /\ Older(T)[q] = T[q].p_osptr
                            /\ NextThread(T)[q] = T[q].next_thread
                            /\ T[q] \in TaskStructs /\ T[q].p_osptr \in Pointer
                            /\ T[q].p_cptr \in Pointer /\ T[q].next_thread \in Task
<1>1. \A q \in Task : /\ T[q] \in TaskStructs /\ T[q].p_osptr \in Pointer
                      /\ T[q].p_cptr \in Pointer /\ T[q].next_thread \in Task
  BY DEF Structs, TaskStructs
<1>2. \A q \in Task : q \in Pointer /\ q # NULL
  BY TaskAssumption DEF Pointer
<1> QED
  BY <1>1, <1>2 DEF Older, NextThread, Pointer

\* Child and Thread are the walks that their definitions describe.
LEMMA ChildWalks ==
  ASSUME NEW T \in Structs, NEW t \in Task
  PROVE  Walk(Child(T, t), T[t].p_cptr, Older(T))
<1> DEFINE Body(f, n) == IF n = 1 THEN T[t].p_cptr
                         ELSE IF f[n - 1] = NULL THEN NULL ELSE T[f[n - 1]].p_osptr
<1>1. PICK w : Walk(w, T[t].p_cptr, Older(T))
  BY PointersAreTyped, WalkExists
<1>2. ASSUME NEW n \in 1 .. Slots PROVE w[n] = Body(w, n)
  <2>1. CASE n = 1
    BY <1>1, <2>1 DEF Walk
  <2>2. CASE n # 1
    <3>1. n - 1 \in 1 .. Slots /\ n - 1 < Slots /\ (n - 1) + 1 = n
      BY <2>2, SlotsAreSome
    <3>2. w[n] = Older(T)[w[n - 1]] /\ w[n - 1] \in Pointer
      BY <1>1, <3>1 DEF Walk
    <3> QED
      BY <2>2, <3>2 DEF Older
  <2> QED
    BY <2>1, <2>2
<1>3. w = [n \in 1 .. Slots |-> Body(w, n)]
  <2>1. w = [n \in 1 .. Slots |-> w[n]]
    BY <1>1 DEF Walk
  <2> HIDE DEF Body
  <2> QED
    BY <1>2, <2>1
<1>4. Child(T, t) = CHOOSE g : g = [n \in 1 .. Slots |-> Body(g, n)]
  BY Zenon DEF Child, Slots
<1> HIDE DEF Body
<1>5. Child(T, t) = [n \in 1 .. Slots |-> Body(Child(T, t), n)]
  BY <1>3, <1>4, Zenon
<1>6. \A n \in 1 .. Slots : Child(T, t)[n] = Body(Child(T, t), n)
  BY <1>5
<1> DEFINE c == Child(T, t)
<1> HIDE DEF c
<1>7. /\ c = [n \in 1 .. Slots |-> Body(c, n)]
      /\ \A n \in 1 .. Slots : c[n] = Body(c, n)
  BY <1>5, <1>6 DEF c
<1> USE DEF Body
<1> DEFINE Bad == {n \in 1 .. Slots : c[n] \notin Pointer}
<1>8. Bad = {}
  <2>1. SUFFICES ASSUME Bad # {} PROVE FALSE
    OBVIOUS
  <2>2. Bad \in SUBSET Nat
    OBVIOUS
  <2>3. PICK n \in Bad : \A m \in Bad : n <= m
    BY <2>1, <2>2, LeastNat
  <2>4. n # 1
    BY <1>7, <2>3, PointersAreTyped
  <2>5. n - 1 \in 1 .. Slots /\ c[n - 1] \in Pointer
    BY <2>3, <2>4, SlotsAreSome
  <2>6. c[n] = IF c[n - 1] = NULL THEN NULL ELSE T[c[n - 1]].p_osptr
    BY <1>7, <2>3, <2>4
  <2>7. c[n] \in Pointer
    BY <2>5, <2>6, PointersAreTyped DEF Pointer
  <2> QED
    BY <2>3, <2>7
<1>9. c \in [1 .. Slots -> Pointer]
  <2>1. \A n \in 1 .. Slots : c[n] \in Pointer
    BY <1>8
  <2> HIDE DEF Body
  <2> QED
    BY <1>7, <2>1
<1>10. ASSUME NEW n \in 1 .. Slots, n < Slots PROVE c[n + 1] = Older(T)[c[n]]
  <2>1. n + 1 \in 1 .. Slots /\ n + 1 # 1 /\ (n + 1) - 1 = n /\ c[n] \in Pointer
    BY <1>9, <1>10, SlotsAreSome
  <2>2. c[n + 1] = IF c[n] = NULL THEN NULL ELSE T[c[n]].p_osptr
    BY <1>7, <2>1
  <2> QED
    BY <2>1, <2>2 DEF Older
<1>11. c[1] = T[t].p_cptr
  BY <1>7, SlotsAreSome
<1> QED
  BY <1>9, <1>10, <1>11 DEF Walk, c

\* Likewise the threads of a group.
LEMMA ThreadWalks ==
  ASSUME NEW T \in Structs, NEW t \in Task
  PROVE  /\ Walk(Thread(T, t), t, NextThread(T))
         /\ Thread(T, t) \in [1 .. Slots -> Task]
<1> DEFINE Body(f, n) == IF n = 1 THEN t ELSE T[f[n - 1]].next_thread
<1>1. PICK w : Walk(w, t, NextThread(T))
  BY PointersAreTyped, WalkExists
<1>2. \A n \in 1 .. Slots : w[n] \in Task
  <2>1. \A q \in Pointer : q \in Task => NextThread(T)[q] \in Task
    BY PointersAreTyped
  <2> QED
    BY <1>1, <2>1, WalkStays
<1>3. ASSUME NEW n \in 1 .. Slots PROVE w[n] = Body(w, n)
  <2>1. CASE n = 1
    BY <1>1, <2>1 DEF Walk
  <2>2. CASE n # 1
    <3>1. n - 1 \in 1 .. Slots /\ n - 1 < Slots /\ (n - 1) + 1 = n
      BY <2>2, SlotsAreSome
    <3>2. w[n] = NextThread(T)[w[n - 1]] /\ w[n - 1] \in Task
      BY <1>1, <1>2, <3>1 DEF Walk
    <3> QED
      BY <2>2, <3>2, PointersAreTyped
  <2> QED
    BY <2>1, <2>2
<1>4. w = [n \in 1 .. Slots |-> Body(w, n)]
  <2>1. w = [n \in 1 .. Slots |-> w[n]]
    BY <1>1 DEF Walk
  <2> HIDE DEF Body
  <2> QED
    BY <1>3, <2>1
<1>5. Thread(T, t) = CHOOSE g : g = [n \in 1 .. Slots |-> Body(g, n)]
  BY Zenon DEF Thread, Slots
<1> HIDE DEF Body
<1>6. Thread(T, t) = [n \in 1 .. Slots |-> Body(Thread(T, t), n)]
  BY <1>4, <1>5, Zenon
<1> DEFINE g == Thread(T, t)
<1> HIDE DEF g
<1>7. /\ g = [n \in 1 .. Slots |-> Body(g, n)]
      /\ \A n \in 1 .. Slots : g[n] = Body(g, n)
  BY <1>6 DEF g
<1> USE DEF Body
<1> DEFINE Bad == {n \in 1 .. Slots : g[n] \notin Task}
<1>8. Bad = {}
  <2>1. SUFFICES ASSUME Bad # {} PROVE FALSE
    OBVIOUS
  <2>2. Bad \in SUBSET Nat
    OBVIOUS
  <2>3. PICK n \in Bad : \A m \in Bad : n <= m
    BY <2>1, <2>2, LeastNat
  <2>4. n # 1
    BY <1>7, <2>3
  <2>5. n - 1 \in 1 .. Slots /\ g[n - 1] \in Task
    BY <2>3, <2>4, SlotsAreSome
  <2>6. g[n] = T[g[n - 1]].next_thread
    BY <1>7, <2>3, <2>4
  <2>7. g[n] \in Task
    BY <2>5, <2>6, PointersAreTyped
  <2> QED
    BY <2>3, <2>7
<1>9. g \in [1 .. Slots -> Task]
  <2>1. \A n \in 1 .. Slots : g[n] \in Task
    BY <1>8
  <2> HIDE DEF Body
  <2> QED
    BY <1>7, <2>1
<1>10. ASSUME NEW n \in 1 .. Slots, n < Slots PROVE g[n + 1] = NextThread(T)[g[n]]
  <2>1. n + 1 \in 1 .. Slots /\ n + 1 # 1 /\ (n + 1) - 1 = n /\ g[n] \in Task
    BY <1>9, <1>10, SlotsAreSome
  <2>2. g[n + 1] = T[g[n]].next_thread
    BY <1>7, <2>1
  <2> QED
    BY <2>1, <2>2, PointersAreTyped
<1>11. g[1] = t
  BY <1>7, SlotsAreSome
<1> QED
  BY <1>9, <1>10, <1>11 DEF Walk, g, Pointer

\* S is closed: it has with every task the next thread of its group.
Closed(T, S) == \A q \in Task : q \in S => T[q].next_thread \in S

\* The group of t is the least closed set with t in it.
LEMMA GroupIsLeast ==
  ASSUME NEW T \in Structs, NEW t \in Task
  PROVE  /\ t \in Group(T, t) /\ Group(T, t) \subseteq Task
         /\ Closed(T, Group(T, t))
         /\ \A S : t \in S /\ Closed(T, S) => Group(T, t) \subseteq S
<1> DEFINE g == Thread(T, t)
<1>1. Walk(g, t, NextThread(T)) /\ g \in [1 .. Slots -> Task]
  BY ThreadWalks
<1>2. Group(T, t) = {g[n] : n \in 1 .. Slots}
  BY DEF Group, Slots
<1> HIDE DEF g
<1>3. t \in Group(T, t) /\ Group(T, t) \subseteq Task
  BY <1>1, <1>2, SlotsAreSome DEF Walk
<1>4. ASSUME NEW q \in Task, q \in Group(T, t) PROVE T[q].next_thread \in Group(T, t)
  <2>1. PICK n \in 1 .. Slots : q = g[n]
    BY <1>2, <1>4
  <2>2. NextThread(T)[g[n]] = T[q].next_thread /\ T[q].next_thread \in Task
    BY <2>1, PointersAreTyped
  <2>3. NextThread(T)[NULL] = NULL
    BY PointersAreTyped
  <2>4. PICK m \in 1 .. Slots : g[m] = NextThread(T)[g[n]]
    <3>1. PICK nxt : nxt = NextThread(T)
      OBVIOUS
    <3>2. Walk(g, t, nxt) /\ nxt[NULL] = NULL /\ nxt[g[n]] \in Task
      BY <1>1, <2>2, <2>3, <3>1
    <3>3. \E m \in 1 .. Slots : g[m] = nxt[g[n]]
      BY <2>1, <3>2, WalkCovers
    <3> QED
      BY <3>1, <3>3
  <2> QED
    BY <1>2, <2>2, <2>4
<1>5. ASSUME NEW S, t \in S, Closed(T, S) PROVE Group(T, t) \subseteq S
  <2>1. \A q \in Pointer : q \in S \cap Task => NextThread(T)[q] \in S \cap Task
    BY <1>5, PointersAreTyped DEF Closed
  <2>2. \A n \in 1 .. Slots : g[n] \in S \cap Task
    BY <1>1, <1>5, <2>1, WalkStays
  <2> QED
    BY <1>2, <2>2
<1> QED
  BY <1>3, <1>4, <1>5 DEF Closed

\* The threads are linked in rings; a free slot is alone.
Rings(T) ==
  /\ \A p, q \in Task : T[p].next_thread = T[q].next_thread => p = q
  /\ \A p \in Task : T[p].state = "FREE" => T[p].next_thread = p

\* In a ring, everyone can be reached from everyone.
LEMMA GroupIsSymmetric ==
  ASSUME NEW T \in Structs, Rings(T), NEW t \in Task, NEW u \in Task, u \in Group(T, t)
  PROVE  t \in Group(T, u)
<1> DEFINE G == Group(T, u)
<1>1. u \in G /\ G \subseteq Task /\ Closed(T, G)
  BY GroupIsLeast
<1>2. \A S : t \in S /\ Closed(T, S) => Group(T, t) \subseteq S
  BY GroupIsLeast
<1> HIDE DEF G
<1>3. SUFFICES ASSUME t \notin G PROVE FALSE
  BY DEF G
<1>4. PICK f : f = [q \in G |-> T[q].next_thread]
  OBVIOUS
<1>5. f \in [G -> G]
  BY <1>1, <1>4 DEF Closed
<1>6. \A p, q \in G : f[p] = f[q] => p = q
  BY <1>1, <1>4 DEF Rings
<1>7. f \in Injection(G, G)
  BY <1>5, <1>6 DEF Injection, IsInjective
<1>8. IsFiniteSet(G)
  BY <1>1, FS_Subset, TaskAssumption
<1>9. f \in Surjection(G, G)
  BY <1>7, <1>8, FS_Injection
<1>10. \A p \in G : \E q \in G : T[q].next_thread = p
  BY <1>4, <1>9 DEF Surjection
<1>11. Closed(T, Task \ G)
  <2>1. ASSUME NEW q \in Task \ G PROVE T[q].next_thread \in Task \ G
    <3>1. T[q].next_thread \in Task
      BY PointersAreTyped
    <3>2. ASSUME T[q].next_thread \in G PROVE FALSE
      <4>1. PICK p \in G : T[p].next_thread = T[q].next_thread
        BY <1>10, <3>2
      <4>2. p = q
        BY <1>1, <4>1 DEF Rings
      <4> QED
        BY <4>2
    <3> QED
      BY <3>1, <3>2
  <2> QED
    BY <2>1 DEF Closed
<1> QED
  BY <1>1, <1>2, <1>3, <1>11

-----------------------------------------------------------------------------
(* Lists of siblings *)

\* a and b agree but for their children and siblings.
Agree(a, b) ==
  /\ a.state = b.state /\ a.p_opptr = b.p_opptr /\ a.p_pptr = b.p_pptr
  /\ a.next_thread = b.next_thread /\ a.sigchld = b.sigchld /\ a.exiting = b.exiting
  /\ a.ptrace = b.ptrace /\ a.sigpending = b.sigpending

\* R is T with one field of p changed.
OsptrSet(R, T, p, v) ==
  /\ R \in Structs
  /\ \A u \in Task : /\ Agree(R[u], T[u]) /\ R[u].p_cptr = T[u].p_cptr
                     /\ R[u].p_osptr = IF u = p THEN v ELSE T[u].p_osptr
                     /\ R[u].p_ysptr = T[u].p_ysptr
YsptrSet(R, T, p, v) ==
  /\ R \in Structs
  /\ \A u \in Task : /\ Agree(R[u], T[u]) /\ R[u].p_cptr = T[u].p_cptr
                     /\ R[u].p_osptr = T[u].p_osptr
                     /\ R[u].p_ysptr = IF u = p THEN v ELSE T[u].p_ysptr
CptrSet(R, T, p, v) ==
  /\ R \in Structs
  /\ \A u \in Task : /\ Agree(R[u], T[u])
                     /\ R[u].p_cptr = IF u = p THEN v ELSE T[u].p_cptr
                     /\ R[u].p_osptr = T[u].p_osptr /\ R[u].p_ysptr = T[u].p_ysptr

\* A store changes one field of one task.
LEMMA StoreIs ==
  ASSUME NEW T \in Structs, NEW p \in Pointer, NEW v \in Pointer
  PROVE  /\ OsptrSet(Store(T, p, "p_osptr", v), T, p, v)
         /\ YsptrSet(Store(T, p, "p_ysptr", v), T, p, v)
         /\ CptrSet(Store(T, p, "p_cptr", v), T, p, v)
<1>1. \A u \in Task : T[u] \in TaskStructs
  BY DEF Structs
<1>2. OsptrSet(Store(T, p, "p_osptr", v), T, p, v)
  <2>1. PICK R : R = Store(T, p, "p_osptr", v)
    OBVIOUS
  <2>2. R = [u \in Task |-> IF u = p THEN [T[u] EXCEPT !.p_osptr = v] ELSE T[u]]
    BY <2>1 DEF Store, Structs
  <2>3. \A u \in Task : [T[u] EXCEPT !.p_osptr = v] \in TaskStructs
    BY <1>1 DEF TaskStructs
  <2>4. R \in [Task -> TaskStructs]
    BY <1>1, <2>2, <2>3
  <2> QED
    BY <1>1, <2>1, <2>2, <2>4 DEF OsptrSet, Structs, TaskStructs, Agree
<1>3. YsptrSet(Store(T, p, "p_ysptr", v), T, p, v)
  <2>1. PICK R : R = Store(T, p, "p_ysptr", v)
    OBVIOUS
  <2>2. R = [u \in Task |-> IF u = p THEN [T[u] EXCEPT !.p_ysptr = v] ELSE T[u]]
    BY <2>1 DEF Store, Structs
  <2>3. \A u \in Task : [T[u] EXCEPT !.p_ysptr = v] \in TaskStructs
    BY <1>1 DEF TaskStructs
  <2>4. R \in [Task -> TaskStructs]
    BY <1>1, <2>2, <2>3
  <2> QED
    BY <1>1, <2>1, <2>2, <2>4 DEF YsptrSet, Structs, TaskStructs, Agree
<1>4. CptrSet(Store(T, p, "p_cptr", v), T, p, v)
  <2>1. PICK R : R = Store(T, p, "p_cptr", v)
    OBVIOUS
  <2>2. R = [u \in Task |-> IF u = p THEN [T[u] EXCEPT !.p_cptr = v] ELSE T[u]]
    BY <2>1 DEF Store, Structs
  <2>3. \A u \in Task : [T[u] EXCEPT !.p_cptr = v] \in TaskStructs
    BY <1>1 DEF TaskStructs
  <2>4. R \in [Task -> TaskStructs]
    BY <1>1, <2>2, <2>3
  <2> QED
    BY <1>1, <2>1, <2>2, <2>4 DEF CptrSet, Structs, TaskStructs, Agree
<1> QED
  BY <1>2, <1>3, <1>4

\* R is T with p linked as the youngest child of its parent.
Linked(T, R, p) ==
  LET par    == T[p].p_pptr
      oldest == T[par].p_cptr
  IN  \A u \in Task :
        /\ Agree(R[u], T[u])
        /\ R[u].p_cptr = IF u = par THEN p ELSE T[u].p_cptr
        /\ R[u].p_osptr = IF u = p THEN oldest ELSE T[u].p_osptr
        /\ R[u].p_ysptr = IF u = oldest THEN p ELSE IF u = p THEN NULL ELSE T[u].p_ysptr

\* R is T with p taken off the list it is on.
Unlinked(T, R, p) ==
  LET y == T[p].p_ysptr
      o == T[p].p_osptr
  IN  \A u \in Task :
        /\ Agree(R[u], T[u])
        /\ R[u].p_cptr = IF y = NULL /\ u = T[p].p_pptr THEN o ELSE T[u].p_cptr
        /\ R[u].p_osptr = IF u = y THEN o ELSE T[u].p_osptr
        /\ R[u].p_ysptr = IF u = o THEN y ELSE T[u].p_ysptr

\* What SET_LINKS does.
LEMMA SetLinksIs ==
  ASSUME NEW T \in Structs, NEW p \in Task, T[p].p_pptr \in Task
  PROVE  SET_LINKS(T, p) \in Structs /\ Linked(T, SET_LINKS(T, p), p)
<1>1. PICK par, oldest : par = T[p].p_pptr /\ oldest = T[par].p_cptr
  OBVIOUS
<1>2. /\ par \in Task /\ oldest \in Pointer /\ T[p] \in TaskStructs
      /\ p \in Pointer /\ NULL \notin Task /\ NULL \in Pointer
  BY <1>1, TaskAssumption DEF Structs, TaskStructs, Pointer
<1>3. PICK S : S = [T EXCEPT ![p].p_ysptr = NULL, ![p].p_osptr = oldest]
  OBVIOUS
<1>4. /\ S \in Structs
      /\ \A u \in Task :
           /\ Agree(S[u], T[u]) /\ S[u].p_cptr = T[u].p_cptr
           /\ S[u].p_osptr = IF u = p THEN oldest ELSE T[u].p_osptr
           /\ S[u].p_ysptr = IF u = p THEN NULL ELSE T[u].p_ysptr
  <2>1. PICK r : r = [T[p] EXCEPT !.p_ysptr = NULL, !.p_osptr = oldest]
    OBVIOUS
  <2>2. /\ r \in TaskStructs /\ Agree(r, T[p]) /\ r.p_cptr = T[p].p_cptr
        /\ r.p_osptr = oldest /\ r.p_ysptr = NULL
    BY <1>2, <2>1 DEF TaskStructs, Agree
  <2>3. S = [u \in Task |-> IF u = p THEN r ELSE T[u]]
    BY <1>3, <2>1 DEF Structs
  <2> QED
    BY <2>2, <2>3 DEF Structs, Agree
<1>5. PICK O : O = IF oldest # NULL THEN Store(S, oldest, "p_ysptr", p) ELSE S
  OBVIOUS
<1>6. /\ O \in Structs
      /\ \A u \in Task :
           /\ Agree(O[u], S[u]) /\ O[u].p_cptr = S[u].p_cptr /\ O[u].p_osptr = S[u].p_osptr
           /\ O[u].p_ysptr = IF u = oldest THEN p ELSE S[u].p_ysptr
  <2>1. CASE oldest # NULL
    <3>1. YsptrSet(O, S, oldest, p)
      BY <1>2, <1>4, <1>5, <2>1, StoreIs
    <3> QED
      BY <3>1 DEF YsptrSet
  <2>2. CASE oldest = NULL
    BY <1>2, <1>4, <1>5, <2>2 DEF Agree
  <2> QED
    BY <2>1, <2>2
<1>7. O[p].p_pptr = par
  BY <1>1, <1>4, <1>6 DEF Agree
<1>8. SET_LINKS(T, p) = Store(O, par, "p_cptr", p)
  BY <1>1, <1>3, <1>5, <1>7 DEF SET_LINKS
<1>9. PICK R : R = Store(O, par, "p_cptr", p)
  OBVIOUS
<1>10. /\ R \in Structs
       /\ \A u \in Task :
            /\ Agree(R[u], O[u]) /\ R[u].p_ysptr = O[u].p_ysptr /\ R[u].p_osptr = O[u].p_osptr
            /\ R[u].p_cptr = IF u = par THEN p ELSE O[u].p_cptr
  <2>1. CptrSet(R, O, par, p)
    <3>1. par \in Pointer
      BY <1>2 DEF Pointer
    <3> QED
      BY <1>2, <1>6, <1>9, <3>1, StoreIs
  <2> QED
    BY <2>1 DEF CptrSet
<1>11. Linked(T, R, p)
  BY <1>1, <1>4, <1>6, <1>10 DEF Linked, Agree
<1> QED
  BY <1>8, <1>9, <1>10, <1>11

\* What REMOVE_LINKS does.
LEMMA RemoveLinksIs ==
  ASSUME NEW T \in Structs, NEW p \in Task, T[p].p_osptr # p
  PROVE  REMOVE_LINKS(T, p) \in Structs /\ Unlinked(T, REMOVE_LINKS(T, p), p)
<1>1. PICK y, o, par : y = T[p].p_ysptr /\ o = T[p].p_osptr /\ par = T[p].p_pptr
  OBVIOUS
<1>2. y \in Pointer /\ o \in Pointer /\ par \in Pointer /\ NULL \notin Task /\ o # p
  BY <1>1, TaskAssumption DEF Structs, TaskStructs, Pointer
<1>3. PICK O : O = IF o # NULL THEN Store(T, o, "p_ysptr", y) ELSE T
  OBVIOUS
<1>4. /\ O \in Structs
      /\ \A u \in Task :
           /\ Agree(O[u], T[u]) /\ O[u].p_cptr = T[u].p_cptr /\ O[u].p_osptr = T[u].p_osptr
           /\ O[u].p_ysptr = IF u = o THEN y ELSE T[u].p_ysptr
  <2>1. CASE o # NULL
    <3>1. YsptrSet(O, T, o, y)
      BY <1>2, <1>3, <2>1, StoreIs
    <3> QED
      BY <3>1 DEF YsptrSet
  <2>2. CASE o = NULL
    BY <1>2, <1>3, <2>2 DEF Agree
  <2> QED
    BY <2>1, <2>2
<1>5. O[p].p_ysptr = y /\ O[p].p_osptr = o /\ O[p].p_pptr = par
  BY <1>1, <1>2, <1>4 DEF Agree
<1>6. REMOVE_LINKS(T, p) = IF y # NULL THEN Store(O, y, "p_osptr", o)
                           ELSE Store(O, par, "p_cptr", o)
  BY <1>1, <1>3, <1>5 DEF REMOVE_LINKS
<1>7. PICK R : R = IF y # NULL THEN Store(O, y, "p_osptr", o) ELSE Store(O, par, "p_cptr", o)
  OBVIOUS
<1>8. /\ R \in Structs
      /\ \A u \in Task :
           /\ Agree(R[u], O[u]) /\ R[u].p_ysptr = O[u].p_ysptr
           /\ R[u].p_osptr = IF u = y THEN o ELSE O[u].p_osptr
           /\ R[u].p_cptr = IF y = NULL /\ u = par THEN o ELSE O[u].p_cptr
  <2>1. CASE y # NULL
    <3>1. OsptrSet(R, O, y, o)
      BY <1>2, <1>4, <1>7, <2>1, StoreIs
    <3> QED
      BY <2>1, <3>1 DEF OsptrSet
  <2>2. CASE y = NULL
    <3>1. CptrSet(R, O, par, o)
      BY <1>2, <1>4, <1>7, <2>2, StoreIs
    <3>2. \A u \in Task : u # y
      BY <1>2, <2>2
    <3> QED
      BY <2>2, <3>1, <3>2 DEF CptrSet
  <2> QED
    BY <2>1, <2>2
<1>9. Unlinked(T, R, p)
  BY <1>1, <1>4, <1>8 DEF Unlinked, Agree
<1> QED
  BY <1>6, <1>7, <1>8, <1>9

\* The lists of the tasks S.  Those in stale are first on their lists, and what they
\* have as their younger sibling is out of date.
OnList(T, S, stale) ==
  /\ \A t \in Task : T[t].p_cptr # NULL =>
       /\ T[t].p_cptr \in S /\ T[T[t].p_cptr].p_pptr = t
       /\ T[t].p_cptr \notin stale => T[T[t].p_cptr].p_ysptr = NULL
  /\ \A p \in S : T[p].p_osptr # NULL =>
       /\ T[p].p_osptr \in S /\ T[T[p].p_osptr].p_pptr = T[p].p_pptr
       /\ T[T[p].p_osptr].p_ysptr = p
       /\ T[T[p].p_pptr].p_cptr # T[p].p_osptr
  /\ \A p \in S :
       /\ T[p].p_pptr \in Task
       /\ T[T[p].p_pptr].p_cptr # p => T[p].p_ysptr \in S /\ T[T[p].p_ysptr].p_osptr = p

\* No list is a circle: siblings have ages.
Aged(T, S, age) ==
  /\ age \in [Task -> Nat]
  /\ \A p \in S : T[p].p_osptr # NULL => age[p] < age[T[p].p_osptr]

Lists(T, S, stale) == OnList(T, S, stale) /\ \E age : Aged(T, S, age)

\* Nobody is an own sibling.
LEMMA ListsAreStrict ==
  ASSUME NEW T \in Structs, NEW S \in SUBSET Task, NEW stale, Lists(T, S, stale), NEW p \in S
  PROVE  T[p].p_osptr # p
<1>1. PICK age : Aged(T, S, age)
  BY DEF Lists
<1>2. age[p] \in Nat /\ p # NULL
  BY <1>1, TaskAssumption DEF Aged
<1> QED
  BY <1>1, <1>2 DEF Aged

\* A task that is linked joins the list of its parent.
LEMMA LinkKeepsLists ==
  ASSUME NEW T \in Structs, NEW R \in Structs, NEW S \in SUBSET Task, NEW stale,
         Lists(T, S, stale), NEW p \in Task, p \notin S, T[p].p_pptr \in Task, Linked(T, R, p)
  PROVE  Lists(R, S \cup {p}, stale)
<1>1. PICK par, oldest : par = T[p].p_pptr /\ oldest = T[par].p_cptr
  OBVIOUS
<1>2. /\ par \in Task /\ oldest \in Pointer /\ NULL \notin Task
      /\ oldest # NULL => oldest \in S /\ T[oldest].p_pptr = par /\ oldest # p
  BY <1>1, TaskAssumption DEF Structs, TaskStructs, Lists, OnList
<1>3. \A u \in Task :
        /\ R[u].p_pptr = T[u].p_pptr
        /\ R[u].p_cptr = IF u = par THEN p ELSE T[u].p_cptr
        /\ R[u].p_osptr = IF u = p THEN oldest ELSE T[u].p_osptr
        /\ R[u].p_ysptr = IF u = oldest THEN p ELSE IF u = p THEN NULL ELSE T[u].p_ysptr
  BY <1>1 DEF Linked, Agree
<1>4. OnList(T, S, stale)
  BY DEF Lists
<1>5. ASSUME NEW t \in Task, R[t].p_cptr # NULL
      PROVE  /\ R[t].p_cptr \in S \cup {p} /\ R[R[t].p_cptr].p_pptr = t
             /\ R[t].p_cptr \notin stale => R[R[t].p_cptr].p_ysptr = NULL
  <2>1. CASE t = par
    BY <1>1, <1>2, <1>3, <2>1
  <2>2. CASE t # par
    <3>1. /\ R[t].p_cptr = T[t].p_cptr /\ T[t].p_cptr \in S /\ T[t].p_cptr # p
          /\ T[T[t].p_cptr].p_pptr = t
          /\ T[t].p_cptr \notin stale => T[T[t].p_cptr].p_ysptr = NULL
      BY <1>3, <1>4, <1>5, <2>2 DEF OnList
    <3>2. T[t].p_cptr # oldest
      BY <1>2, <2>2, <3>1
    <3> QED
      BY <1>3, <3>1, <3>2
  <2> QED
    BY <2>1, <2>2
<1>6. ASSUME NEW q \in S \cup {p}, R[q].p_osptr # NULL
      PROVE  /\ R[q].p_osptr \in S \cup {p} /\ R[R[q].p_osptr].p_pptr = R[q].p_pptr
             /\ R[R[q].p_osptr].p_ysptr = q
             /\ R[R[q].p_pptr].p_cptr # R[q].p_osptr
  <2>1. CASE q = p
    BY <1>1, <1>2, <1>3, <1>6, <2>1
  <2>2. CASE q # p
    <3>1. /\ q \in S /\ R[q].p_osptr = T[q].p_osptr /\ R[q].p_pptr = T[q].p_pptr
          /\ T[q].p_osptr \in S /\ T[q].p_osptr # p
          /\ T[T[q].p_osptr].p_pptr = T[q].p_pptr /\ T[T[q].p_osptr].p_ysptr = q
          /\ T[T[q].p_pptr].p_cptr # T[q].p_osptr /\ T[q].p_pptr \in Task
      BY <1>3, <1>4, <1>6, <2>2 DEF OnList
    <3>2. T[q].p_osptr # oldest
      BY <1>1, <1>2, <3>1
    <3> QED
      BY <1>3, <3>1, <3>2
  <2> QED
    BY <2>1, <2>2
<1>7. ASSUME NEW q \in S \cup {p}
      PROVE  /\ R[q].p_pptr \in Task
             /\ R[R[q].p_pptr].p_cptr # q =>
                  R[q].p_ysptr \in S \cup {p} /\ R[R[q].p_ysptr].p_osptr = q
  <2>1. CASE q = p
    BY <1>1, <1>2, <1>3, <2>1
  <2>2. CASE q # p
    <3>1. /\ q \in S /\ R[q].p_pptr = T[q].p_pptr /\ T[q].p_pptr \in Task
          /\ T[T[q].p_pptr].p_cptr # q =>
               T[q].p_ysptr \in S /\ T[T[q].p_ysptr].p_osptr = q /\ T[q].p_ysptr # p
      BY <1>3, <1>4, <2>2 DEF OnList
    <3>2. CASE q = oldest
      BY <1>3, <3>1, <3>2
    <3>3. CASE q # oldest
      BY <1>1, <1>2, <1>3, <2>2, <3>1, <3>3
    <3> QED
      BY <3>2, <3>3
  <2> QED
    BY <2>1, <2>2
<1>8. OnList(R, S \cup {p}, stale)
  BY <1>5, <1>6, <1>7 DEF OnList
<1>9. PICK age : Aged(T, S, age)
  BY DEF Lists
<1>10. PICK new : new = [q \in Task |-> IF q = p THEN 0 ELSE age[q] + 1]
  OBVIOUS
<1>11. new \in [Task -> Nat]
  BY <1>9, <1>10 DEF Aged
<1>12. ASSUME NEW q \in S \cup {p}, R[q].p_osptr # NULL PROVE new[q] < new[R[q].p_osptr]
  <2>1. R[q].p_osptr \in S
    <3>1. CASE q = p
      BY <1>2, <1>3, <1>12, <3>1
    <3>2. CASE q # p
      BY <1>3, <1>4, <1>12, <3>2 DEF OnList
    <3> QED
      BY <3>1, <3>2
  <2>2. /\ R[q].p_osptr \in Task /\ R[q].p_osptr # p
        /\ new[R[q].p_osptr] = age[R[q].p_osptr] + 1 /\ age[R[q].p_osptr] \in Nat
    BY <1>9, <1>10, <2>1 DEF Aged
  <2>3. CASE q = p
    BY <1>10, <2>2, <2>3
  <2>4. CASE q # p
    <3>1. new[q] = age[q] + 1 /\ age[q] \in Nat /\ age[q] < age[T[q].p_osptr]
      BY <1>3, <1>9, <1>10, <1>12, <2>4 DEF Aged
    <3>2. R[q].p_osptr = T[q].p_osptr
      BY <1>3, <2>4
    <3> QED
      BY <2>2, <3>1, <3>2
  <2> QED
    BY <2>3, <2>4
<1>13. Aged(R, S \cup {p}, new)
  BY <1>11, <1>12 DEF Aged
<1> QED
  BY <1>8, <1>13 DEF Lists

\* A task that is unlinked leaves its list.
LEMMA UnlinkKeepsLists ==
  ASSUME NEW T \in Structs, NEW R \in Structs, NEW S \in SUBSET Task, Lists(T, S, {}),
         NEW p \in S, Unlinked(T, R, p)
  PROVE  Lists(R, S \ {p}, {})
<1>1. PICK y, o, par : y = T[p].p_ysptr /\ o = T[p].p_osptr /\ par = T[p].p_pptr
  OBVIOUS
<1>2. OnList(T, S, {})
  BY DEF Lists
<1>3. PICK age : Aged(T, S, age)
  BY DEF Lists
<1>4. /\ y \in Pointer /\ o \in Pointer /\ par \in Task /\ NULL \notin Task /\ o # p
      /\ p \in Task
  BY <1>1, <1>2, TaskAssumption, ListsAreStrict DEF Structs, TaskStructs, OnList, Pointer
<1>5. \A u \in Task :
        /\ R[u].p_pptr = T[u].p_pptr
        /\ R[u].p_cptr = IF y = NULL /\ u = par THEN o ELSE T[u].p_cptr
        /\ R[u].p_osptr = IF u = y THEN o ELSE T[u].p_osptr
        /\ R[u].p_ysptr = IF u = o THEN y ELSE T[u].p_ysptr
  BY <1>1 DEF Unlinked, Agree
<1>6. o # NULL => /\ o \in S /\ o \in Task /\ T[o].p_pptr = par /\ T[o].p_ysptr = p
                  /\ T[par].p_cptr # o
  BY <1>1, <1>2 DEF OnList
<1>7. y = NULL <=> T[par].p_cptr = p
  BY <1>1, <1>2, <1>4 DEF OnList
<1>8. y # NULL => y \in S /\ y \in Task /\ T[y].p_osptr = p /\ y # p /\ T[y].p_pptr = par
  <2>1. SUFFICES ASSUME y # NULL
                 PROVE  y \in S /\ y \in Task /\ T[y].p_osptr = p /\ y # p /\ T[y].p_pptr = par
    OBVIOUS
  <2>2. y \in S /\ T[y].p_osptr = p
    BY <1>1, <1>2, <1>7, <2>1 DEF OnList
  <2>3. T[p].p_pptr = T[y].p_pptr
    BY <1>2, <1>4, <2>2 DEF OnList
  <2> QED
    BY <1>1, <1>4, <2>2, <2>3
<1>9. ASSUME NEW t \in Task, R[t].p_cptr # NULL
      PROVE  /\ R[t].p_cptr \in S \ {p} /\ R[R[t].p_cptr].p_pptr = t
             /\ R[R[t].p_cptr].p_ysptr = NULL
  <2>1. CASE y = NULL /\ t = par
    BY <1>4, <1>5, <1>6, <1>9, <2>1
  <2>2. CASE ~ (y = NULL /\ t = par)
    <3>1. /\ R[t].p_cptr = T[t].p_cptr /\ T[t].p_cptr \in S
          /\ T[T[t].p_cptr].p_pptr = t /\ T[T[t].p_cptr].p_ysptr = NULL
      BY <1>2, <1>5, <1>9, <2>2 DEF OnList
    <3>2. T[t].p_cptr # p
      BY <1>1, <1>7, <2>2, <3>1
    <3>3. T[t].p_cptr # o
      BY <1>4, <1>6, <3>1
    <3> QED
      BY <1>5, <3>1, <3>2, <3>3
  <2> QED
    BY <2>1, <2>2
<1>10. ASSUME NEW q \in S \ {p}, R[q].p_osptr # NULL
       PROVE  /\ R[q].p_osptr \in S \ {p} /\ R[R[q].p_osptr].p_pptr = R[q].p_pptr
              /\ R[R[q].p_osptr].p_ysptr = q
              /\ R[R[q].p_pptr].p_cptr # R[q].p_osptr
              /\ \/ R[q].p_osptr = T[q].p_osptr
                 \/ q = y /\ R[q].p_osptr = o
  <2>1. CASE q = y
    BY <1>4, <1>5, <1>6, <1>8, <1>10, <2>1
  <2>2. CASE q # y
    <3>1. /\ R[q].p_osptr = T[q].p_osptr /\ R[q].p_pptr = T[q].p_pptr
          /\ T[q].p_osptr \in S /\ T[T[q].p_osptr].p_ysptr = q
          /\ T[T[q].p_osptr].p_pptr = T[q].p_pptr
          /\ T[T[q].p_pptr].p_cptr # T[q].p_osptr /\ T[q].p_pptr \in Task
      BY <1>2, <1>5, <1>10, <2>2 DEF OnList
    <3>2. T[q].p_osptr # p
      BY <1>1, <2>2, <3>1
    <3>3. T[q].p_osptr # o
      BY <1>6, <1>10, <3>1
    <3> QED
      BY <1>5, <3>1, <3>2, <3>3
  <2> QED
    BY <2>1, <2>2
<1>11. ASSUME NEW q \in S \ {p}
       PROVE  /\ R[q].p_pptr \in Task
              /\ R[R[q].p_pptr].p_cptr # q =>
                   R[q].p_ysptr \in S \ {p} /\ R[R[q].p_ysptr].p_osptr = q
  <2>1. /\ R[q].p_pptr = T[q].p_pptr /\ T[q].p_pptr \in Task
        /\ T[T[q].p_pptr].p_cptr # q => T[q].p_ysptr \in S /\ T[T[q].p_ysptr].p_osptr = q
    BY <1>2, <1>5 DEF OnList
  <2>2. CASE q = o
    BY <1>4, <1>5, <1>6, <1>8, <2>1, <2>2
  <2>3. CASE q # o
    <3>1. SUFFICES ASSUME R[R[q].p_pptr].p_cptr # q
                   PROVE  R[q].p_ysptr \in S \ {p} /\ R[R[q].p_ysptr].p_osptr = q
      BY <2>1
    <3>2. T[T[q].p_pptr].p_cptr # q
      BY <1>5, <1>7, <2>1, <3>1
    <3>3. R[q].p_ysptr = T[q].p_ysptr
      BY <1>5, <2>3
    <3>4. T[q].p_ysptr # p /\ T[q].p_ysptr # y
      BY <1>1, <1>4, <1>8, <2>1, <2>3, <3>2
    <3> QED
      BY <1>5, <2>1, <3>2, <3>3, <3>4
  <2> QED
    BY <2>2, <2>3
<1>12. OnList(R, S \ {p}, {})
  BY <1>9, <1>10, <1>11 DEF OnList
<1>13. ASSUME NEW q \in S \ {p}, R[q].p_osptr # NULL PROVE age[q] < age[R[q].p_osptr]
  <2>1. CASE R[q].p_osptr = T[q].p_osptr
    BY <1>3, <1>13, <2>1 DEF Aged
  <2>2. CASE q = y /\ R[q].p_osptr = o
    <3>1. age[y] < age[p] /\ age[p] < age[o] /\ o \in Task
      BY <1>1, <1>3, <1>4, <1>6, <1>8, <1>13, <2>2 DEF Aged
    <3>2. age[y] \in Nat /\ age[p] \in Nat /\ age[o] \in Nat
      BY <1>3, <1>4, <2>2, <3>1 DEF Aged
    <3> QED
      BY <2>2, <3>1, <3>2
  <2> QED
    BY <1>10, <1>13, <2>1, <2>2
<1>14. Aged(R, S \ {p}, age)
  BY <1>3, <1>13 DEF Aged
<1> QED
  BY <1>12, <1>14 DEF Lists

\* The first child of t, stale or not, is dropped from the front of the list.
LEMMA DropKeepsLists ==
  ASSUME NEW T \in Structs, NEW R \in Structs, NEW S \in SUBSET Task, NEW t \in Task,
         NEW p \in S, T[t].p_cptr = p, Lists(T, S, {p}),
         \A u \in Task : /\ u # p => R[u].p_pptr = T[u].p_pptr
                         /\ R[u].p_cptr = IF u = t THEN T[p].p_osptr ELSE T[u].p_cptr
                         /\ R[u].p_osptr = T[u].p_osptr /\ R[u].p_ysptr = T[u].p_ysptr
  PROVE  Lists(R, S \ {p}, {T[p].p_osptr})
<1>1. PICK o : o = T[p].p_osptr
  OBVIOUS
<1>2. OnList(T, S, {p})
  BY DEF Lists
<1>3. PICK age : Aged(T, S, age)
  BY DEF Lists
<1>4. /\ o \in Pointer /\ NULL \notin Task /\ o # p /\ p \in Task /\ T[p].p_pptr = t
      /\ o # NULL => o \in S /\ o \in Task /\ T[o].p_pptr = t /\ T[o].p_ysptr = p
  BY <1>1, <1>2, TaskAssumption, ListsAreStrict DEF Structs, TaskStructs, OnList
<1>5. \A u \in Task : /\ u # p => R[u].p_pptr = T[u].p_pptr
                      /\ R[u].p_cptr = IF u = t THEN o ELSE T[u].p_cptr
                      /\ R[u].p_osptr = T[u].p_osptr /\ R[u].p_ysptr = T[u].p_ysptr
  BY <1>1
<1>6. ASSUME NEW u \in Task, R[u].p_cptr # NULL
      PROVE  /\ R[u].p_cptr \in S \ {p} /\ R[R[u].p_cptr].p_pptr = u
             /\ R[u].p_cptr \notin {o} => R[R[u].p_cptr].p_ysptr = NULL
  <2>1. CASE u = t
    BY <1>4, <1>5, <1>6, <2>1
  <2>2. CASE u # t
    <3>1. /\ R[u].p_cptr = T[u].p_cptr /\ T[u].p_cptr \in S /\ T[T[u].p_cptr].p_pptr = u
          /\ T[u].p_cptr # p
      BY <1>2, <1>4, <1>5, <1>6, <2>2 DEF OnList
    <3>2. T[T[u].p_cptr].p_ysptr = NULL
      BY <1>2, <1>5, <1>6, <2>2, <3>1 DEF OnList
    <3> QED
      BY <1>5, <3>1, <3>2
  <2> QED
    BY <2>1, <2>2
<1>7. ASSUME NEW q \in S \ {p}, R[q].p_osptr # NULL
      PROVE  /\ R[q].p_osptr \in S \ {p} /\ R[R[q].p_osptr].p_pptr = R[q].p_pptr
             /\ R[R[q].p_osptr].p_ysptr = q
             /\ R[R[q].p_pptr].p_cptr # R[q].p_osptr
  <2>1. /\ R[q].p_osptr = T[q].p_osptr /\ R[q].p_pptr = T[q].p_pptr
        /\ T[q].p_osptr \in S /\ T[T[q].p_osptr].p_ysptr = q
        /\ T[T[q].p_osptr].p_pptr = T[q].p_pptr
        /\ T[T[q].p_pptr].p_cptr # T[q].p_osptr /\ T[q].p_pptr \in Task
    BY <1>2, <1>5, <1>7 DEF OnList
  <2>2. T[q].p_osptr # p
    BY <1>4, <2>1
  <2>3. T[q].p_osptr # o
    BY <1>4, <1>7, <2>1
  <2> QED
    BY <1>5, <2>1, <2>2, <2>3
<1>8. ASSUME NEW q \in S \ {p}
      PROVE  /\ R[q].p_pptr \in Task
             /\ R[R[q].p_pptr].p_cptr # q =>
                  R[q].p_ysptr \in S \ {p} /\ R[R[q].p_ysptr].p_osptr = q
  <2>1. /\ R[q].p_pptr = T[q].p_pptr /\ T[q].p_pptr \in Task
        /\ T[T[q].p_pptr].p_cptr # q => T[q].p_ysptr \in S /\ T[T[q].p_ysptr].p_osptr = q
    BY <1>2, <1>5 DEF OnList
  <2>2. SUFFICES ASSUME R[R[q].p_pptr].p_cptr # q
                 PROVE  R[q].p_ysptr \in S \ {p} /\ R[R[q].p_ysptr].p_osptr = q
    BY <2>1
  <2>3. T[T[q].p_pptr].p_cptr # q
    BY <1>5, <2>1, <2>2
  <2>4. q # o
    BY <1>4, <1>5, <2>1, <2>2
  <2>5. T[q].p_ysptr # p
    BY <1>1, <2>1, <2>3, <2>4
  <2> QED
    BY <1>5, <2>1, <2>3, <2>5
<1>9. OnList(R, S \ {p}, {o})
  BY <1>6, <1>7, <1>8 DEF OnList
<1>10. Aged(R, S \ {p}, age)
  BY <1>3, <1>5 DEF Aged
<1> QED
  BY <1>1, <1>9, <1>10 DEF Lists

\* What else changes does not matter to the lists.
LEMMA ListsFrame ==
  ASSUME NEW T \in Structs, NEW R \in Structs, NEW S \in SUBSET Task, NEW stale, NEW new,
         Lists(T, S, stale),
         \A t \in Task : T[t].p_cptr # NULL /\ T[t].p_cptr \in stale => T[t].p_cptr \in new,
         \A u \in Task : R[u].p_cptr = T[u].p_cptr,
         \A u \in S : /\ R[u].p_pptr = T[u].p_pptr /\ R[u].p_osptr = T[u].p_osptr
                      /\ R[u].p_ysptr = T[u].p_ysptr
  PROVE  Lists(R, S, new)
<1>1. OnList(T, S, stale)
  BY DEF Lists
<1>2. OnList(R, S, new)
  BY <1>1 DEF OnList
<1>3. PICK age : Aged(T, S, age)
  BY DEF Lists
<1>4. Aged(R, S, age)
  BY <1>3 DEF Aged
<1> QED
  BY <1>2, <1>4 DEF Lists

\* The way through the children of t comes to all of them, and no others.
LEMMA ChildrenAreFound ==
  ASSUME NEW T \in Structs, NEW S \in SUBSET Task, NEW stale, Lists(T, S, stale), NEW t \in Task
  PROVE  /\ Child(T, t) \in [1 .. Slots -> Pointer]
         /\ \A n \in 1 .. Slots :
              Child(T, t)[n] # NULL => Child(T, t)[n] \in S /\ T[Child(T, t)[n]].p_pptr = t
         /\ \A p \in S : T[p].p_pptr = t => \E n \in 1 .. Slots : Child(T, t)[n] = p
<1>1. OnList(T, S, stale)
  BY DEF Lists
<1>2. PICK age : Aged(T, S, age)
  BY DEF Lists
<1>3. PICK w, nxt : w = Child(T, t) /\ nxt = Older(T)
  OBVIOUS
<1>4. Walk(w, T[t].p_cptr, nxt)
  BY <1>3, ChildWalks
<1>5. /\ nxt[NULL] = NULL
      /\ \A q \in Task : nxt[q] = T[q].p_osptr /\ q # NULL
  BY <1>3, PointersAreTyped
<1>6. w \in [1 .. Slots -> Pointer] /\ 1 \in 1 .. Slots /\ w[1] = T[t].p_cptr
  BY <1>4, SlotsAreSome DEF Walk
<1>7. ASSUME NEW n \in 1 .. Slots, w[n] # NULL PROVE w[n] \in S /\ T[w[n]].p_pptr = t
  <2> DEFINE Kids == {NULL} \cup {q \in S : T[q].p_pptr = t}
  <2>1. T[t].p_cptr \in Kids
    BY <1>1 DEF OnList
  <2>2. ASSUME NEW q \in Pointer, q \in Kids PROVE nxt[q] \in Kids
    <3>1. CASE q = NULL
      BY <1>5, <3>1
    <3>2. CASE q # NULL
      <4>1. q \in S /\ q \in Task /\ T[q].p_pptr = t /\ nxt[q] = T[q].p_osptr
        BY <1>5, <2>2, <3>2
      <4> QED
        BY <1>1, <4>1 DEF OnList
    <3> QED
      BY <3>1, <3>2
  <2> HIDE DEF Kids
  <2>3. \A m \in 1 .. Slots : w[m] \in Kids
    BY <1>4, <2>1, <2>2, WalkStays
  <2> QED
    BY <1>7, <2>3 DEF Kids
<1>8. ASSUME NEW p \in S, T[p].p_pptr = t PROVE \E n \in 1 .. Slots : w[n] = p
  <2> DEFINE Missed == {q \in S : T[q].p_pptr = t /\ \A n \in 1 .. Slots : w[n] # q}
             Ages   == {age[q] : q \in Missed}
  <2>1. SUFFICES ASSUME p \in Missed PROVE FALSE
    BY <1>8
  <2>2. Ages \in SUBSET Nat /\ Ages # {}
    BY <1>2, <2>1 DEF Aged
  <2>3. PICK a \in Ages : \A b \in Ages : a <= b
    BY <2>2, LeastNat
  <2>4. PICK q \in Missed : a = age[q]
    BY <2>3
  <2>5. /\ q \in S /\ q \in Task /\ T[q].p_pptr = t /\ \A n \in 1 .. Slots : w[n] # q
        /\ age[q] \in Nat
    BY <1>2, <2>4 DEF Aged
  <2>6. T[t].p_cptr # q
    BY <1>6, <2>5
  <2>7. PICK y : y = T[q].p_ysptr
    OBVIOUS
  <2>8. y \in S /\ y \in Task /\ T[y].p_osptr = q
    BY <1>1, <2>5, <2>6, <2>7 DEF OnList
  <2>9. q # NULL
    BY <1>5, <2>5
  <2>10. T[y].p_pptr = t /\ age[y] < age[q] /\ age[y] \in Nat
    BY <1>1, <1>2, <2>5, <2>8, <2>9 DEF OnList, Aged
  <2>11. y \notin Missed
    <3>1. ASSUME y \in Missed PROVE FALSE
      <4>1. age[q] <= age[y]
        BY <2>3, <2>4, <3>1
      <4> QED
        BY <2>5, <2>10, <4>1
    <3> QED
      BY <3>1
  <2>12. PICK n \in 1 .. Slots : w[n] = y
    BY <2>8, <2>10, <2>11
  <2>13. nxt[w[n]] = q
    BY <1>5, <2>8, <2>12
  <2>14. \E m \in 1 .. Slots : w[m] = nxt[w[n]]
    BY <1>4, <1>5, <2>5, <2>12, <2>13, WalkCovers
  <2> QED
    BY <2>5, <2>13, <2>14
<1> QED
  BY <1>3, <1>6, <1>7, <1>8

-----------------------------------------------------------------------------
(* The inductive invariant *)

\* Where a process is in wait4 with its state set, and in exit: at all, after its children
\* have new original parents, after it has become a zombie, and after the children are gone.
InWait   == {"scan", "sched", "asleep", "found", "release", "handback"}
InExit   == {"forget", "assign", "notify", "loop", "relock", "leave", "dead"}
Orphaned == {"notify", "loop", "relock", "leave", "dead", "none"}
Dying    == {"loop", "relock", "leave", "dead"}
Gone     == {"leave", "dead", "none"}

\* The state of a task, and what place it fits.
StateAt(t) ==
  /\ pc[t] = "none" <=> task[t].state = "FREE"
  /\ pc[t] \in {"user", "repeat", "forget", "assign", "notify"} => task[t].state = "RUNNING"
  /\ pc[t] \in InWait => task[t].state \in {"RUNNING", "INTERRUPTIBLE"}
  /\ pc[t] \in Dying => task[t].state = "ZOMBIE"
  /\ pc[t] \in InExit <=> task[t].exiting
  /\ pc[t] = "relock" => build.pgrps
StateOK == /\ \A t \in Task : StateAt(t)
           /\ pc[child_reaper] \notin InExit \cup {"none"}

\* Who holds tasklist_lock.
LockOK ==
  /\ \A t \in Task : /\ tasklist_lock.writer = t <=> pc[t] = "loop"
                     /\ t \in tasklist_lock.readers <=> pc[t] = "assign"
  /\ tasklist_lock.writer # NULL => tasklist_lock.readers = {}

\* On one processor, at most one process is where it does not let others run.
Alone ==
  ~build.smp => \A t, u \in Task : t # u => pc[t] \in MayYield \/ pc[u] \in MayYield

Threaded == "CLONE_THREAD" \in build.clone

\* Without threads, each ring is one task.
GroupsOK == Rings(task) /\ (~Threaded => \A t \in Task : task[t].next_thread = t)

\* The tasks that have parents.
Members(T) == {p \in Task : T[p].state # "FREE" /\ p # child_reaper}

\* Parents have not left exit_notify, and original parents have not come to it.
KinAt(p) == /\ task[p].p_pptr \in Task /\ pc[task[p].p_pptr] \notin Gone
            /\ task[p].p_opptr \in Task /\ pc[task[p].p_opptr] \notin Orphaned
Kin == /\ \A p \in Members(task) : KinAt(p)
       /\ task[child_reaper].p_pptr = NULL /\ task[child_reaper].p_opptr = NULL
       /\ task[child_reaper].p_osptr = NULL

\* The lists of siblings agree, but for the child exit_notify comes to next.
Stale  == {task[t].p_cptr : t \in {u \in Task : pc[u] \in {"loop", "relock"}}}
TreeOK == Lists(task, Members(task), Stale)

\* The child wait4 has found, and the reaper that forget_original_parent has chosen.
LocalAt(t) ==
  /\ pc[t] \in {"found", "release", "handback"} =>
       /\ local[t].p \in Members(task) /\ task[local[t].p].state = "ZOMBIE"
       /\ task[local[t].p].p_pptr \in Group(task, t)
  /\ pc[t] = "assign" =>
       /\ local[t].p \in Task /\ pc[local[t].p] \notin InExit \cup {"none"}
       /\ ~Threaded => local[t].p = child_reaper
LocalOK == \A t \in Task : LocalAt(t)

\* Builds in which nobody comes to wait for a zombie because its exit_signal changes.
Clear(b) == "CSIGNAL" \in b.clone => ~b.ptrace /\ "CLONE_THREAD" \notin b.clone

\* exit_signal, and that without tracing a child is with its original parent, unless this
\* is about to hand it on.
SignalsOK ==
  /\ "CSIGNAL" \notin build.clone => \A p \in Task : task[p].sigchld
  /\ ~build.ptrace =>
       \A p \in Members(task) : \/ task[p].p_pptr = task[p].p_opptr
                                \/ pc[task[p].p_pptr] \in {"notify", "loop", "relock"}

\* The threads whose children t waits for.
Watched(t) == IF "__WNOTHREAD" \in local[t].options THEN {t} ELSE Group(task, t)

\* A process about to sleep in wait4 has no zombie to wait for.
RestAt(t) ==
  pc[t] \in {"sched", "asleep"} /\ task[t].state = "INTERRUPTIBLE" =>
    \A p \in Members(task) :
      task[p].state = "ZOMBIE" /\ task[p].p_pptr \in Watched(t) => ~Eligible(p, local[t].options)
RestOK == Clear(build) => \A t \in Task : RestAt(t)

\* What the code does not support together: several processors with process groups or
\* with threads, and threads with faults in wait4.
Apart(b) == /\ b.smp => ~b.pgrps /\ "CLONE_THREAD" \notin b.clone
            /\ "CLONE_THREAD" \in b.clone => ~b.faults

\* The invariant, which every step keeps.
IInv ==
  /\ TypeOK /\ StateOK /\ LockOK /\ Alone /\ GroupsOK /\ Kin /\ TreeOK /\ LocalOK
  /\ SignalsOK /\ RestOK /\ Apart(build)

-----------------------------------------------------------------------------
(* Frames *)

\* Groups depend on next_thread alone.
LEMMA GroupFrame ==
  ASSUME NEW T \in Structs, NEW R \in Structs,
         \A u \in Task : R[u].next_thread = T[u].next_thread, NEW t \in Task
  PROVE  Group(R, t) = Group(T, t)
<1>1. /\ t \in Group(T, t) /\ Closed(T, Group(T, t))
      /\ \A S : t \in S /\ Closed(T, S) => Group(T, t) \subseteq S
  BY GroupIsLeast
<1>2. /\ t \in Group(R, t) /\ Closed(R, Group(R, t))
      /\ \A S : t \in S /\ Closed(R, S) => Group(R, t) \subseteq S
  BY GroupIsLeast
<1>3. \A S : Closed(R, S) <=> Closed(T, S)
  BY DEF Closed
<1> QED
  BY <1>1, <1>2, <1>3

\* A group without links to others is one task.
LEMMA GroupAlone ==
  ASSUME NEW T \in Structs, NEW t \in Task, T[t].next_thread = t
  PROVE  Group(T, t) = {t}
<1>1. Closed(T, {t})
  BY DEF Closed
<1> QED
  BY <1>1, GroupIsLeast

\* Who has no p_cptr is nobody's parent.
LEMMA NoChildren ==
  ASSUME NEW T \in Structs, NEW S \in SUBSET Task, NEW stale, Lists(T, S, stale),
         NEW t \in Task, T[t].p_cptr = NULL, NEW p \in S
  PROVE  T[p].p_pptr # t
<1>1. PICK w, nxt : w = Child(T, t) /\ nxt = Older(T)
  OBVIOUS
<1>2. Walk(w, NULL, nxt) /\ nxt[NULL] = NULL
  BY <1>1, ChildWalks, PointersAreTyped
<1>3. \A q \in Pointer : q \in {NULL} => nxt[q] \in {NULL}
  BY <1>2
<1>4. \A n \in 1 .. Slots : w[n] \in {NULL}
  BY <1>2, <1>3, WalkStays
<1>5. p # NULL
  BY TaskAssumption
<1>6. T[p].p_pptr = t => \E n \in 1 .. Slots : Child(T, t)[n] = p
  BY ChildrenAreFound
<1> QED
  BY <1>1, <1>4, <1>5, <1>6

\* do_notify_parent wakes those of the parent's group that sleep.
Notified(T, R, p) ==
  \A u \in Task :
    /\ R[u].p_opptr = T[u].p_opptr /\ R[u].p_pptr = T[u].p_pptr /\ R[u].p_cptr = T[u].p_cptr
    /\ R[u].p_ysptr = T[u].p_ysptr /\ R[u].p_osptr = T[u].p_osptr
    /\ R[u].next_thread = T[u].next_thread /\ R[u].sigchld = T[u].sigchld
    /\ R[u].exiting = T[u].exiting
    /\ R[u].state = IF u \in Group(T, T[p].p_pptr) /\ T[u].state = "INTERRUPTIBLE"
                    THEN "RUNNING" ELSE T[u].state

\* This is what it does.
LEMMA NotifyIs ==
  ASSUME NEW T \in Structs, NEW p \in Task
  PROVE  do_notify_parent(T, p) \in Structs /\ Notified(T, do_notify_parent(T, p), p)
<1>1. PICK G : G = Group(T, T[p].p_pptr)
  OBVIOUS
<1>2. PICK R : R = [u \in Task |-> IF u \in G /\ T[u].state = "INTERRUPTIBLE"
                                   THEN [T[u] EXCEPT !.state = "RUNNING"] ELSE T[u]]
  OBVIOUS
<1>3. do_notify_parent(T, p) = R
  BY <1>1, <1>2 DEF do_notify_parent
<1>4. \A u \in Task : T[u] \in TaskStructs /\ [T[u] EXCEPT !.state = "RUNNING"] \in TaskStructs
  BY DEF Structs, TaskStructs, States
<1>5. R \in Structs
  BY <1>2, <1>4 DEF Structs
<1>6. Notified(T, R, p)
  BY <1>1, <1>2, <1>4 DEF Notified, TaskStructs
<1> QED
  BY <1>3, <1>5, <1>6

\* Nobody else is relinking when a process may take its turn, and the lock for writing.
LEMMA NobodyRelinks ==
  ASSUME IInv, NEW t \in Task, Turn(t), CanWrite, pc[t] \notin {"loop", "relock"}
  PROVE  (\A u \in Task : pc[u] \notin {"loop", "relock", "assign"}) /\ Stale = {}
<1>1. ASSUME NEW u \in Task PROVE pc[u] \notin {"loop", "relock", "assign"}
  <2>1. pc[u] # "loop" /\ pc[u] # "assign"
    BY TaskAssumption DEF IInv, LockOK, CanWrite
  <2>2. ASSUME pc[u] = "relock" PROVE FALSE
    <3>1. ~build.smp
      BY <2>2 DEF IInv, StateOK, StateAt, Apart
    <3>2. pc[u] \in MayYield
      BY <2>2, <3>1 DEF Turn
    <3> QED
      BY <2>2, <3>2 DEF MayYield
  <2> QED
    BY <2>1, <2>2
<1> QED
  BY <1>1 DEF Stale

\* A step that leaves the tree as it is, and does not make a zombie.
SameLinks(a, b) ==
  /\ a.p_opptr = b.p_opptr /\ a.p_pptr = b.p_pptr /\ a.p_cptr = b.p_cptr
  /\ a.p_ysptr = b.p_ysptr /\ a.p_osptr = b.p_osptr
  /\ a.next_thread = b.next_thread /\ a.sigchld = b.sigchld
  /\ a.state = "FREE" <=> b.state = "FREE"
  /\ a.state = "ZOMBIE" <=> b.state = "ZOMBIE"

\* It is a step of t, which changes nobody else.
Still(t) ==
  /\ \A u \in Task :
       /\ SameLinks(task'[u], task[u])
       /\ u # t => /\ task'[u].state = task[u].state /\ task'[u].exiting = task[u].exiting
                   /\ pc'[u] = pc[u] /\ local'[u] = local[u]
  /\ build' = build
  /\ Turn(t) \/ pc'[t] = pc[t]
  /\ t = child_reaper => pc'[t] \notin InExit \cup {"none"}
  /\ \/ task[t].p_cptr = NULL
     \/ /\ pc[t] \in {"notify", "loop", "relock"} => pc'[t] \in {"notify", "loop", "relock"}
        /\ pc[t] \in {"loop", "relock"} => pc'[t] \in {"loop", "relock"}
        /\ pc'[t] \in Gone => pc[t] \in Gone
  /\ pc'[t] \in Orphaned => pc[t] \in Orphaned

\* What it has to establish of t.
LEMMA StillKeeps ==
  ASSUME IInv, NEW t \in Task, Still(t), TypeOK', LockOK', StateAt(t)', LocalAt(t)',
         Clear(build) => RestAt(t)'
  PROVE  IInv'
<1>1. task \in Structs /\ task' \in Structs
  BY DEF IInv, TypeOK, Structs
<1>2. \A u \in Task : SameLinks(task'[u], task[u])
  BY DEF Still
<1>3. /\ build' = build /\ MayYield' = MayYield /\ Threaded' = Threaded
      /\ Clear(build)' = Clear(build) /\ Apart(build)' = Apart(build)
  BY DEF Still, MayYield, Threaded, Clear, Apart
<1>4. Members(task') = Members(task) /\ Members(task') \in SUBSET Task
  BY <1>2 DEF Members, SameLinks
<1>5. \A u \in Task : Group(task', u) = Group(task, u)
  BY <1>1, <1>2, GroupFrame DEF SameLinks
<1>6. StateOK'
  <2>1. ASSUME NEW u \in Task, u # t PROVE StateAt(u)'
    BY <1>3, <2>1 DEF Still, IInv, StateOK, StateAt, InWait, Dying, InExit
  <2>2. pc'[child_reaper] \notin InExit \cup {"none"}
    BY TaskAssumption DEF Still, IInv, StateOK
  <2> QED
    BY <2>1, <2>2 DEF StateOK
<1>7. Alone'
  BY <1>3 DEF Still, IInv, Alone, Turn
<1>8. GroupsOK'
  <2>1. Rings(task')
    BY <1>2 DEF IInv, GroupsOK, Rings, SameLinks
  <2> QED
    BY <1>2, <1>3, <2>1 DEF IInv, GroupsOK, SameLinks
<1>9. ASSUME NEW p \in Members(task) PROVE task[t].p_cptr = NULL => task[p].p_pptr # t
  BY <1>1, <1>4, NoChildren DEF IInv, TreeOK
<1>10. Kin'
  <2>1. ASSUME NEW p \in Members(task) PROVE KinAt(p)'
    <3>1. KinAt(p) /\ SameLinks(task'[p], task[p])
      BY <1>2, <1>4, <2>1 DEF IInv, Kin
    <3> QED
      BY <1>9, <3>1 DEF KinAt, SameLinks, Still
  <2>2. SameLinks(task'[child_reaper], task[child_reaper])
    BY <1>2, TaskAssumption
  <2> QED
    BY <1>4, <2>1, <2>2 DEF Kin, IInv, SameLinks
<1>11. TreeOK'
  <2>1. ASSUME NEW u \in Task, task[u].p_cptr # NULL, task[u].p_cptr \in Stale
        PROVE  task[u].p_cptr \in Stale'
    <3>1. PICK v \in Task : pc[v] \in {"loop", "relock"} /\ task[u].p_cptr = task[v].p_cptr
      BY <2>1 DEF Stale
    <3>2. pc'[v] \in {"loop", "relock"} /\ task'[v].p_cptr = task[u].p_cptr
      BY <1>2, <2>1, <3>1 DEF Still, SameLinks
    <3> QED
      BY <3>2 DEF Stale
  <2>2. \A u \in Task : /\ task'[u].p_pptr = task[u].p_pptr /\ task'[u].p_cptr = task[u].p_cptr
                        /\ task'[u].p_osptr = task[u].p_osptr
                        /\ task'[u].p_ysptr = task[u].p_ysptr
    BY <1>2 DEF SameLinks
  <2>3. PICK T, R, S, stale, new : /\ T = task /\ R = task' /\ S = Members(task)
                                   /\ stale = Stale /\ new = Stale'
    OBVIOUS
  <2>4. Lists(R, S, new)
    <3>1. T \in Structs /\ R \in Structs /\ S \in SUBSET Task /\ Lists(T, S, stale)
      BY <1>1, <1>4, <2>3 DEF IInv, TreeOK
    <3>2. \A u \in Task : T[u].p_cptr # NULL /\ T[u].p_cptr \in stale => T[u].p_cptr \in new
      BY <2>1, <2>3
    <3>3. \A u \in Task : /\ R[u].p_pptr = T[u].p_pptr /\ R[u].p_cptr = T[u].p_cptr
                          /\ R[u].p_osptr = T[u].p_osptr /\ R[u].p_ysptr = T[u].p_ysptr
      BY <2>2, <2>3
    <3> QED
      BY <3>1, <3>2, <3>3, ListsFrame
  <2> QED
    BY <1>4, <2>3, <2>4 DEF TreeOK
<1>12. LocalOK'
  <2>1. ASSUME NEW u \in Task, u # t PROVE LocalAt(u)'
    <3>1. pc'[u] = pc[u] /\ local'[u] = local[u] /\ LocalAt(u)
      BY <2>1 DEF Still, IInv, LocalOK
    <3>2. ASSUME pc[u] \in {"found", "release", "handback"}
          PROVE  /\ local[u].p \in Members(task') /\ task'[local[u].p].state = "ZOMBIE"
                 /\ task'[local[u].p].p_pptr \in Group(task', u)
      <4>1. /\ local[u].p \in Task /\ local[u].p \in Members(task')
            /\ task[local[u].p].state = "ZOMBIE" /\ task[local[u].p].p_pptr \in Group(task, u)
        BY <1>4, <3>1, <3>2 DEF LocalAt
      <4> QED
        BY <1>2, <1>5, <4>1 DEF SameLinks
    <3>3. ASSUME pc[u] = "assign"
          PROVE  /\ local[u].p \in Task /\ pc'[local[u].p] \notin InExit \cup {"none"}
                 /\ ~Threaded => local[u].p = child_reaper
      <4>1. /\ local[u].p \in Task /\ pc[local[u].p] \notin InExit \cup {"none"}
            /\ ~Threaded => local[u].p = child_reaper
        BY <3>1, <3>3 DEF LocalAt
      <4>2. CASE local[u].p # t
        BY <4>1, <4>2 DEF Still
      <4>3. CASE local[u].p = t /\ pc'[t] = pc[t]
        BY <4>1, <4>3
      <4>4. CASE local[u].p = t /\ Turn(t)
        <5>1. build.smp
          BY <2>1, <3>3, <4>4 DEF Turn, MayYield
        <5>2. t = child_reaper
          BY <4>1, <4>4, <5>1 DEF IInv, Apart, Threaded
        <5> QED
          BY <4>1, <4>4, <5>2 DEF Still
      <4> QED
        BY <4>2, <4>3, <4>4 DEF Still
    <3> QED
      BY <1>3, <3>1, <3>2, <3>3 DEF LocalAt
  <2> QED
    BY <2>1 DEF LocalOK
<1>13. SignalsOK'
  <2>1. ASSUME ~build.ptrace, NEW p \in Members(task)
        PROVE  \/ task'[p].p_pptr = task'[p].p_opptr
               \/ pc'[task'[p].p_pptr] \in {"notify", "loop", "relock"}
    <3>1. p \in Task /\ SameLinks(task'[p], task[p]) /\ task[p].p_pptr \in Task
      BY <1>2, <1>4, <2>1 DEF IInv, Kin, KinAt
    <3>2. \/ task[p].p_pptr = task[p].p_opptr
          \/ pc[task[p].p_pptr] \in {"notify", "loop", "relock"}
      BY <2>1 DEF IInv, SignalsOK
    <3> QED
      BY <1>9, <3>1, <3>2 DEF SameLinks, Still
  <2> QED
    BY <1>2, <1>3, <1>4, <2>1 DEF SignalsOK, IInv, SameLinks
<1>14. RestOK'
  <2>1. ASSUME Clear(build), NEW u \in Task, u # t PROVE RestAt(u)'
    <3>1. RestAt(u) /\ pc'[u] = pc[u] /\ local'[u] = local[u] /\ task'[u].state = task[u].state
      BY <2>1 DEF IInv, RestOK, Still
    <3>2. Watched(u)' = Watched(u)
      BY <1>5, <3>1 DEF Watched
    <3>3. ASSUME NEW p \in Members(task)
          PROVE  /\ task'[p].state = "ZOMBIE" <=> task[p].state = "ZOMBIE"
                 /\ task'[p].p_pptr = task[p].p_pptr /\ task'[p].sigchld = task[p].sigchld
      BY <1>2, <1>4, <3>3 DEF SameLinks
    <3> QED
      BY <1>4, <3>1, <3>2, <3>3 DEF RestAt, Eligible
  <2> QED
    BY <1>3, <2>1 DEF RestOK
<1> QED
  BY <1>3, <1>6, <1>7, <1>8, <1>10, <1>11, <1>12, <1>13, <1>14 DEF IInv

-----------------------------------------------------------------------------
(* wait4 *)

\* The threads that the scan looks at.
Seen(t) == IF "__WNOTHREAD" \in local[t].options THEN {1} ELSE 1 .. Slots

\* A zombie among them.
Awaited(t, p) == /\ p \in Members(task) /\ task[p].state = "ZOMBIE"
                 /\ task[p].p_pptr \in Watched(t) /\ Eligible(p, local[t].options)

\* The children it looks at, one by one.
LEMMA ChildrenAre ==
  ASSUME IInv, NEW t \in Task
  PROVE  /\ DOMAIN Children(t) = Seen(t) /\ Seen(t) \subseteq 1 .. Slots
         /\ \A i \in Seen(t), j \in 1 .. Slots :
              Children(t)[i][j] # NULL =>
                /\ Children(t)[i][j] \in Members(task)
                /\ task[Children(t)[i][j]].p_pptr \in Watched(t)
         /\ \A p \in Members(task) : task[p].p_pptr \in Watched(t) =>
              \E i \in Seen(t), j \in 1 .. Slots : Children(t)[i][j] = p
<1>1. task \in Structs /\ Members(task) \in SUBSET Task /\ Lists(task, Members(task), Stale)
  BY DEF IInv, TypeOK, Structs, Members, TreeOK
<1>2. Children(t) = [i \in Seen(t) |-> Child(task, Thread(task, t)[i])]
  BY DEF Children, Seen, Slots
<1>3. Seen(t) \subseteq 1 .. Slots
  BY SlotsAreSome DEF Seen
<1>4. PICK g : g = Thread(task, t)
  OBVIOUS
<1>5. g \in [1 .. Slots -> Task] /\ g[1] = t
  BY <1>1, <1>4, ThreadWalks DEF Walk
<1>6. Group(task, t) = {g[n] : n \in 1 .. Slots}
  BY <1>4 DEF Group, Slots
<1>7. \A u : u \in Watched(t) <=> \E i \in Seen(t) : g[i] = u
  BY <1>5, <1>6 DEF Watched, Seen
<1>8. ASSUME NEW i \in Seen(t), NEW j \in 1 .. Slots, Children(t)[i][j] # NULL
      PROVE  /\ Children(t)[i][j] \in Members(task)
             /\ task[Children(t)[i][j]].p_pptr \in Watched(t)
  <2>1. PICK u : u = g[i]
    OBVIOUS
  <2>2. u \in Task /\ u \in Watched(t) /\ Children(t)[i][j] = Child(task, u)[j]
    BY <1>2, <1>3, <1>4, <1>5, <1>7, <2>1
  <2>3. \A n \in 1 .. Slots : Child(task, u)[n] # NULL =>
          Child(task, u)[n] \in Members(task) /\ task[Child(task, u)[n]].p_pptr = u
    BY <1>1, <2>2, ChildrenAreFound
  <2> QED
    BY <1>8, <2>2, <2>3
<1>9. ASSUME NEW p \in Members(task), task[p].p_pptr \in Watched(t)
      PROVE  \E i \in Seen(t), j \in 1 .. Slots : Children(t)[i][j] = p
  <2>1. PICK i \in Seen(t) : g[i] = task[p].p_pptr
    BY <1>7, <1>9
  <2>2. PICK u : u = g[i]
    OBVIOUS
  <2>3. u \in Task /\ task[p].p_pptr = u /\ Children(t)[i] = Child(task, u)
    BY <1>2, <1>3, <1>4, <1>5, <2>1, <2>2
  <2>4. \A q \in Members(task) : task[q].p_pptr = u =>
          \E n \in 1 .. Slots : Child(task, u)[n] = q
    BY <1>1, <2>3, ChildrenAreFound
  <2>5. PICK n \in 1 .. Slots : Child(task, u)[n] = p
    BY <2>3, <2>4
  <2> QED
    BY <2>1, <2>3, <2>5
<1>10. DOMAIN Children(t) = Seen(t)
  BY <1>2
<1> QED
  BY <1>3, <1>8, <1>9, <1>10

\* The scan sees all zombies the caller waits for.
LEMMA ZombiesAre ==
  ASSUME IInv, NEW t \in Task
  PROVE  \A p : p \in Zombies(t) <=> Awaited(t, p)
<1>1. PICK c : c = Children(t)
  OBVIOUS
<1>2. /\ DOMAIN c = Seen(t) /\ Seen(t) \subseteq 1 .. Slots
      /\ \A i \in Seen(t), j \in 1 .. Slots :
           c[i][j] # NULL => c[i][j] \in Members(task) /\ task[c[i][j]].p_pptr \in Watched(t)
      /\ \A p \in Members(task) : task[p].p_pptr \in Watched(t) =>
           \E i \in Seen(t), j \in 1 .. Slots : c[i][j] = p
  BY <1>1, ChildrenAre
<1>3. Scan(t) = {p \in UNION {{c[i][j] : j \in 1 .. Slots} : i \in Seen(t)} :
                   p # NULL /\ Eligible(p, local[t].options)}
  BY <1>1, <1>2 DEF Scan, Slots
<1>4. \A p : p \in Scan(t) <=> /\ \E i \in Seen(t), j \in 1 .. Slots : c[i][j] = p
                               /\ p # NULL /\ Eligible(p, local[t].options)
  BY <1>3
<1>5. \A p \in Members(task) : p # NULL
  BY TaskAssumption DEF Members
<1>6. \A p : p \in Zombies(t) <=> p \in Scan(t) /\ task[p].state = "ZOMBIE"
  BY DEF Zombies
<1>7. \A p : p \in Scan(t) <=> /\ p \in Members(task) /\ task[p].p_pptr \in Watched(t)
                               /\ Eligible(p, local[t].options)
  BY <1>2, <1>4, <1>5
<1> QED
  BY <1>6, <1>7 DEF Awaited

\* It finds one of them, if there is one.
LEMMA FirstZombieIs ==
  ASSUME IInv, NEW t \in Task, Zombies(t) # {}
  PROVE  Awaited(t, FirstZombie(t))
<1>1. PICK c, Z : c = Children(t) /\ Z = Zombies(t)
  OBVIOUS
<1>2. /\ DOMAIN c = Seen(t) /\ Seen(t) \subseteq 1 .. Slots
      /\ \A p \in Members(task) : task[p].p_pptr \in Watched(t) =>
           \E i \in Seen(t), j \in 1 .. Slots : c[i][j] = p
  BY <1>1, ChildrenAre
<1>3. \A p : p \in Z <=> Awaited(t, p)
  BY <1>1, ZombiesAre
<1> DEFINE Found == {x \in (DOMAIN c) \X (1 .. Slots) : c[x[1]][x[2]] \in Z}
           I == {x[1] : x \in Found}
<1>4. Found # {}
  <2>1. PICK p : p \in Z
    BY <1>1
  <2>2. PICK i \in Seen(t), j \in 1 .. Slots : c[i][j] = p
    BY <1>2, <1>3, <2>1 DEF Awaited
  <2>3. << i, j >> \in Found
    BY <1>2, <2>1, <2>2
  <2> QED
    BY <2>3
<1>5. PICK i \in I : \A k \in I : i <= k
  <2>1. I \in SUBSET Nat /\ I # {}
    BY <1>2, <1>4
  <2> QED
    BY <2>1, LeastNat
<1> DEFINE J == {x[2] : x \in {y \in Found : y[1] = i}}
<1>6. PICK j \in J : \A k \in J : j <= k
  <2>1. J \in SUBSET Nat /\ J # {}
    BY <1>5
  <2> QED
    BY <2>1, LeastNat
<1>7. PICK x \in Found : x[1] = i /\ x[2] = j
  BY <1>6
<1>8. ASSUME NEW y \in Found PROVE x[1] < y[1] \/ (x[1] = y[1] /\ x[2] <= y[2])
  <2>1. i <= y[1] /\ i \in Nat /\ y[1] \in Nat
    BY <1>2, <1>5, <1>7
  <2>2. y[1] = i => j <= y[2]
    BY <1>6
  <2> QED
    BY <1>7, <2>1, <2>2
<1>9. PICK F : F = Found
  OBVIOUS
<1>10. \E z \in F : \A y \in F : z[1] < y[1] \/ (z[1] = y[1] /\ z[2] <= y[2])
  BY <1>7, <1>8, <1>9
<1>11. PICK z : z = CHOOSE v \in F : \A y \in F : v[1] < y[1] \/ (v[1] = y[1] /\ v[2] <= y[2])
  OBVIOUS
<1>12. z \in F
  BY <1>10, <1>11
<1>13. FirstZombie(t) = c[z[1]][z[2]]
  BY <1>1, <1>9, <1>11 DEF FirstZombie, Slots
<1>14. c[z[1]][z[2]] \in Z
  BY <1>9, <1>12
<1> QED
  BY <1>3, <1>13, <1>14

\* A step that changes at most the state of t, a pending signal and PF_EXITING.
LEMMA OwnChange ==
  ASSUME TypeOK, NEW t \in Task, NEW r \in TaskStructs, SameLinks(r, task[t]),
         task' = [task EXCEPT ![t] = r]
  PROVE  /\ task' \in Structs /\ task'[t] = r
         /\ \A u \in Task : SameLinks(task'[u], task[u]) /\ (u # t => task'[u] = task[u])
<1>1. task \in Structs
  BY DEF TypeOK, Structs
<1>2. task' = [u \in Task |-> IF u = t THEN r ELSE task[u]]
  BY <1>1 DEF Structs
<1>3. \A u \in Task : SameLinks(task[u], task[u])
  BY DEF SameLinks
<1> QED
  BY <1>1, <1>2, <1>3 DEF Structs

\* The places in user mode and in wait4.
Waiting == {"user", "repeat"} \cup InWait

Locals == [options : SUBSET Options, p : Pointer]

\* A step of t within wait4, or into it or out of it.
WaitStep(t, place, r, l) ==
  /\ pc[t] \in Waiting /\ place \in Waiting
  /\ Turn(t) \/ place = pc[t]
  /\ pc' = [pc EXCEPT ![t] = place]
  /\ r \in TaskStructs /\ SameLinks(r, task[t]) /\ r.exiting = task[t].exiting
  /\ r.state \in IF place \in InWait THEN {"RUNNING", "INTERRUPTIBLE"} ELSE {"RUNNING"}
  /\ task' = [task EXCEPT ![t] = r]
  /\ l \in Locals /\ local' = [local EXCEPT ![t] = l]
  /\ UNCHANGED << tasklist_lock, forks, build >>

\* What it has to establish.
LEMMA WaitStepKeeps ==
  ASSUME IInv, NEW t \in Task, NEW place, NEW r, NEW l, WaitStep(t, place, r, l),
         LocalAt(t)', Clear(build) => RestAt(t)'
  PROVE  IInv'
<1>1. /\ pc[t] \in Waiting /\ place \in Waiting
      /\ Turn(t) \/ place = pc[t]
      /\ pc' = [pc EXCEPT ![t] = place]
      /\ r \in TaskStructs /\ SameLinks(r, task[t]) /\ r.exiting = task[t].exiting
      /\ r.state \in IF place \in InWait THEN {"RUNNING", "INTERRUPTIBLE"} ELSE {"RUNNING"}
      /\ task' = [task EXCEPT ![t] = r]
      /\ l \in Locals /\ local' = [local EXCEPT ![t] = l]
      /\ UNCHANGED << tasklist_lock, forks, build >>
  BY DEF WaitStep
<1>2. TypeOK /\ pc \in [Task -> PCs] /\ local \in [Task -> Locals]
  BY DEF IInv, TypeOK, Locals
<1>3. /\ task' \in Structs /\ task'[t] = r
      /\ \A u \in Task : SameLinks(task'[u], task[u]) /\ (u # t => task'[u] = task[u])
  BY <1>1, <1>2, OwnChange
<1>4. /\ pc' \in [Task -> PCs] /\ pc'[t] = place
      /\ \A u \in Task : u # t => pc'[u] = pc[u] /\ local'[u] = local[u]
      /\ local' \in [Task -> Locals]
  BY <1>1, <1>2 DEF Waiting, InWait, PCs
<1>5. TypeOK'
  BY <1>1, <1>2, <1>3, <1>4 DEF TypeOK, Structs, Locals
<1>6. LockOK'
  BY <1>1, <1>4 DEF IInv, LockOK, Waiting, InWait
<1>7. place \notin InExit \cup {"none"} /\ pc[t] \notin InExit \cup {"none"}
  BY <1>1 DEF Waiting, InWait, InExit
<1>8. StateAt(t)'
  <2>1. StateAt(t)
    BY DEF IInv, StateOK
  <2>2. r.state # "FREE" /\ ~r.exiting
    BY <1>1, <1>7, <2>1 DEF StateAt
  <2>3. place \notin Dying /\ place \notin {"none", "forget", "assign", "notify", "relock"}
    BY <1>7 DEF Dying, InExit
  <2>4. place \in {"user", "repeat"} => place \notin InWait
    BY DEF InWait
  <2> QED
    BY <1>1, <1>3, <1>4, <1>7, <2>2, <2>3, <2>4 DEF StateAt
<1>9. Still(t)
  BY <1>1, <1>3, <1>4, <1>7 DEF Still, InExit, Gone, Orphaned
<1> QED
  BY <1>5, <1>6, <1>8, <1>9, StillKeeps

\* What is known of a task in user mode or in wait4.
LEMMA WaitingFits ==
  ASSUME IInv, NEW t \in Task, pc[t] \in Waiting
  PROVE  /\ task[t] \in TaskStructs /\ SameLinks(task[t], task[t])
         /\ task[t].state \in {"RUNNING", "INTERRUPTIBLE"}
         /\ pc[t] \notin InWait => task[t].state = "RUNNING"
         /\ task = [task EXCEPT ![t] = task[t]]
         /\ local[t] \in Locals /\ local = [local EXCEPT ![t] = local[t]]
         /\ pc = [pc EXCEPT ![t] = pc[t]]
         /\ NoLocal \in Locals
<1>1. task \in [Task -> TaskStructs] /\ local \in [Task -> Locals] /\ pc \in [Task -> PCs]
  BY DEF IInv, TypeOK, Locals
<1>2. StateAt(t)
  BY DEF IInv, StateOK
<1>3. task[t].state \in {"RUNNING", "INTERRUPTIBLE"}
  BY <1>2 DEF StateAt, Waiting
<1>4. pc[t] \notin InWait => task[t].state = "RUNNING"
  BY <1>2 DEF StateAt, Waiting
<1>5. NoLocal \in Locals
  BY DEF NoLocal, Locals, Pointer
<1> QED
  BY <1>1, <1>3, <1>4, <1>5 DEF SameLinks

\* Setting the state of t to RUNNING or INTERRUPTIBLE, and its pending signal.
LEMMA StateChange ==
  ASSUME IInv, NEW t \in Task, pc[t] \in Waiting, NEW s \in {"RUNNING", "INTERRUPTIBLE"},
         NEW b \in BOOLEAN, NEW r, r = [task[t] EXCEPT !.state = s, !.sigpending = b]
  PROVE  /\ r \in TaskStructs /\ SameLinks(r, task[t]) /\ r.exiting = task[t].exiting
         /\ r.state = s
<1>1. task[t] \in TaskStructs /\ task[t].state \in {"RUNNING", "INTERRUPTIBLE"}
  BY WaitingFits
<1>2. r \in TaskStructs
  BY <1>1 DEF TaskStructs, States
<1> QED
  BY <1>1, <1>2 DEF SameLinks, TaskStructs

\* Entering wait4.
LEMMA Wait4Keeps ==
  ASSUME IInv, NEW t \in Task, Wait4(t)
  PROVE  IInv'
<1>1. PICK options : /\ options \in IF t = child_reaper THEN {{}} ELSE build.options
                     /\ local' = [local EXCEPT ![t].options = options]
  BY DEF Wait4
<1>2. /\ pc[t] = "user" /\ Turn(t) /\ pc' = [pc EXCEPT ![t] = "repeat"]
      /\ UNCHANGED << task, tasklist_lock, forks, build >>
  BY DEF Wait4, At, Goto
<1>3. options \subseteq Options
  BY <1>1, BuildAssumption DEF IInv, TypeOK
<1>4. PICK r, l : r = task[t] /\ l = [local[t] EXCEPT !.options = options]
  OBVIOUS
<1>5. pc[t] \in Waiting
  BY <1>2 DEF Waiting
<1>6. l \in Locals /\ local' = [local EXCEPT ![t] = l]
  <2>1. local \in [Task -> Locals]
    BY DEF IInv, TypeOK, Locals
  <2> QED
    BY <1>1, <1>3, <1>4, <2>1 DEF Locals
<1>7. WaitStep(t, "repeat", r, l)
  BY <1>2, <1>4, <1>5, <1>6, WaitingFits DEF WaitStep, Waiting, InWait
<1>8. pc'[t] = "repeat"
  BY <1>2 DEF IInv, TypeOK
<1>9. LocalAt(t)' /\ RestAt(t)'
  BY <1>8 DEF LocalAt, RestAt
<1> QED
  BY <1>7, <1>9, WaitStepKeeps

\* repeat: the state is set before the scan.
LEMMA RepeatKeeps ==
  ASSUME IInv, NEW t \in Task, Repeat(t)
  PROVE  IInv'
<1>1. /\ pc[t] = "repeat" /\ Turn(t) /\ pc' = [pc EXCEPT ![t] = "scan"]
      /\ task' = Store(task, t, "state", "INTERRUPTIBLE")
      /\ UNCHANGED << local, tasklist_lock, forks, build >>
  BY DEF Repeat, At, Goto
<1>2. pc[t] \in Waiting
  BY <1>1 DEF Waiting
<1>3. PICK r, l, b, s : /\ l = local[t] /\ b = task[t].sigpending /\ s = "INTERRUPTIBLE"
                        /\ r = [task[t] EXCEPT !.state = s, !.sigpending = b]
  OBVIOUS
<1>4. task \in [Task -> TaskStructs] /\ b \in BOOLEAN /\ pc \in [Task -> PCs]
  BY <1>3 DEF IInv, TypeOK, TaskStructs
<1>5. /\ r \in TaskStructs /\ SameLinks(r, task[t]) /\ r.exiting = task[t].exiting
      /\ r.state = "INTERRUPTIBLE"
  <2>1. task[t] \in TaskStructs /\ task[t].state \in {"RUNNING", "INTERRUPTIBLE"}
    BY <1>2, WaitingFits
  <2>2. r \in TaskStructs /\ r.state = "INTERRUPTIBLE"
    BY <1>3, <1>4, <2>1 DEF TaskStructs, States
  <2> QED
    BY <1>3, <2>1, <2>2 DEF SameLinks, TaskStructs
<1>6. r = [task[t] EXCEPT !.state = "INTERRUPTIBLE"]
  BY <1>3, <1>4 DEF TaskStructs
<1>7. task' = [task EXCEPT ![t] = r]
  BY <1>1, <1>4, <1>6 DEF Store
<1>8. l \in Locals /\ local' = [local EXCEPT ![t] = l]
  BY <1>1, <1>2, <1>3, WaitingFits
<1>9. WaitStep(t, "scan", r, l)
  BY <1>1, <1>2, <1>5, <1>7, <1>8 DEF WaitStep, Waiting, InWait
<1>10. pc'[t] = "scan"
  BY <1>1, <1>4
<1>11. LocalAt(t)' /\ RestAt(t)'
  BY <1>10 DEF LocalAt, RestAt
<1> QED
  BY <1>9, <1>11, WaitStepKeeps

\* The scan finds a zombie.
LEMMA ScanFindsKeeps ==
  ASSUME IInv, NEW t \in Task, ScanFinds(t)
  PROVE  IInv'
<1>1. /\ pc[t] = "scan" /\ Turn(t) /\ pc' = [pc EXCEPT ![t] = "found"]
      /\ local' = [local EXCEPT ![t].p = FirstZombie(t)] /\ Zombies(t) # {}
      /\ UNCHANGED << task, tasklist_lock, forks, build >>
  BY DEF ScanFinds, At, Goto
<1>2. pc[t] \in Waiting
  BY <1>1 DEF Waiting, InWait
<1>3. Awaited(t, FirstZombie(t))
  BY <1>1, FirstZombieIs
<1>4. PICK r, p, l : r = task[t] /\ p = FirstZombie(t) /\ l = [local[t] EXCEPT !.p = p]
  OBVIOUS
<1>5. p \in Members(task) /\ p \in Task /\ task[p].state = "ZOMBIE" /\ task[p].p_pptr \in Group(task, t)
  <2>1. t \in Group(task, t)
    BY GroupIsLeast DEF IInv, TypeOK, Structs
  <2> QED
    BY <1>3, <1>4, <2>1 DEF Awaited, Watched, Members
<1>6. l \in Locals /\ local' = [local EXCEPT ![t] = l] /\ local'[t].p = p
  <2>1. local \in [Task -> Locals]
    BY DEF IInv, TypeOK, Locals
  <2> QED
    BY <1>1, <1>4, <1>5, <2>1 DEF Locals, Pointer
<1>7. WaitStep(t, "found", r, l)
  BY <1>1, <1>2, <1>4, <1>6, WaitingFits DEF WaitStep, Waiting, InWait
<1>8. pc'[t] = "found"
  BY <1>1 DEF IInv, TypeOK
<1>9. LocalAt(t)'
  BY <1>1, <1>5, <1>6, <1>8 DEF LocalAt
<1>10. RestAt(t)'
  BY <1>8 DEF RestAt
<1> QED
  BY <1>7, <1>9, <1>10, WaitStepKeeps

\* The scan finds children, but no zombie.
LEMMA ScanWaitsKeeps ==
  ASSUME IInv, NEW t \in Task, ScanWaits(t)
  PROVE  IInv'
<1>1. /\ pc[t] = "scan" /\ Turn(t) /\ pc' = [pc EXCEPT ![t] = "sched"] /\ Zombies(t) = {}
      /\ UNCHANGED << task, local, tasklist_lock, forks, build >>
  BY DEF ScanWaits, At, Goto
<1>2. pc[t] \in Waiting
  BY <1>1 DEF Waiting, InWait
<1>3. PICK r, l : r = task[t] /\ l = local[t]
  OBVIOUS
<1>4. WaitStep(t, "sched", r, l)
  BY <1>1, <1>2, <1>3, WaitingFits DEF WaitStep, Waiting, InWait
<1>5. pc'[t] = "sched"
  BY <1>1 DEF IInv, TypeOK
<1>6. LocalAt(t)'
  BY <1>5 DEF LocalAt
<1>7. \A p : ~Awaited(t, p)
  BY <1>1, ZombiesAre
<1>8. RestAt(t)
  BY <1>7 DEF RestAt, Awaited
<1>9. \A p \in Members(task) : task[p].state = "ZOMBIE" /\ task[p].p_pptr \in Watched(t)
                                 => ~Eligible(p, local[t].options)
  BY <1>7 DEF Awaited
<1>10. RestAt(t)'
  BY <1>1, <1>9 DEF RestAt, Members, Watched, Eligible
<1> QED
  BY <1>4, <1>6, <1>10, WaitStepKeeps

\* Leaving wait4 with the state reset.
LEMMA EndWait4Keeps ==
  ASSUME IInv, NEW t \in Task, pc[t] \in Waiting, Turn(t), EndWait4(task, t), Goto(t, "user"),
         UNCHANGED << tasklist_lock, forks, build >>
  PROVE  IInv'
<1>1. PICK r, l : /\ r = [task[t] EXCEPT !.state = "RUNNING", !.sigpending = FALSE]
                  /\ l = NoLocal
  OBVIOUS
<1>2. task \in [Task -> TaskStructs] /\ pc \in [Task -> PCs]
  BY DEF IInv, TypeOK
<1>3. /\ r \in TaskStructs /\ SameLinks(r, task[t]) /\ r.exiting = task[t].exiting
      /\ r.state = "RUNNING"
  BY <1>1, StateChange
<1>4. /\ task' = [task EXCEPT ![t] = r] /\ local' = [local EXCEPT ![t] = l]
      /\ pc' = [pc EXCEPT ![t] = "user"] /\ l \in Locals
  BY <1>1, <1>2, WaitingFits DEF EndWait4, Goto
<1>5. WaitStep(t, "user", r, l)
  BY <1>3, <1>4 DEF WaitStep, Waiting, InWait
<1>6. pc'[t] = "user"
  BY <1>2, <1>4
<1>7. LocalAt(t)' /\ RestAt(t)'
  BY <1>6 DEF LocalAt, RestAt
<1> QED
  BY <1>5, <1>7, WaitStepKeeps

\* The scan ends wait4.
LEMMA ScanReturnsKeeps ==
  ASSUME IInv, NEW t \in Task, ScanReturns(t)
  PROVE  IInv'
<1>1. pc[t] \in Waiting /\ Turn(t)
  BY DEF ScanReturns, At, Waiting, InWait
<1> QED
  BY <1>1, EndWait4Keeps DEF ScanReturns

\* Copying out fails.
LEMMA CopyFailsKeeps ==
  ASSUME IInv, NEW t \in Task, CopyFails(t)
  PROVE  IInv'
<1>1. pc[t] \in Waiting /\ Turn(t)
  BY DEF CopyFails, At, Waiting, InWait
<1> QED
  BY <1>1, EndWait4Keeps DEF CopyFails

\* schedule() in wait4.
LEMMA ScheduleKeeps ==
  ASSUME IInv, NEW t \in Task, Schedule(t)
  PROVE  IInv'
<1>1. pc[t] = "sched" /\ Turn(t) /\ pc[t] \in Waiting
  BY DEF Schedule, At, Waiting, InWait
<1>2. PICK l : l = local[t]
  OBVIOUS
<1>3. UNCHANGED << local, tasklist_lock, forks, build >>
  BY DEF Schedule
<1>4. task \in [Task -> TaskStructs] /\ pc \in [Task -> PCs]
  BY DEF IInv, TypeOK
<1>5. CASE task[t].state = "INTERRUPTIBLE" /\ Goto(t, "asleep") /\ UNCHANGED task
  <2>1. PICK r : r = task[t]
    OBVIOUS
  <2>2. WaitStep(t, "asleep", r, l)
    BY <1>1, <1>2, <1>3, <1>5, <2>1, WaitingFits DEF WaitStep, Waiting, InWait, Goto
  <2>3. pc'[t] = "asleep"
    BY <1>4, <1>5 DEF Goto
  <2>4. LocalAt(t)'
    BY <2>3 DEF LocalAt
  <2>5. Clear(build) => RestAt(t)
    BY DEF IInv, RestOK
  <2>6. Clear(build) =>
          \A p \in Members(task) : task[p].state = "ZOMBIE" /\ task[p].p_pptr \in Watched(t)
                                     => ~Eligible(p, local[t].options)
    BY <1>1, <1>5, <2>5 DEF RestAt
  <2>7. Clear(build) => RestAt(t)'
    BY <1>3, <1>5, <2>6 DEF RestAt, Members, Watched, Eligible
  <2> QED
    BY <2>2, <2>4, <2>7, WaitStepKeeps
<1>6. CASE Goto(t, "repeat") /\ task' = Store(task, t, "state", "RUNNING")
  <2>1. PICK r, b : /\ b = task[t].sigpending
                    /\ r = [task[t] EXCEPT !.state = "RUNNING", !.sigpending = b]
    OBVIOUS
  <2>2. b \in BOOLEAN
    BY <1>4, <2>1 DEF TaskStructs
  <2>3. /\ r \in TaskStructs /\ SameLinks(r, task[t]) /\ r.exiting = task[t].exiting
        /\ r.state = "RUNNING"
    BY <1>1, <2>1, <2>2, StateChange
  <2>4. r = [task[t] EXCEPT !.state = "RUNNING"]
    BY <1>4, <2>1 DEF TaskStructs
  <2>5. task' = [task EXCEPT ![t] = r]
    BY <1>4, <1>6, <2>4 DEF Store
  <2>6. l \in Locals /\ local' = [local EXCEPT ![t] = l]
    BY <1>1, <1>2, <1>3, WaitingFits
  <2>7. WaitStep(t, "repeat", r, l)
    BY <1>1, <1>3, <1>6, <2>3, <2>5, <2>6 DEF WaitStep, Waiting, InWait, Goto
  <2>8. pc'[t] = "repeat"
    BY <1>4, <1>6 DEF Goto
  <2>9. LocalAt(t)' /\ RestAt(t)'
    BY <2>8 DEF LocalAt, RestAt
  <2> QED
    BY <2>7, <2>9, WaitStepKeeps
<1> QED
  BY <1>5, <1>6 DEF Schedule

\* The sleeper goes on.
LEMMA ResumeKeeps ==
  ASSUME IInv, NEW t \in Task, Resume(t)
  PROVE  IInv'
<1>1. /\ pc[t] = "asleep" /\ Turn(t) /\ pc' = [pc EXCEPT ![t] = "repeat"]
      /\ task[t].state = "RUNNING"
      /\ UNCHANGED << task, local, tasklist_lock, forks, build >>
  BY DEF Resume, At, Goto
<1>2. pc[t] \in Waiting
  BY <1>1 DEF Waiting, InWait
<1>3. PICK r, l : r = task[t] /\ l = local[t]
  OBVIOUS
<1>4. WaitStep(t, "repeat", r, l)
  BY <1>1, <1>2, <1>3, WaitingFits DEF WaitStep, Waiting, InWait
<1>5. pc'[t] = "repeat"
  BY <1>1 DEF IInv, TypeOK
<1>6. LocalAt(t)' /\ RestAt(t)'
  BY <1>5 DEF LocalAt, RestAt
<1> QED
  BY <1>4, <1>6, WaitStepKeeps

\* Copying out succeeds.
LEMMA CopyOutKeeps ==
  ASSUME IInv, NEW t \in Task, CopyOut(t)
  PROVE  IInv'
<1>1. PICK place : /\ place \in {"handback", "release"} /\ pc' = [pc EXCEPT ![t] = place]
  BY DEF CopyOut, Goto
<1>2. /\ pc[t] = "found" /\ Turn(t) /\ UNCHANGED << task, local, tasklist_lock, forks, build >>
  BY DEF CopyOut, At
<1>3. pc[t] \in Waiting
  BY <1>2 DEF Waiting, InWait
<1>4. PICK r, l : r = task[t] /\ l = local[t]
  OBVIOUS
<1>5. WaitStep(t, place, r, l)
  BY <1>1, <1>2, <1>3, <1>4, WaitingFits DEF WaitStep, Waiting, InWait
<1>6. pc'[t] = place
  BY <1>1 DEF IInv, TypeOK
<1>7. LocalAt(t)
  BY DEF IInv, LocalOK
<1>8. LocalAt(t)' /\ RestAt(t)'
  BY <1>1, <1>2, <1>6, <1>7 DEF LocalAt, RestAt, Members
<1> QED
  BY <1>5, <1>8, WaitStepKeeps

\* A signal arrives, and wakes the process.
LEMMA SignalKeeps ==
  ASSUME IInv, NEW t \in Task, Signal(t)
  PROVE  IInv'
<1>1. /\ pc[t] \in {"repeat", "scan", "sched", "asleep"}
      /\ task' = [task EXCEPT ![t].sigpending = TRUE, ![t].state = "RUNNING"]
      /\ UNCHANGED << pc, local, tasklist_lock, forks, build >>
  BY DEF Signal
<1>2. pc[t] \in Waiting
  BY <1>1 DEF Waiting, InWait
<1>3. PICK r, l, place : /\ r = [task[t] EXCEPT !.state = "RUNNING", !.sigpending = TRUE]
                         /\ l = local[t] /\ place = pc[t]
  OBVIOUS
<1>4. task \in [Task -> TaskStructs]
  BY DEF IInv, TypeOK
<1>5. /\ r \in TaskStructs /\ SameLinks(r, task[t]) /\ r.exiting = task[t].exiting
      /\ r.state = "RUNNING"
  BY <1>2, <1>3, StateChange
<1>6. task' = [task EXCEPT ![t] = r]
  BY <1>1, <1>3, <1>4 DEF TaskStructs
<1>7. WaitStep(t, place, r, l)
  <2>1. pc' = [pc EXCEPT ![t] = place] /\ local' = [local EXCEPT ![t] = l] /\ l \in Locals
    BY <1>1, <1>2, <1>3, WaitingFits
  <2>2. r.state \in IF place \in InWait THEN {"RUNNING", "INTERRUPTIBLE"} ELSE {"RUNNING"}
    BY <1>5
  <2> QED
    BY <1>1, <1>2, <1>3, <1>5, <1>6, <2>1, <2>2 DEF WaitStep
<1>8. task'[t].state = "RUNNING"
  BY <1>4, <1>5, <1>6
<1>9. LocalAt(t)' /\ RestAt(t)'
  BY <1>1, <1>8 DEF LocalAt, RestAt
<1> QED
  BY <1>7, <1>9, WaitStepKeeps

-----------------------------------------------------------------------------
(* do_exit *)

\* A step of t in do_exit that changes no links.
ExitStep(t, place, r, l, lock) ==
  /\ t # child_reaper /\ Turn(t)
  /\ << pc[t], place >> \in {<< "user", "forget" >>, << "forget", "assign" >>,
                             << "relock", "loop" >>, << "loop", "leave" >>, << "leave", "dead" >>}
  /\ pc[t] = "loop" => task[t].p_cptr = NULL
  /\ pc' = [pc EXCEPT ![t] = place]
  /\ r \in TaskStructs /\ SameLinks(r, task[t]) /\ r.exiting /\ r.state = task[t].state
  /\ task' = [task EXCEPT ![t] = r]
  /\ l \in Locals /\ local' = [local EXCEPT ![t] = l]
  /\ lock \in [readers : SUBSET Task, writer : Pointer] /\ tasklist_lock' = lock
  /\ UNCHANGED << forks, build >>

\* What it has to establish.
LEMMA ExitStepKeeps ==
  ASSUME IInv, NEW t \in Task, NEW place, NEW r, NEW l, NEW lock, ExitStep(t, place, r, l, lock),
         LockOK', LocalAt(t)'
  PROVE  IInv'
<1>1. /\ t # child_reaper /\ Turn(t)
      /\ << pc[t], place >> \in {<< "user", "forget" >>, << "forget", "assign" >>,
                                 << "relock", "loop" >>, << "loop", "leave" >>,
                                 << "leave", "dead" >>}
      /\ pc[t] = "loop" => task[t].p_cptr = NULL
      /\ pc' = [pc EXCEPT ![t] = place]
      /\ r \in TaskStructs /\ SameLinks(r, task[t]) /\ r.exiting /\ r.state = task[t].state
      /\ task' = [task EXCEPT ![t] = r]
      /\ l \in Locals /\ local' = [local EXCEPT ![t] = l]
      /\ lock \in [readers : SUBSET Task, writer : Pointer] /\ tasklist_lock' = lock
      /\ UNCHANGED << forks, build >>
  BY DEF ExitStep
<1>2. \/ pc[t] = "user" /\ place = "forget"
      \/ pc[t] = "forget" /\ place = "assign"
      \/ pc[t] = "relock" /\ place = "loop"
      \/ pc[t] = "loop" /\ place = "leave"
      \/ pc[t] = "leave" /\ place = "dead"
  BY <1>1
<1>3. TypeOK /\ pc \in [Task -> PCs] /\ local \in [Task -> Locals]
  BY DEF IInv, TypeOK, Locals
<1>4. /\ task' \in Structs /\ task'[t] = r
      /\ \A u \in Task : SameLinks(task'[u], task[u]) /\ (u # t => task'[u] = task[u])
  BY <1>1, <1>3, OwnChange
<1>5. /\ pc' \in [Task -> PCs] /\ pc'[t] = place
      /\ \A u \in Task : u # t => pc'[u] = pc[u] /\ local'[u] = local[u]
      /\ local' \in [Task -> Locals]
  BY <1>1, <1>2, <1>3 DEF PCs
<1>6. TypeOK'
  BY <1>1, <1>3, <1>4, <1>5 DEF TypeOK, Structs, Locals
<1>7. StateAt(t)'
  <2>1. StateAt(t)
    BY DEF IInv, StateOK
  <2> QED
    BY <1>1, <1>2, <1>4, <1>5, <2>1 DEF StateAt, InWait, Dying, InExit
<1>8. RestAt(t)'
  BY <1>2, <1>5 DEF RestAt
<1>9. Still(t)
  BY <1>1, <1>2, <1>4, <1>5 DEF Still, Orphaned, Gone
<1> QED
  BY <1>6, <1>7, <1>8, <1>9, StillKeeps

\* What is known of a task that exits.
LEMMA ExitFits ==
  ASSUME IInv, NEW t \in Task
  PROVE  /\ task[t] \in TaskStructs /\ SameLinks(task[t], task[t])
         /\ pc[t] \in InExit => t # child_reaper /\ task[t].exiting
         /\ task = [task EXCEPT ![t] = task[t]]
         /\ local[t] \in Locals /\ local = [local EXCEPT ![t] = local[t]]
         /\ tasklist_lock \in [readers : SUBSET Task, writer : Pointer]
<1>1. task \in [Task -> TaskStructs] /\ local \in [Task -> Locals] /\ pc \in [Task -> PCs]
  BY DEF IInv, TypeOK, Locals
<1>2. StateAt(t) /\ pc[child_reaper] \notin InExit
  BY DEF IInv, StateOK
<1> QED
  BY <1>1, <1>2 DEF SameLinks, StateAt, IInv, TypeOK

\* The process is marked.
LEMMA DoExitKeeps ==
  ASSUME IInv, NEW t \in Task, DoExit(t)
  PROVE  IInv'
<1>1. /\ pc[t] = "user" /\ Turn(t) /\ t # child_reaper
      /\ pc' = [pc EXCEPT ![t] = "forget"]
      /\ task' = [task EXCEPT ![t]["exiting"] = TRUE]
      /\ UNCHANGED << local, tasklist_lock, forks, build >>
  BY DEF DoExit, At, Goto, Store
<1>2. PICK r, l, lock : /\ r = [task[t] EXCEPT !.exiting = TRUE]
                        /\ l = local[t] /\ lock = tasklist_lock
  OBVIOUS
<1>3. task \in [Task -> TaskStructs] /\ pc \in [Task -> PCs]
  BY DEF IInv, TypeOK
<1>4. r \in TaskStructs /\ SameLinks(r, task[t]) /\ r.exiting /\ r.state = task[t].state
  <2>1. task[t] \in TaskStructs
    BY <1>3
  <2>2. r \in TaskStructs /\ r.exiting /\ r.state = task[t].state
    BY <1>2, <2>1 DEF TaskStructs
  <2>3. SameLinks(r, task[t])
    BY <1>2, <2>1 DEF TaskStructs, SameLinks
  <2> QED
    BY <2>2, <2>3
<1>5. task' = [task EXCEPT ![t] = r]
  BY <1>1, <1>2, <1>3
<1>6. ExitStep(t, "forget", r, l, lock)
  BY <1>1, <1>2, <1>4, <1>5, ExitFits DEF ExitStep
<1>7. /\ pc'[t] = "forget"
      /\ \A u \in Task : u # t => pc'[u] = pc[u]
  BY <1>1, <1>3
<1>8. LockOK'
  BY <1>1, <1>7 DEF IInv, LockOK
<1>9. LocalAt(t)'
  BY <1>7 DEF LocalAt
<1> QED
  BY <1>6, <1>8, <1>9, ExitStepKeeps

\* The reaper is a thread that does not exit, or else init.
LEMMA ReaperIsAble ==
  ASSUME IInv, NEW t \in Task, pc[t] = "forget"
  PROVE  /\ NextReaper(t) \in Task /\ pc[NextReaper(t)] \notin InExit \cup {"none"}
         /\ ~Threaded => NextReaper(t) = child_reaper
<1>1. task \in Structs
  BY DEF IInv, TypeOK, Structs
<1>2. StateAt(t)
  BY DEF IInv, StateOK
<1>3. task[t].exiting /\ t # child_reaper
  BY <1>2 DEF StateAt, InExit, IInv, StateOK
<1>4. PICK g : g = Thread(task, t)
  OBVIOUS
<1>5. g \in [1 .. Slots -> Task] /\ \A n \in 1 .. Slots : g[n] \in Group(task, t)
  BY <1>1, <1>4, ThreadWalks DEF Group, Slots
<1> DEFINE Able == {n \in 2 .. Slots : ~task[g[n]].exiting}
<1>6. NextReaper(t) = IF Able = {} THEN child_reaper
                      ELSE g[CHOOSE n \in Able : \A m \in Able : n <= m]
  BY <1>4 DEF NextReaper, Slots
<1>7. CASE Able = {}
  BY <1>6, <1>7, TaskAssumption DEF IInv, StateOK
<1>8. CASE Able # {}
  <2>1. Able \in SUBSET Nat
    BY SlotsAreSome
  <2>2. \E n \in Able : \A m \in Able : n <= m
    BY <1>8, <2>1, LeastNat
  <2>3. PICK n : n = CHOOSE k \in Able : \A m \in Able : k <= m
    OBVIOUS
  <2>4. n \in Able
    BY <2>2, <2>3
  <2>5. PICK u : u = g[n]
    OBVIOUS
  <2>6. NextReaper(t) = u
    BY <1>6, <1>8, <2>3, <2>5
  <2>7. u \in Task /\ u \in Group(task, t) /\ ~task[u].exiting
    <3>1. n \in 1 .. Slots
      BY <2>4, SlotsAreSome
    <3> QED
      BY <1>5, <2>4, <2>5, <3>1
  <2>8. u # t
    BY <1>3, <2>7
  <2>9. StateAt(u) /\ pc[u] \notin InExit
    BY <2>7 DEF IInv, StateOK, StateAt
  <2>10. ASSUME pc[u] = "none" PROVE FALSE
    <3>1. task[u].next_thread = u
      BY <2>7, <2>9, <2>10 DEF StateAt, IInv, GroupsOK, Rings
    <3>2. t \in Group(task, u)
      BY <1>1, <2>7, GroupIsSymmetric DEF IInv, GroupsOK
    <3> QED
      BY <1>1, <2>7, <2>8, <3>1, <3>2, GroupAlone
  <2>11. Threaded
    <3>1. ASSUME ~Threaded PROVE FALSE
      <4>1. task[t].next_thread = t
        BY <3>1 DEF IInv, GroupsOK
      <4> QED
        BY <1>1, <2>7, <2>8, <4>1, GroupAlone
    <3> QED
      BY <3>1
  <2> QED
    BY <2>6, <2>7, <2>9, <2>10, <2>11
<1> QED
  BY <1>7, <1>8

\* The reaper is chosen under tasklist_lock.
LEMMA ChooseReaperKeeps ==
  ASSUME IInv, NEW t \in Task, ChooseReaper(t)
  PROVE  IInv'
<1>1. PICK q : q = NextReaper(t)
  OBVIOUS
<1>2. /\ pc[t] = "forget" /\ Turn(t) /\ CanRead
      /\ pc' = [pc EXCEPT ![t] = "assign"]
      /\ local' = [local EXCEPT ![t].p = q]
      /\ tasklist_lock' = [tasklist_lock EXCEPT !.readers = @ \cup {t}]
      /\ UNCHANGED << task, forks, build >>
  BY <1>1 DEF ChooseReaper, At, Goto
<1>3. /\ q \in Task /\ pc[q] \notin InExit \cup {"none"}
      /\ ~Threaded => q = child_reaper
  BY <1>1, <1>2, ReaperIsAble
<1>4. PICK r, l, lock : /\ r = task[t] /\ l = [local[t] EXCEPT !.p = q]
                        /\ lock = [tasklist_lock EXCEPT !.readers = @ \cup {t}]
  OBVIOUS
<1>5. /\ pc \in [Task -> PCs] /\ local \in [Task -> Locals] /\ local[t] \in Locals
      /\ tasklist_lock \in [readers : SUBSET Task, writer : Pointer]
  BY DEF IInv, TypeOK, Locals
<1>6. l \in Locals /\ local' = [local EXCEPT ![t] = l] /\ l.p = q
  BY <1>2, <1>3, <1>4, <1>5 DEF Locals, Pointer
<1>7. /\ lock \in [readers : SUBSET Task, writer : Pointer] /\ lock.writer = tasklist_lock.writer
      /\ lock.readers = tasklist_lock.readers \cup {t}
  BY <1>4, <1>5
<1>8. pc[t] \in InExit
  BY <1>2 DEF InExit
<1>9. ExitStep(t, "assign", r, l, lock)
  <2>1. << pc[t], "assign" >> \in {<< "user", "forget" >>, << "forget", "assign" >>,
                                   << "relock", "loop" >>, << "loop", "leave" >>,
                                   << "leave", "dead" >>}
    BY <1>2
  <2>2. /\ r \in TaskStructs /\ SameLinks(r, task[t]) /\ r.exiting /\ r.state = task[t].state
        /\ task' = [task EXCEPT ![t] = r] /\ t # child_reaper
    BY <1>2, <1>4, <1>8, ExitFits
  <2>3. pc[t] # "loop"
    BY <1>2
  <2> QED
    BY <1>2, <1>4, <1>6, <1>7, <2>1, <2>2, <2>3 DEF ExitStep
<1>10. /\ pc'[t] = "assign" /\ local'[t].p = q
       /\ \A u \in Task : u # t => pc'[u] = pc[u]
  BY <1>2, <1>5, <1>6
<1>11. LockOK'
  <2>1. tasklist_lock.writer = NULL /\ NULL \notin Task
    BY <1>2, TaskAssumption DEF CanRead
  <2> QED
    BY <1>2, <1>4, <1>7, <1>10, <2>1 DEF IInv, LockOK
<1>12. LocalAt(t)'
  <2>1. pc'[q] \notin InExit \cup {"none"} /\ q # t
    BY <1>3, <1>8, <1>10
  <2> QED
    BY <1>2, <1>3, <1>10, <2>1 DEF LocalAt, Threaded
<1> QED
  BY <1>9, <1>11, <1>12, ExitStepKeeps

\* The lock is taken again.
LEMMA RelockKeeps ==
  ASSUME IInv, NEW t \in Task, Relock(t)
  PROVE  IInv'
<1>1. /\ pc[t] = "relock" /\ Turn(t) /\ CanWrite
      /\ pc' = [pc EXCEPT ![t] = "loop"]
      /\ tasklist_lock' = [tasklist_lock EXCEPT !.writer = t]
      /\ UNCHANGED << task, local, forks, build >>
  BY DEF Relock, At, Goto
<1>2. PICK r, l, lock : /\ r = task[t] /\ l = local[t]
                        /\ lock = [tasklist_lock EXCEPT !.writer = t]
  OBVIOUS
<1>3. /\ pc \in [Task -> PCs]
      /\ tasklist_lock \in [readers : SUBSET Task, writer : Pointer]
  BY DEF IInv, TypeOK
<1>4. /\ lock \in [readers : SUBSET Task, writer : Pointer] /\ lock.writer = t
      /\ lock.readers = tasklist_lock.readers
  BY <1>2, <1>3 DEF Pointer
<1>5. pc[t] \in InExit
  BY <1>1 DEF InExit
<1>6. ExitStep(t, "loop", r, l, lock)
  <2>1. << pc[t], "loop" >> \in {<< "user", "forget" >>, << "forget", "assign" >>,
                                 << "relock", "loop" >>, << "loop", "leave" >>,
                                 << "leave", "dead" >>}
    BY <1>1
  <2>2. /\ r \in TaskStructs /\ SameLinks(r, task[t]) /\ r.exiting /\ r.state = task[t].state
        /\ task' = [task EXCEPT ![t] = r] /\ t # child_reaper
        /\ l \in Locals /\ local' = [local EXCEPT ![t] = l]
    BY <1>1, <1>2, <1>5, ExitFits
  <2>3. pc[t] # "loop"
    BY <1>1
  <2> QED
    BY <1>1, <1>2, <1>4, <2>1, <2>2, <2>3 DEF ExitStep
<1>7. /\ pc'[t] = "loop"
      /\ \A u \in Task : u # t => pc'[u] = pc[u]
  BY <1>1, <1>3
<1>8. LockOK'
  <2>1. tasklist_lock.writer = NULL /\ tasklist_lock.readers = {} /\ NULL \notin Task
    BY <1>1, TaskAssumption DEF CanWrite
  <2> QED
    BY <1>1, <1>2, <1>4, <1>7, <2>1 DEF IInv, LockOK
<1>9. LocalAt(t)'
  BY <1>7 DEF LocalAt
<1> QED
  BY <1>6, <1>8, <1>9, ExitStepKeeps

\* exit_notify ends.
LEMMA NoChildLeftKeeps ==
  ASSUME IInv, NEW t \in Task, NoChildLeft(t)
  PROVE  IInv'
<1>1. /\ pc[t] = "loop" /\ Turn(t) /\ task[t].p_cptr = NULL
      /\ pc' = [pc EXCEPT ![t] = "leave"]
      /\ tasklist_lock' = [tasklist_lock EXCEPT !.writer = NULL]
      /\ UNCHANGED << task, local, forks, build >>
  BY DEF NoChildLeft, At, Goto
<1>2. PICK r, l, lock : /\ r = task[t] /\ l = local[t]
                        /\ lock = [tasklist_lock EXCEPT !.writer = NULL]
  OBVIOUS
<1>3. /\ pc \in [Task -> PCs]
      /\ tasklist_lock \in [readers : SUBSET Task, writer : Pointer]
  BY DEF IInv, TypeOK
<1>4. /\ lock \in [readers : SUBSET Task, writer : Pointer] /\ lock.writer = NULL
      /\ lock.readers = tasklist_lock.readers
  BY <1>2, <1>3 DEF Pointer
<1>5. pc[t] \in InExit
  BY <1>1 DEF InExit
<1>6. ExitStep(t, "leave", r, l, lock)
  <2>1. << pc[t], "leave" >> \in {<< "user", "forget" >>, << "forget", "assign" >>,
                                  << "relock", "loop" >>, << "loop", "leave" >>,
                                  << "leave", "dead" >>}
    BY <1>1
  <2>2. /\ r \in TaskStructs /\ SameLinks(r, task[t]) /\ r.exiting /\ r.state = task[t].state
        /\ task' = [task EXCEPT ![t] = r] /\ t # child_reaper
        /\ l \in Locals /\ local' = [local EXCEPT ![t] = l]
    BY <1>1, <1>2, <1>5, ExitFits
  <2> QED
    BY <1>1, <1>2, <1>4, <2>1, <2>2 DEF ExitStep
<1>7. /\ pc'[t] = "leave"
      /\ \A u \in Task : u # t => pc'[u] = pc[u]
  BY <1>1, <1>3
<1>8. LockOK'
  <2>1. tasklist_lock.writer = t /\ NULL \notin Task
    BY <1>1, TaskAssumption DEF IInv, LockOK
  <2> QED
    BY <1>1, <1>2, <1>4, <1>7, <2>1 DEF IInv, LockOK
<1>9. LocalAt(t)'
  BY <1>7 DEF LocalAt
<1> QED
  BY <1>6, <1>8, <1>9, ExitStepKeeps

\* The last schedule().
LEMMA LeaveKeeps ==
  ASSUME IInv, NEW t \in Task, Leave(t)
  PROVE  IInv'
<1>1. /\ pc[t] = "leave" /\ Turn(t)
      /\ pc' = [pc EXCEPT ![t] = "dead"]
      /\ UNCHANGED << task, local, tasklist_lock, forks, build >>
  BY DEF Leave, At, Goto
<1>2. PICK r, l, lock : r = task[t] /\ l = local[t] /\ lock = tasklist_lock
  OBVIOUS
<1>3. pc \in [Task -> PCs]
  BY DEF IInv, TypeOK
<1>4. pc[t] \in InExit
  BY <1>1 DEF InExit
<1>5. ExitStep(t, "dead", r, l, lock)
  <2>1. << pc[t], "dead" >> \in {<< "user", "forget" >>, << "forget", "assign" >>,
                                 << "relock", "loop" >>, << "loop", "leave" >>,
                                 << "leave", "dead" >>}
    BY <1>1
  <2>2. /\ r \in TaskStructs /\ SameLinks(r, task[t]) /\ r.exiting /\ r.state = task[t].state
        /\ task' = [task EXCEPT ![t] = r] /\ t # child_reaper
        /\ l \in Locals /\ local' = [local EXCEPT ![t] = l]
        /\ lock \in [readers : SUBSET Task, writer : Pointer] /\ tasklist_lock' = lock
    BY <1>1, <1>2, <1>4, ExitFits
  <2>3. pc[t] # "loop"
    BY <1>1
  <2> QED
    BY <1>1, <2>1, <2>2, <2>3 DEF ExitStep
<1>6. /\ pc'[t] = "dead"
      /\ \A u \in Task : u # t => pc'[u] = pc[u]
  BY <1>1, <1>3
<1>7. LockOK'
  BY <1>1, <1>6 DEF IInv, LockOK
<1>8. LocalAt(t)'
  BY <1>6 DEF LocalAt
<1> QED
  BY <1>5, <1>7, <1>8, ExitStepKeeps

-----------------------------------------------------------------------------
(* Steps that relink *)

\* A step of t that makes no task and frees none, and may wake others.
Shift(t) ==
  /\ Turn(t) /\ build' = build
  /\ pc[t] \in InExit => t # child_reaper
  /\ << pc[t], pc'[t] >> \in {<< "user", "user" >>, << "handback", "user" >>,
                              << "assign", "notify" >>, << "notify", "loop" >>,
                              << "loop", "loop" >>, << "loop", "relock" >>}
  /\ \A u \in Task :
       /\ task'[u].next_thread = task[u].next_thread
       /\ task'[u].exiting = task[u].exiting
       /\ task[u].state \in {"FREE", "ZOMBIE"} => task'[u].state = task[u].state
       /\ task'[u].state = "FREE" => task[u].state = "FREE"
       /\ u # t => /\ pc'[u] = pc[u] /\ local'[u] = local[u]
                   /\ \/ task'[u].state = task[u].state
                      \/ task[u].state = "INTERRUPTIBLE" /\ task'[u].state = "RUNNING"

\* The zombies t waits for have not become more.
LessToWaitFor(u) ==
  pc[u] \in {"sched", "asleep"} /\ task'[u].state = "INTERRUPTIBLE" =>
    \A p \in Members(task) :
      task'[p].state = "ZOMBIE" /\ task'[p].p_pptr \in Watched(u) =>
        /\ task[p].state = "ZOMBIE" /\ task'[p].p_pptr = task[p].p_pptr
        /\ task'[p].sigchld = task[p].sigchld

\* What else it has to establish.
LEMMA ShiftKeeps ==
  ASSUME IInv, NEW t \in Task, Shift(t), TypeOK', LockOK', StateAt(t)',
         Members(task') = Members(task) =>
           /\ \A p \in Members(task) : KinAt(p)'
           /\ Lists(task', Members(task), Stale')
           /\ \A u \in Task \ {t} : pc[u] \in {"found", "release", "handback"} =>
                task'[local[u].p].p_pptr \in Group(task, u)
           /\ Clear(build) => \A u \in Task \ {t} : LessToWaitFor(u),
         /\ task'[child_reaper].p_pptr = NULL /\ task'[child_reaper].p_opptr = NULL
         /\ task'[child_reaper].p_osptr = NULL,
         SignalsOK'
  PROVE  IInv'
<1>1. task \in Structs /\ task' \in Structs
  BY DEF IInv, TypeOK, Structs
<1>2. /\ Turn(t) /\ build' = build
      /\ pc[t] \in InExit => t # child_reaper
      /\ \/ pc[t] = "user" /\ pc'[t] = "user"
         \/ pc[t] = "handback" /\ pc'[t] = "user"
         \/ pc[t] = "assign" /\ pc'[t] = "notify"
         \/ pc[t] = "notify" /\ pc'[t] = "loop"
         \/ pc[t] = "loop" /\ pc'[t] = "loop"
         \/ pc[t] = "loop" /\ pc'[t] = "relock"
  BY DEF Shift
<1>3. \A u \in Task :
        /\ task'[u].next_thread = task[u].next_thread
        /\ task'[u].exiting = task[u].exiting
        /\ task[u].state \in {"FREE", "ZOMBIE"} => task'[u].state = task[u].state
        /\ task'[u].state = "FREE" => task[u].state = "FREE"
        /\ u # t => /\ pc'[u] = pc[u] /\ local'[u] = local[u]
                    /\ \/ task'[u].state = task[u].state
                       \/ task[u].state = "INTERRUPTIBLE" /\ task'[u].state = "RUNNING"
  BY DEF Shift
<1>4. /\ MayYield' = MayYield /\ Threaded' = Threaded
      /\ Clear(build)' = Clear(build) /\ Apart(build)' = Apart(build)
  BY <1>2 DEF MayYield, Threaded, Clear, Apart
<1>5. Members(task') = Members(task) /\ Members(task') \in SUBSET Task
  BY <1>3 DEF Members
<1>6. \A u \in Task : Group(task', u) = Group(task, u)
  BY <1>1, <1>3, GroupFrame
<1>7. StateOK'
  <2>1. ASSUME NEW u \in Task, u # t PROVE StateAt(u)'
    <3>1. StateAt(u)
      BY DEF IInv, StateOK
    <3>2. /\ task'[u].exiting = task[u].exiting /\ pc'[u] = pc[u]
          /\ task[u].state \in {"FREE", "ZOMBIE"} => task'[u].state = task[u].state
          /\ task'[u].state = "FREE" => task[u].state = "FREE"
          /\ \/ task'[u].state = task[u].state
             \/ task[u].state = "INTERRUPTIBLE" /\ task'[u].state = "RUNNING"
      BY <1>3, <2>1
    <3> QED
      BY <1>2, <3>1, <3>2 DEF StateAt, InWait, Dying, InExit
  <2>2. pc'[child_reaper] \notin InExit \cup {"none"}
    BY <1>2, <1>3, TaskAssumption DEF IInv, StateOK, InExit
  <2> QED
    BY <2>1, <2>2 DEF StateOK
<1>8. Alone'
  BY <1>2, <1>3, <1>4 DEF IInv, Alone, Turn
<1>9. GroupsOK'
  <2>1. Rings(task')
    <3>1. ASSUME NEW p \in Task, task'[p].state = "FREE" PROVE task'[p].next_thread = p
      BY <1>3, <3>1 DEF IInv, GroupsOK, Rings
    <3> QED
      BY <1>3, <3>1 DEF IInv, GroupsOK, Rings
  <2> QED
    BY <1>3, <1>4, <2>1 DEF IInv, GroupsOK
<1>10. Kin'
  BY <1>5 DEF Kin
<1>11. TreeOK'
  BY <1>5 DEF TreeOK
<1>12. LocalOK'
  <2>1. ASSUME NEW u \in Task, u # t PROVE LocalAt(u)'
    <3>1. pc'[u] = pc[u] /\ local'[u] = local[u] /\ LocalAt(u)
      BY <1>3, <2>1 DEF IInv, LocalOK
    <3>2. ASSUME pc[u] \in {"found", "release", "handback"}
          PROVE  /\ local[u].p \in Members(task') /\ task'[local[u].p].state = "ZOMBIE"
                 /\ task'[local[u].p].p_pptr \in Group(task', u)
      <4>1. /\ local[u].p \in Task /\ local[u].p \in Members(task')
            /\ task[local[u].p].state = "ZOMBIE"
        BY <1>5, <3>1, <3>2 DEF LocalAt
      <4>2. task'[local[u].p].p_pptr \in Group(task, u)
        BY <1>5, <2>1, <3>2
      <4> QED
        BY <1>3, <1>6, <4>1, <4>2
    <3>3. ASSUME pc[u] = "assign"
          PROVE  /\ local[u].p \in Task /\ pc'[local[u].p] \notin InExit \cup {"none"}
                 /\ ~Threaded => local[u].p = child_reaper
      <4>1. /\ local[u].p \in Task /\ pc[local[u].p] \notin InExit \cup {"none"}
            /\ ~Threaded => local[u].p = child_reaper
        BY <3>1, <3>3 DEF LocalAt
      <4>2. CASE local[u].p # t
        BY <1>3, <4>1, <4>2
      <4>3. CASE local[u].p = t
        <5>1. pc'[t] = "user"
          BY <1>2, <4>1, <4>3 DEF InExit
        <5> QED
          BY <4>1, <4>3, <5>1 DEF InExit
      <4> QED
        BY <4>2, <4>3
    <3> QED
      BY <1>4, <3>1, <3>2, <3>3 DEF LocalAt
  <2>2. LocalAt(t)'
    BY <1>2 DEF LocalAt
  <2> QED
    BY <2>1, <2>2 DEF LocalOK
<1>13. RestOK'
  <2>1. ASSUME Clear(build), NEW u \in Task, u # t PROVE RestAt(u)'
    <3>1. pc'[u] = pc[u] /\ local'[u] = local[u] /\ RestAt(u)
      BY <1>3, <2>1 DEF IInv, RestOK
    <3>2. Watched(u)' = Watched(u)
      BY <1>6, <3>1 DEF Watched
    <3>3. LessToWaitFor(u)
      BY <1>5, <2>1
    <3>4. ASSUME pc[u] \in {"sched", "asleep"}, task'[u].state = "INTERRUPTIBLE"
          PROVE  /\ task[u].state = "INTERRUPTIBLE"
                 /\ \A p \in Members(task) :
                      task'[p].state = "ZOMBIE" /\ task'[p].p_pptr \in Watched(u) =>
                        ~Eligible(p, local[u].options)'
      <4>1. task[u].state = "INTERRUPTIBLE"
        BY <1>3, <2>1, <3>4
      <4>2. \A p \in Members(task) :
              task'[p].state = "ZOMBIE" /\ task'[p].p_pptr \in Watched(u) =>
                /\ task'[p].sigchld = task[p].sigchld
                /\ ~Eligible(p, local[u].options)
        BY <3>1, <3>3, <3>4, <4>1 DEF LessToWaitFor, RestAt
      <4> QED
        BY <3>1, <4>1, <4>2 DEF Eligible
    <3> QED
      BY <1>5, <3>1, <3>2, <3>4 DEF RestAt
  <2>2. RestAt(t)'
    BY <1>2 DEF RestAt
  <2> QED
    BY <1>4, <2>1, <2>2 DEF RestOK
<1> QED
  BY <1>4, <1>7, <1>8, <1>9, <1>10, <1>11, <1>12, <1>13 DEF IInv

\* forget_original_parent gives the children new original parents.
LEMMA AssignReaperKeeps ==
  ASSUME IInv, NEW t \in Task, AssignReaper(t)
  PROVE  IInv'
<1>1. PICK q : q = local[t].p
  OBVIOUS
<1>2. /\ pc[t] = "assign" /\ Turn(t)
      /\ task' = [p \in Task |-> reparented(p, t, q)]
      /\ tasklist_lock' = [tasklist_lock EXCEPT !.readers = @ \ {t}]
      /\ local' = [local EXCEPT ![t] = NoLocal]
      /\ pc' = [pc EXCEPT ![t] = "notify"]
      /\ UNCHANGED << forks, build >>
  BY <1>1 DEF AssignReaper, At, Goto, read_unlock
<1>3. /\ task \in [Task -> TaskStructs] /\ pc \in [Task -> PCs]
      /\ local \in [Task -> Locals]
      /\ tasklist_lock \in [readers : SUBSET Task, writer : Pointer]
  BY DEF IInv, TypeOK, Locals
<1>4. /\ q \in Task /\ pc[q] \notin InExit \cup {"none"}
      /\ ~Threaded => q = child_reaper
  BY <1>1, <1>2 DEF IInv, LocalOK, LocalAt
<1>5. pc[t] \in InExit /\ t # child_reaper /\ task[t].exiting /\ q # t
  BY <1>2, <1>4, ExitFits DEF InExit
<1>6. ASSUME NEW u \in Task
      PROVE  /\ task'[u] \in TaskStructs
             /\ task'[u].state = task[u].state /\ task'[u].p_pptr = task[u].p_pptr
             /\ task'[u].p_cptr = task[u].p_cptr /\ task'[u].p_osptr = task[u].p_osptr
             /\ task'[u].p_ysptr = task[u].p_ysptr
             /\ task'[u].next_thread = task[u].next_thread
             /\ task'[u].exiting = task[u].exiting
             /\ task[u].p_opptr # t => task'[u].p_opptr = task[u].p_opptr
                                       /\ task'[u].sigchld = task[u].sigchld
             /\ task[u].p_opptr = t => task'[u].p_opptr \in {q, child_reaper}
                                       /\ task'[u].sigchld
  <2>1. task[u] \in TaskStructs /\ task'[u] = reparented(u, t, q)
    BY <1>2, <1>3
  <2>2. CASE task[u].p_opptr # t
    BY <2>1, <2>2 DEF reparented
  <2>3. CASE task[u].p_opptr = t
    <3>1. PICK o : o = IF u = q THEN child_reaper ELSE q
      OBVIOUS
    <3>2. task'[u] = [task[u] EXCEPT !.sigchld = TRUE, !.p_opptr = o]
      BY <2>1, <2>3, <3>1 DEF reparented
    <3>3. o \in {q, child_reaper} /\ o \in Pointer
      BY <1>4, <3>1, TaskAssumption DEF Pointer
    <3> QED
      BY <2>1, <2>3, <3>2, <3>3 DEF TaskStructs
  <2> QED
    BY <2>2, <2>3
<1>7. /\ pc'[t] = "notify" /\ pc' \in [Task -> PCs]
      /\ \A u \in Task : u # t => pc'[u] = pc[u] /\ local'[u] = local[u]
      /\ local' \in [Task -> Locals]
  BY <1>2, <1>3 DEF PCs, NoLocal, Locals, Pointer
<1>8. TypeOK'
  <2>1. task' \in [Task -> TaskStructs]
    BY <1>2, <1>6
  <2>2. tasklist_lock' \in [readers : SUBSET Task, writer : Pointer]
    BY <1>2, <1>3
  <2> QED
    BY <1>2, <1>7, <2>1, <2>2 DEF TypeOK, IInv, Locals
<1>9. LockOK'
  <2>1. tasklist_lock'.writer = tasklist_lock.writer
        /\ tasklist_lock'.readers = tasklist_lock.readers \ {t}
    BY <1>2, <1>3
  <2> QED
    BY <1>2, <1>7, <2>1 DEF IInv, LockOK
<1>10. StateAt(t)'
  <2>1. StateAt(t)
    BY DEF IInv, StateOK
  <2> QED
    BY <1>2, <1>5, <1>6, <1>7, <2>1 DEF StateAt, InWait, Dying, InExit
<1>11. ASSUME NEW p \in Members(task) PROVE KinAt(p)'
  <2>1. KinAt(p) /\ p \in Task
    BY DEF IInv, Kin, Members
  <2>2. task'[p].p_pptr \in Task /\ pc'[task'[p].p_pptr] \notin Gone
    BY <1>6, <1>7, <2>1 DEF KinAt, Gone
  <2>3. pc'[child_reaper] \notin Orphaned /\ pc'[q] \notin Orphaned
    BY <1>4, <1>5, <1>7, TaskAssumption DEF IInv, StateOK, Orphaned, InExit
  <2>4. task'[p].p_opptr \in Task /\ pc'[task'[p].p_opptr] \notin Orphaned
    BY <1>4, <1>6, <1>7, <2>1, <2>3, TaskAssumption DEF KinAt
  <2> QED
    BY <2>2, <2>4 DEF KinAt
<1>12. Stale' = Stale
  BY <1>2, <1>6, <1>7 DEF Stale
<1>13. PICK T, R, S, stale : /\ T = task /\ R = task' /\ S = Members(task) /\ stale = Stale
  OBVIOUS
<1>14. Lists(R, S, stale)
  <2>1. T \in Structs /\ R \in Structs /\ S \in SUBSET Task /\ Lists(T, S, stale)
    BY <1>8, <1>13 DEF IInv, TreeOK, TypeOK, Structs, Members
  <2>2. /\ \A u \in Task : R[u].p_cptr = T[u].p_cptr
        /\ \A u \in S : /\ R[u].p_pptr = T[u].p_pptr /\ R[u].p_osptr = T[u].p_osptr
                        /\ R[u].p_ysptr = T[u].p_ysptr
    BY <1>6, <1>13, <2>1
  <2> QED
    BY <2>1, <2>2, ListsFrame
<1>15. ASSUME NEW u \in Task \ {t}, pc[u] \in {"found", "release", "handback"}
       PROVE  task'[local[u].p].p_pptr \in Group(task, u)
  <2>1. local[u].p \in Task /\ task[local[u].p].p_pptr \in Group(task, u)
    BY <1>15 DEF IInv, LocalOK, LocalAt, Members
  <2> QED
    BY <1>6, <2>1
<1>16. ASSUME Clear(build), NEW u \in Task \ {t} PROVE LessToWaitFor(u)
  <2>1. SUFFICES ASSUME pc[u] \in {"sched", "asleep"}, NEW p \in Members(task),
                        task'[p].p_pptr \in Watched(u)
                 PROVE  task'[p].sigchld = task[p].sigchld
    BY <1>6 DEF LessToWaitFor, Members
  <2>2. p \in Task
    BY DEF Members
  <2>3. CASE "CSIGNAL" \notin build.clone
    <3>1. task[p].sigchld
      BY <2>2, <2>3 DEF IInv, SignalsOK
    <3>2. task[p].sigchld \in BOOLEAN /\ task'[p].sigchld \in BOOLEAN
      BY <1>3, <1>6, <2>2 DEF TaskStructs
    <3>3. task'[p].sigchld
      BY <1>6, <2>2, <3>1, <3>2
    <3> QED
      BY <3>1, <3>2, <3>3
  <2>4. CASE "CSIGNAL" \in build.clone
    <3>1. ~build.ptrace /\ ~Threaded
      BY <1>16, <2>4 DEF Clear, Threaded
    <3>2. Group(task, u) = {u}
      BY <1>3, <3>1, GroupAlone DEF IInv, GroupsOK, Structs
    <3>3. task[p].p_pptr = u
      BY <1>6, <2>1, <2>2, <3>2 DEF Watched
    <3>4. task[p].p_opptr = u
      BY <2>1, <3>1, <3>3 DEF IInv, SignalsOK
    <3> QED
      BY <1>6, <2>2, <3>4
  <2> QED
    BY <2>3, <2>4
<1>17. /\ task'[child_reaper].p_pptr = NULL /\ task'[child_reaper].p_opptr = NULL
       /\ task'[child_reaper].p_osptr = NULL
  BY <1>6, TaskAssumption DEF IInv, Kin
<1>18. SignalsOK'
  <2>1. Members(task') = Members(task)
    BY <1>6 DEF Members
  <2>2. ASSUME "CSIGNAL" \notin build.clone, NEW p \in Task PROVE task'[p].sigchld
    BY <1>6, <2>2 DEF IInv, SignalsOK
  <2>3. ASSUME ~build.ptrace, NEW p \in Members(task)
        PROVE  \/ task'[p].p_pptr = task'[p].p_opptr
               \/ pc'[task'[p].p_pptr] \in {"notify", "loop", "relock"}
    <3>1. p \in Task /\ task[p].p_pptr \in Task
      BY DEF Members, IInv, Kin, KinAt
    <3>2. \/ task[p].p_pptr = task[p].p_opptr
          \/ pc[task[p].p_pptr] \in {"notify", "loop", "relock"}
      BY <2>3 DEF IInv, SignalsOK
    <3> QED
      BY <1>2, <1>6, <1>7, <3>1, <3>2
  <2> QED
    BY <1>2, <2>1, <2>2, <2>3 DEF SignalsOK
<1>19. Shift(t)
  BY <1>2, <1>5, <1>6, <1>7 DEF Shift
<1> QED
  BY <1>8, <1>9, <1>10, <1>11, <1>12, <1>13, <1>14, <1>15, <1>16, <1>17, <1>18, <1>19, ShiftKeeps

\* exit_notify: the process becomes a zombie, and its parent is woken.
LEMMA BecomeZombieKeeps ==
  ASSUME IInv, NEW t \in Task, BecomeZombie(t)
  PROVE  IInv'
<1>1. PICK T, R : T = Store(task, t, "state", "ZOMBIE") /\ R = do_notify_parent(T, t)
  OBVIOUS
<1>2. /\ pc[t] = "notify" /\ Turn(t) /\ CanWrite
      /\ task' = R
      /\ tasklist_lock' = [tasklist_lock EXCEPT !.writer = t]
      /\ pc' = [pc EXCEPT ![t] = "loop"]
      /\ UNCHANGED << local, forks, build >>
  BY <1>1 DEF BecomeZombie, At, Goto
<1>3. /\ task \in Structs /\ pc \in [Task -> PCs]
      /\ tasklist_lock \in [readers : SUBSET Task, writer : Pointer]
  BY DEF IInv, TypeOK, Structs
<1>4. T \in Structs /\ \A u \in Task : /\ u # t => T[u] = task[u]
                                       /\ u = t => T[u] = [task[t] EXCEPT !.state = "ZOMBIE"]
  <2>1. [task[t] EXCEPT !.state = "ZOMBIE"] \in TaskStructs
    BY <1>3 DEF Structs, TaskStructs, States
  <2>2. T = [u \in Task |-> IF u = t THEN [task[t] EXCEPT !.state = "ZOMBIE"] ELSE task[u]]
    BY <1>1, <1>3 DEF Store, Structs
  <2> QED
    BY <1>3, <2>1, <2>2 DEF Structs
<1>5. ASSUME NEW u \in Task
      PROVE  /\ T[u].p_opptr = task[u].p_opptr /\ T[u].p_pptr = task[u].p_pptr
             /\ T[u].p_cptr = task[u].p_cptr /\ T[u].p_osptr = task[u].p_osptr
             /\ T[u].p_ysptr = task[u].p_ysptr /\ T[u].next_thread = task[u].next_thread
             /\ T[u].sigchld = task[u].sigchld /\ T[u].exiting = task[u].exiting
             /\ T[u].state = IF u = t THEN "ZOMBIE" ELSE task[u].state
  <2>1. task[u] \in TaskStructs
    BY <1>3 DEF Structs
  <2> QED
    BY <1>4, <2>1 DEF TaskStructs
<1>6. PICK G : G = Group(task, task[t].p_pptr)
  OBVIOUS
<1>7. StateAt(t) /\ t # child_reaper /\ pc[t] \in InExit
  BY <1>2, ExitFits DEF IInv, StateOK, InExit
<1>8. t \in Members(task) /\ KinAt(t) /\ task[t].p_pptr \in Task /\ task[t].state = "RUNNING"
  BY <1>2, <1>7 DEF StateAt, Members, IInv, Kin, KinAt
<1>9. Group(T, T[t].p_pptr) = G
  <2>1. PICK par : par = task[t].p_pptr
    OBVIOUS
  <2>2. Group(T, par) = Group(task, par)
    BY <1>3, <1>4, <1>5, <1>8, <2>1, GroupFrame
  <2> QED
    BY <1>5, <1>6, <2>1, <2>2
<1>10. R \in Structs /\ Notified(T, R, t)
  BY <1>1, <1>4, NotifyIs
<1>11. ASSUME NEW u \in Task
       PROVE  /\ task'[u].p_opptr = task[u].p_opptr /\ task'[u].p_pptr = task[u].p_pptr
              /\ task'[u].p_cptr = task[u].p_cptr /\ task'[u].p_osptr = task[u].p_osptr
              /\ task'[u].p_ysptr = task[u].p_ysptr
              /\ task'[u].next_thread = task[u].next_thread
              /\ task'[u].sigchld = task[u].sigchld /\ task'[u].exiting = task[u].exiting
              /\ task'[u].state = IF u = t THEN "ZOMBIE"
                                  ELSE IF u \in G /\ task[u].state = "INTERRUPTIBLE"
                                       THEN "RUNNING" ELSE task[u].state
  <2>1. task'[u].state = IF u \in G /\ T[u].state = "INTERRUPTIBLE"
                         THEN "RUNNING" ELSE T[u].state
    BY <1>2, <1>9, <1>10 DEF Notified
  <2>2. task'[u].state = IF u = t THEN "ZOMBIE"
                                  ELSE IF u \in G /\ task[u].state = "INTERRUPTIBLE"
                                       THEN "RUNNING" ELSE task[u].state
    BY <1>5, <2>1
  <2> QED
    BY <1>2, <1>5, <1>10, <2>2 DEF Notified
<1>12. /\ pc'[t] = "loop" /\ pc' \in [Task -> PCs]
       /\ \A u \in Task : u # t => pc'[u] = pc[u]
  BY <1>2, <1>3 DEF PCs
<1>13. /\ tasklist_lock' \in [readers : SUBSET Task, writer : Pointer]
       /\ tasklist_lock'.writer = t /\ tasklist_lock'.readers = tasklist_lock.readers
  BY <1>2, <1>3 DEF Pointer
<1>14. TypeOK'
  BY <1>2, <1>10, <1>12, <1>13 DEF TypeOK, IInv, Structs
<1>15. /\ \A u \in Task : pc[u] \notin {"loop", "relock", "assign"}
       /\ Stale = {}
  BY <1>2, NobodyRelinks
<1>16. LockOK'
  <2>1. tasklist_lock.writer = NULL /\ tasklist_lock.readers = {} /\ NULL \notin Task
    BY <1>2, TaskAssumption DEF CanWrite
  <2> QED
    BY <1>12, <1>13, <1>15, <2>1 DEF LockOK
<1>17. StateAt(t)'
  BY <1>2, <1>7, <1>11, <1>12 DEF StateAt, InWait, Dying, InExit
<1>18. ASSUME NEW p \in Members(task) PROVE KinAt(p)'
  <2>1. KinAt(p) /\ p \in Task
    BY DEF IInv, Kin, Members
  <2> QED
    BY <1>2, <1>11, <1>12, <2>1 DEF KinAt, Gone, Orphaned
<1>19. PICK P, S, stale : P = task /\ S = Members(task) /\ stale = Stale'
  OBVIOUS
<1>20. Lists(R, S, stale)
  <2>1. P \in Structs /\ R \in Structs /\ S \in SUBSET Task /\ Lists(P, S, {})
    BY <1>3, <1>10, <1>15, <1>19 DEF IInv, TreeOK, Members
  <2>2. /\ \A u \in Task : R[u].p_cptr = P[u].p_cptr
        /\ \A u \in S : /\ R[u].p_pptr = P[u].p_pptr /\ R[u].p_osptr = P[u].p_osptr
                        /\ R[u].p_ysptr = P[u].p_ysptr
    BY <1>2, <1>11, <1>19, <2>1
  <2> QED
    BY <2>1, <2>2, ListsFrame
<1>21. ASSUME NEW u \in Task \ {t}, pc[u] \in {"found", "release", "handback"}
       PROVE  task'[local[u].p].p_pptr \in Group(task, u)
  <2>1. local[u].p \in Task /\ task[local[u].p].p_pptr \in Group(task, u)
    BY <1>21 DEF IInv, LocalOK, LocalAt, Members
  <2> QED
    BY <1>11, <2>1
<1>22. ASSUME NEW u \in Task \ {t} PROVE LessToWaitFor(u)
  <2>1. SUFFICES ASSUME task'[u].state = "INTERRUPTIBLE", NEW p \in Members(task),
                        task'[p].state = "ZOMBIE", task'[p].p_pptr \in Watched(u)
                 PROVE  task[p].state = "ZOMBIE"
    BY <1>11 DEF LessToWaitFor, Members
  <2>2. p \in Task
    BY DEF Members
  <2>3. ASSUME p = t PROVE FALSE
    <3>1. task[t].p_pptr \in Group(task, u)
      <4>1. u \in Group(task, u)
        BY <1>3, GroupIsLeast
      <4> QED
        BY <1>11, <2>1, <2>2, <2>3, <4>1 DEF Watched
    <3>2. PICK par : par = task[t].p_pptr
      OBVIOUS
    <3>3. par \in Task /\ par \in Group(task, u)
      BY <1>8, <3>1, <3>2
    <3>4. u \in Group(task, par)
      BY <1>3, <3>3, GroupIsSymmetric DEF IInv, GroupsOK
    <3> QED
      BY <1>6, <1>11, <2>1, <3>2, <3>4
  <2> QED
    BY <1>11, <2>1, <2>2, <2>3
<1>23. /\ task'[child_reaper].p_pptr = NULL /\ task'[child_reaper].p_opptr = NULL
       /\ task'[child_reaper].p_osptr = NULL
  BY <1>11, TaskAssumption DEF IInv, Kin
<1>24. Members(task') = Members(task)
  BY <1>8, <1>11 DEF Members
<1>25. SignalsOK'
  <2>1. ASSUME ~build.ptrace, NEW p \in Members(task)
        PROVE  \/ task'[p].p_pptr = task'[p].p_opptr
               \/ pc'[task'[p].p_pptr] \in {"notify", "loop", "relock"}
    <3>1. p \in Task /\ task[p].p_pptr \in Task
      BY DEF Members, IInv, Kin, KinAt
    <3>2. \/ task[p].p_pptr = task[p].p_opptr
          \/ pc[task[p].p_pptr] \in {"notify", "loop", "relock"}
      BY <2>1 DEF IInv, SignalsOK
    <3> QED
      BY <1>11, <1>12, <3>1, <3>2
  <2> QED
    BY <1>2, <1>11, <1>24, <2>1 DEF SignalsOK, IInv
<1>26. Shift(t)
  BY <1>2, <1>7, <1>8, <1>11, <1>12 DEF Shift
<1> QED
  BY <1>2, <1>14, <1>16, <1>17, <1>18, <1>19, <1>20, <1>21, <1>22, <1>23, <1>25, <1>26, ShiftKeeps

\* On one processor nobody but t is past the scan without a lock, unless wait4 may fault.
LEMMA NobodyElseFound ==
  ASSUME IInv, NEW t \in Task, Turn(t), NEW u \in Task, u # t,
         pc[u] \in {"found", "release", "handback"}
  PROVE  ~Threaded
<1>1. CASE build.smp
  BY <1>1 DEF IInv, Apart, Threaded
<1>2. CASE ~build.smp
  <2>1. pc[u] \in MayYield
    BY <1>2 DEF Turn
  <2>2. build.faults
    BY <2>1 DEF MayYield
  <2> QED
    BY <2>2 DEF IInv, Apart, Threaded
<1> QED
  BY <1>1, <1>2

\* A child that is found is found by its parent alone.
LEMMA FoundOnce ==
  ASSUME IInv, NEW t \in Task, Turn(t), NEW u \in Task, u # t,
         pc[u] \in {"found", "release", "handback"}
  PROVE  /\ local[u].p \in Task /\ task[local[u].p].p_pptr = u
         /\ Group(task, u) = {u} /\ Group(task, t) = {t}
<1>1. ~Threaded
  BY NobodyElseFound
<1>2. Group(task, u) = {u} /\ Group(task, t) = {t}
  BY <1>1, GroupAlone DEF IInv, GroupsOK, TypeOK, Structs
<1>3. LocalAt(u)
  BY DEF IInv, LocalOK
<1> QED
  BY <1>2, <1>3 DEF LocalAt, Members

\* t gives p new parents, under tasklist_lock, and may wake others.
Moves(t, p) ==
  /\ Turn(t) /\ CanWrite /\ pc[t] \in {"user", "handback"}
  /\ pc' = [pc EXCEPT ![t] = "user"]
  /\ local' \in [Task -> Locals]
  /\ UNCHANGED << tasklist_lock, forks, build >>
  /\ task' \in Structs /\ task'[t].state = "RUNNING"
  /\ \A u \in Task :
       /\ task'[u].next_thread = task[u].next_thread
       /\ task'[u].exiting = task[u].exiting
       /\ task[u].state \in {"FREE", "ZOMBIE"} => task'[u].state = task[u].state
       /\ u # t => /\ local'[u] = local[u]
                   /\ \/ task'[u].state = task[u].state
                      \/ task[u].state = "INTERRUPTIBLE" /\ task'[u].state = "RUNNING"
       /\ u # p => /\ task'[u].p_pptr = task[u].p_pptr /\ task'[u].p_opptr = task[u].p_opptr
                   /\ task'[u].sigchld = task[u].sigchld
  /\ task'[p].p_pptr \in Task /\ pc[task'[p].p_pptr] \notin Gone
  /\ task'[p].p_opptr \in Task /\ pc[task'[p].p_opptr] \notin Orphaned
  /\ task'[p].sigchld \/ task'[p].sigchld = task[p].sigchld
  /\ build.ptrace \/ task'[p].p_pptr = task'[p].p_opptr

\* What else it has to establish.
LEMMA MovesKeeps ==
  ASSUME IInv, NEW t \in Task, NEW p \in Members(task), Moves(t, p),
         Lists(task', Members(task), {}), task'[child_reaper].p_osptr = NULL,
         task[p].state = "ZOMBIE" =>
           /\ task'[p].sigchld = task[p].sigchld
           /\ \A u \in Task \ {t} : pc[u] \in {"found", "release", "handback"} => local[u].p # p
           /\ \A u \in Group(task, task'[p].p_pptr) : task'[u].state # "INTERRUPTIBLE"
  PROVE  IInv'
<1>1. /\ Turn(t) /\ CanWrite /\ pc[t] \in {"user", "handback"}
      /\ pc' = [pc EXCEPT ![t] = "user"]
      /\ local' \in [Task -> Locals]
      /\ UNCHANGED << tasklist_lock, forks, build >>
      /\ task' \in Structs /\ task'[t].state = "RUNNING"
      /\ task'[p].p_pptr \in Task /\ pc[task'[p].p_pptr] \notin Gone
      /\ task'[p].p_opptr \in Task /\ pc[task'[p].p_opptr] \notin Orphaned
      /\ task'[p].sigchld \/ task'[p].sigchld = task[p].sigchld
      /\ build.ptrace \/ task'[p].p_pptr = task'[p].p_opptr
  BY DEF Moves
<1>2. \A u \in Task :
       /\ task'[u].next_thread = task[u].next_thread
       /\ task'[u].exiting = task[u].exiting
       /\ task[u].state \in {"FREE", "ZOMBIE"} => task'[u].state = task[u].state
       /\ u # t => /\ local'[u] = local[u]
                   /\ \/ task'[u].state = task[u].state
                      \/ task[u].state = "INTERRUPTIBLE" /\ task'[u].state = "RUNNING"
       /\ u # p => /\ task'[u].p_pptr = task[u].p_pptr /\ task'[u].p_opptr = task[u].p_opptr
                   /\ task'[u].sigchld = task[u].sigchld
  BY DEF Moves
<1>3. task \in Structs /\ pc \in [Task -> PCs] /\ p \in Task /\ p # child_reaper
  BY DEF IInv, TypeOK, Structs, Members
<1>4. /\ pc'[t] = "user" /\ pc' \in [Task -> PCs]
      /\ \A u \in Task : u # t => pc'[u] = pc[u]
  BY <1>1, <1>3 DEF PCs
<1>5. TypeOK'
  BY <1>1, <1>4 DEF TypeOK, IInv, Structs, Locals
<1>6. LockOK'
  BY <1>1, <1>4 DEF IInv, LockOK
<1>7. StateAt(t) /\ StateAt(t)'
  <2>1. StateAt(t)
    BY DEF IInv, StateOK
  <2> QED
    BY <1>1, <1>2, <1>4, <2>1 DEF StateAt, InWait, Dying, InExit
<1>8. Members(task') = Members(task)
  <2>1. task[t].state # "FREE"
    BY <1>1, <1>7 DEF StateAt
  <2>2. \A u \in Task : task'[u].state = "FREE" <=> task[u].state = "FREE"
    BY <1>1, <1>2, <2>1
  <2> QED
    BY <2>2 DEF Members
<1>9. ASSUME NEW q \in Members(task) PROVE KinAt(q)'
  <2>1. KinAt(q) /\ q \in Task
    BY DEF IInv, Kin, Members
  <2>2. \A u \in Task : /\ pc[u] \notin Gone => pc'[u] \notin Gone
                        /\ pc[u] \notin Orphaned => pc'[u] \notin Orphaned
    BY <1>4 DEF Gone, Orphaned
  <2> QED
    BY <1>1, <1>2, <2>1, <2>2 DEF KinAt
<1>10. /\ \A u \in Task : pc[u] \notin {"loop", "relock", "assign"}
       /\ Stale' = {}
  <2>1. \A u \in Task : pc[u] \notin {"loop", "relock", "assign"}
    BY <1>1, NobodyRelinks
  <2> QED
    BY <1>4, <2>1 DEF Stale
<1>11. ASSUME NEW u \in Task \ {t}, pc[u] \in {"found", "release", "handback"}
       PROVE  task'[local[u].p].p_pptr \in Group(task, u)
  <2>1. /\ local[u].p \in Task /\ task[local[u].p].p_pptr \in Group(task, u)
        /\ task[local[u].p].state = "ZOMBIE"
    BY <1>11 DEF IInv, LocalOK, LocalAt, Members
  <2>2. local[u].p # p
    BY <1>11, <2>1
  <2> QED
    BY <1>2, <2>1, <2>2
<1>12. ASSUME NEW u \in Task \ {t} PROVE LessToWaitFor(u)
  <2>1. SUFFICES ASSUME task'[u].state = "INTERRUPTIBLE", NEW q \in Members(task),
                        task'[q].state = "ZOMBIE", task'[q].p_pptr \in Watched(u)
                 PROVE  /\ task[q].state = "ZOMBIE" /\ task'[q].p_pptr = task[q].p_pptr
                        /\ task'[q].sigchld = task[q].sigchld
    BY DEF LessToWaitFor
  <2>2. q \in Task
    BY DEF Members
  <2>3. task[q].state = "ZOMBIE"
    BY <1>1, <1>2, <2>1, <2>2
  <2>4. ASSUME q = p PROVE FALSE
    <3>1. PICK par : par = task'[p].p_pptr
      OBVIOUS
    <3>2. par \in Group(task, u)
      <4>1. u \in Group(task, u)
        BY <1>3, GroupIsLeast
      <4> QED
        BY <2>1, <2>4, <3>1, <4>1 DEF Watched
    <3>3. par \in Task
      BY <1>1, <3>1
    <3>4. u \in Group(task, par)
      BY <1>3, <3>2, <3>3, GroupIsSymmetric DEF IInv, GroupsOK
    <3> QED
      BY <2>1, <2>3, <2>4, <3>1, <3>4
  <2> QED
    BY <1>2, <2>2, <2>3, <2>4
<1>13. /\ task'[child_reaper].p_pptr = NULL /\ task'[child_reaper].p_opptr = NULL
       /\ task'[child_reaper].p_osptr = NULL
  BY <1>2, <1>3, TaskAssumption DEF IInv, Kin
<1>14. SignalsOK'
  <2>1. ASSUME ~build.ptrace, NEW q \in Members(task)
        PROVE  \/ task'[q].p_pptr = task'[q].p_opptr
               \/ pc'[task'[q].p_pptr] \in {"notify", "loop", "relock"}
    <3>1. q \in Task /\ task[q].p_pptr \in Task
      BY DEF Members, IInv, Kin, KinAt
    <3>2. \/ task[q].p_pptr = task[q].p_opptr
          \/ pc[task[q].p_pptr] \in {"notify", "loop", "relock"}
      BY <2>1 DEF IInv, SignalsOK
    <3> QED
      BY <1>1, <1>2, <1>4, <2>1, <3>1, <3>2
  <2>2. ASSUME "CSIGNAL" \notin build.clone, NEW q \in Task PROVE task'[q].sigchld
    <3>1. task[q].sigchld /\ task[p].sigchld
      BY <1>3, <2>2 DEF IInv, SignalsOK
    <3>2. CASE q = p
      BY <1>1, <3>1, <3>2
    <3>3. CASE q # p
      BY <1>2, <3>1, <3>3
    <3> QED
      BY <3>2, <3>3
  <2> QED
    BY <1>1, <1>8, <2>1, <2>2 DEF SignalsOK
<1>15. Shift(t)
  <2>1. task[t].state \notin {"FREE", "ZOMBIE"}
    BY <1>1, <1>7 DEF StateAt, InWait
  <2>2. pc[t] \notin InExit
    BY <1>1 DEF InExit
  <2> QED
    BY <1>1, <1>2, <1>4, <2>1, <2>2 DEF Shift
<1>16. Lists(task', Members(task), Stale')
  BY <1>10
<1> QED
  BY <1>5, <1>6, <1>7, <1>9, <1>11, <1>12, <1>13, <1>14, <1>15, <1>16, ShiftKeeps

\* U is R with r for p, linked to the same siblings and children.
Replaced(U, R, p, r) ==
  /\ U = [R EXCEPT ![p] = r]
  /\ r.p_cptr = R[p].p_cptr /\ r.p_osptr = R[p].p_osptr /\ r.p_ysptr = R[p].p_ysptr

\* What a change of p between REMOVE_LINKS and SET_LINKS comes to.
LEMMA RelinkIs ==
  ASSUME NEW T \in Structs, NEW S \in SUBSET Task, NEW p \in S, Lists(T, S, {}),
         NEW R, R = REMOVE_LINKS(T, p), NEW r \in TaskStructs, r.p_pptr \in Task,
         NEW U, Replaced(U, R, p, r), NEW L, L = SET_LINKS(U, p)
  PROVE  /\ L \in Structs /\ Lists(L, S, {}) /\ Agree(L[p], r)
         /\ \A u \in Task : u # p => Agree(L[u], T[u])
         /\ \A u \in Task \ S : L[u].p_osptr = T[u].p_osptr
<1>1. p \in Task /\ T[p].p_osptr # p
  BY ListsAreStrict
<1>2. R \in Structs /\ Unlinked(T, R, p)
  BY <1>1, RemoveLinksIs
<1>3. /\ U \in Structs /\ U[p] = r
      /\ \A u \in Task : u # p => U[u] = R[u]
  BY <1>1, <1>2 DEF Structs, Replaced
<1>4. \A u \in Task : /\ U[u].p_cptr = R[u].p_cptr /\ U[u].p_osptr = R[u].p_osptr
                      /\ U[u].p_ysptr = R[u].p_ysptr /\ (u # p => U[u].p_pptr = R[u].p_pptr)
  BY <1>3 DEF Replaced
<1>5. \A u \in Task : u # p => Agree(U[u], T[u])
  BY <1>2, <1>3 DEF Unlinked
<1>6. Lists(R, S \ {p}, {})
  BY <1>2, UnlinkKeepsLists
<1>7. PICK Q : Q = S \ {p}
  OBVIOUS
<1>8. Lists(U, Q, {})
  <2>1. Q \in SUBSET Task /\ Lists(R, Q, {})
    BY <1>6, <1>7
  <2>2. /\ \A u \in Task : U[u].p_cptr = R[u].p_cptr
        /\ \A u \in Q : /\ U[u].p_pptr = R[u].p_pptr /\ U[u].p_osptr = R[u].p_osptr
                        /\ U[u].p_ysptr = R[u].p_ysptr
    BY <1>4, <1>7, <2>1
  <2> QED
    BY <1>2, <1>3, <2>1, <2>2, ListsFrame
<1>9. L \in Structs /\ Linked(U, L, p)
  BY <1>1, <1>3, SetLinksIs
<1>10. Lists(L, Q \cup {p}, {})
  BY <1>1, <1>3, <1>7, <1>8, <1>9, LinkKeepsLists
<1>11. Q \cup {p} = S
  BY <1>7
<1>12. ASSUME NEW u \in Task, u \notin S PROVE L[u].p_osptr = T[u].p_osptr
  <2>1. u # p /\ L[u].p_osptr = U[u].p_osptr
    BY <1>9, <1>12 DEF Linked
  <2>2. T[p].p_ysptr # u
    <3>1. \/ T[p].p_ysptr \in S
          \/ T[T[p].p_pptr].p_cptr = p /\ T[p].p_ysptr = NULL
      <4>1. OnList(T, S, {})
        BY DEF Lists
      <4>2. PICK par : par = T[p].p_pptr
        OBVIOUS
      <4>3. par \in Task /\ (T[par].p_cptr # p => T[p].p_ysptr \in S)
        BY <4>1, <4>2 DEF OnList
      <4>4. p # NULL
        BY <1>1, TaskAssumption
      <4>5. T[par].p_cptr = p => T[p].p_ysptr = NULL
        BY <4>1, <4>3, <4>4 DEF OnList
      <4> QED
        BY <4>2, <4>3, <4>5
    <3> QED
      BY <1>12, <3>1, TaskAssumption
  <2> QED
    BY <1>2, <1>4, <2>1, <2>2 DEF Unlinked
<1>13. ASSUME NEW u \in Task, u # p PROVE Agree(L[u], T[u])
  <2>1. Agree(U[u], T[u]) /\ Agree(L[u], U[u])
    BY <1>5, <1>9, <1>13 DEF Linked
  <2> QED
    BY <2>1 DEF Agree
<1>14. Agree(L[p], r)
  BY <1>1, <1>3, <1>9 DEF Linked
<1> QED
  BY <1>9, <1>10, <1>11, <1>12, <1>13, <1>14

\* REMOVE_LINKS changes links to children and siblings only.
LEMMA RemovedAgree ==
  ASSUME NEW T \in Structs, NEW S \in SUBSET Task, NEW p \in S, Lists(T, S, {})
  PROVE  REMOVE_LINKS(T, p) \in Structs /\ \A u \in Task : Agree(REMOVE_LINKS(T, p)[u], T[u])
<1>1. p \in Task /\ T[p].p_osptr # p
  BY ListsAreStrict
<1> QED
  BY <1>1, RemoveLinksIs DEF Unlinked

\* Under the lock, and out of exit_notify, the tree is in order.
LEMMA TreeIs ==
  ASSUME IInv, NEW t \in Task, Turn(t), CanWrite, pc[t] \notin {"loop", "relock"}
  PROVE  /\ task \in Structs /\ Members(task) \in SUBSET Task
         /\ Lists(task, Members(task), {}) /\ task[child_reaper].p_osptr = NULL
         /\ child_reaper \in Task \ Members(task)
<1>1. Stale = {}
  BY NobodyRelinks
<1> QED
  BY <1>1, TaskAssumption DEF IInv, TreeOK, TypeOK, Structs, Members, Kin

\* A tracer hands the zombie back.
LEMMA HandBackKeeps ==
  ASSUME IInv, NEW t \in Task, HandBack(t)
  PROVE  IInv'
<1>1. PICK p, opp : p = local[t].p /\ opp = task[p].p_opptr
  OBVIOUS
<1>2. PICK R, U, L, N : /\ R = REMOVE_LINKS(task, p)
                        /\ U = Store(R, p, "p_pptr", opp)
                        /\ L = SET_LINKS(U, p) /\ N = do_notify_parent(L, p)
  OBVIOUS
<1>3. /\ pc[t] = "handback" /\ Turn(t) /\ CanWrite
      /\ task' = [N EXCEPT ![t].state = "RUNNING", ![t].sigpending = FALSE]
      /\ local' = [local EXCEPT ![t] = NoLocal]
      /\ pc' = [pc EXCEPT ![t] = "user"]
      /\ UNCHANGED << tasklist_lock, forks, build >>
  BY <1>1, <1>2 DEF HandBack, At, Goto, EndWait4, Relink
<1>4. p \in Members(task) /\ task[p].state = "ZOMBIE" /\ p \in Task
  BY <1>1, <1>3 DEF IInv, LocalOK, LocalAt, Members
<1>5. KinAt(p) /\ StateAt(t)
  BY <1>4 DEF IInv, Kin, StateOK
<1>6. t # p /\ task[t].state \in {"RUNNING", "INTERRUPTIBLE"}
  BY <1>3, <1>4, <1>5 DEF StateAt, InWait
<1>7. opp \in Task /\ pc[opp] \notin Orphaned
  BY <1>1, <1>5 DEF KinAt
<1>8. /\ task \in Structs /\ Members(task) \in SUBSET Task
      /\ Lists(task, Members(task), {}) /\ task[child_reaper].p_osptr = NULL
      /\ child_reaper \in Task \ Members(task)
  BY <1>3, TreeIs
<1>9. R \in Structs /\ \A u \in Task : Agree(R[u], task[u])
  BY <1>2, <1>4, <1>8, RemovedAgree
<1>10. PICK r : r = [R[p] EXCEPT !.p_pptr = opp]
  OBVIOUS
<1>11. /\ r \in TaskStructs /\ r.p_pptr = opp /\ r.p_opptr = opp
       /\ r.p_cptr = R[p].p_cptr /\ r.p_osptr = R[p].p_osptr /\ r.p_ysptr = R[p].p_ysptr
       /\ r.state = task[p].state /\ r.next_thread = task[p].next_thread
       /\ r.exiting = task[p].exiting /\ r.sigchld = task[p].sigchld
  <2>1. R[p] \in TaskStructs /\ opp \in Pointer
    BY <1>4, <1>7, <1>9 DEF Structs, Pointer
  <2>2. Agree(R[p], task[p])
    BY <1>4, <1>9
  <2> QED
    BY <1>1, <1>10, <2>1, <2>2 DEF TaskStructs, Agree
<1>12. Replaced(U, R, p, r)
  BY <1>2, <1>4, <1>9, <1>10, <1>11 DEF Store, Structs, Replaced
<1>13. /\ L \in Structs /\ Lists(L, Members(task), {}) /\ Agree(L[p], r)
       /\ \A u \in Task : u # p => Agree(L[u], task[u])
       /\ \A u \in Task \ Members(task) : L[u].p_osptr = task[u].p_osptr
  BY <1>2, <1>4, <1>7, <1>8, <1>11, <1>12, RelinkIs
<1>14. ASSUME NEW u \in Task
       PROVE  /\ L[u].next_thread = task[u].next_thread
              /\ L[u].exiting = task[u].exiting /\ L[u].sigchld = task[u].sigchld
              /\ L[u].state = task[u].state /\ L[u].p_opptr = task[u].p_opptr
              /\ L[u].p_pptr = IF u = p THEN opp ELSE task[u].p_pptr
  BY <1>1, <1>11, <1>13 DEF Agree
<1>15. N \in Structs /\ Notified(L, N, p)
  BY <1>2, <1>4, <1>13, NotifyIs
<1>16. Group(L, L[p].p_pptr) = Group(task, opp)
  BY <1>4, <1>7, <1>8, <1>13, <1>14, GroupFrame
<1>17. ASSUME NEW u \in Task
       PROVE  /\ N[u].next_thread = task[u].next_thread
              /\ N[u].exiting = task[u].exiting /\ N[u].sigchld = task[u].sigchld
              /\ N[u].state = IF u \in Group(task, opp) /\ task[u].state = "INTERRUPTIBLE"
                              THEN "RUNNING" ELSE task[u].state
              /\ N[u].p_opptr = task[u].p_opptr
              /\ N[u].p_pptr = IF u = p THEN opp ELSE task[u].p_pptr
              /\ N[u].p_cptr = L[u].p_cptr /\ N[u].p_osptr = L[u].p_osptr
              /\ N[u].p_ysptr = L[u].p_ysptr
  BY <1>14, <1>15, <1>16 DEF Notified
<1>18. PICK n : n = [N[t] EXCEPT !.state = "RUNNING", !.sigpending = FALSE]
  OBVIOUS
<1>19. /\ task' = [u \in Task |-> IF u = t THEN n ELSE N[u]]
       /\ task' \in Structs
  <2>1. n \in TaskStructs
    <3>1. N[t] \in TaskStructs
      BY <1>15 DEF Structs
    <3> QED
      BY <1>18, <3>1 DEF TaskStructs, States
  <2>2. task' = [u \in Task |-> IF u = t THEN n ELSE N[u]]
    BY <1>3, <1>15, <1>18 DEF Structs
  <2> QED
    BY <1>15, <2>1, <2>2 DEF Structs
<1>20. ASSUME NEW u \in Task
       PROVE  /\ task'[u].next_thread = N[u].next_thread
              /\ task'[u].exiting = N[u].exiting /\ task'[u].sigchld = N[u].sigchld
              /\ task'[u].state = IF u = t THEN "RUNNING" ELSE N[u].state
              /\ task'[u].p_opptr = N[u].p_opptr /\ task'[u].p_pptr = N[u].p_pptr
              /\ task'[u].p_cptr = N[u].p_cptr /\ task'[u].p_osptr = N[u].p_osptr
              /\ task'[u].p_ysptr = N[u].p_ysptr
  BY <1>15, <1>18, <1>19 DEF Structs, TaskStructs
<1>21. ASSUME NEW u \in Task
       PROVE  /\ task'[u].next_thread = task[u].next_thread
              /\ task'[u].exiting = task[u].exiting /\ task'[u].sigchld = task[u].sigchld
              /\ task'[u].state = IF u = t THEN "RUNNING"
                                  ELSE IF u \in Group(task, opp) /\ task[u].state = "INTERRUPTIBLE"
                                       THEN "RUNNING" ELSE task[u].state
              /\ task'[u].p_opptr = task[u].p_opptr
              /\ task'[u].p_pptr = IF u = p THEN opp ELSE task[u].p_pptr
              /\ task'[u].p_cptr = L[u].p_cptr /\ task'[u].p_osptr = L[u].p_osptr
              /\ task'[u].p_ysptr = L[u].p_ysptr
  BY <1>17, <1>20
<1>22. Lists(task', Members(task), {})
  <2>1. PICK Q, S : Q = task' /\ S = Members(task)
    OBVIOUS
  <2>2. Q \in Structs /\ S \in SUBSET Task /\ Lists(L, S, {})
    BY <1>8, <1>13, <1>19, <2>1
  <2>3. /\ \A u \in Task : Q[u].p_cptr = L[u].p_cptr
        /\ \A u \in S : /\ Q[u].p_pptr = L[u].p_pptr /\ Q[u].p_osptr = L[u].p_osptr
                        /\ Q[u].p_ysptr = L[u].p_ysptr
    BY <1>14, <1>21, <2>1, <2>2
  <2>4. Lists(Q, S, {})
    BY <1>13, <2>2, <2>3, ListsFrame
  <2> QED
    BY <2>1, <2>4
<1>23. task'[child_reaper].p_osptr = NULL
  BY <1>8, <1>13, <1>21
<1>24. ASSUME NEW u \in Task \ {t}, pc[u] \in {"found", "release", "handback"}
       PROVE  local[u].p # p
  <2>1. task[local[u].p].p_pptr = u /\ Group(task, t) = {t}
    BY <1>3, <1>24, FoundOnce
  <2>2. task[p].p_pptr \in Group(task, t)
    BY <1>1, <1>3 DEF IInv, LocalOK, LocalAt
  <2> QED
    BY <2>1, <2>2
<1>25. \A u \in Group(task, opp) : task'[u].state # "INTERRUPTIBLE"
  <2>1. Group(task, opp) \subseteq Task
    BY <1>7, <1>8, GroupIsLeast
  <2> QED
    BY <1>21, <2>1
<1>26. local' \in [Task -> Locals] /\ \A u \in Task : u # t => local'[u] = local[u]
  BY <1>3, <1>7 DEF IInv, TypeOK, Locals, NoLocal, Pointer
<1>27. /\ task'[p].p_pptr = opp /\ task'[p].p_opptr = opp
       /\ task'[p].sigchld = task[p].sigchld
  BY <1>1, <1>4, <1>21
<1>28. Moves(t, p)
  <2>1. pc[opp] \notin Gone
    BY <1>7 DEF Gone, Orphaned
  <2>2. \A u \in Task :
       /\ task'[u].next_thread = task[u].next_thread
       /\ task'[u].exiting = task[u].exiting
       /\ task[u].state \in {"FREE", "ZOMBIE"} => task'[u].state = task[u].state
       /\ u # t => /\ local'[u] = local[u]
                   /\ \/ task'[u].state = task[u].state
                      \/ task[u].state = "INTERRUPTIBLE" /\ task'[u].state = "RUNNING"
       /\ u # p => /\ task'[u].p_pptr = task[u].p_pptr /\ task'[u].p_opptr = task[u].p_opptr
                   /\ task'[u].sigchld = task[u].sigchld
    BY <1>6, <1>21, <1>26
  <2>3. task'[t].state = "RUNNING"
    BY <1>21
  <2> QED
    BY <1>3, <1>7, <1>19, <1>26, <1>27, <2>1, <2>2, <2>3 DEF Moves
<1> QED
  BY <1>4, <1>22, <1>23, <1>24, <1>25, <1>27, <1>28, MovesKeeps

\* t traces q.
LEMMA PtraceAttachKeeps ==
  ASSUME IInv, NEW t \in Task, NEW q \in Task, PtraceAttach(t, q)
  PROVE  IInv'
<1>1. PICK T, R, U, L : /\ T = Store(task, q, "ptrace", TRUE)
                        /\ R = REMOVE_LINKS(T, q) /\ U = Store(R, q, "p_pptr", t)
                        /\ L = SET_LINKS(U, q)
  OBVIOUS
<1>2. /\ build.ptrace /\ pc[t] = "user" /\ Turn(t) /\ CanWrite
      /\ q # t /\ q # child_reaper
      /\ task[q].state # "FREE" /\ task[q].state # "ZOMBIE"
      /\ task' = IF T[q].p_pptr = t THEN T ELSE L
      /\ UNCHANGED << pc, local, tasklist_lock, forks, build >>
  BY <1>1 DEF PtraceAttach, At
<1>3. /\ task \in Structs /\ Members(task) \in SUBSET Task
      /\ Lists(task, Members(task), {}) /\ task[child_reaper].p_osptr = NULL
      /\ child_reaper \in Task \ Members(task)
  BY <1>2, TreeIs
<1>4. q \in Members(task)
  BY <1>2 DEF Members
<1>5. KinAt(q) /\ StateAt(t)
  BY <1>4 DEF IInv, Kin, StateOK
<1>6. task[t].state = "RUNNING" /\ t \in Pointer
  BY <1>2, <1>5 DEF StateAt, Pointer
<1>7. /\ T \in Structs
      /\ \A u \in Task :
           /\ T[u].state = task[u].state /\ T[u].p_opptr = task[u].p_opptr
           /\ T[u].p_pptr = task[u].p_pptr /\ T[u].next_thread = task[u].next_thread
           /\ T[u].sigchld = task[u].sigchld /\ T[u].exiting = task[u].exiting
           /\ T[u].p_cptr = task[u].p_cptr /\ T[u].p_osptr = task[u].p_osptr
           /\ T[u].p_ysptr = task[u].p_ysptr
  <2>1. PICK r : r = [task[q] EXCEPT !.ptrace = TRUE]
    OBVIOUS
  <2>2. /\ r \in TaskStructs
        /\ r.state = task[q].state /\ r.p_opptr = task[q].p_opptr
        /\ r.p_pptr = task[q].p_pptr /\ r.next_thread = task[q].next_thread
        /\ r.sigchld = task[q].sigchld /\ r.exiting = task[q].exiting
        /\ r.p_cptr = task[q].p_cptr /\ r.p_osptr = task[q].p_osptr
        /\ r.p_ysptr = task[q].p_ysptr
    <3>1. task[q] \in TaskStructs
      BY <1>3 DEF Structs
    <3> QED
      BY <2>1, <3>1 DEF TaskStructs
  <2>3. T = [u \in Task |-> IF u = q THEN r ELSE task[u]]
    BY <1>1, <1>3, <2>1 DEF Store, Structs
  <2> QED
    BY <1>3, <2>2, <2>3 DEF Structs
<1>8. PICK S : S = Members(task)
  OBVIOUS
<1>9. S \in SUBSET Task /\ q \in S /\ Lists(T, S, {})
  <2>1. S \in SUBSET Task /\ q \in S /\ Lists(task, S, {})
    BY <1>3, <1>4, <1>8
  <2>2. /\ \A u \in Task : T[u].p_cptr = task[u].p_cptr
        /\ \A u \in S : /\ T[u].p_pptr = task[u].p_pptr /\ T[u].p_osptr = task[u].p_osptr
                        /\ T[u].p_ysptr = task[u].p_ysptr
    BY <1>7, <2>1
  <2> QED
    BY <1>3, <1>7, <2>1, <2>2, ListsFrame
<1>10. /\ task' \in Structs /\ Lists(task', S, {})
       /\ task'[child_reaper].p_osptr = NULL
       /\ task'[q].p_pptr = t /\ task'[q].p_opptr = task[q].p_opptr
       /\ \A u \in Task :
            /\ task'[u].state = task[u].state /\ task'[u].next_thread = task[u].next_thread
            /\ task'[u].sigchld = task[u].sigchld /\ task'[u].exiting = task[u].exiting
            /\ task'[u].p_opptr = task[u].p_opptr
            /\ u # q => task'[u].p_pptr = task[u].p_pptr
  <2>1. CASE T[q].p_pptr = t
    BY <1>2, <1>3, <1>7, <1>9, <2>1
  <2>2. CASE T[q].p_pptr # t
    <3>1. R \in Structs /\ \A u \in Task : Agree(R[u], T[u])
      BY <1>1, <1>7, <1>9, RemovedAgree
    <3>2. PICK r : r = [R[q] EXCEPT !.p_pptr = t]
      OBVIOUS
    <3>3. /\ r \in TaskStructs /\ r.p_pptr = t /\ r.p_opptr = T[q].p_opptr
          /\ r.p_cptr = R[q].p_cptr /\ r.p_osptr = R[q].p_osptr /\ r.p_ysptr = R[q].p_ysptr
          /\ r.state = T[q].state /\ r.next_thread = T[q].next_thread
          /\ r.exiting = T[q].exiting /\ r.sigchld = T[q].sigchld
      <4>1. R[q] \in TaskStructs /\ Agree(R[q], T[q])
        BY <3>1 DEF Structs
      <4> QED
        BY <1>6, <3>2, <4>1 DEF TaskStructs, Agree
    <3>4. Replaced(U, R, q, r)
      BY <1>1, <3>1, <3>2, <3>3 DEF Store, Structs, Replaced
    <3>5. /\ L \in Structs /\ Lists(L, S, {}) /\ Agree(L[q], r)
          /\ \A u \in Task : u # q => Agree(L[u], T[u])
          /\ \A u \in Task \ S : L[u].p_osptr = T[u].p_osptr
      <4>1. /\ T \in Structs /\ S \in SUBSET Task /\ q \in S /\ Lists(T, S, {})
            /\ R = REMOVE_LINKS(T, q) /\ L = SET_LINKS(U, q)
        BY <1>1, <1>7, <1>9
      <4>2. r \in TaskStructs /\ r.p_pptr \in Task
        BY <3>3
      <4> QED
        BY <3>4, <4>1, <4>2, RelinkIs
    <3>6. ASSUME NEW u \in Task
          PROVE  /\ L[u].state = T[u].state /\ L[u].next_thread = T[u].next_thread
                 /\ L[u].sigchld = T[u].sigchld /\ L[u].exiting = T[u].exiting
                 /\ L[u].p_opptr = T[u].p_opptr
                 /\ u # q => L[u].p_pptr = T[u].p_pptr
                 /\ u = q => L[u].p_pptr = t
      BY <3>3, <3>5 DEF Agree
    <3>7. L[child_reaper].p_osptr = NULL
      BY <1>3, <1>7, <1>8, <3>5
    <3> QED
      BY <1>2, <1>7, <2>2, <3>5, <3>6, <3>7
  <2> QED
    BY <2>1, <2>2
<1>11. Moves(t, q)
  <2>1. pc' = [pc EXCEPT ![t] = "user"] /\ local' \in [Task -> Locals]
    BY <1>2 DEF IInv, TypeOK, Locals
  <2>2. pc[t] \notin Gone
    BY <1>2 DEF Gone
  <2>3. task[q].p_opptr \in Task /\ pc[task[q].p_opptr] \notin Orphaned
    BY <1>5 DEF KinAt
  <2> QED
    BY <1>2, <1>6, <1>10, <2>1, <2>2, <2>3 DEF Moves
<1> QED
  BY <1>2, <1>4, <1>8, <1>10, <1>11, MovesKeeps

\* A kernel thread becomes a child of init.
LEMMA ReparentToInitKeeps ==
  ASSUME IInv, NEW t \in Task, reparent_to_init(t)
  PROVE  IInv'
<1>1. PICK R, V, U, L, M, N :
        /\ R = REMOVE_LINKS(task, t)
        /\ V = Store(R, t, "p_pptr", child_reaper)
        /\ U = Store(V, t, "p_opptr", child_reaper)
        /\ L = SET_LINKS(U, t)
        /\ M = Store(L, t, "sigchld", TRUE)
        /\ N = Store(M, t, "ptrace", FALSE)
  OBVIOUS
<1>2. /\ pc[t] = "user" /\ Turn(t) /\ CanWrite /\ t # child_reaper
      /\ task' = N
      /\ UNCHANGED << pc, local, tasklist_lock, forks, build >>
  BY <1>1 DEF reparent_to_init, At
<1>3. /\ task \in Structs /\ Members(task) \in SUBSET Task
      /\ Lists(task, Members(task), {}) /\ task[child_reaper].p_osptr = NULL
      /\ child_reaper \in Task \ Members(task)
  BY <1>2, TreeIs
<1>4. StateAt(t)
  BY DEF IInv, StateOK
<1>5. task[t].state = "RUNNING" /\ t \in Members(task) /\ child_reaper \in Pointer
  BY <1>2, <1>3, <1>4 DEF StateAt, Pointer, Members
<1>6. PICK S : S = Members(task)
  OBVIOUS
<1>7. S \in SUBSET Task /\ t \in S /\ Lists(task, S, {})
  BY <1>3, <1>5, <1>6
<1>8. R \in Structs /\ \A u \in Task : Agree(R[u], task[u])
  BY <1>1, <1>3, <1>7, RemovedAgree
<1>9. PICK r : r = [R[t] EXCEPT !.p_pptr = child_reaper, !.p_opptr = child_reaper]
  OBVIOUS
<1>10. /\ r \in TaskStructs /\ r.p_pptr = child_reaper /\ r.p_opptr = child_reaper
       /\ r.p_cptr = R[t].p_cptr /\ r.p_osptr = R[t].p_osptr /\ r.p_ysptr = R[t].p_ysptr
       /\ r.state = task[t].state /\ r.next_thread = task[t].next_thread
       /\ r.exiting = task[t].exiting
  <2>1. R[t] \in TaskStructs /\ Agree(R[t], task[t])
    BY <1>8 DEF Structs
  <2> QED
    BY <1>5, <1>9, <2>1 DEF TaskStructs, Agree
<1>11. Replaced(U, R, t, r)
  <2>1. R = [u \in Task |-> R[u]] /\ R[t] \in TaskStructs
    BY <1>8 DEF Structs
  <2>2. U = [R EXCEPT ![t] = r]
    BY <1>1, <1>9, <2>1 DEF Store, TaskStructs
  <2> QED
    BY <1>10, <2>2 DEF Replaced
<1>12. /\ L \in Structs /\ Lists(L, S, {}) /\ Agree(L[t], r)
       /\ \A u \in Task : u # t => Agree(L[u], task[u])
       /\ \A u \in Task \ S : L[u].p_osptr = task[u].p_osptr
  BY <1>1, <1>3, <1>7, <1>10, <1>11, RelinkIs, TaskAssumption
<1>13. PICK m, n : m = [L[t] EXCEPT !.sigchld = TRUE] /\ n = [m EXCEPT !.ptrace = FALSE]
  OBVIOUS
<1>14. /\ n \in TaskStructs /\ n.sigchld
       /\ n.p_pptr = L[t].p_pptr /\ n.p_opptr = L[t].p_opptr /\ n.p_cptr = L[t].p_cptr
       /\ n.p_osptr = L[t].p_osptr /\ n.p_ysptr = L[t].p_ysptr
       /\ n.state = L[t].state /\ n.next_thread = L[t].next_thread /\ n.exiting = L[t].exiting
  <2>1. L[t] \in TaskStructs
    BY <1>12 DEF Structs
  <2>2. /\ m \in TaskStructs /\ m.sigchld
        /\ m.p_pptr = L[t].p_pptr /\ m.p_opptr = L[t].p_opptr /\ m.p_cptr = L[t].p_cptr
        /\ m.p_osptr = L[t].p_osptr /\ m.p_ysptr = L[t].p_ysptr
        /\ m.state = L[t].state /\ m.next_thread = L[t].next_thread
        /\ m.exiting = L[t].exiting
    BY <1>13, <2>1 DEF TaskStructs
  <2> QED
    BY <1>13, <2>2 DEF TaskStructs
<1>15. task' = [u \in Task |-> IF u = t THEN n ELSE L[u]]
  <2>1. L = [u \in Task |-> L[u]] /\ L[t] \in TaskStructs
    BY <1>12 DEF Structs
  <2>2. M = [u \in Task |-> IF u = t THEN m ELSE L[u]]
    <3>1. m = [L[t] EXCEPT !.sigchld = TRUE] /\ M = Store(L, t, "sigchld", TRUE)
      BY <1>1, <1>13
    <3> QED
      BY <2>1, <3>1 DEF Store
  <2>3. N = [u \in Task |-> IF u = t THEN n ELSE M[u]]
    BY <1>1, <1>13, <2>2 DEF Store
  <2> QED
    BY <1>2, <2>2, <2>3
<1>16. /\ task' \in Structs /\ task'[t] = n
       /\ \A u \in Task : u # t => task'[u] = L[u]
  BY <1>12, <1>14, <1>15 DEF Structs
<1>17. PICK Q : Q = task'
  OBVIOUS
<1>18. Lists(Q, S, {})
  <2>1. Q \in Structs
    BY <1>16, <1>17
  <2>2. /\ \A u \in Task : Q[u].p_cptr = L[u].p_cptr
        /\ \A u \in S : /\ Q[u].p_pptr = L[u].p_pptr /\ Q[u].p_osptr = L[u].p_osptr
                        /\ Q[u].p_ysptr = L[u].p_ysptr
    BY <1>7, <1>14, <1>16, <1>17
  <2> QED
    BY <1>7, <1>12, <2>1, <2>2, ListsFrame
<1>19. ASSUME NEW u \in Task
       PROVE  /\ task'[u].state = task[u].state /\ task'[u].next_thread = task[u].next_thread
              /\ task'[u].exiting = task[u].exiting
              /\ u # t => /\ task'[u].sigchld = task[u].sigchld
                          /\ task'[u].p_opptr = task[u].p_opptr
                          /\ task'[u].p_pptr = task[u].p_pptr
  <2>1. CASE u = t
    BY <1>10, <1>12, <1>14, <1>16, <2>1 DEF Agree
  <2>2. CASE u # t
    BY <1>12, <1>16, <2>2 DEF Agree
  <2> QED
    BY <2>1, <2>2
<1>20. /\ task'[t].p_pptr = child_reaper /\ task'[t].p_opptr = child_reaper
       /\ task'[t].sigchld
  BY <1>10, <1>12, <1>14, <1>16 DEF Agree
<1>21. task'[child_reaper].p_osptr = NULL
  BY <1>2, <1>3, <1>6, <1>12, <1>16
<1>22. Moves(t, t)
  <2>1. pc' = [pc EXCEPT ![t] = "user"] /\ local' \in [Task -> Locals]
    BY <1>2 DEF IInv, TypeOK, Locals
  <2>2. pc[child_reaper] \notin Gone /\ pc[child_reaper] \notin Orphaned
    BY DEF IInv, StateOK, InExit, Gone, Orphaned
  <2> QED
    BY <1>2, <1>5, <1>16, <1>19, <1>20, <2>1, <2>2, TaskAssumption DEF Moves
<1> QED
  BY <1>5, <1>6, <1>17, <1>18, <1>21, <1>22, MovesKeeps

\* What a round of exit_notify comes to: p is with its original parent, and nobody who
\* waits for it sleeps.
GivenAway(t, p) ==
  LET opp == task[p].p_opptr
  IN  /\ task' \in Structs
      /\ Lists(task', Members(task), {task[p].p_osptr})
      /\ task'[t].p_cptr = task[p].p_osptr
      /\ task'[child_reaper].p_osptr = NULL
      /\ \A u \in Task :
           /\ task'[u].p_opptr = task[u].p_opptr /\ task'[u].next_thread = task[u].next_thread
           /\ task'[u].sigchld = task[u].sigchld /\ task'[u].exiting = task[u].exiting
           /\ task'[u].p_pptr = IF u = p THEN opp ELSE task[u].p_pptr
           /\ \/ task'[u].state = task[u].state
              \/ task[u].state = "INTERRUPTIBLE" /\ task'[u].state = "RUNNING"
      /\ task[p].state = "ZOMBIE" =>
           \A u \in Group(task, opp) : task'[u].state # "INTERRUPTIBLE"

\* The round does that.
LEMMA MoveChildIs ==
  ASSUME IInv, NEW t \in Task, NEW p \in Members(task), task[t].p_cptr = p, pc[t] = "loop",
         Lists(task, Members(task), {p}), task' = MoveChild(task, t, p)
  PROVE  GivenAway(t, p)
<1>1. PICK o, opp : o = task[p].p_osptr /\ opp = task[p].p_opptr
  OBVIOUS
<1>2. PICK U, V : /\ U = Store(task, t, "p_cptr", o)
                  /\ V = [U EXCEPT ![p].ptrace = FALSE, ![p].p_pptr = U[p].p_opptr]
  OBVIOUS
<1>3. PICK L, N : L = SET_LINKS(V, p) /\ N = do_notify_parent(L, p)
  OBVIOUS
<1>4. task' = IF L[p].state = "ZOMBIE" THEN N ELSE L
  BY <1>1, <1>2, <1>3 DEF MoveChild
<1>5. /\ task \in Structs /\ Members(task) \in SUBSET Task /\ p \in Task /\ p # child_reaper
      /\ task[child_reaper].p_osptr = NULL
  BY DEF IInv, TypeOK, Structs, Members, Kin
<1>6. KinAt(p)
  BY DEF IInv, Kin
<1>7. opp \in Task /\ opp # t /\ opp \in Pointer /\ o \in Pointer
  BY <1>1, <1>5, <1>6 DEF KinAt, Orphaned, Pointer, Structs, TaskStructs
<1>8. CptrSet(U, task, t, o)
  BY <1>2, <1>5, <1>7, StoreIs DEF Pointer
<1>9. PICK r : r = [U[p] EXCEPT !.ptrace = FALSE, !.p_pptr = U[p].p_opptr]
  OBVIOUS
<1>10. /\ r \in TaskStructs /\ r.p_pptr = opp
       /\ r.p_opptr = U[p].p_opptr /\ r.p_cptr = U[p].p_cptr /\ r.p_osptr = U[p].p_osptr
       /\ r.p_ysptr = U[p].p_ysptr /\ r.state = U[p].state /\ r.next_thread = U[p].next_thread
       /\ r.exiting = U[p].exiting /\ r.sigchld = U[p].sigchld
  <2>1. U[p] \in TaskStructs /\ U[p].p_opptr = opp
    BY <1>1, <1>5, <1>8 DEF CptrSet, Agree, Structs
  <2> QED
    BY <1>7, <1>9, <2>1 DEF TaskStructs
<1>11. V = [u \in Task |-> IF u = p THEN r ELSE U[u]] /\ U \in Structs
  <2>1. U \in [Task -> TaskStructs]
    BY <1>8 DEF CptrSet, Structs
  <2> QED
    BY <1>2, <1>9, <2>1 DEF Structs
<1>12. /\ V \in Structs
       /\ \A u \in Task :
            /\ V[u].state = task[u].state /\ V[u].p_opptr = task[u].p_opptr
            /\ V[u].next_thread = task[u].next_thread
            /\ V[u].sigchld = task[u].sigchld /\ V[u].exiting = task[u].exiting
            /\ V[u].p_pptr = IF u = p THEN opp ELSE task[u].p_pptr
            /\ V[u].p_cptr = IF u = t THEN o ELSE task[u].p_cptr
            /\ V[u].p_osptr = task[u].p_osptr /\ V[u].p_ysptr = task[u].p_ysptr
  <2>1. V \in Structs
    BY <1>10, <1>11 DEF Structs
  <2>2. ASSUME NEW u \in Task
        PROVE  /\ V[u].state = U[u].state /\ V[u].p_opptr = U[u].p_opptr
               /\ V[u].next_thread = U[u].next_thread
               /\ V[u].sigchld = U[u].sigchld /\ V[u].exiting = U[u].exiting
               /\ V[u].p_pptr = IF u = p THEN opp ELSE U[u].p_pptr
               /\ V[u].p_cptr = U[u].p_cptr
               /\ V[u].p_osptr = U[u].p_osptr /\ V[u].p_ysptr = U[u].p_ysptr
    BY <1>10, <1>11
  <2> QED
    BY <1>8, <2>1, <2>2 DEF CptrSet, Agree
<1>13. PICK S, rest : S = Members(task) /\ rest = S \ {p}
  OBVIOUS
<1>14. S \in SUBSET Task /\ p \in S /\ rest \in SUBSET Task /\ rest \cup {p} = S /\ p \notin rest
  BY <1>5, <1>13
<1>15. Lists(V, rest, {o})
  <2>1. /\ \A u \in Task : /\ u # p => V[u].p_pptr = task[u].p_pptr
                           /\ V[u].p_cptr = IF u = t THEN task[p].p_osptr ELSE task[u].p_cptr
                           /\ V[u].p_osptr = task[u].p_osptr /\ V[u].p_ysptr = task[u].p_ysptr
    BY <1>1, <1>12
  <2>2. Lists(task, S, {p})
    BY <1>13
  <2>3. Lists(V, S \ {p}, {task[p].p_osptr})
    BY <1>5, <1>12, <1>14, <2>1, <2>2, DropKeepsLists
  <2> QED
    BY <1>1, <1>13, <2>3
<1>16. L \in Structs /\ Linked(V, L, p)
  BY <1>3, <1>5, <1>7, <1>12, SetLinksIs
<1>17. Lists(L, S, {o})
  <2>1. Lists(L, rest \cup {p}, {o})
    BY <1>5, <1>7, <1>12, <1>14, <1>15, <1>16, LinkKeepsLists
  <2> QED
    BY <1>14, <2>1
<1>18. ASSUME NEW u \in Task
       PROVE  /\ L[u].state = task[u].state /\ L[u].p_opptr = task[u].p_opptr
              /\ L[u].next_thread = task[u].next_thread
              /\ L[u].sigchld = task[u].sigchld /\ L[u].exiting = task[u].exiting
              /\ L[u].p_pptr = IF u = p THEN opp ELSE task[u].p_pptr
  BY <1>12, <1>16 DEF Linked, Agree
<1>19. L[t].p_cptr = o /\ L[child_reaper].p_osptr = NULL
  BY <1>5, <1>7, <1>12, <1>16, TaskAssumption DEF Linked
<1>20. N \in Structs /\ Notified(L, N, p)
  BY <1>3, <1>5, <1>16, NotifyIs
<1>21. Group(L, L[p].p_pptr) = Group(task, opp)
  BY <1>5, <1>7, <1>16, <1>18, GroupFrame
<1>22. ASSUME NEW u \in Task
       PROVE  /\ N[u].p_opptr = L[u].p_opptr /\ N[u].next_thread = L[u].next_thread
              /\ N[u].sigchld = L[u].sigchld /\ N[u].exiting = L[u].exiting
              /\ N[u].p_pptr = L[u].p_pptr /\ N[u].p_cptr = L[u].p_cptr
              /\ N[u].p_osptr = L[u].p_osptr /\ N[u].p_ysptr = L[u].p_ysptr
              /\ N[u].state = IF u \in Group(task, opp) /\ L[u].state = "INTERRUPTIBLE"
                              THEN "RUNNING" ELSE L[u].state
  BY <1>20, <1>21 DEF Notified
<1>23. Lists(N, S, {o})
  <2>1. /\ \A u \in Task : N[u].p_cptr = L[u].p_cptr
        /\ \A u \in S : /\ N[u].p_pptr = L[u].p_pptr /\ N[u].p_osptr = L[u].p_osptr
                        /\ N[u].p_ysptr = L[u].p_ysptr
    BY <1>14, <1>22
  <2> QED
    BY <1>14, <1>16, <1>17, <1>20, <2>1, ListsFrame
<1>24. CASE task[p].state = "ZOMBIE"
  <2>1. task' = N
    BY <1>4, <1>5, <1>18, <1>24
  <2>2. Group(task, opp) \subseteq Task
    BY <1>5, <1>7, GroupIsLeast
  <2>3. \A u \in Group(task, opp) : N[u].state # "INTERRUPTIBLE"
    BY <1>22, <2>2
  <2>4. N[t].p_cptr = o /\ N[child_reaper].p_osptr = NULL
    BY <1>19, <1>22, TaskAssumption
  <2>5. Lists(N, Members(task), {task[p].p_osptr})
    BY <1>1, <1>13, <1>23
  <2>6. \A u \in Task :
           /\ N[u].p_opptr = task[u].p_opptr /\ N[u].next_thread = task[u].next_thread
           /\ N[u].sigchld = task[u].sigchld /\ N[u].exiting = task[u].exiting
           /\ N[u].p_pptr = IF u = p THEN opp ELSE task[u].p_pptr
           /\ \/ N[u].state = task[u].state
              \/ task[u].state = "INTERRUPTIBLE" /\ N[u].state = "RUNNING"
    BY <1>18, <1>22
  <2> QED
    BY <1>1, <1>20, <2>1, <2>3, <2>4, <2>5, <2>6 DEF GivenAway
<1>25. CASE task[p].state # "ZOMBIE"
  <2>1. task' = L
    BY <1>4, <1>5, <1>18, <1>25
  <2>2. Lists(L, Members(task), {task[p].p_osptr})
    BY <1>1, <1>13, <1>17
  <2> QED
    BY <1>1, <1>16, <1>18, <1>19, <1>25, <2>1, <2>2 DEF GivenAway
<1> QED
  BY <1>24, <1>25

\* A child of a process that exits goes to its original parent.
LEMMA GiveAwayChildKeeps ==
  ASSUME IInv, NEW t \in Task, GiveAwayChild(t)
  PROVE  IInv'
<1>1. PICK p, o, opp : p = task[t].p_cptr /\ o = task[p].p_osptr /\ opp = task[p].p_opptr
  OBVIOUS
<1>2. /\ pc[t] = "loop" /\ Turn(t) /\ p # NULL
      /\ task' = MoveChild(task, t, p)
      /\ UNCHANGED << local, forks, build >>
  BY <1>1 DEF GiveAwayChild, At
<1>3. \/ UNCHANGED << pc, tasklist_lock >>
      \/ /\ build.pgrps
         /\ tasklist_lock' = [tasklist_lock EXCEPT !.writer = NULL]
         /\ pc' = [pc EXCEPT ![t] = "relock"]
  BY DEF GiveAwayChild, Goto
<1>4. /\ task \in Structs /\ pc \in [Task -> PCs] /\ Members(task) \in SUBSET Task
      /\ tasklist_lock \in [readers : SUBSET Task, writer : Pointer]
  BY DEF IInv, TypeOK, Structs, Members
<1>5. /\ tasklist_lock.writer = t /\ tasklist_lock.readers = {}
      /\ \A u \in Task : u # t => pc[u] # "loop"
      /\ \A u \in Task : pc[u] # "assign"
  <2>1. tasklist_lock.writer = t /\ t # NULL
    BY <1>2, TaskAssumption DEF IInv, LockOK
  <2> QED
    BY <2>1 DEF IInv, LockOK
<1>6. ASSUME NEW u \in Task, u # t PROVE pc[u] # "relock"
  <2>1. SUFFICES ASSUME pc[u] = "relock" PROVE FALSE
    OBVIOUS
  <2>2. ~build.smp
    BY <2>1 DEF IInv, StateOK, StateAt, Apart
  <2>3. pc[u] \in MayYield
    BY <1>2, <1>6, <2>2 DEF Turn
  <2> QED
    BY <2>1, <2>3 DEF MayYield
<1>7. Stale = {p}
  <2>1. {u \in Task : pc[u] \in {"loop", "relock"}} = {t}
    BY <1>2, <1>5, <1>6
  <2> QED
    BY <1>1, <2>1 DEF Stale
<1>8. p \in Members(task)
  <2>1. OnList(task, Members(task), {p})
    BY <1>7 DEF IInv, TreeOK, Lists
  <2> QED
    BY <1>1, <1>2, <2>1 DEF OnList
<1>9. GivenAway(t, p)
  BY <1>1, <1>2, <1>7, <1>8, MoveChildIs DEF IInv, TreeOK
<1>10. /\ task' \in Structs
       /\ Lists(task', Members(task), {o})
       /\ task'[t].p_cptr = o
       /\ task'[child_reaper].p_osptr = NULL
       /\ \A u \in Task :
            /\ task'[u].p_opptr = task[u].p_opptr /\ task'[u].next_thread = task[u].next_thread
            /\ task'[u].sigchld = task[u].sigchld /\ task'[u].exiting = task[u].exiting
            /\ task'[u].p_pptr = IF u = p THEN opp ELSE task[u].p_pptr
            /\ \/ task'[u].state = task[u].state
               \/ task[u].state = "INTERRUPTIBLE" /\ task'[u].state = "RUNNING"
       /\ task[p].state = "ZOMBIE" =>
            \A u \in Group(task, opp) : task'[u].state # "INTERRUPTIBLE"
  BY <1>1, <1>9 DEF GivenAway
<1>11. /\ p \in Task /\ p # child_reaper /\ KinAt(p) /\ task[p].p_pptr = t
       /\ opp \in Task /\ pc[opp] \notin Orphaned /\ opp # t
  <2>1. p \in Task /\ p # child_reaper /\ KinAt(p)
    BY <1>8 DEF Members, IInv, Kin
  <2>2. OnList(task, Members(task), {p})
    BY <1>7 DEF IInv, TreeOK, Lists
  <2> QED
    BY <1>1, <1>2, <2>1, <2>2 DEF OnList, KinAt, Orphaned
<1>12. StateAt(t) /\ pc[t] \in InExit /\ t # child_reaper
  BY <1>2, ExitFits DEF IInv, StateOK, InExit
<1>13. /\ pc'[t] \in {"loop", "relock"} /\ pc' \in [Task -> PCs]
       /\ pc'[t] = "relock" => build.pgrps
       /\ \A u \in Task : u # t => pc'[u] = pc[u]
       /\ tasklist_lock' \in [readers : SUBSET Task, writer : Pointer]
       /\ tasklist_lock'.readers = tasklist_lock.readers
       /\ tasklist_lock'.writer = IF pc'[t] = "loop" THEN t ELSE NULL
  <2>1. CASE UNCHANGED << pc, tasklist_lock >>
    BY <1>2, <1>4, <1>5, <2>1
  <2>2. CASE /\ build.pgrps
             /\ tasklist_lock' = [tasklist_lock EXCEPT !.writer = NULL]
             /\ pc' = [pc EXCEPT ![t] = "relock"]
    BY <1>4, <2>2 DEF PCs, Pointer
  <2> QED
    BY <1>3, <2>1, <2>2
<1>14. TypeOK'
  BY <1>2, <1>10, <1>13 DEF TypeOK, IInv, Structs
<1>15. LockOK'
  <2>1. NULL \notin Task
    BY TaskAssumption
  <2> QED
    BY <1>5, <1>13, <2>1 DEF LockOK
<1>16. StateAt(t)'
  <2>1. task[t].state = "ZOMBIE" /\ task[t].exiting
    BY <1>2, <1>12 DEF StateAt, Dying, InExit
  <2>2. task'[t].state = "ZOMBIE" /\ task'[t].exiting
    BY <1>10, <2>1
  <2> QED
    BY <1>2, <1>13, <2>2 DEF StateAt, InWait, Dying, InExit
<1>17. ASSUME NEW q \in Members(task) PROVE KinAt(q)'
  <2>1. KinAt(q) /\ q \in Task
    BY DEF IInv, Kin, Members
  <2>2. pc'[opp] \notin Gone /\ pc'[opp] \notin Orphaned
    BY <1>11, <1>13 DEF Gone, Orphaned
  <2>3. q # p => task'[q].p_pptr \in Task /\ pc'[task'[q].p_pptr] \notin Gone
    BY <1>10, <1>13, <2>1 DEF KinAt, Gone
  <2>4. task'[q].p_opptr \in Task /\ pc'[task'[q].p_opptr] \notin Orphaned
    BY <1>2, <1>10, <1>13, <2>1 DEF KinAt, Orphaned
  <2> QED
    BY <1>10, <1>11, <2>1, <2>2, <2>3, <2>4 DEF KinAt
<1>18. Stale' = {o}
  <2>1. {u \in Task : pc'[u] \in {"loop", "relock"}} = {t}
    BY <1>5, <1>6, <1>13
  <2> QED
    BY <1>10, <2>1 DEF Stale
<1>19. ASSUME NEW u \in Task \ {t}, pc[u] \in {"found", "release", "handback"}
       PROVE  task'[local[u].p].p_pptr \in Group(task, u)
  <2>1. /\ local[u].p \in Task /\ task[local[u].p].p_pptr = u
        /\ Group(task, u) = {u}
    BY <1>2, <1>19, FoundOnce
  <2>2. local[u].p # p
    BY <1>11, <2>1
  <2> QED
    BY <1>10, <2>1, <2>2
<1>20. ASSUME NEW u \in Task \ {t} PROVE LessToWaitFor(u)
  <2>1. SUFFICES ASSUME task'[u].state = "INTERRUPTIBLE", NEW q \in Members(task),
                        task'[q].state = "ZOMBIE", task'[q].p_pptr \in Watched(u)
                 PROVE  /\ task[q].state = "ZOMBIE" /\ task'[q].p_pptr = task[q].p_pptr
                        /\ task'[q].sigchld = task[q].sigchld
    BY DEF LessToWaitFor
  <2>2. q \in Task
    BY DEF Members
  <2>3. task[q].state = "ZOMBIE"
    BY <1>10, <2>1, <2>2
  <2>4. ASSUME q = p PROVE FALSE
    <3>1. opp \in Group(task, u)
      <4>1. u \in Group(task, u)
        BY <1>4, GroupIsLeast
      <4>2. task'[p].p_pptr = opp
        BY <1>10, <1>11
      <4> QED
        BY <2>1, <2>4, <4>1, <4>2 DEF Watched
    <3>2. u \in Group(task, opp)
      BY <1>4, <1>11, <3>1, GroupIsSymmetric DEF IInv, GroupsOK
    <3> QED
      BY <1>10, <2>1, <2>3, <2>4, <3>2
  <2> QED
    BY <1>10, <2>2, <2>3, <2>4
<1>21. /\ task'[child_reaper].p_pptr = NULL /\ task'[child_reaper].p_opptr = NULL
       /\ task'[child_reaper].p_osptr = NULL
  BY <1>10, <1>11, TaskAssumption DEF IInv, Kin
<1>22. Members(task') = Members(task)
  BY <1>10 DEF Members
<1>23. SignalsOK'
  <2>1. ASSUME ~build.ptrace, NEW q \in Members(task)
        PROVE  \/ task'[q].p_pptr = task'[q].p_opptr
               \/ pc'[task'[q].p_pptr] \in {"notify", "loop", "relock"}
    <3>1. q \in Task /\ task[q].p_pptr \in Task
      BY DEF Members, IInv, Kin, KinAt
    <3>2. \/ task[q].p_pptr = task[q].p_opptr
          \/ pc[task[q].p_pptr] \in {"notify", "loop", "relock"}
      BY <2>1 DEF IInv, SignalsOK
    <3>3. CASE q = p
      BY <1>1, <1>10, <3>1, <3>3
    <3>4. CASE q # p
      BY <1>10, <1>13, <3>1, <3>2, <3>4
    <3> QED
      BY <3>3, <3>4
  <2>2. ASSUME "CSIGNAL" \notin build.clone, NEW q \in Task PROVE task'[q].sigchld
    BY <1>10, <2>2 DEF IInv, SignalsOK
  <2> QED
    BY <1>2, <1>22, <2>1, <2>2 DEF SignalsOK
<1>24. Shift(t)
  <2>1. << pc[t], pc'[t] >> \in {<< "loop", "loop" >>, << "loop", "relock" >>}
    BY <1>2, <1>13
  <2> QED
    BY <1>2, <1>10, <1>12, <1>13, <2>1 DEF Shift
<1>25. Lists(task', Members(task), Stale')
  BY <1>10, <1>18
<1> QED
  BY <1>14, <1>15, <1>16, <1>17, <1>19, <1>20, <1>21, <1>23, <1>24, <1>25, ShiftKeeps

\* A younger sibling is on the same lists.
LEMMA YoungerIs ==
  ASSUME NEW T \in Structs, NEW S \in SUBSET Task, NEW p \in S, Lists(T, S, {})
  PROVE  T[p].p_ysptr \in S \cup {NULL}
<1>1. OnList(T, S, {})
  BY DEF Lists
<1>2. PICK par : par = T[p].p_pptr
  OBVIOUS
<1>3. par \in Task /\ (T[par].p_cptr # p => T[p].p_ysptr \in S)
  BY <1>1, <1>2 DEF OnList
<1>4. p # NULL
  BY TaskAssumption
<1>5. T[par].p_cptr = p => T[p].p_ysptr = NULL
  BY <1>1, <1>3, <1>4 DEF OnList
<1> QED
  BY <1>2, <1>3, <1>5

\* What release_task leaves of the task_structs.
Released(t, p) ==
  /\ task' \in Structs
  /\ Lists(task', Members(task) \ {p}, {})
  /\ task'[child_reaper].p_osptr = NULL
  /\ task'[p].state = "FREE" /\ task'[p].next_thread = p /\ task'[p].sigchld
  /\ ~task'[p].exiting
  /\ \A u \in Task : u # p =>
       /\ task'[u].p_opptr = task[u].p_opptr /\ task'[u].p_pptr = task[u].p_pptr
       /\ task'[u].sigchld = task[u].sigchld /\ task'[u].exiting = task[u].exiting
       /\ task'[u].next_thread = IF task[u].next_thread = p THEN task[p].next_thread
                                                            ELSE task[u].next_thread
       /\ task'[u].state = IF u = t THEN "RUNNING" ELSE task[u].state

\* It leaves that, if p is not a parent any more.
LEMMA ReleaseIs ==
  ASSUME IInv, NEW t \in Task, NEW p \in Members(task), t # p, task[p].p_cptr = NULL,
         task[p].p_pptr # p, Lists(task, Members(task), {}),
         task' = [unhash_process(task, p) EXCEPT ![t].state = "RUNNING", ![t].sigpending = FALSE]
  PROVE  Released(t, p)
<1>1. PICK R, H, S, rest : /\ R = REMOVE_LINKS(task, p) /\ H = unhash_process(task, p)
                           /\ S = Members(task) /\ rest = S \ {p}
  OBVIOUS
<1>2. /\ task \in Structs /\ S \in SUBSET Task /\ p \in Task /\ p \in S /\ rest \in SUBSET Task
      /\ p # child_reaper /\ task[child_reaper].p_osptr = NULL /\ child_reaper \notin S
  BY <1>1 DEF IInv, TypeOK, Structs, Members, Kin
<1>3. Lists(task, S, {})
  BY <1>1
<1>4. R \in Structs /\ Unlinked(task, R, p)
  <2>1. task[p].p_osptr # p
    BY <1>2, <1>3, ListsAreStrict
  <2> QED
    BY <1>1, <1>2, <2>1, RemoveLinksIs
<1>5. Lists(R, rest, {})
  <2>1. Lists(R, S \ {p}, {})
    BY <1>2, <1>3, <1>4, UnlinkKeepsLists
  <2> QED
    BY <1>1, <2>1
<1>6. R[p].p_cptr = NULL /\ R[child_reaper].p_osptr = NULL
  <2>1. task[p].p_ysptr # child_reaper
    BY <1>2, <1>3, YoungerIs, TaskAssumption
  <2> QED
    BY <1>2, <1>4, <2>1, TaskAssumption DEF Unlinked
<1>7. PICK next : next = R[p].next_thread
  OBVIOUS
<1>8. H = [u \in Task |-> IF u = p THEN Free(p)
                          ELSE IF R[u].next_thread = p
                               THEN [R[u] EXCEPT !.next_thread = next] ELSE R[u]]
  BY <1>1, <1>7 DEF unhash_process
<1>9. Free(p) \in TaskStructs /\ Free(p).p_cptr = NULL /\ Free(p).state = "FREE"
      /\ Free(p).next_thread = p /\ Free(p).sigchld /\ ~Free(p).exiting
  BY <1>2 DEF Free, TaskStructs, States, Pointer
<1>10. ASSUME NEW u \in Task, u # p
       PROVE  /\ H[u] \in TaskStructs
              /\ H[u].p_cptr = R[u].p_cptr /\ H[u].p_osptr = R[u].p_osptr
              /\ H[u].p_ysptr = R[u].p_ysptr /\ H[u].state = R[u].state
              /\ H[u].p_opptr = R[u].p_opptr /\ H[u].p_pptr = R[u].p_pptr
              /\ H[u].sigchld = R[u].sigchld /\ H[u].exiting = R[u].exiting
              /\ H[u].next_thread = IF R[u].next_thread = p THEN next ELSE R[u].next_thread
  <2>1. R[u] \in TaskStructs /\ next \in Task
    BY <1>2, <1>4, <1>7 DEF Structs, TaskStructs
  <2>2. H[u] = IF R[u].next_thread = p THEN [R[u] EXCEPT !.next_thread = next] ELSE R[u]
    BY <1>8, <1>10
  <2> QED
    BY <2>1, <2>2 DEF TaskStructs
<1>11. H[p] = Free(p) /\ H \in Structs
  BY <1>2, <1>8, <1>9, <1>10 DEF Structs
<1>12. PICK n : n = [H[t] EXCEPT !.state = "RUNNING", !.sigpending = FALSE]
  OBVIOUS
<1>13. /\ n \in TaskStructs /\ n.state = "RUNNING"
       /\ n.p_cptr = H[t].p_cptr /\ n.p_osptr = H[t].p_osptr /\ n.p_ysptr = H[t].p_ysptr
       /\ n.p_opptr = H[t].p_opptr /\ n.p_pptr = H[t].p_pptr /\ n.sigchld = H[t].sigchld
       /\ n.exiting = H[t].exiting /\ n.next_thread = H[t].next_thread
  <2>1. H[t] \in TaskStructs
    BY <1>11 DEF Structs
  <2> QED
    BY <1>12, <2>1 DEF TaskStructs, States
<1>14. task' = [u \in Task |-> IF u = t THEN n ELSE H[u]]
  <2>1. H \in [Task -> TaskStructs] /\ task' = [H EXCEPT ![t].state = "RUNNING", ![t].sigpending = FALSE]
    BY <1>1, <1>11 DEF Structs
  <2> QED
    BY <1>12, <2>1
<1>15. /\ task' \in Structs /\ task'[p] = Free(p)
       /\ \A u \in Task : u # p =>
            /\ task'[u].p_cptr = R[u].p_cptr /\ task'[u].p_osptr = R[u].p_osptr
            /\ task'[u].p_ysptr = R[u].p_ysptr
            /\ task'[u].state = IF u = t THEN "RUNNING" ELSE R[u].state
            /\ task'[u].p_opptr = R[u].p_opptr /\ task'[u].p_pptr = R[u].p_pptr
            /\ task'[u].sigchld = R[u].sigchld /\ task'[u].exiting = R[u].exiting
            /\ task'[u].next_thread = IF R[u].next_thread = p THEN next ELSE R[u].next_thread
  <2>1. task' \in Structs
    BY <1>11, <1>13, <1>14 DEF Structs
  <2>2. task'[p] = Free(p)
    BY <1>2, <1>11, <1>14
  <2>3. ASSUME NEW u \in Task, u # p
        PROVE  /\ task'[u].p_cptr = R[u].p_cptr /\ task'[u].p_osptr = R[u].p_osptr
               /\ task'[u].p_ysptr = R[u].p_ysptr
               /\ task'[u].state = IF u = t THEN "RUNNING" ELSE R[u].state
               /\ task'[u].p_opptr = R[u].p_opptr /\ task'[u].p_pptr = R[u].p_pptr
               /\ task'[u].sigchld = R[u].sigchld /\ task'[u].exiting = R[u].exiting
               /\ task'[u].next_thread = IF R[u].next_thread = p THEN next ELSE R[u].next_thread
    <3>1. CASE u = t
      BY <1>10, <1>13, <1>14, <2>3, <3>1
    <3>2. CASE u # t
      BY <1>10, <1>14, <2>3, <3>2
    <3> QED
      BY <3>1, <3>2
  <2> QED
    BY <2>1, <2>2, <2>3
<1>16. PICK Q : Q = task'
  OBVIOUS
<1>17. Lists(Q, rest, {})
  <2>1. /\ \A u \in Task : Q[u].p_cptr = R[u].p_cptr
        /\ \A u \in rest : /\ Q[u].p_pptr = R[u].p_pptr /\ Q[u].p_osptr = R[u].p_osptr
                           /\ Q[u].p_ysptr = R[u].p_ysptr
    BY <1>1, <1>2, <1>6, <1>9, <1>15, <1>16
  <2>2. Q \in Structs /\ R \in Structs /\ rest \in SUBSET Task
    BY <1>2, <1>4, <1>15, <1>16
  <2> QED
    BY <1>5, <2>1, <2>2, ListsFrame
<1>18. \A u \in Task : Agree(R[u], task[u])
  BY <1>4 DEF Unlinked
<1>19. ASSUME NEW u \in Task, u # p
       PROVE  /\ task'[u].p_opptr = task[u].p_opptr /\ task'[u].p_pptr = task[u].p_pptr
              /\ task'[u].sigchld = task[u].sigchld /\ task'[u].exiting = task[u].exiting
              /\ task'[u].next_thread = IF task[u].next_thread = p THEN task[p].next_thread
                                                                   ELSE task[u].next_thread
              /\ task'[u].state = IF u = t THEN "RUNNING" ELSE task[u].state
  <2>1. Agree(R[u], task[u]) /\ Agree(R[p], task[p])
    BY <1>2, <1>18
  <2>2. next = task[p].next_thread
    BY <1>7, <2>1 DEF Agree
  <2>3. /\ task'[u].p_opptr = R[u].p_opptr /\ task'[u].p_pptr = R[u].p_pptr
        /\ task'[u].sigchld = R[u].sigchld /\ task'[u].exiting = R[u].exiting
        /\ task'[u].next_thread = IF R[u].next_thread = p THEN next ELSE R[u].next_thread
        /\ task'[u].state = IF u = t THEN "RUNNING" ELSE R[u].state
    BY <1>15, <1>19
  <2> QED
    BY <2>1, <2>2, <2>3 DEF Agree
<1>20. task'[child_reaper].p_osptr = NULL
  BY <1>2, <1>6, <1>15, TaskAssumption
<1> QED
  BY <1>1, <1>9, <1>15, <1>16, <1>17, <1>19, <1>20 DEF Released

\* wait4 releases the zombie it has found.
LEMMA ReleaseKeeps ==
  ASSUME IInv, NEW t \in Task, release_task(t)
  PROVE  IInv'
<1>1. PICK p : p = local[t].p
  OBVIOUS
<1>2. /\ pc[t] = "release" /\ Turn(t) /\ CanWrite
      /\ build.smp => pc[p] = "dead"
      /\ task' = [unhash_process(task, p) EXCEPT ![t].state = "RUNNING", ![t].sigpending = FALSE]
      /\ local' = [local EXCEPT ![t] = NoLocal]
      /\ pc' = [pc EXCEPT ![p] = "none", ![t] = "user"]
      /\ UNCHANGED << tasklist_lock, forks, build >>
  BY <1>1 DEF release_task, At, EndWait4, wait_task_inactive
<1>3. /\ task \in Structs /\ Members(task) \in SUBSET Task
      /\ Lists(task, Members(task), {}) /\ task[child_reaper].p_osptr = NULL
      /\ child_reaper \in Task \ Members(task)
  BY <1>2, TreeIs
<1>4. p \in Members(task) /\ task[p].state = "ZOMBIE" /\ p \in Task /\ p # child_reaper
  BY <1>1, <1>2 DEF IInv, LocalOK, LocalAt, Members
<1>5. KinAt(p) /\ StateAt(t) /\ StateAt(p)
  BY <1>4 DEF IInv, Kin, StateOK
<1>6. t # p /\ task[t].state \in {"RUNNING", "INTERRUPTIBLE"} /\ ~task[t].exiting
  BY <1>2, <1>4, <1>5 DEF StateAt, InWait, InExit
<1>7. pc[p] = "dead"
  <2>1. CASE build.smp
    BY <1>2, <2>1
  <2>2. CASE ~build.smp
    <3>1. pc[p] \in MayYield
      BY <1>2, <1>4, <1>6, <2>2 DEF Turn
    <3> QED
      BY <1>4, <1>5, <3>1 DEF MayYield, StateAt, InWait
  <2> QED
    BY <2>1, <2>2
<1>8. /\ pc \in [Task -> PCs] /\ pc' \in [Task -> PCs] /\ pc'[t] = "user" /\ pc'[p] = "none"
      /\ \A u \in Task : u # t /\ u # p => pc'[u] = pc[u]
  <2>1. pc \in [Task -> PCs]
    BY DEF IInv, TypeOK
  <2> QED
    BY <1>2, <1>4, <1>6, <2>1 DEF PCs
<1>9. \A q \in Members(task) : task[q].p_pptr # p /\ task[q].p_opptr # p
  BY <1>7 DEF IInv, Kin, KinAt, Gone, Orphaned
<1>10. task[p].p_cptr = NULL
  <2>1. OnList(task, Members(task), {})
    BY <1>3 DEF Lists
  <2> QED
    BY <1>4, <1>9, <2>1 DEF OnList
<1>11. Released(t, p)
  BY <1>2, <1>3, <1>4, <1>6, <1>9, <1>10, ReleaseIs
<1>12. /\ task' \in Structs
       /\ Lists(task', Members(task) \ {p}, {})
       /\ task'[child_reaper].p_osptr = NULL
       /\ task'[p].state = "FREE" /\ task'[p].next_thread = p /\ task'[p].sigchld
       /\ ~task'[p].exiting
       /\ \A u \in Task : u # p =>
            /\ task'[u].p_opptr = task[u].p_opptr /\ task'[u].p_pptr = task[u].p_pptr
            /\ task'[u].sigchld = task[u].sigchld /\ task'[u].exiting = task[u].exiting
            /\ task'[u].next_thread = IF task[u].next_thread = p THEN task[p].next_thread
                                                                 ELSE task[u].next_thread
            /\ task'[u].state = IF u = t THEN "RUNNING" ELSE task[u].state
  BY <1>11 DEF Released
<1>13. /\ local' \in [Task -> Locals]
       /\ \A u \in Task : u # t => local'[u] = local[u]
  BY <1>2 DEF IInv, TypeOK, Locals, NoLocal, Pointer
<1>14. /\ MayYield' = MayYield /\ Threaded' = Threaded
       /\ Clear(build)' = Clear(build) /\ Apart(build)' = Apart(build)
  BY <1>2 DEF MayYield, Threaded, Clear, Apart
<1>15. TypeOK'
  BY <1>2, <1>8, <1>12, <1>13 DEF TypeOK, IInv, Structs, Locals
<1>16. Members(task') = Members(task) \ {p}
  BY <1>4, <1>6, <1>12 DEF Members
<1>17. StateOK'
  <2>1. ASSUME NEW u \in Task, u # t, u # p PROVE StateAt(u)'
    <3>1. StateAt(u)
      BY DEF IInv, StateOK
    <3>2. /\ pc'[u] = pc[u] /\ task'[u].state = task[u].state
          /\ task'[u].exiting = task[u].exiting /\ build' = build
      BY <1>2, <1>8, <1>12, <2>1
    <3> QED
      BY <3>1, <3>2 DEF StateAt
  <2>2. StateAt(t)'
    <3>1. pc'[t] = "user" /\ task'[t].state = "RUNNING" /\ ~task'[t].exiting
      BY <1>6, <1>8, <1>12
    <3> QED
      BY <3>1 DEF StateAt, InWait, Dying, InExit
  <2>3. StateAt(p)'
    BY <1>2, <1>8, <1>12 DEF StateAt, InWait, Dying, InExit
  <2>4. pc'[child_reaper] \notin InExit \cup {"none"}
    BY <1>4, <1>8, TaskAssumption DEF IInv, StateOK, InExit
  <2> QED
    BY <2>1, <2>2, <2>3, <2>4 DEF StateOK
<1>18. LockOK'
  BY <1>2, <1>7, <1>8 DEF IInv, LockOK
<1>19. Alone'
  <2>1. "none" \in MayYield /\ "user" \in MayYield
    BY DEF MayYield
  <2> QED
    BY <1>2, <1>8, <1>14, <2>1 DEF IInv, Alone
<1>20. GroupsOK'
  <2>1. Rings(task)
    BY DEF IInv, GroupsOK
  <2>2. PICK next : next = task[p].next_thread
    OBVIOUS
  <2>3. \A u \in Task : u # p => task'[u].next_thread # p
    BY <1>4, <1>12, <2>1 DEF Rings
  <2>4. ASSUME NEW u \in Task, NEW v \in Task, u # p, v # p,
               task'[u].next_thread = task'[v].next_thread
        PROVE  u = v
    <3>1. /\ task'[u].next_thread = IF task[u].next_thread = p THEN next ELSE task[u].next_thread
          /\ task'[v].next_thread = IF task[v].next_thread = p THEN next ELSE task[v].next_thread
      BY <1>12, <2>2, <2>4
    <3>2. /\ task[u].next_thread = task[v].next_thread => u = v
          /\ task[u].next_thread = next => u = p
          /\ task[v].next_thread = next => v = p
      BY <1>4, <2>1, <2>2 DEF Rings
    <3> QED
      BY <2>4, <3>1, <3>2
  <2>5. ASSUME NEW u \in Task, NEW v \in Task, task'[u].next_thread = task'[v].next_thread
        PROVE  u = v
    BY <1>12, <2>3, <2>4, <2>5
  <2>6. ASSUME NEW u \in Task, task'[u].state = "FREE" PROVE task'[u].next_thread = u
    <3>1. CASE u = p
      BY <1>12, <3>1
    <3>2. CASE u # p
      <4>1. task[u].state = "FREE"
        BY <1>12, <2>6, <3>2
      <4>2. task[u].next_thread = u
        BY <2>1, <4>1 DEF Rings
      <4> QED
        BY <1>12, <3>2, <4>2
    <3> QED
      BY <3>1, <3>2
  <2>7. Rings(task')
    BY <2>5, <2>6 DEF Rings
  <2>8. ASSUME ~Threaded, NEW u \in Task PROVE task'[u].next_thread = u
    <3>1. task[u].next_thread = u
      BY <2>8 DEF IInv, GroupsOK
    <3> QED
      BY <1>12, <3>1
  <2> QED
    BY <1>14, <2>7, <2>8 DEF GroupsOK
<1>21. Kin'
  <2>1. ASSUME NEW q \in Members(task) \ {p} PROVE KinAt(q)'
    <3>1. KinAt(q) /\ q \in Task /\ q # p /\ task[q].p_pptr # p /\ task[q].p_opptr # p
      BY <1>9, <2>1 DEF IInv, Kin, Members
    <3> QED
      BY <1>8, <1>12, <3>1 DEF KinAt, Gone, Orphaned
  <2> QED
    BY <1>4, <1>12, <1>16, <2>1, TaskAssumption DEF Kin, IInv
<1>22. \A u \in Task : pc[u] \notin {"loop", "relock", "assign"}
  BY <1>2, NobodyRelinks
<1>23. TreeOK'
  <2>1. Stale' = {}
    BY <1>8, <1>22 DEF Stale
  <2> QED
    BY <1>12, <1>16, <2>1 DEF TreeOK
<1>24. LocalOK'
  <2>1. ASSUME NEW u \in Task, u # t, u # p PROVE LocalAt(u)'
    <3>1. LocalAt(u) /\ pc'[u] = pc[u] /\ local'[u] = local[u] /\ pc[u] # "assign"
      BY <1>8, <1>13, <1>22, <2>1 DEF IInv, LocalOK
    <3>2. ASSUME pc[u] \in {"found", "release", "handback"}
          PROVE  /\ local[u].p \in Members(task') /\ task'[local[u].p].state = "ZOMBIE"
                 /\ task'[local[u].p].p_pptr \in Group(task', u)
      <4>1. /\ local[u].p \in Task /\ task[local[u].p].p_pptr = u
            /\ Group(task, t) = {t}
        BY <1>2, <2>1, <3>2, FoundOnce
      <4>2. task[p].p_pptr = t
        BY <1>1, <1>2, <4>1 DEF IInv, LocalOK, LocalAt
      <4>3. local[u].p # p
        BY <2>1, <4>1, <4>2
      <4>4. local[u].p \in Members(task) /\ task[local[u].p].state = "ZOMBIE"
        BY <3>1, <3>2 DEF LocalAt
      <4>5. local[u].p # t
        BY <1>6, <4>4
      <4>6. u \in Group(task', u)
        BY <1>12, GroupIsLeast
      <4> QED
        BY <1>12, <1>16, <4>1, <4>3, <4>4, <4>5, <4>6
    <3> QED
      BY <3>1, <3>2 DEF LocalAt
  <2>2. LocalAt(t)' /\ LocalAt(p)'
    BY <1>8 DEF LocalAt
  <2> QED
    BY <2>1, <2>2 DEF LocalOK
<1>25. SignalsOK'
  <2>1. ASSUME ~build.ptrace, NEW q \in Members(task) \ {p}
        PROVE  \/ task'[q].p_pptr = task'[q].p_opptr
               \/ pc'[task'[q].p_pptr] \in {"notify", "loop", "relock"}
    <3>1. q \in Task /\ q # p /\ task[q].p_pptr \in Task /\ task[q].p_pptr # p
      BY <1>9, <2>1 DEF Members, IInv, Kin, KinAt
    <3>2. \/ task[q].p_pptr = task[q].p_opptr
          \/ pc[task[q].p_pptr] \in {"notify", "loop", "relock"}
      BY <2>1 DEF IInv, SignalsOK
    <3>3. pc[t] \notin {"notify", "loop", "relock"}
      BY <1>2
    <3> QED
      BY <1>8, <1>12, <3>1, <3>2, <3>3
  <2>2. ASSUME "CSIGNAL" \notin build.clone, NEW q \in Task PROVE task'[q].sigchld
    <3>1. task[q].sigchld
      BY <2>2 DEF IInv, SignalsOK
    <3> QED
      BY <1>12, <3>1
  <2> QED
    BY <1>2, <1>16, <2>1, <2>2 DEF SignalsOK
<1>26. ASSUME NEW u \in Task, u # p PROVE Group(task', u) \subseteq Group(task, u)
  <2>1. PICK G, rest : G = Group(task, u) /\ rest = G \ {p}
    OBVIOUS
  <2>2. u \in G /\ G \subseteq Task /\ Closed(task, G)
    BY <1>3, <2>1, GroupIsLeast
  <2>3. ASSUME NEW v \in Task, v \in rest PROVE task'[v].next_thread \in rest
    <3>1. v # p /\ v \in G /\ task[v].next_thread \in G
      BY <2>1, <2>2, <2>3 DEF Closed
    <3>2. CASE task[v].next_thread # p
      BY <1>12, <2>1, <3>1, <3>2
    <3>3. CASE task[v].next_thread = p
      <4>1. task[p].next_thread \in G
        BY <1>4, <2>2, <3>1, <3>3 DEF Closed
      <4>2. task[p].next_thread # p
        BY <1>4, <3>1, <3>3 DEF IInv, GroupsOK, Rings
      <4> QED
        BY <1>12, <2>1, <3>1, <3>3, <4>1, <4>2
    <3> QED
      BY <3>2, <3>3
  <2>4. u \in rest /\ Closed(task', rest)
    BY <1>26, <2>1, <2>2, <2>3 DEF Closed
  <2>5. Group(task', u) \subseteq rest
    BY <1>12, <2>4, GroupIsLeast
  <2> QED
    BY <2>1, <2>5
<1>27. RestOK'
  <2>1. ASSUME Clear(build), NEW u \in Task, u # t, u # p PROVE RestAt(u)'
    <3>1. /\ RestAt(u) /\ pc'[u] = pc[u] /\ local'[u] = local[u]
          /\ task'[u].state = task[u].state
      BY <1>8, <1>12, <1>13, <2>1 DEF IInv, RestOK
    <3>2. Watched(u)' \subseteq Watched(u)
      BY <1>26, <2>1, <3>1 DEF Watched
    <3>3. ASSUME NEW q \in Members(task) \ {p}
          PROVE  /\ task'[q].state = "ZOMBIE" => task[q].state = "ZOMBIE"
                 /\ task'[q].p_pptr = task[q].p_pptr /\ task'[q].sigchld = task[q].sigchld
      BY <1>12, <3>3 DEF Members
    <3> QED
      BY <1>16, <3>1, <3>2, <3>3 DEF RestAt, Eligible
  <2>2. RestAt(t)' /\ RestAt(p)'
    BY <1>8 DEF RestAt
  <2> QED
    BY <1>14, <2>1, <2>2 DEF RestOK
<1> QED
  BY <1>14, <1>15, <1>17, <1>18, <1>19, <1>20, <1>21, <1>23, <1>24, <1>25, <1>27 DEF IInv

-----------------------------------------------------------------------------
(* do_fork *)

\* What do_fork makes of the task_structs: p is a new task, in a new group or in that of t.
Forked(t, p) ==
  /\ task' \in Structs
  /\ Lists(task', Members(task) \cup {p}, {})
  /\ task'[child_reaper].p_osptr = NULL
  /\ task'[p].state = "RUNNING" /\ ~task'[p].exiting
  /\ task'[p].p_pptr \in Task /\ pc[task'[p].p_pptr] \notin Gone
  /\ task'[p].p_opptr \in Task /\ pc[task'[p].p_opptr] \notin Orphaned
  /\ \/ task'[p].p_pptr = task'[p].p_opptr
     \/ /\ t \in Members(task)
        /\ task'[p].p_pptr = task[t].p_pptr /\ task'[p].p_opptr = task[t].p_opptr
  /\ "CSIGNAL" \notin build.clone => task'[p].sigchld
  /\ \/ task'[p].next_thread = p /\ task'[t].next_thread = task[t].next_thread
     \/ Threaded /\ task'[p].next_thread = task[t].next_thread /\ task'[t].next_thread = p
  /\ \A u \in Task : u # p =>
       /\ task'[u].p_opptr = task[u].p_opptr /\ task'[u].p_pptr = task[u].p_pptr
       /\ task'[u].sigchld = task[u].sigchld /\ task'[u].exiting = task[u].exiting
       /\ task'[u].state = task[u].state
       /\ u # t => task'[u].next_thread = task[u].next_thread

\* It does that.
LEMMA ForkIs ==
  ASSUME IInv, NEW t \in Task, Fork(t)
  PROVE  \E p \in Task : /\ task[p].state = "FREE" /\ p # t /\ pc[p] = "none"
                         /\ pc' = [pc EXCEPT ![p] = "user"]
                         /\ Forked(t, p)
<1>1. /\ pc[t] = "user" /\ Turn(t) /\ CanWrite
      /\ forks < build.forks /\ Unallocated # {}
  BY DEF Fork, At
<1>2. PICK p, me : p = (CHOOSE q \in Unallocated : TRUE) /\ me = task[t]
  OBVIOUS
<1>3. PICK flags, child, T, L :
        /\ flags \in SUBSET build.clone
        /\ child = [Free(p) EXCEPT
             !.state = "RUNNING",
             !.p_opptr = IF "CLONE_PARENT" \in flags THEN me.p_opptr ELSE t,
             !.p_pptr = IF "CLONE_PARENT" \in flags THEN me.p_pptr ELSE t,
             !.next_thread = IF "CLONE_THREAD" \in flags THEN me.next_thread ELSE p,
             !.sigchld = "CSIGNAL" \notin flags]
        /\ T = [task EXCEPT ![p] = child]
        /\ L = IF "CLONE_THREAD" \in flags THEN Store(T, t, "next_thread", p) ELSE T
        /\ t = child_reaper => flags = {}
        /\ task' = SET_LINKS(L, p)
        /\ pc' = [pc EXCEPT ![p] = "user"]
  BY <1>2 DEF Fork
<1>4. /\ task \in Structs /\ Members(task) \in SUBSET Task
      /\ Lists(task, Members(task), {}) /\ task[child_reaper].p_osptr = NULL
      /\ child_reaper \in Task \ Members(task)
  BY <1>1, TreeIs
<1>5. p \in Task /\ task[p].state = "FREE"
  BY <1>1, <1>2 DEF Unallocated
<1>6. StateAt(p) /\ StateAt(t)
  BY <1>5 DEF IInv, StateOK
<1>7. /\ pc[p] = "none" /\ p # t /\ p # child_reaper /\ task[t].state = "RUNNING"
      /\ p \notin Members(task)
  BY <1>1, <1>5, <1>6 DEF StateAt, IInv, StateOK, Members
<1>8. task[p].p_cptr = NULL
  <2>1. OnList(task, Members(task), {})
    BY <1>4 DEF Lists
  <2>2. ASSUME task[p].p_cptr # NULL PROVE FALSE
    <3>1. PICK c : c = task[p].p_cptr
      OBVIOUS
    <3>2. c \in Members(task) /\ task[c].p_pptr = p
      BY <1>5, <2>1, <2>2, <3>1 DEF OnList
    <3> QED
      BY <1>7, <3>2 DEF IInv, Kin, KinAt, Gone
  <2> QED
    BY <2>2
<1>9. PICK opp, par, next, sig :
        /\ opp = IF "CLONE_PARENT" \in flags THEN me.p_opptr ELSE t
        /\ par = IF "CLONE_PARENT" \in flags THEN me.p_pptr ELSE t
        /\ next = IF "CLONE_THREAD" \in flags THEN me.next_thread ELSE p
        /\ sig = ("CSIGNAL" \notin flags)
  OBVIOUS
<1>10. /\ par \in Task /\ pc[par] \notin Gone /\ opp \in Task /\ pc[opp] \notin Orphaned
       /\ \/ par = opp
          \/ t \in Members(task) /\ par = task[t].p_pptr /\ opp = task[t].p_opptr
  <2>1. CASE "CLONE_PARENT" \in flags
    <3>1. t # child_reaper
      BY <1>3, <2>1
    <3>2. t \in Members(task)
      BY <1>7, <3>1 DEF Members
    <3>3. KinAt(t)
      BY <3>2 DEF IInv, Kin
    <3>4. par = task[t].p_pptr /\ opp = task[t].p_opptr
      BY <1>2, <1>9, <2>1
    <3> QED
      BY <3>2, <3>3, <3>4 DEF KinAt
  <2>2. CASE "CLONE_PARENT" \notin flags
    BY <1>1, <1>9, <2>2 DEF Gone, Orphaned
  <2> QED
    BY <2>1, <2>2
<1>11. next \in Task /\ sig \in BOOLEAN /\ p \in Pointer /\ opp \in Pointer /\ par \in Pointer
  <2>1. me \in TaskStructs
    BY <1>2, <1>4 DEF Structs
  <2> QED
    BY <1>5, <1>9, <1>10, <2>1 DEF TaskStructs, Pointer
<1>12. /\ child \in TaskStructs
       /\ child.state = "RUNNING" /\ child.p_opptr = opp /\ child.p_pptr = par
       /\ child.p_cptr = NULL /\ child.next_thread = next /\ child.sigchld = sig
       /\ child.exiting = FALSE
  <2>1. child = [Free(p) EXCEPT !.state = "RUNNING", !.p_opptr = opp, !.p_pptr = par,
                                !.next_thread = next, !.sigchld = sig]
    BY <1>3, <1>9, Zenon
  <2>2. child = [state |-> "RUNNING", p_opptr |-> opp, p_pptr |-> par, p_cptr |-> NULL,
                 p_ysptr |-> NULL, p_osptr |-> NULL, next_thread |-> next,
                 sigchld |-> sig, exiting |-> FALSE, ptrace |-> FALSE, sigpending |-> FALSE]
    BY <2>1 DEF Free
  <2> QED
    BY <1>5, <1>11, <2>2 DEF TaskStructs, States, Pointer
<1>13. /\ T \in Structs /\ T[p] = child
       /\ \A u \in Task : u # p => T[u] = task[u]
  BY <1>3, <1>4, <1>5, <1>12 DEF Structs
<1>14. PICK r : r = IF "CLONE_THREAD" \in flags THEN [task[t] EXCEPT !.next_thread = p]
                                                ELSE task[t]
  OBVIOUS
<1>15. /\ r \in TaskStructs
       /\ r.next_thread = IF "CLONE_THREAD" \in flags THEN p ELSE task[t].next_thread
       /\ r.state = task[t].state /\ r.p_opptr = task[t].p_opptr /\ r.p_pptr = task[t].p_pptr
       /\ r.p_cptr = task[t].p_cptr /\ r.p_osptr = task[t].p_osptr
       /\ r.p_ysptr = task[t].p_ysptr /\ r.sigchld = task[t].sigchld
       /\ r.exiting = task[t].exiting
  <2>1. task[t] \in TaskStructs
    BY <1>4 DEF Structs
  <2> QED
    BY <1>5, <1>14, <2>1 DEF TaskStructs
<1>16. L = [u \in Task |-> IF u = t THEN r ELSE T[u]]
  <2>1. T \in [Task -> TaskStructs] /\ T[t] = task[t]
    BY <1>7, <1>13 DEF Structs
  <2>2. L = IF "CLONE_THREAD" \in flags THEN Store(T, t, "next_thread", p) ELSE T
    BY <1>3
  <2> QED
    BY <1>14, <2>1, <2>2 DEF Store
<1>17. L \in Structs /\ L[p] = child /\ L[t] = r
       /\ \A u \in Task : u # p /\ u # t => L[u] = task[u]
  BY <1>5, <1>7, <1>13, <1>15, <1>16 DEF Structs
<1>18. PICK S, Q : S = Members(task) /\ Q = task'
  OBVIOUS
<1>19. ASSUME NEW u \in Task, u # p
       PROVE  /\ L[u].state = task[u].state /\ L[u].p_opptr = task[u].p_opptr
              /\ L[u].p_pptr = task[u].p_pptr /\ L[u].p_cptr = task[u].p_cptr
              /\ L[u].p_osptr = task[u].p_osptr /\ L[u].p_ysptr = task[u].p_ysptr
              /\ L[u].sigchld = task[u].sigchld /\ L[u].exiting = task[u].exiting
  BY <1>15, <1>17, <1>19
<1>20. S \in SUBSET Task /\ p \notin S /\ Lists(L, S, {})
  <2>1. S \in SUBSET Task /\ p \notin S /\ Lists(task, S, {})
    BY <1>4, <1>7, <1>18
  <2>2. /\ \A u \in Task : L[u].p_cptr = task[u].p_cptr
        /\ \A u \in S : /\ L[u].p_pptr = task[u].p_pptr /\ L[u].p_osptr = task[u].p_osptr
                        /\ L[u].p_ysptr = task[u].p_ysptr
    BY <1>8, <1>12, <1>17, <1>19, <2>1
  <2> QED
    BY <1>4, <1>17, <2>1, <2>2, ListsFrame
<1>21. L[p].p_pptr = par
  BY <1>12, <1>17
<1>22. Q \in Structs /\ Linked(L, Q, p)
  BY <1>3, <1>5, <1>10, <1>17, <1>18, <1>21, SetLinksIs
<1>23. Lists(Q, S \cup {p}, {})
  BY <1>5, <1>10, <1>17, <1>20, <1>21, <1>22, LinkKeepsLists
<1>24. \A u \in Task : Agree(Q[u], L[u])
  BY <1>22 DEF Linked
<1>25. Q[child_reaper].p_osptr = NULL
  BY <1>4, <1>7, <1>19, <1>22 DEF Linked
<1>26. /\ Q[p].state = "RUNNING" /\ Q[p].exiting = FALSE /\ Q[p].p_pptr = par
       /\ Q[p].p_opptr = opp /\ Q[p].sigchld = sig /\ Q[p].next_thread = next
  BY <1>5, <1>12, <1>17, <1>24 DEF Agree
<1>27. ASSUME NEW u \in Task, u # p
       PROVE  /\ Q[u].p_opptr = task[u].p_opptr /\ Q[u].p_pptr = task[u].p_pptr
              /\ Q[u].sigchld = task[u].sigchld /\ Q[u].exiting = task[u].exiting
              /\ Q[u].state = task[u].state
              /\ u # t => Q[u].next_thread = task[u].next_thread
  <2>1. Agree(Q[u], L[u])
    BY <1>24
  <2>2. u # t => L[u].next_thread = task[u].next_thread
    BY <1>17, <1>27
  <2> QED
    BY <1>19, <1>27, <2>1, <2>2 DEF Agree
<1>28. Q[t].next_thread = IF "CLONE_THREAD" \in flags THEN p ELSE task[t].next_thread
  BY <1>15, <1>17, <1>24 DEF Agree
<1>29. \/ Q[p].next_thread = p /\ Q[t].next_thread = task[t].next_thread
       \/ Threaded /\ Q[p].next_thread = task[t].next_thread /\ Q[t].next_thread = p
  BY <1>2, <1>3, <1>9, <1>26, <1>28 DEF Threaded
<1>30. "CSIGNAL" \notin build.clone => Q[p].sigchld
  <2>1. "CSIGNAL" \notin build.clone => sig = TRUE
    BY <1>3, <1>9
  <2> QED
    BY <1>26, <2>1
<1>31. Forked(t, p)
  BY <1>10, <1>18, <1>22, <1>23, <1>25, <1>26, <1>27, <1>29, <1>30 DEF Forked
<1> QED
  BY <1>3, <1>5, <1>7, <1>31

\* The child joins the tree.
LEMMA ForkKeeps ==
  ASSUME IInv, NEW t \in Task, Fork(t)
  PROVE  IInv'
<1>1. /\ pc[t] = "user" /\ Turn(t) /\ CanWrite
      /\ forks < build.forks /\ forks' = forks + 1
      /\ UNCHANGED << local, tasklist_lock, build >>
  BY DEF Fork, At
<1>2. PICK p \in Task : /\ task[p].state = "FREE" /\ p # t /\ pc[p] = "none"
                        /\ pc' = [pc EXCEPT ![p] = "user"]
                        /\ Forked(t, p)
  BY ForkIs
<1>3. /\ task' \in Structs
      /\ Lists(task', Members(task) \cup {p}, {})
      /\ task'[child_reaper].p_osptr = NULL
      /\ task'[p].state = "RUNNING" /\ ~task'[p].exiting
      /\ task'[p].p_pptr \in Task /\ pc[task'[p].p_pptr] \notin Gone
      /\ task'[p].p_opptr \in Task /\ pc[task'[p].p_opptr] \notin Orphaned
      /\ \/ task'[p].p_pptr = task'[p].p_opptr
         \/ /\ t \in Members(task)
            /\ task'[p].p_pptr = task[t].p_pptr /\ task'[p].p_opptr = task[t].p_opptr
      /\ "CSIGNAL" \notin build.clone => task'[p].sigchld
      /\ \/ task'[p].next_thread = p /\ task'[t].next_thread = task[t].next_thread
         \/ Threaded /\ task'[p].next_thread = task[t].next_thread /\ task'[t].next_thread = p
      /\ \A u \in Task : u # p =>
           /\ task'[u].p_opptr = task[u].p_opptr /\ task'[u].p_pptr = task[u].p_pptr
           /\ task'[u].sigchld = task[u].sigchld /\ task'[u].exiting = task[u].exiting
           /\ task'[u].state = task[u].state
           /\ u # t => task'[u].next_thread = task[u].next_thread
  BY <1>2 DEF Forked
<1>4. /\ task \in Structs /\ Members(task) \in SUBSET Task
      /\ Lists(task, Members(task), {}) /\ task[child_reaper].p_osptr = NULL
      /\ child_reaper \in Task \ Members(task)
  BY <1>1, TreeIs
<1>5. p # child_reaper /\ p \notin Members(task)
  BY <1>2 DEF IInv, StateOK, Members
<1>6. /\ pc \in [Task -> PCs] /\ pc' \in [Task -> PCs] /\ pc'[p] = "user"
      /\ \A u \in Task : u # p => pc'[u] = pc[u]
  <2>1. pc \in [Task -> PCs]
    BY DEF IInv, TypeOK
  <2> QED
    BY <1>2, <2>1 DEF PCs
<1>7. /\ MayYield' = MayYield /\ Threaded' = Threaded
      /\ Clear(build)' = Clear(build) /\ Apart(build)' = Apart(build)
  BY <1>1 DEF MayYield, Threaded, Clear, Apart
<1>8. TypeOK'
  <2>1. forks \in Nat /\ build.forks \in Nat
    BY BuildAssumption DEF IInv, TypeOK
  <2>2. forks' \in 0 .. build.forks
    BY <1>1, <2>1
  <2> QED
    BY <1>1, <1>3, <1>6, <2>2 DEF TypeOK, IInv, Structs
<1>9. Members(task') = Members(task) \cup {p}
  BY <1>3, <1>5 DEF Members
<1>10. StateOK'
  <2>1. ASSUME NEW u \in Task, u # p PROVE StateAt(u)'
    <3>1. StateAt(u)
      BY DEF IInv, StateOK
    <3>2. /\ pc'[u] = pc[u] /\ task'[u].state = task[u].state
          /\ task'[u].exiting = task[u].exiting /\ build' = build
      BY <1>1, <1>3, <1>6, <2>1
    <3> QED
      BY <3>1, <3>2 DEF StateAt
  <2>2. StateAt(p)'
    <3>1. pc'[p] = "user" /\ task'[p].state = "RUNNING" /\ ~task'[p].exiting
      BY <1>3, <1>6
    <3> QED
      BY <3>1 DEF StateAt, InWait, Dying, InExit
  <2>3. pc'[child_reaper] \notin InExit \cup {"none"}
    BY <1>5, <1>6, TaskAssumption DEF IInv, StateOK
  <2> QED
    BY <2>1, <2>2, <2>3 DEF StateOK
<1>11. LockOK'
  BY <1>1, <1>2, <1>6 DEF IInv, LockOK
<1>12. Alone'
  <2>1. "user" \in MayYield
    BY DEF MayYield
  <2> QED
    BY <1>1, <1>6, <1>7, <2>1 DEF IInv, Alone
<1>13. task[p].next_thread = p /\ Rings(task)
  BY <1>2 DEF IInv, GroupsOK, Rings
<1>14. GroupsOK'
  <2>1. PICK next : next = task[t].next_thread
    OBVIOUS
  <2>2. \A u \in Task : u # p => task[u].next_thread # p
    BY <1>13 DEF Rings
  <2>3. \A u, v \in Task : task[u].next_thread = task[v].next_thread => u = v
    BY <1>13 DEF Rings
  <2>4. ASSUME NEW u \in Task, NEW v \in Task, task'[u].next_thread = task'[v].next_thread
        PROVE  u = v
    <3>1. CASE task'[p].next_thread = p /\ task'[t].next_thread = task[t].next_thread
      <4>1. \A q \in Task : task'[q].next_thread = task[q].next_thread
        BY <1>3, <1>13, <3>1
      <4> QED
        BY <2>3, <2>4, <4>1
    <3>2. CASE task'[p].next_thread = task[t].next_thread /\ task'[t].next_thread = p
      <4>1. \A q \in Task : task'[q].next_thread = IF q = p THEN next
                                                   ELSE IF q = t THEN p ELSE task[q].next_thread
        BY <1>2, <1>3, <2>1, <3>2
      <4>2. next # p
        BY <1>2, <2>1, <2>2
      <4>3. \A q \in Task : task[q].next_thread = next => q = t
        BY <2>1, <2>3
      <4> QED
        BY <2>2, <2>3, <2>4, <4>1, <4>2, <4>3
    <3> QED
      BY <1>3, <3>1, <3>2
  <2>5. ASSUME NEW u \in Task, task'[u].state = "FREE" PROVE task'[u].next_thread = u
    <3>1. u # p /\ task[u].state = "FREE"
      BY <1>3, <2>5
    <3>2. StateAt(t)
      BY DEF IInv, StateOK
    <3>3. u # t
      BY <1>1, <3>1, <3>2 DEF StateAt
    <3> QED
      BY <1>3, <1>13, <3>1, <3>3 DEF Rings
  <2>6. Rings(task')
    BY <2>4, <2>5 DEF Rings
  <2>7. ASSUME ~Threaded, NEW u \in Task PROVE task'[u].next_thread = u
    <3>1. \A q \in Task : task[q].next_thread = q
      BY <2>7 DEF IInv, GroupsOK
    <3> QED
      BY <1>3, <2>7, <3>1
  <2> QED
    BY <1>7, <2>6, <2>7 DEF GroupsOK
<1>15. Kin'
  <2>1. ASSUME NEW q \in Members(task) PROVE KinAt(q)'
    <3>1. KinAt(q) /\ q \in Task /\ q # p
      BY <1>4, <1>5 DEF IInv, Kin
    <3> QED
      BY <1>3, <1>6, <3>1 DEF KinAt, Gone, Orphaned
  <2>2. KinAt(p)'
    BY <1>3, <1>6 DEF KinAt, Gone, Orphaned
  <2> QED
    BY <1>3, <1>5, <1>9, <2>1, <2>2, TaskAssumption DEF Kin, IInv
<1>16. \A u \in Task : pc[u] \notin {"loop", "relock", "assign"}
  BY <1>1, NobodyRelinks
<1>17. TreeOK'
  <2>1. Stale' = {}
    BY <1>6, <1>16 DEF Stale
  <2> QED
    BY <1>3, <1>9, <2>1 DEF TreeOK
<1>18. LocalOK'
  <2>1. ASSUME NEW u \in Task, u # p PROVE LocalAt(u)'
    <3>1. LocalAt(u) /\ pc'[u] = pc[u] /\ local'[u] = local[u] /\ pc[u] # "assign"
      BY <1>1, <1>6, <1>16, <2>1 DEF IInv, LocalOK
    <3>2. ASSUME pc[u] \in {"found", "release", "handback"}
          PROVE  /\ local[u].p \in Members(task') /\ task'[local[u].p].state = "ZOMBIE"
                 /\ task'[local[u].p].p_pptr \in Group(task', u)
      <4>1. u # t
        BY <1>1, <3>2
      <4>2. local[u].p \in Task /\ task[local[u].p].p_pptr = u
        BY <1>1, <3>2, <4>1, FoundOnce
      <4>3. local[u].p \in Members(task) /\ task[local[u].p].state = "ZOMBIE"
        BY <3>1, <3>2 DEF LocalAt
      <4>4. u \in Group(task', u)
        BY <1>3, GroupIsLeast
      <4> QED
        BY <1>3, <1>5, <1>9, <4>2, <4>3, <4>4
    <3> QED
      BY <3>1, <3>2 DEF LocalAt
  <2>2. LocalAt(p)'
    BY <1>6 DEF LocalAt
  <2> QED
    BY <2>1, <2>2 DEF LocalOK
<1>19. SignalsOK'
  <2>1. ASSUME ~build.ptrace, NEW q \in Members(task)
        PROVE  \/ task'[q].p_pptr = task'[q].p_opptr
               \/ pc'[task'[q].p_pptr] \in {"notify", "loop", "relock"}
    <3>1. q \in Task /\ q # p /\ task[q].p_pptr \in Task
      BY <1>4, <1>5 DEF IInv, Kin, KinAt
    <3>2. \/ task[q].p_pptr = task[q].p_opptr
          \/ pc[task[q].p_pptr] \in {"notify", "loop", "relock"}
      BY <2>1 DEF IInv, SignalsOK
    <3>3. pc[p] \notin {"notify", "loop", "relock"}
      BY <1>2
    <3> QED
      BY <1>3, <1>6, <3>1, <3>2, <3>3
  <2>2. ASSUME ~build.ptrace
        PROVE  \/ task'[p].p_pptr = task'[p].p_opptr
               \/ pc'[task'[p].p_pptr] \in {"notify", "loop", "relock"}
    <3>1. SUFFICES ASSUME t \in Members(task), task'[p].p_pptr = task[t].p_pptr,
                          task'[p].p_opptr = task[t].p_opptr, task[t].p_pptr \in Task
                   PROVE  \/ task[t].p_pptr = task[t].p_opptr
                          \/ pc'[task[t].p_pptr] \in {"notify", "loop", "relock"}
      BY <1>3
    <3>2. \/ task[t].p_pptr = task[t].p_opptr
          \/ pc[task[t].p_pptr] \in {"notify", "loop", "relock"}
      BY <2>2, <3>1 DEF IInv, SignalsOK
    <3> QED
      BY <1>2, <1>6, <3>1, <3>2
  <2>3. ASSUME "CSIGNAL" \notin build.clone, NEW q \in Task PROVE task'[q].sigchld
    <3>1. task[q].sigchld
      BY <2>3 DEF IInv, SignalsOK
    <3> QED
      BY <1>3, <2>3, <3>1
  <2> QED
    BY <1>1, <1>9, <2>1, <2>2, <2>3 DEF SignalsOK
<1>20. ASSUME NEW u \in Task, u # p PROVE Group(task', u) \subseteq Group(task, u) \cup {p}
  <2>1. PICK G, bound : /\ G = Group(task, u)
                        /\ bound = IF t \in G THEN G \cup {p} ELSE G
    OBVIOUS
  <2>2. u \in G /\ G \subseteq Task /\ Closed(task, G)
    BY <1>4, <2>1, GroupIsLeast
  <2>3. p \notin G
    <3>1. SUFFICES ASSUME p \in G PROVE FALSE
      OBVIOUS
    <3>2. u \in Group(task, p)
      BY <1>4, <1>13, <2>1, <3>1, GroupIsSymmetric
    <3> QED
      BY <1>4, <1>13, <1>20, <3>2, GroupAlone
  <2>4. ASSUME NEW v \in Task, v \in bound PROVE task'[v].next_thread \in bound
    <3>1. CASE v # p /\ v # t
      <4>1. v \in G /\ task[v].next_thread \in G
        BY <2>1, <2>2, <2>4, <3>1 DEF Closed
      <4> QED
        BY <1>3, <2>1, <3>1, <4>1
    <3>2. CASE v = t
      <4>1. t \in G /\ task[t].next_thread \in G
        BY <1>2, <2>1, <2>2, <2>4, <3>2 DEF Closed
      <4> QED
        BY <1>3, <2>1, <3>2, <4>1
    <3>3. CASE v = p
      <4>1. t \in G
        BY <2>1, <2>3, <2>4, <3>3
      <4>2. task[t].next_thread \in G
        BY <2>2, <4>1 DEF Closed
      <4> QED
        BY <1>3, <2>1, <3>3, <4>1, <4>2
    <3> QED
      BY <3>1, <3>2, <3>3
  <2>5. u \in bound /\ Closed(task', bound)
    BY <2>1, <2>2, <2>4 DEF Closed
  <2>6. Group(task', u) \subseteq bound
    BY <1>3, <2>5, GroupIsLeast
  <2> QED
    BY <2>1, <2>6
<1>21. RestOK'
  <2>1. ASSUME Clear(build), NEW u \in Task, u # p PROVE RestAt(u)'
    <3>1. /\ RestAt(u) /\ pc'[u] = pc[u] /\ local'[u] = local[u]
          /\ task'[u].state = task[u].state
      BY <1>1, <1>3, <1>6, <2>1 DEF IInv, RestOK
    <3>2. Watched(u)' \subseteq Watched(u) \cup {p}
      BY <1>20, <2>1, <3>1 DEF Watched
    <3>3. ASSUME NEW q \in Members(task)
          PROVE  /\ task'[q].state = task[q].state /\ task'[q].p_pptr # p
                 /\ task'[q].p_pptr = task[q].p_pptr /\ task'[q].sigchld = task[q].sigchld
      <4>1. KinAt(q) /\ q \in Task /\ q # p
        BY <1>4, <1>5 DEF IInv, Kin
      <4> QED
        BY <1>2, <1>3, <4>1 DEF KinAt, Gone
    <3>4. ASSUME pc[u] \in {"sched", "asleep"}, task[u].state = "INTERRUPTIBLE",
                 NEW q \in Members(task'), task'[q].state = "ZOMBIE", task'[q].p_pptr \in Watched(u)'
          PROVE  ~Eligible(q, local[u].options)'
      <4>1. q \in Members(task)
        BY <1>3, <1>9, <3>4
      <4>2. task[q].state = "ZOMBIE" /\ task[q].p_pptr \in Watched(u)
        BY <3>2, <3>3, <3>4, <4>1
      <4>3. ~Eligible(q, local[u].options)
        BY <3>1, <3>4, <4>1, <4>2 DEF RestAt
      <4> QED
        BY <3>1, <3>3, <4>1, <4>3 DEF Eligible
    <3> QED
      BY <3>1, <3>4 DEF RestAt
  <2>2. RestAt(p)'
    BY <1>6 DEF RestAt
  <2> QED
    BY <1>7, <2>1, <2>2 DEF RestOK
<1> QED
  BY <1>7, <1>8, <1>10, <1>11, <1>12, <1>14, <1>15, <1>17, <1>18, <1>19, <1>21 DEF IInv


-----------------------------------------------------------------------------
(* The invariant of every behaviour *)

\* All builds considered are of this kind.
BuildsApart == \A b \in Builds : Apart(b)

\* At first there is init alone.
LEMMA InitKeeps ==
  ASSUME BuildsApart, Init
  PROVE  IInv
<1>1. /\ build \in Builds /\ build.forks \in Nat /\ build.ptrace \in BOOLEAN /\ Apart(build)
      /\ forks = 0 /\ tasklist_lock = [readers |-> {}, writer |-> NULL]
  BY BuildAssumption DEF Init, BuildsApart
<1>2. ASSUME NEW u \in Task
      PROVE  /\ task[u] = IF u = child_reaper THEN [Free(u) EXCEPT !.state = "RUNNING"]
                                              ELSE Free(u)
             /\ pc[u] = IF u = child_reaper THEN "user" ELSE "none"
             /\ local[u] = NoLocal
  BY DEF Init
<1>3. ASSUME NEW u \in Task
      PROVE  /\ task[u] \in TaskStructs
             /\ task[u].state = IF u = child_reaper THEN "RUNNING" ELSE "FREE"
             /\ task[u].p_opptr = NULL /\ task[u].p_pptr = NULL /\ task[u].p_cptr = NULL
             /\ task[u].p_osptr = NULL /\ task[u].next_thread = u
             /\ task[u].sigchld /\ ~task[u].exiting
  <2>1. CASE u = child_reaper
    BY <1>2, <2>1 DEF Free, TaskStructs, States, Pointer
  <2>2. CASE u # child_reaper
    <3>1. task[u] = Free(u)
      BY <1>2, <2>2
    <3>2. Free(u) \in TaskStructs
      BY DEF Free, TaskStructs, States, Pointer
    <3> QED
      BY <2>2, <3>1, <3>2 DEF Free
  <2> QED
    BY <2>1, <2>2
<1>4. /\ task \in [Task -> TaskStructs] /\ pc \in [Task -> PCs]
      /\ local \in [Task -> [options : SUBSET Options, p : Pointer]]
  <2>1. task = [u \in Task |-> task[u]] /\ pc = [u \in Task |-> pc[u]]
    BY DEF Init
  <2>2. \A u \in Task : pc[u] \in PCs
    BY <1>2 DEF PCs
  <2>3. local \in [Task -> [options : SUBSET Options, p : Pointer]]
    BY DEF Init, NoLocal, Pointer
  <2> QED
    BY <1>3, <2>1, <2>2, <2>3
<1>5. TypeOK
  BY <1>1, <1>4 DEF TypeOK, Pointer
<1>6. Members(task) = {} /\ Stale = {}
  <2>1. Members(task) = {}
    BY <1>3 DEF Members
  <2>2. Stale = {}
    BY <1>2 DEF Stale
  <2> QED
    BY <2>1, <2>2
<1>7. StateOK
  <2>1. ASSUME NEW u \in Task PROVE StateAt(u)
    BY <1>2, <1>3 DEF StateAt, InWait, InExit, Dying
  <2> QED
    BY <1>2, <2>1, TaskAssumption DEF StateOK, InExit
<1>8. LockOK
  BY <1>1, <1>2, TaskAssumption DEF LockOK
<1>9. Alone
  BY <1>2 DEF Alone, MayYield
<1>10. GroupsOK
  BY <1>3 DEF GroupsOK, Rings
<1>11. Kin
  BY <1>3, <1>6, TaskAssumption DEF Kin
<1>12. TreeOK
  <2>1. OnList(task, {}, {})
    BY <1>3 DEF OnList
  <2>2. Aged(task, {}, [u \in Task |-> 0])
    BY DEF Aged
  <2> QED
    BY <1>6, <2>1, <2>2 DEF TreeOK, Lists
<1>13. LocalOK
  BY <1>2 DEF LocalOK, LocalAt
<1>14. SignalsOK
  BY <1>3, <1>6 DEF SignalsOK
<1>15. RestOK
  BY <1>6 DEF RestOK, RestAt
<1> QED
  BY <1>1, <1>5, <1>7, <1>8, <1>9, <1>10, <1>11, <1>12, <1>13, <1>14, <1>15 DEF IInv

\* Where nothing happens, everything is kept.
LEMMA StutterKeeps ==
  ASSUME IInv, UNCHANGED vars
  PROVE  IInv'
<1>1. /\ task' = task /\ pc' = pc /\ local' = local /\ tasklist_lock' = tasklist_lock
      /\ forks' = forks /\ build' = build
  BY DEF vars
<1>2. TypeOK' /\ LockOK'
  BY <1>1 DEF IInv, TypeOK, LockOK
<1>3. StateOK'
  BY <1>1 DEF IInv, StateOK, StateAt
<1>4. Alone'
  BY <1>1 DEF IInv, Alone, MayYield
<1>5. GroupsOK'
  BY <1>1 DEF IInv, GroupsOK, Threaded
<1>6. Kin'
  BY <1>1 DEF IInv, Kin, KinAt
<1>7. TreeOK'
  BY <1>1 DEF IInv, TreeOK, Stale
<1>8. LocalOK'
  BY <1>1 DEF IInv, LocalOK, LocalAt, Threaded
<1>9. SignalsOK'
  BY <1>1 DEF IInv, SignalsOK
<1>10. RestOK'
  BY <1>1 DEF IInv, RestOK, RestAt, Watched, Eligible
<1>11. Apart(build)'
  BY <1>1 DEF IInv
<1> QED
  BY <1>2, <1>3, <1>4, <1>5, <1>6, <1>7, <1>8, <1>9, <1>10, <1>11 DEF IInv

\* Every step keeps the invariant.
LEMMA NextKeeps ==
  ASSUME IInv, [Next]_vars
  PROVE  IInv'
<1>1. CASE UNCHANGED vars
  BY <1>1, StutterKeeps
<1>2. CASE Next
  <2>1. PICK t \in Task :
          \/ KernelStep(t)
          \/ Fork(t) \/ reparent_to_init(t) \/ Wait4(t) \/ DoExit(t) \/ Signal(t)
          \/ \E q \in Task : PtraceAttach(t, q)
    BY <1>2 DEF Next
  <2>2. CASE Repeat(t) \/ ScanFinds(t) \/ ScanWaits(t) \/ ScanReturns(t)
    BY <2>2, RepeatKeeps, ScanFindsKeeps, ScanWaitsKeeps, ScanReturnsKeeps
  <2>3. CASE Schedule(t) \/ Resume(t) \/ CopyFails(t) \/ CopyOut(t)
    BY <2>3, ScheduleKeeps, ResumeKeeps, CopyFailsKeeps, CopyOutKeeps
  <2>4. CASE HandBack(t) \/ release_task(t)
    BY <2>4, HandBackKeeps, ReleaseKeeps
  <2>5. CASE ChooseReaper(t) \/ AssignReaper(t) \/ BecomeZombie(t) \/ GiveAwayChild(t)
    BY <2>5, ChooseReaperKeeps, AssignReaperKeeps, BecomeZombieKeeps, GiveAwayChildKeeps
  <2>6. CASE Relock(t) \/ NoChildLeft(t) \/ Leave(t)
    BY <2>6, RelockKeeps, NoChildLeftKeeps, LeaveKeeps
  <2>7. CASE Fork(t) \/ reparent_to_init(t)
    BY <2>7, ForkKeeps, ReparentToInitKeeps
  <2>8. CASE Wait4(t) \/ DoExit(t) \/ Signal(t)
    BY <2>8, Wait4Keeps, DoExitKeeps, SignalKeeps
  <2>9. CASE \E q \in Task : PtraceAttach(t, q)
    BY <2>9, PtraceAttachKeeps
  <2> QED
    BY <2>1, <2>2, <2>3, <2>4, <2>5, <2>6, <2>7, <2>8, <2>9 DEF KernelStep
<1> QED
  BY <1>1, <1>2

\* So it holds throughout.
LEMMA Invariance ==
  ASSUME BuildsApart
  PROVE  Spec => []IInv
<1>1. Init => IInv
  BY InitKeeps
<1>2. IInv /\ [Next]_vars => IInv'
  BY NextKeeps
<1> QED
  BY <1>1, <1>2, PTL DEF Spec

-----------------------------------------------------------------------------
(* What it means for the processes *)

\* The state stays well-typed: no step of fork, wait4 or exit follows a null pointer, or
\* stores one where a task must be.
THEOREM TreeTypesHold ==
  ASSUME BuildsApart
  PROVE  Spec => []TypeOK
<1>1. IInv => TypeOK
  BY DEF IInv
<1> QED
  BY <1>1, Invariance, PTL

\* Every task is found on the way through its parent's children.
LEMMA ListedByParent ==
  ASSUME IInv, NEW p \in Members(task)
  PROVE  \E n \in 1 .. Slots : Child(task, task[p].p_pptr)[n] = p
<1>1. task \in Structs /\ Members(task) \in SUBSET Task /\ Lists(task, Members(task), Stale)
  BY DEF IInv, TypeOK, Structs, Members, TreeOK
<1>2. PICK u, w : u = task[p].p_pptr /\ w = Child(task, u)
  OBVIOUS
<1>3. u \in Task
  BY <1>2 DEF IInv, Kin, KinAt
<1>4. \A q \in Members(task) : task[q].p_pptr = u =>
        \E n \in 1 .. Slots : w[n] = q
  BY <1>1, <1>2, <1>3, ChildrenAreFound
<1> QED
  BY <1>2, <1>4

\* Whenever tasklist_lock can be taken, the pointers of the tree agree, and every task is
\* among the children of its parent, whatever REMOVE_LINKS, SET_LINKS and exit_notify did.
THEOREM LinksAlwaysConsistent ==
  ASSUME BuildsApart
  PROVE  Spec => []LinksConsistent
<1>1. ASSUME IInv PROVE LinksConsistent
  <2>1. SUFFICES ASSUME CanRead, NEW p \in Task, Live(p)
                 PROVE  LET c == task[p].p_cptr
                            o == task[p].p_osptr
                            stale == /\ pc[task[p].p_pptr] = "relock"
                                     /\ task[task[p].p_pptr].p_cptr = p
                        IN  /\ c # NULL => /\ Live(c) /\ task[c].p_pptr = p
                                           /\ pc[p] # "relock" => task[c].p_ysptr = NULL
                            /\ o # NULL => /\ Live(o) /\ task[o].p_pptr = task[p].p_pptr
                                           /\ task[o].p_ysptr = p
                            /\ p # child_reaper =>
                                 /\ Live(task[p].p_pptr) /\ Live(task[p].p_opptr)
                                 /\ LET siblings == Child(task, task[p].p_pptr)
                                    IN  \E n \in 1 .. Cardinality(Task) : siblings[n] = p
                                 /\ task[p].p_ysptr # NULL /\ ~stale =>
                                      task[task[p].p_ysptr].p_osptr = p
    BY DEF LinksConsistent
  <2>9. /\ task \in Structs /\ Members(task) \in SUBSET Task
        /\ Lists(task, Members(task), Stale)
    BY <1>1 DEF IInv, TypeOK, Structs, Members, TreeOK
  <2>2. OnList(task, Members(task), Stale)
    BY <2>9 DEF Lists
  <2>3. \A u \in Task : pc[u] # "loop"
    BY <1>1, <2>1, TaskAssumption DEF IInv, LockOK, CanRead
  <2>4. ASSUME NEW q \in Task, q \in Stale, q # NULL PROVE pc[task[q].p_pptr] = "relock"
    <3>1. PICK v \in Task : pc[v] \in {"loop", "relock"} /\ q = task[v].p_cptr
      BY <2>4 DEF Stale
    <3>2. task[q].p_pptr = v
      BY <2>2, <2>4, <3>1 DEF OnList
    <3> QED
      BY <2>3, <3>1, <3>2
  <2>5. \A q \in Members(task) : Live(q) /\ q \in Task /\ q # NULL
    BY TaskAssumption DEF Members, Live
  <2>6. ASSUME task[p].p_cptr # NULL
        PROVE  /\ Live(task[p].p_cptr) /\ task[task[p].p_cptr].p_pptr = p
               /\ pc[p] # "relock" => task[task[p].p_cptr].p_ysptr = NULL
    <3>1. PICK c : c = task[p].p_cptr
      OBVIOUS
    <3>2. /\ c \in Members(task) /\ task[c].p_pptr = p
          /\ c \notin Stale => task[c].p_ysptr = NULL
      BY <2>2, <2>6, <3>1 DEF OnList
    <3>3. Live(c) /\ (c \in Stale => pc[p] = "relock")
      BY <2>4, <2>5, <3>2
    <3> QED
      BY <3>1, <3>2, <3>3
  <2>7. ASSUME task[p].p_osptr # NULL
        PROVE  /\ Live(task[p].p_osptr) /\ task[task[p].p_osptr].p_pptr = task[p].p_pptr
               /\ task[task[p].p_osptr].p_ysptr = p
    <3>1. p \in Members(task)
      BY <1>1, <2>1, <2>7 DEF IInv, Kin, Members, Live
    <3> QED
      BY <2>2, <2>5, <2>7, <3>1 DEF OnList
  <2>8. ASSUME p # child_reaper
        PROVE  /\ Live(task[p].p_pptr) /\ Live(task[p].p_opptr)
               /\ \E n \in 1 .. Cardinality(Task) : Child(task, task[p].p_pptr)[n] = p
               /\ \/ task[p].p_ysptr = NULL
                  \/ /\ pc[task[p].p_pptr] = "relock"
                     /\ task[task[p].p_pptr].p_cptr = p
                  \/ task[task[p].p_ysptr].p_osptr = p
    <3>1. p \in Members(task)
      BY <2>1, <2>8 DEF Members, Live
    <3>2. KinAt(p)
      BY <1>1, <3>1 DEF IInv, Kin
    <3>3. Live(task[p].p_pptr) /\ Live(task[p].p_opptr)
      <4>1. /\ task[p].p_pptr \in Task /\ pc[task[p].p_pptr] # "none"
            /\ task[p].p_opptr \in Task /\ pc[task[p].p_opptr] # "none"
        BY <3>2 DEF KinAt, Gone, Orphaned
      <4> QED
        BY <1>1, <4>1 DEF IInv, StateOK, StateAt, Live
    <3>4. \E n \in 1 .. Slots : Child(task, task[p].p_pptr)[n] = p
      BY <1>1, <3>1, ListedByParent
    <3>5. CASE task[task[p].p_pptr].p_cptr # p
      <4>1. task[task[p].p_ysptr].p_osptr = p
        BY <2>2, <3>1, <3>5 DEF OnList
      <4> QED
        BY <3>3, <3>4, <4>1 DEF Slots
    <3>6. CASE task[task[p].p_pptr].p_cptr = p
      <4>1. task[p].p_pptr \in Task /\ p # NULL
        BY <2>5, <3>1, <3>2 DEF KinAt
      <4>2. p \notin Stale => task[p].p_ysptr = NULL
        BY <2>2, <3>6, <4>1 DEF OnList
      <4>3. p \in Stale => pc[task[p].p_pptr] = "relock"
        BY <2>4, <4>1
      <4> QED
        BY <3>3, <3>4, <3>6, <4>2, <4>3 DEF Slots
    <3> QED
      BY <3>5, <3>6
  <2> QED
    BY <2>6, <2>7, <2>8
<1> QED
  BY <1>1, Invariance, PTL

\* Nobody is left behind with a parent, or an original parent, that has gone through
\* exit_notify.
THEOREM ReparentingAlwaysComplete ==
  ASSUME BuildsApart
  PROVE  Spec => []ReparentingComplete
<1>1. ASSUME IInv PROVE ReparentingComplete
  <2>1. SUFFICES ASSUME NEW t \in Task, pc[t] \in {"leave", "dead", "none"},
                        NEW p \in Task, Live(p)
                 PROVE  t \notin {task[p].p_pptr, task[p].p_opptr}
    BY DEF ReparentingComplete
  <2>2. CASE p = child_reaper
    BY <1>1, <2>2, TaskAssumption DEF IInv, Kin
  <2>3. CASE p # child_reaper
    <3>1. KinAt(p)
      BY <1>1, <2>1, <2>3 DEF IInv, Kin, Members, Live
    <3> QED
      BY <2>1, <3>1 DEF KinAt, Gone, Orphaned
  <2> QED
    BY <2>2, <2>3
<1> QED
  BY <1>1, Invariance, PTL

\* The zombie that wait4 has found and works on without the lock stays one, and stays the
\* child of its thread group.
THEOREM FoundAlwaysZombie ==
  ASSUME BuildsApart
  PROVE  Spec => []FoundStaysZombie
<1>1. ASSUME IInv PROVE FoundStaysZombie
  BY <1>1 DEF IInv, LocalOK, LocalAt, FoundStaysZombie
<1> QED
  BY <1>1, Invariance, PTL

\* No exit is missed by who is going to sleep in wait4 or sleeps there: the state is set
\* before the scan, and whoever adds a zombie to the children wakes the parent.
THEOREM NoExitMissed ==
  ASSUME BuildsApart, \A b \in Builds : Clear(b)
  PROVE  Spec => []NoMissedExit
<1>1. ASSUME IInv PROVE NoMissedExit
  <2>1. SUFFICES ASSUME NEW t \in Task, pc[t] \in {"sched", "asleep"},
                        task[t].state = "INTERRUPTIBLE", NEW p, p \in Zombies(t)
                 PROVE  FALSE
    BY DEF NoMissedExit
  <2>2. Awaited(t, p)
    BY <1>1, <2>1, ZombiesAre
  <2>3. RestAt(t)
    BY <1>1 DEF IInv, TypeOK, RestOK
  <2> QED
    BY <2>1, <2>2, <2>3 DEF Awaited, RestAt
<1> QED
  BY <1>1, Invariance, PTL

\* release_task comes after the last schedule() of the process it frees.
LEMMA ReleasesTheDead ==
  ASSUME IInv, NEW t \in Task, release_task(t)
  PROVE  /\ pc[local[t].p] = "dead"
         /\ \A u \in Task : pc'[u] = "none" => pc[u] = "none" \/ u = local[t].p
<1>1. PICK p : p = local[t].p
  OBVIOUS
<1>2. /\ pc[t] = "release" /\ Turn(t) /\ (build.smp => pc[p] = "dead")
      /\ pc' = [pc EXCEPT ![p] = "none", ![t] = "user"]
  BY <1>1 DEF release_task, At, wait_task_inactive
<1>3. p \in Task /\ task[p].state = "ZOMBIE"
  BY <1>1, <1>2 DEF IInv, LocalOK, LocalAt, Members
<1>4. StateAt(p) /\ StateAt(t)
  BY <1>3 DEF IInv, StateOK
<1>5. t # p
  BY <1>2, <1>3, <1>4 DEF StateAt, InWait
<1>6. pc[p] = "dead"
  <2>1. CASE ~build.smp
    <3>1. pc[p] \in MayYield
      BY <1>2, <1>3, <1>5, <2>1 DEF Turn
    <3> QED
      BY <1>3, <1>4, <3>1 DEF MayYield, StateAt, InWait
  <2> QED
    BY <1>2, <2>1
<1> QED
  BY <1>1, <1>2, <1>6 DEF IInv, TypeOK

\* No other step frees a task.
LEMMA OnlyReleaseFrees ==
  ASSUME IInv, Next, NEW p \in Task, pc[p] # "none", pc'[p] = "none"
  PROVE  pc[p] = "dead"
<1>1. pc \in [Task -> PCs]
  BY DEF IInv, TypeOK
<1>2. PICK t \in Task :
        \/ KernelStep(t)
        \/ Fork(t) \/ reparent_to_init(t) \/ Wait4(t) \/ DoExit(t) \/ Signal(t)
        \/ \E q \in Task : PtraceAttach(t, q)
  BY DEF Next
<1>3. CASE release_task(t)
  BY <1>3, ReleasesTheDead
<1>4. CASE Repeat(t) \/ ScanFinds(t) \/ ScanWaits(t) \/ ScanReturns(t)
  BY <1>1, <1>4 DEF Repeat, ScanFinds, ScanWaits, ScanReturns, Goto
<1>5. CASE Schedule(t) \/ Resume(t) \/ CopyFails(t) \/ CopyOut(t) \/ HandBack(t)
  BY <1>1, <1>5 DEF Schedule, Resume, CopyFails, CopyOut, HandBack, Goto
<1>6. CASE ChooseReaper(t) \/ AssignReaper(t) \/ BecomeZombie(t) \/ GiveAwayChild(t)
  BY <1>1, <1>6 DEF ChooseReaper, AssignReaper, BecomeZombie, GiveAwayChild, Goto
<1>7. CASE Relock(t) \/ NoChildLeft(t) \/ Leave(t)
  BY <1>1, <1>7 DEF Relock, NoChildLeft, Leave, Goto
<1>8. CASE Wait4(t) \/ DoExit(t) \/ Signal(t) \/ reparent_to_init(t)
  BY <1>1, <1>8 DEF Wait4, DoExit, Signal, reparent_to_init, Goto
<1>9. CASE Fork(t)
  <2>1. PICK q : pc' = [pc EXCEPT ![q] = "user"]
    BY <1>9 DEF Fork
  <2> QED
    BY <1>1, <2>1
<1>10. CASE \E q \in Task : PtraceAttach(t, q)
  BY <1>10 DEF PtraceAttach
<1> QED
  BY <1>2, <1>3, <1>4, <1>5, <1>6, <1>7, <1>8, <1>9, <1>10 DEF KernelStep

\* The task_struct and the stack of a process are freed after its last schedule().
THEOREM FreedOnlyAfterLastSwitch ==
  ASSUME BuildsApart
  PROVE  Spec => FreedAfterLastSwitch
<1>1. ASSUME IInv, IInv', [Next]_vars
      PROVE  [\A p \in Task : task[p].state = "ZOMBIE" /\ task'[p].state = "FREE"
                                => pc[p] = "dead"]_vars
  <2>1. SUFFICES ASSUME Next, NEW p \in Task, task[p].state = "ZOMBIE",
                        task'[p].state = "FREE"
                 PROVE  pc[p] = "dead"
    BY <1>1
  <2>2. pc[p] # "none"
    BY <1>1, <2>1 DEF IInv, StateOK, StateAt
  <2>3. pc'[p] = "none"
    BY <1>1, <2>1 DEF IInv, StateOK, StateAt
  <2> QED
    BY <1>1, <2>1, <2>2, <2>3, OnlyReleaseFrees
<1> QED
  BY <1>1, Invariance, PTL DEF Spec, FreedAfterLastSwitch
=============================================================================
