---------------------------- MODULE SchedProofs ----------------------------
(***************************************************************************)
(* Theorems about Sched, for every value of its constants: its type        *)
(* invariant, and that overdue is final.  TypeOK is inductive, and every   *)
(* action is shown to preserve it from what is said first of the           *)
(* operator the action applies.  First come facts about the priority array *)
(* and about the arithmetic of slices: the lists of an array are read as   *)
(* sets, of which Holds says which set of tasks an array holds, and its    *)
(* operations add or remove one member.                                    *)
(***************************************************************************)
EXTENDS SchedProps, FiniteSetTheorems, SequenceTheorems, TLAPS

-----------------------------------------------------------------------------
(* The bitmap and the lists of a priority array, and slices *)

\* sched_find_first_bit of a bitmap that is not empty is its highest priority:
\* the CHOOSE of find_first_bit has a witness.
LEMMA FirstBit ==
  ASSUME NEW arr, arr.bitmap \in SUBSET Prio, arr.bitmap # {}
  PROVE  /\ find_first_bit(arr) \in arr.bitmap
         /\ \A j \in arr.bitmap : find_first_bit(arr) <= j
<1>1. arr.bitmap \subseteq Nat
  BY MaxPrioAssumption DEF Prio
<1> DEFINE R == {ss \in Nat \X Nat : ss[1] < ss[2]}
<1>2. IsWellFoundedOn(R, Nat)
  BY NatLessThanWellFounded, Zenon DEF OpToRel
<1> HIDE DEF R
<1>3. \E i \in arr.bitmap : \A j \in arr.bitmap : ~ (<< j, i >> \in R)
  BY <1>1, <1>2, WFMin
<1>4. \E i \in arr.bitmap : \A j \in arr.bitmap : i <= j
  <2>1. PICK i \in arr.bitmap : \A j \in arr.bitmap : ~ (<< j, i >> \in R)
    BY <1>3
  <2>2. \A m, n \in Nat : m < n => << m, n >> \in R
    BY DEF R
  <2>3. \A j \in arr.bitmap : j \in Nat /\ i \in Nat /\ ~ (j < i)
    BY <1>1, <2>1, <2>2
  <2> QED
    BY <2>3
<1> QED
  BY <1>4, Zenon DEF find_first_bit

\* A share b out of c of a, rounded down, is at most a.
LEMMA SliceBound ==
  ASSUME NEW a \in Nat, NEW b \in Nat, NEW c \in Nat \ {0}, b <= c
  PROVE  (a * b) \div c \in 0 .. a
<1>1. a * b \in Nat /\ a * b <= a * c
  OBVIOUS
<1>2. (a * b) \div c \in Nat /\ c * ((a * b) \div c) <= a * b
  BY <1>1
<1>3. c * ((a * b) \div c) <= c * a
  BY <1>1, <1>2
<1> QED
  BY <1>2, <1>3

-----------------------------------------------------------------------------
(* Lists without repetition, and the sets of their entries *)

Entries(q)  == {q[m] : m \in DOMAIN q}
Distinct(q) == \A m, n \in DOMAIN q : q[m] = q[n] => m = n

\* Unlinking entry j moves up the entries behind it.
LEMMA RemoveAtEntries ==
  ASSUME NEW q \in Seq(Task), NEW j \in 1 .. Len(q)
  PROVE  /\ RemoveAt(q, j) \in Seq(Task)
         /\ Len(RemoveAt(q, j)) = Len(q) - 1
         /\ \A m \in 1 .. Len(q) - 1 : RemoveAt(q, j)[m] = IF m < j THEN q[m] ELSE q[m + 1]
<1>1. q \in [1 .. Len(q) -> Task] /\ Len(q) \in Nat
  OBVIOUS
<1> DEFINE s == SubSeq(q, 1, j - 1)
           t == SubSeq(q, j + 1, Len(q))
<1>2. s \in Seq(Task) /\ Len(s) = j - 1 /\ \A m \in 1 .. j - 1 : s[m] = q[m]
  BY <1>1
<1>3. /\ t \in Seq(Task) /\ Len(t) = Len(q) - j
      /\ \A m \in 1 .. Len(q) - j : t[m] = q[m + j]
  <2>1. \A m \in j + 1 .. Len(q) : q[m] \in Task
    BY <1>1
  <2>2. /\ t \in Seq(Task) /\ Len(t) = IF j + 1 <= Len(q) THEN Len(q) - (j + 1) + 1 ELSE 0
        /\ \A m \in 1 .. Len(q) - (j + 1) + 1 : t[m] = q[j + 1 + m - 1]
    <3>1. j + 1 \in Int /\ Len(q) \in Int
      BY <1>1
    <3> QED
      BY <2>1, <3>1, SubSeqProperties
  <2>3. (IF j + 1 <= Len(q) THEN Len(q) - (j + 1) + 1 ELSE 0) = Len(q) - j
    <3>1. \A n \in Nat : \A m \in 1 .. n : (IF m + 1 <= n THEN n - (m + 1) + 1 ELSE 0) = n - m
      OBVIOUS
    <3> QED
      BY <1>1, <3>1, Zenon
  <2> HIDE DEF t
  <2>4. ASSUME NEW m \in 1 .. Len(q) - j PROVE t[m] = q[m + j]
    <3>1. m \in 1 .. Len(q) - (j + 1) + 1 /\ j + 1 + m - 1 = m + j
      BY <1>1
    <3> QED
      BY <2>2, <3>1
  <2> QED
    BY <2>2, <2>3, <2>4
<1>4. RemoveAt(q, j) = s \o t
  BY DEF RemoveAt
<1> HIDE DEF s, t
<1>5. /\ s \o t \in Seq(Task) /\ Len(s \o t) = Len(q) - 1
      /\ \A m \in 1 .. Len(q) - 1 : (s \o t)[m] = IF m < j THEN s[m] ELSE t[m - (j - 1)]
  <2>1. /\ s \o t \in Seq(Task) /\ Len(s \o t) = Len(s) + Len(t)
        /\ \A m \in 1 .. Len(s) + Len(t) :
             (s \o t)[m] = IF m <= Len(s) THEN s[m] ELSE t[m - Len(s)]
    BY <1>2, <1>3, ConcatProperties
  <2>2. Len(s) + Len(t) = Len(q) - 1
    BY <1>1, <1>2, <1>3
  <2>3. \A m \in 1 .. Len(q) - 1 : m <= Len(s) <=> m < j
    BY <1>1, <1>2
  <2> HIDE DEF s, t
  <2> QED
    BY <1>2, <2>1, <2>2, <2>3
<1>6. ASSUME NEW m \in 1 .. Len(q) - 1
      PROVE  (s \o t)[m] = IF m < j THEN q[m] ELSE q[m + 1]
  <2>1. CASE m < j
    <3>1. m \in 1 .. j - 1 /\ s[m] = q[m]
      BY <1>1, <1>2, <2>1
    <3> QED
      BY <1>5, <2>1, <3>1
  <2>2. CASE ~(m < j)
    <3>1. m - (j - 1) \in 1 .. Len(q) - j /\ m - (j - 1) + j = m + 1
      BY <1>1, <2>2
    <3>2. t[m - (j - 1)] = q[m + 1]
      BY <1>3, <3>1
    <3> QED
      BY <1>5, <2>2, <3>2
  <2> QED
    BY <2>1, <2>2
<1> QED
  BY <1>4, <1>5, <1>6

\* list_del of a linked task: its list without it.
LEMMA ListDel ==
  ASSUME NEW q \in Seq(Task), NEW p \in Entries(q), Distinct(q)
  PROVE  /\ list_del(q, p) \in Seq(Task)
         /\ Distinct(list_del(q, p))
         /\ Entries(list_del(q, p)) = Entries(q) \ {p}
<1> DEFINE j == CHOOSE m \in DOMAIN q : q[m] = p
<1>1. j \in 1 .. Len(q) /\ q[j] = p /\ list_del(q, p) = RemoveAt(q, j)
  <2>1. \E m \in DOMAIN q : q[m] = p
    BY DEF Entries
  <2>2. j \in DOMAIN q /\ q[j] = p
    BY <2>1
  <2>3. list_del(q, p) = RemoveAt(q, j)
    BY DEF list_del
  <2> QED
    BY <2>2, <2>3
<1> HIDE DEF j
<1> DEFINE r == RemoveAt(q, j)
<1>2. /\ r \in Seq(Task) /\ DOMAIN r = 1 .. Len(q) - 1
      /\ \A m \in 1 .. Len(q) - 1 : r[m] = IF m < j THEN q[m] ELSE q[m + 1]
  <2>1. /\ r \in Seq(Task) /\ Len(r) = Len(q) - 1
        /\ \A m \in 1 .. Len(q) - 1 : r[m] = IF m < j THEN q[m] ELSE q[m + 1]
    BY <1>1, RemoveAtEntries
  <2> HIDE DEF r
  <2> QED
    BY <2>1
<1>3. DOMAIN q = 1 .. Len(q) /\ Len(q) \in Nat
  OBVIOUS
<1> HIDE DEF r
<1>4. Distinct(r)
  <2>1. SUFFICES ASSUME NEW m \in 1 .. Len(q) - 1, NEW n \in 1 .. Len(q) - 1, r[m] = r[n]
                 PROVE  m = n
    BY <1>2 DEF Distinct
  <2> DEFINE at(x) == IF x < j THEN x ELSE x + 1
  <2>2. at(m) \in DOMAIN q /\ at(n) \in DOMAIN q /\ q[at(m)] = q[at(n)]
    BY <1>1, <1>2, <1>3, <2>1
  <2>3. at(m) = at(n)
    BY <2>2, Zenon DEF Distinct
  <2> QED
    BY <1>1, <1>3, <2>3
<1>5. ASSUME NEW x \in Entries(r) PROVE x \in Entries(q) \ {p}
  <2>1. PICK m \in 1 .. Len(q) - 1 : x = r[m]
    BY <1>2 DEF Entries
  <2> DEFINE n == IF m < j THEN m ELSE m + 1
  <2>2. n \in DOMAIN q /\ x = q[n] /\ n # j
    BY <1>1, <1>2, <1>3, <2>1
  <2>3. x \in Entries(q)
    BY <2>2 DEF Entries
  <2>4. x # p
    <3>1. j \in DOMAIN q /\ q[j] = p
      BY <1>1
    <3> QED
      BY <2>2, <3>1 DEF Distinct
  <2> QED
    BY <2>3, <2>4
<1>6. ASSUME NEW x \in Entries(q), x # p PROVE x \in Entries(r)
  <2>1. PICK m \in 1 .. Len(q) : x = q[m]
    BY <1>3 DEF Entries
  <2>2. m # j
    BY <1>1, <1>6, <2>1
  <2>3. CASE m < j
    <3>1. m \in 1 .. Len(q) - 1 /\ r[m] = x
      BY <1>1, <1>2, <1>3, <2>1, <2>3
    <3> QED
      BY <1>2, <3>1 DEF Entries
  <2>4. CASE m > j
    <3>1. m - 1 \in 1 .. Len(q) - 1 /\ r[m - 1] = x
      BY <1>1, <1>2, <1>3, <2>1, <2>4
    <3> QED
      BY <1>2, <3>1 DEF Entries
  <2> QED
    BY <1>1, <2>2, <2>3, <2>4
<1> QED
  BY <1>1, <1>2, <1>4, <1>5, <1>6 DEF r

\* list_add_tail of a task that is not linked.
LEMMA ListAddTail ==
  ASSUME NEW q \in Seq(Task), NEW p \in Task, p \notin Entries(q), Distinct(q)
  PROVE  /\ Append(q, p) \in Seq(Task)
         /\ Distinct(Append(q, p))
         /\ Entries(Append(q, p)) = Entries(q) \cup {p}
<1> DEFINE r == Append(q, p)
<1>1. /\ r \in Seq(Task) /\ DOMAIN r = 1 .. Len(q) + 1 /\ r[Len(q) + 1] = p
      /\ \A m \in 1 .. Len(q) : r[m] = q[m]
  OBVIOUS
<1>2. DOMAIN q = 1 .. Len(q) /\ Len(q) \in Nat
  OBVIOUS
<1> HIDE DEF r
<1>3. Distinct(r)
  BY <1>1, <1>2 DEF Distinct, Entries
<1>4. Entries(r) = Entries(q) \cup {p}
  BY <1>1, <1>2 DEF Entries
<1> QED
  BY <1>1, <1>3, <1>4 DEF r

\* list_add behind the first entry, of a task that is not linked.
LEMMA ListAddSecond ==
  ASSUME NEW q \in Seq(Task), NEW p \in Task, p \notin Entries(q), Distinct(q)
  PROVE  /\ list_add_after_first(q, p) \in Seq(Task)
         /\ Distinct(list_add_after_first(q, p))
         /\ Entries(list_add_after_first(q, p)) = Entries(q) \cup {p}
<1> DEFINE r == list_add_after_first(q, p)
<1>1. DOMAIN q = 1 .. Len(q) /\ Len(q) \in Nat
  OBVIOUS
<1>2. CASE q = << >>
  <2>1. r = << p >>
    BY <1>2 DEF list_add_after_first
  <2>2. Entries(q) = {} /\ Entries(r) = {p} /\ DOMAIN r = {1} /\ r \in Seq(Task)
    <3>1. DOMAIN << p >> = {1} /\ << p >>[1] = p /\ << p >> \in Seq(Task)
      OBVIOUS
    <3>2. DOMAIN q = {}
      BY <1>2
    <3> HIDE DEF r
    <3> QED
      BY <2>1, <3>1, <3>2 DEF Entries
  <2>3. Distinct(r)
    BY <2>2 DEF Distinct
  <2> QED
    BY <2>2, <2>3
<1>3. CASE q # << >>
  <2>1. /\ r \in Seq(Task) /\ DOMAIN r = 1 .. Len(q) + 1
        /\ r[1] = q[1] /\ r[2] = p
        /\ \A m \in 2 .. Len(q) : r[m + 1] = q[m]
    BY <1>3 DEF list_add_after_first, InsertAt
  <2> HIDE DEF r
  <2>2. \A m \in 1 .. Len(q) + 1 :
          r[m] = IF m = 1 THEN q[1] ELSE IF m = 2 THEN p ELSE q[m - 1]
    <3>1. ASSUME NEW m \in 3 .. Len(q) + 1 PROVE r[m] = q[m - 1]
      <4>1. m - 1 \in 2 .. Len(q) /\ (m - 1) + 1 = m
        BY <1>1
      <4> QED
        BY <2>1, <4>1
    <3> QED
      BY <1>1, <2>1, <3>1
  <2>3. Len(q) >= 1
    BY <1>1, <1>3
  <2>4. Distinct(r)
    <3>1. SUFFICES ASSUME NEW m \in 1 .. Len(q) + 1, NEW n \in 1 .. Len(q) + 1, r[m] = r[n]
                   PROVE  m = n
      BY <2>1 DEF Distinct
    <3> DEFINE at(x) == IF x = 1 THEN 1 ELSE x - 1
    <3>2. \A x \in 1 .. Len(q) + 1 : x # 2 => at(x) \in DOMAIN q /\ r[x] = q[at(x)]
      BY <1>1, <2>1, <2>2, <2>3
    <3>3. \A x \in 1 .. Len(q) + 1 : x # 2 => r[x] # p
      BY <3>2 DEF Entries
    <3>4. CASE m # 2 /\ n # 2
      <4>1. at(m) \in DOMAIN q /\ at(n) \in DOMAIN q /\ q[at(m)] = q[at(n)]
        BY <3>1, <3>2, <3>4
      <4> HIDE DEF at
      <4>2. at(m) = at(n)
        BY <4>1 DEF Distinct
      <4> QED
        BY <1>1, <3>4, <4>2 DEF at
    <3>5. r[2] = p
      BY <2>1
    <3> QED
      BY <3>1, <3>3, <3>4, <3>5
  <2>5. Entries(r) \subseteq Entries(q) \cup {p}
    BY <1>1, <2>1, <2>2, <2>3 DEF Entries
  <2>6. ASSUME NEW x \in Entries(q) \cup {p} PROVE x \in Entries(r)
    <3>1. CASE x = p
      BY <1>1, <2>1, <2>3, <3>1 DEF Entries
    <3>2. CASE x # p
      <4>1. PICK m \in 1 .. Len(q) : x = q[m]
        BY <1>1, <3>2 DEF Entries
      <4>2. x = r[IF m = 1 THEN 1 ELSE m + 1]
        BY <1>1, <2>1, <4>1
      <4>3. (IF m = 1 THEN 1 ELSE m + 1) \in DOMAIN r
        BY <1>1, <2>1
      <4> QED
        BY <4>2, <4>3 DEF Entries
    <3> QED
      BY <3>1, <3>2
  <2> QED
    BY <2>1, <2>4, <2>5, <2>6 DEF r
<1> QED
  BY <1>2, <1>3

\* Only the empty list has no entries.
LEMMA NoEntries ==
  ASSUME NEW q \in Seq(Task)
  PROVE  q = << >> <=> Entries(q) = {}
<1>1. DOMAIN q = 1 .. Len(q) /\ Len(q) \in Nat
  OBVIOUS
<1>2. q # << >> => 1 \in DOMAIN q
  BY <1>1
<1>3. q = << >> => DOMAIN q = {}
  BY <1>1
<1> QED
  BY <1>2, <1>3 DEF Entries

-----------------------------------------------------------------------------
(* The set of tasks an array holds, and what the operations do to it *)

\* The array holds the tasks S, each in the list of its priority in tk: a bit is
\* set exactly for a non-empty list, no task is linked twice, and nr_active counts
\* them.
Holds(arr, S, tk) ==
  /\ \A i \in Prio :
       /\ i \in arr.bitmap <=> arr.queue[i] # << >>
       /\ Distinct(arr.queue[i])
       /\ Entries(arr.queue[i]) = {q \in S : tk[q].prio = i}
  /\ arr.nr_active = Cardinality(S)

\* What an array holds depends on the priorities of its tasks only.
LEMMA HoldsSame ==
  ASSUME NEW arr, NEW S, NEW tk, NEW tk2, Holds(arr, S, tk),
         \A q \in S : tk2[q].prio = tk[q].prio
  PROVE  Holds(arr, S, tk2)
BY DEF Holds

\* enqueue_task adds a task (sched.c:281-287).
LEMMA EnqueueHolds ==
  ASSUME NEW arr \in PrioArrays, NEW S \in SUBSET Task, IsFiniteSet(S), NEW tk,
         NEW p \in Task \ S, NEW i \in Prio, tk[p].prio = i, Holds(arr, S, tk)
  PROVE  Holds(enqueue(arr, p, i), S \cup {p}, tk)
<1> DEFINE arr2 == enqueue(arr, p, i)
<1>1. /\ arr2.queue = [arr.queue EXCEPT ![i] = Append(arr.queue[i], p)]
      /\ arr2.bitmap = arr.bitmap \cup {i} /\ arr2.nr_active = arr.nr_active + 1
  BY DEF enqueue, PrioArrays
<1>2. arr.queue \in [Prio -> Seq(Task)]
  BY DEF PrioArrays
<1>3. p \notin Entries(arr.queue[i])
  BY DEF Holds
<1>4. /\ Distinct(arr2.queue[i]) /\ arr2.queue[i] # << >>
      /\ Entries(arr2.queue[i]) = Entries(arr.queue[i]) \cup {p}
  BY <1>1, <1>2, <1>3, ListAddTail DEF Holds
<1>5. \A j \in Prio \ {i} : arr2.queue[j] = arr.queue[j]
  BY <1>1, <1>2
<1>6. arr2.nr_active = Cardinality(S \cup {p})
  <2>1. Cardinality(S \cup {p}) = Cardinality(S) + 1
    BY FS_AddElement
  <2> QED
    BY <1>1, <2>1 DEF Holds
<1> HIDE DEF arr2
<1>7. ASSUME NEW j \in Prio
      PROVE  /\ j \in arr2.bitmap <=> arr2.queue[j] # << >>
             /\ Distinct(arr2.queue[j])
             /\ Entries(arr2.queue[j]) = {q \in S \cup {p} : tk[q].prio = j}
  <2>1. CASE j = i
    BY <1>1, <1>4, <2>1 DEF Holds
  <2>2. CASE j # i
    BY <1>1, <1>5, <2>2 DEF Holds
  <2> QED
    BY <2>1, <2>2
<1> QED
  BY <1>6, <1>7 DEF Holds, arr2

\* dequeue_task finds the task in its list, and removes it (sched.c:273-279).
LEMMA DequeueHolds ==
  ASSUME NEW arr \in PrioArrays, NEW S \in SUBSET Task, IsFiniteSet(S), NEW tk,
         NEW p \in S, NEW i \in Prio, tk[p].prio = i, Holds(arr, S, tk)
  PROVE  Linked(arr, p, i) /\ Holds(dequeue(arr, p, i), S \ {p}, tk)
<1> DEFINE arr2 == dequeue(arr, p, i)
           q2   == list_del(arr.queue[i], p)
<1>1. arr.queue \in [Prio -> Seq(Task)] /\ arr.bitmap \in SUBSET Prio
  BY DEF PrioArrays
<1>2. p \in Entries(arr.queue[i]) /\ Distinct(arr.queue[i])
  BY DEF Holds
<1>3. Linked(arr, p, i)
  BY <1>2 DEF Linked, Entries
<1>4. q2 \in Seq(Task) /\ Distinct(q2) /\ Entries(q2) = Entries(arr.queue[i]) \ {p}
  BY <1>1, <1>2, ListDel
<1>5. /\ arr2.queue = [arr.queue EXCEPT ![i] = q2]
      /\ arr2.bitmap = IF q2 = << >> THEN arr.bitmap \ {i} ELSE arr.bitmap
      /\ arr2.nr_active = arr.nr_active - 1
  BY DEF dequeue
<1> HIDE DEF q2
<1>6. arr2.queue[i] = q2 /\ \A j \in Prio \ {i} : arr2.queue[j] = arr.queue[j]
  BY <1>1, <1>5
<1>7. arr2.nr_active = Cardinality(S \ {p})
  BY <1>5, FS_RemoveElement DEF Holds
<1>8. arr.queue[i] # << >>
  BY <1>1, <1>2, NoEntries
<1> HIDE DEF arr2
<1>9. ASSUME NEW j \in Prio
      PROVE  /\ j \in arr2.bitmap <=> arr2.queue[j] # << >>
             /\ Distinct(arr2.queue[j])
             /\ Entries(arr2.queue[j]) = {q \in S \ {p} : tk[q].prio = j}
  <2>1. CASE j = i
    BY <1>4, <1>5, <1>6, <1>8, <2>1 DEF Holds
  <2>2. CASE j # i
    BY <1>5, <1>6, <2>2 DEF Holds
  <2> QED
    BY <2>1, <2>2
<1> QED
  BY <1>3, <1>7, <1>9 DEF Holds, arr2

\* The highest priority of a non-empty array: its list is not empty, and no task
\* of the array has a higher one.
LEMMA FirstHolds ==
  ASSUME NEW arr \in PrioArrays, NEW S \in SUBSET Task, IsFiniteSet(S), NEW tk,
         Holds(arr, S, tk), \A q \in S : tk[q].prio \in Prio
  PROVE  /\ arr.nr_active \in Nat /\ (arr.nr_active = 0 <=> S = {})
         /\ S # {} =>
              LET i == find_first_bit(arr)
              IN  /\ i \in Prio /\ arr.queue[i] # << >>
                  /\ Head(arr.queue[i]) \in {q \in S : tk[q].prio = i}
                  /\ \A q \in S : i <= tk[q].prio
<1>1. arr.queue \in [Prio -> Seq(Task)] /\ arr.bitmap \in SUBSET Prio
  BY DEF PrioArrays
<1>2. arr.nr_active \in Nat /\ (arr.nr_active = 0 <=> S = {})
  BY FS_CardinalityType, FS_EmptySet DEF Holds
<1>3. \A q \in S : tk[q].prio \in arr.bitmap
  <2>1. SUFFICES ASSUME NEW q \in S PROVE tk[q].prio \in arr.bitmap
    OBVIOUS
  <2>2. q \in Entries(arr.queue[tk[q].prio])
    BY DEF Holds
  <2> QED
    BY <1>1, <2>2, NoEntries DEF Holds
<1>4. ASSUME S # {}
      PROVE  LET i == find_first_bit(arr)
             IN  /\ i \in Prio /\ arr.queue[i] # << >>
                 /\ Head(arr.queue[i]) \in {q \in S : tk[q].prio = i}
                 /\ \A q \in S : i <= tk[q].prio
  <2> DEFINE i == find_first_bit(arr)
  <2>1. i \in arr.bitmap /\ \A j \in arr.bitmap : i <= j
    BY <1>1, <1>3, <1>4, FirstBit
  <2> HIDE DEF i
  <2>2. i \in Prio /\ arr.queue[i] # << >>
    BY <1>1, <2>1 DEF Holds
  <2>3. Head(arr.queue[i]) \in Entries(arr.queue[i])
    <3>1. arr.queue[i] \in Seq(Task)
      BY <1>1, <2>2
    <3>2. 1 \in DOMAIN arr.queue[i] /\ Head(arr.queue[i]) = arr.queue[i][1]
      BY <3>1, <2>2
    <3> QED
      BY <3>2 DEF Entries
  <2> QED
    BY <1>3, <2>1, <2>2, <2>3 DEF Holds, i
<1> QED
  BY <1>2, <1>4

\* p is unlinked from the list of priority i and linked in that of to, at its end or
\* behind its first entry: the same list, or one it moves to because it was alone.
Relinked(arr, arr2, p, i, to) ==
  LET rest == list_del(arr.queue[i], p)
      from == IF to = i THEN rest ELSE arr.queue[to]
  IN  /\ arr2.nr_active = arr.nr_active /\ arr2.bitmap = (arr.bitmap \ {i}) \cup {to}
      /\ arr2.queue[to] \in {Append(from, p), list_add_after_first(from, p)}
      /\ to # i => rest = << >> /\ arr2.queue[i] = rest
      /\ \A j \in Prio \ {i, to} : arr2.queue[j] = arr.queue[j]

\* The array holds it under the priority it is moved to.
LEMMA RelinkHolds ==
  ASSUME NEW arr \in PrioArrays, NEW S \in SUBSET Task, NEW tk, NEW tk2, NEW p \in S,
         NEW i \in Prio, NEW to \in Prio, NEW arr2 \in PrioArrays, Holds(arr, S, tk),
         Relinked(arr, arr2, p, i, to), tk[p].prio = i, tk2[p].prio = to,
         \A q \in S \ {p} : tk2[q].prio = tk[q].prio
  PROVE  Holds(arr2, S, tk2)
<1> DEFINE rest == list_del(arr.queue[i], p)
           from == IF to = i THEN rest ELSE arr.queue[to]
<1>0. /\ arr2.nr_active = arr.nr_active /\ arr2.bitmap = (arr.bitmap \ {i}) \cup {to}
      /\ arr2.queue[to] \in {Append(from, p), list_add_after_first(from, p)}
      /\ to # i => rest = << >> /\ arr2.queue[i] = rest
      /\ \A j \in Prio \ {i, to} : arr2.queue[j] = arr.queue[j]
  BY DEF Relinked
<1>1. /\ arr.queue \in [Prio -> Seq(Task)] /\ arr.bitmap \in SUBSET Prio
      /\ arr2.queue \in [Prio -> Seq(Task)]
  BY DEF PrioArrays
<1>2. p \in Entries(arr.queue[i]) /\ Distinct(arr.queue[i])
  BY DEF Holds
<1>3. rest \in Seq(Task) /\ Distinct(rest) /\ Entries(rest) = Entries(arr.queue[i]) \ {p}
  BY <1>1, <1>2, ListDel
<1> HIDE DEF rest
<1>4. /\ from \in Seq(Task) /\ Distinct(from) /\ p \notin Entries(from)
      /\ Entries(from) = {q \in S \ {p} : tk[q].prio = to}
  BY <1>1, <1>3 DEF Holds
<1> HIDE DEF from
<1>5. /\ Distinct(arr2.queue[to])
      /\ Entries(arr2.queue[to]) = Entries(from) \cup {p}
  <2>1. /\ Distinct(Append(from, p)) /\ Entries(Append(from, p)) = Entries(from) \cup {p}
        /\ Distinct(list_add_after_first(from, p))
        /\ Entries(list_add_after_first(from, p)) = Entries(from) \cup {p}
    BY <1>4, ListAddTail, ListAddSecond
  <2> QED
    BY <1>0, <2>1
<1>6. Entries(arr2.queue[to]) = {q \in S : tk2[q].prio = to} /\ arr2.queue[to] # << >>
  BY <1>1, <1>4, <1>5, NoEntries
<1>7. ASSUME to # i
      PROVE  arr2.queue[i] = << >> /\ Distinct(arr2.queue[i])
             /\ Entries(arr2.queue[i]) = {q \in S : tk2[q].prio = i}
  <2>1. Entries(arr.queue[i]) \ {p} = {}
    BY <1>0, <1>1, <1>3, <1>7, NoEntries
  <2>2. \A q \in S : tk2[q].prio # i
    BY <1>7, <2>1 DEF Holds
  <2>3. rest = << >> /\ Entries(rest) = {} /\ arr2.queue[i] = rest
    BY <1>0, <1>3, <1>7, <2>1
  <2> QED
    BY <1>3, <2>2, <2>3
<1>8. ASSUME NEW j \in Prio
      PROVE  /\ j \in arr2.bitmap <=> arr2.queue[j] # << >>
             /\ Distinct(arr2.queue[j])
             /\ Entries(arr2.queue[j]) = {q \in S : tk2[q].prio = j}
  <2>1. CASE j = to
    BY <1>0, <1>5, <1>6, <2>1
  <2>2. CASE j = i /\ to # i
    BY <1>0, <1>7, <2>2
  <2>3. CASE j # i /\ j # to
    BY <1>0, <2>3 DEF Holds
  <2> QED
    BY <2>1, <2>2, <2>3
<1> QED
  BY <1>0, <1>8 DEF Holds

-----------------------------------------------------------------------------
(* What the operators of Sched preserve, each proved from what the ones it calls *)
(* preserve: the type of a kernel state, and that a process which is overdue     *)
(* stays so.                                                                     *)

\* The kernel states the operators of Sched map to each other.
Kernels == {k \in [task : [AllTask -> TaskStructs], rq : RunQueues, oops : Oopses] :
              \A p \in Task : k.task[p].prio \in Prio}

\* Every process that is overdue in k is overdue in k2.
KeepsOverdue(k, k2) == \A q \in AllTask : Overdue(k.task[q]) => Overdue(k2.task[q])

\* What every operator guarantees of its result k2.
Evolves(k, k2) == k2 \in Kernels /\ KeepsOverdue(k, k2)

\* No change is a change of the kind Evolves allows.
LEMMA EvolvesRefl == ASSUME NEW k \in Kernels PROVE Evolves(k, k)
BY DEF Evolves, KeepsOverdue

\* Changes of that kind compose.
LEMMA EvolvesTrans ==
  ASSUME NEW k1, NEW k2, NEW k3, Evolves(k1, k2), Evolves(k2, k3)
  PROVE  Evolves(k1, k3)
BY DEF Evolves, KeepsOverdue

-----------------------------------------------------------------------------
(* The priority arrays, and single assignments *)

\* enqueue_task keeps the type of a priority array (sched.c:281-287).
LEMMA EnqueueType ==
  ASSUME NEW arr \in PrioArrays, NEW p \in Task, NEW i \in Prio
  PROVE  enqueue(arr, p, i) \in PrioArrays
BY DEF enqueue, PrioArrays

\* dequeue_task keeps the type of an array the task is linked in
\* (sched.c:273-279).
LEMMA DequeueType ==
  ASSUME NEW arr \in PrioArrays, NEW p, NEW i \in Prio, Linked(arr, p, i)
  PROVE  dequeue(arr, p, i) \in PrioArrays
BY DEF dequeue, PrioArrays, Linked, list_del, RemoveAt

\* The types of the fields of a task_struct.
LEMMA TaskFields ==
  ASSUME NEW t \in TaskStructs
  PROVE  /\ t.state \in States /\ t.policy \in Policies /\ t.prio \in 0 .. MAX_PRIO
         /\ t.static_prio \in UserPrio /\ t.array \in ArrayId \cup {"NULL"}
         /\ t.time_slice \in 0 .. UINT - 1 /\ t.first_time_slice \in BOOLEAN
         /\ t.need_resched \in BOOLEAN /\ t.parent \in Task
         /\ t.requested_time \in Nat /\ t.number_of_trials \in Int
         /\ t.current_trial \in Nat /\ t.is_overdue \in BOOLEAN
BY DEF TaskStructs

\* An assignment of a value of its type to one field keeps the type of a
\* task_struct.
LEMMA SetField ==
  ASSUME NEW t \in TaskStructs
  PROVE  /\ \A v \in States : [t EXCEPT !.state = v] \in TaskStructs
         /\ \A v \in Policies : [t EXCEPT !.policy = v] \in TaskStructs
         /\ \A v \in Prio : [t EXCEPT !.prio = v] \in TaskStructs
         /\ \A v \in UserPrio : [t EXCEPT !.static_prio = v] \in TaskStructs
         /\ \A v \in ArrayId \cup {"NULL"} : [t EXCEPT !.array = v] \in TaskStructs
         /\ \A v \in 0 .. UINT - 1 : [t EXCEPT !.time_slice = v] \in TaskStructs
         /\ \A v \in BOOLEAN : [t EXCEPT !.need_resched = v] \in TaskStructs
         /\ \A v \in BOOLEAN : [t EXCEPT !.is_overdue = v] \in TaskStructs
<1>1. \A v \in States : [t EXCEPT !.state = v] \in TaskStructs
  BY DEF TaskStructs
<1>2. \A v \in Policies : [t EXCEPT !.policy = v] \in TaskStructs
  BY DEF TaskStructs
<1>3. \A v \in Prio : [t EXCEPT !.prio = v] \in TaskStructs
  BY MaxPrioAssumption DEF TaskStructs, Prio
<1>4. \A v \in UserPrio : [t EXCEPT !.static_prio = v] \in TaskStructs
  BY DEF TaskStructs
<1>5. \A v \in ArrayId \cup {"NULL"} : [t EXCEPT !.array = v] \in TaskStructs
  BY DEF TaskStructs
<1>6. \A v \in 0 .. UINT - 1 : [t EXCEPT !.time_slice = v] \in TaskStructs
  BY DEF TaskStructs
<1>7. \A v \in BOOLEAN : [t EXCEPT !.need_resched = v] \in TaskStructs
  BY DEF TaskStructs
<1>8. \A v \in BOOLEAN : [t EXCEPT !.is_overdue = v] \in TaskStructs
  BY DEF TaskStructs
<1> QED
  BY <1>1, <1>2, <1>3, <1>4, <1>5, <1>6, <1>7, <1>8

\* A kernel state is made of its three parts.
LEMMA KernelParts ==
  ASSUME NEW k \in Kernels
  PROVE  /\ k.task \in [AllTask -> TaskStructs] /\ \A p \in Task : k.task[p].prio \in Prio
         /\ k.rq \in RunQueues /\ k.oops \in Oopses
         /\ k = [task |-> k.task, rq |-> k.rq, oops |-> k.oops]
BY DEF Kernels

\* Three well-typed parts make a kernel state.
LEMMA KernelMake ==
  ASSUME NEW tk \in [AllTask -> TaskStructs], \A p \in Task : tk[p].prio \in Prio,
         NEW r \in RunQueues, NEW o \in Oopses
  PROVE  [task |-> tk, rq |-> r, oops |-> o] \in Kernels
BY DEF Kernels

\* Replacing one task_struct by a well-typed one that is not less overdue.
LEMMA SetTask ==
  ASSUME NEW k \in Kernels, NEW p \in AllTask, NEW t \in TaskStructs,
         p \in Task => t.prio \in Prio, Overdue(k.task[p]) => Overdue(t)
  PROVE  Evolves(k, [k EXCEPT !.task[p] = t])
<1> DEFINE tk == [k.task EXCEPT ![p] = t]
<1>1. [k EXCEPT !.task[p] = t] = [task |-> tk, rq |-> k.rq, oops |-> k.oops]
  BY KernelParts DEF Kernels
<1>2. tk \in [AllTask -> TaskStructs] /\ \A q \in Task : tk[q].prio \in Prio
  BY KernelParts DEF AllTask
<1>3. \A q \in AllTask : Overdue(k.task[q]) => Overdue(tk[q])
  BY KernelParts
<1> HIDE DEF tk
<1> QED
  BY <1>1, <1>2, <1>3, KernelMake, KernelParts DEF Evolves, KeepsOverdue

\* Replacing the runqueue.
LEMMA SetRq ==
  ASSUME NEW k \in Kernels, NEW r \in RunQueues
  PROVE  Evolves(k, [k EXCEPT !.rq = r])
<1>1. [k EXCEPT !.rq = r] = [task |-> k.task, rq |-> r, oops |-> k.oops]
  BY DEF Kernels
<1> QED
  BY <1>1, KernelMake, KernelParts DEF Evolves, KeepsOverdue

\* Replacing one priority array.
LEMMA SetArray ==
  ASSUME NEW k \in Kernels, NEW a \in ArrayId, NEW arr \in PrioArrays
  PROVE  Evolves(k, [k EXCEPT !.rq.arrays[a] = arr])
<1> DEFINE r == [k.rq EXCEPT !.arrays[a] = arr]
<1>1. [k EXCEPT !.rq.arrays[a] = arr] = [k EXCEPT !.rq = r]
  BY DEF Kernels
<1>2. r \in RunQueues
  BY KernelParts DEF RunQueues
<1> HIDE DEF r
<1> QED
  BY <1>1, <1>2, SetRq

\* A crash changes neither tasks nor runqueue.
LEMMA OopsEvolves ==
  ASSUME NEW k \in Kernels, NEW what \in Oopses
  PROVE  Evolves(k, Oops(k, what))
BY DEF Oops, Kernels, Evolves, KeepsOverdue

\* resched_task keeps types and overdue processes (sched.c:394-407).
LEMMA ReschedEvolves ==
  ASSUME NEW k \in Kernels, NEW p \in AllTask
  PROVE  Evolves(k, resched_task(k, p))
<1> DEFINE t == [k.task[p] EXCEPT !.need_resched = TRUE]
<1>1. t \in TaskStructs
  BY KernelParts, SetField
<1>2. p \in Task => t.prio \in Prio
  BY KernelParts DEF TaskStructs
<1>3. resched_task(k, p) = [k EXCEPT !.task[p] = t]
  BY DEF resched_task, Kernels
<1>4. Overdue(k.task[p]) => Overdue(t)
  BY KernelParts DEF TaskStructs, Overdue
<1> HIDE DEF t
<1> QED
  BY <1>1, <1>2, <1>3, <1>4, SetTask

\* enqueue_task keeps types and overdue processes.
LEMMA EnqueueEvolves ==
  ASSUME NEW k \in Kernels, NEW p \in Task, NEW a \in ArrayId
  PROVE  Evolves(k, enqueue_task(k, p, a))
<1> DEFINE arr == enqueue(k.rq.arrays[a], p, k.task[p].prio)
           k1  == [k EXCEPT !.rq.arrays[a] = arr]
           t   == [k.task[p] EXCEPT !.array = a]
<1>1. arr \in PrioArrays
  BY KernelParts, EnqueueType DEF RunQueues
<1> HIDE DEF arr
<1>2. Evolves(k, k1)
  BY <1>1, SetArray
<1>3. t \in TaskStructs /\ t.prio \in Prio
  BY KernelParts, SetField DEF TaskStructs, AllTask
<1>4. k1.task = k.task
  BY DEF Kernels
<1>5. Overdue(k.task[p]) => Overdue(t)
  BY KernelParts DEF TaskStructs, Overdue, AllTask
<1> HIDE DEF k1, t
<1>6. Evolves(k1, [k1 EXCEPT !.task[p] = t])
  BY <1>2, <1>3, <1>4, <1>5, SetTask DEF AllTask, Evolves
<1>7. enqueue_task(k, p, a) = [k1 EXCEPT !.task[p] = t]
  BY DEF enqueue_task, arr, k1, t, Kernels, AllTask
<1> QED
  BY <1>2, <1>6, <1>7, EvolvesTrans

\* dequeue_task keeps types and overdue processes, also when it crashes.
LEMMA DequeueEvolves ==
  ASSUME NEW k \in Kernels, NEW p \in AllTask, NEW a \in ArrayId \cup {"NULL"}
  PROVE  Evolves(k, dequeue_task(k, p, a))
<1>1. CASE a = "NULL" \/ ~ Linked(k.rq.arrays[a], p, k.task[p].prio)
  BY <1>1, OopsEvolves DEF dequeue_task, Oopses
<1>2. CASE a # "NULL" /\ Linked(k.rq.arrays[a], p, k.task[p].prio)
  <2> DEFINE arr == dequeue(k.rq.arrays[a], p, k.task[p].prio)
  <2>1. arr \in PrioArrays
    BY <1>2, KernelParts, DequeueType DEF RunQueues, Linked
  <2> HIDE DEF arr
  <2>2. dequeue_task(k, p, a) = [k EXCEPT !.rq.arrays[a] = arr]
    BY <1>2 DEF dequeue_task, arr, Kernels
  <2> QED
    BY <2>1, <2>2, <1>2, SetArray
<1> QED
  BY <1>1, <1>2

\* Assigning a priority to one task.
LEMMA SetPrio ==
  ASSUME NEW k \in Kernels, NEW p \in AllTask, NEW i \in Prio
  PROVE  Evolves(k, [k EXCEPT !.task[p].prio = i])
<1> DEFINE t == [k.task[p] EXCEPT !.prio = i]
<1>1. t \in TaskStructs /\ t.prio \in Prio
  BY KernelParts, SetField DEF TaskStructs
<1>2. Overdue(k.task[p]) => Overdue(t)
  BY KernelParts DEF TaskStructs, Overdue
<1>3. [k EXCEPT !.task[p].prio = i] = [k EXCEPT !.task[p] = t]
  BY DEF Kernels
<1> HIDE DEF t
<1> QED
  BY <1>1, <1>2, <1>3, SetTask

\* Assigning a state to one task.
LEMMA SetState ==
  ASSUME NEW k \in Kernels, NEW p \in AllTask, NEW s \in States
  PROVE  Evolves(k, [k EXCEPT !.task[p].state = s])
<1> DEFINE t == [k.task[p] EXCEPT !.state = s]
<1>1. t \in TaskStructs /\ (p \in Task => t.prio \in Prio)
  BY KernelParts, SetField DEF TaskStructs
<1>2. Overdue(k.task[p]) => Overdue(t)
  BY KernelParts DEF TaskStructs, Overdue
<1>3. [k EXCEPT !.task[p].state = s] = [k EXCEPT !.task[p] = t]
  BY DEF Kernels
<1> HIDE DEF t
<1> QED
  BY <1>1, <1>2, <1>3, SetTask

\* Clearing the array pointer of one task.
LEMMA Unlink ==
  ASSUME NEW k \in Kernels, NEW p \in AllTask
  PROVE  Evolves(k, [k EXCEPT !.task[p].array = "NULL"])
<1> DEFINE t == [k.task[p] EXCEPT !.array = "NULL"]
<1>1. t \in TaskStructs /\ (p \in Task => t.prio \in Prio)
  BY KernelParts, SetField DEF TaskStructs
<1>2. Overdue(k.task[p]) => Overdue(t)
  BY KernelParts DEF TaskStructs, Overdue
<1>3. [k EXCEPT !.task[p].array = "NULL"] = [k EXCEPT !.task[p] = t]
  BY DEF Kernels
<1> HIDE DEF t
<1> QED
  BY <1>1, <1>2, <1>3, SetTask

\* k with other values of the counters of the runqueue.
WithCounts(k, n, m) == [k EXCEPT !.rq.nr_running = n, !.rq.nr_uninterruptible = m]

\* Assigning the two counters of the runqueue.
LEMMA SetCounts ==
  ASSUME NEW k \in Kernels, NEW n \in Int, NEW m \in Int
  PROVE  Evolves(k, WithCounts(k, n, m))
<1> DEFINE r == [k.rq EXCEPT !.nr_running = n, !.nr_uninterruptible = m]
<1>1. WithCounts(k, n, m) = [k EXCEPT !.rq = r]
  BY DEF Kernels, WithCounts
<1>2. r \in RunQueues
  BY KernelParts DEF RunQueues
<1> HIDE DEF r
<1> QED
  BY <1>1, <1>2, SetRq

\* The types of the fields of the runqueue.
LEMMA Counts ==
  ASSUME NEW k \in Kernels
  PROVE  /\ k.rq.nr_running \in Int /\ k.rq.nr_uninterruptible \in Int
         /\ k.rq.active \in ArrayId /\ k.rq.expired \in ArrayId /\ k.rq.curr \in AllTask
         /\ \A a \in ArrayId : k.rq.arrays[a] \in PrioArrays
BY KernelParts DEF RunQueues, ArrayId

-----------------------------------------------------------------------------
(* Entering and leaving the runqueue *)

\* activate_task keeps types and overdue processes (sched.c:328-383).
LEMMA ActivateEvolves ==
  ASSUME NEW k \in Kernels, NEW p \in Task, NEW prio \in Prio
  PROVE  Evolves(k, activate_task(k, p, prio))
<1> DEFINE k0 == [k EXCEPT !.task[p].prio = prio]
           a  == HomeArray(k, k.task[p])
           k1 == enqueue_task(k0, p, a)
           k2 == WithCounts(k1, k1.rq.nr_running + 1, k1.rq.nr_uninterruptible)
<1>1. Evolves(k, k0)
  BY SetPrio DEF AllTask
<1>2. a \in ArrayId
  BY Counts DEF HomeArray, ArrayId
<1> HIDE DEF k0, a
<1>3. Evolves(k0, k1)
  BY <1>1, <1>2, EnqueueEvolves DEF Evolves
<1> HIDE DEF k1
<1>4. Evolves(k1, k2)
  BY <1>3, SetCounts, Counts DEF Evolves
<1>5. activate_task(k, p, prio) = k2
  <2>1. activate_task(k, p, prio) = [k1 EXCEPT !.rq.nr_running = @ + 1]
    BY DEF activate_task, k1, k0, a
  <2>2. k1 \in Kernels
    BY <1>3 DEF Evolves
  <2> QED
    BY <2>1, <2>2 DEF Kernels, RunQueues, WithCounts
<1> HIDE DEF k2
<1> QED
  BY <1>1, <1>3, <1>4, <1>5, EvolvesTrans

\* deactivate_task keeps types and overdue processes (sched.c:385-392).
LEMMA DeactivateEvolves ==
  ASSUME NEW k \in Kernels, NEW p \in AllTask
  PROVE  Evolves(k, deactivate_task(k, p))
<1> DEFINE m  == IF k.task[p].state = "UNINTERRUPTIBLE" THEN k.rq.nr_uninterruptible + 1
                 ELSE k.rq.nr_uninterruptible
           k1 == WithCounts(k, k.rq.nr_running - 1, m)
           k2 == dequeue_task(k1, p, k.task[p].array)
           k3 == [k2 EXCEPT !.task[p].array = "NULL"]
<1>1. Evolves(k, k1)
  BY SetCounts, Counts
<1>2. k.task[p].array \in ArrayId \cup {"NULL"}
  BY KernelParts, TaskFields
<1>3. deactivate_task(k, p) = k3
  <2>1. k1 = [k EXCEPT !.rq.nr_running = @ - 1,
                      !.rq.nr_uninterruptible =
                         IF k.task[p].state = "UNINTERRUPTIBLE" THEN @ + 1 ELSE @]
    BY DEF Kernels, RunQueues, WithCounts
  <2> QED
    BY <2>1, Zenon DEF deactivate_task
<1> HIDE DEF k1
<1>4. Evolves(k1, k2)
  BY <1>1, <1>2, DequeueEvolves DEF Evolves
<1> HIDE DEF k2
<1>5. Evolves(k2, k3)
  BY <1>4, Unlink DEF Evolves
<1> HIDE DEF k3
<1> QED
  BY <1>1, <1>3, <1>4, <1>5, EvolvesTrans

\* try_to_wake_up keeps types and overdue processes (sched.c:459-503).
LEMMA WakeEvolves ==
  ASSUME NEW k \in Kernels, NEW p \in Task, NEW prio \in Prio
  PROVE  Evolves(k, try_to_wake_up(k, p, prio))
<1> DEFINE m  == IF k.task[p].state = "UNINTERRUPTIBLE" THEN k.rq.nr_uninterruptible - 1
                 ELSE k.rq.nr_uninterruptible
           k1 == [k EXCEPT !.rq.nr_uninterruptible =
                         IF k.task[p].state = "UNINTERRUPTIBLE" THEN @ - 1 ELSE @]
           k2 == activate_task(k1, p, prio)
           k3 == IF k2.task[p].prio < k2.task[k.rq.curr].prio
                 THEN resched_task(k2, k.rq.curr) ELSE k2
           kw == IF k.task[p].array = "NULL" THEN k3 ELSE k
           ke == [kw EXCEPT !.task[p].state = "RUNNING"]
<1>1. Evolves(k, k1)
  <2>1. k1 = WithCounts(k, k.rq.nr_running, m)
    BY DEF Kernels, RunQueues, WithCounts
  <2> QED
    BY <2>1, SetCounts, Counts
<1>2. ke = try_to_wake_up(k, p, prio)
  BY Zenon DEF try_to_wake_up
<1> HIDE DEF k1
<1>3. Evolves(k1, k2)
  BY <1>1, ActivateEvolves DEF Evolves
<1> HIDE DEF k2
<1>4. Evolves(k2, k3)
  BY <1>3, ReschedEvolves, EvolvesRefl, Counts DEF Evolves
<1> HIDE DEF k3
<1>5. Evolves(k, kw)
  BY <1>1, <1>3, <1>4, EvolvesTrans, EvolvesRefl
<1> HIDE DEF kw
<1>6. Evolves(kw, ke)
  BY <1>5, SetState DEF Evolves, States, AllTask
<1> HIDE DEF ke
<1> QED
  BY <1>2, <1>5, <1>6, EvolvesTrans

-----------------------------------------------------------------------------
(* schedule() *)

\* The first part of schedule, in which a sleeper leaves the runqueue
\* (sched.c:1067-1078).
LEMMA LeaveEvolves ==
  ASSUME NEW k \in Kernels, NEW p \in AllTask, NEW signal_pending \in BOOLEAN
  PROVE  Evolves(k, leave_runqueue(k, p, signal_pending))
BY EvolvesRefl, SetState, DeactivateEvolves DEF leave_runqueue, States

\* The swap of active and expired (sched.c:1107-1117).
LEMMA SwapEvolves ==
  ASSUME NEW k \in Kernels
  PROVE  Evolves(k, swap_arrays(k))
<1> DEFINE r == [k.rq EXCEPT !.active = k.rq.expired, !.expired = k.rq.active]
<1>1. r \in RunQueues
  BY KernelParts DEF RunQueues
<1>2. [k EXCEPT !.rq.active = k.rq.expired, !.rq.expired = k.rq.active] = [k EXCEPT !.rq = r]
  BY DEF Kernels
<1> HIDE DEF r
<1> QED
  BY <1>1, <1>2, SetRq, EvolvesRefl DEF swap_arrays

\* The switch to the next task (sched.c:1183-1190).
LEMMA SwitchEvolves ==
  ASSUME NEW k \in Kernels, NEW prev \in AllTask, NEW next \in AllTask
  PROVE  Evolves(k, switch_tasks(k, prev, next))
<1> DEFINE t  == [k.task[prev] EXCEPT !.need_resched = FALSE]
           k1 == [k EXCEPT !.task[prev] = t]
           r  == [k.rq EXCEPT !.curr = next]
<1>1. t \in TaskStructs
  BY KernelParts, SetField
<1>2. /\ Overdue(k.task[prev]) => Overdue(t)
      /\ prev \in Task => t.prio \in Prio
  BY KernelParts DEF TaskStructs, Overdue
<1>3. r \in RunQueues
  BY KernelParts DEF RunQueues
<1>4. switch_tasks(k, prev, next) = [k1 EXCEPT !.rq = r]
  BY DEF switch_tasks, Kernels
<1> HIDE DEF t, r
<1>5. Evolves(k, k1)
  BY <1>1, <1>2, SetTask
<1> HIDE DEF k1
<1>6. Evolves(k1, [k1 EXCEPT !.rq = r])
  BY <1>3, <1>5, SetRq DEF Evolves
<1> QED
  BY <1>4, <1>5, <1>6, EvolvesTrans

\* The list schedule looks at is a sequence of tasks.
LEMMA ListType ==
  ASSUME NEW k \in Kernels, NEW q
  PROVE  list_at(k, q) \in Seq(Task)
<1>1. \A a \in ArrayId, i \in Prio : k.rq.arrays[a].queue[i] \in Seq(Task)
  BY Counts DEF PrioArrays
<1> QED
  BY <1>1 DEF list_at

\* The choice of the next task, whether or not there is one
\* (sched.c:1082-1150).
LEMMA PickEvolves ==
  ASSUME NEW k \in Kernels, NEW prev \in AllTask
  PROVE  Evolves(k, pick_next_task(k, prev))
<1> DEFINE k1 == swap_arrays(k)
           q  == list_at(k1, pick_queue(k1))
<1>1. Evolves(k, k1)
  BY SwapEvolves
<1>2. q \in Seq(Task)
  BY <1>1, ListType DEF Evolves
<1>3. pick_next_task(k, prev) =
        IF k.rq.nr_running = 0 THEN switch_tasks(k, prev, Idle)
        ELSE IF q = << >> THEN Oops(k1, "no_queue")
        ELSE switch_tasks(k1, prev, Head(q))
  BY DEF pick_next_task
<1> HIDE DEF k1, q
<1>4. Evolves(k, switch_tasks(k, prev, Idle))
  BY SwitchEvolves DEF AllTask
<1>5. Evolves(k, Oops(k1, "no_queue"))
  BY <1>1, OopsEvolves, EvolvesTrans DEF Evolves, Oopses
<1>6. q # << >> => Evolves(k, switch_tasks(k1, prev, Head(q)))
  <2>1. q # << >> => Head(q) \in AllTask
    BY <1>2 DEF AllTask
  <2> HIDE DEF Evolves
  <2>2. k1 \in Kernels
    BY <1>1 DEF Evolves
  <2> QED
    BY <1>1, <2>1, <2>2, SwitchEvolves, EvolvesTrans
<1> QED
  BY <1>3, <1>4, <1>5, <1>6

\* schedule keeps types and overdue processes (sched.c:1046-1219).
LEMMA ScheduleEvolves ==
  ASSUME NEW k \in Kernels, NEW signal_pending \in BOOLEAN
  PROVE  Evolves(k, schedule(k, signal_pending))
<1> DEFINE k1 == leave_runqueue(k, k.rq.curr, signal_pending)
<1>1. Evolves(k, k1)
  BY LeaveEvolves, Counts
<1>2. k1 \in Kernels
  BY <1>1 DEF Evolves
<1> HIDE DEF k1
<1>3. Evolves(k1, pick_next_task(k1, k.rq.curr))
  BY <1>2, PickEvolves, Counts
<1> QED
  BY <1>1, <1>3, EvolvesTrans DEF schedule, k1

-----------------------------------------------------------------------------
(* scheduler_tick() *)

\* TASK_TIMESLICE is between MIN_TIMESLICE and MAX_TIMESLICE, for every static
\* priority (sched.c:112-113).
LEMMA TimesliceType ==
  ASSUME NEW t \in TaskStructs
  PROVE  TASK_TIMESLICE(t) \in 0 .. UINT - 1
<1> DEFINE a == MAX_TIMESLICE - MIN_TIMESLICE
           b == MAX_PRIO - 1 - t.static_prio
           c == MAX_PRIO - 1 - MAX_RT_PRIO
<1>1. a \in Nat /\ b \in Nat /\ c \in Nat \ {0} /\ b <= c
  BY TaskFields, PrioAssumption, MaxPrioAssumption, TimeAssumption DEF UserPrio
<1>2. TASK_TIMESLICE(t) = MIN_TIMESLICE + (a * b) \div c
  BY DEF TASK_TIMESLICE
<1> HIDE DEF a, b, c
<1>3. (a * b) \div c \in 0 .. a
  BY <1>1, SliceBound
<1> QED
  BY <1>2, <1>3, TimeAssumption DEF a

\* SHORT_TIMESLICE fits the unsigned int it is stored in (sched.c:118).
LEMMA ShortTimesliceType ==
  ASSUME NEW t \in TaskStructs
  PROVE  SHORT_TIMESLICE(t) \in 0 .. UINT - 1
<1>1. t.requested_time \in Nat /\ t.current_trial \in Nat
  BY TaskFields
<1>2. ((t.requested_time * HZ) \div 1000) \div (t.current_trial + 1) \in Int
  <2>1. (t.requested_time * HZ) \div 1000 \in Int
    BY <1>1, TimeAssumption
  <2> QED
    BY <1>1, <2>1
<1> QED
  BY <1>2, TimeAssumption DEF SHORT_TIMESLICE

\* The decrement of an unsigned int wraps around and stays in its range.
LEMMA DecType ==
  ASSUME NEW n \in 0 .. UINT - 1
  PROVE  Dec(n) \in 0 .. UINT - 1
BY TimeAssumption DEF Dec

\* Assigning a time slice to one task.
LEMMA SetSlice ==
  ASSUME NEW k \in Kernels, NEW p \in AllTask, NEW n \in 0 .. UINT - 1
  PROVE  Evolves(k, [k EXCEPT !.task[p].time_slice = n])
<1> DEFINE t == [k.task[p] EXCEPT !.time_slice = n]
<1>1. t \in TaskStructs
  BY KernelParts, SetField
<1>2. /\ Overdue(k.task[p]) => Overdue(t)
      /\ p \in Task => t.prio \in Prio
  BY KernelParts DEF TaskStructs, Overdue
<1>3. [k EXCEPT !.task[p].time_slice = n] = [k EXCEPT !.task[p] = t]
  BY DEF Kernels
<1> HIDE DEF t
<1> QED
  BY <1>1, <1>2, <1>3, SetTask

\* The decrement of a time slice.
LEMMA TickDown ==
  ASSUME NEW k \in Kernels, NEW p \in AllTask
  PROVE  Evolves(k, [k EXCEPT !.task[p].time_slice = Dec(@)])
<1>1. k.task[p].time_slice \in 0 .. UINT - 1
  BY KernelParts, TaskFields
<1>2. [k EXCEPT !.task[p].time_slice = Dec(@)]
        = [k EXCEPT !.task[p].time_slice = Dec(k.task[p].time_slice)]
  BY DEF Kernels
<1> QED
  BY <1>1, <1>2, SetSlice, DecType

\* The end of the last trial keeps types, and makes no process less overdue
\* (sched.c:921-928).
LEMMA BecomeOverdueEvolves ==
  ASSUME NEW k \in Kernels, NEW p \in Task
  PROVE  Evolves(k, become_overdue(k, p))
<1> DEFINE k0 == [k EXCEPT !.task[p].time_slice = 1]
           k1 == dequeue_task(k0, p, "short_q")
           k2 == [k1 EXCEPT !.task[p].prio = 0]
           k3 == enqueue_task(k2, p, "overdue")
           t  == [k3.task[p] EXCEPT !.is_overdue = TRUE]
           k4 == [k3 EXCEPT !.task[p] = t]
<1>0. p \in AllTask
  BY DEF AllTask
<1>1. Evolves(k, k0)
  BY <1>0, SetSlice, TimeAssumption
<1> HIDE DEF k0
<1>2. Evolves(k0, k1)
  BY <1>0, <1>1, DequeueEvolves DEF Evolves, ArrayId
<1> HIDE DEF k1
<1>3. Evolves(k1, k2)
  <2>1. 0 \in Prio
    BY MaxPrioAssumption DEF Prio
  <2>2. k1 \in Kernels
    BY <1>2 DEF Evolves
  <2> QED
    BY <1>0, <2>1, <2>2, SetPrio
<1> HIDE DEF k2
<1>4. Evolves(k2, k3)
  BY <1>3, EnqueueEvolves DEF Evolves, ArrayId
<1> HIDE DEF k3
<1>5. t \in TaskStructs
  BY <1>0, <1>4, KernelParts, SetField DEF Evolves
<1>6. /\ Overdue(k3.task[p]) => Overdue(t)
      /\ t.prio \in Prio
  BY <1>0, <1>4, KernelParts DEF TaskStructs, Overdue, Evolves
<1>7. become_overdue(k, p) = k4
  BY <1>0, <1>4 DEF become_overdue, k3, k2, k1, k0, Kernels, Evolves
<1> HIDE DEF t
<1>8. Evolves(k3, k4)
  BY <1>0, <1>4, <1>5, <1>6, SetTask DEF Evolves
<1> HIDE DEF k4
<1> QED
  BY <1>1, <1>2, <1>3, <1>4, <1>7, <1>8, EvolvesTrans

\* The end of any other trial (sched.c:930-938).
LEMMA NextTrialEvolves ==
  ASSUME NEW k \in Kernels, NEW p \in Task
  PROVE  Evolves(k, next_trial(k, p))
<1> DEFINE k1 == [k EXCEPT !.task[p].time_slice = SHORT_TIMESLICE(k.task[p])]
           k2 == dequeue_task(k1, p, "short_q")
           k3 == enqueue_task(k2, p, "short_q")
<1>0. p \in AllTask /\ "short_q" \in ArrayId
  BY DEF AllTask, ArrayId
<1>1. Evolves(k, k1)
  BY <1>0, SetSlice, ShortTimesliceType, KernelParts
<1>2. next_trial(k, p) = IF k1.task[p].time_slice = 0 THEN become_overdue(k1, p) ELSE k3
  BY DEF next_trial
<1> HIDE DEF k1
<1>3. Evolves(k1, become_overdue(k1, p))
  BY <1>1, BecomeOverdueEvolves DEF Evolves
<1>4. Evolves(k1, k2)
  BY <1>0, <1>1, DequeueEvolves DEF Evolves
<1> HIDE DEF k2
<1>5. Evolves(k2, k3)
  BY <1>0, <1>4, EnqueueEvolves DEF Evolves
<1> HIDE DEF k3
<1> QED
  BY <1>1, <1>2, <1>3, <1>4, <1>5, EvolvesTrans

\* The count of a trial keeps the type of a task_struct (sched.c:917-918).
LEMMA EndOfSliceType ==
  ASSUME NEW t \in TaskStructs
  PROVE  [t EXCEPT !.current_trial = @ + 1, !.first_time_slice = FALSE] \in TaskStructs
<1> DEFINE n == t.current_trial + 1
<1>1. n \in Nat
  BY TaskFields
<1> HIDE DEF n
<1>2. [t EXCEPT !.current_trial = n, !.first_time_slice = FALSE] \in TaskStructs
  BY <1>1 DEF TaskStructs
<1> QED
  BY <1>2 DEF n

\* The tick of a SHORT process (sched.c:914-942).
LEMMA TickShortEvolves ==
  ASSUME NEW k \in Kernels, NEW p \in Task
  PROVE  Evolves(k, tick_short(k, p))
<1> DEFINE k1 == [k EXCEPT !.task[p].time_slice = Dec(@)]
           t  == [k1.task[p] EXCEPT !.current_trial = @ + 1, !.first_time_slice = FALSE]
           k2 == [k1 EXCEPT !.task[p].current_trial = @ + 1, !.task[p].first_time_slice = FALSE]
           k3 == IF k2.task[p].current_trial >= k2.task[p].number_of_trials
                 THEN become_overdue(k2, p) ELSE next_trial(k2, p)
<1>0. p \in AllTask
  BY DEF AllTask
<1>1. Evolves(k, k1)
  BY <1>0, TickDown
<1>2. k1 \in Kernels
  BY <1>1 DEF Evolves
<1>3. tick_short(k, p) = IF k1.task[p].time_slice > 0 THEN k1 ELSE resched_task(k3, p)
  BY DEF tick_short
<1> HIDE DEF k1
<1>4. k2 = [k1 EXCEPT !.task[p] = t]
  BY <1>0, <1>2 DEF Kernels
<1>5. t \in TaskStructs
  BY <1>0, <1>2, KernelParts, EndOfSliceType
<1>6. /\ Overdue(k1.task[p]) => Overdue(t)
      /\ t.prio \in Prio
  BY <1>0, <1>2, KernelParts DEF TaskStructs, Overdue
<1> HIDE DEF t, k2
<1>7. Evolves(k1, k2)
  BY <1>0, <1>2, <1>4, <1>5, <1>6, SetTask
<1>8. Evolves(k2, k3)
  BY <1>7, BecomeOverdueEvolves, NextTrialEvolves DEF Evolves
<1> HIDE DEF k3
<1>9. Evolves(k3, resched_task(k3, p))
  BY <1>0, <1>8, ReschedEvolves DEF Evolves
<1> QED
  BY <1>1, <1>3, <1>7, <1>8, <1>9, EvolvesTrans

\* The tick of a real-time process (sched.c:957-971).
LEMMA TickRREvolves ==
  ASSUME NEW k \in Kernels, NEW p \in Task
  PROVE  Evolves(k, tick_rr(k, p))
<1> DEFINE k1 == [k EXCEPT !.task[p].time_slice = Dec(@)]
           t  == [k.task[p] EXCEPT !.time_slice = TASK_TIMESLICE(k.task[p]),
                                   !.first_time_slice = FALSE, !.need_resched = TRUE]
           k2 == [k EXCEPT !.task[p].time_slice = TASK_TIMESLICE(k.task[p]),
                     !.task[p].first_time_slice = FALSE, !.task[p].need_resched = TRUE]
           k3 == dequeue_task(k2, p, k.rq.active)
           k4 == enqueue_task(k3, p, k.rq.active)
<1>0. p \in AllTask
  BY DEF AllTask
<1>1. Evolves(k, k1)
  BY <1>0, TickDown
<1>2. k2 = [k EXCEPT !.task[p] = t]
  BY <1>0 DEF Kernels
<1>3. tick_rr(k, p) = IF k.task[p].policy # "RR" THEN k
                      ELSE IF k1.task[p].time_slice > 0 THEN k1 ELSE k4
  BY DEF tick_rr
<1>4. t \in TaskStructs
  <2>1. k.task[p] \in TaskStructs /\ TASK_TIMESLICE(k.task[p]) \in 0 .. UINT - 1
    BY <1>0, KernelParts, TimesliceType
  <2> QED
    BY <2>1 DEF TaskStructs
<1>5. /\ Overdue(k.task[p]) => Overdue(t)
      /\ t.prio \in Prio
  BY <1>0, KernelParts DEF TaskStructs, Overdue
<1> HIDE DEF t, k1, k2
<1>6. Evolves(k, k2)
  BY <1>0, <1>2, <1>4, <1>5, SetTask
<1>7. Evolves(k2, k3)
  BY <1>0, <1>6, DequeueEvolves, Counts DEF Evolves
<1> HIDE DEF k3
<1>8. Evolves(k3, k4)
  BY <1>7, EnqueueEvolves, Counts DEF Evolves
<1> HIDE DEF k4
<1> QED
  BY <1>1, <1>3, <1>6, <1>7, <1>8, EvolvesRefl, EvolvesTrans

\* The tick of an OTHER process (sched.c:978-993).
LEMMA TickOtherEvolves ==
  ASSUME NEW k \in Kernels, NEW p \in Task, NEW prio \in Prio, NEW starving \in BOOLEAN
  PROVE  Evolves(k, tick_other(k, p, prio, starving))
<1> DEFINE k1 == [k EXCEPT !.task[p].time_slice = Dec(@)]
           k2 == dequeue_task(k, p, k.rq.active)
           t  == [k2.task[p] EXCEPT !.need_resched = TRUE, !.prio = prio,
                    !.first_time_slice = FALSE, !.time_slice = TASK_TIMESLICE(k.task[p])]
           k3 == [k2 EXCEPT !.task[p].need_resched = TRUE, !.task[p].prio = prio,
                            !.task[p].first_time_slice = FALSE,
                            !.task[p].time_slice = TASK_TIMESLICE(k.task[p])]
           a  == IF ~TASK_INTERACTIVE(k3.task[p]) \/ starving THEN k.rq.expired
                 ELSE k.rq.active
           k4 == enqueue_task(k3, p, a)
<1>0. p \in AllTask
  BY DEF AllTask
<1>1. Evolves(k, k1)
  BY <1>0, TickDown
<1>2. Evolves(k, k2) /\ k2 \in Kernels
  BY <1>0, DequeueEvolves, Counts DEF Evolves
<1>3. tick_other(k, p, prio, starving) = IF k1.task[p].time_slice > 0 THEN k1 ELSE k4
  BY DEF tick_other
<1> HIDE DEF k2
<1>4. k3 = [k2 EXCEPT !.task[p] = t]
  BY <1>0, <1>2, ZenonT(30) DEF Kernels
<1>5. t \in TaskStructs
  <2>1. k2.task[p] \in TaskStructs /\ TASK_TIMESLICE(k.task[p]) \in 0 .. UINT - 1
    BY <1>0, <1>2, KernelParts, TimesliceType
  <2>2. prio \in 0 .. MAX_PRIO
    BY MaxPrioAssumption DEF Prio
  <2> QED
    BY <2>1, <2>2 DEF TaskStructs
<1>6. /\ Overdue(k2.task[p]) => Overdue(t)
      /\ t.prio \in Prio
  BY <1>0, <1>2, KernelParts DEF TaskStructs, Overdue
<1> HIDE DEF t, k1
<1>8. a \in ArrayId
  BY Counts
<1> HIDE DEF k3, a
<1>7. Evolves(k2, k3)
  BY <1>0, <1>2, <1>4, <1>5, <1>6, SetTask
<1>9. Evolves(k3, k4)
  BY <1>7, <1>8, EnqueueEvolves DEF Evolves
<1> HIDE DEF k4
<1> QED
  BY <1>1, <1>2, <1>3, <1>7, <1>9, EvolvesTrans

\* scheduler_tick keeps types and overdue processes (sched.c:859-1002).
LEMMA TickEvolves ==
  ASSUME NEW k \in Kernels, NEW prio \in Prio \cup {MAX_PRIO}, NEW starving \in BOOLEAN,
         k.rq.curr \in Task => prio \in Prio
  PROVE  Evolves(k, scheduler_tick(k, prio, starving))
<1>1. k.rq.curr \in AllTask /\ (k.rq.curr # Idle => k.rq.curr \in Task)
  BY Counts DEF AllTask
<1> QED
  BY <1>1, EvolvesRefl, TickShortEvolves, ReschedEvolves, TickRREvolves, TickOtherEvolves
  DEF scheduler_tick

-----------------------------------------------------------------------------
(* System calls *)

\* Unlinking an entry leaves a list of tasks.
LEMMA ListDelType ==
  ASSUME NEW q \in Seq(Task), NEW p, \E j \in DOMAIN q : q[j] = p
  PROVE  list_del(q, p) \in Seq(Task)
BY DEF list_del, RemoveAt

\* list_add behind the first entry leaves a list of tasks.
LEMMA ListAddType ==
  ASSUME NEW q \in Seq(Task), NEW p \in Task
  PROVE  list_add_after_first(q, p) \in Seq(Task)
BY DEF list_add_after_first, InsertAt

\* Replacing one list of a priority array.
LEMMA SetQueueType ==
  ASSUME NEW arr \in PrioArrays, NEW i \in Prio, NEW q \in Seq(Task)
  PROVE  [arr EXCEPT !.queue[i] = q] \in PrioArrays
BY DEF PrioArrays

\* Replacing the bitmap of a priority array.
LEMMA SetBitmapType ==
  ASSUME NEW arr \in PrioArrays, NEW b \in SUBSET Prio
  PROVE  [arr EXCEPT !.bitmap = b] \in PrioArrays
BY DEF PrioArrays

\* The requeueing of a yielding process: the priority it moves to is one of the
\* priorities in use, or its own (sched.c:1880-1904).
LEMMA RequeueEvolves ==
  ASSUME NEW k \in Kernels, NEW p \in Task
  PROVE  Evolves(k, requeue_yielding(k, p))
<1> DEFINE t    == k.task[p]
           arr  == k.rq.arrays[t.array]
           q    == list_del(arr.queue[t.prio], p)
           bits == arr.bitmap \ {t.prio}
           i    == find_first_bit([arr EXCEPT !.bitmap = bits])
           to   == IF i = MAX_PRIO \/ i <= t.prio THEN t.prio ELSE i
           arr1 == [arr EXCEPT !.queue[t.prio] = q]
           arr2 == [arr1 EXCEPT !.bitmap = bits \cup {to},
                                !.queue[to] = list_add_after_first(@, p)]
<1>1. CASE t.array = "NULL" \/ ~Linked(arr, p, t.prio)
  BY <1>1, OopsEvolves DEF requeue_yielding, Oopses
<1>2. CASE t.array # "NULL" /\ Linked(arr, p, t.prio)
  <2>1. p \in AllTask /\ t \in TaskStructs /\ t.prio \in Prio
    BY KernelParts DEF AllTask
  <2>2. t.array \in ArrayId /\ arr \in PrioArrays
    BY <1>2, <2>1, TaskFields, Counts
  <2>3. arr.queue[t.prio] \in Seq(Task) /\ arr.bitmap \in SUBSET Prio
    BY <2>1, <2>2 DEF PrioArrays
  <2>4. q \in Seq(Task)
    BY <1>2, <2>3, ListDelType DEF Linked
  <2>5. bits \in SUBSET Prio
    BY <2>3
  <2>6. to \in Prio
    <3>1. i \in Prio \cup {MAX_PRIO}
      <4> DEFINE b == [arr EXCEPT !.bitmap = bits]
      <4>1. b.bitmap = bits
        BY <2>2 DEF PrioArrays
      <4> HIDE DEF b
      <4>2. find_first_bit(b) \in Prio \cup {MAX_PRIO}
        BY <4>1, <2>5, FirstBit DEF find_first_bit
      <4> QED
        BY <4>2 DEF b
    <3> QED
      BY <3>1, <2>1
  <2>7. arr1 \in PrioArrays
    BY <2>1, <2>2, <2>4, SetQueueType
  <2> HIDE DEF t, arr, q, bits, to, arr1
  <2>8. arr2 \in PrioArrays
    <3>1. arr1.queue[to] \in Seq(Task)
      BY <2>6, <2>7 DEF PrioArrays
    <3>2. list_add_after_first(arr1.queue[to], p) \in Seq(Task)
      BY <3>1, ListAddType
    <3>3. bits \cup {to} \in SUBSET Prio
      BY <2>5, <2>6
    <3> QED
      BY <2>6, <2>7, <3>2, <3>3 DEF PrioArrays
  <2>9. Append(q, p) \in Seq(Task) /\ list_add_after_first(q, p) \in Seq(Task)
    BY <2>4, ListAddType
  <2> HIDE DEF arr2
  <2>10. requeue_yielding(k, p) =
           IF rt_task(t) THEN [k EXCEPT !.rq.arrays[t.array] =
                                 [arr EXCEPT !.queue[t.prio] = Append(q, p)]]
           ELSE IF q # << >> THEN [k EXCEPT !.rq.arrays[t.array] =
                             [arr EXCEPT !.queue[t.prio] = list_add_after_first(q, p)]]
           ELSE [[k EXCEPT !.task[p].prio = to] EXCEPT !.rq.arrays[t.array] = arr2]
    <3>1. k = [task |-> k.task, rq |-> k.rq, oops |-> k.oops]
      BY KernelParts
    <3> QED
      BY <1>2, <2>1, <2>2, <3>1 DEF requeue_yielding, t, arr, q, bits, to, arr1, arr2,
         Kernels, RunQueues, PrioArrays
  <2>11. CASE rt_task(t)
    <3> DEFINE a1 == [arr EXCEPT !.queue[t.prio] = Append(q, p)]
    <3>1. a1 \in PrioArrays
      BY <2>1, <2>2, <2>9, SetQueueType
    <3>2. requeue_yielding(k, p) = [k EXCEPT !.rq.arrays[t.array] = a1]
      BY <2>10, <2>11
    <3> HIDE DEF a1
    <3> QED
      BY <2>2, <3>1, <3>2, SetArray
  <2>12. CASE ~rt_task(t) /\ q # << >>
    <3> DEFINE a1 == [arr EXCEPT !.queue[t.prio] = list_add_after_first(q, p)]
    <3>1. a1 \in PrioArrays
      BY <2>1, <2>2, <2>9, SetQueueType
    <3>2. requeue_yielding(k, p) = [k EXCEPT !.rq.arrays[t.array] = a1]
      BY <2>10, <2>12
    <3> HIDE DEF a1
    <3> QED
      BY <2>2, <3>1, <3>2, SetArray
  <2>13. CASE ~rt_task(t) /\ q = << >>
    <3> DEFINE k1 == [k EXCEPT !.task[p].prio = to]
    <3>1. Evolves(k, k1)
      BY <2>1, <2>6, SetPrio
    <3> HIDE DEF k1
    <3>2. Evolves(k1, [k1 EXCEPT !.rq.arrays[t.array] = arr2])
      BY <3>1, <2>2, <2>8, SetArray DEF Evolves
    <3> QED
      BY <3>1, <3>2, <2>10, <2>13, EvolvesTrans DEF k1
  <2> QED
    BY <2>11, <2>12, <2>13
<1> QED
  BY <1>1, <1>2

\* NICE_TO_PRIO maps the legal nice values to user priorities
\* (sched.c:35-37).
LEMMA NicePrioType ==
  /\ \A nice \in -NiceHalf .. NiceHalf - 1 : NICE_TO_PRIO(nice) \in UserPrio
  /\ 0 \in -NiceHalf .. NiceHalf - 1
  /\ UserPrio \subseteq Prio
BY PrioAssumption, MaxPrioAssumption DEF NICE_TO_PRIO, NiceHalf, UserPrio, Prio

\* set_user_nice keeps types and overdue processes (sched.c:1378-1419).
LEMMA NiceEvolves ==
  ASSUME NEW k \in Kernels, NEW p \in Task, NEW nice \in Int
  PROVE  Evolves(k, set_user_nice(k, p, nice))
<1> DEFINE t    == k.task[p]
           prio == NICE_TO_PRIO(nice)
           k1   == IF t.array = "NULL" THEN k ELSE dequeue_task(k, p, t.array)
           k2   == [k1 EXCEPT !.task[p].static_prio = prio, !.task[p].prio = prio]
           k3   == enqueue_task(k2, p, t.array)
           u    == [k1.task[p] EXCEPT !.static_prio = prio, !.prio = prio]
           v    == [t EXCEPT !.static_prio = prio]
<1>0. p \in AllTask /\ t \in TaskStructs /\ t.prio \in Prio
  BY KernelParts DEF AllTask
<1>1. CASE nice < -NiceHalf \/ nice > NiceHalf - 1
  BY <1>1, EvolvesRefl DEF set_user_nice
<1>2. CASE ~ (nice < -NiceHalf \/ nice > NiceHalf - 1)
  <2>0. set_user_nice(k, p, nice) =
           IF \/ t.static_prio = prio \/ t.policy = "SHORT"
              \/ nice < -NiceHalf \/ nice > NiceHalf - 1 THEN k
           ELSE IF rt_task(t) THEN [k EXCEPT !.task[p].static_prio = prio]
           ELSE IF t.array = "NULL" THEN k2
           ELSE IF prio < k3.task[p].static_prio \/ p = k.rq.curr
           THEN resched_task(k3, k.rq.curr) ELSE k3
    BY DEF set_user_nice
  <2>1. prio \in UserPrio /\ prio \in Prio
    <3>1. -NiceHalf \in Int /\ NiceHalf - 1 \in Int
      BY PrioAssumption, MaxPrioAssumption DEF NiceHalf
    <3> QED
      BY <1>2, <3>1, NicePrioType
  <2> HIDE DEF prio
  <2>2. v \in TaskStructs
    BY <1>0, <2>1, SetField
  <2>3. v.prio \in Prio /\ (Overdue(t) => Overdue(v))
    BY <1>0 DEF TaskStructs, Overdue
  <2>4. [k EXCEPT !.task[p].static_prio = prio] = [k EXCEPT !.task[p] = v]
    BY DEF Kernels
  <2> HIDE DEF v
  <2>5. Evolves(k, [k EXCEPT !.task[p].static_prio = prio])
    BY <1>0, <2>2, <2>3, <2>4, SetTask
  <2>6. Evolves(k, k1)
    BY <1>0, TaskFields, DequeueEvolves, EvolvesRefl
  <2>7. k1 \in Kernels
    BY <2>6 DEF Evolves
  <2> HIDE DEF k1
  <2>9. k2 = [k1 EXCEPT !.task[p] = u]
    BY <2>7 DEF Kernels
  <2>10. u \in TaskStructs /\ u.prio \in Prio /\ (Overdue(k1.task[p]) => Overdue(u))
    <3>1. k1.task[p] \in TaskStructs /\ prio \in 0 .. MAX_PRIO
      BY <1>0, <2>1, <2>7, KernelParts, MaxPrioAssumption DEF Prio
    <3> QED
      BY <2>1, <3>1 DEF TaskStructs, Overdue
  <2> HIDE DEF k2, u
  <2>11. Evolves(k1, k2)
    BY <1>0, <2>7, <2>9, <2>10, SetTask
  <2>12. t.array # "NULL" => Evolves(k2, k3)
    <3>1. t.array \in ArrayId \cup {"NULL"}
      BY <1>0, TaskFields
    <3> QED
      BY <2>11, <3>1, EnqueueEvolves DEF Evolves
  <2> HIDE DEF k3
  <2>13. t.array # "NULL" => Evolves(k3, resched_task(k3, k.rq.curr))
    BY <2>12, ReschedEvolves, Counts DEF Evolves
  <2> QED
    BY <2>0, <2>5, <2>6, <2>11, <2>12, <2>13, EvolvesRefl, EvolvesTrans
<1> QED
  BY <1>1, <1>2

\* The same, except that process p may be reset.
EvolvesBut(k, k2, p) ==
  k2 \in Kernels /\ \A q \in AllTask \ {p} : Overdue(k.task[q]) => Overdue(k2.task[q])

\* Evolves implies its weaker form.
LEMMA EvolvesButIntro ==
  ASSUME NEW k, NEW k2, NEW p, Evolves(k, k2)
  PROVE  EvolvesBut(k, k2, p)
BY DEF Evolves, EvolvesBut, KeepsOverdue

\* The weaker form implies Evolves when the excepted task was not overdue.
LEMMA EvolvesButElim ==
  ASSUME NEW k, NEW k2, NEW p, EvolvesBut(k, k2, p), ~Overdue(k.task[p])
  PROVE  Evolves(k, k2)
BY DEF Evolves, EvolvesBut, KeepsOverdue

\* Changes of the weaker kind compose.
LEMMA EvolvesButTrans ==
  ASSUME NEW k1, NEW k2, NEW k3, NEW p, EvolvesBut(k1, k2, p), EvolvesBut(k2, k3, p)
  PROVE  EvolvesBut(k1, k3, p)
BY DEF EvolvesBut

\* Replacing one task_struct by any well-typed one.
LEMMA ReplaceTask ==
  ASSUME NEW k \in Kernels, NEW p \in AllTask, NEW t \in TaskStructs,
         p \in Task => t.prio \in Prio
  PROVE  EvolvesBut(k, [k EXCEPT !.task[p] = t], p)
<1> DEFINE tk == [k.task EXCEPT ![p] = t]
<1>1. [k EXCEPT !.task[p] = t] = [task |-> tk, rq |-> k.rq, oops |-> k.oops]
  BY KernelParts DEF Kernels
<1>2. tk \in [AllTask -> TaskStructs] /\ \A q \in Task : tk[q].prio \in Prio
  BY KernelParts DEF AllTask
<1>3. \A q \in AllTask \ {p} : Overdue(k.task[q]) => Overdue(tk[q])
  BY KernelParts
<1> HIDE DEF tk
<1> QED
  BY <1>1, <1>2, <1>3, KernelMake, KernelParts DEF EvolvesBut

\* The part of setscheduler that makes an OTHER process SHORT resets is_overdue
\* of that process only (sched.c:1648-1657).
LEMMA SetShortEvolves ==
  ASSUME NEW k \in Kernels, NEW p \in Task, NEW r \in SchedRequests
  PROVE  EvolvesBut(k, set_short(k, p, r), p)
<1> DEFINE t == [k.task[p] EXCEPT !.requested_time = r.time,
                    !.number_of_trials = r.trials, !.array = "short_q",
                    !.current_trial = 0, !.is_overdue = FALSE]
           u == [t EXCEPT !.time_slice = SHORT_TIMESLICE(t)]
<1>0. p \in AllTask /\ k.task[p] \in TaskStructs /\ k.task[p].prio \in Prio
  BY KernelParts DEF AllTask
<1>1. set_short(k, p, r) = [k EXCEPT !.task[p] = u]
  BY DEF set_short
<1>2. t \in TaskStructs /\ t.prio \in Prio
  <2>1. r.time \in Nat /\ r.trials \in Int
    BY DEF SchedRequests
  <2> QED
    BY <1>0, <2>1 DEF TaskStructs, ArrayId
<1> HIDE DEF t
<1>3. u \in TaskStructs
  BY <1>2, ShortTimesliceType, SetField
<1>4. u.prio \in Prio
  BY <1>2 DEF TaskStructs
<1> HIDE DEF u
<1> QED
  BY <1>0, <1>1, <1>3, <1>4, ReplaceTask

\* setscheduler keeps types and overdue processes: it rejects a process that is
\* overdue (sched.c:1640-1642), and changes no other one.
LEMMA SetschedulerEvolves ==
  ASSUME NEW k \in Kernels, NEW p \in Task, NEW r \in SchedRequests, NEW prio \in Prio
  PROVE  Evolves(k, setscheduler(k, p, r, prio))
<1> DEFINE t      == k.task[p]
           policy == RequestedPolicy(t, r)
           k1     == IF t.array = "NULL" THEN k ELSE deactivate_task(k, p)
           k2     == IF t.policy = "OTHER" /\ policy = "SHORT" THEN set_short(k1, p, r)
                     ELSE k1
           pr     == IF policy \in {"FIFO", "RR"} THEN prio ELSE t.static_prio
           k3     == [k2 EXCEPT !.task[p].policy = policy,
                                !.task[p].prio = IF policy \in {"FIFO", "RR"} THEN prio
                                                 ELSE t.static_prio]
           k4     == IF t.array = "NULL" THEN k3 ELSE activate_task(k3, p, prio)
           k5     == [k1 EXCEPT !.task[p].requested_time = r.time]
           k6     == resched_task(k4, k.rq.curr)
<1>0. p \in AllTask /\ t \in TaskStructs /\ t.prio \in Prio
  BY KernelParts DEF AllTask
<1>1. setscheduler(k, p, r, prio) =
        IF SetschedulerRejects(t, r) THEN k
        ELSE IF t.policy = "SHORT" /\ policy = "SHORT" THEN k5
        ELSE IF policy = "SHORT" THEN schedule(k6, FALSE) ELSE k4
  BY DEF setscheduler
<1>2. CASE SetschedulerRejects(t, r)
  BY <1>1, <1>2, EvolvesRefl
<1>3. CASE ~SetschedulerRejects(t, r)
  <2>1. ~Overdue(t)
    BY <1>3 DEF SetschedulerRejects, Overdue
  <2>2. policy \in Policies /\ pr \in Prio
    <3>1. t.policy \in Policies /\ t.static_prio \in Prio
      BY <1>0, TaskFields, NicePrioType
    <3>2. r.policy # "KEEP" => r.policy \in Policies
      BY DEF SchedRequests
    <3> QED
      BY <3>1, <3>2 DEF RequestedPolicy
  <2> HIDE DEF policy
  <2>3. EvolvesBut(k, k1, p)
    BY <1>0, DeactivateEvolves, EvolvesRefl, EvolvesButIntro
  <2>4. k1 \in Kernels
    BY <2>3 DEF EvolvesBut
  <2> HIDE DEF k1
  <2>5. EvolvesBut(k, k5, p)
    <3> DEFINE u == [k1.task[p] EXCEPT !.requested_time = r.time]
    <3>1. u \in TaskStructs /\ u.prio \in Prio
      <4>1. r.time \in Nat /\ k1.task[p] \in TaskStructs /\ k1.task[p].prio \in Prio
        BY <1>0, <2>4, KernelParts DEF SchedRequests
      <4> QED
        BY <4>1 DEF TaskStructs
    <3>2. k5 = [k1 EXCEPT !.task[p] = u]
      BY <2>4 DEF Kernels
    <3> HIDE DEF u
    <3>3. EvolvesBut(k1, k5, p)
      BY <1>0, <2>4, <3>1, <3>2, ReplaceTask
    <3> QED
      BY <2>3, <3>3, EvolvesButTrans
  <2>6. EvolvesBut(k, k2, p)
    BY <2>3, <2>4, SetShortEvolves, EvolvesButTrans
  <2>7. k2 \in Kernels
    BY <2>6 DEF EvolvesBut
  <2> HIDE DEF k2, k5
  <2>8. EvolvesBut(k, k3, p)
    <3> DEFINE u == [k2.task[p] EXCEPT !.policy = policy, !.prio = pr]
    <3>1. u \in TaskStructs /\ u.prio \in Prio
      <4>1. k2.task[p] \in TaskStructs /\ pr \in 0 .. MAX_PRIO
        BY <1>0, <2>2, <2>7, KernelParts, MaxPrioAssumption DEF Prio
      <4> HIDE DEF pr
      <4> QED
        BY <2>2, <4>1 DEF TaskStructs
    <3>2. k3 = [k2 EXCEPT !.task[p] = u]
      BY <2>7 DEF Kernels
    <3> HIDE DEF u, k3
    <3>3. EvolvesBut(k2, k3, p)
      BY <1>0, <2>7, <3>1, <3>2, ReplaceTask
    <3> QED
      BY <2>6, <3>3, EvolvesButTrans
  <2> HIDE DEF k3
  <2>9. Evolves(k, k4)
    <3>1. k3 \in Kernels
      BY <2>8 DEF EvolvesBut
    <3>2. EvolvesBut(k3, k4, p)
      BY <3>1, ActivateEvolves, EvolvesRefl, EvolvesButIntro
    <3> QED
      BY <2>1, <2>8, <3>2, EvolvesButTrans, EvolvesButElim
  <2> HIDE DEF k4
  <2>10. Evolves(k4, k6)
    BY <2>9, ReschedEvolves, Counts DEF Evolves
  <2> HIDE DEF k6
  <2>11. Evolves(k6, schedule(k6, FALSE))
    BY <2>10, ScheduleEvolves DEF Evolves
  <2> QED
    BY <1>1, <1>3, <2>1, <2>5, <2>9, <2>10, <2>11, EvolvesButElim, EvolvesTrans
<1> QED
  BY <1>2, <1>3

-----------------------------------------------------------------------------
(* fork and exit *)

\* The type of a free task_struct.
LEMMA FreeTaskType == FreeTask \in TaskStructs /\ FreeTask.prio \in Prio
<1>1. NICE_TO_PRIO(0) \in UserPrio /\ NICE_TO_PRIO(0) \in Prio
  BY NicePrioType
<1>2. NICE_TO_PRIO(0) \in 0 .. MAX_PRIO /\ 0 \in 0 .. UINT - 1
  BY <1>1, MaxPrioAssumption, TimeAssumption DEF Prio
<1> QED
  BY <1>1, <1>2, ReaperAssumption DEF FreeTask, TaskStructs, States, Policies

\* do_fork copies current into the child only (fork.c:614-690).
LEMMA DupEvolves ==
  ASSUME NEW k \in Kernels, NEW c \in Task, k.rq.curr \in Task
  PROVE  EvolvesBut(k, dup_task(k, c), c)
<1> DEFINE t == [k.task[k.rq.curr] EXCEPT !.state = "UNINTERRUPTIBLE", !.array = "NULL"]
<1>1. t \in TaskStructs /\ t.prio \in Prio
  <2>1. k.task[k.rq.curr] \in TaskStructs /\ k.task[k.rq.curr].prio \in Prio
    BY KernelParts DEF AllTask
  <2> QED
    BY <2>1 DEF TaskStructs, States
<1>2. dup_task(k, c) = [k EXCEPT !.task[c] = t]
  BY DEF dup_task
<1> HIDE DEF t
<1> QED
  BY <1>1, <1>2, ReplaceTask DEF AllTask

\* The time slice is split between parent and child (fork.c:726-730).
LEMMA SplitSliceEvolves ==
  ASSUME NEW k \in Kernels, NEW p \in Task, NEW c \in Task
  PROVE  Evolves(k, split_slice(k, p, c))
<1> DEFINE n  == k.task[p].time_slice
           t  == [k.task[c] EXCEPT !.time_slice = (n + 1) \div 2, !.first_time_slice = TRUE]
           k1 == [k EXCEPT !.task[c] = t]
           k2 == [k1 EXCEPT !.task[p].time_slice = n \div 2]
<1>0. p \in AllTask /\ c \in AllTask /\ n \in 0 .. UINT - 1
  BY KernelParts, TaskFields DEF AllTask
<1>1. split_slice(k, p, c) = k2
  BY DEF split_slice
<1>2. (n + 1) \div 2 \in 0 .. UINT - 1 /\ n \div 2 \in 0 .. UINT - 1
  BY <1>0, TimeAssumption
<1> HIDE DEF n
<1>3. t \in TaskStructs /\ t.prio \in Prio /\ (Overdue(k.task[c]) => Overdue(t))
  <2>1. k.task[c] \in TaskStructs /\ k.task[c].prio \in Prio
    BY <1>0, KernelParts
  <2> QED
    BY <1>2, <2>1 DEF TaskStructs, Overdue
<1> HIDE DEF t
<1>4. Evolves(k, k1)
  BY <1>0, <1>3, SetTask
<1> HIDE DEF k1
<1>5. Evolves(k1, k2)
  BY <1>0, <1>2, <1>4, SetSlice DEF Evolves
<1> QED
  BY <1>1, <1>4, <1>5, EvolvesTrans

\* The trials are split between parent and child: only the child can become less
\* overdue (fork.c:737-747).
LEMMA SplitTrialsEvolves ==
  ASSUME NEW k \in Kernels, NEW p \in Task, NEW c \in Task
  PROVE  EvolvesBut(k, split_trials(k, p, c), c)
<1> DEFINE t  == k.task[p]
           n  == (t.number_of_trials - t.current_trial + 1) \div 2
           u  == [k.task[c] EXCEPT !.policy = "SHORT", !.number_of_trials = n,
                                   !.current_trial = 0, !.is_overdue = FALSE]
           k1 == [k EXCEPT !.task[c] = u]
           m  == k1.task[p].number_of_trials
           v  == [k1.task[p] EXCEPT !.number_of_trials = m \div 2]
           k2 == [k1 EXCEPT !.task[p].number_of_trials = m \div 2]
           w  == [k.task[c] EXCEPT !.policy = "SHORT", !.is_overdue = TRUE]
           k3 == [k EXCEPT !.task[c] = w]
<1>0. p \in AllTask /\ c \in AllTask
  BY DEF AllTask
<1>1. t \in TaskStructs /\ k.task[c] \in TaskStructs /\ k.task[c].prio \in Prio
  BY <1>0, KernelParts
<1>2. split_trials(k, p, c) = IF t.policy # "SHORT" THEN k
                              ELSE IF t.is_overdue THEN k3 ELSE k2
  BY DEF split_trials
<1>3. n \in Int
  BY <1>1, TaskFields
<1> HIDE DEF t, n
<1>4. u \in TaskStructs /\ u.prio \in Prio /\ w \in TaskStructs /\ w.prio \in Prio
  BY <1>1, <1>3 DEF TaskStructs, Policies
<1> HIDE DEF u, w
<1>5. EvolvesBut(k, k1, c) /\ EvolvesBut(k, k3, c)
  BY <1>0, <1>4, ReplaceTask
<1>6. k1 \in Kernels
  BY <1>5 DEF EvolvesBut
<1> HIDE DEF k1, k3
<1>7. v \in TaskStructs /\ v.prio \in Prio /\ (Overdue(k1.task[p]) => Overdue(v))
  <2>1. k1.task[p] \in TaskStructs /\ k1.task[p].prio \in Prio /\ m \in Int
    BY <1>0, <1>6, KernelParts, TaskFields
  <2>2. m \div 2 \in Int
    BY <2>1
  <2> HIDE DEF m
  <2> QED
    BY <2>1, <2>2 DEF TaskStructs, Overdue
<1>8. k2 = [k1 EXCEPT !.task[p] = v]
  BY <1>6 DEF Kernels
<1> HIDE DEF v, k2
<1>9. Evolves(k1, k2)
  BY <1>0, <1>6, <1>7, <1>8, SetTask
<1> QED
  BY <1>2, <1>5, <1>9, EvolvesRefl, EvolvesButIntro, EvolvesButTrans

\* The section of do_fork with interrupts disabled (fork.c:724-763).
LEMMA ShareEvolves ==
  ASSUME NEW k \in Kernels, NEW c \in Task, NEW prio \in Prio, NEW starving \in BOOLEAN,
         k.rq.curr \in Task
  PROVE  EvolvesBut(k, share_timeslice(k, c, prio, starving), c)
<1> DEFINE p  == k.rq.curr
           k0 == split_slice(k, p, c)
           k1 == split_trials(k0, p, c)
           k2 == [k1 EXCEPT !.task[p].time_slice = 1]
           k3 == scheduler_tick(k2, prio, starving)
<1>0. p \in AllTask
  BY DEF AllTask
<1>1. share_timeslice(k, c, prio, starving) =
        IF k.task[p].time_slice = 0 THEN Oops(k, "fork_no_time_slice")
        ELSE IF k1.task[p].time_slice > 0 THEN k1 ELSE k3
  BY DEF share_timeslice
<1>2. Evolves(k, k0)
  BY SplitSliceEvolves
<1> HIDE DEF k0
<1>3. EvolvesBut(k0, k1, c)
  BY <1>2, SplitTrialsEvolves DEF Evolves
<1> HIDE DEF k1
<1>4. Evolves(k1, k2)
  BY <1>0, <1>3, SetSlice, TimeAssumption DEF EvolvesBut
<1> HIDE DEF k2
<1>5. Evolves(k2, k3)
  BY <1>4, TickEvolves DEF Evolves
<1> HIDE DEF k3
<1>6. Evolves(k, Oops(k, "fork_no_time_slice"))
  BY OopsEvolves DEF Oopses
<1> QED
  BY <1>1, <1>2, <1>3, <1>4, <1>5, <1>6, EvolvesButIntro, EvolvesButTrans

\* wake_up_forked_process keeps types and overdue processes (sched.c:510-545).
LEMMA WakeForkedEvolves ==
  ASSUME NEW k \in Kernels, NEW c \in Task, NEW pprio \in Prio, NEW cprio \in Prio,
         k.rq.curr \in Task
  PROVE  Evolves(k, wake_up_forked_process(k, c, pprio, cprio))
<1> DEFINE p  == k.rq.curr
           k1 == [k EXCEPT !.task[c].state = "RUNNING"]
           k2 == deactivate_task(k1, p)
           k3 == activate_task(k2, p, pprio)
           k4 == IF k.task[c].policy # "SHORT" THEN k1 ELSE k3
           k5 == activate_task(k4, c, cprio)
<1>0. p \in AllTask /\ c \in AllTask
  BY DEF AllTask
<1>1. wake_up_forked_process(k, c, pprio, cprio) = k5
  BY DEF wake_up_forked_process
<1>2. Evolves(k, k1)
  BY <1>0, SetState DEF States
<1> HIDE DEF k1
<1>3. Evolves(k1, k2)
  BY <1>0, <1>2, DeactivateEvolves DEF Evolves
<1> HIDE DEF k2
<1>4. Evolves(k2, k3)
  BY <1>3, ActivateEvolves DEF Evolves
<1> HIDE DEF k3
<1>5. Evolves(k, k4)
  BY <1>2, <1>3, <1>4, EvolvesTrans
<1> HIDE DEF k4
<1>6. Evolves(k4, k5)
  BY <1>5, ActivateEvolves DEF Evolves
<1> QED
  BY <1>1, <1>5, <1>6, EvolvesTrans

\* forget_original_parent keeps types and overdue processes (exit.c:205-240).
LEMMA ForgetEvolves ==
  ASSUME NEW k \in Kernels, NEW p \in Task
  PROVE  Evolves(k, forget_original_parent(k, p))
<1> DEFINE adopted(q) == [k.task[q] EXCEPT !.parent = Reaper, !.first_time_slice = FALSE]
           tk == [q \in AllTask |->
                    IF q \in Task /\ k.task[q].parent = p /\ k.task[q].state # "FREE"
                    THEN adopted(q) ELSE k.task[q]]
<1>1. \A q \in AllTask : /\ adopted(q) \in TaskStructs
                         /\ q \in Task => adopted(q).prio \in Prio
                         /\ Overdue(k.task[q]) => Overdue(adopted(q))
  <2> SUFFICES ASSUME NEW q \in AllTask
               PROVE  /\ adopted(q) \in TaskStructs
                      /\ q \in Task => adopted(q).prio \in Prio
                      /\ Overdue(k.task[q]) => Overdue(adopted(q))
    OBVIOUS
  <2>1. k.task[q] \in TaskStructs /\ (q \in Task => k.task[q].prio \in Prio)
    BY KernelParts
  <2> QED
    BY <2>1, ReaperAssumption DEF TaskStructs, Overdue
<1>2. forget_original_parent(k, p) = [k EXCEPT !.task = tk]
  BY DEF forget_original_parent
<1> HIDE DEF adopted
<1>3. tk \in [AllTask -> TaskStructs] /\ \A q \in Task : tk[q].prio \in Prio
  BY <1>1, KernelParts DEF AllTask
<1>4. \A q \in AllTask : Overdue(k.task[q]) => Overdue(tk[q])
  BY <1>1
<1> HIDE DEF tk
<1>5. forget_original_parent(k, p) = [task |-> tk, rq |-> k.rq, oops |-> k.oops]
  BY <1>2 DEF Kernels
<1> QED
  BY <1>3, <1>4, <1>5, KernelMake, KernelParts DEF Evolves, KeepsOverdue

\* sched_exit keeps types: the recovered slice is at most MAX_TIMESLICE
\* (sched.c:555-564).
LEMMA SchedExitEvolves ==
  ASSUME NEW k \in Kernels, NEW c \in Task
  PROVE  Evolves(k, sched_exit(k, c))
<1> DEFINE p   == k.rq.curr
           sum == (k.task[p].time_slice + k.task[c].time_slice) % UINT
           n   == IF sum > MAX_TIMESLICE THEN MAX_TIMESLICE ELSE sum
<1>0. p \in AllTask /\ c \in AllTask
  BY Counts DEF AllTask
<1>1. k.task[p].time_slice \in 0 .. UINT - 1 /\ k.task[c].time_slice \in 0 .. UINT - 1
  BY <1>0, KernelParts, TaskFields
<1>2. n \in 0 .. UINT - 1
  BY <1>1, TimeAssumption
<1>3. sched_exit(k, c) = IF ~k.task[c].first_time_slice THEN k
                         ELSE [k EXCEPT !.task[p].time_slice = n]
  BY DEF sched_exit
<1> HIDE DEF n
<1> QED
  BY <1>0, <1>2, <1>3, SetSlice, EvolvesRefl

\* release_task frees the one task_struct it is called for (exit.c:29-47).
LEMMA ReleaseEvolves ==
  ASSUME NEW k \in Kernels, NEW c \in Task
  PROVE  EvolvesBut(k, release_task(k, c), c)
<1> DEFINE k1 == sched_exit(k, c)
<1>1. Evolves(k, k1)
  BY SchedExitEvolves
<1>2. release_task(k, c) = [k1 EXCEPT !.task[c] = FreeTask]
  BY DEF release_task
<1> HIDE DEF k1
<1>3. EvolvesBut(k1, [k1 EXCEPT !.task[c] = FreeTask], c)
  BY <1>1, FreeTaskType, ReplaceTask DEF Evolves, AllTask
<1> QED
  BY <1>1, <1>2, <1>3, EvolvesButIntro, EvolvesButTrans

-----------------------------------------------------------------------------
(* The actions *)

\* effective_prio is a user priority, whatever the bonus (sched.c:289-326).
LEMMA EffectivePrioType ==
  ASSUME NEW t, t.static_prio \in UserPrio
  PROVE  effective_prio(t) \subseteq Prio
<1>1. \A b \in Bonuses \cup {t.static_prio, 0} : ClampUser(t.static_prio - b) \in Prio
  BY PrioAssumption, MaxPrioAssumption, BonusAssumption DEF ClampUser, UserPrio, Prio
<1> QED
  BY <1>1 DEF effective_prio

\* The priorities the actions choose from are priorities.
LEMMA PrioChoices ==
  ASSUME NEW t \in TaskStructs, t.prio \in Prio
  PROVE  /\ WakePrios(t) \subseteq Prio
         /\ ForkedPrios(t) \subseteq Prio
         /\ TickPrios(t) \subseteq Prio
         /\ \A r \in SchedRequests : SetschedulerPrios(t, r) \subseteq Prio
<1>1. t.static_prio \in UserPrio /\ t.static_prio \in Prio /\ effective_prio(t) \subseteq Prio
  BY TaskFields, EffectivePrioType, NicePrioType
<1>2. ASSUME NEW r \in SchedRequests
      PROVE  SetschedulerPrios(t, r) \subseteq Prio
  <2> DEFINE u == [t EXCEPT !.policy = RequestedPolicy(t, r), !.is_overdue = FALSE]
  <2>1. MAX_USER_RT_PRIO - 1 - r.priority \in Prio
    BY PrioAssumption, MaxPrioAssumption DEF SchedRequests, MAX_USER_RT_PRIO, Prio
  <2>2. u.static_prio \in UserPrio
    BY <1>1 DEF TaskStructs
  <2> HIDE DEF u
  <2>3. effective_prio(u) \subseteq Prio
    BY <2>2, EffectivePrioType
  <2> QED
    BY <1>1, <2>1, <2>3 DEF SetschedulerPrios, u
<1> QED
  BY <1>1, <1>2 DEF WakePrios, ForkedPrios, TickPrios

\* What the type invariant says of the kernel state the operators work on.
LEMMA KernType ==
  ASSUME TypeOK
  PROVE  /\ kern \in Kernels /\ kern.task = task /\ kern.rq = rq /\ kern.oops = oops
         /\ pc \in [Task -> PCs]
         /\ \A p \in Task : task[p] \in TaskStructs /\ task[p].prio \in Prio
         /\ rq.curr \in AllTask /\ Task \subseteq AllTask
BY DEF TypeOK, kern, Kernels, AllTask, RunQueues

\* What every step achieves.
GoodStep == TypeOK' /\ \A p \in Task : StaysOverdue(p)

\* A step to a state that Evolves from the current one is good.
LEMMA BecomeGood ==
  ASSUME TypeOK, NEW STATE k, Evolves(kern, k), Become(k), pc' \in [Task -> PCs]
  PROVE  GoodStep
<1>1. TypeOK'
  BY KernelParts DEF TypeOK, Become, Evolves
<1>2. \A p \in Task : StaysOverdue(p)
  BY DEF StaysOverdue, Become, Evolves, KeepsOverdue, kern, AllTask
<1> QED
  BY <1>1, <1>2 DEF GoodStep

\* So is one that changes the excepted task at will, when that task is not in the
\* pid hash yet, or is freed by the step.
LEMMA BecomeButGood ==
  ASSUME TypeOK, NEW STATE k, NEW c \in Task, EvolvesBut(kern, k, c), Become(k),
         pc' \in [Task -> PCs], ~Hashed(c) \/ k.task[c].state = "FREE"
  PROVE  GoodStep
<1>1. TypeOK'
  BY KernelParts DEF TypeOK, Become, EvolvesBut
<1>2. \A p \in Task : StaysOverdue(p)
  BY DEF StaysOverdue, Become, EvolvesBut, kern, AllTask
<1> QED
  BY <1>1, <1>2 DEF GoodStep

\* The timer interrupt.
LEMMA TickGood == ASSUME TypeOK, Tick PROVE GoodStep
<1>1. PICK prio \in TickPrios(task[rq.curr]), starving \in BOOLEAN :
        Become(scheduler_tick(kern, prio, starving)) /\ UNCHANGED pc
  BY DEF Tick
<1>2. task[rq.curr] \in TaskStructs
  BY KernType DEF TypeOK
<1>3. prio \in Prio \cup {MAX_PRIO} /\ (rq.curr \in Task => prio \in Prio)
  <2>1. task[rq.curr].prio \in Prio \cup {MAX_PRIO}
    BY <1>2, TaskFields, MaxPrioAssumption DEF Prio
  <2>2. effective_prio(task[rq.curr]) \subseteq Prio
    BY <1>2, TaskFields, EffectivePrioType
  <2> QED
    BY <2>1, <2>2, KernType DEF TickPrios
<1>4. Evolves(kern, scheduler_tick(kern, prio, starving))
  BY <1>3, KernType, TickEvolves
<1> QED
  BY <1>1, <1>4, KernType, BecomeGood

\* A wake-up from an interrupt.
LEMMA WakeGood == ASSUME TypeOK, NEW p \in Task, Wake(p) PROVE GoodStep
<1>1. PICK prio \in WakePrios(task[p]) :
        Become(try_to_wake_up(kern, p, prio)) /\ UNCHANGED pc
  BY DEF Wake
<1>2. prio \in Prio
  BY KernType, PrioChoices
<1>3. Evolves(kern, try_to_wake_up(kern, p, prio))
  BY <1>2, KernType, WakeEvolves
<1> QED
  BY <1>1, <1>3, KernType, BecomeGood

\* A reschedule on the return to user mode.
LEMMA RescheduleGood == ASSUME TypeOK, Reschedule PROVE GoodStep
<1>1. Become(schedule(kern, FALSE)) /\ pc' = pc
  BY DEF Reschedule
<1>2. Evolves(kern, schedule(kern, FALSE))
  BY KernType, ScheduleEvolves
<1> QED
  BY <1>1, <1>2, KernType, BecomeGood

\* The move of one process inside the kernel.
LEMMA GotoType ==
  ASSUME TypeOK, NEW p \in Task, NEW to \in PCs, Goto(p, to)
  PROVE  pc' \in [Task -> PCs]
BY DEF TypeOK, Goto

\* Entry of and return from a system call.
LEMMA EnterGood ==
  ASSUME TypeOK, NEW p \in Task, Enter(p) \/ Return(p) PROVE GoodStep
<1>1. Become(kern) /\ pc' \in [Task -> PCs]
  BY GotoType DEF Enter, Return, PCs
<1> QED
  BY <1>1, KernType, EvolvesRefl, BecomeGood

\* The first half of a wait loop, and its early end.
LEMMA PrepareGood ==
  ASSUME TypeOK, NEW p \in Task, PrepareToSleep(p) \/ CancelSleep(p) PROVE GoodStep
<1>1. PICK s \in States : Become([kern EXCEPT !.task[p].state = s])
  BY DEF PrepareToSleep, CancelSleep, States
<1>2. pc' \in [Task -> PCs]
  BY GotoType DEF PrepareToSleep, CancelSleep, PCs
<1>3. Evolves(kern, [kern EXCEPT !.task[p].state = s])
  BY KernType, SetState
<1> QED
  BY <1>1, <1>2, <1>3, BecomeGood

\* The call of schedule of a wait loop, and of do_exit.
LEMMA SleepGood ==
  ASSUME TypeOK, NEW p \in Task, Sleep(p) \/ ExitSchedule(p) PROVE GoodStep
<1>1. PICK b \in BOOLEAN : Become(schedule(kern, b))
  BY DEF Sleep, ExitSchedule
<1>2. pc' \in [Task -> PCs]
  BY GotoType DEF Sleep, ExitSchedule, PCs
<1>3. Evolves(kern, schedule(kern, b))
  BY KernType, ScheduleEvolves
<1> QED
  BY <1>1, <1>2, <1>3, BecomeGood

\* sched_yield.
LEMMA YieldGood == ASSUME TypeOK, NEW p \in Task, Yield(p) PROVE GoodStep
<1> DEFINE k1 == requeue_yielding(kern, rq.curr)
<1>1. Become(schedule(k1, FALSE))
  BY KernType DEF Yield, sys_sched_yield
<1>2. pc' \in [Task -> PCs]
  BY GotoType DEF Yield, PCs
<1>3. Evolves(kern, k1)
  BY KernType, RequeueEvolves DEF Yield, Call, At
<1> HIDE DEF k1
<1>4. Evolves(k1, schedule(k1, FALSE))
  BY <1>3, ScheduleEvolves DEF Evolves
<1>5. Evolves(kern, schedule(k1, FALSE))
  BY <1>3, <1>4, EvolvesTrans
<1> QED
  BY <1>1, <1>2, <1>5, BecomeGood

\* sched_setscheduler.
LEMMA SetSchedulerGood == ASSUME TypeOK, NEW p \in Task, SetScheduler(p) PROVE GoodStep
<1>1. PICK q \in Task, r \in Requests :
        \E prio \in SetschedulerPrios(task[q], r) : Become(setscheduler(kern, q, r, prio))
  BY DEF SetScheduler
<1>2. PICK prio \in SetschedulerPrios(task[q], r) : Become(setscheduler(kern, q, r, prio))
  BY <1>1
<1>3. r \in SchedRequests /\ prio \in Prio
  BY KernType, PrioChoices, CallAssumption
<1>4. Evolves(kern, setscheduler(kern, q, r, prio))
  BY <1>3, KernType, SetschedulerEvolves
<1>5. pc' \in [Task -> PCs]
  BY GotoType DEF SetScheduler, PCs
<1> QED
  BY <1>2, <1>4, <1>5, BecomeGood

\* nice and setpriority.
LEMMA NiceGood == ASSUME TypeOK, NEW p \in Task, Nice(p) PROVE GoodStep
<1>1. PICK q \in Task, nice \in Nices : Become(set_user_nice(kern, q, nice))
  BY DEF Nice
<1>2. Evolves(kern, set_user_nice(kern, q, nice))
  BY KernType, NiceEvolves, CallAssumption
<1>3. pc' \in [Task -> PCs]
  BY GotoType DEF Nice, PCs
<1> QED
  BY <1>1, <1>2, <1>3, BecomeGood

\* The copy of current, into a task_struct that was free.
LEMMA ForkDupGood ==
  ASSUME TypeOK, NEW p \in Task, NEW c \in Task, ForkDup(p, c) PROVE GoodStep
<1>1. Become(dup_task(kern, c)) /\ ~Hashed(c) /\ rq.curr \in Task
  BY DEF ForkDup, Hashed, Call, At
<1>2. pc' \in [Task -> PCs]
  BY KernType DEF ForkDup, PCs
<1>3. EvolvesBut(kern, dup_task(kern, c), c)
  BY <1>1, KernType, DupEvolves
<1> QED
  BY <1>1, <1>2, <1>3, BecomeButGood

\* A fork that fails frees the child again.
LEMMA ForkFailGood ==
  ASSUME TypeOK, NEW p \in Task, NEW c \in Task, ForkFail(p, c) PROVE GoodStep
<1>1. Become([kern EXCEPT !.task[c] = FreeTask]) /\ ~Hashed(c)
  BY DEF ForkFail, Hashed
<1>2. pc' \in [Task -> PCs]
  BY KernType DEF ForkFail, PCs
<1>3. EvolvesBut(kern, [kern EXCEPT !.task[c] = FreeTask], c)
  BY KernType, FreeTaskType, ReplaceTask
<1> QED
  BY <1>1, <1>2, <1>3, BecomeButGood

\* The split of slice and trials, while the child is in no hash.
LEMMA ForkShareGood ==
  ASSUME TypeOK, NEW p \in Task, NEW c \in Task, ForkShare(p, c) PROVE GoodStep
<1>1. rq.curr = p /\ ~Hashed(c)
  BY DEF ForkShare, Hashed, At
<1>2. PICK prio \in TickPrios(task[p]), starving \in BOOLEAN :
        Become(share_timeslice(kern, c, prio, starving))
  BY DEF ForkShare
<1>3. prio \in Prio
  BY KernType, PrioChoices
<1>4. EvolvesBut(kern, share_timeslice(kern, c, prio, starving), c)
  BY <1>1, <1>3, KernType, ShareEvolves
<1>5. pc' \in [Task -> PCs]
  BY GotoType DEF ForkShare, PCs
<1> QED
  BY <1>1, <1>2, <1>4, <1>5, BecomeButGood

\* The wake-up of the child.
LEMMA ForkWakeGood ==
  ASSUME TypeOK, NEW p \in Task, NEW c \in Task, ForkWake(p, c) PROVE GoodStep
<1> DEFINE t  == [kern.task[c] EXCEPT !.parent = p]
           k1 == [kern EXCEPT !.task[c].parent = p]
           k2(pprio, cprio) == wake_up_forked_process(k1, c, pprio, cprio)
           k3(pprio, cprio) == resched_task(k2(pprio, cprio), p)
<1>1. PICK pprio \in WakePrios(task[p]), cprio \in ForkedPrios(task[c]) :
        Become(k3(pprio, cprio))
  BY DEF ForkWake
<1>2. pprio \in Prio /\ cprio \in Prio
  BY KernType, PrioChoices
<1>3. Evolves(kern, k1) /\ k1.rq = rq
  <2>1. kern.task[c] \in TaskStructs /\ kern.task[c].prio \in Prio /\ kern \in Kernels
    BY KernType
  <2>2. t \in TaskStructs /\ t.prio \in Prio /\ (Overdue(kern.task[c]) => Overdue(t))
    BY <2>1 DEF TaskStructs, Overdue
  <2>3. k1 = [kern EXCEPT !.task[c] = t]
    BY <2>1 DEF Kernels
  <2>4. k1.rq = rq
    BY KernType DEF Kernels
  <2> HIDE DEF t, k1
  <2> QED
    BY <2>1, <2>2, <2>3, <2>4, SetTask, KernType
<1> HIDE DEF k1
<1>4. k1 \in Kernels /\ k1.rq.curr \in Task
  BY <1>3 DEF Evolves, ForkWake, At
<1>5. Evolves(k1, k2(pprio, cprio))
  BY <1>2, <1>4, WakeForkedEvolves
<1> HIDE DEF k2
<1>6. Evolves(k2(pprio, cprio), k3(pprio, cprio))
  BY <1>5, KernType, ReschedEvolves DEF Evolves
<1> HIDE DEF k3
<1>7. Evolves(kern, k3(pprio, cprio))
  BY <1>3, <1>5, <1>6, EvolvesTrans
<1>8. pc' \in [Task -> PCs]
  BY KernType DEF ForkWake, PCs
<1> QED
  BY <1>1, <1>7, <1>8, BecomeGood

\* do_exit up to exit_notify.
LEMMA ExitNotifyGood == ASSUME TypeOK, NEW p \in Task, ExitNotify(p) PROVE GoodStep
<1> DEFINE k0     == forget_original_parent(kern, p)
           k1     == [k0 EXCEPT !.task[p].state = "ZOMBIE"]
           parent == k1.task[p].parent
<1>1. Evolves(kern, k0)
  BY KernType, ForgetEvolves
<1>2. \/ Become(k1)
      \/ \E prio \in WakePrios(task[parent]) : Become(try_to_wake_up(k1, parent, prio))
  BY DEF ExitNotify
<1> HIDE DEF k0
<1>3. Evolves(k0, k1)
  BY <1>1, KernType, SetState DEF Evolves, States
<1> HIDE DEF k1
<1>4. k1 \in Kernels /\ Evolves(kern, k1)
  BY <1>1, <1>3, EvolvesTrans DEF Evolves
<1>5. parent \in Task
  BY <1>4, KernelParts, TaskFields DEF AllTask
<1>6. pc' \in [Task -> PCs]
  BY GotoType DEF ExitNotify, PCs
<1>7. CASE Become(k1)
  BY <1>4, <1>6, <1>7, BecomeGood
<1>8. CASE \E prio \in WakePrios(task[parent]) : Become(try_to_wake_up(k1, parent, prio))
  <2>1. PICK prio \in WakePrios(task[parent]) : Become(try_to_wake_up(k1, parent, prio))
    BY <1>8
  <2>2. prio \in Prio
    BY <1>5, KernType, PrioChoices
  <2> HIDE DEF parent
  <2>3. Evolves(k1, try_to_wake_up(k1, parent, prio))
    BY <1>4, <1>5, <2>2, WakeEvolves
  <2>4. Evolves(kern, try_to_wake_up(k1, parent, prio))
    BY <1>4, <2>3, EvolvesTrans
  <2> QED
    BY <1>6, <2>1, <2>4, BecomeGood
<1> QED
  BY <1>2, <1>7, <1>8

\* wait4 releases a zombie.
LEMMA ReapGood ==
  ASSUME TypeOK, NEW p \in Task, NEW c \in Task, Reap(p, c) PROVE GoodStep
<1> DEFINE k1 == release_task(kern, c)
<1>1. Become(k1)
  BY DEF Reap
<1>2. EvolvesBut(kern, k1, c)
  BY KernType, ReleaseEvolves
<1>3. k1.task[c].state = "FREE"
  <2>1. sched_exit(kern, c) \in Kernels
    BY KernType, SchedExitEvolves DEF Evolves
  <2>2. k1.task[c] = FreeTask
    BY <2>1, KernType DEF release_task, Kernels
  <2> QED
    BY <2>2 DEF FreeTask
<1>4. pc' \in [Task -> PCs]
  BY GotoType DEF Reap, PCs
<1> HIDE DEF k1
<1> QED
  BY <1>1, <1>2, <1>3, <1>4, BecomeButGood

\* Every step keeps the type invariant, and lets no process of the pid hash get out
\* of being overdue.
LEMMA NextGood == ASSUME TypeOK, [Next]_vars PROVE GoodStep
<1>1. CASE UNCHANGED vars
  BY <1>1 DEF vars, TypeOK, GoodStep, StaysOverdue
<1>2. ASSUME NEW p \in Task, Step(p) PROVE GoodStep
  BY <1>2, EnterGood, PrepareGood, SleepGood, YieldGood, SetSchedulerGood, NiceGood,
     ExitNotifyGood, ForkDupGood, ForkFailGood, ForkShareGood, ForkWakeGood, ReapGood
  DEF Step
<1> QED
  BY <1>1, <1>2, TickGood, RescheduleGood, WakeGood DEF Next

\* The initial state has the types TypeOK says.
LEMMA InitType == ASSUME Init PROVE TypeOK
<1>1. FreeTask \in TaskStructs /\ FreeTask.prio \in Prio /\ NICE_TO_PRIO(0) \in Prio
  BY FreeTaskType, NicePrioType
<1>2. InitTask \in TaskStructs /\ InitTask.prio \in Prio
  <2>1. MAX_TIMESLICE \in 0 .. UINT - 1
    BY TimeAssumption
  <2> QED
    BY <1>1, <2>1 DEF InitTask, TaskStructs, States, ArrayId
<1> DEFINE idle == [FreeTask EXCEPT !.state = "RUNNING", !.prio = MAX_PRIO]
<1>3. idle \in TaskStructs
  <2>1. MAX_PRIO \in 0 .. MAX_PRIO /\ "RUNNING" \in States
    BY MaxPrioAssumption DEF States
  <2> QED
    BY <1>1, <2>1 DEF TaskStructs
<1> HIDE DEF idle
<1>4. task = [p \in AllTask |-> CASE p = Reaper -> InitTask [] p = Idle -> idle
                                  [] OTHER -> FreeTask]
  BY DEF Init, idle
<1>5. task \in [AllTask -> TaskStructs] /\ \A p \in Task : task[p].prio \in Prio
  BY <1>1, <1>2, <1>3, <1>4, IdleAssumption DEF AllTask
<1>6. rq \in RunQueues
  <2>1. init_array \in PrioArrays
    BY DEF init_array, PrioArrays
  <2>2. enqueue(init_array, Reaper, NICE_TO_PRIO(0)) \in PrioArrays
    BY <1>1, <2>1, ReaperAssumption, EnqueueType
  <2> QED
    BY <2>1, <2>2, ReaperAssumption DEF Init, RunQueues, ArrayId, AllTask
<1>7. oops \in Oopses /\ pc \in [Task -> PCs]
  BY DEF Init, Oopses, PCs
<1> QED
  BY <1>5, <1>6, <1>7 DEF TypeOK

\* In every reachable state, for any number of tasks, priorities and ticks, the
\* variables have the types TypeOK says: in particular every task is queued under a
\* legal priority, every list holds tasks only, and no time slice leaves the range
\* of an unsigned int.
THEOREM TypeCorrect == Spec => []TypeOK
<1>1. TypeOK /\ [Next]_vars => TypeOK'
  BY NextGood DEF GoodStep
<1> QED
  BY <1>1, InitType, PTL DEF Spec

\* An overdue process stays overdue until it is released, for every workload, that
\* is also when any process may be the target of setscheduler (sched.c:1640-1642,
\* and the comment of effective_prio, sched.c:307-311): no system call, fork, tick
\* or wake-up gives it trials again.
THEOREM OverdueForever == Spec => OverdueIsFinal
<1>1. TypeOK /\ [Next]_vars => [Alive => \A p \in Task : StaysOverdue(p)]_vars
  BY NextGood DEF GoodStep
<1> QED
  BY <1>1, TypeCorrect, PTL DEF Spec, OverdueIsFinal

=============================================================================
