-------------------------- MODULE WaitQueueProofs --------------------------
(***************************************************************************)
(* No wake-up of a wait queue or completion is lost, for every number of   *)
(* waiters, wakers and tokens: a count of the exclusive waiters that will  *)
(* still look for a token, and of the wake-ups that are still owed.        *)
(***************************************************************************)
EXTENDS WaitQueue, FiniteSetTheorems, SequenceTheorems, TLAPS

-----------------------------------------------------------------------------
(* The inductive invariant *)

OnQueue(t) ==
  IF call[t] = "wait_for_completion" THEN pc[t] \in {"sched", "asleep", "recheck"}
  ELSE pc[t] \in {"set", "check", "signal", "sched", "asleep", "running", "remove"}

\* Which waits come to which places.
CallOK(t) ==
  /\ pc[t] # "user" => call[t] \in build.calls
  /\ pc[t] \in {"complete", "recheck"} => call[t] = "wait_for_completion"
  /\ pc[t] \in {"test", "add", "set", "check", "signal", "running", "remove"} =>
       call[t] # "wait_for_completion"
  /\ pc[t] \in {"set", "check", "signal", "running"} => call[t] \in Loops

\* The state, and whether a waiter is on the runqueue.
StateOK(t) ==
  /\ task[t].state \in {"RUNNING", Mode(t)}
  /\ pc[t] \in {"user", "test", "complete", "recheck", "set", "remove"} =>
       task[t].state = "RUNNING"
  /\ pc[t] = "add" /\ call[t] \notin SleepOns => task[t].state = "RUNNING"
  /\ task[t].array <=> (pc[t] # "asleep" \/ task[t].state = "RUNNING")

\* A list holds each waiter on it once, those that are not exclusive first.
Holds(h)    == \A t \in Waiter : OnQueue(t) /\ Queue(t) = h <=> t \in ToSet(list[h])
Distinct(q) == \A m, n \in DOMAIN q : q[m] = q[n] => m = n
Ordered(h)  == \A m, n \in DOMAIN list[h] :
                 m < n /\ Exclusive(list[h][m]) => Exclusive(list[h][n])
ListOK(h)   == Holds(h) /\ Distinct(list[h]) /\ Ordered(h)

\* Who holds the locks, and what a wake-up is about.
WakerOK(w) ==
  /\ \A h \in Heads : lock[h] = w <=> waker[w].pc \in {"scan", "try"} /\ waker[w].head = h
  /\ waker[w].pc = "lock" => waker[w].head = "q" /\ waker[w].nr >= 0 /\ waker[w].i = 1
  /\ waker[w].pc = "try" => waker[w].i <= Len(list[waker[w].head])
  /\ waker[w].i >= 1 /\ waker[w].nr <= build.tokens
  /\ waker[w].pc # "idle" /\ waker[w].head = "q" => waker[w].mode \in build.modes
  /\ waker[w].pc # "idle" /\ waker[w].head # "q" => waker[w].mode = States \ {"RUNNING"}

\* Nobody runs between the test before sleep_on and its schedule().
SleepOnOK(t) == pc[t] = "add" /\ call[t] \in SleepOns => tokens["q"] = 0

Struct ==
  /\ TypeOK
  /\ \A t \in Waiter : CallOK(t) /\ StateOK(t) /\ SleepOnOK(t)
  /\ \A h \in Heads : ListOK(h)
  /\ \A w \in Waker : WakerOK(w)

\* A waiter on the list that is going to sleep, or sleeps.
Risk(t) == pc[t] \in {"signal", "sched", "asleep"} /\ task[t].state # "RUNNING"

\* An exclusive waiter on the list that will look for a token before it sleeps or leaves.
WillLook(t) ==
  /\ Exclusive(t)
  /\ \/ pc[t] \in {"set", "check", "recheck"}
     \/ pc[t] \in {"sched", "asleep"} /\ task[t].state = "RUNNING"
Sure(h) == {t \in Waiter : Queue(t) = h /\ WillLook(t)}

\* The exclusive waiters that the wake-ups of queue h at these places have yet to wake,
\* one element for each.
Owed(h, places) ==
  {x \in Waker \X (1 .. build.tokens) :
     waker[x[1]].pc \in places /\ waker[x[1]].head = h /\ x[2] <= waker[x[1]].nr}
Under == {"lock", "scan", "try"}

\* A wake-up of all that has not begun, and one that goes through the list.
AllPending(h) ==
  \E w \in Waker : waker[w].pc = "lock" /\ waker[w].head = h /\ waker[w].nr = 0
Scans(h, w) == waker[w].pc \in {"scan", "try"} /\ waker[w].head = h

\* If an exclusive waiter may sleep, there are no more tokens than waiters that will look
\* for one or will yet be woken.
Enough(h) ==
  /\ ~AllPending(h) /\ (\A w \in Waker : Scans(h, w) => waker[w].nr > 0)
  /\ \E t \in Waiter : Queue(t) = h /\ Exclusive(t) /\ Risk(t)
  => tokens[h] <= Cardinality(Sure(h)) + Cardinality(Owed(h, Under))

\* And if one may that the wake-up under way has passed, those that this one has yet to
\* wake do not count.
Passed(h) ==
  \A w \in Waker :
    /\ ~AllPending(h) /\ Scans(h, w)
    /\ \E j \in DOMAIN list[h] :
         j < waker[w].i /\ Exclusive(list[h][j]) /\ Risk(list[h][j])
    => tokens[h] <= Cardinality(Sure(h)) + Cardinality(Owed(h, {"lock"}))

\* Waiters that are not exclusive have a wake-up ahead of them.
SharedAwake(h) ==
  \A t \in Waiter :
    /\ tokens[h] > 0 /\ Queue(t) = h /\ ~Exclusive(t) /\ Risk(t)
    => \E w \in Waker :
         \/ waker[w].pc = "lock" /\ waker[w].head = h
         \/ Scans(h, w) /\ \E j \in DOMAIN list[h] : waker[w].i <= j /\ list[h][j] = t

Count(h) == Enough(h) /\ Passed(h) /\ SharedAwake(h)
IInv == Struct /\ \A h \in Heads : Count(h)

-----------------------------------------------------------------------------
(* Lists *)

\* Unlinking entry j moves up the entries behind it.
LEMMA RemoveAtEntries ==
  ASSUME NEW q \in Seq(Waiter), NEW j \in 1 .. Len(q)
  PROVE  /\ RemoveAt(q, j) \in Seq(Waiter)
         /\ Len(RemoveAt(q, j)) = Len(q) - 1
         /\ \A m \in 1 .. Len(q) - 1 : RemoveAt(q, j)[m] = IF m < j THEN q[m] ELSE q[m + 1]
<1>1. q \in [1 .. Len(q) -> Waiter] /\ Len(q) \in Nat
  OBVIOUS
<1> DEFINE s == SubSeq(q, 1, j - 1)
           t == SubSeq(q, j + 1, Len(q))
<1>2. s \in Seq(Waiter) /\ Len(s) = j - 1 /\ \A m \in 1 .. j - 1 : s[m] = q[m]
  BY <1>1
<1>3. /\ t \in Seq(Waiter) /\ Len(t) = Len(q) - j
      /\ \A m \in 1 .. Len(q) - j : t[m] = q[m + j]
  <2>1. \A m \in j + 1 .. Len(q) : q[m] \in Waiter
    BY <1>1
  <2>2. /\ t \in Seq(Waiter) /\ Len(t) = IF j + 1 <= Len(q) THEN Len(q) - (j + 1) + 1 ELSE 0
        /\ \A m \in 1 .. Len(q) - (j + 1) + 1 : t[m] = q[j + 1 + m - 1]
    <3>1. j + 1 \in Int /\ Len(q) \in Int
      BY <1>1
    <3> QED
      BY <2>1, <3>1, SubSeqProperties
  <2>3. (IF j + 1 <= Len(q) THEN Len(q) - (j + 1) + 1 ELSE 0) = Len(q) - j
    <3>1. \A n \in Nat : \A m \in 1 .. n : (IF m + 1 <= n THEN n - (m + 1) + 1 ELSE 0) = n - m
      OBVIOUS
    <3> QED
      BY <1>1, <3>1, Zenon
  <2> HIDE DEF t
  <2>4. ASSUME NEW m \in 1 .. Len(q) - j PROVE t[m] = q[m + j]
    <3>1. m \in 1 .. Len(q) - (j + 1) + 1 /\ j + 1 + m - 1 = m + j
      BY <1>1
    <3> QED
      BY <2>2, <3>1
  <2> QED
    BY <2>2, <2>3, <2>4
<1>4. RemoveAt(q, j) = s \o t
  BY DEF RemoveAt
<1> HIDE DEF s, t
<1>5. /\ s \o t \in Seq(Waiter) /\ Len(s \o t) = Len(q) - 1
      /\ \A m \in 1 .. Len(q) - 1 : (s \o t)[m] = IF m < j THEN s[m] ELSE t[m - (j - 1)]
  <2>1. /\ s \o t \in Seq(Waiter) /\ Len(s \o t) = Len(s) + Len(t)
        /\ \A m \in 1 .. Len(s) + Len(t) :
             (s \o t)[m] = IF m <= Len(s) THEN s[m] ELSE t[m - Len(s)]
    BY <1>2, <1>3, ConcatProperties
  <2>2. Len(s) + Len(t) = Len(q) - 1
    BY <1>1, <1>2, <1>3
  <2>3. \A m \in 1 .. Len(q) - 1 : m <= Len(s) <=> m < j
    BY <1>1, <1>2
  <2> QED
    BY <1>2, <2>1, <2>2, <2>3
<1>6. ASSUME NEW m \in 1 .. Len(q) - 1
      PROVE  (s \o t)[m] = IF m < j THEN q[m] ELSE q[m + 1]
  <2>1. CASE m < j
    <3>1. m \in 1 .. j - 1 /\ s[m] = q[m]
      BY <1>1, <1>2, <2>1
    <3> QED
      BY <1>5, <2>1, <3>1
  <2>2. CASE ~(m < j)
    <3>1. m - (j - 1) \in 1 .. Len(q) - j /\ m - (j - 1) + j = m + 1
      BY <1>1, <2>2
    <3>2. t[m - (j - 1)] = q[m + 1]
      BY <1>3, <3>1
    <3> QED
      BY <1>5, <2>2, <3>2
  <2> QED
    BY <2>1, <2>2
<1> QED
  BY <1>4, <1>5, <1>6

\* list_del: a list without the one entry of t, in the order it had.
LEMMA ListDel ==
  ASSUME NEW q \in Seq(Waiter), NEW j \in 1 .. Len(q), NEW t, t = q[j], Distinct(q),
         NEW r, r = RemoveAt(q, j)
  PROVE  /\ r \in Seq(Waiter) /\ Distinct(r) /\ ToSet(r) = ToSet(q) \ {t}
         /\ \A m, n \in DOMAIN r : m < n =>
              \E k, l \in DOMAIN q : k < l /\ r[m] = q[k] /\ r[n] = q[l]
<1>2. /\ r \in Seq(Waiter) /\ DOMAIN r = 1 .. Len(q) - 1
      /\ \A m \in 1 .. Len(q) - 1 : r[m] = IF m < j THEN q[m] ELSE q[m + 1]
  <2>1. /\ r \in Seq(Waiter) /\ Len(r) = Len(q) - 1
        /\ \A m \in 1 .. Len(q) - 1 : r[m] = IF m < j THEN q[m] ELSE q[m + 1]
    BY RemoveAtEntries
  <2>2. DOMAIN r = 1 .. Len(r)
    BY <2>1
  <2> QED
    BY <2>1, <2>2
<1>3. DOMAIN q = 1 .. Len(q) /\ Len(q) \in Nat
  OBVIOUS
<1> DEFINE at(x) == IF x < j THEN x ELSE x + 1
<1>4. /\ \A m \in DOMAIN r : at(m) \in DOMAIN q /\ at(m) # j /\ r[m] = q[at(m)]
      /\ \A m, n \in DOMAIN r : m < n => at(m) < at(n)
      /\ \A m, n \in DOMAIN r : at(m) = at(n) => m = n
      /\ \A k \in DOMAIN q : k # j => \E m \in DOMAIN r : at(m) = k
  <2>1. ASSUME NEW k \in DOMAIN q, k # j PROVE \E m \in DOMAIN r : at(m) = k
    <3>1. CASE k < j
      <4>1. k \in DOMAIN r /\ at(k) = k
        BY <1>2, <1>3, <3>1
      <4> QED
        BY <4>1
    <3>2. CASE ~(k < j)
      <4>1. k - 1 \in DOMAIN r /\ at(k - 1) = k
        BY <1>2, <1>3, <2>1, <3>2
      <4> QED
        BY <4>1
    <3> QED
      BY <3>1, <3>2
  <2>2. \A m \in DOMAIN r : at(m) \in DOMAIN q /\ at(m) # j /\ r[m] = q[at(m)]
    BY <1>2, <1>3
  <2>3. /\ \A m, n \in DOMAIN r : m < n => at(m) < at(n)
        /\ \A m, n \in DOMAIN r : at(m) = at(n) => m = n
    BY <1>2, <1>3
  <2> QED
    BY <2>1, <2>2, <2>3
<1> HIDE DEF at
<1>5. Distinct(r)
  BY <1>4 DEF Distinct
<1>6. ASSUME NEW x PROVE x \in ToSet(r) <=> x \in ToSet(q) \ {t}
  <2>1. x \in ToSet(r) => \E m \in DOMAIN r : x = q[at(m)]
    BY <1>4 DEF ToSet
  <2>2. x \in ToSet(r) => x \in ToSet(q) \ {t}
    BY <1>3, <1>4, <2>1 DEF ToSet, Distinct
  <2>3. ASSUME x \in ToSet(q) \ {t} PROVE x \in ToSet(r)
    <3>1. PICK k \in DOMAIN q : x = q[k]
      BY <2>3 DEF ToSet
    <3>2. k # j
      BY <2>3, <3>1
    <3>3. PICK m \in DOMAIN r : at(m) = k
      BY <1>4, <3>2
    <3> QED
      BY <1>4, <3>1, <3>3 DEF ToSet
  <2> QED
    BY <2>2, <2>3
<1>7. \A m, n \in DOMAIN r : m < n => \E k, l \in DOMAIN q : k < l /\ r[m] = q[k] /\ r[n] = q[l]
  BY <1>4
<1>8. ToSet(r) = ToSet(q) \ {t}
  BY <1>6
<1> QED
  BY <1>7, <1>8, <1>2, <1>5, <1>6

\* A waiter at the tail of a list it was not on.
LEMMA AtTail ==
  ASSUME NEW q \in Seq(Waiter), NEW t \in Waiter, t \notin ToSet(q), Distinct(q),
         NEW r \in Seq(Waiter), Len(r) = Len(q) + 1, r[Len(q) + 1] = t,
         \A m \in 1 .. Len(q) : r[m] = q[m]
  PROVE  /\ Distinct(r) /\ ToSet(r) = ToSet(q) \cup {t}
         /\ \A m, n \in DOMAIN r : m < n =>
              /\ m \in DOMAIN q /\ r[m] = q[m]
              /\ n \in DOMAIN q => r[n] = q[n]
              /\ n \notin DOMAIN q => r[n] = t
<1>1. /\ r \in Seq(Waiter) /\ DOMAIN r = 1 .. Len(q) + 1 /\ DOMAIN q = 1 .. Len(q)
      /\ Len(q) \in Nat /\ r[Len(q) + 1] = t /\ \A m \in 1 .. Len(q) : r[m] = q[m]
  OBVIOUS
<1>2. \A m \in DOMAIN r : m \in DOMAIN q \/ m = Len(q) + 1
  BY <1>1
<1>3. \A m \in DOMAIN q : q[m] # t
  BY DEF ToSet
<1>4. Distinct(r)
  BY <1>1, <1>2, <1>3 DEF Distinct
<1>5. ASSUME NEW x PROVE x \in ToSet(r) <=> x \in ToSet(q) \cup {t}
  <2>1. x \in ToSet(r) <=> \E m \in DOMAIN r : x = r[m]
    BY DEF ToSet
  <2>2. x \in ToSet(q) <=> \E m \in DOMAIN q : x = q[m]
    BY DEF ToSet
  <2> QED
    BY <1>1, <1>2, <2>1, <2>2
<1> QED
  BY <1>1, <1>2, <1>4, <1>5

\* A waiter at the head of one.
LEMMA AtHead ==
  ASSUME NEW q \in Seq(Waiter), NEW t \in Waiter, t \notin ToSet(q), Distinct(q),
         NEW r \in Seq(Waiter), Len(r) = Len(q) + 1, r[1] = t,
         \A m \in 1 .. Len(q) : r[m + 1] = q[m],
         NEW X, t \notin X, \A m, n \in DOMAIN q : m < n /\ q[m] \in X => q[n] \in X
  PROVE  /\ Distinct(r) /\ ToSet(r) = ToSet(q) \cup {t}
         /\ \A m, n \in DOMAIN r : m < n /\ r[m] \in X => r[n] \in X
<1>1. /\ r \in Seq(Waiter) /\ DOMAIN r = 1 .. Len(q) + 1 /\ DOMAIN q = 1 .. Len(q)
      /\ Len(q) \in Nat /\ r[1] = t /\ \A m \in 1 .. Len(q) : r[m + 1] = q[m]
  OBVIOUS
<1>2. \A m \in DOMAIN r : m = 1 \/ (m - 1 \in DOMAIN q /\ r[m] = q[m - 1])
  <2>1. SUFFICES ASSUME NEW m \in DOMAIN r, m # 1 PROVE m - 1 \in DOMAIN q /\ r[m] = q[m - 1]
    OBVIOUS
  <2>2. m - 1 \in 1 .. Len(q) /\ (m - 1) + 1 = m
    BY <1>1, <2>1
  <2> QED
    BY <1>1, <2>2
<1>3. \A m \in DOMAIN q : q[m] # t
  BY DEF ToSet
<1>4. Distinct(r)
  BY <1>1, <1>2, <1>3 DEF Distinct
<1>5. ASSUME NEW x PROVE x \in ToSet(r) <=> x \in ToSet(q) \cup {t}
  <2>1. x \in ToSet(r) <=> \E m \in DOMAIN r : x = r[m]
    BY DEF ToSet
  <2>2. x \in ToSet(q) <=> \E m \in DOMAIN q : x = q[m]
    BY DEF ToSet
  <2>3. \A m \in DOMAIN q : m + 1 \in DOMAIN r /\ r[m + 1] = q[m]
    BY <1>1
  <2>4. 1 \in DOMAIN r
    BY <1>1
  <2> QED
    BY <1>1, <1>2, <2>1, <2>2, <2>3, <2>4
<1>6. ASSUME NEW m \in DOMAIN r, NEW n \in DOMAIN r, m < n, r[m] \in X PROVE r[n] \in X
  <2>1. m # 1 /\ n # 1
    BY <1>1, <1>6
  <2>2. m - 1 \in DOMAIN q /\ n - 1 \in DOMAIN q /\ r[m] = q[m - 1] /\ r[n] = q[n - 1]
    BY <1>2, <2>1
  <2>3. m - 1 < n - 1
    BY <1>1, <1>6
  <2> QED
    BY <1>6, <2>2, <2>3
<1>7. ToSet(r) = ToSet(q) \cup {t}
  BY <1>5
<1> QED
  BY <1>4, <1>6, <1>7
-----------------------------------------------------------------------------
(* What the steps of a waiter leave alone *)

\* The frame of a step of waiter t.
Moves(t) ==
  /\ \A u \in Waiter \ {t} : pc'[u] = pc[u] /\ call'[u] = call[u] /\ task'[u] = task[u]
  /\ UNCHANGED << lock, waker, build >>
  /\ \A h \in Heads : lock[h] # NULL => list'[h] = list[h]
  /\ tokens' = tokens \/ Turn(t)

\* While a process is in sleep_on up to its schedule(), nobody else makes a step.
LEMMA SleepOnAlone ==
  ASSUME Struct, NEW u \in Waiter, pc[u] = "add", call[u] \in SleepOns,
         NEW a \in Waiter \cup Waker, a # u
  PROVE  ~Turn(a)
<1>1. call[u] \in build.calls /\ build \in Builds
  BY DEF Struct, CallOK, TypeOK
<1>2. build.calls \cap SleepOns # {}
  BY <1>1
<1>3. ~build.smp
  BY <1>1, <1>2, UsageAssumption
<1>4. u \in Waiter \cap ((Waiter \cup Waker) \ {a}) /\ pc[u] \notin MayYield
  BY DEF MayYield
<1> QED
  BY <1>3, <1>4, Zenon DEF Turn, Alone

\* A list that nobody joined or left.
LEMMA ListKept ==
  ASSUME NEW h \in Heads, ListOK(h), TypeOK, list' = list,
         \A u \in Waiter : OnQueue(u)' <=> OnQueue(u),
         \A u \in Waiter : OnQueue(u) => call'[u] = call[u]
  PROVE  ListOK(h)'
<1>1. \A u \in Waiter : OnQueue(u) =>
        Queue(u)' = Queue(u) /\ (Exclusive(u)' <=> Exclusive(u))
  BY DEF Queue, Exclusive
<1>2. \A u \in Waiter : OnQueue(u) /\ Queue(u) = h <=> u \in ToSet(list[h])
  BY DEF ListOK, Holds
<1>3. Holds(h)'
  BY <1>1, <1>2 DEF Holds
<1>4. Distinct(list[h])'
  BY DEF ListOK, Distinct
<1>5. \A m \in DOMAIN list[h] : list[h][m] \in Waiter /\ list[h][m] \in ToSet(list[h])
  <2>1. list[h] \in Seq(Waiter)
    BY DEF TypeOK
  <2> QED
    BY <2>1 DEF ToSet
<1>6. \A m \in DOMAIN list[h] : Exclusive(list[h][m])' <=> Exclusive(list[h][m])
  BY <1>1, <1>2, <1>5
<1>7. Ordered(h)'
  BY <1>6 DEF ListOK, Ordered
<1> QED
  BY <1>3, <1>4, <1>7 DEF ListOK

\* The part of Struct that concerns the others.
LEMMA OthersKept ==
  ASSUME Struct, NEW t \in Waiter, Moves(t), TypeOK',
         CallOK(t)', StateOK(t)', SleepOnOK(t)', \A h \in Heads : ListOK(h)'
  PROVE  Struct'
<1>1. ASSUME NEW u \in Waiter PROVE CallOK(u)' /\ StateOK(u)' /\ SleepOnOK(u)'
  <2>1. CASE u = t
    BY <2>1
  <2>2. CASE u # t
    <3>1. CallOK(u) /\ StateOK(u) /\ SleepOnOK(u)
      BY DEF Struct
    <3>2. pc'[u] = pc[u] /\ call'[u] = call[u] /\ task'[u] = task[u] /\ build' = build
      BY <2>2 DEF Moves
    <3>3. CallOK(u)'
      BY <3>1, <3>2 DEF CallOK
    <3>4. StateOK(u)'
      BY <3>1, <3>2 DEF StateOK, Mode
    <3>5. SleepOnOK(u)'
      <4>1. CASE tokens' = tokens
        BY <3>1, <3>2, <4>1 DEF SleepOnOK
      <4>2. CASE Turn(t)
        <5>1. ~(pc[u] = "add" /\ call[u] \in SleepOns)
          BY <2>2, <4>2, SleepOnAlone
        <5> QED
          BY <3>2, <5>1 DEF SleepOnOK
      <4> QED
        BY <4>1, <4>2 DEF Moves
    <3> QED
      BY <3>3, <3>4, <3>5
  <2> QED
    BY <2>1, <2>2
<1>2. ASSUME NEW w \in Waker PROVE WakerOK(w)'
  <2>1. WakerOK(w) /\ waker[w].head \in Heads
    BY DEF Struct, TypeOK
  <2>2. UNCHANGED << lock, waker, build >>
    BY DEF Moves
  <2>3. waker[w].pc = "try" => list'[waker[w].head] = list[waker[w].head]
    <3>1. w # NULL
      BY ProcessAssumption
    <3> QED
      BY <2>1, <3>1 DEF Moves, WakerOK
  <2> QED
    BY <2>1, <2>2, <2>3 DEF WakerOK
<1> QED
  BY <1>1, <1>2 DEF Struct
-----------------------------------------------------------------------------
(* The steps of a waiter that leave the lists alone *)

\* A process begins a wait.
LEMMA WaitStruct ==
  ASSUME Struct, NEW t \in Waiter, Wait(t)
  PROVE  Struct' /\ Moves(t)
<1>1. /\ TypeOK /\ CallOK(t) /\ StateOK(t) /\ SleepOnOK(t)
      /\ \A h \in Heads : ListOK(h)
  BY DEF Struct
<1>2. /\ pc[t] \in {"user", "test", "add", "set", "check", "signal", "sched", "asleep",
                    "running", "remove", "complete", "recheck"}
      /\ task[t] \in [state : States, array : BOOLEAN, sigpending : BOOLEAN, expired : BOOLEAN]
      /\ build \in Builds /\ build.tokens \in Nat /\ build.calls \subseteq Calls
  BY <1>1, BuildAssumption DEF TypeOK
<1>3. Moves(t)
  BY <1>1 DEF Moves, TypeOK, Wait, At, Goto
<1>4. TypeOK'
  BY <1>1, <1>2 DEF TypeOK, States, Mode, ModeOf, Queue, Exclusive, Heads, Calls, Loops,
     SleepOns, Wait, At, Goto
<1>5. CallOK(t)'
  BY <1>1, <1>2 DEF CallOK, TypeOK, Calls, Loops, SleepOns, Wait, At, Goto
<1>6. StateOK(t)'
  BY <1>1, <1>2 DEF StateOK, CallOK, TypeOK, Mode, ModeOf, Interrupted, Loops, SleepOns, Wait,
     At, Goto
<1>7. SleepOnOK(t)'
  BY <1>1, <1>2 DEF SleepOnOK, CallOK, TypeOK, Loops, SleepOns, Wait, At, Goto
<1>8. \A h \in Heads : ListOK(h)'
  <2>1. list' = list
    BY DEF Wait, At, Goto
  <2>2. (OnQueue(t)' <=> OnQueue(t)) /\ (OnQueue(t) => call'[t] = call[t])
    BY <1>1, <1>2 DEF OnQueue, CallOK, TypeOK, Loops, SleepOns, Wait, At, Goto
  <2>3. \A u \in Waiter : OnQueue(u)' <=> OnQueue(u)
    BY <1>3, <2>2 DEF Moves, OnQueue
  <2>4. \A u \in Waiter : OnQueue(u) => call'[u] = call[u]
    BY <1>3, <2>2 DEF Moves
  <2> QED
    BY <1>1, <2>1, <2>3, <2>4, ListKept
<1> QED
  BY <1>3, <1>4, <1>5, <1>6, <1>7, <1>8, OthersKept

\* The first test succeeds.
LEMMA TestSucceedsStruct ==
  ASSUME Struct, NEW t \in Waiter, TestSucceeds(t)
  PROVE  Struct' /\ Moves(t)
<1>1. /\ TypeOK /\ CallOK(t) /\ StateOK(t) /\ SleepOnOK(t)
      /\ \A h \in Heads : ListOK(h)
  BY DEF Struct
<1>2. /\ pc[t] \in {"user", "test", "add", "set", "check", "signal", "sched", "asleep",
                    "running", "remove", "complete", "recheck"}
      /\ task[t] \in [state : States, array : BOOLEAN, sigpending : BOOLEAN, expired : BOOLEAN]
      /\ build \in Builds /\ build.tokens \in Nat /\ build.calls \subseteq Calls
  BY <1>1, BuildAssumption DEF TypeOK
<1>3. Moves(t)
  BY <1>1 DEF Moves, TypeOK, TestSucceeds, At, Goto, Return, Take
<1>4. TypeOK'
  <2>1. Queue(t) = "q" /\ "q" \in Heads
    BY <1>1, <1>2 DEF CallOK, Queue, Heads, TestSucceeds, At, Goto, Return
  <2>2. tokens' \in [Heads -> 0 .. build.tokens]
    <3>1. tokens \in [Heads -> 0 .. build.tokens]
      BY <1>1 DEF TypeOK
    <3>2. tokens' = tokens \/ (tokens["q"] > 0 /\ tokens' = [tokens EXCEPT !["q"] = @ - 1])
      BY <2>1 DEF Take, TestSucceeds, At, Goto, Return
    <3> QED
      BY <1>2, <2>1, <3>1, <3>2
  <2>3. UNCHANGED << list, lock, waker, build >>
    BY DEF TestSucceeds, At, Goto, Return
  <2>4. /\ task' \in [Waiter -> [state : States, array : BOOLEAN, sigpending : BOOLEAN,
                                 expired : BOOLEAN]]
        /\ call' \in [Waiter -> Calls \cup {NULL}]
    BY <1>1, <1>2 DEF TypeOK, TestSucceeds, At, Goto, Return
  <2>5. pc' \in [Waiter -> {"user", "test", "add", "set", "check", "signal", "sched", "asleep",
                           "running", "remove", "complete", "recheck"}]
    BY <1>1, <1>2 DEF TypeOK, TestSucceeds, At, Goto, Return
  <2> QED
    BY <1>1, <2>2, <2>3, <2>4, <2>5 DEF TypeOK
<1>5. CallOK(t)'
  BY <1>1, <1>2 DEF CallOK, TypeOK, Calls, Loops, SleepOns, TestSucceeds, At, Goto, Return
<1>6. StateOK(t)'
  BY <1>1, <1>2 DEF StateOK, CallOK, TypeOK, Mode, ModeOf, Interrupted, Loops, SleepOns,
     TestSucceeds, At, Goto, Return
<1>7. SleepOnOK(t)'
  BY <1>1, <1>2 DEF SleepOnOK, CallOK, TypeOK, Loops, SleepOns, TestSucceeds, At, Goto, Return
<1>8. \A h \in Heads : ListOK(h)'
  <2>1. list' = list
    BY DEF TestSucceeds, At, Goto, Return
  <2>2. (OnQueue(t)' <=> OnQueue(t)) /\ (OnQueue(t) => call'[t] = call[t])
    BY <1>1, <1>2 DEF OnQueue, CallOK, TypeOK, Loops, SleepOns, TestSucceeds, At, Goto, Return
  <2>3. \A u \in Waiter : OnQueue(u)' <=> OnQueue(u)
    BY <1>3, <2>2 DEF Moves, OnQueue
  <2>4. \A u \in Waiter : OnQueue(u) => call'[u] = call[u]
    BY <1>3, <2>2 DEF Moves
  <2> QED
    BY <1>1, <2>1, <2>3, <2>4, ListKept
<1> QED
  BY <1>3, <1>4, <1>5, <1>6, <1>7, <1>8, OthersKept

\* A sleep_on in a loop is given up.
LEMMA GiveUpStruct ==
  ASSUME Struct, NEW t \in Waiter, GiveUp(t)
  PROVE  Struct' /\ Moves(t)
<1>1. /\ TypeOK /\ CallOK(t) /\ StateOK(t) /\ SleepOnOK(t)
      /\ \A h \in Heads : ListOK(h)
  BY DEF Struct
<1>2. /\ pc[t] \in {"user", "test", "add", "set", "check", "signal", "sched", "asleep",
                    "running", "remove", "complete", "recheck"}
      /\ task[t] \in [state : States, array : BOOLEAN, sigpending : BOOLEAN, expired : BOOLEAN]
      /\ build \in Builds /\ build.tokens \in Nat /\ build.calls \subseteq Calls
  BY <1>1, BuildAssumption DEF TypeOK
<1>3. Moves(t)
  BY <1>1 DEF Moves, TypeOK, GiveUp, At, Goto, Return
<1>4. TypeOK'
  BY <1>1, <1>2 DEF TypeOK, States, Mode, ModeOf, Queue, Exclusive, Heads, Calls, Loops,
     SleepOns, GiveUp, At, Goto, Return
<1>5. CallOK(t)'
  BY <1>1, <1>2 DEF CallOK, TypeOK, Calls, Loops, SleepOns, GiveUp, At, Goto, Return
<1>6. StateOK(t)'
  BY <1>1, <1>2 DEF StateOK, CallOK, TypeOK, Mode, ModeOf, Interrupted, Loops, SleepOns, GiveUp,
     At, Goto, Return
<1>7. SleepOnOK(t)'
  BY <1>1, <1>2 DEF SleepOnOK, CallOK, TypeOK, Loops, SleepOns, GiveUp, At, Goto, Return
<1>8. \A h \in Heads : ListOK(h)'
  <2>1. list' = list
    BY DEF GiveUp, At, Goto, Return
  <2>2. (OnQueue(t)' <=> OnQueue(t)) /\ (OnQueue(t) => call'[t] = call[t])
    BY <1>1, <1>2 DEF OnQueue, CallOK, TypeOK, Loops, SleepOns, GiveUp, At, Goto, Return
  <2>3. \A u \in Waiter : OnQueue(u)' <=> OnQueue(u)
    BY <1>3, <2>2 DEF Moves, OnQueue
  <2>4. \A u \in Waiter : OnQueue(u) => call'[u] = call[u]
    BY <1>3, <2>2 DEF Moves
  <2> QED
    BY <1>1, <2>1, <2>3, <2>4, ListKept
<1> QED
  BY <1>3, <1>4, <1>5, <1>6, <1>7, <1>8, OthersKept

\* The first test fails.
LEMMA TestFailsStruct ==
  ASSUME Struct, NEW t \in Waiter, TestFails(t)
  PROVE  Struct' /\ Moves(t)
<1>1. /\ TypeOK /\ CallOK(t) /\ StateOK(t) /\ SleepOnOK(t)
      /\ \A h \in Heads : ListOK(h)
  BY DEF Struct
<1>2. /\ pc[t] \in {"user", "test", "add", "set", "check", "signal", "sched", "asleep",
                    "running", "remove", "complete", "recheck"}
      /\ task[t] \in [state : States, array : BOOLEAN, sigpending : BOOLEAN, expired : BOOLEAN]
      /\ build \in Builds /\ build.tokens \in Nat /\ build.calls \subseteq Calls
  BY <1>1, BuildAssumption DEF TypeOK
<1>3. Moves(t)
  BY <1>1 DEF Moves, TypeOK, TestFails, At, Goto, SetState
<1>4. TypeOK'
  <2>1. Mode(t) \in States /\ "RUNNING" \in States
    BY DEF Mode, ModeOf, States
  <2>2. UNCHANGED << list, lock, tokens, call, waker, build >>
    BY DEF TestFails, At, Goto, SetState
  <2>3. task' \in [Waiter -> [state : States, array : BOOLEAN, sigpending : BOOLEAN,
                             expired : BOOLEAN]]
    <3>1. task \in [Waiter -> [state : States, array : BOOLEAN, sigpending : BOOLEAN,
                                expired : BOOLEAN]]
      BY <1>1 DEF TypeOK
    <3>2. \/ task' = task \/ task' = [task EXCEPT ![t].state = Mode(t)]
          \/ task' = [task EXCEPT ![t].array = FALSE]
      BY DEF TestFails, At, Goto, SetState
    <3>3. Mode(t) \in States
      BY <2>1
    <3> QED
      BY <3>1, <3>2, <3>3
  <2>4. pc' \in [Waiter -> {"user", "test", "add", "set", "check", "signal", "sched", "asleep",
                           "running", "remove", "complete", "recheck"}]
    BY <1>1, <1>2 DEF TypeOK, TestFails, At, Goto, SetState
  <2> QED
    BY <1>1, <2>2, <2>3, <2>4 DEF TypeOK
<1>5. CallOK(t)'
  BY <1>1, <1>2 DEF CallOK, TypeOK, Calls, Loops, SleepOns, TestFails, At, Goto, SetState
<1>6. StateOK(t)'
  <2>1. /\ pc[t] = "test" /\ pc'[t] = "add" /\ call' = call
        /\ task[t].state = "RUNNING" /\ task[t].array
    BY <1>1, <1>2 DEF TypeOK, StateOK, TestFails, At, Goto, SetState
  <2>2. CASE call[t] \in SleepOns
    <3>1. task' = [task EXCEPT ![t].state = Mode(t)]
      BY <2>2 DEF TestFails, At, Goto, SetState
    <3> QED
      BY <1>1, <2>1, <2>2, <3>1 DEF TypeOK, StateOK, Mode
  <2>3. CASE call[t] \notin SleepOns
    <3>1. task' = task
      BY <2>3 DEF TestFails, At, Goto, SetState
    <3> QED
      BY <2>1, <2>3, <3>1 DEF StateOK, Mode
  <2> QED
    BY <2>2, <2>3
<1>7. SleepOnOK(t)'
  BY <1>1, <1>2 DEF SleepOnOK, CallOK, TypeOK, Loops, SleepOns, TestFails, At, Goto, SetState
<1>8. \A h \in Heads : ListOK(h)'
  <2>1. list' = list
    BY DEF TestFails, At, Goto, SetState
  <2>2. (OnQueue(t)' <=> OnQueue(t)) /\ (OnQueue(t) => call'[t] = call[t])
    BY <1>1, <1>2 DEF OnQueue, CallOK, TypeOK, Loops, SleepOns, TestFails, At, Goto, SetState
  <2>3. \A u \in Waiter : OnQueue(u)' <=> OnQueue(u)
    BY <1>3, <2>2 DEF Moves, OnQueue
  <2>4. \A u \in Waiter : OnQueue(u) => call'[u] = call[u]
    BY <1>3, <2>2 DEF Moves
  <2> QED
    BY <1>1, <2>1, <2>3, <2>4, ListKept
<1> QED
  BY <1>3, <1>4, <1>5, <1>6, <1>7, <1>8, OthersKept

\* The state is set.
LEMMA set_current_stateStruct ==
  ASSUME Struct, NEW t \in Waiter, set_current_state(t)
  PROVE  Struct' /\ Moves(t)
<1>1. /\ TypeOK /\ CallOK(t) /\ StateOK(t) /\ SleepOnOK(t)
      /\ \A h \in Heads : ListOK(h)
  BY DEF Struct
<1>2. /\ pc[t] \in {"user", "test", "add", "set", "check", "signal", "sched", "asleep",
                    "running", "remove", "complete", "recheck"}
      /\ task[t] \in [state : States, array : BOOLEAN, sigpending : BOOLEAN, expired : BOOLEAN]
      /\ build \in Builds /\ build.tokens \in Nat /\ build.calls \subseteq Calls
  BY <1>1, BuildAssumption DEF TypeOK
<1>3. Moves(t)
  BY <1>1 DEF Moves, TypeOK, set_current_state, At, Goto, SetState
<1>4. TypeOK'
  BY <1>1, <1>2 DEF TypeOK, States, Mode, ModeOf, Queue, Exclusive, Heads, Calls, Loops,
     SleepOns, set_current_state, At, Goto, SetState
<1>5. CallOK(t)'
  BY <1>1, <1>2 DEF CallOK, TypeOK, Calls, Loops, SleepOns, set_current_state, At, Goto, SetState
<1>6. StateOK(t)'
  BY <1>1, <1>2 DEF StateOK, CallOK, TypeOK, Mode, ModeOf, Interrupted, Loops, SleepOns,
     set_current_state, At, Goto, SetState
<1>7. SleepOnOK(t)'
  BY <1>1, <1>2 DEF SleepOnOK, CallOK, TypeOK, Loops, SleepOns, set_current_state, At, Goto,
     SetState
<1>8. \A h \in Heads : ListOK(h)'
  <2>1. list' = list
    BY DEF set_current_state, At, Goto, SetState
  <2>2. (OnQueue(t)' <=> OnQueue(t)) /\ (OnQueue(t) => call'[t] = call[t])
    BY <1>1, <1>2 DEF OnQueue, CallOK, TypeOK, Loops, SleepOns, set_current_state, At, Goto,
       SetState
  <2>3. \A u \in Waiter : OnQueue(u)' <=> OnQueue(u)
    BY <1>3, <2>2 DEF Moves, OnQueue
  <2>4. \A u \in Waiter : OnQueue(u) => call'[u] = call[u]
    BY <1>3, <2>2 DEF Moves
  <2> QED
    BY <1>1, <2>1, <2>3, <2>4, ListKept
<1> QED
  BY <1>3, <1>4, <1>5, <1>6, <1>7, <1>8, OthersKept

\* The test in the loop.
LEMMA CheckStruct ==
  ASSUME Struct, NEW t \in Waiter, Check(t)
  PROVE  Struct' /\ Moves(t)
<1>1. /\ TypeOK /\ CallOK(t) /\ StateOK(t) /\ SleepOnOK(t)
      /\ \A h \in Heads : ListOK(h)
  BY DEF Struct
<1>2. /\ pc[t] \in {"user", "test", "add", "set", "check", "signal", "sched", "asleep",
                    "running", "remove", "complete", "recheck"}
      /\ task[t] \in [state : States, array : BOOLEAN, sigpending : BOOLEAN, expired : BOOLEAN]
      /\ build \in Builds /\ build.tokens \in Nat /\ build.calls \subseteq Calls
  BY <1>1, BuildAssumption DEF TypeOK
<1>3. Moves(t)
  BY <1>1 DEF Moves, TypeOK, Check, At, Goto, Take
<1>4. TypeOK'
  <2>1. Queue(t) = "q" /\ "q" \in Heads
    BY <1>1, <1>2 DEF CallOK, Queue, Heads, Check, At, Goto
  <2>2. tokens' \in [Heads -> 0 .. build.tokens]
    <3>1. tokens \in [Heads -> 0 .. build.tokens]
      BY <1>1 DEF TypeOK
    <3>2. tokens' = tokens \/ (tokens["q"] > 0 /\ tokens' = [tokens EXCEPT !["q"] = @ - 1])
      BY <2>1 DEF Take, Check, At, Goto
    <3> QED
      BY <1>2, <2>1, <3>1, <3>2
  <2>3. UNCHANGED << list, lock, waker, build >>
    BY DEF Check, At, Goto
  <2>4. /\ task' \in [Waiter -> [state : States, array : BOOLEAN, sigpending : BOOLEAN,
                                 expired : BOOLEAN]]
        /\ call' \in [Waiter -> Calls \cup {NULL}]
    BY <1>1, <1>2 DEF TypeOK, Check, At, Goto
  <2>5. pc' \in [Waiter -> {"user", "test", "add", "set", "check", "signal", "sched", "asleep",
                           "running", "remove", "complete", "recheck"}]
    BY <1>1, <1>2 DEF TypeOK, Check, At, Goto
  <2> QED
    BY <1>1, <2>2, <2>3, <2>4, <2>5 DEF TypeOK
<1>5. CallOK(t)'
  BY <1>1, <1>2 DEF CallOK, TypeOK, Calls, Loops, SleepOns, Check, At, Goto
<1>6. StateOK(t)'
  BY <1>1, <1>2 DEF StateOK, CallOK, TypeOK, Mode, ModeOf, Interrupted, Loops, SleepOns, Check,
     At, Goto
<1>7. SleepOnOK(t)'
  BY <1>1, <1>2 DEF SleepOnOK, CallOK, TypeOK, Loops, SleepOns, Check, At, Goto
<1>8. \A h \in Heads : ListOK(h)'
  <2>1. list' = list
    BY DEF Check, At, Goto
  <2>2. (OnQueue(t)' <=> OnQueue(t)) /\ (OnQueue(t) => call'[t] = call[t])
    BY <1>1, <1>2 DEF OnQueue, CallOK, TypeOK, Loops, SleepOns, Check, At, Goto
  <2>3. \A u \in Waiter : OnQueue(u)' <=> OnQueue(u)
    BY <1>3, <2>2 DEF Moves, OnQueue
  <2>4. \A u \in Waiter : OnQueue(u) => call'[u] = call[u]
    BY <1>3, <2>2 DEF Moves
  <2> QED
    BY <1>1, <2>1, <2>3, <2>4, ListKept
<1> QED
  BY <1>3, <1>4, <1>5, <1>6, <1>7, <1>8, OthersKept

\* The test for a signal.
LEMMA CheckSignalStruct ==
  ASSUME Struct, NEW t \in Waiter, CheckSignal(t)
  PROVE  Struct' /\ Moves(t)
<1>1. /\ TypeOK /\ CallOK(t) /\ StateOK(t) /\ SleepOnOK(t)
      /\ \A h \in Heads : ListOK(h)
  BY DEF Struct
<1>2. /\ pc[t] \in {"user", "test", "add", "set", "check", "signal", "sched", "asleep",
                    "running", "remove", "complete", "recheck"}
      /\ task[t] \in [state : States, array : BOOLEAN, sigpending : BOOLEAN, expired : BOOLEAN]
      /\ build \in Builds /\ build.tokens \in Nat /\ build.calls \subseteq Calls
  BY <1>1, BuildAssumption DEF TypeOK
<1>3. Moves(t)
  BY <1>1 DEF Moves, TypeOK, CheckSignal, At, Goto
<1>4. TypeOK'
  BY <1>1, <1>2 DEF TypeOK, States, Mode, ModeOf, Queue, Exclusive, Heads, Calls, Loops,
     SleepOns, CheckSignal, At, Goto
<1>5. CallOK(t)'
  BY <1>1, <1>2 DEF CallOK, TypeOK, Calls, Loops, SleepOns, CheckSignal, At, Goto
<1>6. StateOK(t)'
  BY <1>1, <1>2 DEF StateOK, CallOK, TypeOK, Mode, ModeOf, Interrupted, Loops, SleepOns,
     CheckSignal, At, Goto
<1>7. SleepOnOK(t)'
  BY <1>1, <1>2 DEF SleepOnOK, CallOK, TypeOK, Loops, SleepOns, CheckSignal, At, Goto
<1>8. \A h \in Heads : ListOK(h)'
  <2>1. list' = list
    BY DEF CheckSignal, At, Goto
  <2>2. (OnQueue(t)' <=> OnQueue(t)) /\ (OnQueue(t) => call'[t] = call[t])
    BY <1>1, <1>2 DEF OnQueue, CallOK, TypeOK, Loops, SleepOns, CheckSignal, At, Goto
  <2>3. \A u \in Waiter : OnQueue(u)' <=> OnQueue(u)
    BY <1>3, <2>2 DEF Moves, OnQueue
  <2>4. \A u \in Waiter : OnQueue(u) => call'[u] = call[u]
    BY <1>3, <2>2 DEF Moves
  <2> QED
    BY <1>1, <2>1, <2>3, <2>4, ListKept
<1> QED
  BY <1>3, <1>4, <1>5, <1>6, <1>7, <1>8, OthersKept

\* The state is reset.
LEMMA SetRunningStruct ==
  ASSUME Struct, NEW t \in Waiter, SetRunning(t)
  PROVE  Struct' /\ Moves(t)
<1>1. /\ TypeOK /\ CallOK(t) /\ StateOK(t) /\ SleepOnOK(t)
      /\ \A h \in Heads : ListOK(h)
  BY DEF Struct
<1>2. /\ pc[t] \in {"user", "test", "add", "set", "check", "signal", "sched", "asleep",
                    "running", "remove", "complete", "recheck"}
      /\ task[t] \in [state : States, array : BOOLEAN, sigpending : BOOLEAN, expired : BOOLEAN]
      /\ build \in Builds /\ build.tokens \in Nat /\ build.calls \subseteq Calls
  BY <1>1, BuildAssumption DEF TypeOK
<1>3. Moves(t)
  BY <1>1 DEF Moves, TypeOK, SetRunning, At, Goto, SetState
<1>4. TypeOK'
  BY <1>1, <1>2 DEF TypeOK, States, Mode, ModeOf, Queue, Exclusive, Heads, Calls, Loops,
     SleepOns, SetRunning, At, Goto, SetState
<1>5. CallOK(t)'
  BY <1>1, <1>2 DEF CallOK, TypeOK, Calls, Loops, SleepOns, SetRunning, At, Goto, SetState
<1>6. StateOK(t)'
  BY <1>1, <1>2 DEF StateOK, CallOK, TypeOK, Mode, ModeOf, Interrupted, Loops, SleepOns,
     SetRunning, At, Goto, SetState
<1>7. SleepOnOK(t)'
  BY <1>1, <1>2 DEF SleepOnOK, CallOK, TypeOK, Loops, SleepOns, SetRunning, At, Goto, SetState
<1>8. \A h \in Heads : ListOK(h)'
  <2>1. list' = list
    BY DEF SetRunning, At, Goto, SetState
  <2>2. (OnQueue(t)' <=> OnQueue(t)) /\ (OnQueue(t) => call'[t] = call[t])
    BY <1>1, <1>2 DEF OnQueue, CallOK, TypeOK, Loops, SleepOns, SetRunning, At, Goto, SetState
  <2>3. \A u \in Waiter : OnQueue(u)' <=> OnQueue(u)
    BY <1>3, <2>2 DEF Moves, OnQueue
  <2>4. \A u \in Waiter : OnQueue(u) => call'[u] = call[u]
    BY <1>3, <2>2 DEF Moves
  <2> QED
    BY <1>1, <2>1, <2>3, <2>4, ListKept
<1> QED
  BY <1>3, <1>4, <1>5, <1>6, <1>7, <1>8, OthersKept

\* schedule() puts a waiter to sleep, or not.
LEMMA ScheduleStruct ==
  ASSUME Struct, NEW t \in Waiter, Schedule(t)
  PROVE  Struct' /\ Moves(t)
<1>1. /\ TypeOK /\ CallOK(t) /\ StateOK(t) /\ SleepOnOK(t)
      /\ \A h \in Heads : ListOK(h)
  BY DEF Struct
<1>2. /\ pc[t] \in {"user", "test", "add", "set", "check", "signal", "sched", "asleep",
                    "running", "remove", "complete", "recheck"}
      /\ task[t] \in [state : States, array : BOOLEAN, sigpending : BOOLEAN, expired : BOOLEAN]
      /\ build \in Builds /\ build.tokens \in Nat /\ build.calls \subseteq Calls
  BY <1>1, BuildAssumption DEF TypeOK
<1>3. Moves(t)
  BY <1>1 DEF Moves, TypeOK, Schedule, At, Goto, SetState, After
<1>4. TypeOK'
  <2>1. Mode(t) \in States /\ "RUNNING" \in States
    BY DEF Mode, ModeOf, States
  <2>2. UNCHANGED << list, lock, tokens, call, waker, build >>
    BY DEF Schedule, At, Goto, SetState, After
  <2>3. task' \in [Waiter -> [state : States, array : BOOLEAN, sigpending : BOOLEAN,
                             expired : BOOLEAN]]
    <3>1. task \in [Waiter -> [state : States, array : BOOLEAN, sigpending : BOOLEAN,
                                expired : BOOLEAN]]
      BY <1>1 DEF TypeOK
    <3>2. \/ task' = task \/ task' = [task EXCEPT ![t].state = "RUNNING"]
          \/ task' = [task EXCEPT ![t].array = FALSE]
      BY DEF Schedule, At, Goto, SetState, After
    <3>3. "RUNNING" \in States
      BY <2>1
    <3> QED
      BY <3>1, <3>2, <3>3
  <2>4. pc' \in [Waiter -> {"user", "test", "add", "set", "check", "signal", "sched", "asleep",
                           "running", "remove", "complete", "recheck"}]
    BY <1>1, <1>2 DEF TypeOK, Schedule, At, Goto, SetState, After
  <2> QED
    BY <1>1, <2>2, <2>3, <2>4 DEF TypeOK
<1>5. CallOK(t)'
  BY <1>1, <1>2 DEF CallOK, TypeOK, Calls, Loops, SleepOns, Schedule, At, Goto, SetState, After
<1>6. StateOK(t)'
  BY <1>1, <1>2 DEF StateOK, CallOK, TypeOK, Mode, ModeOf, Interrupted, Loops, SleepOns,
     Schedule, At, Goto, SetState, After
<1>7. SleepOnOK(t)'
  BY <1>1, <1>2 DEF SleepOnOK, CallOK, TypeOK, Loops, SleepOns, Schedule, At, Goto, SetState,
     After
<1>8. \A h \in Heads : ListOK(h)'
  <2>1. list' = list
    BY DEF Schedule, At, Goto, SetState, After
  <2>2. (OnQueue(t)' <=> OnQueue(t)) /\ (OnQueue(t) => call'[t] = call[t])
    BY <1>1, <1>2 DEF OnQueue, CallOK, TypeOK, Loops, SleepOns, Schedule, At, Goto, SetState,
       After
  <2>3. \A u \in Waiter : OnQueue(u)' <=> OnQueue(u)
    BY <1>3, <2>2 DEF Moves, OnQueue
  <2>4. \A u \in Waiter : OnQueue(u) => call'[u] = call[u]
    BY <1>3, <2>2 DEF Moves
  <2> QED
    BY <1>1, <2>1, <2>3, <2>4, ListKept
<1> QED
  BY <1>3, <1>4, <1>5, <1>6, <1>7, <1>8, OthersKept

\* A waiter that was woken goes on.
LEMMA ResumeStruct ==
  ASSUME Struct, NEW t \in Waiter, Resume(t)
  PROVE  Struct' /\ Moves(t)
<1>1. /\ TypeOK /\ CallOK(t) /\ StateOK(t) /\ SleepOnOK(t)
      /\ \A h \in Heads : ListOK(h)
  BY DEF Struct
<1>2. /\ pc[t] \in {"user", "test", "add", "set", "check", "signal", "sched", "asleep",
                    "running", "remove", "complete", "recheck"}
      /\ task[t] \in [state : States, array : BOOLEAN, sigpending : BOOLEAN, expired : BOOLEAN]
      /\ build \in Builds /\ build.tokens \in Nat /\ build.calls \subseteq Calls
  BY <1>1, BuildAssumption DEF TypeOK
<1>3. Moves(t)
  BY <1>1 DEF Moves, TypeOK, Resume, At, Goto, After
<1>4. TypeOK'
  BY <1>1, <1>2 DEF TypeOK, States, Mode, ModeOf, Queue, Exclusive, Heads, Calls, Loops,
     SleepOns, Resume, At, Goto, After
<1>5. CallOK(t)'
  BY <1>1, <1>2 DEF CallOK, TypeOK, Calls, Loops, SleepOns, Resume, At, Goto, After
<1>6. StateOK(t)'
  BY <1>1, <1>2 DEF StateOK, CallOK, TypeOK, Mode, ModeOf, Interrupted, Loops, SleepOns, Resume,
     At, Goto, After
<1>7. SleepOnOK(t)'
  BY <1>1, <1>2 DEF SleepOnOK, CallOK, TypeOK, Loops, SleepOns, Resume, At, Goto, After
<1>8. \A h \in Heads : ListOK(h)'
  <2>1. list' = list
    BY DEF Resume, At, Goto, After
  <2>2. (OnQueue(t)' <=> OnQueue(t)) /\ (OnQueue(t) => call'[t] = call[t])
    BY <1>1, <1>2 DEF OnQueue, CallOK, TypeOK, Loops, SleepOns, Resume, At, Goto, After
  <2>3. \A u \in Waiter : OnQueue(u)' <=> OnQueue(u)
    BY <1>3, <2>2 DEF Moves, OnQueue
  <2>4. \A u \in Waiter : OnQueue(u) => call'[u] = call[u]
    BY <1>3, <2>2 DEF Moves
  <2> QED
    BY <1>1, <2>1, <2>3, <2>4, ListKept
<1> QED
  BY <1>3, <1>4, <1>5, <1>6, <1>7, <1>8, OthersKept

\* A signal.
LEMMA SignalStruct ==
  ASSUME Struct, NEW t \in Waiter, Signal(t)
  PROVE  Struct' /\ Moves(t)
<1>1. /\ TypeOK /\ CallOK(t) /\ StateOK(t) /\ SleepOnOK(t)
      /\ \A h \in Heads : ListOK(h)
  BY DEF Struct
<1>2. /\ pc[t] \in {"user", "test", "add", "set", "check", "signal", "sched", "asleep",
                    "running", "remove", "complete", "recheck"}
      /\ task[t] \in [state : States, array : BOOLEAN, sigpending : BOOLEAN, expired : BOOLEAN]
      /\ build \in Builds /\ build.tokens \in Nat /\ build.calls \subseteq Calls
  BY <1>1, BuildAssumption DEF TypeOK
<1>3. Moves(t)
  BY <1>1 DEF Moves, TypeOK, Signal, try_to_wake_up
<1>4. TypeOK'
  BY <1>1, <1>2 DEF TypeOK, States, Mode, ModeOf, Queue, Exclusive, Heads, Calls, Loops,
     SleepOns, Signal, try_to_wake_up
<1>5. CallOK(t)'
  BY <1>1, <1>2 DEF CallOK, TypeOK, Calls, Loops, SleepOns, Signal, try_to_wake_up
<1>6. StateOK(t)'
  BY <1>1, <1>2 DEF StateOK, CallOK, TypeOK, Mode, ModeOf, Interrupted, Loops, SleepOns, Signal,
     try_to_wake_up
<1>7. SleepOnOK(t)'
  BY <1>1, <1>2 DEF SleepOnOK, CallOK, TypeOK, Loops, SleepOns, Signal, try_to_wake_up
<1>8. \A h \in Heads : ListOK(h)'
  <2>1. list' = list
    BY DEF Signal, try_to_wake_up
  <2>2. (OnQueue(t)' <=> OnQueue(t)) /\ (OnQueue(t) => call'[t] = call[t])
    BY <1>1, <1>2 DEF OnQueue, CallOK, TypeOK, Loops, SleepOns, Signal, try_to_wake_up
  <2>3. \A u \in Waiter : OnQueue(u)' <=> OnQueue(u)
    BY <1>3, <2>2 DEF Moves, OnQueue
  <2>4. \A u \in Waiter : OnQueue(u) => call'[u] = call[u]
    BY <1>3, <2>2 DEF Moves
  <2> QED
    BY <1>1, <2>1, <2>3, <2>4, ListKept
<1> QED
  BY <1>3, <1>4, <1>5, <1>6, <1>7, <1>8, OthersKept

\* The timer of schedule_timeout.
LEMMA TimeoutStruct ==
  ASSUME Struct, NEW t \in Waiter, Timeout(t)
  PROVE  Struct' /\ Moves(t)
<1>1. /\ TypeOK /\ CallOK(t) /\ StateOK(t) /\ SleepOnOK(t)
      /\ \A h \in Heads : ListOK(h)
  BY DEF Struct
<1>2. /\ pc[t] \in {"user", "test", "add", "set", "check", "signal", "sched", "asleep",
                    "running", "remove", "complete", "recheck"}
      /\ task[t] \in [state : States, array : BOOLEAN, sigpending : BOOLEAN, expired : BOOLEAN]
      /\ build \in Builds /\ build.tokens \in Nat /\ build.calls \subseteq Calls
  BY <1>1, BuildAssumption DEF TypeOK
<1>3. Moves(t)
  BY <1>1 DEF Moves, TypeOK, Timeout, try_to_wake_up
<1>4. TypeOK'
  BY <1>1, <1>2 DEF TypeOK, States, Mode, ModeOf, Queue, Exclusive, Heads, Calls, Loops,
     SleepOns, Timeout, try_to_wake_up
<1>5. CallOK(t)'
  BY <1>1, <1>2 DEF CallOK, TypeOK, Calls, Loops, SleepOns, Timeout, try_to_wake_up
<1>6. StateOK(t)'
  BY <1>1, <1>2 DEF StateOK, CallOK, TypeOK, Mode, ModeOf, Interrupted, Loops, SleepOns,
     Timeout, try_to_wake_up
<1>7. SleepOnOK(t)'
  BY <1>1, <1>2 DEF SleepOnOK, CallOK, TypeOK, Loops, SleepOns, Timeout, try_to_wake_up
<1>8. \A h \in Heads : ListOK(h)'
  <2>1. list' = list
    BY DEF Timeout, try_to_wake_up
  <2>2. (OnQueue(t)' <=> OnQueue(t)) /\ (OnQueue(t) => call'[t] = call[t])
    BY <1>1, <1>2 DEF OnQueue, CallOK, TypeOK, Loops, SleepOns, Timeout, try_to_wake_up
  <2>3. \A u \in Waiter : OnQueue(u)' <=> OnQueue(u)
    BY <1>3, <2>2 DEF Moves, OnQueue
  <2>4. \A u \in Waiter : OnQueue(u) => call'[u] = call[u]
    BY <1>3, <2>2 DEF Moves
  <2> QED
    BY <1>1, <2>1, <2>3, <2>4, ListKept
<1> QED
  BY <1>3, <1>4, <1>5, <1>6, <1>7, <1>8, OthersKept
-----------------------------------------------------------------------------
(* The steps of a waiter that join a list or leave it *)

\* A waiter joins a list: at its tail if it is exclusive, at its head if not.
LEMMA ListJoined ==
  ASSUME Struct, NEW t \in Waiter, NEW h \in Heads, Moves(t), list' = add_wait_queue(h, t),
         call' = call, Queue(t) = h, ~OnQueue(t), OnQueue(t)'
  PROVE  list' \in [Heads -> Seq(Waiter)] /\ \A g \in Heads : ListOK(g)'
<1>1. /\ list \in [Heads -> Seq(Waiter)] /\ \A g \in Heads : ListOK(g)
      /\ DOMAIN list = Heads
  BY DEF Struct, TypeOK
<1>2. \A u \in Waiter : Queue(u)' = Queue(u) /\ (Exclusive(u)' <=> Exclusive(u))
  BY DEF Queue, Exclusive
<1>3. \A u \in Waiter : u # t => (OnQueue(u)' <=> OnQueue(u))
  BY DEF Moves, OnQueue
<1> DEFINE q == list[h]
           r == list'[h]
<1>4. q \in Seq(Waiter) /\ t \notin ToSet(q) /\ Distinct(q)
  BY <1>1 DEF ListOK, Holds
<1>5. /\ \A g \in Heads : g # h => list'[g] = list[g]
      /\ list' \in [Heads -> Seq(Waiter)] <=> r \in Seq(Waiter)
      /\ r = IF Exclusive(t) THEN Append(q, t) ELSE << t >> \o q
  <2>1. list' = [list EXCEPT ![h] = IF Exclusive(t) THEN Append(q, t) ELSE << t >> \o q]
    BY DEF add_wait_queue
  <2>2. r = IF Exclusive(t) THEN Append(q, t) ELSE << t >> \o q
    BY <1>1, <2>1
  <2>3. \A g \in Heads : g # h => list'[g] = list[g]
    BY <1>1, <2>1
  <2>4. list' \in [Heads -> Seq(Waiter)] <=> r \in Seq(Waiter)
    BY <1>1, <2>1, <2>2, Zenon
  <2> QED
    BY <2>2, <2>3, <2>4
<1>6. \A m \in DOMAIN q : m < m + 1
  BY <1>4
<1>7. /\ r \in Seq(Waiter) /\ Distinct(r) /\ ToSet(r) = ToSet(q) \cup {t}
      /\ \A m, n \in DOMAIN r : m < n /\ Exclusive(r[m]) => Exclusive(r[n])
  <2>1. \A m, n \in DOMAIN q : m < n /\ Exclusive(q[m]) => Exclusive(q[n])
    BY <1>1 DEF ListOK, Ordered
  <2> HIDE DEF q, r
  <2>2. CASE Exclusive(t)
    <3>1. r = Append(q, t)
      BY <1>5, <2>2
    <3>2. /\ Distinct(r) /\ ToSet(r) = ToSet(q) \cup {t}
          /\ \A m, n \in DOMAIN r : m < n =>
              /\ m \in DOMAIN q /\ r[m] = q[m]
              /\ n \in DOMAIN q => r[n] = q[n]
              /\ n \notin DOMAIN q => r[n] = t
      <4>1. /\ r \in Seq(Waiter) /\ Len(r) = Len(q) + 1 /\ r[Len(q) + 1] = t
            /\ \A m \in 1 .. Len(q) : r[m] = q[m]
        BY <1>4, <3>1
      <4> QED
        BY <1>4, <4>1, AtTail
    <3>3. ASSUME NEW m \in DOMAIN r, NEW n \in DOMAIN r, m < n, Exclusive(r[m])
          PROVE  Exclusive(r[n])
      BY <2>1, <2>2, <3>2, <3>3, Zenon
    <3>4. r \in Seq(Waiter)
      BY <1>4, <3>1
    <3> QED
      BY <3>2, <3>3, <3>4
  <2>3. CASE ~Exclusive(t)
    <3>1. r = << t >> \o q
      BY <1>5, <2>3
    <3>2. /\ r \in Seq(Waiter) /\ Len(r) = Len(q) + 1 /\ r[1] = t
          /\ \A m \in 1 .. Len(q) : r[m + 1] = q[m]
      BY <1>4, <3>1
    <3>3. PICK X : X = {u \in Waiter : Exclusive(u)}
      OBVIOUS
    <3>4. /\ \A m \in DOMAIN q : q[m] \in X <=> Exclusive(q[m])
          /\ \A m \in DOMAIN r : r[m] \in X <=> Exclusive(r[m])
      <4>1. \A m \in DOMAIN q : q[m] \in Waiter
        BY <1>4
      <4>2. \A m \in DOMAIN r : r[m] \in Waiter
        BY <3>2
      <4> QED
        BY <3>3, <4>1, <4>2
    <3>5. t \notin X /\ \A m, n \in DOMAIN q : m < n /\ q[m] \in X => q[n] \in X
      BY <2>1, <2>3, <3>3, <3>4
    <3>6. /\ Distinct(r) /\ ToSet(r) = ToSet(q) \cup {t}
          /\ \A m, n \in DOMAIN r : m < n /\ r[m] \in X => r[n] \in X
      BY <1>4, <3>2, <3>5, AtHead
    <3> QED
      BY <3>2, <3>4, <3>6
  <2> QED
    BY <2>2, <2>3
<1> HIDE DEF q, r
<1>8. ASSUME NEW g \in Heads PROVE ListOK(g)'
  <2>1. ListOK(g)
    BY <1>1
  <2>2. CASE g = h
    <3>1. Holds(h)'
      <4>1. \A u \in Waiter : OnQueue(u) /\ Queue(u) = h <=> u \in ToSet(q)
        BY <1>1 DEF ListOK, Holds, q
      <4>2. \A u \in Waiter : OnQueue(u)' /\ Queue(u)' = h <=> u \in ToSet(r)
        BY <1>2, <1>3, <1>7, <4>1
      <4> QED
        BY <4>2 DEF Holds, r
    <3>2. Distinct(list[h])'
      BY <1>7 DEF r, Distinct
    <3>3. Ordered(h)'
      BY <1>7, <1>2 DEF Ordered, r, Exclusive
    <3> QED
      BY <2>2, <3>1, <3>2, <3>3 DEF ListOK
  <2>3. CASE g # h
    <3>1. list'[g] = list[g]
      BY <1>5, <2>3
    <3>2. Holds(g)'
      BY <1>2, <1>3, <2>1, <2>3, <3>1 DEF ListOK, Holds
    <3>3. Distinct(list[g])'
      BY <2>1, <3>1 DEF ListOK, Distinct
    <3>4. Ordered(g)'
      BY <2>1, <3>1 DEF ListOK, Ordered, Exclusive
    <3> QED
      BY <3>2, <3>3, <3>4 DEF ListOK
  <2> QED
    BY <2>2, <2>3
<1> QED
  BY <1>5, <1>7, <1>8

\* The task of a waiter has its type after it went to sleep, or back to user mode.
LEMMA TaskTyped ==
  ASSUME NEW t \in Waiter,
         task \in [Waiter -> [state : States, array : BOOLEAN, sigpending : BOOLEAN,
                              expired : BOOLEAN]],
         \/ task' = task
         \/ task' = [task EXCEPT ![t].state = "UNINTERRUPTIBLE"]
         \/ task' = [task EXCEPT ![t].sigpending = FALSE, ![t].expired = FALSE]
  PROVE  task' \in [Waiter -> [state : States, array : BOOLEAN, sigpending : BOOLEAN,
                               expired : BOOLEAN]]
<1>1. CASE task' = task
  BY <1>1
<1>2. CASE task' = [task EXCEPT ![t].state = "UNINTERRUPTIBLE"]
  BY <1>2 DEF States
<1>3. CASE task' = [task EXCEPT ![t].sigpending = FALSE, ![t].expired = FALSE]
  BY <1>3
<1> QED
  BY <1>1, <1>2, <1>3

\* A waiter leaves its list.
LEMMA ListLeft ==
  ASSUME Struct, NEW t \in Waiter, NEW h \in Heads, Moves(t), list' = remove_wait_queue(h, t),
         Queue(t) = h, OnQueue(t), ~OnQueue(t)'
  PROVE  list' \in [Heads -> Seq(Waiter)] /\ \A g \in Heads : ListOK(g)'
<1>1. /\ list \in [Heads -> Seq(Waiter)] /\ \A g \in Heads : ListOK(g)
      /\ DOMAIN list = Heads
  BY DEF Struct, TypeOK
<1>2. \A u \in Waiter : u # t => /\ Queue(u)' = Queue(u) /\ (Exclusive(u)' <=> Exclusive(u))
                                 /\ OnQueue(u)' <=> OnQueue(u)
  BY DEF Moves, Queue, Exclusive, OnQueue
<1> DEFINE q == list[h]
           r == list'[h]
           j == CHOOSE m \in DOMAIN q : q[m] = t
<1>3. q \in Seq(Waiter) /\ Distinct(q) /\ j \in 1 .. Len(q) /\ t = q[j]
  <2>1. t \in ToSet(q) /\ q \in Seq(Waiter) /\ Distinct(q)
    BY <1>1 DEF ListOK, Holds
  <2>2. \E m \in DOMAIN q : q[m] = t
    BY <2>1 DEF ToSet
  <2> QED
    BY <2>1, <2>2
<1>4. /\ \A g \in Heads : g # h => list'[g] = list[g]
      /\ list' \in [Heads -> Seq(Waiter)] <=> r \in Seq(Waiter)
      /\ r = RemoveAt(q, j)
  <2>1. list' = [list EXCEPT ![h] = RemoveAt(q, j)]
    BY DEF remove_wait_queue
  <2> HIDE DEF j
  <2>2. r = RemoveAt(q, j)
    BY <1>1, <2>1
  <2>3. \A g \in Heads : g # h => list'[g] = list[g]
    BY <1>1, <2>1
  <2>4. list' \in [Heads -> Seq(Waiter)] <=> r \in Seq(Waiter)
    BY <1>1, <2>1, <2>2, Zenon
  <2> QED
    BY <2>2, <2>3, <2>4
<1> HIDE DEF j, q, r
<1>5. /\ r \in Seq(Waiter) /\ Distinct(r) /\ ToSet(r) = ToSet(q) \ {t}
      /\ \A m, n \in DOMAIN r : m < n =>
           \E k, l \in DOMAIN q : k < l /\ r[m] = q[k] /\ r[n] = q[l]
  BY <1>3, <1>4, ListDel
<1>6. ASSUME NEW g \in Heads PROVE ListOK(g)'
  <2>1. ListOK(g)
    BY <1>1
  <2>2. CASE g = h
    <3>1. Holds(h)'
      <4>1. \A u \in Waiter : OnQueue(u) /\ Queue(u) = h <=> u \in ToSet(q)
        BY <1>1 DEF ListOK, Holds, q
      <4>2. \A u \in Waiter : OnQueue(u)' /\ Queue(u)' = h <=> u \in ToSet(r)
        BY <1>2, <1>5, <4>1
      <4> QED
        BY <4>2 DEF Holds, r
    <3>2. Distinct(list[h])'
      BY <1>5 DEF r, Distinct
    <3>3. Ordered(h)'
      <4>1. \A m, n \in DOMAIN q : m < n /\ Exclusive(q[m]) => Exclusive(q[n])
        BY <1>1 DEF ListOK, Ordered, q
      <4>2. \A m \in DOMAIN r : r[m] \in Waiter /\ r[m] # t
        <5>1. \A m \in DOMAIN r : r[m] \in ToSet(r) /\ r[m] \in Waiter
          BY <1>5 DEF ToSet
        <5> QED
          BY <1>5, <5>1
      <4>3. \A m \in DOMAIN r : call'[r[m]] = call[r[m]]
        BY <4>2 DEF Moves
      <4>4. ASSUME NEW m \in DOMAIN r, NEW n \in DOMAIN r, m < n,
                   call'[r[m]] \in {"exclusive", "wait_for_completion"}
            PROVE  call'[r[n]] \in {"exclusive", "wait_for_completion"}
        <5>1. PICK k \in DOMAIN q, l \in DOMAIN q : k < l /\ r[m] = q[k] /\ r[n] = q[l]
          BY <1>5, <4>4
        <5>2. Exclusive(q[k]) => Exclusive(q[l])
          BY <4>1, <5>1
        <5> QED
          BY <4>3, <4>4, <5>1, <5>2 DEF Exclusive
      <4> QED
        BY <4>4 DEF Ordered, r, Exclusive
    <3> QED
      BY <2>2, <3>1, <3>2, <3>3 DEF ListOK
  <2>3. CASE g # h
    <3>1. list'[g] = list[g]
      BY <1>4, <2>3
    <3>2. t \notin ToSet(list[g])
      BY <2>1, <2>3 DEF ListOK, Holds
    <3>3. Holds(g)'
      BY <1>2, <2>1, <2>3, <3>1, <3>2 DEF ListOK, Holds
    <3>4. Distinct(list[g])'
      BY <2>1, <3>1 DEF ListOK, Distinct
    <3>5. \A m \in DOMAIN list[g] : list[g][m] \in Waiter /\ list[g][m] # t
      BY <1>1, <3>2 DEF ToSet
    <3>6. \A m \in DOMAIN list[g] : call'[list[g][m]] = call[list[g][m]]
      BY <3>5 DEF Moves
    <3>7. Ordered(g)'
      BY <2>1, <3>1, <3>6 DEF ListOK, Ordered, Exclusive
    <3> QED
      BY <3>3, <3>4, <3>7 DEF ListOK
  <2> QED
    BY <2>2, <2>3
<1> QED
  BY <1>4, <1>5, <1>6
\* A waiter joins the queue.
LEMMA AddStruct ==
  ASSUME Struct, NEW t \in Waiter, Add(t)
  PROVE  Struct' /\ Moves(t)
<1>1. /\ TypeOK /\ CallOK(t) /\ StateOK(t) /\ SleepOnOK(t)
      /\ \A h \in Heads : ListOK(h)
  BY DEF Struct
<1>2. /\ pc[t] \in {"user", "test", "add", "set", "check", "signal", "sched", "asleep",
                    "running", "remove", "complete", "recheck"}
      /\ task[t] \in [state : States, array : BOOLEAN, sigpending : BOOLEAN, expired : BOOLEAN]
      /\ build \in Builds /\ build.tokens \in Nat /\ build.calls \subseteq Calls
  BY <1>1, BuildAssumption DEF TypeOK
<1>3. Moves(t)
  BY <1>1 DEF Moves, TypeOK, add_wait_queue, remove_wait_queue, Heads, Add, At, Goto
<1>4. list' \in [Heads -> Seq(Waiter)] /\ \A h \in Heads : ListOK(h)'
  <2>1. /\ list' = add_wait_queue("q", t) /\ call' = call /\ "q" \in Heads
        /\ Queue(t) = "q" /\ ~OnQueue(t) /\ OnQueue(t)'
    BY <1>1, <1>2 DEF TypeOK, CallOK, OnQueue, Queue, Heads, Loops, SleepOns, Calls, Add, At, Goto
  <2> QED
    BY <1>3, <2>1, ListJoined
<1>5. tokens' \in [Heads -> 0 .. build.tokens]
  <2>1. tokens \in [Heads -> 0 .. build.tokens]
    BY <1>1 DEF TypeOK
  <2>2. \/ tokens' = tokens
        \/ tokens["x.wait"] > 0 /\ tokens' = [tokens EXCEPT !["x.wait"] = @ - 1]
    BY <1>1, <1>2 DEF TypeOK, Take, Queue, Exclusive, CallOK, WaitOn, Heads, Add, At, Goto
  <2> QED
    BY <1>2, <2>1, <2>2 DEF Heads
<1>6. TypeOK'
  <2>1. UNCHANGED << lock, waker, build >>
    BY DEF Add, At, Goto
  <2>2. /\ task' \in [Waiter -> [state : States, array : BOOLEAN, sigpending : BOOLEAN,
                                 expired : BOOLEAN]]
        /\ call' \in [Waiter -> Calls \cup {NULL}]
    <3>1. /\ task \in [Waiter -> [state : States, array : BOOLEAN, sigpending : BOOLEAN,
                                  expired : BOOLEAN]]
          /\ call \in [Waiter -> Calls \cup {NULL}]
      BY <1>1 DEF TypeOK
    <3>2. \/ task' = task
          \/ task' = [task EXCEPT ![t].state = "UNINTERRUPTIBLE"]
          \/ task' = [task EXCEPT ![t].sigpending = FALSE, ![t].expired = FALSE]
      BY DEF Add, At, Goto
    <3>3. call' = call \/ call' = [call EXCEPT ![t] = NULL]
      BY DEF Add, At, Goto
    <3>4. call' \in [Waiter -> Calls \cup {NULL}]
      BY <3>1, <3>3
    <3> QED
      BY <3>1, <3>2, <3>4, TaskTyped
  <2>3. pc' \in [Waiter -> {"user", "test", "add", "set", "check", "signal", "sched", "asleep",
                           "running", "remove", "complete", "recheck"}]
    BY <1>1 DEF TypeOK, Add, At, Goto
  <2> QED
    BY <1>1, <1>4, <1>5, <2>1, <2>2, <2>3 DEF TypeOK
<1>7. CallOK(t)'
  BY <1>1, <1>2 DEF CallOK, TypeOK, Calls, Loops, SleepOns, Add, At, Goto
<1>8. StateOK(t)'
  BY <1>1, <1>2 DEF StateOK, CallOK, TypeOK, Mode, ModeOf, Loops, SleepOns, Add, At, Goto
<1>9. SleepOnOK(t)'
  BY <1>1, <1>2 DEF SleepOnOK, CallOK, TypeOK, Loops, SleepOns, Add, At, Goto
<1> QED
  BY <1>3, <1>4, <1>6, <1>7, <1>8, <1>9, OthersKept

\* A waiter leaves the queue.
LEMMA LeaveStruct ==
  ASSUME Struct, NEW t \in Waiter, Leave(t)
  PROVE  Struct' /\ Moves(t)
<1>1. /\ TypeOK /\ CallOK(t) /\ StateOK(t) /\ SleepOnOK(t)
      /\ \A h \in Heads : ListOK(h)
  BY DEF Struct
<1>2. /\ pc[t] \in {"user", "test", "add", "set", "check", "signal", "sched", "asleep",
                    "running", "remove", "complete", "recheck"}
      /\ task[t] \in [state : States, array : BOOLEAN, sigpending : BOOLEAN, expired : BOOLEAN]
      /\ build \in Builds /\ build.tokens \in Nat /\ build.calls \subseteq Calls
  BY <1>1, BuildAssumption DEF TypeOK
<1>3. Moves(t)
  BY <1>1 DEF Moves, TypeOK, add_wait_queue, remove_wait_queue, Heads, Leave, At, Goto, Return
<1>4. list' \in [Heads -> Seq(Waiter)] /\ \A h \in Heads : ListOK(h)'
  <2>1. /\ list' = remove_wait_queue("q", t) /\ "q" \in Heads
        /\ Queue(t) = "q" /\ OnQueue(t)
    BY <1>1, <1>2 DEF TypeOK, CallOK, OnQueue, Queue, Heads, Leave, At
  <2>2. pc'[t] \in {"test", "user"}
    BY <1>1, <1>2 DEF TypeOK, Leave, Goto, Return
  <2>3. ~OnQueue(t)'
    BY <2>2 DEF OnQueue
  <2> QED
    BY <1>3, <2>1, <2>3, ListLeft
<1>5. tokens' \in [Heads -> 0 .. build.tokens]
  <2>1. tokens \in [Heads -> 0 .. build.tokens]
    BY <1>1 DEF TypeOK
  <2>2. \/ tokens' = tokens
        \/ tokens["x.wait"] > 0 /\ tokens' = [tokens EXCEPT !["x.wait"] = @ - 1]
    BY <1>1, <1>2 DEF TypeOK, Take, Queue, Exclusive, CallOK, WaitOn, Heads, Leave, At, Goto,
       Return
  <2> QED
    BY <1>2, <2>1, <2>2 DEF Heads
<1>6. TypeOK'
  <2>1. UNCHANGED << lock, waker, build >>
    BY DEF Leave, At, Goto, Return
  <2>2. /\ task' \in [Waiter -> [state : States, array : BOOLEAN, sigpending : BOOLEAN,
                                 expired : BOOLEAN]]
        /\ call' \in [Waiter -> Calls \cup {NULL}]
    <3>1. /\ task \in [Waiter -> [state : States, array : BOOLEAN, sigpending : BOOLEAN,
                                  expired : BOOLEAN]]
          /\ call \in [Waiter -> Calls \cup {NULL}]
      BY <1>1 DEF TypeOK
    <3>2. \/ task' = task
          \/ task' = [task EXCEPT ![t].state = "UNINTERRUPTIBLE"]
          \/ task' = [task EXCEPT ![t].sigpending = FALSE, ![t].expired = FALSE]
      BY DEF Leave, At, Goto, Return
    <3>3. call' = call \/ call' = [call EXCEPT ![t] = NULL]
      BY DEF Leave, At, Goto, Return
    <3>4. call' \in [Waiter -> Calls \cup {NULL}]
      BY <3>1, <3>3
    <3> QED
      BY <3>1, <3>2, <3>4, TaskTyped
  <2>3. pc' \in [Waiter -> {"user", "test", "add", "set", "check", "signal", "sched", "asleep",
                           "running", "remove", "complete", "recheck"}]
    BY <1>1 DEF TypeOK, Leave, At, Goto, Return
  <2> QED
    BY <1>1, <1>4, <1>5, <2>1, <2>2, <2>3 DEF TypeOK
<1>7. CallOK(t)'
  BY <1>1, <1>2 DEF CallOK, TypeOK, Calls, Loops, SleepOns, Leave, At, Goto, Return
<1>8. StateOK(t)'
  BY <1>1, <1>2 DEF StateOK, CallOK, TypeOK, Mode, ModeOf, Loops, SleepOns, Leave, At, Goto,
     Return
<1>9. SleepOnOK(t)'
  BY <1>1, <1>2 DEF SleepOnOK, CallOK, TypeOK, Loops, SleepOns, Leave, At, Goto, Return
<1> QED
  BY <1>3, <1>4, <1>6, <1>7, <1>8, <1>9, OthersKept

\* A process begins to wait for a completion, if it has to.
LEMMA wait_for_completionStruct ==
  ASSUME Struct, NEW t \in Waiter, wait_for_completion(t)
  PROVE  Struct' /\ Moves(t)
<1>1. /\ TypeOK /\ CallOK(t) /\ StateOK(t) /\ SleepOnOK(t)
      /\ \A h \in Heads : ListOK(h)
  BY DEF Struct
<1>2. /\ pc[t] \in {"user", "test", "add", "set", "check", "signal", "sched", "asleep",
                    "running", "remove", "complete", "recheck"}
      /\ task[t] \in [state : States, array : BOOLEAN, sigpending : BOOLEAN, expired : BOOLEAN]
      /\ build \in Builds /\ build.tokens \in Nat /\ build.calls \subseteq Calls
  BY <1>1, BuildAssumption DEF TypeOK
<1>3. Moves(t)
  BY <1>1 DEF Moves, TypeOK, add_wait_queue, remove_wait_queue, Heads, wait_for_completion, At,
     Goto, SetState, Return
<1>4. list' \in [Heads -> Seq(Waiter)] /\ \A h \in Heads : ListOK(h)'
  <2>1. CASE tokens["x.wait"] > 0
    <3>1. list' = list
      BY <2>1 DEF wait_for_completion, At, Goto, SetState, Return
    <3>2. (OnQueue(t)' <=> OnQueue(t)) /\ (OnQueue(t) => call'[t] = call[t])
      BY <1>1, <1>2, <2>1 DEF OnQueue, CallOK, TypeOK, Loops, SleepOns, wait_for_completion, At,
         Goto, SetState, Return
    <3>3. \A u \in Waiter : OnQueue(u)' <=> OnQueue(u)
      BY <1>3, <3>2 DEF Moves, OnQueue
    <3>4. \A u \in Waiter : OnQueue(u) => call'[u] = call[u]
      BY <1>3, <3>2 DEF Moves
    <3>5. list' \in [Heads -> Seq(Waiter)]
      BY <1>1, <3>1 DEF TypeOK
    <3> QED
      BY <1>1, <3>1, <3>3, <3>4, <3>5, ListKept
  <2>2. CASE ~(tokens["x.wait"] > 0)
    <3>1. /\ list' = add_wait_queue("x.wait", t) /\ call' = call /\ "x.wait" \in Heads
          /\ Queue(t) = "x.wait" /\ ~OnQueue(t) /\ OnQueue(t)'
      BY <1>1, <1>2, <2>2 DEF TypeOK, CallOK, OnQueue, Queue, Heads, Loops, SleepOns, Calls,
         wait_for_completion, At, Goto, SetState, Return
    <3> QED
      BY <1>3, <3>1, ListJoined
  <2> QED
    BY <2>1, <2>2
<1>5. tokens' \in [Heads -> 0 .. build.tokens]
  <2>1. tokens \in [Heads -> 0 .. build.tokens]
    BY <1>1 DEF TypeOK
  <2>2. \/ tokens' = tokens
        \/ tokens["x.wait"] > 0 /\ tokens' = [tokens EXCEPT !["x.wait"] = @ - 1]
    BY <1>1, <1>2 DEF TypeOK, Take, Queue, Exclusive, CallOK, WaitOn, Heads,
       wait_for_completion, At, Goto, SetState, Return
  <2> QED
    BY <1>2, <2>1, <2>2 DEF Heads
<1>6. TypeOK'
  <2>1. UNCHANGED << lock, waker, build >>
    BY DEF wait_for_completion, At, Goto, SetState, Return
  <2>2. /\ task' \in [Waiter -> [state : States, array : BOOLEAN, sigpending : BOOLEAN,
                                 expired : BOOLEAN]]
        /\ call' \in [Waiter -> Calls \cup {NULL}]
    <3>1. /\ task \in [Waiter -> [state : States, array : BOOLEAN, sigpending : BOOLEAN,
                                  expired : BOOLEAN]]
          /\ call \in [Waiter -> Calls \cup {NULL}]
      BY <1>1 DEF TypeOK
    <3>2. \/ task' = task
          \/ task' = [task EXCEPT ![t].state = "UNINTERRUPTIBLE"]
          \/ task' = [task EXCEPT ![t].sigpending = FALSE, ![t].expired = FALSE]
      BY DEF wait_for_completion, At, Goto, SetState, Return
    <3>3. call' = call \/ call' = [call EXCEPT ![t] = NULL]
      BY DEF wait_for_completion, At, Goto, SetState, Return
    <3>4. call' \in [Waiter -> Calls \cup {NULL}]
      BY <3>1, <3>3
    <3> QED
      BY <3>1, <3>2, <3>4, TaskTyped
  <2>3. pc' \in [Waiter -> {"user", "test", "add", "set", "check", "signal", "sched", "asleep",
                           "running", "remove", "complete", "recheck"}]
    <3>1. pc' = [pc EXCEPT ![t] = "user"] \/ pc' = [pc EXCEPT ![t] = "sched"]
      BY DEF wait_for_completion, Goto, Return
    <3> QED
      BY <1>1, <3>1 DEF TypeOK
  <2> QED
    BY <1>1, <1>4, <1>5, <2>1, <2>2, <2>3 DEF TypeOK
<1>7. CallOK(t)'
  BY <1>1, <1>2 DEF CallOK, TypeOK, Calls, Loops, SleepOns, wait_for_completion, At, Goto,
     SetState, Return
<1>8. StateOK(t)'
  <2>1. task[t].state = "RUNNING" /\ task[t].array /\ call[t] = "wait_for_completion"
    BY <1>1 DEF StateOK, CallOK, wait_for_completion, At
  <2>2. CASE tokens["x.wait"] > 0
    <3>2. pc'[t] = "user" /\ task' = [task EXCEPT ![t].sigpending = FALSE, ![t].expired = FALSE]
      BY <1>1, <2>2 DEF TypeOK, wait_for_completion, At, Goto, SetState, Return
    <3>1. task'[t].state = task[t].state /\ task'[t].array = task[t].array
      BY <1>1, <1>2, <3>2 DEF TypeOK
    <3> QED
      BY <2>1, <3>1, <3>2 DEF StateOK
  <2>3. CASE ~(tokens["x.wait"] > 0)
    <3>2. pc'[t] = "sched" /\ call' = call /\ task' = [task EXCEPT ![t].state = "UNINTERRUPTIBLE"]
      BY <1>1, <2>3 DEF TypeOK, wait_for_completion, At, Goto, SetState, Return
    <3>1. task'[t].state = "UNINTERRUPTIBLE" /\ task'[t].array = task[t].array
      BY <1>1, <1>2, <3>2 DEF TypeOK
    <3> QED
      BY <2>1, <3>1, <3>2 DEF StateOK, Mode, ModeOf
  <2> QED
    BY <2>2, <2>3
<1>9. SleepOnOK(t)'
  BY <1>1, <1>2 DEF SleepOnOK, CallOK, TypeOK, Loops, SleepOns, wait_for_completion, At, Goto,
     SetState, Return
<1> QED
  BY <1>3, <1>4, <1>6, <1>7, <1>8, <1>9, OthersKept

\* A process waits for the completion again, or takes it.
LEMMA RecheckStruct ==
  ASSUME Struct, NEW t \in Waiter, Recheck(t)
  PROVE  Struct' /\ Moves(t)
<1>1. /\ TypeOK /\ CallOK(t) /\ StateOK(t) /\ SleepOnOK(t)
      /\ \A h \in Heads : ListOK(h)
  BY DEF Struct
<1>2. /\ pc[t] \in {"user", "test", "add", "set", "check", "signal", "sched", "asleep",
                    "running", "remove", "complete", "recheck"}
      /\ task[t] \in [state : States, array : BOOLEAN, sigpending : BOOLEAN, expired : BOOLEAN]
      /\ build \in Builds /\ build.tokens \in Nat /\ build.calls \subseteq Calls
  BY <1>1, BuildAssumption DEF TypeOK
<1>3. Moves(t)
  BY <1>1 DEF Moves, TypeOK, add_wait_queue, remove_wait_queue, Heads, Recheck, At, Goto,
     SetState, Return
<1>4. list' \in [Heads -> Seq(Waiter)] /\ \A h \in Heads : ListOK(h)'
  <2>1. CASE WaitOn(t)
    <3>1. list' = list
      BY <2>1 DEF Recheck, At, Goto, SetState, Return
    <3>2. (OnQueue(t)' <=> OnQueue(t)) /\ (OnQueue(t) => call'[t] = call[t])
      BY <1>1, <1>2, <2>1 DEF OnQueue, CallOK, TypeOK, Loops, SleepOns, Recheck, At, Goto,
         SetState, Return
    <3>3. \A u \in Waiter : OnQueue(u)' <=> OnQueue(u)
      BY <1>3, <3>2 DEF Moves, OnQueue
    <3>4. \A u \in Waiter : OnQueue(u) => call'[u] = call[u]
      BY <1>3, <3>2 DEF Moves
    <3>5. list' \in [Heads -> Seq(Waiter)]
      BY <1>1, <3>1 DEF TypeOK
    <3> QED
      BY <1>1, <3>1, <3>3, <3>4, <3>5, ListKept
  <2>2. CASE ~WaitOn(t)
    <3>1. /\ list' = remove_wait_queue("x.wait", t) /\ "x.wait" \in Heads
          /\ Queue(t) = "x.wait" /\ OnQueue(t)
      BY <1>1, <1>2, <2>2 DEF TypeOK, CallOK, OnQueue, Queue, Heads, Recheck, At
    <3>2. pc'[t] = "user"
      BY <1>1, <1>2, <2>2 DEF TypeOK, Recheck, Goto, Return
    <3>3. ~OnQueue(t)'
      BY <3>2 DEF OnQueue
    <3> QED
      BY <1>3, <3>1, <3>3, ListLeft
  <2> QED
    BY <2>1, <2>2
<1>5. tokens' \in [Heads -> 0 .. build.tokens]
  <2>1. tokens \in [Heads -> 0 .. build.tokens]
    BY <1>1 DEF TypeOK
  <2>2. \/ tokens' = tokens
        \/ tokens["x.wait"] > 0 /\ tokens' = [tokens EXCEPT !["x.wait"] = @ - 1]
    BY <1>1, <1>2 DEF TypeOK, Take, Queue, Exclusive, CallOK, WaitOn, Heads, Recheck, At, Goto,
       SetState, Return
  <2> QED
    BY <1>2, <2>1, <2>2 DEF Heads
<1>6. TypeOK'
  <2>1. UNCHANGED << lock, waker, build >>
    BY DEF Recheck, At, Goto, SetState, Return
  <2>2. /\ task' \in [Waiter -> [state : States, array : BOOLEAN, sigpending : BOOLEAN,
                                 expired : BOOLEAN]]
        /\ call' \in [Waiter -> Calls \cup {NULL}]
    <3>1. /\ task \in [Waiter -> [state : States, array : BOOLEAN, sigpending : BOOLEAN,
                                  expired : BOOLEAN]]
          /\ call \in [Waiter -> Calls \cup {NULL}]
      BY <1>1 DEF TypeOK
    <3>2. \/ task' = task
          \/ task' = [task EXCEPT ![t].state = "UNINTERRUPTIBLE"]
          \/ task' = [task EXCEPT ![t].sigpending = FALSE, ![t].expired = FALSE]
      BY DEF Recheck, At, Goto, SetState, Return
    <3>3. call' = call \/ call' = [call EXCEPT ![t] = NULL]
      BY DEF Recheck, At, Goto, SetState, Return
    <3>4. call' \in [Waiter -> Calls \cup {NULL}]
      BY <3>1, <3>3
    <3> QED
      BY <3>1, <3>2, <3>4, TaskTyped
  <2>3. pc' \in [Waiter -> {"user", "test", "add", "set", "check", "signal", "sched", "asleep",
                           "running", "remove", "complete", "recheck"}]
    BY <1>1 DEF TypeOK, Recheck, At, Goto, SetState, Return
  <2> QED
    BY <1>1, <1>4, <1>5, <2>1, <2>2, <2>3 DEF TypeOK
<1>7. CallOK(t)'
  BY <1>1, <1>2 DEF CallOK, TypeOK, Calls, Loops, SleepOns, Recheck, At, Goto, SetState, Return
<1>8. StateOK(t)'
  <2>1. task[t].state = "RUNNING" /\ task[t].array /\ call[t] = "wait_for_completion"
    BY <1>1 DEF StateOK, CallOK, Recheck, At
  <2>2. CASE ~WaitOn(t)
    <3>2. pc'[t] = "user" /\ task' = [task EXCEPT ![t].sigpending = FALSE, ![t].expired = FALSE]
      BY <1>1, <2>2 DEF TypeOK, Recheck, At, Goto, SetState, Return
    <3>1. task'[t].state = task[t].state /\ task'[t].array = task[t].array
      BY <1>1, <1>2, <3>2 DEF TypeOK
    <3> QED
      BY <2>1, <3>1, <3>2 DEF StateOK
  <2>3. CASE ~(~WaitOn(t))
    <3>2. pc'[t] = "sched" /\ call' = call /\ task' = [task EXCEPT ![t].state = "UNINTERRUPTIBLE"]
      BY <1>1, <2>3 DEF TypeOK, Recheck, At, Goto, SetState, Return
    <3>1. task'[t].state = "UNINTERRUPTIBLE" /\ task'[t].array = task[t].array
      BY <1>1, <1>2, <3>2 DEF TypeOK
    <3> QED
      BY <2>1, <3>1, <3>2 DEF StateOK, Mode, ModeOf
  <2> QED
    BY <2>2, <2>3
<1>9. SleepOnOK(t)'
  BY <1>1, <1>2 DEF SleepOnOK, CallOK, TypeOK, Loops, SleepOns, Recheck, At, Goto, SetState,
     Return
<1> QED
  BY <1>3, <1>4, <1>6, <1>7, <1>8, <1>9, OthersKept
-----------------------------------------------------------------------------
(* The steps of a wake-up, as far as the structure is concerned *)

\* The records that TypeOK gives wake-ups.
Wakers == [pc : {"idle", "lock", "scan", "try"}, head : Heads, i : Nat, nr : Int,
           mode : SUBSET States]

\* A step of a wake-up that leaves waiters alone: its own part is what remains to be shown.
LEMMA WakeFrame ==
  ASSUME Struct, NEW w \in Waker, TypeOK', UNCHANGED << list, pc, call, build >>,
         \A t \in Waiter : StateOK(t)', tokens' = tokens \/ Turn(w),
         \A v \in Waker \ {w} : waker'[v] = waker[v],
         \A h \in Heads : lock'[h] = lock[h] \/ (lock[h] \in {w, NULL} /\ lock'[h] \in {w, NULL}),
         WakerOK(w)'
  PROVE  Struct'
<1>1. \A h \in Heads : ListOK(h)'
  <2>1. \A u \in Waiter : (OnQueue(u)' <=> OnQueue(u)) /\ call'[u] = call[u]
    BY DEF OnQueue
  <2> QED
    BY <2>1, ListKept DEF Struct
<1>2. \A t \in Waiter : CallOK(t)'
  BY DEF Struct, CallOK
<1>3. ASSUME NEW t \in Waiter PROVE SleepOnOK(t)'
  <2>1. CASE tokens' = tokens
    BY <2>1 DEF Struct, SleepOnOK
  <2>2. CASE Turn(w)
    <3>1. w # t
      BY ProcessAssumption
    <3>2. ~(pc[t] = "add" /\ call[t] \in SleepOns)
      BY <2>2, <3>1, SleepOnAlone
    <3> QED
      BY <3>2 DEF SleepOnOK
  <2> QED
    BY <2>1, <2>2
<1>4. ASSUME NEW v \in Waker PROVE WakerOK(v)'
  <2>1. CASE v = w
    BY <2>1
  <2>2. CASE v # w
    <3>1. WakerOK(v) /\ waker'[v] = waker[v]
      BY <2>2 DEF Struct
    <3>2. v # NULL
      BY ProcessAssumption
    <3>3. \A h \in Heads : lock'[h] = v <=> lock[h] = v
      BY <2>2, <3>2
    <3> QED
      BY <3>1, <3>3 DEF WakerOK
  <2> QED
    BY <2>1, <2>2
<1> QED
  BY <1>1, <1>2, <1>3, <1>4 DEF Struct
\* A wake-up of the queue begins.
LEMMA wake_upStruct ==
  ASSUME Struct, NEW w \in Waker, wake_up(w)
  PROVE  Struct'
<1>1. /\ TypeOK /\ WakerOK(w) /\ waker \in [Waker -> Wakers] /\ waker[w] \in Wakers
      /\ list \in [Heads -> Seq(Waiter)] /\ lock \in [Heads -> Waker \cup {NULL}]
      /\ task \in [Waiter -> [state : States, array : BOOLEAN, sigpending : BOOLEAN,
                              expired : BOOLEAN]]
  BY DEF Struct, TypeOK, Wakers
<1>2. /\ build \in Builds /\ build.tokens \in Nat /\ build.nrs \subseteq Nat
      /\ build.modes \subseteq SUBSET States /\ w # NULL
  BY <1>1, BuildAssumption, ProcessAssumption DEF TypeOK
<1>3. UNCHANGED << list, pc, call, build >> /\ (tokens' = tokens \/ Turn(w))
  BY DEF wake_up, Waking
<1>4. waker' \in [Waker -> Wakers] /\ \A v \in Waker \ {w} : waker'[v] = waker[v]
  BY <1>1, <1>2 DEF Wakers, Idle, Heads, States, wake_up, Waking
<1>5. /\ lock' \in [Heads -> Waker \cup {NULL}]
      /\ \A h \in Heads : \/ lock'[h] = lock[h]
                          \/ lock[h] \in {w, NULL} /\ lock'[h] \in {w, NULL}
  BY <1>1, <1>2 DEF WakerOK, Wakers, Heads, wake_up, Waking
<1>6. tokens' \in [Heads -> 0 .. build.tokens]
  BY <1>1, <1>2 DEF TypeOK, Heads, wake_up, Waking
<1>7. task' \in [Waiter -> [state : States, array : BOOLEAN, sigpending : BOOLEAN,
                           expired : BOOLEAN]] /\ \A t \in Waiter : StateOK(t)'
  BY <1>1 DEF Struct, StateOK, Mode, wake_up, Waking
<1>8. TypeOK'
  BY <1>1, <1>3, <1>4, <1>5, <1>6, <1>7 DEF TypeOK, Wakers
<1>9. WakerOK(w)'
  <2>1. PICK nr \in build.nrs, mode \in build.modes :
          /\ tokens["q"] + (IF nr = 0 THEN 1 ELSE nr) <= build.tokens
          /\ waker' = [waker EXCEPT ![w] = [pc |-> "lock", head |-> "q", i |-> 1, nr |-> nr,
                                           mode |-> mode]]
    BY DEF wake_up
  <2>2. /\ waker'[w].pc = "lock" /\ waker'[w].head = "q" /\ waker'[w].i = 1
        /\ waker'[w].nr = nr /\ waker'[w].mode = mode
    BY <1>1, <2>1
  <2>3. tokens["q"] \in Nat
    BY <1>1 DEF TypeOK, Heads
  <2>4. \A h \in Heads : lock'[h] # w
    BY <1>1 DEF WakerOK, wake_up, Waking
  <2>5. nr >= 0 /\ nr <= build.tokens
    BY <1>2, <2>1, <2>3
  <2> QED
    BY <1>2, <1>3, <2>2, <2>4, <2>5 DEF WakerOK
<1> QED
  BY <1>3, <1>4, <1>5, <1>7, <1>8, <1>9, WakeFrame

\* It takes the lock.
LEMMA LockStruct ==
  ASSUME Struct, NEW w \in Waker, Lock(w)
  PROVE  Struct'
<1>1. /\ TypeOK /\ WakerOK(w) /\ waker \in [Waker -> Wakers] /\ waker[w] \in Wakers
      /\ list \in [Heads -> Seq(Waiter)] /\ lock \in [Heads -> Waker \cup {NULL}]
      /\ task \in [Waiter -> [state : States, array : BOOLEAN, sigpending : BOOLEAN,
                              expired : BOOLEAN]]
  BY DEF Struct, TypeOK, Wakers
<1>2. /\ build \in Builds /\ build.tokens \in Nat /\ build.nrs \subseteq Nat
      /\ build.modes \subseteq SUBSET States /\ w # NULL
  BY <1>1, BuildAssumption, ProcessAssumption DEF TypeOK
<1>3. UNCHANGED << list, pc, call, build >> /\ (tokens' = tokens \/ Turn(w))
  BY DEF Lock, Waking
<1>4. waker' \in [Waker -> Wakers] /\ \A v \in Waker \ {w} : waker'[v] = waker[v]
  BY <1>1, <1>2 DEF Wakers, Idle, Heads, States, Lock, Waking
<1>5. /\ lock' \in [Heads -> Waker \cup {NULL}]
      /\ \A h \in Heads : \/ lock'[h] = lock[h]
                          \/ lock[h] \in {w, NULL} /\ lock'[h] \in {w, NULL}
  BY <1>1, <1>2 DEF WakerOK, Wakers, Heads, Lock, Waking
<1>6. tokens' \in [Heads -> 0 .. build.tokens]
  BY <1>1, <1>2 DEF TypeOK, Heads, Lock, Waking
<1>7. task' \in [Waiter -> [state : States, array : BOOLEAN, sigpending : BOOLEAN,
                           expired : BOOLEAN]] /\ \A t \in Waiter : StateOK(t)'
  BY <1>1 DEF Struct, StateOK, Mode, Lock, Waking
<1>8. TypeOK'
  BY <1>1, <1>3, <1>4, <1>5, <1>6, <1>7 DEF TypeOK, Wakers
<1>9. WakerOK(w)'
  BY <1>1, <1>2 DEF WakerOK, Wakers, Idle, Heads, Lock, Waking
<1> QED
  BY <1>3, <1>4, <1>5, <1>7, <1>8, <1>9, WakeFrame

\* A completion, with its lock.
LEMMA completeStruct ==
  ASSUME Struct, NEW w \in Waker, complete(w)
  PROVE  Struct'
<1>1. /\ TypeOK /\ WakerOK(w) /\ waker \in [Waker -> Wakers] /\ waker[w] \in Wakers
      /\ list \in [Heads -> Seq(Waiter)] /\ lock \in [Heads -> Waker \cup {NULL}]
      /\ task \in [Waiter -> [state : States, array : BOOLEAN, sigpending : BOOLEAN,
                              expired : BOOLEAN]]
  BY DEF Struct, TypeOK, Wakers
<1>2. /\ build \in Builds /\ build.tokens \in Nat /\ build.nrs \subseteq Nat
      /\ build.modes \subseteq SUBSET States /\ w # NULL
  BY <1>1, BuildAssumption, ProcessAssumption DEF TypeOK
<1>3. UNCHANGED << list, pc, call, build >> /\ (tokens' = tokens \/ Turn(w))
  BY DEF complete, Waking
<1>4. waker' \in [Waker -> Wakers] /\ \A v \in Waker \ {w} : waker'[v] = waker[v]
  BY <1>1, <1>2 DEF Wakers, Idle, Heads, States, complete, Waking
<1>5. /\ lock' \in [Heads -> Waker \cup {NULL}]
      /\ \A h \in Heads : \/ lock'[h] = lock[h]
                          \/ lock[h] \in {w, NULL} /\ lock'[h] \in {w, NULL}
  BY <1>1, <1>2 DEF WakerOK, Wakers, Heads, complete, Waking
<1>6. tokens' \in [Heads -> 0 .. build.tokens]
  BY <1>1, <1>2 DEF TypeOK, Heads, complete, Waking
<1>7. task' \in [Waiter -> [state : States, array : BOOLEAN, sigpending : BOOLEAN,
                           expired : BOOLEAN]] /\ \A t \in Waiter : StateOK(t)'
  BY <1>1 DEF Struct, StateOK, Mode, complete, Waking
<1>8. TypeOK'
  BY <1>1, <1>3, <1>4, <1>5, <1>6, <1>7 DEF TypeOK, Wakers
<1>9. WakerOK(w)'
  <2>1. waker' = [waker EXCEPT ![w] = [pc |-> "scan", head |-> "x.wait", i |-> 1, nr |-> 1,
                                       mode |-> States \ {"RUNNING"}]]
    BY DEF complete
  <2>2. /\ waker'[w].pc = "scan" /\ waker'[w].head = "x.wait" /\ waker'[w].i = 1
        /\ waker'[w].nr = 1 /\ waker'[w].mode = States \ {"RUNNING"}
    BY <1>1, <2>1
  <2>3. tokens["x.wait"] \in Nat /\ tokens["x.wait"] < build.tokens
    BY <1>1 DEF TypeOK, Heads, complete
  <2>4. lock'["x.wait"] = w /\ lock'["q"] # w
    BY <1>1 DEF WakerOK, complete, Waking, Heads
  <2>5. 1 <= build.tokens
    BY <1>2, <2>3
  <2> QED
    BY <1>2, <1>3, <2>2, <2>4, <2>5 DEF WakerOK, Heads
<1> QED
  BY <1>3, <1>4, <1>5, <1>7, <1>8, <1>9, WakeFrame

\* The end of the list.
LEMMA EndOfListStruct ==
  ASSUME Struct, NEW w \in Waker, EndOfList(w)
  PROVE  Struct'
<1>1. /\ TypeOK /\ WakerOK(w) /\ waker \in [Waker -> Wakers] /\ waker[w] \in Wakers
      /\ list \in [Heads -> Seq(Waiter)] /\ lock \in [Heads -> Waker \cup {NULL}]
      /\ task \in [Waiter -> [state : States, array : BOOLEAN, sigpending : BOOLEAN,
                              expired : BOOLEAN]]
  BY DEF Struct, TypeOK, Wakers
<1>2. /\ build \in Builds /\ build.tokens \in Nat /\ build.nrs \subseteq Nat
      /\ build.modes \subseteq SUBSET States /\ w # NULL
  BY <1>1, BuildAssumption, ProcessAssumption DEF TypeOK
<1>3. UNCHANGED << list, pc, call, build >> /\ (tokens' = tokens \/ Turn(w))
  BY DEF EndOfList, Waking, Unlock
<1>4. waker' \in [Waker -> Wakers] /\ \A v \in Waker \ {w} : waker'[v] = waker[v]
  BY <1>1, <1>2 DEF Wakers, Idle, Heads, States, EndOfList, Waking, Unlock
<1>5. /\ lock' \in [Heads -> Waker \cup {NULL}]
      /\ \A h \in Heads : \/ lock'[h] = lock[h]
                          \/ lock[h] \in {w, NULL} /\ lock'[h] \in {w, NULL}
  BY <1>1, <1>2 DEF WakerOK, Wakers, Heads, EndOfList, Waking, Unlock
<1>6. tokens' \in [Heads -> 0 .. build.tokens]
  BY <1>1, <1>2 DEF TypeOK, Heads, EndOfList, Waking, Unlock
<1>7. task' \in [Waiter -> [state : States, array : BOOLEAN, sigpending : BOOLEAN,
                           expired : BOOLEAN]] /\ \A t \in Waiter : StateOK(t)'
  BY <1>1 DEF Struct, StateOK, Mode, EndOfList, Waking, Unlock
<1>8. TypeOK'
  BY <1>1, <1>3, <1>4, <1>5, <1>6, <1>7 DEF TypeOK, Wakers
<1>9. WakerOK(w)'
  BY <1>1, <1>2 DEF WakerOK, Wakers, Idle, Heads, EndOfList, Waking, Unlock
<1> QED
  BY <1>3, <1>4, <1>5, <1>7, <1>8, <1>9, WakeFrame

\* The state of the next waiter is read.
LEMMA ReadStateStruct ==
  ASSUME Struct, NEW w \in Waker, ReadState(w)
  PROVE  Struct'
<1>1. /\ TypeOK /\ WakerOK(w) /\ waker \in [Waker -> Wakers] /\ waker[w] \in Wakers
      /\ list \in [Heads -> Seq(Waiter)] /\ lock \in [Heads -> Waker \cup {NULL}]
      /\ task \in [Waiter -> [state : States, array : BOOLEAN, sigpending : BOOLEAN,
                              expired : BOOLEAN]]
  BY DEF Struct, TypeOK, Wakers
<1>2. /\ build \in Builds /\ build.tokens \in Nat /\ build.nrs \subseteq Nat
      /\ build.modes \subseteq SUBSET States /\ w # NULL
  BY <1>1, BuildAssumption, ProcessAssumption DEF TypeOK
<1>3. UNCHANGED << list, pc, call, build >> /\ (tokens' = tokens \/ Turn(w))
  BY DEF ReadState, Waking
<1>4. waker' \in [Waker -> Wakers] /\ \A v \in Waker \ {w} : waker'[v] = waker[v]
  <2>1. \/ waker' = [waker EXCEPT ![w].pc = "try"] \/ waker' = [waker EXCEPT ![w].i = @ + 1]
    BY DEF ReadState
  <2>2. waker[w].i + 1 \in Nat
    BY <1>1 DEF Wakers
  <2>3. PICK R : /\ waker' = [waker EXCEPT ![w] = R]
                 /\ \/ R = [waker[w] EXCEPT !.pc = "try"]
                    \/ R = [waker[w] EXCEPT !.i = waker[w].i + 1]
    BY <2>1
  <2>4. R \in Wakers
    BY <1>1, <2>2, <2>3 DEF Wakers
  <2> QED
    BY <1>1, <2>3, <2>4
<1>5. /\ lock' \in [Heads -> Waker \cup {NULL}]
      /\ \A h \in Heads : \/ lock'[h] = lock[h]
                          \/ lock[h] \in {w, NULL} /\ lock'[h] \in {w, NULL}
  BY <1>1, <1>2 DEF WakerOK, Wakers, Heads, ReadState, Waking
<1>6. tokens' \in [Heads -> 0 .. build.tokens]
  BY <1>1, <1>2 DEF TypeOK, Heads, ReadState, Waking
<1>7. task' \in [Waiter -> [state : States, array : BOOLEAN, sigpending : BOOLEAN,
                           expired : BOOLEAN]] /\ \A t \in Waiter : StateOK(t)'
  BY <1>1 DEF Struct, StateOK, Mode, ReadState, Waking
<1>8. TypeOK'
  BY <1>1, <1>3, <1>4, <1>5, <1>6, <1>7 DEF TypeOK, Wakers
<1>9. WakerOK(w)'
  <2>1. /\ waker[w].pc = "scan" /\ waker[w].i <= Len(list[waker[w].head])
        /\ \/ waker' = [waker EXCEPT ![w].pc = "try"]
           \/ waker' = [waker EXCEPT ![w].i = @ + 1]
    BY DEF ReadState, Waking
  <2>2. /\ waker'[w].pc \in {"scan", "try"} /\ waker'[w].head = waker[w].head
        /\ waker'[w].nr = waker[w].nr /\ waker'[w].mode = waker[w].mode
        /\ \/ waker'[w].i = waker[w].i
           \/ waker'[w].i = waker[w].i + 1 /\ waker'[w].pc = "scan"
    BY <1>1, <2>1 DEF Wakers
  <2>3. lock' = lock /\ list' = list /\ build' = build
    BY DEF ReadState
  <2>4. waker[w].i >= 1 => waker'[w].i >= 1
    BY <1>1, <2>2 DEF Wakers
  <2> QED
    BY <1>1, <2>1, <2>2, <2>3, <2>4 DEF WakerOK
<1> QED
  BY <1>3, <1>4, <1>5, <1>7, <1>8, <1>9, WakeFrame

\* The waiter is woken.
LEMMA TryToWakeUpStruct ==
  ASSUME Struct, NEW w \in Waker, TryToWakeUp(w)
  PROVE  Struct'
<1>1. /\ TypeOK /\ WakerOK(w) /\ waker \in [Waker -> Wakers] /\ waker[w] \in Wakers
      /\ list \in [Heads -> Seq(Waiter)] /\ lock \in [Heads -> Waker \cup {NULL}]
      /\ task \in [Waiter -> [state : States, array : BOOLEAN, sigpending : BOOLEAN,
                              expired : BOOLEAN]]
  BY DEF Struct, TypeOK, Wakers
<1>2. /\ build \in Builds /\ build.tokens \in Nat /\ build.nrs \subseteq Nat
      /\ build.modes \subseteq SUBSET States /\ w # NULL
  BY <1>1, BuildAssumption, ProcessAssumption DEF TypeOK
<1>3. UNCHANGED << list, pc, call, build >> /\ (tokens' = tokens \/ Turn(w))
  BY DEF TryToWakeUp, Waking, Unlock, try_to_wake_up
<1>4. waker' \in [Waker -> Wakers] /\ \A v \in Waker \ {w} : waker'[v] = waker[v]
  <2>1. PICK nr : nr = IF Counts(list[waker[w].head][waker[w].i]) THEN waker[w].nr - 1
                                                                 ELSE waker[w].nr
    OBVIOUS
  <2>2. /\ nr \in Int /\ nr <= waker[w].nr /\ waker[w].i + 1 \in Nat
    BY <1>1, <2>1 DEF Wakers
  <2>3. \/ Unlock(w)
        \/ /\ waker' = [waker EXCEPT ![w].pc = "scan", ![w].i = @ + 1, ![w].nr = nr]
           /\ UNCHANGED lock
    BY <2>1 DEF TryToWakeUp
  <2>4. CASE Unlock(w)
    BY <1>1, <2>4 DEF Unlock, Wakers, Idle, Heads, States
  <2>5. CASE waker' = [waker EXCEPT ![w].pc = "scan", ![w].i = @ + 1, ![w].nr = nr]
    <3>1. PICK R : R = [waker[w] EXCEPT !.pc = "scan", !.i = waker[w].i + 1, !.nr = nr]
      OBVIOUS
    <3>2. R \in Wakers
      BY <1>1, <2>2, <3>1 DEF Wakers
    <3>3. waker' = [waker EXCEPT ![w] = R]
      BY <1>1, <2>5, <3>1 DEF Wakers
    <3> QED
      BY <1>1, <3>2, <3>3
  <2> QED
    BY <2>3, <2>4, <2>5
<1>5. /\ lock' \in [Heads -> Waker \cup {NULL}]
      /\ \A h \in Heads : \/ lock'[h] = lock[h]
                          \/ lock[h] \in {w, NULL} /\ lock'[h] \in {w, NULL}
  BY <1>1, <1>2 DEF WakerOK, Wakers, Heads, TryToWakeUp, Waking, Unlock, try_to_wake_up
<1>6. tokens' \in [Heads -> 0 .. build.tokens]
  BY <1>1, <1>2 DEF TypeOK, Heads, TryToWakeUp, Waking, Unlock, try_to_wake_up
<1>7. task' \in [Waiter -> [state : States, array : BOOLEAN, sigpending : BOOLEAN,
                           expired : BOOLEAN]] /\ \A t \in Waiter : StateOK(t)'
  <2>1. PICK p : p = list[waker[w].head][waker[w].i]
    OBVIOUS
  <2>2. task' = [task EXCEPT ![p].array = TRUE, ![p].state = "RUNNING"]
    BY <2>1 DEF TryToWakeUp, try_to_wake_up
  <2>3. "RUNNING" \in States
    BY DEF States
  <2>4. task' \in [Waiter -> [state : States, array : BOOLEAN, sigpending : BOOLEAN,
                             expired : BOOLEAN]]
    BY <1>1, <2>2, <2>3
  <2>5. ASSUME NEW t \in Waiter PROVE StateOK(t)'
    <3>1. StateOK(t) /\ pc' = pc /\ call' = call
      BY <1>3 DEF Struct
    <3>2. CASE t = p
      <4>1. task'[t].state = "RUNNING" /\ task'[t].array = TRUE
        BY <1>1, <2>2, <3>2
      <4> QED
        BY <3>1, <4>1 DEF StateOK
    <3>3. CASE t # p
      <4>1. task'[t] = task[t]
        BY <1>1, <2>2, <3>3
      <4> QED
        BY <3>1, <4>1 DEF StateOK, Mode
    <3> QED
      BY <3>2, <3>3
  <2> QED
    BY <2>4, <2>5
<1>8. TypeOK'
  BY <1>1, <1>3, <1>4, <1>5, <1>6, <1>7 DEF TypeOK, Wakers
<1>9. WakerOK(w)'
  <2>1. PICK nr : nr = IF Counts(list[waker[w].head][waker[w].i]) THEN waker[w].nr - 1
                                                                 ELSE waker[w].nr
    OBVIOUS
  <2>2. /\ nr \in Int /\ nr <= waker[w].nr /\ waker[w].i + 1 \in Nat
    BY <1>1, <2>1 DEF Wakers
  <2>3. \/ Unlock(w)
        \/ /\ waker' = [waker EXCEPT ![w].pc = "scan", ![w].i = @ + 1, ![w].nr = nr]
           /\ UNCHANGED lock
    BY <2>1 DEF TryToWakeUp
  <2>4. CASE Unlock(w)
    <3>1. waker'[w] = Idle /\ \A h \in Heads : lock'[h] # w
      BY <1>1, <1>2, <2>4 DEF Unlock, WakerOK
    <3> QED
      BY <1>2, <1>3, <3>1 DEF WakerOK, Idle
  <2>5. CASE /\ waker' = [waker EXCEPT ![w].pc = "scan", ![w].i = @ + 1, ![w].nr = nr]
             /\ UNCHANGED lock
    <3>1. /\ waker'[w].pc = "scan" /\ waker'[w].head = waker[w].head
          /\ waker'[w].i = waker[w].i + 1 /\ waker'[w].nr = nr /\ waker'[w].mode = waker[w].mode
      <4>1. PICK R : R = [waker[w] EXCEPT !.pc = "scan", !.i = waker[w].i + 1, !.nr = nr]
        OBVIOUS
      <4>2. waker'[w] = R
        BY <1>1, <2>5, <4>1 DEF Wakers
      <4> QED
        BY <1>1, <4>1, <4>2 DEF Wakers
    <3>2. waker[w].pc = "try" /\ waker[w].i \in Nat /\ waker[w].nr \in Int
      BY <1>1 DEF TryToWakeUp, Waking, Wakers
    <3>3. nr <= build.tokens
      BY <1>1, <1>2, <2>2, <3>2 DEF WakerOK
    <3> QED
      BY <1>1, <1>3, <2>5, <3>1, <3>2, <3>3 DEF WakerOK
  <2> QED
    BY <2>3, <2>4, <2>5
<1> QED
  BY <1>3, <1>4, <1>5, <1>7, <1>8, <1>9, WakeFrame
-----------------------------------------------------------------------------
(* The count of tokens, waiters that will look, and wake-ups owed *)

\* Sets of waiters are finite.
LEMMA WaiterSets ==
  ASSUME NEW S \in SUBSET Waiter
  PROVE  IsFiniteSet(S) /\ Cardinality(S) \in Nat
BY ProcessAssumption, FS_Subset, FS_CardinalityType

\* And so are sets of elements owed.
LEMMA OwedSets ==
  ASSUME NEW n \in Nat, NEW S \in SUBSET (Waker \X (1 .. n))
  PROVE  IsFiniteSet(S) /\ Cardinality(S) \in Nat
<1>1. IsFiniteSet(1 .. n)
  BY FS_Interval
<1>2. IsFiniteSet(Waker \X (1 .. n))
  BY <1>1, ProcessAssumption, FS_Product
<1> QED
  BY <1>2, FS_Subset, FS_CardinalityType

\* The numbers that Count is about.
LEMMA Sizes ==
  ASSUME TypeOK, NEW h \in Heads
  PROVE  /\ IsFiniteSet(Sure(h)) /\ Cardinality(Sure(h)) \in Nat
         /\ \A places : /\ IsFiniteSet(Owed(h, places))
                        /\ Cardinality(Owed(h, places)) \in Nat
         /\ tokens[h] \in Nat
<1>1. Sure(h) \subseteq Waiter
  BY DEF Sure
<1>2. build.tokens \in Nat
  BY BuildAssumption DEF TypeOK
<1>3. \A places : Owed(h, places) \in SUBSET (Waker \X (1 .. build.tokens))
  BY DEF Owed
<1>4. \A n \in Nat : \A S \in SUBSET (Waker \X (1 .. n)) :
        IsFiniteSet(S) /\ Cardinality(S) \in Nat
  BY OwedSets
<1>5. tokens[h] \in Nat
  BY <1>2 DEF TypeOK
<1>6. \A S \in SUBSET Waiter : IsFiniteSet(S) /\ Cardinality(S) \in Nat
  BY WaiterSets
<1> QED
  BY <1>1, <1>2, <1>3, <1>4, <1>5, <1>6

\* A waiter that may sleep is on its list, in one place.
LEMMA RiskListed ==
  ASSUME Struct, NEW t \in Waiter, NEW h \in Heads, Queue(t) = h, Risk(t)
  PROVE  \E j \in DOMAIN list[h] : list[h][j] = t
<1>1. OnQueue(t)
  <2>1. CallOK(t)
    BY DEF Struct
  <2> QED
    BY <2>1 DEF Risk, OnQueue, CallOK
<1>2. Holds(h)
  BY DEF Struct, ListOK
<1> QED
  BY <1>1, <1>2 DEF Holds, ToSet

\* The waiters on a list are waiters of that queue.
LEMMA OfQueue ==
  ASSUME Struct, NEW h \in Heads, NEW j \in DOMAIN list[h]
  PROVE  list[h][j] \in Waiter /\ Queue(list[h][j]) = h /\ OnQueue(list[h][j])
<1>1. list[h] \in Seq(Waiter) /\ Holds(h)
  BY DEF Struct, TypeOK, ListOK
<1>2. list[h][j] \in Waiter /\ list[h][j] \in ToSet(list[h])
  BY <1>1 DEF ToSet
<1> QED
  BY <1>1, <1>2 DEF Holds

\* The only wake-up that goes through a list is the one with its lock.
LEMMA OneScanner ==
  ASSUME Struct, NEW h \in Heads, NEW w \in Waker, Scans(h, w)
  PROVE  lock[h] = w /\ lock[h] # NULL
BY ProcessAssumption DEF Struct, WakerOK, Scans

\* The count, when a waiter steps: either there are no tokens, or the waiter does not go
\* to sleep, and goes on to look for a token unless it takes one.
LEMMA CountOfWaiter ==
  ASSUME Struct, Struct', NEW t \in Waiter, Moves(t), NEW h \in Heads, Count(h),
         \/ tokens'[h] = 0
         \/ /\ Risk(t)' /\ Queue(t)' = h =>
                 Risk(t) /\ Queue(t) = h /\ (Exclusive(t)' <=> Exclusive(t))
            /\ \/ /\ tokens'[h] <= tokens[h]
                  /\ Queue(t) = h /\ WillLook(t) => Queue(t)' = h /\ WillLook(t)'
               \/ tokens'[h] = tokens[h] - 1
  PROVE  Count(h)'
<1>1. /\ UNCHANGED << waker, lock, build >>
      /\ \A u \in Waiter \ {t} : pc'[u] = pc[u] /\ call'[u] = call[u] /\ task'[u] = task[u]
      /\ lock[h] # NULL => list'[h] = list[h]
  BY DEF Moves
<1>2. /\ \A places : Owed(h, places)' = Owed(h, places)
      /\ AllPending(h)' <=> AllPending(h)
      /\ \A w \in Waker : Scans(h, w)' <=> Scans(h, w)
  BY <1>1 DEF Owed, AllPending, Scans
<1>3. /\ IsFiniteSet(Sure(h)) /\ Cardinality(Sure(h)) \in Nat /\ tokens[h] \in Nat
      /\ \A places : Cardinality(Owed(h, places)) \in Nat
  BY Sizes DEF Struct
<1>4. /\ IsFiniteSet(Sure(h)') /\ Cardinality(Sure(h)') \in Nat /\ tokens'[h] \in Nat
  <2>1. Sure(h)' \in SUBSET Waiter
    BY DEF Sure
  <2>2. IsFiniteSet(Sure(h)') /\ Cardinality(Sure(h)') \in Nat
    BY <2>1, WaiterSets
  <2>3. tokens' \in [Heads -> 0 .. build'.tokens] /\ build' \in Builds
    BY DEF Struct, TypeOK
  <2>4. build'.tokens \in Nat
    BY <2>3, BuildAssumption
  <2> QED
    BY <2>2, <2>3, <2>4
<1>5. CASE tokens'[h] = 0
  <2>1. Enough(h)'
    BY <1>2, <1>3, <1>4, <1>5 DEF Enough
  <2>2. Passed(h)'
    BY <1>2, <1>3, <1>4, <1>5 DEF Passed
  <2>3. SharedAwake(h)'
    BY <1>5 DEF SharedAwake
  <2> QED
    BY <2>1, <2>2, <2>3 DEF Count
<1>6. CASE tokens'[h] # 0
  <2>1. \A u \in Waiter : Risk(u)' /\ Queue(u)' = h =>
          Risk(u) /\ Queue(u) = h /\ (Exclusive(u)' <=> Exclusive(u))
    BY <1>1, <1>6 DEF Risk, Queue, Exclusive
  <2>2. tokens'[h] - Cardinality(Sure(h)') <= tokens[h] - Cardinality(Sure(h))
    <3>1. \A u \in Waiter \ {t} : u \in Sure(h) => u \in Sure(h)'
      BY <1>1 DEF Sure, WillLook, Queue, Exclusive
    <3>2. CASE /\ tokens'[h] <= tokens[h]
               /\ Queue(t) = h /\ WillLook(t) => Queue(t)' = h /\ WillLook(t)'
      <4>1. t \in Sure(h) => t \in Sure(h)'
        BY <3>2 DEF Sure
      <4>2. Sure(h) \subseteq Sure(h)'
        BY <3>1, <4>1 DEF Sure
      <4>3. Cardinality(Sure(h)) <= Cardinality(Sure(h)')
        BY <1>4, <4>2, FS_Subset
      <4> QED
        BY <1>3, <1>4, <3>2, <4>3
    <3>3. CASE tokens'[h] = tokens[h] - 1
      <4>1. Sure(h) \subseteq Sure(h)' \cup {t}
        BY <3>1 DEF Sure
      <4>2. /\ IsFiniteSet(Sure(h)' \cup {t})
            /\ Cardinality(Sure(h)' \cup {t}) <= Cardinality(Sure(h)') + 1
            /\ Cardinality(Sure(h)' \cup {t}) \in Nat
        <5>1. PICK S : S = Sure(h)'
          OBVIOUS
        <5>2. IsFiniteSet(S) /\ Cardinality(S) \in Nat
          BY <1>4, <5>1
        <5>3. /\ IsFiniteSet(S \cup {t})
              /\ Cardinality(S \cup {t}) = IF t \in S THEN Cardinality(S) ELSE Cardinality(S) + 1
          BY <5>2, FS_AddElement
        <5> QED
          BY <5>1, <5>2, <5>3
      <4>3. Cardinality(Sure(h)) <= Cardinality(Sure(h)' \cup {t})
        BY <4>1, <4>2, FS_Subset
      <4> QED
        BY <1>3, <1>4, <3>3, <4>2, <4>3
    <3> QED
      BY <1>6, <3>2, <3>3
  <2>3. Enough(h)'
    <3>1. ASSUME ~AllPending(h), \A w \in Waker : Scans(h, w) => waker[w].nr > 0,
                 \E u \in Waiter : Queue(u)' = h /\ Exclusive(u)' /\ Risk(u)'
          PROVE  tokens'[h] <= Cardinality(Sure(h)') + Cardinality(Owed(h, Under))
      <4>1. \E u \in Waiter : Queue(u) = h /\ Exclusive(u) /\ Risk(u)
        BY <2>1, <3>1
      <4>2. tokens[h] <= Cardinality(Sure(h)) + Cardinality(Owed(h, Under))
        BY <3>1, <4>1 DEF Count, Enough
      <4> QED
        BY <1>3, <1>4, <2>2, <4>2
    <3>2. Owed(h, Under)' = Owed(h, Under)
      BY <1>1 DEF Owed, Under
    <3> QED
      BY <1>1, <1>2, <3>1, <3>2 DEF Enough
  <2>4. \A w \in Waker : Scans(h, w) => list'[h] = list[h]
    BY <1>1, OneScanner
  <2>5. Passed(h)'
    <3>1. ASSUME NEW w \in Waker, ~AllPending(h), Scans(h, w),
                 NEW j \in DOMAIN list'[h], j < waker[w].i,
                 call'[list'[h][j]] \in {"exclusive", "wait_for_completion"}, Risk(list[h][j])'
          PROVE  tokens'[h] <= Cardinality(Sure(h)') + Cardinality(Owed(h, {"lock"}))
      <4>1. list'[h] = list[h]
        BY <2>4, <3>1
      <4>2. list[h][j] \in Waiter /\ j \in DOMAIN list[h]
        BY <3>1, <4>1, OfQueue
      <4>3. PICK u \in Waiter : u = list[h][j]
        BY <4>2
      <4>4. Queue(u)' = h
        <5>1. Holds(h)'
          BY DEF Struct, ListOK
        <5>2. u \in ToSet(list[h])'
          BY <4>1, <4>2, <4>3 DEF ToSet
        <5> QED
          BY <5>1, <5>2 DEF Holds
      <4>5. Risk(u)' /\ Exclusive(u)'
        BY <3>1, <4>1, <4>3 DEF Risk, Exclusive
      <4>6. Risk(u) /\ Exclusive(u)
        BY <2>1, <4>4, <4>5
      <4>7. tokens[h] <= Cardinality(Sure(h)) + Cardinality(Owed(h, {"lock"}))
        BY <3>1, <4>2, <4>3, <4>6 DEF Count, Passed
      <4> QED
        BY <1>3, <1>4, <2>2, <4>7
    <3> QED
      BY <1>1, <1>2, <3>1 DEF Passed, Exclusive
  <2>6. SharedAwake(h)'
    <3>1. ASSUME NEW u \in Waiter, Queue(u)' = h, ~Exclusive(u)', Risk(u)'
          PROVE  \E w \in Waker :
                   \/ waker[w].pc = "lock" /\ waker[w].head = h
                   \/ /\ Scans(h, w)
                      /\ \E j \in DOMAIN list'[h] : waker[w].i <= j /\ list'[h][j] = u
      <4>1. Risk(u) /\ Queue(u) = h /\ ~Exclusive(u)
        BY <2>1, <3>1
      <4>2. tokens[h] > 0
        BY <1>3, <1>4, <1>6
      <4>3. PICK w \in Waker :
              \/ waker[w].pc = "lock" /\ waker[w].head = h
              \/ Scans(h, w) /\ \E j \in DOMAIN list[h] : waker[w].i <= j /\ list[h][j] = u
        BY <4>1, <4>2 DEF Count, SharedAwake
      <4> QED
        BY <2>4, <4>3
    <3> QED
      BY <1>1, <1>2, <3>1 DEF SharedAwake
  <2> QED
    BY <2>3, <2>5, <2>6 DEF Count
<1> QED
  BY <1>5, <1>6
\* It starts to wait: what is counted stays enough.
LEMMA WaitCount ==
  ASSUME IInv, NEW t \in Waiter, Wait(t)
  PROVE  IInv'
<1>1. Struct /\ Struct' /\ Moves(t) /\ \A h \in Heads : Count(h)
  BY WaitStruct DEF IInv
<1>2. /\ TypeOK /\ CallOK(t) /\ StateOK(t) /\ SleepOnOK(t)
      /\ task[t] \in [state : States, array : BOOLEAN, sigpending : BOOLEAN, expired : BOOLEAN]
      /\ \A h \in Heads : tokens[h] \in Nat
  BY <1>1, Sizes DEF Struct, TypeOK
<1>3. ASSUME NEW h \in Heads PROVE Count(h)'
  <2>1. \/ tokens'[h] = 0
        \/ /\ Risk(t)' /\ Queue(t)' = h =>
                 Risk(t) /\ Queue(t) = h /\ (Exclusive(t)' <=> Exclusive(t))
           /\ \/ /\ tokens'[h] <= tokens[h]
                 /\ Queue(t) = h /\ WillLook(t) => Queue(t)' = h /\ WillLook(t)'
              \/ tokens'[h] = tokens[h] - 1
    BY <1>2 DEF TypeOK, CallOK, StateOK, SleepOnOK, Risk, WillLook, Queue, Exclusive, Heads,
       Loops, SleepOns, Wait, At, Goto
  <2> QED
    BY <1>1, <2>1, CountOfWaiter
<1> QED
  BY <1>1, <1>3 DEF IInv

\* It finds a token at once: what is counted stays enough.
LEMMA TestSucceedsCount ==
  ASSUME IInv, NEW t \in Waiter, TestSucceeds(t)
  PROVE  IInv'
<1>1. Struct /\ Struct' /\ Moves(t) /\ \A h \in Heads : Count(h)
  BY TestSucceedsStruct DEF IInv
<1>2. /\ TypeOK /\ CallOK(t) /\ StateOK(t) /\ SleepOnOK(t)
      /\ task[t] \in [state : States, array : BOOLEAN, sigpending : BOOLEAN, expired : BOOLEAN]
      /\ \A h \in Heads : tokens[h] \in Nat
  BY <1>1, Sizes DEF Struct, TypeOK
<1>3. ASSUME NEW h \in Heads PROVE Count(h)'
  <2>1. \/ tokens'[h] = 0
        \/ /\ Risk(t)' /\ Queue(t)' = h =>
                 Risk(t) /\ Queue(t) = h /\ (Exclusive(t)' <=> Exclusive(t))
           /\ \/ /\ tokens'[h] <= tokens[h]
                 /\ Queue(t) = h /\ WillLook(t) => Queue(t)' = h /\ WillLook(t)'
              \/ tokens'[h] = tokens[h] - 1
    BY <1>2 DEF TypeOK, CallOK, StateOK, SleepOnOK, Risk, WillLook, Queue, Exclusive, Heads,
       Loops, SleepOns, TestSucceeds, At, Goto, Return, Take
  <2> QED
    BY <1>1, <2>1, CountOfWaiter
<1> QED
  BY <1>1, <1>3 DEF IInv

\* It returns from sleep_on with a signal or no time left: what is counted stays enough.
LEMMA GiveUpCount ==
  ASSUME IInv, NEW t \in Waiter, GiveUp(t)
  PROVE  IInv'
<1>1. Struct /\ Struct' /\ Moves(t) /\ \A h \in Heads : Count(h)
  BY GiveUpStruct DEF IInv
<1>2. /\ TypeOK /\ CallOK(t) /\ StateOK(t) /\ SleepOnOK(t)
      /\ task[t] \in [state : States, array : BOOLEAN, sigpending : BOOLEAN, expired : BOOLEAN]
      /\ \A h \in Heads : tokens[h] \in Nat
  BY <1>1, Sizes DEF Struct, TypeOK
<1>3. ASSUME NEW h \in Heads PROVE Count(h)'
  <2>1. \/ tokens'[h] = 0
        \/ /\ Risk(t)' /\ Queue(t)' = h =>
                 Risk(t) /\ Queue(t) = h /\ (Exclusive(t)' <=> Exclusive(t))
           /\ \/ /\ tokens'[h] <= tokens[h]
                 /\ Queue(t) = h /\ WillLook(t) => Queue(t)' = h /\ WillLook(t)'
              \/ tokens'[h] = tokens[h] - 1
    BY <1>2 DEF TypeOK, CallOK, StateOK, SleepOnOK, Risk, WillLook, Queue, Exclusive, Heads,
       Loops, SleepOns, GiveUp, At, Goto, Return
  <2> QED
    BY <1>1, <2>1, CountOfWaiter
<1> QED
  BY <1>1, <1>3 DEF IInv

\* It finds no token: what is counted stays enough.
LEMMA TestFailsCount ==
  ASSUME IInv, NEW t \in Waiter, TestFails(t)
  PROVE  IInv'
<1>1. Struct /\ Struct' /\ Moves(t) /\ \A h \in Heads : Count(h)
  BY TestFailsStruct DEF IInv
<1>2. /\ TypeOK /\ CallOK(t) /\ StateOK(t) /\ SleepOnOK(t)
      /\ task[t] \in [state : States, array : BOOLEAN, sigpending : BOOLEAN, expired : BOOLEAN]
      /\ \A h \in Heads : tokens[h] \in Nat
  BY <1>1, Sizes DEF Struct, TypeOK
<1>3. ASSUME NEW h \in Heads PROVE Count(h)'
  <2>1. \/ tokens'[h] = 0
        \/ /\ Risk(t)' /\ Queue(t)' = h =>
                 Risk(t) /\ Queue(t) = h /\ (Exclusive(t)' <=> Exclusive(t))
           /\ \/ /\ tokens'[h] <= tokens[h]
                 /\ Queue(t) = h /\ WillLook(t) => Queue(t)' = h /\ WillLook(t)'
              \/ tokens'[h] = tokens[h] - 1
    BY <1>2 DEF TypeOK, CallOK, StateOK, SleepOnOK, Risk, WillLook, Queue, Exclusive, Heads,
       Loops, SleepOns, TestFails, At, Goto, SetState
  <2> QED
    BY <1>1, <2>1, CountOfWaiter
<1> QED
  BY <1>1, <1>3 DEF IInv

\* It joins the queue: what is counted stays enough.
LEMMA AddCount ==
  ASSUME IInv, NEW t \in Waiter, Add(t)
  PROVE  IInv'
<1>1. Struct /\ Struct' /\ Moves(t) /\ \A h \in Heads : Count(h)
  BY AddStruct DEF IInv
<1>2. /\ TypeOK /\ CallOK(t) /\ StateOK(t) /\ SleepOnOK(t)
      /\ task[t] \in [state : States, array : BOOLEAN, sigpending : BOOLEAN, expired : BOOLEAN]
      /\ \A h \in Heads : tokens[h] \in Nat
  BY <1>1, Sizes DEF Struct, TypeOK
<1>3. ASSUME NEW h \in Heads PROVE Count(h)'
  <2>1. \/ tokens'[h] = 0
        \/ /\ Risk(t)' /\ Queue(t)' = h =>
                 Risk(t) /\ Queue(t) = h /\ (Exclusive(t)' <=> Exclusive(t))
           /\ \/ /\ tokens'[h] <= tokens[h]
                 /\ Queue(t) = h /\ WillLook(t) => Queue(t)' = h /\ WillLook(t)'
              \/ tokens'[h] = tokens[h] - 1
    BY <1>2 DEF TypeOK, CallOK, StateOK, SleepOnOK, Risk, WillLook, Queue, Exclusive, Heads,
       Loops, SleepOns, Add, At, Goto
  <2> QED
    BY <1>1, <2>1, CountOfWaiter
<1> QED
  BY <1>1, <1>3 DEF IInv

\* It says that it will sleep: what is counted stays enough.
LEMMA set_current_stateCount ==
  ASSUME IInv, NEW t \in Waiter, set_current_state(t)
  PROVE  IInv'
<1>1. Struct /\ Struct' /\ Moves(t) /\ \A h \in Heads : Count(h)
  BY set_current_stateStruct DEF IInv
<1>2. /\ TypeOK /\ CallOK(t) /\ StateOK(t) /\ SleepOnOK(t)
      /\ task[t] \in [state : States, array : BOOLEAN, sigpending : BOOLEAN, expired : BOOLEAN]
      /\ \A h \in Heads : tokens[h] \in Nat
  BY <1>1, Sizes DEF Struct, TypeOK
<1>3. ASSUME NEW h \in Heads PROVE Count(h)'
  <2>1. \/ tokens'[h] = 0
        \/ /\ Risk(t)' /\ Queue(t)' = h =>
                 Risk(t) /\ Queue(t) = h /\ (Exclusive(t)' <=> Exclusive(t))
           /\ \/ /\ tokens'[h] <= tokens[h]
                 /\ Queue(t) = h /\ WillLook(t) => Queue(t)' = h /\ WillLook(t)'
              \/ tokens'[h] = tokens[h] - 1
    BY <1>2 DEF TypeOK, CallOK, StateOK, SleepOnOK, Risk, WillLook, Queue, Exclusive, Heads,
       Loops, SleepOns, set_current_state, At, Goto, SetState
  <2> QED
    BY <1>1, <2>1, CountOfWaiter
<1> QED
  BY <1>1, <1>3 DEF IInv

\* It looks for a token again: what is counted stays enough.
LEMMA CheckCount ==
  ASSUME IInv, NEW t \in Waiter, Check(t)
  PROVE  IInv'
<1>1. Struct /\ Struct' /\ Moves(t) /\ \A h \in Heads : Count(h)
  BY CheckStruct DEF IInv
<1>2. /\ TypeOK /\ CallOK(t) /\ StateOK(t) /\ SleepOnOK(t)
      /\ task[t] \in [state : States, array : BOOLEAN, sigpending : BOOLEAN, expired : BOOLEAN]
      /\ \A h \in Heads : tokens[h] \in Nat
  BY <1>1, Sizes DEF Struct, TypeOK
<1>3. ASSUME NEW h \in Heads PROVE Count(h)'
  <2>1. \/ tokens'[h] = 0
        \/ /\ Risk(t)' /\ Queue(t)' = h =>
                 Risk(t) /\ Queue(t) = h /\ (Exclusive(t)' <=> Exclusive(t))
           /\ \/ /\ tokens'[h] <= tokens[h]
                 /\ Queue(t) = h /\ WillLook(t) => Queue(t)' = h /\ WillLook(t)'
              \/ tokens'[h] = tokens[h] - 1
    BY <1>2 DEF TypeOK, CallOK, StateOK, SleepOnOK, Risk, WillLook, Queue, Exclusive, Heads,
       Loops, SleepOns, Check, At, Goto, Take
  <2> QED
    BY <1>1, <2>1, CountOfWaiter
<1> QED
  BY <1>1, <1>3 DEF IInv

\* It looks for a signal: what is counted stays enough.
LEMMA CheckSignalCount ==
  ASSUME IInv, NEW t \in Waiter, CheckSignal(t)
  PROVE  IInv'
<1>1. Struct /\ Struct' /\ Moves(t) /\ \A h \in Heads : Count(h)
  BY CheckSignalStruct DEF IInv
<1>2. /\ TypeOK /\ CallOK(t) /\ StateOK(t) /\ SleepOnOK(t)
      /\ task[t] \in [state : States, array : BOOLEAN, sigpending : BOOLEAN, expired : BOOLEAN]
      /\ \A h \in Heads : tokens[h] \in Nat
  BY <1>1, Sizes DEF Struct, TypeOK
<1>3. ASSUME NEW h \in Heads PROVE Count(h)'
  <2>1. \/ tokens'[h] = 0
        \/ /\ Risk(t)' /\ Queue(t)' = h =>
                 Risk(t) /\ Queue(t) = h /\ (Exclusive(t)' <=> Exclusive(t))
           /\ \/ /\ tokens'[h] <= tokens[h]
                 /\ Queue(t) = h /\ WillLook(t) => Queue(t)' = h /\ WillLook(t)'
              \/ tokens'[h] = tokens[h] - 1
    BY <1>2 DEF TypeOK, CallOK, StateOK, SleepOnOK, Risk, WillLook, Queue, Exclusive, Heads,
       Loops, SleepOns, CheckSignal, At, Goto
  <2> QED
    BY <1>1, <2>1, CountOfWaiter
<1> QED
  BY <1>1, <1>3 DEF IInv

\* It has a token or a signal: what is counted stays enough.
LEMMA SetRunningCount ==
  ASSUME IInv, NEW t \in Waiter, SetRunning(t)
  PROVE  IInv'
<1>1. Struct /\ Struct' /\ Moves(t) /\ \A h \in Heads : Count(h)
  BY SetRunningStruct DEF IInv
<1>2. /\ TypeOK /\ CallOK(t) /\ StateOK(t) /\ SleepOnOK(t)
      /\ task[t] \in [state : States, array : BOOLEAN, sigpending : BOOLEAN, expired : BOOLEAN]
      /\ \A h \in Heads : tokens[h] \in Nat
  BY <1>1, Sizes DEF Struct, TypeOK
<1>3. ASSUME NEW h \in Heads PROVE Count(h)'
  <2>1. \/ tokens'[h] = 0
        \/ /\ Risk(t)' /\ Queue(t)' = h =>
                 Risk(t) /\ Queue(t) = h /\ (Exclusive(t)' <=> Exclusive(t))
           /\ \/ /\ tokens'[h] <= tokens[h]
                 /\ Queue(t) = h /\ WillLook(t) => Queue(t)' = h /\ WillLook(t)'
              \/ tokens'[h] = tokens[h] - 1
    BY <1>2 DEF TypeOK, CallOK, StateOK, SleepOnOK, Risk, WillLook, Queue, Exclusive, Heads,
       Loops, SleepOns, SetRunning, At, Goto, SetState
  <2> QED
    BY <1>1, <2>1, CountOfWaiter
<1> QED
  BY <1>1, <1>3 DEF IInv

\* It leaves the queue: what is counted stays enough.
LEMMA LeaveCount ==
  ASSUME IInv, NEW t \in Waiter, Leave(t)
  PROVE  IInv'
<1>1. Struct /\ Struct' /\ Moves(t) /\ \A h \in Heads : Count(h)
  BY LeaveStruct DEF IInv
<1>2. /\ TypeOK /\ CallOK(t) /\ StateOK(t) /\ SleepOnOK(t)
      /\ task[t] \in [state : States, array : BOOLEAN, sigpending : BOOLEAN, expired : BOOLEAN]
      /\ \A h \in Heads : tokens[h] \in Nat
  BY <1>1, Sizes DEF Struct, TypeOK
<1>3. ASSUME NEW h \in Heads PROVE Count(h)'
  <2>1. \/ tokens'[h] = 0
        \/ /\ Risk(t)' /\ Queue(t)' = h =>
                 Risk(t) /\ Queue(t) = h /\ (Exclusive(t)' <=> Exclusive(t))
           /\ \/ /\ tokens'[h] <= tokens[h]
                 /\ Queue(t) = h /\ WillLook(t) => Queue(t)' = h /\ WillLook(t)'
              \/ tokens'[h] = tokens[h] - 1
    BY <1>2 DEF TypeOK, CallOK, StateOK, SleepOnOK, Risk, WillLook, Queue, Exclusive, Heads,
       Loops, SleepOns, Leave, At, Goto, Return
  <2> QED
    BY <1>1, <2>1, CountOfWaiter
<1> QED
  BY <1>1, <1>3 DEF IInv

\* It sleeps, or goes on: what is counted stays enough.
LEMMA ScheduleCount ==
  ASSUME IInv, NEW t \in Waiter, Schedule(t)
  PROVE  IInv'
<1>1. Struct /\ Struct' /\ Moves(t) /\ \A h \in Heads : Count(h)
  BY ScheduleStruct DEF IInv
<1>2. /\ TypeOK /\ CallOK(t) /\ StateOK(t) /\ SleepOnOK(t)
      /\ task[t] \in [state : States, array : BOOLEAN, sigpending : BOOLEAN, expired : BOOLEAN]
      /\ \A h \in Heads : tokens[h] \in Nat
  BY <1>1, Sizes DEF Struct, TypeOK
<1>3. ASSUME NEW h \in Heads PROVE Count(h)'
  <2>1. \/ tokens'[h] = 0
        \/ /\ Risk(t)' /\ Queue(t)' = h =>
                 Risk(t) /\ Queue(t) = h /\ (Exclusive(t)' <=> Exclusive(t))
           /\ \/ /\ tokens'[h] <= tokens[h]
                 /\ Queue(t) = h /\ WillLook(t) => Queue(t)' = h /\ WillLook(t)'
              \/ tokens'[h] = tokens[h] - 1
    BY <1>2 DEF TypeOK, CallOK, StateOK, SleepOnOK, Risk, WillLook, Queue, Exclusive, Heads,
       Loops, SleepOns, Schedule, At, Goto, SetState, After
  <2> QED
    BY <1>1, <2>1, CountOfWaiter
<1> QED
  BY <1>1, <1>3 DEF IInv

\* It goes on after schedule(): what is counted stays enough.
LEMMA ResumeCount ==
  ASSUME IInv, NEW t \in Waiter, Resume(t)
  PROVE  IInv'
<1>1. Struct /\ Struct' /\ Moves(t) /\ \A h \in Heads : Count(h)
  BY ResumeStruct DEF IInv
<1>2. /\ TypeOK /\ CallOK(t) /\ StateOK(t) /\ SleepOnOK(t)
      /\ task[t] \in [state : States, array : BOOLEAN, sigpending : BOOLEAN, expired : BOOLEAN]
      /\ \A h \in Heads : tokens[h] \in Nat
  BY <1>1, Sizes DEF Struct, TypeOK
<1>3. ASSUME NEW h \in Heads PROVE Count(h)'
  <2>1. \/ tokens'[h] = 0
        \/ /\ Risk(t)' /\ Queue(t)' = h =>
                 Risk(t) /\ Queue(t) = h /\ (Exclusive(t)' <=> Exclusive(t))
           /\ \/ /\ tokens'[h] <= tokens[h]
                 /\ Queue(t) = h /\ WillLook(t) => Queue(t)' = h /\ WillLook(t)'
              \/ tokens'[h] = tokens[h] - 1
    BY <1>2 DEF TypeOK, CallOK, StateOK, SleepOnOK, Risk, WillLook, Queue, Exclusive, Heads,
       Loops, SleepOns, Resume, At, Goto, After
  <2> QED
    BY <1>1, <2>1, CountOfWaiter
<1> QED
  BY <1>1, <1>3 DEF IInv

\* It takes a completion, or joins its queue: what is counted stays enough.
LEMMA wait_for_completionCount ==
  ASSUME IInv, NEW t \in Waiter, wait_for_completion(t)
  PROVE  IInv'
<1>1. Struct /\ Struct' /\ Moves(t) /\ \A h \in Heads : Count(h)
  BY wait_for_completionStruct DEF IInv
<1>2. /\ TypeOK /\ CallOK(t) /\ StateOK(t) /\ SleepOnOK(t)
      /\ task[t] \in [state : States, array : BOOLEAN, sigpending : BOOLEAN, expired : BOOLEAN]
      /\ \A h \in Heads : tokens[h] \in Nat
  BY <1>1, Sizes DEF Struct, TypeOK
<1>3. ASSUME NEW h \in Heads PROVE Count(h)'
  <2>1. \/ tokens'[h] = 0
        \/ /\ Risk(t)' /\ Queue(t)' = h =>
                 Risk(t) /\ Queue(t) = h /\ (Exclusive(t)' <=> Exclusive(t))
           /\ \/ /\ tokens'[h] <= tokens[h]
                 /\ Queue(t) = h /\ WillLook(t) => Queue(t)' = h /\ WillLook(t)'
              \/ tokens'[h] = tokens[h] - 1
    <3>1. /\ call[t] = "wait_for_completion" /\ pc[t] = "complete" /\ Queue(t) = "x.wait"
          /\ ~WillLook(t)
      BY <1>2 DEF CallOK, Queue, WillLook, wait_for_completion, At
    <3>2. CASE tokens["x.wait"] > 0
      <4>1. pc'[t] = "user" /\ Take(t)
        BY <1>2, <3>2 DEF TypeOK, wait_for_completion, At, Goto, SetState, Return
      <4>2. tokens' = [tokens EXCEPT !["x.wait"] = @ - 1]
        BY <3>1, <4>1 DEF Take, Exclusive
      <4>3. tokens'[h] <= tokens[h]
        BY <1>2, <4>2 DEF TypeOK, Heads
      <4> QED
        BY <3>1, <4>1, <4>3 DEF Risk
    <3>3. CASE ~(tokens["x.wait"] > 0)
      <4>1. tokens' = tokens /\ call' = call /\ tokens["x.wait"] = 0
        BY <1>2, <3>3 DEF Heads, wait_for_completion, At, Goto, SetState, Return
      <4>2. Queue(t)' = "x.wait"
        BY <3>1, <4>1 DEF Queue
      <4>3. CASE h = "x.wait"
        BY <4>1, <4>3
      <4>4. CASE h # "x.wait"
        BY <1>2, <3>1, <4>1, <4>2, <4>4
      <4> QED
        BY <4>3, <4>4
    <3> QED
      BY <3>2, <3>3
  <2> QED
    BY <1>1, <2>1, CountOfWaiter
<1> QED
  BY <1>1, <1>3 DEF IInv

\* It takes a completion, or sleeps again: what is counted stays enough.
LEMMA RecheckCount ==
  ASSUME IInv, NEW t \in Waiter, Recheck(t)
  PROVE  IInv'
<1>1. Struct /\ Struct' /\ Moves(t) /\ \A h \in Heads : Count(h)
  BY RecheckStruct DEF IInv
<1>2. /\ TypeOK /\ CallOK(t) /\ StateOK(t) /\ SleepOnOK(t)
      /\ task[t] \in [state : States, array : BOOLEAN, sigpending : BOOLEAN, expired : BOOLEAN]
      /\ \A h \in Heads : tokens[h] \in Nat
  BY <1>1, Sizes DEF Struct, TypeOK
<1>3. ASSUME NEW h \in Heads PROVE Count(h)'
  <2>1. \/ tokens'[h] = 0
        \/ /\ Risk(t)' /\ Queue(t)' = h =>
                 Risk(t) /\ Queue(t) = h /\ (Exclusive(t)' <=> Exclusive(t))
           /\ \/ /\ tokens'[h] <= tokens[h]
                 /\ Queue(t) = h /\ WillLook(t) => Queue(t)' = h /\ WillLook(t)'
              \/ tokens'[h] = tokens[h] - 1
    BY <1>2 DEF TypeOK, CallOK, StateOK, SleepOnOK, Risk, WillLook, Queue, Exclusive, Heads,
       Loops, SleepOns, Recheck, At, Goto, SetState, Return, Take, WaitOn
  <2> QED
    BY <1>1, <2>1, CountOfWaiter
<1> QED
  BY <1>1, <1>3 DEF IInv

\* It gets a signal: what is counted stays enough.
LEMMA SignalCount ==
  ASSUME IInv, NEW t \in Waiter, Signal(t)
  PROVE  IInv'
<1>1. Struct /\ Struct' /\ Moves(t) /\ \A h \in Heads : Count(h)
  BY SignalStruct DEF IInv
<1>2. /\ TypeOK /\ CallOK(t) /\ StateOK(t) /\ SleepOnOK(t)
      /\ task[t] \in [state : States, array : BOOLEAN, sigpending : BOOLEAN, expired : BOOLEAN]
      /\ \A h \in Heads : tokens[h] \in Nat
  BY <1>1, Sizes DEF Struct, TypeOK
<1>3. ASSUME NEW h \in Heads PROVE Count(h)'
  <2>1. \/ tokens'[h] = 0
        \/ /\ Risk(t)' /\ Queue(t)' = h =>
                 Risk(t) /\ Queue(t) = h /\ (Exclusive(t)' <=> Exclusive(t))
           /\ \/ /\ tokens'[h] <= tokens[h]
                 /\ Queue(t) = h /\ WillLook(t) => Queue(t)' = h /\ WillLook(t)'
              \/ tokens'[h] = tokens[h] - 1
    BY <1>2 DEF TypeOK, CallOK, StateOK, SleepOnOK, Risk, WillLook, Queue, Exclusive, Heads,
       Loops, SleepOns, Signal, try_to_wake_up
  <2> QED
    BY <1>1, <2>1, CountOfWaiter
<1> QED
  BY <1>1, <1>3 DEF IInv

\* Its time is up: what is counted stays enough.
LEMMA TimeoutCount ==
  ASSUME IInv, NEW t \in Waiter, Timeout(t)
  PROVE  IInv'
<1>1. Struct /\ Struct' /\ Moves(t) /\ \A h \in Heads : Count(h)
  BY TimeoutStruct DEF IInv
<1>2. /\ TypeOK /\ CallOK(t) /\ StateOK(t) /\ SleepOnOK(t)
      /\ task[t] \in [state : States, array : BOOLEAN, sigpending : BOOLEAN, expired : BOOLEAN]
      /\ \A h \in Heads : tokens[h] \in Nat
  BY <1>1, Sizes DEF Struct, TypeOK
<1>3. ASSUME NEW h \in Heads PROVE Count(h)'
  <2>1. \/ tokens'[h] = 0
        \/ /\ Risk(t)' /\ Queue(t)' = h =>
                 Risk(t) /\ Queue(t) = h /\ (Exclusive(t)' <=> Exclusive(t))
           /\ \/ /\ tokens'[h] <= tokens[h]
                 /\ Queue(t) = h /\ WillLook(t) => Queue(t)' = h /\ WillLook(t)'
              \/ tokens'[h] = tokens[h] - 1
    BY <1>2 DEF TypeOK, CallOK, StateOK, SleepOnOK, Risk, WillLook, Queue, Exclusive, Heads,
       Loops, SleepOns, Timeout, try_to_wake_up
  <2> QED
    BY <1>1, <2>1, CountOfWaiter
<1> QED
  BY <1>1, <1>3 DEF IInv
-----------------------------------------------------------------------------
(* The count, when a wake-up steps *)

\* A step of wake-up w leaves the other queue alone.
LEMMA OtherQueue ==
  ASSUME Struct, NEW w \in Waker, NEW h \in Heads, Count(h),
         UNCHANGED << pc, call, list, build >>, tokens'[h] = tokens[h],
         \A v \in Waker \ {w} : waker'[v] = waker[v],
         waker[w].pc = "idle" \/ waker[w].head # h,
         waker'[w].pc = "idle" \/ waker'[w].head # h,
         \A u \in Waiter : Queue(u) = h => task'[u] = task[u]
  PROVE  Count(h)'
<1>1. /\ \A u \in Waiter : Queue(u)' = Queue(u) /\ (Exclusive(u)' <=> Exclusive(u))
      /\ \A u \in Waiter : Queue(u) = h =>
           (Risk(u)' <=> Risk(u)) /\ (WillLook(u)' <=> WillLook(u))
  BY DEF Queue, Exclusive, Risk, WillLook
<1>2. Sure(h)' = Sure(h)
  <2>1. \A u \in Waiter : u \in Sure(h)' <=> u \in Sure(h)
    BY <1>1 DEF Sure
  <2>2. Sure(h)' \subseteq Waiter /\ Sure(h) \subseteq Waiter
    BY DEF Sure
  <2> QED
    BY <2>1, <2>2
<1>3. /\ Owed(h, Under)' = Owed(h, Under)
      /\ Owed(h, {"lock"})' = Owed(h, {"lock"})
  <2>1. \A v \in Waker : \/ waker'[v] = waker[v]
                         \/ /\ waker[v].pc = "idle" \/ waker[v].head # h
                            /\ waker'[v].pc = "idle" \/ waker'[v].head # h
    OBVIOUS
  <2> QED
    BY <2>1 DEF Owed, Under
<1>4. /\ AllPending(h)' <=> AllPending(h)
      /\ \A v \in Waker : Scans(h, v)' <=> Scans(h, v)
      /\ \A v \in Waker : Scans(h, v) => waker'[v] = waker[v]
      /\ \A v \in Waker : waker'[v].pc = "lock" /\ waker'[v].head = h <=>
                          waker[v].pc = "lock" /\ waker[v].head = h
  BY DEF AllPending, Scans
<1>5. \A j \in DOMAIN list[h] : list[h][j] \in Waiter /\ Queue(list[h][j]) = h
  BY OfQueue
<1>6. Enough(h)'
  BY <1>1, <1>2, <1>3, <1>4 DEF Count, Enough
<1>7. Passed(h)'
  <2>1. \A j \in DOMAIN list[h] :
          /\ Risk(list[h][j])' <=> Risk(list[h][j])
          /\ Exclusive(list[h][j])' <=> Exclusive(list[h][j])
    BY <1>5 DEF Risk, Exclusive
  <2> QED
    BY <1>2, <1>3, <1>4, <2>1 DEF Count, Passed
<1>8. SharedAwake(h)'
  BY <1>1, <1>4 DEF Count, SharedAwake
<1> QED
  BY <1>6, <1>7, <1>8 DEF Count

\* The numbers, when the tasks are left alone.
LEMMA SureKept ==
  ASSUME UNCHANGED << pc, call, task >>
  PROVE  /\ \A h \in Heads : Sure(h)' = Sure(h)
         /\ \A u \in Waiter : /\ Queue(u)' = Queue(u) /\ (Exclusive(u)' <=> Exclusive(u))
                              /\ Risk(u)' <=> Risk(u)
BY DEF Sure, WillLook, Risk, Queue, Exclusive

\* What a wake-up of nr waiters owes.
LEMMA OwedOf ==
  ASSUME NEW w \in Waker, NEW n \in Nat, NEW nr \in Nat, nr <= n,
         NEW S, S = {x \in Waker \X (1 .. n) : x[1] = w /\ x[2] <= nr}
  PROVE  IsFiniteSet(S) /\ Cardinality(S) = nr
<1>1. S = {w} \X (1 .. nr)
  OBVIOUS
<1>2. IsFiniteSet({w}) /\ Cardinality({w}) = 1
  BY FS_Singleton
<1>3. IsFiniteSet(1 .. nr) /\ Cardinality(1 .. nr) = nr
  BY FS_Interval
<1>4. /\ IsFiniteSet({w} \X (1 .. nr))
      /\ Cardinality({w} \X (1 .. nr)) = Cardinality({w}) * Cardinality(1 .. nr)
  BY <1>2, <1>3, FS_Product
<1>5. \A a, b : a = 1 /\ b = nr => a * b = nr
  OBVIOUS
<1>6. Cardinality({w}) * Cardinality(1 .. nr) = nr
  BY <1>2, <1>3, <1>5
<1>7. IsFiniteSet(S)
  BY <1>1, <1>4
<1>8. Cardinality(S) = nr
  BY <1>1, <1>4, <1>6, Zenon
<1> QED
  BY <1>7, <1>8

\* A wake-up that begins adds what it owes.
LEMMA OwedBegun ==
  ASSUME TypeOK, NEW h \in Heads, NEW w \in Waker, NEW places, build' = build,
         waker[w].pc \notin places, waker'[w].pc \in places, waker'[w].head = h,
         waker'[w].nr \in Nat, waker'[w].nr <= build.tokens,
         \A v \in Waker \ {w} : waker'[v] = waker[v]
  PROVE  Cardinality(Owed(h, places)') = Cardinality(Owed(h, places)) + waker'[w].nr
<1>1. build.tokens \in Nat
  BY BuildAssumption DEF TypeOK
<1>2. PICK n \in Nat : n = build.tokens
  BY <1>1
<1>3. PICK nr \in Nat : nr = waker'[w].nr /\ nr <= n
  BY <1>2
<1>4. PICK S : S = {x \in Waker \X (1 .. n) : x[1] = w /\ x[2] <= nr}
  OBVIOUS
<1>5. IsFiniteSet(S) /\ Cardinality(S) = nr
  BY <1>3, <1>4, OwedOf
<1>6. PICK T : T = Owed(h, places)
  OBVIOUS
<1>7. IsFiniteSet(T) /\ Cardinality(T) \in Nat
  BY <1>6, Sizes
<1>8. Owed(h, places)' = T \cup S
  BY <1>2, <1>3, <1>4, <1>6 DEF Owed
<1>9. S \cap T = {}
  BY <1>4, <1>6 DEF Owed
<1>10. /\ IsFiniteSet(T \cup S) /\ IsFiniteSet(T \cap S)
       /\ Cardinality(T \cup S) = Cardinality(T) + Cardinality(S) - Cardinality(T \cap S)
  BY <1>5, <1>7, FS_Union, FS_Subset
<1>11. Cardinality(T \cap S) = 0
  BY <1>9, FS_EmptySet
<1> QED
  BY <1>3, <1>5, <1>6, <1>7, <1>8, <1>10, <1>11
\* A wake-up that has woken one waiter, its last or not, owes one less.
LEMMA OwedPaid ==
  ASSUME TypeOK, NEW h \in Heads, NEW w \in Waker, NEW places, build' = build,
         waker[w].pc \in places, waker[w].head = h, waker[w].nr \in 1 .. build.tokens,
         \A v \in Waker \ {w} : waker'[v] = waker[v],
         \/ waker'[w].pc \in places /\ waker'[w].head = h /\ waker'[w].nr = waker[w].nr - 1
         \/ waker'[w].pc \notin places /\ waker[w].nr = 1
  PROVE  Cardinality(Owed(h, places)') = Cardinality(Owed(h, places)) - 1
<1>1. build.tokens \in Nat
  BY BuildAssumption DEF TypeOK
<1>2. PICK n \in Nat : n = build.tokens
  BY <1>1
<1>3. PICK nr \in 1 .. n : nr = waker[w].nr
  BY <1>2
<1>4. PICK T : T = Owed(h, places)
  OBVIOUS
<1>5. IsFiniteSet(T) /\ Cardinality(T) \in Nat
  BY <1>4, Sizes
<1>6. << w, nr >> \in T
  BY <1>2, <1>3, <1>4 DEF Owed
<1>7. Owed(h, places)' = T \ {<< w, nr >>}
  BY <1>2, <1>3, <1>4 DEF Owed
<1>8. PICK x : x = << w, nr >>
  OBVIOUS
<1>9. IsFiniteSet(T \ {x}) /\ Cardinality(T \ {x}) = Cardinality(T) - 1
  BY <1>5, <1>6, <1>8, FS_RemoveElement
<1> QED
  BY <1>4, <1>7, <1>8, <1>9, Zenon

\* A wake-up begins: it owes what tokens it made, or goes to all.
LEMMA wake_upCount ==
  ASSUME IInv, NEW w \in Waker, wake_up(w)
  PROVE  IInv'
<1>1. Struct /\ Struct' /\ TypeOK /\ \A h \in Heads : Count(h)
  BY wake_upStruct DEF IInv, Struct
<1>2. /\ waker[w].pc = "idle" /\ UNCHANGED << list, lock, task, pc, call, build >>
      /\ waker[w] \in Wakers /\ waker \in [Waker -> Wakers] /\ tokens["q"] \in Nat
  BY <1>1, Sizes DEF wake_up, Waking, TypeOK, Wakers, Heads
<1>3. PICK nr \in build.nrs, mode \in build.modes :
        /\ tokens["q"] + (IF nr = 0 THEN 1 ELSE nr) <= build.tokens
        /\ tokens' = [tokens EXCEPT !["q"] = @ + (IF nr = 0 THEN 1 ELSE nr)]
        /\ waker' = [waker EXCEPT ![w] = [pc |-> "lock", head |-> "q", i |-> 1, nr |-> nr,
                                         mode |-> mode]]
  BY DEF wake_up
<1>4. /\ waker'[w].pc = "lock" /\ waker'[w].head = "q" /\ waker'[w].nr = nr
      /\ \A v \in Waker \ {w} : waker'[v] = waker[v]
  BY <1>2, <1>3
<1>5. Count("x.wait")'
  <2>1. "x.wait" \in Heads /\ tokens'["x.wait"] = tokens["x.wait"]
    BY <1>1, <1>3 DEF TypeOK, Heads
  <2> QED
    BY <1>1, <1>2, <1>4, <2>1, OtherQueue
<1>6. nr \in Nat /\ nr <= build.tokens /\ "q" \in Heads
      /\ tokens'["q"] = tokens["q"] + (IF nr = 0 THEN 1 ELSE nr)
  <2>1. build.nrs \subseteq Nat /\ build.tokens \in Nat
    BY <1>1, BuildAssumption DEF TypeOK
  <2>2. nr \in Nat
    BY <2>1
  <2> QED
    BY <1>1, <1>2, <1>3, <2>1, <2>2 DEF TypeOK, Heads
<1>7. /\ Sure("q")' = Sure("q")
      /\ \A u \in Waiter : /\ Queue(u)' = Queue(u) /\ (Exclusive(u)' <=> Exclusive(u))
                           /\ Risk(u)' <=> Risk(u)
  BY <1>2, <1>6, SureKept
<1>8. /\ Cardinality(Sure("q")) \in Nat /\ Cardinality(Owed("q", Under)) \in Nat
      /\ Cardinality(Owed("q", {"lock"})) \in Nat
  BY <1>1, <1>6, Sizes
<1>9. SharedAwake("q")'
  BY <1>4 DEF SharedAwake
<1>10. CASE nr = 0
  <2>1. AllPending("q")'
    BY <1>4, <1>10 DEF AllPending
  <2>2. Enough("q")' /\ Passed("q")'
    BY <2>1 DEF Enough, Passed
  <2> QED
    BY <1>1, <1>5, <1>9, <2>2 DEF IInv, Count, Heads
<1>11. CASE nr # 0
  <2>1. /\ AllPending("q")' <=> AllPending("q")
        /\ \A v \in Waker : Scans("q", v)' <=> Scans("q", v)
        /\ \A v \in Waker : Scans("q", v) => waker'[v] = waker[v]
    BY <1>2, <1>4, <1>11 DEF AllPending, Scans
  <2>2. /\ Cardinality(Owed("q", Under)') = Cardinality(Owed("q", Under)) + nr
        /\ Cardinality(Owed("q", {"lock"})') = Cardinality(Owed("q", {"lock"})) + nr
    <3>1. "lock" \in Under /\ "idle" \notin Under
      BY DEF Under
    <3>2. /\ waker'[w].nr \in Nat /\ waker'[w].nr <= build.tokens /\ build' = build
      BY <1>2, <1>4, <1>6
    <3>3. Cardinality(Owed("q", {"lock"})') = Cardinality(Owed("q", {"lock"})) + waker'[w].nr
      BY <1>1, <1>2, <1>4, <1>6, <3>2, OwedBegun
    <3>4. \A P : "lock" \in P /\ "idle" \notin P =>
            Cardinality(Owed("q", P)') = Cardinality(Owed("q", P)) + waker'[w].nr
      BY <1>1, <1>2, <1>4, <1>6, <3>2, OwedBegun
    <3>5. Owed("q", Under)' = {x \in Waker \X (1 .. build'.tokens) :
             waker'[x[1]].pc \in Under /\ waker'[x[1]].head = "q" /\ x[2] <= waker'[x[1]].nr}
      BY DEF Owed, Under
    <3> QED
      BY <1>4, <3>1, <3>3, <3>4 DEF Under
  <2>3. tokens'["q"] = tokens["q"] + nr
    BY <1>6, <1>11
  <2>4. Enough("q")'
    <3>1. CASE /\ ~AllPending("q") /\ (\A v \in Waker : Scans("q", v) => waker[v].nr > 0)
               /\ \E t \in Waiter : Queue(t) = "q" /\ Exclusive(t) /\ Risk(t)
      <4>1. tokens["q"] <= Cardinality(Sure("q")) + Cardinality(Owed("q", Under))
        BY <1>1, <1>6, <3>1 DEF Count, Enough
      <4>2. tokens'["q"] <= Cardinality(Sure("q")') + Cardinality(Owed("q", Under)')
        BY <1>2, <1>6, <1>7, <1>8, <2>2, <2>3, <4>1
      <4> QED
        BY <4>2 DEF Enough
    <3>2. CASE ~(/\ ~AllPending("q") /\ (\A v \in Waker : Scans("q", v) => waker[v].nr > 0)
                 /\ \E t \in Waiter : Queue(t) = "q" /\ Exclusive(t) /\ Risk(t))
      BY <1>7, <2>1, <3>2 DEF Enough
    <3> QED
      BY <3>1, <3>2
  <2>5. Passed("q")'
    <3>1. ASSUME NEW v \in Waker, ~AllPending("q"), Scans("q", v),
                 NEW j \in DOMAIN list["q"], j < waker[v].i,
                 Exclusive(list["q"][j]), Risk(list["q"][j])
          PROVE  tokens'["q"] <= Cardinality(Sure("q")') + Cardinality(Owed("q", {"lock"})')
      <4>1. tokens["q"] <= Cardinality(Sure("q")) + Cardinality(Owed("q", {"lock"}))
        BY <1>1, <1>6, <3>1 DEF Count, Passed
      <4> QED
        BY <1>2, <1>6, <1>7, <1>8, <2>2, <2>3, <4>1
    <3> QED
      BY <1>2, <2>1, <3>1 DEF Passed, Exclusive, Risk
  <2> QED
    BY <1>1, <1>5, <1>9, <2>4, <2>5 DEF IInv, Count, Heads
<1> QED
  BY <1>10, <1>11
\* It takes the lock, and begins with the head of the list.
LEMMA LockCount ==
  ASSUME IInv, NEW w \in Waker, Lock(w)
  PROVE  IInv'
<1>1. Struct /\ Struct' /\ TypeOK /\ \A h \in Heads : Count(h)
  BY LockStruct DEF IInv, Struct
<1>2. /\ waker[w].pc = "lock" /\ UNCHANGED << list, tokens, task, pc, call, build >>
      /\ waker[w] \in Wakers /\ waker \in [Waker -> Wakers] /\ lock["q"] = NULL
      /\ waker[w].head = "q" /\ waker[w].nr >= 0 /\ waker[w].i = 1 /\ "q" \in Heads
  BY <1>1 DEF Lock, Waking, TypeOK, Wakers, Struct, WakerOK, Heads
<1>3. /\ waker'[w].pc = "scan" /\ waker'[w].head = "q" /\ waker'[w].nr = waker[w].nr
      /\ waker'[w].i = 1 /\ \A v \in Waker \ {w} : waker'[v] = waker[v]
  BY <1>2 DEF Lock, Wakers
<1>4. Count("x.wait")'
  <2>1. "x.wait" \in Heads
    BY DEF Heads
  <2> QED
    BY <1>1, <1>2, <1>3, <2>1, OtherQueue
<1>5. /\ Sure("q")' = Sure("q")
      /\ \A u \in Waiter : /\ Queue(u)' = Queue(u) /\ (Exclusive(u)' <=> Exclusive(u))
                           /\ Risk(u)' <=> Risk(u)
  BY <1>2, SureKept
<1>6. \A v \in Waker : ~Scans("q", v)
  BY <1>1, <1>2, OneScanner
<1>7. \A v \in Waker : Scans("q", v)' <=> v = w
  BY <1>3, <1>6 DEF Scans
<1>8. Owed("q", Under)' = Owed("q", Under)
  BY <1>2, <1>3 DEF Owed, Under
<1>9. Enough("q")'
  <2>1. ASSUME ~AllPending("q")', waker'[w].nr > 0 PROVE ~AllPending("q")
    BY <1>2, <1>3, <2>1 DEF AllPending
  <2>2. ASSUME ~AllPending("q")', waker'[w].nr > 0,
               \E t \in Waiter : Queue(t) = "q" /\ Exclusive(t) /\ Risk(t)
        PROVE  tokens["q"] <= Cardinality(Sure("q")) + Cardinality(Owed("q", Under))
    BY <1>1, <1>2, <1>6, <2>1, <2>2 DEF Count, Enough
  <2>3. (\A v \in Waker : Scans("q", v)' => waker'[v].nr > 0) => waker'[w].nr > 0
    BY <1>7
  <2> QED
    BY <1>2, <1>5, <1>8, <2>2, <2>3 DEF Enough
<1>10. Passed("q")'
  <2>1. \A j \in DOMAIN list["q"] : ~(j < 1)
    BY <1>1, <1>2 DEF TypeOK
  <2> QED
    BY <1>2, <1>3, <1>7, <2>1 DEF Passed
<1>11. SharedAwake("q")'
  <2>1. ASSUME NEW t \in Waiter, tokens["q"] > 0, Queue(t) = "q", ~Exclusive(t), Risk(t)
        PROVE  \E v \in Waker :
                 \/ waker'[v].pc = "lock" /\ waker'[v].head = "q"
                 \/ /\ Scans("q", v)'
                    /\ \E j \in DOMAIN list["q"] : waker'[v].i <= j /\ list["q"][j] = t
    <3>1. PICK j \in DOMAIN list["q"] : list["q"][j] = t
      BY <1>1, <1>2, <2>1, RiskListed
    <3>2. 1 <= j
      BY <1>1, <1>2 DEF TypeOK
    <3> QED
      BY <1>3, <1>7, <3>1, <3>2
  <2> QED
    BY <1>2, <1>5, <2>1 DEF SharedAwake
<1> QED
  BY <1>1, <1>4, <1>9, <1>10, <1>11 DEF IInv, Count, Heads

\* A completion owes its token from the start.
LEMMA completeCount ==
  ASSUME IInv, NEW w \in Waker, complete(w)
  PROVE  IInv'
<1>1. Struct /\ Struct' /\ TypeOK /\ \A h \in Heads : Count(h)
  BY completeStruct DEF IInv, Struct
<1>2. /\ waker[w].pc = "idle" /\ UNCHANGED << list, task, pc, call, build >>
      /\ waker[w] \in Wakers /\ waker \in [Waker -> Wakers] /\ lock["x.wait"] = NULL
      /\ tokens["x.wait"] < build.tokens /\ "x.wait" \in Heads /\ "q" \in Heads
      /\ tokens' = [tokens EXCEPT !["x.wait"] = @ + 1]
      /\ waker' = [waker EXCEPT ![w] = [pc |-> "scan", head |-> "x.wait", i |-> 1, nr |-> 1,
                                        mode |-> States \ {"RUNNING"}]]
  BY <1>1 DEF complete, Waking, TypeOK, Wakers, Heads
<1>3. /\ waker'[w].pc = "scan" /\ waker'[w].head = "x.wait" /\ waker'[w].nr = 1
      /\ waker'[w].i = 1 /\ \A v \in Waker \ {w} : waker'[v] = waker[v]
  BY <1>2
<1>4. /\ tokens'["q"] = tokens["q"] /\ tokens'["x.wait"] = tokens["x.wait"] + 1
      /\ tokens["x.wait"] \in Nat /\ 1 <= build.tokens
  BY <1>1, <1>2, Sizes, BuildAssumption DEF TypeOK
<1>5. Count("q")'
  BY <1>1, <1>2, <1>3, <1>4, OtherQueue
<1>6. /\ Sure("x.wait")' = Sure("x.wait")
      /\ \A u \in Waiter : /\ Queue(u)' = Queue(u) /\ (Exclusive(u)' <=> Exclusive(u))
                           /\ Risk(u)' <=> Risk(u)
  BY <1>2, SureKept
<1>7. \A v \in Waker : Scans("x.wait", v)' <=> v = w
  BY <1>1, <1>2, <1>3, OneScanner DEF Scans
<1>8. Cardinality(Owed("x.wait", Under)') = Cardinality(Owed("x.wait", Under)) + 1
  <2>1. /\ waker'[w].nr \in Nat /\ waker'[w].nr <= build.tokens /\ build' = build
        /\ "scan" \in Under /\ "idle" \notin Under
    BY <1>2, <1>3, <1>4 DEF Under
  <2>2. \A P : "scan" \in P /\ "idle" \notin P =>
          Cardinality(Owed("x.wait", P)') = Cardinality(Owed("x.wait", P)) + waker'[w].nr
    BY <1>1, <1>2, <1>3, <2>1, OwedBegun
  <2> QED
    BY <1>3, <2>1, <2>2 DEF Under
<1>9. Enough("x.wait")'
  <2>1. AllPending("x.wait")' <=> AllPending("x.wait")
    BY <1>2, <1>3 DEF AllPending
  <2>2. \A v \in Waker : ~Scans("x.wait", v)
    BY <1>1, <1>2, OneScanner
  <2>3. /\ Cardinality(Sure("x.wait")) \in Nat /\ Cardinality(Owed("x.wait", Under)) \in Nat
    BY <1>1, <1>2, Sizes
  <2>4. ASSUME ~AllPending("x.wait"),
               \E t \in Waiter : Queue(t) = "x.wait" /\ Exclusive(t) /\ Risk(t)
        PROVE  tokens'["x.wait"] <=
                 Cardinality(Sure("x.wait")') + Cardinality(Owed("x.wait", Under)')
    <3>1. tokens["x.wait"] <= Cardinality(Sure("x.wait")) + Cardinality(Owed("x.wait", Under))
      BY <1>1, <1>2, <2>2, <2>4 DEF Count, Enough
    <3> QED
      BY <1>4, <1>6, <1>8, <2>3, <3>1
  <2> QED
    BY <1>6, <2>1, <2>4 DEF Enough
<1>10. Passed("x.wait")'
  <2>1. \A j \in DOMAIN list["x.wait"] : ~(j < 1)
    BY <1>1, <1>2 DEF TypeOK
  <2> QED
    BY <1>2, <1>3, <1>7, <2>1 DEF Passed
<1>11. SharedAwake("x.wait")'
  BY DEF SharedAwake, Queue, Exclusive
<1> QED
  BY <1>1, <1>5, <1>9, <1>10, <1>11 DEF IInv, Count, Heads

\* It comes to the end of the list: none that may sleep are left behind.
LEMMA EndOfListCount ==
  ASSUME IInv, NEW w \in Waker, EndOfList(w)
  PROVE  IInv'
<1>1. Struct /\ Struct' /\ TypeOK /\ \A h \in Heads : Count(h)
  BY EndOfListStruct DEF IInv, Struct
<1>2. PICK h \in Heads : h = waker[w].head
  BY <1>1 DEF TypeOK
<1>3. /\ waker[w].pc = "scan" /\ UNCHANGED << list, tokens, task, pc, call, build >>
      /\ waker[w] \in Wakers /\ waker \in [Waker -> Wakers] /\ waker[w].i > Len(list[h])
      /\ waker' = [waker EXCEPT ![w] = Idle]
  BY <1>1, <1>2 DEF EndOfList, Unlock, Waking, TypeOK, Wakers
<1>4. waker'[w] = Idle /\ waker'[w].pc = "idle" /\ \A v \in Waker \ {w} : waker'[v] = waker[v]
  BY <1>3 DEF Idle
<1>5. \A g \in Heads : g # h => Count(g)'
  BY <1>1, <1>2, <1>3, <1>4, OtherQueue
<1>6. /\ Sure(h)' = Sure(h)
      /\ \A u \in Waiter : /\ Queue(u)' = Queue(u) /\ (Exclusive(u)' <=> Exclusive(u))
                           /\ Risk(u)' <=> Risk(u)
  BY <1>3, SureKept
<1>7. Scans(h, w) /\ \A v \in Waker : Scans(h, v) => v = w
  <2>1. Scans(h, w)
    BY <1>2, <1>3 DEF Scans
  <2> QED
    BY <1>1, <2>1, OneScanner
<1>8. \A v \in Waker : ~Scans(h, v)'
  BY <1>4, <1>7 DEF Scans
<1>9. Owed(h, Under)' = Owed(h, {"lock"}) /\ (AllPending(h)' <=> AllPending(h))
  <2>1. \A v \in Waker : waker'[v].pc \in Under /\ waker'[v].head = h
                           <=> waker[v].pc = "lock" /\ waker[v].head = h
    BY <1>3, <1>4, <1>7 DEF Under, Scans
  <2>2. \A v \in Waker : waker[v].pc = "lock" => waker'[v] = waker[v]
    BY <1>3, <1>4
  <2> QED
    BY <1>3, <1>4, <2>1, <2>2 DEF Owed, AllPending
<1>10. list[h] \in Seq(Waiter) /\ waker[w].i \in Nat /\ Len(list[h]) \in Nat
       /\ DOMAIN list[h] = 1 .. Len(list[h])
  BY <1>1, <1>3 DEF TypeOK, Wakers
<1>11. Enough(h)'
  <2>1. ASSUME ~AllPending(h), NEW t \in Waiter, Queue(t) = h, Exclusive(t), Risk(t)
        PROVE  tokens[h] <= Cardinality(Sure(h)) + Cardinality(Owed(h, {"lock"}))
    <3>1. PICK j \in DOMAIN list[h] : list[h][j] = t
      BY <1>1, <2>1, RiskListed
    <3>2. j < waker[w].i
      BY <1>3, <1>10
    <3> QED
      BY <1>1, <1>7, <2>1, <3>1, <3>2 DEF Count, Passed
  <2> QED
    BY <1>3, <1>6, <1>9, <2>1 DEF Enough
<1>12. Passed(h)'
  BY <1>8 DEF Passed
<1>13. SharedAwake(h)'
  <2>1. ASSUME NEW t \in Waiter, tokens[h] > 0, Queue(t) = h, ~Exclusive(t), Risk(t)
        PROVE  \E v \in Waker : waker'[v].pc = "lock" /\ waker'[v].head = h
    <3>1. PICK v \in Waker :
            \/ waker[v].pc = "lock" /\ waker[v].head = h
            \/ Scans(h, v) /\ \E j \in DOMAIN list[h] : waker[v].i <= j /\ list[h][j] = t
      BY <1>1, <2>1 DEF Count, SharedAwake
    <3>2. CASE waker[v].pc = "lock" /\ waker[v].head = h
      BY <1>3, <1>4, <3>2
    <3>3. CASE Scans(h, v) /\ \E j \in DOMAIN list[h] : waker[v].i <= j /\ list[h][j] = t
      BY <1>3, <1>7, <1>10, <3>3
    <3> QED
      BY <3>1, <3>2, <3>3
  <2> QED
    BY <1>3, <1>6, <2>1 DEF SharedAwake
<1> QED
  BY <1>1, <1>5, <1>11, <1>12, <1>13 DEF IInv, Count
\* It reads the state of a waiter, and passes it only if it does not sleep.
LEMMA ReadStateCount ==
  ASSUME IInv, NEW w \in Waker, ReadState(w)
  PROVE  IInv'
<1>1. Struct /\ Struct' /\ TypeOK /\ (\A h \in Heads : Count(h)) /\ WakerOK(w)
  BY ReadStateStruct DEF IInv, Struct
<1>2. PICK h \in Heads : h = waker[w].head
  BY <1>1 DEF TypeOK
<1>3. PICK p : p = list[h][waker[w].i]
  OBVIOUS
<1>4. /\ waker[w].pc = "scan" /\ UNCHANGED << list, lock, tokens, task, pc, call, build >>
      /\ waker[w] \in Wakers /\ waker \in [Waker -> Wakers] /\ waker[w].i <= Len(list[h])
      /\ waker' = IF task[p].state \in waker[w].mode
                  THEN [waker EXCEPT ![w].pc = "try"] ELSE [waker EXCEPT ![w].i = @ + 1]
  BY <1>1, <1>2, <1>3 DEF ReadState, Waking, TypeOK, Wakers
<1>5. /\ waker'[w].pc \in {"scan", "try"} /\ waker'[w].head = h /\ waker'[w].nr = waker[w].nr
      /\ \A v \in Waker \ {w} : waker'[v] = waker[v]
      /\ \/ waker'[w].i = waker[w].i
         \/ waker'[w].i = waker[w].i + 1 /\ task[p].state \notin waker[w].mode
  <2>1. CASE task[p].state \in waker[w].mode
    <3>1. waker' = [waker EXCEPT ![w].pc = "try"]
      BY <1>4, <2>1
    <3> QED
      BY <1>2, <1>4, <3>1 DEF Wakers
  <2>2. CASE task[p].state \notin waker[w].mode
    <3>1. waker' = [waker EXCEPT ![w].i = @ + 1]
      BY <1>4, <2>2
    <3> QED
      BY <1>2, <1>4, <2>2, <3>1 DEF Wakers
  <2> QED
    BY <2>1, <2>2
<1>6. \A g \in Heads : g # h => Count(g)'
  BY <1>1, <1>2, <1>4, <1>5, OtherQueue
<1>7. /\ Sure(h)' = Sure(h)
      /\ \A u \in Waiter : /\ Queue(u)' = Queue(u) /\ (Exclusive(u)' <=> Exclusive(u))
                           /\ Risk(u)' <=> Risk(u)
  BY <1>4, SureKept
<1>8. Scans(h, w) /\ \A v \in Waker : Scans(h, v) => v = w
  <2>1. Scans(h, w)
    BY <1>2, <1>4 DEF Scans
  <2> QED
    BY <1>1, <2>1, OneScanner
<1>9. /\ \A v \in Waker : Scans(h, v)' <=> Scans(h, v)
      /\ AllPending(h)' <=> AllPending(h)
      /\ Owed(h, Under)' = Owed(h, Under) /\ Owed(h, {"lock"})' = Owed(h, {"lock"})
  BY <1>2, <1>4, <1>5 DEF Scans, AllPending, Owed, Under
<1>10. /\ list[h] \in Seq(Waiter) /\ waker[w].i \in Nat /\ waker[w].i \in DOMAIN list[h]
       /\ DOMAIN list[h] = 1 .. Len(list[h])
  BY <1>1, <1>4 DEF TypeOK, Wakers, WakerOK
<1>11. p \in Waiter /\ Queue(p) = h /\ OnQueue(p)
  BY <1>1, <1>3, <1>10, OfQueue
<1>12. waker'[w].i = waker[w].i \/ (waker'[w].i = waker[w].i + 1 /\ ~Risk(p))
  <2>1. ASSUME Risk(p) PROVE task[p].state \in waker[w].mode
    <3>1. CallOK(p) /\ StateOK(p) /\ pc[p] # "user"
      BY <1>1, <1>11, <2>1 DEF Struct, Risk
    <3>2. task[p].state = Mode(p) /\ call[p] \in build.calls
      BY <2>1, <3>1 DEF Risk, StateOK, CallOK
    <3>3. CASE h = "q"
      <4>1. waker[w].mode \in build.modes /\ build \in Builds
        BY <1>1, <1>2, <1>4, <3>3 DEF WakerOK, TypeOK
      <4>2. call[p] \in build.calls \ {"wait_for_completion"}
        BY <1>11, <3>2, <3>3 DEF Queue
      <4> QED
        BY <3>2, <4>1, <4>2, UsageAssumption DEF Mode
    <3>4. CASE h # "q"
      <4>1. waker[w].mode = States \ {"RUNNING"}
        BY <1>1, <1>2, <1>4, <3>4 DEF WakerOK
      <4> QED
        BY <3>2, <4>1 DEF Mode, ModeOf, States
    <3> QED
      BY <3>3, <3>4
  <2> QED
    BY <1>5, <2>1
<1>13. Enough(h)'
  BY <1>1, <1>4, <1>5, <1>7, <1>8, <1>9 DEF Count, Enough
<1>14. Passed(h)'
  <2>1. ASSUME ~AllPending(h), NEW j \in DOMAIN list[h], j < waker'[w].i,
               Exclusive(list[h][j]), Risk(list[h][j])
        PROVE  tokens[h] <= Cardinality(Sure(h)) + Cardinality(Owed(h, {"lock"}))
    <3>1. j < waker[w].i
      BY <1>3, <1>10, <1>12, <2>1
    <3> QED
      BY <1>1, <1>8, <2>1, <3>1 DEF Count, Passed
  <2> QED
    BY <1>4, <1>7, <1>8, <1>9, <2>1 DEF Passed, Exclusive, Risk
<1>15. SharedAwake(h)'
  <2>1. ASSUME NEW t \in Waiter, tokens[h] > 0, Queue(t) = h, ~Exclusive(t), Risk(t)
        PROVE  \E v \in Waker :
                 \/ waker'[v].pc = "lock" /\ waker'[v].head = h
                 \/ /\ Scans(h, v)
                    /\ \E j \in DOMAIN list[h] : waker'[v].i <= j /\ list[h][j] = t
    <3>1. PICK v \in Waker :
            \/ waker[v].pc = "lock" /\ waker[v].head = h
            \/ Scans(h, v) /\ \E j \in DOMAIN list[h] : waker[v].i <= j /\ list[h][j] = t
      BY <1>1, <2>1 DEF Count, SharedAwake
    <3>2. CASE waker[v].pc = "lock" /\ waker[v].head = h
      BY <1>4, <1>5, <3>2
    <3>3. CASE Scans(h, v) /\ \E j \in DOMAIN list[h] : waker[v].i <= j /\ list[h][j] = t
      <4>1. PICK j \in DOMAIN list[h] : waker[w].i <= j /\ list[h][j] = t
        BY <1>8, <3>3
      <4>2. waker'[w].i <= j
        BY <1>3, <1>10, <1>12, <2>1, <4>1
      <4> QED
        BY <1>8, <4>1, <4>2
    <3> QED
      BY <3>1, <3>2, <3>3
  <2> QED
    BY <1>4, <1>7, <1>9, <2>1 DEF SharedAwake
<1> QED
  BY <1>1, <1>6, <1>13, <1>14, <1>15 DEF IInv, Count

\* It wakes a waiter: one that slept and counts is one more that will look, and one
\* less that is owed.
LEMMA TryToWakeUpCount ==
  ASSUME IInv, NEW w \in Waker, TryToWakeUp(w)
  PROVE  IInv'
<1>1. Struct /\ Struct' /\ TypeOK /\ (\A h \in Heads : Count(h)) /\ WakerOK(w)
  BY TryToWakeUpStruct DEF IInv, Struct
<1>2. PICK h \in Heads : h = waker[w].head
  BY <1>1 DEF TypeOK
<1>3. PICK p : p = list[h][waker[w].i]
  OBVIOUS
<1>4. PICK nr : nr = IF Counts(p) THEN waker[w].nr - 1 ELSE waker[w].nr
  OBVIOUS
<1>5. /\ waker[w].pc = "try" /\ UNCHANGED << list, tokens, pc, call, build >>
      /\ waker[w] \in Wakers /\ waker \in [Waker -> Wakers]
      /\ task' = [task EXCEPT ![p].array = TRUE, ![p].state = "RUNNING"]
      /\ IF Counts(p) /\ nr = 0 THEN waker' = [waker EXCEPT ![w] = Idle]
         ELSE waker' = [waker EXCEPT ![w].pc = "scan", ![w].i = @ + 1, ![w].nr = nr]
  BY <1>1, <1>2, <1>3, <1>4 DEF TryToWakeUp, try_to_wake_up, Unlock, Waking, TypeOK, Wakers
<1>6. Scans(h, w) /\ \A v \in Waker : Scans(h, v) => v = w
  <2>1. Scans(h, w)
    BY <1>2, <1>5 DEF Scans
  <2> QED
    BY <1>1, <2>1, OneScanner
<1>7. /\ list[h] \in Seq(Waiter) /\ waker[w].i \in Nat /\ waker[w].i \in DOMAIN list[h]
      /\ waker[w].nr \in Int /\ waker[w].nr <= build.tokens
      /\ DOMAIN list[h] = 1 .. Len(list[h]) /\ nr \in Int /\ build.tokens \in Nat
  BY <1>1, <1>2, <1>4, <1>5, BuildAssumption DEF TypeOK, Wakers, WakerOK
<1>8. p \in Waiter /\ Queue(p) = h /\ OnQueue(p)
  BY <1>1, <1>3, <1>7, OfQueue
<1>9. /\ task'[p].state = "RUNNING"
      /\ \A u \in Waiter \ {p} : task'[u] = task[u]
  BY <1>1, <1>5, <1>8 DEF TypeOK
<1>10. /\ \A v \in Waker \ {w} : waker'[v] = waker[v]
       /\ \/ Counts(p) /\ nr = 0 /\ waker'[w].pc = "idle"
          \/ /\ ~(Counts(p) /\ nr = 0) /\ waker'[w].pc = "scan" /\ waker'[w].head = h
             /\ waker'[w].nr = nr /\ waker'[w].i = waker[w].i + 1
  <2>1. CASE Counts(p) /\ nr = 0
    <3>1. waker' = [waker EXCEPT ![w] = Idle]
      BY <1>5, <2>1
    <3> QED
      BY <1>5, <2>1, <3>1 DEF Idle
  <2>2. CASE ~(Counts(p) /\ nr = 0)
    <3>1. waker' = [waker EXCEPT ![w].pc = "scan", ![w].i = waker[w].i + 1, ![w].nr = nr]
      BY <1>5, <2>2
    <3> QED
      BY <1>2, <1>5, <2>2, <3>1 DEF Wakers
  <2> QED
    BY <2>1, <2>2
<1>11. \A g \in Heads : g # h => Count(g)'
  <2>1. waker'[w].pc = "idle" \/ waker'[w].head = h
    BY <1>10
  <2>2. \A g \in Heads : g # h => \A u \in Waiter : Queue(u) = g => task'[u] = task[u]
    BY <1>8, <1>9
  <2> QED
    BY <1>1, <1>2, <1>5, <1>10, <2>1, <2>2, OtherQueue
<1>12. /\ \A u \in Waiter : Queue(u)' = Queue(u) /\ (Exclusive(u)' <=> Exclusive(u))
       /\ \A u \in Waiter \ {p} : (Risk(u)' <=> Risk(u)) /\ (WillLook(u)' <=> WillLook(u))
       /\ ~Risk(p)'
  BY <1>5, <1>9 DEF Queue, Exclusive, Risk, WillLook
<1>13. /\ IsFiniteSet(Sure(h)) /\ Cardinality(Sure(h)) \in Nat /\ tokens[h] \in Nat
       /\ \A places : Cardinality(Owed(h, places)) \in Nat
  BY <1>1, Sizes
<1>14. PICK S : S = Sure(h)'
  OBVIOUS
<1>15. S \subseteq Waiter /\ IsFiniteSet(S) /\ Cardinality(S) \in Nat
  BY <1>14, WaiterSets DEF Sure
<1>16. Sure(h) \subseteq S
  <2>1. WillLook(p) => WillLook(p)'
    BY <1>5, <1>9 DEF WillLook, Exclusive
  <2> QED
    BY <1>12, <1>14, <2>1 DEF Sure
<1>17. Cardinality(Sure(h)) <= Cardinality(S)
  BY <1>15, <1>16, FS_Subset
<1>18. Counts(p) => Cardinality(Sure(h)) + 1 <= Cardinality(S)
  <2>1. SUFFICES ASSUME Counts(p) PROVE Cardinality(Sure(h)) + 1 <= Cardinality(S)
    OBVIOUS
  <2>2. Exclusive(p) /\ pc[p] = "asleep" /\ task[p].state # "RUNNING"
    <3>1. StateOK(p)
      BY <1>1, <1>8 DEF Struct
    <3>2. Exclusive(p) /\ ~task[p].array
      BY <2>1 DEF Counts
    <3> QED
      BY <3>1, <3>2 DEF StateOK
  <2>3. p \notin Sure(h)
    BY <2>2 DEF Sure, WillLook
  <2>4. p \in S
    BY <1>5, <1>8, <1>9, <1>12, <1>14, <2>2 DEF Sure, WillLook, Exclusive
  <2>5. PICK T : T = Sure(h)
    OBVIOUS
  <2>6. IsFiniteSet(T \cup {p}) /\ Cardinality(T \cup {p}) = Cardinality(T) + 1
    BY <1>13, <2>3, <2>5, FS_AddElement
  <2>7. T \cup {p} \subseteq S
    BY <1>16, <2>4, <2>5
  <2>8. Cardinality(T \cup {p}) <= Cardinality(S)
    BY <1>15, <2>7, FS_Subset
  <2> QED
    BY <2>5, <2>6, <2>8
<1>19. /\ AllPending(h)' <=> AllPending(h)
       /\ Owed(h, {"lock"})' = Owed(h, {"lock"})
       /\ \A v \in Waker : waker'[v].pc = "lock" /\ waker'[v].head = h <=>
                           waker[v].pc = "lock" /\ waker[v].head = h
  <2>1. waker[w].pc # "lock" /\ waker'[w].pc # "lock"
    BY <1>5, <1>10
  <2> QED
    BY <1>5, <1>10, <2>1 DEF AllPending, Owed
<1>20. \A v \in Waker : Scans(h, v)' => v = w /\ ~(Counts(p) /\ nr = 0)
  BY <1>6, <1>10 DEF Scans
<1>21. Enough(h)'
  <2>1. ASSUME ~AllPending(h), \A v \in Waker : Scans(h, v)' => waker'[v].nr > 0,
               NEW t \in Waiter, Queue(t)' = h, Exclusive(t)', Risk(t)'
        PROVE  tokens[h] <= Cardinality(S) + Cardinality(Owed(h, Under)')
    <3>1. Queue(t) = h /\ Exclusive(t) /\ Risk(t)
      BY <1>12, <2>1
    <3>2. waker[w].nr > 0 /\ (Counts(p) => waker[w].nr = nr + 1) /\ nr >= 0
      <4>1. CASE Counts(p) /\ nr = 0
        <5>1. nr = waker[w].nr - 1
          BY <1>4, <4>1
        <5> QED
          BY <1>7, <4>1, <5>1
      <4>2. CASE ~(Counts(p) /\ nr = 0)
        <5>1. Scans(h, w)'
          BY <1>10, <4>2 DEF Scans
        <5>2. nr > 0
          BY <1>10, <2>1, <4>2, <5>1
        <5> QED
          BY <1>4, <1>7, <5>2
      <4> QED
        BY <4>1, <4>2
    <3>3. tokens[h] <= Cardinality(Sure(h)) + Cardinality(Owed(h, Under))
      BY <1>1, <1>6, <2>1, <3>1, <3>2 DEF Count, Enough
    <3>4. CASE Counts(p)
      <4>1. Cardinality(Owed(h, Under)') = Cardinality(Owed(h, Under)) - 1
        <5>1. waker[w].nr \in 1 .. build.tokens /\ build' = build
          BY <1>5, <1>7, <3>2
        <5>2. \A P : /\ waker[w].pc \in P
                     /\ \/ /\ waker'[w].pc \in P /\ waker'[w].head = h
                           /\ waker'[w].nr = waker[w].nr - 1
                        \/ waker'[w].pc \notin P /\ waker[w].nr = 1
                     => Cardinality(Owed(h, P)') = Cardinality(Owed(h, P)) - 1
          BY <1>1, <1>2, <1>10, <5>1, OwedPaid
        <5>3. /\ waker[w].pc \in Under
              /\ \/ waker'[w].pc \in Under /\ waker'[w].head = h /\ waker'[w].nr = waker[w].nr - 1
                 \/ waker'[w].pc \notin Under /\ waker[w].nr = 1
          BY <1>4, <1>5, <1>7, <1>10, <3>2, <3>4 DEF Under
        <5> QED
          BY <5>2, <5>3 DEF Under
      <4> QED
        BY <1>13, <1>15, <1>18, <3>3, <3>4, <4>1
    <3>5. CASE ~Counts(p)
      <4>1. Owed(h, Under)' = Owed(h, Under)
        <5>1. /\ waker[w].pc \in Under /\ waker'[w].pc \in Under /\ waker'[w].head = h
              /\ waker[w].head = h /\ waker'[w].nr = waker[w].nr
          BY <1>2, <1>4, <1>5, <1>10, <3>5 DEF Under
        <5> QED
          BY <1>5, <1>10, <5>1 DEF Owed, Under
      <4> QED
        BY <1>13, <1>15, <1>17, <3>3, <4>1
    <3> QED
      BY <3>4, <3>5
  <2> QED
    BY <1>5, <1>14, <1>19, <2>1 DEF Enough
<1>22. Passed(h)'
  <2>1. ASSUME ~AllPending(h), waker'[w].i = waker[w].i + 1,
               NEW j \in DOMAIN list[h], j < waker'[w].i,
               call[list[h][j]] \in {"exclusive", "wait_for_completion"}, Risk(list[h][j])'
        PROVE  tokens[h] <= Cardinality(S) + Cardinality(Owed(h, {"lock"}))
    <3>1. PICK u : u = list[h][j]
      OBVIOUS
    <3>2. u \in Waiter /\ Risk(u)' /\ Exclusive(u)
      BY <1>1, <1>5, <2>1, <3>1, OfQueue DEF Risk, Exclusive
    <3>3. u # p /\ Risk(u)
      BY <1>12, <3>2
    <3>4. j # waker[w].i
      BY <1>3, <3>1, <3>3
    <3>5. j < waker[w].i
      BY <1>7, <2>1, <3>4
    <3>6. tokens[h] <= Cardinality(Sure(h)) + Cardinality(Owed(h, {"lock"}))
      BY <1>1, <1>6, <2>1, <3>1, <3>2, <3>3, <3>5 DEF Count, Passed
    <3> QED
      BY <1>13, <1>15, <1>17, <3>6
  <2>2. \A v \in Waker : Scans(h, v)' => v = w /\ waker'[w].i = waker[w].i + 1
    BY <1>10, <1>20
  <2> QED
    BY <1>5, <1>14, <1>19, <2>1, <2>2 DEF Passed, Exclusive
<1>23. SharedAwake(h)'
  <2>1. ASSUME NEW t \in Waiter, tokens[h] > 0, Queue(t)' = h, ~Exclusive(t)', Risk(t)'
        PROVE  \E v \in Waker :
                 \/ waker'[v].pc = "lock" /\ waker'[v].head = h
                 \/ /\ Scans(h, v)'
                    /\ \E j \in DOMAIN list[h] : waker'[v].i <= j /\ list[h][j] = t
    <3>1. Queue(t) = h /\ ~Exclusive(t) /\ Risk(t) /\ t # p
      BY <1>12, <2>1
    <3>2. PICK v \in Waker :
            \/ waker[v].pc = "lock" /\ waker[v].head = h
            \/ Scans(h, v) /\ \E j \in DOMAIN list[h] : waker[v].i <= j /\ list[h][j] = t
      BY <1>1, <2>1, <3>1 DEF Count, SharedAwake
    <3>3. CASE waker[v].pc = "lock" /\ waker[v].head = h
      BY <1>19, <3>3
    <3>4. CASE Scans(h, v) /\ \E j \in DOMAIN list[h] : waker[v].i <= j /\ list[h][j] = t
      <4>1. PICK j \in DOMAIN list[h] : waker[w].i <= j /\ list[h][j] = t
        BY <1>6, <3>4
      <4>2. waker[w].i < j
        <5>1. j # waker[w].i
          BY <1>3, <3>1, <4>1
        <5> QED
          BY <1>7, <4>1, <5>1
      <4>3. ~Counts(p)
        <5>1. Ordered(h)
          BY <1>1 DEF Struct, ListOK
        <5>2. ~Exclusive(p)
          BY <1>3, <1>7, <3>1, <4>1, <4>2, <5>1 DEF Ordered
        <5> QED
          BY <5>2 DEF Counts
      <4>4. Scans(h, w)' /\ waker'[w].i = waker[w].i + 1
        BY <1>10, <4>3 DEF Scans
      <4>5. waker'[w].i <= j
        BY <1>7, <4>2, <4>4
      <4> QED
        BY <4>1, <4>4, <4>5
    <3> QED
      BY <3>2, <3>3, <3>4
  <2> QED
    BY <1>5, <2>1 DEF SharedAwake
<1> QED
  BY <1>1, <1>11, <1>21, <1>22, <1>23 DEF IInv, Count
\* Nothing waits and nothing is owed at first.
LEMMA InitInv == Init => IInv
<1> SUFFICES ASSUME Init PROVE IInv
  OBVIOUS
<1>1. /\ \A t \in Waiter : /\ pc[t] = "user" /\ call[t] = NULL /\ task[t].state = "RUNNING"
                           /\ task[t].array
      /\ \A h \in Heads : list[h] = << >> /\ lock[h] = NULL /\ tokens[h] = 0
      /\ \A w \in Waker : waker[w] = Idle
  BY DEF Init
<1>2. TypeOK
  <2>1. << >> \in Seq(Waiter) /\ Idle \in Wakers /\ build.tokens \in Nat
    BY BuildAssumption DEF Idle, Wakers, Heads, States, Init
  <2> QED
    BY <2>1 DEF TypeOK, Init, Wakers, Heads, States
<1>3. ASSUME NEW t \in Waiter PROVE CallOK(t) /\ StateOK(t) /\ SleepOnOK(t)
  BY <1>1 DEF CallOK, StateOK, SleepOnOK
<1>4. ASSUME NEW h \in Heads PROVE ListOK(h)
  <2>1. ToSet(list[h]) = {} /\ DOMAIN list[h] = {}
    BY <1>1 DEF ToSet
  <2> QED
    BY <1>1, <2>1 DEF ListOK, Holds, Distinct, Ordered, OnQueue
<1>5. ASSUME NEW w \in Waker PROVE WakerOK(w)
  <2>1. waker[w].pc = "idle" /\ waker[w].i = 1 /\ waker[w].nr = 0 /\ build.tokens \in Nat
    BY <1>1, BuildAssumption DEF Idle, Init
  <2> QED
    BY <1>1, <2>1, ProcessAssumption DEF WakerOK
<1>6. ASSUME NEW h \in Heads PROVE Count(h)
  <2>1. \A t \in Waiter : ~Risk(t)
    BY <1>1 DEF Risk
  <2>2. DOMAIN list[h] = {}
    BY <1>1
  <2> QED
    BY <2>1, <2>2 DEF Count, Enough, Passed, SharedAwake
<1> QED
  BY <1>2, <1>3, <1>4, <1>5, <1>6 DEF IInv, Struct

\* A step that changes nothing.
LEMMA Stutter == IInv /\ UNCHANGED vars => IInv'
<1> SUFFICES ASSUME IInv, UNCHANGED vars PROVE IInv'
  OBVIOUS
<1>1. UNCHANGED << list, lock, tokens, task, pc, call, waker, build >>
  BY DEF vars
<1>2. TypeOK'
  BY <1>1 DEF IInv, Struct, TypeOK
<1>3. ASSUME NEW t \in Waiter PROVE (CallOK(t) /\ StateOK(t) /\ SleepOnOK(t))'
  BY <1>1 DEF IInv, Struct, CallOK, StateOK, SleepOnOK, Mode
<1>4. ASSUME NEW h \in Heads PROVE ListOK(h)'
  BY <1>1 DEF IInv, Struct, ListOK, Holds, Distinct, Ordered, OnQueue, Queue, Exclusive
<1>5. ASSUME NEW w \in Waker PROVE WakerOK(w)'
  BY <1>1 DEF IInv, Struct, WakerOK
<1>6. ASSUME NEW h \in Heads PROVE Count(h)'
  <2>1. Count(h) /\ Sure(h)' = Sure(h) /\ \A P : Owed(h, P)' = Owed(h, P)
    BY <1>1, SureKept DEF IInv, Owed
  <2>2. /\ \A u \in Waiter : /\ Queue(u)' = Queue(u) /\ (Exclusive(u)' <=> Exclusive(u))
                             /\ Risk(u)' <=> Risk(u)
        /\ AllPending(h)' <=> AllPending(h)
        /\ \A w \in Waker : Scans(h, w)' <=> Scans(h, w)
    BY <1>1, SureKept DEF AllPending, Scans
  <2>3. Enough(h)'
    BY <1>1, <2>1, <2>2 DEF Count, Enough
  <2>4. Passed(h)'
    BY <1>1, <2>1, <2>2 DEF Count, Passed, Exclusive, Risk
  <2>5. SharedAwake(h)'
    BY <1>1, <2>1, <2>2 DEF Count, SharedAwake
  <2> QED
    BY <2>3, <2>4, <2>5 DEF Count
<1> QED
  BY <1>2, <1>3, <1>4, <1>5, <1>6 DEF IInv, Struct

\* Every step of waiters, wake-ups, signals and timers keeps the invariant.
LEMMA NextStep == IInv /\ [Next]_vars => IInv'
<1> SUFFICES ASSUME IInv, [Next]_vars PROVE IInv'
  OBVIOUS
<1>1. ASSUME NEW t \in Waiter, WaiterStep(t) \/ Wait(t) \/ Signal(t) \/ Timeout(t)
      PROVE  IInv'
  BY <1>1, TestSucceedsCount, GiveUpCount, TestFailsCount, AddCount, set_current_stateCount,
     CheckCount, CheckSignalCount, SetRunningCount, LeaveCount, ScheduleCount, ResumeCount,
     wait_for_completionCount, RecheckCount, WaitCount, SignalCount, TimeoutCount
     DEF WaiterStep
<1>2. ASSUME NEW w \in Waker, WakerStep(w) \/ wake_up(w) \/ complete(w)
      PROVE  IInv'
  BY <1>2, LockCount, EndOfListCount, ReadStateCount, TryToWakeUpCount, wake_upCount,
     completeCount DEF WakerStep
<1>3. CASE UNCHANGED vars
  BY <1>3, Stutter
<1> QED
  BY <1>1, <1>2, <1>3 DEF Next

\* The invariant holds in every state of the wait queues.
THEOREM InvariantHolds == Spec => []IInv
<1>1. Init => IInv
  BY InitInv
<1>2. IInv /\ [Next]_vars => IInv'
  BY NextStep
<1> QED
  BY <1>1, <1>2, PTL DEF Spec

\* The variables have their types: no token is taken that is not there, and a wake-up
\* never goes past the waiters that its nr_exclusive allows.
THEOREM TypesHold == Spec => []TypeOK
<1>1. IInv => TypeOK
  BY DEF IInv, Struct
<1> QED
  BY <1>1, InvariantHolds, PTL

\* The counts say what NoLostWakeUp says once no wake-up is under way.
LEMMA NothingLost == IInv => NoLostWakeUp
<1> SUFFICES ASSUME IInv, NEW h \in Heads, tokens[h] > 0,
                    \A w \in Waker : waker[w].pc # "idle" => waker[w].head # h
             PROVE  /\ \A t \in {u \in ToSet(list[h]) : Stuck(u)} : Exclusive(t)
                    /\ {u \in ToSet(list[h]) : Stuck(u)} # {} =>
                         Cardinality({u \in ToSet(list[h]) : Exclusive(u) /\ Looking(u)})
                           >= tokens[h]
  BY DEF NoLostWakeUp
<1>1. Struct /\ TypeOK /\ Count(h) /\ ListOK(h) /\ list[h] \in Seq(Waiter)
  BY DEF IInv, Struct, TypeOK
<1>2. /\ ~AllPending(h) /\ \A w \in Waker : ~Scans(h, w)
      /\ \A w \in Waker : ~(waker[w].pc = "lock" /\ waker[w].head = h)
  BY DEF AllPending, Scans
<1>3. ToSet(list[h]) \subseteq Waiter
  BY <1>1 DEF ToSet
<1>4. \A t \in ToSet(list[h]) : Queue(t) = h /\ OnQueue(t)
  BY <1>1, <1>3 DEF ListOK, Holds
<1>5. \A t \in ToSet(list[h]) : Stuck(t) => Risk(t)
  BY DEF Stuck, Risk
<1>6. ASSUME NEW t \in ToSet(list[h]), Stuck(t) PROVE Exclusive(t)
  BY <1>1, <1>2, <1>3, <1>4, <1>5, <1>6 DEF Count, SharedAwake
<1>7. ASSUME NEW t \in ToSet(list[h]), Stuck(t)
      PROVE  Cardinality({u \in ToSet(list[h]) : Exclusive(u) /\ Looking(u)}) >= tokens[h]
  <2>1. tokens[h] <= Cardinality(Sure(h)) + Cardinality(Owed(h, Under))
    BY <1>1, <1>2, <1>3, <1>4, <1>5, <1>6, <1>7 DEF Count, Enough
  <2>2. Owed(h, Under) = {}
    BY DEF Owed, Under
  <2>3. Cardinality(Owed(h, Under)) = 0
    BY <2>2, FS_EmptySet
  <2>4. PICK S : S = {u \in ToSet(list[h]) : Exclusive(u) /\ Looking(u)}
    OBVIOUS
  <2>5. IsFiniteSet(S) /\ Cardinality(S) \in Nat
    BY <1>3, <2>4, WaiterSets
  <2>6. Sure(h) \subseteq S
    <3>1. SUFFICES ASSUME NEW u \in Waiter, Queue(u) = h, WillLook(u) PROVE u \in S
      BY DEF Sure
    <3>2. OnQueue(u)
      <4>1. CallOK(u)
        BY <1>1 DEF Struct
      <4> QED
        BY <3>1, <4>1 DEF WillLook, OnQueue, Exclusive, CallOK, Loops
    <3>3. u \in ToSet(list[h])
      BY <1>1, <3>1, <3>2 DEF ListOK, Holds
    <3> QED
      BY <2>4, <3>1, <3>3 DEF WillLook, Looking, Stuck
  <2>7. Cardinality(Sure(h)) <= Cardinality(S)
    BY <2>5, <2>6, FS_Subset
  <2>8. Cardinality(Sure(h)) \in Nat /\ tokens[h] \in Nat
    BY <1>1, Sizes
  <2> QED
    BY <2>1, <2>3, <2>4, <2>5, <2>7, <2>8
<1> QED
  BY <1>6, <1>7

\* No wake-up is lost, with any number of waiters, wake-ups and tokens, whatever their
\* nr_exclusive, and however many take part: __wake_up never leaves a token with all that
\* wait for it asleep.
THEOREM NoWakeUpLost == Spec => []NoLostWakeUp
<1>1. IInv => NoLostWakeUp
  BY NothingLost
<1> QED
  BY <1>1, InvariantHolds, PTL

=============================================================================
