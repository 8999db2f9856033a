--------------------------- MODULE PidAllocProofs ---------------------------
(***************************************************************************)
(* Process ids: no id is handed out that is in use, for every number of    *)
(* tasks and ids.  get_pid's scan is a recursion that need not end; first  *)
(* that such a recursion defines a function at all, then that this one     *)
(* ends and what it finds, then that the window it leaves stays free.      *)
(***************************************************************************)
EXTENDS PidAlloc, SequenceTheorems, WellFoundedInduction, TLAPS

-----------------------------------------------------------------------------
(* Recursion *)

\* A set of naturals has a least element.
LEMMA LeastNat ==
  ASSUME NEW S \in SUBSET Nat, S # {}
  PROVE  Least(S) \in S /\ \A j \in S : Least(S) <= j
<1> DEFINE R == {ss \in Nat \X Nat : ss[1] < ss[2]}
<1>1. IsWellFoundedOn(R, Nat)
  BY NatLessThanWellFounded, Zenon DEF OpToRel
<1>2. \A m, n \in Nat : m < n => << m, n >> \in R
  OBVIOUS
<1> HIDE DEF R
<1>3. PICK i \in S : \A j \in S : ~ (<< j, i >> \in R)
  BY <1>1, WFMin
<1>4. \A j \in S : i \in Nat /\ j \in Nat /\ ~ (j < i)
  BY <1>2, <1>3
<1>5. \E n \in S : \A m \in S : n <= m
  BY <1>4
<1> QED
  BY <1>5, Zenon DEF Least

\* f is defined by a tail recursion: x calls nxt[x], and ends in S with the result r[x].
TailRecursive(f, X, S, r, nxt) == f = [x \in X |-> IF x \in S THEN r[x] ELSE f[nxt[x]]]

\* A function defined by a tail recursion exists: follow the calls up to one that ends.
LEMMA TailRecursion ==
  ASSUME NEW X, NEW S \in SUBSET X, NEW r, NEW nxt \in [X -> X]
  PROVE  \E f : TailRecursive(f, X, S, r, nxt)
<1> DEFINE Run(s, n, x, y) == /\ s \in [0 .. n -> X] /\ s[0] = x /\ s[n] = y
                              /\ \A i \in 0 .. n - 1 : s[i] \notin S /\ s[i + 1] = nxt[s[i]]
           Ends(x) == {y \in S : \E n \in Nat : \E s : Run(s, n, x, y)}
           f == [x \in X |-> r[IF x \in S THEN x ELSE CHOOSE y : y \in Ends(x)]]
<1>0. ASSUME NEW x, NEW y, NEW n, NEW s
      PROVE  Run(s, n, x, y) <=>
               /\ s \in [0 .. n -> X] /\ s[0] = x /\ s[n] = y
               /\ \A i \in 0 .. n - 1 : s[i] \notin S /\ s[i + 1] = nxt[s[i]]
  OBVIOUS
<1> HIDE DEF Run
<1>1. ASSUME NEW x \in X \ S PROVE f[x] = f[nxt[x]]
  <2>1. CASE nxt[x] \in S
    <3>1. ASSUME NEW y \in Ends(x) PROVE y = nxt[x]
      <4>1. PICK n, s : n \in Nat /\ Run(s, n, x, y)
        BY <3>1
      <4>2. /\ s[0] = x /\ s[n] = y /\ y \in S
            /\ \A i \in 0 .. n - 1 : s[i] \notin S /\ s[i + 1] = nxt[s[i]]
        BY <3>1, <4>1, <1>0
      <4>3. n # 0
        BY <4>1, <4>2
      <4>4. n = 1
        BY <4>1, <2>1, <4>2, <4>3
      <4> QED
        BY <4>1, <4>2, <4>4
    <3>2. nxt[x] \in Ends(x)
      <4>1. PICK s : s = [i \in 0 .. 1 |-> IF i = 0 THEN x ELSE nxt[x]]
        OBVIOUS
      <4>2. /\ s \in [0 .. 1 -> X] /\ s[0] = x /\ s[1] = nxt[x]
            /\ \A i \in 0 .. 1 - 1 : s[i] \notin S /\ s[i + 1] = nxt[s[i]]
        BY <4>1
      <4>3. Run(s, 1, x, nxt[x])
        BY <4>2, <1>0
      <4> QED
        BY <2>1, <4>3
    <3>3. Ends(x) = {nxt[x]}
      <4> HIDE DEF Ends
      <4> QED
        BY <3>1, <3>2
    <3> HIDE DEF Ends
    <3> QED
      BY <2>1, <3>3
  <2>2. CASE nxt[x] \notin S
    <3>1. ASSUME NEW y \in Ends(x) PROVE y \in Ends(nxt[x])
      <4>1. PICK n, s : n \in Nat /\ Run(s, n, x, y)
        BY <3>1
      <4>2. /\ s \in [0 .. n -> X] /\ s[0] = x /\ s[n] = y /\ y \in S
            /\ \A i \in 0 .. n - 1 : s[i] \notin S /\ s[i + 1] = nxt[s[i]]
        BY <3>1, <4>1, <1>0
      <4>3. n # 0 /\ n - 1 \in Nat
        BY <4>1, <4>2
      <4>4. PICK s2 : s2 = [i \in 0 .. n - 1 |-> s[i + 1]]
        OBVIOUS
      <4>5. /\ s2 \in [0 .. n - 1 -> X] /\ s2[0] = nxt[x] /\ s2[n - 1] = y
            /\ \A i \in 0 .. (n - 1) - 1 : s2[i] \notin S /\ s2[i + 1] = nxt[s2[i]]
        BY <4>1, <4>2, <4>3, <4>4
      <4>6. Run(s2, n - 1, nxt[x], y)
        BY <4>1, <4>5, <1>0
      <4> QED
        BY <4>1, <4>2, <4>3, <4>6
    <3>2. ASSUME NEW y \in Ends(nxt[x]) PROVE y \in Ends(x)
      <4>1. PICK n, s : n \in Nat /\ Run(s, n, nxt[x], y)
        BY <3>2
      <4>2. /\ s \in [0 .. n -> X] /\ s[0] = nxt[x] /\ s[n] = y /\ y \in S
            /\ \A i \in 0 .. n - 1 : s[i] \notin S /\ s[i + 1] = nxt[s[i]]
        BY <3>2, <4>1, <1>0
      <4>3. PICK s2 : s2 = [i \in 0 .. n + 1 |-> IF i = 0 THEN x ELSE s[i - 1]]
        OBVIOUS
      <4>4. /\ s2 \in [0 .. n + 1 -> X] /\ s2[0] = x /\ s2[n + 1] = y
            /\ \A i \in 0 .. (n + 1) - 1 : s2[i] \notin S /\ s2[i + 1] = nxt[s2[i]]
        BY <4>1, <4>2, <4>3
      <4>5. Run(s2, n + 1, x, y)
        BY <4>1, <4>4, <1>0
      <4> QED
        BY <4>1, <4>2, <4>5
    <3>3. Ends(x) = Ends(nxt[x])
      <4>1. \A y : y \in Ends(x) <=> y \in Ends(nxt[x])
        BY <3>1, <3>2
      <4> HIDE DEF Ends
      <4>2. \A A, B : (\A y : y \in A <=> y \in B) => A = B
        OBVIOUS
      <4> QED
        BY <4>1, <4>2
    <3> HIDE DEF Ends
    <3> QED
      BY <2>2, <3>3
  <2> QED
    BY <2>1, <2>2
<1>2. \A x \in S : f[x] = r[x]
  OBVIOUS
<1> HIDE DEF f
<1>3. f = [x \in X |-> f[x]]
  BY DEF f
<1> QED
  BY <1>1, <1>2, <1>3 DEF TailRecursive

\* The recursion of the scan: where it ends, and with which result.
Ended(x) == Users(x[1]) = {} \/ Onward(x[1], x[2])[1] = last_pid
Result(x) ==
  IF Users(x[1]) = {} THEN [pid |-> x[1], last_pid |-> x[1], next_safe |-> Safe(x[1], x[2])]
  ELSE [pid |-> 0, last_pid |-> Onward(x[1], x[2])[1], next_safe |-> Onward(x[1], x[2])[2]]

\* Repeat is the function its definition describes.
LEMMA RepeatUnfolds ==
  ASSUME \A a, b \in Nat : Onward(a, b) \in Nat \X Nat
  PROVE  \A x \in Nat \X Nat :
           Repeat[x] = IF Ended(x) THEN Result(x) ELSE Repeat[Onward(x[1], x[2])]
<1> DEFINE Body(f, x) == IF Ended(x) THEN Result(x) ELSE f[Onward(x[1], x[2])]
<1>1. PICK X, S, r, nxt : /\ X = Nat \X Nat
                          /\ S = {x \in X : Ended(x)}
                          /\ r = [x \in X |-> Result(x)]
                          /\ nxt = [x \in X |-> Onward(x[1], x[2])]
  OBVIOUS
<1>2. PICK f : TailRecursive(f, X, S, r, nxt)
  <2>1. nxt \in [X -> X] /\ S \in SUBSET X
    BY <1>1
  <2> QED
    BY <2>1, TailRecursion
<1>3. f = [x \in Nat \X Nat |-> Body(f, x)]
  BY <1>1, <1>2 DEF TailRecursive
<1>4. Repeat = CHOOSE g : g = [x \in Nat \X Nat |-> Body(g, x)]
  BY Zenon DEF Repeat, Ended, Result
<1> HIDE DEF Body
<1>5. Repeat = [x \in Nat \X Nat |-> Body(Repeat, x)]
  BY <1>3, <1>4, Zenon
<1>6. \A x \in Nat \X Nat : Repeat[x] = Body(Repeat, x)
  BY <1>5
<1> QED
  BY <1>6 DEF Body

-----------------------------------------------------------------------------
(* What get_pid finds *)

\* next_safe after a pass bounds the ids the pass has seen.
LEMMA SafeBounds ==
  ASSUME TypeOK, NEW last \in Nat, NEW safe \in Nat
  PROVE  /\ Safe(last, safe) \in Nat /\ Safe(last, safe) <= safe
         /\ last < safe => last < Safe(last, safe)
         /\ Users(last) = {} =>
              \A i \in DOMAIN tasklist : \A id \in Ids(tasklist[i]) :
                id \notin last .. Safe(last, safe) - 1
<1> DEFINE seen  == IF Users(last) = {} THEN DOMAIN tasklist ELSE 1 .. Least(Users(last)) - 1
           above == {id \in UNION {Ids(tasklist[i]) : i \in seen} : id > last}
<1>1. Safe(last, safe) = Least(above \cup {safe})
  BY DEF Safe
<1>2. seen \subseteq DOMAIN tasklist
  <2>1. CASE Users(last) # {}
    <3>1. DOMAIN tasklist = 1 .. Len(tasklist) /\ Len(tasklist) \in Nat
      BY DEF TypeOK
    <3>2. Users(last) \in SUBSET (1 .. Len(tasklist))
      BY <3>1 DEF Users
    <3>3. Users(last) \in SUBSET Nat
      BY <3>1, <3>2
    <3>4. Least(Users(last)) \in Users(last)
      BY <2>1, <3>3, LeastNat
    <3>5. Least(Users(last)) \in 1 .. Len(tasklist)
      BY <3>2, <3>4
    <3> QED
      BY <2>1, <3>1, <3>5
  <2> QED
    BY <2>1
<1>3. \A i \in DOMAIN tasklist : Ids(tasklist[i]) \subseteq Nat
  BY IdAssumption DEF TypeOK, Ids, Id
<1>4. above \cup {safe} \in SUBSET Nat /\ above \cup {safe} # {}
  BY <1>2, <1>3
<1>5. \A id \in above : id > last
  OBVIOUS
<1>6. Users(last) = {} =>
        \A i \in DOMAIN tasklist : \A id \in Ids(tasklist[i]) :
          id \in Nat /\ id # last /\ (id > last => id \in above)
  BY <1>3 DEF Users
<1> HIDE DEF above
<1>7. /\ Least(above \cup {safe}) \in above \cup {safe}
      /\ \A j \in above \cup {safe} : Least(above \cup {safe}) <= j
  BY <1>4, LeastNat
<1>8. PICK n : n = Least(above \cup {safe})
  OBVIOUS
<1>9. n \in Nat /\ n <= safe /\ (last < safe => last < n) /\ \A j \in above : n <= j
  BY <1>4, <1>5, <1>7, <1>8
<1>10. Users(last) = {} =>
        \A i \in DOMAIN tasklist : \A id \in Ids(tasklist[i]) : id \notin last .. n - 1
  BY <1>6, <1>9
<1> QED
  BY <1>1, <1>8, <1>9, <1>10

\* The passes of a scan, each with an id below next_safe.
Pass == {x \in Nat \X Nat : 1 <= x[1] /\ x[1] < x[2] /\ x[2] <= PID_MAX}

\* The id after a, round the range.
Step(a) == IF a + 1 >= PID_MAX THEN RESERVED ELSE a + 1

\* The next pass tries the next id.
LEMMA OnwardPasses ==
  ASSUME TypeOK
  PROVE  /\ \A a, b \in Nat : Onward(a, b) \in Nat \X Nat
         /\ \A x \in Pass : /\ Onward(x[1], x[2]) \in Pass
                            /\ Onward(x[1], x[2])[1] = Step(x[1])
<1>1. ASSUME NEW a \in Nat, NEW b \in Nat
      PROVE  /\ Onward(a, b) \in Nat \X Nat
             /\ << a, b >> \in Pass => Onward(a, b) \in Pass /\ Onward(a, b)[1] = Step(a)
  <2>1. PICK s : s = Safe(a, b)
    OBVIOUS
  <2>2. s \in Nat /\ s <= b /\ (a < b => a < s)
    BY <2>1, SafeBounds
  <2>3. Onward(a, b) = IF a + 1 >= s THEN << Wrap(a + 1), PID_MAX >> ELSE << a + 1, s >>
    BY <2>1 DEF Onward
  <2> QED
    BY <2>2, <2>3, IdAssumption DEF Wrap, Pass, Step
<1>2. \A x \in Pass : x = << x[1], x[2] >> /\ x[1] \in Nat /\ x[2] \in Nat
  BY DEF Pass
<1> QED
  BY <1>1, <1>2

\* r is what get_pid may return: nothing, or an id, which like those up to next_safe
\* no task on the list uses.
Found(r) ==
  /\ r.last_pid \in Id \ {0} /\ r.next_safe \in 1 .. PID_MAX
  /\ \/ r.pid = 0
     \/ /\ r.pid = r.last_pid /\ r.pid < r.next_safe
        /\ \A i \in DOMAIN tasklist : \A id \in Ids(tasklist[i]) :
             id \notin r.pid .. r.next_safe - 1

\* A scan ends, when each pass brings it closer to its end.
LEMMA ScanEnds ==
  ASSUME TypeOK, NEW m \in [1 .. PID_MAX - 1 -> Nat],
         \A a \in 1 .. PID_MAX - 1 :
           Users(a) # {} /\ Step(a) # last_pid => m[Step(a)] < m[a]
  PROVE  \A x \in Pass : Found(Repeat[x])
<1> DEFINE Bad == {k \in Nat : \E x \in Pass : m[x[1]] = k /\ ~Found(Repeat[x])}
<1>1. SUFFICES ASSUME Bad # {} PROVE FALSE
  <2>1. \A x \in Pass : x[1] \in 1 .. PID_MAX - 1
    BY IdAssumption DEF Pass
  <2> QED
    BY <2>1
<1>2. PICK k \in Bad : \A j \in Bad : k <= j
  BY <1>1, LeastNat
<1>3. PICK x \in Pass : m[x[1]] = k /\ ~Found(Repeat[x])
  BY <1>2
<1>4. /\ x \in Nat \X Nat /\ x[1] \in Nat /\ x[2] \in Nat /\ x[1] \in 1 .. PID_MAX - 1
      /\ x[1] < x[2] /\ x[2] <= PID_MAX
  BY IdAssumption DEF Pass
<1>5. PICK next : next = Onward(x[1], x[2]) /\ next \in Pass /\ next[1] = Step(x[1])
  BY OnwardPasses
<1>6. /\ next[1] \in 1 .. PID_MAX - 1 /\ next[2] \in 1 .. PID_MAX
  BY <1>5, IdAssumption DEF Pass
<1>7. Repeat[x] = IF Ended(x) THEN Result(x) ELSE Repeat[next]
  BY <1>4, <1>5, OnwardPasses, RepeatUnfolds
<1>8. CASE Users(x[1]) = {}
  <2>1. PICK s : s = Safe(x[1], x[2])
    OBVIOUS
  <2>2. Repeat[x] = [pid |-> x[1], last_pid |-> x[1], next_safe |-> s]
    BY <1>7, <1>8, <2>1 DEF Ended, Result
  <2>3. /\ s \in Nat /\ s <= x[2] /\ x[1] < s
        /\ \A i \in DOMAIN tasklist : \A id \in Ids(tasklist[i]) : id \notin x[1] .. s - 1
    BY <1>4, <1>8, <2>1, SafeBounds
  <2>4. x[1] \in Id \ {0} /\ s \in 1 .. PID_MAX
    BY <1>4, <2>3, IdAssumption DEF Id
  <2> QED
    BY <1>3, <2>2, <2>3, <2>4 DEF Found
<1>9. CASE Users(x[1]) # {} /\ next[1] = last_pid
  <2>1. Repeat[x] = [pid |-> 0, last_pid |-> next[1], next_safe |-> next[2]]
    BY <1>5, <1>7, <1>9 DEF Ended, Result
  <2> QED
    BY <1>3, <1>6, <2>1, IdAssumption DEF Found, Id
<1>10. CASE Users(x[1]) # {} /\ next[1] # last_pid
  <2>1. Repeat[x] = Repeat[next]
    BY <1>5, <1>7, <1>10 DEF Ended
  <2>2. m[next[1]] < m[x[1]] /\ m[next[1]] \in Nat
    BY <1>4, <1>5, <1>6, <1>10
  <2>3. m[next[1]] \in Bad
    BY <1>3, <1>5, <2>1, <2>2
  <2> QED
    BY <1>2, <1>3, <2>2, <2>3
<1> QED
  BY <1>8, <1>9, <1>10

\* It comes closer to the id it began with, or to one that is left.
LEMMA ScanFound ==
  ASSUME TypeOK, CanScan
  PROVE  \A x \in Pass : Found(Repeat[x])
<1> DEFINE P == 1 .. PID_MAX - 1
<1>0. last_pid \in P /\ \A a \in P : Step(a) \in P
  BY IdAssumption DEF TypeOK, Id, Step
<1>1. CASE last_pid >= RESERVED
  <2>1. PICK m : m = [a \in P |-> IF a < last_pid THEN last_pid - a
                                  ELSE (PID_MAX - a) + (last_pid - RESERVED)]
    OBVIOUS
  <2>2. m \in [P -> Nat]
    BY <1>0, <1>1, <2>1, IdAssumption
  <2>3. \A a \in P : Step(a) # last_pid => m[Step(a)] < m[a]
    BY <1>0, <1>1, <2>1, IdAssumption DEF Step
  <2> QED
    BY <2>2, <2>3, ScanEnds
<1>2. CASE IdLeft
  <2>1. PICK g \in RESERVED .. PID_MAX - 1 : \A t \in ToSet(tasklist) : g \notin Ids(t)
    BY <1>2 DEF IdLeft
  <2>2. Users(g) = {} /\ g \in P
    BY <2>1, IdAssumption DEF Users, ToSet
  <2>3. PICK m : m = [a \in P |-> IF a <= g THEN g - a ELSE (PID_MAX - a) + (g - RESERVED)]
    OBVIOUS
  <2>4. m \in [P -> Nat]
    BY <2>1, <2>2, <2>3, IdAssumption
  <2>5. \A a \in P : Users(a) # {} => m[Step(a)] < m[a]
    <3>1. SUFFICES ASSUME NEW a \in P, a # g PROVE m[Step(a)] < m[a]
      BY <2>2
    <3> QED
      BY <1>0, <2>1, <2>2, <2>3, <3>1, IdAssumption DEF Step
  <2> QED
    BY <2>4, <2>5, ScanEnds
<1> QED
  BY <1>1, <1>2 DEF CanScan

-----------------------------------------------------------------------------
(* The inductive invariant *)

\* The list has the tasks that are alive, once each.
ListOK ==
  /\ \A i, j \in DOMAIN tasklist : tasklist[i] = tasklist[j] => i = j
  /\ \A t \in Task : task[t].state = "LIVE" <=> \E i \in DOMAIN tasklist : tasklist[i] = t

\* A fork under way has its own pid, and else the ids of the process that forks, which
\* is alive and keeps them until the fork is over.
EmbryoOK ==
  \A q \in Embryos :
    \E t \in Task : /\ task[q].forker = t /\ task[t].state = "LIVE"
                   /\ task[q].tgid = task[t].tgid /\ task[q].pgrp = task[t].pgrp
                   /\ task[q].session = task[t].session

\* Nobody uses the ids in the window above last_pid and below next_safe.
Window ==
  ~exhausted =>
    \A t \in Task : task[t].state # "FREE" =>
      \A id \in Ids(t) : id \notin last_pid + 1 .. next_safe - 1

\* The invariant, which every step keeps.
IInv == TypeOK /\ ListOK /\ EmbryoOK /\ Window

\* The ids are naturals.
LEMMA IdsAreNats ==
  ASSUME TypeOK
  PROVE  /\ \A t \in Task : Ids(t) \subseteq Id
         /\ last_pid \in Nat /\ next_safe \in Nat /\ RESERVED \in Nat /\ PID_MAX \in Nat
BY IdAssumption DEF TypeOK, Ids, Id

\* What get_pid returns is an id nobody uses, as long as ids have not run out; and it
\* leaves such a window.
LEMMA GetPidFinds ==
  ASSUME IInv, CanScan
  PROVE  /\ get_pid.last_pid \in Id \ {0} /\ get_pid.next_safe \in 1 .. PID_MAX
         /\ \/ get_pid.pid = 0
            \/ get_pid.pid = get_pid.last_pid /\ get_pid.pid < get_pid.next_safe
         /\ ~exhausted /\ get_pid.pid # 0 /\ NotOvertaken(get_pid) =>
              \A t \in Task : task[t].state # "FREE" =>
                \A id \in Ids(t) : id \notin get_pid.pid .. get_pid.next_safe - 1
<1>1. TypeOK /\ ListOK /\ EmbryoOK /\ Window
  BY DEF IInv
<1>2. PICK n, r : n = last_pid + 1 /\ r = get_pid
  OBVIOUS
<1>3. /\ last_pid \in Id \ {0} /\ next_safe \in 1 .. PID_MAX /\ n \in Nat
      /\ \A t \in Task : Ids(t) \subseteq Id
  BY <1>1, <1>2, IdsAreNats DEF TypeOK
<1>4. r = IF n >= PID_MAX THEN Repeat[<< RESERVED, PID_MAX >>]
          ELSE IF n >= next_safe THEN Repeat[<< n, PID_MAX >>]
          ELSE [pid |-> n, last_pid |-> n, next_safe |-> next_safe]
  BY <1>2 DEF get_pid
<1>5. CASE n < PID_MAX /\ n < next_safe
  <2>1. r = [pid |-> n, last_pid |-> n, next_safe |-> next_safe]
    BY <1>3, <1>4, <1>5, IdAssumption
  <2>2. n \in Id \ {0}
    BY <1>2, <1>3, <1>5, IdAssumption DEF Id
  <2>3. ~exhausted => \A t \in Task : task[t].state # "FREE" =>
                        \A id \in Ids(t) : id \notin n .. next_safe - 1
    BY <1>1, <1>2 DEF Window
  <2> QED
    BY <1>2, <1>3, <1>5, <2>1, <2>2, <2>3
<1>6. CASE n >= PID_MAX \/ n >= next_safe
  <2>1. << RESERVED, PID_MAX >> \in Pass
    BY IdAssumption DEF Pass
  <2>2. n < PID_MAX => << n, PID_MAX >> \in Pass
    BY <1>2, <1>3, IdAssumption DEF Pass, Id
  <2>3. Found(r)
    <3>1. \A x \in Pass : Found(Repeat[x])
      BY <1>1, ScanFound
    <3>2. n < PID_MAX \/ n >= PID_MAX
      BY <1>3, IdAssumption
    <3> QED
      BY <1>4, <1>6, <2>1, <2>2, <3>1, <3>2
  <2>4. ASSUME r.pid # 0, NotOvertaken(r), NEW t \in Task, task[t].state # "FREE",
               NEW id \in Ids(t)
        PROVE  id \notin r.pid .. r.next_safe - 1
    <3>1. \A u \in Task : task[u].state = "LIVE" =>
            \A j \in Ids(u) : j \notin r.pid .. r.next_safe - 1
      BY <1>1, <2>3, <2>4 DEF Found, ListOK
    <3>2. CASE task[t].state = "LIVE"
      BY <3>1, <3>2
    <3>3. CASE task[t].state = "EMBRYO"
      <4>1. t \in Embryos
        BY <3>3 DEF Embryos
      <4>2. PICK u \in Task : /\ task[u].state = "LIVE" /\ task[t].tgid = task[u].tgid
                             /\ task[t].pgrp = task[u].pgrp
                             /\ task[t].session = task[u].session
        BY <1>1, <4>1 DEF EmbryoOK
      <4>3. id = task[t].pid \/ id \in Ids(u)
        BY <4>2 DEF Ids
      <4> QED
        BY <2>4, <3>1, <4>1, <4>2, <4>3 DEF NotOvertaken
    <3> QED
      BY <1>1, <2>4, <3>2, <3>3 DEF TypeOK
  <2> QED
    BY <1>2, <2>3, <2>4 DEF Found
<1> QED
  BY <1>2, <1>3, <1>5, <1>6, IdAssumption

-----------------------------------------------------------------------------
(* Every step keeps it *)

\* The copy of current, with a new id.
LEMMA GetPidKeeps ==
  ASSUME IInv, NEW t \in Task, GetPid(t)
  PROVE  IInv'
<1>1. TypeOK /\ ListOK /\ EmbryoOK /\ Window
  BY DEF IInv
<1>2. PICK p, r : p = (CHOOSE q \in Unallocated : TRUE) /\ r = get_pid
  OBVIOUS
<1>3. /\ p \in Task /\ task[p].state = "FREE" /\ task[t].state = "LIVE" /\ p # t
  BY <1>2 DEF GetPid, Unallocated, Running
<1>4. /\ NotOvertaken(r) /\ CanScan
      /\ last_pid' = r.last_pid /\ next_safe' = r.next_safe /\ tasklist' = tasklist
      /\ \/ r.pid = 0 /\ exhausted' = TRUE /\ task' = task
         \/ /\ r.pid # 0 /\ exhausted' = exhausted
            /\ \E thread \in BOOLEAN :
                 task' = [task EXCEPT ![p] =
                   [task[t] EXCEPT !.state = "EMBRYO", !.pid = r.pid, !.forker = t,
                                   !.thread = thread]]
  BY <1>2 DEF GetPid
<1>5. /\ r.last_pid \in Id \ {0} /\ r.next_safe \in 1 .. PID_MAX
      /\ r.pid = 0 \/ r.pid = r.last_pid
      /\ ~exhausted /\ r.pid # 0 =>
           \A u \in Task : task[u].state # "FREE" =>
             \A id \in Ids(u) : id \notin r.pid .. r.next_safe - 1
  BY <1>2, <1>4, GetPidFinds
<1>6. CASE r.pid = 0
  <2>1. exhausted' = TRUE /\ task' = task
    BY <1>4, <1>6
  <2>2. TypeOK'
    BY <1>1, <1>4, <1>5, <2>1 DEF TypeOK
  <2>3. ListOK'
    BY <1>1, <1>4, <2>1, Zenon DEF ListOK
  <2>5. EmbryoOK'
    BY <1>1, <1>4, <2>1, Zenon DEF EmbryoOK, Embryos
  <2>4. Window'
    BY <2>1 DEF Window
  <2> QED
    BY <2>2, <2>3, <2>4, <2>5 DEF IInv
<1>7. CASE r.pid # 0
  <2>1. PICK thread \in BOOLEAN :
          task' = [task EXCEPT ![p] =
                    [task[t] EXCEPT !.state = "EMBRYO", !.pid = r.pid, !.forker = t,
                                    !.thread = thread]]
    BY <1>4, <1>7
  <2>2. PICK k : k = [task[t] EXCEPT !.state = "EMBRYO", !.pid = r.pid, !.forker = t,
                                     !.thread = thread]
    OBVIOUS
  <2>3. /\ task \in [Task -> [state : {"FREE", "EMBRYO", "LIVE"}, pid : Id, tgid : Id,
                              pgrp : Id, session : Id, forker : Task \cup {NULL},
                              thread : BOOLEAN]]
        /\ task' = [task EXCEPT ![p] = k] /\ r.pid = r.last_pid /\ exhausted' = exhausted
    BY <1>1, <1>4, <1>5, <1>7, <2>1, <2>2 DEF TypeOK
  <2>4. /\ k \in [state : {"FREE", "EMBRYO", "LIVE"}, pid : Id, tgid : Id, pgrp : Id,
                  session : Id, forker : Task \cup {NULL}, thread : BOOLEAN]
        /\ k.state = "EMBRYO" /\ k.pid = r.pid /\ k.forker = t /\ k.tgid = task[t].tgid
        /\ k.pgrp = task[t].pgrp /\ k.session = task[t].session
    BY <1>5, <2>2, <2>3
  <2>5. task'[p] = k /\ \A u \in Task \ {p} : task'[u] = task[u]
    BY <1>3, <2>3
  <2>6. TypeOK'
    BY <1>1, <1>4, <1>5, <2>3, <2>4 DEF TypeOK
  <2>7. ListOK'
    <3>1. \A u \in Task : task'[u].state = "LIVE" <=> task[u].state = "LIVE"
      BY <1>3, <2>4, <2>5
    <3> QED
      BY <1>1, <1>4, <3>1 DEF ListOK
  <2>8. EmbryoOK'
    <3>1. SUFFICES ASSUME NEW q \in Embryos'
                   PROVE  \E u \in Task :
                            /\ task'[q].forker = u /\ task'[u].state = "LIVE"
                            /\ task'[q].tgid = task'[u].tgid
                            /\ task'[q].pgrp = task'[u].pgrp
                            /\ task'[q].session = task'[u].session
      BY DEF EmbryoOK
    <3>2. CASE q = p
      BY <1>3, <2>4, <2>5, <3>2
    <3>3. CASE q # p
      <4>1. q \in Embryos
        BY <2>5, <3>1, <3>3 DEF Embryos
      <4> QED
        BY <1>1, <1>3, <2>5, <3>3, <4>1 DEF EmbryoOK, Embryos
    <3> QED
      BY <3>2, <3>3
  <2>9. Window'
    <3>1. SUFFICES ASSUME ~exhausted, NEW u \in Task, task'[u].state # "FREE",
                          NEW id \in Ids(u)'
                   PROVE  id \notin r.last_pid + 1 .. r.next_safe - 1
      BY <1>4, <2>3 DEF Window
    <3>2. r.pid \in Nat
      BY <1>5, <2>3 DEF Id
    <3>3. \A v \in Task : task[v].state # "FREE" =>
            \A j \in Ids(v) : j \notin r.pid .. r.next_safe - 1
      BY <1>5, <1>7, <3>1
    <3>4. id = r.pid \/ \E v \in Task : task[v].state # "FREE" /\ id \in Ids(v)
      BY <1>3, <2>4, <2>5, <3>1 DEF Ids
    <3>5. CASE id = r.pid
      BY <1>5, <2>3, <3>2, <3>5
    <3>6. CASE \E v \in Task : task[v].state # "FREE" /\ id \in Ids(v)
      BY <1>1, <1>5, <2>3, <3>2, <3>3, <3>6, IdAssumption
    <3> QED
      BY <3>4, <3>5, <3>6
  <2> QED
    BY <2>6, <2>7, <2>8, <2>9 DEF IInv
<1> QED
  BY <1>6, <1>7

\* A fork that fails, or the release of a task that is not forking: q is free.
LEMMA FreeKeeps ==
  ASSUME IInv, NEW q \in Task, ~Forking(q), task' = [task EXCEPT ![q] = FreeTask],
         UNCHANGED << last_pid, next_safe, exhausted >>
  PROVE  /\ TypeOK /\ tasklist' \in Seq(Task) => TypeOK'
         /\ EmbryoOK' /\ Window'
<1>1. TypeOK /\ EmbryoOK /\ Window
  BY DEF IInv
<1>2. FreeTask \in [state : {"FREE", "EMBRYO", "LIVE"}, pid : Id, tgid : Id, pgrp : Id,
                   session : Id, forker : Task \cup {NULL}, thread : BOOLEAN]
  BY IdAssumption DEF FreeTask, Id
<1>3. /\ task'[q].state = "FREE" /\ \A u \in Task \ {q} : task'[u] = task[u]
      /\ tasklist' \in Seq(Task) => TypeOK'
  BY <1>1, <1>2 DEF TypeOK, FreeTask
<1>4. EmbryoOK'
  <2>1. SUFFICES ASSUME NEW u \in Embryos'
                 PROVE  \E t \in Task :
                          /\ task'[u].forker = t /\ task'[t].state = "LIVE"
                          /\ task'[u].tgid = task'[t].tgid /\ task'[u].pgrp = task'[t].pgrp
                          /\ task'[u].session = task'[t].session
    BY DEF EmbryoOK
  <2>2. u \in Embryos /\ u # q
    BY <1>3 DEF Embryos
  <2>3. PICK t \in Task : /\ task[u].forker = t /\ task[t].state = "LIVE"
                         /\ task[u].tgid = task[t].tgid /\ task[u].pgrp = task[t].pgrp
                         /\ task[u].session = task[t].session
    BY <1>1, <2>2 DEF EmbryoOK
  <2>4. t # q
    BY <2>2, <2>3 DEF Forking
  <2> QED
    BY <1>3, <2>2, <2>3, <2>4 DEF Embryos
<1>5. Window'
  BY <1>1, <1>3 DEF Window, Ids
<1> QED
  BY <1>3, <1>4, <1>5

\* One of the copies fails.
LEMMA BadForkKeeps ==
  ASSUME IInv, NEW p \in Task, BadFork(p)
  PROVE  IInv'
<1>1. TypeOK /\ ListOK /\ EmbryoOK
  BY DEF IInv
<1>2. /\ task[p].state = "EMBRYO" /\ task' = [task EXCEPT ![p] = FreeTask]
      /\ UNCHANGED << tasklist, last_pid, next_safe, exhausted >>
  BY DEF BadFork, Embryos
<1>3. ~Forking(p)
  BY <1>1, <1>2 DEF Forking, EmbryoOK
<1>4. /\ tasklist' \in Seq(Task)
      /\ \A u \in Task : task'[u].state = "LIVE" <=> task[u].state = "LIVE"
  BY <1>1, <1>2 DEF TypeOK, FreeTask
<1>5. ListOK'
  BY <1>1, <1>2, <1>4 DEF ListOK
<1> QED
  BY <1>1, <1>2, <1>3, <1>4, <1>5, FreeKeeps DEF IInv

\* A list without its entry j: those behind it move up.
LEMMA RemoveAtEntries ==
  ASSUME NEW q \in Seq(Task), NEW j \in 1 .. Len(q)
  PROVE  /\ RemoveAt(q, j) \in Seq(Task)
         /\ Len(RemoveAt(q, j)) = Len(q) - 1
         /\ \A m \in 1 .. Len(q) - 1 : RemoveAt(q, j)[m] = IF m < j THEN q[m] ELSE q[m + 1]
<1>1. q \in [1 .. Len(q) -> Task] /\ Len(q) \in Nat
  OBVIOUS
<1> DEFINE s == SubSeq(q, 1, j - 1)
           t == SubSeq(q, j + 1, Len(q))
<1>2. s \in Seq(Task) /\ Len(s) = j - 1 /\ \A m \in 1 .. j - 1 : s[m] = q[m]
  BY <1>1
<1>3. /\ t \in Seq(Task) /\ Len(t) = Len(q) - j
      /\ \A m \in 1 .. Len(q) - j : t[m] = q[m + j]
  <2>1. \A m \in j + 1 .. Len(q) : q[m] \in Task
    BY <1>1
  <2>2. /\ t \in Seq(Task) /\ Len(t) = IF j + 1 <= Len(q) THEN Len(q) - (j + 1) + 1 ELSE 0
        /\ \A m \in 1 .. Len(q) - (j + 1) + 1 : t[m] = q[j + 1 + m - 1]
    <3>1. j + 1 \in Int /\ Len(q) \in Int
      BY <1>1
    <3> QED
      BY <2>1, <3>1, SubSeqProperties
  <2>3. (IF j + 1 <= Len(q) THEN Len(q) - (j + 1) + 1 ELSE 0) = Len(q) - j
    <3>1. \A n \in Nat : \A m \in 1 .. n : (IF m + 1 <= n THEN n - (m + 1) + 1 ELSE 0) = n - m
      OBVIOUS
    <3> QED
      BY <1>1, <3>1, Zenon
  <2> HIDE DEF t
  <2>4. ASSUME NEW m \in 1 .. Len(q) - j PROVE t[m] = q[m + j]
    <3>1. m \in 1 .. Len(q) - (j + 1) + 1 /\ j + 1 + m - 1 = m + j
      BY <1>1
    <3> QED
      BY <2>2, <3>1
  <2> QED
    BY <2>2, <2>3, <2>4
<1>4. RemoveAt(q, j) = s \o t
  BY DEF RemoveAt
<1> HIDE DEF s, t
<1>5. /\ s \o t \in Seq(Task) /\ Len(s \o t) = Len(q) - 1
      /\ \A m \in 1 .. Len(q) - 1 : (s \o t)[m] = IF m < j THEN s[m] ELSE t[m - (j - 1)]
  <2>1. /\ s \o t \in Seq(Task) /\ Len(s \o t) = Len(s) + Len(t)
        /\ \A m \in 1 .. Len(s) + Len(t) :
             (s \o t)[m] = IF m <= Len(s) THEN s[m] ELSE t[m - Len(s)]
    BY <1>2, <1>3, ConcatProperties
  <2>2. Len(s) + Len(t) = Len(q) - 1
    BY <1>1, <1>2, <1>3
  <2>3. \A m \in 1 .. Len(q) - 1 : m <= Len(s) <=> m < j
    BY <1>1, <1>2
  <2> HIDE DEF s, t
  <2> QED
    BY <1>2, <2>1, <2>2, <2>3
<1>6. ASSUME NEW m \in 1 .. Len(q) - 1
      PROVE  (s \o t)[m] = IF m < j THEN q[m] ELSE q[m + 1]
  <2>1. CASE m < j
    <3>1. m \in 1 .. j - 1 /\ s[m] = q[m]
      BY <1>1, <1>2, <2>1
    <3> QED
      BY <1>5, <2>1, <3>1
  <2>2. CASE ~(m < j)
    <3>1. m - (j - 1) \in 1 .. Len(q) - j /\ m - (j - 1) + j = m + 1
      BY <1>1, <2>2
    <3>2. t[m - (j - 1)] = q[m + 1]
      BY <1>3, <3>1
    <3> QED
      BY <1>5, <2>2, <3>2
  <2> QED
    BY <2>1, <2>2
<1> QED
  BY <1>4, <1>5, <1>6

\* The list has one task less, once each.
LEMMA ListWithout ==
  ASSUME NEW q \in Seq(Task), NEW i \in DOMAIN q,
         \A m, n \in DOMAIN q : q[m] = q[n] => m = n
  PROVE  /\ RemoveAt(q, i) \in Seq(Task)
         /\ \A m, n \in DOMAIN RemoveAt(q, i) :
              RemoveAt(q, i)[m] = RemoveAt(q, i)[n] => m = n
         /\ \A x : (\E m \in DOMAIN RemoveAt(q, i) : RemoveAt(q, i)[m] = x)
                      <=> x # q[i] /\ \E m \in DOMAIN q : q[m] = x
<1>1. PICK l : l = Len(q) /\ l \in Nat /\ DOMAIN q = 1 .. l /\ i \in 1 .. l
  OBVIOUS
<1>2. PICK r : r = RemoveAt(q, i)
  OBVIOUS
<1>3. /\ r \in Seq(Task) /\ Len(r) = l - 1
      /\ \A m \in 1 .. l - 1 : r[m] = IF m < i THEN q[m] ELSE q[m + 1]
  <2>1. /\ RemoveAt(q, i) \in Seq(Task) /\ Len(RemoveAt(q, i)) = Len(q) - 1
        /\ \A m \in 1 .. Len(q) - 1 :
             RemoveAt(q, i)[m] = IF m < i THEN q[m] ELSE q[m + 1]
    <3>1. i \in 1 .. Len(q)
      BY <1>1
    <3> QED
      BY <3>1, RemoveAtEntries, Zenon
  <2> QED
    BY <1>1, <1>2, <2>1
<1>4. DOMAIN r = 1 .. l - 1
  BY <1>1, <1>3
<1>5. \A m, n \in DOMAIN r : r[m] = r[n] => m = n
  BY <1>1, <1>3, <1>4
<1>6. ASSUME NEW x
      PROVE  (\E m \in DOMAIN r : r[m] = x) <=> x # q[i] /\ \E m \in DOMAIN q : q[m] = x
  <2>1. ASSUME NEW m \in DOMAIN r, r[m] = x PROVE x # q[i] /\ \E n \in DOMAIN q : q[n] = x
    BY <1>1, <1>3, <1>4, <2>1
  <2>2. ASSUME NEW m \in DOMAIN q, q[m] = x, x # q[i] PROVE \E n \in DOMAIN r : r[n] = x
    <3>1. CASE m < i
      BY <1>1, <1>3, <1>4, <2>2, <3>1
    <3>2. CASE m > i
      <4>1. m - 1 \in DOMAIN r /\ r[m - 1] = x
        BY <1>1, <1>3, <1>4, <2>2, <3>2
      <4> QED
        BY <4>1
    <3> QED
      BY <1>1, <2>2, <3>1, <3>2
  <2> QED
    BY <2>1, <2>2
<1> QED
  BY <1>2, <1>3, <1>5, <1>6

\* unhash_process: the task is off the list.
LEMMA ReleaseKeeps ==
  ASSUME IInv, NEW p \in Task, release_task(p)
  PROVE  IInv'
<1>1. TypeOK /\ ListOK
  BY DEF IInv
<1>2. PICK i : i = (CHOOSE j \in DOMAIN tasklist : tasklist[j] = p)
  OBVIOUS
<1>3. /\ ~Forking(p) /\ task[p].state = "LIVE" /\ task' = [task EXCEPT ![p] = FreeTask]
      /\ tasklist' = RemoveAt(tasklist, i) /\ UNCHANGED << last_pid, next_safe, exhausted >>
  BY <1>2 DEF release_task, Running
<1>4. i \in DOMAIN tasklist /\ tasklist[i] = p
  BY <1>1, <1>2, <1>3 DEF ListOK
<1>5. /\ tasklist \in Seq(Task)
      /\ \A m, n \in DOMAIN tasklist : tasklist[m] = tasklist[n] => m = n
  BY <1>1 DEF TypeOK, ListOK
<1>6. /\ tasklist' \in Seq(Task)
      /\ \A m, n \in DOMAIN tasklist' : tasklist'[m] = tasklist'[n] => m = n
      /\ \A x : (\E m \in DOMAIN tasklist' : tasklist'[m] = x)
                   <=> x # p /\ \E m \in DOMAIN tasklist : tasklist[m] = x
  <2>1. PICK q : q = tasklist
    OBVIOUS
  <2>2. tasklist' = RemoveAt(q, i) /\ q \in Seq(Task) /\ i \in DOMAIN q /\ q[i] = p
        /\ \A m, n \in DOMAIN q : q[m] = q[n] => m = n
    BY <1>3, <1>4, <1>5, <2>1
  <2>3. /\ RemoveAt(q, i) \in Seq(Task)
        /\ \A m, n \in DOMAIN RemoveAt(q, i) :
             RemoveAt(q, i)[m] = RemoveAt(q, i)[n] => m = n
        /\ \A x : (\E m \in DOMAIN RemoveAt(q, i) : RemoveAt(q, i)[m] = x)
                     <=> x # q[i] /\ \E m \in DOMAIN q : q[m] = x
    BY <2>2, ListWithout, Zenon
  <2>4. PICK r : r = RemoveAt(q, i)
    OBVIOUS
  <2>5. /\ r \in Seq(Task) /\ \A m, n \in DOMAIN r : r[m] = r[n] => m = n
        /\ \A x : (\E m \in DOMAIN r : r[m] = x) <=> x # q[i] /\ \E m \in DOMAIN q : q[m] = x
    BY <2>3, <2>4, Zenon
  <2> QED
    BY <2>1, <2>2, <2>4, <2>5
<1>7. ListOK'
  <2>1. \A u \in Task : task'[u].state = "LIVE" <=> u # p /\ task[u].state = "LIVE"
    BY <1>1, <1>3 DEF TypeOK, FreeTask
  <2> QED
    BY <1>1, <1>6, <2>1 DEF ListOK
<1> QED
  BY <1>1, <1>3, <1>6, <1>7, FreeKeeps DEF IInv

\* The child joins the list.
LEMMA LinkKeeps ==
  ASSUME IInv, NEW p \in Task, Link(p)
  PROVE  IInv'
<1>1. TypeOK /\ ListOK /\ EmbryoOK /\ Window
  BY DEF IInv
<1>2. PICK tgid, k : /\ tgid = (IF task[p].thread THEN task[task[p].forker].tgid
                                ELSE task[p].pid)
                     /\ k = [task[p] EXCEPT !.state = "LIVE", !.tgid = tgid,
                                            !.forker = NULL, !.thread = FALSE]
  OBVIOUS
<1>3. /\ p \in Embryos /\ task[p].state = "EMBRYO" /\ task' = [task EXCEPT ![p] = k]
      /\ tasklist' = Append(tasklist, p) /\ UNCHANGED << last_pid, next_safe, exhausted >>
  BY <1>2 DEF Link, Embryos
<1>4. PICK t \in Task : /\ task[p].forker = t /\ task[t].state = "LIVE"
                       /\ task[p].tgid = task[t].tgid
  BY <1>1, <1>3 DEF EmbryoOK
<1>5. /\ task \in [Task -> [state : {"FREE", "EMBRYO", "LIVE"}, pid : Id, tgid : Id,
                            pgrp : Id, session : Id, forker : Task \cup {NULL},
                            thread : BOOLEAN]]
      /\ tasklist \in Seq(Task)
  BY <1>1 DEF TypeOK
<1>6. tgid \in {task[p].tgid, task[p].pid} /\ tgid \in Id
  BY <1>2, <1>4, <1>5
<1>7. /\ k \in [state : {"FREE", "EMBRYO", "LIVE"}, pid : Id, tgid : Id, pgrp : Id,
                session : Id, forker : Task \cup {NULL}, thread : BOOLEAN]
      /\ k.state = "LIVE" /\ k.pid = task[p].pid /\ k.tgid = tgid
      /\ k.pgrp = task[p].pgrp /\ k.session = task[p].session
  BY <1>2, <1>5, <1>6
<1>8. task'[p] = k /\ \A u \in Task \ {p} : task'[u] = task[u]
  BY <1>3, <1>5
<1>9. TypeOK'
  BY <1>1, <1>3, <1>5, <1>7 DEF TypeOK
<1>10. ListOK'
  <2>1. \A u \in Task : task'[u].state = "LIVE" <=> u = p \/ task[u].state = "LIVE"
    BY <1>7, <1>8
  <2>2. PICK l : l = Len(tasklist) /\ l \in Nat /\ DOMAIN tasklist = 1 .. l
    BY <1>5
  <2>3. /\ DOMAIN tasklist' = 1 .. l + 1 /\ tasklist'[l + 1] = p
        /\ \A i \in 1 .. l : tasklist'[i] = tasklist[i]
    BY <1>3, <1>5, <2>2
  <2>4. \A i \in 1 .. l : tasklist[i] # p
    BY <1>1, <1>3, <2>2 DEF ListOK
  <2>5. \A i, j \in DOMAIN tasklist' : tasklist'[i] = tasklist'[j] => i = j
    BY <1>1, <2>2, <2>3, <2>4 DEF ListOK
  <2>6. \A u \in Task : task'[u].state = "LIVE" <=> \E i \in DOMAIN tasklist' : tasklist'[i] = u
    <3>1. \A u \in Task : task[u].state = "LIVE" <=> \E i \in 1 .. l : tasklist[i] = u
      BY <1>1, <2>2 DEF ListOK
    <3>2. 1 .. l \subseteq 1 .. l + 1 /\ l + 1 \in 1 .. l + 1
          /\ \A i \in 1 .. l + 1 : i = l + 1 \/ i \in 1 .. l
      BY <2>2
    <3> QED
      BY <2>1, <2>3, <3>1, <3>2
  <2> QED
    BY <2>5, <2>6 DEF ListOK
<1>11. EmbryoOK'
  <2>1. SUFFICES ASSUME NEW u \in Embryos'
                 PROVE  \E v \in Task :
                          /\ task'[u].forker = v /\ task'[v].state = "LIVE"
                          /\ task'[u].tgid = task'[v].tgid /\ task'[u].pgrp = task'[v].pgrp
                          /\ task'[u].session = task'[v].session
    BY DEF EmbryoOK
  <2>2. u \in Embryos /\ u # p
    BY <1>7, <1>8 DEF Embryos
  <2>3. PICK v \in Task : /\ task[u].forker = v /\ task[v].state = "LIVE"
                         /\ task[u].tgid = task[v].tgid /\ task[u].pgrp = task[v].pgrp
                         /\ task[u].session = task[v].session
    BY <1>1, <2>2 DEF EmbryoOK
  <2> QED
    BY <1>3, <1>8, <2>2, <2>3 DEF Embryos
<1>12. Window'
  <2>1. \A u \in Task :
          task'[u].state # "FREE" => task[u].state # "FREE" /\ Ids(u)' \subseteq Ids(u)
    BY <1>3, <1>6, <1>7, <1>8 DEF Ids
  <2> QED
    BY <1>1, <1>3, <2>1 DEF Window
<1> QED
  BY <1>9, <1>10, <1>11, <1>12 DEF IInv

\* A process that is not forking takes ids that are in use already, or 1.
LEMMA SetIdsKeeps ==
  ASSUME IInv, NEW t \in Task, Running(t), NEW session \in Id, NEW pgrp \in Id,
         SetIds(t, session, pgrp),
         \A id \in {session, pgrp} :
           id = 1 \/ \E u \in Task : task[u].state # "FREE" /\ id \in Ids(u)
  PROVE  IInv'
<1>1. TypeOK /\ ListOK /\ EmbryoOK /\ Window
  BY DEF IInv
<1>2. PICK k : k = [task[t] EXCEPT !.session = session, !.pgrp = pgrp]
  OBVIOUS
<1>3. /\ task \in [Task -> [state : {"FREE", "EMBRYO", "LIVE"}, pid : Id, tgid : Id,
                            pgrp : Id, session : Id, forker : Task \cup {NULL},
                            thread : BOOLEAN]]
      /\ tasklist' = tasklist /\ UNCHANGED << last_pid, next_safe, exhausted >>
  BY <1>1 DEF TypeOK, SetIds
<1>4. task' = [task EXCEPT ![t] = k]
  BY <1>2, <1>3 DEF SetIds
<1>5. /\ k \in [state : {"FREE", "EMBRYO", "LIVE"}, pid : Id, tgid : Id, pgrp : Id,
                session : Id, forker : Task \cup {NULL}, thread : BOOLEAN]
      /\ k.state = task[t].state /\ k.pid = task[t].pid /\ k.tgid = task[t].tgid
      /\ k.pgrp = pgrp /\ k.session = session
  BY <1>2, <1>3
<1>6. task'[t] = k /\ \A u \in Task \ {t} : task'[u] = task[u]
  BY <1>3, <1>4
<1>7. TypeOK'
  BY <1>1, <1>3, <1>4, <1>5 DEF TypeOK
<1>8. ListOK'
  <2>1. \A u \in Task : task'[u].state = task[u].state
    BY <1>5, <1>6
  <2> QED
    BY <1>1, <1>3, <2>1 DEF ListOK
<1>9. EmbryoOK'
  <2>1. \A u \in Task : u \in Embryos' => u \in Embryos /\ u # t /\ task[u].forker # t
    BY <1>5, <1>6 DEF Running, Forking, Embryos
  <2> QED
    BY <1>1, <1>6, <2>1 DEF EmbryoOK, Embryos
<1>10. Window'
  <2>1. SUFFICES ASSUME ~exhausted, NEW u \in Task, task'[u].state # "FREE", NEW id \in Ids(u)'
                 PROVE  id \notin last_pid + 1 .. next_safe - 1
    BY <1>3 DEF Window
  <2>2. id = 1 \/ \E v \in Task : task[v].state # "FREE" /\ id \in Ids(v)
    BY <1>5, <1>6, <2>1 DEF Ids
  <2> QED
    BY <1>1, <2>1, <2>2, IdAssumption DEF Window, TypeOK, Id
<1> QED
  BY <1>7, <1>8, <1>9, <1>10 DEF IInv

\* setsid, setpgid and daemonize.
LEMMA RegroupKeeps ==
  ASSUME IInv, NEW t \in Task, sys_setsid(t) \/ sys_setpgid(t) \/ daemonize(t)
  PROVE  IInv'
<1>1. TypeOK /\ ListOK /\ Running(t) /\ task[t].state # "FREE"
  BY DEF IInv, sys_setsid, sys_setpgid, daemonize, Running
<1>2. \A u \in Task : {task[u].pid, task[u].pgrp, task[u].session} \subseteq Id \cap Ids(u)
  BY <1>1 DEF TypeOK, Ids
<1>3. CASE sys_setsid(t)
  BY <1>1, <1>2, <1>3, SetIdsKeeps DEF sys_setsid
<1>4. CASE sys_setpgid(t)
  <2>1. PICK p \in ToSet(tasklist) :
          \E pgid \in {task[t].pid, task[p].pgrp} : SetIds(t, task[t].session, pgid)
    BY <1>4 DEF sys_setpgid
  <2>2. p \in Task /\ task[p].state = "LIVE"
    BY <1>1, <2>1 DEF ToSet, TypeOK, ListOK
  <2>3. PICK pgid : pgid \in {task[t].pid, task[p].pgrp} /\ SetIds(t, task[t].session, pgid)
    BY <2>1
  <2> QED
    BY <1>1, <1>2, <2>2, <2>3, SetIdsKeeps
<1>5. CASE daemonize(t)
  BY <1>1, <1>5, SetIdsKeeps, IdAssumption DEF daemonize, Id
<1> QED
  BY <1>3, <1>4, <1>5

-----------------------------------------------------------------------------
(* Theorems *)

\* At first there is init, with id 1.
LEMMA InitInv ==
  ASSUME Init
  PROVE  IInv
<1>1. PICK k : k = [FreeTask EXCEPT !.state = "LIVE", !.pid = 1, !.tgid = 1]
  OBVIOUS
<1>2. /\ {k, FreeTask} \subseteq [state : {"FREE", "EMBRYO", "LIVE"}, pid : Id, tgid : Id,
                                 pgrp : Id, session : Id, forker : Task \cup {NULL},
                                 thread : BOOLEAN]
      /\ k.state = "LIVE" /\ FreeTask.state = "FREE"
  <2>1. 0 \in Id /\ 1 \in Id
    BY IdAssumption DEF Id
  <2>2. k = [state |-> "LIVE", pid |-> 1, tgid |-> 1, pgrp |-> 0, session |-> 0,
             forker |-> NULL, thread |-> FALSE]
    BY <1>1 DEF FreeTask
  <2> QED
    BY <2>1, <2>2 DEF FreeTask
<1>3. /\ task = [t \in Task |-> IF t = child_reaper THEN k ELSE FreeTask]
      /\ tasklist = << child_reaper >> /\ last_pid = 1 /\ next_safe = PID_MAX
      /\ exhausted = FALSE
  BY <1>1 DEF Init
<1>4. k.pid = 1 /\ k.tgid = 1 /\ k.pgrp = 0 /\ k.session = 0
  BY <1>1 DEF FreeTask
<1>5. TypeOK
  <2>1. last_pid \in Id \ {0} /\ next_safe \in 1 .. PID_MAX
    BY <1>3, IdAssumption DEF Id
  <2>3. exhausted \in BOOLEAN
    BY <1>3
  <2>2. tasklist \in Seq(Task)
    BY <1>3, TaskAssumption
  <2> QED
    BY <1>2, <1>3, <2>1, <2>2, <2>3 DEF TypeOK
<1>6. ListOK
  BY <1>2, <1>3, TaskAssumption DEF ListOK
<1>7. EmbryoOK
  BY <1>2, <1>3 DEF EmbryoOK, Embryos
<1>8. Window
  BY <1>2, <1>3, <1>4, IdAssumption DEF Window, Ids
<1> QED
  BY <1>5, <1>6, <1>7, <1>8 DEF IInv

\* Every step keeps the invariant.
LEMMA NextKeeps ==
  ASSUME IInv, [Next]_vars
  PROVE  IInv'
<1>1. CASE vars' = vars
  <2>1. /\ task' = task /\ tasklist' = tasklist /\ last_pid' = last_pid
        /\ next_safe' = next_safe /\ exhausted' = exhausted
    BY <1>1 DEF vars
  <2> QED
    BY <2>1 DEF IInv, TypeOK, ListOK, EmbryoOK, Embryos, Window, Ids
<1>2. CASE Next
  BY <1>2, GetPidKeeps, BadForkKeeps, LinkKeeps, ReleaseKeeps, RegroupKeeps DEF Next
<1> QED
  BY <1>1, <1>2

\* Only get_pid makes an embryo of a free task, and gives it an id nobody uses.
LEMMA FreshStep ==
  ASSUME IInv, [Next]_vars, NEW p \in Task, ~exhausted,
         task[p].state = "FREE", task'[p].state = "EMBRYO",
         NEW t \in Task, task[t].state # "FREE"
  PROVE  task'[p].pid \notin Ids(t)
<1>1. TypeOK /\ ListOK
  BY DEF IInv
<1>2. task \in [Task -> [state : {"FREE", "EMBRYO", "LIVE"}, pid : Id, tgid : Id, pgrp : Id,
                        session : Id, forker : Task \cup {NULL}, thread : BOOLEAN]]
  BY <1>1 DEF TypeOK
<1>3. ASSUME NEW u \in Task, BadFork(u) \/ Link(u) \/ release_task(u) PROVE FALSE
  <2>1. task[u].state # "FREE"
    BY <1>3 DEF BadFork, Link, release_task, Embryos, Running
  <2>2. \E k : task' = [task EXCEPT ![u] = k]
    BY <1>3 DEF BadFork, Link, release_task
  <2>3. task'[p] = task[p]
    BY <1>2, <2>1, <2>2
  <2> QED
    BY <2>3
<1>4. ASSUME NEW u \in Task, sys_setsid(u) \/ sys_setpgid(u) \/ daemonize(u) PROVE FALSE
  <2>1. \E a, b : task' = [task EXCEPT ![u].session = a, ![u].pgrp = b]
    BY <1>4 DEF sys_setsid, sys_setpgid, daemonize, SetIds
  <2>2. task'[p].state = task[p].state
    BY <1>2, <2>1
  <2> QED
    BY <2>2
<1>5. PICK u \in Task : GetPid(u)
  BY <1>3, <1>4 DEF Next, vars
<1>6. PICK q, r : q = (CHOOSE v \in Unallocated : TRUE) /\ r = get_pid
  OBVIOUS
<1>7. /\ CanScan /\ NotOvertaken(r) /\ q \in Task
      /\ \/ r.pid = 0 /\ task' = task
         \/ r.pid # 0 /\ \E thread \in BOOLEAN :
              task' = [task EXCEPT ![q] =
                [task[u] EXCEPT !.state = "EMBRYO", !.pid = r.pid, !.forker = u,
                                !.thread = thread]]
  BY <1>5, <1>6 DEF GetPid, Unallocated
<1>8. r.pid # 0 /\ task'[p].pid = r.pid
  <2>1. PICK thread \in BOOLEAN :
          task' = [task EXCEPT ![q] =
                    [task[u] EXCEPT !.state = "EMBRYO", !.pid = r.pid, !.forker = u,
                                    !.thread = thread]]
    BY <1>7
  <2>2. PICK k : k = [task[u] EXCEPT !.state = "EMBRYO", !.pid = r.pid, !.forker = u,
                                     !.thread = thread]
    OBVIOUS
  <2>3. k.pid = r.pid /\ task' = [task EXCEPT ![q] = k]
    BY <1>2, <2>1, <2>2
  <2>4. q = p
    BY <1>2, <1>7, <2>3
  <2> QED
    BY <1>2, <1>7, <2>3, <2>4
<1>9. /\ r.last_pid \in Id \ {0} /\ r.next_safe \in 1 .. PID_MAX /\ r.pid = r.last_pid
      /\ r.pid < r.next_safe
      /\ \A id \in Ids(t) : id \notin r.pid .. r.next_safe - 1
  BY <1>6, <1>7, <1>8, GetPidFinds
<1> QED
  BY <1>8, <1>9, IdAssumption DEF Id

\* The types are kept; in particular a scan ends, and finds an id or none, whenever an id
\* is left or last_pid has come round once.
THEOREM PidTypesHold == Spec => []TypeOK
<1>1. IInv => TypeOK
  BY DEF IInv
<1> QED
  BY <1>1, InitInv, NextKeeps, PTL DEF Spec

\* No id is handed out that is in use, whatever forks, exits and regroups meanwhile.
THEOREM IdsAreFresh == Spec => FreshPid
<1>1. IInv /\ [Next]_vars =>
        [\A p \in Task : ~exhausted /\ task[p].state = "FREE" /\ task'[p].state = "EMBRYO"
           => \A t \in {q \in Task : task[q].state # "FREE"} :
                task'[p].pid \notin {task[t].pid, task[t].tgid, task[t].pgrp, task[t].session}]_vars
  BY FreshStep DEF Ids
<1> QED
  BY <1>1, InitInv, NextKeeps, PTL DEF Spec, FreshPid
=============================================================================
