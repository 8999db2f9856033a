--------------------------- MODULE SwitchInfoProofs ---------------------------
(***************************************************************************)
(* The ring of switch records implements the log of SwitchLog, for every   *)
(* size of the ring and every length of a burst, and records every exit.   *)
(***************************************************************************)
EXTENDS SwitchInfo, SequenceTheorems, TLAPS

Size == SWITCH_INFO_ARRAY_SIZE

-----------------------------------------------------------------------------
(* Indices *)

\* The remainder, for the numbers that sums and differences of indices are.
Wrap(n) == IF n < 0 THEN n + Size ELSE IF n < Size THEN n ELSE n - Size

\* The remainder of such a number is its value wrapped around.
LEMMA WrapMod == ASSUME NEW n \in -Size .. 2 * Size - 1 PROVE n % Size = Wrap(n)
<1>1. Size \in Nat \ {0}
  BY RingAssumption DEF Size
<1>2. CASE n < 0
  BY <1>1, <1>2 DEF Wrap
<1>3. CASE 0 <= n /\ n < Size
  BY <1>1, <1>3 DEF Wrap
<1>4. CASE Size <= n
  BY <1>1, <1>4 DEF Wrap
<1> QED
  BY <1>1, <1>2, <1>3, <1>4

\* The records a ring keeps, and the slot of the i-th.
KeptIn(r)    == (r.end - r.start) % SWITCH_INFO_ARRAY_SIZE
Slot(r, i)   == (r.start + i - 1) % SWITCH_INFO_ARRAY_SIZE
RecordsIn(r) == [i \in 1 .. KeptIn(r) |-> r.info[Slot(r, i)]]

\* They are what the refinement mapping reads.
LEMMA KeptIsKeptIn == kept_records = RecordsIn(ring) /\ Kept = KeptIn(ring)
BY DEF kept_records, RecordsIn, Kept, KeptIn, Slot

\* Fields of a ring.
LEMMA RingFields ==
  ASSUME NEW r \in Rings
  PROVE  /\ r.info \in [Index -> Infos] /\ r.start \in Index /\ r.end \in Index
         /\ r.remaining \in Int /\ Size \in Nat /\ Size > 1 /\ Index = 0 .. Size - 1
BY RingAssumption DEF Rings, Index, Size

\* INC_INFO goes round (sched.c:187).
LEMMA NextIndex ==
  ASSUME NEW i \in Index
  PROVE  INC_INFO(i) \in Index /\ INC_INFO(i) = IF i = Size - 1 THEN 0 ELSE i + 1
<1>1. Size \in Nat /\ Size > 1 /\ i \in 0 .. Size - 1
  BY RingAssumption DEF Size, Index
<1>2. i + 1 \in -Size .. 2 * Size - 1
  BY <1>1
<1>3. INC_INFO(i) = Wrap(i + 1)
  BY <1>2, WrapMod DEF INC_INFO, Size
<1> QED
  BY <1>1, <1>3 DEF Wrap, Index, Size

\* The slots of the records kept are those from start up to end, without end.
LEMMA Slots ==
  ASSUME NEW r \in Rings
  PROVE  /\ KeptIn(r) \in 0 .. Size - 1
         /\ KeptIn(r) = IF r.end < r.start THEN r.end - r.start + Size ELSE r.end - r.start
         /\ \A i \in 1 .. Size :
              /\ Slot(r, i) \in Index
              /\ Slot(r, i) = IF r.start + i - 1 < Size THEN r.start + i - 1
                              ELSE r.start + i - 1 - Size
         /\ \A i \in 1 .. KeptIn(r) : Slot(r, i) # r.end
         /\ Slot(r, KeptIn(r) + 1) = r.end
<1>1. /\ r.start \in Nat /\ r.end \in Nat /\ Size \in Nat /\ Size > 1
      /\ r.start < Size /\ r.end < Size
  BY RingFields
<1>2. KeptIn(r) = IF r.end < r.start THEN r.end - r.start + Size ELSE r.end - r.start
  <2>1. r.end - r.start \in -Size .. 2 * Size - 1
    BY <1>1
  <2>2. KeptIn(r) = Wrap(r.end - r.start)
    BY <2>1, WrapMod DEF KeptIn, Size
  <2> QED
    BY <1>1, <2>2 DEF Wrap
<1>3. KeptIn(r) \in 0 .. Size - 1
  BY <1>1, <1>2
<1>4. ASSUME NEW i \in 1 .. Size
      PROVE  /\ Slot(r, i) \in 0 .. Size - 1
             /\ Slot(r, i) = IF r.start + i - 1 < Size THEN r.start + i - 1
                             ELSE r.start + i - 1 - Size
  <2>1. r.start + i - 1 \in -Size .. 2 * Size - 1
    BY <1>1
  <2>2. Slot(r, i) = Wrap(r.start + i - 1)
    BY <2>1, WrapMod DEF Slot, Size
  <2> QED
    BY <1>1, <2>2 DEF Wrap
<1>5. \A i \in 1 .. KeptIn(r) : Slot(r, i) # r.end
  <2>1. SUFFICES ASSUME NEW i \in 1 .. KeptIn(r) PROVE Slot(r, i) # r.end
    OBVIOUS
  <2>2. i \in 1 .. Size /\ i \in Int /\ i <= KeptIn(r) /\ 1 <= i
    BY <1>1, <1>3
  <2>3. Slot(r, i) = IF r.start + i - 1 < Size THEN r.start + i - 1
                     ELSE r.start + i - 1 - Size
    BY <1>4, <2>2
  <2> QED
    BY <1>1, <1>2, <2>2, <2>3
<1>6. Slot(r, KeptIn(r) + 1) = r.end
  <2>1. KeptIn(r) + 1 \in 1 .. Size
    BY <1>1, <1>3
  <2>2. Slot(r, KeptIn(r) + 1) = IF r.start + KeptIn(r) < Size THEN r.start + KeptIn(r)
                                 ELSE r.start + KeptIn(r) - Size
    BY <1>1, <1>3, <1>4, <2>1
  <2> QED
    BY <1>1, <1>2, <2>2
<1> QED
  BY <1>1, <1>2, <1>3, <1>4, <1>5, <1>6, RingFields

\* The records kept are a sequence.
LEMMA RecordsType ==
  ASSUME NEW r \in Rings
  PROVE  /\ RecordsIn(r) \in Seq(Infos) /\ Len(RecordsIn(r)) = KeptIn(r)
         /\ KeptIn(r) \in Nat
<1>1. KeptIn(r) \in 0 .. Size - 1 /\ Size \in Nat
  BY Slots, RingFields
<1>2. \A i \in 1 .. KeptIn(r) : r.info[Slot(r, i)] \in Infos
  <2>1. \A i \in 1 .. KeptIn(r) : Slot(r, i) \in Index
    BY <1>1, Slots
  <2> QED
    BY <2>1, RingFields
<1>3. RecordsIn(r) \in [1 .. KeptIn(r) -> Infos]
  BY <1>2 DEF RecordsIn
<1> QED
  BY <1>1, <1>3
-----------------------------------------------------------------------------
(* The operations on the ring *)

\* Whatever is written into the slot at end, the records kept stay.
LEMMA WriteAhead ==
  ASSUME NEW r \in Rings, NEW r2 \in Rings, r2.start = r.start, r2.end = r.end,
         \A i \in Index \ {r.end} : r2.info[i] = r.info[i]
  PROVE  RecordsIn(r2) = RecordsIn(r)
<1>1. KeptIn(r2) = KeptIn(r) /\ \A i : Slot(r2, i) = Slot(r, i)
  BY DEF KeptIn, Slot
<1>2. KeptIn(r) \in 0 .. Size - 1 /\ Size \in Nat
  BY Slots, RingFields
<1>3. \A i \in 1 .. KeptIn(r) : Slot(r, i) \in Index \ {r.end}
  BY <1>2, Slots
<1> QED
  BY <1>1, <1>3 DEF RecordsIn

\* record_switch writes a reason ahead, and may start a burst (sched.c:187-194).
LEMMA RecordSwitch ==
  ASSUME NEW r \in Rings, NEW reason \in Reasons
  PROVE  /\ record_switch(r, reason) \in Rings
         /\ RecordsIn(record_switch(r, reason)) = RecordsIn(r)
         /\ record_switch(r, reason).remaining =
              IF reason \in {"TASK_CREATED", "TASK_ENDED"} THEN BURST ELSE r.remaining
<1> DEFINE r2  == record_switch(r, reason)
           rec == [r.info[r.end] EXCEPT !.reason = reason]
           inf == [r.info EXCEPT ![r.end] = rec]
           rem == IF reason \in {"TASK_CREATED", "TASK_ENDED"} THEN BURST ELSE r.remaining
<1>1. /\ r.info \in [Index -> Infos] /\ r.end \in Index /\ rem \in Int
      /\ r.info[r.end] \in Infos
  BY RingFields, RingAssumption
<1>2. rec \in Infos
  BY <1>1 DEF Infos
<1>3. inf \in [Index -> Infos]
  BY <1>1, <1>2
<1>4. r2 = [r EXCEPT !.info = inf, !.remaining = rem]
  BY <1>1 DEF record_switch, Rings
<1> HIDE DEF inf, rem, rec, r2
<1>5. /\ r2 \in Rings /\ r2.start = r.start /\ r2.end = r.end /\ r2.remaining = rem
      /\ r2.info = inf
  BY <1>1, <1>3, <1>4 DEF Rings
<1>6. \A i \in Index \ {r.end} : r2.info[i] = r.info[i]
  BY <1>1, <1>5 DEF inf
<1>7. RecordsIn(r2) = RecordsIn(r)
  BY <1>5, <1>6, WriteAhead
<1> QED
  BY <1>5, <1>7 DEF r2, rem

\* So does the first half of create_record (sched.c:196-204).
LEMMA FillRecord ==
  ASSUME NEW r \in Rings, NEW prev \in Pid, NEW next \in Pid, jiffies \in 0 .. MaxJiffies
  PROVE  LET r1 == fill_record(r, prev, next)
         IN  /\ r1 \in Rings /\ RecordsIn(r1) = RecordsIn(r)
             /\ r1.remaining = r.remaining - 1
             /\ r1.info[r1.end].previous_pid = prev
<1> DEFINE r1  == fill_record(r, prev, next)
           rec == [previous_pid |-> prev, next_pid |-> next, time |-> jiffies,
                   reason |-> r.info[r.end].reason]
           inf == [r.info EXCEPT ![r.end] = rec]
<1>1. /\ r.info \in [Index -> Infos] /\ r.end \in Index /\ r.remaining \in Int
      /\ r.info[r.end] \in Infos /\ r.remaining - 1 \in Int
  BY RingFields
<1>2. rec \in Infos
  <2>1. jiffies \in -1 .. MaxJiffies
    BY BoundAssumption
  <2> QED
    BY <1>1, <2>1 DEF Infos
<1>3. inf \in [Index -> Infos]
  BY <1>1, <1>2
<1>4. r1 = [r EXCEPT !.info = inf, !.remaining = r.remaining - 1]
  BY <1>1 DEF fill_record, Rings
<1>5. inf[r.end].previous_pid = prev
  BY <1>1
<1> HIDE DEF inf, rec, r1
<1>6. /\ r1 \in Rings /\ r1.start = r.start /\ r1.end = r.end
      /\ r1.remaining = r.remaining - 1 /\ r1.info = inf
  BY <1>1, <1>3, <1>4 DEF Rings
<1>7. \A i \in Index \ {r.end} : r1.info[i] = r.info[i]
  BY <1>1, <1>6 DEF inf
<1>8. RecordsIn(r1) = RecordsIn(r)
  BY <1>6, <1>7, WriteAhead
<1> QED
  BY <1>5, <1>6, <1>8 DEF r1

\* A sequence is a function.
LEMMA SeqIsFunction ==
  ASSUME NEW S, NEW s \in Seq(S), NEW n, Len(s) = n
  PROVE  s = [i \in 1 .. n |-> s[i]]
OBVIOUS

\* The log after its newest record, and the oldest one gone when it was full.
Logged(s, x) == Append(IF Len(s) = Size - 1 THEN Tail(s) ELSE s, x)

\* It ends in that record.
LEMMA LoggedLast ==
  ASSUME NEW s \in Seq(Infos), NEW x \in Infos
  PROVE  /\ Logged(s, x) # << >> /\ Len(Logged(s, x)) > 0
         /\ Logged(s, x)[Len(Logged(s, x))] = x
<1> DEFINE t == IF Len(s) = Size - 1 THEN Tail(s) ELSE s
<1>1. t \in Seq(Infos)
  <2>1. CASE Len(s) = Size - 1
    <3>1. s # << >>
      BY <2>1, RingAssumption DEF Size
    <3> QED
      BY <2>1, <3>1, HeadTailProperties
  <2> QED
    BY <2>1
<1>2. Logged(s, x) = Append(t, x)
  BY DEF Logged
<1> HIDE DEF t
<1> QED
  BY <1>1, <1>2, AppendProperties

\* The second half keeps what was filled in (sched.c:205-211).
LEMMA Advance ==
  ASSUME NEW r \in Rings
  PROVE  /\ advance(r) \in Rings /\ advance(r).remaining = r.remaining
         /\ RecordsIn(advance(r)) = Logged(RecordsIn(r), r.info[r.end])
<1> DEFINE e   == INC_INFO(r.end)
           b   == IF e = r.start THEN INC_INFO(r.start) ELSE r.start
           r2  == advance(r)
           s   == RecordsIn(r)
           x   == r.info[r.end]
           n   == KeptIn(r)
<1>1. /\ r.info \in [Index -> Infos] /\ r.start \in Index /\ r.end \in Index
      /\ e \in Index /\ b \in Index /\ x \in Infos
  BY RingFields, NextIndex
<1>2. r2 = [r EXCEPT !.end = e, !.start = b]
  BY DEF advance
<1> HIDE DEF r2
<1>3. /\ r2 \in Rings /\ r2.start = b /\ r2.end = e /\ r2.remaining = r.remaining
      /\ r2.info = r.info
  BY <1>1, <1>2 DEF Rings
<1>4. /\ Size \in Nat /\ Size > 1 /\ n \in 0 .. Size - 1 /\ KeptIn(r2) \in 0 .. Size - 1
      /\ Index = 0 .. Size - 1
  BY <1>3, Slots, RingFields
<1>5. /\ n = IF r.end < r.start THEN r.end - r.start + Size ELSE r.end - r.start
      /\ KeptIn(r2) = IF e < b THEN e - b + Size ELSE e - b
  BY <1>3, Slots
<1>6. /\ e = IF r.end = Size - 1 THEN 0 ELSE r.end + 1
      /\ INC_INFO(r.start) = IF r.start = Size - 1 THEN 0 ELSE r.start + 1
  BY <1>1, NextIndex
<1>7. s \in Seq(Infos) /\ Len(s) = n /\ \A i \in 1 .. n : s[i] = r.info[Slot(r, i)]
  BY RecordsType DEF RecordsIn
<1>8. RecordsIn(r2) = [i \in 1 .. KeptIn(r2) |-> r.info[Slot(r2, i)]]
  BY <1>3 DEF RecordsIn
<1>9. x = r.info[Slot(r, n + 1)]
  BY Slots
<1>10. e = r.start <=> n = Size - 1
  BY <1>1, <1>4, <1>5, <1>6
<1>11. CASE n # Size - 1
  <2>1. b = r.start /\ KeptIn(r2) = n + 1
    <3>1. b = r.start
      BY <1>10, <1>11
    <3> HIDE DEF b, e, n
    <3>2. r.start \in Nat /\ r.end \in Nat /\ r.start < Size /\ r.end < Size
      BY <1>1, <1>4
    <3> QED
      BY <1>4, <1>5, <1>6, <1>11, <3>1, <3>2, SMTT(30)
  <2>2. \A i : Slot(r2, i) = Slot(r, i)
    BY <1>3, <2>1 DEF Slot
  <2>3. Logged(s, x) = Append(s, x)
    BY <1>7, <1>11 DEF Logged
  <2>4. /\ Append(s, x) \in Seq(Infos) /\ Len(Append(s, x)) = n + 1
        /\ \A i \in 1 .. n : Append(s, x)[i] = s[i]
        /\ Append(s, x)[n + 1] = x
    BY <1>1, <1>7, AppendProperties
  <2> HIDE DEF s, n, b, e, x
  <2>5. Append(s, x) = [i \in 1 .. n + 1 |-> r.info[Slot(r, i)]]
    <3>1. \A i \in 1 .. n + 1 : Append(s, x)[i] = r.info[Slot(r, i)]
      BY <1>4, <1>7, <1>9, <2>4
    <3>2. Append(s, x) = [i \in 1 .. n + 1 |-> Append(s, x)[i]]
      BY <2>4, SeqIsFunction
    <3> QED
      BY <3>1, <3>2
  <2>6. RecordsIn(r2) = Append(s, x)
    BY <1>8, <2>1, <2>2, <2>5
  <2> QED
    BY <1>3, <2>3, <2>6 DEF r2, s, x
<1>12. CASE n = Size - 1
  <2>1. b = INC_INFO(r.start) /\ KeptIn(r2) = n /\ n > 0
    BY <1>1, <1>4, <1>5, <1>6, <1>10, <1>12
  <2>2. \A i \in 1 .. n : Slot(r2, i) = Slot(r, i + 1)
    <3>1. SUFFICES ASSUME NEW i \in 1 .. n PROVE Slot(r2, i) = Slot(r, i + 1)
      OBVIOUS
    <3>2. i \in 1 .. Size /\ i + 1 \in 1 .. Size
      BY <1>4
    <3>3. /\ Slot(r2, i) = IF b + i - 1 < Size THEN b + i - 1 ELSE b + i - 1 - Size
          /\ Slot(r, i + 1) = IF r.start + (i + 1) - 1 < Size THEN r.start + (i + 1) - 1
                              ELSE r.start + (i + 1) - 1 - Size
      BY <1>3, <3>2, Slots
    <3> QED
      BY <1>1, <1>4, <1>6, <2>1, <3>2, <3>3, SMTT(30)
  <2>3. Logged(s, x) = Append(Tail(s), x)
    BY <1>7, <1>12 DEF Logged
  <2>4. /\ Tail(s) \in Seq(Infos) /\ Len(Tail(s)) = n - 1
        /\ \A i \in 1 .. n - 1 : Tail(s)[i] = s[i + 1]
    <3>1. s # << >>
      BY <1>7, <2>1
    <3> QED
      BY <1>7, <3>1, HeadTailProperties
  <2>5. /\ Append(Tail(s), x) \in Seq(Infos) /\ Len(Append(Tail(s), x)) = n
        /\ \A i \in 1 .. n - 1 : Append(Tail(s), x)[i] = Tail(s)[i]
        /\ Append(Tail(s), x)[n] = x
    <3>1. (n - 1) + 1 = n
      BY <1>4
    <3> QED
      BY <1>1, <2>4, <3>1, AppendProperties
  <2> HIDE DEF s, n, b, e, x
  <2>6. Append(Tail(s), x) = [i \in 1 .. n |-> r.info[Slot(r, i + 1)]]
    <3>1. \A i \in 1 .. n : Append(Tail(s), x)[i] = r.info[Slot(r, i + 1)]
      BY <1>4, <1>7, <1>9, <2>4, <2>5
    <3>2. Append(Tail(s), x) = [i \in 1 .. n |-> Append(Tail(s), x)[i]]
      BY <2>5, SeqIsFunction
    <3> QED
      BY <3>1, <3>2
  <2>7. RecordsIn(r2) = Append(Tail(s), x)
    BY <1>8, <2>1, <2>2, <2>6
  <2> QED
    BY <1>3, <2>3, <2>7 DEF r2, s, x
<1> QED
  BY <1>11, <1>12
\* create_record counts down, and logs the switch during a burst.
LEMMA CreateRecord ==
  ASSUME NEW r \in Rings, NEW prev \in Pid, NEW next \in Pid, jiffies \in 0 .. MaxJiffies
  PROVE  LET r2 == create_record(r, prev, next)
         IN  /\ r2 \in Rings /\ r2.remaining = r.remaining - 1
             /\ r.remaining <= 1 => RecordsIn(r2) = RecordsIn(r)
             /\ r.remaining > 1 =>
                  \E x \in Infos : x.previous_pid = prev
                                   /\ RecordsIn(r2) = Logged(RecordsIn(r), x)
<1> DEFINE r1 == fill_record(r, prev, next)
           r2 == create_record(r, prev, next)
<1>1. /\ r1 \in Rings /\ RecordsIn(r1) = RecordsIn(r) /\ r1.remaining = r.remaining - 1
      /\ r1.info[r1.end].previous_pid = prev
  BY FillRecord
<1>2. r2 = IF r1.remaining > 0 THEN advance(r1) ELSE r1
  BY DEF create_record
<1> HIDE DEF r1, r2
<1>3. r.remaining \in Int /\ r1.info[r1.end] \in Infos
  BY <1>1, RingFields
<1>4. /\ advance(r1) \in Rings /\ advance(r1).remaining = r1.remaining
      /\ RecordsIn(advance(r1)) = Logged(RecordsIn(r1), r1.info[r1.end])
  BY <1>1, Advance
<1>5. CASE r.remaining > 1
  <2>1. r2 = advance(r1)
    BY <1>1, <1>2, <1>3, <1>5
  <2>2. RecordsIn(r2) = Logged(RecordsIn(r), r1.info[r1.end])
    BY <1>1, <1>4, <2>1
  <2>3. \E x \in Infos : x.previous_pid = prev /\ RecordsIn(r2) = Logged(RecordsIn(r), x)
    BY <1>1, <1>3, <2>2
  <2> QED
    BY <1>1, <1>3, <1>4, <1>5, <2>1, <2>3 DEF r2
<1>6. CASE r.remaining <= 1
  <2>1. r2 = r1
    BY <1>1, <1>2, <1>3, <1>6
  <2> QED
    BY <1>1, <1>3, <1>6, <2>1 DEF r2
<1> QED
  BY <1>3, <1>5, <1>6

-----------------------------------------------------------------------------
(* The steps *)

\* What a step does to the ring.
RingStep ==
  \/ ring' = ring
  \/ \E reason \in Reasons : ring' = record_switch(ring, reason)
  \/ \E next \in Pid : ring' = create_record(ring, curr, next)

\* No step does anything else to it.
LEMMA NextRing == ASSUME TypeOK, [Next]_vars PROVE RingStep
<1>1. CASE Schedule
  BY <1>1 DEF Schedule, RingStep, TypeOK
<1>2. CASE UNCHANGED vars
  BY <1>2 DEF vars, RingStep
<1>3. CASE Created \/ Ended \/ Yields \/ WaitsForCompletion \/ Reprioritised
           \/ ShortOver \/ SliceOver \/ HigherWoken
  <2>1. \E reason \in Reasons : Record(reason)
    BY <1>3 DEF Created, Ended, Yields, WaitsForCompletion, Reprioritised, ShortOver,
                SliceOver, HigherWoken, Reasons
  <2> QED
    BY <2>1 DEF Record, RingStep
<1>4. CASE Sleeps \/ OtherSliceOver \/ Clock
  BY <1>4 DEF Sleeps, OtherSliceOver, Clock, RingStep
<1> QED
  BY <1>1, <1>2, <1>3, <1>4 DEF Next

\* What it does to the rest of the state.
LEMMA NextRest ==
  ASSUME TypeOK, [Next]_vars
  PROVE  /\ curr' \in live' /\ live' \subseteq Pid
         /\ jiffies' \in 0 .. MaxJiffies /\ leaving' \in {"no", "may", "exit"}
<1>1. CASE Created
  BY <1>1 DEF Created, Leave, TypeOK
<1>2. CASE Ended \/ Yields \/ WaitsForCompletion \/ Sleeps \/ Reprioritised
  BY <1>2 DEF Ended, Yields, WaitsForCompletion, Sleeps, Reprioritised, Leave, TypeOK
<1>3. CASE ShortOver \/ SliceOver \/ OtherSliceOver \/ HigherWoken
  BY <1>3 DEF ShortOver, SliceOver, OtherSliceOver, HigherWoken, Interrupt, TypeOK
<1>4. CASE Schedule
  BY <1>4 DEF Schedule, TypeOK
<1>5. CASE Clock
  BY <1>5, BoundAssumption DEF Clock, TypeOK
<1>6. CASE UNCHANGED vars
  BY <1>6 DEF vars, TypeOK
<1> QED
  BY <1>1, <1>2, <1>3, <1>4, <1>5, <1>6 DEF Next

-----------------------------------------------------------------------------
(* Theorems *)

\* The indices of the ring stay within its array, and every record in it is of
\* processes or blank, whatever wraps around (sched.c:187-211).
THEOREM RingTypeCorrect == Spec => []TypeOK
<1>1. Init => TypeOK
  <2>1. SUFFICES ASSUME Init PROVE TypeOK
    OBVIOUS
  <2>2. sched_init \in Rings
    <3>1. 0 \in Index
      BY RingAssumption DEF Index
    <3>2. [previous_pid |-> -1, next_pid |-> -1, time |-> -1, reason |-> "none"] \in Infos
      BY BoundAssumption DEF Infos
    <3> QED
      BY <3>1, <3>2 DEF sched_init, Rings
  <2> QED
    BY <2>1, <2>2, PidAssumption, BoundAssumption DEF Init, TypeOK
<1>2. TypeOK /\ [Next]_vars => TypeOK'
  <2>1. SUFFICES ASSUME TypeOK, [Next]_vars PROVE TypeOK'
    OBVIOUS
  <2>2. ring \in Rings /\ curr \in Pid /\ jiffies \in 0 .. MaxJiffies
    BY <2>1 DEF TypeOK
  <2>3. ring' \in Rings
    BY <2>1, <2>2, NextRing, RecordSwitch, CreateRecord DEF RingStep
  <2> QED
    BY <2>1, <2>3, NextRest DEF TypeOK
<1> QED
  BY <1>1, <1>2, PTL DEF Spec

\* The abstract log as a function of the ring.
LeftIn(r) == IF r.remaining > 0 THEN r.remaining - 1 ELSE 0

\* The ring implements the log: writing ahead never touches a record that is kept,
\* the oldest record gives way to the newest and to nothing else, and a burst records
\* one switch less than its counter says (sched.c:187-211).
THEOREM RingImplementsLog == Spec => ImplementsLog
<1>1. Init => Log!LogInit
  <2>1. SUFFICES ASSUME Init PROVE Log!LogInit
    OBVIOUS
  <2>2. ring.start = 0 /\ ring.end = 0 /\ ring.remaining = 0
    BY <2>1 DEF Init, sched_init
  <2>3. KeptIn(ring) = 0
    BY <2>2, RingAssumption DEF KeptIn
  <2>4. kept_records = << >>
    <3>1. kept_records = [i \in 1 .. 0 |-> ring.info[Slot(ring, i)]]
      BY <2>3, KeptIsKeptIn DEF RecordsIn
    <3>2. 1 .. 0 = {}
      OBVIOUS
    <3> QED
      BY <3>1, <3>2
  <2> QED
    BY <2>2, <2>4 DEF Log!LogInit
<1>2. TypeOK /\ [Next]_vars => [Log!LogNext]_(Log!logVars)
  <2>1. SUFFICES ASSUME TypeOK, [Next]_vars PROVE [Log!LogNext]_(Log!logVars)
    OBVIOUS
  <2>2. /\ ring \in Rings /\ curr \in Pid /\ jiffies \in 0 .. MaxJiffies
        /\ ring.remaining \in Int
    BY <2>1, RingFields DEF TypeOK
  <2>3. kept_records = RecordsIn(ring) /\ kept_records' = RecordsIn(ring')
    BY DEF kept_records, RecordsIn, Kept, KeptIn, Slot
  <2>4. CASE ring' = ring
    BY <2>3, <2>4 DEF Log!logVars
  <2>5. ASSUME NEW reason \in Reasons, ring' = record_switch(ring, reason)
        PROVE  [Log!LogNext]_(Log!logVars)
    <3>1. /\ kept_records' = kept_records
          /\ ring'.remaining = IF reason \in {"TASK_CREATED", "TASK_ENDED"} THEN BURST
                               ELSE ring.remaining
      BY <2>2, <2>3, <2>5, RecordSwitch
    <3>2. CASE reason \in {"TASK_CREATED", "TASK_ENDED"}
      <4>1. ring'.remaining = BURST /\ BURST > 0
        BY <3>1, <3>2, RingAssumption
      <4> QED
        BY <3>1, <4>1 DEF Log!LogNext, Log!StartBurst
    <3>3. CASE reason \notin {"TASK_CREATED", "TASK_ENDED"}
      BY <3>1, <3>3 DEF Log!logVars
    <3> QED
      BY <3>2, <3>3
  <2>6. ASSUME NEW next \in Pid, ring' = create_record(ring, curr, next)
        PROVE  [Log!LogNext]_(Log!logVars)
    <3>1. ring'.remaining = ring.remaining - 1
      BY <2>2, <2>6, CreateRecord
    <3>2. CASE ring.remaining <= 1
      <4>1. kept_records' = kept_records
        BY <2>2, <2>3, <2>6, <3>2, CreateRecord
      <4>2. ~(ring.remaining - 1 > 0) /\ (ring.remaining > 0 => ring.remaining - 1 = 0)
        BY <2>2, <3>2
      <4> QED
        BY <3>1, <4>1, <4>2 DEF Log!logVars
    <3>3. CASE ring.remaining > 1
      <4>1. PICK x \in Infos : kept_records' = Logged(kept_records, x)
        BY <2>2, <2>3, <2>6, <3>3, CreateRecord
      <4>2. /\ kept_records \in Seq(Infos)
            /\ kept_records' =
                 Append(IF Len(kept_records) = SWITCH_INFO_ARRAY_SIZE - 1
                        THEN Tail(kept_records) ELSE kept_records, x)
        BY <2>2, <2>3, <4>1, RecordsType DEF Logged, Size
      <4>3. /\ kept_records' # << >> /\ kept_records'[Len(kept_records')] = x
        BY <4>1, <4>2, LoggedLast
      <4>4. /\ ring.remaining - 1 > 0 /\ ring.remaining > 0
            /\ IF ring.remaining - 1 > 0
               THEN (ring.remaining - 1) - 1 = (ring.remaining - 1) - 1 ELSE FALSE
        BY <2>2, <3>3
      <4> QED
        BY <3>1, <4>2, <4>3, <4>4 DEF Log!LogNext, Log!Switched
    <3> QED
      BY <2>2, <3>2, <3>3
  <2> QED
    BY <2>1, <2>4, <2>5, <2>6, NextRing DEF RingStep
<1> QED
  BY <1>1, <1>2, RingTypeCorrect, PTL DEF Spec, ImplementsLog, Log!LogSpec

\* A process between do_exit's record_switch and its last schedule is at the
\* beginning of a burst, whatever interrupts come.
Ending == leaving = "exit" => ring.remaining = BURST

\* Only do_exit gets a process there, and it starts the burst; nobody else counts down.
LEMMA AlwaysEnding == Spec => []Ending
<1>1. Init => Ending
  BY DEF Init, Ending
<1>2. TypeOK /\ Ending /\ [Next]_vars => Ending'
  <2>1. SUFFICES ASSUME TypeOK, leaving = "exit" => ring.remaining = BURST, [Next]_vars,
                        leaving' = "exit"
                 PROVE  ring'.remaining = BURST
    BY DEF Ending
  <2>2. ring \in Rings
    BY <2>1 DEF TypeOK
  <2>3. CASE Ended
    <3>1. ring' = record_switch(ring, "TASK_ENDED") /\ "TASK_ENDED" \in Reasons
      BY <2>3 DEF Ended, Record, Reasons
    <3> QED
      BY <2>2, <3>1, RecordSwitch
  <2>4. CASE ShortOver \/ SliceOver \/ HigherWoken
    <3>1. leaving = "exit"
      BY <2>1, <2>4 DEF ShortOver, SliceOver, HigherWoken, Interrupt
    <3>2. \E reason \in Reasons \ {"TASK_CREATED", "TASK_ENDED"} :
            ring' = record_switch(ring, reason)
      BY <2>4 DEF ShortOver, SliceOver, HigherWoken, Record, Reasons
    <3> QED
      BY <2>1, <2>2, <3>1, <3>2, RecordSwitch
  <2>5. CASE OtherSliceOver \/ Clock \/ UNCHANGED vars
    BY <2>1, <2>5 DEF OtherSliceOver, Interrupt, Clock, vars
  <2>6. CASE Created \/ Yields \/ WaitsForCompletion \/ Sleeps \/ Reprioritised \/ Schedule
    BY <2>1, <2>6 DEF Created, Yields, WaitsForCompletion, Sleeps, Reprioritised, Schedule,
                      Leave
  <2> QED
    BY <2>1, <2>3, <2>4, <2>5, <2>6 DEF Next
<1> QED
  BY <1>1, <1>2, RingTypeCorrect, PTL DEF Spec

\* The switch away from an exiting process is in the log: do_exit has started a burst,
\* and no interrupt between the two can end it (exit.c, the end of do_exit;
\* sched.c:187-211).  With a burst of one, of which nothing is kept, it is not.
THEOREM ExitsAreRecorded == ASSUME BURST > 1 PROVE Spec => ExitIsRecorded
<1>1. ASSUME TypeOK, Ending, [Next]_vars, leaving = "exit", leaving' = "no"
      PROVE  Kept' > 0 /\ kept_records'[Kept'].previous_pid = curr
  <2>1. /\ ring \in Rings /\ curr \in Pid /\ jiffies \in 0 .. MaxJiffies
        /\ curr \in live /\ live \subseteq Pid
        /\ ring.remaining = BURST /\ BURST \in Nat
    BY <1>1, RingAssumption DEF Ending, TypeOK
  <2>2. Schedule
    BY <1>1 DEF Next, Created, Ended, Yields, WaitsForCompletion, Sleeps, Reprioritised,
                ShortOver, SliceOver, OtherSliceOver, HigherWoken, Clock, Leave, Interrupt,
                vars
  <2>3. PICK next \in Pid : ring' = create_record(ring, curr, next)
    BY <1>1, <2>1, <2>2 DEF Schedule
  <2>4. /\ ring' \in Rings
        /\ \E x \in Infos : x.previous_pid = curr
                            /\ RecordsIn(ring') = Logged(RecordsIn(ring), x)
    BY <2>1, <2>3, CreateRecord
  <2>5. PICK x \in Infos : x.previous_pid = curr
                           /\ RecordsIn(ring') = Logged(RecordsIn(ring), x)
    BY <2>4
  <2>6. kept_records' = RecordsIn(ring') /\ Kept' = KeptIn(ring')
    BY DEF kept_records, RecordsIn, Kept, KeptIn, Slot
  <2>7. Len(RecordsIn(ring')) = Kept'
    BY <2>4, <2>6, RecordsType
  <2>8. /\ RecordsIn(ring')[Len(RecordsIn(ring'))] = x
        /\ Len(RecordsIn(ring')) > 0
    BY <2>1, <2>5, LoggedLast, RecordsType
  <2> QED
    BY <2>5, <2>6, <2>7, <2>8
<1>2. TypeOK /\ Ending /\ [Next]_vars
        => [leaving = "exit" /\ leaving' = "no" =>
              LET n == Kept' IN n > 0 /\ kept_records'[n].previous_pid = curr]_vars
  BY <1>1
<1> QED
  BY <1>2, RingTypeCorrect, AlwaysEnding, PTL DEF Spec, ExitIsRecorded
=============================================================================
