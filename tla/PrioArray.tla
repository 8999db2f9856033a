------------------------------ MODULE PrioArray ------------------------------
(***************************************************************************)
(* The priority array of the O(1) scheduler, struct prio_array of          *)
(* kernel/sched.c: one FIFO list of tasks per priority, a bitmap with a    *)
(* bit per non-empty list, and the number of tasks linked in the array.    *)
(* Lower numbers are higher priorities.                                    *)
(***************************************************************************)
EXTENDS Integers, Sequences, SequencesExt

CONSTANTS
  Task,      \* the task_struct slots user processes may occupy
  MAX_PRIO   \* priorities are 0 .. MAX_PRIO - 1

ASSUME MaxPrioAssumption == MAX_PRIO \in Nat \ {0}

Prio == 0 .. MAX_PRIO - 1

\* struct prio_array.  The delimiter bit MAX_PRIO that sched_init sets and
\* nobody clears is not kept: find_first_bit below returns it.
PrioArrays == [nr_active : Int, bitmap : SUBSET Prio, queue : [Prio -> Seq(Task)]]

\* An array as sched_init leaves it: every list empty, every bit clear.
init_array == [nr_active |-> 0, bitmap |-> {}, queue |-> [i \in Prio |-> << >>]]

\* The list with the entry of p unlinked.
list_del(q, p) == RemoveAt(q, CHOOSE j \in DOMAIN q : q[j] = p)

\* list_add(p, q.next): p becomes the second entry, or the only one.
list_add_after_first(q, p) == IF q = << >> THEN << p >> ELSE InsertAt(q, 2, p)

\* dequeue_task: p is unlinked from the list of priority i, whose bit is
\* cleared when the list has become empty.
dequeue(arr, p, i) ==
  LET q == list_del(arr.queue[i], p) IN
  [nr_active |-> arr.nr_active - 1,
   bitmap    |-> IF q = << >> THEN arr.bitmap \ {i} ELSE arr.bitmap,
   queue     |-> [arr.queue EXCEPT ![i] = q]]

\* enqueue_task: p goes to the tail of the list of priority i.
enqueue(arr, p, i) ==
  [nr_active |-> arr.nr_active + 1,
   bitmap    |-> arr.bitmap \cup {i},
   queue     |-> [arr.queue EXCEPT ![i] = Append(@, p)]]

\* sched_find_first_bit: the highest priority whose bit is set, or the
\* delimiter MAX_PRIO.
find_first_bit(arr) ==
  IF arr.bitmap = {} THEN MAX_PRIO
  ELSE CHOOSE i \in arr.bitmap : \A j \in arr.bitmap : i <= j

\* p is linked in the list of priority i of the array.
Linked(arr, p, i) == i \in Prio /\ \E j \in DOMAIN arr.queue[i] : arr.queue[i][j] = p

=============================================================================
