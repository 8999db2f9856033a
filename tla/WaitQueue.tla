------------------------------ MODULE WaitQueue ------------------------------
(***************************************************************************)
(* Wait queues and completions: the macros of sched.h, sleep_on and        *)
(* wait_for_completion against __wake_up and complete of kernel/sched.c,   *)
(* add_wait_queue and the like of kernel/fork.c, and the lists of wait.h.  *)
(*                                                                         *)
(* What is waited for is a number of tokens.  A wait in a loop of its own   *)
(* ends when there is one; exclusive waits and completions take it.         *)
(*                                                                         *)
(* A step ends where the code takes or drops a lock or reads without one.   *)
(* On several processors all interleave; on one, a process or a wake-up     *)
(* keeps the processor until it is done or in schedule().                  *)
(***************************************************************************)
EXTENDS Integers, Sequences, FiniteSets, SequencesExt

CONSTANTS
  Waiter,     \* processes that wait
  Waker,      \* processes and interrupt handlers that wake others
  NULL,       \* the null pointer
  Signalled,  \* waiters that receive a signal
  Builds      \* the kernels and programs considered, see BuildAssumption

Heads == {"q", "x.wait"}
States == {"RUNNING", "INTERRUPTIBLE", "UNINTERRUPTIBLE"}

\* Loops around schedule(), an exclusive one as drivers write it, waits that return
\* after the first wake-up, and completions.
Loops == {"wait_event", "wait_event_interruptible", "exclusive"}
SleepOns == {"sleep_on", "interruptible_sleep_on", "sleep_on_timeout",
             "interruptible_sleep_on_timeout"}
Calls == Loops \cup SleepOns \cup {"wait_for_completion"}

\* The state that a wait sleeps in.
ModeOf(c) == IF c \in {"wait_event_interruptible", "exclusive", "interruptible_sleep_on",
                       "interruptible_sleep_on_timeout"}
             THEN "INTERRUPTIBLE" ELSE "UNINTERRUPTIBLE"

\* smp: several processors.  procs: who takes part.  calls: how waiters wait.  nrs: nr_exclusive of the
\* wake-ups.  modes: the states they wake.  tokens: a bound on tokens at a time.
ASSUME BuildAssumption ==
  Builds \subseteq [smp : BOOLEAN, procs : SUBSET (Waiter \cup Waker), calls : SUBSET Calls,
                    nrs : SUBSET Nat, modes : SUBSET SUBSET States, tokens : Nat]
\* What users see to: wake-ups of a queue are for the states its waiters sleep in, and
\* nobody, and no interrupt that wakes the queue, runs between the test before sleep_on
\* and its schedule().
ASSUME UsageAssumption ==
  \A b \in Builds :
    /\ \A c \in b.calls \ {"wait_for_completion"}, mode \in b.modes : ModeOf(c) \in mode
    /\ b.calls \cap SleepOns # {} => ~b.smp
ASSUME ProcessAssumption ==
  /\ IsFiniteSet(Waiter) /\ IsFiniteSet(Waker) /\ Waiter \cap Waker = {}
  /\ NULL \notin Waker /\ Signalled \subseteq Waiter

VARIABLES
  list,    \* the waiters on each wait queue, from head to tail
  lock,    \* the wake-up that holds its lock
  tokens,  \* what there is to take; done of the completion
  task,    \* state, whether on a runqueue (p->array), and a pending signal
  pc,      \* where each waiter is
  call,    \* how it waits
  waker,   \* each wake-up
  build    \* the element of Builds the behaviour is about

vars == << list, lock, tokens, task, pc, call, waker, build >>

\* Of __wake_up_common: i is the position in the list, nr is nr_exclusive.
TypeOK ==
  /\ list \in [Heads -> Seq(Waiter)]
  /\ lock \in [Heads -> Waker \cup {NULL}]
  /\ tokens \in [Heads -> 0 .. build.tokens]
  /\ task \in [Waiter -> [state : States, array : BOOLEAN, sigpending : BOOLEAN,
                          expired : BOOLEAN]]
  /\ pc \in [Waiter -> {"user", "test", "add", "set", "check", "signal", "sched", "asleep",
                        "running", "remove", "complete", "recheck"}]
  /\ call \in [Waiter -> Calls \cup {NULL}]
  /\ waker \in [Waker -> [pc : {"idle", "lock", "scan", "try"}, head : Heads, i : Nat,
                          nr : Int, mode : SUBSET States]]
  /\ build \in Builds

Idle == [pc |-> "idle", head |-> "q", i |-> 1, nr |-> 0, mode |-> {}]

Init ==
  /\ list = [h \in Heads |-> << >>]
  /\ lock = [h \in Heads |-> NULL]
  /\ tokens = [h \in Heads |-> 0]
  /\ task = [t \in Waiter |-> [state |-> "RUNNING", array |-> TRUE, sigpending |-> FALSE,
                               expired |-> FALSE]]
  /\ pc = [t \in Waiter |-> "user"]
  /\ call = [t \in Waiter |-> NULL]
  /\ waker = [w \in Waker |-> Idle]
  /\ build \in Builds

-----------------------------------------------------------------------------
(* Operators *)

MayYield == {"user", "asleep"}
Alone(others) == /\ \A t \in Waiter \cap others : pc[t] \in MayYield
                 /\ \A w \in Waker \cap others : waker[w].pc = "idle"
\* On one processor a process in the kernel keeps the processor, and wake-ups from interrupts
\* come in where it runs in user mode or sleeps: callers of sleep_on keep them out
\* (UsageAssumption), while sleep_on itself does not (sched.c:1352).
Turn(a) == build.smp \/ Alone((Waiter \cup Waker) \ {a})

At(t, place) == pc[t] = place /\ Turn(t)
Goto(t, place) == pc' = [pc EXCEPT ![t] = place]

Queue(t) == IF call[t] = "wait_for_completion" THEN "x.wait" ELSE "q"
Exclusive(t) == call[t] \in {"exclusive", "wait_for_completion"}
Mode(t) == ModeOf(call[t])
Interrupted(t) == task[t].sigpending /\ Mode(t) = "INTERRUPTIBLE"

\* try_to_wake_up, of the tasks T.
try_to_wake_up(T, t) == [T EXCEPT ![t].array = TRUE, ![t].state = "RUNNING"]

SetState(t, state) == task' = [task EXCEPT ![t].state = state]

\* Exclusive waiters go to the tail, others to the head.
add_wait_queue(h, t) ==
  [list EXCEPT ![h] = IF Exclusive(t) THEN Append(@, t) ELSE << t >> \o @]

\* list_del: the entry of t is unlinked.
remove_wait_queue(h, t) ==
  [list EXCEPT ![h] = RemoveAt(@, CHOOSE j \in DOMAIN @ : @[j] = t)]

-----------------------------------------------------------------------------
(* wait_event, wait_event_interruptible, an exclusive loop like them, and callers of *)
(* sleep_on that test before they call it *)

\* A signal that a waiter returned for is delivered on the way to user mode.
Return(t) ==
  /\ Goto(t, "user")
  /\ call' = [call EXCEPT ![t] = NULL]
  /\ task' = [task EXCEPT ![t].sigpending = FALSE, ![t].expired = FALSE]

Wait(t) ==
  /\ t \in build.procs /\ At(t, "user")
  /\ \E c \in build.calls : call' = [call EXCEPT ![t] = c]
  /\ Goto(t, IF call'[t] = "wait_for_completion" THEN "complete" ELSE "test")
  /\ UNCHANGED << list, lock, tokens, task, waker, build >>

\* An exclusive waiter takes the token it sees.
Take(t) ==
  tokens' = IF Exclusive(t) THEN [tokens EXCEPT ![Queue(t)] = @ - 1] ELSE tokens

\* The first test, without being on the queue.  Callers of sleep_on come back to it,
\* those of the interruptible and timed forms unless there is a signal, or time is up.
TestSucceeds(t) ==
  /\ At(t, "test") /\ tokens["q"] > 0
  /\ Take(t) /\ Return(t)
  /\ UNCHANGED << list, lock, waker, build >>

GiveUp(t) ==
  /\ At(t, "test") /\ tokens["q"] = 0
  /\ call[t] \in SleepOns /\ (Interrupted(t) \/ task[t].expired)
  /\ Return(t)
  /\ UNCHANGED << list, lock, tokens, waker, build >>

\* sleep_on sets the state before it joins the queue, the loops after.
TestFails(t) ==
  /\ At(t, "test") /\ tokens["q"] = 0
  /\ IF call[t] \in SleepOns
     THEN /\ ~Interrupted(t) /\ ~task[t].expired
          /\ SetState(t, Mode(t))
     ELSE UNCHANGED task
  /\ Goto(t, "add")
  /\ UNCHANGED << list, lock, tokens, call, waker, build >>

Add(t) ==
  /\ At(t, "add") /\ lock["q"] = NULL
  /\ list' = add_wait_queue("q", t)
  /\ Goto(t, IF call[t] \in SleepOns THEN "sched" ELSE "set")
  /\ UNCHANGED << lock, tokens, task, call, waker, build >>

set_current_state(t) ==
  /\ At(t, "set")
  /\ SetState(t, Mode(t))
  /\ Goto(t, "check")
  /\ UNCHANGED << list, lock, tokens, call, waker, build >>

Check(t) ==
  /\ At(t, "check")
  /\ IF tokens["q"] > 0
     THEN Take(t) /\ Goto(t, "running")
     ELSE Goto(t, IF Mode(t) = "INTERRUPTIBLE" THEN "signal" ELSE "sched") /\ UNCHANGED tokens
  /\ UNCHANGED << list, lock, task, call, waker, build >>

CheckSignal(t) ==
  /\ At(t, "signal")
  /\ Goto(t, IF task[t].sigpending THEN "running" ELSE "sched")
  /\ UNCHANGED << list, lock, tokens, task, call, waker, build >>

SetRunning(t) ==
  /\ At(t, "running")
  /\ SetState(t, "RUNNING")
  /\ Goto(t, "remove")
  /\ UNCHANGED << list, lock, tokens, call, waker, build >>

Leave(t) ==
  /\ At(t, "remove") /\ lock["q"] = NULL
  /\ list' = remove_wait_queue("q", t)
  /\ IF call[t] \in SleepOns THEN Goto(t, "test") /\ UNCHANGED << task, call >> ELSE Return(t)
  /\ UNCHANGED << lock, tokens, waker, build >>

-----------------------------------------------------------------------------
(* schedule *)

\* Where a waiter goes on after schedule().
After(t) ==
  CASE call[t] = "wait_for_completion" -> "recheck"
    [] call[t] \in SleepOns            -> "remove"
    [] OTHER                           -> "set"

\* A waiter that was woken or has a signal keeps the processor.
Schedule(t) ==
  /\ At(t, "sched")
  /\ IF task[t].state # "RUNNING" /\ ~(task[t].state = "INTERRUPTIBLE" /\ task[t].sigpending)
     THEN task' = [task EXCEPT ![t].array = FALSE] /\ Goto(t, "asleep")
     ELSE SetState(t, "RUNNING") /\ Goto(t, After(t))
  /\ UNCHANGED << list, lock, tokens, call, waker, build >>

Resume(t) ==
  /\ At(t, "asleep") /\ task[t].array
  /\ Goto(t, After(t))
  /\ UNCHANGED << list, lock, tokens, task, call, waker, build >>

-----------------------------------------------------------------------------
(* wait_for_completion *)

\* Up to schedule() it holds the lock of the completion.
wait_for_completion(t) ==
  /\ At(t, "complete") /\ lock["x.wait"] = NULL
  /\ IF tokens["x.wait"] > 0
     THEN Take(t) /\ Return(t) /\ UNCHANGED list
     ELSE /\ list' = add_wait_queue("x.wait", t)
          /\ SetState(t, "UNINTERRUPTIBLE") /\ Goto(t, "sched")
          /\ UNCHANGED << tokens, call >>
  /\ UNCHANGED << lock, waker, build >>

\* Mutant: one wake-up is taken for one token.
WaitOn_once(t) == FALSE

\* The condition of the loop.
WaitOn(t) == tokens["x.wait"] = 0

Recheck(t) ==
  /\ At(t, "recheck") /\ lock["x.wait"] = NULL
  /\ IF WaitOn(t)
     THEN /\ SetState(t, "UNINTERRUPTIBLE") /\ Goto(t, "sched")
          /\ UNCHANGED << list, tokens, call >>
     ELSE /\ list' = remove_wait_queue("x.wait", t)
          /\ Take(t) /\ Return(t)
  /\ UNCHANGED << lock, waker, build >>

-----------------------------------------------------------------------------
(* Wake-ups *)

Waking(w, place) == w \in build.procs /\ waker[w].pc = place /\ Turn(w)

\* What a driver does: make a token, then wake the queue.  nr_exclusive of 0 is all.
wake_up(w) ==
  /\ Waking(w, "idle") /\ build.calls # {"wait_for_completion"}
  /\ \E nr \in build.nrs, mode \in build.modes :
       /\ tokens["q"] + (IF nr = 0 THEN 1 ELSE nr) <= build.tokens
       /\ tokens' = [tokens EXCEPT !["q"] = @ + (IF nr = 0 THEN 1 ELSE nr)]
       /\ waker' = [waker EXCEPT ![w] = [pc |-> "lock", head |-> "q", i |-> 1, nr |-> nr,
                                         mode |-> mode]]
  /\ UNCHANGED << list, lock, task, pc, call, build >>

Lock(w) ==
  /\ Waking(w, "lock") /\ lock["q"] = NULL
  /\ lock' = [lock EXCEPT !["q"] = w]
  /\ waker' = [waker EXCEPT ![w].pc = "scan"]
  /\ UNCHANGED << list, tokens, task, pc, call, build >>

complete(w) ==
  /\ Waking(w, "idle") /\ "wait_for_completion" \in build.calls
  /\ lock["x.wait"] = NULL /\ tokens["x.wait"] < build.tokens
  /\ lock' = [lock EXCEPT !["x.wait"] = w]
  /\ tokens' = [tokens EXCEPT !["x.wait"] = @ + 1]
  /\ waker' = [waker EXCEPT ![w] = [pc |-> "scan", head |-> "x.wait", i |-> 1, nr |-> 1,
                                    mode |-> States \ {"RUNNING"}]]
  /\ UNCHANGED << list, task, pc, call, build >>

\* The end of the list, or enough exclusive waiters woken.
Unlock(w) ==
  /\ lock' = [lock EXCEPT ![waker[w].head] = NULL]
  /\ waker' = [waker EXCEPT ![w] = Idle]

EndOfList(w) ==
  /\ Waking(w, "scan") /\ waker[w].i > Len(list[waker[w].head])
  /\ Unlock(w)
  /\ UNCHANGED << list, tokens, task, pc, call, build >>

\* The state is read without the lock of the runqueue.
ReadState(w) ==
  /\ Waking(w, "scan") /\ waker[w].i <= Len(list[waker[w].head])
  /\ LET p == list[waker[w].head][waker[w].i]
     IN  waker' = IF task[p].state \in waker[w].mode
                  THEN [waker EXCEPT ![w].pc = "try"] ELSE [waker EXCEPT ![w].i = @ + 1]
  /\ UNCHANGED << list, lock, tokens, task, pc, call, build >>

\* Mutant: a waiter that is still on the runqueue counts as woken.
Counts_awake(p) == Exclusive(p)

\* Whether waking p is one of the nr_exclusive.
Counts(p) == Exclusive(p) /\ ~task[p].array

TryToWakeUp(w) ==
  /\ Waking(w, "try")
  /\ LET p  == list[waker[w].head][waker[w].i]
         nr == IF Counts(p) THEN waker[w].nr - 1 ELSE waker[w].nr
     IN  /\ task' = try_to_wake_up(task, p)
         /\ IF Counts(p) /\ nr = 0 THEN Unlock(w)
            ELSE /\ waker' = [waker EXCEPT ![w].pc = "scan", ![w].i = @ + 1, ![w].nr = nr]
                 /\ UNCHANGED lock
  /\ UNCHANGED << list, tokens, pc, call, build >>

\* kernel/signal.c, and the timer of schedule_timeout.
Signal(t) ==
  /\ t \in Signalled /\ pc[t] # "user" /\ ~task[t].sigpending
  /\ LET T == [task EXCEPT ![t].sigpending = TRUE]
     IN  task' = IF T[t].state = "INTERRUPTIBLE" THEN try_to_wake_up(T, t) ELSE T
  /\ UNCHANGED << list, lock, tokens, pc, call, waker, build >>

Timeout(t) ==
  /\ pc[t] = "asleep" /\ call[t] \in {"sleep_on_timeout", "interruptible_sleep_on_timeout"}
  /\ ~task[t].expired
  /\ task' = try_to_wake_up([task EXCEPT ![t].expired = TRUE], t)
  /\ UNCHANGED << list, lock, tokens, pc, call, waker, build >>

-----------------------------------------------------------------------------
WaiterStep(t) ==
  \/ TestSucceeds(t) \/ GiveUp(t) \/ TestFails(t) \/ Add(t) \/ set_current_state(t)
  \/ Check(t) \/ CheckSignal(t) \/ SetRunning(t) \/ Leave(t) \/ Schedule(t) \/ Resume(t)
  \/ wait_for_completion(t) \/ Recheck(t)

WakerStep(w) == Lock(w) \/ EndOfList(w) \/ ReadState(w) \/ TryToWakeUp(w)

Next ==
  \/ \E t \in Waiter : WaiterStep(t) \/ Wait(t) \/ Signal(t) \/ Timeout(t)
  \/ \E w \in Waker : WakerStep(w) \/ wake_up(w) \/ complete(w)

Spec == Init /\ [][Next]_vars

-----------------------------------------------------------------------------
(* Properties *)

\* A waiter on the list that nothing but a wake-up, signal or timer will move.
Stuck(t) == pc[t] \in {"sched", "asleep"} /\ task[t].state # "RUNNING" /\ ~Interrupted(t)

\* A waiter on the list that will look for a token again.
Looking(t) == pc[t] \notin {"running", "remove"} /\ ~Stuck(t)

\* No wake-up is lost.  Once no wake-up of a queue is under way, there is a token only
\* if all non-exclusive waiters are awake, and either all exclusive waiters are or one
\* for each token is about to look for it: whichever of them were still on their way
\* into or out of schedule() when they were woken, got a signal instead, or found that
\* another waiter had taken their token.
NoLostWakeUp ==
  \A h \in Heads :
    tokens[h] > 0 /\ (\A w \in Waker : waker[w].pc # "idle" => waker[w].head # h) =>
      LET waiting == ToSet(list[h])
          stuck   == {t \in waiting : Stuck(t)}
      IN  /\ \A t \in stuck : Exclusive(t)
          /\ stuck # {} =>
               Cardinality({t \in waiting : Exclusive(t) /\ Looking(t)}) >= tokens[h]

=============================================================================
