-------------------------- MODULE QueueSimulation ---------------------------
(***************************************************************************)
(* cond-variables/queue-simulation.c: a producer, a consumer and the main  *)
(* thread, which displays the queue, share a message counter under ONE     *)
(* mutex and ONE condition variable.  A thread signals only when the queue *)
(* leaves the boundary the other one may be sleeping on.                   *)
(*                                                                         *)
(* A thread's program counter is                                           *)
(*   "poll"    in poll(), or drew 0 from random() and went round again     *)
(*   "lock"    in pthread_mutex_lock()                                     *)
(*   "test"    holds the mutex, about to test the while condition          *)
(*   "wait"    in pthread_cond_wait()                                      *)
(*   "signal"  has changed in_queue, about to decide whether to signal     *)
(*   "unlock"  about to call pthread_mutex_unlock()                        *)
(***************************************************************************)
EXTENDS CondVars

CONSTANT Capacities    \* values of the optional argument (atoi(argv[1]))

\* main() takes any integer; with a capacity below 1 the producer has no
\* queue to fill, and nothing is claimed of the program.
ASSUME CapacitiesAssumption == Capacities \subseteq Nat \ {0}

VARIABLES in_queue,       \* messages in the queue
          capacity,       \* set once, before the threads are created
          orig_in_queue   \* the consumer's local copy of in_queue

queueVars == <<in_queue, capacity, orig_in_queue, mutex, waiting, pc>>

QueueThreads == {"producer", "consumer", "main"}
Holding == {"test", "signal", "unlock"}      \* program points under the mutex

QueueInit == /\ in_queue = 0
             /\ capacity \in Capacities
             /\ orig_in_queue = 0
             /\ mutex = "free"
             /\ waiting = {}
             /\ pc = [t \in QueueThreads |-> IF t = "main" THEN "lock" ELSE "poll"]
-----------------------------------------------------------------------------
(* Steps every thread takes.                                               *)

\* poll() has timed out (and random() % 2 was 1: on 0 the loop goes round).
Poll(t) == /\ pc[t] = "poll"
           /\ Goto(t, "lock")
           /\ UNCHANGED <<in_queue, capacity, orig_in_queue, mutex, waiting>>

LockQueue(t) == /\ pc[t] = "lock"
                /\ Acquire(t)
                /\ Goto(t, "test")
                /\ UNCHANGED <<in_queue, capacity, orig_in_queue, waiting>>

UnlockQueue(t) == /\ pc[t] = "unlock"
                  /\ mutex' = "free"
                  /\ Goto(t, "poll")
                  /\ UNCHANGED <<in_queue, capacity, orig_in_queue, waiting>>
-----------------------------------------------------------------------------
(* The while loops around pthread_cond_wait().                             *)

Full == in_queue = capacity
Empty == in_queue = 0

Sleep(t) == /\ pc[t] = "test"
            /\ \/ t = "producer" /\ Full
               \/ t = "consumer" /\ Empty
            /\ CondWait(t)
            /\ Goto(t, "wait")
            /\ UNCHANGED <<in_queue, capacity, orig_in_queue>>

\* Mutant: an `if' where the code has a `while', no second test after waking.
TestNotAgain(t) == /\ pc[t] = "wait"
                   /\ t \notin waiting
                   /\ Acquire(t)
                   /\ in_queue' = in_queue + (IF t = "producer" THEN 1 ELSE -1)
                   /\ Goto(t, "signal")
                   /\ UNCHANGED <<capacity, orig_in_queue, waiting>>

\* A woken thread gets the mutex back and tests the condition again.
TestAgain(t) == /\ pc[t] = "wait"
                /\ t \notin waiting
                /\ Acquire(t)
                /\ Goto(t, "test")
                /\ UNCHANGED <<in_queue, capacity, orig_in_queue, waiting>>
-----------------------------------------------------------------------------
(* The critical sections.                                                  *)

Insert == /\ pc["producer"] = "test"
          /\ ~Full
          /\ in_queue' = in_queue + 1
          /\ Goto("producer", "signal")
          /\ UNCHANGED <<capacity, orig_in_queue, mutex, waiting>>

\* Mutant: the producer does not signal at all.
SignalConsumerNever == /\ pc["producer"] = "signal"
                       /\ UNCHANGED waiting
                       /\ Goto("producer", "unlock")
                       /\ UNCHANGED <<in_queue, capacity, orig_in_queue, mutex>>

\* The producer signals only if the queue was empty before the insertion.
SignalConsumer == /\ pc["producer"] = "signal"
                  /\ IF in_queue = 1 THEN CondSignal ELSE UNCHANGED waiting
                  /\ Goto("producer", "unlock")
                  /\ UNCHANGED <<in_queue, capacity, orig_in_queue, mutex>>

Remove == /\ pc["consumer"] = "test"
          /\ ~Empty
          /\ orig_in_queue' = in_queue
          /\ in_queue' = in_queue - 1
          /\ Goto("consumer", "signal")
          /\ UNCHANGED <<capacity, mutex, waiting>>

\* Mutant: compares the counter as it is after the removal.
SignalProducerStale == /\ pc["consumer"] = "signal"
                       /\ IF in_queue = capacity THEN CondSignal ELSE UNCHANGED waiting
                       /\ Goto("consumer", "unlock")
                       /\ UNCHANGED <<in_queue, capacity, orig_in_queue, mutex>>

\* The consumer signals only if the queue was full before the removal.
SignalProducer == /\ pc["consumer"] = "signal"
                  /\ IF orig_in_queue = capacity THEN CondSignal ELSE UNCHANGED waiting
                  /\ Goto("consumer", "unlock")
                  /\ UNCHANGED <<in_queue, capacity, orig_in_queue, mutex>>

\* main() prints in_queue dots and capacity - in_queue spaces.
Display == /\ pc["main"] = "test"
           /\ Goto("main", "unlock")
           /\ UNCHANGED <<in_queue, capacity, orig_in_queue, mutex, waiting>>
-----------------------------------------------------------------------------
QueueNext ==
    \/ \E t \in QueueThreads :
          \/ Poll(t) \/ LockQueue(t) \/ UnlockQueue(t) \/ Sleep(t) \/ TestAgain(t)
          \/ SpuriousWakeup(t) /\ UNCHANGED <<in_queue, capacity, orig_in_queue>>
    \/ Insert \/ SignalConsumer \/ Remove \/ SignalProducer \/ Display

\* Every thread keeps running: random() draws a 1 now and then, so Poll is
\* taken.  Between two critical sections every thread sleeps in poll() for
\* at least 85 ms with the mutex free, so that a thread asking for the mutex
\* over and over again gets it: strong fairness for the acquisitions.
\* Nothing is assumed of spurious wakeups.
QueueFairness ==
    /\ \A t \in QueueThreads : /\ WF_queueVars(Poll(t) \/ UnlockQueue(t) \/ Sleep(t))
                               /\ SF_queueVars(LockQueue(t)) /\ SF_queueVars(TestAgain(t))
    /\ WF_queueVars(Insert) /\ WF_queueVars(SignalConsumer)
    /\ WF_queueVars(Remove) /\ WF_queueVars(SignalProducer) /\ WF_queueVars(Display)

QueueSafeSpec == QueueInit /\ [][QueueNext]_queueVars
QueueSpec == QueueSafeSpec /\ QueueFairness
-----------------------------------------------------------------------------
\* Types, and the bound the mutex and the two while loops protect: the
\* queue never holds more than capacity nor fewer than no messages.
QueueTypeOK == /\ capacity \in Capacities
               /\ in_queue \in 0 .. capacity
               /\ orig_in_queue \in 0 .. capacity
               /\ mutex \in QueueThreads \cup {"free"}
               /\ waiting \subseteq {"producer", "consumer"}
               /\ pc \in [QueueThreads -> {"poll", "lock", "test", "wait", "signal", "unlock"}]

\* No wakeup is lost although a thread signals only when the queue leaves a
\* boundary: whoever is asleep has a reason to be, or the thread that removed
\* the reason still holds the mutex and is about to signal.
NoLostWakeup ==
    /\ "producer" \in waiting =>
          \/ Full
          \/ pc["consumer"] = "signal" /\ orig_in_queue = capacity
    /\ "consumer" \in waiting =>
          \/ Empty
          \/ pc["producer"] = "signal" /\ in_queue = 1

\* The threads implement the abstract bounded queue, its progress included.
Queue == INSTANCE BoundedQueue WITH n <- in_queue, cap <- capacity
ImplementsQueue == Queue!Spec
=============================================================================
