------------------------------ MODULE CondVars ------------------------------
(***************************************************************************)
(* The pthread library (external) as the programs with one mutex and one   *)
(* condition variable use it: cond-variables/queue-simulation.c and the    *)
(* hand-made barriers.                                                     *)
(***************************************************************************)
EXTENDS Integers

VARIABLES mutex,       \* the thread that owns the mutex, or "free"
          waiting,     \* threads asleep on the condition variable
          pc           \* where each thread is

Goto(t, l) == pc' = [pc EXCEPT ![t] = l]

\* pthread_mutex_lock(), and the re-acquisition inside pthread_cond_wait()
Acquire(t) == mutex = "free" /\ mutex' = t

\* pthread_cond_wait() releases the mutex and falls asleep in one step.
CondWait(t) == mutex' = "free" /\ waiting' = waiting \cup {t}

\* pthread_cond_signal(): nothing happens when nobody sleeps
CondSignal == \/ waiting = {} /\ UNCHANGED waiting
              \/ \E t \in waiting : waiting' = waiting \ {t}

CondBroadcast == waiting' = {}

\* A thread may return from pthread_cond_wait() although nobody woke it up.
SpuriousWakeup(t) == /\ t \in waiting
                     /\ waiting' = waiting \ {t}
                     /\ UNCHANGED <<mutex, pc>>
=============================================================================
