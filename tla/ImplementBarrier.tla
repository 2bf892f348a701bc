-------------------------- MODULE ImplementBarrier --------------------------
(***************************************************************************)
(* pthreads/implement-barrier.c: a barrier for `max' threads built from a  *)
(* mutex, a condition variable and a count of arrivals.  The program is    *)
(* known not to work: its header says that it deadlocks.  Most of it is    *)
(* shared with implement-barrier-fixed.c (module ImplementBarrierFixed).   *)
(*                                                                         *)
(* A thread's program counter is                                           *)
(*   "print"   working (poll), then printing its ID                        *)
(*   "lock"    in pthread_mutex_lock()                                     *)
(*   "enter"   holds the mutex, about to increment on_barrier              *)
(*   "first"   holds the mutex, at the test of the waiting loop            *)
(*   "wait1"   in pthread_cond_wait() of that loop                         *)
(*   "unlock"  about to release the mutex                                  *)
(* and, in the fixed program, "second" and "wait2", the same for its       *)
(* second waiting loop.                                                    *)
(***************************************************************************)
EXTENDS CondVars, FiniteSets

CONSTANTS Threads,     \* the max threads main() creates
          IntModulus   \* 2^32 in the build: int wraps around

max == Cardinality(Threads)

\* main() refuses a max below 2.
ASSUME ThreadsAssumption == IsFiniteSet(Threads) /\ max >= 2
ASSUME IntAssumption == IntModulus \in Nat \ {0} /\ IntModulus % 2 = 0

VARIABLES on_barrier,  \* arrivals since the start, an int
          line,        \* how often each ID is on the current output line
          arrived      \* history: who has arrived since the last line ended

bvars == <<on_barrier, mutex, waiting, line, arrived, pc>>

BarrierInit == /\ on_barrier = 0
               /\ mutex = "free"
               /\ waiting = {}
               /\ line = [t \in Threads |-> 0]
               /\ arrived = {}
               /\ pc = [t \in Threads |-> "print"]

\* Undefined in C when n is INT_MAX; built without optimisation, it wraps.
Increment(n) == IF n = IntModulus \div 2 - 1 THEN -(IntModulus \div 2) ELSE n + 1

\* Mutant: one thread too few is waited for.
AtBarrierOffByOne(n) == n % (max - 1) = 0

\* (n % max) == 0, which C and TLA+ agree on for negative n too.
AtBarrier(n) == n % max = 0
-----------------------------------------------------------------------------
(* thread(): the part the two programs share.                              *)

\* Back from pthread_cond_wait(): at the test of the loop it was called in.
Reacquire(t) == /\ pc[t] \in {"wait1", "wait2"}
                /\ t \notin waiting
                /\ Acquire(t)
                /\ Goto(t, IF pc[t] = "wait1" THEN "first" ELSE "second")
                /\ UNCHANGED <<on_barrier, waiting, line, arrived>>

PrintID(t) == /\ pc[t] = "print"
              /\ line' = [line EXCEPT ![t] = @ + 1]
              /\ Goto(t, "lock")
              /\ UNCHANGED <<on_barrier, mutex, waiting, arrived>>

Lock(t) == /\ pc[t] = "lock"
           /\ Acquire(t)
           /\ Goto(t, "enter")
           /\ UNCHANGED <<on_barrier, waiting, line, arrived>>

\* Counting an arrival; the one that makes a multiple of max ends the line.
Arrive(t) ==
    /\ on_barrier' = Increment(on_barrier)
    /\ IF AtBarrier(on_barrier')
       THEN line' = [u \in Threads |-> 0] /\ arrived' = {}
       ELSE UNCHANGED line /\ arrived' = arrived \cup {t}

FirstWait(t) == /\ pc[t] = "first"
                /\ ~AtBarrier(on_barrier)
                /\ CondWait(t)
                /\ Goto(t, "wait1")
                /\ UNCHANGED <<on_barrier, line, arrived>>

Unlock(t) == /\ pc[t] = "unlock"
             /\ mutex' = "free"
             /\ Goto(t, "print")
             /\ UNCHANGED <<on_barrier, waiting, line, arrived>>
-----------------------------------------------------------------------------
(* thread(): what is particular to implement-barrier.c.                    *)

Enter(t) == /\ pc[t] = "enter"
            /\ Arrive(t)
            /\ IF AtBarrier(on_barrier')
               THEN CondBroadcast /\ Goto(t, "unlock")
               ELSE UNCHANGED waiting /\ Goto(t, "first")
            /\ UNCHANGED mutex

FirstLeave(t) == /\ pc[t] = "first"
                 /\ AtBarrier(on_barrier)
                 /\ Goto(t, "unlock")
                 /\ UNCHANGED <<on_barrier, mutex, waiting, line, arrived>>

Thread(t) == PrintID(t) \/ Enter(t) \/ FirstWait(t) \/ FirstLeave(t) \/ Unlock(t)
=============================================================================
