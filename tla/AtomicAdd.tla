----------------------------- MODULE AtomicAdd ------------------------------
(***************************************************************************)
(* race/atomic-add.c: two threads add 1, 2, ..., n - 1 to a shared         *)
(* variable and main() compares the sum with twice what one thread would   *)
(* have got.  x is an atomic_int, so that "x = x + i" is an atomic load    *)
(* and an atomic store; with -a it is one atomic_fetch_add(), with -m both *)
(* happen under a mutex.  Sums wrap around, at Width instead of 2^32.      *)
(*                                                                         *)
(* count[t] is a thread's i - 1.  A thread is at "loop", "load", "store"   *)
(* or "unlock".                                                            *)
(***************************************************************************)
EXTENDS Pthreads

CONSTANTS Width,    \* bound: 2^32 in the code
          AddNs     \* bound: the values of <num_of_cycles>, besides -1

\* An int that is not negative is less than the number of unsigned ints.
ASSUME AddAssumption == Width \in Nat \ {0} /\ AddNs \subseteq 0 .. Width - 1

VARIABLES n, x,
          tmp,      \* what each thread loaded
          mutex,    \* who holds the mutex
          lost,     \* history: a store undid an addition
          verdict   \* what main() says in the end

addVars == <<n, x, tmp, mutex, lost, verdict>>

AddInit == /\ n \in IF program = "add" THEN AddNs \cup {-1} ELSE {0}
           /\ x = 0 /\ mutex = {} /\ lost = FALSE /\ verdict = "none"
           /\ tmp = [t \in Threads |-> 0]

I(t) == count[t] + 1   \* the thread's loop variable

FetchAdd(t) == /\ opt = "-a" /\ At(t, "loop") /\ I(t) < n
               /\ x' = (x + I(t)) % Width
               /\ count' = [count EXCEPT ![t] = @ + 1]
               /\ UNCHANGED <<pc, mainVars, detached, joined, n, tmp, mutex, lost, verdict>>

\* As Lock, without waiting for the holder.
LockAnyway(t) == /\ At(t, "loop") /\ I(t) < n
                 /\ opt = "-m"
                 /\ mutex' = {t}
                 /\ Goto(t, "load")
                 /\ UNCHANGED <<mainVars, threadVars, n, x, tmp, lost, verdict>>

Lock(t) == /\ At(t, "loop") /\ I(t) < n
           /\ opt = "-m" /\ mutex = {}
           /\ mutex' = {t}
           /\ Goto(t, "load")
           /\ UNCHANGED <<mainVars, threadVars, n, x, tmp, lost, verdict>>

Load(t) == /\ At(t, "load") \/ (At(t, "loop") /\ opt = "" /\ I(t) < n)
           /\ tmp' = [tmp EXCEPT ![t] = x]
           /\ Goto(t, "store")
           /\ UNCHANGED <<mainVars, threadVars, n, x, mutex, lost, verdict>>

Store(t) == /\ At(t, "store")
            /\ x' = (tmp[t] + I(t)) % Width
            /\ lost' = (lost \/ x # tmp[t])
            /\ count' = [count EXCEPT ![t] = @ + 1]
            /\ Goto(t, IF opt = "-m" THEN "unlock" ELSE "loop")
            /\ UNCHANGED <<mainVars, detached, joined, n, tmp, mutex, verdict>>

Unlock(t) == /\ At(t, "unlock")
             /\ mutex' = {}
             /\ Goto(t, "loop")
             /\ UNCHANGED <<mainVars, threadVars, n, x, tmp, lost, verdict>>

Count(t) == \/ FetchAdd(t)
            \/ Lock(t)
            \/ Load(t)
            \/ Store(t)
            \/ Unlock(t)
            \/ /\ At(t, "loop") /\ I(t) >= n
               /\ Goto(t, "ended")
               /\ UNCHANGED <<mainVars, threadVars, addVars>>

\* What the loop of main() adds up to.  n1 is unsigned there, while the threads
\* look at the same number as an int: below zero they make no turn at all.
X2 == LET n1 == n % Width IN (n1 * (n1 - 1)) \div 2

AddMain == \/ StartThread(2, "loop") /\ UNCHANGED addVars
           \/ (Increment \/ Started(2) \/ JoinThread(2, j + 1)) /\ UNCHANGED addVars
           \/ /\ ReturnAfter(2)
              /\ verdict' = IF x # (2 * X2) % Width THEN "RACE DETECTED" ELSE "OK"
              /\ UNCHANGED <<n, x, tmp, mutex, lost>>
           \/ ExitProcess /\ UNCHANGED addVars
=============================================================================
