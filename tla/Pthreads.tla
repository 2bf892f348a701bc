------------------------------ MODULE Pthreads ------------------------------
(***************************************************************************)
(* What the programs under pthreads/, race/atomic-add.c and                *)
(* mutexes/not-my-lock.c share: a main() that starts threads in a loop and *)
(* joins them in another, threads that print in a loop, and the end of the *)
(* process, which takes every thread with it.  A module for each group of  *)
(* programs EXTENDS this one; ThreadPrograms puts them together.           *)
(*                                                                         *)
(* Main's program counter is "create" or "next" in the first loop, "join"  *)
(* in the second one, "return" once its stack frame is gone, "exit" in     *)
(* exit() called with the frame still there, and "gone" at the end.  A     *)
(* thread is "unborn", "loop" or somewhere of its own, "ended", or "gone". *)
(***************************************************************************)
EXTENDS Integers, FiniteSets

CONSTANTS N,      \* bound: how many threads; NUM_THREADS is 5 or 8
          Loops   \* bound: how often a thread prints; 3, 5 or 10 in the code

ASSUME PthreadsAssumption == N \in Nat /\ N >= 3 /\ Loops \in Nat \ {0}

VARIABLES program, opt,   \* what runs, and with which option
          pc,             \* where everybody is
          i, j,           \* main's loop counters
          count,          \* how often each thread went round its loop
          detached,       \* threads in detached state
          joined,         \* threads that have been joined
          status          \* exit status; 0 until main() says otherwise

Main == 0
Threads == 1 .. N
Child == N + 1            \* the one thread of a process made by fork()
Actors == 0 .. N + 1

programVars == <<program, opt>>
mainVars == <<i, j, status>>
threadVars == <<count, detached, joined>>

At(a, l) == pc[a] = l
Goto(a, l) == pc' = [pc EXCEPT ![a] = l]
Is(p) == program = p

PthreadsInit == /\ pc = [a \in Actors |-> IF a = Main THEN "create" ELSE "unborn"]
                /\ i = 0 /\ j = 0 /\ status = 0
                /\ count = [a \in Actors |-> 0]
                /\ detached = {} /\ joined = {}

\* One turn of "for (i = 0; i < n; ++i) pthread_create(...)", in two steps: the
\* thread may run before i is incremented.  The caller says where it starts.
StartThread(n, l) == /\ At(Main, "create") /\ i < n
                     /\ pc' = [pc EXCEPT ![i + 1] = l, ![Main] = "next"]
                     /\ UNCHANGED <<mainVars, threadVars>>

Increment == /\ At(Main, "next")
             /\ i' = i + 1
             /\ Goto(Main, "create")
             /\ UNCHANGED <<j, status, threadVars>>

Started(n) == /\ At(Main, "create") /\ i = n
              /\ Goto(Main, "join")
              /\ UNCHANGED <<mainVars, threadVars>>

\* The calls of pthread_join(t) that end, with and without success: a thread
\* that is detached gives EINVAL, one that was joined before gives ESRCH.
JoinFails(t) == t \in detached \cup joined

\* As JoinSucceeds, without waiting for the thread.
JoinSucceedsAtOnce(t) == ~JoinFails(t)

JoinSucceeds(t) == At(t, "ended") /\ ~JoinFails(t)

\* A turn of the joining loop: a failure is printed, and the next turn follows.
JoinThread(n, t) == /\ At(Main, "join") /\ j < n
                    /\ JoinSucceeds(t) \/ JoinFails(t)
                    /\ joined' = IF JoinFails(t) THEN joined ELSE joined \cup {t}
                    /\ j' = j + 1
                    /\ UNCHANGED <<pc, i, status, count, detached>>

Return(s) == /\ Goto(Main, "return")
             /\ status' = s
             /\ UNCHANGED <<i, j, threadVars>>

Errx(s) == /\ Goto(Main, "exit")
           /\ status' = s
           /\ UNCHANGED <<i, j, threadVars>>

ReturnAfter(n) == At(Main, "join") /\ j = n /\ Return(0)

\* exit_group(): the threads that are still there end where they are.
ExitProcess == /\ At(Main, "return") \/ At(Main, "exit")
               /\ pc' = [a \in Actors |-> IF a = Child \/ At(a, "unborn") THEN pc[a]
                                                                    ELSE "gone"]
               /\ UNCHANGED <<mainVars, threadVars>>

\* A turn of a thread's loop without what it prints, and the end of the loop.
LoopTurn(t, n) == /\ At(t, "loop") /\ count[t] < n
                  /\ count' = [count EXCEPT ![t] = @ + 1]
                  /\ UNCHANGED <<pc, mainVars, detached, joined>>

LoopEnd(t, n) == /\ At(t, "loop") /\ count[t] = n
                 /\ Goto(t, "ended")
                 /\ UNCHANGED <<mainVars, threadVars>>
=============================================================================
