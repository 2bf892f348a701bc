--------------------------- MODULE ForkedThreads ----------------------------
(***************************************************************************)
(* fork() in a process with threads: the child has a copy of everything,   *)
(* the mutexes included, but only of the thread that called fork().        *)
(*                                                                         *)
(* atfork.c: main() holds a mutex while a forker thread forks; handlers    *)
(* take the mutex before the fork() and release it after, on both sides.   *)
(* With -d there are no handlers.  fork.c: main() forks.                   *)
(* fork-not-in-main.c: a thread forks and both copies go on looping.       *)
(***************************************************************************)
EXTENDS Pthreads

VARIABLES holder,       \* the thread of the parent that holds the mutex, if any
          childHolder,  \* the same for the child's copy: a thread that is not in
                        \* the child is named by its number in the parent
          inherited     \* history: childHolder just after the fork()

forkVars == <<holder, childHolder, inherited>>

ForkPrograms == {"atfork", "fork", "forknotmain"}

ForkInit == holder = {} /\ childHolder = {} /\ inherited = {}

\* fork() by thread t: the two copies go on from l.
Forks(t, l) == /\ pc' = [pc EXCEPT ![t] = l, ![Child] = l]
               /\ childHolder' = {IF h = t THEN Child ELSE h : h \in holder}
               /\ inherited' = childHolder'
               /\ UNCHANGED <<mainVars, threadVars, holder>>

\* err(1, "fork") ends the process whichever thread calls it.
ForkFails == /\ pc' = [a \in Actors |-> IF At(a, "unborn") THEN "unborn" ELSE "gone"]
             /\ status' = 1
             /\ UNCHANGED <<i, j, threadVars, forkVars>>
-----------------------------------------------------------------------------
(* atfork.c.                                                               *)

\* The mutex of the process that a is in.
Holder(a) == IF a = Child THEN childHolder ELSE holder

SetHolder(a, h) == IF a = Child THEN childHolder' = h /\ UNCHANGED holder
                                ELSE holder' = h /\ UNCHANGED childHolder

MutexLock(a, l, m) == /\ At(a, l) /\ Holder(a) = {}
                      /\ SetHolder(a, {a})
                      /\ Goto(a, m)
                      /\ UNCHANGED <<mainVars, threadVars, inherited>>

MutexUnlock(a, l, m) == /\ At(a, l)
                        /\ SetHolder(a, {})
                        /\ Goto(a, m)
                        /\ UNCHANGED <<mainVars, threadVars, inherited>>

\* As before(), without taking the mutex.
beforeLocksNothing(t) == /\ At(t, "before")
                         /\ Goto(t, "forking")
                         /\ UNCHANGED <<mainVars, threadVars, forkVars>>

before(t) == MutexLock(t, "before", "forking")
after(a) == MutexUnlock(a, "after", "lock")

\* The forker of the parent, and its copy in the child.
forker(a) == \/ before(a)
             \/ /\ At(a, "forking")
                /\ Forks(a, IF opt = "-d" THEN "lock" ELSE "after") \/ ForkFails
             \/ after(a)
             \/ MutexLock(a, "lock", "unlock")
             \/ MutexUnlock(a, "unlock", "ended")

\* The mutex is main's before there is another thread.
TakesMutex == /\ At(Main, "create") /\ i = 0 /\ holder = {}
              /\ holder' = {Main}
              /\ UNCHANGED <<pc, mainVars, threadVars, childHolder, inherited>>

\* Thread 2 is the counter: it prints until it is cancelled, and that is all.
StartsForker == /\ holder # {}
                /\ StartThread(1, IF opt = "-d" THEN "forking" ELSE "before")
                /\ UNCHANGED forkVars

StartsCounter == i = 1 /\ StartThread(2, "count") /\ UNCHANGED forkVars

\* pthread_join(), pthread_cancel() of the counter, and pthread_mutex_destroy().
JoinsForker == /\ At(Main, "joining") /\ JoinSucceeds(1)
               /\ joined' = {1}
               /\ pc' = [pc EXCEPT ![Main] = "wait", ![2] = "ended"]
               /\ UNCHANGED <<mainVars, count, detached, forkVars>>

AtforkMain == \/ TakesMutex
              \/ StartsForker
              \/ StartsCounter
              \/ (Increment \/ Started(2)) /\ UNCHANGED forkVars
              \/ MutexUnlock(Main, "join", "joining")
              \/ JoinsForker
              \/ At(Main, "wait") /\ At(Child, "ended") /\ Return(0) /\ UNCHANGED forkVars
-----------------------------------------------------------------------------
(* fork.c: the child sleeps and returns.  fork-not-in-main.c: the child's  *)
(* only thread loops as the parent's does; nobody waits for the child.     *)

ForkMain == \/ StartThread(2, "loop") /\ UNCHANGED forkVars
            \/ Increment /\ UNCHANGED forkVars
            \/ At(Main, "create") /\ i = 2 /\ (Forks(Main, "join") \/ ForkFails)
            \/ (JoinThread(2, j + 1) \/ ReturnAfter(2)) /\ UNCHANGED forkVars

ForkChild == /\ At(Child, "join")
             /\ Goto(Child, "ended")
             /\ UNCHANGED <<mainVars, threadVars, forkVars>>

NotMainMain == \/ StartThread(1, "forking") /\ UNCHANGED forkVars
               \/ (Increment \/ Started(1)) /\ UNCHANGED forkVars
               \/ (JoinThread(1, 1) \/ ReturnAfter(1)) /\ UNCHANGED forkVars

NotMainThread(a) == \/ At(a, "forking") /\ (Forks(a, "loop") \/ ForkFails)
                    \/ (LoopTurn(a, Loops) \/ LoopEnd(a, Loops)) /\ UNCHANGED forkVars

ForkedMain == \/ Is("atfork") /\ AtforkMain
              \/ Is("fork") /\ ForkMain
              \/ Is("forknotmain") /\ NotMainMain
              \/ program \in ForkPrograms /\ ExitProcess /\ UNCHANGED forkVars

ForkedThread(a) == \/ Is("atfork") /\ forker(a)
                   \/ Is("fork") /\ ForkChild /\ a = Child
                   \/ /\ Is("fork") /\ a # Child
                      /\ LoopTurn(a, Loops) \/ LoopEnd(a, Loops)
                      /\ UNCHANGED forkVars
                   \/ Is("forknotmain") /\ NotMainThread(a)
=============================================================================
