----------------------------- MODULE NotMyLock ------------------------------
(***************************************************************************)
(* mutexes/not-my-lock.c: main() locks a mutex and a thread unlocks it;    *)
(* main() unlocks a mutex that is not locked, and locks one twice.  What   *)
(* happens depends on the type of the mutex: NORMAL (-n, and the default   *)
(* on Linux), ERRORCHECK (-e) or RECURSIVE (-r).                           *)
(***************************************************************************)
EXTENDS Pthreads

VARIABLES mine,      \* who holds the first mutex
          third,     \* how often main() has locked mutex3
          report     \* what was printed about the three misuses

lockVars == <<mine, third, report>>

LockTypes == {"", "-n", "-e", "-r"}
Normal == opt \in {"", "-n"}

LockInit == /\ mine = {} /\ third = 0
            /\ report = [foreign |-> "", unlocked |-> "", relock |-> ""]

\* pthread_mutex_unlock() of a mutex with the holders h, by a.
UnlockError(a, h) == IF Normal \/ a \in h THEN "none" ELSE "EPERM"

\* The thread sleeps a second first, but nothing says that main() has the mutex.
UnlockForeign == /\ At(1, "start")
                 /\ report' = [report EXCEPT !.foreign = UnlockError(1, mine)]
                 /\ mine' = IF report'.foreign = "none" THEN {} ELSE mine
                 /\ Goto(1, "ended")
                 /\ UNCHANGED <<mainVars, threadVars, third>>

LockMine == /\ At(Main, "next") /\ mine = {}
            /\ mine' = {Main}
            /\ Goto(Main, "join")
            /\ UNCHANGED <<mainVars, threadVars, third, report>>

UnlockUnlocked == /\ At(Main, "join") /\ JoinSucceeds(1)
                  /\ joined' = {1}
                  /\ report' = [report EXCEPT !.unlocked = UnlockError(Main, {})]
                  /\ Goto(Main, "mutex3")
                  /\ UNCHANGED <<mainVars, count, detached, mine, third>>

LockThird == /\ At(Main, "mutex3") /\ third = 0
             /\ third' = 1
             /\ UNCHANGED <<pc, mainVars, threadVars, mine, report>>

\* A NORMAL mutex makes its holder wait for itself.
Relock == /\ At(Main, "mutex3") /\ third = 1
          /\ ~Normal
          /\ third' = IF opt = "-r" THEN 2 ELSE 1
          /\ report' = [report EXCEPT
                          !.relock = IF opt = "-r" THEN "none" ELSE "EDEADLK"]
          /\ Return(0)
          /\ UNCHANGED mine

NotMyLockMain == \/ StartThread(1, "start") /\ UNCHANGED lockVars
                 \/ LockMine
                 \/ UnlockUnlocked
                 \/ LockThird
                 \/ Relock
                 \/ ExitProcess /\ UNCHANGED lockVars
=============================================================================
