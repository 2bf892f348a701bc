--------------------------- MODULE ThreadPrograms ---------------------------
(***************************************************************************)
(* The programs with threads, one of which runs in a behaviour: the        *)
(* modules of the groups put together, with the properties of them all.    *)
(***************************************************************************)
EXTENDS ThreadArgs, ThreadCancel, AtomicAdd, ForkedThreads, RwLock, NotMyLock

vars == <<programVars, pc, mainVars, threadVars, argVars, cancelVars, addVars,
          forkVars, rwVars, lockVars>>

\* The programs and the options they are run with.
CommandLines == (ArgPrograms \cup RwPrograms \cup {"fork", "forknotmain"}) \X {""}
                \cup {"cancel"} \X {"", "-a"}
                \cup {"add"} \X {"", "-a", "-m"}
                \cup {"atfork"} \X {"", "-d"}
                \cup {"notmylock"} \X LockTypes

Init == /\ \E c \in CommandLines : program = c[1] /\ opt = c[2]
        /\ PthreadsInit
        /\ ArgInit /\ CancelInit /\ AddInit /\ ForkInit /\ RwInit /\ LockInit

\* A step of main(), of a thread, or of the child's thread.
ArgStep(a) == /\ program \in ArgPrograms
              /\ IF a = Main THEN ArgMain ELSE a \in Threads /\ ArgThread(a)
              /\ UNCHANGED <<programVars, cancelVars, addVars, forkVars, rwVars, lockVars>>

CancelStep(a) == /\ Is("cancel")
                 /\ IF a = Main THEN CancelMain ELSE a = 1 /\ mythread
                 /\ UNCHANGED <<programVars, argVars, addVars, forkVars, rwVars, lockVars>>

AddStep(a) == /\ Is("add")
              /\ IF a = Main THEN AddMain ELSE a \in Threads /\ Count(a)
              /\ UNCHANGED <<programVars, argVars, cancelVars, forkVars, rwVars, lockVars>>

ForkStep(a) == /\ program \in ForkPrograms
               /\ IF a = Main THEN ForkedMain ELSE ForkedThread(a)
               /\ UNCHANGED <<programVars, argVars, cancelVars, addVars, rwVars, lockVars>>

RwlockStep(a) == /\ program \in RwPrograms
                 /\ IF a = Main THEN RwMain ELSE a \in Threads /\ RwStep(a)
                 /\ UNCHANGED <<programVars, argVars, cancelVars, addVars, forkVars, lockVars>>

LockStep(a) == /\ Is("notmylock")
               /\ IF a = Main THEN NotMyLockMain ELSE a = 1 /\ UnlockForeign
               /\ UNCHANGED <<programVars, argVars, cancelVars, addVars, forkVars, rwVars>>

Step(a) == \/ ArgStep(a)
           \/ CancelStep(a)
           \/ AddStep(a)
           \/ ForkStep(a)
           \/ RwlockStep(a)
           \/ LockStep(a)

Next == \E a \in Actors : Step(a)

\* The scheduler runs every thread that can run.
Fairness == \A a \in Actors : WF_vars(Step(a))

Spec == Init /\ [][Next]_vars /\ Fairness
-----------------------------------------------------------------------------
Ended == At(Main, "gone")

\* Type correctness.  The thread a join was last called for has ended, and a
\* mutex is held by at most one thread.
TypeOK == /\ <<program, opt>> \in CommandLines
          /\ i \in 0 .. N /\ j \in 0 .. N /\ status \in 0 .. 1
          /\ count \in [Actors -> 0 .. IF Is("add") THEN Width ELSE Loops]
          /\ detached \subseteq Threads /\ joined \subseteq Threads
          /\ \A t \in joined : pc[t] \in {"ended", "gone"}
          /\ cell \in [0 .. N -> Garbage .. N]
          /\ printed \in [Threads -> SUBSET (Garbage .. N)]
          /\ waiting \subseteq Threads
          /\ x \in 0 .. Width - 1 /\ tmp \in [Threads -> 0 .. Width - 1]
          /\ \A h \in {mutex, holder, childHolder, writer, mine} :
                h \subseteq Actors /\ Cardinality(h) <= 1
          /\ readers \subseteq Threads
          /\ third \in 0 .. 2

\* What thread t may print.
OwnNumbers(t) == CASE program \in {"correct", "barrier", "int"} -> {t - 1}
                   [] program \in {"join", "detach"} -> {t}
                   [] program = "setdetach" -> {t, Garbage}
                   [] program = "wrong" -> (t - 1 .. N) \cup {Garbage}
                   [] OTHER -> {0}

\* What the threads print is their own number where main() passed it in a cell
\* of its own and joins them, or passed the number itself, however late they
\* look at it.  With the address of the loop counter (wrong-use-of-arg.c) thread
\* t prints no number below the one it was started with, and the threads that
\* nobody joins (set-detachstate.c too) may find main's frame gone.
OwnArgument == \A t \in Threads : printed[t] \subseteq OwnNumbers(t)

\* The exit status says how the thread ended.  pthread-detach-join.c succeeds
\* only if pthread_join() was called before the thread detached itself;
\* pthread-setcanceltype.c fails only if open() had returned before the request,
\* whatever the type; not-my-lock.c prints the same three results wherever the
\* thread's unlock falls, and gets to the end unless the mutex is NORMAL.
Verdicts ==
    Ended => CASE program = "detach" -> status = (IF 1 \in detached THEN 1 ELSE 0)
               [] program = "cancel" -> (status = 0) = canceled /\ (status = 1 => late)
               [] program = "notmylock" ->
                    report = [foreign |-> "EPERM", unlocked |-> "EPERM",
                              relock |-> IF opt = "-r" THEN "none" ELSE "EDEADLK"]
               [] OTHER -> TRUE

\* atomic-add.c: with -a or -m no addition is lost, and main() says so even when
\* the sum wraps around.  Without them the program detects a race exactly when a
\* store undid an addition, as long as nothing wraps around.  A negative number
\* of cycles is a race to every version: the threads count no turns, main() does.
AdditionsKept ==
    (Is("add") /\ Ended) =>
       /\ opt # "" => ~lost
       /\ (n >= 0 /\ (opt # "" \/ 2 * X2 < Width)) => (lost <=> verdict = "RACE DETECTED")
       /\ n < 0 => ~lost /\ (verdict = "OK" => (n * (n - 1)) % Width = 0)

\* atfork.c: with the handlers the child's mutex is never held by a thread the
\* child does not have; without them it is if and only if main() held it when
\* the forker forked, and then for ever.
InheritedMutex ==
    Is("atfork") => /\ opt # "-d" => childHolder \subseteq {Child}
                    /\ Main \in inherited => childHolder = {Main} /\ At(Child, "lock")

\* Every program ends, the child too, except for the holder of a NORMAL mutex
\* that locks it again (not-my-lock.c) and a child that inherited a mutex held by
\* a thread it does not have (atfork.c with -d), for which main() waits for ever.
\* No writer starves and no thread is left at a barrier.
ProgramsEnd == <>[](\/ Ended /\ pc[Child] \in {"unborn", "ended", "gone"}
                    \/ Is("notmylock") /\ Normal /\ At(Main, "mutex3")
                    \/ Is("atfork") /\ At(Main, "wait") /\ Main \in inherited)
=============================================================================
