----------------------- MODULE ImplementBarrierFixed ------------------------
(***************************************************************************)
(* pthreads/implement-barrier-fixed.c: implement-barrier.c with a second   *)
(* barrier, on wokenup, that keeps everybody in until everybody has seen   *)
(* that the round is over.  The specification runs either program, so that *)
(* what holds of both, and what the fix adds, are stated side by side.     *)
(***************************************************************************)
EXTENDS ImplementBarrier

CONSTANT Programs      \* which of the two programs to run

ASSUME ProgramsAssumption == Programs \subseteq {"buggy", "fixed"}

VARIABLES wokenup,     \* threads that have left the first waiting loop
          program      \* the program that is running

vars == <<on_barrier, mutex, waiting, line, arrived, pc, wokenup, program>>

Init == BarrierInit /\ wokenup = 0 /\ program \in Programs

\* Mutant: wokenup keeps its value from the previous round.
FixedEnterNoReset(t) ==
    /\ pc[t] = "enter"
    /\ Arrive(t)
    /\ IF AtBarrier(on_barrier')
       THEN wokenup' = wokenup + 1 /\ CondBroadcast /\ Goto(t, "second")
       ELSE UNCHANGED <<wokenup, waiting>> /\ Goto(t, "first")
    /\ UNCHANGED mutex

\* The last to arrive wakes the others up, and waits for them to wake up.
FixedEnter(t) ==
    /\ pc[t] = "enter"
    /\ Arrive(t)
    /\ IF AtBarrier(on_barrier')
       THEN wokenup' = 1 /\ CondBroadcast /\ Goto(t, "second")
       ELSE UNCHANGED <<wokenup, waiting>> /\ Goto(t, "first")
    /\ UNCHANGED mutex

\* Mutant: nobody waits for the others to leave the first waiting loop.
FixedFirstLeaveAtOnce(t) ==
    /\ pc[t] = "first"
    /\ AtBarrier(on_barrier)
    /\ wokenup' = wokenup + 1
    /\ IF wokenup' = max THEN CondBroadcast ELSE UNCHANGED waiting
    /\ Goto(t, "unlock")
    /\ UNCHANGED <<on_barrier, mutex, line, arrived>>

\* Mutant: the last one out of the first waiting loop wakes nobody up.
FixedFirstLeaveSilent(t) ==
    /\ pc[t] = "first"
    /\ AtBarrier(on_barrier)
    /\ wokenup' = wokenup + 1
    /\ Goto(t, IF wokenup' = max THEN "unlock" ELSE "second")
    /\ UNCHANGED <<on_barrier, mutex, waiting, line, arrived>>

\* Out of the first waiting loop; the last one out wakes the others up.
FixedFirstLeave(t) ==
    /\ pc[t] = "first"
    /\ AtBarrier(on_barrier)
    /\ wokenup' = wokenup + 1
    /\ IF wokenup' = max
       THEN CondBroadcast /\ Goto(t, "unlock")
       ELSE UNCHANGED waiting /\ Goto(t, "second")
    /\ UNCHANGED <<on_barrier, mutex, line, arrived>>

SecondWait(t) == /\ pc[t] = "second"
                 /\ wokenup < max
                 /\ CondWait(t)
                 /\ Goto(t, "wait2")
                 /\ UNCHANGED <<on_barrier, line, arrived, wokenup>>

SecondLeave(t) == /\ pc[t] = "second"
                  /\ wokenup >= max
                  /\ Goto(t, "unlock")
                  /\ UNCHANGED <<on_barrier, mutex, waiting, line, arrived, wokenup>>

\* Steps of thread() in the fixed program, the mutex acquisitions apart.
FixedThread(t) ==
    \/ (PrintID(t) \/ FirstWait(t) \/ Unlock(t)) /\ UNCHANGED wokenup
    \/ FixedEnter(t) \/ FixedFirstLeave(t) \/ SecondWait(t) \/ SecondLeave(t)
-----------------------------------------------------------------------------
Run(t) == /\ \/ program = "buggy" /\ Thread(t) /\ UNCHANGED wokenup
             \/ program = "fixed" /\ FixedThread(t)
          /\ UNCHANGED program

GetMutex(t) == (Lock(t) \/ Reacquire(t)) /\ UNCHANGED <<wokenup, program>>

Next == \E t \in Threads :
            \/ Run(t)
            \/ GetMutex(t)
            \/ SpuriousWakeup(t) /\ UNCHANGED <<on_barrier, line, arrived, wokenup, program>>

\* Threads keep running.  Nobody blocks with the mutex held, so a thread that
\* asks for it again and again gets it.  Nothing is assumed of spurious wakeups.
Fairness == \A t \in Threads : WF_vars(Run(t)) /\ SF_vars(GetMutex(t))

SafeSpec == Init /\ [][Next]_vars
Spec == SafeSpec /\ Fairness
-----------------------------------------------------------------------------
\* Types; nobody's ID is on the current line twice.
TypeOK == /\ program \in Programs
          /\ on_barrier \in -(IntModulus \div 2) .. (IntModulus \div 2 - 1)
          /\ wokenup \in 0 .. max
          /\ mutex \in Threads \cup {"free"}
          /\ waiting \subseteq Threads
          /\ line \in [Threads -> 0 .. 1]
          /\ arrived \subseteq Threads
          /\ pc \in [Threads -> {"print", "lock", "enter", "first", "second",
                                 "wait1", "wait2", "unlock"}]

\* The fix (the comment in thread()): on_barrier is not incremented for the
\* next round while a thread is still in the first waiting loop of this one.
\* In terms of history: whoever waits there has arrived in the current round,
\* or the round's last arrival has just released it.
NobodyLeftBehind ==
    program = "fixed" =>
        \A t \in Threads : pc[t] \in {"first", "wait1"} =>
                               t \in arrived \/ AtBarrier(on_barrier)

\* What is wrong with implement-barrier.c, and all that is wrong: it stops with
\* everybody asleep only when somebody missed the end of an earlier round, and
\* it never ends a line early.  The fixed program never has everybody asleep.
DeadlockOnlyByMissedRound ==
    waiting = Threads =>
        program = "buggy" /\ \E t \in Threads : t \notin arrived

\* Both programs print lines with every ID exactly once.
TheBarrier == INSTANCE Barrier
LinesAreBarriers == TheBarrier!Spec

\* With the fix, every thread gets through every barrier.
EveryoneGetsThrough ==
    \A t \in Threads : [](program = "fixed" => <>(pc[t] = "print"))
=============================================================================
