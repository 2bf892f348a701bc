----------------------------- MODULE ThreadArgs -----------------------------
(***************************************************************************)
(* Starting, joining and detaching threads, and the argument they get:     *)
(* pthread-create.c, pthread-join.c, pthread-detach-join.c,                *)
(* set-detachstate.c, correct-use-of-args.c, wrong-use-of-arg.c,           *)
(* int-as-arg.c and pthread-barrier.c.                                     *)
(*                                                                         *)
(* A thread prints what its argument is worth at that moment: the argument *)
(* is a number, the address of a cell of main's or the address of main's   *)
(* own loop counter, and after main() has returned there is nothing to be  *)
(* relied on at either address.                                            *)
(***************************************************************************)
EXTENDS Pthreads

VARIABLES cell,      \* the ints of main() whose addresses are passed
          arg,       \* what each thread was given
          printed,   \* the numbers each thread has printed
          waiting    \* threads in pthread_barrier_wait()

argVars == <<cell, arg, printed, waiting>>

ArgPrograms == {"create", "join", "detach", "setdetach", "correct", "wrong", "int",
                "barrier"}

Garbage == -1
Number(v) == [kind |-> "number", of |-> v]
AddressOf(k) == [kind |-> "cell", of |-> k]
AddressOfI == [kind |-> "i", of |-> 0]

ArgInit == /\ cell = [k \in 0 .. N |-> Garbage]
           /\ arg = [t \in Threads |-> Number(0)]
           /\ printed = [t \in Threads |-> {}]
           /\ waiting = {}

Dereference(a) == IF a.kind = "number" THEN a.of
                  ELSE IF At(Main, "return") THEN Garbage
                  ELSE IF a.kind = "cell" THEN cell[a.of] ELSE i
-----------------------------------------------------------------------------
(* The threads.                                                            *)

\* printf("Thread %d", *(int *)x) and sleep(), n times.
PrintsArgument(t, n) ==
    /\ \/ /\ LoopTurn(t, n)
          /\ printed' = [printed EXCEPT ![t] = @ \cup {Dereference(arg[t])}]
       \/ LoopEnd(t, n) /\ UNCHANGED printed
    /\ UNCHANGED <<cell, arg, waiting>>

\* pthread_detach(pthread_self()).  When main() is already waiting in
\* pthread_join() the call returns 0 and the thread stays joinable.
DetachSelf(t) == /\ At(t, "start")
                 /\ Goto(t, "loop")
                 /\ detached' = IF At(Main, "joining") THEN detached
                                                       ELSE detached \cup {t}
                 /\ UNCHANGED <<mainVars, count, joined, argVars>>

\* A stage of pthread-barrier.c: its messages, then pthread_barrier_wait().
\* The last thread to arrive lets everybody out.
Stage(t) == /\ At(t, "loop") /\ count[t] < Loops
            /\ printed' = IF count[t] > 0 THEN printed   \* id is read once
                          ELSE [printed EXCEPT ![t] = {Dereference(arg[t])}]
            /\ Goto(t, "barrier")
            /\ UNCHANGED <<mainVars, threadVars, cell, arg, waiting>>

BarrierWait(t) ==
    /\ At(t, "barrier") /\ t \notin waiting
    /\ LET all == waiting \cup {t} = Threads IN
       /\ waiting' = IF all THEN {} ELSE waiting \cup {t}
       /\ count' = IF all THEN [a \in Actors |-> IF a \in Threads THEN count[a] + 1
                                                                  ELSE count[a]]
                          ELSE count
       /\ pc' = IF all THEN [a \in Actors |-> IF a \in Threads THEN "loop" ELSE pc[a]]
                       ELSE pc
    /\ UNCHANGED <<mainVars, detached, joined, cell, arg, printed>>

Worker(t) == \/ Stage(t)
             \/ BarrierWait(t)
             \/ LoopEnd(t, Loops) /\ UNCHANGED argVars
-----------------------------------------------------------------------------
(* main(): the two loops, with one thread, two, or N.                      *)

\* Thread i + 1 gets the argument a, after the ints cs have been assigned to.
StartWith(n, l, a, cs) == /\ StartThread(n, l)
                          /\ arg' = [arg EXCEPT ![i + 1] = a]
                          /\ cell' = cs
                          /\ UNCHANGED <<printed, waiting>>

Loop(n) == (Increment \/ Started(n)) /\ UNCHANGED argVars
Joins(n, t) == (JoinThread(n, t) \/ ReturnAfter(n)) /\ UNCHANGED argVars

\* main() sleeps if it has an argument, and returns.
CreateMain == \/ StartWith(1, "loop", Number(0), cell)
              \/ Loop(1)
              \/ At(Main, "join") /\ Return(0) /\ UNCHANGED argVars

JoinMain == \/ StartWith(2, "loop", AddressOf(i + 1), [cell EXCEPT ![1] = 1, ![2] = 2])
            \/ Loop(2)
            \/ Joins(2, j + 1)

\* pthread_join() may be called before or after the thread has detached itself.
DetachMain == \/ StartWith(1, "start", AddressOf(1), [cell EXCEPT ![1] = 1])
              \/ Loop(1)
              \/ /\ At(Main, "join")
                 /\ IF JoinFails(1) THEN Errx(1)
                    ELSE Goto(Main, "joining") /\ UNCHANGED <<mainVars, threadVars>>
                 /\ UNCHANGED argVars
              \/ /\ At(Main, "joining") /\ At(1, "ended")
                 /\ Return(0)
                 /\ UNCHANGED argVars

\* The threads are born detached, and main() returns with them at work.
SetDetachMain ==
    \/ /\ At(Main, "create") /\ i < 2
       /\ pc' = [pc EXCEPT ![i + 1] = "loop", ![Main] = "next"]
       /\ detached' = detached \cup {i + 1}
       /\ arg' = [arg EXCEPT ![i + 1] = AddressOf(i + 1)]
       /\ cell' = [cell EXCEPT ![1] = 1, ![2] = 2]
       /\ UNCHANGED <<mainVars, count, joined, printed, waiting>>
    \/ Loop(2)
    \/ Joins(2, j + 1)

\* As CorrectMain, with the address of the loop counter, as in wrong-use-of-arg.c.
CorrectMainSharesI == \/ StartWith(N, "loop", AddressOfI, [cell EXCEPT ![i] = i])
                     \/ Loop(N)
                     \/ Joins(N, j + 1)

CorrectMain == \/ StartWith(N, "loop", AddressOf(i), [cell EXCEPT ![i] = i])
               \/ Loop(N)
               \/ Joins(N, j + 1)

\* All threads get &i, and the last one is joined N times.
WrongMain == \/ StartWith(N, "loop", AddressOfI, cell)
             \/ Loop(N)
             \/ Joins(N, N)

IntMain == \/ StartWith(N, "loop", Number(i), cell)
           \/ Loop(N)
           \/ At(Main, "join") /\ Return(0) /\ UNCHANGED argVars

\* The loop counter i is used a second time, by the joining loop.
BarrierMain == \/ StartWith(N, "loop", AddressOf(i), [cell EXCEPT ![i] = i])
               \/ Loop(N)
               \/ Joins(N, j + 1)

ArgMain == \/ Is("create") /\ CreateMain
           \/ Is("join") /\ JoinMain
           \/ Is("detach") /\ DetachMain
           \/ Is("setdetach") /\ SetDetachMain
           \/ Is("correct") /\ CorrectMain
           \/ Is("wrong") /\ WrongMain
           \/ Is("int") /\ IntMain
           \/ Is("barrier") /\ BarrierMain
           \/ program \in ArgPrograms /\ ExitProcess /\ UNCHANGED argVars

ArgThread(t) == \/ program \in ArgPrograms \ {"barrier"} /\ PrintsArgument(t, Loops)
                \/ Is("detach") /\ DetachSelf(t)
                \/ Is("barrier") /\ Worker(t)
=============================================================================
