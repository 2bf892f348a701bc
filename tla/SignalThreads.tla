---------------------------- MODULE SignalThreads ---------------------------
(***************************************************************************)
(* Processes with a thread that deals with the signals for all the others: *)
(* pthreads/sigwait.c, sigwait-with-sync-signals.c, catch-SIGKILL.c, and   *)
(* catch-all.c, which has no other thread.  And posix-unnamed-sem.c, where *)
(* an alarm interrupts sem_wait().                                         *)
(*                                                                         *)
(* A signal sent to the process is in pending[0], whoever will take it;    *)
(* one sent to a thread is in that thread's own set.                       *)
(***************************************************************************)
EXTENDS Signals

CONSTANTS SemInit,   \* bound: the semaphore's first value; 5 in the code
          SemMax     \* bound: how far the usher gets ahead

ASSUME SemAssumption == SemInit \in Nat /\ SemMax \in Nat /\ SemInit <= SemMax

VARIABLES caught,    \* kinds of signals main() has got from sigwait()
          sem,       \* the value of the semaphore
          ahead      \* history: how often main() passed more than the usher posted

threadVars == <<caught, sem, ahead>>

WaiterPrograms == {"psigwait", "syncsigwait", "catchkill", "catchall"}

ThreadsInit == caught = {} /\ sem = SemInit /\ ahead = 0

Unmoved == UNCHANGED threadVars

\* pthread_create(): the thread inherits the mask of the one that creates it.
CreateThread(t, l, m) == /\ At(0, l)
                         /\ pc' = [pc EXCEPT ![0] = m, ![t] = "run"]
                         /\ masked' = [masked EXCEPT ![t] = masked[0]]
                         /\ UNCHANGED <<resume, handled, pending, sent, unprepared, window>>

Waits(s) == /\ At(0, "sigwait")
            /\ \E k \in pending[0] \cap s :
                  /\ pending' = [pending EXCEPT ![0] = @ \ {k}]
                  /\ caught' = caught \cup {k}
            /\ UNCHANGED <<pc, resume, handled, masked, sent, unprepared, window, sem, ahead>>

\* As SigWaitMain, with the mask set after the threads have been created.
SigWaitMainLate == \/ CreateThread(1, "start", "create2") /\ Unmoved
                   \/ CreateThread(2, "create2", "create1") /\ Unmoved
                   \/ SigMask(0, "create1", "sigwait", {"sig"}) /\ Unmoved
                   \/ Waits({"sig"})

\* Synchronous signals are not masked.
SigWaitMain == \/ SigMask(0, "start", "create1", {"sig"}) /\ Unmoved
               \/ CreateThread(1, "create1", "create2") /\ Unmoved
               \/ CreateThread(2, "create2", "sigwait") /\ Unmoved
               \/ Waits({"sig"})

CatchKillMain == \/ SigMask(0, "start", "create1", Kinds) /\ Unmoved
                 \/ CreateThread(1, "create1", "create2") /\ Unmoved
                 \/ CreateThread(2, "create2", "sigwait") /\ Unmoved
                 \/ Waits(Kinds)

SyncSigWaitMain == \/ SigMask(0, "start", "create1", Kinds) /\ Unmoved
                   \/ CreateThread(1, "create1", "create2") /\ Unmoved
                   \/ CreateThread(2, "create2", "sigwait") /\ Unmoved
                   \/ Waits(Kinds)

CatchAll == \/ SigMask(0, "start", "sigwait", Kinds) /\ Unmoved
            \/ Waits(Kinds)

EndsProcess == pc' = [a \in Actors |-> IF Alive(a) THEN "killed" ELSE pc[a]]

\* pthread_kill() to itself leaves the masked signal with the thread; a fault
\* ends the process although the signal is masked.
SyncThread(t) ==
    /\ At(t, "run")
    /\ IF opt = "-k"
       THEN /\ pending' = [pending EXCEPT ![t] = {"other"}]
            /\ pc' = [pc EXCEPT ![t] = "ended"]
       ELSE EndsProcess /\ UNCHANGED pending
    /\ UNCHANGED <<resume, handled, masked, sent, unprepared, window>>
    /\ Unmoved

\* The threads print CYCLES times; main() never ends.
LoopThread(t) == Go(t, "run", "ended") /\ Unmoved

\* A signal to the process goes to any thread that does not mask it.
ProcessSignal(t) == /\ Alive(t)
                    /\ pending[0] \ masked[t] # {}
                    /\ EndsProcess
                    /\ UNCHANGED kernelVars
                    /\ Unmoved
-----------------------------------------------------------------------------
(* posix-unnamed-sem.c: "start", "semwait", "passed"; "failed" is err().   *)

\* As SemWaits, without waiting for a unit.
SemWaitsForNothing == /\ Go(0, "semwait", "passed")
                      /\ sem' = sem - 1
                      /\ ahead' = ahead + 1
                      /\ UNCHANGED caught

SemWaits == /\ sem > 0
            /\ Go(0, "semwait", "passed")
            /\ sem' = sem - 1
            /\ ahead' = ahead + 1
            /\ UNCHANGED caught

\* After the handler: once more with sem_wait_nointr(), the end without it.
sem_wait_nointr == /\ At(0, "handler")
                   /\ pc' = [pc EXCEPT ![0] = resume[0]]
                   /\ UNCHANGED <<kernelVars, threadVars>>

SemMain == \/ SigAction(0, "start", "semwait") /\ Unmoved
           \/ SemWaits
           \/ Go(0, "passed", "semwait") /\ Unmoved

\* The timer's signal goes to main() while that can take it.
SemSignal == \/ /\ At(0, "semwait") /\ opt # "nointr"
                /\ Deliver(0, "sig", "failed", FALSE)
                /\ Unmoved
             \/ /\ ~(At(0, "semwait") /\ opt # "nointr")
                /\ Deliver(0, "sig", pc[0], FALSE)
                /\ Unmoved
             \/ sem_wait_nointr

\* The thread is there before the handler is; it never ends.
usher == /\ At(1, "run") /\ sem < SemMax /\ Alive(0) /\ ~At(0, "failed")
         /\ sem' = sem + 1
         /\ ahead' = ahead - 1
         /\ UNCHANGED <<pc, kernelVars, caught>>

\* The timer is set when the handler is there, and again by the handler.
alarm_handler == /\ handled[0] # {} /\ Alive(0)
                 /\ FromOutside(0, "sig")
                 /\ Unmoved
-----------------------------------------------------------------------------
WaiterMain == \/ Is("psigwait") /\ SigWaitMain
              \/ Is("syncsigwait") /\ SyncSigWaitMain
              \/ Is("catchkill") /\ CatchKillMain
              \/ Is("catchall") /\ CatchAll
              \/ Is("sem") /\ SemMain

WaiterThread(t) == \/ program \in {"psigwait", "catchkill"} /\ LoopThread(t)
                   \/ Is("syncsigwait") /\ SyncThread(t)
                   \/ Is("sem") /\ t = 1 /\ usher

WaiterSignal(t) == \/ program \in WaiterPrograms /\ ProcessSignal(t)
                   \/ Is("sem") /\ t = 0 /\ SemSignal

WaiterOutside == \/ /\ program \in WaiterPrograms
                    /\ \E s \in Kinds : FromOutside(0, s)
                    /\ Unmoved
                 \/ Is("sem") /\ alarm_handler
=============================================================================
