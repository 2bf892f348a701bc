-------------------------------- MODULE Race --------------------------------
(***************************************************************************)
(* The race demonstrations: two workers loop, each time checking that two  *)
(* shared cells are equal and then setting both to its own value.          *)
(*   "race"    race/race.c                  processes, no synchronization  *)
(*   "fcntl"   race/fcntl-fixed-race.c      processes, fcntl() record lock *)
(*   "sysv"    race/sem-fixed-race.c        processes, System V semaphore  *)
(*   "posix"   race/posix-sem-fixed-race.c  processes, POSIX semaphore     *)
(*   "foo"     mutexes/race.c               threads, no synchronization    *)
(*   "mutex"   mutexes/race-fixed.c         threads, a pthread mutex       *)
(* In the thread programs "parent" and "child" are the threads t1 and t2.  *)
(*                                                                         *)
(* Ctrl-C sends SIGINT to both processes, race/run.sh only to the parent.  *)
(* The handler clears `run'; a process that is blocked in the lock call    *)
(* (or in wait) returns from it with EINTR, and each program does with     *)
(* that what its code says.  The thread programs install no handler and    *)
(* are killed, and so is a program that SIGINT finds before sigaction().   *)
(*                                                                         *)
(* Program counters: the parent starts with "semget", "semctl", "sem_open" *)
(* (the semaphore programs), "sigaction" and "fork" (test.dat, mmap() and  *)
(* fork()), until when the child is "unborn"; then "while" (loop test),    *)
(* "lock", "read0", "read1" (the two halves of the comparison),            *)
(* "write1st", "write2nd", "unlock", "wait" (parent only), "cleanup", and  *)
(* the final "exit0", "exit1", "abort", "killed".                          *)
(***************************************************************************)
EXTENDS Integers

CONSTANTS Programs,    \* the programs to run
          Leftovers,   \* values of a "/mysem" that earlier programs left behind
          MaxSigints   \* bound: how often SIGINT is sent

ASSUME RaceAssumption ==
    /\ Programs \subseteq {"race", "fcntl", "sysv", "posix", "foo", "mutex"}
    /\ Leftovers \subseteq Nat
    /\ MaxSigints \in Nat

VARIABLES program,     \* the program that is running
          cell,        \* the two shared bytes (members of foo)
          got,         \* what each worker read first in its comparison
          saw,         \* has the worker ever counted (printed) a race?
          run,         \* the flag each process tests
          sem,         \* semaphore value; Removed before it is there and after IPC_RMID
          units,       \* history: the value the semaphore started with
          owner,       \* owner of the record lock or of the mutex, or "free"
          eintr,       \* history: has a sem_wait() been interrupted?
          pending,     \* SIGINT sent and not yet delivered
          sigints,     \* how often SIGINT has been sent
          pc

vars == <<program, cell, got, saw, run, sem, units, owner, eintr, pending, sigints, pc>>

Workers == {"parent", "child"}
Removed == -1
Final == {"exit0", "exit1", "abort", "killed"}
Unhandled == {"semget", "semctl", "sem_open", "sigaction"}
Starting == Unhandled \cup {"fork"}
Section == {"read0", "read1", "write1st", "write2nd", "unlock"}
Places == Starting \cup {"unborn", "while", "lock", "wait", "cleanup"} \cup Section \cup Final
Unsynchronized == {"race", "foo"}
ThreadPrograms == {"foo", "mutex"}

\* What a worker writes into the cells.
Value(p) == IF program \in ThreadPrograms
            THEN IF p = "parent" THEN 0 ELSE 1
            ELSE IF p = "parent" THEN 1 ELSE 2

\* addr[0] = addr[1] = v sets addr[1] first, the threads set foo.a first.
FirstWritten == IF program \in ThreadPrograms THEN 0 ELSE 1

Init == /\ program \in Programs
        /\ cell = [k \in {0, 1} |-> 0]
        /\ got = [p \in Workers |-> 0]
        /\ saw = [p \in Workers |-> FALSE]
        /\ run = [p \in Workers |-> TRUE]
        /\ sem = IF program \in {"sysv", "posix"} THEN Removed ELSE 1
        /\ units = 1
        /\ owner = "free"
        /\ eintr = FALSE
        /\ pending = [p \in Workers |-> FALSE]
        /\ sigints = 0
        /\ pc = IF program \in ThreadPrograms
                THEN [p \in Workers |-> "while"]
                ELSE [p \in Workers |-> IF p = "child" THEN "unborn"
                                         ELSE IF program = "sysv" THEN "semget"
                                         ELSE IF program = "posix" THEN "sem_open"
                                         ELSE "sigaction"]

Goto(p, l) == pc' = [pc EXCEPT ![p] = l]
Dead(p) == pc[p] \in Final
Alive(p) == pc[p] \notin Final \cup {"unborn"}
-----------------------------------------------------------------------------
(* SIGINT                                                                  *)

\* The terminal signals the whole process group; who has no handler (yet) dies.
CtrlC == /\ sigints < MaxSigints
         /\ \E p \in Workers : Alive(p)
         /\ sigints' = sigints + 1
         /\ IF program \in ThreadPrograms \/ pc["parent"] \in Unhandled
            THEN /\ pc' = [p \in Workers |-> IF Alive(p) THEN "killed" ELSE pc[p]]
                 /\ UNCHANGED pending
            ELSE /\ pending' = [p \in Workers |-> Alive(p)]
                 /\ UNCHANGED pc
         /\ UNCHANGED <<program, cell, got, saw, run, sem, units, owner, eintr>>

\* race/run.sh: kill -INT, which reaches the parent alone.  (What a script runs in
\* the background ignores SIGINT until it installs a handler.)
KillParent == /\ program = "race"
              /\ sigints < MaxSigints
              /\ Alive("parent") /\ pc["parent"] \notin Unhandled
              /\ sigints' = sigints + 1
              /\ pending' = [pending EXCEPT !["parent"] = TRUE]
              /\ UNCHANGED <<program, cell, got, saw, run, sem, units, owner, eintr, pc>>

\* The handler, the same in the four process programs.
finish(p) == /\ pending[p] /\ ~Dead(p)
             /\ pending' = [pending EXCEPT ![p] = FALSE]
             /\ run' = [run EXCEPT ![p] = FALSE]
             /\ UNCHANGED <<program, cell, got, saw, units, sigints>>

\* finish() runs while the process is not blocked (or not blocked yet).
Deliver(p) == finish(p) /\ UNCHANGED <<sem, owner, eintr, pc>>

\* finish() interrupts a call that blocks, which fails with EINTR.
Interrupt(p, call, blocked) == finish(p) /\ pc[p] = call /\ blocked
-----------------------------------------------------------------------------
(* What the processes do before they loop.                                 *)

\* sem-fixed-race.c: get the semaphore and set it to 1.  (A leftover is overwritten.)
semget == /\ pc["parent"] = "semget"
          /\ sem' = 0
          /\ Goto("parent", "semctl")
          /\ UNCHANGED <<program, cell, got, saw, run, units, owner, eintr, pending, sigints>>

semctl == /\ pc["parent"] = "semctl"
          /\ sem' = 1
          /\ Goto("parent", "sigaction")
          /\ UNCHANGED <<program, cell, got, saw, run, units, owner, eintr, pending, sigints>>

\* posix-sem-fixed-race.c: O_CREAT without O_EXCL, so that a semaphore that is there
\* (left behind after a failed assert(), or by talking-heads.c) keeps its value.
sem_open == /\ pc["parent"] = "sem_open"
            /\ \E n \in {1} \cup Leftovers : sem' = n /\ units' = n
            /\ Goto("parent", "sigaction")
            /\ UNCHANGED <<program, cell, got, saw, run, owner, eintr, pending, sigints>>

sigaction == /\ pc["parent"] = "sigaction"
             /\ Goto("parent", "fork")
             /\ UNCHANGED <<program, cell, got, saw, run, sem, units, owner, eintr,
                            pending, sigints>>

\* The child inherits the flag.  (What is pending is delivered before fork() forks.)
Fork == /\ pc["parent"] = "fork" /\ ~pending["parent"]
        /\ run' = [run EXCEPT !["child"] = run["parent"]]
        /\ pc' = [p \in Workers |-> "while"]
        /\ UNCHANGED <<program, cell, got, saw, sem, units, owner, eintr, pending, sigints>>

\* A call fails: err(), without a cleanup().
StartFails == /\ pc["parent"] \in Starting \ {"sigaction"}
              /\ Goto("parent", "exit1")
              /\ UNCHANGED <<program, cell, got, saw, run, sem, units, owner, eintr,
                             pending, sigints>>

Start == sigaction \/ Fork \/ StartFails
-----------------------------------------------------------------------------
(* Locking and unlocking.                                                  *)

Enter(p) == /\ pc[p] = "lock"
            /\ Goto(p, "read0")
            /\ UNCHANGED <<program, cell, got, saw, run, units, eintr, pending, sigints>>

Leave(p) == /\ pc[p] = "unlock"
            /\ Goto(p, "while")
            /\ UNCHANGED <<program, cell, got, saw, run, units, eintr, pending, sigints>>

\* Mutant: a read lock, which others may hold at the same time.
lock_unlock_shared(p) ==
    \/ Enter(p) /\ owner' = p /\ UNCHANGED sem
    \/ Leave(p) /\ owner' = "free" /\ UNCHANGED sem

\* fcntl-fixed-race.c: F_SETLKW with F_WRLCK or F_UNLCK.  On EINTR, as on any
\* error, the process prints its statistics and exits with status 1.
lock_unlock(p) ==
    \/ Enter(p) /\ owner = "free" /\ owner' = p /\ UNCHANGED sem
    \/ Leave(p) /\ owner' = "free" /\ UNCHANGED sem
    \/ /\ Interrupt(p, "lock", owner # "free")
       /\ Goto(p, "exit1")
       /\ UNCHANGED <<sem, owner, eintr>>

\* sem-fixed-race.c: only the parent removes the semaphore.
SysvCleanup(p) == sem' = IF p = "parent" THEN Removed ELSE sem

\* Mutant: `up' adds two.
up_down_twice(p) ==
    \/ Enter(p) /\ sem > 0 /\ sem' = sem - 1 /\ UNCHANGED owner
    \/ Leave(p) /\ sem # Removed /\ sem' = sem + 2 /\ UNCHANGED owner

\* Mutant: no cleanup() before err().
up_down_no_cleanup(p) ==
    \/ Enter(p) /\ sem > 0 /\ sem' = sem - 1 /\ UNCHANGED owner
    \/ Leave(p) /\ sem # Removed /\ sem' = sem + 1 /\ UNCHANGED owner
    \/ /\ Interrupt(p, "lock", sem = 0)
       /\ Goto(p, "exit1")
       /\ UNCHANGED <<sem, owner, eintr>>

\* semop() fails when it is interrupted, and when the semaphore is or gets
\* removed: cleanup(), err().
up_down(p) ==
    \/ Enter(p) /\ sem > 0 /\ sem' = sem - 1 /\ UNCHANGED owner
    \/ Leave(p) /\ sem # Removed /\ sem' = sem + 1 /\ UNCHANGED owner
    \/ /\ Interrupt(p, "lock", sem = 0)
       /\ SysvCleanup(p)
       /\ Goto(p, "exit1")
       /\ UNCHANGED <<owner, eintr>>
    \/ /\ pc[p] \in {"lock", "unlock"} /\ sem = Removed
       /\ Goto(p, "exit1")
       /\ UNCHANGED <<program, cell, got, saw, run, sem, units, owner, eintr, pending, sigints>>

\* Mutant: the worker leaves with the semaphore taken when told to stop.
PosixSemKept(p) ==
    \/ Enter(p) /\ sem > 0 /\ sem' = sem - 1 /\ UNCHANGED owner
    \/ Leave(p) /\ sem' = (IF run[p] THEN sem + 1 ELSE sem) /\ UNCHANGED owner
    \/ /\ Interrupt(p, "lock", sem = 0)
       /\ Goto(p, "read0")
       /\ eintr' = TRUE
       /\ UNCHANGED <<sem, owner>>

\* posix-sem-fixed-race.c: nobody looks at what sem_wait() returns.
PosixSem(p) ==
    \/ Enter(p) /\ sem > 0 /\ sem' = sem - 1 /\ UNCHANGED owner
    \/ Leave(p) /\ sem' = sem + 1 /\ UNCHANGED owner
    \/ /\ Interrupt(p, "lock", sem = 0)
       /\ Goto(p, "read0")
       /\ eintr' = TRUE
       /\ UNCHANGED <<sem, owner>>

\* mutexes/race-fixed.c
Mutex(p) ==
    \/ Enter(p) /\ owner = "free" /\ owner' = p /\ UNCHANGED sem
    \/ Leave(p) /\ owner' = "free" /\ UNCHANGED sem
-----------------------------------------------------------------------------
(* The loops, and what follows them in the processes.                      *)

\* while (run), or while (1) in the thread programs, whose run never changes.
While(p) == /\ pc[p] = "while"
            /\ \/ run[p] /\ Goto(p, IF program \in Unsynchronized THEN "read0" ELSE "lock")
               \/ ~run[p] /\ Goto(p, IF p = "parent" THEN "wait" ELSE "cleanup")
            /\ UNCHANGED <<program, cell, got, saw, run, sem, units, owner,
                           eintr, pending, sigints>>

Read0(p) == /\ pc[p] = "read0"
            /\ got' = [got EXCEPT ![p] = cell[0]]
            /\ Goto(p, "read1")
            /\ UNCHANGED <<program, cell, saw, run, sem, units, owner, eintr, pending, sigints>>

Read1(p) == /\ pc[p] = "read1"
            /\ saw' = [saw EXCEPT ![p] = @ \/ got[p] # cell[1]]
            /\ Goto(p, "write1st")
            /\ UNCHANGED <<program, cell, got, run, sem, units, owner, eintr, pending, sigints>>

Write1st(p) == /\ pc[p] = "write1st"
               /\ cell' = [cell EXCEPT ![FirstWritten] = Value(p)]
               /\ Goto(p, "write2nd")
               /\ UNCHANGED <<program, got, saw, run, sem, units, owner, eintr, pending, sigints>>

\* addr[0] = (addr[1] = v): the compiler may store v or read addr[1] again.
Write2nd(p) == /\ pc[p] = "write2nd"
               /\ \E v \in {Value(p)} \cup (IF program \in ThreadPrograms THEN {}
                                            ELSE {cell[FirstWritten]}) :
                     cell' = [cell EXCEPT ![1 - FirstWritten] = v]
               /\ Goto(p, IF program \in Unsynchronized THEN "while" ELSE "unlock")
               /\ UNCHANGED <<program, got, saw, run, sem, units, owner, eintr, pending, sigints>>

Body(p) == While(p) \/ Read0(p) \/ Read1(p) \/ Write1st(p) \/ Write2nd(p)

\* Mutant: the parent does not wait for the child (WNOHANG).
WaitNoHang == /\ pc["parent"] = "wait"
              /\ Goto("parent", "cleanup")
              /\ UNCHANGED <<program, cell, got, saw, run, sem, units, owner,
                             eintr, pending, sigints>>

Wait == /\ pc["parent"] = "wait" /\ Dead("child")
        /\ Goto("parent", "cleanup")
        /\ UNCHANGED <<program, cell, got, saw, run, sem, units, owner, eintr, pending, sigints>>

\* finish() interrupts the parent's wait().
WaitInterrupted(l) == /\ Interrupt("parent", "wait", ~Dead("child"))
                      /\ Goto("parent", l)
                      /\ UNCHANGED <<sem, owner, eintr>>

\* The rest of main(): statistics, munmap(), close().  (A POSIX semaphore is
\* unlinked by the parent, which those that have it open do not notice.)
Exit(p) == /\ pc[p] = "cleanup"
           /\ Goto(p, "exit0")
           /\ UNCHANGED <<program, cell, got, saw, run, units, owner, eintr, pending, sigints>>
-----------------------------------------------------------------------------
(* The six programs.                                                       *)

RaceMain(p) == /\ program = "race"
               /\ \/ Body(p)
                  \/ p = "parent" /\ (Start \/ Wait \/ WaitInterrupted("cleanup"))
                  \/ Exit(p) /\ UNCHANGED sem

FcntlMain(p) == /\ program = "fcntl"
                /\ \/ Body(p) \/ lock_unlock(p)
                   \/ p = "parent" /\ (Start \/ Wait \/ WaitInterrupted("cleanup"))
                   \/ Exit(p) /\ UNCHANGED sem

SysvMain(p) == /\ program = "sysv"
               /\ \/ Body(p) \/ up_down(p)
                  \/ p = "parent" /\ (semget \/ semctl \/ Start \/ Wait \/ WaitInterrupted("cleanup"))
                  \/ Exit(p) /\ SysvCleanup(p)

\* assert(ret_pid == pid) fails when waitpid() is interrupted.
PosixMain(p) == /\ program = "posix"
                /\ \/ Body(p) \/ PosixSem(p)
                   \/ p = "parent" /\ (sem_open \/ Start \/ Wait \/ WaitInterrupted("abort"))
                   \/ Exit(p) /\ UNCHANGED sem

FooThread(p) == program = "foo" /\ Body(p)

MutexThread(p) == program = "mutex" /\ (Body(p) \/ Mutex(p))

Step(p) == \/ RaceMain(p) \/ FcntlMain(p) \/ SysvMain(p) \/ PosixMain(p)
           \/ FooThread(p) \/ MutexThread(p)

Next == (\E p \in Workers : Step(p) \/ Deliver(p)) \/ CtrlC \/ KillParent

\* Processes keep running and pending signals get delivered; a process may
\* lose every race for the lock, and the user need not press Ctrl-C.
Fairness == \A p \in Workers : WF_vars(Step(p)) /\ WF_vars(Deliver(p))

SafeSpec == Init /\ [][Next]_vars
Spec == SafeSpec /\ Fairness
-----------------------------------------------------------------------------
AllEnded == Dead("parent") /\ (Dead("child") \/ pc["child"] = "unborn")

\* Types; the semaphore is posted at most once per interrupted wait too often.
TypeOK == /\ program \in Programs
          /\ cell \in [{0, 1} -> 0 .. 2]
          /\ got \in [Workers -> 0 .. 2]
          /\ saw \in [Workers -> BOOLEAN]
          /\ run \in [Workers -> BOOLEAN]
          /\ units \in {1} \cup Leftovers
          /\ sem \in Removed .. units + (IF eintr THEN 2 ELSE 0)
          /\ owner \in Workers \cup {"free"}
          /\ eintr \in BOOLEAN
          /\ pending \in [Workers -> BOOLEAN]
          /\ sigints \in 0 .. MaxSigints
          /\ pc \in [Workers -> Places]

\* "No races means there is no output": a synchronized worker never finds the
\* cells different, whatever signals arrive; the POSIX semaphore version only as
\* long as it did not find a semaphore of more than one unit and no sem_wait() has
\* been interrupted.
NoRaceSeen == (program \notin Unsynchronized /\ ~eintr /\ units <= 1)
                  => \A p \in Workers : ~saw[p]

\* With one signal, a parent that leaves its loop outlives its child: wait()
\* reaps it, and assert(ret_pid == pid) holds.  A second one breaks both.
ParentReapsChild ==
    /\ pc["parent"] = "exit0" /\ sigints < 2 => Dead("child")
    /\ pc["parent"] = "abort" => sigints >= 2

\* However the two processes end, the System V semaphore is gone afterwards; only
\* when the parent does not get as far as the child (it is killed before it has a
\* handler, or a call fails) may a semaphore stay behind.
NoLeakedSemaphore ==
    program = "sysv" /\ AllEnded /\ sem # Removed => pc["child"] = "unborn"

\* The signal came just before sem_wait() on a leftover semaphore without units:
\* this worker waits for a unit nobody has, and its parent for it.
Asleep == /\ program = "posix" /\ units = 0 /\ sem = 0
          /\ \E p \in Workers : pc[p] = "lock" /\ ~run[p]
          /\ \A p \in Workers : \/ Dead(p)
                                \/ pc[p] = "lock" /\ ~run[p]
                                \/ p = "parent" /\ pc[p] = "wait"

\* Ctrl-C ends everybody, wherever it finds them, from before the fork() to the last
\* loop, unless they sleep on a leftover semaphore.
CtrlCEnds ==
    []((pending["child"] \/ (pending["parent"] /\ pc["child"] = "unborn"))
           => <>(AllEnded \/ []Asleep))

\* race/run.sh, "running $PROG for $SECS seconds": its signal ends the program.
RunShStops == [](pending["parent"] => <>AllEnded)
=============================================================================
