---------------------------- MODULE TalkingHeads ----------------------------
(***************************************************************************)
(* semaphores/talking-heads.c: nproc children share a named semaphore and  *)
(* talk while they hold a unit of it; Ctrl-C tells everybody to stop.  The *)
(* return values of sem_wait() and of wait() are not looked at, so that an *)
(* interrupted call counts as one that did its job.                        *)
(*                                                                         *)
(* Child i's program counter is                                            *)
(*   "unborn"                                                              *)
(*   "while"   about to test run: after poll() or after sleep()            *)
(*   "wait"    in sem_wait()                                               *)
(*   "talk"    in talk(), which prints at least once                       *)
(*   "dead"    cleanup() done                                              *)
(* and the parent's "fork", "wait", "exit0" (cleanup() done), "exit1".     *)
(***************************************************************************)
EXTENDS Integers, FiniteSets

CONSTANTS NProcs,      \* values of <n>
          Inits,       \* values of <initval>
          Leftovers,   \* values of a semaphore an earlier run left behind
          MaxCtrlC     \* bound: how often Ctrl-C is pressed

\* main() refuses an <n> above 10.
ASSUME HeadsAssumption == /\ NProcs \subseteq 1 .. 10
                          /\ Inits \subseteq Nat /\ Leftovers \subseteq Nat
                          /\ MaxCtrlC \in Nat

VARIABLES nproc, sinit,
          sem,         \* the value of the semaphore
          sem0,        \* history: its value when it was opened
          i,           \* the parent's loop counter, in either loop
          parent,      \* where the parent is
          child,       \* where each child is
          run,         \* everybody's flag; 0 is the parent
          pending,     \* SIGINT sent and not yet delivered
          reaped,      \* children a wait() returned
          ctrlc,       \* how often Ctrl-C has been pressed
          eintrs,      \* history: interrupted calls of sem_wait()
          missed       \* history: interrupted calls of wait()

vars == <<nproc, sinit, sem, sem0, i, parent, child, run, pending, reaped,
          ctrlc, eintrs, missed>>
const == <<nproc, sinit, sem0>>

Children == 1 .. nproc
Alive == {c \in Children : child[c] \notin {"unborn", "dead"}}
Talking == {c \in Children : child[c] = "talk"}

\* sem_open(O_CREAT) without O_EXCL: a semaphore that exists keeps its value.
Init == /\ nproc \in NProcs
        /\ sinit \in {s \in Inits : s <= nproc}
        /\ sem0 \in {sinit} \cup Leftovers
        /\ sem = sem0
        /\ i = 1
        /\ parent = "fork"
        /\ child = [c \in Children |-> "unborn"]
        /\ run = [p \in 0 .. nproc |-> TRUE]
        /\ pending = [p \in 0 .. nproc |-> FALSE]
        /\ reaped = {}
        /\ ctrlc = 0 /\ eintrs = 0 /\ missed = 0

Goto(c, l) == child' = [child EXCEPT ![c] = l]
-----------------------------------------------------------------------------
(* The parent.                                                             *)

\* A child starts with the parent's run.  It does not inherit pending signals:
\* fork() lets the parent handle them first (Linux restarts it), so that no
\* child slips past a signal sent to the whole group.
Fork == /\ parent = "fork" /\ i <= nproc
        /\ ~pending[0]
        /\ Goto(i, "while")
        /\ run' = [run EXCEPT ![i] = run[0]]
        /\ i' = i + 1
        /\ UNCHANGED <<const, sem, parent, pending, reaped, ctrlc, eintrs, missed>>

\* err(): the children born so far stay, and so does the semaphore.
ForkFails == /\ parent = "fork" /\ i <= nproc
             /\ parent' = "exit1"
             /\ UNCHANGED <<const, sem, i, child, run, pending, reaped, ctrlc,
                            eintrs, missed>>

StartWaiting == /\ parent = "fork" /\ i > nproc
                /\ parent' = "wait" /\ i' = 0
                /\ UNCHANGED <<const, sem, child, run, pending, reaped, ctrlc,
                               eintrs, missed>>

Wait == /\ parent = "wait" /\ i < nproc
        /\ \E c \in Children \ reaped :
              /\ child[c] = "dead"
              /\ reaped' = reaped \cup {c}
        /\ i' = i + 1
        /\ UNCHANGED <<const, sem, parent, child, run, pending, ctrlc, eintrs, missed>>

\* Mutant: the loop stops one child short.
ParentCleanupEarly == /\ parent = "wait" /\ i >= nproc - 1
                      /\ parent' = "exit0"
                      /\ UNCHANGED <<const, sem, i, child, run, pending, reaped,
                                     ctrlc, eintrs, missed>>

\* sem_unlink() removes the name; those that have it open do not notice.
ParentCleanup == /\ parent = "wait" /\ i = nproc
                 /\ parent' = "exit0"
                 /\ UNCHANGED <<const, sem, i, child, run, pending, reaped,
                                ctrlc, eintrs, missed>>
-----------------------------------------------------------------------------
(* The children.                                                           *)

\* Mutant: a child leaves without talking, and keeps the unit it has.
SemWaitThenRun(c) == /\ child[c] = "wait" /\ sem > 0
                     /\ sem' = sem - 1
                     /\ Goto(c, IF run[c] THEN "talk" ELSE "while")
                     /\ UNCHANGED <<const, i, parent, run, pending, reaped, ctrlc,
                                    eintrs, missed>>

While(c) == /\ child[c] = "while"
            /\ Goto(c, IF run[c] THEN "wait" ELSE "dead")
            /\ pending' = [pending EXCEPT ![c] = @ /\ run[c]]
            /\ UNCHANGED <<const, sem, i, parent, run, reaped, ctrlc, eintrs, missed>>

\* Mutant: sem_wait() does not block.
SemWaitNoBlock(c) == /\ child[c] = "wait"
                     /\ sem' = sem - 1
                     /\ Goto(c, "talk")
                     /\ UNCHANGED <<const, i, parent, run, pending, reaped, ctrlc,
                                    eintrs, missed>>

SemWait(c) == /\ child[c] = "wait" /\ sem > 0
              /\ sem' = sem - 1
              /\ Goto(c, "talk")
              /\ UNCHANGED <<const, i, parent, run, pending, reaped, ctrlc,
                             eintrs, missed>>

\* Mutant: a child that was told to stop does not post.
SemPostIfRunning(c) == /\ child[c] = "talk"
                       /\ sem' = IF run[c] THEN sem + 1 ELSE sem
                       /\ Goto(c, "while")
                       /\ UNCHANGED <<const, i, parent, run, pending, reaped,
                                      ctrlc, eintrs, missed>>

\* talk() is over: sem_post(), and a sleep() before the next test of run.
SemPost(c) == /\ child[c] = "talk"
              /\ sem' = sem + 1
              /\ Goto(c, "while")
              /\ UNCHANGED <<const, i, parent, run, pending, reaped, ctrlc,
                             eintrs, missed>>
-----------------------------------------------------------------------------
(* SIGINT                                                                  *)

CtrlC == /\ ctrlc < MaxCtrlC
         /\ parent \in {"fork", "wait"} \/ Alive # {}
         /\ ctrlc' = ctrlc + 1
         /\ pending' = [p \in 0 .. nproc |-> IF p = 0 THEN parent \in {"fork", "wait"}
                                                      ELSE p \in Alive]
         /\ UNCHANGED <<const, sem, i, parent, child, run, reaped, eintrs, missed>>

Finish(p) == /\ pending[p]
             /\ pending' = [pending EXCEPT ![p] = FALSE]
             /\ run' = [run EXCEPT ![p] = FALSE]

\* finish() runs in a process that is not blocked, or not blocked yet.
Deliver(p) == /\ Finish(p)
              /\ UNCHANGED <<const, sem, i, parent, child, reaped, ctrlc, eintrs,
                             missed>>

\* sem_wait() fails with EINTR and the child goes on to talk.
SemWaitInterrupted(c) == /\ child[c] = "wait" /\ sem = 0
                         /\ Finish(c)
                         /\ Goto(c, "talk")
                         /\ eintrs' = eintrs + 1
                         /\ UNCHANGED <<const, sem, i, parent, reaped, ctrlc, missed>>

\* wait() fails with EINTR and the parent counts a child.
WaitInterrupted == /\ parent = "wait" /\ i < nproc
                   /\ \A c \in Children \ reaped : child[c] # "dead"
                   /\ Finish(0)
                   /\ i' = i + 1
                   /\ missed' = missed + 1
                   /\ UNCHANGED <<const, sem, parent, child, reaped, ctrlc, eintrs>>
-----------------------------------------------------------------------------
ParentStep == Fork \/ StartWaiting \/ Wait \/ ParentCleanup
ChildStep(c) == While(c) \/ SemPost(c)

Next == \/ ParentStep \/ ForkFails \/ CtrlC \/ WaitInterrupted
        \/ \E c \in Children : ChildStep(c) \/ SemWait(c) \/ SemWaitInterrupted(c)
        \/ \E p \in 0 .. nproc : Deliver(p)

\* Processes keep running and pending signals are delivered.  The sleep() after
\* sem_post() is there so that a child that keeps asking gets its turn.
Fairness == /\ WF_vars(ParentStep)
            /\ \A n \in NProcs : \A c \in 1 .. n :
                  /\ WF_vars(c \in Children /\ ChildStep(c))
                  /\ SF_vars(c \in Children /\ SemWait(c))
                  /\ WF_vars(c \in Children /\ Deliver(c))
            /\ WF_vars(Deliver(0))

SafeSpec == Init /\ [][Next]_vars
Spec == SafeSpec /\ Fairness
-----------------------------------------------------------------------------
\* Types; each child is interrupted in sem_wait() at most once, since it leaves
\* its loop afterwards.
TypeOK == /\ nproc \in NProcs /\ sinit \in Inits /\ sem0 \in Inits \cup Leftovers
          /\ sem \in 0 .. sem0 + nproc
          /\ i \in 0 .. nproc + 1
          /\ parent \in {"fork", "wait", "exit0", "exit1"}
          /\ child \in [Children -> {"unborn", "while", "wait", "talk", "dead"}]
          /\ run \in [0 .. nproc -> BOOLEAN]
          /\ pending \in [0 .. nproc -> BOOLEAN]
          /\ reaped \subseteq Children
          /\ ctrlc \in 0 .. MaxCtrlC
          /\ eintrs \in 0 .. nproc
          /\ missed \in 0 .. MaxCtrlC

\* Units of the semaphore are neither lost nor made up: whoever talks has one,
\* except for one talker per interrupted sem_wait(), and its sem_post() leaves
\* the semaphore one too high for good.  Without a signal, exactly as many
\* children talk or may start to as the semaphore had units.
UnitsAreConserved == sem + Cardinality(Talking) = sem0 + eintrs

\* When the parent is through, it has left no more children behind than it had
\* calls of wait() interrupted.
ParentMissesFew ==
    parent = "exit0" =>
        /\ Cardinality(reaped) = nproc - missed
        /\ Cardinality(Alive) <= missed

\* After Ctrl-C everybody stops, unless the semaphore had no unit at all: then
\* a child that was signalled just before it called sem_wait() sleeps on.
CtrlCEnds == [](ctrlc > 0 /\ sem0 > 0 => <>(Alive = {} /\ parent \notin {"fork", "wait"}))

\* "Wait for all children before exiting from the parent."
ParentWaitsForAll == parent = "exit0" => Alive = {}
=============================================================================
