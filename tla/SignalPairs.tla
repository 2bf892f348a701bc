----------------------------- MODULE SignalPairs ----------------------------
(***************************************************************************)
(* A parent and its child: ping-pong.c, sigqueue.c, signals/sigwait.c,     *)
(* sigchld.c and wait.c.  0 is the parent, 1 the child; both start where   *)
(* fork() has just returned.                                               *)
(***************************************************************************)
EXTENDS Signals

CONSTANTS Values,     \* bound: the argument of sigqueue.c
          StatusMod   \* bound: an exit status is taken modulo 256

ASSUME PairsAssumption == Values \subseteq Nat /\ StatusMod \in Nat \ {0}

VARIABLES msg,       \* ping-pong.c: who has set msg
          value,     \* the argument of sigqueue.c
          num,       \* the child's num
          shared,    \* sigwait.c: the character in the shared memory
          shown,     \* what the program has printed last, or its exit status
          state,     \* wait.c: the child is "running", "stopped", "exited", "killed"
          change,    \* wait.c: the change waitpid() has not returned yet
          zombie     \* the child has ended and is waited for

pairVars == <<msg, value, num, shared, shown, state, change, zombie>>

PairPrograms == {"pingpong", "sigqueue", "sigwait", "sigchld", "wait"}

None == "none"

PairsInit == /\ msg = {} /\ num = 0 /\ shared = None /\ shown = None
             /\ value \in IF program = "sigqueue" THEN Values ELSE {0}
             /\ state = "running" /\ change = None /\ zombie = FALSE

Same == UNCHANGED pairVars

\* Delivery to the child of a signal it is not ready for, or is.
ToChild(l, lost) == Deliver(1, "sig", l, lost)
-----------------------------------------------------------------------------
(* ping-pong.c.  msg is NULL until it is set, and the handler looks at it  *)
(* first; it then sends the signal back.                                   *)

SetsMsg(p, m) == /\ Go(p, "setmsg", m)
                 /\ msg' = msg \cup {p}
                 /\ UNCHANGED <<value, num, shared, shown, state, change, zombie>>

\* As handler(), hitting twice.
handlerTwice(p) == /\ At(p, "handler")
                   /\ pc' = [pc EXCEPT ![p] = IF p \in msg THEN resume[p] ELSE "crashed"]
                   /\ pending' = IF p \in msg THEN [a \in Actors |-> {"sig"}] ELSE pending
                   /\ UNCHANGED <<resume, handled, masked, sent, unprepared, window>>
                   /\ Same

handler(p) == /\ At(p, "handler")
              /\ pc' = [pc EXCEPT ![p] = IF p \in msg THEN resume[p] ELSE "crashed"]
              /\ IF p \in msg THEN Sends(1 - p, "sig") ELSE UNCHANGED <<pending, unprepared>>
              /\ UNCHANGED <<resume, handled, masked, sent, window>>
              /\ Same

PingPongParent == \/ SigAction(0, "start", "setmsg") /\ Same
                  \/ SetsMsg(0, "serve")
                  \/ Kill(0, "serve", "pause", 1) /\ Same

PingPongChild == \/ SigAction(1, "start", "setpid") /\ Same
                 \/ Go(1, "setpid", "setmsg") /\ Same
                 \/ SetsMsg(1, "pause")

PingPongSignal(p) == \/ Deliver(p, "sig", pc[p], FALSE) /\ Same
                     \/ handler(p)
-----------------------------------------------------------------------------
(* sigqueue.c.  A handler that runs before pause() leaves the child there. *)

SigQueueParent ==
    \/ Kill(0, "start", "waitpid", 1) /\ Same
    \/ /\ ~Alive(1)
       /\ Go(0, "waitpid", "ended")
       /\ shown' = IF At(1, "killed") THEN 0 ELSE (num + 1) % StatusMod
       /\ UNCHANGED <<msg, value, num, shared, state, change, zombie>>

SigQueueChild == /\ SigAction(1, "start", "ready") \/ Go(1, "ready", "pause")
                    \/ Go(1, "exit", "ended")
                 /\ Same

SigQueueSignal ==
    \/ ToChild(IF At(1, "pause") THEN "exit" ELSE pc[1], At(1, "ready")) /\ Same
    \/ /\ HandlerReturns(1)
       /\ num' = value
       /\ UNCHANGED <<msg, value, shared, shown, state, change, zombie>>
-----------------------------------------------------------------------------
(* signals/sigwait.c: the parent stores the character it reads and sends   *)
(* the signal.                                                             *)

\* The user types a character (or ends the input, and read() fails).
SigWaitTyped == (Go(0, "start", "failed") \/ Go(0, "start", "store")) /\ Same

\* As SigWaitParent, with the signal sent before the character is stored.
SigWaitParentHasty ==
    \/ Kill(0, "store", "kill", 1) /\ Same
    \/ /\ Go(0, "kill", "wait")
       /\ shared' = "typed"
       /\ UNCHANGED <<msg, value, num, shown, state, change, zombie>>
    \/ ~Alive(1) /\ Go(0, "wait", "ended") /\ Same

SigWaitParent ==
    \/ /\ Go(0, "store", "kill")
       /\ shared' = "typed"
       /\ UNCHANGED <<msg, value, num, shown, state, change, zombie>>
    \/ Kill(0, "kill", "wait", 1) /\ Same
    \/ ~Alive(1) /\ Go(0, "wait", "ended") /\ Same

SigWaitChild ==
    \/ SigMask(1, "start", "sigwait", {"sig"}) /\ Same
    \/ SigWait(1, "sigwait", "print", {"sig"}) /\ Same
    \/ /\ Go(1, "print", "ended")
       /\ shown' = shared
       /\ UNCHANGED <<msg, value, num, shared, state, change, zombie>>
-----------------------------------------------------------------------------
(* sigchld.c: the child waits to be killed.  The parent ignores SIGCHLD if *)
(* it has an argument ("-i" here), and never waits.                        *)

\* The user types a character (or ends the input).
SigChldTyped == /\ \/ Go(0, "start", "failed")
                   \/ Go(0, "start", IF opt = "-i" THEN "ignore" ELSE "kill")
                /\ Same

SigChldParent == /\ \/ Go(0, "ignore", "kill")
                    \/ Kill(0, "kill", "pause", 1)
                 /\ Same

\* The kernel looks at the parent's disposition when the child dies.
SigChldDies == /\ ToChild(pc[1], FALSE)
               /\ zombie' = ~(opt = "-i" /\ pc[0] \in {"kill", "pause"})
               /\ UNCHANGED <<msg, value, num, shared, shown, state, change>>
-----------------------------------------------------------------------------
(* wait.c: somebody stops, continues or kills the child, which sleeps.     *)

ChildChanges(s, c) == /\ state' = s
                      /\ change' = c
                      /\ UNCHANGED <<msg, value, num, shared, shown, zombie>>

\* waitpid(WUNTRACED | WCONTINUED).
WaitMain == /\ At(0, "start") /\ change # None
            /\ shown' = change
            /\ change' = None
            /\ pc' = [pc EXCEPT ![0] = IF change \in {"exited", "killed"} THEN "ended"
                                                                          ELSE "start"]
            /\ UNCHANGED <<kernelVars, msg, value, num, shared, state, zombie>>

\* A stopped process gets a SIGTERM when it is continued, a SIGKILL ("other" here)
\* at once.
WaitChild == \/ state = "running" /\ Go(1, "start", "ended") /\ ChildChanges("exited", "exited")
             \/ /\ \/ state = "running" /\ ToChild(pc[1], FALSE)
                   \/ Deliver(1, "other", pc[1], FALSE)
                /\ ChildChanges("killed", "killed")

StopAndContinue == /\ At(1, "start") /\ sent < MaxSignals
                   /\ sent' = sent + 1
                   /\ \/ state = "running" /\ ChildChanges("stopped", "stopped")
                      \/ state = "stopped" /\ ChildChanges("running", "continued")
                   /\ UNCHANGED <<pc, resume, handled, masked, pending, unprepared, window>>
-----------------------------------------------------------------------------
PairMain(p) == \/ Is("pingpong") /\ p = 0 /\ PingPongParent
               \/ Is("pingpong") /\ p = 1 /\ PingPongChild
               \/ Is("sigqueue") /\ p = 0 /\ SigQueueParent
               \/ Is("sigqueue") /\ p = 1 /\ SigQueueChild
               \/ Is("sigwait") /\ p = 0 /\ SigWaitParent
               \/ Is("sigwait") /\ p = 1 /\ SigWaitChild
               \/ Is("sigchld") /\ p = 0 /\ SigChldParent
               \/ Is("wait") /\ p = 0 /\ WaitMain
               \/ Is("wait") /\ p = 1 /\ WaitChild

PairSignal(p) == \/ Is("pingpong") /\ PingPongSignal(p)
                 \/ Is("sigqueue") /\ p = 1 /\ SigQueueSignal
                 \/ Is("sigwait") /\ p = 1 /\ ToChild(pc[1], FALSE) /\ Same
                 \/ Is("sigchld") /\ p = 1 /\ SigChldDies

PairOutside == \/ Is("wait") /\ (\E s \in Kinds : FromOutside(1, s)) /\ Same
               \/ Is("wait") /\ StopAndContinue
               \/ Is("sigwait") /\ SigWaitTyped
               \/ Is("sigchld") /\ SigChldTyped
=============================================================================
