------------------------------- MODULE Signals ------------------------------
(***************************************************************************)
(* What the kernel does with signals, as the programs under signals/ and   *)
(* wait/, pthreads/sigwait*.c and semaphores/posix-unnamed-sem.c use them. *)
(* Actor 0 is main() or the parent, 1 and 2 are a child or two threads.    *)
(* "sig" is the signal a program is about, "other" a second one where it   *)
(* matters.                                                                *)
(*                                                                         *)
(* A signal is pending until it is delivered: to an actor that does not    *)
(* mask it, between two of its steps or in the middle of a blocking call.  *)
(* A second signal of the kind is not noticed while one is pending, and    *)
(* none is delivered while its handler runs.  Where there is no handler    *)
(* the default action ends the process.                                    *)
(***************************************************************************)
EXTENDS Integers, FiniteSets

CONSTANT MaxSignals   \* bound: how many signals come from outside

ASSUME SignalsAssumption == MaxSignals \in Nat

VARIABLES program, opt,
          pc,           \* where everybody is
          resume,       \* where the handler returns to
          handled,      \* signals each actor has a handler for
          masked,       \* signals each actor blocks
          pending,      \* signals sent and not delivered
          sent,         \* how many came from outside
          unprepared,   \* history: actors that got one before they were ready
          window        \* history: a handler ran just before a blocking call

Actors == 0 .. 2
Kinds == {"sig", "other"}

commandLine == <<program, opt>>
kernelVars == <<resume, handled, masked, pending, sent, unprepared, window>>

At(a, l) == pc[a] = l
Is(p) == program = p
Alive(a) == pc[a] \notin {"unborn", "killed", "crashed", "aborted", "ended"}

\* A step that leaves the signals alone.
Go(a, l, m) == /\ At(a, l)
               /\ pc' = [pc EXCEPT ![a] = m]
               /\ UNCHANGED kernelVars

SignalsInit == /\ resume = [a \in Actors |-> "start"]
               /\ handled = [a \in Actors |-> {}]
               /\ masked = [a \in Actors |-> {}]
               /\ pending = [a \in Actors |-> {}]
               /\ sent = 0
               /\ unprepared = {}
               /\ window = FALSE

\* sigaction(), and sigprocmask() or pthread_sigmask().
SigAction(a, l, m) == /\ At(a, l)
                      /\ pc' = [pc EXCEPT ![a] = m]
                      /\ handled' = [handled EXCEPT ![a] = {"sig"}]
                      /\ UNCHANGED <<resume, masked, pending, sent, unprepared, window>>

SigMask(a, l, m, s) == /\ At(a, l)
                       /\ pc' = [pc EXCEPT ![a] = m]
                       /\ masked' = [masked EXCEPT ![a] = s]
                       /\ UNCHANGED <<resume, handled, pending, sent, unprepared, window>>

\* What kill(a, s) does, whoever calls it.
Sends(a, s) == /\ pending' = IF Alive(a) THEN [pending EXCEPT ![a] = @ \cup {s}] ELSE pending
               /\ unprepared' = IF Alive(a) /\ s \notin handled[a] \cup masked[a]
                                THEN unprepared \cup {a} ELSE unprepared

\* kill(b, "sig") as a step of a.
Kill(a, l, m, b) == /\ At(a, l)
                    /\ Sends(b, "sig")
                    /\ pc' = [pc EXCEPT ![a] = m]
                    /\ UNCHANGED <<resume, handled, masked, sent, window>>

\* Somebody else, a terminal or a timer sends a signal.
FromOutside(a, s) == /\ sent < MaxSignals /\ Alive(a)
                     /\ Sends(a, s)
                     /\ sent' = sent + 1
                     /\ UNCHANGED <<pc, resume, handled, masked, window>>

\* Delivery to a, at a moment from which it will go on at l; lost says that the
\* handler runs too early for the blocking call it is meant to interrupt.
Deliver(a, s, l, lost) ==
    /\ Alive(a) /\ ~At(a, "handler")
    /\ s \in pending[a] \ masked[a]
    /\ pending' = [pending EXCEPT ![a] = @ \ {s}]
    /\ pc' = [pc EXCEPT ![a] = IF s \in handled[a] THEN "handler" ELSE "killed"]
    /\ resume' = [resume EXCEPT ![a] = l]
    /\ window' = (window \/ (s \in handled[a] /\ lost))
    /\ UNCHANGED <<handled, masked, sent, unprepared>>

\* A handler that has nothing else to do returns.
HandlerReturns(a) == /\ At(a, "handler")
                     /\ pc' = [pc EXCEPT ![a] = resume[a]]
                     /\ UNCHANGED kernelVars

\* sigwait(): takes a pending signal of s without delivering it.
SigWait(a, l, m, s) == /\ At(a, l)
                       /\ \E k \in pending[a] \cap s :
                             pending' = [pending EXCEPT ![a] = @ \ {k}]
                       /\ pc' = [pc EXCEPT ![a] = m]
                       /\ UNCHANGED <<resume, handled, masked, sent, unprepared, window>>
=============================================================================
