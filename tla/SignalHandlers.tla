--------------------------- MODULE SignalHandlers ---------------------------
(***************************************************************************)
(* Programs of one process that catch a signal: event-loop.c, alarm.c,     *)
(* interrupted-read.c, sigpending.c, and ctrl_c.c, siginfo.c,              *)
(* signal-vs-sigaction.c and kill-and-catch.c, which do nothing but catch. *)
(***************************************************************************)
EXTENDS Signals

VARIABLES delivered,   \* event-loop.c's flag
          owed,        \* history: a signal was handled and not announced since
          typed,       \* the user has typed something
          size,        \* alarm.c: what read() returned, -1 or 1
          catches      \* history: 2 stands for more than one run of the handler

handlerVars == <<delivered, owed, typed, size, catches>>

Catchers == {"ctrl_c", "siginfo", "sigaction", "killandcatch"}
HandlerPrograms == Catchers \cup {"eventloop", "alarm", "intread", "sigpending"}

HandlersInit == /\ delivered = FALSE /\ owed = FALSE /\ typed = FALSE
                /\ size = 0 /\ catches = 0

Stays == UNCHANGED handlerVars
-----------------------------------------------------------------------------
(* event-loop.c: "poll", "test", "announce", "clear".                      *)

EventLoop ==
    \/ SigAction(0, "start", "poll") /\ Stays
    \/ Go(0, "poll", "test") /\ Stays
    \/ Go(0, "test", IF delivered THEN "announce" ELSE "poll") /\ Stays
    \/ Go(0, "announce", "clear") /\ owed' = FALSE /\ UNCHANGED <<delivered, typed, size, catches>>
    \/ Go(0, "clear", "poll") /\ delivered' = FALSE /\ UNCHANGED <<owed, typed, size, catches>>

\* A signal in front of the line that clears the flag is the one that is lost.
EventLoopSignal ==
    \/ Deliver(0, "sig", IF At(0, "poll") THEN "test" ELSE pc[0], At(0, "clear")) /\ Stays
    \/ /\ HandlerReturns(0)
       /\ delivered' = TRUE /\ owed' = TRUE
       /\ UNCHANGED <<typed, size, catches>>
-----------------------------------------------------------------------------
(* alarm.c: "arm", "armed", "read", "disarm", "ended".  interrupted-read.c *)
(* reads from a pipe that nobody writes to, and with -r has the call       *)
(* restarted.                                                              *)

Reads == /\ typed
         /\ Go(0, "read", "disarm")
         /\ size' = 1
         /\ UNCHANGED <<delivered, owed, typed, catches>>

\* alarm(0) takes back a signal that has not been sent.
Alarm == \/ SigAction(0, "start", "arm") /\ Stays
         \/ Go(0, "arm", "armed") /\ Stays
         \/ Go(0, "armed", "read") /\ Stays
         \/ Reads
         \/ Go(0, "disarm", "ended") /\ Stays

\* As AlarmSignal, with read() restarted after the handler.
AlarmSignalRestarts ==
    \/ /\ pc[0] \in {"armed", "read", "disarm"} /\ sent = 0
       /\ FromOutside(0, "sig")
       /\ Stays
    \/ Deliver(0, "sig", pc[0], At(0, "armed")) /\ Stays
    \/ HandlerReturns(0) /\ Stays

AlarmSignal ==
    \/ /\ pc[0] \in {"armed", "read", "disarm"} /\ sent = 0
       /\ FromOutside(0, "sig")
       /\ Stays
    \/ /\ Deliver(0, "sig", IF At(0, "read") THEN "disarm" ELSE pc[0], At(0, "armed"))
       /\ size' = IF At(0, "read") THEN -1 ELSE size
       /\ UNCHANGED <<delivered, owed, typed, catches>>
    \/ HandlerReturns(0) /\ Stays

InterruptedRead == (SigAction(0, "start", "pipe") \/ Go(0, "pipe", "read")) /\ Stays

InterruptedReadSignal ==
    \/ /\ Deliver(0, "sig", IF At(0, "read") /\ opt # "-r" THEN "ended" ELSE pc[0],
                  At(0, "pipe"))
       /\ Stays
    \/ HandlerReturns(0) /\ Stays
-----------------------------------------------------------------------------
(* sigpending.c: "install", "read", "check", "unblock", "unblocked",       *)
(* "pause".                                                                *)

\* sigprocmask() does not return before a signal it unblocks is delivered.
SigPending ==
    \/ SigMask(0, "start", "install", {"sig"}) /\ Stays
    \/ SigAction(0, "install", "read") /\ Stays
    \/ typed /\ Go(0, "read", "check") /\ Stays
    \/ Go(0, "check", IF "sig" \in pending[0] THEN "unblock" ELSE "aborted") /\ Stays
    \/ SigMask(0, "unblock", "unblocked", {}) /\ Stays
    \/ pending[0] = {} /\ Go(0, "unblocked", "pause") /\ Stays

SigPendingSignal ==
    \/ Deliver(0, "sig", IF At(0, "pause") THEN "ended" ELSE pc[0], FALSE) /\ Stays
    \/ /\ HandlerReturns(0)
       /\ catches' = IF catches = 0 THEN 1 ELSE 2
       /\ UNCHANGED <<delivered, owed, typed, size>>
-----------------------------------------------------------------------------
(* The programs that catch and go on sleeping.                             *)

Catches == (Deliver(0, "sig", pc[0], FALSE) \/ HandlerReturns(0)) /\ Stays

CtrlC == Is("ctrl_c") /\ SigAction(0, "start", "loop") /\ Stays

\* The handler prints what the kernel says of the sender.
SigInfo == Is("siginfo") /\ SigAction(0, "start", "loop") /\ Stays

\* The handler sleeps, and other signals come meanwhile.  signal() is, on Linux,
\* sigaction() with SA_RESTART: the handler stays, pause() is interrupted anyway.
SignalVsSigaction == Is("sigaction") /\ SigAction(0, "start", "loop") /\ Stays

\* Sends the signals itself, and has caught each one when kill() returns.
KillAndCatch == /\ Is("killandcatch")
                /\ \/ SigAction(0, "start", "loop")
                   \/ /\ At(0, "loop") /\ pending[0] = {} /\ sent < MaxSignals
                      /\ Sends(0, "sig")
                      /\ sent' = sent + 1
                      /\ UNCHANGED <<pc, resume, handled, masked, window>>
                /\ Stays

UserTypes == /\ program \in {"alarm", "sigpending"} /\ ~typed
             /\ typed' = TRUE
             /\ UNCHANGED <<pc, kernelVars, delivered, owed, size, catches>>

\* The steps of main() itself, and those that signals make it take.
HandlerMain == \/ Is("eventloop") /\ EventLoop
               \/ Is("alarm") /\ Alarm
               \/ Is("intread") /\ InterruptedRead
               \/ Is("sigpending") /\ SigPending
               \/ CtrlC
               \/ SigInfo
               \/ SignalVsSigaction
               \/ KillAndCatch

HandlerSignal == \/ Is("eventloop") /\ EventLoopSignal
                 \/ Is("alarm") /\ AlarmSignal
                 \/ Is("intread") /\ InterruptedReadSignal
                 \/ Is("sigpending") /\ SigPendingSignal
                 \/ program \in Catchers /\ Catches

\* A user who types, or sends signals, when he likes.
HandlerOutside == \/ UserTypes
                  \/ /\ program \in HandlerPrograms \ {"alarm", "killandcatch"}
                     /\ FromOutside(0, "sig")
                     /\ Stays
=============================================================================
