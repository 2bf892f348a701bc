---------------------------- MODULE ThreadCancel ----------------------------
(***************************************************************************)
(* pthread-setcanceltype.c: main() cancels a thread that spins, prints and *)
(* then opens a FIFO nobody writes to.  A deferred request takes effect at *)
(* a cancellation point: open() is one, printf() may be one.  With -a it   *)
(* takes effect anywhere.  The FIFO may be missing, and open() fails, or   *)
(* have a writer after all.                                                *)
(*                                                                         *)
(* The thread is at "settype", "hello" (the first messages), "spin",       *)
(* "message", "open", "error" (the message that should not be seen) and    *)
(* "ended".                                                                *)
(***************************************************************************)
EXTENDS Pthreads

VARIABLES fifo,       \* "missing", "lonely", or "written" to
          requested,  \* pthread_cancel() has been called
          async,      \* the thread's cancellation type is asynchronous
          canceled,   \* the thread ended by cancellation
          late        \* history: open() had returned when the request came

cancelVars == <<fifo, requested, async, canceled, late>>

CancelInit == /\ fifo \in IF program = "cancel" THEN {"missing", "lonely", "written"}
                                                ELSE {"missing"}
              /\ requested = FALSE /\ async = FALSE /\ canceled = FALSE /\ late = FALSE

MyThreadGoes(l, m) == /\ At(1, l)
                      /\ Goto(1, m)
                      /\ UNCHANGED <<mainVars, threadVars, cancelVars>>

\* async is the program's option -a.
SetCancelType == /\ At(1, "settype")
                 /\ Goto(1, "hello")
                 /\ async' = (opt = "-a")
                 /\ UNCHANGED <<mainVars, threadVars, fifo, requested, canceled, late>>

\* As Open, with a request that open() does not notice.
OpenDeaf == fifo # "lonely" /\ MyThreadGoes("open", "error")

\* open() returns when there is a writer or no FIFO, but not to a thread with a
\* request against it.
Open == fifo # "lonely" /\ ~requested /\ MyThreadGoes("open", "error")

CancellationPoints == {"hello", "message", "open", "error"}

Canceled == /\ requested
            /\ pc[1] \in CancellationPoints \/ (async /\ pc[1] \notin {"ended", "gone"})
            /\ canceled' = TRUE
            /\ Goto(1, "ended")
            /\ UNCHANGED <<mainVars, threadVars, fifo, requested, async, late>>

mythread == \/ SetCancelType
            \/ MyThreadGoes("hello", "spin")
            \/ MyThreadGoes("spin", "message")
            \/ MyThreadGoes("message", "open")
            \/ Open
            \/ MyThreadGoes("error", "ended")
            \/ Canceled

\* pthread_cancel() of a thread that has ended and has not been joined returns
\* ESRCH or 0, depending on the library's version.
Cancel == \/ /\ requested' = TRUE
             /\ late' = (pc[1] \in {"error", "ended"})
             /\ Goto(Main, "join")
             /\ UNCHANGED <<mainVars, threadVars, fifo, async, canceled>>
          \/ /\ At(1, "ended") /\ Errx(1)
             /\ late' = TRUE
             /\ UNCHANGED <<fifo, requested, async, canceled>>

CancelMain == \/ StartThread(1, "settype") /\ UNCHANGED cancelVars
              \/ At(Main, "next") /\ Cancel
              \/ /\ At(Main, "join") /\ JoinSucceeds(1)
                 /\ Return(IF canceled THEN 0 ELSE 1)
                 /\ UNCHANGED cancelVars
              \/ ExitProcess /\ UNCHANGED cancelVars
=============================================================================
