------------------------------ MODULE LockFile ------------------------------
(***************************************************************************)
(* file-locking/lock-unlock.c and the workers of run.sh that use it, which *)
(* are told to stop by a signal.  The lock is a file; open(O_EXCL |        *)
(* O_CREAT) makes it or fails, unlink() removes it, whoever made it.  The  *)
(* three actors are workers: "try", "work", "idle" or "ended".             *)
(***************************************************************************)
EXTENDS Signals

VARIABLES file,     \* who made the lock file; {} when there is none
          robbed,   \* history: a worker removed the file of another one
          stale     \* history: a worker with the lock was killed by SIGKILL

lockFileVars == <<file, robbed, stale>>

LockFileInit == file = {} /\ robbed = FALSE /\ stale = FALSE

\* As lock(), with open(O_CREAT) without O_EXCL.
lockShared(w) == /\ Go(w, "try", "work")
                 /\ file' = {w}
                 /\ UNCHANGED <<robbed, stale>>

\* Status 1 and 2 make the worker try again: "return 1" is not in a function.
lock(w) == /\ file = {}
           /\ Go(w, "try", "work")
           /\ file' = {w}
           /\ UNCHANGED <<robbed, stale>>

\* err(2) if the file is gone, which nobody looks at.
unlock(w) == /\ Go(w, "work", "idle")
             /\ robbed' = (robbed \/ file \notin {{}, {w}})
             /\ file' = {}
             /\ UNCHANGED stale

Worker(w) == \/ lock(w)
             \/ unlock(w)
             \/ Go(w, "idle", "try") /\ UNCHANGED lockFileVars

\* trap "rm -f $1; exit" INT TERM: the file goes, whoever made it.
Trap(w) == /\ Alive(w)
           /\ Go(w, pc[w], "ended")
           /\ robbed' = (robbed \/ file \notin {{}, {w}})
           /\ file' = {}
           /\ UNCHANGED stale

Kill9(w) == /\ Alive(w)
            /\ Go(w, pc[w], "ended")
            /\ stale' = (stale \/ file = {w})
            /\ UNCHANGED <<file, robbed>>
=============================================================================
