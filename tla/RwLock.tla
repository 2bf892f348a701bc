------------------------------- MODULE RwLock -------------------------------
(***************************************************************************)
(* pthread-rwlock.c: writers that set a property once and readers that get *)
(* properties in a loop.  pthread-rwlock-pref.c: a writer, a reader and    *)
(* another writer, to see who is preferred.  The lock is glibc's with its  *)
(* default preference: a reader that has come is waited for by every       *)
(* writer that has not got the lock yet.                                   *)
(*                                                                         *)
(* A reader is at "loop", "rdlock" (it has come) or "reading", a writer at *)
(* "wrlock" or "writing".                                                  *)
(***************************************************************************)
EXTENDS Pthreads

CONSTANT WriterEvery   \* bound: every which thread is a writer; 4 in the code

ASSUME RwAssumption == WriterEvery \in Nat \ {0}

VARIABLES readers,     \* readers that hold the lock or wait for it
          writer,      \* the writer that holds it
          properties   \* the one property: who set it last; 0 is nobody

rwVars == <<readers, writer, properties>>

RwPrograms == {"rwlock", "rwpref"}

RwInit == readers = {} /\ writer = {} /\ properties = 0

RdCome(t, n) == /\ At(t, "loop") /\ count[t] < n
                /\ readers' = readers \cup {t}
                /\ Goto(t, "rdlock")
                /\ UNCHANGED <<mainVars, threadVars, writer, properties>>

RdLock(t) == /\ At(t, "rdlock") /\ writer = {}
             /\ Goto(t, "reading")
             /\ UNCHANGED <<mainVars, threadVars, readers, writer, properties>>

\* As RdUnlock, without giving the lock back.
RdUnlockForgotten(t) == /\ At(t, "reading")
                        /\ count' = [count EXCEPT ![t] = @ + 1]
                        /\ Goto(t, "loop")
                        /\ UNCHANGED <<mainVars, detached, joined, rwVars>>

RdUnlock(t) == /\ At(t, "reading")
               /\ readers' = readers \ {t}
               /\ count' = [count EXCEPT ![t] = @ + 1]
               /\ Goto(t, "loop")
               /\ UNCHANGED <<mainVars, detached, joined, writer, properties>>

WrLock(t) == /\ At(t, "wrlock") /\ writer = {} /\ readers = {}
             /\ writer' = {t}
             /\ properties' = t
             /\ Goto(t, "writing")
             /\ UNCHANGED <<mainVars, threadVars, readers>>

WrUnlock(t) == /\ At(t, "writing")
               /\ writer' = {}
               /\ Goto(t, "ended")
               /\ UNCHANGED <<mainVars, threadVars, readers, properties>>

prop_set(t) == WrLock(t) \/ WrUnlock(t)

prop_get(t, n) == RdCome(t, n) \/ RdLock(t) \/ RdUnlock(t)

\* What thread i + 1 starts with: a writer every so many threads.
Role == IF i % WriterEvery = 0 THEN "wrlock" ELSE "loop"

RwlockMain == \/ StartThread(N, Role) /\ UNCHANGED rwVars
              \/ (Increment \/ Started(N)) /\ UNCHANGED rwVars
              \/ (JoinThread(N, j + 1) \/ ReturnAfter(N)) /\ UNCHANGED rwVars

\* Three threads, started one after the other: a writer, a reader, a writer.
PrefMain == \/ StartThread(3, IF i = 1 THEN "loop" ELSE "wrlock") /\ UNCHANGED rwVars
            \/ (Increment \/ Started(3)) /\ UNCHANGED rwVars
            \/ (JoinThread(3, j + 1) \/ ReturnAfter(3)) /\ UNCHANGED rwVars

RwThread(t, n) == \/ prop_set(t)
                  \/ prop_get(t, n)
                  \/ LoopEnd(t, n) /\ UNCHANGED rwVars

RwMain == \/ Is("rwlock") /\ RwlockMain
          \/ Is("rwpref") /\ PrefMain
          \/ program \in RwPrograms /\ ExitProcess /\ UNCHANGED rwVars

RwStep(t) == \/ Is("rwlock") /\ RwThread(t, Loops)
             \/ Is("rwpref") /\ RwThread(t, 1)
=============================================================================
