---------------------------- MODULE FcntlLocking ----------------------------
(***************************************************************************)
(* file-locking/fcntl-locking.c: writers go through a file of FileLen      *)
(* bytes and put their character into every byte, the second half under a  *)
(* record lock; a reader dumps the file under a read lock.                 *)
(*   "NO_LOCK"       no locks, one open file description for all writers   *)
(*   "SHARED_FD"     -l, locks, and still one file description             *)
(*   "EXCLUSIVE_FD"  -L, locks, and a file description for every writer    *)
(*                                                                         *)
(* A writer's program counter is "lock", "mark" and "markwrite"            *)
(* (lseek() and write() of the '|'), "seek", "write", "unlock", "dead";    *)
(* the reader's is "lockr", "read", "unlock", "dead".                      *)
(***************************************************************************)
EXTENDS Integers, Sequences, FiniteSets

CONSTANTS Writers,     \* the NPROC children; each is its own character
          FileLen,     \* FILE_LEN
          Modes        \* the ways of running the program that are checked

\* With fewer than four bytes a writer steps over the end of the file.  A writer's
\* character is none of the others, nor the name of the reader.
ASSUME FcntlAssumption ==
    /\ IsFiniteSet(Writers) /\ Writers # {}
    /\ Writers \cap {"reader", "|", "NUL", "any"} = {}
    /\ FileLen \in Nat /\ FileLen % 2 = 0 /\ FileLen >= 4
    /\ Modes \subseteq {"NO_LOCK", "SHARED_FD", "EXCLUSIVE_FD"}

VARIABLES locking,     \* the mode
          file,        \* contents of the file
          offset,      \* file offset of every writer's file description
          lock,        \* holders of a lock on the second half
          j, pc,       \* of every writer
          reader,      \* the parent, in dump_file()
          uniform,     \* was the second half uniform in the last dump?
          ctrlc,       \* has Ctrl-C been pressed?
          torn         \* history: was a writer killed with the lock?

vars == <<locking, file, offset, lock, j, pc, reader, uniform, ctrlc, torn>>

Half == FileLen \div 2
Locks == locking # "NO_LOCK"

\* The lseek() that is meant to extend the file has its last two arguments
\* swapped and fails: the file gets one byte, or none if fd is -1 already.
Init == /\ locking \in Modes
        /\ file = IF locking = "EXCLUSIVE_FD" THEN <<>> ELSE <<"NUL">>
        /\ offset = [w \in Writers |-> IF locking = "EXCLUSIVE_FD" THEN 0 ELSE 1]
        /\ lock = {}
        /\ j = [w \in Writers |-> 0]
        /\ pc = [w \in Writers |-> "seek"]
        /\ reader = IF Locks THEN "lockr" ELSE "read"
        /\ uniform = TRUE
        /\ ctrlc = FALSE /\ torn = FALSE

Goto(w, l) == pc' = [pc EXCEPT ![w] = l]

\* Mutant: only -l takes the lock.
AtTopSharedOnly(w, n) ==
    Goto(w, IF n # Half THEN "seek" ELSE IF locking = "SHARED_FD" THEN "lock" ELSE "mark")

\* The top of the loop: the middle of the file is where the lock is taken.
AtTop(w, n) == Goto(w, IF n # Half THEN "seek" ELSE IF Locks THEN "lock" ELSE "mark")
-----------------------------------------------------------------------------
(* The kernel, as this program uses it.                                    *)

\* fork() shares a file description, its offset included; -L opens one each.
Sharing(w) == IF locking = "EXCLUSIVE_FD" THEN {w} ELSE Writers

SetOffset(w, n) == offset' = [v \in Writers |-> IF v \in Sharing(w) THEN n ELSE offset[v]]

\* write() of one byte, which may leave a hole; it advances the offset.  In the
\* first half it makes no difference whose character it is.
WriteByte(w, ch) ==
    /\ file' = [k \in 1 .. (IF offset[w] < Len(file) THEN Len(file) ELSE offset[w] + 1) |->
                   IF k = offset[w] + 1 THEN IF k > Half THEN ch ELSE "any"
                   ELSE IF k <= Len(file) THEN file[k] ELSE "NUL"]
    /\ SetOffset(w, offset[w] + 1)
-----------------------------------------------------------------------------
(* A writer.                                                               *)

\* Mutant: writers take a read lock.
LockShared(w) == /\ pc[w] = "lock"
                 /\ lock' = lock \cup {w}
                 /\ Goto(w, "mark")
                 /\ UNCHANGED <<locking, file, offset, j, reader, uniform, ctrlc, torn>>

Lock(w) == /\ pc[w] = "lock"
           /\ lock = {}
           /\ lock' = {w}
           /\ Goto(w, "mark")
           /\ UNCHANGED <<locking, file, offset, j, reader, uniform, ctrlc, torn>>

Mark(w) == /\ pc[w] = "mark"
           /\ SetOffset(w, j[w])
           /\ j' = [j EXCEPT ![w] = @ + 1]
           /\ Goto(w, "markwrite")
           /\ UNCHANGED <<locking, file, lock, reader, uniform, ctrlc, torn>>

MarkWrite(w) == /\ pc[w] = "markwrite"
                /\ WriteByte(w, "|")
                /\ Goto(w, "seek")
                /\ UNCHANGED <<locking, lock, j, reader, uniform, ctrlc, torn>>

Seek(w) == /\ pc[w] = "seek"
           /\ SetOffset(w, j[w])
           /\ j' = [j EXCEPT ![w] = @ + 1]
           /\ Goto(w, "write")
           /\ UNCHANGED <<locking, file, lock, reader, uniform, ctrlc, torn>>

\* Mutant: the end of the file is noticed one byte late.
WriteLate(w) == /\ pc[w] = "write"
                /\ WriteByte(w, w)
                /\ IF j[w] > FileLen
                   THEN /\ j' = [j EXCEPT ![w] = 0]
                        /\ IF Locks THEN Goto(w, "unlock") ELSE AtTop(w, 0)
                   ELSE UNCHANGED j /\ AtTop(w, j[w])
                /\ UNCHANGED <<locking, lock, reader, uniform, ctrlc, torn>>

Write(w) == /\ pc[w] = "write"
            /\ WriteByte(w, w)
            /\ IF j[w] = FileLen
               THEN /\ j' = [j EXCEPT ![w] = 0]
                    /\ IF Locks THEN Goto(w, "unlock") ELSE AtTop(w, 0)
               ELSE UNCHANGED j /\ AtTop(w, j[w])
            /\ UNCHANGED <<locking, lock, reader, uniform, ctrlc, torn>>

Unlock(w) == /\ pc[w] = "unlock"
             /\ lock' = lock \ {w}
             /\ AtTop(w, 0)
             /\ UNCHANGED <<locking, file, offset, j, reader, uniform, ctrlc, torn>>
-----------------------------------------------------------------------------
(* dump_file()                                                             *)

Lockr == /\ reader = "lockr"
         /\ lock = {}
         /\ lock' = {"reader"}
         /\ reader' = "read"
         /\ UNCHANGED <<locking, file, offset, j, pc, uniform, ctrlc, torn>>

\* read(): what the second half looks like, for somebody who looks at the dump.
Uniform == \/ Len(file) <= Half
           \/ /\ Len(file) >= FileLen
              /\ file[Half + 1] = "|"
              /\ \E w \in Writers : \A k \in Half + 2 .. FileLen : file[k] = w

Dump == /\ reader = "read"
        /\ uniform' = Uniform
        /\ reader' = IF Locks THEN "unlock" ELSE "read"
        /\ UNCHANGED <<locking, file, offset, lock, j, pc, ctrlc, torn>>

Unlockr == /\ reader = "unlock"
           /\ lock' = lock \ {"reader"}
           /\ reader' = "lockr"
           /\ UNCHANGED <<locking, file, offset, j, pc, uniform, ctrlc, torn>>
-----------------------------------------------------------------------------
(* Ctrl-C: sigint_handler() in every process, at its own time.  Its kill() *)
(* has its arguments swapped and does nothing, _exit() drops the locks.    *)

CtrlC == /\ ~ctrlc /\ ctrlc' = TRUE
         /\ UNCHANGED <<locking, file, offset, lock, j, pc, reader, uniform, torn>>

WriterExits(w) == /\ ctrlc /\ pc[w] # "dead"
                  /\ lock' = lock \ {w}
                  /\ j' = [j EXCEPT ![w] = 0]
                  /\ Goto(w, "dead")
                  /\ torn' = (torn \/ w \in lock)
                  /\ UNCHANGED <<locking, file, offset, reader, uniform, ctrlc>>

ReaderExits == /\ ctrlc /\ reader # "dead"
               /\ lock' = lock \ {"reader"}
               /\ reader' = "dead"
               /\ UNCHANGED <<locking, file, offset, j, pc, uniform, ctrlc, torn>>
-----------------------------------------------------------------------------
Next == \/ \E w \in Writers : \/ Lock(w) \/ Mark(w) \/ MarkWrite(w) \/ Seek(w)
                              \/ Write(w) \/ Unlock(w) \/ WriterExits(w)
        \/ Lockr \/ Dump \/ Unlockr \/ CtrlC \/ ReaderExits

Spec == Init /\ [][Next]_vars
-----------------------------------------------------------------------------
Chars == Writers \cup {"|", "NUL", "any"}

\* Types; a writer's position never passes the end of the file.
TypeOK == /\ locking \in Modes
          /\ file \in Seq(Chars)
          /\ offset \in [Writers -> Nat]
          /\ lock \subseteq Writers \cup {"reader"}
          /\ j \in [Writers -> 0 .. FileLen]
          /\ pc \in [Writers -> {"lock", "mark", "markwrite", "seek",
                                 "write", "unlock", "dead"}]
          /\ reader \in {"lockr", "read", "unlock", "dead"}
          /\ uniform \in BOOLEAN
          /\ ctrlc \in BOOLEAN /\ torn \in BOOLEAN

\* Under -L the second half of what the reader prints "does consist of one
\* character only": it is missing altogether, or it is the mark and then the
\* character of one writer, unless Ctrl-C has killed a writer half way: that
\* gives up the lock, and the reader may get it before it dies itself.
SecondHalfUniform == locking = "EXCLUSIVE_FD" /\ ~torn => uniform

\* Writers with file descriptions of their own leave no hole and stay inside
\* the file.  Those that share one may skip bytes, and each may run past the
\* end once the others have written after its last lseek().
InsideTheFile ==
    /\ locking = "EXCLUSIVE_FD" => /\ Len(file) <= FileLen
                                   /\ \A k \in 1 .. Len(file) : file[k] # "NUL"
    /\ Len(file) < FileLen + Cardinality(Writers)

\* Under -L a byte of the second half changes only while a writer, and nobody
\* else, has the lock.  (Under -l a writer without it may write there too, at
\* the offset the holder of the lock has just set.)
WrittenUnderLock ==
    [][(locking = "EXCLUSIVE_FD" /\ \E k \in Half + 1 .. Len(file') :
                                       k > Len(file) \/ file'[k] # file[k])
           => \E w \in Writers : lock = {w}]_vars
=============================================================================
