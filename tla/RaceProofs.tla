----------------------------- MODULE RaceProofs -----------------------------
(***************************************************************************)
(* For any number of signals and any leftover semaphore: the programs that *)
(* synchronize see no race, as long as the semaphore has no unit too many. *)
(* The inductive invariant says who may be between lock and unlock, and    *)
(* what the cells look like at every point in between.                     *)
(***************************************************************************)
EXTENDS Race, TLAPS

\* A program that synchronizes, its semaphore had no unit too many, and no sem_wait()
\* has been interrupted.
Safe == program \notin Unsynchronized /\ ~eintr /\ units <= 1

Types == /\ program \in Programs
         /\ cell \in [{0, 1} -> Int]
         /\ got \in [Workers -> Int]
         /\ saw \in [Workers -> BOOLEAN]
         /\ run \in [Workers -> BOOLEAN]
         /\ pending \in [Workers -> BOOLEAN]
         /\ sem \in Int /\ units \in Int
         /\ owner \in Workers \cup {"free"}
         /\ eintr \in BOOLEAN
         /\ pc \in [Workers -> Places]

\* A semaphore whose unit somebody has is not positive; the lock and the mutex
\* belong to whoever is in the critical section.
Exclusion ==
    Safe => /\ ~(pc["parent"] \in Section /\ pc["child"] \in Section)
            /\ program \in {"sysv", "posix"} =>
                  /\ sem <= 1
                  /\ \A p \in Workers : pc[p] \in Section => sem <= 0
            /\ program \in {"fcntl", "mutex"} =>
                  \A p \in Workers : pc[p] \in Section => owner = p

\* (A thread program may be killed between its two assignments.)
Cells == Safe => /\ \/ \E p \in Workers : pc[p] = "write2nd"
                    \/ \A p \in Workers : pc[p] \in Final
                    \/ cell[0] = cell[1]
                 /\ \A p \in Workers :
                       /\ pc[p] = "read1" => got[p] = cell[0]
                       /\ pc[p] = "write2nd" => cell[FirstWritten] = Value(p)
                       /\ saw[p] = FALSE

IInv == Types /\ Exclusion /\ Cells

\* Before fork() there is one process.
Beginning == /\ pc["parent"] \in Starting => pc["child"] = "unborn"
             /\ pc["child"] = "unborn" => ~pending["child"]
             /\ pc["parent"] = "sem_open" => units = 1
             /\ program \in ThreadPrograms => \A p \in Workers : pc[p] # "unborn"

\* The inductive invariant holds initially.
LEMMA RaceInit == Init => IInv /\ Beginning
<1> SUFFICES ASSUME Init PROVE IInv /\ Beginning
  OBVIOUS
<1>1. Types
  <2>1. /\ saw \in [Workers -> BOOLEAN] /\ run \in [Workers -> BOOLEAN]
        /\ pending \in [Workers -> BOOLEAN] /\ eintr \in BOOLEAN
    BY Zenon DEF Init
  <2>2. pc \in [Workers -> Places]
    BY DEF Init, Places, Workers, Starting, Unhandled
  <2>3. sem \in Int
    BY DEF Init, Removed
  <2>4. QED  BY <2>1, <2>2, <2>3 DEF Init, Types, Workers
<1>2. /\ pc["parent"] \in Starting \cup {"while"}
      /\ pc["child"] \in {"unborn", "while"}
      /\ pc["child"] = "while" => pc["parent"] = "while"
  BY DEF Init, Workers, Starting, Unhandled
<1>3. Exclusion
  BY <1>2 DEF Init, Exclusion, Workers, Section, Starting, Unhandled, Removed
<1>4. Cells
  BY <1>2 DEF Init, Cells, Workers, Starting, Unhandled
<1>5. Beginning
  BY <1>2 DEF Init, Beginning, Workers, Starting, Unhandled
<1>6. QED  BY <1>1, <1>3, <1>4, <1>5 DEF IInv

\* What the workers write are integers.
LEMMA ValueType == ASSUME NEW p \in Workers PROVE Value(p) \in Int
  BY DEF Value

\* FirstWritten is one of the two cells.
LEMMA FirstWrittenType == FirstWritten \in {0, 1}
  BY DEF FirstWritten

\* The loop test, the comparison and the assignments, in every program.
LEMMA BodyStep ==
    ASSUME IInv, NEW p \in Workers, Body(p)
    PROVE  IInv'
<1> USE DEF Workers
<1>1. CASE While(p)
  BY <1>1 DEF IInv, Types, Places, Exclusion, Cells, Safe, While, Goto, Section, Final,
              FirstWritten, Value, Unsynchronized
<1>2. CASE Read0(p)
  BY <1>2 DEF IInv, Types, Places, Exclusion, Cells, Safe, Read0, Goto, Section, Final,
              FirstWritten, Value
<1>3. CASE Read1(p)
  BY <1>3 DEF IInv, Types, Places, Exclusion, Cells, Safe, Read1, Goto, Section, Final,
              FirstWritten, Value
<1>4. CASE Write1st(p)
  <2>1. Types'
    BY <1>4, ValueType, FirstWrittenType DEF IInv, Types, Places, Write1st, Goto, Section
  <2>2. Exclusion'
    BY <1>4 DEF IInv, Types, Places, Exclusion, Safe, Write1st, Goto, Section
  <2>3. Cells'
    BY <1>4, FirstWrittenType
    DEF IInv, Types, Places, Exclusion, Cells, Safe, Write1st, Goto, Section, Final,
        FirstWritten, Value
  <2>4. QED  BY <2>1, <2>2, <2>3 DEF IInv
<1>5. CASE Write2nd(p)
  <2>1. PICK v \in {Value(p), cell[FirstWritten]} :
              cell' = [cell EXCEPT ![1 - FirstWritten] = v]
    BY <1>5 DEF Write2nd
  <2>2. v \in Int
    BY <2>1, ValueType, FirstWrittenType DEF IInv, Types, Places
  <2>3. Types'
    BY <1>5, <2>1, <2>2, FirstWrittenType
    DEF IInv, Types, Places, Write2nd, Goto, Section, Unsynchronized
  <2>4. Exclusion'
    BY <1>5 DEF IInv, Types, Places, Exclusion, Safe, Write2nd, Goto, Section
  <2>5. Safe => v = Value(p)
    BY <1>5, <2>1 DEF IInv, Cells, Write2nd
  <2>6. Cells'
    BY <1>5, <2>1, <2>5, FirstWrittenType
    DEF IInv, Types, Places, Exclusion, Cells, Safe, Write2nd, Goto, Section, Final,
        FirstWritten, Value
  <2>7. QED  BY <2>3, <2>4, <2>6 DEF IInv
<1>6. QED  BY <1>1, <1>2, <1>3, <1>4, <1>5 DEF Body

\* The handler keeps the flags Boolean and leaves the cells alone.
LEMMA finishTypes ==
    ASSUME Types, NEW p \in Workers, finish(p)
    PROVE  /\ run' \in [Workers -> BOOLEAN] /\ pending' \in [Workers -> BOOLEAN]
           /\ UNCHANGED <<program, cell, got, saw, units>>
  BY DEF Types, Places, finish

\* A jump to a program point keeps the program counters well-typed.
LEMMA GotoTypes ==
    ASSUME Types, NEW p \in Workers,
           NEW l \in Places,
           Goto(p, l)
    PROVE  pc' \in [Workers -> Places]
  BY DEF Types, Places, Goto

\* Steps outside the critical section, into it and out of it leave the cells
\* alone, and those who look at them where they are.
LEMMA CellsKept ==
    ASSUME IInv, Types', UNCHANGED <<program, cell, got, saw>>, Safe' => Safe,
           \A q \in Workers :
               \/ pc'[q] = pc[q]
               \/ /\ pc[q] \notin {"write2nd"} \cup Final
                  /\ pc'[q] \notin {"read1", "write2nd"}
    PROVE  Cells'
  BY DEF IInv, Types, Places, Cells, Workers, FirstWritten, Value, Final

\* fcntl-fixed-race.c: locking, unlocking, and giving up on EINTR.
LEMMA lock_unlockStep ==
    ASSUME IInv, NEW p \in Workers, program = "fcntl", lock_unlock(p)
    PROVE  IInv'
<1> USE DEF Workers, lock_unlock, Enter, Leave, Interrupt, finish, Goto
<1>1. Types'
  <2>1. CASE Enter(p) \/ Leave(p)
    BY <2>1 DEF IInv, Types, Places, Section
  <2>2. CASE Interrupt(p, "lock", owner # "free")
    BY <2>2, finishTypes, GotoTypes DEF IInv, Types, Places, Section, Final
  <2>3. QED  BY <2>1, <2>2
<1>2. Exclusion'
  BY DEF IInv, Types, Places, Exclusion, Safe, Section
<1>3. Cells'
  BY <1>1, CellsKept DEF IInv, Types, Places, Safe, Final
<1>4. QED  BY <1>1, <1>2, <1>3 DEF IInv

\* sem-fixed-race.c: down, up, and giving up on EINTR or a removed semaphore.
LEMMA up_downStep ==
    ASSUME IInv, NEW p \in Workers, program = "sysv", up_down(p)
    PROVE  IInv'
<1> USE DEF Workers, up_down, SysvCleanup, Removed, Enter, Leave, Interrupt, finish,
            Goto
<1>1. Types'
  <2>1. CASE Enter(p) \/ Leave(p)
    BY <2>1 DEF IInv, Types, Places, Section
  <2>2. CASE Interrupt(p, "lock", sem = 0)
    BY <2>2, finishTypes, GotoTypes DEF IInv, Types, Places, Section, Final
  <2>3. CASE pc[p] \in {"lock", "unlock"} /\ sem = Removed /\ Goto(p, "exit1")
             /\ UNCHANGED <<program, cell, got, saw, run, sem, units, owner, eintr, pending>>
    BY <2>3, GotoTypes DEF IInv, Types, Places, Final
  <2>4. QED  BY <2>1, <2>2, <2>3
<1>2. Exclusion'
  BY DEF IInv, Types, Places, Exclusion, Safe, Section
<1>3. Cells'
  BY <1>1, CellsKept DEF IInv, Types, Places, Safe, Final
<1>4. QED  BY <1>1, <1>2, <1>3 DEF IInv

\* posix-sem-fixed-race.c: sem_wait(), sem_post(), and EINTR, after which
\* nothing is claimed.
LEMMA PosixSemStep ==
    ASSUME IInv, NEW p \in Workers, program = "posix", PosixSem(p)
    PROVE  IInv'
<1> USE DEF Workers, PosixSem, Enter, Leave, Interrupt, finish, Goto
<1>1. Types'
  <2>1. CASE Enter(p) \/ Leave(p)
    BY <2>1 DEF IInv, Types, Places, Section
  <2>2. CASE Interrupt(p, "lock", sem = 0)
    BY <2>2, finishTypes, GotoTypes DEF IInv, Types, Places, Section, Final
  <2>3. QED  BY <2>1, <2>2
<1>2. Exclusion'
  BY DEF IInv, Types, Places, Exclusion, Safe, Section
<1>3. Cells'
  BY <1>1, CellsKept DEF IInv, Types, Places, Safe, Final
<1>4. QED  BY <1>1, <1>2, <1>3 DEF IInv

\* mutexes/race-fixed.c: locking and unlocking.
LEMMA MutexStep ==
    ASSUME IInv, NEW p \in Workers, program = "mutex", Mutex(p)
    PROVE  IInv'
<1> USE DEF Workers, Mutex, Enter, Leave, Goto
<1>1. Types'
  BY DEF IInv, Types, Places, Section, Final
<1>2. Exclusion'
  BY DEF IInv, Types, Places, Exclusion, Safe, Section
<1>3. Cells'
  BY <1>1, CellsKept DEF IInv, Types, Places, Safe, Final
<1>4. QED  BY <1>1, <1>2, <1>3 DEF IInv

\* wait() and cleanup() at the end of main().
LEMMA EndStep ==
    ASSUME IInv, NEW p \in Workers, NEW l \in {"cleanup", "abort"},
           \/ Wait \/ WaitInterrupted(l)
           \/ Exit(p) /\ (UNCHANGED sem \/ SysvCleanup(p))
    PROVE  IInv'
<1> USE DEF Workers, Wait, WaitInterrupted, Exit, SysvCleanup, Removed, Interrupt,
            finish, Goto
<1>1. Types'
  <2>1. CASE Wait
    BY <2>1 DEF IInv, Types, Places
  <2>2. CASE WaitInterrupted(l)
    BY <2>2, finishTypes, GotoTypes DEF IInv, Types, Places, Final
  <2>3. CASE Exit(p) /\ (UNCHANGED sem \/ SysvCleanup(p))
    BY <2>3 DEF IInv, Types, Places, Final
  <2>4. QED  BY <2>1, <2>2, <2>3
<1>2. Exclusion'
  BY DEF IInv, Types, Places, Exclusion, Safe, Section
<1>3. Cells'
  BY <1>1, CellsKept DEF IInv, Types, Places, Safe, Final
<1>4. QED  BY <1>1, <1>2, <1>3 DEF IInv

\* The handler in a process that does not block.
LEMMA DeliverStep ==
    ASSUME IInv, NEW p \in Workers, Deliver(p)
    PROVE  IInv'
<1> USE DEF Workers, Deliver, finish
<1>1. Types'
  BY DEF IInv, Types, Places
<1>2. Exclusion'
  BY DEF IInv, Types, Places, Exclusion, Safe
<1>3. Cells'
  BY <1>1, CellsKept DEF Safe
<1>4. QED  BY <1>1, <1>2, <1>3 DEF IInv

\* Getting the semaphore, the handler, fork(), and failing at it.
LEMMA StartStep ==
    ASSUME IInv, Beginning, Start \/ semget \/ semctl \/ sem_open
    PROVE  IInv'
<1> USE DEF Workers, Goto
<1>1. /\ pc["parent"] \in Starting /\ pc["child"] = "unborn"
      /\ UNCHANGED <<program, cell, got, saw, owner, eintr, pending>>
      /\ sem' \in {sem, 0, 1} \/ sem' = units'
      /\ pc["parent"] # "sem_open" => units' = units
  BY DEF Start, semget, semctl, sem_open, sigaction, Fork, StartFails, Beginning,
         Starting, Unhandled
<1>2. /\ run' \in [Workers -> BOOLEAN] /\ sem' \in Int /\ units' \in Int
      /\ pc' \in [Workers -> Places]
      /\ \A q \in Workers : pc'[q] \in Starting \cup {"unborn", "while", "exit1"}
  BY <1>1, RaceAssumption
  DEF IInv, Types, Start, semget, semctl, sem_open, sigaction, Fork, StartFails, Places,
      Starting, Unhandled, Final
<1>3. Types'
  BY <1>1, <1>2 DEF IInv, Types
<1>4. Safe' => Safe
  BY <1>1 DEF Safe, Beginning
<1>5. Exclusion'
  <2>1. \A q \in Workers : pc'[q] \notin Section
    BY <1>2 DEF Section, Starting, Unhandled
  <2>2. Safe' /\ program \in {"sysv", "posix"} => sem' <= 1
    BY <1>1, <1>4 DEF IInv, Types, Exclusion, Safe
  <2>3. QED  BY <1>1, <2>1, <2>2 DEF Exclusion
<1>6. Cells'
  BY <1>1, <1>2, <1>3, <1>4, CellsKept DEF Starting, Unhandled, Final
<1>7. QED  BY <1>3, <1>5, <1>6 DEF IInv

\* Ctrl-C, which kills on the spot who has no handler.
LEMMA CtrlCStep == ASSUME IInv, Beginning, CtrlC PROVE IInv'
<1>1. CASE program \in ThreadPrograms
  <2>1. /\ \A q \in Workers : pc'[q] \in Final
        /\ pc' \in [Workers -> Places]
        /\ UNCHANGED <<program, cell, got, saw, run, sem, units, owner, eintr, pending>>
    BY <1>1 DEF IInv, Types, Places, CtrlC, Alive, Beginning, Final
  <2>2. Types'
    BY <2>1 DEF IInv, Types
  <2>3. Exclusion'
    BY <2>1 DEF IInv, Exclusion, Safe, Workers, Section, Final
  <2>4. Cells'
    BY <2>1 DEF IInv, Cells, Safe, Final
  <2>5. QED  BY <2>2, <2>3, <2>4 DEF IInv
<1>2. CASE program \notin ThreadPrograms /\ pc["parent"] \in Unhandled
  <2>1. /\ pc["child"] = "unborn" /\ pc' = [p \in Workers |-> IF Alive(p) THEN "killed" ELSE pc[p]]
        /\ UNCHANGED <<program, cell, got, saw, run, sem, units, owner, eintr, pending>>
    BY <1>2 DEF CtrlC, Beginning, Starting
  <2>2. pc'["parent"] = "killed" /\ pc'["child"] = "unborn"
    BY <1>2, <2>1 DEF Alive, Workers, Unhandled, Final
  <2>3. Types'
    BY <2>1 DEF IInv, Types, Places, Final
  <2>4. Exclusion'
    BY <1>2, <2>1, <2>2 DEF IInv, Exclusion, Safe, Section, Workers
  <2>5. Cells'
    BY <1>2, <2>1, <2>2, <2>3, CellsKept DEF Safe, Unhandled, Final, Workers
  <2>6. QED  BY <2>3, <2>4, <2>5 DEF IInv
<1>3. CASE program \notin ThreadPrograms /\ pc["parent"] \notin Unhandled
  <2>1. \A q \in Workers : Alive(q) \in BOOLEAN
    BY DEF Alive
  <2>2. Types'
    BY <1>3, <2>1 DEF IInv, Types, CtrlC
  <2>3. Exclusion'
    BY <1>3 DEF IInv, Types, Exclusion, Safe, CtrlC
  <2>4. Cells'
    BY <1>3, <2>2, CellsKept DEF Safe, CtrlC
  <2>5. QED  BY <2>2, <2>3, <2>4 DEF IInv
<1>4. QED  BY <1>1, <1>2, <1>3

\* A signal for the parent alone.
LEMMA KillParentStep == ASSUME IInv, KillParent PROVE IInv'
<1> USE DEF Workers, KillParent
<1>1. Types'
  BY DEF IInv, Types, Places
<1>2. Exclusion'
  BY DEF IInv, Types, Places, Exclusion, Safe
<1>3. Cells'
  BY <1>1, CellsKept DEF Safe
<1>4. QED  BY <1>1, <1>2, <1>3 DEF IInv

\* Every step preserves the inductive invariant.
LEMMA RaceNext == IInv /\ Beginning /\ [Next]_vars => IInv'
<1> SUFFICES ASSUME IInv, Beginning, [Next]_vars PROVE IInv'
  OBVIOUS
<1>1. CASE UNCHANGED vars
  BY <1>1 DEF vars, IInv, Types, Places, Exclusion, Cells, Safe, FirstWritten, Value
<1>2. CASE CtrlC \/ KillParent
  BY <1>2, CtrlCStep, KillParentStep
<1>3. ASSUME NEW p \in Workers, Deliver(p) PROVE IInv'
  BY <1>3, DeliverStep
<1>4. ASSUME NEW p \in Workers, Step(p) PROVE IInv'
  <2>1. CASE Body(p)
    BY <2>1, BodyStep
  <2>2. CASE \E l \in {"cleanup", "abort"} :
                 \/ Wait \/ WaitInterrupted(l)
                 \/ Exit(p) /\ (UNCHANGED sem \/ SysvCleanup(p))
    BY <2>2, EndStep
  <2>3. CASE program = "fcntl" /\ lock_unlock(p)
    BY <2>3, lock_unlockStep
  <2>4. CASE program = "sysv" /\ up_down(p)
    BY <2>4, up_downStep
  <2>5. CASE program = "posix" /\ PosixSem(p)
    BY <2>5, PosixSemStep
  <2>6. CASE program = "mutex" /\ Mutex(p)
    BY <2>6, MutexStep
  <2>7. CASE Start \/ semget \/ semctl \/ sem_open
    BY <2>7, StartStep
  <2>8. QED
    BY <1>4, <2>1, <2>2, <2>3, <2>4, <2>5, <2>6, <2>7
    DEF Step, RaceMain, FcntlMain, SysvMain, PosixMain, FooThread, MutexThread
<1>5. QED  BY <1>1, <1>2, <1>3, <1>4 DEF Next

\* There is one process until fork(), and no way back.
LEMMA BeginningNext == IInv /\ Beginning /\ [Next]_vars => Beginning'
<1> SUFFICES ASSUME IInv, Beginning, [Next]_vars PROVE Beginning'
  OBVIOUS
<1>1. /\ pc \in [Workers -> Places] /\ pending \in [Workers -> BOOLEAN]
      /\ pc["parent"] \in Starting => pc["child"] = "unborn"
      /\ pc["child"] = "unborn" => ~pending["child"]
      /\ pc["parent"] = "sem_open" => units = 1
      /\ program \in ThreadPrograms => \A q \in Workers : pc[q] # "unborn"
  BY DEF IInv, Types, Beginning
<1>2. CASE UNCHANGED <<program, pc, units>> /\ \A q \in Workers : pending'[q] => pending[q]
  BY <1>1, <1>2 DEF Beginning, Workers
<1>3. CASE CtrlC
  BY <1>1, <1>3 DEF Beginning, CtrlC, Alive, Workers, Starting, Unhandled, Final
<1>4. CASE KillParent
  BY <1>1, <1>4 DEF Beginning, KillParent, Workers
<1>5. CASE Start \/ semget \/ semctl \/ sem_open
  BY <1>1, <1>5 DEF Beginning, Start, semget, semctl, sem_open, sigaction, Fork, StartFails,
                    Goto, Workers, Starting, Unhandled
<1>6. ASSUME NEW p \in Workers, Step(p), ~(Start \/ semget \/ semctl \/ sem_open) PROVE Beginning'
  <2>1. /\ units' = units /\ pc[p] \notin Starting \cup {"unborn"}
        /\ program' = program
        /\ \A q \in Workers : pending'[q] => pending[q]
        /\ \E l \in {"while", "lock", "wait", "cleanup"} \cup Section \cup Final : Goto(p, l)
    BY <1>1, <1>6
    DEF Step, RaceMain, FcntlMain, SysvMain, Starting, Unhandled, Section, Final, Workers,
      PosixMain, FooThread, MutexThread, Body, While, Read0, Read1, Write1st, Write2nd,
      Wait, WaitInterrupted, Interrupt, finish, Exit, lock_unlock, up_down, PosixSem, Mutex,
      Enter, Leave
  <2>2. QED  BY <1>1, <2>1 DEF Beginning, Goto, Workers, Starting, Unhandled, Section, Final
<1>7. ASSUME NEW p \in Workers, Deliver(p) PROVE Beginning'
  BY <1>1, <1>7 DEF Beginning, Deliver, finish, Workers
<1>8. QED
  BY <1>2, <1>3, <1>4, <1>5, <1>6, <1>7 DEF Next, vars

\* A worker of a program that synchronizes never finds the cells different,
\* however often and wherever Ctrl-C finds it.
THEOREM SynchronizedSeesNoRace == SafeSpec => []NoRaceSeen
<1>1. IInv => NoRaceSeen
  BY DEF IInv, Cells, Safe, NoRaceSeen
<1>2. QED  BY RaceInit, RaceNext, BeginningNext, <1>1, PTL DEF SafeSpec
-----------------------------------------------------------------------------
(* What the cells can hold, how far the semaphore goes, and how the two    *)
(* processes end.                                                          *)

Values == cell \in [{0, 1} -> 0 .. 2] /\ got \in [Workers -> 0 .. 2]

\* A worker that was told to stop has taken its last unit of the semaphore, with or
\* without getting it, once it is past sem_wait().
In(p) == IF pc[p] \in Section THEN 1 ELSE 0
Leaving(p) == IF ~run[p] /\ pc[p] \notin {"lock", "unborn"} THEN 1 ELSE 0

\* Unless a sem_wait() was interrupted no unit is made up.
Conserved == sem + (In("parent") + In("child")) <= units
AlmostConserved ==
    sem + (In("parent") + In("child")) <= units + (Leaving("parent") + Leaving("child"))

Units == /\ units \in {1} \cup Leftovers
         /\ sem >= Removed
         /\ eintr => program = "posix"
         /\ program # "posix" => units = 1
         /\ program \notin {"sysv", "posix"} => sem = 1
         /\ program = "posix" => AlmostConserved /\ (~eintr => Conserved)

\* Every delivery has its signal: a process that was told to stop and has another
\* one pending was signalled twice.
Signals == /\ sigints \in 0 .. MaxSigints
           /\ \A p \in Workers : /\ pending[p] \/ ~run[p] => sigints >= 1
                                 /\ pending[p] /\ ~run[p] => sigints >= 2

\* The parent gets past wait() when its child is dead, or by a second signal; when
\* it is gone the System V semaphore is.
Reaping == /\ pc["parent"] \in {"wait", "cleanup", "exit0"} => ~run["parent"]
           /\ pc["parent"] \in {"cleanup", "exit0"} /\ sigints < 2 => Dead("child")
           /\ pc["parent"] = "abort" => sigints >= 2
           /\ program = "sysv" /\ Dead("parent") => sem = Removed \/ pc["child"] = "unborn"

EndInv == Values /\ Units /\ Signals /\ Reaping

LEMMA EndInit == Init => EndInv
<1> SUFFICES ASSUME Init PROVE EndInv
  OBVIOUS
<1>1. /\ pc["parent"] \in Starting \cup {"while"} /\ pc["child"] \in {"unborn", "while"}
      /\ run["parent"] /\ run["child"]
  BY DEF Init, Workers, Starting, Unhandled
<1>2. Values /\ Signals
  BY RaceAssumption DEF Init, Values, Signals
<1>3. In("parent") = 0 /\ In("child") = 0 /\ Leaving("parent") = 0 /\ Leaving("child") = 0
  BY <1>1 DEF In, Leaving, Section, Starting, Unhandled
<1>4. Units
  BY <1>3 DEF Init, Units, Conserved, AlmostConserved, Removed
<1>5. Reaping
  BY <1>1 DEF Reaping, Dead, Final, Starting, Unhandled
<1>6. QED  BY <1>2, <1>4, <1>5 DEF EndInv

LEMMA SmallValues == \A p \in Workers : Value(p) \in 0 .. 2
  BY DEF Value

LEMMA ValuesKept == IInv /\ Beginning /\ EndInv /\ [Next]_vars => Values'
<1> SUFFICES ASSUME IInv, Beginning, EndInv, [Next]_vars PROVE Values'
  OBVIOUS
<1>1. cell \in [{0, 1} -> 0 .. 2] /\ got \in [Workers -> 0 .. 2]
  BY DEF EndInv, Values
<1>2. CASE UNCHANGED <<cell, got>>
  BY <1>1, <1>2 DEF Values
<1>3. ASSUME NEW p \in Workers, Read0(p) PROVE Values'
  BY <1>1, <1>3 DEF Values, Read0
<1>4. ASSUME NEW p \in Workers, Write1st(p) PROVE Values'
  BY <1>1, <1>4, FirstWrittenType, SmallValues DEF Values, Write1st
<1>5. ASSUME NEW p \in Workers, Write2nd(p) PROVE Values'
  <2>1. PICK v \in {Value(p), cell[FirstWritten]} :
              cell' = [cell EXCEPT ![1 - FirstWritten] = v]
    BY <1>5 DEF Write2nd
  <2>2. v \in 0 .. 2 /\ 1 - FirstWritten \in {0, 1}
    BY <1>1, FirstWrittenType, SmallValues
  <2>3. QED  BY <1>1, <1>5, <2>1, <2>2 DEF Values, Write2nd
<1>6. QED
  BY <1>2, <1>3, <1>4, <1>5
  DEF Next, vars, CtrlC, KillParent, Deliver, finish, Step, RaceMain, FcntlMain, SysvMain,
      PosixMain, FooThread, MutexThread, Body, While, Read1, Wait, WaitInterrupted, Interrupt,
      Exit, lock_unlock, up_down, PosixSem, Mutex, Enter, Leave,
      Start, semget, semctl, sem_open, sigaction, Fork, StartFails

\* A step sends a signal, delivers one, or leaves the signals alone.
LEMMA SignalsKept == IInv /\ Beginning /\ EndInv /\ [Next]_vars => Signals'
<1> SUFFICES ASSUME IInv, Beginning, EndInv, [Next]_vars PROVE Signals'
  OBVIOUS
<1>1. /\ sigints \in 0 .. MaxSigints /\ MaxSigints \in Nat
      /\ \A p \in Workers : /\ pending[p] \/ ~run[p] => sigints >= 1
                            /\ pending[p] /\ ~run[p] => sigints >= 2
  BY RaceAssumption DEF EndInv, Signals
<1>2. run \in [Workers -> BOOLEAN] /\ pending \in [Workers -> BOOLEAN]
  BY DEF IInv, Types, Places
<1>3. CASE UNCHANGED <<run, pending, sigints>>
  BY <1>1, <1>3 DEF Signals
<1>4. CASE CtrlC \/ KillParent
  <2>1. sigints' = sigints + 1 /\ sigints < MaxSigints /\ run' = run
    BY <1>4 DEF CtrlC, KillParent
  <2>2. QED  BY <1>1, <2>1 DEF Signals
<1>5. ASSUME NEW p \in Workers, finish(p) PROVE Signals'
  <2>1. /\ sigints' = sigints /\ pending[p]
        /\ pending' = [pending EXCEPT ![p] = FALSE] /\ run' = [run EXCEPT ![p] = FALSE]
    BY <1>5 DEF finish
  <2>2. QED  BY <1>1, <1>2, <2>1 DEF Signals
<1>6. CASE Fork
  <2>1. /\ ~pending["parent"] /\ ~pending["child"] /\ UNCHANGED <<pending, sigints>>
        /\ run' = [run EXCEPT !["child"] = run["parent"]]
    BY <1>6 DEF Fork, Beginning, Starting
  <2>2. QED  BY <1>1, <1>2, <2>1 DEF Signals, Workers
<1>7. QED
  BY <1>3, <1>4, <1>5, <1>6
  DEF Next, vars, Deliver, Step, RaceMain, FcntlMain, SysvMain, Workers,
      PosixMain, FooThread, MutexThread, Body, While, Read0, Read1, Write1st, Write2nd,
      Wait, WaitInterrupted, Interrupt, Exit, lock_unlock, up_down, PosixSem, Mutex, Enter, Leave,
      Start, semget, semctl, sem_open, sigaction, StartFails

\* The lock, the semaphore and the mutex, taken and given back.
LEMMA UnitsKept == IInv /\ Beginning /\ EndInv /\ [Next]_vars => Units'
<1> SUFFICES ASSUME IInv, Beginning, EndInv, [Next]_vars PROVE Units'
  OBVIOUS
<1>1. /\ units \in {1} \cup Leftovers /\ sem >= Removed
      /\ eintr => program = "posix"
      /\ program # "posix" => units = 1
      /\ program \notin {"sysv", "posix"} => sem = 1
      /\ program = "posix" => AlmostConserved /\ (~eintr => Conserved)
      /\ sem \in Int /\ units \in Int /\ Removed \in Int
  BY DEF EndInv, Units, IInv, Types, Removed
<1>2. /\ run \in [Workers -> BOOLEAN] /\ eintr \in BOOLEAN
      /\ pc \in [Workers -> Places]
  BY DEF IInv, Types
<1>3. program' = program
  BY DEF Next, vars, CtrlC, KillParent, Deliver, finish, Step, RaceMain, FcntlMain, SysvMain,
      PosixMain, FooThread, MutexThread, Body, While, Read0, Read1, Write1st, Write2nd,
      Wait, WaitInterrupted, Interrupt, Exit, lock_unlock, up_down, PosixSem, Mutex, Enter, Leave,
      Start, semget, semctl, sem_open, sigaction, Fork, StartFails
<1>4. \A q \in Workers : /\ In(q) \in {0, 1} /\ In(q)' \in {0, 1}
                         /\ Leaving(q) \in {0, 1} /\ Leaving(q)' \in {0, 1}
  BY DEF In, Leaving
<1>5. "parent" \in Workers /\ "child" \in Workers
  BY DEF Workers
<1>6. CASE program \notin {"sysv", "posix"}
  <2>1. sem' = sem /\ eintr' = eintr /\ units' = units
    BY <1>6 DEF Next, vars, CtrlC, KillParent, Deliver, finish, Step, RaceMain, FcntlMain, SysvMain,
      PosixMain, FooThread, MutexThread, Body, While, Read0, Read1, Write1st, Write2nd,
      Wait, WaitInterrupted, Interrupt, Exit, lock_unlock, Mutex, Enter, Leave,
      Start, sigaction, Fork, StartFails
  <2>3. QED  BY <1>1, <1>3, <1>6, <2>1 DEF Units
<1>7. CASE program = "sysv"
  <2>1. eintr' = eintr /\ units' = units
    BY <1>7 DEF Next, vars, CtrlC, KillParent, Deliver, finish, Step, RaceMain, FcntlMain, SysvMain,
      PosixMain, FooThread, MutexThread, Body, While, Read0, Read1, Write1st, Write2nd,
      Wait, WaitInterrupted, Interrupt, Exit, up_down, Enter, Leave,
      Start, semget, semctl, sem_open, sigaction, Fork, StartFails
  <2>2. sem' = sem \/ (sem > 0 /\ sem' = sem - 1) \/ sem' = sem + 1 \/ sem' \in {Removed, 0, 1}
    BY <1>7 DEF Next, vars, CtrlC, KillParent, Deliver, finish, Step, RaceMain, FcntlMain, SysvMain,
      PosixMain, FooThread, MutexThread, Body, While, Read0, Read1, Write1st, Write2nd,
      Wait, WaitInterrupted, Interrupt, Exit, up_down, SysvCleanup, Enter, Leave,
      Start, semget, semctl, sem_open, sigaction, Fork, StartFails
  <2>3. QED  BY <1>1, <1>3, <1>7, <2>1, <2>2 DEF Units, Removed
<1>8. CASE program = "posix"
  <2>1. ASSUME units' \in {1} \cup Leftovers, sem' >= Removed,
               AlmostConserved', ~eintr' => Conserved'
        PROVE  Units'
    BY <1>3, <1>8, <2>1 DEF Units
  <2>2. AlmostConserved /\ (~eintr => Conserved)
    BY <1>1, <1>8
  <2>3. ASSUME NEW p \in Workers, units' = units, sem' >= Removed, sem' \in Int,
               sem' + In(p)' <= (sem + In(p)) + (Leaving(p)' - Leaving(p)),
               ~eintr' => ~eintr /\ sem' + In(p)' <= sem + In(p),
               \A q \in Workers : q # p => In(q)' = In(q) /\ Leaving(q)' >= Leaving(q)
        PROVE  Units'
    <3>1. CASE p = "parent"
      BY <1>1, <1>3, <1>4, <1>5, <1>8, <2>2, <2>3, <3>1
      DEF Units, Conserved, AlmostConserved
    <3>2. CASE p = "child"
      BY <1>1, <1>3, <1>4, <1>5, <1>8, <2>2, <2>3, <3>2
      DEF Units, Conserved, AlmostConserved
    <3>3. QED  BY <3>1, <3>2 DEF Workers
  <2>4. ASSUME UNCHANGED <<sem, units, eintr>>,
               \A q \in Workers : In(q)' = In(q) /\ Leaving(q)' >= Leaving(q)
        PROVE  Units'
    <3>1. /\ sem' + In("child")' <= (sem + In("child")) + (Leaving("child")' - Leaving("child"))
          /\ sem' + In("child")' <= sem + In("child")
      BY <1>1, <1>4, <1>5, <2>4
    <3>2. QED  BY <1>1, <1>5, <2>3, <2>4, <3>1
  <2>5. CASE UNCHANGED <<sem, units, eintr, pc, run>>
    <3>1. \A q \in Workers : In(q)' = In(q) /\ Leaving(q)' = Leaving(q)
      BY <2>5 DEF In, Leaving
    <3>2. \A q \in Workers : In(q)' = In(q) /\ Leaving(q)' >= Leaving(q)
      BY <1>4, <3>1
    <3>3. QED  BY <2>4, <2>5, <3>2
  <2>6. CASE CtrlC \/ KillParent
    <3>1. /\ UNCHANGED <<sem, units, eintr, run>>
          /\ \A q \in Workers : pc'[q] = pc[q] \/ (pc[q] \in Starting /\ pc'[q] = "killed")
      BY <1>2, <1>8, <2>6
      DEF CtrlC, KillParent, ThreadPrograms, Beginning, Workers, Starting, Alive
    <3>2. \A q \in Workers : In(q)' = In(q) /\ Leaving(q)' = Leaving(q)
      BY <3>1 DEF In, Leaving, Section, Starting, Unhandled
    <3>3. \A q \in Workers : In(q)' = In(q) /\ Leaving(q)' >= Leaving(q)
      BY <1>4, <3>2
    <3>4. QED  BY <2>4, <3>1, <3>3
  <2>7. CASE sigaction \/ Fork \/ StartFails
    <3>1. /\ UNCHANGED <<sem, units, eintr>> /\ run'["parent"] = run["parent"]
          /\ pc["parent"] \in Starting /\ pc["child"] = "unborn"
          /\ pc'["parent"] \in {"fork", "while", "exit1"} /\ pc'["child"] \in {"unborn", "while"}
      BY <1>2, <2>7 DEF sigaction, Fork, StartFails, Beginning, Goto, Starting, Unhandled, Workers
    <3>2. \A q \in Workers : In(q)' = 0 /\ In(q) = 0
      BY <3>1 DEF In, Section, Starting, Unhandled, Workers
    <3>3. Leaving("parent")' = Leaving("parent") /\ Leaving("child") = 0
      BY <3>1 DEF Leaving, Starting, Unhandled
    <3>4. \A q \in Workers : In(q)' = In(q) /\ Leaving(q)' >= Leaving(q)
      BY <1>4, <3>2, <3>3 DEF Workers
    <3>5. QED  BY <2>4, <3>1, <3>4
  <2>8. CASE sem_open
    <3>1. /\ units' \in {1} \cup Leftovers /\ sem' = units'
          /\ \A q \in Workers : pc'[q] \in {"sigaction", "unborn"}
      BY <1>2, <2>8 DEF sem_open, Beginning, Goto, Starting, Unhandled, Workers
    <3>2. In("parent")' = 0 /\ In("child")' = 0
      BY <3>1 DEF In, Section, Workers
    <3>3. sem' \in Nat
      BY <3>1, RaceAssumption
    <3>4. QED  BY <1>4, <1>5, <2>1, <3>1, <3>2, <3>3 DEF Conserved, AlmostConserved, Removed
  <2>9. ASSUME NEW p \in Workers, Deliver(p) PROVE Units'
    <3>1. /\ UNCHANGED <<sem, units, eintr, pc>> /\ ~run'[p]
          /\ \A q \in Workers : q # p => run'[q] = run[q]
      BY <1>2, <2>9 DEF Deliver, finish
    <3>2. \A q \in Workers : In(q)' = In(q) /\ Leaving(q)' >= Leaving(q)
      BY <1>4, <3>1 DEF In, Leaving
    <3>3. QED  BY <2>4, <3>1, <3>2
  <2>10. ASSUME NEW p \in Workers, PosixMain(p), ~(p = "parent" /\ (sem_open \/ Start))
         PROVE  Units'
    <3>1. /\ \A q \in Workers : q # p => pc'[q] = pc[q] /\ run'[q] = run[q]
          /\ sem' >= Removed /\ sem' \in Int /\ units' = units
      BY <1>1, <1>2, <2>10
      DEF PosixMain, Body, While, Read0, Read1, Write1st, Write2nd, Wait, WaitInterrupted,
          Interrupt, finish, Exit, PosixSem, Enter, Leave, Goto, Removed, Workers
    <3>2. \A q \in Workers : q # p => In(q)' = In(q) /\ Leaving(q)' >= Leaving(q)
      BY <1>4, <3>1 DEF In, Leaving
    <3>3. CASE Body(p) \/ Wait \/ WaitInterrupted("abort") \/ (Exit(p) /\ UNCHANGED sem)
      <4>1. /\ sem' = sem /\ eintr' = eintr
        BY <2>10, <3>3
        DEF Body, While, Read0, Read1, Write1st, Write2nd, Wait, WaitInterrupted, Exit
      <4>2. In(p)' = In(p) /\ Leaving(p)' >= Leaving(p)
        BY <1>2, <1>8, <2>10, <3>1, <3>3
        DEF In, Leaving, Body, While, Read0, Read1, Write1st, Write2nd, Wait, WaitInterrupted,
          Interrupt, finish, Exit, Goto, Section, Final, Unsynchronized, Workers
      <4>3. \A q \in Workers : In(q)' = In(q) /\ Leaving(q)' >= Leaving(q)
        BY <3>2, <4>2
      <4>4. QED  BY <2>4, <3>1, <4>1, <4>3
    <3>4. CASE PosixSem(p)
      <4>1. /\ sem' + In(p)' <= (sem + In(p)) + (Leaving(p)' - Leaving(p))
            /\ ~eintr' => ~eintr /\ sem' + In(p)' <= sem + In(p)
        BY <1>1, <1>2, <3>4
        DEF In, Leaving, PosixSem, Enter, Leave, Interrupt, finish, Goto, Section, Workers
      <4>2. QED  BY <2>3, <3>1, <3>2, <4>1
    <3>5. QED  BY <2>10, <3>3, <3>4 DEF PosixMain
  <2>11. QED
    BY <1>8, <2>5, <2>6, <2>7, <2>8, <2>9, <2>10
    DEF Next, Step, Start, RaceMain, FcntlMain, SysvMain, PosixMain, FooThread, MutexThread,
        vars
<1>9. QED  BY <1>6, <1>7, <1>8

\* What a step of the parent, or of the child, does to where the parent is.
LEMMA ReapingKept == IInv /\ Beginning /\ EndInv /\ [Next]_vars => Reaping'
<1> SUFFICES ASSUME IInv, Beginning, EndInv, [Next]_vars PROVE Reaping'
  OBVIOUS
<1>1. /\ pc["parent"] \in {"wait", "cleanup", "exit0"} => ~run["parent"]
      /\ pc["parent"] \in {"cleanup", "exit0"} /\ sigints < 2 => Dead("child")
      /\ pc["parent"] = "abort" => sigints >= 2
      /\ program = "sysv" /\ Dead("parent") => sem = Removed \/ pc["child"] = "unborn"
      /\ sigints \in Nat
      /\ pending["parent"] /\ ~run["parent"] => sigints >= 2
  BY RaceAssumption DEF EndInv, Reaping, Signals, Workers
<1>2. /\ run \in [Workers -> BOOLEAN] /\ sem \in Int
      /\ pc \in [Workers -> Places]
  BY DEF IInv, Types, Places
<1>3. program' = program
  BY DEF Next, vars, CtrlC, KillParent, Deliver, finish, Step, RaceMain, FcntlMain, SysvMain,
      PosixMain, FooThread, MutexThread, Body, While, Read0, Read1, Write1st, Write2nd,
      Wait, WaitInterrupted, Interrupt, Exit, lock_unlock, up_down, PosixSem, Mutex, Enter, Leave,
      Start, semget, semctl, sem_open, sigaction, Fork, StartFails
<1>4. CASE CtrlC \/ KillParent
  <2>1. sigints' = sigints + 1 /\ sem' = sem /\ run' = run
    BY <1>4 DEF CtrlC, KillParent
  <2>2. CASE program \in ThreadPrograms
    BY <1>1, <1>3, <1>4, <2>1, <2>2
    DEF Reaping, CtrlC, KillParent, ThreadPrograms, Workers, Dead, Final, Alive
  <2>3. CASE program \notin ThreadPrograms /\ pc' = pc
    BY <1>1, <1>3, <2>1, <2>3 DEF Reaping, Dead
  <2>4. CASE CtrlC /\ pc["parent"] \in Unhandled
    BY <1>1, <1>2, <1>3, <2>1, <2>4
    DEF Reaping, CtrlC, Beginning, Starting, Unhandled, Workers, Dead, Final, Alive
  <2>5. QED  BY <1>4, <2>2, <2>3, <2>4 DEF CtrlC, KillParent
<1>5. CASE UNCHANGED vars
  BY <1>1, <1>5 DEF vars, Reaping, Dead
<1>6. ASSUME NEW p \in Workers, Deliver(p) PROVE Reaping'
  BY <1>1, <1>2, <1>3, <1>6 DEF Deliver, finish, Reaping, Dead, Workers
<1>7. CASE Start \/ semget \/ semctl \/ sem_open
  <2>1. /\ sigints' = sigints
        /\ pc["child"] = "unborn"
        /\ pc'["parent"] \notin {"wait", "cleanup", "exit0", "abort"}
        /\ Dead("parent")' => pc'["child"] = "unborn"
    BY <1>2, <1>7
    DEF Beginning, Start, semget, semctl, sem_open, sigaction, Fork, StartFails, Goto,
        Starting, Unhandled, Workers, Dead, Final
  <2>2. QED  BY <2>1 DEF Reaping
<1>8. ASSUME NEW p \in Workers, Step(p), ~(Start \/ semget \/ semctl \/ sem_open)
      PROVE  Reaping'
  <2>1. sigints' = sigints /\ Alive(p)
    BY <1>8 DEF Step, RaceMain, FcntlMain, SysvMain, Alive, Final,
      PosixMain, FooThread, MutexThread, Body, While, Read0, Read1, Write1st, Write2nd,
      Wait, WaitInterrupted, Interrupt, finish, Exit, lock_unlock, up_down, PosixSem, Mutex,
      Enter, Leave
  <2>2. \A q \in Workers : q # p => pc'[q] = pc[q] /\ run'[q] = run[q]
    BY <1>2, <1>8 DEF Step, RaceMain, FcntlMain, SysvMain, Goto,
      PosixMain, FooThread, MutexThread, Body, While, Read0, Read1, Write1st, Write2nd,
      Wait, WaitInterrupted, Interrupt, finish, Exit, lock_unlock, up_down, PosixSem, Mutex,
      Enter, Leave
  <2>3. program = "sysv" /\ sem = Removed => sem' = Removed
    BY <1>8 DEF Step, RaceMain, FcntlMain, SysvMain, SysvCleanup, Removed,
      PosixMain, FooThread, MutexThread, Body, While, Read0, Read1, Write1st, Write2nd,
      Wait, WaitInterrupted, Exit, up_down, Leave
  <2>4. CASE p = "child"
    <3>1. pc'["parent"] = pc["parent"] /\ run'["parent"] = run["parent"]
          /\ ~Dead("child") /\ pc["child"] # "unborn"
      BY <2>1, <2>2, <2>4 DEF Workers, Alive, Dead
    <3>2. QED  BY <1>1, <1>3, <2>1, <2>3, <3>1 DEF Reaping, Dead
  <2>5. CASE p = "parent"
    <3>1. pc'["child"] = pc["child"]
      BY <2>2, <2>5 DEF Workers
    <3>2. CASE Body(p)
      <4>1. run' = run /\ pc'[p] \notin {"cleanup"} \cup Final /\ (pc'[p] = "wait" => ~run[p])
        BY <1>2, <2>5, <3>2
        DEF Body, While, Read0, Read1, Write1st, Write2nd, Goto, Final, Unsynchronized, Workers
      <4>2. QED  BY <2>5, <4>1 DEF Reaping, Dead, Final
    <3>3. CASE Wait
      <4>1. run' = run /\ pc'[p] = "cleanup" /\ pc[p] = "wait" /\ Dead("child")
        BY <1>2, <2>5, <3>3 DEF Wait, Goto, Workers
      <4>2. QED  BY <1>1, <2>5, <3>1, <4>1 DEF Reaping, Dead, Final
    <3>4. ASSUME NEW l \in {"cleanup", "abort"}, WaitInterrupted(l),
                 program = "sysv" => l = "cleanup"
          PROVE  Reaping'
      <4>1. /\ pc[p] = "wait" /\ pc'[p] = l /\ pending[p] /\ ~run'[p]
        BY <1>2, <2>5, <3>4 DEF WaitInterrupted, Interrupt, finish, Goto, Workers
      <4>2. sigints' >= 2 /\ sigints' \in Nat
        BY <1>1, <2>1, <2>5, <4>1
      <4>3. QED  BY <1>3, <2>5, <3>4, <4>1, <4>2 DEF Reaping, Dead, Final
    <3>5. CASE Exit(p)
      <4>1. /\ pc[p] = "cleanup" /\ pc'[p] = "exit0" /\ run' = run
            /\ program = "sysv" => sem' = Removed
        BY <1>2, <1>8, <2>5, <3>5
        DEF Exit, Goto, Workers, Step, RaceMain, FcntlMain, SysvMain, PosixMain, FooThread,
            MutexThread, SysvCleanup, Body, While, Read0, Read1, Write1st, Write2nd, Wait,
            WaitInterrupted, Interrupt, up_down, Enter, Leave
      <4>2. QED  BY <1>1, <1>3, <2>1, <2>5, <3>1, <4>1 DEF Reaping, Dead, Final
    <3>6. ASSUME \/ program = "fcntl" /\ lock_unlock(p)
                 \/ program = "posix" /\ PosixSem(p)
                 \/ program = "mutex" /\ Mutex(p)
                 \/ program = "sysv" /\ up_down(p)
          PROVE  Reaping'
      <4>1. /\ pc'[p] \in {"read0", "while", "exit1"}
            /\ program = "sysv" /\ pc'[p] = "exit1" => sem' = Removed
        BY <1>2, <2>5, <3>6
        DEF lock_unlock, PosixSem, Mutex, up_down, Enter, Leave, Goto, SysvCleanup, Workers
      <4>2. QED  BY <1>3, <2>5, <4>1 DEF Reaping, Dead, Final
    <3>7. WaitInterrupted("cleanup") \/ (program = "posix" /\ WaitInterrupted("abort")) => Reaping'
      BY <3>4
    <3>8. QED
      BY <1>8, <3>2, <3>3, <3>5, <3>6, <3>7
      DEF Step, RaceMain, FcntlMain, SysvMain, PosixMain, FooThread, MutexThread
  <2>6. QED  BY <2>4, <2>5 DEF Workers
<1>9. QED  BY <1>4, <1>5, <1>6, <1>7, <1>8 DEF Next

LEMMA RaceInvariance == SafeSpec => [](IInv /\ EndInv)
<1>1. IInv /\ Beginning /\ EndInv /\ [Next]_vars => EndInv'
  BY ValuesKept, UnitsKept, SignalsKept, ReapingKept DEF EndInv
<1>2. QED  BY RaceInit, RaceNext, BeginningNext, EndInit, <1>1, PTL DEF SafeSpec

\* The cells, the flags and the places of the workers have their types, and the POSIX
\* semaphore, posted once per interrupted sem_wait() too often, never gets more than two
\* above what sem_open() found or created.
THEOREM RaceTypeCorrect == SafeSpec => []TypeOK
<1>1. IInv /\ EndInv => TypeOK
  <2> SUFFICES ASSUME IInv, EndInv PROVE TypeOK
    OBVIOUS
  <2>1. sem \in Removed .. units + (IF eintr THEN 2 ELSE 0)
    <3>1. sem \in Int /\ units \in Int /\ sem >= Removed
      BY DEF IInv, Types, EndInv, Units
    <3>2. /\ In("parent") \in {0, 1} /\ In("child") \in {0, 1}
          /\ Leaving("parent") \in {0, 1} /\ Leaving("child") \in {0, 1}
      BY DEF In, Leaving
    <3>3. CASE program = "posix"
      BY <3>1, <3>2, <3>3 DEF EndInv, Units, Conserved, AlmostConserved, Removed
    <3>4. CASE program = "sysv"
      <4>1. ~eintr /\ units = 1
        BY <3>4 DEF EndInv, Units
      <4>2. sem <= 1
        BY <3>4, <4>1 DEF IInv, Exclusion, Safe, Unsynchronized
      <4>3. QED  BY <3>1, <4>1, <4>2 DEF Removed
    <3>5. CASE program \notin {"sysv", "posix"}
      BY <3>1, <3>5 DEF EndInv, Units, Removed
    <3>6. QED  BY <3>3, <3>4, <3>5
  <2>2. QED  BY <2>1 DEF IInv, Types, Places, EndInv, Values, Units, Signals, TypeOK
<1>2. QED  BY <1>1, RaceInvariance, PTL

\* In all the programs a parent that ends regularly has reaped its child, and
\* posix-sem-fixed-race.c's assert() holds, unless SIGINT came twice.
THEOREM OneSignalReaps == SafeSpec => []ParentReapsChild
<1>1. EndInv => ParentReapsChild
  BY DEF EndInv, Reaping, ParentReapsChild
<1>2. QED  BY <1>1, RaceInvariance, PTL

\* On whichever of its ways out, sem-fixed-race.c leaves no System V semaphore behind
\* once there was a child; before, when it is killed or fails, it may.
THEOREM SemaphoreRemoved == SafeSpec => []NoLeakedSemaphore
<1>1. EndInv => NoLeakedSemaphore
  BY DEF EndInv, Reaping, NoLeakedSemaphore, AllEnded
<1>2. QED  BY <1>1, RaceInvariance, PTL
=============================================================================
