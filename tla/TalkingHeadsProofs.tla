------------------------- MODULE TalkingHeadsProofs -------------------------
(***************************************************************************)
(* For any number of children, any initial value and any number of         *)
(* signals: units of the semaphore are conserved.                          *)
(***************************************************************************)
EXTENDS TalkingHeads, FiniteSetTheorems, TLAPS

Places == {"unborn", "while", "wait", "talk", "dead"}

Types == /\ nproc \in Nat /\ sem \in Int /\ sem0 \in Int /\ eintrs \in Int
         /\ i \in Nat
         /\ child \in [Children -> Places]

\* fork() gives birth to a child that was not there, let alone talking.
Unborn == parent = "fork" => /\ i >= 1
                             /\ \A c \in Children : c >= i => child[c] = "unborn"

IInv == Types /\ Unborn /\ UnitsAreConserved

\* The set of talking children is finite.
LEMMA TalkingFinite == ASSUME Types PROVE IsFiniteSet(Talking)
<1>1. IsFiniteSet(Children)
  BY FS_Interval DEF Types, Children
<1>2. QED  BY <1>1, FS_Subset DEF Talking

\* A child that starts to talk makes one talker more.
LEMMA Starts ==
    ASSUME Types, NEW c \in Children, child[c] # "talk",
           Goto(c, "talk"), UNCHANGED nproc
    PROVE  Cardinality(Talking') = Cardinality(Talking) + 1
<1>1. Talking' = Talking \cup {c} /\ c \notin Talking
  BY DEF Types, Talking, Children, Goto
<1>2. QED  BY <1>1, TalkingFinite, FS_AddElement

\* A child that stops talking makes one talker less.
LEMMA Stops ==
    ASSUME Types, NEW c \in Children, child[c] = "talk",
           Goto(c, "while"), UNCHANGED nproc
    PROVE  Cardinality(Talking') = Cardinality(Talking) - 1
<1>1. Talking' = Talking \ {c} /\ c \in Talking
  BY DEF Types, Talking, Children, Goto
<1>2. QED  BY <1>1, TalkingFinite, FS_RemoveElement

\* The number of talkers is a natural number.
LEMMA TalkingCount == ASSUME Types PROVE Cardinality(Talking) \in Nat
  BY TalkingFinite, FS_CardinalityType

\* The inductive invariant holds initially.
LEMMA HeadsInit == Init => IInv
<1> SUFFICES ASSUME Init PROVE IInv
  OBVIOUS
<1>1. Types /\ Unborn
  BY HeadsAssumption DEF Init, Types, Unborn, Children, Places
<1>2. Talking = {}
  BY DEF Init, Talking, Children
<1>3. QED  BY <1>1, <1>2, FS_EmptySet DEF Init, IInv, Types, UnitsAreConserved

\* Every step of the parent, a child or the terminal preserves it.
LEMMA HeadsNext == IInv /\ [Next]_vars => IInv'
<1> SUFFICES ASSUME IInv, [Next]_vars PROVE IInv'
  OBVIOUS
<1> USE DEF const
<1>1. CASE /\ UNCHANGED <<const, sem, child, eintrs>>
           /\ i' \in Nat
           /\ UNCHANGED <<i, parent>> \/ parent' # "fork"
  <2>1. Types' /\ Unborn'
    BY <1>1 DEF IInv, Types, Unborn, Children
  <2>2. Talking' = Talking
    BY <1>1 DEF Talking, Children
  <2>3. QED  BY <1>1, <2>1, <2>2 DEF IInv, UnitsAreConserved
<1>2. CASE Fork
  <2>1. child[i] = "unborn" /\ i \in Children
    BY <1>2 DEF IInv, Types, Unborn, Fork, Children
  <2>2. Types' /\ Unborn'
    BY <1>2, <2>1 DEF IInv, Types, Unborn, Fork, Goto, Children, Places
  <2>3. Talking' = Talking
    BY <1>2, <2>1 DEF IInv, Types, Fork, Goto, Talking, Children
  <2>4. QED  BY <1>2, <2>2, <2>3 DEF IInv, UnitsAreConserved, Fork
<1>3. ASSUME NEW c \in Children, While(c) PROVE IInv'
  <2>1. Types' /\ Unborn'
    BY <1>3 DEF IInv, Types, Unborn, While, Goto, Children, Places
  <2>2. Talking' = Talking
    BY <1>3 DEF IInv, Types, While, Goto, Talking, Children
  <2>3. QED  BY <1>3, <2>1, <2>2 DEF IInv, UnitsAreConserved, While
<1>4. ASSUME NEW c \in Children, SemWait(c) PROVE IInv'
  <2>1. Types' /\ Unborn'
    BY <1>4 DEF IInv, Types, Unborn, SemWait, Goto, Children, Places
  <2>2. Cardinality(Talking') = Cardinality(Talking) + 1
    BY <1>4, Starts DEF IInv, SemWait
  <2>3. QED
    BY <1>4, <2>1, <2>2, TalkingCount DEF IInv, Types, UnitsAreConserved, SemWait
<1>5. ASSUME NEW c \in Children, SemPost(c) PROVE IInv'
  <2>1. Types' /\ Unborn'
    BY <1>5 DEF IInv, Types, Unborn, SemPost, Goto, Children, Places
  <2>2. Cardinality(Talking') = Cardinality(Talking) - 1
    BY <1>5, Stops DEF IInv, SemPost
  <2>3. QED
    BY <1>5, <2>1, <2>2, TalkingCount DEF IInv, Types, UnitsAreConserved, SemPost
<1>6. ASSUME NEW c \in Children, SemWaitInterrupted(c) PROVE IInv'
  <2>1. Types' /\ Unborn'
    BY <1>6 DEF IInv, Types, Unborn, SemWaitInterrupted, Finish, Goto, Children, Places
  <2>2. Cardinality(Talking') = Cardinality(Talking) + 1
    BY <1>6, Starts DEF IInv, SemWaitInterrupted
  <2>3. QED
    BY <1>6, <2>1, <2>2, TalkingCount
    DEF IInv, Types, UnitsAreConserved, SemWaitInterrupted
<1>7. CASE ForkFails \/ StartWaiting \/ Wait \/ ParentCleanup \/ CtrlC
           \/ WaitInterrupted \/ (\E p \in 0 .. nproc : Deliver(p)) \/ UNCHANGED vars
  <2>1. UNCHANGED <<const, sem, child, eintrs>>
    BY <1>7 DEF ForkFails, StartWaiting, Wait, ParentCleanup, CtrlC, WaitInterrupted,
                Deliver, vars
  <2>2. i' \in Nat /\ (UNCHANGED <<i, parent>> \/ parent' # "fork")
    BY <1>7 DEF IInv, Types, ForkFails, StartWaiting, Wait, ParentCleanup, CtrlC,
                WaitInterrupted, Deliver, vars
  <2>3. QED  BY <1>1, <2>1, <2>2
<1>8. QED
  BY <1>2, <1>3, <1>4, <1>5, <1>6, <1>7 DEF Next, ParentStep, ChildStep

\* Whoever talks has a unit of the semaphore, but for one talker per
\* interrupted sem_wait(): no interleaving of children, forks and signals
\* loses a unit or makes one up.
THEOREM HeadsConserveUnits == SafeSpec => []UnitsAreConserved
<1>1. IInv => UnitsAreConserved
  BY DEF IInv
<1>2. QED  BY HeadsInit, HeadsNext, <1>1, PTL DEF SafeSpec
-----------------------------------------------------------------------------
(* How often a call is interrupted, and whom the parent misses.            *)

\* Children that were told to stop and will not call sem_wait() again.
Past == {c \in Children : ~run[c] /\ child[c] \notin {"unborn", "wait"}}

Flags == /\ nproc \in NProcs /\ sinit \in Inits /\ sem0 \in Inits \cup Leftovers
         /\ sem >= 0
         /\ parent \in {"fork", "wait", "exit0", "exit1"}
         /\ run \in [0 .. nproc -> BOOLEAN]
         /\ pending \in [0 .. nproc -> BOOLEAN]

\* No child is interrupted twice in sem_wait(), since it is past it afterwards; every
\* interrupted wait() used up a signal of the parent's.
Interruptions == /\ eintrs \in Nat /\ eintrs <= Cardinality(Past)
                 /\ ctrlc \in 0 .. MaxCtrlC /\ missed \in Nat
                 /\ missed + (IF pending[0] THEN 1 ELSE 0) <= ctrlc

\* The parent counts a child for every child it reaped and every call it missed.
Counting == /\ i <= nproc + 1
            /\ reaped \subseteq {c \in Children : child[c] = "dead"}
            /\ parent = "fork" => reaped = {} /\ missed = 0
            /\ parent \in {"wait", "exit0"} => i <= nproc /\ i = Cardinality(reaped) + missed
            /\ parent = "exit0" => i = nproc

EndInv == Flags /\ Interruptions /\ Counting

LEMMA EndInit == Init => EndInv
<1> SUFFICES ASSUME Init PROVE EndInv
  OBVIOUS
<1>1. nproc \in Nat /\ sem0 \in Nat /\ MaxCtrlC \in Nat
  BY HeadsAssumption DEF Init
<1>2. run \in [0 .. nproc -> BOOLEAN] /\ pending \in [0 .. nproc -> BOOLEAN] /\ ~pending[0]
  BY <1>1 DEF Init
<1>3. Flags
  BY <1>1, <1>2 DEF Init, Flags
<1>4. Interruptions
  <2>1. Past = {}
    BY DEF Init, Past, Children
  <2>2. Cardinality(Past) = 0
    BY <2>1, FS_EmptySet
  <2>3. eintrs = 0 /\ ctrlc = 0 /\ missed = 0
    BY DEF Init
  <2>4. QED  BY <1>1, <1>2, <2>2, <2>3 DEF Interruptions
<1>5. Counting
  BY <1>1 DEF Init, Counting
<1>6. QED  BY <1>3, <1>4, <1>5 DEF EndInv

\* The kinds of steps, one by one.
LEMMA HeadsSteps ==
    [Next]_vars => \/ Fork \/ ForkFails \/ StartWaiting \/ Wait \/ ParentCleanup \/ CtrlC
                   \/ WaitInterrupted
                   \/ \E c \in Children : \/ While(c) \/ SemPost(c) \/ SemWait(c)
                                          \/ SemWaitInterrupted(c)
                   \/ \E p \in 0 .. nproc : Deliver(p)
                   \/ UNCHANGED vars
  BY DEF Next, ParentStep, ChildStep

LEMMA SizeKept == [Next]_vars => nproc' = nproc /\ sinit' = sinit /\ sem0' = sem0
  BY HeadsSteps
  DEF Fork, ForkFails, StartWaiting, Wait, ParentCleanup, CtrlC, WaitInterrupted, While,
      SemPost, SemWait, SemWaitInterrupted, Deliver, vars, const

LEMMA FlagsKept == IInv /\ EndInv /\ [Next]_vars => Flags'
<1> SUFFICES ASSUME IInv, EndInv, [Next]_vars PROVE Flags'
  OBVIOUS
<1>1. /\ nproc \in Nat /\ sem \in Int /\ sem >= 0
      /\ run \in [0 .. nproc -> BOOLEAN] /\ pending \in [0 .. nproc -> BOOLEAN]
      /\ parent \in {"fork", "wait", "exit0", "exit1"}
  BY DEF IInv, Types, EndInv, Flags
<1>2. sem' >= 0
  BY <1>1, HeadsSteps
  DEF Fork, ForkFails, StartWaiting, Wait, ParentCleanup, CtrlC, WaitInterrupted, While,
      SemPost, SemWait, SemWaitInterrupted, Deliver, vars
<1>3. parent' \in {"fork", "wait", "exit0", "exit1"}
  BY <1>1, HeadsSteps
  DEF Fork, ForkFails, StartWaiting, Wait, ParentCleanup, CtrlC, WaitInterrupted, While,
      SemPost, SemWait, SemWaitInterrupted, Deliver, vars
<1>4. run' \in [0 .. nproc -> BOOLEAN] /\ pending' \in [0 .. nproc -> BOOLEAN]
  <2>1. ASSUME NEW p \in 0 .. nproc, Finish(p)
        PROVE  run' \in [0 .. nproc -> BOOLEAN] /\ pending' \in [0 .. nproc -> BOOLEAN]
    BY <1>1, <2>1 DEF Finish
  <2>2. ASSUME NEW c \in Children, While(c)
        PROVE  run' \in [0 .. nproc -> BOOLEAN] /\ pending' \in [0 .. nproc -> BOOLEAN]
    <3>1. run' = run /\ pending' = [pending EXCEPT ![c] = pending[c] /\ run[c]]
      BY <2>2 DEF While
    <3>2. (pending[c] /\ run[c]) \in BOOLEAN
      OBVIOUS
    <3>3. QED  BY <1>1, <3>1, <3>2
  <2>3. CASE CtrlC
    <3> DEFINE Told(p) == IF p = 0 THEN parent \in {"fork", "wait"} ELSE p \in Alive
    <3>1. ASSUME NEW p \in 0 .. nproc PROVE Told(p) \in BOOLEAN
      <4>1. CASE p = 0
        BY <4>1
      <4>2. CASE p # 0
        BY <4>2
      <4>3. QED  BY <4>1, <4>2
    <3>2. run' = run /\ pending' = [p \in 0 .. nproc |-> Told(p)]
      BY <2>3 DEF CtrlC
    <3> HIDE DEF Told
    <3>3. QED  BY <1>1, <3>1, <3>2
  <2>4. CASE Fork
    <3>1. 0 \in 0 .. nproc
      BY <1>1
    <3>2. run' = [run EXCEPT ![i] = run[0]] /\ pending' = pending /\ run[0] \in BOOLEAN
      BY <1>1, <2>4, <3>1 DEF Fork
    <3>3. QED  BY <1>1, <3>2
  <2>5. CASE UNCHANGED <<run, pending>>
    BY <1>1, <2>5
  <2>6. 0 \in 0 .. nproc /\ Children \subseteq 0 .. nproc
    BY <1>1 DEF Children
  <2>7. QED
    BY <2>1, <2>2, <2>3, <2>4, <2>5, <2>6, HeadsSteps
    DEF ForkFails, StartWaiting, Wait, ParentCleanup, WaitInterrupted,
        SemPost, SemWait, SemWaitInterrupted, Deliver, vars
<1>5. QED  BY <1>2, <1>3, <1>4, SizeKept DEF EndInv, Flags

LEMMA PastFinite ==
    ASSUME nproc \in Nat
    PROVE  IsFiniteSet(Past) /\ Cardinality(Past) \in 0 .. nproc
<1>1. IsFiniteSet(Children) /\ Cardinality(Children) = nproc
  BY FS_Interval DEF Children
<1>2. QED  BY <1>1, FS_Subset, FS_CardinalityType DEF Past

LEMMA PastFiniteNext ==
    ASSUME nproc' \in Nat
    PROVE  IsFiniteSet(Past') /\ Cardinality(Past') \in 0 .. nproc'
<1>1. IsFiniteSet(Children') /\ Cardinality(Children') = nproc'
  BY FS_Interval DEF Children
<1>2. QED  BY <1>1, FS_Subset, FS_CardinalityType DEF Past

LEMMA InterruptionsKept == IInv /\ EndInv /\ [Next]_vars => Interruptions'
<1> SUFFICES ASSUME IInv, EndInv, [Next]_vars PROVE Interruptions'
  OBVIOUS
<1>1. /\ nproc \in Nat /\ nproc' = nproc /\ child \in [Children -> Places]
      /\ run \in [0 .. nproc -> BOOLEAN] /\ pending \in [0 .. nproc -> BOOLEAN]
      /\ i \in Nat /\ Children' = Children /\ Children \subseteq 0 .. nproc
  BY SizeKept DEF IInv, Types, EndInv, Flags, Children
<1>2. /\ eintrs \in Nat /\ eintrs <= Cardinality(Past)
      /\ ctrlc \in 0 .. MaxCtrlC /\ missed \in Nat /\ MaxCtrlC \in Nat
      /\ missed + (IF pending[0] THEN 1 ELSE 0) <= ctrlc
  BY HeadsAssumption DEF EndInv, Interruptions
<1>3. /\ IsFiniteSet(Past) /\ Cardinality(Past) \in Nat
      /\ IsFiniteSet(Past') /\ Cardinality(Past') \in Nat
  BY <1>1, PastFinite, PastFiniteNext
<1>4. eintrs' \in Nat /\ eintrs' <= Cardinality(Past')
  <2>1. ASSUME Past \subseteq Past', eintrs' = eintrs
        PROVE  eintrs' \in Nat /\ eintrs' <= Cardinality(Past')
    <3>1. Cardinality(Past) <= Cardinality(Past')
      BY <1>3, <2>1, FS_Subset
    <3>2. QED  BY <1>2, <1>3, <2>1, <3>1
  <2>2. CASE UNCHANGED <<child, run, eintrs>>
    BY <1>1, <2>1, <2>2 DEF Past
  <2>3. CASE Fork
    <3>1. child[i] = "unborn" /\ i \in Children
      BY <1>1, <2>3 DEF IInv, Unborn, Fork, Children
    <3>2. Past \subseteq Past' /\ eintrs' = eintrs
      BY <1>1, <2>3, <3>1 DEF Fork, Goto, Past
    <3>3. QED  BY <2>1, <3>2
  <2>4. ASSUME NEW c \in Children, While(c) \/ SemPost(c) \/ SemWait(c)
        PROVE  eintrs' \in Nat /\ eintrs' <= Cardinality(Past')
    <3>1. Past \subseteq Past' /\ eintrs' = eintrs
      BY <1>1, <2>4 DEF While, SemPost, SemWait, Goto, Past
    <3>2. QED  BY <2>1, <3>1
  <2>5. ASSUME NEW p \in 0 .. nproc, Deliver(p)
        PROVE  eintrs' \in Nat /\ eintrs' <= Cardinality(Past')
    <3>1. Past \subseteq Past' /\ eintrs' = eintrs
      BY <1>1, <2>5 DEF Deliver, Finish, Past
    <3>2. QED  BY <2>1, <3>1
  <2>6. CASE WaitInterrupted
    <3>1. Past \subseteq Past' /\ eintrs' = eintrs
      BY <1>1, <2>6 DEF WaitInterrupted, Finish, Past, Children
    <3>2. QED  BY <2>1, <3>1
  <2>7. ASSUME NEW c \in Children, SemWaitInterrupted(c)
        PROVE  eintrs' \in Nat /\ eintrs' <= Cardinality(Past')
    <3>1. c \notin Past /\ Past \cup {c} \subseteq Past' /\ eintrs' = eintrs + 1
      BY <1>1, <2>7 DEF SemWaitInterrupted, Finish, Goto, Past
    <3>2. Cardinality(Past \cup {c}) = Cardinality(Past) + 1
      BY <1>3, <3>1, FS_AddElement
    <3>3. Cardinality(Past \cup {c}) <= Cardinality(Past')
      BY <1>3, <3>1, FS_Subset
    <3>4. QED  BY <1>2, <1>3, <3>1, <3>2, <3>3
  <2>8. QED
    BY <2>2, <2>3, <2>4, <2>5, <2>6, <2>7, HeadsSteps
    DEF ForkFails, StartWaiting, Wait, ParentCleanup, CtrlC, vars
<1>5. /\ ctrlc' \in 0 .. MaxCtrlC /\ missed' \in Nat
      /\ missed' + (IF pending'[0] THEN 1 ELSE 0) <= ctrlc'
  <2>1. CASE CtrlC
    <3>1. ctrlc < MaxCtrlC /\ ctrlc' = ctrlc + 1 /\ missed' = missed
      BY <2>1 DEF CtrlC
    <3>2. QED  BY <1>2, <3>1
  <2>2. CASE WaitInterrupted
    <3>1. pending[0] /\ ~pending'[0] /\ missed' = missed + 1 /\ ctrlc' = ctrlc
      BY <1>1, <2>2 DEF WaitInterrupted, Finish
    <3>2. QED  BY <1>2, <3>1
  <2>3. CASE ~CtrlC /\ ~WaitInterrupted
    <3>1. ctrlc' = ctrlc /\ missed' = missed
      BY <2>3, HeadsSteps
      DEF Fork, ForkFails, StartWaiting, Wait, ParentCleanup, While,
          SemPost, SemWait, SemWaitInterrupted, Deliver, vars
    <3>2. pending'[0] => pending[0]
      <4>1. ASSUME NEW p \in 0 .. nproc, Finish(p) PROVE pending'[0] => pending[0]
        BY <1>1, <4>1 DEF Finish
      <4>2. ASSUME NEW c \in Children, While(c) PROVE pending'[0] => pending[0]
        BY <1>1, <4>2 DEF While, Children
      <4>3. QED
        BY <1>1, <2>3, <4>1, <4>2, HeadsSteps
        DEF Fork, ForkFails, StartWaiting, Wait, ParentCleanup,
            SemPost, SemWait, SemWaitInterrupted, Deliver, vars
    <3>3. QED  BY <1>2, <3>1, <3>2
  <2>4. QED  BY <2>1, <2>2, <2>3
<1>6. QED  BY <1>4, <1>5 DEF Interruptions

LEMMA CountingKept == IInv /\ EndInv /\ [Next]_vars => Counting'
<1> SUFFICES ASSUME IInv, EndInv, [Next]_vars PROVE Counting'
  OBVIOUS
<1>1. /\ nproc \in Nat /\ nproc' = nproc /\ child \in [Children -> Places]
      /\ i \in Nat /\ Children' = Children /\ missed \in Nat
  BY SizeKept DEF IInv, Types, EndInv, Interruptions, Children
<1>2. /\ i <= nproc + 1
      /\ reaped \subseteq {c \in Children : child[c] = "dead"}
      /\ parent = "fork" => reaped = {} /\ missed = 0
      /\ parent \in {"wait", "exit0"} => i <= nproc /\ i = Cardinality(reaped) + missed
      /\ parent = "exit0" => i = nproc
  BY DEF EndInv, Counting
<1>3. IsFiniteSet(reaped) /\ Cardinality(reaped) \in Nat
  <2>1. IsFiniteSet(Children) /\ reaped \subseteq Children
    BY <1>1, <1>2, FS_Interval DEF Children
  <2>2. QED  BY <2>1, FS_Subset, FS_CardinalityType
<1>4. CASE Fork
  <2>1. child[i] = "unborn" /\ i \in Children
    BY <1>1, <1>4 DEF IInv, Unborn, Fork, Children
  <2>2. /\ i' = i + 1 /\ i <= nproc /\ reaped' = reaped /\ parent' = "fork" /\ missed' = missed
        /\ parent = "fork"
    BY <1>4 DEF Fork
  <2>3. QED  BY <1>1, <1>2, <2>2 DEF Counting
<1>5. ASSUME UNCHANGED <<i, parent, reaped, missed>>,
             \A c \in Children : child[c] = "dead" => child'[c] = "dead"
      PROVE  Counting'
  BY <1>1, <1>2, <1>5 DEF Counting
<1>6. ASSUME NEW c \in Children,
             While(c) \/ SemPost(c) \/ SemWait(c) \/ SemWaitInterrupted(c)
      PROVE  Counting'
  <2>1. \A d \in Children : child[d] = "dead" => child'[d] = "dead"
    BY <1>1, <1>6 DEF While, SemPost, SemWait, SemWaitInterrupted, Goto
  <2>2. QED  BY <1>5, <1>6, <2>1 DEF While, SemPost, SemWait, SemWaitInterrupted
<1>7. CASE ForkFails
  BY <1>1, <1>2, <1>7 DEF ForkFails, Counting
<1>8. CASE StartWaiting
  <2>1. i' = 0 /\ parent' = "wait" /\ reaped' = {} /\ missed' = 0 /\ child' = child
    BY <1>2, <1>8 DEF StartWaiting
  <2>2. Cardinality(reaped') = 0
    BY <2>1, FS_EmptySet
  <2>3. QED  BY <1>1, <2>1, <2>2 DEF Counting
<1>9. CASE Wait
  <2>1. PICK c \in Children \ reaped : child[c] = "dead" /\ reaped' = reaped \cup {c}
    BY <1>9 DEF Wait
  <2>2. /\ parent = "wait" /\ parent' = "wait" /\ i < nproc /\ i' = i + 1
        /\ child' = child /\ missed' = missed
    BY <1>9 DEF Wait
  <2>3. Cardinality(reaped') = Cardinality(reaped) + 1
    BY <1>3, <2>1, FS_AddElement
  <2>4. reaped' \subseteq {d \in Children' : child'[d] = "dead"}
    BY <1>1, <1>2, <2>1, <2>2
  <2>5. i' <= nproc' /\ i' = Cardinality(reaped') + missed'
    BY <1>1, <1>2, <1>3, <2>2, <2>3
  <2>6. QED  BY <1>1, <2>2, <2>4, <2>5 DEF Counting
<1>10. CASE ParentCleanup
  <2>1. /\ parent = "wait" /\ parent' = "exit0" /\ i = nproc
        /\ i' = i /\ reaped' = reaped /\ missed' = missed /\ child' = child
    BY <1>10 DEF ParentCleanup
  <2>2. QED  BY <1>1, <1>2, <2>1 DEF Counting
<1>11. CASE WaitInterrupted
  <2>1. /\ parent = "wait" /\ parent' = "wait" /\ i < nproc /\ i' = i + 1
        /\ reaped' = reaped /\ missed' = missed + 1 /\ child' = child
    BY <1>11 DEF WaitInterrupted
  <2>2. i' <= nproc' /\ i' = Cardinality(reaped') + missed'
    BY <1>1, <1>2, <1>3, <2>1
  <2>3. QED  BY <1>1, <1>2, <2>1, <2>2 DEF Counting
<1>12. CASE CtrlC \/ (\E p \in 0 .. nproc : Deliver(p)) \/ UNCHANGED vars
  BY <1>5, <1>12 DEF CtrlC, Deliver, vars
<1>13. QED
  BY <1>4, <1>6, <1>7, <1>8, <1>9, <1>10, <1>11, <1>12, HeadsSteps

LEMMA HeadsInvariance == SafeSpec => [](IInv /\ EndInv)
<1>1. IInv /\ EndInv /\ [Next]_vars => EndInv'
  BY FlagsKept, InterruptionsKept, CountingKept DEF EndInv
<1>2. QED  BY HeadsInit, HeadsNext, EndInit, <1>1, PTL DEF SafeSpec

\* Everybody's place, flag and signal have their types; no more than <n> calls of
\* sem_wait() are ever interrupted, so the semaphore never gets above sem0 + <n>, and
\* no more calls of wait() than Ctrl-C was pressed.
THEOREM HeadsTypeCorrect == SafeSpec => []TypeOK
<1>1. IInv /\ EndInv => TypeOK
  <2> SUFFICES ASSUME IInv, EndInv PROVE TypeOK
    OBVIOUS
  <2>1. nproc \in Nat /\ sem \in Int /\ sem0 \in Int /\ i \in Nat /\ sem >= 0
    BY DEF IInv, Types, EndInv, Flags
  <2>2. Cardinality(Past) \in 0 .. nproc /\ Cardinality(Talking) \in Nat
    BY <2>1, PastFinite, TalkingCount DEF IInv
  <2>3. eintrs \in 0 .. nproc
    BY <2>1, <2>2 DEF EndInv, Interruptions
  <2>4. sem \in 0 .. sem0 + nproc
    <3>1. sem + Cardinality(Talking) = sem0 + eintrs
      BY DEF IInv, UnitsAreConserved
    <3>2. QED  BY <2>1, <2>2, <2>3, <3>1
  <2>5. missed \in 0 .. MaxCtrlC /\ ctrlc \in 0 .. MaxCtrlC
    <3>1. /\ ctrlc \in 0 .. MaxCtrlC /\ missed \in Nat /\ MaxCtrlC \in Nat
          /\ missed + (IF pending[0] THEN 1 ELSE 0) <= ctrlc
      BY HeadsAssumption DEF EndInv, Interruptions
    <3>2. QED  BY <3>1
  <2>6. i \in 0 .. nproc + 1 /\ reaped \subseteq Children
    BY <2>1 DEF EndInv, Counting
  <2>7. child \in [Children -> {"unborn", "while", "wait", "talk", "dead"}]
    BY DEF IInv, Types, Places
  <2>8. QED  BY <2>3, <2>4, <2>5, <2>6, <2>7 DEF TypeOK, EndInv, Flags
<1>2. QED  BY <1>1, HeadsInvariance, PTL

\* A parent that is through has reaped all children but one per wait() that a signal
\* interrupted, and has left no more than those behind.
THEOREM ParentCounts == SafeSpec => []ParentMissesFew
<1>1. IInv /\ EndInv => ParentMissesFew
  <2> SUFFICES ASSUME IInv, EndInv, parent = "exit0"
               PROVE  Cardinality(reaped) = nproc - missed /\ Cardinality(Alive) <= missed
    BY DEF ParentMissesFew
  <2>1. /\ nproc \in Nat /\ missed \in Nat /\ nproc = Cardinality(reaped) + missed
        /\ reaped \subseteq {c \in Children : child[c] = "dead"}
    BY DEF IInv, Types, EndInv, Interruptions, Counting
  <2>2. IsFiniteSet(Children) /\ Cardinality(Children) = nproc
    BY <2>1, FS_Interval DEF Children
  <2>3. reaped \subseteq Children /\ Alive \subseteq Children \ reaped
    BY <2>1 DEF Alive
  <2>4. /\ IsFiniteSet(reaped) /\ Cardinality(reaped) \in Nat
        /\ IsFiniteSet(Children \ reaped)
        /\ Cardinality(Children \ reaped) = nproc - Cardinality(reaped)
    <3>1. IsFiniteSet(reaped) /\ Children \cap reaped = reaped
      BY <2>2, <2>3, FS_Subset
    <3>2. QED  BY <2>2, <3>1, FS_Difference, FS_CardinalityType
  <2>5. Cardinality(Alive) <= Cardinality(Children \ reaped)
    BY <2>3, <2>4, FS_Subset
  <2>6. Cardinality(Alive) \in Nat
    BY <2>3, <2>4, FS_Subset, FS_CardinalityType
  <2>7. QED  BY <2>1, <2>4, <2>5, <2>6
<1>2. QED  BY <1>1, HeadsInvariance, PTL
=============================================================================
