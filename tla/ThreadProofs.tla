---------------------------- MODULE ThreadProofs ----------------------------
(***************************************************************************)
(* The thread programs with any number of threads and turns: the mutex a   *)
(* child inherits, what the threads print, the exit statuses, and the sums *)
(* of atomic-add.c.                                                        *)
(***************************************************************************)
EXTENDS ThreadPrograms, FiniteSetTheorems, TLAPS

LEMMA ActorFacts ==
    /\ Main \in Actors /\ Child \in Actors /\ Threads \subseteq Actors
    /\ 1 \in Threads /\ 2 \in Threads /\ Main \notin Threads /\ Child \notin Threads
    /\ Main = 0 /\ Child # 0 /\ Child # 1 /\ Child # 2
    /\ \A a \in Actors : a = Main \/ a = Child \/ a \in Threads
  BY PthreadsAssumption DEF Main, Child, Threads, Actors

\* No step changes the program or its option.
LEMMA SameProgram == [Next]_vars => program' = program /\ opt' = opt
  BY DEF Next, vars, Step, ArgStep, CancelStep, AddStep, ForkStep, RwlockStep, LockStep,
         programVars
-----------------------------------------------------------------------------
(* atfork.c                                                                *)

\* Where everybody is.
AtforkPlaces ==
    /\ pc = [a \in Actors |-> pc[a]] /\ i \in Nat
    /\ \A t \in Threads \ {1} : pc[t] \in {"unborn", "count", "ended", "gone"}
    /\ pc[1] \in {"unborn", "before", "forking", "after", "lock", "unlock", "ended", "gone"}
    /\ pc[Child] \in {"unborn", "after", "lock", "unlock", "ended", "gone"}
    /\ pc[1] \in {"unborn", "before", "forking"} => At(Child, "unborn")

\* The mutex is main's from before there is a forker until main() waits for it, and
\* the forker's when it forks between its handlers.
AtforkMutex ==
    /\ holder \in {{}, {Main}, {1}}
    /\ At(Main, "create") /\ i = 0 => At(1, "unborn") /\ holder \subseteq {Main}
    /\ (At(Main, "create") /\ i > 0) \/ pc[Main] \in {"next", "join"} => holder = {Main}
    /\ pc[1] \in {"after", "unlock"} \/ (opt # "-d" /\ At(1, "forking")) => holder = {1}

\* The child's mutex is what the fork() found.
AtforkChild ==
    /\ At(Child, "unborn") => inherited = {} /\ childHolder = {}
    /\ opt # "-d" => childHolder \subseteq {Child} /\ inherited \subseteq {Child}
    /\ Main \in inherited => childHolder = {Main} /\ At(Child, "lock")

AtforkInv == Is("atfork") => AtforkPlaces /\ AtforkMutex /\ AtforkChild

LEMMA AtforkInit == Init => AtforkInv
<1> SUFFICES ASSUME Init, Is("atfork") PROVE AtforkPlaces /\ AtforkMutex /\ AtforkChild
  BY DEF AtforkInv
<1>1. /\ pc = [a \in Actors |-> IF a = Main THEN "create" ELSE "unborn"]
      /\ i = 0 /\ holder = {} /\ childHolder = {} /\ inherited = {}
  BY DEF Init, PthreadsInit, ForkInit
<1>2. QED  BY <1>1, ActorFacts DEF AtforkPlaces, AtforkMutex, AtforkChild, At

\* The steps of atfork.c are those of main(), of the forker, and of its copy.
LEMMA AtforkSteps ==
    ASSUME Next, AtforkInv, Is("atfork")
    PROVE  \/ AtforkMain \/ (ExitProcess /\ UNCHANGED forkVars)
           \/ forker(1) \/ forker(Child)
<1>1. PICK a \in Actors : Step(a)
  BY DEF Next
<1>2. ForkStep(a)
  BY <1>1 DEF Step, ArgStep, CancelStep, AddStep, RwlockStep, LockStep, Is,
              ArgPrograms, RwPrograms
<1>3. CASE a = Main
  BY <1>2, <1>3 DEF ForkStep, ForkedMain, Is
<1>4. CASE a # Main
  <2>1. forker(a)
    BY <1>2, <1>4 DEF ForkStep, ForkedThread, Is
  <2>2. a = 1 \/ a = Child
    BY <1>4, <2>1, ActorFacts
    DEF AtforkInv, AtforkPlaces, forker, before, after, MutexLock, MutexUnlock, At
  <2>3. QED  BY <2>1, <2>2
<1>5. QED  BY <1>3, <1>4

LEMMA AtforkMainStep ==
    ASSUME AtforkInv, Is("atfork"), AtforkMain \/ (ExitProcess /\ UNCHANGED forkVars),
           program' = program, opt' = opt
    PROVE  AtforkInv'
<1>1. AtforkPlaces /\ AtforkMutex /\ AtforkChild
  BY DEF AtforkInv
<1> USE ActorFacts, <1>1 DEF At
<1> SUFFICES (AtforkPlaces /\ AtforkMutex /\ AtforkChild)'
  BY DEF AtforkInv
<1>2. CASE TakesMutex
  BY <1>2 DEF TakesMutex, AtforkPlaces, AtforkMutex, AtforkChild, mainVars
<1>3. CASE StartsForker
  <2> DEFINE l == IF opt = "-d" THEN "forking" ELSE "before"
  <2>1. i = 0 /\ At(Main, "create") /\ i' = i /\ UNCHANGED forkVars /\ holder # {}
    BY <1>3 DEF StartsForker, StartThread, AtforkPlaces, mainVars
  <2>2. pc' = [pc EXCEPT ![i + 1] = l, ![Main] = "next"]
    BY <1>3 DEF StartsForker, StartThread
  <2>3. i + 1 = 1
    BY <2>1
  <2>4. pc' = [pc EXCEPT ![1] = l, ![Main] = "next"]
    BY ONLY <2>2, <2>3
  <2>5. holder = {Main}
    BY <2>1 DEF AtforkMutex
  <2>6. QED  BY <2>1, <2>4, <2>5 DEF AtforkPlaces, AtforkMutex, AtforkChild, forkVars
<1>4. CASE StartsCounter
  <2>1. /\ i = 1 /\ At(Main, "create") /\ i' = i /\ UNCHANGED forkVars
        /\ pc' = [pc EXCEPT ![i + 1] = "count", ![Main] = "next"]
    BY <1>4 DEF StartsCounter, StartThread, mainVars
  <2>2. i + 1 = 2
    BY <2>1
  <2>3. pc' = [pc EXCEPT ![2] = "count", ![Main] = "next"]
    BY ONLY <2>1, <2>2
  <2>4. holder = {Main}
    BY <2>1 DEF AtforkMutex
  <2>5. 2 \in Threads \ {1} /\ 2 # Main /\ 2 # Child /\ 2 # 1
    BY <2>1
  <2>6. /\ pc'[2] = "count" /\ pc'[Main] = "next"
        /\ \A a \in Actors : a # Main /\ a # 2 => pc'[a] = pc[a]
        /\ pc' = [a \in Actors |-> pc'[a]]
    BY <2>3, <2>5 DEF AtforkPlaces
  <2>7. AtforkPlaces'
    BY <2>1, <2>5, <2>6 DEF AtforkPlaces
  <2>8. AtforkMutex' /\ AtforkChild'
    BY <2>1, <2>4, <2>5, <2>6 DEF AtforkMutex, AtforkChild, forkVars
  <2>9. QED  BY <2>7, <2>8
<1>5. CASE Increment /\ UNCHANGED forkVars
  BY <1>5 DEF Increment, Goto, AtforkPlaces, AtforkMutex, AtforkChild, forkVars
<1>6. CASE Started(2) /\ UNCHANGED forkVars
  BY <1>6 DEF Started, Goto, AtforkPlaces, AtforkMutex, AtforkChild, forkVars, mainVars
<1>7. CASE MutexUnlock(Main, "join", "joining")
  BY <1>7 DEF MutexUnlock, SetHolder, Goto, AtforkPlaces, AtforkMutex, AtforkChild, mainVars
<1>8. CASE JoinsForker
  BY <1>8 DEF JoinsForker, AtforkPlaces, AtforkMutex, AtforkChild, forkVars, mainVars
<1>9. CASE At(Main, "wait") /\ At(Child, "ended") /\ Return(0) /\ UNCHANGED forkVars
  BY <1>9 DEF Return, Goto, AtforkPlaces, AtforkMutex, AtforkChild, forkVars
<1>10. CASE ExitProcess /\ UNCHANGED forkVars
  <2>1. /\ pc' = [a \in Actors |-> IF a = Child \/ At(a, "unborn") THEN pc[a] ELSE "gone"]
        /\ i' = i /\ UNCHANGED forkVars /\ ~At(Main, "unborn")
    BY <1>10 DEF ExitProcess, mainVars
  <2>2. QED  BY <2>1 DEF AtforkPlaces, AtforkMutex, AtforkChild, forkVars
<1>11. QED
  BY <1>2, <1>3, <1>4, <1>5, <1>6, <1>7, <1>8, <1>9, <1>10 DEF AtforkMain

LEMMA forkerStep ==
    ASSUME AtforkInv, Is("atfork"), forker(1), program' = program, opt' = opt
    PROVE  AtforkInv'
<1>1. AtforkPlaces /\ AtforkMutex /\ AtforkChild
  BY DEF AtforkInv
<1> USE ActorFacts, <1>1 DEF At
<1> SUFFICES (AtforkPlaces /\ AtforkMutex /\ AtforkChild)'
  BY DEF AtforkInv
<1>2. CASE before(1) \/ after(1) \/ MutexLock(1, "lock", "unlock")
           \/ MutexUnlock(1, "unlock", "ended")
  BY <1>2 DEF before, after, MutexLock, MutexUnlock, Holder, SetHolder, Goto, AtforkPlaces,
              AtforkMutex, AtforkChild, mainVars
<1>3. CASE At(1, "forking") /\ Forks(1, IF opt = "-d" THEN "lock" ELSE "after")
  <2> DEFINE l == IF opt = "-d" THEN "lock" ELSE "after"
  <2>1. /\ pc' = [pc EXCEPT ![1] = l, ![Child] = l]
        /\ childHolder' = {IF h = 1 THEN Child ELSE h : h \in holder}
        /\ inherited' = childHolder' /\ holder' = holder /\ i' = i
    BY <1>3 DEF Forks, mainVars
  <2>2. /\ opt # "-d" => childHolder' = {Child}
        /\ Main \in childHolder' => childHolder' = {Main} /\ opt = "-d"
    BY <1>3, <2>1 DEF AtforkMutex
  <2>3. AtforkPlaces' /\ AtforkMutex'
    BY <1>3, <2>1 DEF AtforkPlaces, AtforkMutex
  <2>4. AtforkChild'
    BY <1>3, <2>1, <2>2 DEF AtforkPlaces, AtforkChild
  <2>5. QED  BY <2>3, <2>4
<1>4. CASE At(1, "forking") /\ ForkFails
  <2>1. /\ pc' = [a \in Actors |-> IF At(a, "unborn") THEN "unborn" ELSE "gone"]
        /\ i' = i /\ UNCHANGED forkVars /\ At(Child, "unborn")
    BY <1>4 DEF ForkFails, AtforkPlaces
  <2>2. QED  BY <1>4, <2>1 DEF AtforkPlaces, AtforkMutex, AtforkChild, forkVars
<1>5. QED  BY <1>2, <1>3, <1>4 DEF forker

LEMMA childForkerStep ==
    ASSUME AtforkInv, Is("atfork"), forker(Child), program' = program, opt' = opt
    PROVE  AtforkInv'
<1>1. AtforkPlaces /\ AtforkMutex /\ AtforkChild
  BY DEF AtforkInv
<1> USE ActorFacts, <1>1 DEF At
<1> SUFFICES (AtforkPlaces /\ AtforkMutex /\ AtforkChild)'
  BY DEF AtforkInv
<1>2. after(Child) \/ MutexLock(Child, "lock", "unlock") \/ MutexUnlock(Child, "unlock", "ended")
  BY DEF forker, before, MutexLock, AtforkPlaces
<1>3. QED
  BY <1>2 DEF after, MutexLock, MutexUnlock, Holder, SetHolder, Goto, AtforkPlaces,
              AtforkMutex, AtforkChild, mainVars

\* atfork.c with its handlers: the child's mutex is never held by a thread the child
\* does not have.  Without them the child blocks for ever exactly if it inherited the
\* mutex from main().
THEOREM ChildMutex == Spec => []InheritedMutex
<1>1. AtforkInv /\ [Next]_vars => AtforkInv'
  <2> SUFFICES ASSUME AtforkInv, [Next]_vars PROVE AtforkInv'
    OBVIOUS
  <2>1. program' = program /\ opt' = opt
    BY SameProgram
  <2>2. CASE ~Is("atfork")
    BY <2>1, <2>2 DEF AtforkInv, Is
  <2>3. CASE Is("atfork") /\ Next
    BY <2>1, <2>3, AtforkSteps, AtforkMainStep, forkerStep, childForkerStep
  <2>4. CASE UNCHANGED vars
    BY <2>4 DEF vars, programVars, mainVars, forkVars, AtforkInv, AtforkPlaces, AtforkMutex,
                AtforkChild, Is, At
  <2>5. QED  BY <2>2, <2>3, <2>4
<1>2. AtforkInv => InheritedMutex
  BY DEF AtforkInv, AtforkChild, InheritedMutex
<1>3. QED  BY AtforkInit, <1>1, <1>2, PTL DEF Spec
-----------------------------------------------------------------------------
(* pthread-detach-join.c, pthread-setcanceltype.c and not-my-lock.c         *)

\* pthread_join() had been called before the thread detached itself if main()
\* waits in it, and so it is when main() returns.
DetachInv ==
    Is("detach") =>
       /\ pc = [a \in Actors |-> pc[a]] /\ i \in Nat
       /\ joined = {}
       /\ At(Main, "joining") => 1 \notin detached
       /\ At(Main, "return") => status = 0 /\ 1 \notin detached /\ At(1, "ended")
       /\ At(Main, "exit") => status = 1 /\ 1 \in detached
       /\ Ended => ~At(1, "start") /\ status = (IF 1 \in detached THEN 1 ELSE 0)

\* A thread with a request against it does not return from open(): it ends by
\* cancellation, unless the request came later than that.
CancelInv ==
    Is("cancel") =>
       /\ pc = [a \in Actors |-> pc[a]] /\ i \in Nat
       /\ canceled \in BOOLEAN /\ requested \in BOOLEAN /\ late \in BOOLEAN
       /\ canceled => requested /\ pc[1] \in {"ended", "gone"}
       /\ requested /\ ~late => ~At(1, "error") /\ (At(1, "ended") => canceled)
       /\ pc[Main] \in {"create", "next"} => ~requested
       /\ At(Main, "join") => requested
       /\ At(Main, "exit") => At(1, "ended") /\ ~requested /\ late /\ status = 1
       /\ At(Main, "return") => /\ At(1, "ended") /\ (canceled \/ late)
                                /\ status = (IF canceled THEN 0 ELSE 1)
       /\ Ended => /\ At(1, "gone") /\ (status = 1 => late)
                   /\ status = (IF canceled THEN 0 ELSE 1)

\* The thread never holds the mutex that it unlocks.
NotMyLockInv ==
    Is("notmylock") =>
       /\ pc = [a \in Actors |-> pc[a]] /\ i \in Nat
       /\ mine \subseteq {Main}
       /\ report = [foreign |-> report.foreign, unlocked |-> report.unlocked,
                    relock |-> report.relock]
       /\ At(1, "ended") => Normal \/ report.foreign = "EPERM"
       /\ pc[Main] \in {"mutex3", "return", "gone"} =>
             /\ pc[1] \in {"ended", "gone"}
             /\ Normal \/ (report.foreign = "EPERM" /\ report.unlocked = "EPERM")
       /\ pc[Main] \in {"return", "gone"} =>
             ~Normal /\ report.relock = (IF opt = "-r" THEN "none" ELSE "EDEADLK")
       /\ ~At(Main, "exit")

VerdictInv == DetachInv /\ CancelInv /\ NotMyLockInv

LEMMA VerdictInit == Init => VerdictInv
<1> SUFFICES ASSUME Init PROVE VerdictInv
  OBVIOUS
<1>1. /\ pc = [a \in Actors |-> IF a = Main THEN "create" ELSE "unborn"]
      /\ i = 0 /\ joined = {} /\ mine = {}
      /\ requested = FALSE /\ canceled = FALSE /\ late = FALSE
      /\ report = [foreign |-> "", unlocked |-> "", relock |-> ""]
  BY DEF Init, PthreadsInit, CancelInit, LockInit
<1>2. At(Main, "create") /\ At(1, "unborn")
  BY <1>1, ActorFacts DEF At
<1>3. QED
  BY <1>1, <1>2 DEF VerdictInv, DetachInv, CancelInv, NotMyLockInv, Ended, At

LEMMA DetachStep ==
    ASSUME DetachInv, Is("detach"), Next, program' = program
    PROVE  DetachInv'
<1> USE ActorFacts DEF At, Ended
<1>1. PICK a \in Actors : ArgStep(a)
  BY DEF Next, Step, CancelStep, AddStep, ForkStep, RwlockStep, LockStep, Is, RwPrograms,
         ForkPrograms
<1>2. CASE a = Main
  <2>1. DetachMain \/ ExitProcess
    BY <1>1, <1>2 DEF ArgStep, ArgMain, Is
  <2>2. CASE StartWith(1, "start", AddressOf(1), [cell EXCEPT ![1] = 1])
    <3>1. /\ i = 0 /\ At(Main, "create") /\ UNCHANGED <<mainVars, threadVars>>
          /\ pc' = [pc EXCEPT ![i + 1] = "start", ![Main] = "next"]
      BY <2>2 DEF StartWith, StartThread, DetachInv
    <3>2. i + 1 = 1
      BY <3>1
    <3>3. pc' = [pc EXCEPT ![1] = "start", ![Main] = "next"]
      BY ONLY <3>1, <3>2
    <3>4. QED  BY <3>1, <3>3 DEF DetachInv, mainVars, threadVars
  <2>3. CASE Loop(1)
    BY <2>3 DEF Loop, Increment, Started, Goto, DetachInv, mainVars, threadVars
  <2>4. CASE /\ At(Main, "join")
             /\ IF JoinFails(1) THEN Errx(1)
                ELSE Goto(Main, "joining") /\ UNCHANGED <<mainVars, threadVars>>
    BY <2>4 DEF JoinFails, Errx, Goto, DetachInv, mainVars, threadVars
  <2>5. CASE At(Main, "joining") /\ At(1, "ended") /\ Return(0)
    BY <2>5 DEF Return, Goto, DetachInv, threadVars
  <2>6. CASE ExitProcess
    BY <2>6 DEF ExitProcess, DetachInv, mainVars, threadVars
  <2>7. QED  BY <2>1, <2>2, <2>3, <2>4, <2>5, <2>6 DEF DetachMain
<1>3. CASE a # Main
  <2>1. a \in Threads /\ (PrintsArgument(a, Loops) \/ DetachSelf(a))
    BY <1>1, <1>3 DEF ArgStep, ArgThread, Is
  <2>2. CASE PrintsArgument(a, Loops)
    BY <2>1, <2>2 DEF PrintsArgument, LoopTurn, LoopEnd, Goto, DetachInv, mainVars, threadVars
  <2>3. CASE DetachSelf(a)
    BY <2>1, <2>3 DEF DetachSelf, Goto, DetachInv, mainVars
  <2>4. QED  BY <2>1, <2>2, <2>3
<1>4. QED  BY <1>2, <1>3

LEMMA CancelStepKeeps ==
    ASSUME CancelInv, Is("cancel"), Next, program' = program
    PROVE  CancelInv'
<1> USE ActorFacts DEF At, Ended
<1>1. PICK a \in Actors : CancelStep(a)
  BY DEF Next, Step, ArgStep, AddStep, ForkStep, RwlockStep, LockStep, Is, RwPrograms,
         ForkPrograms, ArgPrograms
<1>2. CASE a = Main
  <2>1. CancelMain
    BY <1>1, <1>2 DEF CancelStep
  <2>2. CASE StartThread(1, "settype") /\ UNCHANGED cancelVars
    <3>1. /\ i = 0 /\ At(Main, "create") /\ UNCHANGED <<mainVars, cancelVars>>
          /\ pc' = [pc EXCEPT ![i + 1] = "settype", ![Main] = "next"]
      BY <2>2 DEF StartThread, CancelInv
    <3>2. i + 1 = 1
      BY <3>1
    <3>3. pc' = [pc EXCEPT ![1] = "settype", ![Main] = "next"]
      BY ONLY <3>1, <3>2
    <3>4. QED  BY <3>1, <3>3 DEF CancelInv, mainVars, cancelVars
  <2>3. CASE At(Main, "next") /\ Cancel
    <3>1. ~requested /\ ~canceled
      BY <2>3 DEF CancelInv
    <3>2. CASE /\ requested' = TRUE /\ late' = (pc[1] \in {"error", "ended"})
               /\ Goto(Main, "join") /\ UNCHANGED <<mainVars, canceled>>
      <4>1. ~canceled' /\ pc'[1] = pc[1] /\ pc'[Main] = "join"
        BY <3>1, <3>2 DEF Goto, CancelInv
      <4>2. late' \in BOOLEAN /\ (~late' => pc[1] # "error" /\ pc[1] # "ended")
        <5>1. late' = (pc[1] \in {"error", "ended"})
          BY <3>2
        <5>2. CASE pc[1] \in {"error", "ended"}
          <6>1. late' = TRUE
            BY ONLY <5>1, <5>2, Zenon
          <6>2. QED  BY ONLY <6>1
        <5>3. CASE pc[1] \notin {"error", "ended"}
          <6>1. (pc[1] \in {"error", "ended"}) = FALSE
            BY ONLY <5>3
          <6>2. late' = FALSE
            BY ONLY <5>1, <6>1
          <6>3. QED  BY ONLY <5>3, <6>2
        <5>4. QED  BY ONLY <5>2, <5>3
      <4>3. QED  BY <3>1, <3>2, <4>1, <4>2 DEF Goto, CancelInv, mainVars
    <3>3. CASE At(1, "ended") /\ Errx(1) /\ late' = TRUE /\ UNCHANGED <<requested, canceled>>
      BY <3>1, <3>3 DEF Errx, Goto, CancelInv
    <3>4. QED  BY <2>3, <3>2, <3>3 DEF Cancel
  <2>4. CASE At(Main, "join") /\ JoinSucceeds(1) /\ Return(IF canceled THEN 0 ELSE 1)
             /\ UNCHANGED cancelVars
    <3>1. canceled \/ late
      BY <2>4 DEF JoinSucceeds, CancelInv
    <3>2. QED  BY <2>4, <3>1 DEF JoinSucceeds, Return, Goto, CancelInv, cancelVars
  <2>5. CASE ExitProcess /\ UNCHANGED cancelVars
    BY <2>5 DEF ExitProcess, CancelInv, mainVars, cancelVars
  <2>6. QED  BY <2>1, <2>2, <2>3, <2>4, <2>5 DEF CancelMain
<1>3. CASE a # Main
  <2>1. mythread
    BY <1>1, <1>3 DEF CancelStep
  <2>2. CASE SetCancelType
    BY <2>2 DEF SetCancelType, Goto, CancelInv, mainVars
  <2>3. CASE Canceled
    BY <2>3 DEF Canceled, CancellationPoints, Goto, CancelInv, mainVars
  <2>4. CASE Open
    BY <2>4 DEF Open, MyThreadGoes, Goto, CancelInv, mainVars, cancelVars
  <2>5. CASE MyThreadGoes("error", "ended")
    BY <2>5 DEF MyThreadGoes, Goto, CancelInv, mainVars, cancelVars
  <2>6. CASE MyThreadGoes("hello", "spin") \/ MyThreadGoes("spin", "message")
             \/ MyThreadGoes("message", "open")
    BY <2>6 DEF MyThreadGoes, Goto, CancelInv, mainVars, cancelVars
  <2>7. QED  BY <2>1, <2>2, <2>3, <2>4, <2>5, <2>6 DEF mythread
<1>4. QED  BY <1>2, <1>3

LEMMA NotMyLockStep ==
    ASSUME NotMyLockInv, Is("notmylock"), Next, program' = program, opt' = opt
    PROVE  NotMyLockInv'
<1> USE ActorFacts DEF At, Ended, Normal
<1>1. PICK a \in Actors : LockStep(a)
  BY DEF Next, Step, ArgStep, AddStep, ForkStep, RwlockStep, CancelStep, Is, RwPrograms,
         ForkPrograms, ArgPrograms
<1>2. CASE a = Main
  <2>1. NotMyLockMain
    BY <1>1, <1>2 DEF LockStep
  <2>2. CASE StartThread(1, "start") /\ UNCHANGED lockVars
    <3>1. /\ i = 0 /\ At(Main, "create") /\ UNCHANGED <<mainVars, lockVars>>
          /\ pc' = [pc EXCEPT ![i + 1] = "start", ![Main] = "next"]
      <4>1. i \in Nat
        BY DEF NotMyLockInv
      <4>2. QED  BY ONLY <2>2, <4>1 DEF StartThread, At
    <3>2. i + 1 = 1
      BY <3>1
    <3>3. pc' = [pc EXCEPT ![1] = "start", ![Main] = "next"]
      BY ONLY <3>1, <3>2
    <3>4. QED  BY <3>1, <3>3 DEF NotMyLockInv, mainVars, lockVars
  <2>3. CASE LockMine \/ LockThird
    BY <2>3 DEF LockMine, LockThird, Goto, NotMyLockInv, mainVars
  <2>4. CASE UnlockUnlocked
    BY <2>4 DEF UnlockUnlocked, JoinSucceeds, UnlockError, Goto, NotMyLockInv, mainVars
  <2>5. CASE Relock
    BY <2>5 DEF Relock, Return, Goto, NotMyLockInv
  <2>6. CASE ExitProcess /\ UNCHANGED lockVars
    BY <2>6 DEF ExitProcess, NotMyLockInv, mainVars, lockVars
  <2>7. QED  BY <2>1, <2>2, <2>3, <2>4, <2>5, <2>6 DEF NotMyLockMain
<1>3. CASE a # Main
  <2>1. UnlockForeign
    BY <1>1, <1>3 DEF LockStep
  <2>2. QED  BY <2>1 DEF UnlockForeign, UnlockError, Goto, NotMyLockInv, mainVars
<1>4. QED  BY <1>2, <1>3

\* The exit statuses of pthread-detach-join.c and pthread-setcanceltype.c say how the
\* thread ended, and not-my-lock.c prints the same results wherever the thread's
\* unlock falls.
THEOREM ExitStatuses == Spec => []Verdicts
<1>1. VerdictInv /\ [Next]_vars => VerdictInv'
  <2> SUFFICES ASSUME VerdictInv, [Next]_vars PROVE VerdictInv'
    OBVIOUS
  <2>1. program' = program /\ opt' = opt
    BY SameProgram
  <2>2. CASE Next
    <3>1. DetachInv'
      BY <2>1, <2>2, DetachStep DEF VerdictInv, DetachInv, Is
    <3>2. CancelInv'
      BY <2>1, <2>2, CancelStepKeeps DEF VerdictInv, CancelInv, Is
    <3>3. NotMyLockInv'
      BY <2>1, <2>2, NotMyLockStep DEF VerdictInv, NotMyLockInv, Is
    <3>4. QED  BY <3>1, <3>2, <3>3 DEF VerdictInv
  <2>3. CASE UNCHANGED vars
    BY <2>3 DEF vars, programVars, mainVars, threadVars, cancelVars, lockVars, VerdictInv,
                DetachInv, CancelInv, NotMyLockInv, Is, At, Ended, Normal
  <2>4. QED  BY <2>2, <2>3
<1>2. VerdictInv => Verdicts
  <2> SUFFICES ASSUME VerdictInv, Ended PROVE Verdicts
    BY DEF Verdicts
  <2>1. CASE Is("detach")
    BY <2>1 DEF VerdictInv, DetachInv, Verdicts, Is
  <2>2. CASE Is("cancel")
    <3>1. canceled \in BOOLEAN /\ (status = 1 => late)
          /\ status = (IF canceled THEN 0 ELSE 1)
      BY <2>2 DEF VerdictInv, CancelInv
    <3>2. (status = 0) = canceled
      BY <3>1
    <3>3. QED  BY <2>2, <3>1, <3>2 DEF Verdicts, Is
  <2>3. CASE Is("notmylock")
    BY <2>3 DEF VerdictInv, NotMyLockInv, Verdicts, Is, Ended, At
  <2>4. CASE program \notin {"detach", "cancel", "notmylock"}
    BY <2>4 DEF Verdicts
  <2>5. QED  BY <2>1, <2>2, <2>3, <2>4 DEF Is
<1>3. QED  BY VerdictInit, <1>1, <1>2, PTL DEF Spec
-----------------------------------------------------------------------------
(* The arguments of the threads                                            *)

\* How many threads a program starts, and what it gives thread t.
Size == CASE program \in {"create", "detach"} -> 1
          [] program \in {"join", "setdetach"} -> 2
          [] OTHER -> N

Given(t) == CASE program = "create" -> Number(0)
              [] program = "int" -> Number(t - 1)
              [] program \in {"join", "detach", "setdetach"} -> AddressOf(t)
              [] program \in {"correct", "barrier"} -> AddressOf(t - 1)
              [] OTHER -> AddressOfI

\* The int whose address thread t gets has its value.
Written(t) == /\ program \in {"join", "detach", "setdetach"} => cell[t] = t
              /\ program \in {"correct", "barrier"} => cell[t - 1] = t - 1

\* The programs whose main() returns only after the threads have ended: three join
\* them all, and one gets its only thread's end from pthread_join().
JoinsAll == program \in {"join", "correct", "barrier"}

ArgPlaces ==
    /\ pc = [a \in Actors |-> pc[a]] /\ i \in 0 .. Size /\ j \in Nat
    /\ At(Main, "next") => i < Size
    /\ arg = [t \in Threads |-> arg[t]] /\ cell = [k \in 0 .. N |-> cell[k]]
    /\ printed = [t \in Threads |-> printed[t]]
    /\ waiting \subseteq {t \in Threads : At(t, "barrier")}
    /\ ~Is("barrier") => waiting = {}

Arguments ==
    \A t \in Threads :
        ~At(t, "unborn") => /\ t <= Size /\ t <= i + 1 /\ (At(Main, "create") => t <= i)
                            /\ arg[t] = Given(t) /\ Written(t)

Frame ==
    /\ (JoinsAll \/ Is("detach")) /\ At(Main, "return") =>
          \A t \in Threads : pc[t] \in {"unborn", "ended"}
    /\ JoinsAll => /\ detached = {} /\ joined \subseteq 1 .. j /\ ~At(Main, "exit")
                   /\ pc[Main] \in {"create", "next"} => j = 0
                   /\ \A t \in Threads : t <= j /\ ~Ended => At(t, "ended")

ArgInv == /\ OwnArgument
          /\ program \in ArgPrograms => ArgPlaces /\ Arguments /\ Frame

LEMMA SizeFacts == Size \in 1 .. N /\ N \in Nat /\ N >= 3 /\ Loops \in Nat
  BY PthreadsAssumption DEF Size

LEMMA ArgInvInit == Init => ArgInv
<1> SUFFICES ASSUME Init PROVE ArgInv
  OBVIOUS
<1>1. /\ pc = [a \in Actors |-> IF a = Main THEN "create" ELSE "unborn"]
      /\ i = 0 /\ j = 0 /\ joined = {} /\ detached = {}
      /\ cell = [k \in 0 .. N |-> Garbage] /\ arg = [t \in Threads |-> Number(0)]
      /\ printed = [t \in Threads |-> {}] /\ waiting = {}
  BY DEF Init, PthreadsInit, ArgInit
<1>2. At(Main, "create") /\ \A t \in Threads : At(t, "unborn")
  BY <1>1, ActorFacts DEF At
<1>3. OwnArgument
  BY <1>1 DEF OwnArgument
<1>4. ArgPlaces
  BY <1>1, <1>2, SizeFacts DEF ArgPlaces, At
<1>5. Arguments
  BY <1>2 DEF Arguments
<1>6. Frame
  <2>1. \A t \in Threads : ~(t <= j)
    BY <1>1 DEF Threads
  <2>2. QED  BY <1>1, <1>2, <2>1 DEF Frame, At
<1>7. QED  BY <1>3, <1>4, <1>5, <1>6 DEF ArgInv

\* What a program's pthread_create() does: the thread gets its argument, and the ints
\* of those started before keep their values.
Starts ==
    /\ At(Main, "create") /\ i < Size
    /\ \E l \in {"loop", "start"} : pc' = [pc EXCEPT ![i + 1] = l, ![Main] = "next"]
    /\ arg' = [arg EXCEPT ![i + 1] = Given(i + 1)]
    /\ cell' = [k \in 0 .. N |-> cell'[k]]
    /\ \A t \in Threads : t = i + 1 \/ Written(t) => Written(t)'
    /\ JoinsAll => UNCHANGED detached
    /\ UNCHANGED <<mainVars, joined, printed, waiting>>

LEMMA StartsGivesArgument ==
    ASSUME ArgPlaces, program' = program,
           \/ Is("create") /\ StartWith(1, "loop", Number(0), cell)
           \/ Is("join") /\ StartWith(2, "loop", AddressOf(i + 1),
                                      [cell EXCEPT ![1] = 1, ![2] = 2])
           \/ Is("detach") /\ StartWith(1, "start", AddressOf(1), [cell EXCEPT ![1] = 1])
           \/ program \in {"correct", "barrier"}
              /\ StartWith(N, "loop", AddressOf(i), [cell EXCEPT ![i] = i])
           \/ Is("wrong") /\ StartWith(N, "loop", AddressOfI, cell)
           \/ Is("int") /\ StartWith(N, "loop", Number(i), cell)
    PROVE  Starts
<1>1. i \in Nat /\ i \in 0 .. N /\ cell = [k \in 0 .. N |-> cell[k]]
  BY SizeFacts DEF ArgPlaces
<1>2. PICK l \in {"loop", "start"} : \E k, a, cs : StartWith(k, l, a, cs)
  OBVIOUS
<1>3. /\ At(Main, "create") /\ UNCHANGED <<mainVars, joined, detached, printed, waiting>>
      /\ pc' = [pc EXCEPT ![i + 1] = l, ![Main] = "next"]
  BY <1>2 DEF StartWith, StartThread, threadVars
<1>4. i < Size
  BY <1>1, SizeFacts DEF StartWith, StartThread, Size, Is
<1>5. arg' = [arg EXCEPT ![i + 1] = Given(i + 1)]
  <2>1. (i + 1) - 1 = i
    BY <1>1
  <2>2. CASE Is("create")
    BY <2>2 DEF StartWith, Given, Is
  <2>3. CASE Is("join")
    BY <2>3 DEF StartWith, Given, Is
  <2>4. CASE Is("detach")
    <3>1. i + 1 = 1
      BY <1>1, <1>4, <2>4 DEF Size, Is
    <3>2. arg' = [arg EXCEPT ![i + 1] = AddressOf(1)] /\ Given(i + 1) = AddressOf(i + 1)
      BY <2>4 DEF StartWith, Given, Is
    <3>3. QED  BY <3>1, <3>2
  <2>5. CASE program \in {"correct", "barrier"}
    <3>1. arg' = [arg EXCEPT ![i + 1] = AddressOf(i)] /\ Given(i + 1) = AddressOf((i + 1) - 1)
      BY <2>5 DEF StartWith, Given, Is
    <3>2. QED  BY <2>1, <3>1
  <2>6. CASE Is("wrong")
    BY <2>6 DEF StartWith, Given, Is
  <2>7. CASE Is("int")
    <3>1. arg' = [arg EXCEPT ![i + 1] = Number(i)] /\ Given(i + 1) = Number((i + 1) - 1)
      BY <2>7 DEF StartWith, Given, Is
    <3>2. QED  BY <2>1, <3>1
  <2>8. QED  BY <2>2, <2>3, <2>4, <2>5, <2>6, <2>7
<1>6. /\ cell' = [k \in 0 .. N |-> cell'[k]]
      /\ \A t \in Threads : t = i + 1 \/ Written(t) => Written(t)'
  <2>1. CASE Is("create") \/ Is("wrong") \/ Is("int")
    <3>1. cell' = cell
      BY <2>1 DEF StartWith, Is
    <3>2. QED  BY <1>1, <2>1, <3>1 DEF Written, Is
  <2>2. CASE Is("join")
    <3>1. cell' = [cell EXCEPT ![1] = 1, ![2] = 2] /\ 1 \in 0 .. N /\ 2 \in 0 .. N
      BY <2>2, SizeFacts DEF StartWith, Is
    <3>2. /\ cell'[1] = 1 /\ cell'[2] = 2 /\ cell' = [k \in 0 .. N |-> cell'[k]]
          /\ \A k \in 0 .. N : k # 1 /\ k # 2 => cell'[k] = cell[k]
      BY <1>1, <3>1
    <3>3. i + 1 = 1 \/ i + 1 = 2
      BY <1>1, <1>4, <2>2 DEF Size, Is
    <3>4. \A t \in Threads : t \in 0 .. N
      BY SizeFacts DEF Threads
    <3>5. QED  BY <2>2, <3>2, <3>3, <3>4 DEF Written, Is
  <2>3. CASE Is("detach")
    <3>1. cell' = [cell EXCEPT ![1] = 1] /\ 1 \in 0 .. N
      BY <2>3, SizeFacts DEF StartWith, Is
    <3>2. i + 1 = 1
      BY <1>1, <1>4, <2>3 DEF Size, Is
    <3>3. \A t \in Threads : t \in 0 .. N
      BY SizeFacts DEF Threads
    <3>4. QED  BY <1>1, <2>3, <3>1, <3>2, <3>3 DEF Written, Is
  <2>4. CASE program \in {"correct", "barrier"}
    <3>1. cell' = [cell EXCEPT ![i] = i]
      BY <2>4 DEF StartWith, Is
    <3>2. cell'[i] = i /\ cell' = [k \in 0 .. N |-> cell'[k]]
          /\ \A k \in 0 .. N : k # i => cell'[k] = cell[k]
      BY <1>1, <3>1
    <3>3. \A t \in Threads : t - 1 \in 0 .. N /\ (t = i + 1 => t - 1 = i)
      BY <1>1, SizeFacts DEF Threads
    <3>4. QED  BY <2>4, <3>2, <3>3 DEF Written
  <2>5. QED  BY <2>1, <2>2, <2>3, <2>4
<1>7. QED  BY <1>3, <1>4, <1>5, <1>6 DEF Starts

LEMMA SetDetachGivesArgument ==
    ASSUME ArgPlaces, program' = program, Is("setdetach"), At(Main, "create"), i < 2,
           pc' = [pc EXCEPT ![i + 1] = "loop", ![Main] = "next"],
           arg' = [arg EXCEPT ![i + 1] = AddressOf(i + 1)],
           cell' = [cell EXCEPT ![1] = 1, ![2] = 2],
           UNCHANGED <<mainVars, count, joined, printed, waiting>>
    PROVE  Starts
<1>1. i \in Nat /\ cell = [k \in 0 .. N |-> cell[k]]
  BY SizeFacts DEF ArgPlaces
<1>2. /\ cell'[1] = 1 /\ cell'[2] = 2 /\ cell' = [k \in 0 .. N |-> cell'[k]]
      /\ \A k \in 0 .. N : k # 1 /\ k # 2 => cell'[k] = cell[k]
  <2>1. 1 \in 0 .. N /\ 2 \in 0 .. N
    BY SizeFacts
  <2>2. QED  BY <1>1, <2>1
<1>3. i + 1 = 1 \/ i + 1 = 2
  BY <1>1
<1>4. \A t \in Threads : t \in 0 .. N
  BY SizeFacts DEF Threads
<1>5. \A t \in Threads : t = i + 1 \/ Written(t) => Written(t)'
  BY <1>2, <1>3, <1>4 DEF Written, Is
<1>6. Size = 2 /\ Given(i + 1) = AddressOf(i + 1) /\ ~JoinsAll
  BY DEF Size, Given, JoinsAll, Is
<1>7. QED  BY <1>2, <1>5, <1>6 DEF Starts

\* Size, Given and the like depend on the program alone.
LEMMA SameProgramArguments ==
    ASSUME program' = program
    PROVE  /\ Size' = Size /\ (JoinsAll' <=> JoinsAll) /\ (Is("detach")' <=> Is("detach"))
           /\ (Is("barrier")' <=> Is("barrier"))
           /\ \A t \in Threads : Given(t)' = Given(t) /\ OwnNumbers(t)' = OwnNumbers(t)
  BY DEF Size, Given, JoinsAll, Is, OwnNumbers, Number, AddressOf, AddressOfI, Garbage

LEMMA StartsStep ==
    ASSUME ArgPlaces, Arguments, Frame, Starts, program' = program
    PROVE  (ArgPlaces /\ Arguments /\ Frame)'
<1> USE SizeFacts, SameProgramArguments, ActorFacts DEF At
<1>1. /\ i \in Nat /\ i' = i /\ j' = j /\ i < Size
      /\ pc[Main] = "create" /\ UNCHANGED <<joined, printed, waiting>>
  BY DEF ArgPlaces, Starts, mainVars
<1>2. i + 1 \in Threads /\ i + 1 \in Actors /\ i + 1 # Main
  BY <1>1 DEF Threads, Actors, Main
<1>3. PICK l \in {"loop", "start"} : pc' = [pc EXCEPT ![i + 1] = l, ![Main] = "next"]
  BY DEF Starts
<1>4. /\ pc' = [a \in Actors |-> pc'[a]] /\ pc'[Main] = "next"
      /\ pc'[i + 1] \in {"loop", "start"}
      /\ \A t \in Threads : t # i + 1 => pc'[t] = pc[t]
  BY <1>2, <1>3 DEF ArgPlaces
<1>5. /\ arg' = [t \in Threads |-> arg'[t]] /\ arg'[i + 1] = Given(i + 1)
      /\ \A t \in Threads : t # i + 1 => arg'[t] = arg[t]
  BY <1>2 DEF ArgPlaces, Starts
<1>6. Arguments'
  <2> SUFFICES ASSUME NEW t \in Threads, pc'[t] # "unborn"
               PROVE  t <= Size' /\ t <= i' + 1 /\ arg'[t] = Given(t)' /\ Written(t)'
    BY <1>4 DEF Arguments
  <2>1. CASE t = i + 1
    <3>1. t <= Size /\ t <= i + 1
      BY <1>1, <2>1
    <3>2. QED  BY <1>1, <1>5, <2>1, <3>1 DEF Starts
  <2>2. CASE t # i + 1
    <3>1. pc[t] # "unborn"
      BY <1>4, <2>2
    <3>2. QED  BY <1>1, <1>5, <2>2, <3>1 DEF Arguments, Starts
  <2>3. QED  BY <2>1, <2>2
<1>7. ArgPlaces'
  <2>1. pc[i + 1] = "unborn"
    BY <1>1, <1>2 DEF Arguments
  <2>2. i + 1 \notin waiting
    BY <2>1 DEF ArgPlaces
  <2>3. waiting' \subseteq {t \in Threads : pc'[t] = "barrier"}
    BY <1>1, <1>4, <2>2 DEF ArgPlaces
  <2>4. printed' = [t \in Threads |-> printed'[t]]
    BY <1>1 DEF ArgPlaces
  <2>5. i' \in 0 .. Size' /\ j' \in Nat /\ i' < Size'
    BY <1>1 DEF ArgPlaces
  <2>6. QED  BY <1>4, <1>5, <2>3, <2>4, <2>5 DEF ArgPlaces, Starts
<1>8. Frame'
  <2>1. \A t \in Threads : ~(t <= 0)
    BY DEF Threads
  <2>2. JoinsAll => detached' = {} /\ joined' = joined /\ j' = 0 /\ joined \subseteq 1 .. j
    BY <1>1 DEF Frame, Starts
  <2>3. QED  BY <1>1, <1>4, <2>1, <2>2 DEF Frame
<1>9. QED  BY <1>6, <1>7, <1>8

\* A step of main() that changes no thread's place and starts none.
LEMMA MainGoesOn ==
    ASSUME ArgPlaces, Arguments, program' = program,
           NEW l, pc' = [pc EXCEPT ![Main] = l], l # "next",
           i' \in {i, i + 1}, i' \in 0 .. Size, j' \in Nat,
           l = "create" => i' = i + 1,
           UNCHANGED argVars
    PROVE  (ArgPlaces /\ Arguments)'
<1> USE SizeFacts, SameProgramArguments, ActorFacts DEF At
<1>1. /\ pc' = [a \in Actors |-> pc'[a]] /\ pc'[Main] = l
      /\ \A t \in Threads : pc'[t] = pc[t]
  BY DEF ArgPlaces
<1>2. ArgPlaces'
  BY <1>1 DEF ArgPlaces, argVars
<1>3. \A t \in Threads : Written(t)' <=> Written(t)
  BY DEF Written, argVars
<1>4. ASSUME NEW t \in Threads, pc'[t] # "unborn"
      PROVE  /\ t <= Size' /\ t <= i' + 1 /\ (pc'[Main] = "create" => t <= i')
             /\ arg'[t] = Given(t)' /\ Written(t)'
  <2>1. t <= Size /\ t <= i + 1 /\ arg[t] = Given(t) /\ Written(t) /\ t \in Nat
    BY <1>1, <1>4 DEF Arguments, Threads
  <2>2. i \in Nat
    BY DEF ArgPlaces
  <2>3. t <= i' + 1 /\ (pc'[Main] = "create" => t <= i')
    BY <1>1, <2>1, <2>2
  <2>4. QED  BY <1>3, <2>1, <2>3 DEF argVars
<1>5. QED  BY <1>2, <1>4 DEF Arguments

LEMMA ArgMainStep ==
    ASSUME ArgPlaces, Arguments, Frame, program \in ArgPrograms, ArgMain, program' = program
    PROVE  (ArgPlaces /\ Arguments /\ Frame)' /\ UNCHANGED printed
<1> USE SizeFacts, SameProgramArguments, ActorFacts DEF At
<1>1. i \in Nat /\ j \in Nat /\ i \in 0 .. Size
  BY DEF ArgPlaces
<1>2. CASE Starts
  BY <1>2, StartsStep DEF Starts
<1>3. CASE Loop(Size)
  <2>1. CASE Increment /\ UNCHANGED argVars
    <3>1. i' = i + 1 /\ j' = j /\ pc' = [pc EXCEPT ![Main] = "create"] /\ i < Size
          /\ UNCHANGED <<joined, detached, printed>>
      BY <2>1 DEF Increment, Goto, ArgPlaces, argVars, threadVars
    <3>2. (ArgPlaces /\ Arguments)'
      <4>1. i' \in 0 .. Size /\ i' \in {i, i + 1} /\ j' \in Nat
        BY <1>1, <3>1
      <4>2. QED  BY <2>1, <3>1, <4>1, MainGoesOn
    <3>3. pc'[Main] = "create" /\ \A t \in Threads : pc'[t] = pc[t]
      BY <3>1 DEF ArgPlaces
    <3>4. Frame'
      BY <2>1, <3>1, <3>3 DEF Frame, Increment, Ended
    <3>5. QED  BY <3>1, <3>2, <3>4
  <2>2. CASE Started(Size) /\ UNCHANGED argVars
    <3>1. i' = i /\ j' = j /\ pc' = [pc EXCEPT ![Main] = "join"]
          /\ UNCHANGED <<joined, detached, printed>>
      BY <2>2 DEF Started, Goto, argVars, threadVars, mainVars
    <3>2. (ArgPlaces /\ Arguments)'
      BY <1>1, <2>2, <3>1, MainGoesOn
    <3>3. pc'[Main] = "join" /\ \A t \in Threads : pc'[t] = pc[t]
      BY <3>1 DEF ArgPlaces
    <3>4. Frame'
      BY <2>2, <3>1, <3>3 DEF Frame, Ended, Started
    <3>5. QED  BY <3>1, <3>2, <3>4
  <2>3. QED  BY <1>3, <2>1, <2>2 DEF Loop
<1>4. CASE JoinsAll /\ Joins(Size, j + 1)
  <2>1. CASE JoinThread(Size, j + 1) /\ UNCHANGED argVars
    <3>1. /\ pc[Main] = "join" /\ j < Size /\ i' = i /\ j' = j + 1 /\ pc' = pc
          /\ UNCHANGED <<detached, argVars>>
          /\ JoinSucceeds(j + 1) \/ JoinFails(j + 1)
          /\ joined' \subseteq joined \cup {j + 1}
      BY <2>1 DEF JoinThread
    <3>2. j + 1 \in Threads
      BY <1>1, <3>1 DEF Threads
    <3>3. j + 1 \notin joined
      <4>1. j + 1 \notin 1 .. j
        BY <1>1
      <4>2. QED  BY <1>4, <4>1 DEF Frame
    <3>4. pc[j + 1] = "ended"
      BY <1>4, <3>1, <3>3 DEF JoinSucceeds, JoinFails, Frame
    <3>5. ASSUME NEW t \in Threads, t <= j + 1 PROVE pc[t] = "ended"
      <4>1. t = j + 1 \/ t <= j
        BY <1>1, <3>5 DEF Threads
      <4>2. QED  BY <1>4, <3>1, <3>4, <4>1 DEF Frame, Ended
    <3>6. joined' \subseteq 1 .. j + 1
      <4>1. 1 .. j \subseteq 1 .. j + 1 /\ j + 1 \in 1 .. j + 1
        BY <1>1
      <4>2. QED  BY <1>4, <3>1, <4>1 DEF Frame
    <3>7. Frame'
      BY <1>4, <3>1, <3>5, <3>6 DEF Frame, Ended
    <3>8. ArgPlaces'
      <4>1. j' \in Nat
        BY <1>1, <3>1
      <4>2. UNCHANGED <<cell, arg, printed, waiting>>
        BY <3>1 DEF argVars
      <4>3. QED  BY <3>1, <4>1, <4>2 DEF ArgPlaces
    <3>9. Arguments'
      BY <3>1 DEF Arguments, Written, argVars
    <3>10. QED  BY <3>1, <3>7, <3>8, <3>9 DEF argVars
  <2>2. CASE ReturnAfter(Size) /\ UNCHANGED argVars
    <3>1. /\ pc[Main] = "join" /\ j = Size /\ i' = i /\ j' = j
          /\ pc' = [pc EXCEPT ![Main] = "return"]
          /\ UNCHANGED <<detached, joined, printed>>
      BY <2>2 DEF ReturnAfter, Return, Goto, threadVars, argVars
    <3>2. (ArgPlaces /\ Arguments)'
      BY <1>1, <2>2, <3>1, MainGoesOn
    <3>3. pc'[Main] = "return" /\ \A t \in Threads : pc'[t] = pc[t]
      BY <3>1 DEF ArgPlaces
    <3>4. \A t \in Threads : pc[t] \in {"unborn", "ended"}
      BY <1>4, <3>1 DEF Frame, Arguments, Ended
    <3>5. Frame'
      BY <1>4, <3>1, <3>3, <3>4 DEF Frame, Ended
    <3>6. QED  BY <3>1, <3>2, <3>5
  <2>3. QED  BY <1>4, <2>1, <2>2 DEF Joins
<1>5. CASE /\ ~JoinsAll /\ ~Is("detach")
           /\ pc' = pc \/ pc' = [pc EXCEPT ![Main] = "return"]
           /\ i' = i /\ j' \in Nat /\ UNCHANGED argVars
  <2>1. Frame'
    BY <1>5 DEF Frame
  <2>2. CASE pc' = pc
    <3>1. ArgPlaces'
      BY <1>1, <1>5, <2>2 DEF ArgPlaces, argVars
    <3>2. Arguments'
      BY <1>5, <2>2 DEF Arguments, Written, argVars
    <3>3. QED  BY <1>5, <2>1, <3>1, <3>2 DEF argVars
  <2>3. CASE pc' = [pc EXCEPT ![Main] = "return"]
    BY <1>1, <1>5, <2>1, <2>3, MainGoesOn DEF argVars
  <2>4. QED  BY <1>5, <2>2, <2>3
<1>6. CASE /\ Is("detach")
           /\ \/ \E l \in {"joining", "exit"} : pc' = [pc EXCEPT ![Main] = l]
              \/ At(1, "ended") /\ pc' = [pc EXCEPT ![Main] = "return"]
           /\ i' = i /\ j' = j /\ UNCHANGED argVars
  <2>1. PICK l \in {"joining", "exit", "return"} : pc' = [pc EXCEPT ![Main] = l]
    BY <1>6
  <2>2. (ArgPlaces /\ Arguments)'
    BY <1>1, <1>6, <2>1, MainGoesOn
  <2>3. ASSUME pc'[Main] = "return", NEW t \in Threads PROVE pc'[t] \in {"unborn", "ended"}
    <3>1. pc[1] = "ended" /\ pc'[t] = pc[t]
      BY <1>6, <2>1, <2>3 DEF ArgPlaces
    <3>2. pc[t] # "unborn" => t <= 1
      BY <1>6 DEF Arguments, Size, Is
    <3>3. t <= 1 => t = 1
      BY DEF Threads
    <3>4. QED  BY <3>1, <3>2, <3>3
  <2>4. ~JoinsAll
    BY <1>6 DEF JoinsAll, Is
  <2>5. QED  BY <1>6, <2>2, <2>3, <2>4 DEF Frame, argVars
<1>7. CASE ExitProcess /\ UNCHANGED argVars
  <2>1. /\ pc[Main] # "unborn" /\ UNCHANGED <<i, j, detached, joined, argVars>>
        /\ pc' = [a \in Actors |-> IF a = Child \/ pc[a] = "unborn" THEN pc[a] ELSE "gone"]
    BY <1>7 DEF ExitProcess, mainVars, threadVars
  <2>2. /\ pc'[Main] = "gone" /\ pc' = [a \in Actors |-> pc'[a]]
        /\ \A t \in Threads : pc'[t] = IF pc[t] = "unborn" THEN "unborn" ELSE "gone"
    BY <2>1
  <2>3. \A t \in Threads : t \notin waiting
    <3>1. CASE Is("barrier")
      BY <1>7, <3>1 DEF ExitProcess, ArgPlaces, Frame, JoinsAll, Is
    <3>2. CASE ~Is("barrier")
      BY <3>2 DEF ArgPlaces
    <3>3. QED  BY <3>1, <3>2
  <2>4. ArgPlaces'
    BY <2>1, <2>2, <2>3 DEF ArgPlaces, argVars
  <2>5. Arguments'
    BY <2>1, <2>2 DEF Arguments, Written, argVars
  <2>6. Frame'
    BY <2>1, <2>2 DEF Frame, Ended
  <2>7. QED  BY <2>1, <2>4, <2>5, <2>6 DEF argVars
<1>8. CASE Is("detach") /\ DetachMain
  <2>1. Size = 1
    BY <1>8 DEF Size, Is
  <2>2. CASE StartWith(1, "start", AddressOf(1), [cell EXCEPT ![1] = 1])
    BY <1>2, <1>8, <2>2, StartsGivesArgument
  <2>3. CASE Loop(1)
    BY <1>3, <2>1, <2>3
  <2>4. CASE /\ At(Main, "join")
             /\ IF JoinFails(1) THEN Errx(1)
                ELSE Goto(Main, "joining") /\ UNCHANGED <<mainVars, threadVars>>
             /\ UNCHANGED argVars
    BY <1>6, <1>8, <2>4 DEF Errx, Goto, mainVars
  <2>5. CASE At(Main, "joining") /\ At(1, "ended") /\ Return(0) /\ UNCHANGED argVars
    BY <1>6, <1>8, <2>5 DEF Return, Goto
  <2>6. QED  BY <1>8, <2>2, <2>3, <2>4, <2>5 DEF DetachMain
<1>9. CASE Is("setdetach") /\ SetDetachMain
  <2>1. Size = 2 /\ ~JoinsAll /\ ~Is("detach")
    BY <1>9 DEF Size, Is, JoinsAll
  <2>2. CASE Loop(2)
    BY <1>3, <2>1, <2>2
  <2>3. CASE Joins(2, j + 1)
    BY <1>1, <1>5, <2>1, <2>3 DEF Joins, JoinThread, ReturnAfter, Return, Goto
  <2>4. CASE /\ At(Main, "create") /\ i < 2
             /\ pc' = [pc EXCEPT ![i + 1] = "loop", ![Main] = "next"]
             /\ arg' = [arg EXCEPT ![i + 1] = AddressOf(i + 1)]
             /\ cell' = [cell EXCEPT ![1] = 1, ![2] = 2]
             /\ UNCHANGED <<mainVars, count, joined, printed, waiting>>
    BY <1>2, <1>9, <2>4, SetDetachGivesArgument
  <2>5. QED  BY <1>9, <2>2, <2>3, <2>4 DEF SetDetachMain
<1>10. CASE (Is("join") /\ JoinMain) \/ (Is("correct") /\ CorrectMain)
            \/ (Is("barrier") /\ BarrierMain)
  <2>1. JoinsAll /\ Size = IF Is("join") THEN 2 ELSE N
    BY <1>10 DEF Size, Is, JoinsAll
  <2>2. Starts \/ Loop(Size) \/ Joins(Size, j + 1)
    BY <1>10, <2>1, StartsGivesArgument DEF JoinMain, CorrectMain, BarrierMain, Is
  <2>3. QED  BY <1>2, <1>3, <1>4, <2>1, <2>2
<1>11. CASE (Is("create") /\ CreateMain) \/ (Is("int") /\ IntMain) \/ (Is("wrong") /\ WrongMain)
  <2>1. ~JoinsAll /\ ~Is("detach") /\ Size = IF Is("create") THEN 1 ELSE N
    BY <1>11 DEF Size, Is, JoinsAll
  <2>2. \/ Starts \/ Loop(Size)
        \/ At(Main, "join") /\ Return(0) /\ UNCHANGED argVars
        \/ Joins(N, N)
    BY <1>11, <2>1, StartsGivesArgument DEF CreateMain, IntMain, WrongMain, Is
  <2>3. CASE (At(Main, "join") /\ Return(0) /\ UNCHANGED argVars) \/ Joins(N, N)
    BY <1>1, <1>5, <2>1, <2>3 DEF Joins, JoinThread, ReturnAfter, Return, Goto
  <2>4. QED  BY <1>2, <1>3, <2>2, <2>3
<1>12. QED
  BY <1>7, <1>8, <1>9, <1>10, <1>11 DEF ArgMain

\* What a thread in its loop reads is one of the numbers that it may print.
LEMMA ReadsOwnNumber ==
    ASSUME ArgPlaces, Arguments, Frame, program \in ArgPrograms,
           NEW t \in Threads, At(t, "loop")
    PROVE  Dereference(arg[t]) \in OwnNumbers(t)
<1>1. arg[t] = Given(t) /\ Written(t) /\ t <= i + 1 /\ i \in 0 .. N
  <2>1. i \in 0 .. N
    BY SizeFacts DEF ArgPlaces
  <2>2. QED  BY <2>1 DEF Arguments, At
<1>2. JoinsAll \/ Is("detach") => ~At(Main, "return")
  BY DEF Frame, At
<1>3. CASE program \in {"create", "int"}
  <2>1. PICK v : arg[t] = Number(v) /\ v = IF program = "int" THEN t - 1 ELSE 0
    BY <1>1, <1>3 DEF Given
  <2>2. arg[t].kind = "number" /\ arg[t].of = v
    BY <2>1 DEF Number
  <2>3. Dereference(arg[t]) = v
    BY <2>2 DEF Dereference
  <2>4. QED  BY <1>3, <2>1, <2>3 DEF OwnNumbers
<1>4. CASE program \in {"join", "detach"}
  <2>1. arg[t] = AddressOf(t) /\ cell[t] = t /\ ~At(Main, "return")
    BY <1>1, <1>2, <1>4 DEF Given, Written, JoinsAll, Is
  <2>2. Dereference(arg[t]) = t
    BY <2>1 DEF Dereference, AddressOf
  <2>3. QED  BY <1>4, <2>2 DEF OwnNumbers
<1>5. CASE program \in {"correct", "barrier"}
  <2>1. arg[t] = AddressOf(t - 1) /\ cell[t - 1] = t - 1 /\ ~At(Main, "return")
    BY <1>1, <1>2, <1>5 DEF Given, Written, JoinsAll
  <2>2. Dereference(arg[t]) = t - 1
    BY <2>1 DEF Dereference, AddressOf
  <2>3. QED  BY <1>5, <2>2 DEF OwnNumbers
<1>6. CASE program = "setdetach"
  <2>1. arg[t] = AddressOf(t) /\ cell[t] = t
    BY <1>1, <1>6 DEF Given, Written
  <2>2. Dereference(arg[t]) \in {t, Garbage}
    BY <2>1 DEF Dereference, AddressOf
  <2>3. QED  BY <1>6, <2>2 DEF OwnNumbers
<1>7. CASE program = "wrong"
  <2>1. arg[t] = AddressOfI
    BY <1>1, <1>7 DEF Given
  <2>2. Dereference(arg[t]) \in {i, Garbage}
    BY <2>1 DEF Dereference, AddressOfI
  <2>3. i \in t - 1 .. N
    BY <1>1, SizeFacts DEF Threads
  <2>4. QED  BY <1>7, <2>2, <2>3 DEF OwnNumbers
<1>8. QED  BY <1>3, <1>4, <1>5, <1>6, <1>7 DEF ArgPrograms

\* A thread that goes on to another place, "ended" or not.
LEMMA ThreadGoesOn ==
    ASSUME ArgPlaces, Arguments, Frame, program' = program,
           NEW t \in Threads, NEW l \in {"loop", "barrier", "ended"},
           pc[t] \in {"start", "loop"},
           pc' = [pc EXCEPT ![t] = l],
           printed' = [u \in Threads |-> printed'[u]],
           JoinsAll => UNCHANGED detached,
           UNCHANGED <<i, j, joined, cell, arg, waiting>>
    PROVE  (ArgPlaces /\ Arguments /\ Frame)'
<1> USE SizeFacts, SameProgramArguments, ActorFacts DEF At
<1>1. /\ pc' = [a \in Actors |-> pc'[a]] /\ pc'[Main] = pc[Main]
      /\ pc'[t] = l /\ \A u \in Threads : u # t => pc'[u] = pc[u]
  BY DEF ArgPlaces
<1>2. t \notin waiting
  BY DEF ArgPlaces
<1>3. waiting' \subseteq {u \in Threads : pc'[u] = "barrier"}
  BY <1>1, <1>2 DEF ArgPlaces
<1>4. ArgPlaces'
  BY <1>1, <1>3 DEF ArgPlaces
<1>5. Arguments'
  BY <1>1 DEF Arguments, Written
<1>6. Frame'
  <2>1. ~((JoinsAll \/ Is("detach")) /\ pc[Main] = "return")
    BY DEF Frame
  <2>2. JoinsAll /\ ~Ended => ~(t <= j)
    BY DEF Frame
  <2>3. Ended' <=> Ended
    BY <1>1 DEF Ended
  <2>4. QED  BY <1>1, <2>1, <2>2, <2>3 DEF Frame
<1>7. QED  BY <1>4, <1>5, <1>6

LEMMA BarrierWaitStep ==
    ASSUME ArgPlaces, Arguments, Frame, program' = program, Is("barrier"),
           NEW t \in Threads, BarrierWait(t)
    PROVE  (ArgPlaces /\ Arguments /\ Frame)'
<1> USE SizeFacts, SameProgramArguments, ActorFacts DEF At
<1>1. pc[t] = "barrier" /\ UNCHANGED <<i, j, detached, joined, cell, arg, printed>>
  BY DEF BarrierWait, mainVars
<1>2. CASE waiting \cup {t} = Threads
  <2>1. \A u \in Threads : pc[u] = "barrier"
    BY <1>1, <1>2 DEF ArgPlaces
  <2>2. /\ waiting' = {}
        /\ pc' = [a \in Actors |-> IF a \in Threads THEN "loop" ELSE pc[a]]
    BY <1>2 DEF BarrierWait
  <2>3. /\ pc' = [a \in Actors |-> pc'[a]] /\ pc'[Main] = pc[Main]
        /\ \A u \in Threads : pc'[u] = "loop"
    BY <2>2
  <2>4. ArgPlaces'
    BY <1>1, <2>2, <2>3 DEF ArgPlaces
  <2>5. Arguments'
    BY <1>1, <2>1, <2>3 DEF Arguments, Written
  <2>6. Frame'
    <3>1. pc[Main] # "return"
      BY <2>1 DEF Frame, JoinsAll, Is
    <3>2. Ended \/ \A u \in Threads : ~(u <= j)
      BY <2>1 DEF Frame, JoinsAll, Is
    <3>3. Ended' <=> Ended
      BY <2>3 DEF Ended
    <3>4. QED  BY <1>1, <2>3, <3>1, <3>2, <3>3 DEF Frame
  <2>7. QED  BY <2>4, <2>5, <2>6
<1>3. CASE waiting \cup {t} # Threads
  <2>1. waiting' = waiting \cup {t} /\ pc' = pc
    BY <1>3 DEF BarrierWait
  <2>2. QED
    BY <1>1, <2>1 DEF ArgPlaces, Arguments, Frame, Written, Ended
<1>4. QED  BY <1>2, <1>3

LEMMA ArgThreadStep ==
    ASSUME ArgInv, program \in ArgPrograms, program' = program,
           NEW t \in Threads, ArgThread(t)
    PROVE  ArgInv'
<1> USE SizeFacts, SameProgramArguments, ActorFacts DEF At
<1>1. ArgPlaces /\ Arguments /\ Frame /\ OwnArgument
  BY DEF ArgInv
<1>2. printed = [u \in Threads |-> printed[u]]
  BY <1>1 DEF ArgPlaces
<1>3. CASE LoopEnd(t, Loops) /\ UNCHANGED argVars
  <2>1. /\ pc[t] = "loop" /\ pc' = [pc EXCEPT ![t] = "ended"]
        /\ UNCHANGED <<i, j, detached, joined, cell, arg, printed, waiting>>
    BY <1>3 DEF LoopEnd, Goto, mainVars, threadVars, argVars
  <2>2. (ArgPlaces /\ Arguments /\ Frame)'
    BY <1>1, <1>2, <2>1, ThreadGoesOn
  <2>3. QED  BY <1>1, <2>1, <2>2 DEF ArgInv, OwnArgument
<1>4. CASE LoopTurn(t, Loops) /\ printed' = [printed EXCEPT ![t] = @ \cup {Dereference(arg[t])}]
           /\ UNCHANGED <<cell, arg, waiting>>
  <2>1. /\ pc[t] = "loop" /\ pc' = pc
        /\ UNCHANGED <<i, j, detached, joined, cell, arg, waiting>>
    BY <1>4 DEF LoopTurn, mainVars
  <2>2. Dereference(arg[t]) \in OwnNumbers(t)
    BY <1>1, <2>1, ReadsOwnNumber
  <2>3. OwnArgument' /\ printed' = [u \in Threads |-> printed'[u]]
    BY <1>1, <1>2, <1>4, <2>2 DEF OwnArgument
  <2>4. ArgPlaces'
    BY <1>1, <2>1, <2>3 DEF ArgPlaces
  <2>5. Arguments' /\ Frame'
    BY <1>1, <2>1 DEF Arguments, Frame, Written, Ended
  <2>6. QED  BY <2>3, <2>4, <2>5 DEF ArgInv
<1>5. CASE Is("detach") /\ DetachSelf(t)
  <2>1. /\ pc[t] = "start" /\ pc' = [pc EXCEPT ![t] = "loop"] /\ ~JoinsAll
        /\ UNCHANGED <<i, j, joined, cell, arg, printed, waiting>>
    BY <1>5 DEF DetachSelf, Goto, mainVars, argVars, JoinsAll, Is
  <2>2. (ArgPlaces /\ Arguments /\ Frame)'
    BY <1>1, <1>2, <2>1, ThreadGoesOn
  <2>3. QED  BY <1>1, <2>1, <2>2 DEF ArgInv, OwnArgument
<1>6. CASE Is("barrier") /\ Stage(t)
  <2>1. /\ pc[t] = "loop" /\ pc' = [pc EXCEPT ![t] = "barrier"]
        /\ UNCHANGED <<i, j, detached, joined, cell, arg, waiting>>
        /\ printed' = printed \/ printed' = [printed EXCEPT ![t] = {Dereference(arg[t])}]
    BY <1>6 DEF Stage, Goto, mainVars, threadVars
  <2>2. Dereference(arg[t]) \in OwnNumbers(t)
    BY <1>1, <2>1, ReadsOwnNumber
  <2>3. OwnArgument' /\ printed' = [u \in Threads |-> printed'[u]]
    BY <1>1, <1>2, <2>1, <2>2 DEF OwnArgument
  <2>4. (ArgPlaces /\ Arguments /\ Frame)'
    BY <1>1, <2>1, <2>3, ThreadGoesOn
  <2>5. QED  BY <2>3, <2>4 DEF ArgInv
<1>7. CASE Is("barrier") /\ BarrierWait(t)
  <2>1. (ArgPlaces /\ Arguments /\ Frame)' /\ UNCHANGED printed
    BY <1>1, <1>7, BarrierWaitStep DEF BarrierWait
  <2>2. QED  BY <1>1, <2>1 DEF ArgInv, OwnArgument
<1>8. QED
  BY <1>3, <1>4, <1>5, <1>6, <1>7 DEF ArgThread, PrintsArgument, Worker, argVars

LEMMA ArgInvariant == Spec => []ArgInv
<1>1. ArgInv /\ [Next]_vars => ArgInv'
  <2> SUFFICES ASSUME ArgInv, [Next]_vars PROVE ArgInv'
    OBVIOUS
  <2>1. program' = program
    BY SameProgram
  <2>2. CASE program \in ArgPrograms /\ Next
    <3>1. PICK a \in Actors : ArgStep(a)
      BY <2>2 DEF Next, Step, CancelStep, AddStep, ForkStep, RwlockStep, LockStep, Is,
                  RwPrograms, ForkPrograms, ArgPrograms
    <3>2. CASE a = Main
      <4>1. ArgMain
        BY <3>1, <3>2 DEF ArgStep
      <4>2. (ArgPlaces /\ Arguments /\ Frame)' /\ UNCHANGED printed
        BY <2>1, <2>2, <4>1, ArgMainStep DEF ArgInv
      <4>3. OwnArgument'
        BY <2>1, <4>2, SameProgramArguments DEF ArgInv, OwnArgument
      <4>4. QED  BY <4>2, <4>3 DEF ArgInv
    <3>3. CASE a # Main
      BY <2>1, <2>2, <3>1, <3>3, ArgThreadStep DEF ArgStep
    <3>4. QED  BY <3>2, <3>3
  <2>3. CASE program \notin ArgPrograms /\ Next
    <3>1. UNCHANGED printed
      BY <2>3 DEF Next, Step, ArgStep, CancelStep, AddStep, ForkStep, RwlockStep, LockStep,
                  argVars
    <3>2. QED  BY <2>1, <2>3, <3>1, SameProgramArguments DEF ArgInv, OwnArgument
  <2>4. CASE UNCHANGED vars
    <3>1. UNCHANGED <<program, pc, i, j, joined, detached, cell, arg, printed, waiting>>
      BY <2>4 DEF vars, programVars, mainVars, threadVars, argVars
    <3>2. QED
      BY <2>1, <3>1, SameProgramArguments
      DEF ArgInv, OwnArgument, ArgPlaces, Arguments, Frame, Written, At, Ended
  <2>5. QED  BY <2>2, <2>3, <2>4
<1>2. QED  BY ArgInvInit, <1>1, PTL DEF Spec

\* In every program the threads print the numbers they may: their own where main()
\* passes it in an int of its own and waits for them, whatever the scheduler does.
THEOREM ThreadsPrintTheirOwn == Spec => []OwnArgument
<1>1. ArgInv => OwnArgument
  BY DEF ArgInv
<1>2. QED  BY ArgInvariant, <1>1, PTL
-----------------------------------------------------------------------------
(* atomic-add.c: remainders, and the sums 1 + ... + c                        *)

LEMMA DivMod ==
    ASSUME NEW W \in Nat \ {0}, NEW a \in Int
    PROVE  a = W * (a \div W) + (a % W) /\ a % W \in 0 .. W - 1 /\ a \div W \in Int
<1>1. a % W \in 0 .. W - 1
  OBVIOUS
<1>2. a \div W \in Int
  OBVIOUS
<1>3. a = W * (a \div W) + (a % W)
  <2>1. W # 0 /\ W \in Int
    OBVIOUS
  <2>2. QED BY <2>1, SMT
<1>4. QED BY <1>1, <1>2, <1>3

LEMMA RemainderUnique ==
    ASSUME NEW W \in Nat \ {0}, NEW q \in Int, NEW r \in 0 .. W - 1,
           NEW p \in Int, NEW s \in 0 .. W - 1, W * q + r = W * p + s
    PROVE  r = s
<1>1. W * (q - p) = s - r
  OBVIOUS
<1>2. ASSUME q - p >= 1 PROVE FALSE
  <2>1. W * (q - p) >= W
    BY <1>2
  <2>2. QED BY <1>1, <2>1
<1>3. ASSUME q - p <= -1 PROVE FALSE
  <2>1. W * (q - p) <= -W
    BY <1>3
  <2>2. QED BY <1>1, <2>1
<1>4. q = p
  BY <1>2, <1>3
<1>5. QED BY <1>4

LEMMA ModShift ==
    ASSUME NEW W \in Nat \ {0}, NEW a \in Int, NEW k \in Int
    PROVE  (W * k + a) % W = a % W
<1>0. W * k \in Int /\ W * k + a \in Int
  OBVIOUS
<1>1. W * k + a = W * ((W * k + a) \div W) + ((W * k + a) % W)
  BY <1>0, DivMod
<1>2. a = W * (a \div W) + (a % W)
  BY DivMod
<1>3. W * (k + (a \div W)) = W * k + W * (a \div W)
  BY DivMod
<1>4. W * ((W * k + a) \div W) + ((W * k + a) % W) = W * (k + (a \div W)) + (a % W)
  BY <1>1, <1>2, <1>3, DivMod, <1>0
<1>5. ASSUME NEW q \in Int, NEW r \in 0 .. W - 1, NEW p \in Int, NEW s \in 0 .. W - 1,
             W * q + r = W * p + s
      PROVE  r = s
  BY <1>5, RemainderUnique
<1>6. /\ (W * k + a) \div W \in Int /\ k + (a \div W) \in Int
      /\ (W * k + a) % W \in 0 .. W - 1 /\ a % W \in 0 .. W - 1
  BY <1>0, DivMod
<1>7. QED  BY ONLY <1>4, <1>5, <1>6

LEMMA ModAdd ==
    ASSUME NEW W \in Nat \ {0}, NEW a \in Int, NEW d \in Int
    PROVE  ((a % W) + d) % W = (a + d) % W
<1>1. a + d = W * (a \div W) + ((a % W) + d)
  BY DivMod
<1>2. (a % W) + d \in Int /\ a \div W \in Int
  BY DivMod
<1>3. (W * (a \div W) + ((a % W) + d)) % W = ((a % W) + d) % W
  BY ONLY <1>2, ModShift, W \in Nat \ {0}
<1>4. QED  BY ONLY <1>1, <1>3

Tri(c) == (c * (c + 1)) \div 2

LEMMA TriNext == ASSUME NEW c \in Nat PROVE Tri(c + 1) = Tri(c) + (c + 1) /\ Tri(c) \in Nat
<1>1. (c + 1) * ((c + 1) + 1) = c * (c + 1) + 2 * (c + 1) /\ c * (c + 1) \in Nat
  OBVIOUS
<1>2. \A m \in Nat, b \in Nat : (m + 2 * b) \div 2 = (m \div 2) + b /\ m \div 2 \in Nat
  OBVIOUS
<1>3. QED BY <1>1, <1>2 DEF Tri
LEMMA TriMono == ASSUME NEW c \in Nat, NEW d \in Nat, c <= d PROVE Tri(c) <= Tri(d)
<1>1. c * (c + 1) <= d * (d + 1) /\ c * (c + 1) \in Nat /\ d * (d + 1) \in Nat
  OBVIOUS
<1>2. \A m \in Nat, b \in Nat : m <= b => m \div 2 <= b \div 2
  OBVIOUS
<1>3. QED BY <1>1, <1>2 DEF Tri
LEMMA Even == ASSUME NEW W \in Nat PROVE 2 * ((W * (W + 1)) \div 2) = W * (W + 1)
<1>1. PICK k \in Nat : W = 2 * k \/ W = 2 * k + 1
  <2>1. W \div 2 \in Nat /\ (W = 2 * (W \div 2) \/ W = 2 * (W \div 2) + 1)
    OBVIOUS
  <2>2. QED BY <2>1
<1>2. \A m \in Nat : (2 * m) \div 2 = m
  OBVIOUS
<1>3. CASE W = 2 * k
  <2>1. W * (W + 1) = 2 * (k * (W + 1)) /\ k * (W + 1) \in Nat
    BY <1>3
  <2>2. QED BY <1>2, <2>1
<1>4. CASE W = 2 * k + 1
  <2>1. W * (W + 1) = 2 * (W * (k + 1)) /\ W * (k + 1) \in Nat
    BY <1>4
  <2>2. QED BY <1>2, <2>1
<1>5. QED BY <1>1, <1>3, <1>4

-----------------------------------------------------------------------------
(* atomic-add.c: the invariant                                              *)

Turns == IF n > 0 THEN n - 1 ELSE 0   \* how often a thread adds
Sum == Tri(count[1]) + Tri(count[2])  \* what has been added

AddPlaces ==
    /\ pc = [a \in Actors |-> pc[a]] /\ count = [a \in Actors |-> count[a]]
    /\ tmp = [t \in Threads |-> tmp[t]]
    /\ i \in 0 .. 2 /\ (At(Main, "next") => i < 2) /\ n \in AddNs \cup {-1}
    /\ opt \in {"", "-a", "-m"}
    /\ \A t \in Threads \ {1, 2} : At(t, "unborn")
    /\ \A t \in {1, 2} :
          /\ count[t] \in 0 .. Turns
          /\ pc[t] \in {"unborn", "loop", "load", "store", "unlock", "ended", "gone"}
          /\ pc[t] \in {"load", "store"} => count[t] < Turns
          /\ pc[t] \in {"ended", "gone"} => count[t] = Turns
          /\ opt = "-a" => pc[t] \notin {"load", "store", "unlock"}
          /\ opt = "" => pc[t] \notin {"load", "unlock"}

AddJoin ==
    /\ j \in Nat /\ detached = {} /\ joined \subseteq 1 .. j /\ ~At(Main, "exit")
    /\ pc[Main] \in {"create", "next"} => j = 0
    /\ \A t \in {1, 2} : t <= j => pc[t] \in {"ended", "gone"}
    /\ pc[Main] \in {"return", "gone"} =>
          /\ \A t \in {1, 2} : pc[t] \in {"ended", "gone"}
          /\ verdict = IF x # (2 * X2) % Width THEN "RACE DETECTED" ELSE "OK"

\* With one of the options nothing is lost.
AddKept ==
    opt # "" =>
       /\ ~lost /\ x = Sum % Width
       /\ opt = "-m" => \A t \in {1, 2} :
             /\ pc[t] \in {"load", "store", "unlock"} => mutex = {t}
             /\ At(t, "store") => tmp[t] = x

\* Without them x and what the threads have loaded stay behind the sum from the moment
\* a store undoes an addition.
AddLost ==
    opt = "" /\ 2 * Tri(Turns) < Width =>
       /\ lost \in BOOLEAN /\ x \in Nat
       /\ IF lost THEN x < Sum ELSE x = Sum
       /\ \A t \in {1, 2} : At(t, "store") =>
             tmp[t] \in Nat /\ (IF lost THEN tmp[t] < Sum ELSE tmp[t] <= Sum)

AddInv == Is("add") => AddPlaces /\ AddJoin /\ AddKept /\ AddLost

LEMMA AddFacts ==
    ASSUME n \in AddNs \cup {-1}
    PROVE  n \in Int /\ Turns \in Nat /\ Width \in Nat \ {0}
  BY AddAssumption DEF Turns

LEMMA TriSum ==
    ASSUME NEW m \in Nat, NEW c \in 0 .. m, NEW d \in 0 .. m
    PROVE  /\ Tri(c) + Tri(d) \in Nat /\ Tri(c) + Tri(d) <= 2 * Tri(m)
           /\ Tri(c) \in Nat /\ Tri(d) \in Nat /\ Tri(m) \in Nat
<1>1. c \in Nat /\ d \in Nat /\ c <= m /\ d <= m
  OBVIOUS
<1>2. /\ Tri(c) \in Nat /\ Tri(d) \in Nat /\ Tri(m) \in Nat
      /\ Tri(c) <= Tri(m) /\ Tri(d) <= Tri(m)
  BY <1>1, TriNext, TriMono
<1>3. QED  BY ONLY <1>2

LEMMA CountFacts ==
    ASSUME AddPlaces
    PROVE  /\ Turns \in Nat /\ n \in Int
           /\ \A t \in {1, 2} : count[t] \in 0 .. Turns /\ count[t] \in Nat
<1>1. n \in AddNs \cup {-1} /\ \A t \in {1, 2} : count[t] \in 0 .. Turns
  BY DEF AddPlaces
<1>2. Turns \in Nat /\ n \in Int
  BY <1>1, AddFacts
<1>3. QED  BY ONLY <1>1, <1>2

LEMMA SumFacts ==
    ASSUME AddPlaces
    PROVE  Sum \in Nat /\ Sum <= 2 * Tri(Turns) /\ Tri(Turns) \in Nat
  BY CountFacts, TriSum DEF Sum

LEMMA AddInvInit == Init => AddInv
<1> SUFFICES ASSUME Init, Is("add") PROVE AddPlaces /\ AddJoin /\ AddKept /\ AddLost
  BY DEF AddInv
<1>1. /\ pc = [a \in Actors |-> IF a = Main THEN "create" ELSE "unborn"]
      /\ i = 0 /\ j = 0 /\ joined = {} /\ detached = {} /\ count = [a \in Actors |-> 0]
      /\ n \in AddNs \cup {-1} /\ x = 0 /\ lost = FALSE /\ tmp = [t \in Threads |-> 0]
  BY DEF Init, PthreadsInit, AddInit, Is
<1>2. pc[Main] = "create" /\ \A t \in Threads : pc[t] = "unborn" /\ count[t] = 0
  BY <1>1, ActorFacts
<1>3. opt \in {"", "-a", "-m"}
  BY DEF Init, CommandLines, ArgPrograms, RwPrograms, Is
<1>4. AddPlaces
  <2>1. 0 \in 0 .. Turns /\ 0 \in 0 .. 2
    BY <1>1, AddFacts
  <2>2. QED  BY <1>1, <1>2, <1>3, <2>1, ActorFacts DEF AddPlaces, At
<1>5. AddJoin
  <2>1. \A t \in {1, 2} : ~(t <= j)
    BY <1>1
  <2>2. j \in Nat /\ joined \subseteq 1 .. j
    BY <1>1
  <2>3. QED  BY <1>1, <1>2, <2>1, <2>2 DEF AddJoin, At
<1>6. Sum = 0
  <2>1. Tri(0) = 0
    BY DEF Tri
  <2>2. count[1] = 0 /\ count[2] = 0
    BY <1>2, ActorFacts
  <2>3. QED  BY <2>1, <2>2 DEF Sum
<1>7. 0 % Width = 0
  BY AddAssumption
<1>8. AddKept /\ AddLost
  BY <1>1, <1>2, <1>6, <1>7, ActorFacts DEF AddKept, AddLost, At
<1>9. QED  BY <1>4, <1>5, <1>8

\* The steps of main() leave the sums alone.
LEMMA AddMainSums ==
    ASSUME AddPlaces, AddKept, AddLost, opt' = opt,
           UNCHANGED <<count, n, x, tmp, mutex, lost>>,
           \A t \in {1, 2} : pc'[t] \in {"load", "store", "unlock"} => pc'[t] = pc[t]
    PROVE  AddKept' /\ AddLost'
<1>1. Sum' = Sum /\ Turns' = Turns /\ Tri(Turns)' = Tri(Turns)
  BY DEF Sum, Turns, Tri
<1>2. QED  BY <1>1 DEF AddKept, AddLost, At

LEMMA AddMainStep ==
    ASSUME AddPlaces, AddJoin, AddMain, opt' = opt
    PROVE  /\ AddPlaces' /\ AddJoin' /\ UNCHANGED <<count, n, x, tmp, mutex, lost>>
           /\ \A t \in {1, 2} : pc'[t] \in {"load", "store", "unlock"} => pc'[t] = pc[t]
<1> USE ActorFacts DEF At
<1>1. i \in Nat /\ j \in Nat /\ i \in 0 .. 2
  <2>1. i \in 0 .. 2 /\ j \in Nat
    BY DEF AddPlaces, AddJoin
  <2>2. QED  BY ONLY <2>1
<1>2. UNCHANGED <<count, n, x, tmp, mutex, lost, detached>>
  BY DEF AddMain, StartThread, Increment, Started, JoinThread, ReturnAfter, Return,
         ExitProcess, addVars, threadVars
<1>3. X2' = X2 /\ Turns' = Turns
  BY <1>2 DEF X2, Turns
<1>4. CASE StartThread(2, "loop") /\ UNCHANGED addVars
  <2>1. /\ pc[Main] = "create" /\ i < 2 /\ UNCHANGED <<i, j, joined>>
        /\ pc' = [pc EXCEPT ![i + 1] = "loop", ![Main] = "next"]
    BY <1>4 DEF StartThread, mainVars, threadVars
  <2>2. i + 1 \in {1, 2} /\ i + 1 \in Actors /\ i + 1 # Main
    BY <1>1, <2>1 DEF Actors, Main
  <2>3. /\ pc' = [a \in Actors |-> pc'[a]] /\ pc'[Main] = "next" /\ pc'[i + 1] = "loop"
        /\ \A t \in Threads : t # i + 1 => pc'[t] = pc[t]
    BY <2>1, <2>2 DEF AddPlaces
  <2>4. AddPlaces'
    <3>1. \A t \in {1, 2} : t \in Threads /\ (pc'[t] = "loop" \/ pc'[t] = pc[t])
      BY <2>3
    <3>2. \A t \in Threads \ {1, 2} : pc'[t] = "unborn"
      BY <2>2, <2>3 DEF AddPlaces
    <3>3. i' \in 0 .. 2 /\ i' < 2
      BY <1>1, <2>1
    <3>4. QED  BY <1>2, <1>3, <2>3, <3>1, <3>2, <3>3 DEF AddPlaces
  <2>5. AddJoin'
    <3>1. j = 0 /\ ~(1 <= j) /\ ~(2 <= j)
      BY <2>1 DEF AddJoin
    <3>2. QED  BY <1>2, <2>1, <2>3, <3>1 DEF AddJoin
  <2>6. QED  BY <1>2, <2>2, <2>3, <2>4, <2>5
<1>5. CASE Increment /\ UNCHANGED addVars
  <2>1. /\ pc[Main] = "next" /\ i' = i + 1 /\ UNCHANGED <<j, joined>>
        /\ pc' = [pc EXCEPT ![Main] = "create"]
    BY <1>5 DEF Increment, Goto, threadVars
  <2>2. i' \in 0 .. 2
    <3>1. i < 2
      BY <2>1 DEF AddPlaces
    <3>2. QED  BY ONLY <1>1, <2>1, <3>1
  <2>3. /\ pc' = [a \in Actors |-> pc'[a]] /\ pc'[Main] = "create"
        /\ \A t \in Threads : pc'[t] = pc[t]
    BY <2>1 DEF AddPlaces
  <2>4. AddPlaces'
    BY <1>2, <1>3, <2>1, <2>2, <2>3 DEF AddPlaces
  <2>5. AddJoin'
    BY <1>2, <2>1, <2>3 DEF AddJoin
  <2>6. QED  BY <1>2, <2>3, <2>4, <2>5
<1>6. CASE Started(2) /\ UNCHANGED addVars
  <2>1. /\ UNCHANGED <<i, j, joined>> /\ pc' = [pc EXCEPT ![Main] = "join"]
    BY <1>6 DEF Started, Goto, mainVars, threadVars
  <2>2. /\ pc' = [a \in Actors |-> pc'[a]] /\ pc'[Main] = "join"
        /\ \A t \in Threads : pc'[t] = pc[t]
    BY <2>1 DEF AddPlaces
  <2>3. AddPlaces'
    BY <1>2, <1>3, <2>1, <2>2 DEF AddPlaces
  <2>4. AddJoin'
    BY <1>2, <2>1, <2>2 DEF AddJoin
  <2>5. QED  BY <1>2, <2>2, <2>3, <2>4
<1>7. CASE JoinThread(2, j + 1) /\ UNCHANGED addVars
  <2>1. /\ pc[Main] = "join" /\ j < 2 /\ i' = i /\ j' = j + 1 /\ pc' = pc
        /\ JoinSucceeds(j + 1) \/ JoinFails(j + 1)
        /\ joined' \subseteq joined \cup {j + 1}
    BY <1>7 DEF JoinThread
  <2>2. j + 1 \notin joined
    <3>1. j + 1 \notin 1 .. j
      BY <1>1
    <3>2. QED  BY <3>1 DEF AddJoin
  <2>3. pc[j + 1] = "ended"
    BY <2>1, <2>2 DEF JoinSucceeds, JoinFails, AddJoin
  <2>4. ASSUME NEW t \in {1, 2}, t <= j + 1 PROVE pc[t] \in {"ended", "gone"}
    <3>1. t = j + 1 \/ t <= j
      BY <1>1, <2>4
    <3>2. QED  BY <2>3, <3>1 DEF AddJoin
  <2>5. joined' \subseteq 1 .. j + 1 /\ j + 1 \in Nat
    <3>1. 1 .. j \subseteq 1 .. j + 1 /\ j + 1 \in 1 .. j + 1 /\ j + 1 \in Nat
      BY <1>1
    <3>2. QED  BY <2>1, <3>1 DEF AddJoin
  <2>6. AddJoin'
    BY <1>2, <2>1, <2>4, <2>5 DEF AddJoin
  <2>7. AddPlaces'
    BY <1>2, <1>3, <2>1 DEF AddPlaces
  <2>8. QED  BY <1>2, <2>1, <2>6, <2>7
<1>8. CASE /\ ReturnAfter(2)
           /\ verdict' = IF x # (2 * X2) % Width THEN "RACE DETECTED" ELSE "OK"
  <2>1. /\ pc[Main] = "join" /\ j = 2 /\ UNCHANGED <<i, j, joined>>
        /\ pc' = [pc EXCEPT ![Main] = "return"]
    BY <1>8 DEF ReturnAfter, Return, Goto, threadVars
  <2>2. /\ pc' = [a \in Actors |-> pc'[a]] /\ pc'[Main] = "return"
        /\ \A t \in Threads : pc'[t] = pc[t]
    BY <2>1 DEF AddPlaces
  <2>3. \A t \in {1, 2} : pc[t] \in {"ended", "gone"}
    BY <2>1 DEF AddJoin
  <2>4. AddJoin'
    BY <1>2, <1>3, <1>8, <2>1, <2>2, <2>3 DEF AddJoin
  <2>5. AddPlaces'
    BY <1>2, <1>3, <2>1, <2>2 DEF AddPlaces
  <2>6. QED  BY <1>2, <2>2, <2>4, <2>5
<1>9. CASE ExitProcess /\ UNCHANGED addVars
  <2>1. /\ pc[Main] = "return" /\ UNCHANGED <<i, j, joined, verdict>>
        /\ pc' = [a \in Actors |-> IF a = Child \/ pc[a] = "unborn" THEN pc[a] ELSE "gone"]
    BY <1>9 DEF ExitProcess, mainVars, threadVars, addVars, AddJoin
  <2>2. \A t \in {1, 2} : pc[t] \in {"ended", "gone"}
    BY <2>1 DEF AddJoin
  <2>3. /\ pc' = [a \in Actors |-> pc'[a]] /\ pc'[Main] = "gone"
        /\ \A t \in {1, 2} : pc'[t] = "gone" /\ count[t] = Turns
        /\ \A t \in Threads \ {1, 2} : pc'[t] = "unborn"
    BY <2>1, <2>2 DEF AddPlaces
  <2>4. AddJoin'
    BY <1>2, <1>3, <2>1, <2>3 DEF AddJoin
  <2>5. AddPlaces'
    BY <1>2, <1>3, <2>1, <2>3 DEF AddPlaces
  <2>6. QED  BY <1>2, <2>3, <2>4, <2>5
<1>10. QED
  BY <1>4, <1>5, <1>6, <1>7, <1>8, <1>9 DEF AddMain

\* A thread that goes on: main() has not joined it, and has not compared the sums.
LEMMA AddThreadPlaces ==
    ASSUME AddPlaces, AddJoin, opt' = opt,
           NEW t \in {1, 2}, pc[t] \in {"loop", "load", "store", "unlock"},
           NEW l \in {"loop", "load", "store", "unlock", "ended"},
           pc' = [pc EXCEPT ![t] = l],
           NEW c \in 0 .. Turns, count' = [count EXCEPT ![t] = c],
           tmp' = [u \in Threads |-> tmp'[u]],
           l \in {"load", "store"} => c < Turns, l = "ended" => c = Turns,
           opt = "-a" => l \notin {"load", "store", "unlock"},
           opt = "" => l \notin {"load", "unlock"},
           UNCHANGED <<i, j, n, joined, detached, verdict>>
    PROVE  AddPlaces' /\ AddJoin'
<1> USE ActorFacts DEF At
<1>1. /\ pc' = [a \in Actors |-> pc'[a]] /\ pc'[Main] = pc[Main] /\ pc'[t] = l
      /\ \A u \in Threads : u # t => pc'[u] = pc[u]
  BY DEF AddPlaces
<1>2. /\ count' = [a \in Actors |-> count'[a]] /\ count'[t] = c
      /\ \A u \in Threads : u # t => count'[u] = count[u]
  BY DEF AddPlaces
<1>3. Turns' = Turns
  BY DEF Turns
<1>4. \A u \in Threads \ {1, 2} : pc'[u] = "unborn"
  BY <1>1 DEF AddPlaces
<1>5. ASSUME NEW u \in {1, 2}
      PROVE  /\ count'[u] \in 0 .. Turns
             /\ pc'[u] \in {"unborn", "loop", "load", "store", "unlock", "ended", "gone"}
             /\ pc'[u] \in {"load", "store"} => count'[u] < Turns
             /\ pc'[u] \in {"ended", "gone"} => count'[u] = Turns
             /\ opt = "-a" => pc'[u] \notin {"load", "store", "unlock"}
             /\ opt = "" => pc'[u] \notin {"load", "unlock"}
  <2>1. CASE u = t
    <3>1. pc'[u] = l /\ count'[u] = c
      BY <1>1, <1>2, <2>1
    <3>2. l # "gone" /\ l # "unborn"
      OBVIOUS
    <3>3. QED  BY <3>1, <3>2
  <2>2. CASE u # t
    BY <1>1, <1>2, <2>2 DEF AddPlaces
  <2>3. QED  BY <2>1, <2>2
<1>6. AddPlaces'
  BY <1>1, <1>2, <1>3, <1>4, <1>5 DEF AddPlaces
<1>7. pc[Main] \notin {"return", "gone"} /\ ~(t <= j)
  BY DEF AddJoin
<1>8. AddJoin'
  BY <1>1, <1>7 DEF AddJoin
<1>9. QED  BY <1>6, <1>8

LEMMA SumNext ==
    ASSUME AddPlaces, NEW t \in {1, 2}, count' = [count EXCEPT ![t] = @ + 1]
    PROVE  Sum' = Sum + I(t) /\ I(t) \in Nat /\ I(t) >= 1
<1>1. count[1] \in Nat /\ count[2] \in Nat
  BY CountFacts
<1>2. count'[t] = count[t] + 1 /\ \A u \in {1, 2} : u # t => count'[u] = count[u]
  BY ActorFacts DEF AddPlaces
<1>3. CASE t = 1
  <2>1. count'[1] = count[1] + 1 /\ count'[2] = count[2]
    BY <1>2, <1>3
  <2>2. Sum' = Tri(count[1] + 1) + Tri(count[2])
    BY <2>1 DEF Sum, Tri
  <2>3. Tri(count[1] + 1) = Tri(count[1]) + (count[1] + 1)
        /\ Tri(count[1]) \in Nat /\ Tri(count[2]) \in Nat
    BY <1>1, TriNext
  <2>4. QED  BY <1>1, <1>3, <2>2, <2>3 DEF Sum, I
<1>4. CASE t = 2
  <2>1. count'[2] = count[2] + 1 /\ count'[1] = count[1]
    BY <1>2, <1>4
  <2>2. Sum' = Tri(count[1]) + Tri(count[2] + 1)
    BY <2>1 DEF Sum, Tri
  <2>3. Tri(count[2] + 1) = Tri(count[2]) + (count[2] + 1)
        /\ Tri(count[1]) \in Nat /\ Tri(count[2]) \in Nat
    BY <1>1, TriNext
  <2>4. QED  BY <1>1, <1>4, <2>2, <2>3 DEF Sum, I
<1>5. QED  BY <1>3, <1>4

LEMMA AddThreadStep ==
    ASSUME AddPlaces, AddJoin, AddKept, AddLost, opt' = opt, NEW t \in {1, 2}, Count(t)
    PROVE  (AddPlaces /\ AddJoin /\ AddKept /\ AddLost)'
<1> USE ActorFacts DEF At
<1>1. /\ count[t] \in 0 .. Turns /\ count[t] \in Nat /\ n \in Int /\ Turns \in Nat
      /\ pc = [a \in Actors |-> pc[a]] /\ count = [a \in Actors |-> count[a]]
      /\ tmp = [u \in Threads |-> tmp[u]]
  BY CountFacts DEF AddPlaces
<1>2. I(t) < n => count[t] < Turns /\ count[t] + 1 \in 0 .. Turns
  BY <1>1 DEF I, Turns
<1>3. I(t) >= n => count[t] = Turns
  BY <1>1 DEF I, Turns
<1>4. count = [count EXCEPT ![t] = count[t]] /\ pc = [pc EXCEPT ![t] = pc[t]]
  BY <1>1
<1>5. Sum \in Nat /\ Sum <= 2 * Tri(Turns) /\ Tri(Turns) \in Nat /\ Width \in Nat \ {0}
  BY SumFacts, AddAssumption
<1>6. n' = n => Turns' = Turns /\ Tri(Turns)' = Tri(Turns)
  BY DEF Turns, Tri
<1>7. CASE FetchAdd(t)
  <2>1. /\ opt = "-a" /\ pc[t] = "loop" /\ I(t) < n /\ x' = (x + I(t)) % Width
        /\ count' = [count EXCEPT ![t] = @ + 1] /\ pc' = pc
        /\ UNCHANGED <<i, j, detached, joined, n, tmp, mutex, lost, verdict>>
    BY <1>7 DEF FetchAdd, mainVars
  <2>2. AddPlaces' /\ AddJoin'
    <3>1. count' = [count EXCEPT ![t] = count[t] + 1] /\ pc' = [pc EXCEPT ![t] = "loop"]
      BY <1>4, <2>1
    <3>2. QED  BY <1>1, <1>2, <2>1, <3>1, AddThreadPlaces
  <2>3. x' = Sum' % Width
    <3>1. x = Sum % Width
      BY <2>1 DEF AddKept
    <3>2. Sum' = Sum + I(t) /\ I(t) \in Nat
      BY <2>1, SumNext
    <3>3. ((Sum % Width) + I(t)) % Width = (Sum + I(t)) % Width
      <4>1. Sum \in Int /\ I(t) \in Int /\ Width \in Nat \ {0}
        BY <1>5, <3>2
      <4>2. QED  BY ONLY <4>1, ModAdd
    <3>4. QED  BY <2>1, <3>1, <3>2, <3>3
  <2>4. AddKept' /\ AddLost'
    BY <2>1, <2>3 DEF AddKept, AddLost
  <2>5. QED  BY <2>2, <2>4
<1>8. CASE Lock(t)
  <2>1. /\ opt = "-m" /\ pc[t] = "loop" /\ I(t) < n /\ mutex = {} /\ mutex' = {t}
        /\ pc' = [pc EXCEPT ![t] = "load"]
        /\ UNCHANGED <<i, j, detached, joined, count, n, x, tmp, lost, verdict>>
    BY <1>8 DEF Lock, Goto, mainVars, threadVars
  <2>2. AddPlaces' /\ AddJoin'
    BY <1>1, <1>2, <1>4, <2>1, AddThreadPlaces
  <2>3. Sum' = Sum
    BY <2>1 DEF Sum, Tri
  <2>4. AddKept' /\ AddLost'
    <3>1. \A u \in {1, 2} : pc[u] \notin {"load", "store", "unlock"}
      BY <2>1 DEF AddKept
    <3>2. pc'[t] = "load" /\ \A u \in {1, 2} : u # t => pc'[u] = pc[u]
      BY <1>1, <2>1
    <3>3. QED  BY <2>1, <2>3, <3>1, <3>2 DEF AddKept, AddLost
  <2>5. QED  BY <2>2, <2>4
<1>9. CASE Load(t)
  <2>1. /\ pc[t] = "load" \/ (pc[t] = "loop" /\ opt = "" /\ I(t) < n)
        /\ tmp' = [tmp EXCEPT ![t] = x]
        /\ pc' = [pc EXCEPT ![t] = "store"]
        /\ UNCHANGED <<i, j, detached, joined, count, n, x, mutex, lost, verdict>>
    BY <1>9 DEF Load, Goto, mainVars, threadVars
  <2>2. count[t] < Turns /\ opt # "-a"
    BY <1>2, <2>1 DEF AddPlaces
  <2>3. tmp' = [u \in Threads |-> tmp'[u]] /\ tmp'[t] = x
        /\ \A u \in {1, 2} : u # t => tmp'[u] = tmp[u]
    BY <1>1, <2>1
  <2>4. AddPlaces' /\ AddJoin'
    BY <1>1, <1>4, <2>1, <2>2, <2>3, AddThreadPlaces
  <2>5. Sum' = Sum
    BY <2>1 DEF Sum, Tri
  <2>6. pc'[t] = "store" /\ \A u \in {1, 2} : u # t => pc'[u] = pc[u]
    BY <1>1, <2>1
  <2>7. AddKept'
    <3>1. opt = "-m" => pc[t] = "load"
      BY <2>1
    <3>2. QED  BY <2>1, <2>2, <2>3, <2>5, <2>6, <3>1 DEF AddKept
  <2>8. AddLost'
    <3>1. SUFFICES ASSUME opt = "", 2 * Tri(Turns) < Width PROVE AddLost'
      BY <1>6, <2>1 DEF AddLost
    <3>2. lost \in BOOLEAN /\ x \in Nat /\ IF lost THEN x < Sum ELSE x = Sum
      BY <3>1 DEF AddLost
    <3>3. IF lost THEN x < Sum ELSE x <= Sum
      BY <1>5, <3>2
    <3>4. ASSUME NEW u \in {1, 2}, pc'[u] = "store"
          PROVE  tmp'[u] \in Nat /\ (IF lost THEN tmp'[u] < Sum ELSE tmp'[u] <= Sum)
      <4>1. CASE u = t
        BY <2>3, <3>2, <3>3, <4>1
      <4>2. CASE u # t
        BY <2>3, <2>6, <3>1, <3>4, <4>2 DEF AddLost
      <4>3. QED  BY <4>1, <4>2
    <3>5. QED  BY <2>1, <2>5, <3>2, <3>4 DEF AddLost
  <2>9. QED  BY <2>4, <2>7, <2>8
<1>10. CASE Store(t)
  <2> DEFINE l == IF opt = "-m" THEN "unlock" ELSE "loop"
  <2>1. /\ pc[t] = "store" /\ x' = (tmp[t] + I(t)) % Width
        /\ count' = [count EXCEPT ![t] = @ + 1]
        /\ pc' = [pc EXCEPT ![t] = l]
        /\ UNCHANGED <<i, j, detached, joined, n, tmp, mutex, verdict>>
    BY <1>10 DEF Store, Goto, mainVars
  <2>2. count[t] < Turns /\ opt \in {"", "-m"} /\ count[t] + 1 \in 0 .. Turns
    <3>1. count[t] < Turns /\ opt \in {"", "-m"}
      BY <2>1 DEF AddPlaces
    <3>2. count[t] \in Nat /\ Turns \in Nat /\ count[t] < Turns
      BY <1>1, <3>1
    <3>3. count[t] + 1 \in 0 .. Turns
      <4>1. \A c, m \in Nat : c < m => c + 1 \in 0 .. m
        OBVIOUS
      <4>2. QED  BY ONLY <3>2, <4>1
    <3>4. QED  BY ONLY <3>1, <3>3
  <2>3. AddPlaces' /\ AddJoin'
    <3>1. count' = [count EXCEPT ![t] = count[t] + 1]
      BY <2>1
    <3>2. l \in {"loop", "unlock"} /\ (opt = "" => l = "loop")
      BY <2>2
    <3>3. QED  BY <1>1, <2>1, <2>2, <3>1, <3>2, AddThreadPlaces
  <2>4. Sum' = Sum + I(t) /\ I(t) \in Nat /\ I(t) >= 1
    BY <2>1, SumNext
  <2>5. pc'[t] = l /\ \A u \in {1, 2} : u # t => pc'[u] = pc[u]
    BY <1>1, <2>1
  <2>6. CASE opt = "-m"
    <3>1. ~lost /\ tmp[t] = x /\ x = Sum % Width /\ mutex = {t}
      BY <2>1, <2>6 DEF AddKept
    <3>2. x' = Sum' % Width
      <4>1. ((Sum % Width) + I(t)) % Width = (Sum + I(t)) % Width
        <5>1. Sum \in Int /\ I(t) \in Int /\ Width \in Nat \ {0}
          BY <1>5, <2>4
        <5>2. QED  BY ONLY <5>1, ModAdd
      <4>2. QED  BY <2>1, <2>4, <3>1, <4>1
    <3>3. ~lost'
      BY <1>10, <3>1 DEF Store
    <3>4. \A u \in {1, 2} : u # t => pc'[u] \notin {"load", "store", "unlock"}
      BY <2>5, <2>6, <3>1 DEF AddKept
    <3>5. QED  BY <2>1, <2>3, <2>5, <2>6, <3>1, <3>2, <3>3, <3>4 DEF AddKept, AddLost
  <2>7. CASE opt = "" /\ 2 * Tri(Turns) < Width
    <3>1. /\ lost \in BOOLEAN /\ x \in Nat /\ tmp[t] \in Nat
          /\ IF lost THEN x < Sum ELSE x = Sum
          /\ IF lost THEN tmp[t] < Sum ELSE tmp[t] <= Sum
      BY <2>1, <2>7 DEF AddLost
    <3>2. x' = tmp[t] + I(t)
      <4>1. Sum' <= 2 * Tri(Turns)
        <5>1. count'[1] \in 0 .. Turns /\ count'[2] \in 0 .. Turns
          BY <1>6, <2>1, <2>3 DEF AddPlaces
        <5>2. Tri(count'[1]) + Tri(count'[2]) <= 2 * Tri(Turns)
          BY <1>1, <5>1, TriSum
        <5>3. QED  BY <5>2 DEF Sum, Tri
      <4>2. tmp[t] <= Sum
        BY <1>5, <3>1
      <4>3. tmp[t] + I(t) < Width /\ tmp[t] + I(t) \in Nat
        <5>1. tmp[t] + I(t) <= Sum'
          BY ONLY <1>5, <2>4, <3>1, <4>2
        <5>2. 2 * Tri(Turns) \in Nat /\ Sum' \in Nat
          BY ONLY <1>5, <2>4
        <5>3. Sum' < Width
          <6>1. 2 * Tri(Turns) < Width /\ Width \in Nat
            BY <1>5, <2>7
          <6>2. QED  BY ONLY <4>1, <5>2, <6>1
        <5>4. QED  BY ONLY <1>5, <2>4, <3>1, <5>1, <5>2, <5>3
      <4>4. \A a \in Nat : a < Width => a % Width = a
        BY <1>5
      <4>5. QED  BY <2>1, <4>3, <4>4
    <3>3. lost' = (lost \/ x # tmp[t])
      BY <1>10 DEF Store
    <3>4. lost' \in BOOLEAN /\ (IF lost' THEN x' < Sum' ELSE x' = Sum')
      <4>1. CASE lost \/ x # tmp[t]
        <5>1. lost' = TRUE
          BY <3>3, <4>1
        <5>2. tmp[t] < Sum
          BY <1>5, <3>1, <4>1
        <5>3. tmp[t] + I(t) < Sum + I(t)
          BY ONLY <1>5, <2>4, <3>1, <5>2
        <5>4. QED  BY <2>4, <3>2, <5>1, <5>3
      <4>2. CASE ~lost /\ x = tmp[t]
        <5>1. lost' = FALSE
          BY <3>1, <3>3, <4>2
        <5>2. QED  BY <2>4, <3>1, <3>2, <4>2, <5>1
      <4>3. QED  BY <4>1, <4>2
    <3>5. ASSUME NEW u \in {1, 2}, pc'[u] = "store"
          PROVE  tmp'[u] \in Nat /\ tmp'[u] < Sum'
      <4>1. u # t /\ pc[u] = "store"
        BY <2>5, <2>7, <3>5
      <4>2. tmp[u] \in Nat /\ tmp[u] <= Sum
        <5>1. tmp[u] \in Nat /\ (IF lost THEN tmp[u] < Sum ELSE tmp[u] <= Sum)
          BY <2>7, <4>1 DEF AddLost
        <5>2. QED  BY ONLY <1>5, <5>1
      <4>3. QED  BY <1>5, <2>1, <2>4, <4>2
    <3>6. x' \in Nat
      BY <2>4, <3>1, <3>2
    <3>7. AddLost'
      <4>1. \A u \in {1, 2} : pc'[u] = "store" =>
               tmp'[u] \in Nat /\ (IF lost' THEN tmp'[u] < Sum' ELSE tmp'[u] <= Sum')
        BY <1>5, <2>4, <3>5
      <4>2. QED  BY <3>4, <3>6, <4>1 DEF AddLost
    <3>8. QED  BY <2>3, <2>7, <3>7 DEF AddKept
  <2>8. CASE opt = "" /\ ~(2 * Tri(Turns) < Width)
    BY <1>6, <2>1, <2>3, <2>8 DEF AddKept, AddLost
  <2>9. QED  BY <2>2, <2>6, <2>7, <2>8
<1>11. CASE Unlock(t)
  <2>1. /\ pc[t] = "unlock" /\ mutex' = {} /\ pc' = [pc EXCEPT ![t] = "loop"]
        /\ UNCHANGED <<i, j, detached, joined, count, n, x, tmp, lost, verdict>>
    BY <1>11 DEF Unlock, Goto, mainVars, threadVars
  <2>2. opt = "-m"
    BY <2>1 DEF AddPlaces
  <2>3. AddPlaces' /\ AddJoin'
    BY <1>1, <1>4, <2>1, AddThreadPlaces
  <2>4. Sum' = Sum
    BY <2>1 DEF Sum, Tri
  <2>5. pc'[t] = "loop" /\ \A u \in {1, 2} : u # t => pc'[u] \notin {"load", "store", "unlock"}
    BY <1>1, <2>1, <2>2 DEF AddKept
  <2>6. QED  BY <2>1, <2>2, <2>3, <2>4, <2>5 DEF AddKept, AddLost
<1>12. CASE /\ pc[t] = "loop" /\ I(t) >= n /\ Goto(t, "ended")
            /\ UNCHANGED <<mainVars, threadVars, addVars>>
  <2>1. /\ pc' = [pc EXCEPT ![t] = "ended"]
        /\ UNCHANGED <<i, j, detached, joined, count, n, x, tmp, mutex, lost, verdict>>
    BY <1>12 DEF Goto, mainVars, threadVars, addVars
  <2>2. AddPlaces' /\ AddJoin'
    BY <1>1, <1>3, <1>4, <1>12, <2>1, AddThreadPlaces
  <2>3. pc'[t] = "ended" /\ \A u \in {1, 2} : u # t => pc'[u] = pc[u]
    BY <1>1, <2>1
  <2>4. QED  BY <2>1, <2>2, <2>3, AddMainSums
<1>13. QED
  BY <1>7, <1>8, <1>9, <1>10, <1>11, <1>12 DEF Count

\* What main() adds up to, for a number of cycles that is not negative, and for -1.
LEMMA X2IsSum ==
    ASSUME n \in AddNs
    PROVE  X2 = Tri(Turns)
<1>1. n \in Nat /\ n < Width /\ Width \in Nat \ {0}
  BY AddAssumption
<1>2. n % Width = n
  BY <1>1
<1>3. X2 = (n * (n - 1)) \div 2
  BY <1>2 DEF X2
<1>4. CASE n = 0
  <2>1. Tri(0) = 0 /\ (0 * (0 - 1)) \div 2 = 0
    BY DEF Tri
  <2>2. QED  BY <1>3, <1>4, <2>1 DEF Turns
<1>5. CASE n > 0
  <2>1. Turns = n - 1
    BY <1>5 DEF Turns
  <2>2. (n - 1) * ((n - 1) + 1) = n * (n - 1)
    BY <1>1
  <2>3. Tri(n - 1) = (n * (n - 1)) \div 2
    BY ONLY <2>2 DEF Tri
  <2>4. QED  BY <1>3, <2>1, <2>3
<1>6. QED  BY <1>1, <1>4, <1>5

LEMMA MinusOne ==
    ASSUME n = -1, 0 = (2 * X2) % Width
    PROVE  (n * (n - 1)) % Width = 0
<1> DEFINE W == Width
<1>1. W \in Nat /\ W >= 1 /\ W - 1 \in Nat
  BY AddAssumption
<1>2. (-1) % W = W - 1
  <2>1. (W * 1 + (-1)) % W = (-1) % W
    <3>1. W \in Nat \ {0} /\ 1 \in Int /\ -1 \in Int
      BY <1>1
    <3>2. QED  BY ONLY <3>1, ModShift
  <2>2. W * 1 + (-1) = W - 1
    BY <1>1
  <2>3. (W - 1) % W = W - 1
    BY <1>1
  <2>4. QED  BY ONLY <2>1, <2>2, <2>3
<1>3. 2 * X2 = (W - 1) * (W - 2)
  <2>1. X2 = ((W - 1) * ((W - 1) - 1)) \div 2
    BY <1>2 DEF X2
  <2>2. CASE W = 1
    BY <2>1, <2>2
  <2>3. CASE W >= 2
    <3>1. W - 2 \in Nat
      BY <1>1, <2>3
    <3>2. 2 * (((W - 2) * ((W - 2) + 1)) \div 2) = (W - 2) * ((W - 2) + 1)
      BY ONLY <3>1, Even
    <3>3. (W - 2) * ((W - 2) + 1) = (W - 1) * (W - 2) /\ (W - 1) - 1 = W - 2
      BY <1>1
    <3>4. QED  BY ONLY <2>1, <3>2, <3>3
  <2>4. QED  BY <1>1, <2>2, <2>3
<1>4. (W - 1) * (W - 2) = W * (W - 3) + 2
  BY <1>1
<1>5. (W * (W - 3) + 2) % W = 2 % W
  <2>1. W \in Nat \ {0} /\ W - 3 \in Int /\ 2 \in Int
    BY <1>1
  <2>2. QED  BY ONLY <2>1, ModShift
<1>6. n * (n - 1) = 2
  <2>1. (-1) * ((-1) - 1) = 2
    OBVIOUS
  <2>2. QED  BY <2>1
<1>7. 0 = (2 * X2) % W
  OBVIOUS
<1>8. 2 % W = 0
  BY ONLY <1>3, <1>4, <1>5, <1>7
<1>9. QED  BY <1>6, <1>8

LEMMA AddInvKept == ASSUME AddInv PROVE AdditionsKept
<1> SUFFICES ASSUME Is("add"), Ended
             PROVE  /\ opt # "" => ~lost
                    /\ (n >= 0 /\ (opt # "" \/ 2 * X2 < Width)) =>
                          (lost <=> verdict = "RACE DETECTED")
                    /\ n < 0 => ~lost /\ (verdict = "OK" => (n * (n - 1)) % Width = 0)
  BY DEF AdditionsKept
<1>1. AddPlaces /\ AddJoin /\ AddKept /\ AddLost
  BY DEF AddInv
<1>2. /\ count[1] = Turns /\ count[2] = Turns
      /\ verdict = IF x # (2 * X2) % Width THEN "RACE DETECTED" ELSE "OK"
  BY <1>1 DEF AddPlaces, AddJoin, Ended, At
<1>3. Tri(Turns) \in Nat /\ Sum \in Nat /\ Width \in Nat \ {0}
  BY <1>1, SumFacts, AddAssumption
<1>4. Sum = 2 * Tri(Turns)
  <2>1. Sum = Tri(Turns) + Tri(Turns)
    BY <1>2 DEF Sum
  <2>2. QED  BY ONLY <1>3, <2>1
<1>5. opt # "" => ~lost /\ x = Sum % Width
  BY <1>1 DEF AddKept
<1>6. n \in AddNs \cup {-1}
  BY <1>1 DEF AddPlaces
<1>7. CASE n \in AddNs
  <2>1. ~(n < 0)
    <3>1. n \in Nat
      BY <1>7, AddAssumption
    <3>2. QED  BY ONLY <3>1
  <2>2. 2 * X2 = Sum
    BY <1>4, <1>7, X2IsSum
  <2>3. CASE opt # ""
    <3>1. ~lost /\ x = (2 * X2) % Width
      BY <1>5, <2>2, <2>3
    <3>2. verdict = "OK"
      BY <1>2, <3>1
    <3>3. "OK" # "RACE DETECTED"
      OBVIOUS
    <3>4. QED  BY ONLY <2>1, <3>1, <3>2, <3>3, Zenon
  <2>4. CASE opt = "" /\ Sum < Width
    <3>1. lost \in BOOLEAN /\ x \in Nat /\ (IF lost THEN x < Sum ELSE x = Sum)
      BY <1>1, <1>4, <2>4 DEF AddLost
    <3>2. Sum % Width = Sum
      <4>1. \A a \in Nat : a < Width => a % Width = a
        BY <1>3
      <4>2. QED  BY <1>3, <2>4, <4>1
    <3>3. lost <=> x # (2 * X2) % Width
      <4>1. lost <=> x # Sum
        BY ONLY <1>3, <3>1
      <4>2. QED  BY ONLY <2>2, <3>2, <4>1
    <3>4. lost <=> verdict = "RACE DETECTED"
      <4>1. CASE x # (2 * X2) % Width
        BY <1>2, <3>3, <4>1
      <4>2. CASE x = (2 * X2) % Width
        BY <1>2, <3>3, <4>2
      <4>3. QED  BY <4>1, <4>2
    <3>5. QED  BY ONLY <2>1, <2>4, <3>4, Zenon
  <2>5. CASE opt = "" /\ ~(Sum < Width)
    <3>1. ~(2 * X2 < Width)
      BY ONLY <2>2, <2>5
    <3>2. QED  BY ONLY <2>1, <2>5, <3>1, Zenon
  <2>6. QED  BY <2>3, <2>4, <2>5
<1>8. CASE n = -1
  <2>1. Turns = 0 /\ Tri(0) = 0
    BY <1>8 DEF Turns, Tri
  <2>2. Sum = 0 /\ 2 * Tri(Turns) < Width
    BY <1>3, <1>4, <2>1
  <2>3. ~lost /\ x = 0
    <3>1. CASE opt # ""
      <4>1. 0 % Width = 0
        BY AddAssumption
      <4>2. QED  BY <1>5, <2>2, <3>1, <4>1
    <3>2. CASE opt = ""
      <4>1. lost \in BOOLEAN /\ x \in Nat /\ (IF lost THEN x < Sum ELSE x = Sum)
        BY <1>1, <2>2, <3>2 DEF AddLost
      <4>2. QED  BY <2>2, <4>1
    <3>3. QED  BY <3>1, <3>2
  <2>4. verdict = "OK" => 0 = (2 * X2) % Width
    BY <1>2, <2>3
  <2>5. verdict = "OK" => (n * (n - 1)) % Width = 0
    BY <1>8, <2>4, MinusOne
  <2>6. ~(n >= 0)
    BY <1>8
  <2>7. QED  BY <2>3, <2>5, <2>6
<1>9. QED  BY <1>6, <1>7, <1>8

LEMMA AddInvariant == Spec => []AddInv
<1>1. AddInv /\ [Next]_vars => AddInv'
  <2> SUFFICES ASSUME AddInv, [Next]_vars PROVE AddInv'
    OBVIOUS
  <2>1. program' = program /\ opt' = opt
    BY SameProgram
  <2>2. CASE ~Is("add")
    BY <2>1, <2>2 DEF AddInv, Is
  <2>3. CASE Is("add") /\ Next
    <3>1. AddPlaces /\ AddJoin /\ AddKept /\ AddLost
      BY <2>3 DEF AddInv
    <3>2. PICK a \in Actors : AddStep(a)
      BY <2>3 DEF Next, Step, ArgStep, CancelStep, ForkStep, RwlockStep, LockStep, Is,
                  RwPrograms, ForkPrograms, ArgPrograms
    <3>3. CASE a = Main
      <4>1. AddMain
        BY <3>2, <3>3 DEF AddStep
      <4>2. QED  BY <2>1, <3>1, <4>1, AddMainStep, AddMainSums DEF AddInv
    <3>4. CASE a # Main
      <4>1. a \in Threads /\ Count(a)
        BY <3>2, <3>4 DEF AddStep
      <4>2. a \in {1, 2}
        BY <3>1, <4>1
        DEF AddPlaces, Count, FetchAdd, Lock, Load, Store, Unlock, At
      <4>3. QED  BY <2>1, <3>1, <4>1, <4>2, AddThreadStep DEF AddInv
    <3>5. QED  BY <3>3, <3>4
  <2>4. CASE Is("add") /\ UNCHANGED vars
    <3>1. UNCHANGED <<pc, i, j, count, detached, joined, n, x, tmp, mutex, lost, verdict>>
      BY <2>4 DEF vars, mainVars, threadVars, addVars
    <3>2. AddPlaces /\ AddJoin /\ AddKept /\ AddLost
      BY <2>4 DEF AddInv
    <3>3. AddKept' /\ AddLost'
      BY <2>1, <3>1, <3>2, AddMainSums
    <3>4. X2' = X2 /\ Turns' = Turns
      BY <3>1 DEF X2, Turns
    <3>5. AddPlaces' /\ AddJoin'
      BY <2>1, <3>1, <3>2, <3>4 DEF AddPlaces, AddJoin, At
    <3>6. QED  BY <3>3, <3>5 DEF AddInv
  <2>5. QED  BY <2>2, <2>3, <2>4
<1>2. QED  BY AddInvInit, <1>1, PTL DEF Spec

\* atomic-add.c with -a or -m loses no addition, even when the sum wraps around; without
\* them it detects a race exactly when a store undid an addition, as long as nothing
\* wraps around.
THEOREM NoAdditionLost == Spec => []AdditionsKept
  BY AddInvariant, AddInvKept, PTL
-----------------------------------------------------------------------------
(* Types.  What all the programs share is kept by the steps they share: a  *)
(* thread that has been joined has ended, because nobody goes on from      *)
(* there, main() joins nobody before it has started everybody, and who is  *)
(* in the middle of a turn has a turn left.                                *)

CountMax == IF Is("add") THEN Width ELSE Loops

MidTurn == {"barrier", "rdlock", "reading"}

Shared ==
    /\ pc = [a \in Actors |-> pc[a]]
    /\ i \in 0 .. N /\ j \in 0 .. N /\ status \in 0 .. 1
    /\ At(Main, "next") => i < N
    /\ pc[Main] \in {"create", "next"} => joined = {}
    /\ count \in [Actors -> 0 .. CountMax]
    /\ detached \subseteq Threads /\ joined \subseteq Threads
    /\ \A t \in joined : pc[t] \in {"ended", "gone"}
    /\ \A t \in Threads : pc[t] \in MidTurn => count[t] < Loops

LEMMA Bounds == /\ N \in Nat /\ N >= 3 /\ Loops \in Nat \ {0} /\ Width \in Nat \ {0}
                /\ CountMax \in Nat /\ 1 \in Threads /\ 2 \in Threads /\ N \in Threads
  BY PthreadsAssumption, AddAssumption DEF CountMax, Threads

LEMMA SameMax == ASSUME UNCHANGED programVars PROVE CountMax' = CountMax
  BY DEF CountMax, Is, programVars

\* main() goes on, out of its first loop or in the second one.
LEMMA MainGoes ==
    ASSUME Shared, UNCHANGED programVars, UNCHANGED threadVars,
           NEW l, l \notin {"create", "next"}, pc' = [pc EXCEPT ![Main] = l],
           i' = i, j' = j, status' \in 0 .. 1
    PROVE  Shared'
<1> USE ActorFacts, Bounds DEF At
<1>1. /\ pc' = [a \in Actors |-> pc'[a]] /\ pc'[Main] = l
      /\ \A t \in Threads : pc'[t] = pc[t]
  BY DEF Shared
<1>2. QED  BY <1>1, SameMax DEF Shared, threadVars

LEMMA StartedShared ==
    ASSUME Shared, UNCHANGED programVars, NEW n_ \in 1 .. N, Started(n_)
    PROVE  Shared'
<1>1. status \in 0 .. 1
  BY DEF Shared
<1>2. pc' = [pc EXCEPT ![Main] = "join"] /\ UNCHANGED threadVars
      /\ i' = i /\ j' = j /\ status' = status
  BY DEF Started, Goto, mainVars
<1>3. QED  BY <1>1, <1>2, MainGoes

LEMMA ReturnShared ==
    ASSUME Shared, UNCHANGED programVars, NEW s \in 0 .. 1, Return(s) \/ Errx(s)
    PROVE  Shared'
<1>1. CASE Return(s)
  <2>1. pc' = [pc EXCEPT ![Main] = "return"] /\ UNCHANGED threadVars
        /\ i' = i /\ j' = j /\ status' = s
    BY <1>1 DEF Return, Goto
  <2>2. QED  BY <2>1, MainGoes
<1>2. CASE Errx(s)
  <2>1. pc' = [pc EXCEPT ![Main] = "exit"] /\ UNCHANGED threadVars
        /\ i' = i /\ j' = j /\ status' = s
    BY <1>2 DEF Errx, Goto
  <2>2. QED  BY <2>1, MainGoes
<1>3. QED  BY <1>1, <1>2

LEMMA ReturnAfterShared ==
    ASSUME Shared, UNCHANGED programVars, NEW n_, ReturnAfter(n_)
    PROVE  Shared'
<1>1. Return(0) /\ 0 \in 0 .. 1
  BY DEF ReturnAfter
<1>2. QED  BY <1>1, ReturnShared

LEMMA StartThreadShared ==
    ASSUME Shared, UNCHANGED programVars, NEW n_ \in 1 .. N, NEW l, l \notin MidTurn,
           StartThread(n_, l)
    PROVE  Shared'
<1> USE ActorFacts, Bounds DEF At
<1>1. i < N /\ pc' = [pc EXCEPT ![i + 1] = l, ![Main] = "next"] /\ i \in Nat /\ joined = {}
  BY DEF StartThread, Shared
<1>2. pc' = [a \in Actors |-> pc'[a]] /\ pc'[Main] = "next"
      /\ \A t \in Threads : pc'[t] = pc[t] \/ pc'[t] = l
  BY <1>1 DEF Shared
<1>3. QED  BY <1>1, <1>2, SameMax DEF Shared, StartThread, mainVars, threadVars

LEMMA IncrementShared ==
    ASSUME Shared, UNCHANGED programVars, Increment
    PROVE  Shared'
<1> USE ActorFacts, Bounds DEF At
<1>1. i < N /\ i' = i + 1 /\ pc' = [pc EXCEPT ![Main] = "create"] /\ i \in Nat /\ joined = {}
  BY DEF Increment, Goto, Shared
<1>2. pc' = [a \in Actors |-> pc'[a]] /\ i' \in 0 .. N /\ pc'[Main] = "create"
      /\ \A t \in Threads : pc'[t] = pc[t]
  BY <1>1 DEF Shared
<1>3. QED  BY <1>1, <1>2, SameMax DEF Shared, Increment, threadVars

LEMMA JoinThreadShared ==
    ASSUME Shared, UNCHANGED programVars, NEW n_ \in 1 .. N, NEW t \in Threads, JoinThread(n_, t)
    PROVE  Shared'
<1> USE ActorFacts, Bounds DEF At
<1>1. /\ pc[Main] = "join" /\ j < n_ /\ j' = j + 1 /\ UNCHANGED <<pc, i, status, count, detached>>
      /\ joined' = joined \/ (pc[t] = "ended" /\ joined' = joined \cup {t})
  BY DEF JoinThread, JoinSucceeds
<1>2. j' \in 0 .. N
  BY <1>1 DEF Shared
<1>3. joined' \subseteq Threads /\ \A u \in joined' : pc[u] \in {"ended", "gone"}
  BY <1>1 DEF Shared
<1>4. QED  BY <1>1, <1>2, <1>3, SameMax DEF Shared

LEMMA JoinNextShared ==
    ASSUME Shared, UNCHANGED programVars, NEW n_ \in 1 .. N, JoinThread(n_, j + 1)
    PROVE  Shared'
<1>1. j + 1 \in Threads
  BY Bounds DEF JoinThread, Shared, Threads
<1>2. QED  BY <1>1, JoinThreadShared

LEMMA ExitShared ==
    ASSUME Shared, UNCHANGED programVars, ExitProcess
    PROVE  Shared'
<1> USE ActorFacts, Bounds DEF At
<1>1. /\ pc' = [a \in Actors |-> IF a = Child \/ pc[a] = "unborn" THEN pc[a] ELSE "gone"]
      /\ pc[Main] \in {"return", "exit"} /\ UNCHANGED <<i, j, status, count, detached, joined>>
  BY DEF ExitProcess, mainVars, threadVars
<1>2. pc'[Main] = "gone" /\ \A t \in joined : pc'[t] = "gone"
  BY <1>1 DEF Shared
<1>3. \A t \in Threads : pc'[t] \notin MidTurn
  BY <1>1 DEF MidTurn
<1>4. QED  BY <1>1, <1>2, <1>3, SameMax DEF Shared

\* A thread goes on.
LEMMA ThreadGoes ==
    ASSUME Shared, UNCHANGED programVars, UNCHANGED <<i, j, status, joined>>,
           NEW t \in Actors, t # Main, pc[t] \notin {"ended", "gone"},
           NEW l, pc' = [pc EXCEPT ![t] = l],
           count' \in [Actors -> 0 .. CountMax],
           \A u \in Threads : u # t => count'[u] = count[u],
           t \in Threads /\ l \in MidTurn => count'[t] < Loops,
           detached' \subseteq Threads
    PROVE  Shared'
<1> USE ActorFacts, Bounds DEF At
<1>1. /\ pc' = [a \in Actors |-> pc'[a]] /\ pc'[Main] = pc[Main] /\ pc'[t] = l
      /\ t \notin joined /\ \A u \in Actors : u # t => pc'[u] = pc[u]
  BY DEF Shared
<1>2. \A u \in joined : pc'[u] \in {"ended", "gone"}
  BY <1>1 DEF Shared
<1>3. \A u \in Threads : pc'[u] \in MidTurn => count'[u] < Loops
  BY <1>1 DEF Shared
<1>4. QED  BY <1>1, <1>2, <1>3, SameMax DEF Shared

\* As ThreadGoes, for a step that counts no turn.
LEMMA ThreadMoves ==
    ASSUME Shared, UNCHANGED programVars, UNCHANGED <<i, j, status, joined, count, detached>>,
           NEW t \in Actors, t # Main, pc[t] \notin {"ended", "gone"},
           NEW l, pc' = [pc EXCEPT ![t] = l],
           t \in Threads /\ l \in MidTurn => count[t] < Loops
    PROVE  Shared'
<1>1. /\ count' \in [Actors -> 0 .. CountMax] /\ detached' \subseteq Threads
      /\ \A u \in Threads : u # t => count'[u] = count[u]
      /\ t \in Threads /\ l \in MidTurn => count'[t] < Loops
  BY DEF Shared
<1>2. QED  BY <1>1, ThreadGoes

\* As ThreadGoes, for the end of a turn.
LEMMA TurnShared ==
    ASSUME Shared, UNCHANGED programVars, UNCHANGED <<i, j, status, joined, detached>>,
           NEW t \in Actors, t # Main, pc[t] \notin {"ended", "gone"}, count[t] < CountMax,
           count' = [count EXCEPT ![t] = @ + 1],
           NEW l, pc' = [pc EXCEPT ![t] = l], l \notin MidTurn
    PROVE  Shared'
<1>1. count' \in [Actors -> 0 .. CountMax]
  <2>1. count[t] + 1 \in 0 .. CountMax
    BY Bounds DEF Shared
  <2>2. QED  BY <2>1 DEF Shared
<1>2. /\ detached' \subseteq Threads
      /\ \A u \in Threads : u # t => count'[u] = count[u]
      /\ t \in Threads /\ l \in MidTurn => count'[t] < Loops
  BY ActorFacts DEF Shared
<1>3. QED  BY <1>1, <1>2, ThreadGoes

LEMMA LoopShared ==
    ASSUME Shared, UNCHANGED programVars, ~Is("add"), NEW t \in Actors, t # Main,
           NEW n_ \in {1, Loops}, LoopTurn(t, n_) \/ LoopEnd(t, n_)
    PROVE  Shared'
<1> USE DEF At
<1>1. pc[t] = "loop" /\ UNCHANGED <<i, j, status, joined, detached>>
  BY DEF LoopTurn, LoopEnd, mainVars, threadVars
<1>2. CASE LoopTurn(t, n_)
  <2>1. count[t] < CountMax
    BY <1>2, Bounds DEF LoopTurn, CountMax, Shared
  <2>2. count' = [count EXCEPT ![t] = @ + 1] /\ pc' = [pc EXCEPT ![t] = "loop"]
    BY <1>1, <1>2 DEF LoopTurn, Shared
  <2>3. "loop" \notin MidTurn /\ pc[t] \notin {"ended", "gone"}
    BY <1>1 DEF MidTurn
  <2>4. QED  BY <1>1, <2>1, <2>2, <2>3, TurnShared
<1>3. CASE LoopEnd(t, n_)
  <2>1. pc' = [pc EXCEPT ![t] = "ended"] /\ count' = count
    BY <1>3 DEF LoopEnd, Goto, threadVars
  <2>2. "ended" \notin MidTurn /\ pc[t] \notin {"ended", "gone"}
    BY <1>1 DEF MidTurn
  <2>3. QED  BY <1>1, <2>1, <2>2, ThreadMoves
<1>4. QED  BY <1>2, <1>3

\* What the ints of main() may be, and what the threads may have printed.
ArgTypes == /\ cell \in [0 .. N -> Garbage .. N]
            /\ printed \in [Threads -> SUBSET (Garbage .. N)]
            /\ waiting \subseteq Threads

\* What is shared, and the ints of main().
Cells == Shared /\ cell \in [0 .. N -> Garbage .. N]

LEMMA StartWithCells ==
    ASSUME Cells, UNCHANGED programVars, NEW n_ \in 1 .. N, NEW l \in {"loop", "start"},
           NEW a, NEW cs \in [0 .. N -> Garbage .. N], StartWith(n_, l, a, cs)
    PROVE  Cells'
<1>1. StartThread(n_, l) /\ cell' = cs /\ l \notin MidTurn
  BY DEF StartWith, MidTurn
<1>2. QED  BY <1>1, StartThreadShared DEF Cells

LEMMA LoopCells ==
    ASSUME Cells, UNCHANGED programVars, NEW n_ \in 1 .. N, Loop(n_)
    PROVE  Cells'
  BY IncrementShared, StartedShared DEF Cells, Loop, argVars

LEMMA JoinsCells ==
    ASSUME Cells, UNCHANGED programVars, NEW n_ \in 1 .. N,
           Joins(n_, j + 1) \/ Joins(n_, N)
    PROVE  Cells'
<1>1. JoinThread(n_, j + 1) \/ JoinThread(n_, N) \/ ReturnAfter(n_)
  BY DEF Joins
<1>2. Shared'
  BY <1>1, Bounds, JoinNextShared, JoinThreadShared, ReturnAfterShared DEF Cells
<1>3. QED  BY <1>2 DEF Cells, Joins, argVars

LEMMA CellValues ==
    ASSUME Cells
    PROVE  /\ [cell EXCEPT ![1] = 1] \in [0 .. N -> Garbage .. N]
           /\ [cell EXCEPT ![1] = 1, ![2] = 2] \in [0 .. N -> Garbage .. N]
           /\ [cell EXCEPT ![i] = i] \in [0 .. N -> Garbage .. N]
           /\ 1 \in 1 .. N /\ 2 \in 1 .. N /\ N \in 1 .. N
<1>1. i \in Garbage .. N /\ 1 \in Garbage .. N /\ 2 \in Garbage .. N
  BY Bounds DEF Cells, Shared, Garbage
<1>2. /\ 1 \in 1 .. N /\ 2 \in 1 .. N /\ N \in 1 .. N
      /\ 1 \in 0 .. N /\ 2 \in 0 .. N /\ i \in 0 .. N
  BY Bounds DEF Cells, Shared
<1>3. cell \in [0 .. N -> Garbage .. N]
  BY DEF Cells
<1>4. \A c \in [0 .. N -> Garbage .. N] : \A k \in 0 .. N : \A v \in Garbage .. N :
         [c EXCEPT ![k] = v] \in [0 .. N -> Garbage .. N]
  OBVIOUS
<1>5. [cell EXCEPT ![1] = 1, ![2] = 2] = [[cell EXCEPT ![1] = 1] EXCEPT ![2] = 2]
  OBVIOUS
<1>6. [cell EXCEPT ![1] = 1] \in [0 .. N -> Garbage .. N]
  BY <1>1, <1>2, <1>3, <1>4
<1>7. [cell EXCEPT ![1] = 1, ![2] = 2] \in [0 .. N -> Garbage .. N]
  BY <1>1, <1>2, <1>4, <1>5, <1>6
<1>8. [cell EXCEPT ![i] = i] \in [0 .. N -> Garbage .. N]
  BY <1>1, <1>2, <1>3, <1>4
<1>9. QED  BY <1>2, <1>6, <1>7, <1>8

LEMMA DetachMainCells ==
    ASSUME Cells, UNCHANGED programVars, DetachMain
    PROVE  Cells'
<1>1. CASE StartWith(1, "start", AddressOf(1), [cell EXCEPT ![1] = 1])
  BY <1>1, CellValues, StartWithCells
<1>2. CASE Loop(1)
  BY <1>2, CellValues, LoopCells
<1>3. CASE Errx(1) /\ UNCHANGED argVars
  BY <1>3, ReturnShared DEF Cells, argVars
<1>4. CASE Goto(Main, "joining") /\ UNCHANGED <<mainVars, threadVars>> /\ UNCHANGED argVars
  <2>1. /\ pc' = [pc EXCEPT ![Main] = "joining"] /\ i' = i /\ j' = j /\ status' \in 0 .. 1
        /\ UNCHANGED threadVars /\ UNCHANGED cell
    BY <1>4 DEF Goto, mainVars, argVars, Cells, Shared
  <2>2. QED  BY <2>1, MainGoes DEF Cells
<1>5. CASE Return(0) /\ UNCHANGED argVars
  <2>1. 0 \in 0 .. 1
    OBVIOUS
  <2>2. QED  BY <1>5, <2>1, ReturnShared DEF Cells, argVars
<1>6. QED  BY <1>1, <1>2, <1>3, <1>4, <1>5 DEF DetachMain

LEMMA SetDetachMainCells ==
    ASSUME Cells, UNCHANGED programVars, SetDetachMain
    PROVE  Cells'
<1>1. CASE Loop(2) \/ Joins(2, j + 1)
  BY <1>1, CellValues, LoopCells, JoinsCells
<1>2. CASE /\ At(Main, "create") /\ i < 2
           /\ pc' = [pc EXCEPT ![i + 1] = "loop", ![Main] = "next"]
           /\ detached' = detached \cup {i + 1}
           /\ cell' = [cell EXCEPT ![1] = 1, ![2] = 2]
           /\ UNCHANGED <<mainVars, count, joined>>
  <2> USE ActorFacts, Bounds DEF At
  <2>1. i + 1 \in Threads /\ i < N /\ joined = {} /\ i \in Nat
    BY <1>2 DEF Cells, Shared, Threads
  <2>2. pc' = [a \in Actors |-> pc'[a]] /\ pc'[Main] = "next"
        /\ \A t \in Threads : pc'[t] = pc[t] \/ pc'[t] = "loop"
    BY <1>2, <2>1 DEF Cells, Shared
  <2>3. /\ UNCHANGED <<i, j, status, count, joined>>
        /\ detached' \subseteq Threads
        /\ \A t \in Threads : pc'[t] \in MidTurn => count[t] < Loops
    <3>1. UNCHANGED <<i, j, status, count, joined>>
      BY <1>2 DEF mainVars
    <3>2. detached' \subseteq Threads
      BY <1>2, <2>1 DEF Cells, Shared
    <3>3. \A t \in Threads : pc'[t] \in MidTurn => count[t] < Loops
      BY <2>2 DEF Cells, Shared, MidTurn
    <3>4. QED  BY <3>1, <3>2, <3>3
  <2>4. Shared'
    BY <2>1, <2>2, <2>3, SameMax DEF Cells, Shared
  <2>5. QED  BY <1>2, <2>4, CellValues DEF Cells
<1>3. QED  BY <1>1, <1>2 DEF SetDetachMain

LEMMA ArgMainCells ==
    ASSUME Cells, UNCHANGED programVars, ArgMain
    PROVE  Cells'
<1>0. cell \in [0 .. N -> Garbage .. N]
  BY DEF Cells
<1>1. CASE CreateMain
  <2>1. CASE At(Main, "join") /\ Return(0) /\ UNCHANGED argVars
    <3>1. 0 \in 0 .. 1
      OBVIOUS
    <3>2. QED  BY <2>1, <3>1, ReturnShared DEF Cells, argVars
  <2>2. QED  BY <1>0, <1>1, <2>1, CellValues, StartWithCells, LoopCells DEF CreateMain
<1>2. CASE JoinMain
  BY <1>2, CellValues, StartWithCells, LoopCells, JoinsCells DEF JoinMain
<1>3. CASE CorrectMain \/ BarrierMain
  BY <1>3, CellValues, StartWithCells, LoopCells, JoinsCells DEF CorrectMain, BarrierMain
<1>4. CASE WrongMain
  BY <1>0, <1>4, CellValues, StartWithCells, LoopCells, JoinsCells DEF WrongMain
<1>5. CASE IntMain
  <2>1. CASE At(Main, "join") /\ Return(0) /\ UNCHANGED argVars
    <3>1. 0 \in 0 .. 1
      OBVIOUS
    <3>2. QED  BY <2>1, <3>1, ReturnShared DEF Cells, argVars
  <2>2. QED  BY <1>0, <1>5, <2>1, CellValues, StartWithCells, LoopCells DEF IntMain
<1>6. CASE ExitProcess /\ UNCHANGED argVars
  BY <1>6, ExitShared DEF Cells, argVars
<1>7. QED
  BY <1>1, <1>2, <1>3, <1>4, <1>5, <1>6, DetachMainCells, SetDetachMainCells DEF ArgMain

\* A barrier opens when all the threads are there: nobody has been joined.
LEMMA BarrierShared ==
    ASSUME Shared, UNCHANGED programVars, Is("barrier"), ArgPlaces,
           NEW t \in Threads, BarrierWait(t)
    PROVE  Shared'
<1> USE ActorFacts, Bounds DEF At
<1>1. CASE waiting \cup {t} # Threads
  <2>1. UNCHANGED <<pc, i, j, status, count, joined, detached>>
    BY <1>1 DEF BarrierWait, mainVars
  <2>2. QED  BY <2>1, SameMax DEF Shared
<1>2. CASE waiting \cup {t} = Threads
  <2>1. /\ pc' = [a \in Actors |-> IF a \in Threads THEN "loop" ELSE pc[a]]
        /\ count' = [a \in Actors |-> IF a \in Threads THEN count[a] + 1 ELSE count[a]]
        /\ UNCHANGED <<i, j, status, joined, detached>>
    BY <1>2 DEF BarrierWait, mainVars
  <2>2. \A u \in Threads : pc[u] = "barrier"
    BY <1>2 DEF BarrierWait, ArgPlaces
  <2>3. joined = {}
    BY <2>2 DEF Shared
  <2>4. CountMax = Loops
    BY DEF CountMax, Is
  <2>5. \A u \in Threads : count[u] + 1 \in 0 .. CountMax
    BY <2>2, <2>4 DEF Shared, MidTurn
  <2>6. count' \in [Actors -> 0 .. CountMax]
    BY <2>1, <2>5 DEF Shared
  <2>7. /\ pc' = [a \in Actors |-> pc'[a]] /\ pc'[Main] = pc[Main]
        /\ \A u \in Threads : pc'[u] \notin MidTurn
    BY <2>1 DEF MidTurn
  <2>8. QED  BY <2>1, <2>3, <2>6, <2>7, SameMax DEF Shared
<1>3. QED  BY <1>1, <1>2

LEMMA ArgThreadShared ==
    ASSUME Shared, UNCHANGED programVars, program \in ArgPrograms, ArgPlaces,
           NEW t \in Threads, ArgThread(t)
    PROVE  Shared' /\ cell' = cell
<1>1. ~Is("add") /\ t \in Actors /\ t # Main /\ Loops \in {1, Loops}
  BY ActorFacts DEF ArgPrograms, Is
<1>2. CASE PrintsArgument(t, Loops)
  <2>1. (LoopTurn(t, Loops) \/ LoopEnd(t, Loops)) /\ cell' = cell
    BY <1>2 DEF PrintsArgument
  <2>2. QED  BY <1>1, <2>1, LoopShared
<1>3. CASE DetachSelf(t)
  <2>1. /\ pc[t] = "start" /\ pc' = [pc EXCEPT ![t] = "loop"] /\ cell' = cell
        /\ UNCHANGED <<i, j, status, joined, count>>
    BY <1>3 DEF DetachSelf, At, Goto, mainVars, argVars
  <2>2. /\ count' \in [Actors -> 0 .. CountMax] /\ detached' \subseteq Threads
        /\ \A u \in Threads : u # t => count'[u] = count[u]
    BY <1>3, <2>1 DEF DetachSelf, Shared
  <2>3. "loop" \notin MidTurn /\ pc[t] \notin {"ended", "gone"}
    BY <2>1 DEF MidTurn
  <2>4. QED  BY <1>1, <2>1, <2>2, <2>3, ThreadGoes
<1>4. CASE Stage(t)
  <2>1. /\ pc[t] = "loop" /\ pc' = [pc EXCEPT ![t] = "barrier"] /\ cell' = cell
        /\ count[t] < Loops /\ UNCHANGED <<i, j, status, joined, count, detached>>
    BY <1>4 DEF Stage, At, Goto, mainVars, threadVars
  <2>2. pc[t] \notin {"ended", "gone"}
    BY <2>1
  <2>3. QED  BY <1>1, <2>1, <2>2, ThreadMoves
<1>5. CASE Is("barrier") /\ BarrierWait(t)
  BY <1>5, BarrierShared DEF BarrierWait
<1>6. CASE LoopEnd(t, Loops) /\ UNCHANGED argVars
  BY <1>1, <1>6, LoopShared DEF argVars
<1>7. QED  BY <1>2, <1>3, <1>4, <1>5, <1>6 DEF ArgThread, Worker

LEMMA OwnNumberTypes ==
    ASSUME NEW t \in Threads PROVE OwnNumbers(t) \subseteq Garbage .. N
<1> USE Bounds DEF Threads, Garbage
<1>1. {t - 1} \subseteq -1 .. N /\ {t} \subseteq -1 .. N /\ {t, -1} \subseteq -1 .. N
      /\ {0} \subseteq -1 .. N /\ (t - 1 .. N) \cup {-1} \subseteq -1 .. N
  OBVIOUS
<1>2. QED  BY <1>1 DEF OwnNumbers

LEMMA ArgStepTypes ==
    ASSUME Shared, ArgTypes, ArgInv, ArgInv', NEW a \in Actors, ArgStep(a)
    PROVE  Shared' /\ ArgTypes'
<1>1. program \in ArgPrograms /\ UNCHANGED programVars /\ program' \in ArgPrograms
  BY DEF ArgStep, programVars
<1>2. Shared' /\ cell' \in [0 .. N -> Garbage .. N]
  <2>1. CASE a = Main
    BY <1>1, <2>1, ArgMainCells DEF ArgStep, Cells, ArgTypes
  <2>2. CASE a # Main
    BY <1>1, <2>2, ArgThreadShared DEF ArgStep, ArgTypes, ArgInv
  <2>3. QED  BY <2>1, <2>2
<1>3. ArgPlaces' /\ OwnArgument'
  BY <1>1 DEF ArgInv
<1>4. waiting' \subseteq Threads /\ printed' = [t \in Threads |-> printed'[t]]
  BY <1>3 DEF ArgPlaces
<1>5. \A t \in Threads : OwnNumbers(t)' = OwnNumbers(t)
  BY <1>1 DEF OwnNumbers, programVars
<1>6. \A t \in Threads : printed'[t] \subseteq Garbage .. N
  BY <1>3, <1>5, OwnNumberTypes DEF OwnArgument
<1>7. printed' \in [Threads -> SUBSET (Garbage .. N)]
  BY <1>4, <1>6
<1>8. QED  BY <1>2, <1>4, <1>7 DEF ArgTypes

LEMMA CancelStepShared ==
    ASSUME Shared, NEW a \in Actors, CancelStep(a)
    PROVE  Shared'
<1>1. UNCHANGED programVars /\ 1 \in Actors /\ 1 # Main /\ 1 \in 1 .. N
  BY ActorFacts, Bounds DEF CancelStep
<1>2. ASSUME NEW l \in {"settype", "hello", "spin", "message", "open", "error"}, At(1, l),
             NEW m \in {"hello", "spin", "message", "open", "error", "ended"}, Goto(1, m),
             UNCHANGED <<mainVars, threadVars>>
      PROVE  Shared'
  <2>1. /\ pc[1] \notin {"ended", "gone"} /\ pc' = [pc EXCEPT ![1] = m] /\ m \notin MidTurn
        /\ UNCHANGED <<i, j, status, joined, count, detached>>
    BY <1>2 DEF At, Goto, mainVars, threadVars, MidTurn
  <2>2. QED  BY <1>1, <2>1, ThreadMoves
<1>3. CASE Canceled
  <2>1. /\ pc[1] \notin {"ended", "gone"} /\ pc' = [pc EXCEPT ![1] = "ended"]
        /\ UNCHANGED <<i, j, status, joined, count, detached>>
    BY <1>3 DEF Canceled, CancellationPoints, Goto, mainVars, threadVars
  <2>2. "ended" \notin MidTurn
    BY DEF MidTurn
  <2>3. QED  BY <1>1, <2>1, <2>2, ThreadMoves
<1>4. CASE mythread /\ ~Canceled
  BY <1>2, <1>4 DEF mythread, SetCancelType, MyThreadGoes, Open
<1>5. CASE CancelMain
  <2>1. CASE StartThread(1, "settype")
    <3>1. "settype" \notin MidTurn
      BY DEF MidTurn
    <3>2. QED  BY <1>1, <2>1, <3>1, StartThreadShared
  <2>2. CASE Goto(Main, "join") /\ UNCHANGED <<mainVars, threadVars>>
    <3>1. /\ pc' = [pc EXCEPT ![Main] = "join"] /\ UNCHANGED threadVars
          /\ i' = i /\ j' = j /\ status' \in 0 .. 1
      BY <2>2 DEF Goto, mainVars, Shared
    <3>2. QED  BY <1>1, <3>1, MainGoes
  <2>3. CASE Errx(1) \/ Return(IF canceled THEN 0 ELSE 1)
    <3>1. 1 \in 0 .. 1 /\ (IF canceled THEN 0 ELSE 1) \in 0 .. 1
      OBVIOUS
    <3>2. QED  BY <1>1, <2>3, <3>1, ReturnShared
  <2>4. CASE ExitProcess
    BY <1>1, <2>4, ExitShared
  <2>5. QED  BY <1>5, <2>1, <2>2, <2>3, <2>4 DEF CancelMain, Cancel
<1>6. QED  BY <1>3, <1>4, <1>5 DEF CancelStep

\* A mutex, or a lock for writing, is held by one or by nobody.
OneHolder(h) == h = {} \/ \E a \in Actors : h = {a}

AddTypes == x \in 0 .. Width - 1 /\ tmp \in [Threads -> 0 .. Width - 1] /\ OneHolder(mutex)

LEMMA AddMainShared ==
    ASSUME Shared, UNCHANGED programVars, AddMain
    PROVE  Shared' /\ UNCHANGED <<x, tmp, mutex>>
<1>1. 2 \in 1 .. N /\ "loop" \notin MidTurn
  BY Bounds DEF MidTurn
<1>2. Shared'
  BY <1>1, StartThreadShared, IncrementShared, StartedShared, JoinNextShared,
     ReturnAfterShared, ExitShared DEF AddMain
<1>3. UNCHANGED <<x, tmp, mutex>>
  BY DEF AddMain, addVars
<1>4. QED  BY <1>2, <1>3

\* The threads count up to n, which is less than Width.
LEMMA AddCounts ==
    ASSUME Shared, AddInv', UNCHANGED programVars, Is("add"), NEW t \in {1, 2},
           count' = [count EXCEPT ![t] = @ + 1]
    PROVE  count' \in [Actors -> 0 .. CountMax]
<1>1. AddPlaces'
  BY DEF AddInv, Is, programVars
<1>2. count'[t] \in 0 .. Turns' /\ n' \in AddNs \cup {-1}
  BY <1>1 DEF AddPlaces
<1>3. Turns' \in 0 .. Width /\ CountMax = Width
  <2>1. n' \in Int /\ n' < Width /\ Width \in Nat \ {0}
    BY <1>2, AddAssumption
  <2>2. Turns' = IF n' > 0 THEN n' - 1 ELSE 0
    BY DEF Turns
  <2>3. \A m \in Int, w \in Nat \ {0} :
           m < w => (IF m > 0 THEN m - 1 ELSE 0) \in 0 .. w
    OBVIOUS
  <2>4. Turns' \in 0 .. Width
    BY <2>1, <2>2, <2>3
  <2>5. CountMax = Width
    BY DEF CountMax
  <2>6. QED  BY <2>4, <2>5
<1>4. count'[t] \in 0 .. CountMax
  BY <1>2, <1>3, AddAssumption
<1>5. count \in [Actors -> 0 .. CountMax] /\ t \in Actors
  BY ActorFacts DEF Shared
<1>6. QED  BY <1>4, <1>5

LEMMA CountTypes ==
    ASSUME Shared, AddTypes, AddInv, AddInv', UNCHANGED programVars, Is("add"),
           NEW t \in Threads, Count(t)
    PROVE  Shared' /\ AddTypes'
<1>1. t \in {1, 2} /\ t \in Actors /\ t # Main /\ 1 \in Actors
  BY ActorFacts DEF AddInv, AddPlaces, Count, FetchAdd, Lock, Load, Store, Unlock, At
<1>2. \A v \in Int : v % Width \in 0 .. Width - 1
  BY Bounds
<1>3. I(t) \in Int /\ x \in Int /\ tmp[t] \in Int
  BY <1>1, Bounds DEF Shared, AddTypes, I
<1>4. ASSUME NEW l \in {"loop", "load", "store", "unlock", "ended"}, pc' = [pc EXCEPT ![t] = l],
             pc[t] \in {"loop", "load", "store", "unlock"},
             UNCHANGED <<mainVars, threadVars>>
      PROVE  Shared'
  <2>1. /\ l \notin MidTurn /\ pc[t] \notin {"ended", "gone"}
        /\ UNCHANGED <<i, j, status, joined, count, detached>>
    BY <1>4 DEF MidTurn, mainVars, threadVars
  <2>2. QED  BY <1>1, <1>4, <2>1, ThreadMoves
<1>5. ASSUME NEW l \in {"loop", "unlock"}, pc' = [pc EXCEPT ![t] = l],
             pc[t] \in {"loop", "store"}, count' = [count EXCEPT ![t] = @ + 1],
             UNCHANGED <<mainVars, detached, joined>>
      PROVE  Shared'
  <2>1. /\ l \notin MidTurn /\ pc[t] \notin {"ended", "gone"}
        /\ UNCHANGED <<i, j, status, joined, detached>> /\ detached' \subseteq Threads
    BY <1>5 DEF MidTurn, mainVars, Shared
  <2>2. \A u \in Threads : u # t => count'[u] = count[u]
    BY <1>5, ActorFacts DEF Shared
  <2>3. count' \in [Actors -> 0 .. CountMax]
    BY <1>1, <1>5, AddCounts
  <2>4. QED  BY <1>1, <1>5, <2>1, <2>2, <2>3, ThreadGoes
<1>6. CASE FetchAdd(t)
  <2>1. /\ pc[t] = "loop" /\ pc' = pc /\ count' = [count EXCEPT ![t] = @ + 1]
        /\ x' = (x + I(t)) % Width /\ UNCHANGED <<mainVars, detached, joined, tmp, mutex>>
    BY <1>6 DEF FetchAdd, At
  <2>2. pc' = [pc EXCEPT ![t] = "loop"]
    BY <2>1 DEF Shared
  <2>3. Shared'
    BY <1>5, <2>1, <2>2
  <2>4. x + I(t) \in Int
    BY <1>3
  <2>5. x' \in 0 .. Width - 1
    BY <1>2, <2>1, <2>4
  <2>6. QED  BY <2>1, <2>3, <2>5 DEF AddTypes
<1>7. CASE Lock(t)
  <2>1. /\ pc[t] = "loop" /\ pc' = [pc EXCEPT ![t] = "load"] /\ mutex' = {t}
        /\ UNCHANGED <<mainVars, threadVars, x, tmp>>
    BY <1>7 DEF Lock, At, Goto
  <2>2. Shared'
    BY <1>4, <2>1
  <2>3. QED  BY <1>1, <2>1, <2>2 DEF AddTypes, OneHolder
<1>8. CASE Load(t)
  <2>1. /\ pc[t] \in {"load", "loop"} /\ pc' = [pc EXCEPT ![t] = "store"]
        /\ tmp' = [tmp EXCEPT ![t] = x] /\ UNCHANGED <<mainVars, threadVars, x, mutex>>
    BY <1>8 DEF Load, At, Goto
  <2>2. Shared'
    BY <1>4, <2>1
  <2>3. tmp' \in [Threads -> 0 .. Width - 1]
    BY <2>1 DEF AddTypes
  <2>4. QED  BY <2>1, <2>2, <2>3 DEF AddTypes
<1>9. CASE Store(t)
  <2>1. /\ pc[t] = "store" /\ pc' = [pc EXCEPT ![t] = IF opt = "-m" THEN "unlock" ELSE "loop"]
        /\ count' = [count EXCEPT ![t] = @ + 1] /\ x' = (tmp[t] + I(t)) % Width
        /\ UNCHANGED <<mainVars, detached, joined, tmp, mutex>>
    BY <1>9 DEF Store, At, Goto
  <2>2. (IF opt = "-m" THEN "unlock" ELSE "loop") \in {"loop", "unlock"}
    OBVIOUS
  <2>3. Shared'
    BY <1>5, <2>1, <2>2
  <2>4. tmp[t] + I(t) \in Int
    BY <1>3
  <2>5. x' \in 0 .. Width - 1
    BY <1>2, <2>1, <2>4
  <2>6. QED  BY <2>1, <2>3, <2>5 DEF AddTypes
<1>10. CASE Unlock(t)
  <2>1. /\ pc[t] = "unlock" /\ pc' = [pc EXCEPT ![t] = "loop"] /\ mutex' = {}
        /\ UNCHANGED <<mainVars, threadVars, x, tmp>>
    BY <1>10 DEF Unlock, At, Goto
  <2>2. Shared'
    BY <1>4, <2>1
  <2>3. QED  BY <2>1, <2>2 DEF AddTypes, OneHolder
<1>11. CASE At(t, "loop") /\ Goto(t, "ended") /\ UNCHANGED <<mainVars, threadVars, addVars>>
  <2>1. /\ pc[t] = "loop" /\ pc' = [pc EXCEPT ![t] = "ended"]
        /\ UNCHANGED <<mainVars, threadVars, x, tmp, mutex>>
    BY <1>11 DEF At, Goto, addVars
  <2>2. Shared'
    BY <1>4, <2>1
  <2>3. QED  BY <2>1, <2>2 DEF AddTypes
<1>12. QED  BY <1>6, <1>7, <1>8, <1>9, <1>10, <1>11 DEF Count

LEMMA AddStepTypes ==
    ASSUME Shared, AddTypes, AddInv, AddInv', NEW a \in Actors, AddStep(a)
    PROVE  Shared' /\ AddTypes'
<1>1. UNCHANGED programVars /\ Is("add")
  BY DEF AddStep
<1>2. CASE a = Main
  BY <1>1, <1>2, AddMainShared DEF AddStep, AddTypes
<1>3. CASE a # Main
  BY <1>1, <1>3, CountTypes DEF AddStep
<1>4. QED  BY <1>2, <1>3

ForkTypes == OneHolder(holder) /\ OneHolder(childHolder)

\* fork() and its failure, and the calls on the mutex.
LEMMA ForksTypes ==
    ASSUME Shared, ForkTypes, UNCHANGED programVars, NEW t \in Actors,
           NEW l \in {"after", "lock", "loop", "join"},
           Forks(t, l), pc[t] = "forking" \/ (t = Main /\ l # "loop")
    PROVE  Shared' /\ ForkTypes'
<1> USE ActorFacts DEF At
<1>1. /\ pc' = [pc EXCEPT ![t] = l, ![Child] = l]
      /\ UNCHANGED <<i, j, status, count, joined, detached, holder>>
      /\ childHolder' = {IF h = t THEN Child ELSE h : h \in holder}
  BY DEF Forks, mainVars, threadVars
<1>2. /\ pc' = [a \in Actors |-> pc'[a]] /\ l \notin MidTurn
      /\ \A a \in Actors : pc'[a] = pc[a] \/ (pc'[a] = l /\ (a = t \/ a = Child))
  BY <1>1 DEF Shared, MidTurn
<1>3. pc'[Main] \in {"create", "next"} => pc'[Main] = pc[Main]
  BY <1>2
<1>4. \A u \in joined : pc'[u] \in {"ended", "gone"}
  <2>1. \A u \in joined : u \in Threads /\ u # t /\ u # Child
    BY DEF Shared
  <2>2. QED  BY <1>2, <2>1 DEF Shared
<1>5. \A u \in Threads : pc'[u] \in MidTurn => count[u] < Loops
  BY <1>2 DEF Shared
<1>6. Shared'
  BY <1>1, <1>2, <1>3, <1>4, <1>5, SameMax DEF Shared
<1>7. OneHolder(childHolder')
  <2>1. CASE holder = {}
    BY <1>1, <2>1 DEF OneHolder
  <2>2. CASE holder # {}
    <3>1. PICK b \in Actors : holder = {b}
      BY <2>2 DEF ForkTypes, OneHolder
    <3>2. childHolder' = {IF b = t THEN Child ELSE b}
      BY <1>1, <3>1
    <3>3. (IF b = t THEN Child ELSE b) \in Actors
      OBVIOUS
    <3>4. QED  BY <3>2, <3>3 DEF OneHolder
  <2>3. QED  BY <2>1, <2>2
<1>8. QED  BY <1>1, <1>6, <1>7 DEF ForkTypes, OneHolder

LEMMA ForkFailsTypes ==
    ASSUME Shared, ForkTypes, UNCHANGED programVars, ForkFails
    PROVE  Shared' /\ ForkTypes'
<1> USE ActorFacts DEF At
<1>1. /\ pc' = [a \in Actors |-> IF pc[a] = "unborn" THEN "unborn" ELSE "gone"]
      /\ status' = 1 /\ UNCHANGED <<i, j, count, joined, detached, holder, childHolder>>
  BY DEF ForkFails, threadVars, forkVars
<1>2. /\ pc' = [a \in Actors |-> pc'[a]] /\ pc'[Main] \in {"unborn", "gone"}
      /\ \A u \in joined : pc'[u] = "gone"
      /\ \A u \in Threads : pc'[u] \notin MidTurn
  BY <1>1 DEF Shared, MidTurn
<1>3. Shared'
  BY <1>1, <1>2, SameMax DEF Shared
<1>4. QED  BY <1>1, <1>3 DEF ForkTypes, OneHolder

LEMMA MutexTypes ==
    ASSUME Shared, ForkTypes, UNCHANGED programVars, NEW a \in Actors,
           NEW l \in {"before", "after", "lock", "unlock", "join"},
           NEW m \in {"forking", "lock", "unlock", "ended", "joining"},
           MutexLock(a, l, m) \/ MutexUnlock(a, l, m), a = Main => m = "joining"
    PROVE  Shared' /\ ForkTypes'
<1>1. /\ pc[a] = l /\ pc' = [pc EXCEPT ![a] = m] /\ m \notin MidTurn
      /\ UNCHANGED <<i, j, status, count, joined, detached>> /\ UNCHANGED threadVars
  BY DEF MutexLock, MutexUnlock, At, Goto, mainVars, threadVars, MidTurn
<1>2. SetHolder(a, {a}) \/ SetHolder(a, {})
  BY DEF MutexLock, MutexUnlock
<1>3. ForkTypes'
  BY <1>2 DEF ForkTypes, SetHolder, OneHolder
<1>4. CASE a = Main
  <2>1. m \notin {"create", "next"} /\ status' \in 0 .. 1
    BY <1>1 DEF Shared
  <2>2. QED  BY <1>1, <1>3, <1>4, <2>1, MainGoes
<1>5. CASE a # Main
  <2>1. pc[a] \notin {"ended", "gone"}
    BY <1>1
  <2>2. QED  BY <1>1, <1>3, <1>5, <2>1, ThreadMoves
<1>6. QED  BY <1>4, <1>5

LEMMA AtforkMainTypes ==
    ASSUME Shared, ForkTypes, UNCHANGED programVars, AtforkMain
    PROVE  Shared' /\ ForkTypes'
<1> USE ActorFacts, Bounds DEF At
<1>0. 1 \in 1 .. N /\ 2 \in 1 .. N /\ {"forking", "before", "count"} \cap MidTurn = {}
  BY DEF MidTurn
<1>1. CASE TakesMutex
  <2>1. UNCHANGED <<pc, i, j, status, count, joined, detached, childHolder>> /\ holder' = {Main}
    BY <1>1 DEF TakesMutex, mainVars, threadVars
  <2>2. QED  BY <2>1, SameMax DEF Shared, ForkTypes, OneHolder
<1>2. CASE StartsForker \/ StartsCounter
  <2>1. UNCHANGED forkVars
        /\ \E n_ \in {1, 2}, l \in {"forking", "before", "count"} : StartThread(n_, l)
    BY <1>2 DEF StartsForker, StartsCounter
  <2>2. Shared'
    BY <1>0, <2>1, StartThreadShared
  <2>3. QED  BY <2>1, <2>2 DEF ForkTypes, OneHolder, forkVars
<1>3. CASE (Increment \/ Started(2)) /\ UNCHANGED forkVars
  <2>1. Shared'
    BY <1>0, <1>3, IncrementShared, StartedShared
  <2>2. QED  BY <1>3, <2>1 DEF ForkTypes, OneHolder, forkVars
<1>4. CASE MutexUnlock(Main, "join", "joining")
  BY <1>4, MutexTypes
<1>5. CASE JoinsForker
  <2>1. /\ pc[Main] = "joining" /\ pc[1] = "ended" /\ joined' = {1}
        /\ pc' = [pc EXCEPT ![Main] = "wait", ![2] = "ended"]
        /\ UNCHANGED <<i, j, status, count, detached, holder, childHolder>>
    BY <1>5 DEF JoinsForker, JoinSucceeds, mainVars, forkVars
  <2>2. /\ pc' = [a \in Actors |-> pc'[a]] /\ pc'[Main] = "wait" /\ pc'[1] = "ended"
        /\ \A u \in Threads : pc'[u] = pc[u] \/ pc'[u] = "ended"
    BY <2>1 DEF Shared
  <2>3. \A u \in Threads : pc'[u] \in MidTurn => count[u] < Loops
    BY <2>2 DEF Shared, MidTurn
  <2>4. Shared'
    BY <2>1, <2>2, <2>3, SameMax DEF Shared
  <2>5. QED  BY <2>1, <2>4 DEF ForkTypes, OneHolder
<1>6. CASE Return(0) /\ UNCHANGED forkVars
  <2>1. 0 \in 0 .. 1
    OBVIOUS
  <2>2. Shared'
    BY <1>6, <2>1, ReturnShared
  <2>3. QED  BY <1>6, <2>2 DEF ForkTypes, OneHolder, forkVars
<1>7. QED  BY <1>1, <1>2, <1>3, <1>4, <1>5, <1>6 DEF AtforkMain

LEMMA ForkedMainTypes ==
    ASSUME Shared, ForkTypes, UNCHANGED programVars, ForkedMain
    PROVE  Shared' /\ ForkTypes'
<1>0. /\ 1 \in 1 .. N /\ 2 \in 1 .. N /\ 1 \in Threads /\ Main \in Actors
      /\ {"loop", "forking"} \cap MidTurn = {}
  BY Bounds, ActorFacts DEF MidTurn
<1>1. CASE AtforkMain
  BY <1>1, AtforkMainTypes
<1>2. CASE ForkMain
  <2>1. CASE Forks(Main, "join") \/ ForkFails
    BY <1>0, <2>1, ForksTypes, ForkFailsTypes
  <2>2. CASE /\ UNCHANGED forkVars
             /\ \/ StartThread(2, "loop") \/ Increment
                \/ JoinThread(2, j + 1) \/ ReturnAfter(2)
    <3>1. Shared'
      BY <1>0, <2>2, StartThreadShared, IncrementShared, JoinNextShared, ReturnAfterShared
    <3>2. QED  BY <2>2, <3>1 DEF ForkTypes, OneHolder, forkVars
  <2>3. QED  BY <1>2, <2>1, <2>2 DEF ForkMain
<1>3. CASE NotMainMain
  <2>1. UNCHANGED forkVars
    BY <1>3 DEF NotMainMain
  <2>2. Shared'
    BY <1>0, <1>3, StartThreadShared, IncrementShared, StartedShared, JoinThreadShared,
       ReturnAfterShared DEF NotMainMain
  <2>3. QED  BY <2>1, <2>2 DEF ForkTypes, OneHolder, forkVars
<1>4. CASE ExitProcess /\ UNCHANGED forkVars
  BY <1>4, ExitShared DEF ForkTypes, OneHolder, forkVars
<1>5. QED  BY <1>1, <1>2, <1>3, <1>4 DEF ForkedMain

LEMMA ForkedThreadTypes ==
    ASSUME Shared, ForkTypes, UNCHANGED programVars, NEW a \in Actors, a # Main, ForkedThread(a)
    PROVE  Shared' /\ ForkTypes'
<1>0. Loops \in {1, Loops}
  OBVIOUS
<1>1. CASE Is("atfork") /\ forker(a)
  <2>1. CASE At(a, "forking") /\ Forks(a, IF opt = "-d" THEN "lock" ELSE "after")
    <3>1. (IF opt = "-d" THEN "lock" ELSE "after") \in {"after", "lock", "loop", "join"}
          /\ pc[a] = "forking"
      BY <2>1 DEF At
    <3>2. QED  BY <2>1, <3>1, ForksTypes
  <2>2. CASE ForkFails
    BY <2>2, ForkFailsTypes
  <2>3. CASE before(a) \/ after(a) \/ MutexLock(a, "lock", "unlock")
             \/ MutexUnlock(a, "unlock", "ended")
    BY <2>3, MutexTypes DEF before, after
  <2>4. QED  BY <1>1, <2>1, <2>2, <2>3 DEF forker
<1>2. CASE ForkChild /\ a = Child
  <2>1. /\ pc[a] = "join" /\ pc' = [pc EXCEPT ![a] = "ended"]
        /\ UNCHANGED <<i, j, status, joined, count, detached, holder, childHolder>>
    BY <1>2 DEF ForkChild, At, Goto, mainVars, threadVars, forkVars
  <2>2. pc[a] \notin {"ended", "gone"} /\ "ended" \notin MidTurn
    BY <2>1 DEF MidTurn
  <2>3. Shared'
    BY <2>1, <2>2, ThreadMoves
  <2>4. QED  BY <2>1, <2>3 DEF ForkTypes, OneHolder
<1>3. CASE /\ program \in {"fork", "forknotmain"} /\ UNCHANGED forkVars
           /\ LoopTurn(a, Loops) \/ LoopEnd(a, Loops)
  <2>1. ~Is("add")
    BY <1>3 DEF Is
  <2>2. Shared'
    BY <1>0, <1>3, <2>1, LoopShared
  <2>3. QED  BY <1>3, <2>2 DEF ForkTypes, OneHolder, forkVars
<1>4. CASE At(a, "forking") /\ (Forks(a, "loop") \/ ForkFails)
  <2>1. pc[a] = "forking"
    BY <1>4 DEF At
  <2>2. QED  BY <1>4, <2>1, ForksTypes, ForkFailsTypes
<1>5. QED  BY <1>1, <1>2, <1>3, <1>4 DEF ForkedThread, NotMainThread, Is

LEMMA ForkStepTypes ==
    ASSUME Shared, ForkTypes, NEW a \in Actors, ForkStep(a)
    PROVE  Shared' /\ ForkTypes'
<1>1. UNCHANGED programVars
  BY DEF ForkStep
<1>2. CASE a = Main
  BY <1>1, <1>2, ForkedMainTypes DEF ForkStep
<1>3. CASE a # Main
  BY <1>1, <1>3, ForkedThreadTypes DEF ForkStep
<1>4. QED  BY <1>2, <1>3

RwTypes == readers \subseteq Threads /\ OneHolder(writer)

LEMMA RwThreadTypes ==
    ASSUME Shared, RwTypes, UNCHANGED programVars, program \in RwPrograms,
           NEW t \in Threads, NEW n_ \in {1, Loops}, RwThread(t, n_)
    PROVE  Shared' /\ RwTypes'
<1>0. /\ ~Is("add") /\ t \in Actors /\ t # Main /\ CountMax = Loops
      /\ \A k \in 0 .. Loops : k < n_ => k < Loops
  BY ActorFacts, Bounds DEF RwPrograms, Is, CountMax
<1>1. CASE RdCome(t, n_)
  <2>1. /\ pc[t] = "loop" /\ pc' = [pc EXCEPT ![t] = "rdlock"] /\ count[t] < n_
        /\ UNCHANGED <<i, j, status, joined, count, detached, writer>>
        /\ readers' = readers \cup {t}
    BY <1>1 DEF RdCome, At, Goto, mainVars, threadVars
  <2>2. count[t] < Loops /\ pc[t] \notin {"ended", "gone"}
    BY <1>0, <2>1 DEF Shared
  <2>3. Shared'
    BY <1>0, <2>1, <2>2, ThreadMoves
  <2>4. QED  BY <2>1, <2>3 DEF RwTypes, OneHolder
<1>2. CASE RdLock(t)
  <2>1. /\ pc[t] = "rdlock" /\ pc' = [pc EXCEPT ![t] = "reading"]
        /\ UNCHANGED <<i, j, status, joined, count, detached, writer, readers>>
    BY <1>2 DEF RdLock, At, Goto, mainVars, threadVars
  <2>2. count[t] < Loops /\ pc[t] \notin {"ended", "gone"}
    BY <2>1 DEF Shared, MidTurn
  <2>3. Shared'
    BY <1>0, <2>1, <2>2, ThreadMoves
  <2>4. QED  BY <2>1, <2>3 DEF RwTypes, OneHolder
<1>3. CASE RdUnlock(t)
  <2>1. /\ pc[t] = "reading" /\ pc' = [pc EXCEPT ![t] = "loop"]
        /\ count' = [count EXCEPT ![t] = @ + 1] /\ readers' = readers \ {t}
        /\ UNCHANGED <<i, j, status, joined, detached, writer>>
    BY <1>3 DEF RdUnlock, At, Goto, mainVars
  <2>2. count[t] < CountMax /\ pc[t] \notin {"ended", "gone"} /\ "loop" \notin MidTurn
    BY <1>0, <2>1 DEF Shared, MidTurn
  <2>3. Shared'
    BY <1>0, <2>1, <2>2, TurnShared
  <2>4. QED  BY <2>1, <2>3 DEF RwTypes, OneHolder
<1>4. CASE WrLock(t)
  <2>1. /\ pc[t] = "wrlock" /\ pc' = [pc EXCEPT ![t] = "writing"] /\ writer' = {t}
        /\ UNCHANGED <<i, j, status, joined, count, detached, readers>>
    BY <1>4 DEF WrLock, At, Goto, mainVars, threadVars
  <2>2. pc[t] \notin {"ended", "gone"} /\ "writing" \notin MidTurn
    BY <2>1 DEF MidTurn
  <2>3. Shared'
    BY <1>0, <2>1, <2>2, ThreadMoves
  <2>4. QED  BY <1>0, <2>1, <2>3 DEF RwTypes, OneHolder
<1>5. CASE WrUnlock(t)
  <2>1. /\ pc[t] = "writing" /\ pc' = [pc EXCEPT ![t] = "ended"] /\ writer' = {}
        /\ UNCHANGED <<i, j, status, joined, count, detached, readers>>
    BY <1>5 DEF WrUnlock, At, Goto, mainVars, threadVars
  <2>2. pc[t] \notin {"ended", "gone"} /\ "ended" \notin MidTurn
    BY <2>1 DEF MidTurn
  <2>3. Shared'
    BY <1>0, <2>1, <2>2, ThreadMoves
  <2>4. QED  BY <2>1, <2>3 DEF RwTypes, OneHolder
<1>6. CASE LoopEnd(t, n_) /\ UNCHANGED rwVars
  <2>1. Shared'
    BY <1>0, <1>6, LoopShared
  <2>2. QED  BY <1>6, <2>1 DEF RwTypes, OneHolder, rwVars
<1>7. QED  BY <1>1, <1>2, <1>3, <1>4, <1>5, <1>6 DEF RwThread, prop_set, prop_get

LEMMA RwMainTypes ==
    ASSUME Shared, RwTypes, UNCHANGED programVars, RwMain
    PROVE  Shared' /\ RwTypes'
<1>1. UNCHANGED rwVars
  BY DEF RwMain, RwlockMain, PrefMain
<1>2. \E n_ \in {3, N} : \/ StartThread(n_, "loop") \/ StartThread(n_, "wrlock")
                         \/ Increment \/ Started(n_)
                         \/ JoinThread(n_, j + 1) \/ ReturnAfter(n_) \/ ExitProcess
  BY DEF RwMain, RwlockMain, PrefMain, Role
<1>3. 3 \in 1 .. N /\ N \in 1 .. N /\ "loop" \notin MidTurn /\ "wrlock" \notin MidTurn
  BY Bounds DEF MidTurn
<1>4. Shared'
  BY <1>2, <1>3, StartThreadShared, IncrementShared, StartedShared, JoinNextShared,
     ReturnAfterShared, ExitShared
<1>5. QED  BY <1>1, <1>4 DEF RwTypes, OneHolder, rwVars

LEMMA RwStepTypes ==
    ASSUME Shared, RwTypes, NEW a \in Actors, RwlockStep(a)
    PROVE  Shared' /\ RwTypes'
<1>1. UNCHANGED programVars /\ program \in RwPrograms
  BY DEF RwlockStep
<1>2. CASE a = Main
  BY <1>1, <1>2, RwMainTypes DEF RwlockStep
<1>3. CASE a # Main
  <2>1. a \in Threads /\ \E n_ \in {1, Loops} : RwThread(a, n_)
    BY <1>3 DEF RwlockStep, RwStep
  <2>2. QED  BY <1>1, <2>1, RwThreadTypes
<1>4. QED  BY <1>2, <1>3

LockTypeInv == OneHolder(mine) /\ third \in 0 .. 2

LEMMA LockStepTypes ==
    ASSUME Shared, LockTypeInv, NEW a \in Actors, LockStep(a)
    PROVE  Shared' /\ LockTypeInv'
<1> USE DEF At
<1>0. /\ UNCHANGED programVars /\ 1 \in Actors /\ 1 # Main /\ 1 \in Threads /\ 1 \in 1 .. N
      /\ Main \in Actors /\ Main # 1 /\ "start" \notin MidTurn /\ "ended" \notin MidTurn
      /\ status \in 0 .. 1
  BY ActorFacts, Bounds DEF LockStep, MidTurn, Shared
<1>1. CASE UnlockForeign
  <2>1. /\ pc[1] = "start" /\ pc' = [pc EXCEPT ![1] = "ended"] /\ (mine' = {} \/ mine' = mine)
        /\ UNCHANGED <<i, j, status, joined, count, detached, third>>
    BY <1>1 DEF UnlockForeign, Goto, mainVars, threadVars
  <2>2. pc[1] \notin {"ended", "gone"}
    BY <2>1
  <2>3. Shared'
    BY <1>0, <2>1, <2>2, ThreadMoves
  <2>4. QED  BY <2>1, <2>3 DEF LockTypeInv, OneHolder
<1>2. CASE StartThread(1, "start") /\ UNCHANGED lockVars
  <2>1. Shared'
    BY <1>0, <1>2, StartThreadShared
  <2>2. QED  BY <1>2, <2>1 DEF LockTypeInv, OneHolder, lockVars
<1>3. CASE LockMine
  <2>1. /\ pc' = [pc EXCEPT ![Main] = "join"] /\ mine' = {Main} /\ UNCHANGED threadVars
        /\ i' = i /\ j' = j /\ status' \in 0 .. 1 /\ third' = third
    BY <1>0, <1>3 DEF LockMine, Goto, mainVars
  <2>2. Shared'
    BY <1>0, <2>1, MainGoes
  <2>3. QED  BY <1>0, <2>1, <2>2 DEF LockTypeInv, OneHolder
<1>4. CASE UnlockUnlocked
  <2>1. /\ pc[1] = "ended" /\ joined' = {1} /\ pc' = [pc EXCEPT ![Main] = "mutex3"]
        /\ UNCHANGED <<i, j, status, count, detached, mine, third>>
    BY <1>4 DEF UnlockUnlocked, JoinSucceeds, Goto, mainVars
  <2>2. /\ pc' = [b \in Actors |-> pc'[b]] /\ pc'[Main] = "mutex3"
        /\ \A u \in Threads : pc'[u] = pc[u]
    BY <2>1, ActorFacts DEF Shared
  <2>3. Shared'
    BY <1>0, <2>1, <2>2, SameMax DEF Shared
  <2>4. QED  BY <2>1, <2>3 DEF LockTypeInv, OneHolder
<1>5. CASE LockThird
  <2>1. UNCHANGED <<pc, i, j, status, joined, count, detached, mine>> /\ third' = 1
    BY <1>5 DEF LockThird, mainVars, threadVars
  <2>2. QED  BY <1>0, <2>1, SameMax DEF Shared, LockTypeInv, OneHolder
<1>6. CASE Relock
  <2>1. Return(0) /\ 0 \in 0 .. 1 /\ mine' = mine /\ third' \in 1 .. 2
    BY <1>6 DEF Relock
  <2>2. Shared'
    BY <1>0, <2>1, ReturnShared
  <2>3. QED  BY <2>1, <2>2 DEF LockTypeInv, OneHolder
<1>7. CASE ExitProcess /\ UNCHANGED lockVars
  BY <1>0, <1>7, ExitShared DEF LockTypeInv, OneHolder, lockVars
<1>8. QED  BY <1>1, <1>2, <1>3, <1>4, <1>5, <1>6, <1>7 DEF LockStep, NotMyLockMain

TypeInv == /\ <<program, opt>> \in CommandLines
           /\ Shared /\ ArgTypes /\ AddTypes /\ ForkTypes /\ RwTypes /\ LockTypeInv

LEMMA CommandLinePairs == \A c \in CommandLines : <<c[1], c[2]>> \in CommandLines
<1>1. ASSUME NEW S, NEW T PROVE \A d \in S \X T : <<d[1], d[2]>> \in S \X T
  OBVIOUS
<1>2. QED  BY <1>1, Zenon DEF CommandLines

LEMMA TypeInvInit == Init => TypeInv
<1> SUFFICES ASSUME Init PROVE TypeInv
  OBVIOUS
<1>1. <<program, opt>> \in CommandLines
  <2>1. PICK c \in CommandLines : program = c[1] /\ opt = c[2]
    BY Zenon DEF Init
  <2>2. QED  BY <2>1, CommandLinePairs, Zenon
<1>2. PthreadsInit /\ ArgInit /\ x = 0 /\ mutex = {} /\ tmp = [t \in Threads |-> 0]
      /\ ForkInit /\ RwInit /\ mine = {} /\ third = 0
  BY Zenon DEF Init, AddInit, LockInit
<1>3. Shared
  BY <1>2, Bounds, ActorFacts DEF PthreadsInit, Shared, At, MidTurn
<1>4. ArgTypes
  BY <1>2, Bounds DEF ArgInit, ArgTypes, Garbage
<1>5. AddTypes /\ ForkTypes /\ RwTypes /\ LockTypeInv
  BY <1>2, Bounds DEF ForkInit, RwInit, AddTypes, ForkTypes, RwTypes, LockTypeInv, OneHolder
<1>6. QED  BY <1>1, <1>3, <1>4, <1>5 DEF TypeInv

LEMMA TypeInvStep == TypeInv /\ ArgInv /\ ArgInv' /\ AddInv /\ AddInv' /\ [Next]_vars => TypeInv'
<1> SUFFICES ASSUME TypeInv, ArgInv, ArgInv', AddInv, AddInv', [Next]_vars PROVE TypeInv'
  OBVIOUS
<1>1. Shared /\ ArgTypes /\ AddTypes /\ ForkTypes /\ RwTypes /\ LockTypeInv
  BY DEF TypeInv
<1>2. <<program, opt>>' \in CommandLines
  BY SameProgram DEF TypeInv
<1>3. UNCHANGED argVars => ArgTypes'
  BY <1>1 DEF argVars, ArgTypes
<1>4. UNCHANGED addVars => AddTypes'
  BY <1>1 DEF addVars, AddTypes
<1>5. UNCHANGED forkVars => ForkTypes'
  BY <1>1 DEF forkVars, ForkTypes, OneHolder
<1>6. UNCHANGED rwVars => RwTypes'
  BY <1>1 DEF rwVars, RwTypes, OneHolder
<1>7. UNCHANGED lockVars => LockTypeInv'
  BY <1>1 DEF lockVars, LockTypeInv, OneHolder
<1>8. CASE Next
  <2>1. PICK a \in Actors : Step(a)
    BY <1>8 DEF Next
  <2>2. CASE ArgStep(a)
    <3>1. UNCHANGED addVars /\ UNCHANGED forkVars /\ UNCHANGED rwVars /\ UNCHANGED lockVars
      BY <2>2 DEF ArgStep
    <3>2. QED  BY <1>1, <1>2, <1>4, <1>5, <1>6, <1>7, <2>2, <3>1, ArgStepTypes DEF TypeInv
  <2>3. CASE CancelStep(a)
    <3>1. /\ UNCHANGED argVars /\ UNCHANGED addVars /\ UNCHANGED forkVars /\ UNCHANGED rwVars
          /\ UNCHANGED lockVars
      BY <2>3 DEF CancelStep
    <3>2. QED  BY <1>1, <1>2, <1>3, <1>4, <1>5, <1>6, <1>7, <2>3, <3>1, CancelStepShared
               DEF TypeInv
  <2>4. CASE AddStep(a)
    <3>1. UNCHANGED argVars /\ UNCHANGED forkVars /\ UNCHANGED rwVars /\ UNCHANGED lockVars
      BY <2>4 DEF AddStep
    <3>2. QED  BY <1>1, <1>2, <1>3, <1>5, <1>6, <1>7, <2>4, <3>1, AddStepTypes DEF TypeInv
  <2>5. CASE ForkStep(a)
    <3>1. UNCHANGED argVars /\ UNCHANGED addVars /\ UNCHANGED rwVars /\ UNCHANGED lockVars
      BY <2>5 DEF ForkStep
    <3>2. QED  BY <1>1, <1>2, <1>3, <1>4, <1>6, <1>7, <2>5, <3>1, ForkStepTypes DEF TypeInv
  <2>6. CASE RwlockStep(a)
    <3>1. UNCHANGED argVars /\ UNCHANGED addVars /\ UNCHANGED forkVars /\ UNCHANGED lockVars
      BY <2>6 DEF RwlockStep
    <3>2. QED  BY <1>1, <1>2, <1>3, <1>4, <1>5, <1>7, <2>6, <3>1, RwStepTypes DEF TypeInv
  <2>7. CASE LockStep(a)
    <3>1. UNCHANGED argVars /\ UNCHANGED addVars /\ UNCHANGED forkVars /\ UNCHANGED rwVars
      BY <2>7 DEF LockStep
    <3>2. QED  BY <1>1, <1>2, <1>3, <1>4, <1>5, <1>6, <2>7, <3>1, LockStepTypes DEF TypeInv
  <2>8. QED  BY <2>1, <2>2, <2>3, <2>4, <2>5, <2>6, <2>7 DEF Step
<1>9. CASE UNCHANGED vars
  <2>1. /\ UNCHANGED <<program, opt, pc, i, j, status, count, detached, joined>>
        /\ UNCHANGED argVars /\ UNCHANGED addVars /\ UNCHANGED forkVars /\ UNCHANGED rwVars
        /\ UNCHANGED lockVars
    BY <1>9 DEF vars, programVars, mainVars, threadVars
  <2>2. Shared'
    BY <1>1, <2>1 DEF Shared, At, CountMax, Is
  <2>3. QED  BY <1>2, <1>3, <1>4, <1>5, <1>6, <1>7, <2>1, <2>2 DEF TypeInv
<1>10. QED  BY <1>8, <1>9

\* Every program's variables stay in their types: in particular whoever has been joined
\* has ended, no mutex and no lock for writing has two holders, the loop counters do not
\* pass the number of threads, and nobody goes round his loop too often.
THEOREM ThreadTypeCorrect == Spec => []TypeOK
<1>1. TypeInv => TypeOK
  <2> SUFFICES ASSUME TypeInv PROVE TypeOK
    OBVIOUS
  <2>1. Shared /\ ArgTypes /\ AddTypes /\ ForkTypes /\ RwTypes /\ LockTypeInv
    BY DEF TypeInv
  <2>2. \A h \in {mutex, holder, childHolder, writer, mine} : OneHolder(h)
    BY <2>1 DEF AddTypes, ForkTypes, RwTypes, LockTypeInv
  <2>3. \A h : OneHolder(h) => h \subseteq Actors /\ Cardinality(h) <= 1
    BY FS_EmptySet, FS_Singleton DEF OneHolder
  <2>4. <<program, opt>> \in CommandLines
    BY DEF TypeInv
  <2>5. /\ i \in 0 .. N /\ j \in 0 .. N /\ status \in 0 .. 1
        /\ count \in [Actors -> 0 .. IF Is("add") THEN Width ELSE Loops]
        /\ detached \subseteq Threads /\ joined \subseteq Threads
        /\ \A t \in joined : pc[t] \in {"ended", "gone"}
    BY <2>1 DEF Shared, CountMax
  <2>6. QED
    BY <2>1, <2>2, <2>3, <2>4, <2>5 DEF TypeOK, ArgTypes, AddTypes, RwTypes, LockTypeInv
<1>2. QED  BY ArgInvariant, AddInvariant, TypeInvInit, TypeInvStep, <1>1, PTL DEF Spec
=============================================================================
