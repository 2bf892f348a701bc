--------------------------- MODULE CondVarProofs ----------------------------
(***************************************************************************)
(* The programs that sleep on a condition variable.                        *)
(*                                                                         *)
(* Both hand-made barriers, for any number of threads, as long as the      *)
(* counter does not wrap around in the middle of a round: they print       *)
(* complete lines, the fixed one leaves nobody behind, and the other one   *)
(* stops only when it does.  The last section is about queue-simulation.c, *)
(* for every set of capacities.                                            *)
(***************************************************************************)
EXTENDS ImplementBarrierFixed, QueueSimulation, FiniteSetTheorems, TLAPS

\* on_barrier is never reset.  If max does not divide the range of an int, it must
\* not get past INT_MAX, which takes 2^31 arrivals.
WholeRounds == IntModulus % max = 0 \/ on_barrier' >= on_barrier

InFirst == {t \in Threads : pc[t] \in {"first", "wait1"}}

\* on_barrier counts who has arrived, and those are in the first waiting loop.
Counted == /\ on_barrier % max = Cardinality(arrived)
           /\ arrived \subseteq InFirst

\* A thread's ID is on the line from its printing to the end of the round.
Lines == \A t \in Threads :
            line[t] = IF t \in arrived \/ pc[t] \in {"lock", "enter"} THEN 1 ELSE 0

\* A sleeper is in one of the two waiting loops.
Sleepers == \A t \in waiting : pc[t] \in {"wait1", "wait2"}

\* The fixed program is in one of two phases.  While a round is being collected,
\* who is in the first loop has arrived, and who is in the second one may leave.
\* When it is over, everybody is in one of the two loops until the first is empty.
Collecting == InFirst = arrived /\ \A t \in Threads : pc[t] \in {"second", "wait2"} => wokenup = max
Draining == /\ arrived = {}
            /\ wokenup = max - Cardinality(InFirst)
            /\ \A t \in Threads : pc[t] \in {"first", "wait1", "second", "wait2"}

\* Nobody sleeps through the broadcast that is meant for him.
Awake == \A t \in waiting : /\ pc[t] = "wait1" => arrived # {}
                            /\ pc[t] = "wait2" => wokenup < max

Phases == program = "fixed" => (Collecting \/ Draining) /\ Awake

OneLoop == program = "buggy" => \A t \in Threads : pc[t] \notin {"second", "wait2"}

Types == /\ program \in Programs
         /\ on_barrier \in -(IntModulus \div 2) .. (IntModulus \div 2 - 1)
         /\ wokenup \in 0 .. max
         /\ mutex \in Threads \cup {"free"}
         /\ waiting \subseteq Threads
         /\ line \in [Threads -> Int]
         /\ arrived \subseteq Threads
         /\ pc \in [Threads -> {"print", "lock", "enter", "first", "second",
                                "wait1", "wait2", "unlock"}]

IInv == Types /\ Counted /\ Lines /\ Sleepers /\ OneLoop /\ Phases
-----------------------------------------------------------------------------
(* Counting modulo max.                                                    *)

\* A number is a multiple of the divisor, and the remainder.
LEMMA DivMod ==
    ASSUME NEW m \in Nat \ {0}, NEW n \in Int
    PROVE  n \div m \in Int /\ n = m * (n \div m) + (n % m) /\ n % m \in 0 .. m - 1
  OBVIOUS

\* The remainder is the only one there is.
LEMMA ModUnique ==
    ASSUME NEW m \in Nat \ {0}, NEW q \in Int, NEW r \in 0 .. m - 1
    PROVE  (m * q + r) % m = r
  OBVIOUS

\* The remainder of the next number is the next one, or 0 after the last.
LEMMA ModNext ==
    ASSUME NEW m \in Nat \ {0}, NEW n \in Int
    PROVE  (n + 1) % m = IF n % m = m - 1 THEN 0 ELSE (n % m) + 1
<1> DEFINE q == n \div m
           r == n % m
<1>1. q \in Int /\ r \in 0 .. m - 1 /\ n = m * q + r
  BY DivMod
<1> HIDE DEF q, r
<1>2. CASE r = m - 1
  <2>1. n + 1 = m * (q + 1) + 0
    BY <1>1, <1>2
  <2>2. q + 1 \in Int /\ 0 \in 0 .. m - 1
    BY <1>1
  <2>3. (m * (q + 1) + 0) % m = 0
    BY ONLY m \in Nat \ {0}, <2>2, ModUnique
  <2>4. (n + 1) % m = 0
    BY ONLY <2>1, <2>3
  <2>5. QED  BY <1>2, <2>4 DEF r
<1>3. CASE r # m - 1
  <2>1. n + 1 = m * q + (r + 1) /\ r + 1 \in 0 .. m - 1
    BY <1>1, <1>3
  <2>2. QED  BY <1>1, <1>3, <2>1, ModUnique DEF r
<1>4. QED  BY <1>2, <1>3

\* Numbers that differ by a multiple of the divisor have the same remainder.
LEMMA ModShift ==
    ASSUME NEW m \in Nat \ {0}, NEW n \in Int, NEW d \in Int, d % m = 0
    PROVE  (n - d) % m = n % m
<1> DEFINE q == n \div m
           r == n % m
           p == d \div m
<1>1. q \in Int /\ r \in 0 .. m - 1 /\ n = m * q + r
  BY DivMod
<1>2. p \in Int /\ d = m * p
  BY DivMod
<1> HIDE DEF q, r, p
<1>3. n - d = m * (q - p) + r
  BY <1>1, <1>2
<1>4. q - p \in Int
  BY <1>1, <1>2
<1>5. (m * (q - p) + r) % m = r
  BY ONLY m \in Nat \ {0}, <1>1, <1>4, ModUnique
<1>6. (n - d) % m = r
  BY ONLY <1>3, <1>5
<1>7. QED  BY <1>6 DEF r

\* max is a number, and so is every count of threads.
LEMMA Counts ==
    /\ max \in Nat /\ max >= 2
    /\ \A S \in SUBSET Threads : /\ IsFiniteSet(S) /\ Cardinality(S) \in 0 .. max
                                 /\ Cardinality(S) = max => S = Threads
                                 /\ Cardinality(S) = 0 <=> S = {}
<1>1. IsFiniteSet(Threads) /\ max \in Nat /\ max >= 2
  BY ThreadsAssumption, FS_CardinalityType DEF max
<1>2. ASSUME NEW S \in SUBSET Threads
      PROVE  /\ IsFiniteSet(S) /\ Cardinality(S) \in 0 .. max
             /\ Cardinality(S) = max => S = Threads
             /\ Cardinality(S) = 0 <=> S = {}
  <2>1. /\ IsFiniteSet(S) /\ Cardinality(S) <= max
        /\ Cardinality(S) = max => S = Threads
    BY <1>1, FS_Subset DEF max
  <2>2. Cardinality(S) \in Nat
    BY <2>1, FS_CardinalityType
  <2>3. QED  BY <1>1, <2>1, <2>2, FS_EmptySet
<1>3. QED  BY <1>1, <1>2

\* A wrap-around at the end of a round is no different from any other increment.
LEMMA IncrementMod ==
    ASSUME NEW n \in -(IntModulus \div 2) .. (IntModulus \div 2 - 1),
           IntModulus % max = 0 \/ Increment(n) >= n
    PROVE  /\ Increment(n) \in -(IntModulus \div 2) .. (IntModulus \div 2 - 1)
           /\ Increment(n) % max = IF n % max = max - 1 THEN 0 ELSE (n % max) + 1
<1>1. max \in Nat \ {0} /\ n \in Int /\ IntModulus \in Int
  BY Counts, IntAssumption
<1>2. IntModulus \div 2 \in Nat \ {0} /\ IntModulus = 2 * (IntModulus \div 2)
  BY IntAssumption
<1>3. IntModulus % max = 0 => ((n + 1) - IntModulus) % max = (n + 1) % max
  <2>1. IntModulus % max = 0 => \A k \in Int : (k - IntModulus) % max = k % max
    BY <1>1, ModShift
  <2>2. n + 1 \in Int
    BY <1>1
  <2>3. QED  BY ONLY <2>1, <2>2, Zenon
<1>4. \/ Increment(n) = n + 1
      \/ Increment(n) = (n + 1) - IntModulus /\ IntModulus % max = 0
  BY <1>1, <1>2 DEF Increment
<1>5. Increment(n) % max = (n + 1) % max
  BY <1>3, <1>4
<1>6. Increment(n) \in -(IntModulus \div 2) .. (IntModulus \div 2 - 1)
  BY <1>1, <1>2 DEF Increment
<1>7. QED  BY <1>1, <1>5, <1>6, ModNext
-----------------------------------------------------------------------------
(* What one thread's step does to the counts.                              *)

\* The last arrival is the one that finds on_barrier at a multiple of max.
LEMMA ArriveCounts ==
    ASSUME IInv, WholeRounds, NEW t \in Threads, pc[t] = "enter", Arrive(t)
    PROVE  /\ t \notin arrived
           /\ on_barrier' \in -(IntModulus \div 2) .. (IntModulus \div 2 - 1)
           /\ AtBarrier(on_barrier') <=> arrived = Threads \ {t}
           /\ on_barrier' % max = Cardinality(arrived')
           /\ line' = IF AtBarrier(on_barrier') THEN [u \in Threads |-> 0] ELSE line
           /\ arrived' = IF AtBarrier(on_barrier') THEN {} ELSE arrived \cup {t}
<1>1. t \notin arrived
  BY DEF IInv, Counted, InFirst
<1>2. /\ on_barrier' \in -(IntModulus \div 2) .. (IntModulus \div 2 - 1)
      /\ on_barrier' % max = IF Cardinality(arrived) = max - 1 THEN 0
                             ELSE Cardinality(arrived) + 1
  BY IncrementMod DEF IInv, Types, Counted, Arrive, WholeRounds
<1>3. /\ line' = IF AtBarrier(on_barrier') THEN [u \in Threads |-> 0] ELSE line
      /\ arrived' = IF AtBarrier(on_barrier') THEN {} ELSE arrived \cup {t}
  BY DEF Arrive
<1>4. /\ IsFiniteSet(arrived) /\ Cardinality(arrived) \in 0 .. max
      /\ arrived \cup {t} \in SUBSET Threads
  BY Counts DEF IInv, Types
<1>5. Cardinality(arrived \cup {t}) = Cardinality(arrived) + 1
  BY <1>1, <1>4, FS_AddElement
<1>6. Cardinality(arrived) + 1 = max <=> arrived \cup {t} = Threads
  <2>1. Cardinality(arrived \cup {t}) = max => arrived \cup {t} = Threads
    BY <1>4, Counts
  <2>2. QED  BY <1>5, <2>1 DEF max
<1>7. AtBarrier(on_barrier') <=> Cardinality(arrived) = max - 1
  <2>1. max \in Nat /\ max >= 2
    BY Counts
  <2> DEFINE r == on_barrier' % max
  <2>2. r = IF Cardinality(arrived) = max - 1 THEN 0 ELSE Cardinality(arrived) + 1
    BY <1>2
  <2> HIDE DEF r
  <2>3. r = 0 <=> Cardinality(arrived) = max - 1
    BY ONLY <1>4, <2>1, <2>2
  <2>4. QED  BY <2>3 DEF r, AtBarrier
<1>8. AtBarrier(on_barrier') <=> arrived = Threads \ {t}
  <2>1. AtBarrier(on_barrier') <=> arrived \cup {t} = Threads
    BY <1>4, <1>6, <1>7, Counts
  <2>2. arrived \cup {t} = Threads <=> arrived = Threads \ {t}
    BY <1>1, <1>4
  <2>3. QED  BY <2>1, <2>2
<1>9. on_barrier' % max = Cardinality(arrived')
  BY <1>2, <1>3, <1>5, <1>7, FS_EmptySet
<1>10. QED  BY <1>1, <1>2, <1>3, <1>8, <1>9

\* on_barrier is at a multiple of max exactly when nobody has arrived.
LEMMA AtBarrierEmpty == ASSUME IInv PROVE AtBarrier(on_barrier) <=> arrived = {}
  BY Counts DEF IInv, Counted, Types, AtBarrier
-----------------------------------------------------------------------------
(* The steps of a thread.                                                  *)

Loops == {"first", "wait1", "second", "wait2"}

\* A step that counts nothing and moves nobody into or out of the first loop may
\* move somebody out of the second one, when everybody may go, and no one in.
LEMMA Frame ==
    ASSUME IInv, UNCHANGED <<on_barrier, arrived, wokenup, program>>,
           InFirst' = InFirst, Types', Lines', Sleepers', OneLoop',
           program = "fixed" => Awake',
           \A u \in Threads :
               /\ pc'[u] \in {"second", "wait2"} => pc[u] \in {"second", "wait2"}
               /\ pc[u] \in Loops => pc'[u] \in Loops \/ wokenup = max
    PROVE  IInv'
<1>1. Counted'
  BY DEF IInv, Counted
<1>2. CASE program = "fixed" /\ Collecting
  <2>1. Collecting'
    BY <1>2 DEF Collecting
  <2>2. QED  BY <1>1, <1>2, <2>1 DEF IInv, Phases
<1>3. CASE program = "fixed" /\ Draining /\ wokenup # max
  <2>1. Draining'
    BY <1>3 DEF Draining, Loops
  <2>2. QED  BY <1>1, <1>3, <2>1 DEF IInv, Phases
<1>4. CASE program = "fixed" /\ Draining /\ wokenup = max
  <2>1. InFirst = {}
    <3>1. InFirst \in SUBSET Threads /\ wokenup = max - Cardinality(InFirst)
      BY <1>4 DEF InFirst, Draining
    <3>2. Cardinality(InFirst) = 0
      BY <1>4, <3>1, Counts
    <3>3. QED  BY <3>1, <3>2, Counts
  <2>2. Collecting'
    BY <1>4, <2>1 DEF Draining, Collecting
  <2>3. QED  BY <1>1, <1>4, <2>2 DEF IInv, Phases
<1>5. CASE program # "fixed"
  BY <1>1, <1>5 DEF IInv, Phases
<1>6. QED  BY <1>2, <1>3, <1>4, <1>5 DEF IInv, Phases

\* PrintID puts the thread's ID on a line it is not on.
LEMMA PrintIDStep ==
    ASSUME IInv, NEW t \in Threads, PrintID(t), UNCHANGED <<wokenup, program>>
    PROVE  IInv'
<1> USE DEF IInv, Types, PrintID, Goto
<1>1. InFirst' = InFirst
  BY DEF InFirst
<1>2. Types' /\ OneLoop'
  BY DEF OneLoop
<1>3. Lines'
  BY DEF Lines, Counted, InFirst
<1>4. Sleepers' /\ (program = "fixed" => Awake')
  BY DEF Sleepers, Awake, Phases
<1>5. QED  BY <1>1, <1>2, <1>3, <1>4, Frame DEF Loops

\* Getting the mutex.
LEMMA LockStep ==
    ASSUME IInv, NEW t \in Threads, Lock(t), UNCHANGED <<wokenup, program>>
    PROVE  IInv'
<1> USE DEF IInv, Types, Lock, Acquire, Goto
<1>1. InFirst' = InFirst
  BY DEF InFirst
<1>2. Types' /\ OneLoop'
  BY DEF OneLoop
<1>3. Lines'
  BY DEF Lines, Counted, InFirst
<1>4. Sleepers' /\ (program = "fixed" => Awake')
  BY DEF Sleepers, Awake, Phases
<1>5. QED  BY <1>1, <1>2, <1>3, <1>4, Frame DEF Loops

\* Getting it back in pthread_cond_wait().
LEMMA ReacquireStep ==
    ASSUME IInv, NEW t \in Threads, Reacquire(t), UNCHANGED <<wokenup, program>>
    PROVE  IInv'
<1> USE DEF IInv, Types, Reacquire, Acquire, Goto
<1>1. InFirst' = InFirst
  BY DEF InFirst
<1>2. Types' /\ OneLoop'
  BY DEF OneLoop
<1>3. Lines'
  BY DEF Lines
<1>4. Sleepers' /\ (program = "fixed" => Awake')
  BY DEF Sleepers, Awake, Phases
<1>5. QED  BY <1>1, <1>2, <1>3, <1>4, Frame DEF Loops

\* Waking up without a reason.
LEMMA SpuriousStep ==
    ASSUME IInv, NEW t \in Threads, SpuriousWakeup(t),
           UNCHANGED <<on_barrier, line, arrived, wokenup, program>>
    PROVE  IInv'
<1> USE DEF IInv, Types, SpuriousWakeup
<1>1. InFirst' = InFirst /\ Types' /\ OneLoop' /\ Lines'
  BY DEF InFirst, OneLoop, Lines
<1>2. Sleepers' /\ (program = "fixed" => Awake')
  BY DEF Sleepers, Awake, Phases
<1>3. QED  BY <1>1, <1>2, Frame DEF Loops

\* Nobody falls asleep in the first loop when the round is over.
LEMMA FirstWaitStep ==
    ASSUME IInv, NEW t \in Threads, FirstWait(t), UNCHANGED <<wokenup, program>>
    PROVE  IInv'
<1>0. arrived # {}
  BY AtBarrierEmpty DEF FirstWait
<1> USE DEF IInv, Types, FirstWait, CondWait, Goto
<1>1. InFirst' = InFirst
  BY DEF InFirst
<1>2. Types' /\ OneLoop'
  BY DEF OneLoop
<1>3. Lines'
  BY DEF Lines
<1>4. Sleepers' /\ (program = "fixed" => Awake')
  BY <1>0 DEF Sleepers, Awake, Phases
<1>5. QED  BY <1>1, <1>2, <1>3, <1>4, Frame DEF Loops

\* Releasing the mutex.
LEMMA UnlockStep ==
    ASSUME IInv, NEW t \in Threads, Unlock(t), UNCHANGED <<wokenup, program>>
    PROVE  IInv'
<1> USE DEF IInv, Types, Unlock, Goto
<1>1. InFirst' = InFirst
  BY DEF InFirst
<1>2. Types' /\ OneLoop'
  BY DEF OneLoop
<1>3. Lines'
  BY DEF Lines
<1>4. Sleepers' /\ (program = "fixed" => Awake')
  BY DEF Sleepers, Awake, Phases
<1>5. QED  BY <1>1, <1>2, <1>3, <1>4, Frame DEF Loops

\* Nobody falls asleep in the second loop when everybody has woken up.
LEMMA SecondWaitStep ==
    ASSUME IInv, NEW t \in Threads, SecondWait(t), UNCHANGED program
    PROVE  IInv'
<1> USE DEF IInv, Types, SecondWait, CondWait, Goto
<1>1. InFirst' = InFirst
  BY DEF InFirst
<1>2. Types' /\ OneLoop'
  BY DEF OneLoop
<1>3. Lines'
  BY DEF Lines
<1>4. Sleepers' /\ (program = "fixed" => Awake')
  BY DEF Sleepers, Awake, Phases
<1>5. QED  BY <1>1, <1>2, <1>3, <1>4, Frame DEF Loops

\* Out of the second loop, when everybody is out of the first.
LEMMA SecondLeaveStep ==
    ASSUME IInv, NEW t \in Threads, SecondLeave(t), UNCHANGED program
    PROVE  IInv'
<1>0. wokenup = max
  BY Counts DEF IInv, Types, SecondLeave
<1> USE DEF IInv, Types, SecondLeave, Goto
<1>1. InFirst' = InFirst
  BY DEF InFirst
<1>2. Types' /\ OneLoop'
  BY DEF OneLoop
<1>3. Lines'
  BY DEF Lines
<1>4. Sleepers' /\ (program = "fixed" => Awake')
  BY DEF Sleepers, Awake, Phases
<1>5. QED  BY <1>0, <1>1, <1>2, <1>3, <1>4, Frame DEF Loops

\* An arrival in either program: the counts, and the lines.  The last one finds
\* everybody else in the first loop, so the line it ends is nobody else's.
LEMMA ArriveKeeps ==
    ASSUME IInv, WholeRounds, NEW t \in Threads, pc[t] = "enter", Arrive(t),
           NEW l \in {"unlock", "second"},
           Goto(t, IF AtBarrier(on_barrier') THEN l ELSE "first")
    PROVE  Counted' /\ Lines'
<1>1. /\ t \notin arrived
      /\ AtBarrier(on_barrier') <=> arrived = Threads \ {t}
      /\ on_barrier' % max = Cardinality(arrived')
      /\ line' = IF AtBarrier(on_barrier') THEN [u \in Threads |-> 0] ELSE line
      /\ arrived' = IF AtBarrier(on_barrier') THEN {} ELSE arrived \cup {t}
  BY ArriveCounts
<1>2. CASE AtBarrier(on_barrier')
  <2>1. arrived' = {} /\ line' = [u \in Threads |-> 0] /\ arrived = Threads \ {t}
    BY <1>1, <1>2
  <2>2. \A u \in Threads : pc'[u] \notin {"lock", "enter"}
    BY <1>2, <2>1 DEF IInv, Types, Counted, InFirst, Goto
  <2>3. QED  BY <1>1, <2>1, <2>2 DEF Counted, Lines
<1>3. CASE ~AtBarrier(on_barrier')
  <2>1. arrived' = arrived \cup {t} /\ line' = line /\ Goto(t, "first")
    BY <1>1, <1>3
  <2>2. arrived' \subseteq InFirst'
    BY <2>1 DEF IInv, Types, Counted, InFirst, Goto
  <2>3. Lines'
    BY <1>1, <2>1 DEF IInv, Types, Lines, Goto
  <2>4. QED  BY <1>1, <2>2, <2>3 DEF Counted
<1>4. QED  BY <1>2, <1>3

\* The first program's arrival.
LEMMA EnterStep ==
    ASSUME IInv, WholeRounds, NEW t \in Threads, program = "buggy", Enter(t),
           UNCHANGED <<wokenup, program>>
    PROVE  IInv'
<1>1. /\ pc[t] = "enter" /\ Arrive(t) /\ UNCHANGED mutex
      /\ Goto(t, IF AtBarrier(on_barrier') THEN "unlock" ELSE "first")
      /\ waiting' \in {waiting, {}}
  BY DEF Enter, CondBroadcast
<1>2. Counted' /\ Lines'
  BY <1>1, ArriveKeeps
<1>3. Types'
  <2>1. on_barrier' \in -(IntModulus \div 2) .. (IntModulus \div 2 - 1)
    BY <1>1, ArriveCounts
  <2>2. line' \in [Threads -> Int] /\ arrived' \subseteq Threads
    BY <1>1 DEF IInv, Types, Arrive
  <2>3. QED  BY <1>1, <2>1, <2>2 DEF IInv, Types, Goto
<1>4. Sleepers' /\ OneLoop' /\ Phases'
  BY <1>1 DEF IInv, Types, Sleepers, OneLoop, Phases, Goto
<1>5. QED  BY <1>2, <1>3, <1>4 DEF IInv

\* The first program's way out.
LEMMA FirstLeaveStep ==
    ASSUME IInv, NEW t \in Threads, program = "buggy", FirstLeave(t),
           UNCHANGED <<wokenup, program>>
    PROVE  IInv'
<1>1. arrived = {}
  BY AtBarrierEmpty DEF FirstLeave
<1>2. Types' /\ Sleepers' /\ OneLoop' /\ Phases'
  BY DEF IInv, Types, Sleepers, OneLoop, Phases, FirstLeave, Goto
<1>3. Counted' /\ Lines'
  BY <1>1 DEF IInv, Types, Counted, Lines, InFirst, FirstLeave, Goto
<1>4. QED  BY <1>2, <1>3 DEF IInv

\* The fixed program's arrival: the last one starts the draining.
LEMMA FixedEnterStep ==
    ASSUME IInv, WholeRounds, NEW t \in Threads, program = "fixed", FixedEnter(t),
           UNCHANGED program
    PROVE  IInv'
<1>1. /\ pc[t] = "enter" /\ Arrive(t) /\ UNCHANGED mutex
      /\ Goto(t, IF AtBarrier(on_barrier') THEN "second" ELSE "first")
      /\ wokenup' = IF AtBarrier(on_barrier') THEN 1 ELSE wokenup
      /\ waiting' = IF AtBarrier(on_barrier') THEN {} ELSE waiting
  BY DEF FixedEnter, CondBroadcast
<1>2. Counted' /\ Lines'
  BY <1>1, ArriveKeeps
<1>3. Types'
  <2>1. on_barrier' \in -(IntModulus \div 2) .. (IntModulus \div 2 - 1)
    BY <1>1, ArriveCounts
  <2>2. line' \in [Threads -> Int] /\ arrived' \subseteq Threads
    BY <1>1 DEF IInv, Types, Arrive
  <2>3. wokenup' \in 0 .. max
    BY <1>1, Counts DEF IInv, Types
  <2>4. QED  BY <1>1, <2>1, <2>2, <2>3 DEF IInv, Types, Goto
<1>4. Sleepers' /\ OneLoop'
  BY <1>1 DEF IInv, Types, Sleepers, OneLoop, Goto
<1>5. Collecting
  BY <1>1 DEF IInv, Phases, Draining
<1>6. Phases'
  <2>1. CASE AtBarrier(on_barrier')
    <3>1. arrived = Threads \ {t} /\ arrived' = {}
      BY <1>1, <2>1, ArriveCounts
    <3>2. InFirst' = Threads \ {t}
      BY <1>1, <1>5, <2>1, <3>1 DEF IInv, Types, Collecting, InFirst, Goto
    <3>3. Cardinality(InFirst') = max - 1
      BY <3>2, ThreadsAssumption, FS_RemoveElement DEF max
    <3>4. \A u \in Threads : pc'[u] \in {"first", "wait1", "second", "wait2"}
      BY <1>1, <2>1, <3>2 DEF IInv, Types, InFirst, Goto
    <3>5. Draining'
      BY <1>1, <2>1, <3>1, <3>3, <3>4, Counts DEF Draining
    <3>6. Awake'
      BY <1>1, <2>1 DEF Awake
    <3>7. QED  BY <3>5, <3>6 DEF Phases
  <2>2. CASE ~AtBarrier(on_barrier')
    <3>1. arrived' = arrived \cup {t} /\ Goto(t, "first") /\ UNCHANGED <<wokenup, waiting>>
      BY <1>1, <2>2, ArriveCounts
    <3>2. InFirst' = InFirst \cup {t}
      BY <3>1 DEF IInv, Types, InFirst, Goto
    <3>3. Collecting'
      BY <1>5, <3>1, <3>2 DEF IInv, Types, Collecting, Goto
    <3>4. Awake'
      BY <3>1 DEF IInv, Types, Phases, Awake, Goto
    <3>5. QED  BY <3>3, <3>4 DEF Phases
  <2>3. QED  BY <2>1, <2>2
<1>7. QED  BY <1>2, <1>3, <1>4, <1>6 DEF IInv

\* The fixed program's way out of the first loop: the last one ends the draining.
LEMMA FixedFirstLeaveStep ==
    ASSUME IInv, NEW t \in Threads, program = "fixed", FixedFirstLeave(t), UNCHANGED program
    PROVE  IInv'
<1>1. /\ pc[t] = "first" /\ UNCHANGED <<on_barrier, mutex, line, arrived>>
      /\ Goto(t, IF wokenup' = max THEN "unlock" ELSE "second")
      /\ wokenup' = wokenup + 1
      /\ waiting' = IF wokenup' = max THEN {} ELSE waiting
  BY DEF FixedFirstLeave, CondBroadcast
<1>2. arrived = {}
  BY AtBarrierEmpty DEF FixedFirstLeave
<1>3. InFirst \in SUBSET Threads /\ t \in InFirst /\ InFirst' = InFirst \ {t}
  BY <1>1 DEF IInv, Types, InFirst, Goto
<1>4. Draining
  BY <1>2, <1>3 DEF IInv, Phases, Collecting
<1>5. Cardinality(InFirst') = Cardinality(InFirst) - 1
  BY <1>3, Counts, FS_RemoveElement
<1>6. InFirst' \in SUBSET Threads /\ Cardinality(InFirst') \in 0 .. max
  BY <1>3, Counts
<1>7. wokenup' = max - Cardinality(InFirst') /\ wokenup' \in 0 .. max
  <2>1. max \in Nat /\ Cardinality(InFirst) \in 0 .. max
    BY <1>3, Counts
  <2>2. QED  BY <1>1, <1>4, <1>5, <1>6, <2>1 DEF Draining
<1>8. Types' /\ Sleepers' /\ OneLoop'
  BY <1>1, <1>7 DEF IInv, Types, Sleepers, OneLoop, Goto
<1>9. Counted' /\ Lines'
  BY <1>1, <1>2 DEF IInv, Types, Counted, Lines, Goto
<1>10. Phases'
  <2>1. CASE wokenup' = max
    <3>1. InFirst' = {}
      <4>1. Cardinality(InFirst') = 0
        BY <1>6, <1>7, <2>1, Counts
      <4>2. QED  BY <1>6, <4>1, Counts
    <3>2. Collecting' /\ Awake'
      BY <1>1, <1>2, <2>1, <3>1 DEF Collecting, Awake
    <3>3. QED  BY <3>2 DEF Phases
  <2>2. CASE wokenup' # max
    <3>1. Draining'
      BY <1>1, <1>2, <1>4, <1>7, <2>2 DEF IInv, Types, Draining, Goto
    <3>2. Awake'
      BY <1>1, <1>7, <2>2, Counts DEF IInv, Types, Phases, Awake, Goto
    <3>3. QED  BY <3>1, <3>2 DEF Phases
  <2>3. QED  BY <2>1, <2>2
<1>11. QED  BY <1>8, <1>9, <1>10 DEF IInv
-----------------------------------------------------------------------------
(* The inductive invariant and what follows from it.                       *)

\* It holds initially.
LEMMA BarrierInitially == Init => IInv
<1> SUFFICES ASSUME Init PROVE IInv
  OBVIOUS
<1>1. InFirst = {} /\ arrived = {}
  BY DEF Init, BarrierInit, InFirst
<1>2. Types
  <2>1. IntModulus \div 2 \in Nat \ {0}
    BY IntAssumption
  <2>2. QED  BY <2>1, Counts DEF Init, BarrierInit, Types
<1>3. Counted
  <2>1. max \in Nat \ {0} /\ 0 % max = 0
    BY Counts
  <2>2. QED  BY <1>1, <2>1, FS_EmptySet DEF Init, BarrierInit, Counted
<1>4. Lines /\ Sleepers /\ OneLoop
  BY DEF Init, BarrierInit, Lines, Sleepers, OneLoop
<1>5. Collecting /\ Awake
  BY <1>1 DEF Init, BarrierInit, Collecting, Awake
<1>6. QED  BY <1>2, <1>3, <1>4, <1>5 DEF IInv, Phases

\* Every step keeps it.
LEMMA BarrierStep == IInv /\ [Next]_vars /\ [WholeRounds]_vars => IInv'
<1> SUFFICES ASSUME IInv, [Next]_vars, [WholeRounds]_vars PROVE IInv'
  OBVIOUS
<1>1. ASSUME NEW t \in Threads, Run(t), WholeRounds PROVE IInv'
  <2>1. CASE program = "buggy" /\ Thread(t) /\ UNCHANGED <<wokenup, program>>
    BY <1>1, <2>1, PrintIDStep, EnterStep, FirstWaitStep, FirstLeaveStep, UnlockStep DEF Thread
  <2>2. CASE program = "fixed" /\ FixedThread(t) /\ UNCHANGED program
    BY <1>1, <2>2, PrintIDStep, FirstWaitStep, UnlockStep, FixedEnterStep, FixedFirstLeaveStep,
       SecondWaitStep, SecondLeaveStep DEF FixedThread
  <2>3. QED  BY <1>1, <2>1, <2>2 DEF Run
<1>2. ASSUME NEW t \in Threads, GetMutex(t) PROVE IInv'
  BY <1>2, LockStep, ReacquireStep DEF GetMutex
<1>3. ASSUME NEW t \in Threads, SpuriousWakeup(t),
             UNCHANGED <<on_barrier, line, arrived, wokenup, program>>
      PROVE  IInv'
  BY <1>3, SpuriousStep
<1>4. CASE UNCHANGED vars
  BY <1>4 DEF vars, IInv, Types, Counted, InFirst, Lines, Sleepers, OneLoop,
              Phases, Collecting, Draining, Awake
<1>5. QED  BY <1>1, <1>2, <1>3, <1>4 DEF Next

\* It holds throughout.
LEMMA BarrierInvariance == SafeSpec /\ [][WholeRounds]_vars => []IInv
  BY BarrierInitially, BarrierStep, PTL DEF SafeSpec

\* It implies the types, with at most one copy of an ID on a line.
LEMMA TypesFollow == IInv => TypeOK
  BY DEF IInv, Types, Lines, TypeOK

\* Whoever is in the first loop has arrived, or may leave it.
LEMMA NobodyFollows == IInv => NobodyLeftBehind
<1> SUFFICES ASSUME IInv, program = "fixed" PROVE NobodyLeftBehind
  BY DEF NobodyLeftBehind
<1>1. CASE Collecting
  BY <1>1 DEF Collecting, InFirst, NobodyLeftBehind
<1>2. CASE Draining
  BY <1>2, AtBarrierEmpty DEF Draining, NobodyLeftBehind
<1>3. QED  BY <1>1, <1>2 DEF IInv, Phases

\* Never has everybody arrived, and the fixed program's sleepers wait for somebody.
LEMMA DeadlockFollows == IInv => DeadlockOnlyByMissedRound
<1> SUFFICES ASSUME IInv, waiting = Threads
             PROVE  program = "buggy" /\ \E t \in Threads : t \notin arrived
  BY DEF DeadlockOnlyByMissedRound
<1>1. PICK t \in Threads : t \notin arrived
  <2>1. on_barrier % max \in 0 .. max - 1
    BY Counts, IntAssumption DEF IInv, Types
  <2>2. Cardinality(arrived) # Cardinality(Threads)
    BY <2>1, Counts DEF IInv, Counted, max
  <2>3. QED  BY <2>2 DEF IInv, Types
<1>2. ASSUME program = "fixed" PROVE FALSE
  <2>1. /\ \A u \in Threads : pc[u] \in {"wait1", "wait2"}
        /\ \A u \in Threads : pc[u] = "wait1" => arrived # {}
        /\ \A u \in Threads : pc[u] = "wait2" => wokenup < max
    BY <1>2 DEF IInv, Sleepers, Phases, Awake
  <2>2. CASE Collecting
    BY <1>1, <2>1, <2>2, Counts DEF Collecting, InFirst
  <2>3. CASE Draining
    <3>1. InFirst = {}
      BY <2>1, <2>3 DEF Draining, InFirst
    <3>2. wokenup = max
      BY <2>3, <3>1, Counts, FS_EmptySet DEF Draining
    <3>3. QED  BY <1>1, <2>1, <2>3, <3>2, Counts DEF Draining
  <2>4. QED  BY <1>2, <2>2, <2>3 DEF IInv, Phases
<1>3. QED  BY <1>1, <1>2, ProgramsAssumption DEF IInv, Types

\* The types, for any number of threads, as long as no round is cut short: no ID
\* is on a line twice, and wokenup never counts more threads than there are.
THEOREM BarrierTypeCorrect == SafeSpec /\ [][WholeRounds]_vars => []TypeOK
  BY BarrierInvariance, TypesFollow, PTL

\* In implement-barrier-fixed.c no round begins while a thread is still in the
\* first waiting loop of the one before.
THEOREM FixedLeavesNobodyBehind == SafeSpec /\ [][WholeRounds]_vars => []NobodyLeftBehind
  BY BarrierInvariance, NobodyFollows, PTL

\* The fixed program never has everybody asleep; the other one only when somebody
\* missed the end of a round.
THEOREM DeadlockNeedsMissedRound == SafeSpec /\ [][WholeRounds]_vars => []DeadlockOnlyByMissedRound
  BY BarrierInvariance, DeadlockFollows, PTL

\* An arrival is one of the abstract barrier's.
LEMMA ArriveRefines ==
    ASSUME IInv, WholeRounds, NEW t \in Threads, pc[t] = "enter", Arrive(t)
    PROVE  TheBarrier!Arrive(t)
<1>1. /\ t \notin arrived
      /\ AtBarrier(on_barrier') <=> arrived = Threads \ {t}
      /\ line' = IF AtBarrier(on_barrier') THEN [u \in Threads |-> 0] ELSE line
      /\ arrived' = IF AtBarrier(on_barrier') THEN {} ELSE arrived \cup {t}
  BY ArriveCounts
<1>2. line[t] = 1
  BY DEF IInv, Lines
<1>3. arrived \cup {t} = Threads <=> AtBarrier(on_barrier')
  BY <1>1 DEF IInv, Types
<1>4. QED  BY <1>1, <1>2, <1>3 DEF TheBarrier!Arrive, TheBarrier!Blank

\* Every step of either program is a step of the abstract barrier or changes
\* neither its line nor who has arrived.
LEMMA StepRefines ==
    IInv /\ [Next]_vars /\ [WholeRounds]_vars => [TheBarrier!Next]_<<line, arrived>>
<1> SUFFICES ASSUME IInv, Next, WholeRounds, ~UNCHANGED <<line, arrived>>
             PROVE  TheBarrier!Next
  BY DEF vars
<1>1. PICK t \in Threads : Run(t)
  BY DEF Next, vars, GetMutex, Lock, Reacquire, SpuriousWakeup
<1>2. PrintID(t) \/ Enter(t) \/ FixedEnter(t)
  BY <1>1 DEF Run, Thread, FixedThread, FirstWait, FirstLeave, Unlock, FixedFirstLeave,
              SecondWait, SecondLeave
<1>3. CASE PrintID(t)
  <2>1. line[t] = 0
    BY <1>3 DEF PrintID, IInv, Lines, Counted, InFirst
  <2>2. TheBarrier!PrintID(t)
    BY <1>3, <2>1 DEF PrintID, TheBarrier!PrintID, IInv, Types
  <2>3. QED  BY <2>2 DEF TheBarrier!Next
<1>4. CASE Enter(t) \/ FixedEnter(t)
  BY <1>4, ArriveRefines DEF Enter, FixedEnter, TheBarrier!Next
<1>5. QED  BY <1>2, <1>3, <1>4

\* "Each line represents one barrier", in both programs: they implement the
\* abstract barrier.
THEOREM BarrierRefinement == SafeSpec /\ [][WholeRounds]_vars => LinesAreBarriers
<1>1. Init => TheBarrier!Init
  BY DEF Init, BarrierInit, TheBarrier!Init, TheBarrier!Blank
<1>2. QED
  BY <1>1, BarrierInvariance, StepRefines, PTL
  DEF SafeSpec, LinesAreBarriers, TheBarrier!Spec, TheBarrier!vars
-----------------------------------------------------------------------------
(* queue-simulation.c.                                                     *)

\* The mutex is owned by exactly the thread whose program counter is in a
\* critical section, whoever sleeps is inside pthread_cond_wait(), and the
\* consumer's local copy is what it was when the consumer read it.
MutexOwner == \A t \in QueueThreads : pc[t] \in Holding <=> mutex = t

SleepersWait == \A t \in waiting : pc[t] = "wait"

ConsumerCopy == pc["consumer"] = "signal" => orig_in_queue = in_queue + 1

MainNeverSignals == pc["main"] \notin {"wait", "signal"}

QueueInv == QueueTypeOK /\ MutexOwner /\ SleepersWait /\ ConsumerCopy
               /\ MainNeverSignals /\ NoLostWakeup

\* The inductive invariant holds initially.
LEMMA QueueInitially == QueueInit => QueueInv
  BY CapacitiesAssumption
  DEF QueueInit, QueueInv, QueueTypeOK, MutexOwner, SleepersWait, ConsumerCopy,
      MainNeverSignals, NoLostWakeup, QueueThreads, Holding, Full, Empty

\* Every step of every thread preserves the inductive invariant.
LEMMA QueueStep == ASSUME QueueInv, [QueueNext]_queueVars PROVE QueueInv'
  <1> USE CapacitiesAssumption
      DEF QueueInv, QueueTypeOK, MutexOwner, SleepersWait, ConsumerCopy, MainNeverSignals,
          NoLostWakeup, QueueThreads, Holding, Full, Empty, Goto
  <1>1. ASSUME NEW t \in QueueThreads, Poll(t) PROVE QueueInv'
    BY <1>1 DEF Poll
  <1>2. ASSUME NEW t \in QueueThreads, LockQueue(t) PROVE QueueInv'
    BY <1>2 DEF LockQueue, Acquire
  <1>3. ASSUME NEW t \in QueueThreads, UnlockQueue(t) PROVE QueueInv'
    BY <1>3 DEF UnlockQueue
  <1>4. ASSUME NEW t \in QueueThreads, Sleep(t) PROVE QueueInv'
    BY <1>4 DEF Sleep, CondWait
  <1>5. ASSUME NEW t \in QueueThreads, TestAgain(t) PROVE QueueInv'
    BY <1>5 DEF TestAgain, Acquire
  <1>6. ASSUME NEW t \in QueueThreads, SpuriousWakeup(t),
               UNCHANGED <<in_queue, capacity, orig_in_queue>>
        PROVE  QueueInv'
    BY <1>6 DEF SpuriousWakeup
  <1>7. CASE Insert
    BY <1>7 DEF Insert
  <1>8. CASE SignalConsumer
    BY <1>8 DEF SignalConsumer, CondSignal
  <1>9. CASE Remove
    BY <1>9 DEF Remove
  <1>10. CASE SignalProducer
    BY <1>10 DEF SignalProducer, CondSignal
  <1>11. CASE Display
    BY <1>11 DEF Display
  <1>12. CASE UNCHANGED queueVars
    BY <1>12 DEF queueVars
  <1> QED
    BY <1>1, <1>2, <1>3, <1>4, <1>5, <1>6, <1>7, <1>8, <1>9, <1>10, <1>11,
       <1>12 DEF QueueNext

\* The inductive invariant holds throughout.
LEMMA QueueInvariance == QueueSafeSpec => []QueueInv
  BY QueueInitially, QueueStep, PTL DEF QueueSafeSpec

\* The counter stays between 0 and capacity, for every capacity.
THEOREM QueueTypeCorrect == QueueSafeSpec => []QueueTypeOK
  BY QueueInvariance, PTL DEF QueueInv

\* Signalling only at the boundaries loses no wakeup, for every capacity.
THEOREM QueueNoLostWakeup == QueueSafeSpec => []NoLostWakeup
  BY QueueInvariance, PTL DEF QueueInv

\* Insert and Remove are the abstract Put and Get, every other step leaves the
\* abstract queue alone: the threads implement the safety part of BoundedQueue.
THEOREM QueueRefinement == QueueSafeSpec => Queue!SafeSpec
  <1>1. QueueInit => Queue!Init
    BY DEF QueueInit, Queue!Init
  <1>2. QueueInv /\ [QueueNext]_queueVars => [Queue!Next]_<<in_queue, capacity>>
    <2> SUFFICES ASSUME QueueInv, [QueueNext]_queueVars
                 PROVE  Queue!Next \/ UNCHANGED <<in_queue, capacity>>
      OBVIOUS
    <2>1. CASE Insert
      BY <2>1, CapacitiesAssumption
      DEF Insert, Full, QueueInv, QueueTypeOK, Queue!Next, Queue!Put
    <2>2. CASE Remove
      BY <2>2, CapacitiesAssumption
      DEF Remove, Empty, QueueInv, QueueTypeOK, Queue!Next, Queue!Get
    <2>3. CASE ~Insert /\ ~Remove
      BY <2>3 DEF QueueNext, queueVars, Poll, LockQueue, UnlockQueue, Sleep, CondWait, TestAgain,
                  SpuriousWakeup, SignalConsumer, SignalProducer, Display
    <2> QED
      BY <2>1, <2>2, <2>3
  <1> QED
    BY <1>1, <1>2, QueueInvariance, PTL DEF QueueSafeSpec, Queue!SafeSpec
=============================================================================
