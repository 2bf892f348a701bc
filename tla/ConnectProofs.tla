--------------------------- MODULE ConnectProofs ----------------------------
(***************************************************************************)
(* For any number of hosts and addresses, any room in sockets[] and any    *)
(* TIMEOUT: the two counters and the descriptor sets agree, and what       *)
(* non-blocking-connect.c says of a connection is true, for as long as no  *)
(* result of socket() was stored behind sockets[].                         *)
(***************************************************************************)
EXTENDS NonBlockingConnect, FiniteSetTheorems, TLAPS

Opened == {s \in Sockets : kernel[s] # "none"}
Judged == {s \in Sockets : verdict[s] # "none"}

\* TypeOK without its bounds on the counters, which follow from Counting.
Types == /\ addrs \in [Hosts -> 1 .. MaxAddrs]
         /\ h \in 1 .. NumHosts + 1 /\ i \in 0 .. MaxAddrs - 1
         /\ numsock \in [Hosts -> Nat]
         /\ wrfds \subseteq Sockets /\ wrfds_orig \subseteq Sockets
         /\ n \in Nat /\ num_sockets \in Nat
         /\ timeouts \in 0 .. TIMEOUT
         /\ pc \in {"connect", "select", "done", "exit1", "undefined"}
         /\ pc = "undefined" => h \in Hosts /\ addrs[h] > MAX_SOCKETS
         /\ kernel \in [Sockets -> {"none", "pending", "connected", "refused"}]
         /\ verdict \in [Sockets -> {"none", "connected", "refused", "timed out"}]
         /\ early \subseteq Sockets

\* The first loop is at an address of its host, which it has not been at before.
Place == /\ h <= NumHosts => i < addrs[h]
         /\ \A s \in Opened : s[1] < h \/ (s[1] = h /\ s[2] < i)
         /\ \A x \in Hosts : /\ numsock[x] <= MAX_SOCKETS
                             /\ numsock[x] <= IF x < h THEN MAX_SOCKETS ELSE IF x = h THEN i ELSE 0

\* Both counters count sockets, and the sets hold those they differ by.
Counting ==
    /\ num_sockets = Cardinality(Opened)
    /\ Judged \subseteq Opened
    /\ n <= num_sockets
    /\ pc \in {"connect", "select"} => n = Cardinality(Judged)
    /\ pc = "connect" => wrfds = Opened \ Judged
    /\ pc = "select" => wrfds_orig = Opened \ Judged /\ wrfds \subseteq wrfds_orig

\* Before the first timeout select() looks at every socket that is left; what is
\* left then has had no answer.
Earliness ==
    /\ \A s \in early : kernel[s] \in {"connected", "refused"}
    /\ pc = "connect" => timeouts = 0
    /\ pc = "select" => /\ timeouts < TIMEOUT
                        /\ timeouts = 0 => wrfds = wrfds_orig
                        /\ timeouts > 0 => wrfds_orig \cap early = {}
    /\ pc # "done" => \A s \in Sockets : verdict[s] # "timed out"

IInv == Types /\ Place /\ Counting /\ Earliness /\ VerdictsTrue
-----------------------------------------------------------------------------
\* There are finitely many sockets.
LEMMA SocketsFinite ==
    /\ IsFiniteSet(Sockets) /\ Cardinality(Sockets) = NumHosts * MAX_SOCKETS
    /\ \A S \in SUBSET Sockets : IsFiniteSet(S) /\ Cardinality(S) \in Nat
<1>1. IsFiniteSet(Hosts) /\ Cardinality(Hosts) = NumHosts
  BY ConnectAssumption, FS_Interval DEF Hosts
<1>2. IsFiniteSet(0 .. MAX_SOCKETS - 1) /\ Cardinality(0 .. MAX_SOCKETS - 1) = MAX_SOCKETS
  BY ConnectAssumption, FS_Interval
<1>3. IsFiniteSet(Sockets) /\ Cardinality(Sockets) = NumHosts * MAX_SOCKETS
  BY <1>1, <1>2, FS_Product DEF Sockets
<1>4. QED  BY <1>3, FS_Subset, FS_CardinalityType

\* The inductive invariant holds initially.
LEMMA ConnectInitially == Init => IInv
<1> SUFFICES ASSUME Init PROVE IInv
  OBVIOUS
<1>1. Opened = {} /\ Judged = {}
  BY DEF Init, Opened, Judged
<1>2. Types
  BY ConnectAssumption DEF Init, Types, Hosts
<1>3. Place
  BY <1>1, ConnectAssumption DEF Init, Place, Hosts
<1>4. Counting
  BY <1>1, FS_EmptySet DEF Init, Counting
<1>5. Earliness /\ VerdictsTrue
  BY ConnectAssumption DEF Init, Earliness, VerdictsTrue
<1>6. QED  BY <1>2, <1>3, <1>4, <1>5 DEF IInv

\* The first loop is at an address of a host.
LEMMA AtAnAddress ==
    ASSUME IInv, Connecting
    PROVE  h \in Hosts /\ i \in 0 .. MaxAddrs - 1 /\ i < addrs[h]
<1>1. h \in 1 .. NumHosts + 1 /\ i \in 0 .. MaxAddrs - 1 /\ h <= NumHosts
  BY DEF IInv, Types, Connecting
<1>2. h <= NumHosts => i < addrs[h]
  BY DEF IInv, Place
<1>3. QED  BY <1>1, <1>2, ConnectAssumption DEF Hosts

\* That of a socket not opened yet, as long as sockets[] has room for it.
LEMMA Fresh ==
    ASSUME IInv, Connecting, i < MAX_SOCKETS
    PROVE  <<h, i>> \in Sockets /\ <<h, i>> \notin Opened /\ <<h, i>> \notin Judged
<1>1. h \in Hosts /\ i \in 0 .. MaxAddrs - 1
  BY AtAnAddress
<1>2. <<h, i>> \in Sockets
  BY <1>1, ConnectAssumption DEF Sockets
<1>3. <<h, i>> \notin Opened
  BY <1>1 DEF IInv, Place, Hosts
<1>4. QED  BY <1>2, <1>3 DEF IInv, Counting

\* Going on to the next address leaves the old one behind.
LEMMA NextPlace ==
    ASSUME IInv, Connecting, NextAddress, UNCHANGED addrs,
           \/ Opened' = Opened /\ numsock' = numsock
           \/ /\ Opened' = Opened \cup {<<h, i>>} /\ i < MAX_SOCKETS
              /\ numsock' = [numsock EXCEPT ![h] = @ + 1]
    PROVE  /\ Place'
           /\ h' \in 1 .. NumHosts + 1 /\ i' \in 0 .. MaxAddrs - 1
           /\ numsock' \in [Hosts -> Nat]
<1>1. /\ h \in Hosts /\ i \in 0 .. MaxAddrs - 1 /\ i < addrs[h] /\ h \in Int
      /\ \A x \in Hosts : addrs[x] \in 1 .. MaxAddrs /\ numsock[x] \in Nat
      /\ numsock \in [Hosts -> Nat]
      /\ NumHosts \in Nat /\ MaxAddrs \in Nat /\ MAX_SOCKETS \in Nat
  <2>1. h \in Hosts /\ i \in 0 .. MaxAddrs - 1 /\ i < addrs[h]
    BY AtAnAddress
  <2>2. NumHosts \in Nat /\ MaxAddrs \in Nat /\ MAX_SOCKETS \in Nat /\ h \in Int
    BY <2>1, ConnectAssumption DEF Hosts
  <2>3. QED  BY <2>1, <2>2 DEF IInv, Types
<1>2. /\ h' \in 1 .. NumHosts + 1 /\ i' \in 0 .. MaxAddrs - 1
      /\ \/ h' = h /\ i' = i + 1
         \/ h' = h + 1 /\ i' = 0
      /\ (h' = h => i' < addrs[h])
  BY <1>1 DEF NextAddress, Hosts
<1>3. numsock' \in [Hosts -> Nat]
  BY <1>1
<1>4. h' <= NumHosts => i' < addrs'[h']
  BY <1>1, <1>2 DEF Hosts
<1>5. ASSUME NEW s \in Opened' PROVE s[1] < h' \/ (s[1] = h' /\ s[2] < i')
  <2>1. CASE s = <<h, i>>
    BY <1>1, <1>2, <2>1
  <2>2. CASE s \in Opened
    <3>1. s[1] \in Hosts /\ s[2] \in 0 .. MAX_SOCKETS - 1
      BY <2>2 DEF Opened, Sockets
    <3>2. s[1] < h \/ (s[1] = h /\ s[2] < i)
      BY <2>2 DEF IInv, Place
    <3>3. QED  BY <1>1, <1>2, <3>1, <3>2 DEF Hosts
  <2>3. QED  BY <1>5, <2>1, <2>2
<1>6. ASSUME NEW x \in Hosts
      PROVE  /\ numsock'[x] <= MAX_SOCKETS
             /\ numsock'[x] <= IF x < h' THEN MAX_SOCKETS ELSE IF x = h' THEN i' ELSE 0
  <2>1. /\ numsock[x] <= MAX_SOCKETS
        /\ numsock[x] <= IF x < h THEN MAX_SOCKETS ELSE IF x = h THEN i ELSE 0
    BY DEF IInv, Place
  <2>2. numsock'[x] = numsock[x] \/ (x = h /\ i < MAX_SOCKETS /\ numsock'[x] = numsock[x] + 1)
    BY <1>1
  <2>3. numsock[h] <= i
    BY <1>1 DEF IInv, Place, Hosts
  <2>4. x \in Int /\ numsock[x] \in Nat
    BY <1>1 DEF Hosts
  <2>5. CASE numsock'[x] = numsock[x]
    BY <1>1, <1>2, <2>1, <2>4, <2>5
  <2>6. CASE x = h /\ i < MAX_SOCKETS /\ numsock'[x] = numsock[x] + 1
    BY <1>1, <1>2, <2>3, <2>4, <2>6
  <2>7. QED  BY <2>2, <2>5, <2>6
<1>7. QED  BY <1>2, <1>3, <1>4, <1>5, <1>6 DEF Place
-----------------------------------------------------------------------------
(* The first loop.                                                         *)

\* No step but these two opens a socket or judges one.
LEMMA SetsKept ==
    ASSUME UNCHANGED <<kernel, verdict>>
    PROVE  Opened' = Opened /\ Judged' = Judged
  BY DEF Opened, Judged

\* An address without a socket.
LEMMA NoSocketStep == ASSUME IInv, NoSocket PROVE IInv'
<1>1. Opened' = Opened /\ Judged' = Judged
  BY SetsKept DEF NoSocket
<1>2. /\ Place' /\ h' \in 1 .. NumHosts + 1 /\ i' \in 0 .. MaxAddrs - 1
      /\ numsock' \in [Hosts -> Nat]
  BY <1>1, NextPlace DEF NoSocket
<1>3. Types' /\ Earliness' /\ VerdictsTrue'
  BY <1>2 DEF IInv, Types, Earliness, VerdictsTrue, NoSocket, Connecting
<1>4. Counting'
  BY <1>1 DEF IInv, Counting, NoSocket
<1>5. QED  BY <1>2, <1>3, <1>4 DEF IInv

\* One socket more.
LEMMA OneMore ==
    ASSUME IInv, Connecting, i < MAX_SOCKETS
    PROVE  /\ Cardinality(Opened \cup {<<h, i>>}) = num_sockets + 1
           /\ Cardinality(Judged \cup {<<h, i>>}) = n + 1
           /\ n = Cardinality(Judged) /\ n <= num_sockets /\ n \in Nat /\ num_sockets \in Nat
<1>1. <<h, i>> \notin Opened /\ <<h, i>> \notin Judged
  BY Fresh
<1>2. IsFiniteSet(Opened) /\ IsFiniteSet(Judged)
  BY SocketsFinite DEF Opened, Judged
<1>3. /\ Cardinality(Opened) = num_sockets /\ Cardinality(Judged) = n
      /\ n <= num_sockets /\ n \in Nat /\ num_sockets \in Nat
  BY DEF IInv, Counting, Types, Connecting
<1>4. QED  BY <1>1, <1>2, <1>3, FS_AddElement

\* A connection that is made or refused at once is opened and judged.
LEMMA ConnectAtOnceStep == ASSUME IInv, ConnectAtOnce PROVE IInv'
<1> DEFINE s == <<h, i>>
<1>1. /\ s \in Sockets /\ s \notin Opened /\ s \notin Judged /\ Connecting
  BY Fresh DEF ConnectAtOnce, OpenSocket
<1>2. PICK r \in {"connected", "refused"} :
         kernel' = [kernel EXCEPT ![s] = r] /\ verdict' = [verdict EXCEPT ![s] = r]
  BY DEF ConnectAtOnce
<1> HIDE DEF s
<1>3. Opened' = Opened \cup {s} /\ Judged' = Judged \cup {s}
  BY <1>1, <1>2 DEF Opened, Judged, IInv, Types
<1>4. /\ Place' /\ h' \in 1 .. NumHosts + 1 /\ i' \in 0 .. MaxAddrs - 1
      /\ numsock' \in [Hosts -> Nat]
  BY <1>1, <1>3, NextPlace DEF ConnectAtOnce, OpenSocket, s
<1>5. /\ num_sockets' = Cardinality(Opened') /\ n' = Cardinality(Judged') /\ n' <= num_sockets'
      /\ n' \in Nat /\ num_sockets' \in Nat
  BY <1>1, <1>3, OneMore DEF ConnectAtOnce, OpenSocket, s
<1>6. Types'
  BY <1>1, <1>2, <1>4, <1>5 DEF IInv, Types, ConnectAtOnce, Connecting
<1>7. Counting'
  BY <1>1, <1>3, <1>5 DEF IInv, Counting, ConnectAtOnce, Connecting
<1>8. Earliness'
  BY <1>1, <1>2 DEF IInv, Types, Earliness, ConnectAtOnce, Connecting
<1>9. VerdictsTrue'
  BY <1>1, <1>2 DEF IInv, Types, VerdictsTrue, ConnectAtOnce
<1>10. QED  BY <1>4, <1>6, <1>7, <1>8, <1>9 DEF IInv

\* One that is under way is opened, and in the set.
LEMMA ConnectInProgressStep == ASSUME IInv, ConnectInProgress PROVE IInv'
<1> DEFINE s == <<h, i>>
<1>1. /\ s \in Sockets /\ s \notin Opened /\ s \notin Judged /\ Connecting
  BY Fresh DEF ConnectInProgress, OpenSocket
<1>2. /\ kernel' = [kernel EXCEPT ![s] = "pending"] /\ wrfds' = wrfds \cup {s}
      /\ verdict' = verdict
  BY DEF ConnectInProgress
<1> HIDE DEF s
<1>3. Opened' = Opened \cup {s} /\ Judged' = Judged
  BY <1>1, <1>2 DEF Opened, Judged, IInv, Types
<1>4. /\ Place' /\ h' \in 1 .. NumHosts + 1 /\ i' \in 0 .. MaxAddrs - 1
      /\ numsock' \in [Hosts -> Nat]
  BY <1>1, <1>3, NextPlace DEF ConnectInProgress, OpenSocket, s
<1>5. /\ num_sockets' = Cardinality(Opened') /\ n' = Cardinality(Judged') /\ n' <= num_sockets'
      /\ n' \in Nat /\ num_sockets' \in Nat
  BY <1>1, <1>3, OneMore DEF ConnectInProgress, OpenSocket, s
<1>6. Types'
  BY <1>1, <1>2, <1>4, <1>5 DEF IInv, Types, ConnectInProgress, Connecting
<1>7. Counting'
  BY <1>1, <1>2, <1>3, <1>5 DEF IInv, Counting, ConnectInProgress, Connecting
<1>8. kernel[s] = "none" /\ verdict[s] = "none"
  BY <1>1 DEF Opened, Judged
<1>9. Earliness'
  BY <1>1, <1>2, <1>8 DEF IInv, Types, Earliness, ConnectInProgress, Connecting
<1>10. VerdictsTrue'
  BY <1>1, <1>2, <1>8 DEF IInv, Types, VerdictsTrue, ConnectInProgress
<1>11. QED  BY <1>4, <1>6, <1>7, <1>9, <1>10 DEF IInv

\* Running out of sockets[] leaves everything else where it was.
LEMMA OverflowStep == ASSUME IInv, Overflow PROVE IInv'
<1>1. Opened' = Opened /\ Judged' = Judged
  BY SetsKept DEF Overflow
<1>2. h \in Hosts /\ addrs[h] > MAX_SOCKETS
  <2>1. h \in Hosts /\ i < addrs[h] /\ i \in 0 .. MaxAddrs - 1 /\ i >= MAX_SOCKETS
    BY AtAnAddress DEF Overflow
  <2>2. addrs[h] \in 1 .. MaxAddrs
    BY <2>1 DEF IInv, Types
  <2>3. QED  BY <2>1, <2>2, ConnectAssumption
<1>3. Types' /\ VerdictsTrue' /\ Earliness'
  BY <1>2 DEF IInv, Types, VerdictsTrue, Earliness, Overflow, Connecting
<1>4. Place'
  BY <1>1 DEF IInv, Place, Overflow
<1>5. Counting'
  BY <1>1 DEF IInv, Counting, Overflow
<1>6. QED  BY <1>3, <1>4, <1>5 DEF IInv

\* The set is saved as it is.
LEMMA StartSelectingStep == ASSUME IInv, StartSelecting PROVE IInv'
<1>1. Opened' = Opened /\ Judged' = Judged
  BY SetsKept DEF StartSelecting
<1>2. Types' /\ VerdictsTrue'
  BY DEF IInv, Types, VerdictsTrue, StartSelecting
<1>3. Place'
  BY <1>1 DEF IInv, Place, StartSelecting
<1>4. Counting'
  BY <1>1 DEF IInv, Counting, StartSelecting
<1>5. Earliness'
  <2>1. TIMEOUT \in Nat /\ 0 < TIMEOUT
    BY ConnectAssumption
  <2>2. /\ timeouts = 0 /\ pc = "connect"
        /\ \A s \in early : kernel[s] \in {"connected", "refused"}
        /\ \A s \in Sockets : verdict[s] # "timed out"
    BY DEF IInv, Earliness, StartSelecting
  <2>3. /\ wrfds_orig' = wrfds' /\ timeouts' = timeouts
        /\ kernel' = kernel /\ verdict' = verdict /\ early' = early
    BY DEF StartSelecting
  <2>4. timeouts' = 0
    BY <2>2, <2>3
  <2>5. QED
    <3>1. \A s \in early' : kernel'[s] \in {"connected", "refused"}
      BY <2>2, <2>3
    <3>2. timeouts' < TIMEOUT
      BY <2>1, <2>4
    <3>3. ~(timeouts' > 0)
      BY <2>4
    <3>4. \A s \in Sockets : verdict'[s] # "timed out"
      BY <2>2, <2>3
    <3>5. QED  BY <2>3, <2>4, <3>1, <3>2, <3>3, <3>4 DEF Earliness
<1>6. QED  BY <1>2, <1>3, <1>4, <1>5 DEF IInv

\* Giving up changes nothing but where the program is.
LEMMA SetupFailsStep == ASSUME IInv, SetupFails PROVE IInv'
<1>1. Opened' = Opened /\ Judged' = Judged
  BY SetsKept DEF SetupFails
<1>2. Types' /\ VerdictsTrue' /\ Earliness'
  BY DEF IInv, Types, VerdictsTrue, Earliness, SetupFails, Connecting
<1>3. Place'
  BY <1>1 DEF IInv, Place, SetupFails
<1>4. Counting'
  BY <1>1 DEF IInv, Counting, SetupFails
<1>5. QED  BY <1>2, <1>3, <1>4 DEF IInv
-----------------------------------------------------------------------------
(* Answers, and the select() loop.                                         *)

\* An answer changes what a socket that is not judged has become.
LEMMA AnswerStep == ASSUME IInv, NEW s \in Sockets, Answer(s) PROVE IInv'
<1>1. PICK r \in {"connected", "refused"} : kernel' = [kernel EXCEPT ![s] = r]
  BY DEF Answer
<1>2. Opened' = Opened /\ Judged' = Judged
  BY <1>1 DEF Opened, Judged, IInv, Types, Answer
<1>3. verdict[s] \notin {"connected", "refused"}
  BY DEF IInv, VerdictsTrue, Answer
<1>4. Types'
  BY <1>1 DEF IInv, Types, Answer
<1>5. Place'
  BY <1>2 DEF IInv, Place, Answer
<1>6. Counting'
  BY <1>2 DEF IInv, Counting, Answer
<1>7. early' = early \/ (early' = early \cup {s} /\ timeouts = 0 /\ pc # "done")
  BY DEF Answer
<1>8. Earliness'
  <2>1. \A u \in early' : kernel'[u] \in {"connected", "refused"}
    <3>1. /\ kernel \in [Sockets -> {"none", "pending", "connected", "refused"}]
          /\ early \subseteq Sockets
          /\ \A u \in early : kernel[u] \in {"connected", "refused"}
      BY DEF IInv, Types, Earliness
    <3>2. QED  BY <1>1, <1>7, <3>1
  <2>2. timeouts > 0 => timeouts # 0
    OBVIOUS
  <2>3. pc = "select" /\ timeouts > 0 => wrfds_orig \cap early' = {}
    BY <1>7, <2>2 DEF IInv, Earliness
  <2>4. QED  BY <2>1, <2>3 DEF IInv, Earliness, Answer
<1>9. VerdictsTrue'
  <2>1. pc # "done" => \A u \in Sockets : verdict[u] # "timed out"
    BY DEF IInv, Earliness
  <2>2. QED  BY <1>1, <1>3, <1>7, <2>1 DEF IInv, Types, VerdictsTrue, Answer
<1>10. QED  BY <1>4, <1>5, <1>6, <1>8, <1>9 DEF IInv

\* The sockets select() has found and the loops look at leave the set, are judged
\* by what became of them, and are counted, once each.
LEMMA SelectReadyStep == ASSUME IInv, SelectReady PROVE IInv'
<1> DEFINE seen == {s \in Ready : Checked(s)}
<1>1. /\ pc = "select"
      /\ verdict' = [s \in Sockets |-> IF s \in seen THEN kernel[s] ELSE verdict[s]]
      /\ wrfds_orig' = wrfds_orig \ seen /\ wrfds' = wrfds_orig'
      /\ n' = n + Cardinality(seen)
      /\ pc' \in {"select", "done"}
      /\ UNCHANGED <<addrs, h, i, numsock, num_sockets, timeouts, kernel, early>>
  BY DEF SelectReady
<1>2. /\ seen \subseteq Opened \ Judged
      /\ \A s \in seen : kernel[s] \in {"connected", "refused"} /\ s \in Sockets
  BY <1>1 DEF IInv, Types, Counting, Ready, Opened
<1> HIDE DEF seen
<1>3. Opened' = Opened /\ Judged' = Judged \cup seen
  BY <1>1, <1>2 DEF Opened, Judged, IInv, Types
<1>4. n' = Cardinality(Judged') /\ n' <= num_sockets' /\ n' \in Nat
  <2>1. /\ IsFiniteSet(Judged) /\ IsFiniteSet(seen) /\ IsFiniteSet(Opened)
        /\ Cardinality(seen) \in Nat /\ Cardinality(Judged) \in Nat
    BY <1>2, SocketsFinite DEF Judged, Opened
  <2>2. Judged \cap seen = {} /\ Judged' \subseteq Opened
    BY <1>2, <1>3 DEF IInv, Counting
  <2>3. Cardinality(Judged') = Cardinality(Judged) + Cardinality(seen)
    <3>1. Cardinality(Judged \cup seen)
            = Cardinality(Judged) + Cardinality(seen) - Cardinality(Judged \cap seen)
      BY <2>1, FS_Union
    <3>2. Cardinality(Judged \cap seen) = 0
      BY <2>2, FS_EmptySet
    <3>3. QED  BY <1>3, <2>1, <3>1, <3>2
  <2>4. Cardinality(Judged') <= Cardinality(Opened)
    BY <2>1, <2>2, FS_Subset
  <2>5. n = Cardinality(Judged) /\ num_sockets = Cardinality(Opened)
    BY <1>1 DEF IInv, Counting
  <2>6. QED  BY <1>1, <2>1, <2>3, <2>4, <2>5
<1>5. Types'
  BY <1>1, <1>2, <1>4 DEF IInv, Types
<1>6. Place'
  BY <1>1, <1>3 DEF IInv, Place
<1>7. Counting'
  BY <1>1, <1>2, <1>3, <1>4 DEF IInv, Counting
<1>8. Earliness'
  <2>1. timeouts > 0 => wrfds_orig' \cap early = {}
    BY <1>1 DEF IInv, Earliness
  <2>2. \A s \in Sockets : verdict'[s] # "timed out"
    BY <1>1, <1>2 DEF IInv, Earliness
  <2>3. QED  BY <1>1, <2>1, <2>2 DEF IInv, Earliness
<1>9. VerdictsTrue'
  BY <1>1, <1>2 DEF IInv, VerdictsTrue
<1>10. QED  BY <1>5, <1>6, <1>7, <1>8, <1>9 DEF IInv

\* What is left when select() times out for the first time has had no answer.
LEMMA LeftIsLate ==
    ASSUME IInv, pc = "select", Ready = {}
    PROVE  wrfds_orig \cap early = {}
<1>1. timeouts = 0 \/ timeouts > 0
  <2>1. timeouts \in 0 .. TIMEOUT /\ TIMEOUT \in Nat
    BY ConnectAssumption DEF IInv, Types
  <2>2. QED  BY <2>1
<1>2. CASE timeouts = 0
  <2>1. wrfds = wrfds_orig
    BY <1>2 DEF IInv, Earliness
  <2>2. QED  BY <2>1 DEF IInv, Earliness, Ready
<1>3. QED  BY <1>1, <1>2 DEF IInv, Earliness

\* A timeout empties the set and counts nothing but itself.
LEMMA SelectTimesOutStep == ASSUME IInv, SelectTimesOut PROVE IInv'
<1>1. /\ pc = "select" /\ Ready = {} /\ timeouts' = timeouts + 1 /\ timeouts + 1 < TIMEOUT
      /\ wrfds' = {}
      /\ UNCHANGED <<addrs, h, i, numsock, wrfds_orig, n, num_sockets, pc, kernel, verdict,
                     early>>
  BY DEF SelectTimesOut
<1>2. Opened' = Opened /\ Judged' = Judged
  BY <1>1, SetsKept
<1>3. timeouts' \in 0 .. TIMEOUT /\ timeouts' < TIMEOUT /\ timeouts' # 0
  <2>1. timeouts \in 0 .. TIMEOUT /\ TIMEOUT \in Nat
    BY ConnectAssumption DEF IInv, Types
  <2>2. QED  BY <1>1, <2>1
<1>4. Types' /\ VerdictsTrue'
  BY <1>1, <1>3 DEF IInv, Types, VerdictsTrue
<1>5. Place'
  BY <1>1, <1>2 DEF IInv, Place
<1>6. Counting'
  BY <1>1, <1>2 DEF IInv, Counting
<1>7. Earliness'
  BY <1>1, <1>3, LeftIsLate DEF IInv, Earliness
<1>8. QED  BY <1>4, <1>5, <1>6, <1>7 DEF IInv

\* The last timeout judges what is left, which has not been answered early.
LEMMA TimeoutReachedStep == ASSUME IInv, TimeoutReached PROVE IInv'
<1>1. /\ pc = "select" /\ Ready = {} /\ timeouts' = TIMEOUT
      /\ wrfds' = {} /\ pc' = "done"
      /\ UNCHANGED <<addrs, h, i, numsock, wrfds_orig, n, num_sockets, kernel, early>>
      /\ verdict' = [s \in Sockets |-> IF s \in wrfds_orig /\ Checked(s)
                                       THEN "timed out" ELSE verdict[s]]
  BY DEF TimeoutReached
<1>2. wrfds_orig = Opened \ Judged /\ wrfds_orig \cap early = {}
  BY <1>1, LeftIsLate DEF IInv, Counting
<1>3. Opened' = Opened /\ Judged' \subseteq Opened
  BY <1>1, <1>2 DEF IInv, Counting, Opened, Judged
<1>4. Types'
  <2>1. timeouts' \in 0 .. TIMEOUT
    <3>1. TIMEOUT \in Nat /\ timeouts' = TIMEOUT
      BY <1>1, ConnectAssumption
    <3>2. QED  BY <3>1
  <2>2. QED  BY <1>1, <2>1 DEF IInv, Types
<1>5. Place'
  BY <1>1, <1>3 DEF IInv, Place
<1>6. Counting'
  BY <1>1, <1>3 DEF IInv, Counting
<1>7. Earliness'
  BY <1>1 DEF IInv, Earliness
<1>8. VerdictsTrue'
  BY <1>1, <1>2 DEF IInv, VerdictsTrue
<1>9. QED  BY <1>4, <1>5, <1>6, <1>7, <1>8 DEF IInv
-----------------------------------------------------------------------------
\* Every step keeps the inductive invariant.
LEMMA ConnectStep == IInv /\ [Next]_vars => IInv'
<1> SUFFICES ASSUME IInv, [Next]_vars PROVE IInv'
  OBVIOUS
<1>1. CASE UNCHANGED vars
  <2>1. Opened' = Opened /\ Judged' = Judged
    BY <1>1, SetsKept DEF vars
  <2>2. Types' /\ Place'
    BY <1>1, <2>1 DEF vars, IInv, Types, Place
  <2>3. Counting' /\ Earliness' /\ VerdictsTrue'
    BY <1>1, <2>1 DEF vars, IInv, Counting, Earliness, VerdictsTrue
  <2>4. QED  BY <2>2, <2>3 DEF IInv
<1>2. CASE Main
  BY <1>2, NoSocketStep, OverflowStep, ConnectAtOnceStep, ConnectInProgressStep, StartSelectingStep,
     SelectReadyStep, SelectTimesOutStep, TimeoutReachedStep DEF Main
<1>3. CASE SetupFails \/ \E s \in Sockets : Answer(s)
  BY <1>3, SetupFailsStep, AnswerStep
<1>4. QED  BY <1>1, <1>2, <1>3 DEF Next

\* It holds throughout.
LEMMA ConnectInvariance == SafeSpec => []IInv
  BY ConnectInitially, ConnectStep, PTL DEF SafeSpec

\* It bounds the counters.
LEMMA ConnectTypesFollow == IInv => TypeOK
<1> SUFFICES ASSUME IInv PROVE TypeOK
  OBVIOUS
<1>1. num_sockets \in 0 .. NumHosts * MAX_SOCKETS
  <2>1. Opened \in SUBSET Sockets /\ num_sockets = Cardinality(Opened) /\ num_sockets \in Nat
    BY DEF IInv, Types, Counting, Opened
  <2>2. Cardinality(Opened) <= Cardinality(Sockets)
    BY <2>1, SocketsFinite, FS_Subset
  <2>3. NumHosts * MAX_SOCKETS \in Nat
    BY ConnectAssumption
  <2>4. QED  BY <2>1, <2>2, <2>3, SocketsFinite
<1>2. n \in 0 .. num_sockets
  <2>1. n \in Nat /\ num_sockets \in Nat /\ n <= num_sockets
    BY DEF IInv, Types, Counting
  <2>2. QED  BY <2>1
<1>3. numsock \in [Hosts -> 0 .. MAX_SOCKETS]
  <2>1. numsock \in [Hosts -> Nat] /\ \A x \in Hosts : numsock[x] <= MAX_SOCKETS
    BY DEF IInv, Types, Place
  <2>2. QED  BY <2>1, ConnectAssumption
<1>4. QED  BY <1>1, <1>2, <1>3 DEF IInv, Types, TypeOK

\* The saved set is what the counters differ by.
LEMMA AccountingFollows == IInv => Accounting
<1> SUFFICES ASSUME IInv, pc = "select" PROVE Accounting
  BY DEF Accounting
<1>1. /\ num_sockets = Cardinality(Opened) /\ n = Cardinality(Judged)
      /\ Judged \subseteq Opened /\ wrfds_orig = Opened \ Judged /\ wrfds \subseteq wrfds_orig
  BY DEF IInv, Counting
<1>2. IsFiniteSet(Opened) /\ Cardinality(Opened) \in Nat /\ Cardinality(Judged) \in Nat
  BY SocketsFinite DEF Opened, Judged
<1>3. Opened \cap Judged = Judged
  BY <1>1
<1>4. Cardinality(wrfds_orig) = Cardinality(Opened) - Cardinality(Judged)
  BY <1>1, <1>2, <1>3, FS_Difference
<1>5. wrfds_orig = {s \in Sockets : kernel[s] # "none" /\ verdict[s] = "none"}
  BY <1>1 DEF Opened, Judged
<1>6. QED  BY <1>1, <1>4, <1>5 DEF Accounting

\* The types: no more connects are counted as finished than were started, no host has
\* more sockets than sockets[] has room for, and a result of socket() is stored behind
\* it only for a host with more addresses than that.
THEOREM ConnectTypeCorrect == SafeSpec => []TypeOK
  BY ConnectInvariance, ConnectTypesFollow, PTL

\* In the select() loop the counters differ by the sockets in the saved set, which
\* are those without a verdict: none is closed, and the loop ends when it should.
THEOREM CountersAgree == SafeSpec => []Accounting
  BY ConnectInvariance, AccountingFollows, PTL

\* A verdict is what happened, and an answer before the first timeout is never
\* taken for a timeout.
THEOREM VerdictsAreTrue == SafeSpec => []VerdictsTrue
  BY ConnectInvariance, PTL DEF IInv
=============================================================================
