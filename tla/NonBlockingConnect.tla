------------------------- MODULE NonBlockingConnect -------------------------
(***************************************************************************)
(* select/non-blocking-connect.c: a non-blocking connect() to every        *)
(* address of every host, then select() until each has an answer or        *)
(* TIMEOUT seconds have passed without one.                                *)
(*                                                                         *)
(* A socket is named <<h, i>>: hosts[h].sockets[i].  The program counter   *)
(* is "connect" (the first loop), "select" (the second one), "done" (after *)
(* the last one), "exit1", and "undefined" once a result of socket() is    *)
(* stored behind sockets[], after which anything may happen.               *)
(***************************************************************************)
EXTENDS Integers, FiniteSets

CONSTANTS NumHosts,    \* length of the table of hosts
          MaxAddrs,    \* bound: most addresses getaddrinfo() returns
          MAX_SOCKETS, \* length of sockets[]
          TIMEOUT      \* seconds without an answer before the program gives up

ASSUME ConnectAssumption == /\ NumHosts \in Nat \ {0}
                            /\ MaxAddrs \in Nat \ {0}
                            /\ MAX_SOCKETS \in Nat \ {0}
                            /\ TIMEOUT \in Nat \ {0}

VARIABLES addrs,       \* number of addresses of every host
          h, i,        \* the address the first loop is at
          numsock,     \* hosts[h].numsock
          wrfds, wrfds_orig,
          n, num_sockets, timeouts,
          pc,
          kernel,      \* what has become of each socket's connect()
          verdict,     \* what the program has said about each socket
          early        \* history: sockets answered before the first timeout

vars == <<addrs, h, i, numsock, wrfds, wrfds_orig, n, num_sockets, timeouts, pc,
          kernel, verdict, early>>

Hosts == 1 .. NumHosts
Sockets == Hosts \X (0 .. MAX_SOCKETS - 1)

Init == /\ addrs \in [Hosts -> 1 .. MaxAddrs]
        /\ h = 1 /\ i = 0
        /\ numsock = [x \in Hosts |-> 0]
        /\ wrfds = {} /\ wrfds_orig = {}
        /\ n = 0 /\ num_sockets = 0 /\ timeouts = 0
        /\ pc = "connect"
        /\ kernel = [s \in Sockets |-> "none"]
        /\ verdict = [s \in Sockets |-> "none"]
        /\ early = {}
-----------------------------------------------------------------------------
(* The first loop.                                                         *)

Connecting == pc = "connect" /\ h <= NumHosts

NextAddress == IF i + 1 < addrs[h] THEN i' = i + 1 /\ h' = h ELSE i' = 0 /\ h' = h + 1

\* getaddrinfo(), getnameinfo() or fcntl() fails: the program gives up.
SetupFails == /\ Connecting
              /\ pc' = "exit1"
              /\ UNCHANGED <<addrs, h, i, numsock, wrfds, wrfds_orig, n, num_sockets,
                             timeouts, kernel, verdict, early>>

\* The address is of another family, or (inside sockets[]) socket() fails: i moves
\* on, numsock does not.
NoSocket == /\ Connecting
            /\ NextAddress
            /\ UNCHANGED <<addrs, numsock, wrfds, wrfds_orig, n, num_sockets,
                           timeouts, pc, kernel, verdict, early>>

OpenSocket == /\ i < MAX_SOCKETS
              /\ numsock' = [numsock EXCEPT ![h] = @ + 1]
              /\ num_sockets' = num_sockets + 1
              /\ NextAddress

\* Mutant: an immediate answer is not counted.
ConnectAtOnceUncounted ==
    /\ Connecting
    /\ OpenSocket
    /\ \E r \in {"connected", "refused"} :
          /\ kernel' = [kernel EXCEPT ![<<h, i>>] = r]
          /\ verdict' = [verdict EXCEPT ![<<h, i>>] = r]
    /\ UNCHANGED <<addrs, wrfds, wrfds_orig, n, timeouts, pc, early>>

\* connect() has an answer at once, which "may happen on localhost".
ConnectAtOnce ==
    /\ Connecting
    /\ OpenSocket
    /\ \E r \in {"connected", "refused"} :
          /\ kernel' = [kernel EXCEPT ![<<h, i>>] = r]
          /\ verdict' = [verdict EXCEPT ![<<h, i>>] = r]
    /\ n' = n + 1
    /\ UNCHANGED <<addrs, wrfds, wrfds_orig, timeouts, pc, early>>

ConnectInProgress == /\ Connecting
                     /\ OpenSocket
                     /\ kernel' = [kernel EXCEPT ![<<h, i>>] = "pending"]
                     /\ wrfds' = wrfds \cup {<<h, i>>}
                     /\ UNCHANGED <<addrs, wrfds_orig, n, timeouts, pc, verdict, early>>

\* Nothing compares i with MAX_SOCKETS: what socket() returns for one address too
\* many is written behind sockets[], where numsock is.
Overflow == /\ Connecting /\ i >= MAX_SOCKETS
            /\ pc' = "undefined"
            /\ UNCHANGED <<addrs, h, i, numsock, wrfds, wrfds_orig, n, num_sockets,
                           timeouts, kernel, verdict, early>>

\* All connects are under way: the fd set is saved.
StartSelecting == /\ pc = "connect" /\ h > NumHosts
                  /\ wrfds_orig' = wrfds
                  /\ pc' = IF n = num_sockets THEN "done" ELSE "select"
                  /\ UNCHANGED <<addrs, h, i, numsock, wrfds, n, num_sockets,
                                 timeouts, kernel, verdict, early>>
-----------------------------------------------------------------------------
(* The kernel answers, or never does.                                      *)

Answer(s) == /\ kernel[s] = "pending"
             /\ \E r \in {"connected", "refused"} : kernel' = [kernel EXCEPT ![s] = r]
             /\ early' = IF timeouts = 0 /\ pc # "done" THEN early \cup {s} ELSE early
             /\ UNCHANGED <<addrs, h, i, numsock, wrfds, wrfds_orig, n, num_sockets,
                            timeouts, pc, verdict>>

Ready == {s \in wrfds : kernel[s] # "pending"}
-----------------------------------------------------------------------------
(* The select() loop.                                                      *)

\* The loops over a host's sockets end at numsock.  (An address without a socket has
\* -1 there, which stands for no descriptor of the set.)
Checked(s) == s[2] < numsock[s[1]]

\* Mutant: the sockets that have an answer stay in the saved set.
SelectReadyNoClear ==
    /\ pc = "select" /\ Ready # {}
    /\ LET seen == {s \in Ready : Checked(s)}
       IN  /\ verdict' = [s \in Sockets |-> IF s \in seen THEN kernel[s] ELSE verdict[s]]
           /\ UNCHANGED wrfds_orig
           /\ wrfds' = wrfds_orig'
           /\ n' = n + Cardinality(seen)
    /\ pc' = IF n' = num_sockets THEN "done" ELSE "select"
    /\ UNCHANGED <<addrs, h, i, numsock, num_sockets, timeouts, kernel, early>>

\* Mutant: the set is not restored, select() goes on with what was ready.
SelectReadyNoRestore ==
    /\ pc = "select" /\ Ready # {}
    /\ LET seen == {s \in Ready : Checked(s)}
       IN  /\ verdict' = [s \in Sockets |-> IF s \in seen THEN kernel[s] ELSE verdict[s]]
           /\ wrfds_orig' = wrfds_orig \ seen
           /\ wrfds' = Ready \ seen
           /\ n' = n + Cardinality(seen)
    /\ pc' = IF n' = num_sockets THEN "done" ELSE "select"
    /\ UNCHANGED <<addrs, h, i, numsock, num_sockets, timeouts, kernel, early>>

\* select() returns the sockets that are ready; SO_ERROR tells how the connect
\* ended, the sockets are closed, and the set for the next round is made up.
SelectReady ==
    /\ pc = "select" /\ Ready # {}
    /\ LET seen == {s \in Ready : Checked(s)}
       IN  /\ verdict' = [s \in Sockets |-> IF s \in seen THEN kernel[s] ELSE verdict[s]]
           /\ wrfds_orig' = wrfds_orig \ seen
           /\ wrfds' = wrfds_orig'
           /\ n' = n + Cardinality(seen)
    /\ pc' = IF n' = num_sockets THEN "done" ELSE "select"
    /\ UNCHANGED <<addrs, h, i, numsock, num_sockets, timeouts, kernel, early>>

\* Mutant: the timeouts are not counted.
SelectTimesOutUncounted ==
    /\ pc = "select" /\ Ready = {}
    /\ timeouts + 1 < TIMEOUT
    /\ wrfds' = {}
    /\ UNCHANGED <<addrs, h, i, numsock, wrfds_orig, n, num_sockets, timeouts, pc,
                   kernel, verdict, early>>

\* select() times out, which leaves wrfds empty; `continue' skips the line that
\* makes up the set for the next round.
SelectTimesOut ==
    /\ pc = "select" /\ Ready = {}
    /\ timeouts + 1 < TIMEOUT
    /\ timeouts' = timeouts + 1
    /\ wrfds' = {}
    /\ UNCHANGED <<addrs, h, i, numsock, wrfds_orig, n, num_sockets, pc, kernel,
                   verdict, early>>

\* The last timeout: whatever is left in the saved set has timed out.
TimeoutReached ==
    /\ pc = "select" /\ Ready = {}
    /\ timeouts + 1 = TIMEOUT
    /\ timeouts' = TIMEOUT
    /\ wrfds' = {}
    /\ verdict' = [s \in Sockets |-> IF s \in wrfds_orig /\ Checked(s)
                                     THEN "timed out" ELSE verdict[s]]
    /\ pc' = "done"
    /\ UNCHANGED <<addrs, h, i, numsock, wrfds_orig, n, num_sockets, kernel, early>>
-----------------------------------------------------------------------------
Main == \/ NoSocket \/ ConnectAtOnce \/ ConnectInProgress \/ Overflow
        \/ StartSelecting \/ SelectReady \/ SelectTimesOut \/ TimeoutReached

Next == Main \/ SetupFails \/ \E s \in Sockets : Answer(s)

\* The program keeps running; nobody need ever answer it.
SafeSpec == Init /\ [][Next]_vars
Spec == SafeSpec /\ WF_vars(Main)
-----------------------------------------------------------------------------
\* Types; never more connects are counted as finished than were started, and sockets[]
\* overflows only for a host with more addresses than it has room for.
TypeOK == /\ addrs \in [Hosts -> 1 .. MaxAddrs]
          /\ h \in 1 .. NumHosts + 1 /\ i \in 0 .. MaxAddrs - 1
          /\ numsock \in [Hosts -> 0 .. MAX_SOCKETS]
          /\ wrfds \subseteq Sockets /\ wrfds_orig \subseteq Sockets
          /\ n \in 0 .. num_sockets
          /\ num_sockets \in 0 .. NumHosts * MAX_SOCKETS
          /\ timeouts \in 0 .. TIMEOUT
          /\ pc \in {"connect", "select", "done", "exit1", "undefined"}
          /\ pc = "undefined" => h \in Hosts /\ addrs[h] > MAX_SOCKETS
          /\ kernel \in [Sockets -> {"none", "pending", "connected", "refused"}]
          /\ verdict \in [Sockets -> {"none", "connected", "refused", "timed out"}]
          /\ early \subseteq Sockets

\* The loop condition counts right: while the program is in the select() loop,
\* what is missing in n is what is in the saved set, and those sockets are the
\* ones without a verdict, so that select() is never given a closed one.
Accounting ==
    pc = "select" => /\ num_sockets - n = Cardinality(wrfds_orig)
                     /\ wrfds_orig = {s \in Sockets : kernel[s] # "none"
                                                      /\ verdict[s] = "none"}
                     /\ wrfds \subseteq wrfds_orig

\* A verdict is what happened, and an answer that comes before the first timeout
\* is never taken for a timeout.
VerdictsTrue ==
    \A s \in Sockets :
        /\ verdict[s] \in {"connected", "refused"} => kernel[s] = verdict[s]
        /\ verdict[s] = "timed out" => s \notin early

\* A host with an address it got no socket for may have later sockets the loops
\* never look at.  Without one, the program ends with a verdict on every socket,
\* unless it overflows sockets[].
Overlooked == {s \in Sockets : kernel[s] # "none" /\ ~Checked(s)}
EndsWithVerdicts ==
    \/ <>(pc \in {"exit1", "undefined"})
    \/ <>[](pc = "done" /\ \A s \in Sockets : kernel[s] # "none" => verdict[s] # "none")
    \/ <>(pc # "connect" /\ Overlooked # {})

\* "Those remaining in the wrfds set are those that timed out on us."
TimedOutHadNoAnswer ==
    [][\A s \in Sockets : verdict'[s] = "timed out" => kernel[s] = "pending"]_verdict
=============================================================================
