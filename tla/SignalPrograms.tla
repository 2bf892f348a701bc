--------------------------- MODULE SignalPrograms ---------------------------
(***************************************************************************)
(* The programs with signals, one of which runs in a behaviour, and what   *)
(* is true of them whenever the signals come.  The workers of run.sh, whom *)
(* a signal stops, are among them.                                         *)
(***************************************************************************)
EXTENDS SignalHandlers, SignalPairs, SignalThreads, LockFile

vars == <<commandLine, pc, kernelVars, handlerVars, pairVars, threadVars, lockFileVars>>

CommandLines == (HandlerPrograms \cup PairPrograms \cup WaiterPrograms \cup {"sem", "lockfile"})
                    \X {""}
                \cup {<<"intread", "-r">>, <<"sigchld", "-i">>, <<"syncsigwait", "-k">>,
                      <<"sem", "nointr">>}

Init == /\ \E c \in CommandLines : program = c[1] /\ opt = c[2]
        /\ pc = [a \in Actors |-> CASE Is("lockfile") -> "try"
                                    [] a = 0 /\ ~Is("lockfile") -> "start"
                                    [] a = 1 /\ program \in PairPrograms -> "start"
                                    [] a = 1 /\ program = "sem" -> "run"
                                    [] OTHER -> "unborn"]
        /\ SignalsInit
        /\ HandlersInit /\ PairsInit /\ ThreadsInit /\ LockFileInit

\* What the module of a program leaves to the others.
InHandlers == UNCHANGED <<pairVars, threadVars, lockFileVars>>
InPairs == UNCHANGED <<handlerVars, threadVars, lockFileVars>>
InThreads == UNCHANGED <<handlerVars, pairVars, lockFileVars>>
InLockFile == UNCHANGED <<handlerVars, pairVars, threadVars>>

\* The steps of actor a, those that signals make it take, and the world's.
Main(a) == /\ \/ a = 0 /\ HandlerMain /\ InHandlers
              \/ PairMain(a) /\ InPairs
              \/ a = 0 /\ WaiterMain /\ InThreads
              \/ WaiterThread(a) /\ InThreads
              \/ Is("lockfile") /\ Worker(a) /\ InLockFile
           /\ UNCHANGED commandLine

Signalled(a) == /\ \/ a = 0 /\ HandlerSignal /\ InHandlers
                   \/ PairSignal(a) /\ InPairs
                   \/ WaiterSignal(a) /\ InThreads
                /\ UNCHANGED commandLine

Outside == /\ \/ HandlerOutside /\ InHandlers
              \/ PairOutside /\ InPairs
              \/ WaiterOutside /\ InThreads
              \/ Is("lockfile") /\ (\E w \in Actors : Trap(w) \/ Kill9(w)) /\ InLockFile
           /\ UNCHANGED commandLine

Next == (\E a \in Actors : Main(a) \/ Signalled(a)) \/ Outside

\* Everybody runs, and a signal that can be delivered is.  Nobody has to type or
\* to send a signal.  A worker that never gives up trying finds the moment to lock.
Fairness == \A a \in Actors : WF_vars(Main(a)) /\ WF_vars(Signalled(a))

Spec == Init /\ [][Next]_vars /\ Fairness
-----------------------------------------------------------------------------
\* Type correctness.  A handler runs only where one was installed.
TypeOK == /\ <<program, opt>> \in CommandLines
          /\ \A a \in Actors : /\ handled[a] \subseteq {"sig"}
                               /\ masked[a] \subseteq Kinds /\ pending[a] \subseteq Kinds
                               /\ At(a, "handler") => handled[a] = {"sig"}
          /\ sent \in 0 .. MaxSignals
          /\ unprepared \subseteq Actors /\ window \in BOOLEAN
          /\ delivered \in BOOLEAN /\ owed \in BOOLEAN /\ typed \in BOOLEAN
          /\ size \in {-1, 0, 1} /\ catches \in 0 .. 2
          /\ msg \subseteq {0, 1} /\ value \in Values \cup {0} /\ num \in {0, value}
          /\ shared \in {None, "typed"} /\ zombie \in BOOLEAN
          /\ state \in {"running", "stopped", "exited", "killed"}
          /\ change \in {None, "stopped", "continued", "exited", "killed"}
          /\ sem \in 0 .. SemMax
          /\ file \subseteq Actors /\ Cardinality(file) <= 1
          /\ robbed \in BOOLEAN /\ stale \in BOOLEAN

\* A process is ended by a signal only if one was sent before the program was
\* ready for it.  The window is at the start of a child whose parent relies on
\* sleep() (ping-pong.c, sigqueue.c, sigwait.c); once the mask is set no thread
\* created later lets a signal through (pthreads/sigwait.c, catch-SIGKILL.c); and
\* the programs that send or time their signals themselves are ready in time,
\* the serving parent of ping-pong.c included, which has set msg as well.  Only a
\* fault kills all the same.
KilledOnlyUnprepared ==
    /\ \A a \in Actors : At(a, "killed") =>
          \/ a \in unprepared
          \/ program \in WaiterPrograms /\ 0 \in unprepared
          \/ Is("syncsigwait") /\ opt # "-k"
    /\ program \in {"alarm", "killandcatch", "sem"} => unprepared = {}
    /\ program \in PairPrograms => 0 \notin unprepared /\ ~At(0, "crashed")

\* ping-pong.c: the signal is in one place, about to be served, pending, or in a
\* handler, as long as both processes live, and nowhere twice.
OneBall ==
    LET balls == {<<"serve", p>> : p \in {q \in {0} : pc[q] \in {"start", "setmsg", "serve"}}}
                 \cup {<<"pending", p>> : p \in {q \in {0, 1} : pending[q] # {}}}
                 \cup {<<"handler", p>> : p \in {q \in {0, 1} : At(q, "handler")}}
    IN Is("pingpong") => /\ Cardinality(balls) <= 1
                         /\ Alive(0) /\ Alive(1) => Cardinality(balls) = 1

\* What wait.c has printed last agrees with the child's state.
Known == IF state = "running" THEN shown \in {None, "continued"} ELSE shown = state

\* What the programs say is true.  event-loop.c has announced every signal or
\* will, except one that came just before it clears its flag; sigpending.c gets
\* past sigprocmask() after its handler has run; the exit status of sigqueue.c is
\* the value plus one modulo 256 unless the child was killed; the child of
\* sigwait.c prints the character its parent read; a parent that ignores SIGCHLD
\* has no zombie; what wait.c printed is the child's state once waitpid() has
\* nothing left to report; passing posix-unnamed-sem.c's semaphore takes a unit;
\* and a thread that signals itself keeps the signal it masks.
ReportsAreTrue ==
    /\ owed => delivered \/ window
    /\ Is("sigpending") => /\ At(0, "pause") => catches > 0
                           /\ At(0, "ended") => catches > 1
    /\ Is("sigqueue") /\ At(0, "ended") =>
          shown = IF At(1, "killed") THEN 0 ELSE (value + 1) % StatusMod
    /\ Is("sigwait") /\ At(1, "ended") => shown = "typed"
    /\ Is("sigchld") /\ At(1, "killed") => zombie = (opt = "")
    /\ Is("wait") /\ change = None => Known
    /\ sem + ahead = SemInit
    /\ Is("syncsigwait") => \A t \in {1, 2} : At(t, "ended") => pending[t] = {"other"}

\* Two workers of run.sh work at the same time only after one of them, told to
\* stop, has removed the lock file of another one; and a lock file that belongs
\* to no worker is there only if its worker was killed by SIGKILL.
OneWorker ==
    Is("lockfile") =>
        /\ ~robbed => Cardinality({w \in Actors : At(w, "work")}) <= 1
        /\ \A w \in file : At(w, "work") \/ stale

\* Where each program gets to when no more signals come and nobody types any more.
Settled ==
    CASE program = "eventloop" -> owed => window
      [] program = "alarm" -> At(0, "ended") \/ window
      [] program = "intread" -> \/ sent = 0 \/ window \/ At(0, "killed")
                                \/ At(0, IF opt = "-r" THEN "read" ELSE "ended")
      [] program = "sigpending" -> typed => pc[0] \in {"pause", "ended", "aborted", "killed"}
      [] program = "sigqueue" -> At(0, "ended") \/ window
      [] program = "sigwait" -> \/ At(0, "ended")
                                \/ pc[0] \in {"start", "failed"} /\ At(1, "sigwait")
      [] program = "sigchld" -> pc[0] \in {"start", "failed"} \/ At(1, "killed")
      [] program = "wait" -> At(0, "ended") \/ state = "stopped"
      [] program \in Catchers \cup WaiterPrograms -> Alive(0) => pending[0] = {}
      [] OTHER -> TRUE

\* Every signal has its effect in the end, unless it came in the window between
\* the preparations and the blocking call it is meant to interrupt (alarm.c,
\* interrupted-read.c, sigqueue.c) or before event-loop.c clears its flag; and the
\* programs that go on for ever do: the ball of ping-pong.c comes back as long as
\* nobody is dead, posix-unnamed-sem.c passes again and again, and the workers of
\* run.sh take turns: as long as no lock file is left behind, somebody gets the lock.
SignalsTakeEffect ==
    /\ <>[]Settled
    /\ []<>(Is("pingpong") => At(0, "handler") \/ ~Alive(1))
    /\ []<>(Is("sem") => pc[0] \in {"passed", "failed"})
    /\ []<>(Is("lockfile") => \/ stale
                              \/ \A w \in Actors : ~Alive(w)
                              \/ \E w \in Actors : At(w, "work"))
=============================================================================
