---------------------------- MODULE SignalProofs ----------------------------
(***************************************************************************)
(* Proofs about the programs with signals, for any number of signals from  *)
(* outside, any values queued and any semaphore: whom a signal kills,      *)
(* where the ball of ping-pong.c is, that what the programs report is      *)
(* true, and that two workers of run.sh work at the same time only after   *)
(* one was robbed.                                                         *)
(***************************************************************************)
EXTENDS SignalPrograms, FiniteSetTheorems, TLAPS

Gone == {"unborn", "killed", "crashed", "aborted", "ended"}

\* Who may have been killed without having been sent a signal himself.
Excused == \/ program \in WaiterPrograms /\ 0 \in unprepared
           \/ Is("syncsigwait") /\ opt # "-k"

(***************************************************************************)
(* Whatever program runs: a signal that is pending for somebody who was    *)
(* prepared for all he was sent has a handler or is masked.                *)
(***************************************************************************)
KernelTypes ==
    /\ pc = [a \in Actors |-> pc[a]] /\ resume = [a \in Actors |-> resume[a]]
    /\ handled \in [Actors -> SUBSET {"sig"}]
    /\ masked \in [Actors -> SUBSET Kinds] /\ pending \in [Actors -> SUBSET Kinds]
    /\ sent \in 0 .. MaxSignals
    /\ unprepared \subseteq Actors /\ window \in BOOLEAN

Prepared == \A a \in Actors :
    Alive(a) /\ a \notin unprepared => pending[a] \subseteq handled[a] \cup masked[a]

Handling == \A a \in Actors : /\ At(a, "handler") => handled[a] = {"sig"}
                              /\ resume[a] # "killed"

KilledWhy == \A a \in Actors : At(a, "killed") => a \in unprepared \/ Excused

Kernel == KernelTypes /\ Prepared /\ Handling /\ KilledWhy
-----------------------------------------------------------------------------
(* One process.                                                            *)

HandlerTypes == /\ delivered \in BOOLEAN /\ owed \in BOOLEAN /\ typed \in BOOLEAN
                /\ size \in {-1, 0, 1} /\ catches \in 0 .. 2

Announced == owed => Is("eventloop") /\ (delivered \/ window)

\* A signal that event-loop.c forgets came in front of the line that clears the flag.
Clearing == Is("eventloop") =>
    /\ At(0, "clear") /\ owed => window
    /\ At(0, "handler") /\ resume[0] = "clear" => window

\* Nobody sends these programs a signal before their handler is there.
Timed == program \in {"alarm", "killandcatch"} =>
    /\ unprepared = {}
    /\ pc[0] \notin {"start", "killed"} => handled[0] = {"sig"}

\* sigpending.c: the signal stays pending until it is unblocked, and is handled then.
Unblocking == Is("sigpending") =>
    /\ pc[0] \in {"start", "install", "read", "check", "unblock", "unblocked", "pause",
                  "handler", "killed", "aborted", "ended"}
    /\ pending[0] \subseteq {"sig"}
    /\ At(0, "start") => handled[0] = {}
    /\ pc[0] \in {"install", "read", "check", "unblock"} => masked[0] = {"sig"}
    /\ pc[0] \in {"read", "check", "unblock", "unblocked", "pause"} => handled[0] = {"sig"}
    /\ At(0, "unblock") => "sig" \in pending[0]
    /\ At(0, "unblocked") => "sig" \in pending[0] \/ catches > 0
    /\ At(0, "pause") => catches > 0
    /\ At(0, "ended") => catches > 1
    /\ At(0, "handler") => \/ resume[0] = "unblocked"
                           \/ resume[0] = "ended" /\ catches > 0

HandlerInv == HandlerTypes /\ Announced /\ Clearing /\ Timed /\ Unblocking
-----------------------------------------------------------------------------
(* A parent and its child.                                                 *)

PairTypes == /\ msg \subseteq {0, 1} /\ value \in Values \cup {0} /\ num \in {0, value}
             /\ shared \in {None, "typed"} /\ zombie \in BOOLEAN
             /\ state \in {"running", "stopped", "exited", "killed"}
             /\ change \in {None, "stopped", "continued", "exited", "killed"}
             /\ program \in PairPrograms => 0 \notin unprepared /\ ~At(0, "crashed")

\* ping-pong.c: where the ball can be, and that the parent is ready when it comes.
Serving == pc[0] \in {"start", "setmsg", "serve"}

Playing == Is("pingpong") =>
    /\ pc[0] \in {"start", "setmsg", "serve", "pause", "handler"}
    /\ pc[1] \in {"start", "setpid", "setmsg", "pause", "handler", "killed", "crashed"}
    /\ pc[2] = "unborn"
    /\ pending[0] \subseteq {"sig"} /\ pending[1] \subseteq {"sig"}
    /\ ~At(0, "start") => handled[0] = {"sig"}
    /\ pc[0] \in {"serve", "pause", "handler"} => 0 \in msg
    /\ At(0, "handler") => resume[0] = "pause"
    /\ At(1, "start") => handled[1] = {}
    /\ At(1, "handler") => resume[1] \in {"setpid", "setmsg", "pause"}

Ball ==  Is("pingpong") =>
    /\ Serving => pending[0] = {} /\ pending[1] = {} /\ ~At(1, "handler")
    /\ pending[0] # {} => pending[1] = {} /\ ~At(0, "handler") /\ ~At(1, "handler")
    /\ pending[1] # {} => ~At(0, "handler") /\ ~At(1, "handler")
    /\ ~(At(0, "handler") /\ At(1, "handler"))
    /\ Alive(1) => \/ Serving
                   \/ pending[0] # {} \/ pending[1] # {}
                   \/ At(0, "handler") \/ At(1, "handler")

\* sigqueue.c: the child exits only after its handler has stored the value.
Queueing == Is("sigqueue") =>
    /\ pc[1] \in {"start", "ready", "pause", "exit", "handler", "ended", "killed"}
    /\ At(1, "handler") => resume[1] \in {"start", "ready", "exit"}
    /\ pc[1] \in {"exit", "ended"} => num = value
    /\ At(0, "ended") =>
          /\ pc[1] \in {"ended", "killed"}
          /\ shown = IF At(1, "killed") THEN 0 ELSE (value + 1) % StatusMod

\* signals/sigwait.c: the character is there before the signal is.
Storing == Is("sigwait") =>
    /\ pc[1] \in {"start", "sigwait", "print", "ended", "killed"} /\ handled[1] = {}
    /\ At(1, "start") => masked[1] = {}
    /\ At(0, "kill") \/ pending[1] # {} \/ At(1, "print") => shared = "typed"
    /\ At(1, "ended") => shown = "typed"

\* sigchld.c: the parent has decided to ignore SIGCHLD before it kills the child.
Ignoring == Is("sigchld") =>
    /\ pc[1] \in {"start", "killed"} /\ handled[1] = {}
    /\ pending[1] # {} => At(0, "pause")
    /\ At(1, "killed") => zombie = (opt # "-i")

\* wait.c: the change waitpid() has not returned yet is the last one.
Waiting == Is("wait") =>
    /\ handled[1] = {}
    /\ change = None => Known
    /\ change # None => state = IF change = "continued" THEN "running" ELSE change

PairInv == PairTypes /\ Playing /\ Ball /\ Queueing /\ Storing /\ Ignoring /\ Waiting
-----------------------------------------------------------------------------
(* A process with threads.                                                 *)

ThreadTypes == /\ sem \in 0 .. SemMax /\ ahead \in Int /\ sem + ahead = SemInit
               /\ Is("sem") => unprepared = {}

\* Every thread has the mask of main(), which was there before the thread.
OneMask == program \in WaiterPrograms =>
    /\ pc[0] \in {"start", "create1", "create2", "sigwait", "killed"}
    /\ \A a \in Actors : handled[a] = {}
    /\ At(0, "start") => masked[0] = {}
    /\ \A t \in {1, 2} : /\ pc[t] \in {"unborn", "run", "ended", "killed"}
                         /\ pc[0] \in {"start", "create1"} => At(t, "unborn")
                         /\ At(0, "create2") => At(2, "unborn")
                         /\ At(t, "run") => masked[t] = masked[0] /\ ~At(0, "killed")
                         /\ pc[t] \in {"unborn", "run"} => pending[t] = {}
                         /\ Is("syncsigwait") /\ At(t, "ended") => pending[t] = {"other"}

ThreadInv == ThreadTypes /\ OneMask
-----------------------------------------------------------------------------
(* The lock files of run.sh.  OneWorker counts workers and is not          *)
(* inductive: what keeps the second one out is that the file is there, and *)
(* it is there because the first one made it.                              *)

LockTypes == /\ file \subseteq Actors /\ (\A v, w \in file : v = w)
             /\ robbed \in BOOLEAN /\ stale \in BOOLEAN

Locking == Is("lockfile") =>
    /\ ~robbed => \A w \in Actors : At(w, "work") => file = {w}
    /\ \A w \in file : At(w, "work") \/ stale

LockInv == LockTypes /\ Locking
-----------------------------------------------------------------------------
IInv == /\ <<program, opt>> \in CommandLines
        /\ Kernel /\ HandlerInv /\ PairInv /\ ThreadInv /\ LockInv
-----------------------------------------------------------------------------
(* What the kernel does keeps Kernel, whoever calls it.  l and m are the   *)
(* places a step leads from and to.                                        *)

Plain(m) == m \notin {"handler", "killed"}

\* A step that leaves the signals alone.
LEMMA GoKeeps ==
    ASSUME Kernel, UNCHANGED commandLine,
           NEW a \in Actors, NEW l, NEW m, l \notin Gone, Plain(m), Go(a, l, m)
    PROVE  Kernel'
<1>1. KernelTypes' /\ \A b \in Actors : pc'[b] = IF b = a THEN m ELSE pc[b]
  BY DEF Go, Kernel, KernelTypes, kernelVars, At
<1>2. Prepared' /\ Handling'
  BY <1>1 DEF Go, Kernel, Prepared, Handling, kernelVars, Alive, Gone, At, Plain
<1>3. KilledWhy'
  BY <1>1 DEF Go, Kernel, KilledWhy, kernelVars, commandLine, Excused, Is, At, Plain
<1>4. QED  BY <1>1, <1>2, <1>3 DEF Kernel

\* A handler is installed for good.
LEMMA SigActionKeeps ==
    ASSUME Kernel, UNCHANGED commandLine,
           NEW a \in Actors, NEW l, NEW m, l \notin Gone, Plain(m), SigAction(a, l, m)
    PROVE  Kernel'
<1>1. /\ KernelTypes'
      /\ \A b \in Actors : pc'[b] = IF b = a THEN m ELSE pc[b]
      /\ \A b \in Actors : handled'[b] = IF b = a THEN {"sig"} ELSE handled[b]
  BY DEF SigAction, Kernel, KernelTypes, At
<1>2. Prepared' /\ Handling'
  BY <1>1 DEF SigAction, Kernel, KernelTypes, Prepared, Handling, Alive, Gone, At, Plain
<1>3. KilledWhy'
  BY <1>1 DEF SigAction, Kernel, KilledWhy, commandLine, Excused, Is, At, Plain
<1>4. QED  BY <1>1, <1>2, <1>3 DEF Kernel

\* A mask may change only if it still covers what is pending and has no handler.
LEMMA SigMaskKeeps ==
    ASSUME Kernel, UNCHANGED commandLine,
           NEW a \in Actors, NEW l, NEW m, NEW s \in SUBSET Kinds,
           l \notin Gone, Plain(m), SigMask(a, l, m, s),
           masked[a] \subseteq s \/ pending[a] \subseteq handled[a] \cup s
    PROVE  Kernel'
<1>1. /\ KernelTypes'
      /\ \A b \in Actors : pc'[b] = IF b = a THEN m ELSE pc[b]
      /\ \A b \in Actors : masked'[b] = IF b = a THEN s ELSE masked[b]
  BY DEF SigMask, Kernel, KernelTypes, At
<1>2. Prepared' /\ Handling'
  BY <1>1 DEF SigMask, Kernel, KernelTypes, Prepared, Handling, Alive, Gone, At, Plain
<1>3. KilledWhy'
  BY <1>1 DEF SigMask, Kernel, KilledWhy, commandLine, Excused, Is, At, Plain
<1>4. QED  BY <1>1, <1>2, <1>3 DEF Kernel

\* Whoever is sent a signal he is not prepared for is remembered.
LEMMA SendsKeeps ==
    ASSUME Kernel, UNCHANGED commandLine,
           NEW a \in Actors, NEW s \in Kinds, Sends(a, s),
           UNCHANGED <<resume, handled, masked, window>>, sent' \in 0 .. MaxSignals,
           pc' = [b \in Actors |-> pc'[b]],
           \A b \in Actors : pc'[b] = pc[b] \/ (pc[b] \notin Gone /\ Plain(pc'[b]))
    PROVE  Kernel'
<1>1. KernelTypes'
  BY DEF Sends, Kernel, KernelTypes
<1>2. /\ unprepared \subseteq unprepared'
      /\ \A b \in Actors : b # a => pending'[b] = pending[b]
      /\ pending'[a] \in {pending[a], pending[a] \cup {s}}
      /\ pending'[a] = pending[a] \/ a \in unprepared' \/ s \in handled[a] \cup masked[a]
  BY DEF Sends, Kernel, KernelTypes
<1>3. Prepared' /\ Handling'
  BY <1>2 DEF Kernel, KernelTypes, Prepared, Handling, Alive, Gone, At, Plain
<1>4. KilledWhy'
  BY <1>2 DEF Kernel, KilledWhy, commandLine, Excused, Is, At, Plain
<1>5. QED  BY <1>1, <1>3, <1>4 DEF Kernel

\* kill() as a step of a.
LEMMA KillKeeps ==
    ASSUME Kernel, UNCHANGED commandLine,
           NEW a \in Actors, NEW b \in Actors, NEW l, NEW m,
           l \notin Gone, Plain(m), Kill(a, l, m, b)
    PROVE  Kernel'
<1>1. /\ pc' = [c \in Actors |-> pc'[c]] /\ sent' \in 0 .. MaxSignals
      /\ \A c \in Actors : pc'[c] = pc[c] \/ (pc[c] \notin Gone /\ Plain(pc'[c]))
      /\ "sig" \in Kinds
  BY DEF Kill, Kernel, KernelTypes, At, Kinds
<1>2. QED  BY <1>1, SendsKeeps DEF Kill

\* A signal from outside.
LEMMA OutsideKeeps ==
    ASSUME Kernel, UNCHANGED commandLine,
           NEW a \in Actors, NEW s \in Kinds, FromOutside(a, s)
    PROVE  Kernel'
<1>1. pc' = [c \in Actors |-> pc'[c]] /\ sent' \in 0 .. MaxSignals
  BY SignalsAssumption DEF FromOutside, Kernel, KernelTypes
<1>2. QED  BY <1>1, SendsKeeps DEF FromOutside

\* Only a signal somebody was not prepared for kills him.
LEMMA DeliverKeeps ==
    ASSUME Kernel, UNCHANGED commandLine,
           NEW a \in Actors, NEW s \in Kinds, NEW l, NEW lost, l # "killed" \/ l = pc[a],
           Deliver(a, s, l, lost)
    PROVE  Kernel'
<1>1. l # "killed"
  BY DEF Deliver, Alive
<1>2. /\ KernelTypes'
      /\ \A b \in Actors :
            /\ pc'[b] = IF b = a THEN IF s \in handled[a] THEN "handler" ELSE "killed"
                                 ELSE pc[b]
            /\ resume'[b] = IF b = a THEN l ELSE resume[b]
            /\ pending'[b] = IF b = a THEN pending[a] \ {s} ELSE pending[b]
  BY DEF Deliver, Kernel, KernelTypes
<1>3. Prepared'
  BY <1>2 DEF Deliver, Kernel, KernelTypes, Prepared, Alive, Gone
<1>4. Handling'
  <2>1. handled[a] \subseteq {"sig"} /\ UNCHANGED handled
    BY DEF Deliver, Kernel, KernelTypes
  <2>2. s \in handled[a] => handled[a] = {"sig"}
    BY <2>1
  <2>3. QED  BY <1>1, <1>2, <2>1, <2>2 DEF Kernel, Handling, At
<1>5. KilledWhy'
  BY <1>2 DEF Deliver, Kernel, Prepared, KilledWhy, commandLine, Excused, Is, At
<1>6. QED  BY <1>2, <1>3, <1>4, <1>5 DEF Kernel

\* A handler returns to a place among the living.
LEMMA ReturnsKeeps ==
    ASSUME Kernel, UNCHANGED commandLine, NEW a \in Actors, HandlerReturns(a)
    PROVE  Kernel'
<1>1. KernelTypes' /\ \A b \in Actors : pc'[b] = IF b = a THEN resume[a] ELSE pc[b]
  BY DEF HandlerReturns, Kernel, KernelTypes, kernelVars
<1>2. Prepared' /\ Handling'
  BY <1>1 DEF HandlerReturns, Kernel, KernelTypes, Prepared, Handling, kernelVars, Alive, Gone, At
<1>3. KilledWhy'
  BY <1>1 DEF HandlerReturns, Kernel, KilledWhy, Handling, kernelVars, commandLine, Excused, Is, At
<1>4. QED  BY <1>1, <1>2, <1>3 DEF Kernel

\* sigwait() takes a signal away.
LEMMA SigWaitKeeps ==
    ASSUME Kernel, UNCHANGED commandLine,
           NEW a \in Actors, NEW l, NEW m, NEW s, l \notin Gone, Plain(m), SigWait(a, l, m, s)
    PROVE  Kernel'
<1>1. /\ KernelTypes'
      /\ \A b \in Actors : pc'[b] = IF b = a THEN m ELSE pc[b]
      /\ \A b \in Actors : pending'[b] \subseteq pending[b]
  BY DEF SigWait, Kernel, KernelTypes, At
<1>2. Prepared' /\ Handling'
  BY <1>1 DEF SigWait, Kernel, KernelTypes, Prepared, Handling, Alive, Gone, At, Plain
<1>3. KilledWhy'
  BY <1>1 DEF SigWait, Kernel, KilledWhy, commandLine, Excused, Is, At, Plain
<1>4. QED  BY <1>1, <1>2, <1>3 DEF Kernel
-----------------------------------------------------------------------------
(* The steps of the programs of one process keep Kernel.                   *)

\* event-loop.c.
LEMMA EventLoopKernel ==
    ASSUME Kernel, UNCHANGED commandLine, EventLoop \/ EventLoopSignal
    PROVE  Kernel'
<1> USE DEF Plain, Gone
<1>1. 0 \in Actors /\ "sig" \in Kinds
  BY DEF Actors, Kinds
<1>2. CASE EventLoop
  <2> DEFINE Places == {"poll", "test", "announce", "clear"}
  <2>1. ASSUME NEW l \in Places, NEW m \in Places, Go(0, l, m) PROVE Kernel'
    BY <1>1, <2>1, GoKeeps
  <2>2. QED  BY <1>1, <1>2, <2>1, SigActionKeeps DEF EventLoop
<1>3. CASE EventLoopSignal
  <2>1. ASSUME NEW l, NEW lost, l \in {"test", pc[0]}, Deliver(0, "sig", l, lost) PROVE Kernel'
    BY <1>1, <2>1, DeliverKeeps
  <2>2. QED  BY <1>1, <1>3, <2>1, ReturnsKeeps DEF EventLoopSignal
<1>4. QED  BY <1>2, <1>3

\* alarm.c and interrupted-read.c.
LEMMA ReadKernel ==
    ASSUME Kernel, UNCHANGED commandLine,
           Alarm \/ AlarmSignal \/ InterruptedRead \/ InterruptedReadSignal
    PROVE  Kernel'
<1> USE DEF Plain, Gone
<1>1. 0 \in Actors /\ "sig" \in Kinds
  BY DEF Actors, Kinds
<1>2. CASE Alarm \/ InterruptedRead
  <2>1. ASSUME NEW l \in {"arm", "armed", "pipe", "read", "disarm"},
               NEW m \in {"armed", "read", "disarm", "ended"}, Go(0, l, m)
        PROVE  Kernel'
    BY <1>1, <2>1, GoKeeps
  <2>2. QED  BY <1>1, <1>2, <2>1, SigActionKeeps DEF Alarm, Reads, InterruptedRead
<1>3. CASE AlarmSignal \/ InterruptedReadSignal
  <2>1. ASSUME NEW l, NEW lost, l \in {"disarm", "ended", pc[0]}, Deliver(0, "sig", l, lost)
        PROVE  Kernel'
    BY <1>1, <2>1, DeliverKeeps
  <2>2. QED
    BY <1>1, <1>3, <2>1, OutsideKeeps, ReturnsKeeps DEF AlarmSignal, InterruptedReadSignal
<1>4. QED  BY <1>2, <1>3

\* sigpending.c unblocks the signal when its handler is there.
LEMMA SigPendingKernel ==
    ASSUME Kernel, Unblocking, Is("sigpending"), UNCHANGED commandLine,
           SigPending \/ SigPendingSignal
    PROVE  Kernel'
<1> USE DEF Plain, Gone
<1>1. 0 \in Actors /\ "sig" \in Kinds /\ {"sig"} \in SUBSET Kinds /\ {} \in SUBSET Kinds
  BY DEF Actors, Kinds
<1>2. CASE SigPending
  <2>1. ASSUME NEW l \in {"read", "check", "unblocked"},
               NEW m \in {"check", "unblock", "aborted", "pause"}, Go(0, l, m)
        PROVE  Kernel'
    BY <1>1, <2>1, GoKeeps
  <2>2. ASSUME SigMask(0, "start", "install", {"sig"}) PROVE Kernel'
    <3>1. pending[0] \subseteq handled[0] \cup {"sig"}
      BY DEF Unblocking
    <3>2. QED  BY <1>1, <2>2, <3>1, SigMaskKeeps
  <2>3. ASSUME SigMask(0, "unblock", "unblocked", {}) PROVE Kernel'
    <3>1. pending[0] \subseteq handled[0] \cup {}
      BY <2>3 DEF Unblocking, SigMask, At
    <3>2. QED  BY <1>1, <2>3, <3>1, SigMaskKeeps
  <2>4. QED  BY <1>1, <1>2, <2>1, <2>2, <2>3, SigActionKeeps DEF SigPending
<1>3. CASE SigPendingSignal
  <2>1. ASSUME NEW l, l \in {"ended", pc[0]}, Deliver(0, "sig", l, FALSE) PROVE Kernel'
    BY <1>1, <2>1, DeliverKeeps
  <2>2. QED  BY <1>1, <1>3, <2>1, ReturnsKeeps DEF SigPendingSignal
<1>4. QED  BY <1>2, <1>3

\* The programs that only catch, and what comes from outside.
LEMMA CatchersKernel ==
    ASSUME Kernel, UNCHANGED commandLine,
           CtrlC \/ SigInfo \/ SignalVsSigaction \/ KillAndCatch \/ Catches \/ HandlerOutside
    PROVE  Kernel'
<1> USE DEF Plain, Gone
<1>1. 0 \in Actors /\ "sig" \in Kinds
  BY DEF Actors, Kinds
<1>2. ASSUME SigAction(0, "start", "loop") PROVE Kernel'
  BY <1>1, <1>2, SigActionKeeps
<1>3. ASSUME At(0, "loop"), sent < MaxSignals, Sends(0, "sig"), sent' = sent + 1,
             UNCHANGED <<pc, resume, handled, masked, window>>
      PROVE  Kernel'
  <2>1. pc' = [c \in Actors |-> pc'[c]] /\ sent' \in 0 .. MaxSignals
    BY <1>3, SignalsAssumption DEF Kernel, KernelTypes
  <2>2. QED  BY <1>1, <1>3, <2>1, SendsKeeps
<1>4. ASSUME Deliver(0, "sig", pc[0], FALSE) PROVE Kernel'
  BY <1>1, <1>4, DeliverKeeps
<1>5. CASE UserTypes
  BY <1>5 DEF UserTypes, kernelVars, Kernel, KernelTypes, Prepared, Handling, KilledWhy,
              commandLine, Excused, Is, At, Alive
<1>6. QED
  BY <1>1, <1>2, <1>3, <1>4, <1>5, ReturnsKeeps, OutsideKeeps
  DEF CtrlC, SigInfo, SignalVsSigaction, KillAndCatch, Catches, HandlerOutside

LEMMA HandlerKernel ==
    ASSUME Kernel, Unblocking, UNCHANGED commandLine,
           HandlerMain \/ HandlerSignal \/ HandlerOutside
    PROVE  Kernel'
BY EventLoopKernel, ReadKernel, SigPendingKernel, CatchersKernel
DEF HandlerMain, HandlerSignal

\* window is history: once TRUE, always TRUE.
LEMMA WindowStays ==
    ASSUME Kernel, HandlerMain \/ HandlerSignal \/ HandlerOutside
    PROVE  window => window'
<1>1. ASSUME UNCHANGED window PROVE window => window'
  BY <1>1
<1>2. ASSUME NEW l, NEW lost, Deliver(0, "sig", l, lost) PROVE window => window'
  BY <1>2 DEF Deliver
<1>3. ASSUME NEW l, NEW m, Go(0, l, m) \/ SigAction(0, l, m) PROVE window => window'
  BY <1>3 DEF Go, SigAction, kernelVars
<1>4. ASSUME NEW l, NEW m, NEW s, SigMask(0, l, m, s) PROVE window => window'
  BY <1>4 DEF SigMask
<1>5. ASSUME HandlerReturns(0) PROVE window => window'
  BY <1>5 DEF HandlerReturns, kernelVars
<1>6. ASSUME FromOutside(0, "sig") PROVE window => window'
  BY <1>6 DEF FromOutside
<1>7. CASE HandlerMain
  BY <1>1, <1>3, <1>4, <1>7 DEF HandlerMain, EventLoop, Alarm, Reads, InterruptedRead, SigPending,
     CtrlC, SigInfo, SignalVsSigaction, KillAndCatch
<1>8. CASE HandlerSignal
  BY <1>2, <1>5, <1>6, <1>8 DEF HandlerSignal, EventLoopSignal, AlarmSignal,
     InterruptedReadSignal, SigPendingSignal, Catches
<1>9. CASE HandlerOutside
  BY <1>1, <1>6, <1>9 DEF HandlerOutside, UserTypes, kernelVars
<1>10. QED  BY <1>7, <1>8, <1>9

\* event-loop.c forgets a signal only after window has been set.
LEMMA EventLoopInv ==
    ASSUME Kernel, HandlerInv, Is("eventloop"), UNCHANGED commandLine, window => window',
           EventLoop \/ EventLoopSignal \/ (FromOutside(0, "sig") /\ Stays)
    PROVE  HandlerInv'
<1> USE DEF HandlerInv, Announced, Clearing, Stays, handlerVars, kernelVars, At
<1>1. Timed' /\ Unblocking' /\ Is("eventloop")'
  BY DEF Timed, Unblocking, commandLine, Is
<1>2. HandlerTypes'
  BY DEF HandlerTypes, EventLoop, EventLoopSignal
<1>3. CASE EventLoop
  <2>1. CASE SigAction(0, "start", "poll") /\ Stays
    BY <1>1, <1>2, <2>1 DEF SigAction, Is, Kernel, KernelTypes, Actors
  <2>2. ASSUME NEW m, m \notin {"clear", "handler"}, Go(0, pc[0], m), UNCHANGED <<delivered, window>>,
               owed' => owed
        PROVE  HandlerInv'
    BY <1>1, <1>2, <2>2 DEF Go, Is, Kernel, KernelTypes, Actors
  <2>3. CASE Go(0, "announce", "clear") /\ owed' = FALSE
    BY <1>1, <1>2, <2>3 DEF Go, Is, Kernel, KernelTypes, Actors
  <2>4. CASE Go(0, "clear", "poll") /\ delivered' = FALSE /\ UNCHANGED owed
    BY <1>1, <1>2, <2>4 DEF Go, Is, Kernel, KernelTypes, Actors
  <2>5. CASE Go(0, "poll", "test") /\ Stays
    BY <2>2, <2>5 DEF Go
  <2>6. CASE Go(0, "test", IF delivered THEN "announce" ELSE "poll") /\ Stays
    BY <2>2, <2>6 DEF Go
  <2>7. QED  BY <1>3, <2>1, <2>3, <2>4, <2>5, <2>6 DEF EventLoop
<1>4. CASE EventLoopSignal
  <2>1. ASSUME NEW l, l \in {"test", pc[0]}, Deliver(0, "sig", l, At(0, "clear")), Stays
        PROVE  HandlerInv'
    <3>1. pc'[0] \in {"handler", "killed"} /\ resume'[0] = l
      BY <2>1 DEF Deliver, Kernel, KernelTypes, Actors
    <3>2. pc'[0] = "handler" /\ pc[0] = "clear" => window'
      <4>1. pc'[0] = "handler" => "sig" \in handled[0]
        BY <2>1 DEF Deliver, Kernel, KernelTypes, Actors
      <4>2. QED  BY <2>1, <4>1 DEF Deliver
    <3>3. Announced'
      BY <1>1, <2>1
    <3>4. Clearing'
      BY <2>1, <3>1, <3>2
    <3>5. QED  BY <1>1, <1>2, <3>3, <3>4
  <2>2. ASSUME HandlerReturns(0), delivered' = TRUE, UNCHANGED window
        PROVE  HandlerInv'
    <3>1. pc[0] = "handler" /\ pc'[0] = resume[0] /\ resume' = resume
      BY <2>2 DEF HandlerReturns, Kernel, KernelTypes, Actors
    <3>2. Clearing'
      BY <2>2, <3>1 DEF Is
    <3>3. QED  BY <1>1, <1>2, <2>2, <3>2
  <2>3. QED  BY <1>4, <2>1, <2>2 DEF EventLoopSignal, HandlerReturns
<1>5. CASE FromOutside(0, "sig") /\ Stays
  BY <1>1, <1>2, <1>5 DEF FromOutside
<1>6. QED  BY <1>3, <1>4, <1>5

\* The alarm goes off, or kill() is called, when the handler is there.
LEMMA TimedInv ==
    ASSUME Kernel, HandlerInv, program \in {"alarm", "killandcatch"}, UNCHANGED commandLine,
           window => window', Alarm \/ AlarmSignal \/ UserTypes \/ KillAndCatch \/ Catches
    PROVE  HandlerInv'
<1> USE DEF HandlerInv, Stays, handlerVars, kernelVars
<1>1. Clearing' /\ Unblocking'
  BY DEF Clearing, Unblocking, commandLine, Is
<1>2. HandlerTypes'
  BY DEF HandlerTypes, Alarm, Reads, AlarmSignal, UserTypes, KillAndCatch, Catches
<1>3. Announced'
  <2>1. UNCHANGED <<delivered, owed>>
    BY DEF Alarm, Reads, AlarmSignal, UserTypes, KillAndCatch, Catches
  <2>2. QED  BY <2>1 DEF Announced, Is, commandLine
<1>4. Timed'
  <2>1. CASE Alarm \/ UserTypes
    BY <2>1 DEF At, Timed, Alarm, Reads, UserTypes, SigAction, Go, Kernel, KernelTypes, Actors
  <2>2. ASSUME NEW l, NEW lost, l \in {"disarm", pc[0]}, Deliver(0, "sig", l, lost)
        PROVE  Timed'
    BY <2>2 DEF At, Deliver, Timed, Kernel, KernelTypes, Handling, Actors
  <2>3. ASSUME HandlerReturns(0) PROVE Timed'
    BY <2>3 DEF At, HandlerReturns, Timed, Kernel, KernelTypes, Handling, Actors
  <2>4. ASSUME pc[0] \notin {"start", "killed"}, Sends(0, "sig"), UNCHANGED <<pc, handled>>
        PROVE  Timed'
    BY <2>4 DEF Sends, Timed, commandLine
  <2>5. CASE AlarmSignal
    <3>1. ASSUME NEW l, l \in {"disarm", pc[0]}, Deliver(0, "sig", l, At(0, "armed"))
          PROVE  Timed'
      BY <2>2, <3>1
    <3>2. ASSUME pc[0] \in {"armed", "read", "disarm"}, FromOutside(0, "sig") PROVE Timed'
      BY <2>4, <3>2 DEF FromOutside
    <3>3. QED  BY <2>3, <2>5, <3>1, <3>2 DEF AlarmSignal
  <2>6. CASE Catches
    <3>1. ASSUME Deliver(0, "sig", pc[0], FALSE) PROVE Timed'
      BY <3>1 DEF At, Deliver, Timed, Kernel, KernelTypes, Handling, Actors
    <3>2. QED  BY <2>3, <2>6, <3>1 DEF Catches
  <2>7. CASE KillAndCatch
    <3>1. ASSUME SigAction(0, "start", "loop") PROVE Timed'
      BY <3>1 DEF At, SigAction, Timed, Kernel, KernelTypes, Actors
    <3>2. QED  BY <2>4, <2>7, <3>1 DEF At, KillAndCatch
  <2>8. QED  BY <2>1, <2>5, <2>6, <2>7
<1>5. QED  BY <1>1, <1>2, <1>3, <1>4

\* sigpending.c gets past sigprocmask() with the signal handled.
LEMMA UnblockingInv ==
    ASSUME Kernel, HandlerInv, Is("sigpending"), UNCHANGED commandLine, window => window',
           SigPending \/ SigPendingSignal \/ UserTypes \/ (FromOutside(0, "sig") /\ Stays)
    PROVE  HandlerInv'
<1> USE DEF HandlerInv, Stays, handlerVars, kernelVars, At
<1>1. Clearing' /\ Timed'
  BY DEF Clearing, Timed, commandLine, Is
<1>2. HandlerTypes'
  <2>1. UNCHANGED <<delivered, owed, size>>
    BY DEF SigPending, SigPendingSignal, UserTypes
  <2>2. typed' = typed \/ typed' = TRUE
    BY DEF SigPending, SigPendingSignal, UserTypes
  <2>3. catches' \in {catches, 1, 2}
    BY DEF SigPending, SigPendingSignal, UserTypes
  <2>4. catches' \in 0 .. 2
    BY <2>3 DEF HandlerTypes
  <2>5. QED  BY <2>1, <2>2, <2>4 DEF HandlerTypes
<1>3. Announced'
  <2>1. UNCHANGED <<delivered, owed>>
    BY DEF SigPending, SigPendingSignal, UserTypes
  <2>2. QED  BY <2>1 DEF Announced, Is, commandLine
<1>4. Unblocking'
  <2> USE DEF Unblocking, Kernel, KernelTypes, Actors
  <2>1. CASE SigPending
    BY <2>1 DEF SigPending, SigMask, SigAction, Go
  <2>2. ASSUME NEW l, l \in {"ended", pc[0]}, Deliver(0, "sig", l, FALSE), UNCHANGED catches,
               l = "ended" <=> At(0, "pause")
        PROVE  Unblocking'
    BY <2>2 DEF Deliver, Alive
  <2>3. ASSUME HandlerReturns(0), catches' = IF catches = 0 THEN 1 ELSE 2 PROVE Unblocking'
    BY <2>3 DEF HandlerReturns, Handling
  <2>4. CASE SigPendingSignal
    <3>1. ASSUME Deliver(0, "sig", pc[0], FALSE) PROVE pc[0] # "ended"
      BY <3>1 DEF Deliver, Alive
    <3>2. QED  BY <2>2, <2>3, <2>4, <3>1 DEF SigPendingSignal
  <2>5. CASE UserTypes
    BY <2>5 DEF UserTypes
  <2>6. CASE FromOutside(0, "sig") /\ Stays
    BY <2>6 DEF FromOutside, Sends
  <2>7. QED  BY <2>1, <2>4, <2>5, <2>6
<1>5. QED  BY <1>1, <1>2, <1>3, <1>4

\* The other programs have nothing but types to keep.
LEMMA OthersInv ==
    ASSUME HandlerInv, program \notin {"eventloop", "alarm", "killandcatch", "sigpending"},
           UNCHANGED <<program, delivered, owed, size, catches>>, typed' \in BOOLEAN
    PROVE  HandlerInv'
BY DEF HandlerInv, HandlerTypes, Announced, Clearing, Timed, Unblocking, commandLine, Is, handlerVars

LEMMA HandlerInvKeeps ==
    ASSUME Kernel, HandlerInv, UNCHANGED commandLine, window' \in BOOLEAN,
           HandlerMain \/ HandlerSignal \/ HandlerOutside
    PROVE  HandlerInv'
<1>1. window => window'
  BY WindowStays
<1>2. HandlerOutside => \/ program \in {"alarm", "sigpending"} /\ UserTypes
                        \/ program \notin {"alarm", "killandcatch"} /\ FromOutside(0, "sig") /\ Stays
  BY DEF HandlerOutside, UserTypes
<1>3. CASE Is("eventloop")
  <2>1. EventLoop \/ EventLoopSignal \/ (FromOutside(0, "sig") /\ Stays)
    BY <1>2, <1>3 DEF HandlerMain, HandlerSignal, Is, CtrlC, SigInfo, SignalVsSigaction,
       KillAndCatch, Catchers
  <2>2. QED  BY <1>1, <1>3, <2>1, EventLoopInv
<1>4. CASE program \in {"alarm", "killandcatch"}
  <2>1. Alarm \/ AlarmSignal \/ UserTypes \/ KillAndCatch \/ Catches
    BY <1>2, <1>4 DEF HandlerMain, HandlerSignal, Is, CtrlC, SigInfo, SignalVsSigaction
  <2>2. QED  BY <1>1, <1>4, <2>1, TimedInv
<1>5. CASE Is("sigpending")
  <2>1. SigPending \/ SigPendingSignal \/ UserTypes \/ (FromOutside(0, "sig") /\ Stays)
    BY <1>2, <1>5 DEF HandlerMain, HandlerSignal, Is, CtrlC, SigInfo, SignalVsSigaction,
       KillAndCatch, Catchers
  <2>2. QED  BY <1>1, <1>5, <2>1, UnblockingInv
<1>6. CASE program \notin {"eventloop", "alarm", "killandcatch", "sigpending"}
  <2>1. UNCHANGED <<program, delivered, owed, size, catches, typed>>
    BY <1>2, <1>6 DEF HandlerMain, HandlerSignal, Is, CtrlC, SigInfo, SignalVsSigaction,
       KillAndCatch, InterruptedRead, InterruptedReadSignal, Catches, Stays, handlerVars, commandLine
  <2>2. QED  BY <1>1, <1>6, <2>1, OthersInv DEF HandlerInv, HandlerTypes
<1>7. QED  BY <1>3, <1>4, <1>5, <1>6 DEF Is
-----------------------------------------------------------------------------
(* The steps of a parent and its child keep Kernel.                        *)

\* ping-pong.c: the handler returns to where it interrupted, or crashes.
LEMMA PingPongKernel ==
    ASSUME Kernel, Playing, Is("pingpong"), UNCHANGED commandLine,
           \/ PingPongParent \/ PingPongChild
           \/ \E p \in {0, 1} : PingPongSignal(p)
    PROVE  Kernel'
<1> USE DEF Plain, Gone
<1>1. 0 \in Actors /\ 1 \in Actors /\ "sig" \in Kinds
  BY DEF Actors, Kinds
<1>2. CASE PingPongParent \/ PingPongChild
  <2>1. ASSUME NEW p \in {0, 1}, NEW l \in {"setmsg", "setpid"},
               NEW m \in {"setmsg", "serve", "pause"}, Go(p, l, m)
        PROVE  Kernel'
    BY <1>1, <2>1, GoKeeps
  <2>2. QED
    BY <1>1, <1>2, <2>1, SigActionKeeps, KillKeeps DEF PingPongParent, PingPongChild, SetsMsg
<1>3. ASSUME NEW p \in {0, 1}, PingPongSignal(p) PROVE Kernel'
  <2>1. CASE Deliver(p, "sig", pc[p], FALSE)
    BY <1>1, <2>1, DeliverKeeps
  <2>2. CASE handler(p) /\ p \notin msg
    <3>1. Go(p, "handler", "crashed")
      BY <2>2 DEF handler, Go, kernelVars
    <3>2. QED  BY <1>1, <3>1, GoKeeps
  <2>3. CASE handler(p) /\ p \in msg
    <3>1. Plain(resume[p]) /\ 1 - p \in Actors /\ Sends(1 - p, "sig")
      BY <2>3 DEF handler, Playing, At, Actors
    <3>2. /\ pc' = [b \in Actors |-> pc'[b]] /\ sent' \in 0 .. MaxSignals
          /\ \A b \in Actors : pc'[b] = pc[b] \/ (pc[b] \notin Gone /\ Plain(pc'[b]))
      BY <1>1, <2>3, <3>1 DEF handler, Kernel, KernelTypes, At
    <3>3. QED  BY <1>1, <2>3, <3>1, <3>2, SendsKeeps DEF handler
  <2>4. QED  BY <1>3, <2>1, <2>2, <2>3 DEF PingPongSignal
<1>4. QED  BY <1>2, <1>3

\* sigqueue.c.
LEMMA SigQueueKernel ==
    ASSUME Kernel, UNCHANGED commandLine, SigQueueParent \/ SigQueueChild \/ SigQueueSignal
    PROVE  Kernel'
<1> USE DEF Plain, Gone
<1>1. 0 \in Actors /\ 1 \in Actors /\ "sig" \in Kinds
  BY DEF Actors, Kinds
<1>2. ASSUME NEW p \in {0, 1}, NEW l \in {"waitpid", "ready", "exit"},
             NEW m \in {"pause", "ended"}, Go(p, l, m)
      PROVE  Kernel'
  BY <1>1, <1>2, GoKeeps
<1>3. ASSUME NEW l, NEW lost, l \in {"exit", pc[1]}, ToChild(l, lost) PROVE Kernel'
  BY <1>1, <1>3, DeliverKeeps DEF ToChild
<1>4. QED
  BY <1>1, <1>2, <1>3, SigActionKeeps, KillKeeps, ReturnsKeeps
  DEF SigQueueParent, SigQueueChild, SigQueueSignal

\* signals/sigwait.c.
LEMMA SigWaitKernel ==
    ASSUME Kernel, Storing, Is("sigwait"), UNCHANGED commandLine,
           SigWaitTyped \/ SigWaitParent \/ SigWaitChild \/ ToChild(pc[1], FALSE)
    PROVE  Kernel'
<1> USE DEF Plain, Gone
<1>1. 0 \in Actors /\ 1 \in Actors /\ "sig" \in Kinds /\ {"sig"} \in SUBSET Kinds
  BY DEF Actors, Kinds
<1>2. ASSUME NEW p \in {0, 1}, NEW l \in {"start", "store", "wait", "print"},
             NEW m \in {"store", "kill", "failed", "ended"}, Go(p, l, m)
      PROVE  Kernel'
  BY <1>1, <1>2, GoKeeps
<1>3. ASSUME ToChild(pc[1], FALSE) PROVE Kernel'
  BY <1>1, <1>3, DeliverKeeps DEF ToChild
<1>4. ASSUME SigMask(1, "start", "sigwait", {"sig"}) PROVE Kernel'
  <2>1. masked[1] \subseteq {"sig"}
    BY <1>4 DEF Storing, SigMask
  <2>2. QED  BY <1>1, <1>4, <2>1, SigMaskKeeps
<1>5. CASE SigWaitTyped \/ SigWaitParent
  BY <1>1, <1>2, <1>5, KillKeeps DEF SigWaitTyped, SigWaitParent
<1>6. CASE SigWaitChild
  <2>1. ASSUME SigWait(1, "sigwait", "print", {"sig"}) PROVE Kernel'
    BY <1>1, <2>1, SigWaitKeeps
  <2>2. QED  BY <1>2, <1>4, <1>6, <2>1 DEF SigWaitChild
<1>7. QED  BY <1>3, <1>5, <1>6

\* sigchld.c and wait.c.
LEMMA ChildKernel ==
    ASSUME Kernel, UNCHANGED commandLine,
           \/ SigChldTyped \/ SigChldParent \/ SigChldDies
           \/ WaitMain \/ WaitChild
           \/ Is("wait") /\ PairOutside
    PROVE  Kernel'
<1> USE DEF Plain, Gone
<1>1. 0 \in Actors /\ 1 \in Actors /\ "sig" \in Kinds /\ "other" \in Kinds
  BY DEF Actors, Kinds
<1>2. ASSUME NEW p \in {0, 1}, NEW l \in {"start", "ignore"},
             NEW m \in {"start", "failed", "ignore", "kill", "ended"}, Go(p, l, m)
      PROVE  Kernel'
  BY <1>1, <1>2, GoKeeps
<1>3. ASSUME NEW s \in Kinds, Deliver(1, s, pc[1], FALSE) PROVE Kernel'
  BY <1>1, <1>3, DeliverKeeps
<1>4. CASE SigChldTyped \/ SigChldParent
  BY <1>1, <1>2, <1>4, KillKeeps DEF SigChldTyped, SigChldParent
<1>5. CASE SigChldDies
  BY <1>1, <1>3, <1>5 DEF SigChldDies, ToChild
<1>6. CASE WaitMain
  <2>1. \E m \in {"start", "ended"} : Go(0, "start", m)
    BY <1>6 DEF WaitMain, Go
  <2>2. QED  BY <1>2, <2>1
<1>7. CASE WaitChild
  BY <1>1, <1>2, <1>3, <1>7 DEF WaitChild, ToChild
<1>8. CASE Is("wait") /\ PairOutside
  <2>1. CASE StopAndContinue
    <3>1. sent' \in 0 .. MaxSignals
      BY <2>1, SignalsAssumption DEF StopAndContinue, Kernel, KernelTypes
    <3>2. QED
      BY <2>1, <3>1 DEF StopAndContinue, Kernel, KernelTypes, Prepared, Handling, KilledWhy,
         commandLine, Excused, Is, At, Alive
  <2>2. QED  BY <1>1, <1>8, <2>1, OutsideKeeps DEF PairOutside, Is
<1>9. QED  BY <1>4, <1>5, <1>6, <1>7, <1>8

LEMMA PairKernel ==
    ASSUME Kernel, Playing, Storing, UNCHANGED commandLine,
           \/ \E a \in Actors : PairMain(a) \/ PairSignal(a)
           \/ PairOutside
    PROVE  Kernel'
<1>1. ASSUME NEW a \in Actors, PairMain(a) PROVE Kernel'
  BY <1>1, PingPongKernel, SigQueueKernel, SigWaitKernel, ChildKernel DEF PairMain
<1>2. ASSUME NEW a \in Actors, PairSignal(a) PROVE Kernel'
  <2>1. CASE Is("pingpong") /\ PingPongSignal(a)
    <3>1. a # 2
      BY <2>1 DEF PingPongSignal, Deliver, handler, Alive, At, Playing
    <3>2. a \in {0, 1}
      BY <3>1 DEF Actors
    <3>3. QED  BY <2>1, <3>2, PingPongKernel
  <2>2. QED  BY <1>2, <2>1, SigQueueKernel, SigWaitKernel, ChildKernel DEF PairSignal
<1>3. CASE PairOutside
  BY <1>3, SigWaitKernel, ChildKernel DEF PairOutside
<1>4. QED  BY <1>1, <1>2, <1>3
-----------------------------------------------------------------------------
(* What is true of a parent and its child stays true.                      *)

\* What a delivery changes, and for whom.
LEMMA DeliverValues ==
    ASSUME Kernel, NEW a \in Actors, NEW l, NEW lost, Deliver(a, "sig", l, lost)
    PROVE  /\ pc[a] \notin Gone \cup {"handler"} /\ "sig" \in pending[a] \ masked[a]
           /\ pc'[a] = IF "sig" \in handled[a] THEN "handler" ELSE "killed"
           /\ resume'[a] = l /\ pending'[a] = pending[a] \ {"sig"}
           /\ \A b \in Actors \ {a} : /\ pc'[b] = pc[b] /\ resume'[b] = resume[b]
                                      /\ pending'[b] = pending[b]
           /\ UNCHANGED <<handled, masked, sent, unprepared>>
BY DEF Kernel, KernelTypes, Deliver, Alive, At, Gone

\* ping-pong.c: everybody's place, and the parent is ready whenever it is hit.
LEMMA PlayingKeeps ==
    ASSUME Kernel, PairInv, Is("pingpong"), UNCHANGED commandLine,
           \/ PingPongParent \/ PingPongChild
           \/ \E p \in {0, 1} : PingPongSignal(p)
    PROVE  PairTypes' /\ Playing'
<1>0. ASSUME NEW p \in {0, 1}, Deliver(p, "sig", pc[p], FALSE)
      PROVE  /\ pc[p] \notin Gone \cup {"handler"} /\ "sig" \in pending[p]
             /\ pc'[p] = IF "sig" \in handled[p] THEN "handler" ELSE "killed"
             /\ resume'[p] = pc[p] /\ pending'[p] = pending[p] \ {"sig"}
             /\ \A b \in Actors \ {p} : /\ pc'[b] = pc[b] /\ resume'[b] = resume[b]
                                        /\ pending'[b] = pending[b]
             /\ UNCHANGED handled
  <2>1. p \in Actors
    BY DEF Actors
  <2>2. QED  BY <1>0, <2>1, DeliverValues
<1> USE DEF Kernel, KernelTypes, PairInv, Playing, At, Is, commandLine, Actors, Same, pairVars
<1>1. CASE PingPongParent
  <2>1. CASE SigAction(0, "start", "setmsg") /\ Same
    BY <2>1 DEF SigAction, PairTypes
  <2>2. CASE SetsMsg(0, "serve")
    BY <2>2 DEF SetsMsg, Go, kernelVars, PairTypes
  <2>3. CASE Kill(0, "serve", "pause", 1) /\ Same
    BY <2>3 DEF Kill, Sends, PairTypes
  <2>4. QED  BY <1>1, <2>1, <2>2, <2>3 DEF PingPongParent
<1>2. CASE PingPongChild
  <2>1. CASE SigAction(1, "start", "setpid") /\ Same
    BY <2>1 DEF SigAction, PairTypes
  <2>2. CASE Go(1, "setpid", "setmsg") /\ Same
    BY <2>2 DEF Go, kernelVars, PairTypes
  <2>3. CASE SetsMsg(1, "pause")
    BY <2>3 DEF SetsMsg, Go, kernelVars, PairTypes
  <2>4. QED  BY <1>2, <2>1, <2>2, <2>3 DEF PingPongChild
<1>3. ASSUME NEW p \in {0, 1}, Deliver(p, "sig", pc[p], FALSE), Same
      PROVE  PairTypes' /\ Playing'
  <2>1. PairTypes'
    <3>1. pc'[0] # "crashed"
      <4>1. p = 0 => pc'[0] \in {"handler", "killed"}
        BY <1>0, <1>3
      <4>2. p = 1 => pc'[0] = pc[0]
        BY <1>0, <1>3
      <4>3. QED  BY <4>1, <4>2
    <3>2. QED  BY <1>3, <3>1 DEF Deliver, PairTypes
  <2>2. /\ pc[p] \notin Gone \cup {"handler"} /\ "sig" \in pending[p]
        /\ pc'[p] = IF "sig" \in handled[p] THEN "handler" ELSE "killed"
        /\ resume'[p] = pc[p] /\ pending'[p] = pending[p] \ {"sig"}
        /\ \A b \in Actors \ {p} : /\ pc'[b] = pc[b] /\ resume'[b] = resume[b]
                                   /\ pending'[b] = pending[b]
        /\ UNCHANGED <<handled, msg>>
    BY <1>0, <1>3
  <2>3. CASE p = 0
    <3>1. pc[0] = "pause"
      BY <2>2, <2>3 DEF Ball, Serving
    <3>2. QED  BY <2>1, <2>2, <2>3, <3>1
  <2>4. CASE p = 1
    <3>1. pc[1] \in {"start", "setpid", "setmsg", "pause"}
      BY <2>2, <2>4 DEF Gone
    <3>2. QED  BY <2>1, <2>2, <2>4, <3>1
  <2>5. QED  BY <2>3, <2>4
<1>4. CASE handler(0)
  <2>1. 0 \in msg /\ resume[0] = "pause"
    BY <1>4 DEF handler
  <2>2. PairTypes'
    BY <1>4, <2>1 DEF handler, Sends, PairTypes
  <2>3. Playing'
    BY <1>4, <2>1 DEF handler, Sends
  <2>4. QED  BY <2>2, <2>3
<1>5. CASE handler(1)
  <2>1. handled[0] = {"sig"}
    BY <1>5 DEF handler, Ball, Serving
  <2>2. PairTypes'
    BY <1>5, <2>1 DEF handler, Sends, PairTypes
  <2>3. Playing'
    BY <1>5, <2>1 DEF handler, Sends
  <2>4. QED  BY <2>2, <2>3
<1>6. QED  BY <1>1, <1>2, <1>3, <1>4, <1>5 DEF PingPongSignal

\* ping-pong.c: the ball moves from place to place.
LEMMA BallKeeps ==
    ASSUME Kernel, PairInv, Is("pingpong"), UNCHANGED commandLine,
           \/ PingPongParent \/ PingPongChild
           \/ \E p \in {0, 1} : PingPongSignal(p)
    PROVE  Ball'
<1>0. ASSUME Deliver(1, "sig", pc[1], FALSE)
      PROVE  /\ pc'[1] \in {"handler", "killed"} /\ pc'[0] = pc[0]
             /\ pending'[1] = pending[1] \ {"sig"} /\ pending'[0] = pending[0]
  <2>1. 1 \in Actors /\ 0 \in Actors \ {1}
    BY DEF Actors
  <2>2. QED  BY <1>0, <2>1, DeliverValues
<1> USE DEF Kernel, KernelTypes, PairInv, Playing, Ball, Serving, At, Alive, Actors
<1>1. CASE PingPongParent
  <2>1. CASE SigAction(0, "start", "setmsg") \/ SetsMsg(0, "serve")
    BY <2>1 DEF SigAction, SetsMsg, Go, kernelVars
  <2>2. CASE Kill(0, "serve", "pause", 1)
    BY <2>2 DEF Kill, Sends
  <2>3. QED  BY <1>1, <2>1, <2>2 DEF PingPongParent
<1>2. CASE PingPongChild
  <2>1. \E l, m \in {"start", "setpid", "setmsg", "pause"} :
           pc[1] = l /\ pc' = [pc EXCEPT ![1] = m] /\ UNCHANGED pending
    BY <1>2 DEF PingPongChild, SigAction, SetsMsg, Go, kernelVars
  <2>2. /\ pc'[0] = pc[0] /\ pc[1] \notin Gone \cup {"handler"}
        /\ pc'[1] \notin Gone \cup {"handler"} /\ UNCHANGED pending
    BY <2>1 DEF Gone
  <2>3. QED  BY <2>2 DEF Is, commandLine, Gone
<1>3. CASE Deliver(0, "sig", pc[0], FALSE)
  <2>1. "sig" \in pending[0] /\ pending[0] \subseteq {"sig"} /\ pc[0] # "handler"
    BY <1>3 DEF Deliver, Is
  <2>2. pending[0] # {} /\ pc[0] = "pause" /\ handled[0] = {"sig"}
    BY <2>1 DEF Is
  <2>3. pc' = [pc EXCEPT ![0] = "handler"] /\ pending' = [pending EXCEPT ![0] = @ \ {"sig"}]
    BY <1>3, <2>2 DEF Deliver
  <2>4. pending'[0] = {} /\ pending'[1] = {} /\ pc'[0] = "handler" /\ pc'[1] # "handler"
    BY <2>1, <2>2, <2>3 DEF Is
  <2>5. QED  BY <2>4
<1>4. CASE Deliver(1, "sig", pc[1], FALSE)
  <2>1. "sig" \in pending[1] /\ pending[1] \subseteq {"sig"} /\ pc[1] # "handler"
    BY <1>4 DEF Deliver, Is
  <2>2. pending[1] # {} /\ pending[0] = {} /\ ~Serving /\ pc[0] # "handler"
    BY <2>1 DEF Is
  <2>3. /\ pc'[1] \in {"handler", "killed"} /\ pc'[0] = pc[0]
        /\ pending'[1] = pending[1] \ {"sig"} /\ pending'[0] = pending[0]
    BY <1>0, <1>4
  <2>4. pending'[1] = {} /\ pending'[0] = {}
    BY <2>1, <2>2, <2>3
  <2>5. QED  BY <2>2, <2>3, <2>4
<1>5. CASE handler(0)
  BY <1>5 DEF handler, Sends
<1>6. CASE handler(1)
  BY <1>6 DEF handler, Sends
<1>7. QED  BY <1>1, <1>2, <1>3, <1>4, <1>5, <1>6 DEF PingPongSignal

\* sigqueue.c: the value is stored when the child exits, and reported then.
LEMMA QueueingKeeps ==
    ASSUME Kernel, PairInv, Is("sigqueue"), UNCHANGED commandLine,
           SigQueueParent \/ SigQueueChild \/ SigQueueSignal
    PROVE  PairTypes' /\ Queueing'
<1>0. ASSUME NEW l, NEW lost, Deliver(1, "sig", l, lost)
      PROVE  /\ pc[1] \notin Gone \cup {"handler"} /\ pc'[1] \in {"handler", "killed"}
             /\ resume'[1] = l /\ pc'[0] = pc[0] /\ UNCHANGED unprepared
  <2>1. 1 \in Actors /\ 0 \in Actors \ {1}
    BY DEF Actors
  <2>2. QED  BY <1>0, <2>1, DeliverValues
<1> USE DEF Kernel, KernelTypes, PairInv, Queueing, At, Is, commandLine, Actors, Same, pairVars
<1>1. CASE SigQueueParent
  <2>1. CASE Kill(0, "start", "waitpid", 1) /\ Same
    BY <2>1 DEF Kill, Sends, PairTypes
  <2>2. CASE ~Alive(1) /\ Go(0, "waitpid", "ended") /\ UNCHANGED <<msg, value, num, shared, state, change, zombie>>
             /\ shown' = IF At(1, "killed") THEN 0 ELSE (num + 1) % StatusMod
    <3>1. PairTypes'
      BY <2>2 DEF Go, kernelVars, PairTypes
    <3>2. pc[1] \in {"ended", "killed"} /\ pc'[1] = pc[1] /\ pc'[0] = "ended"
      BY <2>2 DEF Alive, Go
    <3>3. pc[1] = "ended" => num = value
      BY <3>2
    <3>4. shown' = IF pc'[1] = "killed" THEN 0 ELSE (value' + 1) % StatusMod
      BY <2>2, <3>2, <3>3
    <3>5. QED  BY <2>2, <3>1, <3>2, <3>3, <3>4
  <2>3. QED  BY <1>1, <2>1, <2>2 DEF SigQueueParent
<1>2. CASE SigQueueChild
  <2>1. CASE SigAction(1, "start", "ready") /\ Same
    BY <2>1 DEF SigAction, PairTypes
  <2>2. CASE Go(1, "ready", "pause") /\ Same
    BY <2>2 DEF Go, kernelVars, PairTypes
  <2>3. CASE Go(1, "exit", "ended") /\ Same
    BY <2>3 DEF Go, kernelVars, PairTypes
  <2>4. QED  BY <1>2, <2>1, <2>2, <2>3 DEF SigQueueChild
<1>3. CASE SigQueueSignal
  <2>1. ASSUME NEW l, NEW lost, l = (IF At(1, "pause") THEN "exit" ELSE pc[1]),
               Deliver(1, "sig", l, lost), Same
        PROVE  PairTypes' /\ Queueing'
    <3>1. /\ pc[1] \notin Gone \cup {"handler"} /\ pc'[1] \in {"handler", "killed"}
          /\ resume'[1] = l /\ pc'[0] = pc[0] /\ UNCHANGED unprepared
      BY <1>0, <2>1
    <3>2. l \in {"start", "ready", "exit"} /\ pc[0] # "ended"
      BY <2>1, <3>1 DEF Gone
    <3>3. PairTypes'
      BY <2>1, <3>1 DEF PairTypes
    <3>4. QED  BY <2>1, <3>1, <3>2, <3>3
  <2>2. ASSUME HandlerReturns(1), num' = value,
               UNCHANGED <<msg, value, shared, shown, state, change, zombie>>
        PROVE  PairTypes' /\ Queueing'
    BY <2>2 DEF HandlerReturns, kernelVars, PairTypes
  <2>3. QED  BY <1>3, <2>1, <2>2 DEF SigQueueSignal, ToChild
<1>4. QED  BY <1>1, <1>2, <1>3

\* signals/sigwait.c: the signal says that the character is there.
LEMMA StoringKeeps ==
    ASSUME Kernel, PairInv, Is("sigwait"), UNCHANGED commandLine,
           SigWaitTyped \/ SigWaitParent \/ SigWaitChild \/ (ToChild(pc[1], FALSE) /\ Same)
    PROVE  PairTypes' /\ Storing'
<1>0. ASSUME ToChild(pc[1], FALSE)
      PROVE  /\ pc'[1] = (IF "sig" \in handled[1] THEN "handler" ELSE "killed")
             /\ "sig" \in pending[1] /\ pc'[0] = pc[0] /\ UNCHANGED <<handled, unprepared>>
  <2>1. 1 \in Actors /\ 0 \in Actors \ {1}
    BY DEF Actors
  <2>2. QED  BY <1>0, <2>1, DeliverValues DEF ToChild
<1> USE DEF Kernel, KernelTypes, PairInv, Storing, At, Is, commandLine, Actors, Same, pairVars
<1>1. CASE SigWaitTyped \/ SigWaitParent
  <2>1. ASSUME NEW m \in {"failed", "store"}, Go(0, "start", m), Same
        PROVE  PairTypes' /\ Storing'
    BY <2>1 DEF Go, kernelVars, PairTypes
  <2>2. CASE Go(0, "store", "kill") /\ shared' = "typed"
             /\ UNCHANGED <<msg, value, num, shown, state, change, zombie>>
    BY <2>2 DEF Go, kernelVars, PairTypes
  <2>3. CASE Kill(0, "kill", "wait", 1) /\ Same
    BY <2>3 DEF Kill, Sends, PairTypes
  <2>4. CASE Go(0, "wait", "ended") /\ Same
    BY <2>4 DEF Go, kernelVars, PairTypes
  <2>5. QED  BY <1>1, <2>1, <2>2, <2>3, <2>4 DEF SigWaitTyped, SigWaitParent
<1>2. CASE SigWaitChild
  <2>1. CASE SigMask(1, "start", "sigwait", {"sig"}) /\ Same
    BY <2>1 DEF SigMask, PairTypes
  <2>2. CASE SigWait(1, "sigwait", "print", {"sig"}) /\ Same
    <3>1. pending[1] # {} /\ pc' = [pc EXCEPT ![1] = "print"] /\ UNCHANGED <<handled, unprepared>>
      BY <2>2 DEF SigWait
    <3>2. QED  BY <2>2, <3>1 DEF PairTypes
  <2>3. CASE Go(1, "print", "ended") /\ shown' = shared
             /\ UNCHANGED <<msg, value, num, shared, state, change, zombie>>
    BY <2>3 DEF Go, kernelVars, PairTypes
  <2>4. QED  BY <1>2, <2>1, <2>2, <2>3 DEF SigWaitChild
<1>3. CASE ToChild(pc[1], FALSE) /\ Same
  <2>1. pc'[1] = "killed" /\ pending[1] # {} /\ pc'[0] = pc[0] /\ UNCHANGED <<handled, unprepared>>
    BY <1>0, <1>3
  <2>2. QED  BY <1>3, <2>1 DEF PairTypes
<1>4. QED  BY <1>1, <1>2, <1>3

\* sigchld.c: the child is killed by its parent, who has made up his mind by then.
LEMMA IgnoringKeeps ==
    ASSUME Kernel, PairInv, Is("sigchld"), UNCHANGED commandLine,
           SigChldTyped \/ SigChldParent \/ SigChldDies
    PROVE  PairTypes' /\ Ignoring'
<1>0. ASSUME ToChild(pc[1], FALSE)
      PROVE  /\ pc'[1] = (IF "sig" \in handled[1] THEN "handler" ELSE "killed")
             /\ "sig" \in pending[1] /\ pc'[0] = pc[0] /\ UNCHANGED <<handled, unprepared>>
  <2>1. 1 \in Actors /\ 0 \in Actors \ {1}
    BY DEF Actors
  <2>2. QED  BY <1>0, <2>1, DeliverValues DEF ToChild
<1> USE DEF Kernel, KernelTypes, PairInv, Ignoring, At, Is, commandLine, Actors, Same, pairVars
<1>1. CASE SigChldTyped \/ SigChldParent
  <2>1. ASSUME NEW l \in {"start", "ignore"}, NEW m \in {"failed", "ignore", "kill"}, Go(0, l, m), Same
        PROVE  PairTypes' /\ Ignoring'
    BY <2>1 DEF Go, kernelVars, PairTypes
  <2>2. CASE Kill(0, "kill", "pause", 1) /\ Same
    BY <2>2 DEF Kill, Sends, PairTypes
  <2>3. QED  BY <1>1, <2>1, <2>2 DEF SigChldTyped, SigChldParent
<1>2. CASE SigChldDies
  <2>1. pc'[1] = "killed" /\ pc'[0] = "pause" /\ UNCHANGED <<handled, unprepared>>
    BY <1>0, <1>2 DEF SigChldDies
  <2>2. zombie' = ~(opt = "-i") /\ UNCHANGED <<msg, value, num, shared, shown, state, change>>
    BY <1>0, <1>2, <2>1 DEF SigChldDies
  <2>3. zombie' \in BOOLEAN /\ zombie' = (opt' # "-i")
    BY <2>2
  <2>4. PairTypes'
    BY <2>1, <2>2, <2>3 DEF PairTypes
  <2>5. pending'[1] # {} => pc'[0] = "pause"
    BY <2>1
  <2>6. QED  BY <2>1, <2>3, <2>4, <2>5
<1>3. QED  BY <1>1, <1>2

\* wait.c: waitpid() gets the changes in order, the last one at the end.
LEMMA WaitingKeeps ==
    ASSUME Kernel, PairInv, Is("wait"), UNCHANGED commandLine, WaitMain \/ WaitChild \/ PairOutside
    PROVE  PairTypes' /\ Waiting'
<1> USE DEF Kernel, KernelTypes, PairInv, Waiting, At, Is, commandLine, Actors, Same, pairVars, Known
<1>0. pc[0] # "crashed"
  BY DEF PairTypes, PairPrograms
<1>1. ASSUME NEW s, NEW c, ChildChanges(s, c), s = (IF c = "continued" THEN "running" ELSE c),
             c \in {"stopped", "continued", "exited", "killed"}, UNCHANGED <<handled, unprepared>>,
             pc'[0] # "crashed"
      PROVE  PairTypes' /\ Waiting'
  BY <1>1 DEF ChildChanges, PairTypes, None
<1>2. CASE WaitMain
  <2>1. /\ change \in {"stopped", "continued", "exited", "killed"}
        /\ state = (IF change = "continued" THEN "running" ELSE change)
        /\ shown' = change /\ change' = None /\ pc'[0] # "crashed"
        /\ UNCHANGED <<handled, unprepared, msg, value, num, shared, state, zombie>>
    BY <1>2 DEF WaitMain, PairTypes, kernelVars, None
  <2>2. PairTypes' /\ handled'[1] = {}
    BY <2>1 DEF PairTypes
  <2>3. Known'
    BY <2>1
  <2>4. QED  BY <2>1, <2>2, <2>3
<1>3. CASE WaitChild
  <2>1. CASE Go(1, "start", "ended") /\ ChildChanges("exited", "exited")
    BY <1>0, <1>1, <2>1 DEF Go, kernelVars
  <2>2. ASSUME NEW s, NEW l, NEW lost, Deliver(1, s, l, lost), ChildChanges("killed", "killed")
        PROVE  PairTypes' /\ Waiting'
    BY <1>0, <1>1, <2>2 DEF Deliver
  <2>3. QED  BY <1>3, <2>1, <2>2 DEF WaitChild, ToChild
<1>4. CASE PairOutside
  <2>1. ASSUME NEW s \in Kinds, FromOutside(1, s), Same PROVE PairTypes' /\ Waiting'
    BY <2>1 DEF FromOutside, Sends, PairTypes
  <2>2. CASE StopAndContinue
    BY <1>0, <1>1, <2>2 DEF StopAndContinue
  <2>3. QED  BY <1>4, <2>1, <2>2 DEF PairOutside
<1>5. QED  BY <1>2, <1>3, <1>4

LEMMA PairInvKeeps ==
    ASSUME Kernel, PairInv, UNCHANGED commandLine,
           \/ \E a \in Actors : PairMain(a) \/ PairSignal(a)
           \/ PairOutside
    PROVE  PairInv'
<1> USE DEF PairInv
<1>1. CASE Is("pingpong")
  <2>1. \/ PingPongParent \/ PingPongChild
        \/ \E p \in {0, 1} : PingPongSignal(p)
    <3>1. \A a \in Actors : PingPongSignal(a) => a \in {0, 1}
      <4>1. \A a \in Actors : PingPongSignal(a) => a # 2
        BY <1>1 DEF PingPongSignal, Deliver, handler, Alive, At, Playing
      <4>2. QED  BY <4>1 DEF Actors
    <3>2. QED  BY <1>1, <3>1 DEF PairMain, PairSignal, PairOutside, Is
  <2>2. PairTypes' /\ Playing' /\ Ball'
    BY <1>1, <2>1, PlayingKeeps, BallKeeps
  <2>3. Queueing' /\ Storing' /\ Ignoring' /\ Waiting'
    BY <1>1 DEF Is, commandLine, Queueing, Storing, Ignoring, Waiting
  <2>4. QED  BY <2>2, <2>3
<1>2. CASE Is("sigqueue")
  <2>1. SigQueueParent \/ SigQueueChild \/ SigQueueSignal
    BY <1>2 DEF PairMain, PairSignal, PairOutside, Is
  <2>2. PairTypes' /\ Queueing'
    BY <1>2, <2>1, QueueingKeeps
  <2>3. Playing' /\ Ball' /\ Storing' /\ Ignoring' /\ Waiting'
    BY <1>2 DEF Is, commandLine, Playing, Ball, Storing, Ignoring, Waiting
  <2>4. QED  BY <2>2, <2>3
<1>3. CASE Is("sigwait")
  <2>1. SigWaitTyped \/ SigWaitParent \/ SigWaitChild \/ (ToChild(pc[1], FALSE) /\ Same)
    BY <1>3 DEF PairMain, PairSignal, PairOutside, Is
  <2>2. PairTypes' /\ Storing'
    BY <1>3, <2>1, StoringKeeps
  <2>3. Playing' /\ Ball' /\ Queueing' /\ Ignoring' /\ Waiting'
    BY <1>3 DEF Is, commandLine, Playing, Ball, Queueing, Ignoring, Waiting
  <2>4. QED  BY <2>2, <2>3
<1>4. CASE Is("sigchld")
  <2>1. SigChldTyped \/ SigChldParent \/ SigChldDies
    BY <1>4 DEF PairMain, PairSignal, PairOutside, Is
  <2>2. PairTypes' /\ Ignoring'
    BY <1>4, <2>1, IgnoringKeeps
  <2>3. Playing' /\ Ball' /\ Queueing' /\ Storing' /\ Waiting'
    BY <1>4 DEF Is, commandLine, Playing, Ball, Queueing, Storing, Waiting
  <2>4. QED  BY <2>2, <2>3
<1>5. CASE Is("wait")
  <2>1. WaitMain \/ WaitChild \/ PairOutside
    BY <1>5 DEF PairMain, PairSignal, Is
  <2>2. PairTypes' /\ Waiting'
    BY <1>5, <2>1, WaitingKeeps
  <2>3. Playing' /\ Ball' /\ Queueing' /\ Storing' /\ Ignoring'
    BY <1>5 DEF Is, commandLine, Playing, Ball, Queueing, Storing, Ignoring
  <2>4. QED  BY <2>2, <2>3
<1>6. QED  BY <1>1, <1>2, <1>3, <1>4, <1>5 DEF PairMain, PairSignal, PairOutside
-----------------------------------------------------------------------------
(* A process with threads: a signal to the process is not delivered to any *)
(* thread, because all of them mask it, unless it came before the mask.    *)

LEMMA CreateThreadKeeps ==
    ASSUME Kernel, OneMask, program \in WaiterPrograms, UNCHANGED commandLine,
           NEW t \in {1, 2}, NEW l, NEW m, l \notin Gone, Plain(m), At(t, "unborn"),
           CreateThread(t, l, m)
    PROVE  Kernel'
<1>1. pending[t] = {} /\ t \in Actors /\ 0 \in Actors
  BY DEF OneMask, At, Actors
<1>2. /\ KernelTypes'
      /\ \A b \in Actors : pc'[b] = IF b = t THEN "run" ELSE IF b = 0 THEN m ELSE pc[b]
      /\ \A b \in Actors : masked'[b] = IF b = t THEN masked[0] ELSE masked[b]
      /\ pc[0] = l /\ UNCHANGED <<resume, handled, pending, unprepared>>
  BY <1>1 DEF CreateThread, Kernel, KernelTypes, At
<1>3. Prepared'
  BY <1>1, <1>2 DEF Kernel, KernelTypes, Prepared, Alive, Gone
<1>4. Handling'
  BY <1>1, <1>2 DEF Kernel, Handling, At, Plain
<1>5. KilledWhy'
  BY <1>1, <1>2 DEF Kernel, KilledWhy, commandLine, Excused, Is, At, Plain
<1>6. QED  BY <1>2, <1>3, <1>4, <1>5 DEF Kernel

\* The whole process goes at once, and there is a reason.
LEMMA EndsProcessKeeps ==
    ASSUME Kernel, UNCHANGED commandLine, EndsProcess, Excused, UNCHANGED kernelVars
    PROVE  Kernel'
<1>1. KernelTypes' /\ \A b \in Actors : pc'[b] = IF Alive(b) THEN "killed" ELSE pc[b]
  BY DEF EndsProcess, Kernel, KernelTypes, kernelVars
<1>2. Prepared' /\ Handling'
  BY <1>1 DEF Kernel, Prepared, Handling, kernelVars, Alive, At
<1>3. Excused'
  BY DEF Excused, commandLine, kernelVars, Is
<1>4. KilledWhy'
  BY <1>3 DEF KilledWhy
<1>5. QED  BY <1>1, <1>2, <1>4 DEF Kernel

\* A signal to the process finds a thread to kill only if it came before the mask.
LEMMA ProcessSignalExcused ==
    ASSUME Kernel, OneMask, program \in WaiterPrograms, NEW t \in Actors, ProcessSignal(t)
    PROVE  0 \in unprepared
<1>1. pc[t] \notin {"unborn", "ended", "killed"} /\ pending[0] \ masked[t] # {}
  BY DEF ProcessSignal, Alive
<1>2. Alive(0) /\ masked[t] = masked[0] /\ handled[0] = {}
  <2>1. CASE t = 0
    BY <1>1, <2>1 DEF ProcessSignal, OneMask, Actors
  <2>2. CASE t \in {1, 2}
    BY <1>1, <2>2 DEF OneMask, At, Alive, Actors
  <2>3. QED  BY <2>1, <2>2 DEF Actors
<1>3. 0 \in Actors
  BY DEF Actors
<1>4. QED  BY <1>1, <1>2, <1>3 DEF Kernel, Prepared

LEMMA WaitsKeeps ==
    ASSUME Kernel, UNCHANGED commandLine, NEW s, Waits(s)
    PROVE  Kernel'
<1>1. KernelTypes' /\ \A b \in Actors : pending'[b] \subseteq pending[b]
  BY DEF Waits, Kernel, KernelTypes
<1>2. UNCHANGED <<pc, resume, handled, masked, unprepared>>
  BY DEF Waits
<1>3. QED
  BY <1>1, <1>2 DEF Kernel, Prepared, Handling, KilledWhy, commandLine, Excused, Is, At, Alive

\* The programs whose main() waits for the signals.
LEMMA WaiterKernel ==
    ASSUME Kernel, OneMask, program \in WaiterPrograms, UNCHANGED commandLine,
           \/ WaiterMain
           \/ \E t \in Actors : WaiterThread(t) \/ WaiterSignal(t)
           \/ WaiterOutside
    PROVE  Kernel'
<1> USE DEF Plain, Gone
<1>1. 0 \in Actors /\ Kinds \in SUBSET Kinds /\ {"sig"} \in SUBSET Kinds /\ ~Is("sem")
  BY DEF Kinds, WaiterPrograms, Actors, Is
<1>2. CASE WaiterMain
  <2>1. ASSUME NEW m \in {"create1", "sigwait"}, NEW s \in SUBSET Kinds, SigMask(0, "start", m, s)
        PROVE  Kernel'
    <3>1. masked[0] \subseteq s
      BY <2>1 DEF SigMask, OneMask
    <3>2. QED  BY <1>1, <2>1, <3>1, SigMaskKeeps
  <2>2. ASSUME CreateThread(1, "create1", "create2") PROVE Kernel'
    <3>1. At(1, "unborn")
      BY <2>2 DEF CreateThread, OneMask, At
    <3>2. QED  BY <2>2, <3>1, CreateThreadKeeps
  <2>3. ASSUME CreateThread(2, "create2", "sigwait") PROVE Kernel'
    <3>1. At(2, "unborn")
      BY <2>3 DEF CreateThread, OneMask
    <3>2. QED  BY <2>3, <3>1, CreateThreadKeeps
  <2>4. QED
    BY <1>1, <1>2, <2>1, <2>2, <2>3, WaitsKeeps
    DEF WaiterMain, SigWaitMain, SyncSigWaitMain, CatchKillMain, CatchAll
<1>3. ASSUME NEW t \in Actors, WaiterThread(t) PROVE Kernel'
  <2>1. CASE LoopThread(t)
    BY <2>1, GoKeeps DEF LoopThread
  <2>2. CASE Is("syncsigwait") /\ SyncThread(t) /\ opt = "-k"
    <3>0. /\ pc' = [pc EXCEPT ![t] = "ended"] /\ pending' = [pending EXCEPT ![t] = {"other"}]
          /\ {"other"} \in SUBSET Kinds
          /\ UNCHANGED <<resume, handled, masked, sent, unprepared, window>>
      BY <2>2 DEF SyncThread, Kinds
    <3>1. /\ KernelTypes'
          /\ \A b \in Actors : pc'[b] = IF b = t THEN "ended" ELSE pc[b]
          /\ \A b \in Actors : b # t => pending'[b] = pending[b]
          /\ UNCHANGED <<resume, handled, masked, unprepared>>
      BY <3>0 DEF Kernel, KernelTypes
    <3>2. Prepared' /\ Handling'
      BY <3>1 DEF Kernel, Prepared, Handling, Alive, At
    <3>3. KilledWhy'
      BY <3>1 DEF Kernel, KilledWhy, commandLine, Excused, Is, At
    <3>4. QED  BY <3>1, <3>2, <3>3 DEF Kernel
  <2>3. CASE Is("syncsigwait") /\ SyncThread(t) /\ opt # "-k"
    <3>1. EndsProcess /\ Excused /\ UNCHANGED kernelVars
      BY <2>3 DEF SyncThread, Excused, kernelVars
    <3>2. QED  BY <3>1, EndsProcessKeeps
  <2>4. QED  BY <1>1, <1>3, <2>1, <2>2, <2>3 DEF WaiterThread
<1>4. ASSUME NEW t \in Actors, WaiterSignal(t) PROVE Kernel'
  <2>1. ProcessSignal(t)
    BY <1>1, <1>4 DEF WaiterSignal
  <2>2. Excused
    BY <2>1, ProcessSignalExcused DEF Excused
  <2>3. QED  BY <2>1, <2>2, EndsProcessKeeps DEF ProcessSignal
<1>5. CASE WaiterOutside
  BY <1>1, <1>5, OutsideKeeps DEF WaiterOutside
<1>6. QED  BY <1>2, <1>3, <1>4, <1>5

\* No thread loses the mask, and none is born without it.
LEMMA OneMaskKeeps ==
    ASSUME Kernel, OneMask, program \in WaiterPrograms, UNCHANGED commandLine,
           \/ WaiterMain
           \/ \E t \in Actors : WaiterThread(t) \/ WaiterSignal(t)
           \/ WaiterOutside
    PROVE  OneMask'
<1> USE DEF Kernel, KernelTypes, OneMask, At, Is, commandLine, Actors
<1>0. ~Is("sem") /\ program' \in WaiterPrograms
  BY DEF WaiterPrograms
<1>1. ASSUME NEW m \in {"create1", "sigwait"}, NEW s \in SUBSET Kinds, SigMask(0, "start", m, s)
      PROVE  OneMask'
  BY <1>1 DEF SigMask
<1>2. CASE CreateThread(1, "create1", "create2")
  BY <1>2 DEF CreateThread
<1>3. CASE CreateThread(2, "create2", "sigwait")
  BY <1>3 DEF CreateThread
<1>4. ASSUME NEW s, Waits(s) PROVE OneMask'
  <2>1. UNCHANGED <<pc, handled, masked>> /\ pending'[1] = pending[1] /\ pending'[2] = pending[2]
    BY <1>4 DEF Waits
  <2>2. QED  BY <2>1
<1>5. ASSUME NEW t \in Actors, Go(t, "run", "ended"), ~Is("syncsigwait") PROVE OneMask'
  BY <1>5 DEF Go, kernelVars
<1>6. ASSUME NEW t \in Actors, SyncThread(t), opt = "-k" PROVE OneMask'
  <2>1. /\ pc' = [pc EXCEPT ![t] = "ended"] /\ pending' = [pending EXCEPT ![t] = {"other"}]
        /\ pc[t] = "run" /\ UNCHANGED <<handled, masked>>
    BY <1>6 DEF SyncThread
  <2>2. t # 0 /\ pc'[t] = "ended" /\ pending'[t] = {"other"}
    BY <2>1
  <2>3. \A b \in Actors \ {t} : pc'[b] = pc[b] /\ pending'[b] = pending[b]
    BY <2>1
  <2>4. QED  BY <2>1, <2>2, <2>3
<1>7. ASSUME EndsProcess, UNCHANGED <<handled, masked, pending>> PROVE OneMask'
  <2>1. \A a \in Actors : pc'[a] = IF Alive(a) THEN "killed" ELSE pc[a]
    BY <1>7 DEF EndsProcess
  <2>2. pc'[0] = "killed"
    BY <2>1 DEF Alive
  <2>3. \A t \in {1, 2} : pc'[t] = IF pc[t] = "run" THEN "killed" ELSE pc[t]
    BY <2>1 DEF Alive
  <2>4. QED  BY <1>7, <2>2, <2>3
<1>8. ASSUME NEW s \in Kinds, FromOutside(0, s) PROVE OneMask'
  <2>1. UNCHANGED <<pc, handled, masked>> /\ pending'[1] = pending[1] /\ pending'[2] = pending[2]
    BY <1>8 DEF FromOutside, Sends
  <2>2. QED  BY <2>1
<1>9. CASE WaiterMain
  BY <1>0, <1>1, <1>2, <1>3, <1>4, <1>9
  DEF WaiterMain, SigWaitMain, SyncSigWaitMain, CatchKillMain, CatchAll, Kinds
<1>10. ASSUME NEW t \in Actors, WaiterThread(t) PROVE OneMask'
  BY <1>0, <1>5, <1>6, <1>7, <1>10 DEF WaiterThread, LoopThread, SyncThread
<1>11. ASSUME NEW t \in Actors, WaiterSignal(t) PROVE OneMask'
  BY <1>0, <1>7, <1>11 DEF WaiterSignal, ProcessSignal, kernelVars
<1>12. CASE WaiterOutside
  BY <1>0, <1>8, <1>12 DEF WaiterOutside
<1>13. QED  BY <1>9, <1>10, <1>11, <1>12

\* posix-unnamed-sem.c: the alarm is not set before the handler is.
LEMMA SemKeeps ==
    ASSUME Kernel, ThreadTypes, Is("sem"), UNCHANGED commandLine,
           SemMain \/ SemSignal \/ usher \/ alarm_handler
    PROVE  Kernel' /\ ThreadTypes'
<1>1. 0 \in Actors /\ "sig" \in Kinds
  BY DEF Actors, Kinds
<1>2. Kernel'
  <2> USE DEF Plain, Gone
  <2>1. ASSUME NEW l \in {"semwait", "passed"}, NEW m \in {"semwait", "passed"}, Go(0, l, m) PROVE Kernel'
    BY <1>1, <2>1, GoKeeps
  <2>2. ASSUME NEW l, l \in {"failed", pc[0]}, Deliver(0, "sig", l, FALSE) PROVE Kernel'
    BY <1>1, <2>2, DeliverKeeps
  <2>3. CASE sem_wait_nointr
    BY <1>1, <2>3, ReturnsKeeps DEF sem_wait_nointr, HandlerReturns
  <2>4. CASE usher
    BY <2>4 DEF usher, kernelVars, Kernel, KernelTypes, Prepared, Handling, KilledWhy, commandLine,
                Excused, Is, At, Alive
  <2>5. CASE alarm_handler
    BY <1>1, <2>5, OutsideKeeps DEF alarm_handler
  <2>6. CASE SemMain
    BY <1>1, <2>1, <2>6, SigActionKeeps DEF SemMain, SemWaits
  <2>7. CASE SemSignal
    BY <2>2, <2>3, <2>7 DEF SemSignal
  <2>8. QED  BY <2>4, <2>5, <2>6, <2>7
<1>3. unprepared = {} => unprepared' = {}
  <2>1. CASE alarm_handler
    <3>1. "sig" \in handled[0]
      BY <1>1, <2>1 DEF alarm_handler, Kernel, KernelTypes
    <3>2. QED  BY <2>1, <3>1 DEF alarm_handler, FromOutside, Sends
  <2>2. CASE SemMain \/ SemSignal \/ usher
    BY <2>2 DEF SemMain, SemWaits, SemSignal, sem_wait_nointr, usher, SigAction, Go, Deliver,
       kernelVars
  <2>3. QED  BY <2>1, <2>2
<1>4. sem' \in 0 .. SemMax /\ ahead' \in Int /\ sem' + ahead' = SemInit
  <2>1. CASE UNCHANGED <<sem, ahead>>
    BY <2>1 DEF ThreadTypes
  <2>2. CASE sem > 0 /\ sem' = sem - 1 /\ ahead' = ahead + 1
    BY <2>2, SemAssumption DEF ThreadTypes
  <2>3. CASE sem < SemMax /\ sem' = sem + 1 /\ ahead' = ahead - 1
    BY <2>3, SemAssumption DEF ThreadTypes
  <2>4. QED
    BY <2>1, <2>2, <2>3 DEF SemMain, SemWaits, SemSignal, sem_wait_nointr, usher, alarm_handler,
       Unmoved, threadVars
<1>5. QED  BY <1>2, <1>3, <1>4 DEF ThreadTypes

LEMMA WaiterTypes ==
    ASSUME ThreadTypes, program \in WaiterPrograms, UNCHANGED commandLine,
           \/ WaiterMain
           \/ \E t \in Actors : WaiterThread(t) \/ WaiterSignal(t)
           \/ WaiterOutside
    PROVE  ThreadTypes'
<1>1. ~Is("sem") /\ ~Is("sem")'
  BY DEF WaiterPrograms, Is, commandLine
<1>2. UNCHANGED <<sem, ahead>>
  BY <1>1 DEF WaiterMain, SigWaitMain, SyncSigWaitMain, CatchKillMain, CatchAll, Waits, WaiterThread,
     LoopThread, SyncThread, WaiterSignal, ProcessSignal, WaiterOutside, Unmoved, threadVars
<1>3. QED  BY <1>1, <1>2 DEF ThreadTypes

LEMMA ThreadsKeep ==
    ASSUME Kernel, ThreadInv, UNCHANGED commandLine,
           \/ WaiterMain
           \/ \E t \in Actors : WaiterThread(t) \/ WaiterSignal(t)
           \/ WaiterOutside
    PROVE  Kernel' /\ ThreadInv'
<1>1. CASE program \in WaiterPrograms
  BY <1>1, WaiterKernel, OneMaskKeeps, WaiterTypes DEF ThreadInv
<1>2. CASE Is("sem")
  <2>1. SemMain \/ SemSignal \/ usher \/ alarm_handler
    BY <1>2 DEF WaiterMain, WaiterThread, WaiterSignal, WaiterOutside, WaiterPrograms, Is
  <2>2. OneMask'
    BY <1>2 DEF OneMask, WaiterPrograms, Is, commandLine
  <2>3. QED  BY <1>2, <2>1, <2>2, SemKeeps DEF ThreadInv
<1>3. QED
  BY <1>1, <1>2 DEF WaiterMain, WaiterThread, WaiterSignal, WaiterOutside, WaiterPrograms, Is
-----------------------------------------------------------------------------
(* The lock files of run.sh.                                               *)

LEMMA LockKernel ==
    ASSUME Kernel, UNCHANGED commandLine, NEW w \in Actors, Worker(w) \/ Trap(w) \/ Kill9(w)
    PROVE  Kernel'
<1> USE DEF Plain, Gone
<1>1. ASSUME NEW l, NEW m \in {"work", "idle", "try", "ended"}, l \notin Gone, Go(w, l, m) PROVE Kernel'
  BY <1>1, GoKeeps
<1>2. CASE Worker(w)
  BY <1>1, <1>2 DEF Worker, lock, unlock
<1>3. CASE Trap(w) \/ Kill9(w)
  <2>1. pc[w] \notin Gone /\ Go(w, pc[w], "ended")
    BY <1>3 DEF Trap, Kill9, Alive
  <2>2. QED  BY <1>1, <2>1
<1>4. QED  BY <1>2, <1>3

LEMMA LockInvKeeps ==
    ASSUME Kernel, LockInv, Is("lockfile"), UNCHANGED commandLine,
           NEW w \in Actors, Worker(w) \/ Trap(w) \/ Kill9(w)
    PROVE  LockInv'
<1> USE DEF LockInv, LockTypes, Locking, At, Is, commandLine
<1>1. ASSUME NEW l, NEW m, Go(w, l, m)
      PROVE  pc[w] = l /\ \A v \in Actors : pc'[v] = IF v = w THEN m ELSE pc[v]
  BY <1>1 DEF Go, Kernel, KernelTypes
<1>2. CASE lock(w)
  <2>1. /\ pc[w] = "try" /\ file = {} /\ file' = {w} /\ UNCHANGED <<robbed, stale>>
        /\ \A v \in Actors : pc'[v] = IF v = w THEN "work" ELSE pc[v]
    BY <1>1, <1>2 DEF lock
  <2>2. QED  BY <2>1
<1>3. ASSUME NEW l, NEW m \in {"idle", "ended"}, Go(w, l, m), file' = {},
             robbed' = (robbed \/ file \notin {{}, {w}}), UNCHANGED stale
      PROVE  LockInv'
  <2>1. \A v \in Actors : pc'[v] = IF v = w THEN m ELSE pc[v]
    BY <1>1, <1>3
  <2>2. robbed' \in BOOLEAN
    BY <1>3
  <2>3. ASSUME ~robbed', NEW v \in Actors, pc'[v] = "work" PROVE FALSE
    <3>1. v # w /\ pc[v] = "work" /\ ~robbed /\ file \in {{}, {w}}
      BY <1>3, <2>1, <2>3
    <3>2. file = {v}
      BY <3>1
    <3>3. QED  BY <3>1, <3>2
  <2>4. QED  BY <1>3, <2>2, <2>3
<1>4. CASE Go(w, "idle", "try") /\ UNCHANGED lockFileVars
  BY <1>1, <1>4 DEF lockFileVars
<1>5. CASE Kill9(w)
  <2>1. /\ \A v \in Actors : pc'[v] = IF v = w THEN "ended" ELSE pc[v]
        /\ stale' = (stale \/ file = {w}) /\ UNCHANGED <<file, robbed>>
    BY <1>1, <1>5 DEF Kill9
  <2>2. stale' \in BOOLEAN
    BY <2>1
  <2>3. ~robbed' => \A v \in Actors : pc'[v] = "work" => file' = {v}
    BY <2>1
  <2>4. ASSUME NEW v \in file' PROVE pc'[v] = "work" \/ stale'
    <3>1. file = {v} /\ v \in Actors
      BY <2>1, <2>4
    <3>2. QED  BY <2>1, <2>4, <3>1
  <2>5. QED  BY <2>1, <2>2, <2>3, <2>4
<1>6. QED  BY <1>2, <1>3, <1>4, <1>5 DEF Worker, unlock, Trap
-----------------------------------------------------------------------------
(* One program runs.  What its steps do not touch stays true.              *)

HandlerStep == /\ program \in HandlerPrograms /\ InHandlers
               /\ HandlerMain \/ HandlerSignal \/ HandlerOutside

PairStep == /\ program \in PairPrograms /\ InPairs
            /\ \/ \E a \in Actors : PairMain(a) \/ PairSignal(a)
               \/ PairOutside

ThreadStep == /\ program \in WaiterPrograms \cup {"sem"} /\ InThreads
              /\ \/ WaiterMain
                 \/ \E a \in Actors : WaiterThread(a) \/ WaiterSignal(a)
                 \/ WaiterOutside

LockStep == /\ Is("lockfile") /\ InLockFile
            /\ \E w \in Actors : Worker(w) \/ Trap(w) \/ Kill9(w)

LEMMA OneProgramSteps ==
    ASSUME Next
    PROVE  UNCHANGED commandLine /\ (HandlerStep \/ PairStep \/ ThreadStep \/ LockStep)
<1> USE DEF HandlerStep, PairStep, ThreadStep, LockStep
<1>1. /\ HandlerMain \/ HandlerSignal \/ HandlerOutside => program \in HandlerPrograms
      /\ \A a \in Actors : PairMain(a) \/ PairSignal(a) => program \in PairPrograms
      /\ PairOutside => program \in PairPrograms
  BY DEF HandlerMain, HandlerSignal, HandlerOutside, CtrlC, SigInfo, SignalVsSigaction, KillAndCatch,
     UserTypes, PairMain, PairSignal, PairOutside, HandlerPrograms, Catchers, PairPrograms, Is
<1>2. /\ WaiterMain \/ WaiterOutside => program \in WaiterPrograms \cup {"sem"}
      /\ \A a \in Actors : WaiterThread(a) \/ WaiterSignal(a)
                              => program \in WaiterPrograms \cup {"sem"}
  BY DEF WaiterMain, WaiterThread, WaiterSignal, WaiterOutside, WaiterPrograms, Is
<1>3. ASSUME NEW a \in Actors, Main(a)
      PROVE  UNCHANGED commandLine /\ (HandlerStep \/ PairStep \/ ThreadStep \/ LockStep)
  BY <1>1, <1>2, <1>3 DEF Main
<1>4. ASSUME NEW a \in Actors, Signalled(a)
      PROVE  UNCHANGED commandLine /\ (HandlerStep \/ PairStep \/ ThreadStep \/ LockStep)
  BY <1>1, <1>2, <1>4 DEF Signalled
<1>5. CASE Outside
  BY <1>1, <1>2, <1>5 DEF Outside
<1>6. QED  BY <1>3, <1>4, <1>5 DEF Next

LEMMA HandlersUntouched ==
    ASSUME HandlerInv, program \notin HandlerPrograms, UNCHANGED <<commandLine, handlerVars>>
    PROVE  HandlerInv'
BY DEF HandlerInv, HandlerTypes, Announced, Clearing, Timed, Unblocking, HandlerPrograms, Catchers,
       commandLine, handlerVars, Is

LEMMA PairsUntouched ==
    ASSUME PairInv, program \notin PairPrograms, UNCHANGED <<commandLine, pairVars>>
    PROVE  PairInv'
BY DEF PairInv, PairTypes, Playing, Ball, Queueing, Storing, Ignoring, Waiting, PairPrograms,
       commandLine, pairVars, Is

LEMMA ThreadsUntouched ==
    ASSUME ThreadInv, program \notin WaiterPrograms \cup {"sem"},
           UNCHANGED <<commandLine, threadVars>>
    PROVE  ThreadInv'
BY DEF ThreadInv, ThreadTypes, OneMask, commandLine, threadVars, Is

LEMMA LocksUntouched ==
    ASSUME LockInv, ~Is("lockfile"), UNCHANGED <<commandLine, lockFileVars>>
    PROVE  LockInv'
BY DEF LockInv, LockTypes, Locking, commandLine, lockFileVars, Is

LEMMA Families ==
    /\ program \in HandlerPrograms =>
          program \notin PairPrograms \cup WaiterPrograms \cup {"sem", "lockfile"}
    /\ program \in PairPrograms =>
          program \notin HandlerPrograms \cup WaiterPrograms \cup {"sem", "lockfile"}
    /\ program \in WaiterPrograms \cup {"sem"} =>
          program \notin HandlerPrograms \cup PairPrograms \cup {"lockfile"}
    /\ program = "lockfile" =>
          program \notin HandlerPrograms \cup PairPrograms \cup WaiterPrograms \cup {"sem"}
BY DEF HandlerPrograms, Catchers, PairPrograms, WaiterPrograms

LEMMA StepKeeps ==
    ASSUME IInv, [Next]_vars
    PROVE  IInv'
<1> USE DEF IInv
<1>1. CASE UNCHANGED vars
  <2>1. UNCHANGED <<commandLine, pc, kernelVars, handlerVars, pairVars, threadVars, lockFileVars>>
    BY <1>1 DEF vars
  <2>2. Kernel' /\ <<program, opt>>' \in CommandLines
    BY <2>1 DEF Kernel, KernelTypes, Prepared, Handling, KilledWhy, Excused, commandLine, kernelVars,
                CommandLines, At, Is, Alive
  <2>3. HandlerInv'
    BY <2>1 DEF HandlerInv, HandlerTypes, Announced, Clearing, Timed, Unblocking, commandLine,
                kernelVars, handlerVars, At, Is
  <2>4. PairInv'
    BY <2>1 DEF PairInv, PairTypes, Playing, Ball, Serving, Queueing, Storing, Ignoring, Waiting,
                Known, commandLine, kernelVars, pairVars, At, Is, Alive
  <2>5. ThreadInv' /\ LockInv'
    BY <2>1 DEF ThreadInv, ThreadTypes, OneMask, LockInv, LockTypes, Locking, commandLine, kernelVars,
                threadVars, lockFileVars, At, Is
  <2>6. QED  BY <2>2, <2>3, <2>4, <2>5
<1>2. CASE Next
  <2>1. UNCHANGED commandLine /\ (HandlerStep \/ PairStep \/ ThreadStep \/ LockStep)
    BY <1>2, OneProgramSteps
  <2>2. <<program, opt>>' \in CommandLines
    BY <2>1 DEF commandLine, CommandLines
  <2>3. CASE HandlerStep
    <3>1. Kernel'
      BY <2>1, <2>3, HandlerKernel DEF HandlerStep, HandlerInv
    <3>2. HandlerInv'
      <4>1. window' \in BOOLEAN
        BY <3>1 DEF Kernel, KernelTypes
      <4>2. QED  BY <2>1, <2>3, <4>1, HandlerInvKeeps DEF HandlerStep
    <3>3. PairInv' /\ ThreadInv' /\ LockInv'
      BY <2>1, <2>3, Families, PairsUntouched, ThreadsUntouched, LocksUntouched
      DEF HandlerStep, InHandlers, Is
    <3>4. QED  BY <2>2, <3>1, <3>2, <3>3
  <2>4. CASE PairStep
    <3>1. Kernel' /\ PairInv'
      BY <2>1, <2>4, PairKernel, PairInvKeeps DEF PairStep, PairInv
    <3>2. HandlerInv' /\ ThreadInv' /\ LockInv'
      BY <2>1, <2>4, Families, HandlersUntouched, ThreadsUntouched, LocksUntouched
      DEF PairStep, InPairs, Is
    <3>3. QED  BY <2>2, <3>1, <3>2
  <2>5. CASE ThreadStep
    <3>1. Kernel' /\ ThreadInv'
      BY <2>1, <2>5, ThreadsKeep DEF ThreadStep
    <3>2. HandlerInv' /\ PairInv' /\ LockInv'
      BY <2>1, <2>5, Families, HandlersUntouched, PairsUntouched, LocksUntouched
      DEF ThreadStep, InThreads, Is
    <3>3. QED  BY <2>2, <3>1, <3>2
  <2>6. CASE LockStep
    <3>1. Kernel' /\ LockInv'
      BY <2>1, <2>6, LockKernel, LockInvKeeps DEF LockStep
    <3>2. HandlerInv' /\ PairInv' /\ ThreadInv'
      BY <2>1, <2>6, Families, HandlersUntouched, PairsUntouched, ThreadsUntouched
      DEF LockStep, InLockFile, Is
    <3>3. QED  BY <2>2, <3>1, <3>2
  <2>7. QED  BY <2>1, <2>3, <2>4, <2>5, <2>6
<1>3. QED  BY <1>1, <1>2

LEMMA InitHolds ==
    ASSUME Init
    PROVE  IInv
<1> USE DEF At, Is
<1>1. <<program, opt>> \in CommandLines
  <2>1. PICK c \in CommandLines : program = c[1] /\ opt = c[2]
    BY DEF Init
  <2>2. \A S, T : \A d \in S \X T : d = <<d[1], d[2]>>
    OBVIOUS
  <2>3. \A d \in {<<"intread", "-r">>, <<"sigchld", "-i">>, <<"syncsigwait", "-k">>,
                   <<"sem", "nointr">>} : d = <<d[1], d[2]>>
    OBVIOUS
  <2>4. c = <<c[1], c[2]>>
    BY <2>2, <2>3, Zenon DEF CommandLines
  <2>5. QED  BY <2>1, <2>4
<1>2. /\ resume = [a \in Actors |-> "start"] /\ handled = [a \in Actors |-> {}]
      /\ masked = [a \in Actors |-> {}] /\ pending = [a \in Actors |-> {}]
      /\ sent = 0 /\ unprepared = {} /\ window = FALSE
  BY DEF Init, SignalsInit
<1>3. /\ pc = [a \in Actors |-> pc[a]]
      /\ \A a \in Actors : pc[a] \in {"try", "start", "run", "unborn"}
      /\ Is("lockfile") => \A a \in Actors : pc[a] = "try"
      /\ ~Is("lockfile") => pc[0] = "start"
      /\ program \in PairPrograms => pc[0] = "start" /\ pc[1] = "start" /\ pc[2] = "unborn"
      /\ program \in WaiterPrograms => pc[0] = "start" /\ pc[1] = "unborn" /\ pc[2] = "unborn"
  BY DEF Init, Actors, PairPrograms, WaiterPrograms
<1>4. Kernel
  <2>1. KernelTypes
    <3>1. sent \in 0 .. MaxSignals
      BY <1>2, SignalsAssumption
    <3>2. resume = [a \in Actors |-> resume[a]]
      BY <1>2
    <3>3. handled \in [Actors -> SUBSET {"sig"}]
      BY <1>2
    <3>4. masked \in [Actors -> SUBSET Kinds] /\ pending \in [Actors -> SUBSET Kinds]
      BY <1>2
    <3>5. unprepared \subseteq Actors /\ window \in BOOLEAN
      BY <1>2
    <3>6. QED  BY <1>3, <3>1, <3>2, <3>3, <3>4, <3>5 DEF KernelTypes
  <2>2. Prepared /\ Handling /\ KilledWhy
    BY <1>2, <1>3 DEF Prepared, Handling, KilledWhy
  <2>3. QED  BY <2>1, <2>2 DEF Kernel
<1>5. 0 \in Actors /\ 1 \in Actors /\ 2 \in Actors
  BY DEF Actors
<1>6. HandlerInv
  <2>1. HandlerTypes /\ Announced
    <3>1. /\ delivered = FALSE /\ owed = FALSE /\ typed = FALSE
          /\ size = 0 /\ catches = 0
      BY DEF Init, HandlersInit
    <3>2. size \in {-1, 0, 1} /\ catches \in 0 .. 2
      BY <3>1
    <3>3. delivered \in BOOLEAN /\ owed \in BOOLEAN /\ typed \in BOOLEAN
      BY <3>1
    <3>4. QED  BY <3>1, <3>2, <3>3 DEF HandlerTypes, Announced
  <2>2. Clearing
    BY <1>3 DEF Init, HandlersInit, Clearing
  <2>3. Timed /\ Unblocking
    BY <1>2, <1>3, <1>5 DEF Timed, Unblocking
  <2>4. QED  BY <2>1, <2>2, <2>3 DEF HandlerInv
<1>7. PairInv
  <2>1. /\ msg = {} /\ num = 0 /\ shared = None /\ shown = None /\ value \in Values \cup {0}
        /\ state = "running" /\ change = None /\ zombie = FALSE
    BY DEF Init, PairsInit
  <2>2. PairTypes
    BY <1>2, <1>3, <2>1 DEF PairTypes
  <2>3. Playing /\ Ball
    BY <1>2, <1>3, <1>5 DEF Playing, Ball, Serving, PairPrograms
  <2>4. Queueing /\ Storing /\ Ignoring /\ Waiting
    BY <1>2, <1>3, <1>5, <2>1 DEF Queueing, Storing, Ignoring, Waiting, Known, PairPrograms
  <2>5. QED  BY <2>2, <2>3, <2>4 DEF PairInv
<1>8. ThreadInv
  <2>1. ThreadTypes
    BY <1>2, SemAssumption DEF Init, ThreadsInit, ThreadTypes
  <2>2. OneMask
    BY <1>2, <1>3, <1>5 DEF OneMask
  <2>3. QED  BY <2>1, <2>2 DEF ThreadInv
<1>9. LockInv
  BY <1>3 DEF Init, LockFileInit, LockInv, LockTypes, Locking
<1>10. QED  BY <1>1, <1>4, <1>6, <1>7, <1>8, <1>9 DEF IInv

LEMMA Invariance == Spec => []IInv
<1>1. Init => IInv
  BY InitHolds
<1>2. IInv /\ [Next]_vars => IInv'
  BY StepKeeps
<1>3. QED  BY <1>1, <1>2, PTL DEF Spec
-----------------------------------------------------------------------------
LEMMA AtMostOne ==
    ASSUME NEW S, \A x, y \in S : x = y
    PROVE  Cardinality(S) <= 1 /\ (S # {} => Cardinality(S) = 1)
<1>1. CASE S = {}
  BY <1>1, FS_EmptySet
<1>2. CASE S # {}
  <2>1. PICK x : x \in S
    BY <1>2
  <2>2. S = {x}
    BY <2>1
  <2>3. Cardinality(S) = 1
    BY <2>2, FS_Singleton
  <2>4. QED  BY <2>3
<1>3. QED  BY <1>1, <1>2

\* Type correctness.  It is not by typing alone that a handler runs only where
\* sigaction() was called, or that there is one lock file.
THEOREM SignalTypeCorrect == Spec => []TypeOK
<1>1. IInv => TypeOK
  <2> SUFFICES ASSUME IInv PROVE TypeOK
    OBVIOUS
  <2> USE DEF IInv
  <2>1. /\ \A a \in Actors : /\ handled[a] \subseteq {"sig"}
                             /\ masked[a] \subseteq Kinds /\ pending[a] \subseteq Kinds
                             /\ At(a, "handler") => handled[a] = {"sig"}
        /\ sent \in 0 .. MaxSignals
        /\ unprepared \subseteq Actors /\ window \in BOOLEAN
    BY DEF Kernel, KernelTypes, Handling
  <2>2. /\ delivered \in BOOLEAN /\ owed \in BOOLEAN /\ typed \in BOOLEAN
        /\ size \in {-1, 0, 1} /\ catches \in 0 .. 2
    BY DEF HandlerInv, HandlerTypes
  <2>3. /\ msg \subseteq {0, 1} /\ value \in Values \cup {0} /\ num \in {0, value}
        /\ shared \in {None, "typed"} /\ zombie \in BOOLEAN
        /\ state \in {"running", "stopped", "exited", "killed"}
        /\ change \in {None, "stopped", "continued", "exited", "killed"}
    BY DEF PairInv, PairTypes
  <2>4. sem \in 0 .. SemMax
    BY DEF ThreadInv, ThreadTypes
  <2>5. /\ file \subseteq Actors /\ Cardinality(file) <= 1
        /\ robbed \in BOOLEAN /\ stale \in BOOLEAN
    BY AtMostOne DEF LockInv, LockTypes
  <2>6. QED  BY <2>1, <2>2, <2>3, <2>4, <2>5 DEF TypeOK
<1>2. QED  BY <1>1, Invariance, PTL

\* A signal ends a process only if it was sent before sigaction(), sigprocmask()
\* or pthread_sigmask() had made the process ready for it; and the programs that
\* set their own timer, or fork() after their preparations, are always ready.
THEOREM KilledOnlyWhenUnprepared == Spec => []KilledOnlyUnprepared
<1>1. IInv => KilledOnlyUnprepared
  <2> SUFFICES ASSUME IInv PROVE KilledOnlyUnprepared
    OBVIOUS
  <2> USE DEF IInv
  <2>1. \A a \in Actors : At(a, "killed") =>
           \/ a \in unprepared
           \/ program \in WaiterPrograms /\ 0 \in unprepared
           \/ Is("syncsigwait") /\ opt # "-k"
    BY DEF Kernel, KilledWhy, Excused
  <2>2. program \in {"alarm", "killandcatch", "sem"} => unprepared = {}
    BY DEF HandlerInv, Timed, ThreadInv, ThreadTypes, Is
  <2>3. program \in PairPrograms => 0 \notin unprepared /\ ~At(0, "crashed")
    BY DEF PairInv, PairTypes
  <2>4. QED  BY <2>1, <2>2, <2>3 DEF KilledOnlyUnprepared
<1>2. QED  BY <1>1, Invariance, PTL

\* ping-pong.c: the handlers hand the signal on, and never make two of one.
THEOREM BallInOnePlace == Spec => []OneBall
<1>1. IInv => OneBall
  <2> SUFFICES ASSUME IInv, Is("pingpong")
               PROVE  LET balls == {<<"serve", p>> : p \in {q \in {0} : pc[q] \in {"start", "setmsg", "serve"}}}
                                   \cup {<<"pending", p>> : p \in {q \in {0, 1} : pending[q] # {}}}
                                   \cup {<<"handler", p>> : p \in {q \in {0, 1} : At(q, "handler")}}
                      IN /\ Cardinality(balls) <= 1
                         /\ Alive(0) /\ Alive(1) => Cardinality(balls) = 1
    BY DEF OneBall
  <2> DEFINE balls == {<<"serve", p>> : p \in {q \in {0} : pc[q] \in {"start", "setmsg", "serve"}}}
                      \cup {<<"pending", p>> : p \in {q \in {0, 1} : pending[q] # {}}}
                      \cup {<<"handler", p>> : p \in {q \in {0, 1} : At(q, "handler")}}
  <2>1. Ball
    BY DEF IInv, PairInv
  <2>2. \A x \in balls : \/ x = <<"serve", 0>> /\ Serving
                         \/ x = <<"pending", 0>> /\ pending[0] # {}
                         \/ x = <<"pending", 1>> /\ pending[1] # {}
                         \/ x = <<"handler", 0>> /\ At(0, "handler")
                         \/ x = <<"handler", 1>> /\ At(1, "handler")
    BY DEF Serving
  <2>3. \A x, y \in balls : x = y
    BY <2>1, <2>2 DEF Ball, Serving, At
  <2>4. Alive(1) => balls # {}
    <3>1. /\ Serving => <<"serve", 0>> \in balls
          /\ pending[0] # {} => <<"pending", 0>> \in balls
          /\ pending[1] # {} => <<"pending", 1>> \in balls
          /\ At(0, "handler") => <<"handler", 0>> \in balls
          /\ At(1, "handler") => <<"handler", 1>> \in balls
      BY DEF Serving
    <3>2. QED  BY <2>1, <3>1 DEF Ball
  <2>5. Cardinality(balls) <= 1 /\ (Alive(1) => Cardinality(balls) = 1)
    <3> HIDE DEF balls
    <3>1. QED  BY <2>3, <2>4, AtMostOne
  <2>6. QED  BY <2>5
<1>2. QED  BY <1>1, Invariance, PTL

\* What the programs print, store or exit with is true: the preparations, the
\* signal and the report come in the right order in every interleaving.
THEOREM ReportsTrue == Spec => []ReportsAreTrue
<1>1. IInv => ReportsAreTrue
  <2> SUFFICES ASSUME IInv PROVE ReportsAreTrue
    OBVIOUS
  <2> USE DEF IInv
  <2>1. owed => delivered \/ window
    BY DEF HandlerInv, Announced
  <2>2. Is("sigpending") => /\ At(0, "pause") => catches > 0
                            /\ At(0, "ended") => catches > 1
    BY DEF HandlerInv, Unblocking
  <2>3. Is("sigqueue") /\ At(0, "ended") =>
           shown = IF At(1, "killed") THEN 0 ELSE (value + 1) % StatusMod
    BY DEF PairInv, Queueing
  <2>4. Is("sigwait") /\ At(1, "ended") => shown = "typed"
    BY DEF PairInv, Storing
  <2>5. Is("sigchld") /\ At(1, "killed") => zombie = (opt = "")
    <3>1. Is("sigchld") => opt \in {"", "-i"}
      BY DEF CommandLines, Is, HandlerPrograms, Catchers, PairPrograms, WaiterPrograms
    <3>2. Is("sigchld") /\ At(1, "killed") => zombie = (opt # "-i")
      BY DEF PairInv, Ignoring
    <3>3. QED  BY <3>1, <3>2
  <2>6. Is("wait") /\ change = None => Known
    BY DEF PairInv, Waiting
  <2>7. sem + ahead = SemInit
    BY DEF ThreadInv, ThreadTypes
  <2>8. Is("syncsigwait") => \A t \in {1, 2} : At(t, "ended") => pending[t] = {"other"}
    BY DEF ThreadInv, OneMask, WaiterPrograms, Is
  <2>9. QED  BY <2>1, <2>2, <2>3, <2>4, <2>5, <2>6, <2>7, <2>8 DEF ReportsAreTrue
<1>2. QED  BY <1>1, Invariance, PTL

\* open(O_EXCL | O_CREAT) and unlink() exclude: two workers of run.sh work at the
\* same time only after a trap or an unlock() removed a file that was not its own.
THEOREM LockFileExcludes == Spec => []OneWorker
<1>1. IInv => OneWorker
  <2> SUFFICES ASSUME IInv, Is("lockfile")
               PROVE  /\ ~robbed => Cardinality({w \in Actors : At(w, "work")}) <= 1
                      /\ \A w \in file : At(w, "work") \/ stale
    BY DEF OneWorker
  <2>1. /\ ~robbed => \A w \in Actors : At(w, "work") => file = {w}
        /\ \A w \in file : At(w, "work") \/ stale
    BY DEF IInv, LockInv, Locking
  <2>2. ASSUME ~robbed, NEW v \in {w \in Actors : At(w, "work")}, NEW u \in {w \in Actors : At(w, "work")}
        PROVE  v = u
    BY <2>1, <2>2
  <2>3. QED  BY <2>1, <2>2, AtMostOne
<1>2. QED  BY <1>1, Invariance, PTL
=============================================================================
