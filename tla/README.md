# Formal models of the "Unix/Linux programming in C" example programs

The repository is a collection of small, self-contained C programs for a course
on Unix programming. There is no system that ties them together: a component
here is one program, or a family of programs that share their structure. What
makes some of them hard is what the course is about: threads that share a
counter, processes that share a file or a semaphore, signals that arrive at any
moment, calls that are interrupted, answers that are late. Those programs are
modelled in TLA+, checked with TLC on small instances, and the most important
properties are proved with TLAPS for every value of the parameters.

Paths are relative to `src/`.

## 1. Inventory

| component | state | operations | what is hard | what makes it correct |
|---|---|---|---|---|
| queue simulation (`cond-variables/queue-simulation.c`) | `in_queue`, `capacity`, the consumer's `orig_in_queue`, one mutex, one condition variable | producer inserts, consumer removes, `main` displays | both sides sleep on the same condition variable, and signal only when the queue leaves a boundary | bounds; no lost wakeup; messages keep flowing |
| hand-made barriers (`pthreads/implement-barrier*.c`) | `on_barrier` (an `int` that is never reset), `wokenup`, mutex, condition variable | print, arrive, wait, leave | a thread that is slow to wake up misses the end of its round; two waiting loops on one condition variable; the counter wraps around | every line has every ID once; with the fix nobody is left behind |
| race demonstrations (`race/*.c`, `mutexes/race*.c`, `race/run.sh`) | two shared cells, a lock or semaphore, `run` flags | check, set, lock, unlock, wait, clean up, SIGINT handler | check and set interleave; SIGINT interrupts the lock call or the wait; a semaphore is removed under a process, or was left behind by another one | no race seen with a lock; Ctrl-C ends everything; nothing is left behind |
| talking heads (`semaphores/talking-heads.c`) | a named semaphore, `run` flags, the parent's counter of `wait()` calls | fork, talk, post, wait, clean up | interrupted `sem_wait()` and `wait()` are taken for successful ones; a semaphore left by an earlier run | units are conserved; the parent waits for its children; Ctrl-C ends everything |
| record locking (`file-locking/fcntl-locking.c`) | a file, file descriptions with offsets, record locks | writers seek and write, a reader dumps | `lseek()` and `write()` of writers that share an offset; a writer killed with the lock | with `-L` the second half has one character |
| non-blocking connect (`select/non-blocking-connect.c`) | sockets, two descriptor sets, three counters | start connects, select, collect answers, time out | `select()` overwrites its argument; two counters that must meet; failed `socket()` calls; an index nobody compares with the length of `sockets[]` | verdicts are true; the program ends |
| atomic counter (`race/atomic-add.c`) | a shared sum | threads add | lost updates | the sum |
| lock files (`file-locking/lock-unlock.c`, `run.sh`) | a lock file, a data file | create exclusively, poll, remove; a trap | the trap removes a lock file that belongs to somebody else | mutual exclusion |
| threads and `fork()` (`pthreads/atfork.c`, `fork*.c`) | a mutex copied by `fork()` | fork, prepare, parent and child handlers | the child inherits a mutex nobody will unlock | the child never blocks |
| thread life cycle, read-write locks, mutex types (`pthreads/`, `mutexes/not-my-lock.c`) | arguments, join and cancellation state, locks | create, join, detach, cancel, lock | arguments that change before they are read; cancellation with a mutex held; starvation | each thread gets its own argument; a mutex is released |
| signals (`signals/`, `pthreads/sigwait*.c`, `wait/wait.c`, `semaphores/posix-unnamed-sem.c`) | flags, masks, pending signals | handlers, `alarm`, `sigwait`, `sigqueue`, `pause` | a signal before the handler, mask or blocking call is in place; a flag cleared after it was set again | no event is forgotten, nobody sleeps for ever |
| pipes and FIFOs (`pipe/`, `fifo/`, `dead-lock/`) | descriptors, bytes in the pipe | read, write, close, dup | end of file depends on who still holds the other end | the reader ends after the last byte |
| servers, clients and copiers (`select/`, `tcp/`, `udp/`, `unix-socket/`, `inetd/`, `read/`) | connections, descriptor sets, exit status | accept, read, write, close | partial writes, end of file on one side, a failed `read()` taken for data | what is read is written; the next client is served |
| the rest (processes, files and memory, resolver, build and language demonstrations) | none of their own | one system call after another | | |

The components do not call each other. Inside a component, threads interact
through shared variables under a mutex; processes through shared memory, a file,
a semaphore, `wait()` and signals.

`PROJECT.json` lists every component, the hazards at the lines where they bite,
and the source lines each definition stands for.

## 2. Modules

| module | models | role |
|---|---|---|
| `CondVars` | one mutex and one condition variable, as the next three programs use them | base, the library |
| `BoundedQueue` | what the queue promises: put when not full, get when not empty, progress | abstract |
| `QueueSimulation` | `queue-simulation.c` | detailed; `ImplementsQueue` is the refinement |
| `Barrier` | what a barrier promises: one line, every ID once | abstract |
| `ImplementBarrier` | `implement-barrier.c`, and what the fixed program shares with it | detailed |
| `ImplementBarrierFixed` | `implement-barrier-fixed.c`; runs either program | detailed; `LinesAreBarriers` is the refinement |
| `CondVarProofs` | | theorems about the queue and the barriers, the programs that sleep on a condition variable |
| `Race` | the six race programs | detailed |
| `RaceProofs` | | theorems |
| `TalkingHeads` | `talking-heads.c` | detailed |
| `TalkingHeadsProofs` | | theorems |
| `FcntlLocking` | `fcntl-locking.c` in its three modes | detailed |
| `FcntlProofs` | | theorems |
| `NonBlockingConnect` | `non-blocking-connect.c` | detailed |
| `ConnectProofs` | | theorems |
| `Pthreads` | what the thread programs share: the loops of `main()`, the end of the process; the library as far as they see it | base |
| `ThreadArgs` | creating, joining and detaching, the argument of a thread, `pthread-barrier.c` | family |
| `ThreadCancel` | `pthread-setcanceltype.c` | family |
| `AtomicAdd` | `atomic-add.c` | family |
| `ForkedThreads` | `atfork.c`, `fork.c`, `fork-not-in-main.c` | family |
| `RwLock` | `pthread-rwlock.c`, `pthread-rwlock-pref.c` | family |
| `NotMyLock` | `not-my-lock.c` | family |
| `ThreadPrograms` | composes the six families over `Pthreads` | top |
| `ThreadProofs` | | theorems |
| `Signals` | pending and masked signals, delivery, handlers, default actions | base, the kernel |
| `SignalHandlers` | `event-loop.c`, `alarm.c`, `interrupted-read.c`, `sigpending.c`, and four programs that only catch | family |
| `SignalPairs` | `ping-pong.c`, `sigqueue.c`, `signals/sigwait.c`, `sigchld.c`, `wait.c` | family |
| `SignalThreads` | `pthreads/sigwait.c`, `sigwait-with-sync-signals.c`, `catch-SIGKILL.c`, `catch-all.c`, `posix-unnamed-sem.c` | family |
| `LockFile` | `lock-unlock.c` and the workers of `run.sh` | family |
| `SignalPrograms` | composes the four families over `Signals` | top |
| `SignalProofs` | | theorems |
| `Streams` | who is where | base |
| `Pipes` | six programs with pipes and FIFOs | family |
| `Sockets` | TCP connections and their peers | base, the kernel |
| `Servers` | sink, echo, `reuseaddr.c`, `accept-rw.c`, `select.c`, `busy-wait.c` | family |
| `Copiers` | `simple-cat.c`, `cat.c`, `tcp/connect.c`, `linger.c` | family |
| `Exchanges` | `write-select.c` with `connect-only.c`, the UDP pair, `unix-socket/main.c` | family |
| `StreamPrograms` | composes the four families over `Streams` and `Sockets` | top |
| `StreamProofs` | | theorems |

Conventions. Variables have the names of the program's variables; `pc` says
between which two steps a thread or process is. One action stands for one stretch
of code that no other actor can observe half done: an access to shared memory
outside a lock, a system call, a library call. A call that may block is an action
whose guard is the condition it waits for. The choice of the program or of its
options is a variable that `Init` picks and no action changes, so that one run
covers a family. In the three compositions a family has its own variables, its
steps are guarded by the program it is about, and the top module adds what the
others leave unchanged; actor 0 is always `main()` or the parent. The properties
are in the top module, so that one formula states what a reader would otherwise
find in ten places. Variables marked *history* record what has happened for the
properties and are read by no action. Operators preceded by *Mutant:* or by
*As X, ...* are not part of the specification; each is the plausible bug that
shows that a property can fail.

What the environment may do:

* pthread library: a thread may wake up spuriously; which sleeper a signal wakes
  is open; who gets a free mutex is open.
* SIGINT may arrive between any two steps. A process that is not blocked runs the
  handler (`Deliver`), also just before it blocks; one that is blocked returns
  from the call with `EINTR`. SIGINT is not queued: a second one before the first
  is delivered is lost, as in the kernel.
* `fork()`: with a signal pending the kernel handles the signal first and
  restarts, so that a signal to the group reaches every child.
* `addr[0] = addr[1] = v`: the compiler may store `v` twice, or read `addr[1]`
  back; both are modelled (`Write2nd`).
* A semaphore "/mysem" may be there already, with any value the run names: neither
  `posix-sem-fixed-race.c` nor `talking-heads.c` opens it with `O_EXCL`, and both
  may leave it behind. A System V semaphore that is there gets its value from
  `semctl()`. Nobody else uses the semaphore or `test.dat` at the same time: one
  program runs at a time.
* A SIGINT before `sigaction()` kills the program, and `fork()` or a call before
  it may fail: in both cases there is no cleanup.
* `connect()` may answer at once, later, or never; `socket()` may fail. What
  happens once a result of `socket()` is stored behind `sockets[]` is not modelled:
  the program is then at "undefined", and no property but the types claims
  anything of it. `FD_ISSET()` of the -1 that a failed `socket()` left is taken to
  say no.
* Signals in general: pending until delivered to somebody who does not mask them,
  between two steps or in a blocking call; not queued; masked while their handler
  runs; fatal where there is no handler. A child and the mask or handler it has
  yet to install are in no order with the parent's first signal: `sleep()` is not
  synchronization.
* Standard input: `read()` waits for somebody to type or to end the input, which
  nobody has to do (`given`, `typed`). The arguments of `cat.c` are files. `less`
  reads on, or ends, when its user wants it to.
* `open()` of a FIFO for reading waits until somebody has opened it for writing,
  who may have closed it again by then.
* TCP, after Linux: a peer may close or reset at any moment; a reset may take
  unread data with it, is reported by one failing call, and reads as end of file
  afterwards; what is written to a peer that is gone is lost, its RST arrives
  later, and the next write raises SIGPIPE. A peer may also send to a program that
  never reads (`tcp/connect.c`, `linger.c`); `close()` with such data unread, data
  that comes afterwards, and `close()` with a linger time of 0 reset the connection,
  and the peer may lose what it had not read. One simplification: a write after
  a reset that followed the peer's end of file is reported as ECONNRESET first,
  where Linux says EPIPE at once; no property depends on it. Datagrams are lost,
  doubled and reordered.
* glibc: a read-write lock prefers readers; a thread may detach itself while
  another one waits for it in `pthread_join()`.

Two details of the code are modelled as they are and not as they look:
in `fcntl-locking.c` the `lseek()` that is to extend the file and the `kill()` in
the handler have their arguments swapped and do nothing, so the file starts with
one byte and every process dies of the SIGINT it gets itself.

## 3. Runs

| run | checks | bounds |
|---|---|---|
| `queue` | `TypeOK` (the queue stays within its bounds), `NoLostWakeup`, `ImplementsQueue` | capacities 1, 2, 3: with 1 both boundaries touch, with 2 they are apart, with 3 there is an inner count |
| `barrier` | `TypeOK`, `NobodyLeftBehind`, `DeadlockOnlyByMissedRound`, `LinesAreBarriers`, `EveryoneGetsThrough` | four threads, both programs, `int` of 3 bits: two rounds wrap the counter around |
| `race` | `TypeOK`, `NoRaceSeen`, `ParentReapsChild`, `NoLeakedSemaphore`, `CtrlCEnds` | all six programs from their first call, two signals: the second one finds a process that has handled the first; a POSIX semaphore that is new or was left behind with 0 units (nobody gets in) or 2 (both workers do) |
| `heads` | `TypeOK`, `UnitsAreConserved`, `ParentMissesFew`, `CtrlCEnds` | three children, 0 to 2 units, a left-over semaphore without a unit, two Ctrl-C, `fork()` may fail |
| `fcntl` | `TypeOK`, `SecondHalfUniform`, `InsideTheFile`, `WrittenUnderLock` | two writers, six bytes: mark and two bytes in the second half, so a half can be torn |
| `connect` | `TypeOK`, `Accounting`, `VerdictsTrue`, `EndsWithVerdicts` | two hosts with up to three addresses and room for two sockets each: fewer addresses, as many, and one too many; `TIMEOUT` 3: one timeout, another, and the last one |
| `threads` | `TypeOK`, `OwnArgument`, `Verdicts`, `AdditionsKept`, `InheritedMutex`, `ProgramsEnd` | sixteen programs with their options; three threads (a first, one in the middle, a last) going round twice, sums of 4 bits that wrap around with six cycles and do not with four, one writer in two |
| `signals` | `TypeOK`, `KilledOnlyUnprepared`, `OneBall`, `ReportsAreTrue`, `OneWorker`, `SignalsTakeEffect` | nineteen programs; three signals from outside (before, in and after the window each program has), exit statuses modulo 4, three workers of `run.sh` |
| `streams` | `TypeOK`, `OutputIsInput`, `StreamsEnd` | nineteen programs; two pieces of data from each source and one the kernel keeps, so that a writer waits for its reader and a closed connection breaks on the second write; two peers, so that a server turns to the next one; peers that answer, or do not; one line typed at the servers, input of the copiers that comes to its end, fails, or stops at any piece |
| `race_runsh` | `RunShStops`, violated | `race.c`, one signal |
| `heads_wait` | `ParentWaitsForAll`, violated | two children, one Ctrl-C |
| `connect_late` | `TimedOutHadNoAnswer`, violated | one host with one address |

What they show:

* **queue.** Signalling only on leaving a boundary is enough although both sides
  share the condition variable: whoever sleeps has a reason to, or the thread
  that removed the reason holds the mutex and is about to signal. The consumer
  must compare the count from *before* the removal; the mutant that compares the
  one after it loses wakeups.
* **barrier.** Both programs print correct lines; the first one may stop with
  everybody asleep, and only because somebody missed the end of an earlier round.
  The second never does. `LinesAreBarriers` needs a number of threads that
  divides the range of the counter. `on_barrier` is never reset, so with three
  threads and a modulus of 8 TLC finds a line that ends early; in the program
  this takes 2^31 arrivals. With four threads, as in the run, the wrap-around is
  harmless.
* **race.** A lock makes the race invisible in four programs, whatever signals
  arrive, except that `posix-sem-fixed-race.c` ignores that `sem_wait()` was
  interrupted: it enters without the unit, and posts one too many afterwards. It
  also takes whatever semaphore it finds: with two units both workers are in the
  section and see each other's writes; with none nobody gets in until Ctrl-C, and
  a worker that is signalled just before `sem_wait()` sleeps for ever, with its
  parent (`Asleep`, the one exception `CtrlCEnds` makes). The failed assertion
  leaves such a semaphore behind.
  With one Ctrl-C the parent outlives its child and the assertion on `waitpid()`
  holds; a second one breaks both. The System V semaphore is removed however the
  two processes end; it stays behind only if SIGINT or a failing call ends the
  program before there is a child.
* **heads.** Semaphore value and talkers always add up to the initial value plus
  the interrupted calls. Ctrl-C ends everybody if there is a unit; with none, a
  child that is signalled just before it blocks in `sem_wait()` sleeps for ever,
  which is why the property has this condition. The parent leaves behind at most
  as many children as it had calls of `wait()` interrupted.
* **fcntl.** `-L` does what the header promises. With `-l` the lock protects the
  byte range but not the shared offset: writers overwrite each other, and may
  write past the end of the file by less than their number. The one exception to
  `SecondHalfUniform` is a writer killed with the lock, whose half is torn.
* **connect.** The counters agree with the sets, so the loop ends when it should
  and a closed socket is never given to `select()`. An address without a socket
  shifts the index against the number of sockets; the sockets this hides are the
  one exception `EndsWithVerdicts` names, and the other is a host with more
  addresses than `sockets[]` has room for: nothing compares the index with
  `MAX_SOCKETS`.
* **threads.** `wrong-use-of-arg.c` prints any number from the thread's own up, or
  what is left of `main()`'s frame; with a cell for each thread, or the number
  itself, it is always its own. `atomic-add.c` finds a race exactly when an
  addition was lost, unless sums wrap around; a negative argument makes every
  version report a race that never happened. The handlers of `atfork.c` keep
  the child's mutex usable; with `-d` the child blocks for ever if and only if
  `main()` held the mutex at that moment. A second lock of a NORMAL mutex is the
  only deadlock. A cancellation that comes when `open()` has returned is
  too late, and this is the only way `pthread-setcanceltype.c` fails.
* **signals.** Every window is named by the properties: `event-loop.c` forgets a
  signal between its test and its assignment; `alarm.c`, `interrupted-read.c` and
  `sigqueue.c` sleep for ever after a signal just before the blocking call;
  `sigwait.c` and `sigchld.c` wait as long as nobody types; the
  children of `ping-pong.c`, `sigqueue.c` and `sigwait.c` die of a signal that
  comes before they are ready. Outside the windows nothing is lost. The ball of
  `ping-pong.c` is never doubled, and `posix-unnamed-sem.c` never passes without
  a unit, with or without the interruption. The trap of `run.sh` lets a second
  worker in by removing a lock file it does not own; nothing else does.
* **streams.** The servers print every connection whole and in order unless it is
  reset; the sink, echo and `reuseaddr.c` servers survive the reset, since end of
  file follows the failing read, `select.c` and `busy-wait.c` end with it, and the
  echo server dies of SIGPIPE when the peer is gone before the second write.
  `busy-wait.c` whose standard input is not a terminal blocks in `read(0)` and
  serves nobody. `connect.c` and `linger.c` deliver all of their input unless the
  connection is reset, which a peer that answers is enough for: nobody reads the
  answers. `linger.c` ends only if its input ends without an error; it takes a
  failing `read()` for data and loops. `open-sleep-read.c` gets what is in the FIFO
  even if its writer has gone before it is there. `cat -b 0` copies nothing and
  succeeds.

The three violations are disagreements between the code and what it says of
itself (`findings` in `PROJECT.json`):

* `race/run.sh` sends SIGINT to the parent alone; the child never stops and the
  parent waits for it.
* `talking-heads.c` does not look at what `wait()` returns; an interrupted call
  counts as a child, and the parent exits before its children.
* `non-blocking-connect.c` restores the descriptor set only after a `select()`
  that found something. After the first timeout it watches nothing, and a host
  that answers later is reported as timed out.

### Fairness

Every thread and process keeps running: weak fairness on its steps, and on the
delivery of a pending signal. Nothing is assumed of spurious wakeups, of the
user (Ctrl-C need not be pressed), of `fork()` failures or of answers from the
network.

Strong fairness is assumed of three acquisitions only. In `queue-simulation.c`
every thread sleeps in `poll()` for at least 85 ms between two critical sections;
in `talking-heads.c` the child that has posted sleeps for a second before it asks
again, "to give other processes a" chance (`semaphores/talking-heads.c:19`); in both cases the lock is free
for long enough, again and again. In the barrier programs a thread that has the
mutex soon gives it up and then waits for the others, so that it cannot ask for
ever and the one that asks gets it. In the race programs nothing sleeps, a worker
may lose every race for the lock, and no strong fairness is assumed there: the
liveness property still holds because the other worker stops.

In the three compositions every actor's steps are weakly fair, as are the
delivery of pending signals (`Signalled`) and the arrival of a reset (`Arrival`).
Nothing is assumed of users (typing, ending the input and quitting `less` are
actions without fairness, and a `read()` of the terminal is enabled only when they
have happened), of peers, of signals from outside, traps, SIGKILL, the writer of
the FIFO or the loss of datagrams: `ProgramsEnd`, `SignalsTakeEffect` and `StreamsEnd` say where a
program comes to rest, and for whom it then waits.

`FcntlLocking` has no liveness property: nothing in the program keeps a writer
from getting the lock again before anybody else.

### Deadlock

TLC checks for deadlock where a program never ends (`queue`, `barrier`). The
barrier program that does deadlock is covered because a sleeper can still wake up
spuriously in the model; what it is for all threads to be asleep is stated by
`DeadlockOnlyByMissedRound`. The other programs end, or wait by design for
somebody who need not come; where each may stop is part of the liveness
properties.

## 4. Theorems

All proofs follow the same scheme: an inductive invariant `IInv`, shown to hold
initially, to be kept by every action (one step per action), and to imply the
property.

| theorem | states | for every |
|---|---|---|
| `QueueTypeCorrect` | `QueueSafeSpec => []QueueTypeOK` | capacity that is positive |
| `QueueNoLostWakeup` | `QueueSafeSpec => []NoLostWakeup` | the same |
| `QueueRefinement` | every step of the program is a step of the abstract queue or a stutter | the same |
| `BarrierTypeCorrect` | `SafeSpec /\ [][WholeRounds]_vars => []TypeOK` | number of threads and width of an `int` |
| `FixedLeavesNobodyBehind` | the same `=> []NobodyLeftBehind` | the same |
| `DeadlockNeedsMissedRound` | the same `=> []DeadlockOnlyByMissedRound` | the same |
| `BarrierRefinement` | the same `=> LinesAreBarriers` | the same |
| `SynchronizedSeesNoRace` | `SafeSpec => []NoRaceSeen` | number of signals, value of a leftover semaphore |
| `RaceTypeCorrect` | `SafeSpec => []TypeOK` | the same |
| `OneSignalReaps` | `SafeSpec => []ParentReapsChild` | the same |
| `SemaphoreRemoved` | `SafeSpec => []NoLeakedSemaphore` | the same |
| `HeadsConserveUnits` | `SafeSpec => []UnitsAreConserved` | number of children up to the program's own limit of 10, initial values, number of signals |
| `HeadsTypeCorrect` | `SafeSpec => []TypeOK` | the same |
| `ParentCounts` | `SafeSpec => []ParentMissesFew` | the same |
| `FcntlTypeCorrect` | `Spec => []TypeOK` | finite set of writers, even length of at least 4 |
| `SecondHalfIsUniform` | `Spec => []SecondHalfUniform` | the same |
| `FileStaysShort` | `Spec => []InsideTheFile` | the same |
| `ChangedUnderLock` | `Spec => WrittenUnderLock` | the same |
| `ConnectTypeCorrect` | `SafeSpec => []TypeOK` | number of hosts, of their addresses and of places in `sockets[]`, `TIMEOUT` |
| `CountersAgree` | `SafeSpec => []Accounting` | the same |
| `VerdictsAreTrue` | `SafeSpec => []VerdictsTrue` | the same |
| `ChildMutex` | `Spec => []InheritedMutex` | number of threads (at least three) |
| `ExitStatuses` | `Spec => []Verdicts` | the same |
| `ThreadsPrintTheirOwn` | `Spec => []OwnArgument` | the same, and number of turns |
| `NoAdditionLost` | `Spec => []AdditionsKept` | width of the sum, number of cycles below it, and -1 |
| `ThreadTypeCorrect` | `Spec => []TypeOK` | number of threads and turns, width of the sum |
| `KilledOnlyWhenUnprepared` | `Spec => []KilledOnlyUnprepared` | number of signals from outside, set of queued values, semaphore |
| `BallInOnePlace` | `Spec => []OneBall` | the same |
| `ReportsTrue` | `Spec => []ReportsAreTrue` | the same |
| `SignalTypeCorrect` | `Spec => []TypeOK` | the same |
| `LockFileExcludes` | `Spec => []OneWorker` | length of the run, stops and kills of the three workers |
| `StreamTypeCorrect` | `Spec => []TypeOK` | amount of data from each source, room in the kernel, number of typed lines |
| `OutputFaithful` | `Spec => []OutputIsInput` | the same |

`SafeSpec` is `Spec` without its fairness (the queue's have its name in front). The assumptions on the constants are
named in the modules that declare them, and TLC evaluates them in every run. Two
are worth a word. The names of the writers of `fcntl-locking.c` are not the
reader's, the mark or the byte a hole is filled with (they are letters in the
program). The number of cycles of `atomic-add.c` is less than the width of the sum:
an `int` that is not negative is less than the number of `unsigned int`s.

* *Queue.* `NoLostWakeup` alone is not inductive. `IInv` adds that the thread at a
  program point under the mutex owns it (so two threads are never there), that
  whoever is in the set of sleepers is in `pthread_cond_wait()`, that the
  consumer's copy is one more than the counter while it decides whether to
  signal, and that `main` never gets there.
* *Barriers.* `on_barrier` modulo the number of threads counts who has arrived in
  the round, and those are in the first waiting loop. This survives the wrap-around
  of the `int` only if the number of threads divides its range; `WholeRounds` says
  that it does, or that `on_barrier` does not pass `INT_MAX`, which takes 2^31
  arrivals. Without it the theorems are false (section 3). The fixed program is in
  one of two phases: a round is being collected, and then everybody in the first loop has arrived and
  the second one may be left; or the round is over, and then everybody is in one
  of the loops and `wokenup` counts the second. In neither phase does a thread
  sleep through the broadcast that is meant for it. For the refinement, printing
  maps to the abstract print, an arrival to the abstract arrival (the one that
  completes the round ends the line), and every other step is a stutter.
* *Race.* `NoRaceSeen` rests on exclusion (the worker in the section owns the
  lock or has taken the unit, and the unit count says how many are in it) and on
  the cells: outside every section they are equal, and inside the owner's they
  are what the owner's progress says. For the POSIX semaphore both are claimed
  if it had at most one unit when it was opened, and until a `sem_wait()` is
  interrupted. `Beginning` says that up to `fork()` there is one process and, before
  `sem_open()`, nothing known of the semaphore. For the ends of the programs `EndInv`
  bounds the POSIX semaphore: together with the workers in the section it is never
  more than what it started with (`Conserved`) unless a `sem_wait()` was interrupted,
  and then by at most one for each worker that was told to stop and is past
  `sem_wait()` (`AlmostConserved`). It counts signals against flags (who was told to stop
  and has another signal pending was signalled twice), and says how the parent got
  past `wait()`.
* *Talking heads.* `IInv` is the types, that children not born yet are not
  talking, and the conservation law itself; the steps are about the cardinality
  of a set that gains or loses one member. `EndInv` adds that a child whose
  `sem_wait()` was interrupted has left its loop, so that there are at most as
  many interruptions as children, and that the parent's counter is the number of
  children reaped and calls interrupted.
* *Record locking.* The position of a writer in its loop gives its position in
  the file, and the lock belongs to the writer in the second half. Under `-L` a
  writer is where it has put its offset; as long as nothing is torn the owner's
  mark and characters reach up to there, and with no writer in the lock the half
  is uniform. With a shared offset, the offset and the writers between `lseek()`
  and `write()` together stay below the length plus the number of writers: a
  `write()` moves one from the second to the first, and an `lseek()` puts the offset
  where it is less than the length.
* *Connect.* The counters are the cardinalities of the sockets opened and of
  those with a verdict, and the descriptor set is the difference. The first loop
  has not been at its address before. Up to the first timeout `select()` watches
  all that is left, so whoever is left at that timeout has not answered. All this
  holds until `sockets[]` overflows, which only a host with more addresses than
  places brings about.
* *Threads.* One invariant for each group of programs. `atfork.c`: the mutex is
  `main()`'s until it waits, and the forker's when it forks between its handlers.
  Exit statuses: what each place of `main()` says of the thread's end. Arguments: each
  thread that was started has the argument its program gives it, the int at that
  address has its value, and where `main()` joins, every thread it is through
  with has ended, so that its frame is there for the others; at the barrier of
  `pthread-barrier.c` nobody who waits has ended. Sums: `Sum` is what has been
  added so far. With `-a` or `-m` the variable is `Sum` modulo the width; without
  them, once a store has undone an addition, the variable and whatever the threads
  have loaded stay below `Sum` for ever. The arithmetic (remainders, 1 + ... + c)
  is in lemmas of its own; no induction is needed. Types: `main()` joins nobody
  before it has started everybody, so that who has been joined has ended; who is
  in the middle of a turn has a turn left, which bounds the turns counted; and no
  mutex and no write lock has two holders. The types of what is added and
  printed come with the other theorems.
* *Signals.* `Kernel` holds whatever program runs: what is pending for somebody who
  was prepared for all he was sent is handled or masked, so a signal ends only
  those who were sent one too early, or whose process was, in the programs with
  threads, or those of `sigwait-with-sync-signals.c` that raise it themselves. The rest of `IInv` has a part for each program, vacuous unless
  that one runs. The steps of a program are shown to keep its own part and
  `Kernel`; that they leave the other programs' alone is one lemma for each family.
  The ball of `ping-pong.c` is with whoever serves, pending for one of the two, or
  in the handler of one of the two, and never in two of these places.
  `sigqueue.c`: the child gets to `exit()` only after its handler has stored the
  value. `sigpending.c`: the signal is pending until it is unblocked, and has been
  caught before `pause()`. `sigwait.c`: the character is there before the signal
  is. Threads: each has the mask `main()` had when it made it. The semaphore: its
  value and those that are ahead of it add up.
* *Lock files.* Counting workers is not inductive. `LockInv` says why there is one:
  as long as nobody was robbed, who works made the file that is there, and there
  is one file, made by one worker, who works unless SIGKILL left it behind.
* *Streams.* `Network` holds whatever program runs: what a peer has sent has been
  read or is there to be read, unless the connection was reset. The servers
  (`Serves`): a connection is in the backlog once, and until it is served; the
  pieces of the peer that is served are the last ones printed, so those of no
  other peer get between them; a connection is left when its peer sends no more
  and all is read. `cat.c`: what has been printed of each file that is done and of
  the one that is read, and what the exit status says of the former.
  `connect.c` and `linger.c`: as long as the connection holds, what has been read
  from the standard input has been sent, but for the piece in hand, and a reset
  leaves a prefix of it. A server is killed only by a write to the peer it serves,
  whose connection is broken (`KilledByPeer`). `write-select.c`: what
  its peer has read is what was written and the kernel does not keep any more.
  UDP: every datagram that was received was sent, and what was too long is cut
  off. `OutputIsInput` is stated with sets of pieces and pairs of positions, not by
  filtering and concatenating, so that it means the same without any induction
  over sequences: the pieces of each source that come out, and for any two of them
  that their order is that of the source.

Only model-checked: every liveness property (`EveryoneGetsThrough`, `CtrlCEnds`,
`EndsWithVerdicts`, `ProgramsEnd`, `SignalsTakeEffect`, `StreamsEnd`) and the
progress part of `ImplementsQueue`. Fairness and `ENABLED` are out of the prover's
reach. Every other property that a passing run checks is a theorem.

## 5. Not modelled, and why

* Printing, colours, argument parsing, usage messages, statistics.
* Failures of calls whose only consequence is `err()` before anything is shared
  (`mmap()`, `sem_open()`, `open()`, `pthread_create()`).
* Programs in which one actor makes one call after another: `lockf.c`,
  `up-to-listen-only.c`, `pthread-rwlock-limit.c` (counts how often a lock can be
  taken), `pthread-cleanup.c`, `setjmp.c`, `pthread-stack-overflow.c`,
  `wrong-err-use.c`, `sleep/`, and the signal programs with one signal to
  themselves (`killing-myself.c`, `div-by-zero.c`, `sigsegv.c`,
  `catch-SIGSEGV.c`, `check-existence.c`). `forkall.c` exists on Solaris only.
* The remaining programs on processes, files and memory, name resolution, build, linking and language
  demonstrations: sequential programs without state of their own, or about the
  compiler and the linker. `cstyle.pl` is a third-party tool.
* Memory models weaker than interleaving: the shared cells are bytes or `int`s,
  written one at a time; the unsynchronized programs already show the race.

## 6. State of the development

The order in which the models were written is that of the table in section 2. Every
component of section 1 but the last is modelled, as far as section 5 does not
say otherwise, and every safety property that a passing run checks is proved for all values of
the constants.

What could be added: the programs section 5 leaves out, if one of them grows a
second actor; more peers than two in `Sockets`, more workers than three in
`LockFile` and more files than two for `cat.c`, numbers that are definitions and
not constants, so that the theorems too are about these; and proofs of the
liveness properties, which need a prover that knows fairness.
