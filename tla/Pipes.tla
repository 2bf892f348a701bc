-------------------------------- MODULE Pipes -------------------------------
(***************************************************************************)
(* End of file and broken pipes as a matter of who holds which end:        *)
(* pipe/deadlock-in-read.c, dead-lock/self-dead-lock.c, broken-pipe.c,     *)
(* countdown.c, pipe-and-fork.c and fifo/open-sleep-read.c.                *)
(***************************************************************************)
EXTENDS Streams

VARIABLES reads,    \* who holds a descriptor of the read end
          writes,   \* who holds one of the write end
          inPipe,   \* pieces of data in the pipe
          made,     \* history: pieces written
          taken     \* history: pieces read

pipeVars == <<reads, writes, inPipe, made, taken>>

PipePrograms == {"deadlockinread", "selfdeadlock", "brokenpipe", "countdown", "pipeandfork",
                 "fifo"}

PipesInit == reads = {} /\ writes = {} /\ inPipe = 0 /\ made = 0 /\ taken = 0

Ends(r, w) == reads' = r /\ writes' = w /\ UNCHANGED <<inPipe, made, taken>>

\* read() returns data, or 0 when there is none and nobody can write any more.
ReadsData(a, l, m) == /\ Moves(a, l, m) /\ inPipe > 0
                      /\ inPipe' = inPipe - 1
                      /\ taken' = taken + 1
                      /\ UNCHANGED <<reads, writes, made>>

ReadsEof(a, l, m) == /\ inPipe = 0 /\ writes = {}
                     /\ Moves(a, l, m)
                     /\ UNCHANGED pipeVars

\* write(): SIGPIPE when nobody can read.
Writes(a, l, m) == /\ At(a, l)
                   /\ IF reads = {}
                      THEN /\ Goto(a, "killed")
                           /\ reads' = reads \ {a} /\ writes' = writes \ {a}
                           /\ UNCHANGED <<inPipe, made, taken>>
                      ELSE /\ Goto(a, m)
                           /\ inPipe' = inPipe + 1 /\ made' = made + 1
                           /\ UNCHANGED <<reads, writes, taken>>
-----------------------------------------------------------------------------
(* One process.  CLOSE_WRITE_END is the option "close".                    *)

DeadlockInRead == \/ Moves(0, "start", IF opt = "close" THEN "close" ELSE "read") /\ Ends({0}, {0})
                  \/ Moves(0, "close", "read") /\ Ends({0}, {})
                  \/ ReadsEof(0, "read", "ended")

\* O_RDWR: one descriptor for both ends.
SelfDeadlock == \/ Moves(0, "start", "read") /\ Ends({0}, {0})
                \/ ReadsEof(0, "read", "ended")

BrokenPipe == \/ Moves(0, "start", "close") /\ Ends({0}, {0})
              \/ Moves(0, "close", "write") /\ Ends({}, {0})
              \/ Writes(0, "write", "ended")
-----------------------------------------------------------------------------
(* countdown.c: the children hold the write end until they exit.  A fork() *)
(* that fails makes no child, and is not noticed.                          *)

CountdownForks(c) == /\ At(0, IF c = 1 THEN "start" ELSE "fork2")
                     /\ \E born \in BOOLEAN :
                           /\ pc' = [pc EXCEPT ![0] = IF c = 1 THEN "fork2" ELSE "close",
                                               ![c] = IF born THEN "close0" ELSE "unborn"]
                           /\ Ends({0} \cup reads \cup (IF born THEN {c} ELSE {}),
                                   {0} \cup writes \cup (IF born THEN {c} ELSE {}))

\* As Countdown, without close(p[1]).
CountdownKeepsEnd == \/ CountdownForks(1) \/ CountdownForks(2)
                     \/ Moves(0, "close", "read") /\ UNCHANGED pipeVars
                     \/ ReadsEof(0, "read", "ended")

Countdown == \/ CountdownForks(1) \/ CountdownForks(2)
             \/ Moves(0, "close", "read") /\ Ends(reads, writes \ {0})
             \/ ReadsEof(0, "read", "ended")

CountdownChild(c) == \/ Moves(c, "close0", "sleep") /\ Ends(reads \ {c}, writes)
                     \/ Moves(c, "sleep", "ended") /\ Ends(reads, writes \ {c})
-----------------------------------------------------------------------------
(* pipe-and-fork.c: the child becomes ls and writes (or exits, if execl()  *)
(* fails), the parent becomes less.                                        *)

PipeAndFork == \/ /\ At(0, "start")
                  /\ \/ /\ pc' = [pc EXCEPT ![0] = "close", ![1] = "close"]
                        /\ Ends({0, 1}, {0, 1})
                     \/ Goto(0, "failed") /\ UNCHANGED pipeVars
               \/ Moves(0, "close", "less") /\ Ends(reads, writes \ {0})

\* less reads on when the user wants to see more, and ends when he quits (or at
\* once, if there is no less).
Less == /\ Is("pipeandfork")
        /\ \/ ReadsData(0, "less", "less")
           \/ Moves(0, "less", "ended") /\ Ends(reads \ {0}, writes)

PipeAndForkChild == \/ Moves(1, "close", "ls") /\ Ends(reads \ {1}, writes)
                    \/ made < K /\ Writes(1, "ls", "ls")
                    \/ Moves(1, "ls", "ended") /\ Ends(reads, writes \ {1})
-----------------------------------------------------------------------------
(* open-sleep-read.c reads a FIFO twice; 1 is somebody who writes to it    *)
(* when he likes.  open() of a FIFO waits until the other side has been    *)
(* opened, be it closed again by now.                                      *)

OpenSleepRead == \/ Moves(0, "start", "opening") /\ Ends({0}, writes)
                 \/ ~At(1, "unborn") /\ Moves(0, "opening", "read1") /\ UNCHANGED pipeVars
                 \/ ReadsData(0, "read1", "read2") \/ ReadsEof(0, "read1", "read2")
                 \/ ReadsData(0, "read2", "ended") \/ ReadsEof(0, "read2", "ended")

FifoWriter == /\ Is("fifo")
              /\ \/ 0 \in reads /\ Moves(1, "unborn", "write") /\ Ends(reads, {1})
                 \/ made < K /\ ~Dead(0) /\ Writes(1, "write", "write")
                 \/ Moves(1, "write", "ended") /\ Ends(reads, {})
-----------------------------------------------------------------------------
PipeStep(a) == \/ Is("deadlockinread") /\ a = 0 /\ DeadlockInRead
               \/ Is("selfdeadlock") /\ a = 0 /\ SelfDeadlock
               \/ Is("brokenpipe") /\ a = 0 /\ BrokenPipe
               \/ Is("countdown") /\ a = 0 /\ Countdown
               \/ Is("countdown") /\ a # 0 /\ CountdownChild(a)
               \/ Is("pipeandfork") /\ a = 0 /\ PipeAndFork
               \/ Is("pipeandfork") /\ a = 1 /\ PipeAndForkChild
               \/ Is("fifo") /\ a = 0 /\ OpenSleepRead

PipeOutside == Less \/ FifoWriter
=============================================================================
