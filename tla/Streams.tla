------------------------------- MODULE Streams ------------------------------
(***************************************************************************)
(* The programs that move data through pipes, sockets and files, or wait   *)
(* for a file to go away.  What they share: who is where, and stdin of     *)
(* those that read it.  Actor 0 is the program or the parent, 1 and 2 are  *)
(* its children or its clients.                                            *)
(***************************************************************************)
EXTENDS Integers, Sequences, FiniteSets

CONSTANT K   \* bound: how many pieces of data a source has

ASSUME StreamsAssumption == K \in Nat \ {0}

VARIABLES program, opt, pc,
          given    \* pieces stdin has given so far; its end, or an error, is the last one

Actors == 0 .. 2
commandLine == <<program, opt>>

Is(p) == program = p
At(a, l) == pc[a] = l
Goto(a, l) == pc' = [pc EXCEPT ![a] = l]
Moves(a, l, m) == At(a, l) /\ Goto(a, m)

\* A process that ended, by itself, through err() or through a signal.
Dead(a) == pc[a] \in {"ended", "failed", "killed"}

IsPrefixOf(s, t) == Len(s) <= Len(t) /\ \A k \in DOMAIN s : s[k] = t[k]
=============================================================================
