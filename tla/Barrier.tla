------------------------------ MODULE Barrier -------------------------------
(***************************************************************************)
(* What the barrier programs promise: "Each line represents one barrier".  *)
(* Every thread prints its ID once on the current line, arrives at the     *)
(* barrier, and prints again only after everybody has arrived, when the    *)
(* last one ends the line.                                                 *)
(***************************************************************************)
EXTENDS Integers

CONSTANT Threads

VARIABLES line,        \* how often each thread's ID is on the current line
          arrived      \* the threads that have arrived in the current round

vars == <<line, arrived>>

Blank == [t \in Threads |-> 0]

Init == line = Blank /\ arrived = {}

PrintID(t) == /\ line[t] = 0
              /\ line' = [line EXCEPT ![t] = 1]
              /\ UNCHANGED arrived

Arrive(t) == /\ line[t] = 1
             /\ t \notin arrived
             /\ IF arrived \cup {t} = Threads
                THEN line' = Blank /\ arrived' = {}
                ELSE UNCHANGED line /\ arrived' = arrived \cup {t}

Next == \E t \in Threads : PrintID(t) \/ Arrive(t)

Spec == Init /\ [][Next]_vars
=============================================================================
