---------------------------- MODULE BoundedQueue ----------------------------
(***************************************************************************)
(* What cond-variables/queue-simulation.c promises of its message queue:   *)
(* messages are put one at a time while there is room and taken one at a   *)
(* time while there are any, and neither side is kept from it forever.     *)
(***************************************************************************)
EXTENDS Integers

CONSTANT Capacities    \* the capacities the queue may be created with

VARIABLES n,           \* number of messages in the queue
          cap          \* the queue's capacity, fixed at creation

Init == n = 0 /\ cap \in Capacities

Put == n < cap /\ n' = n + 1 /\ UNCHANGED cap

Get == n > 0 /\ n' = n - 1 /\ UNCHANGED cap

Next == Put \/ Get

SafeSpec == Init /\ [][Next]_<<n, cap>>

Spec == SafeSpec /\ WF_<<n, cap>>(Put) /\ WF_<<n, cap>>(Get)
=============================================================================
