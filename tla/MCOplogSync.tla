----------------------------- MODULE MCOplogSync -----------------------------
(* Instances of OplogSync for TLC. *)
EXTENDS OplogSync

Two   == 1 .. 2
Three == 1 .. 3

\* Node 1 writes twice, the others relay.
TwoFromOne == [n \in Node |-> IF n = 1 THEN 2 ELSE 0]

\* Three nodes: 1 pushes to 2, 2 pulls from 1, 3 pulls from 2.
ChainPush == <<{2}, {}, {}>>
ChainPull == <<{}, {1}, {2}>>

\* Three nodes: 2 relays what 1 pushes, and 3 also pulls from 2.
RelayPush == <<{2}, {3}, {}>>
RelayPull == <<{}, {}, {2}>>

\* Two nodes: 1 pushes to 2, 2 pulls from 1.
PairPush == <<{2}, {}>>
PairPull == <<{}, {1}>>
=============================================================================
