----------------------------- MODULE MCSnapshot -----------------------------
(* Instances of Snapshot for TLC. *)
EXTENDS Snapshot

Two     == 1 .. 2
OneCol  == {1}
TwoRec  == {<<1, 1>>, <<1, 2>>}
Upserts(R) == [type : {"upsert"}, key : R]
Deletes(R) == [type : {"delete"}, key : R]

\* Node 1 serves and collects, node 2 joins or falls behind and hears of what node 1
\* writes now and then, node 3 writes what node 1 may hear of.
Three    == 1 .. 3
WritesMC == <<2, 1, 1>>
UserMC   == <<Upserts({<<1, 1>>}) \cup Deletes({<<1, 1>>}), Upserts({<<1, 1>>}), Upserts({<<1, 2>>})>>
PullMC   == <<{}, {1}, {}>>
WantedMC == <<{3}, {1}, {}>>

\* Node 1 writes a record twice while node 2 joins.
OneRec     == {<<1, 1>>}
WritesTorn == <<2, 0>>
UserTorn   == <<Upserts(OneRec), {}>>
PullTorn   == <<{}, {1}>>
NoPush     == [n \in Node |-> {}]
=============================================================================
