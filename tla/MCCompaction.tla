---------------------------- MODULE MCCompaction ----------------------------
(* Instances of Compaction for TLC. *)
EXTENDS Compaction

Two    == 1 .. 2
TwoRec == {"q", "r"}
NoSkew == [n \in Node |-> 0]

\* Node 1 writes, is pulled up to date and never collects; node 2 deletes,
\* collects, loses records and crashes, and receives the writes of 1 late.
UserMC   == << [type : {"upsert"}, key : {"q", "r"}],
               [type : {"upsert", "delete"}, key : {"r"}] >>
WritesMC == <<1, 2>>
PullMC   == <<{2}, {}>>
WantedMC == <<{}, {1}>>
TimesMC  == <<{}, {2}>>
=============================================================================
