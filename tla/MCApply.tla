------------------------------ MODULE MCApply ------------------------------
(* Instances of Apply for TLC. *)
EXTENDS Apply

Two    == 1 .. 2
OneCol == {"c"}
OneRec == {"r"}
RecCol == [k \in Rec |-> "c"]

\* The collection exists everywhere (a migration), or is yet to be created.
Present == [c \in Col |-> 1]
Absent  == [c \in Col |-> 0]

\* Both nodes write records.
RecordWriters     == [n \in Node |-> {"upsert", "delete"}]
RecordWriteCounts == <<2, 1>>

\* Node 1 writes one record, node 2 applies.
OneWriter     == <<{"upsert"}, {}>>
OneWriteCount == <<1, 0>>

\* Node 1 creates the collection and writes records, node 2 drops it.
Creators      == <<{"colUpsert", "upsert"}, {"colDelete"}>>
CreatorWrites == <<3, 1>>
=============================================================================
