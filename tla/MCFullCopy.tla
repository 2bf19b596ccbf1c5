---------------------------- MODULE MCFullCopy ----------------------------
(* Instances of FullCopy for TLC. *)
EXTENDS FullCopy

\* Users of node 2, the seed, delete what node 1 wrote; users of node 1 write a record
\* and a collection.
Any(R)   == [type : {"upsert", "delete"}, key : R]
Ups(R)   == [type : {"upsert"}, key : R]
WritesMC == <<2, 1>>
UserMC   == <<Ups({"r", "c"}), Any({"r"})>>
=============================================================================
