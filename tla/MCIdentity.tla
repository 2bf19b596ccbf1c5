----------------------------- MODULE MCIdentity -----------------------------
(* Instances of Identity for TLC. *)
EXTENDS Identity

\* The original has id 2, a third process id 4; 1 and 3 are fresh.  The seed of the
\* clone is the original, or both have the third as their seed; processes exchange
\* operations with the seed, and it with them.
FirstIdMC == [p \in {1, 3} |-> IF p = 1 THEN 2 ELSE 4]
OriginalSeeds == <<0, 1, 1>>
OtherSeeds    == <<3, 3, 0>>
Config(s, p, t, e, c) ==
  [seed |-> s, pullOnly |-> p, strict |-> t, events |-> e, calls |-> c]
Star(c) == [p \in Process |-> IF p = c THEN Process \ {c} ELSE {c}]
ConfigsMC ==
  {Config(OriginalSeeds, {2}, {}, 2, Star(1)), Config(OtherSeeds, {}, {}, 2, Star(3)),
   Config(OtherSeeds, {}, {2}, 2, Star(3)), Config(OriginalSeeds, {}, {2}, 2, Star(1))}
WritesMC == <<2, 1, 0>>
=============================================================================
