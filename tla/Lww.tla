-------------------------------- MODULE Lww --------------------------------
(***************************************************************************)
(* What the components share of operations, versions and vectors: the      *)
(* last-write-wins order, and how vectors follow a log and one another.    *)
(***************************************************************************)
EXTENDS Hlc, FiniteSets

Larger(a, b) == IF a >= b THEN a ELSE b

\* decodeHLC
ClockOf(h) == [physical |-> h \div LogicalSize, logical |-> h % LogicalSize]

\* (mutant) no tie-break on the node id.
LessByClock(a, b) == a.hlc < b.hlc

\* lwwLess: by timestamp, then by node id.
Less(a, b) == a.hlc < b.hlc \/ (a.hlc = b.hlc /\ a.src < b.src)

\* advanceVector: how far the operations of src are contiguous in `ops`.
Contiguous(ops, src, cur) ==
  CHOOSE next \in cur .. cur + Cardinality(ops) :
    /\ \A s \in cur + 1 .. next : \E o \in ops : o.src = src /\ o.seq = s
    /\ ~ \E o \in ops : o.src = src /\ o.seq = next + 1

\* adoptVector: node n takes over what `theirs` has more of, not of itself.
Adopted(mine, theirs, n) ==
  [src \in DOMAIN mine |-> IF src = n THEN mine[src] ELSE Larger(mine[src], theirs[src])]
=============================================================================
