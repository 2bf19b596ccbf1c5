---------------------------- MODULE Dissemination ----------------------------
(***************************************************************************)
(* What the replication of the operation log promises, without saying how: *)
(* every node numbers its own operations 1, 2, 3, ..., an operation is     *)
(* known first to the node that wrote it, a node learns it only from a     *)
(* node that knows it, and nobody ever forgets one.                        *)
(***************************************************************************)
EXTENDS Naturals

CONSTANT Node

\* An operation is identified by (src_node, src_seq): store.go's unique key.
Op == [src : Node, seq : Nat \ {0}]

VARIABLES
  issued,   \* issued[n]: how many operations node n has written
  known     \* known[n]: the operations node n has in its log

dvars == <<issued, known>>

Init ==
  /\ issued = [n \in Node |-> 0]
  /\ known  = [n \in Node |-> {}]

\* Node n writes its next operation.
Write(n) ==
  /\ issued' = [issued EXCEPT ![n] = @ + 1]
  /\ known'  = [known EXCEPT ![n] = @ \cup {[src |-> n, seq |-> issued[n] + 1]}]

\* Node n learns from node p one operation that p knows.
Learn(n, p) ==
  /\ \E o \in known[p] : known' = [known EXCEPT ![n] = @ \cup {o}]
  /\ UNCHANGED issued

Next ==
  \/ \E n \in Node : Write(n)
  \/ \E n, p \in Node : Learn(n, p)

Spec == Init /\ [][Next]_dvars
=============================================================================
