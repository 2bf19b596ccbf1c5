-------------------------- MODULE OplogSyncProofs --------------------------
(***************************************************************************)
(* Proofs about OplogSync, for every cluster, batch size and number of     *)
(* writes and restarts.  Inv is inductive; it says of the logs, of the     *)
(* cursors and of every exchange in flight what the steps rely on.         *)
(***************************************************************************)
EXTENDS OplogSync, TLAPS, FiniteSetTheorems

\* An operation in a log was issued by its source.
LogIssued == \A n \in Node : \A o \in Held(n) : o.seq <= localSeq[o.src]

\* A node's own log has every operation the node issued.
LogOwn == \A n \in Node : \A s \in 1 .. localSeq[n] : [src |-> n, seq |-> s] \in Held(n)

\* The push x from p to n carries rows of p's log; as long as p waits for the
\* answer, n has every row that x is past.
PushOK(p, n, x) ==
  /\ x.phase # "idle" => x.at \in 1 .. x.last + 1 /\ x.last <= Len(oplog[p])
  /\ x.waiting =>
       /\ x.phase # "idle" /\ serving[p]
       /\ \A i \in startRow[p] + 1 .. x.at - 1 : oplog[p][i] \in Held(n)
  /\ \A w \in x.write : w.seq <= localSeq[w.src]

\* The pull x has a peer, and its page is a part of that peer's log.
PullOK(x) ==
  /\ x.phase # "idle" => x.peer \in Node
  /\ x.page # {} => x.phase = "ingest"
  /\ x.phase = "ingest" => x.page \subseteq Held(x.peer)
  /\ \A src \in Node : x.vec[src] <= localSeq[src]
  /\ \A w \in x.write : w.seq <= localSeq[w.src]

\* No stored entry is ahead of its source.
VectorIssued == \A n, src \in Node : vector[n][src] <= localSeq[src]

\* A cursor is inside the log, and a process that has not started sends nothing.
CursorInside ==
  \A p \in Node :
    /\ \A n \in Node : pushCursor[p][n] <= Len(oplog[p])
    /\ ~ serving[p] => pushing[p] = {}

Inv ==
  /\ TypeOK /\ LogIssued /\ LogOwn /\ VectorIssued /\ CursorInside /\ PushCursorSound
  /\ \A p, n \in Node : PushOK(p, n, push[p][n])
  /\ \A n \in Node : PullOK(pull[n])

-----------------------------------------------------------------------------
(***************************************************************************)
(* The logs only grow                                                      *)
(***************************************************************************)
LogGrows ==
  \A n \in Node : /\ Len(oplog[n]) <= Len(oplog'[n])
                  /\ \A i \in 1 .. Len(oplog[n]) : oplog'[n][i] = oplog[n][i]

\* What node n receives (or writes) is in its log, and nothing else changes.
Receives(n, o) ==
  /\ Held(n)' = Held(n) \cup {o}
  /\ \A m \in Node \ {n} : Held(m)' = Held(m)

\* Every row of a log is an operation.
LEMMA RowType ==
  ASSUME TypeOK, NEW n \in Node, NEW i \in 1 .. Len(oplog[n])
  PROVE  oplog[n][i] \in Op /\ oplog[n][i] \in Held(n)
BY DEF TypeOK, Held

\* A log is made of operations.
LEMMA HeldType ==
  ASSUME TypeOK, NEW n \in Node
  PROVE  Held(n) \subseteq Op
BY DEF TypeOK, Held

\* Appending an operation (a captured write) extends the log by it.
LEMMA AppendGrows ==
  ASSUME TypeOK, NEW n \in Node, NEW o \in Op,
         oplog' = [oplog EXCEPT ![n] = Append(@, o)]
  PROVE  oplog' \in [Node -> Seq(Op)] /\ LogGrows /\ Receives(n, o)
<1>1. oplog' \in [Node -> Seq(Op)] /\ LogGrows
  BY DEF TypeOK, LogGrows
<1>2. /\ oplog[n] \in Seq(Op) /\ oplog'[n] = Append(oplog[n], o)
      /\ \A m \in Node \ {n} : oplog'[m] = oplog[m]
  BY DEF TypeOK
<1>3. /\ Len(oplog'[n]) = Len(oplog[n]) + 1 /\ Len(oplog[n]) \in Nat
      /\ oplog'[n][Len(oplog[n]) + 1] = o
      /\ \A i \in 1 .. Len(oplog[n]) : oplog'[n][i] = oplog[n][i]
  BY <1>2
<1>4. Held(n)' = Held(n) \cup {o}
  BY <1>3 DEF Held
<1>5. \A m \in Node \ {n} : Held(m)' = Held(m)
  BY <1>2 DEF Held
<1> QED
  BY <1>1, <1>4, <1>5 DEF Receives

\* Storing a received operation keeps the log or extends it by the operation.
LEMMA StoredGrows ==
  ASSUME TypeOK, NEW n \in Node, NEW o \in Op,
         oplog' = [oplog EXCEPT ![n] = Stored(n, o)]
  PROVE  oplog' \in [Node -> Seq(Op)] /\ LogGrows /\ Receives(n, o)
<1>1. CASE o \in Held(n)
  <2>1. oplog' = oplog
    BY <1>1 DEF Stored, TypeOK
  <2> QED
    BY <1>1, <2>1 DEF TypeOK, LogGrows, Receives, Held
<1>2. CASE o \notin Held(n)
  BY <1>2, AppendGrows DEF Stored
<1> QED
  BY <1>1, <1>2

\* A log that grows keeps its operations.
LEMMA HeldGrows ==
  ASSUME TypeOK, LogGrows, NEW n \in Node
  PROVE  Held(n) \subseteq Held(n)'
<1>1. Len(oplog[n]) \in Nat
  BY DEF TypeOK
<1> QED
  BY <1>1 DEF LogGrows, Held

\* The numbers in the state are natural numbers.
LEMMA Numbers ==
  ASSUME TypeOK, NEW n \in Node
  PROVE  /\ Len(oplog[n]) \in Nat /\ startRow[n] \in Nat /\ localSeq[n] \in Nat
         /\ \A m \in Node : pushCursor[n][m] \in Nat /\ vector[n][m] \in Nat
BY DEF TypeOK, Vector

\* So are those of a push.
LEMMA PushNumbers ==
  ASSUME NEW x \in PushState
  PROVE  /\ x.at \in Nat /\ x.last \in Nat /\ x.write \subseteq Op
         /\ x.touched \subseteq Node
BY DEF PushState

\* A push that is sound stays sound while logs and sequences grow.
LEMMA PushKeeps ==
  ASSUME TypeOK, localSeq' \in Vector, oplog' \in [Node -> Seq(Op)], LogGrows, NEW p \in Node, NEW n \in Node, NEW x \in PushState,
         \A m \in Node : localSeq[m] <= localSeq'[m],
         x.waiting => serving'[p] /\ startRow'[p] = startRow[p],
         PushOK(p, n, x)
  PROVE  PushOK(p, n, x)'
<1>0. /\ Len(oplog[p]) \in Nat /\ Len(oplog'[p]) \in Nat
      /\ Len(oplog[p]) <= Len(oplog'[p])
      /\ startRow[p] \in Nat
      /\ x.at \in Nat /\ x.last \in Nat /\ x.write \subseteq Op
      /\ \A m \in Node : localSeq[m] \in Nat /\ localSeq'[m] \in Nat
  BY Numbers, PushNumbers DEF LogGrows, Vector
<1>1. x.phase # "idle" => x.at \in 1 .. x.last + 1 /\ x.last <= Len(oplog'[p])
  BY <1>0 DEF PushOK
<1>2. ASSUME x.waiting
      PROVE  /\ x.phase # "idle" /\ serving'[p]
             /\ \A i \in startRow'[p] + 1 .. x.at - 1 : oplog'[p][i] \in Held(n)'
  <2>1. x.phase # "idle" /\ serving'[p] /\ startRow'[p] = startRow[p]
    BY <1>2 DEF PushOK
  <2>2. ASSUME NEW i \in startRow[p] + 1 .. x.at - 1
        PROVE  oplog'[p][i] \in Held(n)'
    <3>1. i \in 1 .. Len(oplog[p])
      BY <1>0, <2>1, <2>2 DEF PushOK
    <3>2. oplog[p][i] \in Held(n)
      BY <1>2, <2>2 DEF PushOK
    <3> QED
      BY <3>1, <3>2, HeldGrows DEF LogGrows
  <2> QED
    BY <2>1, <2>2
<1>3. \A w \in x.write : w.seq <= localSeq'[w.src]
  BY <1>0 DEF PushOK, Op
<1> QED
  BY <1>1, <1>2, <1>3 DEF PushOK

\* A pull that is sound stays sound while logs and sequences grow.
LEMMA PullKeeps ==
  ASSUME TypeOK, localSeq' \in Vector, oplog' \in [Node -> Seq(Op)], LogGrows, NEW x \in PullState,
         \A m \in Node : localSeq[m] <= localSeq'[m],
         PullOK(x)
  PROVE  PullOK(x)'
<1>0. /\ \A m \in Node : localSeq[m] \in Nat /\ localSeq'[m] \in Nat
      /\ x.vec \in [Node -> Nat] /\ x.write \subseteq Op
      /\ \A w \in Op : w.seq \in Nat /\ w.src \in Node
  BY DEF TypeOK, Vector, PullState, Op
<1>1. x.phase = "ingest" => x.page \subseteq Held(x.peer)'
  BY HeldGrows DEF PullOK
<1>2. \A src \in Node : x.vec[src] <= localSeq'[src]
  BY <1>0 DEF PullOK
<1>3. \A w \in x.write : w.seq <= localSeq'[w.src]
  BY <1>0 DEF PullOK
<1> QED
  BY <1>1, <1>2, <1>3 DEF PullOK

-----------------------------------------------------------------------------
(***************************************************************************)
(* Steps that change one exchange and nothing the invariant says of others *)
(***************************************************************************)
\* A pull moves on, the database does not.
LEMMA PullMoves ==
  ASSUME Inv, NEW n \in Node, NEW x \in PullState, PullOK(x),
         pull' = [pull EXCEPT ![n] = x],
         localSeq' = localSeq, oplog' = oplog, vector' = vector, serving' = serving,
         startRow' = startRow, pushCursor' = pushCursor, pushing' = pushing, push' = push,
         restarts' = restarts, pushWake' \in [Node -> BOOLEAN]
  PROVE  Inv'
<1>1. TypeOK'
  BY DEF Inv, TypeOK
<1>2. LogIssued' /\ LogOwn' /\ VectorIssued' /\ CursorInside' /\ PushCursorSound'
  BY DEF Inv, LogIssued, LogOwn, VectorIssued, CursorInside, PushCursorSound, Held
<1>3. \A p, m \in Node : PushOK(p, m, push[p][m])'
  BY DEF Inv, PushOK, Held
<1>4. \A m \in Node : pull'[m] = IF m = n THEN x ELSE pull[m]
  BY DEF Inv, TypeOK
<1>5. \A m \in Node : PullOK(pull[m])'
  BY <1>4 DEF Inv, PullOK, Held
<1> QED
  BY <1>1, <1>2, <1>3, <1>5 DEF Inv

\* Pushes move on, the database does not.
LEMMA PushMoves ==
  ASSUME Inv,
         push' \in [Node -> [Node -> PushState]],
         \A p, n \in Node : PushOK(p, n, push'[p][n]),
         pushing' \in [Node -> SUBSET Node],
         \A p \in Node : ~ serving[p] => pushing'[p] = {},
         localSeq' = localSeq, oplog' = oplog, vector' = vector, serving' = serving,
         startRow' = startRow, pushCursor' = pushCursor, pull' = pull,
         restarts' = restarts, pushWake' \in [Node -> BOOLEAN]
  PROVE  Inv'
<1>1. TypeOK'
  BY DEF Inv, TypeOK
<1>2. LogIssued' /\ LogOwn' /\ VectorIssued' /\ CursorInside' /\ PushCursorSound'
  BY DEF Inv, LogIssued, LogOwn, VectorIssued, CursorInside, PushCursorSound, Held
<1>3. \A p, m \in Node : PushOK(p, m, push[p][m])'
  BY DEF Inv, PushOK, Held
<1>4. \A m \in Node : PullOK(pull[m])'
  BY DEF Inv, PullOK, Held
<1> QED
  BY <1>1, <1>2, <1>3, <1>4 DEF Inv

\* One push moves on.
LEMMA PushMovesOne ==
  ASSUME Inv, NEW p \in Node, NEW n \in Node, NEW x \in PushState, PushOK(p, n, x),
         push' = [push EXCEPT ![p][n] = x],
         pushing' \in [Node -> SUBSET Node],
         \A q \in Node : ~ serving[q] => pushing'[q] = {},
         localSeq' = localSeq, oplog' = oplog, vector' = vector, serving' = serving,
         startRow' = startRow, pushCursor' = pushCursor, pull' = pull,
         restarts' = restarts, pushWake' \in [Node -> BOOLEAN]
  PROVE  Inv'
<1>1. push' \in [Node -> [Node -> PushState]]
  BY DEF Inv, TypeOK
<1>2. \A q, m \in Node : push'[q][m] = IF q = p /\ m = n THEN x ELSE push[q][m]
  BY DEF Inv, TypeOK
<1>3. \A q, m \in Node : PushOK(q, m, push'[q][m])
  BY <1>2 DEF Inv
<1> QED
  BY <1>1, <1>3, PushMoves

-----------------------------------------------------------------------------
\* The exchanges have their types.
LEMMA ExchangeTypes ==
  ASSUME Inv, NEW n \in Node
  PROVE  /\ pull[n] \in PullState /\ PullOK(pull[n])
         /\ \A p \in Node : push[p][n] \in PushState /\ PushOK(p, n, push[p][n])
BY DEF Inv, TypeOK

\* The idle exchanges have their types, and nothing in them can be wrong.
LEMMA IdleOK ==
  ASSUME Inv
  PROVE  /\ PushIdle \in PushState /\ PullIdle \in PullState /\ PullOK(PullIdle)
         /\ \A p, n \in Node : PushOK(p, n, PushIdle)
<1>1. PushIdle \in PushState /\ PullIdle \in PullState
  BY NodeAssumption DEF PushIdle, PullIdle, PushState, PullState, Vector
<1>2. PullOK(PullIdle)
  BY Numbers DEF PullOK, PullIdle, Inv
<1>3. \A p, n \in Node : PushOK(p, n, PushIdle)
  BY DEF PushOK, PushIdle
<1> QED
  BY <1>1, <1>2, <1>3

\* The vector a node sends or captures is not ahead of the sources.
LEMMA CurrentVectorIssued ==
  ASSUME Inv, NEW n \in Node
  PROVE  /\ CurrentVector(n) \in Vector
         /\ \A src \in Node : CurrentVector(n)[src] <= localSeq[src]
BY Numbers DEF Inv, TypeOK, VectorIssued, CurrentVector, Larger, Vector

\* A scan leaves an entry to be written that an operation of the log bears out.
LEMMA ScanIssued ==
  ASSUME Inv, NEW n \in Node, NEW src \in Node,
         NEW next \in vector[n][src] .. vector[n][src] + Len(oplog[n]),
         ScanStopsAt(n, src, vector[n][src], next), next # vector[n][src]
  PROVE  /\ [src |-> src, seq |-> next] \in Op
         /\ next <= localSeq[src]
<1>1. vector[n][src] \in Nat /\ next \in Nat /\ next > vector[n][src]
  BY Numbers DEF Inv
<1>2. [src |-> src, seq |-> next] \in Held(n)
  BY <1>1 DEF ScanStopsAt
<1> QED
  BY <1>1, <1>2 DEF Inv, LogIssued, Op

\* The entry Scanned leaves to be written.
LEMMA ScannedWrite ==
  ASSUME NEW src \in Node, NEW cur \in Nat, NEW next \in Nat,
         next # cur => [src |-> src, seq |-> next] \in Op /\ next <= localSeq[src]
  PROVE  /\ \A x \in PushState : Scanned(x, src, cur, next) \in PushState
         /\ \A x \in PullState : Scanned(x, src, cur, next) \in PullState
         /\ \A p, n \in Node : \A x \in PushState :
              PushOK(p, n, x) => PushOK(p, n, Scanned(x, src, cur, next))
         /\ \A x \in PullState : PullOK(x) => PullOK(Scanned(x, src, cur, next))
<1> DEFINE w == IF next = cur THEN {} ELSE {[src |-> src, seq |-> next]}
<1>1. w \in SUBSET Op /\ \A o \in w : o.seq <= localSeq[o.src]
  OBVIOUS
<1>2. \A x \in PushState : /\ Scanned(x, src, cur, next) \in PushState
        /\ Scanned(x, src, cur, next) = [x EXCEPT !.touched = @ \ {src}, !.write = w]
  BY <1>1 DEF Scanned, PushState
<1>3. \A x \in PullState : /\ Scanned(x, src, cur, next) \in PullState
        /\ Scanned(x, src, cur, next) = [x EXCEPT !.touched = @ \ {src}, !.write = w]
  BY <1>1 DEF Scanned, PullState
<1> HIDE DEF w
<1>4. ASSUME NEW p \in Node, NEW n \in Node, NEW x \in PushState, PushOK(p, n, x)
      PROVE  PushOK(p, n, Scanned(x, src, cur, next))
  <2> DEFINE y == Scanned(x, src, cur, next)
  <2>0. y = [x EXCEPT !.touched = @ \ {src}, !.write = w]
    BY <1>2
  <2> HIDE DEF y
  <2>1. /\ y.phase = x.phase /\ y.at = x.at /\ y.last = x.last
        /\ y.waiting = x.waiting /\ y.write = w
    BY <2>0 DEF PushState
  <2> QED
    BY <1>1, <1>4, <2>1 DEF PushOK, y
<1>5. ASSUME NEW x \in PullState, PullOK(x)
      PROVE  PullOK(Scanned(x, src, cur, next))
  <2> DEFINE y == Scanned(x, src, cur, next)
  <2>0. y = [x EXCEPT !.touched = @ \ {src}, !.write = w]
    BY <1>3
  <2> HIDE DEF y
  <2>1. /\ y.phase = x.phase /\ y.peer = x.peer /\ y.page = x.page
        /\ y.vec = x.vec /\ y.write = w
    BY <2>0 DEF PullState
  <2> QED
    BY <1>1, <1>5, <2>1 DEF PullOK, y
<1> QED
  BY <1>2, <1>3, <1>4, <1>5

-----------------------------------------------------------------------------
(***************************************************************************)
(* Anti-entropy                                                            *)
(***************************************************************************)
LEMMA StepStartPull ==
  ASSUME Inv, NEW n \in Node, NEW p \in Node, StartPull(n, p)
  PROVE  Inv'
<1> DEFINE x == [PullIdle EXCEPT !.phase = "request", !.peer = p, !.cursor = CurrentVector(n)]
<1>1. x \in PullState
  BY CurrentVectorIssued, IdleOK DEF PullState
<1>2. PullOK(x)
  BY IdleOK DEF PullOK, PullIdle
<1>3. pull' = [pull EXCEPT ![n] = x]
  BY DEF StartPull, SetPull
<1> HIDE DEF x
<1> QED
  BY <1>1, <1>2, <1>3, PullMoves DEF StartPull, persistent, pusher, Inv, TypeOK

\* The peer captures its own vector, which is not ahead of any source.
LEMMA StepServeVector ==
  ASSUME Inv, NEW n \in Node, ServeVector(n)
  PROVE  Inv'
<1> DEFINE x == [pull[n] EXCEPT !.phase = "serving", !.vec = CurrentVector(pull[n].peer)]
<1>1. pull[n].peer \in Node
  BY ExchangeTypes DEF PullOK, ServeVector
<1>2. x \in PullState
  <2>1. pull[n] \in PullState /\ CurrentVector(pull[n].peer) \in Vector
    BY <1>1, CurrentVectorIssued, ExchangeTypes
  <2> QED
    BY <2>1 DEF PullState
<1>3. PullOK(x)
  BY <1>1, ExchangeTypes, CurrentVectorIssued DEF PullOK, PullState, ServeVector
<1>4. pull' = [pull EXCEPT ![n] = x]
  BY DEF ServeVector, SetPull
<1> HIDE DEF x
<1> QED
  BY <1>2, <1>3, <1>4, PullMoves DEF ServeVector, persistent, pusher, Inv, TypeOK

\* The page is a part of the peer's log.
LEMMA StepServePage ==
  ASSUME Inv, NEW n \in Node, ServePage(n)
  PROVE  Inv'
<1>1. pull[n].peer \in Node /\ pull[n] \in PullState /\ PullOK(pull[n])
  BY ExchangeTypes DEF PullOK, ServePage
<1>2. PICK page \in SUBSET Held(pull[n].peer) :
         SetPull(n, IF page = {}
            THEN [pull[n] EXCEPT !.phase = "adopt", !.touched = Advertised(n)]
            ELSE [pull[n] EXCEPT !.phase = "ingest", !.page = page])
  BY DEF ServePage
<1> DEFINE x == IF page = {}
            THEN [pull[n] EXCEPT !.phase = "adopt", !.touched = Advertised(n)]
            ELSE [pull[n] EXCEPT !.phase = "ingest", !.page = page]
<1>3. page \in SUBSET Op
  BY <1>1, HeldType DEF Inv
<1>4. x \in PullState
  BY <1>1, <1>3 DEF PullState, Advertised
<1>5. PullOK(x)
  BY <1>1 DEF PullOK, PullState, ServePage
<1>6. pull' = [pull EXCEPT ![n] = x]
  BY <1>2 DEF SetPull
<1> HIDE DEF x
<1> QED
  BY <1>4, <1>5, <1>6, PullMoves DEF ServePage, persistent, pusher, Inv, TypeOK

\* The entry a pull computes is borne out by the log.
LEMMA StepPullScan ==
  ASSUME Inv, NEW n \in Node, PullScan(n)
  PROVE  Inv'
<1>1. PICK src \in pull[n].touched :
        \E next \in vector[n][src] .. vector[n][src] + Len(oplog[n]) :
          /\ ScanStopsAt(n, src, vector[n][src], next)
          /\ SetPull(n, Scanned(pull[n], src, vector[n][src], next))
  BY DEF PullScan
<1>2. PICK next \in vector[n][src] .. vector[n][src] + Len(oplog[n]) :
          /\ ScanStopsAt(n, src, vector[n][src], next)
          /\ SetPull(n, Scanned(pull[n], src, vector[n][src], next))
  BY <1>1
<1>3. src \in Node /\ pull[n] \in PullState /\ PullOK(pull[n])
  BY <1>1, ExchangeTypes DEF PullState
<1>4. vector[n][src] \in Nat /\ next \in Nat
  BY <1>3, Numbers DEF Inv
<1> DEFINE x == Scanned(pull[n], src, vector[n][src], next)
<1>5. x \in PullState /\ PullOK(x)
  BY <1>2, <1>3, <1>4, ScanIssued, ScannedWrite
<1>6. pull' = [pull EXCEPT ![n] = x]
  BY <1>2 DEF SetPull
<1> HIDE DEF x
<1> QED
  BY <1>5, <1>6, PullMoves DEF PullScan, persistent, pusher, Inv, TypeOK

\* The entry a pull adopts is the captured one, or none.
LEMMA StepAdoptEntry ==
  ASSUME Inv, NEW n \in Node, AdoptEntry(n)
  PROVE  Inv'
<1>1. PICK src, next :
         /\ src \in pull[n].touched
         /\ next \in {Larger(pull[n].vec[src], vector[n][src]), vector[n][src]}
         /\ SetPull(n, Scanned(pull[n], src, vector[n][src], next))
  BY DEF AdoptEntry
<1>2. src \in Node /\ pull[n] \in PullState /\ PullOK(pull[n])
  BY <1>1, ExchangeTypes DEF PullState
<1> DEFINE cur  == vector[n][src]
           x    == Scanned(pull[n], src, cur, next)
<1>3. /\ cur \in Nat /\ next \in Nat /\ next >= cur
      /\ next # cur => next = pull[n].vec[src]
  BY <1>1, <1>2, Numbers DEF Inv, Larger, PullState, Vector
<1>4. next # cur => [src |-> src, seq |-> next] \in Op /\ next <= localSeq[src]
  BY <1>2, <1>3 DEF PullOK, Op
<1> HIDE DEF cur
<1>5. x \in PullState /\ PullOK(x)
  BY <1>2, <1>3, <1>4, ScannedWrite
<1>6. pull' = [pull EXCEPT ![n] = x]
  BY <1>1 DEF SetPull, cur
<1> HIDE DEF x
<1> QED
  BY <1>5, <1>6, PullMoves DEF AdoptEntry, persistent, pusher, Inv, TypeOK

\* The next request starts without a vector of the peer.
LEMMA StepNextPage ==
  ASSUME Inv, NEW n \in Node, NextPage(n)
  PROVE  Inv'
<1> DEFINE x == [pull[n] EXCEPT !.phase = "request", !.vec = PullIdle.vec]
<1>1. x \in PullState /\ PullOK(x)
  BY ExchangeTypes, IdleOK DEF PullState, PullOK, NextPage, PullIdle
<1>2. pull' = [pull EXCEPT ![n] = x]
  BY DEF NextPage, SetPull
<1>3. pushWake' \in [Node -> BOOLEAN]
  BY DEF NextPage, Inv, TypeOK
<1> HIDE DEF x
<1> QED
  BY <1>1, <1>2, <1>3, PullMoves DEF NextPage, persistent, pusher

\* A pull that ends leaves nothing behind.
LEMMA StepPullEnds ==
  ASSUME Inv, NEW n \in Node, PullDone(n) \/ PullFail(n)
  PROVE  Inv'
<1>1. pull' = [pull EXCEPT ![n] = PullIdle]
  BY DEF PullDone, PullFail, SetPull
<1> QED
  BY <1>1, IdleOK, PullMoves DEF PullDone, PullFail, persistent, pusher, Inv, TypeOK

-----------------------------------------------------------------------------
(***************************************************************************)
(* A node receives an operation of another node's log                      *)
(***************************************************************************)
LEMMA Received ==
  ASSUME Inv, NEW n \in Node, NEW q \in Node, NEW o \in Held(q),
         oplog' = oplog \/ oplog' = [oplog EXCEPT ![n] = Stored(n, o)],
         localSeq' = localSeq, vector' = vector, serving' = serving,
         startRow' = startRow, pushCursor' = pushCursor, pushing' = pushing
  PROVE  /\ oplog' \in [Node -> Seq(Op)] /\ LogGrows
         /\ oplog' # oplog => Receives(n, o)
         /\ LogIssued' /\ LogOwn' /\ VectorIssued' /\ CursorInside' /\ PushCursorSound'
         /\ \A p, m \in Node : \A x \in PushState : PushOK(p, m, x) => PushOK(p, m, x)'
         /\ \A x \in PullState : PullOK(x) => PullOK(x)'
<1>0. TypeOK /\ localSeq' \in Vector /\ o \in Op
  BY HeldType DEF Inv, TypeOK
<1>1. /\ oplog' \in [Node -> Seq(Op)] /\ LogGrows
      /\ oplog' # oplog => Receives(n, o)
  <2>1. CASE oplog' = oplog
    BY <1>0, <2>1 DEF TypeOK, LogGrows
  <2>2. CASE oplog' = [oplog EXCEPT ![n] = Stored(n, o)]
    BY <1>0, <2>2, StoredGrows
  <2> QED
    BY <2>1, <2>2
<1>2. LogIssued'
  <2>1. CASE oplog' = oplog
    BY <2>1 DEF Inv, LogIssued, Held
  <2>2. CASE oplog' # oplog
    BY <1>0, <1>1, <2>2 DEF Inv, LogIssued, Receives
  <2> QED
    BY <2>1, <2>2
<1>3. LogOwn'
  BY <1>0, <1>1, HeldGrows DEF Inv, LogOwn
<1>4. VectorIssued'
  BY DEF Inv, VectorIssued
<1>5. CursorInside'
  <2>1. \A p \in Node : /\ Len(oplog[p]) \in Nat /\ Len(oplog'[p]) \in Nat
                        /\ Len(oplog[p]) <= Len(oplog'[p])
    BY <1>0, <1>1, Numbers DEF LogGrows
  <2> QED
    BY <1>0, <2>1, Numbers DEF Inv, CursorInside
<1>6. PushCursorSound'
  <2> SUFFICES ASSUME NEW p \in Node, NEW m \in Node,
                      NEW i \in startRow[p] + 1 .. pushCursor[p][m]
               PROVE  oplog'[p][i] \in Held(m)'
    BY DEF PushCursorSound
  <2>1. i \in 1 .. Len(oplog[p])
    BY <1>0, Numbers DEF Inv, CursorInside
  <2>2. oplog[p][i] \in Held(m)
    BY DEF Inv, PushCursorSound
  <2> QED
    BY <1>0, <1>1, <2>1, <2>2, HeldGrows DEF LogGrows
<1>7. \A m \in Node : localSeq[m] <= localSeq'[m]
  BY <1>0, Numbers
<1>8. ASSUME NEW p \in Node, NEW m \in Node, NEW x \in PushState, PushOK(p, m, x)
      PROVE  PushOK(p, m, x)'
  <2>1. x.waiting => serving'[p] /\ startRow'[p] = startRow[p]
    BY <1>8 DEF PushOK
  <2> QED
    BY <1>0, <1>1, <1>7, <1>8, <2>1, PushKeeps
<1>9. ASSUME NEW x \in PullState, PullOK(x)
      PROVE  PullOK(x)'
  BY <1>0, <1>1, <1>7, <1>9, PullKeeps
<1> QED
  BY <1>1, <1>2, <1>3, <1>4, <1>5, <1>6, <1>8, <1>9

\* Passing an operation of the page leaves a sound pull.
LEMMA PagedOK ==
  ASSUME NEW x \in PullState, NEW o \in Op, PullOK(x)
  PROVE  Paged(x, o) \in PullState /\ PullOK(Paged(x, o))
<1> DEFINE c == [x.cursor EXCEPT ![o.src] = Larger(@, o.seq)]
           g == x.page \ {o}
           y == [x EXCEPT !.page = g, !.cursor = c]
<1>1. c \in Vector /\ g \subseteq x.page /\ g \in SUBSET Op
  BY DEF PullState, Vector, Op, Larger
<1>2. Paged(x, o) = y
  BY DEF Paged, PullState
<1> HIDE DEF c, g
<1>3. /\ y \in PullState /\ y.phase = x.phase /\ y.peer = x.peer /\ y.page = g
      /\ y.vec = x.vec /\ y.write = x.write
  BY <1>1 DEF PullState
<1> HIDE DEF y
<1>4. PullOK(y)
  BY <1>1, <1>3 DEF PullOK
<1> QED
  BY <1>2, <1>3, <1>4

\* The puller receives an operation of its page, which the peer has.
LEMMA StepPullOp ==
  ASSUME Inv, NEW n \in Node, PullOp(n)
  PROVE  Inv'
<1>1. PICK o \in pull[n].page :
        /\ SetPull(n, [Paged(pull[n], o) EXCEPT !.touched = @ \cup ({o.src} \ {n})])
        /\ oplog' = oplog \/ oplog' = [oplog EXCEPT ![n] = Stored(n, o)]
        /\ UNCHANGED <<localSeq, vector, serving, pusher, push, restarts>>
  BY DEF PullOp
<1>2. /\ pull[n] \in PullState /\ PullOK(pull[n])
      /\ pull[n].peer \in Node /\ o \in Held(pull[n].peer) /\ o \in Op
  BY <1>1, ExchangeTypes DEF PullOK, PullState
<1>3. PICK y \in PullState : PullOK(y) /\ pull' = [pull EXCEPT ![n] = y]
  <2> DEFINE z == Paged(pull[n], o)
  <2>1. z \in PullState /\ PullOK(z)
    BY <1>2, PagedOK
  <2>2. /\ [z EXCEPT !.touched = @ \cup ({o.src} \ {n})] \in PullState
        /\ PullOK([z EXCEPT !.touched = @ \cup ({o.src} \ {n})])
    <3> HIDE DEF z
    <3> QED
      BY <1>2, <2>1 DEF PullState, Op, PullOK
  <2> QED
    BY <1>1, <2>1, <2>2 DEF SetPull
<1>4. /\ localSeq' = localSeq /\ vector' = vector /\ serving' = serving
      /\ startRow' = startRow /\ pushCursor' = pushCursor /\ pushing' = pushing
      /\ pushWake' = pushWake /\ push' = push /\ restarts' = restarts
  BY <1>1 DEF pusher
<1>5. /\ oplog' \in [Node -> Seq(Op)]
      /\ LogIssued' /\ LogOwn' /\ VectorIssued' /\ CursorInside' /\ PushCursorSound'
      /\ \A p, m \in Node : \A x \in PushState : PushOK(p, m, x) => PushOK(p, m, x)'
      /\ \A x \in PullState : PullOK(x) => PullOK(x)'
  BY <1>1, <1>2, <1>4, Received
<1>6. TypeOK'
  BY <1>3, <1>4, <1>5 DEF Inv, TypeOK
<1>7. \A p, m \in Node : PushOK(p, m, push[p][m])'
  BY <1>4, <1>5, ExchangeTypes
<1>8. \A m \in Node : PullOK(pull[m])'
  <2>1. \A m \in Node : pull'[m] = IF m = n THEN y ELSE pull[m]
    BY <1>3 DEF Inv, TypeOK
  <2>2. \A m \in Node : pull'[m] \in PullState /\ PullOK(pull'[m])
    BY <1>3, <2>1, ExchangeTypes
  <2> QED
    BY <1>5, <2>2
<1> QED
  BY <1>5, <1>6, <1>7, <1>8 DEF Inv

\* One stored entry moves to a value its source has reached.
LEMMA EntryStored ==
  ASSUME Inv, NEW n \in Node, NEW w \in Op, w.seq <= localSeq[w.src],
         vector' = [vector EXCEPT ![n][w.src] = w.seq], localSeq' = localSeq
  PROVE  vector' \in [Node -> Vector] /\ VectorIssued'
<1>1. w.src \in Node /\ w.seq \in Nat
  BY DEF Op
<1>2. vector' \in [Node -> Vector]
  BY <1>1 DEF Inv, TypeOK, Vector
<1>3. \A m, src \in Node : vector'[m][src] = IF m = n /\ src = w.src THEN w.seq ELSE vector[m][src]
  BY <1>1 DEF Inv, TypeOK, Vector
<1> QED
  BY <1>2, <1>3 DEF Inv, VectorIssued

\* The puller stores an entry that is not ahead of its source.
LEMMA StepPullStore ==
  ASSUME Inv, NEW n \in Node, PullStore(n)
  PROVE  Inv'
<1>1. PICK w \in pull[n].write :
        /\ vector' = [vector EXCEPT ![n][w.src] = w.seq]
        /\ SetPull(n, [pull[n] EXCEPT !.write = {}])
        /\ UNCHANGED <<localSeq, oplog, serving, pusher, push, restarts>>
  BY DEF PullStore
<1>2. pull[n] \in PullState /\ PullOK(pull[n]) /\ w \in Op /\ w.seq <= localSeq[w.src]
  BY <1>1, ExchangeTypes DEF PullOK, PullState
<1>3. PICK y \in PullState : PullOK(y) /\ pull' = [pull EXCEPT ![n] = y]
  BY <1>1, <1>2 DEF PullOK, PullState, SetPull
<1>4. /\ localSeq' = localSeq /\ oplog' = oplog /\ serving' = serving
      /\ startRow' = startRow /\ pushCursor' = pushCursor /\ pushing' = pushing
      /\ pushWake' = pushWake /\ push' = push /\ restarts' = restarts
  BY <1>1 DEF pusher
<1>5. vector' \in [Node -> Vector] /\ VectorIssued'
  BY <1>1, <1>2, <1>4, EntryStored
<1>6. TypeOK'
  BY <1>3, <1>4, <1>5 DEF Inv, TypeOK
<1>7. LogIssued' /\ LogOwn' /\ CursorInside' /\ PushCursorSound'
  BY <1>4 DEF Inv, LogIssued, LogOwn, CursorInside, PushCursorSound, Held
<1>8. \A p, m \in Node : PushOK(p, m, push[p][m])'
  BY <1>4 DEF Inv, PushOK, Held
<1>9. \A m \in Node : PullOK(pull[m])'
  <2>1. \A m \in Node : pull'[m] = IF m = n THEN y ELSE pull[m]
    BY <1>3 DEF Inv, TypeOK
  <2> SUFFICES ASSUME NEW m \in Node
               PROVE  PullOK(pull[m])'
    OBVIOUS
  <2>2. PullOK(pull'[m])
    BY <1>3, <2>1, ExchangeTypes
  <2> QED
    BY <1>4, <2>2 DEF PullOK, Held
<1> QED
  BY <1>5, <1>6, <1>7, <1>8, <1>9 DEF Inv

-----------------------------------------------------------------------------
(***************************************************************************)
(* The pusher and the handler of a push                                    *)
(***************************************************************************)
LEMMA StepPushRound ==
  ASSUME Inv, NEW n \in Node, PushRound(n)
  PROVE  Inv'
<1>1. pushing' \in [Node -> SUBSET Node] /\ pushWake' \in [Node -> BOOLEAN]
  BY PeersAssumption DEF PushRound, Inv, TypeOK
<1>2. \A p \in Node : ~ serving[p] => pushing'[p] = {}
  BY DEF PushRound, Inv, TypeOK, CursorInside
<1>3. push' = push
  BY DEF PushRound
<1>4. push' \in [Node -> [Node -> PushState]] /\ \A p, m \in Node : PushOK(p, m, push'[p][m])
  BY <1>3 DEF Inv, TypeOK
<1> QED
  BY <1>1, <1>2, <1>4, PushMoves DEF PushRound, persistent

\* A push that has just been sent is sound.
LEMMA SentPush ==
  ASSUME NEW p \in Node, NEW n \in Node, NEW at \in Nat, NEW last \in Nat,
         1 <= at, at <= last, last <= Len(oplog[p]), serving[p],
         \A i \in startRow[p] + 1 .. at - 1 : oplog[p][i] \in Held(n),
         NEW x,
         x = [PushIdle EXCEPT !.phase = "sent", !.waiting = TRUE, !.at = at, !.last = last]
  PROVE  x \in PushState /\ PushOK(p, n, x)
<1>1. x \in PushState
  BY DEF PushIdle, PushState
<1>2. x.phase = "sent" /\ x.at = at /\ x.last = last /\ x.write = {}
  BY DEF PushIdle
<1> QED
  BY <1>1, <1>2 DEF PushOK

\* A request carries the rows after the cursor; the peer has those before it.
LEMMA StepPushSend ==
  ASSUME Inv, NEW p \in Node, NEW n \in Node, PushSend(p, n)
  PROVE  Inv'
<1> DEFINE at   == pushCursor[p][n] + 1
           last == Smaller(pushCursor[p][n] + MaxBatch, Len(oplog[p]))
           x    == [PushIdle EXCEPT !.phase = "sent", !.waiting = TRUE, !.at = at, !.last = last]
<1>1. /\ at \in Nat /\ last \in Nat /\ 1 <= at /\ at <= last /\ last <= Len(oplog[p])
  BY Numbers, BatchAssumption DEF PushSend, Smaller, Inv
<1>2. serving[p]
  BY DEF PushSend, Inv, CursorInside
<1>3. \A i \in startRow[p] + 1 .. at - 1 : oplog[p][i] \in Held(n)
  BY Numbers DEF Inv, PushCursorSound
<1>4. push' = [push EXCEPT ![p][n] = x]
  BY DEF PushSend, SetPush
<1> HIDE DEF at, last
<1>5. x \in PushState /\ PushOK(p, n, x)
  BY <1>1, <1>2, <1>3, SentPush
<1> HIDE DEF x
<1> QED
  BY <1>4, <1>5, PushMovesOne DEF PushSend, persistent, pusher, Inv, TypeOK, CursorInside

\* A pusher that finds no row ends.
LEMMA StepPushNothing ==
  ASSUME Inv, NEW p \in Node, NEW n \in Node, PushNothing(p, n)
  PROVE  Inv'
<1>1. pushing' \in [Node -> SUBSET Node] /\ pushWake' \in [Node -> BOOLEAN]
  BY DEF PushNothing, Inv, TypeOK
<1>2. \A q \in Node : ~ serving[q] => pushing'[q] = {}
  BY DEF PushNothing, Inv, TypeOK, CursorInside
<1>3. push' = push
  BY DEF PushNothing
<1>4. push' \in [Node -> [Node -> PushState]] /\ \A q, m \in Node : PushOK(q, m, push'[q][m])
  BY <1>3 DEF Inv, TypeOK
<1> QED
  BY <1>1, <1>2, <1>4, PushMoves DEF PushNothing, persistent

\* A push that fails leaves the cursor alone.
LEMMA StepPushFail ==
  ASSUME Inv, NEW p \in Node, NEW n \in Node, PushFail(p, n)
  PROVE  Inv'
<1>1. pushing' \in [Node -> SUBSET Node] /\ pushWake' \in [Node -> BOOLEAN]
  BY DEF PushFail, Inv, TypeOK
<1>2. \A q \in Node : ~ serving[q] => pushing'[q] = {}
  BY DEF PushFail, Inv, TypeOK, CursorInside
<1>3. push' = [push EXCEPT ![p][n] = PushIdle]
  BY DEF PushFail, SetPush
<1> QED
  BY <1>1, <1>2, <1>3, IdleOK, PushMovesOne DEF PushFail, persistent

\* A sender that gives up no longer relies on the answer.
LEMMA StepPushTimeout ==
  ASSUME Inv, NEW p \in Node, NEW n \in Node, PushTimeout(p, n)
  PROVE  Inv'
<1>1. pushing' \in [Node -> SUBSET Node] /\ pushWake' \in [Node -> BOOLEAN]
  BY DEF PushTimeout, Inv, TypeOK
<1>2. \A q \in Node : ~ serving[q] => pushing'[q] = {}
  BY DEF PushTimeout, Inv, TypeOK, CursorInside
<1> DEFINE x == [push[p][n] EXCEPT !.waiting = FALSE]
<1>3. push' = [push EXCEPT ![p][n] = x]
  BY DEF PushTimeout, SetPush
<1>4. x \in PushState /\ PushOK(p, n, x)
  <2>1. push[p][n] \in PushState /\ PushOK(p, n, push[p][n])
    BY ExchangeTypes
  <2>2. /\ x \in PushState /\ x.waiting = FALSE /\ x.phase = push[p][n].phase
        /\ x.at = push[p][n].at /\ x.last = push[p][n].last /\ x.write = push[p][n].write
    BY <2>1 DEF PushState
  <2> HIDE DEF x
  <2> QED
    BY <2>1, <2>2 DEF PushOK
<1> HIDE DEF x
<1> QED
  BY <1>1, <1>2, <1>3, <1>4, PushMovesOne DEF PushTimeout, persistent

\* The entry a handler computes is borne out by the log.
LEMMA StepHandleScan ==
  ASSUME Inv, NEW p \in Node, NEW n \in Node, HandleScan(p, n)
  PROVE  Inv'
<1>1. PICK src \in push[p][n].touched :
        \E next \in vector[n][src] .. vector[n][src] + Len(oplog[n]) :
          /\ ScanStopsAt(n, src, vector[n][src], next)
          /\ SetPush(p, n, Scanned(push[p][n], src, vector[n][src], next))
  BY DEF HandleScan
<1>2. PICK next \in vector[n][src] .. vector[n][src] + Len(oplog[n]) :
          /\ ScanStopsAt(n, src, vector[n][src], next)
          /\ SetPush(p, n, Scanned(push[p][n], src, vector[n][src], next))
  BY <1>1
<1>3. src \in Node /\ push[p][n] \in PushState /\ PushOK(p, n, push[p][n])
  BY <1>1, ExchangeTypes DEF PushState
<1>4. vector[n][src] \in Nat /\ next \in Nat
  BY <1>3, Numbers DEF Inv
<1> DEFINE x == Scanned(push[p][n], src, vector[n][src], next)
<1>5. x \in PushState /\ PushOK(p, n, x)
  BY <1>2, <1>3, <1>4, ScanIssued, ScannedWrite
<1>6. push' = [push EXCEPT ![p][n] = x]
  BY <1>2 DEF SetPush
<1> HIDE DEF x
<1> QED
  BY <1>5, <1>6, PushMovesOne DEF HandleScan, persistent, pusher, Inv, TypeOK, CursorInside

\* The handler stores an entry that is not ahead of its source.
LEMMA StepHandleStore ==
  ASSUME Inv, NEW p \in Node, NEW n \in Node, HandleStore(p, n)
  PROVE  Inv'
<1>1. PICK w \in push[p][n].write :
        /\ vector' = [vector EXCEPT ![n][w.src] = w.seq]
        /\ SetPush(p, n, [push[p][n] EXCEPT !.write = {}])
        /\ UNCHANGED <<localSeq, oplog, serving, pusher, pull, restarts>>
  BY DEF HandleStore
<1>2. /\ push[p][n] \in PushState /\ PushOK(p, n, push[p][n])
      /\ w \in Op /\ w.seq <= localSeq[w.src]
  BY <1>1, ExchangeTypes DEF PushOK, PushState
<1>3. PICK y \in PushState : PushOK(p, n, y) /\ push' = [push EXCEPT ![p][n] = y]
  BY <1>1, <1>2 DEF PushOK, PushState, SetPush
<1>4. /\ localSeq' = localSeq /\ oplog' = oplog /\ serving' = serving
      /\ startRow' = startRow /\ pushCursor' = pushCursor /\ pushing' = pushing
      /\ pushWake' = pushWake /\ pull' = pull /\ restarts' = restarts
  BY <1>1 DEF pusher
<1>5. vector' \in [Node -> Vector] /\ VectorIssued'
  BY <1>1, <1>2, <1>4, EntryStored
<1>6. TypeOK'
  BY <1>3, <1>4, <1>5 DEF Inv, TypeOK
<1>7. LogIssued' /\ LogOwn' /\ CursorInside' /\ PushCursorSound'
  BY <1>4 DEF Inv, LogIssued, LogOwn, CursorInside, PushCursorSound, Held
<1>8. \A q, m \in Node : PushOK(q, m, push[q][m])'
  <2>1. \A q, m \in Node : push'[q][m] = IF q = p /\ m = n THEN y ELSE push[q][m]
    BY <1>3 DEF Inv, TypeOK
  <2> QED
    BY <1>3, <1>4, <2>1 DEF Inv, PushOK, Held
<1>9. \A m \in Node : PullOK(pull[m])'
  BY <1>4 DEF Inv, PullOK, Held
<1> QED
  BY <1>5, <1>6, <1>7, <1>8, <1>9 DEF Inv

\* Handling a row leaves a push that is one row further.
LEMMA HandledPush ==
  ASSUME NEW x \in PushState, NEW t \in SUBSET Node, NEW y,
         y = [x EXCEPT !.phase = "handling", !.at = @ + 1, !.touched = @ \cup t]
  PROVE  /\ y \in PushState
         /\ y.phase = "handling" /\ y.at = x.at + 1 /\ y.last = x.last
         /\ y.waiting = x.waiting /\ y.write = x.write
<1>1. y \in PushState
  <2>1. PICK at \in Nat : at = x.at + 1
    BY PushNumbers
  <2>2. PICK u \in SUBSET Node : u = x.touched \cup t
    BY PushNumbers
  <2>3. y = [x EXCEPT !.phase = "handling", !.at = at, !.touched = u]
    BY <2>1, <2>2
  <2> QED
    BY <2>3 DEF PushState
<1>2. y.phase = "handling" /\ y.at = x.at + 1 /\ y.last = x.last /\ y.write = x.write
  BY DEF PushState
<1>3. y.waiting = x.waiting
  BY DEF PushState
<1> QED
  BY <1>1, <1>2, <1>3

\* It is sound if the row is in the receiver's log.
LEMMA HandledPushOK ==
  ASSUME TypeOK, startRow' = startRow,
         NEW p \in Node, NEW n \in Node, NEW x \in PushState, NEW y \in PushState,
         y.phase = "handling", y.at = x.at + 1, y.last = x.last,
         y.waiting = x.waiting, y.write = x.write,
         x.phase # "idle", x.at \in 1 .. x.last,
         oplog'[p][x.at] \in Held(n)', PushOK(p, n, x)'
  PROVE  PushOK(p, n, y)'
<1>1. x.at \in Nat /\ x.last \in Nat /\ startRow[p] \in Nat
  BY PushNumbers, Numbers
<1>2. y.at \in 1 .. y.last + 1
  BY <1>1
<1>3. y.last <= Len(oplog'[p])
  BY <1>1 DEF PushOK
<1>4. ASSUME y.waiting
      PROVE  serving'[p] /\ \A i \in startRow'[p] + 1 .. y.at - 1 : oplog'[p][i] \in Held(n)'
  <2>1. /\ serving'[p]
        /\ \A i \in startRow'[p] + 1 .. x.at - 1 : oplog'[p][i] \in Held(n)'
    BY <1>4 DEF PushOK
  <2>2. ASSUME NEW i \in startRow'[p] + 1 .. y.at - 1
        PROVE  i = x.at \/ i \in startRow'[p] + 1 .. x.at - 1
    BY <1>1, <2>2
  <2> QED
    BY <2>1, <2>2
<1>5. \A w \in y.write : w.seq <= localSeq'[w.src]
  BY DEF PushOK
<1> QED
  BY <1>2, <1>3, <1>4, <1>5 DEF PushOK

\* The handler receives the row the request is at; the request is then past it.
LEMMA StepHandleOp ==
  ASSUME Inv, NEW p \in Node, NEW n \in Node, HandleOp(p, n)
  PROVE  Inv'
<1>1. PICK x \in PushState : x = push[p][n]
  BY ExchangeTypes
<1>2. PushOK(p, n, x)
  BY <1>1, ExchangeTypes
<1>3. /\ x.phase \in {"sent", "handling"} /\ x.at <= x.last
      /\ UNCHANGED <<localSeq, vector, serving, pusher, pull, restarts>>
  BY <1>1 DEF HandleOp
<1>4. x.at \in 1 .. Len(oplog[p]) /\ x.at \in 1 .. x.last
  BY <1>2, <1>3, PushNumbers, Numbers DEF PushOK, Inv
<1>5. PICK o \in Op : o = oplog[p][x.at] /\ o \in Held(p) /\ o.src \in Node
  BY <1>4, RowType DEF Inv, Op
<1>6. /\ push' = [push EXCEPT ![p][n] =
           [x EXCEPT !.phase = "handling", !.at = @ + 1, !.touched = @ \cup ({o.src} \ {n})]]
      /\ oplog' = IF o.src = n THEN oplog ELSE [oplog EXCEPT ![n] = Stored(n, o)]
  BY <1>1, <1>5 DEF HandleOp, SetPush
<1>7. PICK y \in PushState :
        /\ push' = [push EXCEPT ![p][n] = y]
        /\ y.phase = "handling" /\ y.at = x.at + 1 /\ y.last = x.last
        /\ y.waiting = x.waiting /\ y.write = x.write
  <2>1. PICK y : y = [x EXCEPT !.phase = "handling", !.at = @ + 1,
                               !.touched = @ \cup ({o.src} \ {n})]
    OBVIOUS
  <2>2. PICK t \in SUBSET Node : t = {o.src} \ {n}
    BY <1>5
  <2>3. y = [x EXCEPT !.phase = "handling", !.at = @ + 1, !.touched = @ \cup t]
    BY <2>1, <2>2
  <2>4. push' = [push EXCEPT ![p][n] = y]
    BY <1>6, <2>1
  <2> QED
    BY <2>3, <2>4, HandledPush
<1>8. /\ localSeq' = localSeq /\ vector' = vector /\ serving' = serving
      /\ startRow' = startRow /\ pushCursor' = pushCursor /\ pushing' = pushing
      /\ pushWake' = pushWake /\ pull' = pull /\ restarts' = restarts
  BY <1>3 DEF pusher
<1>9. /\ oplog' \in [Node -> Seq(Op)] /\ LogGrows
      /\ LogIssued' /\ LogOwn' /\ VectorIssued' /\ CursorInside' /\ PushCursorSound'
      /\ \A q, m \in Node : \A z \in PushState : PushOK(q, m, z) => PushOK(q, m, z)'
      /\ \A z \in PullState : PullOK(z) => PullOK(z)'
  BY <1>5, <1>6, <1>8, Received
<1>10. TypeOK'
  BY <1>7, <1>8, <1>9 DEF Inv, TypeOK
\* The row is in the receiver's log now: it was stored there, or it is one of
\* the receiver's own.
<1>11. oplog'[p][x.at] \in Held(n)'
  <2>1. oplog'[p][x.at] = o
    BY <1>4, <1>5, <1>9 DEF LogGrows
  <2>2. CASE o.src = n
    <3>1. o \in Held(n)
      BY <1>5, <2>2 DEF Inv, LogIssued, LogOwn, Op
    <3> QED
      BY <2>1, <3>1, <1>9, HeldGrows DEF Inv
  <2>3. CASE oplog' = [oplog EXCEPT ![n] = Stored(n, o)]
    <3>1. Receives(n, o)
      BY <1>5, <2>3, StoredGrows DEF Inv
    <3> QED
      BY <2>1, <3>1 DEF Receives
  <2> QED
    BY <1>6, <2>2, <2>3
<1>12. PushOK(p, n, y)'
  BY <1>2, <1>3, <1>4, <1>7, <1>8, <1>9, <1>11, HandledPushOK DEF Inv
<1>13. \A q, m \in Node : PushOK(q, m, push[q][m])'
  <2>1. \A q, m \in Node : push'[q][m] = IF q = p /\ m = n THEN y ELSE push[q][m]
    BY <1>7 DEF Inv, TypeOK
  <2>2. \A q, m \in Node : push[q][m] \in PushState /\ PushOK(q, m, push[q][m])
    BY ExchangeTypes
  <2> SUFFICES ASSUME NEW q \in Node, NEW m \in Node
               PROVE  PushOK(q, m, push[q][m])'
    OBVIOUS
  <2>3. CASE q = p /\ m = n
    BY <1>12, <2>1, <2>3
  <2>4. CASE ~ (q = p /\ m = n)
    BY <1>9, <2>1, <2>2, <2>4
  <2> QED
    BY <2>3, <2>4
<1>14. \A m \in Node : PullOK(pull[m])'
  BY <1>8, <1>9, ExchangeTypes
<1> QED
  BY <1>9, <1>10, <1>13, <1>14 DEF Inv

\* A handler that is done is past every row of the request, so the cursor may follow.
LEMMA StepPushDone ==
  ASSUME Inv, NEW p \in Node, NEW n \in Node, PushDone(p, n)
  PROVE  Inv'
<1>1. PICK x \in PushState : x = push[p][n]
  BY ExchangeTypes
<1>2. /\ PushOK(p, n, x) /\ x.phase = "handling" /\ x.at > x.last
      /\ push' = [push EXCEPT ![p][n] = PushIdle]
      /\ localSeq' = localSeq /\ oplog' = oplog /\ vector' = vector /\ serving' = serving
      /\ startRow' = startRow /\ pull' = pull /\ restarts' = restarts
  BY <1>1, ExchangeTypes DEF PushDone, SetPush, persistent
<1>3. x.last \in Nat /\ x.last <= Len(oplog[p]) /\ x.at = x.last + 1
  BY <1>2, PushNumbers DEF PushOK
<1>4. /\ pushWake' \in [Node -> BOOLEAN]
      /\ pushCursor' = pushCursor \/ (x.waiting /\ pushCursor' = [pushCursor EXCEPT ![p][n] = x.last])
      /\ pushing' = pushing \/ pushing' = [pushing EXCEPT ![p] = @ \ {n}]
  BY <1>1 DEF PushDone, Inv, TypeOK
<1>5. pushCursor' \in [Node -> Vector] /\ pushing' \in [Node -> SUBSET Node]
  <2>1. pushCursor \in [Node -> Vector] /\ pushing \in [Node -> SUBSET Node]
    BY DEF Inv, TypeOK
  <2>2. CASE pushCursor' = [pushCursor EXCEPT ![p][n] = x.last]
    <3>1. [pushCursor[p] EXCEPT ![n] = x.last] \in Vector
      BY <1>3, <2>1 DEF Vector
    <3> QED
      BY <1>4, <2>1, <2>2, <3>1
  <2>3. CASE pushCursor' = pushCursor
    BY <1>4, <2>1, <2>3
  <2> QED
    BY <1>4, <2>2, <2>3
<1>6. TypeOK'
  BY <1>2, <1>4, <1>5, IdleOK DEF Inv, TypeOK
<1>7. ASSUME NEW q \in Node, NEW m \in Node, pushCursor'[q][m] # pushCursor[q][m]
      PROVE  q = p /\ m = n /\ x.waiting /\ pushCursor'[q][m] = x.last
  <2>1. x.waiting /\ pushCursor' = [pushCursor EXCEPT ![p][n] = x.last]
    BY <1>4, <1>7
  <2>2. pushCursor \in [Node -> [Node -> Nat]]
    BY DEF Inv, TypeOK, Vector
  <2>3. q = p /\ m = n /\ pushCursor'[q][m] = x.last
    BY <1>7, <2>1, <2>2
  <2> QED
    BY <2>1, <2>3
<1>8. LogIssued' /\ LogOwn' /\ VectorIssued'
  BY <1>2 DEF Inv, LogIssued, LogOwn, VectorIssued, Held
<1>9. CursorInside'
  <2>1. \A q, m \in Node : pushCursor'[q][m] <= Len(oplog'[q])
    BY <1>2, <1>3, <1>7 DEF Inv, CursorInside
  <2>2. \A q \in Node : ~ serving'[q] => pushing'[q] = {}
    <3>1. \A q \in Node : pushing'[q] \subseteq pushing[q]
      <4>1. CASE pushing' = pushing
        BY <4>1
      <4>2. CASE pushing' = [pushing EXCEPT ![p] = @ \ {n}]
        BY <4>2 DEF Inv, TypeOK
      <4> QED
        BY <1>4, <4>1, <4>2
    <3> QED
      BY <1>2, <3>1 DEF Inv, CursorInside
  <2> QED
    BY <2>1, <2>2 DEF CursorInside
<1>10. PushCursorSound'
  <2> SUFFICES ASSUME NEW q \in Node, NEW m \in Node,
                      NEW i \in startRow[q] + 1 .. pushCursor'[q][m]
               PROVE  oplog[q][i] \in Held(m)
    BY <1>2 DEF PushCursorSound, Held
  <2>1. CASE pushCursor'[q][m] = pushCursor[q][m]
    BY <2>1 DEF Inv, PushCursorSound
  <2>2. CASE pushCursor'[q][m] # pushCursor[q][m]
    <3>0. q = p /\ m = n /\ x.waiting /\ pushCursor'[q][m] = x.last
      BY <1>7, <2>2
    <3>1. i \in startRow[p] + 1 .. x.at - 1
      BY <1>3, <3>0
    <3> QED
      BY <1>2, <3>0, <3>1 DEF PushOK
  <2> QED
    BY <2>1, <2>2
<1>11. \A q, m \in Node : PushOK(q, m, push[q][m])'
  <2>1. \A q, m \in Node : push'[q][m] = IF q = p /\ m = n THEN PushIdle ELSE push[q][m]
    BY <1>2 DEF Inv, TypeOK
  <2>2. \A q, m \in Node : PushOK(q, m, push'[q][m])
    BY <2>1, IdleOK DEF Inv
  <2> QED
    BY <1>2, <2>2 DEF PushOK, Held
<1>12. \A m \in Node : PullOK(pull[m])'
  BY <1>2 DEF Inv, PullOK, Held
<1> QED
  BY <1>6, <1>8, <1>9, <1>10, <1>11, <1>12 DEF Inv

-----------------------------------------------------------------------------
(***************************************************************************)
(* Restart                                                                 *)
(***************************************************************************)
LEMMA StepRestart ==
  ASSUME Inv, NEW n \in Node, Restart(n)
  PROVE  Inv'
<1>1. /\ localSeq' = localSeq /\ oplog' = oplog /\ vector' = vector
      /\ startRow' = startRow /\ pushCursor' = pushCursor
      /\ serving' = [serving EXCEPT ![n] = FALSE]
  BY DEF Restart, persistent
<1>2. \A p, m \in Node :
        \/ push'[p][m] = PushIdle
        \/ p = n /\ push'[p][m] = [push[p][m] EXCEPT !.waiting = FALSE]
        \/ p # n /\ push'[p][m] = push[p][m]
  BY DEF Restart
<1>3. \A p, m \in Node : push'[p][m] \in PushState /\ PushOK(p, m, push[p][m])'
  <2> SUFFICES ASSUME NEW p \in Node, NEW m \in Node
               PROVE  push'[p][m] \in PushState /\ PushOK(p, m, push[p][m])'
    OBVIOUS
  <2>1. PICK y : y = push'[p][m]
    OBVIOUS
  <2>2. CASE y = PushIdle
    BY <2>1, <2>2, IdleOK DEF PushOK, PushIdle
  <2>3. CASE p = n /\ y = [push[p][m] EXCEPT !.waiting = FALSE]
    <3>1. PICK x \in PushState : x = push[p][m] /\ PushOK(p, m, x)
      BY ExchangeTypes
    <3>2. /\ y \in PushState /\ y.waiting = FALSE /\ y.phase = x.phase
          /\ y.at = x.at /\ y.last = x.last /\ y.write = x.write
      BY <2>3, <3>1 DEF PushState
    <3> QED
      BY <1>1, <2>1, <3>1, <3>2 DEF PushOK
  <2>4. CASE p # n /\ y = push[p][m]
    <3>1. y \in PushState /\ PushOK(p, m, y) /\ serving'[p] = serving[p]
      BY <1>1, <2>4, ExchangeTypes DEF Inv, TypeOK
    <3> QED
      BY <1>1, <2>1, <3>1 DEF PushOK, Held
  <2> QED
    BY <1>2, <2>1, <2>2, <2>3, <2>4
<1>4. \A m \in Node : pull'[m] = PullIdle \/ pull'[m] = pull[m]
  BY DEF Restart
<1>5. \A m \in Node : pull'[m] \in PullState /\ PullOK(pull[m])'
  <2> SUFFICES ASSUME NEW m \in Node
               PROVE  pull'[m] \in PullState /\ PullOK(pull[m])'
    OBVIOUS
  <2>1. pull'[m] \in PullState /\ PullOK(pull'[m])
    BY <1>4, IdleOK, ExchangeTypes
  <2> QED
    BY <1>1, <2>1 DEF PullOK, Held
<1>6. \A p \in Node : ~ serving'[p] => pushing'[p] = {}
  BY DEF Restart, Inv, TypeOK, CursorInside
<1>7. TypeOK'
  <2>1. push' \in [Node -> [Node -> PushState]]
    BY <1>3 DEF Restart
  <2>2. pull' \in [Node -> PullState]
    BY <1>5 DEF Restart
  <2>3. pushing' \in [Node -> SUBSET Node]
    BY DEF Restart, Inv, TypeOK
  <2>4. /\ serving' \in [Node -> BOOLEAN] /\ pushWake' \in [Node -> BOOLEAN]
        /\ restarts' \in Nat
    BY DEF Restart, Inv, TypeOK
  <2> QED
    BY <1>1, <2>1, <2>2, <2>3, <2>4 DEF Inv, TypeOK
<1>8. LogIssued' /\ LogOwn' /\ VectorIssued' /\ PushCursorSound'
  BY <1>1 DEF Inv, LogIssued, LogOwn, VectorIssued, PushCursorSound, Held
<1>9. CursorInside'
  BY <1>1, <1>6 DEF Inv, CursorInside
<1> QED
  BY <1>3, <1>5, <1>7, <1>8, <1>9 DEF Inv

\* A process that starts claims nothing about the rows before its log's head.
LEMMA StepStartBackground ==
  ASSUME Inv, NEW n \in Node, StartBackground(n)
  PROVE  Inv'
<1>1. /\ localSeq' = localSeq /\ oplog' = oplog /\ vector' = vector
      /\ pushWake' = pushWake /\ pushing' = pushing
      /\ push' = push /\ pull' = pull /\ restarts' = restarts
      /\ ~ serving[n]
      /\ serving' = [serving EXCEPT ![n] = TRUE]
      /\ startRow' = [startRow EXCEPT ![n] = Len(oplog[n])]
      /\ pushCursor' = [pushCursor EXCEPT ![n] = [m \in Node |-> Len(oplog[n])]]
  BY DEF StartBackground, persistent
<1>2. /\ startRow' \in [Node -> Nat] /\ pushCursor' \in [Node -> Vector]
      /\ serving' \in [Node -> BOOLEAN]
  BY <1>1, Numbers DEF Inv, TypeOK, Vector
<1>3. TypeOK'
  BY <1>1, <1>2 DEF Inv, TypeOK
<1>4. LogIssued' /\ LogOwn' /\ VectorIssued'
  BY <1>1 DEF Inv, LogIssued, LogOwn, VectorIssued, Held
<1>5. \A p \in Node : \/ p = n /\ startRow'[p] = Len(oplog[p])
                         /\ \A m \in Node : pushCursor'[p][m] = Len(oplog[p])
                      \/ p # n /\ startRow'[p] = startRow[p]
                         /\ pushCursor'[p] = pushCursor[p] /\ serving'[p] = serving[p]
  BY <1>1 DEF Inv, TypeOK
<1>6. \A p, m \in Node : pushCursor'[p][m] <= Len(oplog'[p])
  BY <1>1, <1>5, Numbers DEF Inv, CursorInside
<1>7. CursorInside'
  BY <1>1, <1>5, <1>6 DEF Inv, TypeOK, CursorInside
<1>8. PushCursorSound'
  <2> SUFFICES ASSUME NEW p \in Node, NEW m \in Node,
                      NEW i \in startRow'[p] + 1 .. pushCursor'[p][m]
               PROVE  oplog'[p][i] \in Held(m)'
    BY DEF PushCursorSound
  <2>1. p # n
    BY <1>5, Numbers DEF Inv
  <2> QED
    <3>1. startRow'[p] = startRow[p] /\ pushCursor'[p] = pushCursor[p]
      BY <1>5, <2>1
    <3>2. oplog[p][i] \in Held(m)
      BY <3>1 DEF Inv, PushCursorSound
    <3> QED
      BY <1>1, <3>2 DEF Held
<1>9. \A p, m \in Node : PushOK(p, m, push[p][m])'
  <2> SUFFICES ASSUME NEW p \in Node, NEW m \in Node
               PROVE  PushOK(p, m, push[p][m])'
    OBVIOUS
  <2>1. PICK x \in PushState : x = push[p][m] /\ PushOK(p, m, x)
    BY ExchangeTypes
  <2>2. x.waiting => p # n
    BY <1>1, <2>1 DEF PushOK
  <2>3. x.waiting => serving'[p] /\ startRow'[p] = startRow[p]
    BY <1>5, <2>1, <2>2 DEF PushOK
  <2>4. PushOK(p, m, x)'
    BY <1>1, <2>1, <2>3 DEF PushOK, Held
  <2> QED
    BY <1>1, <2>1, <2>4
<1>10. \A m \in Node : PullOK(pull[m])'
  BY <1>1 DEF Inv, PullOK, Held
<1> QED
  BY <1>3, <1>4, <1>7, <1>8, <1>9, <1>10 DEF Inv

-----------------------------------------------------------------------------
(***************************************************************************)
(* A local write, and the whole specification                              *)
(***************************************************************************)
LEMMA StepLocalWrite ==
  ASSUME Inv, NEW n \in Node, LocalWrite(n)
  PROVE  Inv'
<1>1. PICK o \in Op : o = [src |-> n, seq |-> localSeq[n] + 1]
  <2>1. PICK s \in Nat \ {0} : s = localSeq[n] + 1
    BY Numbers DEF Inv
  <2> QED
    BY <2>1 DEF Op
<1>2. /\ localSeq' = [localSeq EXCEPT ![n] = @ + 1]
      /\ oplog' = [oplog EXCEPT ![n] = Append(@, o)]
      /\ vector' = vector /\ serving' = serving /\ startRow' = startRow
      /\ pushCursor' = pushCursor /\ pushing' = pushing
      /\ push' = push /\ pull' = pull /\ restarts' = restarts
      /\ pushWake' = [pushWake EXCEPT ![n] = TRUE]
  BY <1>1 DEF LocalWrite
<1>3. /\ oplog' \in [Node -> Seq(Op)] /\ LogGrows /\ Receives(n, o)
  BY <1>2, AppendGrows DEF Inv
<1>4. /\ localSeq' \in Vector
      /\ \A m \in Node : localSeq'[m] = IF m = n THEN localSeq[m] + 1 ELSE localSeq[m]
      /\ \A m \in Node : localSeq[m] \in Nat /\ localSeq[m] <= localSeq'[m]
  BY <1>2, Numbers DEF Inv, TypeOK, Vector
<1>5. TypeOK'
  BY <1>2, <1>3, <1>4 DEF Inv, TypeOK
<1>6. LogIssued'
  <2> SUFFICES ASSUME NEW m \in Node, NEW h \in Held(m)'
               PROVE  h.seq <= localSeq'[h.src]
    BY DEF LogIssued
  <2>1. CASE h \in Held(m)
    <3>1. h \in Op /\ h.seq <= localSeq[h.src]
      BY <2>1, HeldType DEF Inv, LogIssued
    <3> QED
      BY <1>4, <3>1 DEF Op
  <2>2. CASE h = o
    BY <1>1, <1>4, <2>2
  <2> QED
    BY <1>3, <2>1, <2>2 DEF Receives
<1>7. LogOwn'
  <2> SUFFICES ASSUME NEW m \in Node, NEW s \in 1 .. localSeq'[m]
               PROVE  [src |-> m, seq |-> s] \in Held(m)'
    BY DEF LogOwn
  <2>1. s \in 1 .. localSeq[m] \/ (m = n /\ s = localSeq[n] + 1)
    BY <1>4
  <2>2. CASE s \in 1 .. localSeq[m]
    BY <1>3, <2>2, HeldGrows DEF Inv, LogOwn
  <2>3. CASE m = n /\ s = localSeq[n] + 1
    BY <1>1, <1>3, <2>3 DEF Receives
  <2> QED
    BY <2>1, <2>2, <2>3
<1>8. VectorIssued'
  BY <1>2, <1>4, Numbers DEF Inv, VectorIssued
<1>9. \A p \in Node : /\ Len(oplog[p]) \in Nat /\ Len(oplog'[p]) \in Nat
                      /\ Len(oplog[p]) <= Len(oplog'[p])
  BY <1>3, Numbers DEF Inv, LogGrows
<1>10. CursorInside'
  BY <1>2, <1>9, Numbers DEF Inv, CursorInside
<1>11. PushCursorSound'
  <2> SUFFICES ASSUME NEW p \in Node, NEW m \in Node,
                      NEW i \in startRow[p] + 1 .. pushCursor[p][m]
               PROVE  oplog'[p][i] \in Held(m)'
    BY <1>2 DEF PushCursorSound
  <2>1. i \in 1 .. Len(oplog[p])
    BY Numbers DEF Inv, CursorInside
  <2>2. oplog[p][i] \in Held(m)
    BY DEF Inv, PushCursorSound
  <2> QED
    BY <1>3, <2>1, <2>2, HeldGrows DEF Inv, LogGrows
<1>12. \A p, m \in Node : PushOK(p, m, push[p][m])'
  <2> SUFFICES ASSUME NEW p \in Node, NEW m \in Node
               PROVE  PushOK(p, m, push[p][m])'
    OBVIOUS
  <2>1. PICK x \in PushState : x = push[p][m] /\ PushOK(p, m, x)
    BY ExchangeTypes
  <2>2. x.waiting => serving'[p] /\ startRow'[p] = startRow[p]
    BY <1>2, <2>1 DEF PushOK
  <2>3. PushOK(p, m, x)'
    BY <1>3, <1>4, <2>1, <2>2, PushKeeps DEF Inv
  <2> QED
    BY <1>2, <2>1, <2>3
<1>13. \A m \in Node : PullOK(pull[m])'
  <2> SUFFICES ASSUME NEW m \in Node
               PROVE  PullOK(pull[m])'
    OBVIOUS
  <2>1. PICK x \in PullState : x = pull[m] /\ PullOK(x)
    BY ExchangeTypes
  <2>2. PullOK(x)'
    BY <1>3, <1>4, <2>1, PullKeeps DEF Inv
  <2> QED
    BY <1>2, <2>1, <2>2
<1> QED
  BY <1>5, <1>6, <1>7, <1>8, <1>10, <1>11, <1>12, <1>13 DEF Inv

\* The initial states satisfy the invariant.
LEMMA InvInit == Init => Inv
<1> SUFFICES ASSUME Init PROVE Inv
  OBVIOUS
<1>1. PushIdle \in PushState /\ PullIdle \in PullState
  BY NodeAssumption DEF PushIdle, PullIdle, PushState, PullState, Vector
<1>2. TypeOK
  BY <1>1 DEF Init, TypeOK, Vector
<1>3. \A n \in Node : Held(n) = {} /\ localSeq[n] = 0 /\ Len(oplog[n]) = 0
  BY DEF Init, Held
<1>4. LogIssued /\ LogOwn
  BY <1>3 DEF LogIssued, LogOwn
<1>5. VectorIssued /\ CursorInside /\ PushCursorSound
  BY DEF Init, VectorIssued, CursorInside, PushCursorSound
<1>6. \A p, n \in Node : PushOK(p, n, push[p][n])
  BY DEF Init, PushOK, PushIdle
<1>7. \A n \in Node : PullOK(pull[n])
  BY <1>3 DEF Init, PullOK, PullIdle
<1> QED
  BY <1>2, <1>4, <1>5, <1>6, <1>7 DEF Inv

\* Every step keeps the invariant.
LEMMA InvNext == Inv /\ [Next]_vars => Inv'
<1> SUFFICES ASSUME Inv, [Next]_vars PROVE Inv'
  OBVIOUS
<1>1. ASSUME NEW n \in Node, LocalWrite(n) \/ PushRound(n) \/ Restart(n) \/ StartBackground(n)
      PROVE  Inv'
  BY <1>1, StepLocalWrite, StepPushRound, StepRestart, StepStartBackground
<1>2. ASSUME NEW n \in Node, PullStep(n)
      PROVE  Inv'
  BY <1>2, StepServeVector, StepServePage, StepPullOp, StepPullScan, StepAdoptEntry,
     StepPullStore, StepNextPage, StepPullEnds DEF PullStep
<1>3. ASSUME NEW p \in Node, NEW n \in Node, PushStep(p, n)
      PROVE  Inv'
  BY <1>3, StepPushSend, StepPushNothing, StepHandleOp, StepHandleScan, StepHandleStore,
     StepPushDone, StepPushFail, StepPushTimeout DEF PushStep
<1>4. ASSUME NEW p \in Node, NEW n \in Node, StartPull(p, n)
      PROVE  Inv'
  BY <1>4, StepStartPull
<1>5. CASE UNCHANGED vars
  <2>1. /\ localSeq' = localSeq /\ oplog' = oplog /\ vector' = vector /\ serving' = serving
        /\ startRow' = startRow /\ pushCursor' = pushCursor /\ pushing' = pushing
        /\ pushWake' = pushWake /\ push' = push /\ pull' = pull /\ restarts' = restarts
    BY <1>5 DEF vars, persistent, pusher
  <2>2. /\ push' \in [Node -> [Node -> PushState]] /\ \A p, n \in Node : PushOK(p, n, push'[p][n])
        /\ pushing' \in [Node -> SUBSET Node] /\ \A p \in Node : ~ serving[p] => pushing'[p] = {}
        /\ pushWake' \in [Node -> BOOLEAN]
    BY <2>1 DEF Inv, TypeOK, CursorInside
  <2> QED
    BY <2>1, <2>2, PushMoves
<1> QED
  BY <1>1, <1>2, <1>3, <1>4, <1>5 DEF Next

\* The state always satisfies the invariant.
THEOREM Invariance == Spec => []Inv
<1> QED
  BY InvInit, InvNext, PTL DEF Spec

\* Every variable of the log, the pusher, the handlers and the puller keeps
\* its type, in every cluster.
THEOREM TypeCorrect == Spec => []TypeOK
<1>1. Inv => TypeOK
  BY DEF Inv
<1> QED
  BY <1>1, Invariance, PTL

\* No vector entry, stored, captured by a peer or about to be stored, is ahead
\* of what its source has written (currentVector, advanceVector, adoptVector).
THEOREM VectorsAreBounded == Spec => []VectorBounded
<1>1. Inv => VectorBounded
  BY DEF Inv, VectorIssued, PushOK, PullOK, VectorBounded
<1> QED
  BY <1>1, Invariance, PTL

\* A push cursor never passes a row of this process that the peer lacks, through
\* lost requests, late handlers and restarts (pushToPeer).
THEOREM PushCursorsAreSound == Spec => []PushCursorSound
<1>1. Inv => PushCursorSound
  BY DEF Inv
<1> QED
  BY <1>1, Invariance, PTL

-----------------------------------------------------------------------------
(***************************************************************************)
(* The oplogs implement the abstract dissemination                         *)
(***************************************************************************)
\* What the abstraction knows of the state.
Known == [n \in Node |-> Held(n)]

\* Receiving an operation of q's log is learning it from q, or nothing.
LEMMA ReceiveLearns ==
  ASSUME Inv, NEW n \in Node, NEW q \in Node, NEW o \in Held(q),
         oplog' = oplog \/ oplog' = [oplog EXCEPT ![n] = Stored(n, o)],
         localSeq' = localSeq
  PROVE  D!Learn(n, q) \/ UNCHANGED <<localSeq, Known>>
<1>1. CASE oplog' = oplog
  BY <1>1 DEF Known, Held
<1>2. CASE oplog' = [oplog EXCEPT ![n] = Stored(n, o)]
  <2>1. Receives(n, o)
    BY <1>2, HeldType, StoredGrows DEF Inv
  <2>2. Known' = [Known EXCEPT ![n] = @ \cup {o}]
    BY <2>1 DEF Known, Receives
  <2> QED
    BY <2>2 DEF D!Learn, Known
<1> QED
  BY <1>1, <1>2

\* The first state maps to the first state.
LEMMA RefinesInit == Init => D!Init
BY DEF Init, D!Init, Held

\* Every step maps to a write, a learning or a stuttering step.
LEMMA RefinesNext == Inv /\ [Next]_vars => [D!Next]_(D!dvars)
<1> SUFFICES ASSUME Inv, [Next]_vars
             PROVE  D!Next \/ UNCHANGED <<localSeq, Known>>
  BY DEF D!dvars, Known
<1>1. ASSUME NEW n \in Node, LocalWrite(n)
      PROVE  D!Write(n)
  <2>1. PICK s \in Nat \ {0} : s = localSeq[n] + 1
    BY Numbers DEF Inv
  <2>2. PICK o \in Op : o = [src |-> n, seq |-> s]
    BY <2>1 DEF Op
  <2>3. Receives(n, o)
    BY <1>1, <2>1, <2>2, AppendGrows DEF LocalWrite, Inv
  <2>4. Known' = [Known EXCEPT ![n] = @ \cup {o}]
    BY <2>3 DEF Known, Receives
  <2> QED
    BY <1>1, <2>1, <2>2, <2>4 DEF LocalWrite, D!Write, Known
<1>2. ASSUME NEW p \in Node, NEW n \in Node, HandleOp(p, n)
      PROVE  D!Learn(n, p) \/ UNCHANGED <<localSeq, Known>>
  <2>1. PICK x \in PushState : x = push[p][n] /\ PushOK(p, n, x)
    BY ExchangeTypes
  <2>2. x.at \in 1 .. Len(oplog[p])
    BY <1>2, <2>1, PushNumbers, Numbers DEF HandleOp, PushOK, Inv
  <2>3. PICK o \in Held(p) : o = oplog[p][x.at]
    BY <2>2, RowType DEF Inv
  <2>4. /\ oplog' = oplog \/ oplog' = [oplog EXCEPT ![n] = Stored(n, o)]
        /\ localSeq' = localSeq
    BY <1>2, <2>1, <2>3 DEF HandleOp
  <2> QED
    BY <2>3, <2>4, ReceiveLearns
<1>3. ASSUME NEW n \in Node, PullOp(n)
      PROVE  (\E q \in Node : D!Learn(n, q)) \/ UNCHANGED <<localSeq, Known>>
  <2>1. PICK o \in pull[n].page :
          /\ oplog' = oplog \/ oplog' = [oplog EXCEPT ![n] = Stored(n, o)]
          /\ localSeq' = localSeq
    BY <1>3 DEF PullOp
  <2>2. pull[n].peer \in Node /\ o \in Held(pull[n].peer)
    BY <2>1, ExchangeTypes DEF PullOK
  <2> QED
    BY <2>1, <2>2, ReceiveLearns
<1>4. ASSUME UNCHANGED <<localSeq, oplog>>
      PROVE  UNCHANGED <<localSeq, Known>>
  BY <1>4 DEF Known, Held
<1>5. ASSUME NEW n \in Node, PushRound(n) \/ Restart(n) \/ StartBackground(n)
      PROVE  UNCHANGED <<localSeq, oplog>>
  BY <1>5 DEF PushRound, Restart, StartBackground, persistent
<1>6. ASSUME NEW n \in Node, PullStep(n), ~ PullOp(n)
      PROVE  UNCHANGED <<localSeq, oplog>>
  BY <1>6 DEF PullStep, ServeVector, ServePage, PullScan, AdoptEntry, PullStore, NextPage,
     PullDone, PullFail, persistent
<1>7. ASSUME NEW p \in Node, NEW n \in Node, PushStep(p, n) \/ StartPull(p, n), ~ HandleOp(p, n)
      PROVE  UNCHANGED <<localSeq, oplog>>
  BY <1>7 DEF PushStep, PushSend, PushNothing, HandleScan, HandleStore, PushDone, PushFail,
     PushTimeout, StartPull, persistent
<1>8. CASE UNCHANGED vars
  BY <1>4, <1>8 DEF vars, persistent
<1> QED
  BY <1>1, <1>2, <1>3, <1>4, <1>5, <1>6, <1>7, <1>8 DEF Next, D!Next

\* The replication of the log implements Dissemination: an operation appears in
\* a log only where it was written or from a node that has it, numbered without
\* gaps by its source, and no log loses one, whatever requests are lost and
\* whoever restarts.
THEOREM Refinement == Spec => Disseminates
<1>1. Init => D!Init
  BY RefinesInit
<1>2. Inv /\ [Next]_vars => [D!Next]_(D!dvars)
  BY RefinesNext
<1> QED
  BY <1>1, <1>2, Invariance, PTL DEF Spec, Disseminates, D!Spec
-----------------------------------------------------------------------------
(***************************************************************************)
(* Vectors.  As long as no process has restarted, the vector of a node     *)
(* covers only operations the node holds (VectorSound).  The argument is   *)
(* that every log lists the operations of a source in order: pushes carry  *)
(* the rows of a log from the first, and a pull takes pages of consecutive *)
(* operations.  A restart breaks it (the run OplogSync_hole): pushes then  *)
(* start in the middle of the log.                                         *)
(***************************************************************************)
\* In every log, the operations of a source stand in the order of their
\* numbers, none left out.
LogOrdered ==
  \A n \in Node : \A i \in 1 .. Len(oplog[n]) : \A s \in 1 .. oplog[n][i].seq - 1 :
    \E j \in 1 .. i - 1 : oplog[n][j] = [src |-> oplog[n][i].src, seq |-> s]

\* Every row the push x from p is past is in n's log, and so is what the entry
\* about to be stored covers.
PushFull(p, n, x) ==
  /\ x.phase # "idle" => \A i \in 1 .. x.at - 1 : oplog[p][i] \in Held(n)
  /\ \A w \in x.write : UpTo(w.src, w.seq) \subseteq Held(n)

\* n has what the cursor of its pull x is past; the page continues it; the
\* vector of the peer covers what the peer has and, once every page is
\* ingested, what n has.
PullFull(n, x) ==
  /\ \A src \in Node : UpTo(src, x.cursor[src]) \subseteq Held(n)
  /\ \A o \in x.page : UpTo(o.src, o.seq) \subseteq Held(n) \cup x.page
  /\ x.phase = "serving" => \A src \in Node : UpTo(src, x.vec[src]) \subseteq Held(x.peer)
  /\ x.phase = "adopt" =>
       /\ n \notin x.touched
       /\ \A src \in Node \ {n} : UpTo(src, x.vec[src]) \subseteq Held(n)
  /\ \A w \in x.write : UpTo(w.src, w.seq) \subseteq Held(n)

Full ==
  /\ \A n \in Node : serving[n] /\ startRow[n] = 0
  /\ LogOrdered /\ VectorCovers
  /\ \A p, n \in Node : PushFull(p, n, push[p][n])
  /\ \A n \in Node : PullFull(n, pull[n])

\* Nothing is lost before the first restart.
FullInv == restarts = 0 => Full

-----------------------------------------------------------------------------
\* The operations up to k are operations.
LEMMA UpToType ==
  ASSUME NEW src \in Node, NEW k \in Nat
  PROVE  /\ UpTo(src, k) \subseteq Op
         /\ \A o \in Op : o \in UpTo(src, k) <=> o.src = src /\ o.seq <= k
BY DEF UpTo, Op

\* An ordered log that has an operation has its source's earlier ones.
LEMMA OrderedCovers ==
  ASSUME TypeOK, LogOrdered, NEW n \in Node, NEW o \in Held(n)
  PROVE  UpTo(o.src, o.seq) \subseteq Held(n)
<1>1. PICK i \in 1 .. Len(oplog[n]) : oplog[n][i] = o
  BY DEF Held
<1>2. o \in Op /\ o.src \in Node /\ o.seq \in Nat
  BY HeldType DEF Op
<1> SUFFICES ASSUME NEW s \in 1 .. o.seq
             PROVE  [src |-> o.src, seq |-> s] \in Held(n)
  BY DEF UpTo
<1>3. CASE s = o.seq
  BY <1>2, <1>3 DEF Op
<1>4. CASE s # o.seq
  <2>1. s \in 1 .. oplog[n][i].seq - 1
    BY <1>1, <1>2, <1>4
  <2>2. PICK j \in 1 .. i - 1 : oplog[n][j] = [src |-> o.src, seq |-> s]
    BY <1>1, <2>1 DEF LogOrdered
  <2>3. j \in 1 .. Len(oplog[n])
    BY Numbers
  <2> QED
    BY <2>2, <2>3 DEF Held
<1> QED
  BY <1>3, <1>4

\* An ordered log stays ordered when the operation that joins it is the next
\* one of its source.
LEMMA OrderedAppend ==
  ASSUME TypeOK, LogOrdered, NEW n \in Node, NEW o \in Op,
         \A s \in 1 .. o.seq - 1 : [src |-> o.src, seq |-> s] \in Held(n),
         oplog' = [oplog EXCEPT ![n] = Append(@, o)]
  PROVE  LogOrdered'
<1>1. /\ LogGrows /\ oplog' \in [Node -> Seq(Op)]
      /\ oplog'[n] = Append(oplog[n], o) /\ oplog[n] \in Seq(Op)
      /\ \A m \in Node \ {n} : oplog'[m] = oplog[m]
  BY AppendGrows DEF TypeOK
<1>2. /\ Len(oplog[n]) \in Nat /\ Len(oplog'[n]) = Len(oplog[n]) + 1
      /\ oplog'[n][Len(oplog[n]) + 1] = o
  BY <1>1
<1> SUFFICES ASSUME NEW m \in Node, NEW i \in 1 .. Len(oplog'[m]),
                    NEW s \in 1 .. oplog'[m][i].seq - 1
             PROVE  \E j \in 1 .. i - 1 : oplog'[m][j] = [src |-> oplog'[m][i].src, seq |-> s]
  BY DEF LogOrdered
<1>3. CASE i \in 1 .. Len(oplog[m])
  <2>1. oplog'[m][i] = oplog[m][i]
    BY <1>1, <1>3 DEF LogGrows
  <2>2. PICK j \in 1 .. i - 1 : oplog[m][j] = [src |-> oplog[m][i].src, seq |-> s]
    BY <1>3, <2>1 DEF LogOrdered
  <2>3. oplog'[m][j] = oplog[m][j]
    <3>1. j \in 1 .. Len(oplog[m])
      BY <1>3, Numbers
    <3> QED
      BY <1>1, <3>1 DEF LogGrows
  <2> QED
    BY <2>1, <2>2, <2>3
<1>4. CASE i \notin 1 .. Len(oplog[m])
  <2>1. m = n /\ i = Len(oplog[n]) + 1 /\ oplog'[m][i] = o
    BY <1>1, <1>2, <1>4
  <2>2. [src |-> o.src, seq |-> s] \in Held(n)
    BY <2>1
  <2>3. PICK j \in 1 .. Len(oplog[n]) : oplog[n][j] = [src |-> o.src, seq |-> s]
    BY <2>2 DEF Held
  <2>4. oplog'[n][j] = oplog[n][j] /\ j \in 1 .. i - 1
    BY <1>1, <1>2, <2>1 DEF LogGrows
  <2> QED
    BY <2>1, <2>3, <2>4
<1> QED
  BY <1>3, <1>4

\* The same for an operation that is stored if it is new.
LEMMA OrderedStored ==
  ASSUME TypeOK, LogOrdered, NEW n \in Node, NEW o \in Op,
         \A s \in 1 .. o.seq - 1 : [src |-> o.src, seq |-> s] \in Held(n),
         oplog' = oplog \/ oplog' = [oplog EXCEPT ![n] = Stored(n, o)]
  PROVE  LogOrdered'
<1>1. CASE oplog' = oplog
  BY <1>1 DEF LogOrdered
<1>2. CASE oplog' = [oplog EXCEPT ![n] = Stored(n, o)] /\ o \in Held(n)
  <2>1. oplog' = oplog
    BY <1>2 DEF Stored, TypeOK
  <2> QED
    BY <1>1, <2>1
<1>3. CASE oplog' = [oplog EXCEPT ![n] = Stored(n, o)] /\ o \notin Held(n)
  BY <1>3, OrderedAppend DEF Stored
<1> QED
  BY <1>1, <1>2, <1>3

\* What the logs have of an exchange they keep having.
LEMMA FullKeeps ==
  ASSUME TypeOK, LogGrows, NEW n \in Node
  PROVE  /\ \A p \in Node : \A x \in PushState :
              PushOK(p, n, x) /\ PushFull(p, n, x) => PushFull(p, n, x)'
         /\ \A x \in PullState : PullOK(x) /\ PullFull(n, x) => PullFull(n, x)'
<1>1. ASSUME NEW p \in Node, NEW x \in PushState, PushOK(p, n, x), PushFull(p, n, x)
      PROVE  PushFull(p, n, x)'
  <2>1. ASSUME x.phase # "idle", NEW i \in 1 .. x.at - 1
        PROVE  oplog'[p][i] \in Held(n)'
    <3>1. i \in 1 .. Len(oplog[p])
      BY <1>1, <2>1, PushNumbers, Numbers DEF PushOK
    <3>2. oplog[p][i] \in Held(n)
      BY <1>1, <2>1 DEF PushFull
    <3> QED
      BY <3>1, <3>2, HeldGrows DEF LogGrows
  <2>2. \A w \in x.write : UpTo(w.src, w.seq) \subseteq Held(n)'
    BY <1>1, HeldGrows DEF PushFull
  <2> QED
    BY <2>1, <2>2 DEF PushFull, UpTo
<1>2. ASSUME NEW x \in PullState, PullOK(x), PullFull(n, x)
      PROVE  PullFull(n, x)'
  <2>1. x.phase = "serving" => \A src \in Node : UpTo(src, x.vec[src]) \subseteq Held(x.peer)'
    <3>1. x.phase = "serving" => x.peer \in Node
      BY <1>2 DEF PullOK
    <3> QED
      BY <1>2, <3>1, HeldGrows DEF PullFull
  <2>2. /\ \A src \in Node : UpTo(src, x.cursor[src]) \subseteq Held(n)'
        /\ \A o \in x.page : UpTo(o.src, o.seq) \subseteq Held(n)' \cup x.page
        /\ x.phase = "adopt" =>
             n \notin x.touched /\ \A src \in Node \ {n} : UpTo(src, x.vec[src]) \subseteq Held(n)'
        /\ \A w \in x.write : UpTo(w.src, w.seq) \subseteq Held(n)'
    BY <1>2, HeldGrows DEF PullFull
  <2> QED
    BY <2>1, <2>2 DEF PullFull, UpTo
<1> QED
  BY <1>1, <1>2

-----------------------------------------------------------------------------
(***************************************************************************)
(* Steps that change exchanges only                                        *)
(***************************************************************************)
\* What is said of logs and vectors depends on them only.
LEMMA CoverageStays ==
  ASSUME oplog' = oplog, vector' = vector
  PROVE  (LogOrdered => LogOrdered') /\ (VectorCovers => VectorCovers')
<1>1. LogOrdered => LogOrdered'
  BY DEF LogOrdered
<1>2. \A m \in Node : Held(m)' = Held(m)
  BY DEF Held
<1>3. VectorCovers => VectorCovers'
  BY <1>2 DEF VectorCovers, UpTo
<1> QED
  BY <1>1, <1>3

\* One pull moves on.
LEMMA PullMovesFull ==
  ASSUME Inv, Full, NEW n \in Node, NEW x \in PullState, PullFull(n, x),
         pull' = [pull EXCEPT ![n] = x],
         oplog' = oplog, vector' = vector, serving' = serving, startRow' = startRow, push' = push
  PROVE  Full'
<1>1. \A m \in Node : serving'[m] /\ startRow'[m] = 0
  BY DEF Full
<1>2. LogOrdered' /\ VectorCovers'
  BY CoverageStays DEF Full
<1>3. ASSUME NEW p \in Node, NEW m \in Node PROVE PushFull(p, m, push[p][m])'
  <2>1. PushFull(p, m, push'[p][m])
    BY DEF Full
  <2>2. Held(m)' = Held(m)
    BY DEF Held
  <2> QED
    BY <2>1, <2>2 DEF PushFull
<1>4. \A m \in Node : pull'[m] = IF m = n THEN x ELSE pull[m]
  BY DEF Inv, TypeOK
<1>5. \A m \in Node : PullFull(m, pull'[m])
  BY <1>4 DEF Full
<1>6. ASSUME NEW m \in Node PROVE PullFull(m, pull[m])'
  <2>1. PullFull(m, pull'[m])
    BY <1>5
  <2>2. \A k : Held(k)' = Held(k)
    BY DEF Held
  <2> QED
    BY <2>1, <2>2 DEF PullFull
<1> QED
  BY <1>1, <1>2, <1>3, <1>6 DEF Full

\* Pushes move on.
LEMMA PushMovesFull ==
  ASSUME Inv, Full, \A p, n \in Node : PushFull(p, n, push'[p][n]),
         oplog' = oplog, vector' = vector, serving' = serving, startRow' = startRow, pull' = pull
  PROVE  Full'
<1>1. \A m \in Node : serving'[m] /\ startRow'[m] = 0
  BY DEF Full
<1>2. LogOrdered' /\ VectorCovers'
  BY CoverageStays DEF Full
<1>3. ASSUME NEW p \in Node, NEW m \in Node PROVE PushFull(p, m, push[p][m])'
  <2>1. Held(m)' = Held(m)
    BY DEF Held
  <2> QED
    BY <2>1 DEF PushFull
<1>4. \A m \in Node : PullFull(m, pull[m])'
  <2>1. \A m \in Node : PullFull(m, pull'[m])
    BY DEF Full
  <2>2. \A k : Held(k)' = Held(k)
    BY DEF Held
  <2> QED
    BY <2>1, <2>2 DEF PullFull
<1> QED
  BY <1>1, <1>2, <1>3, <1>4 DEF Full

\* One push moves on.
LEMMA PushMovesOneFull ==
  ASSUME Inv, Full, NEW p \in Node, NEW n \in Node, NEW x, PushFull(p, n, x),
         push' = [push EXCEPT ![p][n] = x],
         oplog' = oplog, vector' = vector, serving' = serving, startRow' = startRow, pull' = pull
  PROVE  Full'
<1>1. \A q, m \in Node : push'[q][m] = IF q = p /\ m = n THEN x ELSE push[q][m]
  BY DEF Inv, TypeOK
<1>2. \A q, m \in Node : PushFull(q, m, push'[q][m])
  BY <1>1 DEF Full
<1> QED
  BY <1>2, PushMovesFull

\* The idle exchanges promise nothing.
LEMMA IdleFull ==
  ASSUME NEW n \in Node
  PROVE  PullFull(n, PullIdle) /\ \A p \in Node : PushFull(p, n, PushIdle)
BY DEF PullFull, PullIdle, PushFull, PushIdle, UpTo

\* A node has what the vector it sends or captures covers.
LEMMA CurrentVectorCovers ==
  ASSUME Inv, Full, NEW n \in Node, NEW src \in Node
  PROVE  UpTo(src, CurrentVector(n)[src]) \subseteq Held(n)
<1>1. UpTo(n, localSeq[n]) \subseteq Held(n)
  BY DEF Inv, LogOwn, UpTo
<1>2. UpTo(src, vector[n][src]) \subseteq Held(n)
  BY DEF Full, VectorCovers
<1>3. \/ CurrentVector(n)[src] = vector[n][src]
      \/ src = n /\ CurrentVector(n)[src] = localSeq[n]
  BY DEF CurrentVector, Larger, Inv, TypeOK, Vector
<1> QED
  BY <1>1, <1>2, <1>3

\* Where a scan stops, everything below is in the log.
LEMMA ScanCovers ==
  ASSUME Inv, Full, NEW n \in Node, NEW src \in Node,
         NEW next \in vector[n][src] .. vector[n][src] + Len(oplog[n]),
         ScanStopsAt(n, src, vector[n][src], next)
  PROVE  UpTo(src, next) \subseteq Held(n)
<1>1. vector[n][src] \in Nat /\ next \in Nat
  BY Numbers DEF Inv
<1>2. UpTo(src, vector[n][src]) \subseteq Held(n)
  BY DEF Full, VectorCovers
<1> SUFFICES ASSUME NEW s \in 1 .. next
             PROVE  [src |-> src, seq |-> s] \in Held(n)
  BY DEF UpTo
<1>3. s \in 1 .. vector[n][src] \/ s \in vector[n][src] + 1 .. next
  BY <1>1
<1> QED
  BY <1>2, <1>3 DEF UpTo, ScanStopsAt

\* The entry Scanned leaves to be written covers what n has.
LEMMA ScannedFull ==
  ASSUME NEW n \in Node, NEW src \in Node, NEW cur \in Nat, NEW next \in Nat,
         next # cur => UpTo(src, next) \subseteq Held(n)
  PROVE  /\ \A p \in Node : \A x \in PushState :
              PushFull(p, n, x) => PushFull(p, n, Scanned(x, src, cur, next))
         /\ \A x \in PullState : PullFull(n, x) => PullFull(n, Scanned(x, src, cur, next))
<1> DEFINE w == IF next = cur THEN {} ELSE {[src |-> src, seq |-> next]}
<1>1. \A o \in w : UpTo(o.src, o.seq) \subseteq Held(n)
  OBVIOUS
<1> HIDE DEF w
<1>2. ASSUME NEW p \in Node, NEW x \in PushState, PushFull(p, n, x)
      PROVE  PushFull(p, n, Scanned(x, src, cur, next))
  <2>1. PICK y : y = Scanned(x, src, cur, next)
    OBVIOUS
  <2>2. y = [x EXCEPT !.touched = @ \ {src}, !.write = w]
    BY <2>1 DEF Scanned, w
  <2>3. y.phase = x.phase /\ y.at = x.at /\ y.write = w
    BY <2>2 DEF PushState
  <2> QED
    BY <1>1, <1>2, <2>1, <2>3 DEF PushFull
<1>3. ASSUME NEW x \in PullState, PullFull(n, x)
      PROVE  PullFull(n, Scanned(x, src, cur, next))
  <2>1. PICK y : y = Scanned(x, src, cur, next)
    OBVIOUS
  <2>2. y = [x EXCEPT !.touched = @ \ {src}, !.write = w]
    BY <2>1 DEF Scanned, w
  <2>3. /\ y.phase = x.phase /\ y.peer = x.peer /\ y.cursor = x.cursor /\ y.page = x.page
        /\ y.vec = x.vec /\ y.write = w /\ y.touched \subseteq x.touched
    BY <2>2 DEF PullState
  <2> QED
    BY <1>1, <1>3, <2>1, <2>3 DEF PullFull
<1> QED
  BY <1>2, <1>3

\* A pull starts from what the node has.
LEMMA FullStartPull ==
  ASSUME Inv, Full, NEW n \in Node, NEW p \in Node, StartPull(n, p)
  PROVE  Full'
<1>1. PICK c \in Vector : c = CurrentVector(n)
  BY CurrentVectorIssued
<1>2. PICK x : x = [PullIdle EXCEPT !.phase = "request", !.peer = p, !.cursor = c]
  OBVIOUS
<1>3. /\ x \in PullState /\ x.phase = "request" /\ x.cursor = c /\ x.page = {} /\ x.write = {}
  BY <1>2, IdleOK DEF PullState, PullIdle
<1>4. PullFull(n, x)
  BY <1>1, <1>3, CurrentVectorCovers DEF PullFull
<1>5. pull' = [pull EXCEPT ![n] = x]
  BY <1>1, <1>2 DEF StartPull, SetPull
<1> QED
  BY <1>3, <1>4, <1>5, PullMovesFull DEF StartPull, persistent, pusher

\* The peer captures a vector that covers what it has.
LEMMA FullServeVector ==
  ASSUME Inv, Full, NEW n \in Node, ServeVector(n)
  PROVE  Full'
<1>1. PICK x \in PullState : x = pull[n] /\ PullOK(x) /\ PullFull(n, x)
  BY ExchangeTypes DEF Full
<1>2. x.phase = "request" /\ x.peer \in Node /\ x.page = {}
  BY <1>1 DEF ServeVector, PullOK
<1>3. PICK v \in Vector : v = CurrentVector(x.peer)
  BY <1>2, CurrentVectorIssued
<1>4. PICK y : y = [x EXCEPT !.phase = "serving", !.vec = v]
  OBVIOUS
<1>5. /\ y \in PullState /\ y.phase = "serving" /\ y.vec = v
      /\ y.cursor = x.cursor /\ y.page = x.page /\ y.write = x.write /\ y.peer = x.peer
  BY <1>4 DEF PullState
<1>6. PullFull(n, y)
  BY <1>1, <1>2, <1>3, <1>5, CurrentVectorCovers DEF PullFull
<1>7. pull' = [pull EXCEPT ![n] = y]
  BY <1>1, <1>3, <1>4 DEF ServeVector, SetPull
<1> QED
  BY <1>5, <1>6, <1>7, PullMovesFull DEF ServeVector, persistent, pusher

\* The heart of anti-entropy.  A page starts where the cursor stands and leaves
\* nothing out; an empty page means that the cursor is past everything the peer
\* has, hence past everything the captured vector of the peer covers.
LEMMA FullServePage ==
  ASSUME Inv, Full, NEW n \in Node, ServePage(n)
  PROVE  Full'
<1>1. PICK x \in PullState : x = pull[n] /\ PullOK(x) /\ PullFull(n, x)
  BY ExchangeTypes DEF Full
<1>2. x.phase = "serving" /\ x.peer \in Node /\ x.page = {}
  BY <1>1 DEF ServePage, PullOK
<1>3. PICK page \in SUBSET Held(x.peer) :
        /\ IsPage(page, x.peer, ServedAfter(n))
        /\ pull' = [pull EXCEPT ![n] = IF page = {}
             THEN [x EXCEPT !.phase = "adopt", !.touched = Advertised(n)]
             ELSE [x EXCEPT !.phase = "ingest", !.page = page]]
  BY <1>1 DEF ServePage, SetPull
<1>4. page \subseteq Op /\ Held(x.peer) \subseteq Op
  BY <1>2, HeldType DEF Inv
\* n has everything up to where it asks to be served from.
<1>5. ASSUME NEW src \in Node
      PROVE  /\ ServedAfter(n)[src] \in Nat
             /\ UpTo(src, ServedAfter(n)[src]) \subseteq Held(n)
  <2>1. /\ x.cursor[src] \in Nat /\ x.vec[src] \in Nat /\ x.cursor \in [Node -> Nat]
        /\ localSeq[src] \in Nat
    BY <1>1, Numbers DEF PullState, Vector, Inv
  <2>2. \/ ServedAfter(n)[src] = x.cursor[src]
        \/ src = n /\ ServedAfter(n)[src] = x.vec[n]
    BY <1>1, <2>1 DEF ServedAfter, Larger
  <2>3. UpTo(src, x.cursor[src]) \subseteq Held(n)
    BY <1>1 DEF PullFull
  <2>4. CASE src = n /\ ServedAfter(n)[src] = x.vec[n]
    <3>1. x.vec[n] <= localSeq[n]
      BY <1>1 DEF PullOK
    <3>2. UpTo(n, x.vec[n]) \subseteq Held(n)
      BY <2>1, <2>4, <3>1 DEF Inv, LogOwn, UpTo
    <3> QED
      BY <2>1, <2>4, <3>2
  <2> QED
    BY <2>1, <2>2, <2>3, <2>4
\* An operation of the peer is in n's log or beyond.
<1>6. ASSUME NEW o \in Held(x.peer)
      PROVE  o \in Held(n) \/ o.seq > ServedAfter(n)[o.src]
  BY <1>4, <1>5, <1>6, UpToType DEF Op
<1>7. CASE page = {}
  <2>1. Held(x.peer) \subseteq Held(n)
    BY <1>3, <1>6, <1>7, BatchAssumption, FS_EmptySet DEF IsPage
  <2>2. PICK t \in SUBSET Node : t = Advertised(n) /\ n \notin t
    <3>1. Advertised(n) \in SUBSET Node /\ n \notin Advertised(n)
      BY DEF Advertised
    <3> QED
      BY <3>1
  <2>3. PICK y : y = [x EXCEPT !.phase = "adopt", !.touched = t]
    OBVIOUS
  <2>4. /\ y \in PullState /\ y.phase = "adopt" /\ y.touched = t /\ y.vec = x.vec
        /\ y.cursor = x.cursor /\ y.page = x.page /\ y.write = x.write
    BY <2>3 DEF PullState
  <2>5. PullFull(n, y)
    BY <1>1, <1>2, <2>1, <2>2, <2>4 DEF PullFull
  <2>6. pull' = [pull EXCEPT ![n] = y]
    BY <1>3, <1>7, <2>2, <2>3
  <2> QED
    BY <2>4, <2>5, <2>6, PullMovesFull DEF ServePage, persistent, pusher
<1>8. CASE page # {}
  <2>1. PICK y : y = [x EXCEPT !.phase = "ingest", !.page = page]
    OBVIOUS
  <2>2. /\ y \in PullState /\ y.phase = "ingest" /\ y.page = page
        /\ y.cursor = x.cursor /\ y.write = x.write
    BY <1>4, <2>1 DEF PullState
  <2>3. ASSUME NEW o \in page, NEW b \in UpTo(o.src, o.seq)
        PROVE  b \in Held(n) \cup page
    <3>1. o \in Op /\ b \in Op /\ b.src = o.src /\ b.seq <= o.seq
      BY <1>4, <2>3, UpToType DEF Op
    <3>2. b \in Held(x.peer)
      BY <1>2, <2>3, OrderedCovers DEF Inv, Full
    <3>3. CASE b.seq > ServedAfter(n)[b.src]
      <4>1. b = o \/ Before(b, o)
        BY <3>1 DEF Before, Op
      <4> QED
        BY <1>3, <3>2, <3>3, <4>1 DEF IsPage
    <3> QED
      BY <1>6, <3>2, <3>3
  <2>4. PullFull(n, y)
    BY <1>1, <2>2, <2>3 DEF PullFull
  <2>5. pull' = [pull EXCEPT ![n] = y]
    BY <1>3, <1>8, <2>1
  <2> QED
    BY <2>2, <2>4, <2>5, PullMovesFull DEF ServePage, persistent, pusher
<1> QED
  BY <1>7, <1>8

\* A scan covers only operations of the log.
LEMMA FullPullScan ==
  ASSUME Inv, Full, NEW n \in Node, PullScan(n)
  PROVE  Full'
<1>1. PICK src \in pull[n].touched :
        \E next \in vector[n][src] .. vector[n][src] + Len(oplog[n]) :
          /\ ScanStopsAt(n, src, vector[n][src], next)
          /\ SetPull(n, Scanned(pull[n], src, vector[n][src], next))
  BY DEF PullScan
<1>2. PICK next \in vector[n][src] .. vector[n][src] + Len(oplog[n]) :
          /\ ScanStopsAt(n, src, vector[n][src], next)
          /\ SetPull(n, Scanned(pull[n], src, vector[n][src], next))
  BY <1>1
<1>3. src \in Node /\ pull[n] \in PullState /\ PullOK(pull[n]) /\ PullFull(n, pull[n])
  BY <1>1, ExchangeTypes DEF PullState, Full
<1>4. vector[n][src] \in Nat /\ next \in Nat
  BY <1>3, Numbers DEF Inv
<1> DEFINE x == Scanned(pull[n], src, vector[n][src], next)
<1>5. x \in PullState
  BY <1>2, <1>3, <1>4, ScanIssued, ScannedWrite
<1>6. PullFull(n, x)
  BY <1>2, <1>3, <1>4, ScanCovers, ScannedFull
<1>7. pull' = [pull EXCEPT ![n] = x]
  BY <1>2 DEF SetPull
<1> HIDE DEF x
<1> QED
  BY <1>5, <1>6, <1>7, PullMovesFull DEF PullScan, persistent, pusher

\* After the last page the node has what the captured vector covers.
LEMMA FullAdoptEntry ==
  ASSUME Inv, Full, NEW n \in Node, AdoptEntry(n)
  PROVE  Full'
<1>1. PICK src, next :
         /\ src \in pull[n].touched
         /\ next \in {Larger(pull[n].vec[src], vector[n][src]), vector[n][src]}
         /\ SetPull(n, Scanned(pull[n], src, vector[n][src], next))
  BY DEF AdoptEntry
<1>2. /\ src \in Node /\ pull[n] \in PullState /\ PullOK(pull[n]) /\ PullFull(n, pull[n])
      /\ pull[n].phase = "adopt"
  BY <1>1, ExchangeTypes DEF PullState, Full, AdoptEntry
<1> DEFINE cur  == vector[n][src]
           x    == Scanned(pull[n], src, cur, next)
<1>3. /\ cur \in Nat /\ next \in Nat
      /\ next # cur => next = pull[n].vec[src] /\ next > cur
  BY <1>1, <1>2, Numbers DEF Inv, Larger, PullState, Vector
<1>4. next # cur => [src |-> src, seq |-> next] \in Op /\ next <= localSeq[src]
  BY <1>2, <1>3 DEF PullOK, Op
<1>5. next # cur => UpTo(src, next) \subseteq Held(n)
  BY <1>1, <1>2, <1>3 DEF PullFull
<1> HIDE DEF cur
<1>6. x \in PullState /\ PullFull(n, x)
  BY <1>2, <1>3, <1>4, <1>5, ScannedWrite, ScannedFull
<1>7. pull' = [pull EXCEPT ![n] = x]
  BY <1>1 DEF SetPull, cur
<1> HIDE DEF x
<1> QED
  BY <1>6, <1>7, PullMovesFull DEF AdoptEntry, persistent, pusher

\* The next request keeps a cursor the node has passed.
LEMMA FullNextPage ==
  ASSUME Inv, Full, NEW n \in Node, NextPage(n)
  PROVE  Full'
<1>1. PICK x \in PullState : x = pull[n] /\ PullFull(n, x)
  BY ExchangeTypes DEF Full
<1>2. PICK v \in Vector : v = PullIdle.vec
  BY IdleOK DEF PullState
<1>3. PICK y : y = [x EXCEPT !.phase = "request", !.vec = v]
  OBVIOUS
<1>4. /\ y \in PullState /\ y.phase = "request" /\ y.cursor = x.cursor
      /\ y.page = x.page /\ y.write = x.write
  BY <1>3 DEF PullState
<1>5. PullFull(n, y)
  BY <1>1, <1>4 DEF PullFull
<1>6. pull' = [pull EXCEPT ![n] = y]
  BY <1>1, <1>2, <1>3 DEF NextPage, SetPull
<1> QED
  BY <1>4, <1>5, <1>6, PullMovesFull DEF NextPage, persistent, pusher

\* A pull that ends leaves nothing behind.
LEMMA FullPullEnds ==
  ASSUME Inv, Full, NEW n \in Node, PullDone(n) \/ PullFail(n)
  PROVE  Full'
<1>1. pull' = [pull EXCEPT ![n] = PullIdle]
  BY DEF PullDone, PullFail, SetPull
<1> QED
  BY <1>1, IdleOK, IdleFull, PullMovesFull DEF PullDone, PullFail, persistent, pusher

\* The rows before a request are those before the cursor.
LEMMA FullPushSend ==
  ASSUME Inv, Full, NEW p \in Node, NEW n \in Node, PushSend(p, n)
  PROVE  Full'
<1> DEFINE at   == pushCursor[p][n] + 1
           last == Smaller(pushCursor[p][n] + MaxBatch, Len(oplog[p]))
<1>1. PICK x : x = [PushIdle EXCEPT !.phase = "sent", !.waiting = TRUE, !.at = at, !.last = last]
  OBVIOUS
<1>2. push' = [push EXCEPT ![p][n] = x]
  BY <1>1 DEF PushSend, SetPush
<1>3. \A i \in 1 .. at - 1 : oplog[p][i] \in Held(n)
  BY Numbers DEF Inv, PushCursorSound, Full
<1> HIDE DEF at, last
<1>4. x.at = at /\ x.write = {}
  BY <1>1 DEF PushIdle
<1>5. PushFull(p, n, x)
  BY <1>3, <1>4 DEF PushFull
<1> QED
  BY <1>2, <1>5, PushMovesOneFull DEF PushSend, persistent, pusher

\* Steps of a push that move neither its place nor its entry.
LEMMA FullPushRest ==
  ASSUME Inv, Full, NEW p \in Node, NEW n \in Node, PushFail(p, n) \/ PushTimeout(p, n)
  PROVE  Full'
<1>1. PICK x \in PushState : x = push[p][n] /\ PushFull(p, n, x)
  BY ExchangeTypes DEF Full
<1>2. PICK y : /\ y = PushIdle \/ y = [x EXCEPT !.waiting = FALSE]
               /\ push' = [push EXCEPT ![p][n] = y]
  BY <1>1 DEF PushFail, PushTimeout, SetPush
<1>3. PushFull(p, n, y)
  <2>1. CASE y = [x EXCEPT !.waiting = FALSE]
    <3>1. y.phase = x.phase /\ y.at = x.at /\ y.write = x.write
      BY <2>1 DEF PushState
    <3> QED
      BY <1>1, <3>1 DEF PushFull
  <2> QED
    BY <1>2, <2>1, IdleFull
<1> QED
  BY <1>2, <1>3, PushMovesOneFull DEF PushFail, PushTimeout, persistent

\* A push that is done.
LEMMA FullPushDone ==
  ASSUME Inv, Full, NEW p \in Node, NEW n \in Node, PushDone(p, n)
  PROVE  Full'
<1>1. push' = [push EXCEPT ![p][n] = PushIdle]
  BY DEF PushDone, SetPush
<1> QED
  BY <1>1, IdleFull, PushMovesOneFull DEF PushDone, persistent

\* A round of the pusher changes no exchange.
LEMMA FullPushRound ==
  ASSUME Inv, Full, NEW p \in Node, NEW n \in Node, PushRound(p) \/ PushNothing(p, n)
  PROVE  Full'
<1>1. push' = push
  BY DEF PushRound, PushNothing
<1>2. \A q, m \in Node : PushFull(q, m, push'[q][m])
  BY <1>1 DEF Full
<1> QED
  BY <1>2, PushMovesFull DEF PushRound, PushNothing, persistent

\* A scan covers only operations of the log.
LEMMA FullHandleScan ==
  ASSUME Inv, Full, NEW p \in Node, NEW n \in Node, HandleScan(p, n)
  PROVE  Full'
<1>1. PICK src \in push[p][n].touched :
        \E next \in vector[n][src] .. vector[n][src] + Len(oplog[n]) :
          /\ ScanStopsAt(n, src, vector[n][src], next)
          /\ SetPush(p, n, Scanned(push[p][n], src, vector[n][src], next))
  BY DEF HandleScan
<1>2. PICK next \in vector[n][src] .. vector[n][src] + Len(oplog[n]) :
          /\ ScanStopsAt(n, src, vector[n][src], next)
          /\ SetPush(p, n, Scanned(push[p][n], src, vector[n][src], next))
  BY <1>1
<1>3. src \in Node /\ push[p][n] \in PushState /\ PushFull(p, n, push[p][n])
  BY <1>1, ExchangeTypes DEF PushState, Full
<1>4. vector[n][src] \in Nat /\ next \in Nat
  BY <1>3, Numbers DEF Inv
<1> DEFINE x == Scanned(push[p][n], src, vector[n][src], next)
<1>5. PushFull(p, n, x)
  BY <1>2, <1>3, <1>4, ScanCovers, ScannedFull
<1>6. push' = [push EXCEPT ![p][n] = x]
  BY <1>2 DEF SetPush
<1> HIDE DEF x
<1> QED
  BY <1>5, <1>6, PushMovesOneFull DEF HandleScan, persistent, pusher

-----------------------------------------------------------------------------
(***************************************************************************)
(* Steps that change the database                                          *)
(***************************************************************************)
\* A node receives the next operation of a source.
LEMMA ReceivedFull ==
  ASSUME Inv, Full, NEW n \in Node, NEW q \in Node, NEW o \in Held(q),
         \A s \in 1 .. o.seq - 1 : [src |-> o.src, seq |-> s] \in Held(n),
         oplog' = IF o.src = n THEN oplog ELSE [oplog EXCEPT ![n] = Stored(n, o)],
         localSeq' = localSeq, vector' = vector, serving' = serving,
         startRow' = startRow, pushCursor' = pushCursor, pushing' = pushing
  PROVE  /\ LogGrows /\ o \in Held(n)' /\ LogOrdered' /\ VectorCovers'
         /\ \A m \in Node : serving'[m] /\ startRow'[m] = 0
         /\ \A p, m \in Node : \A x \in PushState :
              PushOK(p, m, x) /\ PushFull(p, m, x) => PushFull(p, m, x)'
         /\ \A m \in Node : \A x \in PullState :
              PullOK(x) /\ PullFull(m, x) => PullFull(m, x)'
<1>1. oplog' = oplog \/ oplog' = [oplog EXCEPT ![n] = Stored(n, o)]
  OBVIOUS
<1>2. LogGrows
  BY <1>1, Received
<1>3. o \in Op /\ o.src \in Node /\ o.seq \in Nat \ {0}
  BY HeldType DEF Inv, Op
<1>4. LogOrdered'
  BY <1>1, <1>3, OrderedStored DEF Inv, Full
<1>5. o \in Held(n)'
  <2>1. CASE o.src = n
    <3>1. o \in Held(n)
      BY <1>3, <2>1 DEF Inv, LogIssued, LogOwn, Op
    <3> QED
      BY <1>2, <3>1, HeldGrows DEF Inv
  <2>2. CASE o.src # n
    <3>1. Receives(n, o)
      BY <1>3, <2>2, StoredGrows DEF Inv
    <3> QED
      BY <3>1 DEF Receives
  <2> QED
    BY <2>1, <2>2
<1>6. VectorCovers'
  <2>1. \A m \in Node : Held(m) \subseteq Held(m)'
    BY <1>2, HeldGrows DEF Inv
  <2>2. \A m, src \in Node : UpTo(src, vector'[m][src]) \subseteq Held(m)'
    BY <2>1 DEF Full, VectorCovers
  <2> QED
    BY <2>2 DEF VectorCovers, UpTo
<1>7. \A m \in Node : serving'[m] /\ startRow'[m] = 0
  BY DEF Full
<1> QED
  BY <1>2, <1>4, <1>5, <1>6, <1>7, FullKeeps DEF Inv

\* Rows that arrive in the order of the sender's log keep the receiver's log ordered.
LEMMA FullHandleOp ==
  ASSUME Inv, Full, NEW p \in Node, NEW n \in Node, HandleOp(p, n)
  PROVE  Full'
<1>1. PICK x \in PushState : x = push[p][n] /\ PushOK(p, n, x) /\ PushFull(p, n, x)
  BY ExchangeTypes DEF Full
<1>2. x.phase # "idle" /\ x.at \in 1 .. Len(oplog[p]) /\ x.at \in Nat
  BY <1>1, PushNumbers, Numbers DEF HandleOp, PushOK, Inv
<1>3. PICK o \in Held(p) : o = oplog[p][x.at] /\ o \in Op
  BY <1>2, RowType DEF Inv
<1>4. PICK y : y = [x EXCEPT !.phase = "handling", !.at = @ + 1,
                             !.touched = @ \cup ({o.src} \ {n})]
  OBVIOUS
<1>5. /\ push' = [push EXCEPT ![p][n] = y]
      /\ oplog' = IF o.src = n THEN oplog ELSE [oplog EXCEPT ![n] = Stored(n, o)]
      /\ localSeq' = localSeq /\ vector' = vector /\ serving' = serving
      /\ startRow' = startRow /\ pushCursor' = pushCursor /\ pushing' = pushing
      /\ pull' = pull
  BY <1>1, <1>3, <1>4 DEF HandleOp, SetPush, pusher
\* The rows before it are in n's log already, the earlier operations of the
\* source among them.
<1>6. \A s \in 1 .. o.seq - 1 : [src |-> o.src, seq |-> s] \in Held(n)
  BY <1>1, <1>2, <1>3 DEF Full, LogOrdered, PushFull
<1>7. /\ LogGrows /\ o \in Held(n)' /\ LogOrdered' /\ VectorCovers'
      /\ \A m \in Node : serving'[m] /\ startRow'[m] = 0
      /\ \A q, m \in Node : \A z \in PushState :
           PushOK(q, m, z) /\ PushFull(q, m, z) => PushFull(q, m, z)'
      /\ \A m \in Node : \A z \in PullState :
           PullOK(z) /\ PullFull(m, z) => PullFull(m, z)'
  BY <1>3, <1>5, <1>6, ReceivedFull
<1>8. y.at = x.at + 1 /\ y.write = x.write
  BY <1>4 DEF PushState
<1>9. PushFull(p, n, y)'
  <2>1. PushFull(p, n, x)'
    BY <1>1, <1>7
  <2>2. oplog'[p][x.at] \in Held(n)'
    BY <1>2, <1>3, <1>7 DEF LogGrows
  <2>3. \A i \in 1 .. y.at - 1 : i = x.at \/ i \in 1 .. x.at - 1
    BY <1>2, <1>8
  <2> QED
    BY <1>2, <1>8, <2>1, <2>2, <2>3 DEF PushFull
<1>10. \A q, m \in Node : PushFull(q, m, push[q][m])'
  <2> SUFFICES ASSUME NEW q \in Node, NEW m \in Node
               PROVE  PushFull(q, m, push[q][m])'
    OBVIOUS
  <2>1. CASE q = p /\ m = n
    <3>1. push'[q][m] = y
      BY <1>5, <2>1 DEF Inv, TypeOK
    <3> QED
      BY <1>9, <2>1, <3>1
  <2>2. CASE ~ (q = p /\ m = n)
    <3>1. push'[q][m] = push[q][m]
      BY <1>5, <2>2 DEF Inv, TypeOK
    <3>2. push[q][m] \in PushState /\ PushOK(q, m, push[q][m]) /\ PushFull(q, m, push[q][m])
      BY ExchangeTypes DEF Full
    <3> QED
      BY <1>7, <3>1, <3>2
  <2> QED
    BY <2>1, <2>2
<1>11. \A m \in Node : PullFull(m, pull[m])'
  <2>1. \A m \in Node : pull[m] \in PullState /\ PullOK(pull[m]) /\ PullFull(m, pull[m])
    BY ExchangeTypes DEF Full
  <2> QED
    BY <1>5, <1>7, <2>1
<1> QED
  BY <1>7, <1>10, <1>11 DEF Full

\* Operations that arrive in the order of the page keep the log ordered.
LEMMA FullPullOp ==
  ASSUME Inv, Full, NEW n \in Node, PullOp(n)
  PROVE  Full'
<1>1. PICK x \in PullState : x = pull[n] /\ PullOK(x) /\ PullFull(n, x)
  BY ExchangeTypes DEF Full
<1>2. PICK o \in x.page :
        /\ \A b \in x.page : ~ Before(b, o)
        /\ pull' = [pull EXCEPT ![n] = [Paged(x, o) EXCEPT !.touched = @ \cup ({o.src} \ {n})]]
        /\ oplog' = IF o.src = n THEN oplog ELSE [oplog EXCEPT ![n] = Stored(n, o)]
        /\ UNCHANGED <<localSeq, vector, serving, pusher, push, restarts>>
  BY <1>1 DEF PullOp, SetPull
<1>3. /\ x.phase = "ingest" /\ x.peer \in Node /\ o \in Held(x.peer)
      /\ o \in Op /\ o.src \in Node /\ o.seq \in Nat \ {0}
  BY <1>1, <1>2 DEF PullOK, PullState, Op
<1>4. /\ localSeq' = localSeq /\ vector' = vector /\ serving' = serving
      /\ startRow' = startRow /\ pushCursor' = pushCursor /\ pushing' = pushing
      /\ push' = push
  BY <1>2 DEF pusher
\* It is the least of the page, so its source's earlier operations are here.
<1>5. ASSUME NEW s \in 1 .. o.seq - 1
      PROVE  [src |-> o.src, seq |-> s] \in Held(n)
  <2>1. [src |-> o.src, seq |-> s] \in UpTo(o.src, o.seq)
    BY <1>3 DEF UpTo
  <2>2. [src |-> o.src, seq |-> s] \notin x.page
    BY <1>2, <1>3 DEF Before
  <2> QED
    BY <1>1, <1>2, <2>1, <2>2 DEF PullFull
<1>6. /\ LogGrows /\ o \in Held(n)' /\ LogOrdered' /\ VectorCovers'
      /\ \A m \in Node : serving'[m] /\ startRow'[m] = 0
      /\ \A q, m \in Node : \A z \in PushState :
           PushOK(q, m, z) /\ PushFull(q, m, z) => PushFull(q, m, z)'
      /\ \A m \in Node : \A z \in PullState :
           PullOK(z) /\ PullFull(m, z) => PullFull(m, z)'
  BY <1>2, <1>3, <1>4, <1>5, ReceivedFull
<1>7. PICK c \in Vector : /\ c = [x.cursor EXCEPT ![o.src] = Larger(@, o.seq)]
                         /\ \A src \in Node : c[src] = x.cursor[src] \/ (src = o.src /\ c[src] = o.seq)
  <2>1. x.cursor \in [Node -> Nat]
    BY DEF PullState, Vector
  <2>2. PICK k \in Nat : k = Larger(x.cursor[o.src], o.seq) /\ (k = x.cursor[o.src] \/ k = o.seq)
    BY <1>3, <2>1 DEF Larger
  <2>3. PICK c : c = [x.cursor EXCEPT ![o.src] = k]
    OBVIOUS
  <2>4. /\ c \in Vector
        /\ \A src \in Node : c[src] = x.cursor[src] \/ (src = o.src /\ c[src] = o.seq)
    BY <1>3, <2>1, <2>2, <2>3 DEF Vector
  <2> QED
    BY <2>2, <2>3, <2>4
<1>8. PICK z : z = Paged(x, o)
  OBVIOUS
<1>9. z = [x EXCEPT !.page = @ \ {o}, !.cursor = c]
  BY <1>7, <1>8 DEF Paged, PullState
<1>10. /\ z \in PullState /\ z.phase = x.phase /\ z.page = x.page \ {o} /\ z.cursor = c
       /\ z.write = x.write
  BY <1>1, <1>3, <1>8, <1>9, PagedOK DEF PullState
<1>11. PICK y : y = [z EXCEPT !.touched = @ \cup ({o.src} \ {n})]
  OBVIOUS
<1>12. /\ y.phase = x.phase /\ y.page = x.page \ {o} /\ y.cursor = c /\ y.write = x.write
  BY <1>10, <1>11 DEF PullState
<1>13. PullFull(n, y)'
  <2>1. PullFull(n, x)'
    BY <1>1, <1>6
  <2>2. UpTo(o.src, o.seq) \subseteq Held(n)'
    <3>1. Held(n) \subseteq Held(n)'
      BY <1>6, HeldGrows DEF Inv
    <3>2. ASSUME NEW s \in 1 .. o.seq
          PROVE  [src |-> o.src, seq |-> s] \in Held(n)'
      <4>1. CASE s = o.seq
        BY <1>3, <1>6, <4>1 DEF Op
      <4>2. CASE s # o.seq
        BY <1>3, <1>5, <3>1, <4>2
      <4> QED
        BY <4>1, <4>2
    <3> QED
      BY <3>2 DEF UpTo
  <2>3. \A src \in Node : UpTo(src, c[src]) \subseteq Held(n)'
    BY <1>7, <2>1, <2>2 DEF PullFull, UpTo
  <2>4. \A b \in x.page \ {o} : UpTo(b.src, b.seq) \subseteq Held(n)' \cup (x.page \ {o})
    BY <1>6, <2>1 DEF PullFull, UpTo
  <2>5. \A w \in x.write : UpTo(w.src, w.seq) \subseteq Held(n)'
    BY <2>1 DEF PullFull, UpTo
  <2> QED
    BY <1>3, <1>12, <2>3, <2>4, <2>5 DEF PullFull, UpTo
<1>14. \A m \in Node : PullFull(m, pull[m])'
  <2> SUFFICES ASSUME NEW m \in Node
               PROVE  PullFull(m, pull[m])'
    OBVIOUS
  <2>1. CASE m = n
    <3>1. pull'[m] = y
      BY <1>2, <1>8, <1>11, <2>1 DEF Inv, TypeOK
    <3> QED
      BY <1>13, <2>1, <3>1
  <2>2. CASE m # n
    <3>1. pull'[m] = pull[m]
      BY <1>2, <2>2 DEF Inv, TypeOK
    <3>2. pull[m] \in PullState /\ PullOK(pull[m]) /\ PullFull(m, pull[m])
      BY ExchangeTypes DEF Full
    <3> QED
      BY <1>6, <3>1, <3>2
  <2> QED
    BY <2>1, <2>2
<1>15. \A q, m \in Node : PushFull(q, m, push[q][m])'
  <2>1. \A q, m \in Node : /\ push[q][m] \in PushState /\ PushOK(q, m, push[q][m])
                            /\ PushFull(q, m, push[q][m])
    BY ExchangeTypes DEF Full
  <2> QED
    BY <1>4, <1>6, <2>1
<1> QED
  BY <1>6, <1>14, <1>15 DEF Full

\* Storing an entry that covers what the node has.
LEMMA StoreFull ==
  ASSUME Inv, Full, NEW n \in Node, NEW w \in Op, UpTo(w.src, w.seq) \subseteq Held(n),
         vector' = [vector EXCEPT ![n][w.src] = w.seq],
         oplog' = oplog, serving' = serving, startRow' = startRow,
         \A p, m \in Node : PushFull(p, m, push'[p][m]),
         \A m \in Node : PullFull(m, pull'[m])
  PROVE  Full'
<1>1. w.src \in Node /\ w.seq \in Nat
  BY DEF Op
<1>2. \A m, src \in Node : vector'[m][src] = IF m = n /\ src = w.src THEN w.seq ELSE vector[m][src]
  BY <1>1 DEF Inv, TypeOK, Vector
<1>3. \A m, src \in Node : UpTo(src, vector'[m][src]) \subseteq Held(m)
  BY <1>2 DEF Full, VectorCovers
<1>4. \A k : Held(k)' = Held(k)
  BY DEF Held
<1>5. VectorCovers'
  BY <1>3, <1>4 DEF VectorCovers
<1>6. LogOrdered' /\ \A m \in Node : serving'[m] /\ startRow'[m] = 0
  BY DEF Full, LogOrdered
<1>7. \A p, m \in Node : PushFull(p, m, push[p][m])'
  BY <1>4 DEF PushFull
<1>8. \A m \in Node : PullFull(m, pull[m])'
  BY <1>4 DEF PullFull
<1> QED
  BY <1>5, <1>6, <1>7, <1>8 DEF Full

\* The handler stores an entry that covers only what the node has.
LEMMA FullHandleStore ==
  ASSUME Inv, Full, NEW p \in Node, NEW n \in Node, HandleStore(p, n)
  PROVE  Full'
<1>1. PICK x \in PushState : x = push[p][n] /\ PushFull(p, n, x)
  BY ExchangeTypes DEF Full
<1>2. PICK y : y = [x EXCEPT !.write = {}]
  OBVIOUS
<1>3. PICK w \in x.write :
        /\ vector' = [vector EXCEPT ![n][w.src] = w.seq]
        /\ push' = [push EXCEPT ![p][n] = y]
        /\ UNCHANGED <<localSeq, oplog, serving, pusher, pull, restarts>>
  BY <1>1, <1>2 DEF HandleStore, SetPush
<1>4. w \in Op /\ UpTo(w.src, w.seq) \subseteq Held(n)
  BY <1>1, <1>3, PushNumbers DEF PushFull
<1>5. y.phase = x.phase /\ y.at = x.at /\ y.write = {}
  BY <1>2 DEF PushState
<1>6. PushFull(p, n, y)
  BY <1>1, <1>5 DEF PushFull
<1>7. \A q, m \in Node : push'[q][m] = IF q = p /\ m = n THEN y ELSE push[q][m]
  BY <1>3 DEF Inv, TypeOK
<1>8. \A q, m \in Node : PushFull(q, m, push'[q][m])
  BY <1>6, <1>7 DEF Full
<1>9. \A m \in Node : PullFull(m, pull'[m])
  BY <1>3 DEF Full
<1> QED
  BY <1>3, <1>4, <1>8, <1>9, StoreFull DEF pusher

\* The puller stores an entry that covers only what the node has.
LEMMA FullPullStore ==
  ASSUME Inv, Full, NEW n \in Node, PullStore(n)
  PROVE  Full'
<1>1. PICK x \in PullState : x = pull[n] /\ PullFull(n, x)
  BY ExchangeTypes DEF Full
<1>2. PICK y : y = [x EXCEPT !.write = {}]
  OBVIOUS
<1>3. PICK w \in x.write :
        /\ vector' = [vector EXCEPT ![n][w.src] = w.seq]
        /\ pull' = [pull EXCEPT ![n] = y]
        /\ UNCHANGED <<localSeq, oplog, serving, pusher, push, restarts>>
  BY <1>1, <1>2 DEF PullStore, SetPull
<1>4. w \in Op /\ UpTo(w.src, w.seq) \subseteq Held(n)
  BY <1>1, <1>3 DEF PullFull, PullState
<1>5. /\ y.phase = x.phase /\ y.cursor = x.cursor /\ y.page = x.page /\ y.vec = x.vec
      /\ y.peer = x.peer /\ y.touched = x.touched /\ y.write = {}
  BY <1>2 DEF PullState
<1>6. PullFull(n, y)
  BY <1>1, <1>5 DEF PullFull
<1>7. \A m \in Node : pull'[m] = IF m = n THEN y ELSE pull[m]
  BY <1>3 DEF Inv, TypeOK
<1>8. \A m \in Node : PullFull(m, pull'[m])
  BY <1>6, <1>7 DEF Full
<1>9. \A q, m \in Node : PushFull(q, m, push'[q][m])
  BY <1>3 DEF Full
<1> QED
  BY <1>3, <1>4, <1>8, <1>9, StoreFull DEF pusher

\* A captured write is the next operation of its node.
LEMMA FullLocalWrite ==
  ASSUME Inv, Full, NEW n \in Node, LocalWrite(n)
  PROVE  Full'
<1>1. PICK o \in Op : o = [src |-> n, seq |-> localSeq[n] + 1]
  <2>1. PICK s \in Nat \ {0} : s = localSeq[n] + 1
    BY Numbers DEF Inv
  <2> QED
    BY <2>1 DEF Op
<1>2. /\ oplog' = [oplog EXCEPT ![n] = Append(@, o)]
      /\ vector' = vector /\ serving' = serving /\ startRow' = startRow
      /\ push' = push /\ pull' = pull
  BY <1>1 DEF LocalWrite
<1>3. LogGrows
  BY <1>2, AppendGrows DEF Inv
<1>4. LogOrdered'
  <2>1. \A s \in 1 .. o.seq - 1 : [src |-> o.src, seq |-> s] \in Held(n)
    BY <1>1, Numbers DEF Inv, LogOwn
  <2> QED
    BY <1>2, <2>1, OrderedAppend DEF Inv, Full
<1>5. VectorCovers'
  <2>1. \A m \in Node : Held(m) \subseteq Held(m)'
    BY <1>3, HeldGrows DEF Inv
  <2>2. \A m, src \in Node : UpTo(src, vector'[m][src]) \subseteq Held(m)'
    BY <1>2, <2>1 DEF Full, VectorCovers
  <2> QED
    BY <2>2 DEF VectorCovers, UpTo
<1>6. \A q, m \in Node : PushFull(q, m, push[q][m])'
  <2>1. \A q, m \in Node : /\ push[q][m] \in PushState /\ PushOK(q, m, push[q][m])
                            /\ PushFull(q, m, push[q][m])
    BY ExchangeTypes DEF Full
  <2>2. \A q, m \in Node : \A z \in PushState :
           PushOK(q, m, z) /\ PushFull(q, m, z) => PushFull(q, m, z)'
    BY <1>3, FullKeeps DEF Inv
  <2> QED
    BY <1>2, <2>1, <2>2
<1>7. \A m \in Node : PullFull(m, pull[m])'
  <2>1. \A m \in Node : pull[m] \in PullState /\ PullOK(pull[m]) /\ PullFull(m, pull[m])
    BY ExchangeTypes DEF Full
  <2>2. \A m \in Node : \A z \in PullState :
           PullOK(z) /\ PullFull(m, z) => PullFull(m, z)'
    BY <1>3, FullKeeps DEF Inv
  <2> QED
    BY <1>2, <2>1, <2>2
<1>8. \A m \in Node : serving'[m] /\ startRow'[m] = 0
  BY <1>2 DEF Full
<1> QED
  BY <1>4, <1>5, <1>6, <1>7, <1>8 DEF Full

-----------------------------------------------------------------------------
\* Nothing is missing from empty logs.
LEMMA FullInit == Init => FullInv
<1> SUFFICES ASSUME Init PROVE Full
  BY DEF FullInv
<1>1. \A n \in Node : Held(n) = {} /\ Len(oplog[n]) = 0
  BY DEF Init, Held
<1>2. \A n \in Node : serving[n] /\ startRow[n] = 0
  BY DEF Init
<1>3. LogOrdered
  BY <1>1 DEF LogOrdered
<1>4. VectorCovers
  BY DEF Init, VectorCovers, UpTo
<1>5. \A p, n \in Node : PushFull(p, n, push[p][n])
  BY IdleFull DEF Init
<1>6. \A n \in Node : PullFull(n, pull[n])
  BY IdleFull DEF Init
<1> QED
  BY <1>2, <1>3, <1>4, <1>5, <1>6 DEF Full

\* Every step but a restart keeps it; a restart ends the claim.
LEMMA FullNext == Inv /\ FullInv /\ [Next]_vars => FullInv'
<1> SUFFICES ASSUME Inv, FullInv, [Next]_vars, restarts' = 0
             PROVE  Full'
  BY DEF FullInv
<1>1. restarts \in Nat
  BY DEF Inv, TypeOK
<1>2. CASE \E n \in Node : Restart(n)
  BY <1>1, <1>2 DEF Restart
<1>3. CASE \E n \in Node : LocalWrite(n) \/ PushRound(n) \/ StartBackground(n)
  <2>1. restarts' = restarts
    BY <1>3 DEF LocalWrite, PushRound, StartBackground
  <2>2. Full
    BY <2>1 DEF FullInv
  <2>3. \A n \in Node : ~ StartBackground(n)
    BY <2>2 DEF Full, StartBackground
  <2> QED
    BY <1>3, <2>2, <2>3, FullLocalWrite, FullPushRound
<1>4. CASE \E n \in Node : PullStep(n)
  <2>1. restarts' = restarts
    BY <1>4 DEF PullStep, ServeVector, ServePage, PullOp, PullScan, AdoptEntry, PullStore,
       NextPage, PullDone, PullFail
  <2> QED
    BY <1>4, <2>1, FullServeVector, FullServePage, FullPullOp, FullPullScan, FullAdoptEntry,
       FullPullStore, FullNextPage, FullPullEnds DEF PullStep, FullInv
<1>5. CASE \E p, n \in Node : PushStep(p, n) \/ StartPull(p, n)
  <2>1. restarts' = restarts
    BY <1>5 DEF PushStep, PushSend, PushNothing, HandleOp, HandleScan, HandleStore, PushDone,
       PushFail, PushTimeout, StartPull
  <2> QED
    BY <1>5, <2>1, FullPushSend, FullPushRound, FullHandleOp, FullHandleScan, FullHandleStore,
       FullPushDone, FullPushRest, FullStartPull DEF PushStep, FullInv
<1>6. CASE UNCHANGED vars
  <2>1. /\ oplog' = oplog /\ vector' = vector /\ serving' = serving /\ startRow' = startRow
        /\ push' = push /\ pull' = pull /\ restarts' = restarts
    BY <1>6 DEF vars, persistent, pusher
  <2>2. Full
    BY <2>1 DEF FullInv
  <2>3. \A p, n \in Node : PushFull(p, n, push'[p][n])
    BY <2>1, <2>2 DEF Full
  <2> QED
    BY <2>1, <2>2, <2>3, PushMovesFull
<1> QED
  BY <1>2, <1>3, <1>4, <1>5, <1>6 DEF Next

\* As long as no process has restarted, a node holds everything its vector
\* covers: what the "Complete pull" of sync.go relies on when it adopts the
\* vector of a peer (pullFromPeer, adoptVector).
THEOREM VectorsAreSound == Spec => []VectorSound
<1>1. Init => Inv /\ FullInv
  BY InvInit, FullInit
<1>2. (Inv /\ FullInv) /\ [Next]_vars => (Inv /\ FullInv)'
  BY InvNext, FullNext
<1>3. Inv /\ FullInv => VectorSound
  BY DEF FullInv, Full, VectorSound
<1> QED
  BY <1>1, <1>2, <1>3, PTL DEF Spec
=============================================================================
