--------------------------- MODULE SnapshotProofs ---------------------------
(***************************************************************************)
(* A snapshot takes no record back to an older version, and reconciling    *)
(* deletes no record that the peer has had all through the run.            *)
(***************************************************************************)
EXTENDS Snapshot, LwwTheorems

-----------------------------------------------------------------------------
(***************************************************************************)
(* The invariant                                                           *)
(***************************************************************************)
\* A run: what resume state and process know of one another.
RunOK(n) ==
  /\ snap[n].peer = 0 => snap[n] = NoSnap
  /\ snap[n].peer # 0 => resume[n].peer = snap[n].peer
  /\ snap[n].at # "next" => snap[n].col \in Col
  /\ snap[n].at = "list" => resume[n].reconcile
  /\ IsFiniteSet(snap[n].page)
  /\ \A i, j \in snap[n].page : i.key = j.key => i = j

\* What the peer has had all through the run it still has, and it was seen when its page
\* was passed.
SeenAll(n) ==
  \A r \in shown[n] :
    /\ resume[n].peer # 0 /\ row[resume[n].peer][r] # NoRow
    /\ resume[n].reconcile /\ r[2] <= resume[n].cols[r[1]] => r \in seen[n]

\* A page has of it what is in its range.
PageHas(n) ==
  snap[n].at \in {"read", "page"} =>
    \A r \in shown[n] : r[1] = snap[n].col /\ r[2] > resume[n].cols[r[1]] =>
      \/ \E i \in snap[n].page : i.key = r
      \/ Cardinality(snap[n].page) >= MaxBatch /\ \A i \in snap[n].page : i.key[2] < r[2]

\* And it is not condemned.
Spared(n) ==
  \A r \in shown[n] : r \notin snap[n].extra /\ \A v \in snap[n].victim : v.key # r

NodeInv(n) == IsFiniteSet(log[n]) /\ RunOK(n) /\ SeenAll(n) /\ PageHas(n) /\ Spared(n)

IInv == SnapshotTypeOK /\ \A n \in Node : NodeInv(n)

-----------------------------------------------------------------------------
(***************************************************************************)
(* Records, operations, and the largest of a set                           *)
(***************************************************************************)
LEMMA Nodes == Node \subseteq Nat /\ \A n \in Node : n # 0 /\ n \in Node \cup {0}
BY SnapshotAssumption

LEMMA RecIs ==
  ASSUME NEW r \in Rec
  PROVE  r = <<r[1], r[2]>> /\ r[1] \in Col /\ r[2] \in Nat /\ r[2] # 0 /\ r[2] \in IdsOf(r[1])
BY SnapshotAssumption DEF IdsOf

\* The values of a function on a finite set are finitely many.
LEMMA FiniteRange ==
  ASSUME NEW X, IsFiniteSet(X), NEW f
  PROVE  IsFiniteSet({f[x] : x \in X})
<1> DEFINE T == {f[x] : x \in X}
           g == [x \in X |-> f[x]]
<1>1. g \in Surjection(X, T)
  BY DEF Surjection
<1> HIDE DEF g
<1> QED
  BY <1>1, FS_Surjection

LEMMA TheLargest ==
  ASSUME NEW S \in SUBSET Nat, IsFiniteSet(S), S # {}
  PROVE  /\ (CHOOSE x \in S : \A y \in S : y <= x) \in S
         /\ (CHOOSE x \in S : \A y \in S : y <= x) \in Nat
         /\ \A y \in S : y <= (CHOOSE x \in S : \A z \in S : z <= x)
<1>1. \E x \in S : \A y \in S : y <= x
  BY FiniteMaximum
<1> QED
  BY <1>1

LEMMA IdsAre ==
  ASSUME NEW c \in Col
  PROVE  /\ IdsOf(c) \in SUBSET Nat /\ IsFiniteSet(IdsOf(c)) /\ IdsOf(c) # {}
         /\ \A i \in IdsOf(c) : <<c, i>> \in Rec /\ i # 0
         /\ End(c) \in Nat /\ \A i \in IdsOf(c) : i <= End(c)
<1> DEFINE X == {x \in Rec : x[1] = c}
           f == [x \in X |-> x[2]]
<1>1. \A x \in X : x = <<c, x[2]>> /\ x[2] \in Nat /\ x[2] # 0 /\ f[x] = x[2]
  BY RecIs
<1>2. IsFiniteSet(X) /\ X # {}
  BY SnapshotAssumption, FS_Subset
<1>3. IdsOf(c) = {f[x] : x \in X}
  BY DEF IdsOf
<1>4. \A i \in IdsOf(c) : \E x \in X : x[2] = i
  BY DEF IdsOf
<1> HIDE DEF f
<1>5. IsFiniteSet(IdsOf(c)) /\ IdsOf(c) # {}
  BY <1>2, <1>3, FiniteRange
<1>6. \A i \in IdsOf(c) : <<c, i>> \in Rec /\ i # 0 /\ i \in Nat
  BY <1>1, <1>4
<1> HIDE DEF X
<1>7. IdsOf(c) \in SUBSET Nat
  BY <1>6
<1> DEFINE m == CHOOSE i \in IdsOf(c) : \A j \in IdsOf(c) : j <= i
<1>8. m \in Nat /\ \A i \in IdsOf(c) : i <= m
  BY <1>5, <1>7, TheLargest
<1>9. End(c) = 1 + m
  BY DEF End
<1> HIDE DEF m
<1> QED
  BY <1>5, <1>6, <1>7, <1>8, <1>9

LEMMA OpIs ==
  ASSUME NEW o \in Op
  PROVE  /\ o.src \in Node /\ o.src \in Node \cup {0} /\ o.seq \in Nat \ {0} /\ o.hlc \in Nat /\ o.key \in Rec
         /\ Written(o) \in Payload \cup {NoRow}
         /\ now \in Nat => Stamp(o) \in Version
<1>1. o.src \in Node /\ o.seq \in Nat \ {0} /\ o.hlc \in Nat /\ o.key \in Rec
  BY DEF Op
<1>2. Written(o) \in Payload \cup {NoRow}
  BY <1>1 DEF Written, Payload
<1>3. now \in Nat => Stamp(o) \in Version
  BY <1>1 DEF Stamp, Version
<1> QED
  BY <1>1, <1>2, <1>3

LEMMA KeysAre ==
  ASSUME NEW ops \in SUBSET Op
  PROVE  KeysOf(ops) \subseteq Rec
BY OpIs DEF KeysOf

\* The types of a node's part.
LEMMA NodeTypes ==
  ASSUME SnapshotTypeOK, NEW n \in Node
  PROVE  /\ localSeq[n] \in Nat /\ vector[n] \in Vector /\ horizon[n] \in Vector /\ fence[n] \in Nat
         /\ log[n] \in SUBSET [op : Op, created : Nat] /\ Held(n) \in SUBSET Op
         /\ version[n] \in [Rec -> Version] /\ row[n] \in [Rec -> Payload \cup {NoRow}]
         /\ resume[n] \in ResumeState /\ seen[n] \in SUBSET Rec /\ queue[n] \in SUBSET Op
         /\ clock[n] \in Clock /\ Encode(clock[n]) \in Nat /\ snap[n] \in SnapState
         /\ doubt[n] \in SUBSET Rec /\ CurrentVector(n) \in Vector /\ now \in Nat
<1>1. localSeq[n] \in Nat /\ vector[n] \in Vector /\ horizon[n] \in Vector /\ fence[n] \in Nat
      /\ log[n] \in SUBSET [op : Op, created : Nat] /\ clock[n] \in Clock
  BY DEF SnapshotTypeOK, Vector
<1>2. Held(n) \in SUBSET Op
  BY <1>1 DEF Held
<1>3. CurrentVector(n) \in Vector
  BY <1>1 DEF CurrentVector, Vector, Larger
<1>4. Encode(clock[n]) \in Nat
  BY <1>1, EncodeType
<1>5. version[n] \in [Rec -> Version] /\ row[n] \in [Rec -> Payload \cup {NoRow}]
      /\ resume[n] \in ResumeState /\ seen[n] \in SUBSET Rec /\ queue[n] \in SUBSET Op
      /\ snap[n] \in SnapState /\ doubt[n] \in SUBSET Rec /\ now \in Nat
  BY DEF SnapshotTypeOK
<1> QED
  BY <1>1, <1>2, <1>3, <1>4, <1>5

-----------------------------------------------------------------------------
(***************************************************************************)
(* Types, and finite logs                                                  *)
(***************************************************************************)
\* Everything but `shown', which every step of SnapshotNext sets.
StepTypes ==
  /\ localSeq \in Vector
  /\ log \in [Node -> SUBSET [op : Op, created : Nat]]
  /\ version \in [Node -> [Rec -> Version]]
  /\ row \in [Node -> [Rec -> Payload \cup {NoRow}]]
  /\ vector \in [Node -> Vector] /\ horizon \in [Node -> Vector]
  /\ fence \in [Node -> Nat] /\ joined \in [Node -> BOOLEAN]
  /\ resume \in [Node -> ResumeState] /\ seen \in [Node -> SUBSET Rec]
  /\ clock \in [Node -> Clock] /\ queue \in [Node -> SUBSET Op] /\ snap \in [Node -> SnapState]
  /\ now \in Nat /\ issued \in SUBSET Op
  /\ doubt \in [Node -> SUBSET Rec]
  /\ events \in Nat

FiniteLogs == \A n \in Node : IsFiniteSet(log[n])

LEMMA StepTypesAre == SnapshotTypeOK => StepTypes
BY DEF SnapshotTypeOK, StepTypes

\* No action looks at `shown'.
LEMMA HeldFinite ==
  ASSUME NEW n \in Node, IsFiniteSet(log[n])
  PROVE  IsFiniteSet(Held(n))
<1> DEFINE f == [e \in log[n] |-> e.op]
<1>1. Held(n) = {f[e] : e \in log[n]}
  BY DEF Held
<1> HIDE DEF f
<1> QED
  BY <1>1, FiniteRange

LEMMA LocalWriteTypes ==
  ASSUME SnapshotTypeOK, FiniteLogs, NEW n \in Node, LocalWrite(n)
  PROVE  StepTypes' /\ FiniteLogs'
<1>1. PICK w \in UserWrites[n] :
       LET o == [src |-> n, seq |-> localSeq[n] + 1, hlc |-> Encode(clock'[n]),
                 type |-> w.type, key |-> w.key]
       IN  /\ log'     = [log EXCEPT ![n] = @ \cup {[op |-> o, created |-> now]}]
           /\ issued'  = issued \cup {o}
           /\ version' = [version EXCEPT ![n][w.key] = Stamp(o)]
           /\ row'     = [row EXCEPT ![n][w.key] = Written(o)]
           /\ doubt'   = [doubt EXCEPT ![n] = @ \cup
                IF Less(o, version[n][w.key]) THEN {w.key} ELSE {}]
  BY DEF LocalWrite
<1>2. /\ localSeq' = [localSeq EXCEPT ![n] = @ + 1] /\ clock' = [clock EXCEPT ![n] = Tick(@, now)]
      /\ UNCHANGED <<vector, horizon, fence, joined, resume, seen, queue, snap, now, events>>
  BY DEF LocalWrite
<1>3. clock' \in [Node -> Clock] /\ Encode(clock'[n]) \in Nat /\ localSeq' \in Vector
  <2>1. Tick(clock[n], now) \in Clock
    BY NodeTypes, TickIncreases
  <2>2. clock' \in [Node -> Clock]
    BY <1>2, <2>1 DEF SnapshotTypeOK
  <2> QED
    BY <1>2, <2>2, EncodeType DEF SnapshotTypeOK, Vector
<1> DEFINE o == [src |-> n, seq |-> localSeq[n] + 1, hlc |-> Encode(clock'[n]),
                 type |-> w.type, key |-> w.key]
<1>4. o \in Op /\ o.key = w.key /\ w.key \in Rec
  <2>1. w.type \in {"upsert", "delete"} /\ w.key \in Rec
    BY SnapshotAssumption
  <2>2. localSeq[n] + 1 \in Nat \ {0}
    BY NodeTypes
  <2> QED
    BY <1>3, <2>1, <2>2 DEF Op
<1>5. /\ log'     = [log EXCEPT ![n] = @ \cup {[op |-> o, created |-> now]}]
      /\ issued'  = issued \cup {o}
      /\ version' = [version EXCEPT ![n][w.key] = Stamp(o)]
      /\ row'     = [row EXCEPT ![n][w.key] = Written(o)]
      /\ doubt'   = [doubt EXCEPT ![n] = @ \cup
           IF Less(o, version[n][w.key]) THEN {w.key} ELSE {}]
  BY <1>1
<1> HIDE DEF o
<1>6. [op |-> o, created |-> now] \in [op : Op, created : Nat] /\ Stamp(o) \in Version
      /\ Written(o) \in Payload \cup {NoRow}
  BY <1>4, OpIs, NodeTypes
<1>7. log' \in [Node -> SUBSET [op : Op, created : Nat]] /\ issued' \in SUBSET Op
  BY <1>4, <1>5, <1>6 DEF SnapshotTypeOK
<1>8. version' \in [Node -> [Rec -> Version]]
  BY <1>4, <1>5, <1>6 DEF SnapshotTypeOK
<1>9. row' \in [Node -> [Rec -> Payload \cup {NoRow}]]
  BY <1>4, <1>5, <1>6 DEF SnapshotTypeOK
<1>10. doubt' \in [Node -> SUBSET Rec]
  BY <1>4, <1>5 DEF SnapshotTypeOK
<1>11. FiniteLogs'
  <2>1. IsFiniteSet(log[n] \cup {[op |-> o, created |-> now]})
    BY FS_AddElement DEF FiniteLogs
  <2> QED
    BY <1>5, <2>1 DEF FiniteLogs, SnapshotTypeOK
<1> QED
  BY <1>2, <1>3, <1>7, <1>8, <1>9, <1>10, <1>11 DEF StepTypes, SnapshotTypeOK

LEMMA IngestTypes ==
  ASSUME SnapshotTypeOK, FiniteLogs, NEW n \in Node, NEW ops \in SUBSET Op, IsFiniteSet(ops),
         NEW theirs \in Vector, Ingest(n, ops, theirs)
  PROVE  /\ log' \in [Node -> SUBSET [op : Op, created : Nat]]
         /\ queue' \in [Node -> SUBSET Op] /\ vector' \in [Node -> Vector] /\ FiniteLogs'
<1> DEFINE in == {o \in ops : /\ o.src # n /\ o \notin Held(n)
                              /\ version[n][o.key] # NoVersion \/ o.hlc > fence[n]}
           all == Held(n) \cup in
           new == {[op |-> o, created |-> now] : o \in in}
           v == [src \in Node |-> IF \E o \in ops : o.src = src /\ src # n
                                  THEN Contiguous(all, src, vector[n][src]) ELSE vector[n][src]]
<1>1. /\ log' = [log EXCEPT ![n] = @ \cup new] /\ queue' = [queue EXCEPT ![n] = @ \cup in]
      /\ vector' = [vector EXCEPT ![n] = Adopted(v, theirs, n)]
  BY DEF Ingest, SnapshotTypeOK
<1>2. in \in SUBSET Op /\ IsFiniteSet(in)
  BY FS_Subset
<1> HIDE DEF in
<1>3. new \in SUBSET [op : Op, created : Nat] /\ IsFiniteSet(new)
  <2> DEFINE f == [o \in in |-> [op |-> o, created |-> now]]
  <2>1. new = {f[o] : o \in in}
    OBVIOUS
  <2>2. new \in SUBSET [op : Op, created : Nat]
    BY <1>2, NodeTypes
  <2> HIDE DEF f, new
  <2> QED
    BY <1>2, <2>1, <2>2, FiniteRange
<1>4. IsFiniteSet(all)
  BY <1>2, HeldFinite, FS_Union DEF FiniteLogs
<1>5. v \in Vector
  <2>1. \A src \in Node : Contiguous(all, src, vector[n][src]) \in Nat /\ vector[n][src] \in Nat
    <3>1. \A src \in Node : vector[n][src] \in Nat
      BY NodeTypes DEF Vector
    <3> HIDE DEF all
    <3> QED
      BY <1>4, <3>1, ContiguousIs
  <2> HIDE DEF all
  <2> QED
    BY <2>1 DEF Vector
<1> HIDE DEF v, new, all
<1>6. Adopted(v, theirs, n) \in Vector
  BY <1>5 DEF Adopted, Vector, Larger
<1>7. FiniteLogs'
  <2>1. IsFiniteSet(log[n] \cup new)
    BY <1>3, FS_Union DEF FiniteLogs
  <2> QED
    BY <1>1, <2>1 DEF FiniteLogs, SnapshotTypeOK
<1>8. log' \in [Node -> SUBSET [op : Op, created : Nat]]
  BY <1>1, <1>3 DEF SnapshotTypeOK
<1>9. queue' \in [Node -> SUBSET Op]
  BY <1>1, <1>2 DEF SnapshotTypeOK
<1>10. vector' \in [Node -> Vector]
  BY <1>1, <1>6 DEF SnapshotTypeOK
<1> QED
  BY <1>7, <1>8, <1>9, <1>10

LEMMA PushTypes ==
  ASSUME SnapshotTypeOK, FiniteLogs, NEW n \in Node, Push(n)
  PROVE  StepTypes' /\ FiniteLogs'
<1>1. PICK o \in issued : Ingest(n, {o}, vector[n])
  BY DEF Push
<1>2. UNCHANGED <<localSeq, version, row, horizon, fence, joined, resume, seen, clock, snap, now,
                  issued, doubt, events>>
  BY DEF Push
<1>3. {o} \in SUBSET Op /\ IsFiniteSet({o}) /\ vector[n] \in Vector
  BY FS_Singleton, NodeTypes DEF SnapshotTypeOK
<1>4. /\ log' \in [Node -> SUBSET [op : Op, created : Nat]]
      /\ queue' \in [Node -> SUBSET Op] /\ vector' \in [Node -> Vector] /\ FiniteLogs'
  BY <1>1, <1>3, IngestTypes
<1> QED
  BY <1>2, <1>4 DEF StepTypes, SnapshotTypeOK

LEMMA ApplyTypes ==
  ASSUME SnapshotTypeOK, FiniteLogs, NEW n \in Node, Apply(n)
  PROVE  StepTypes' /\ FiniteLogs'
<1>1. PICK o \in queue[n] :
       /\ clock' = [clock EXCEPT ![n] = Merge(@, ClockOf(o.hlc))]
       /\ queue' = [queue EXCEPT ![n] = @ \ {o}]
       /\ \/ /\ version' = [version EXCEPT ![n][o.key] = Stamp(o)]
             /\ row'     = [row EXCEPT ![n][o.key] = Written(o)]
          \/ UNCHANGED <<version, row>>
  BY DEF Apply
<1>2. UNCHANGED <<localSeq, log, vector, horizon, fence, joined, resume, seen, snap, now, issued,
                  doubt, events>>
  BY DEF Apply
<1>3. o \in Op /\ o.key \in Rec /\ Stamp(o) \in Version /\ Written(o) \in Payload \cup {NoRow}
      /\ o.hlc \in Nat
  BY NodeTypes, OpIs
<1>4. clock' \in [Node -> Clock]
  <2>1. Merge(clock[n], ClockOf(o.hlc)) \in Clock
    BY <1>3, NodeTypes, ClockOfEncodes, MergeIsLarger
  <2> QED
    BY <1>1, <2>1 DEF SnapshotTypeOK
<1>5. queue' \in [Node -> SUBSET Op]
  BY <1>1 DEF SnapshotTypeOK
<1>6. version' \in [Node -> [Rec -> Version]]
  <2>1. CASE version' = [version EXCEPT ![n][o.key] = Stamp(o)]
    BY <1>3, <2>1 DEF SnapshotTypeOK
  <2>2. CASE version' = version
    BY <2>2 DEF SnapshotTypeOK
  <2> QED
    BY <1>1, <2>1, <2>2
<1>7. row' \in [Node -> [Rec -> Payload \cup {NoRow}]]
  <2>1. CASE row' = [row EXCEPT ![n][o.key] = Written(o)]
    BY <1>3, <2>1 DEF SnapshotTypeOK
  <2>2. CASE row' = row
    BY <2>2 DEF SnapshotTypeOK
  <2> QED
    BY <1>1, <2>1, <2>2
<1>8. FiniteLogs'
  BY <1>2 DEF FiniteLogs
<1> QED
  BY <1>2, <1>4, <1>5, <1>6, <1>7, <1>8 DEF StepTypes, SnapshotTypeOK

\* What a pass finds to be the new horizons and the new fence.
LEMMA CollectTypes ==
  ASSUME SnapshotTypeOK, FiniteLogs, NEW n \in Node, Collect(n)
  PROVE  StepTypes' /\ FiniteLogs'
<1> DEFINE expired == {e \in log[n] : e.op.type = "delete" /\ e.created + Retention < now}
           beaten  == {e \in log[n] : /\ e.created < now
                                      /\ \E o \in Held(n) : o.key = e.op.key /\ Less(e.op, o)}
           kept    == log[n] \ (expired \cup beaten)
           tombs   == {r \in Rec : /\ version[n][r].deleted /\ version[n][r].updated + Retention < now
                                   /\ ~ \E e \in kept : e.op.key = r}
           hlcs    == {e.op.hlc : e \in expired} \cup {version[n][r].hlc : r \in tombs} \cup {fence[n]}
           seqs(src) == {e.op.seq : e \in {x \in expired : x.op.src = src}} \cup {horizon[n][src]}
           h == [src \in Node |-> CHOOSE s \in seqs(src) : \A t \in seqs(src) : t <= s]
           f == CHOOSE x \in hlcs : \A k \in hlcs : k <= x
           ver == [r \in Rec |-> IF r \in tombs THEN NoVersion ELSE version[n][r]]
<1>1. /\ log' = [log EXCEPT ![n] = kept] /\ horizon' = [horizon EXCEPT ![n] = h]
      /\ fence' = [fence EXCEPT ![n] = f]
      /\ clock' = [clock EXCEPT ![n] = Merge(@, ClockOf(fence'[n]))]
      /\ UNCHANGED <<localSeq, row, vector, joined, resume, seen, queue, snap, now, issued,
                     doubt, events>>
  BY DEF Collect
<1>2. version' = [version EXCEPT ![n] = ver]
  BY DEF Collect, SnapshotTypeOK
<1>3. kept \subseteq log[n] /\ expired \subseteq log[n] /\ IsFiniteSet(kept) /\ IsFiniteSet(expired)
  BY FS_Subset DEF FiniteLogs
<1>4. \A e \in expired : e.op.hlc \in Nat /\ e.op.seq \in Nat
  <2>1. \A e \in expired : e.op \in Op
    BY NodeTypes
  <2> HIDE DEF expired
  <2> QED
    BY <2>1, OpIs
<1>5. IsFiniteSet(tombs) /\ tombs \subseteq Rec
  BY SnapshotAssumption, FS_Subset
<1> HIDE DEF expired, kept, tombs
<1>6. h \in Vector
  <2>1. ASSUME NEW src \in Node
        PROVE  (CHOOSE s \in seqs(src) : \A t \in seqs(src) : t <= s) \in Nat
    <3> DEFINE X == {x \in expired : x.op.src = src}
               g == [e \in X |-> e.op.seq]
               N == {g[e] : e \in X}
    <3>1. IsFiniteSet(X)
      BY <1>3, FS_Subset
    <3>2. N \subseteq Nat /\ {e.op.seq : e \in X} = N
      BY <1>4
    <3>3. horizon[n][src] \in Nat /\ IsFiniteSet({horizon[n][src]})
      BY NodeTypes, FS_Singleton DEF Vector
    <3>4. seqs(src) = N \cup {horizon[n][src]}
      BY <3>2
    <3> HIDE DEF g, X
    <3>5. IsFiniteSet(N)
      BY <3>1, FiniteRange
    <3> DEFINE S == seqs(src)
    <3>6. S = N \cup {horizon[n][src]}
      BY <3>4
    <3> HIDE DEF N, S
    <3>7. IsFiniteSet(S) /\ S \in SUBSET Nat /\ S # {}
      BY <3>2, <3>3, <3>5, <3>6, FS_Union
    <3>8. (CHOOSE s \in S : \A t \in S : t <= s) \in Nat
      BY <3>7, TheLargest
    <3> QED
      BY <3>8 DEF S
  <2> HIDE DEF seqs
  <2> QED
    BY <2>1 DEF Vector
<1>7. f \in Nat
  <2> DEFINE g == [e \in expired |-> e.op.hlc]
             N == {g[e] : e \in expired}
             k == [r \in tombs |-> version[n][r].hlc]
             M == {k[r] : r \in tombs}
  <2>1. N \subseteq Nat /\ {e.op.hlc : e \in expired} = N
    BY <1>4
  <2>2. M \subseteq Nat /\ {version[n][r].hlc : r \in tombs} = M
    BY <1>5, NodeTypes DEF Version
  <2>3. fence[n] \in Nat /\ IsFiniteSet({fence[n]})
    BY NodeTypes, FS_Singleton
  <2>4. hlcs = N \cup M \cup {fence[n]}
    BY <2>1, <2>2
  <2> HIDE DEF g, k
  <2>5. IsFiniteSet(N) /\ IsFiniteSet(M)
    BY <1>3, <1>5, FiniteRange
  <2> HIDE DEF N, M, hlcs
  <2>6. IsFiniteSet(N \cup M)
    BY <2>5, FS_Union
  <2>7. IsFiniteSet(hlcs) /\ hlcs \in SUBSET Nat /\ hlcs # {}
    BY <2>1, <2>2, <2>3, <2>4, <2>6, FS_Union
  <2> QED
    BY <2>7, TheLargest
<1> HIDE DEF h, f
<1>8. clock' \in [Node -> Clock] /\ fence' \in [Node -> Nat]
  <2>1. fence' \in [Node -> Nat] /\ fence'[n] = f
    BY <1>1, <1>7 DEF SnapshotTypeOK
  <2>2. Merge(clock[n], ClockOf(f)) \in Clock
    BY <1>7, NodeTypes, ClockOfEncodes, MergeIsLarger
  <2> QED
    BY <1>1, <2>1, <2>2 DEF SnapshotTypeOK
<1>9. version' \in [Node -> [Rec -> Version]]
  <2>1. NoVersion \in Version
    BY DEF NoVersion, Version
  <2>2. ver \in [Rec -> Version]
    BY <2>1, NodeTypes
  <2> HIDE DEF ver
  <2> QED
    BY <1>2, <2>2 DEF SnapshotTypeOK
<1>10. log' \in [Node -> SUBSET [op : Op, created : Nat]] /\ horizon' \in [Node -> Vector] /\ FiniteLogs'
  BY <1>1, <1>3, <1>6 DEF SnapshotTypeOK, FiniteLogs
<1> QED
  BY <1>1, <1>8, <1>9, <1>10 DEF StepTypes, SnapshotTypeOK

\* A run begins, or goes on.
LEMMA StartSnapshotTypes ==
  ASSUME SnapshotTypeOK, NEW n \in Node, NEW p \in Node, NEW reconcile \in BOOLEAN,
         StartSnapshot(n, p, reconcile)
  PROVE  /\ resume' \in [Node -> ResumeState] /\ seen' \in [Node -> SUBSET Rec]
         /\ snap' \in [Node -> SnapState] /\ doubt' \in [Node -> SUBSET Rec]
<1> DEFINE goesOn == Resumable(n, p, reconcile)
           run == IF goesOn THEN resume[n]
                  ELSE [NoRun EXCEPT !.peer = p, !.reconcile = reconcile, !.started = now]
           s == [NoSnap EXCEPT !.peer = p, !.vector = Meta(p).vector, !.horizon = Meta(p).horizon,
                               !.left = {c \in Col : reconcile \/ run.cols[c] # End(c)}]
           more == doubt[p] \cup KeysOf(queue[p]) \cup (IF goesOn THEN Paged(run) ELSE {})
<1>1. /\ resume' = [resume EXCEPT ![n] = run] /\ seen' = [seen EXCEPT ![n] = SeenBefore(n, goesOn)]
      /\ snap' = [snap EXCEPT ![n] = s]
      /\ doubt' = [doubt EXCEPT ![n] = @ \cup doubt[p] \cup KeysOf(queue[p])
                                        \cup (IF goesOn THEN Paged(run) ELSE {})]
  BY DEF StartSnapshot
<1>2. run \in ResumeState
  <2>1. [NoRun EXCEPT !.peer = p, !.reconcile = reconcile, !.started = now] \in ResumeState
    BY NodeTypes, Nodes DEF NoRun, ResumeState
  <2> QED
    BY <2>1, NodeTypes
<1>3. SeenBefore(n, goesOn) \in SUBSET Rec
  BY NodeTypes DEF SeenBefore
<1>4. s \in SnapState
  <2>1. Meta(p).vector \in Vector /\ Meta(p).horizon \in Nat
    <3>1. CurrentVector(p) \in Vector /\ fence[p] \in Nat /\ now \in Nat /\ Retention \in Nat
      BY NodeTypes, SnapshotAssumption
    <3>2. ASSUME ~ (now < Retention)
          PROVE  Encode([physical |-> now - Retention, logical |-> 0]) \in Nat
      <4>1. [physical |-> now - Retention, logical |-> 0] \in Clock
        BY <3>1, <3>2, LogicalAssumption DEF Clock
      <4> QED
        BY <4>1, EncodeType
    <3> QED
      BY <3>1, <3>2 DEF Meta, Larger
  <2>2. p \in Node \cup {0}
    BY Nodes
  <2> HIDE DEF run
  <2> QED
    BY <2>1, <2>2 DEF NoSnap, SnapState
<1>5. more \subseteq Rec
  BY NodeTypes, KeysAre DEF Paged
<1>6. doubt' = [doubt EXCEPT ![n] = doubt[n] \cup more]
  BY <1>1 DEF SnapshotTypeOK
<1> HIDE DEF run, s, goesOn, more
<1>7. doubt' \in [Node -> SUBSET Rec]
  BY <1>5, <1>6 DEF SnapshotTypeOK
<1> QED
  BY <1>1, <1>2, <1>3, <1>4, <1>7 DEF SnapshotTypeOK

LEMMA JoinTypes ==
  ASSUME SnapshotTypeOK, FiniteLogs, NEW n \in Node, Join(n)
  PROVE  StepTypes' /\ FiniteLogs'
<1>1. PICK p \in PullFrom[n] : StartSnapshot(n, p, FALSE)
  BY DEF Join
<1>2. UNCHANGED <<localSeq, log, version, row, vector, horizon, fence, joined, clock, queue, now,
                  issued, events>>
  BY DEF Join
<1>3. p \in Node
  BY SnapshotAssumption
<1>4. /\ resume' \in [Node -> ResumeState] /\ seen' \in [Node -> SUBSET Rec]
      /\ snap' \in [Node -> SnapState] /\ doubt' \in [Node -> SUBSET Rec]
  BY <1>1, <1>3, StartSnapshotTypes
<1> QED
  BY <1>2, <1>4 DEF StepTypes, SnapshotTypeOK, FiniteLogs

LEMMA PullTypes ==
  ASSUME SnapshotTypeOK, FiniteLogs, NEW n \in Node, Pull(n)
  PROVE  StepTypes' /\ FiniteLogs'
<1>1. PICK p \in PullFrom[n] :
       LET after  == [CurrentVector(n) EXCEPT ![n] = Larger(@, CurrentVector(p)[n])]
           behind == \E src \in Node : after[src] < horizon[p][src]
       IN  /\ IF behind
              THEN StartSnapshot(n, p, TRUE) /\ UNCHANGED <<log, queue, vector>>
              ELSE /\ CurrentVector(p) # after
                   /\ Ingest(n, {o \in Held(p) : o.seq > after[o.src]}, CurrentVector(p))
                   /\ doubt' = [doubt EXCEPT ![n] = @ \cup doubt[p] \cup KeysOf(Hidden(p, after))]
                   /\ UNCHANGED <<resume, seen, snap>>
  BY DEF Pull
<1>2. UNCHANGED <<localSeq, version, row, horizon, fence, joined, clock, now, issued, events>>
  BY DEF Pull
<1>3. p \in Node
  BY SnapshotAssumption
<1> DEFINE after == [CurrentVector(n) EXCEPT ![n] = Larger(@, CurrentVector(p)[n])]
           ops == {o \in Held(p) : o.seq > after[o.src]}
<1>4. CASE StartSnapshot(n, p, TRUE) /\ UNCHANGED <<log, queue, vector>>
  <2>1. /\ resume' \in [Node -> ResumeState] /\ seen' \in [Node -> SUBSET Rec]
        /\ snap' \in [Node -> SnapState] /\ doubt' \in [Node -> SUBSET Rec]
    BY <1>3, <1>4, StartSnapshotTypes
  <2> QED
    BY <1>2, <1>4, <2>1 DEF StepTypes, SnapshotTypeOK, FiniteLogs
<1>5. CASE /\ Ingest(n, ops, CurrentVector(p))
           /\ doubt' = [doubt EXCEPT ![n] = @ \cup doubt[p] \cup KeysOf(Hidden(p, after))]
           /\ UNCHANGED <<resume, seen, snap>>
  <2>1. ops \in SUBSET Op /\ IsFiniteSet(ops)
    BY <1>3, NodeTypes, HeldFinite, FS_Subset DEF FiniteLogs
  <2>2. Hidden(p, after) \in SUBSET Op
    BY DEF Hidden, SnapshotTypeOK
  <2>3. KeysOf(Hidden(p, after)) \subseteq Rec
    BY <2>2, KeysAre
  <2> HIDE DEF ops, after
  <2>4. /\ log' \in [Node -> SUBSET [op : Op, created : Nat]]
        /\ queue' \in [Node -> SUBSET Op] /\ vector' \in [Node -> Vector] /\ FiniteLogs'
    BY <1>3, <1>5, <2>1, NodeTypes, IngestTypes
  <2>5. doubt' \in [Node -> SUBSET Rec]
    BY <1>3, <1>5, <2>3 DEF SnapshotTypeOK
  <2> QED
    BY <1>2, <1>5, <2>4, <2>5 DEF StepTypes, SnapshotTypeOK
<1> QED
  BY <1>1, <1>4, <1>5

-----------------------------------------------------------------------------
(***************************************************************************)
(* Pages                                                                   *)
(***************************************************************************)
LEMMA SnapIs ==
  ASSUME NEW s \in SnapState
  PROVE  /\ s.peer \in Node \cup {0} /\ s.vector \in Vector /\ s.horizon \in Nat /\ s.left \in SUBSET Col
         /\ s.col \in Col \cup {0} /\ s.page \in SUBSET Item /\ s.extra \in SUBSET Rec
         /\ s.victim \in SUBSET [key : Rec, hlc : Nat]
BY DEF SnapState

\* What the end of a collection changes of a snapshot.
LEMMA NextCollectionIs ==
  ASSUME NEW s \in SnapState
  PROVE  /\ NextCollection(s) \in SnapState /\ NextCollection(s).at = "next"
         /\ NextCollection(s).peer = s.peer /\ NextCollection(s).page = s.page
         /\ NextCollection(s).extra = s.extra /\ NextCollection(s).victim = s.victim
BY DEF NextCollection, SnapState

LEMMA JudgedIs ==
  ASSUME NEW s \in SnapState, NEW r
  PROVE  /\ Judged(s, r) \in SnapState /\ Judged(s, r).at \in {"next", "judge"}
         /\ Judged(s, r).at # "next" => Judged(s, r).col = s.col
         /\ Judged(s, r).peer = s.peer /\ Judged(s, r).page = s.page
         /\ Judged(s, r).extra \subseteq s.extra /\ Judged(s, r).victim = {}
<1> DEFINE t == [s EXCEPT !.extra = s.extra \ {r}, !.victim = {}]
           u == [t EXCEPT !.at = "judge"]
<1>1. t \in SnapState /\ t.peer = s.peer /\ t.page = s.page /\ t.extra \subseteq s.extra
      /\ t.victim = {} /\ t.col = s.col
  BY DEF SnapState
<1>2. Judged(s, r) = IF t.extra = {} THEN NextCollection(t) ELSE u
  BY DEF Judged
<1> HIDE DEF t
<1>3. /\ u \in SnapState /\ u.peer = t.peer /\ u.page = t.page /\ u.extra = t.extra
      /\ u.victim = t.victim /\ u.col = t.col /\ u.at = "judge"
  BY <1>1 DEF SnapState
<1> HIDE DEF u
<1>4. CASE t.extra = {}
  BY <1>1, <1>2, <1>4, NextCollectionIs
<1>5. CASE t.extra # {}
  BY <1>1, <1>2, <1>3, <1>5
<1> QED
  BY <1>4, <1>5

\* The smallest number is what the distance from the largest is largest of.
LEMMA FiniteMinimum ==
  ASSUME NEW S \in SUBSET Nat, IsFiniteSet(S), S # {}
  PROVE  \E x \in S : \A y \in S : x <= y
<1>1. PICK b \in S : \A y \in S : y <= b
  BY FiniteMaximum
<1> DEFINE f == [x \in S |-> b - x]
           D == {f[x] : x \in S}
<1>2. D \in SUBSET Nat /\ D # {} /\ \A x \in S : f[x] = b - x
  BY <1>1
<1> HIDE DEF f
<1>3. IsFiniteSet(D)
  BY FiniteRange
<1>4. PICK d \in D : \A y \in D : y <= d
  <2> HIDE DEF D
  <2> QED
    BY <1>2, <1>3, FiniteMaximum
<1>5. PICK x \in S : d = f[x]
  OBVIOUS
<1>6. \A y \in S : f[y] <= f[x]
  BY <1>4, <1>5
<1>7. \A y \in S : y \in Nat /\ b - y <= b - x
  BY <1>2, <1>6
<1> QED
  BY <1>1, <1>7

\* Of a set of numbers, those that have less than b below them: all, or at least b, and
\* then what is left out is above them.
LEMMA FirstOfMany ==
  ASSUME NEW S \in SUBSET Nat, IsFiniteSet(S), NEW b \in Nat,
         NEW T, T = {i \in S : Cardinality({j \in S : j < i}) < b},
         NEW r \in S, r \notin T
  PROVE  Cardinality(T) >= b /\ IsFiniteSet(T) /\ \A i \in T : i < r
<1> DEFINE Below(i) == {j \in S : j < i}
<1>1. \A i \in S : IsFiniteSet(Below(i)) /\ Cardinality(Below(i)) \in Nat
  BY FS_Subset, FS_CardinalityType
<1>2. IsFiniteSet(T) /\ T \subseteq S /\ Cardinality(T) \in Nat
  BY FS_Subset, FS_CardinalityType
<1>3. ASSUME NEW i \in T PROVE i < r
  <2>1. i \in S /\ i \in Nat /\ r \in Nat /\ i # r
    BY <1>2
  <2>2. ASSUME r < i PROVE FALSE
    <3>1. Below(r) \subseteq Below(i)
      <4>1. \A j \in S : j \in Nat /\ (j < r => j < i)
        BY <2>1, <2>2
      <4> QED
        BY <4>1
    <3>2. Cardinality(Below(r)) <= Cardinality(Below(i))
      <4> HIDE DEF Below
      <4> QED
        BY <1>1, <2>1, <3>1, FS_Subset
    <3>3. Cardinality(Below(i)) < b /\ ~ (Cardinality(Below(r)) < b)
      OBVIOUS
    <3> HIDE DEF Below
    <3> QED
      BY <1>1, <2>1, <3>2, <3>3
  <2> QED
    BY <2>1, <2>2
<1>4. PICK m \in S \ T : \A i \in S \ T : m <= i
  <2> DEFINE R == S \ T
  <2>1. R \in SUBSET Nat /\ R # {} /\ IsFiniteSet(R)
    BY FS_Subset
  <2> HIDE DEF R
  <2>2. \E m \in R : \A i \in R : m <= i
    BY <2>1, FiniteMinimum
  <2> QED
    BY <2>2 DEF R
<1>5. Below(m) \subseteq T
  <2>1. \A i \in S : i \in Nat /\ (i < m => ~ (m <= i))
    BY <1>4
  <2> QED
    BY <1>4, <2>1
<1>6. ~ (Cardinality(Below(m)) < b) /\ m \in S
  BY <1>4
<1>7. Cardinality(Below(m)) <= Cardinality(T)
  <2> HIDE DEF Below
  <2> QED
    BY <1>2, <1>5, FS_Subset
<1> HIDE DEF Below
<1> QED
  BY <1>1, <1>2, <1>3, <1>6, <1>7

\* A page of the records of c beyond `from' that p has: all, or as many as it may have.
PageOf(p, c, from) ==
  LET rest == {i \in IdsOf(c) : i > from /\ row[p][<<c, i>>] # NoRow}
      ids  == {i \in rest : Cardinality({j \in rest : j < i}) < MaxBatch}
  IN  {[key |-> <<c, i>>, payload |-> row[p][<<c, i>>], hlc |-> 0, src |-> 0] : i \in ids}

LEMMA PageIs ==
  ASSUME SnapshotTypeOK, NEW p \in Node, NEW c \in Col, NEW from \in Nat,
         NEW page, page = PageOf(p, c, from)
  PROVE  /\ page \in SUBSET Item /\ IsFiniteSet(page)
         /\ \A i, j \in page : i.key = j.key => i = j
         /\ \A r \in Rec : r[1] = c /\ r[2] > from /\ row[p][r] # NoRow =>
              \/ \E i \in page : i.key = r
              \/ Cardinality(page) >= MaxBatch /\ \A i \in page : i.key[2] < r[2]
<1> DEFINE rest == {i \in IdsOf(c) : i > from /\ row[p][<<c, i>>] # NoRow}
           ids == {i \in rest : Cardinality({j \in rest : j < i}) < MaxBatch}
           item0 == {[key |-> <<c, i>>, payload |-> row[p][<<c, i>>], hlc |-> 0, src |-> 0] : i \in ids}
<1>0. page = item0
  BY DEF PageOf
<1> DEFINE item == [i \in ids |-> [key |-> <<c, i>>, payload |-> row[p][<<c, i>>], hlc |-> 0, src |-> 0]]
           num == [x \in page |-> x.key[2]]
<1>1. rest \in SUBSET Nat /\ IsFiniteSet(rest) /\ ids \subseteq rest /\ rest \subseteq IdsOf(c)
      /\ MaxBatch \in Nat
  BY IdsAre, FS_Subset, SnapshotAssumption
<1>2. IsFiniteSet(ids)
  BY <1>1, FS_Subset
<1>3. page = {item[i] : i \in ids}
  BY <1>0
<1>4. \A i \in ids : item[i].key = <<c, i>> /\ item[i].key[2] = i /\ item[i] \in Item
  <2> SUFFICES ASSUME NEW i \in ids
               PROVE  item[i].key = <<c, i>> /\ item[i].key[2] = i /\ item[i] \in Item
    OBVIOUS
  <2>1. <<c, i>> \in Rec /\ row[p][<<c, i>>] # NoRow
    BY <1>1, IdsAre
  <2>2. row[p][<<c, i>>] \in Payload
    BY <2>1, NodeTypes
  <2>3. item[i] = [key |-> <<c, i>>, payload |-> row[p][<<c, i>>], hlc |-> 0, src |-> 0]
    OBVIOUS
  <2> QED
    BY <2>1, <2>2, <2>3 DEF Item
<1> HIDE DEF item
<1>5. page \in SUBSET Item /\ IsFiniteSet(page)
  <2>1. IsFiniteSet({item[i] : i \in ids})
    BY <1>2, FiniteRange
  <2> QED
    BY <1>3, <1>4, <2>1
<1>6. \A x \in page : \E i \in ids : x.key = <<c, i>> /\ x.key[2] = i /\ x = item[i]
  <2> SUFFICES ASSUME NEW x \in page
               PROVE  \E i \in ids : x.key = <<c, i>> /\ x.key[2] = i /\ x = item[i]
    OBVIOUS
  <2>1. PICK i \in ids : x = item[i]
    BY <1>3, Zenon
  <2> QED
    BY <1>4, <2>1, Zenon
<1>7. \A i, j \in page : i.key = j.key => i = j
  <2> SUFFICES ASSUME NEW x \in page, NEW y \in page, x.key = y.key PROVE x = y
    OBVIOUS
  <2>1. PICK i \in ids : x.key[2] = i /\ x = item[i]
    BY <1>6, Zenon
  <2>2. PICK j \in ids : y.key[2] = j /\ y = item[j]
    BY <1>6, Zenon
  <2> QED
    BY <2>1, <2>2, Zenon
<1>8. Cardinality(page) >= Cardinality(ids)
  <2>1. \A i \in ids : item[i] \in page /\ item[i].key[2] = i
    BY <1>3, <1>4
  <2>2. num \in Surjection(page, ids)
    <3>1. num \in [page -> ids]
      <4>1. \A x \in page : x.key[2] \in ids
        BY <1>6, Zenon
      <4> QED
        BY <4>1, Zenon
    <3>2. \A i \in ids : num[item[i]] = i
      BY <2>1
    <3> HIDE DEF num
    <3> QED
      BY <2>1, <3>1, <3>2 DEF Surjection
  <2>3. Cardinality(ids) <= Cardinality(page)
    <3> HIDE DEF num
    <3> QED
      BY <1>5, <2>2, FS_Surjection
  <2> QED
    BY <1>2, <1>5, <2>3, FS_CardinalityType
<1>9. ASSUME NEW r \in Rec, r[1] = c, r[2] > from, row[p][r] # NoRow
      PROVE  \/ \E i \in page : i.key = r
             \/ Cardinality(page) >= MaxBatch /\ \A i \in page : i.key[2] < r[2]
  <2>1. r = <<c, r[2]>> /\ r[2] \in rest
    BY <1>9, RecIs
  <2>2. CASE r[2] \in ids
    <3>1. item[r[2]] \in page /\ item[r[2]].key = r
      BY <1>3, <1>4, <2>1, <2>2
    <3> QED
      BY <3>1
  <2>3. CASE r[2] \notin ids
    <3>1. Cardinality(ids) >= MaxBatch /\ \A i \in ids : i < r[2]
      <4> DEFINE n == r[2]
      <4>1. n \in rest /\ n \notin ids
        BY <2>1, <2>3
      <4>2. ids = {i \in rest : Cardinality({j \in rest : j < i}) < MaxBatch}
        OBVIOUS
      <4> HIDE DEF n
      <4>3. Cardinality(ids) >= MaxBatch /\ \A i \in ids : i < n
        BY ONLY <1>1, <4>1, <4>2, FirstOfMany
      <4> QED
        BY <4>3 DEF n
    <3>2. Cardinality(ids) \in Nat /\ Cardinality(page) \in Nat
      BY <1>2, <1>5, FS_CardinalityType
    <3>3. \A i \in page : i.key[2] < r[2]
      BY <1>6, <3>1
    <3>4. Cardinality(page) >= MaxBatch
      BY <1>1, <1>8, <3>1, <3>2
    <3> QED
      BY <3>3, <3>4
  <2> QED
    BY <2>2, <2>3
<1> QED
  BY <1>5, <1>7, <1>9

-----------------------------------------------------------------------------
(***************************************************************************)
(* The steps of a snapshot                                                 *)
(***************************************************************************)
\* A run that is under way has a peer, and reads what is there.
LEMMA PeerIs ==
  ASSUME SnapshotTypeOK, NEW n \in Node, RunOK(n), snap[n] # NoSnap
  PROVE  snap[n].peer \in Node /\ snap[n].peer # 0 /\ resume[n].peer = snap[n].peer
BY NodeTypes, SnapIs DEF RunOK

LEMMA NoSnapIs ==
  /\ NoSnap \in SnapState /\ NoSnap.peer = 0 /\ NoSnap.at = "next" /\ NoSnap.left = {}
  /\ NoSnap.page = {} /\ NoSnap.extra = {} /\ NoSnap.victim = {}
<1>1. [m \in Node |-> 0] \in Vector
  BY DEF Vector
<1> QED
  BY <1>1 DEF NoSnap, SnapState

\* Only the snapshot moves.
LEMMA SnapMoves ==
  ASSUME SnapshotTypeOK, FiniteLogs, NEW n \in Node, NEW t \in SnapState,
         snap' = [snap EXCEPT ![n] = t], NEW more, more \subseteq Rec,
         doubt' = [doubt EXCEPT ![n] = @ \cup more] \/ doubt' = doubt,
         UNCHANGED <<database, clock, queue, now, issued>>, events' \in Nat
  PROVE  StepTypes' /\ FiniteLogs' /\ snap'[n] = t
<1>1. snap' \in [Node -> SnapState] /\ snap'[n] = t
  BY DEF SnapshotTypeOK
<1>2. doubt' \in [Node -> SUBSET Rec]
  <2>1. CASE doubt' = [doubt EXCEPT ![n] = @ \cup more]
    BY <2>1 DEF SnapshotTypeOK
  <2>2. CASE doubt' = doubt
    BY <2>2 DEF SnapshotTypeOK
  <2> QED
    BY <2>1, <2>2
<1> QED
  BY <1>1, <1>2 DEF database, StepTypes, SnapshotTypeOK, FiniteLogs

\* Where a page is read.
LEMMA ReadsAt ==
  ASSUME SnapshotTypeOK, NEW n \in Node, RunOK(n), NEW c,
         snap[n].at \in {"next", "ask"}, c \in IF snap[n].at = "ask" THEN {snap[n].col} ELSE snap[n].left
  PROVE  c \in Col /\ snap[n].peer \in Node
<1>1. CASE snap[n].at = "ask"
  BY <1>1, PeerIs, NoSnapIs DEF RunOK
<1>2. CASE snap[n].at = "next"
  <2>1. c \in snap[n].left /\ snap[n] # NoSnap
    BY <1>2, NoSnapIs
  <2> QED
    BY <2>1, PeerIs, NodeTypes, SnapIs
<1> QED
  BY <1>1, <1>2

LEMMA ReadRowsTypes ==
  ASSUME IInv, NEW n \in Node, ReadRows(n)
  PROVE  /\ StepTypes' /\ FiniteLogs' /\ RunOK(n)'
         /\ snap'[n].at = "read" /\ snap'[n].extra = snap[n].extra /\ snap'[n].victim = snap[n].victim
         /\ \A r \in Rec :
              r[1] = snap'[n].col /\ r[2] > resume[n].cols[r[1]] /\ row[snap[n].peer][r] # NoRow =>
              \/ \E i \in snap'[n].page : i.key = r
              \/ Cardinality(snap'[n].page) >= MaxBatch /\ \A i \in snap'[n].page : i.key[2] < r[2]
<1>1. PICK c \in IF snap[n].at = "ask" THEN {snap[n].col} ELSE snap[n].left :
       LET p    == snap[n].peer
           rest == {i \in IdsOf(c) : i > resume[n].cols[c] /\ row[p][<<c, i>>] # NoRow}
           ids  == {i \in rest : Cardinality({j \in rest : j < i}) < MaxBatch}
       IN  snap' = [snap EXCEPT ![n].col = c, ![n].at = "read", ![n].page =
                {[key |-> <<c, i>>, payload |-> row[p][<<c, i>>], hlc |-> 0, src |-> 0] : i \in ids}]
  BY DEF ReadRows
<1>2. snap[n].at \in {"next", "ask"} /\ UNCHANGED <<database, clock, queue, now, issued, doubt, events>>
  BY DEF ReadRows
<1>3. SnapshotTypeOK /\ RunOK(n) /\ FiniteLogs
  BY DEF IInv, NodeInv, FiniteLogs
<1> DEFINE p    == snap[n].peer
           from == resume[n].cols[c]
           page == PageOf(p, c, from)
           t == [snap[n] EXCEPT !.col = c, !.at = "read", !.page = page]
<1>4. c \in Col /\ p \in Node /\ from \in Nat
  <2>1. c \in Col /\ p \in Node
    BY <1>2, <1>3, ReadsAt
  <2> QED
    BY <1>3, <2>1, NodeTypes DEF ResumeState
<1>5. /\ page \in SUBSET Item /\ IsFiniteSet(page)
      /\ \A i, j \in page : i.key = j.key => i = j
      /\ \A r \in Rec : r[1] = c /\ r[2] > from /\ row[p][r] # NoRow =>
           \/ \E i \in page : i.key = r
           \/ Cardinality(page) >= MaxBatch /\ \A i \in page : i.key[2] < r[2]
  <2> HIDE DEF p, from, page
  <2> QED
    BY <1>3, <1>4, PageIs DEF page
<1>6. snap' = [snap EXCEPT ![n] = t]
  <2>1. snap' = [snap EXCEPT ![n].col = c, ![n].at = "read", ![n].page = page]
    BY <1>1 DEF PageOf
  <2> HIDE DEF page
  <2> QED
    BY <1>3, <2>1 DEF SnapshotTypeOK
<1> HIDE DEF page
<1>7. t \in SnapState /\ t.col = c /\ t.at = "read" /\ t.page = page /\ t.peer = p
      /\ t.extra = snap[n].extra /\ t.victim = snap[n].victim
  BY <1>3, <1>4, <1>5, NodeTypes DEF SnapState
<1> HIDE DEF t
<1>8. StepTypes' /\ FiniteLogs' /\ snap'[n] = t
  <2>1. {} \subseteq Rec /\ events' \in Nat
    BY <1>2, <1>3 DEF SnapshotTypeOK
  <2> QED
    BY <1>2, <1>3, <1>6, <1>7, <2>1, SnapMoves
<1>9. RunOK(n)'
  <2>1. p # 0 /\ resume'[n].peer = p
    <3>1. snap[n] # NoSnap
      BY <1>4, NoSnapIs, Nodes
    <3> QED
      BY <1>2, <1>3, <3>1, PeerIs DEF database
  <2> QED
    BY <1>4, <1>5, <1>7, <1>8, <2>1 DEF RunOK
<1> QED
  BY <1>5, <1>7, <1>8, <1>9

-----------------------------------------------------------------------------
(***************************************************************************)
(* The invariant, step by step                                             *)
(***************************************************************************)
\* What is still shown: by the peer of a run, and as long as the run lasts no more than
\* before.
LEMMA ShownIs ==
  ASSUME SnapshotTypeOK, NEW n \in Node, shown'[n] = StillShown(n), NEW r \in shown'[n]
  PROVE  /\ r \in Rec /\ resume'[n].peer # 0 /\ row'[resume'[n].peer][r] # NoRow
         /\ resume'[n] = [resume[n] EXCEPT !.cols = resume'[n].cols] => r \in shown[n]
<1>1. shown[n] \in SUBSET Rec
  BY DEF SnapshotTypeOK
<1> QED
  BY <1>1 DEF StillShown

LEMMA SameRun ==
  ASSUME SnapshotTypeOK, NEW n \in Node, resume'[n] = resume[n]
  PROVE  resume'[n] = [resume[n] EXCEPT !.cols = resume'[n].cols]
BY NodeTypes DEF ResumeState

\* Steps that have nothing to do with the snapshot of n.
LEMMA QuietKeeps ==
  ASSUME SnapshotTypeOK, NEW n \in Node, NodeInv(n), FiniteLogs', shown'[n] = StillShown(n),
         resume'[n] = resume[n], seen'[n] = seen[n], snap'[n] = snap[n]
  PROVE  NodeInv(n)'
<1>1. \A r \in shown'[n] : r \in shown[n] /\ resume'[n].peer # 0 /\ row'[resume'[n].peer][r] # NoRow
  BY ShownIs, SameRun
<1>2. RunOK(n)'
  BY DEF NodeInv, RunOK
<1>3. SeenAll(n)'
  BY <1>1 DEF NodeInv, SeenAll
<1>4. PageHas(n)'
  BY <1>1 DEF NodeInv, PageHas
<1>5. Spared(n)'
  BY <1>1 DEF NodeInv, Spared
<1> QED
  BY <1>2, <1>3, <1>4, <1>5 DEF NodeInv, FiniteLogs

\* A snapshot that begins.
LEMMA StartKeeps ==
  ASSUME SnapshotTypeOK, NEW n \in Node, NodeInv(n), FiniteLogs', shown'[n] = StillShown(n),
         NEW p \in Node, NEW reconcile \in BOOLEAN, StartSnapshot(n, p, reconcile)
  PROVE  NodeInv(n)'
<1> DEFINE new == [NoRun EXCEPT !.peer = p, !.reconcile = reconcile, !.started = now]
           goesOn == Resumable(n, p, reconcile)
           run == IF goesOn THEN resume[n] ELSE new
           s == [NoSnap EXCEPT !.peer = p, !.vector = Meta(p).vector, !.horizon = Meta(p).horizon,
                          !.left = {c \in Col : reconcile \/ run.cols[c] # End(c)}]
<1>1. resume'[n] = run /\ seen'[n] = SeenBefore(n, goesOn) /\ snap'[n] = s
  BY DEF StartSnapshot, SnapshotTypeOK
<1>2. s.peer = p /\ s.at = "next" /\ s.page = {} /\ s.extra = {} /\ s.victim = {} /\ p # 0
  BY Nodes DEF NoSnap
<1> HIDE DEF s
<1>3. \A r \in shown'[n] : r \in Rec /\ resume'[n].peer # 0 /\ row'[resume'[n].peer][r] # NoRow
  BY ShownIs
<1>4. new.peer = p /\ \A c \in Col : new.cols[c] = 0
  BY DEF NoRun
<1> HIDE DEF new
<1>5. resume'[n].peer = p
  BY <1>1, <1>4 DEF Resumable
<1>6. RunOK(n)'
  <2>1. IsFiniteSet({})
    BY FS_EmptySet
  <2> QED
    BY <1>1, <1>2, <1>5, <2>1 DEF RunOK
<1>7. PageHas(n)' /\ Spared(n)'
  BY <1>1, <1>2 DEF PageHas, Spared
<1>8. SeenAll(n)'
  <2>1. CASE goesOn
    <3>1. resume'[n] = resume[n] /\ seen'[n] = seen[n]
      BY <1>1, <2>1 DEF SeenBefore
    <3>2. \A r \in shown'[n] : r \in shown[n]
      BY <3>1, ShownIs, SameRun
    <3> QED
      BY <1>3, <3>1, <3>2 DEF NodeInv, SeenAll
  <2>2. CASE ~ goesOn
    <3>1. \A r \in Rec : r[1] \in Col /\ r[2] \in Nat /\ r[2] # 0
      BY RecIs
    <3>2. \A r \in Rec : ~ (r[2] <= resume'[n].cols[r[1]])
      BY <1>1, <1>4, <2>2, <3>1
    <3> QED
      BY <1>3, <3>2 DEF SeenAll
  <2> QED
    BY <2>1, <2>2
<1> QED
  BY <1>6, <1>7, <1>8 DEF NodeInv, FiniteLogs

LEMMA ReadRowsKeeps ==
  ASSUME IInv, NEW n \in Node, shown'[n] = StillShown(n), ReadRows(n)
  PROVE  StepTypes' /\ FiniteLogs' /\ NodeInv(n)'
<1>1. /\ StepTypes' /\ FiniteLogs' /\ RunOK(n)'
      /\ snap'[n].at = "read" /\ snap'[n].extra = snap[n].extra /\ snap'[n].victim = snap[n].victim
      /\ \A r \in Rec :
           r[1] = snap'[n].col /\ r[2] > resume[n].cols[r[1]] /\ row[snap[n].peer][r] # NoRow =>
           \/ \E i \in snap'[n].page : i.key = r
           \/ Cardinality(snap'[n].page) >= MaxBatch /\ \A i \in snap'[n].page : i.key[2] < r[2]
  BY ReadRowsTypes
<1>2. resume' = resume /\ seen' = seen /\ row' = row
  BY DEF ReadRows, database
<1>3. SnapshotTypeOK /\ NodeInv(n)
  BY DEF IInv
<1>4. \A r \in shown'[n] : r \in Rec /\ r \in shown[n] /\ resume[n].peer # 0 /\ row[resume[n].peer][r] # NoRow
  BY <1>2, <1>3, ShownIs, SameRun
<1>5. SeenAll(n)'
  BY <1>2, <1>3, <1>4 DEF NodeInv, SeenAll
<1>6. Spared(n)'
  BY <1>1, <1>3, <1>4 DEF NodeInv, Spared
<1>7. PageHas(n)'
  <2>1. snap[n].peer = resume[n].peer \/ shown'[n] = {}
    <3>1. CASE snap[n].peer # 0
      BY <1>3, <3>1 DEF NodeInv, RunOK
    <3>2. CASE snap[n].peer = 0
      <4>1. snap[n].at = "next" /\ snap[n].left = {}
        BY <1>3, <3>2, NoSnapIs DEF NodeInv, RunOK
      <4> QED
        BY <4>1 DEF ReadRows
    <3> QED
      BY <3>1, <3>2
  <2> QED
    BY <1>1, <1>2, <1>4, <2>1 DEF PageHas
<1> QED
  BY <1>1, <1>5, <1>6, <1>7 DEF NodeInv, FiniteLogs

VersionsOf(P, v, p) ==
  {IF v[i.key] = NoVersion THEN [i EXCEPT !.hlc = 1, !.src = p]
   ELSE [i EXCEPT !.hlc = v[i.key].hlc, !.src = v[i.key].src] : i \in P}

\* The versions that come with a page leave its keys alone.
LEMMA VersionsAre ==
  ASSUME NEW P \in SUBSET Item, IsFiniteSet(P), \A i, j \in P : i.key = j.key => i = j,
         NEW v \in [Rec -> Version], NEW p \in Node,
         NEW Q, Q = VersionsOf(P, v, p)
  PROVE  /\ Q \in SUBSET Item /\ IsFiniteSet(Q) /\ Cardinality(Q) >= Cardinality(P)
         /\ \A i, j \in Q : i.key = j.key => i = j
         /\ \A i \in P : \E j \in Q : j.key = i.key
         /\ \A j \in Q : \E i \in P : j.key = i.key
<1> DEFINE f == [i \in P |-> IF v[i.key] = NoVersion THEN [i EXCEPT !.hlc = 1, !.src = p]
                             ELSE [i EXCEPT !.hlc = v[i.key].hlc, !.src = v[i.key].src]]
<1>1. ASSUME NEW i \in P PROVE f[i] \in Item /\ f[i].key = i.key
  <2>1. i \in Item /\ i.key \in Rec
    BY DEF Item
  <2>2. v[i.key].hlc \in Nat /\ v[i.key].src \in Node \cup {0}
    BY <2>1 DEF Version
  <2>3. /\ [i EXCEPT !.hlc = 1, !.src = p] \in Item
        /\ [i EXCEPT !.hlc = 1, !.src = p].key = i.key
    BY <2>1, Nodes DEF Item
  <2>4. /\ [i EXCEPT !.hlc = v[i.key].hlc, !.src = v[i.key].src] \in Item
        /\ [i EXCEPT !.hlc = v[i.key].hlc, !.src = v[i.key].src].key = i.key
    BY <2>1, <2>2 DEF Item
  <2>5. f[i] = IF v[i.key] = NoVersion THEN [i EXCEPT !.hlc = 1, !.src = p]
               ELSE [i EXCEPT !.hlc = v[i.key].hlc, !.src = v[i.key].src]
    OBVIOUS
  <2> QED
    BY <2>3, <2>4, <2>5
<1>2. Q = {f[i] : i \in P}
  BY DEF VersionsOf
<1> HIDE DEF f
<1>3. \A j \in Q : \E i \in P : j = f[i]
  BY <1>2, Zenon
<1>4. \A i \in P : f[i] \in Q
  BY <1>2, Zenon
<1>5. IsFiniteSet(Q)
  <2>1. IsFiniteSet({f[i] : i \in P})
    BY ONLY FiniteRange, IsFiniteSet(P)
  <2> QED
    BY <1>2, <2>1, Zenon
<1>6. \A i, j \in Q : i.key = j.key => i = j
  <2> SUFFICES ASSUME NEW x \in Q, NEW y \in Q, x.key = y.key PROVE x = y
    BY Zenon
  <2>1. PICK i \in P : x = f[i]
    BY <1>3, Zenon
  <2>2. PICK j \in P : y = f[j]
    BY <1>3, Zenon
  <2>3. i.key = j.key
    BY <1>1, <2>1, <2>2, Zenon
  <2>4. i = j
    BY <2>3, Zenon
  <2> QED
    BY <2>1, <2>2, <2>4, Zenon
<1>7. Cardinality(Q) >= Cardinality(P)
  <2> DEFINE g == [x \in Q |-> CHOOSE i \in P : i.key = x.key]
  <2>1. \A x \in Q : \E i \in P : i.key = x.key
    <3> SUFFICES ASSUME NEW x \in Q PROVE \E i \in P : i.key = x.key
      BY Zenon
    <3>1. PICK i \in P : x = f[i]
      BY <1>3, Zenon
    <3> QED
      BY <1>1, <3>1
  <2>2. \A i \in P : f[i] \in Q /\ g[f[i]] = i
    <3> SUFFICES ASSUME NEW i \in P PROVE f[i] \in Q /\ g[f[i]] = i
      BY Zenon
    <3>1. f[i] \in Q /\ f[i].key = i.key
      BY <1>1, <1>4, Zenon
    <3>2. (CHOOSE j \in P : j.key = f[i].key) = i
      BY <3>1, Zenon
    <3> QED
      BY <3>1, <3>2, Zenon
  <2>3. g \in [Q -> P]
    <3>1. \A x \in Q : (CHOOSE i \in P : i.key = x.key) \in P
      BY <2>1, Zenon
    <3> QED
      BY <3>1, Zenon
  <2> HIDE DEF g
  <2>4. g \in Surjection(Q, P)
    BY ONLY <2>2, <2>3 DEF Surjection
  <2>5. Cardinality(P) <= Cardinality(Q)
    BY ONLY <1>5, <2>4, FS_Surjection
  <2> QED
    BY ONLY <1>5, <2>5, IsFiniteSet(P), FS_CardinalityType
<1>8. \A i \in P : \E j \in Q : j.key = i.key
  <2> SUFFICES ASSUME NEW i \in P PROVE \E j \in Q : j.key = i.key
    BY Zenon
  <2> QED
    BY <1>1, <1>4
<1>9. \A j \in Q : j \in Item /\ \E i \in P : j.key = i.key
  <2> SUFFICES ASSUME NEW j \in Q PROVE j \in Item /\ \E i \in P : j.key = i.key
    BY Zenon
  <2>1. PICK i \in P : j = f[i]
    BY <1>3, Zenon
  <2> QED
    BY <1>1, <2>1
<1> QED
  BY <1>5, <1>6, <1>7, <1>8, <1>9, Zenon

LEMMA ReadVersionsKeeps ==
  ASSUME IInv, NEW n \in Node, shown'[n] = StillShown(n), ReadVersions(n)
  PROVE  StepTypes' /\ FiniteLogs' /\ NodeInv(n)'
<1>1. SnapshotTypeOK /\ NodeInv(n) /\ FiniteLogs /\ snap[n] \in SnapState
  BY NodeTypes DEF IInv, NodeInv, FiniteLogs
<1>2. snap[n].at = "read" /\ UNCHANGED <<database, clock, queue, now, issued, events>>
  BY DEF ReadVersions
<1> DEFINE s == snap[n]
           p == s.peer
           Q == VersionsOf(s.page, version[p], p)
           t == [s EXCEPT !.at = "page", !.page = Q]
           more == {i.key : i \in {x \in s.page : Torn(x, version[p][x.key])}}
<1>3. p \in Node /\ p # 0 /\ resume[n].peer = p
  BY <1>1, <1>2, PeerIs, NoSnapIs DEF NodeInv
<1>4. s.page \in SUBSET Item /\ IsFiniteSet(s.page) /\ (\A i, j \in s.page : i.key = j.key => i = j)
  BY <1>1, SnapIs DEF NodeInv, RunOK
<1>5. /\ Q \in SUBSET Item /\ IsFiniteSet(Q) /\ Cardinality(Q) >= Cardinality(s.page)
      /\ \A i, j \in Q : i.key = j.key => i = j
      /\ \A i \in s.page : \E j \in Q : j.key = i.key
      /\ \A j \in Q : \E i \in s.page : j.key = i.key
  <2>1. version[p] \in [Rec -> Version]
    BY <1>1, <1>3, NodeTypes
  <2> HIDE DEF s, p, Q
  <2> QED
    BY ONLY <1>3, <1>4, <2>1, VersionsAre DEF Q
<1>6. snap' = [snap EXCEPT ![n] = t] /\ doubt' = [doubt EXCEPT ![n] = @ \cup more]
  <2>1. snap' = [snap EXCEPT ![n].at = "page", ![n].page = Q]
    BY DEF ReadVersions, VersionsOf
  <2>2. doubt' = [doubt EXCEPT ![n] = @ \cup more]
    BY DEF ReadVersions
  <2> HIDE DEF Q
  <2> QED
    BY <1>1, <2>1, <2>2 DEF SnapshotTypeOK
<1>7. more \subseteq Rec
  BY <1>4 DEF Item
<1> HIDE DEF Q, more
<1>8. /\ t \in SnapState /\ t.col = s.col /\ t.at = "page" /\ t.page = Q /\ t.peer = p
      /\ t.extra = s.extra /\ t.victim = s.victim
  BY <1>1, <1>5 DEF SnapState
<1> HIDE DEF t
<1>9. StepTypes' /\ FiniteLogs' /\ snap'[n] = t
  <2>1. events' \in Nat
    BY <1>1, <1>2 DEF SnapshotTypeOK
  <2> QED
    BY <1>1, <1>2, <1>6, <1>7, <1>8, <2>1, SnapMoves
<1>10. resume' = resume /\ seen' = seen /\ row' = row
  BY <1>2 DEF database
<1>11. \A r \in shown'[n] : /\ r \in Rec /\ r \in shown[n]
                            /\ resume[n].peer # 0 /\ row[resume[n].peer][r] # NoRow
  BY <1>1, <1>10, ShownIs, SameRun
<1>12. RunOK(n)'
  BY <1>1, <1>2, <1>3, <1>5, <1>8, <1>9, <1>10 DEF NodeInv, RunOK
<1>13. SeenAll(n)'
  BY <1>1, <1>10, <1>11 DEF NodeInv, SeenAll
<1>14. Spared(n)'
  BY <1>1, <1>8, <1>9, <1>11 DEF NodeInv, Spared
<1>15. PageHas(n)'
  <2> SUFFICES ASSUME NEW r \in shown'[n], r[1] = s.col, r[2] > resume[n].cols[r[1]]
               PROVE  \/ \E i \in Q : i.key = r
                      \/ Cardinality(Q) >= MaxBatch /\ \A i \in Q : i.key[2] < r[2]
    BY <1>8, <1>9, <1>10 DEF PageHas
  <2>1. \/ \E i \in s.page : i.key = r
        \/ Cardinality(s.page) >= MaxBatch /\ \A i \in s.page : i.key[2] < r[2]
    BY <1>1, <1>2, <1>11 DEF NodeInv, PageHas
  <2>2. CASE \E i \in s.page : i.key = r
    <3>1. \E i \in Q : i.key = r
      BY <1>5, <2>2
    <3> QED
      BY <3>1
  <2>3. CASE Cardinality(s.page) >= MaxBatch /\ \A i \in s.page : i.key[2] < r[2]
    <3>1. Cardinality(Q) \in Nat /\ Cardinality(s.page) \in Nat /\ MaxBatch \in Nat
      BY <1>4, <1>5, FS_CardinalityType, SnapshotAssumption
    <3>2. Cardinality(Q) >= MaxBatch
      BY <1>5, <2>3, <3>1
    <3>3. \A i \in Q : i.key[2] < r[2]
      BY <1>5, <2>3
    <3> QED
      BY <3>2, <3>3
  <2> QED
    BY <2>1, <2>2, <2>3
<1> QED
  BY <1>9, <1>12, <1>13, <1>14, <1>15 DEF NodeInv, FiniteLogs

\* Where a page ends.
PageEndOf(P, c) ==
  LET ids == {i.key[2] : i \in P}
  IN  IF Cardinality(P) < MaxBatch THEN End(c) ELSE CHOOSE i \in ids : \A j \in ids : j <= i

LEMMA PageEnd ==
  ASSUME NEW P \in SUBSET Item, IsFiniteSet(P), NEW c \in Col, NEW e, e = PageEndOf(P, c)
  PROVE  /\ e \in Nat
         /\ Cardinality(P) < MaxBatch => \A i \in IdsOf(c) : i <= e
         /\ ~ (Cardinality(P) < MaxBatch) => \E i \in P : i.key[2] = e
<1> DEFINE ids == {i.key[2] : i \in P}
<1>0. e = IF Cardinality(P) < MaxBatch THEN End(c) ELSE CHOOSE i \in ids : \A j \in ids : j <= i
  BY DEF PageEndOf
<1>1. CASE Cardinality(P) < MaxBatch
  BY <1>0, <1>1, IdsAre
<1>2. CASE ~ (Cardinality(P) < MaxBatch)
  <2> DEFINE f == [i \in P |-> i.key[2]]
  <2>1. ids = {f[i] : i \in P}
    OBVIOUS
  <2> HIDE DEF f
  <2>2. ids \in SUBSET Nat /\ (P # {} => ids # {})
    BY RecIs DEF Item
  <2>3. P # {}
    <3>1. P = {} => Cardinality(P) = 0
      BY FS_EmptySet
    <3>2. MaxBatch \in Nat /\ MaxBatch # 0
      BY SnapshotAssumption
    <3> QED
      BY <1>2, <3>1, <3>2
  <2>4. ids # {}
    BY <2>2, <2>3
  <2>5. e \in ids => \E i \in P : i.key[2] = e
    OBVIOUS
  <2> HIDE DEF ids
  <2>6. IsFiniteSet(ids)
    BY ONLY <2>1, IsFiniteSet(P), FiniteRange
  <2>7. (CHOOSE i \in ids : \A j \in ids : j <= i) \in ids
    BY ONLY <2>6, <2>2, <2>4, TheLargest
  <2>8. e \in ids
    BY <1>0, <1>2, <2>7
  <2>9. e \in Nat
    BY <2>2, <2>8
  <2> QED
    BY <1>2, <2>8, <2>9, <2>5
<1> QED
  BY <1>1, <1>2

LEMMA TakePageKeeps ==
  ASSUME IInv, NEW n \in Node, shown'[n] = StillShown(n), TakePage(n)
  PROVE  StepTypes' /\ FiniteLogs' /\ NodeInv(n)'
<1>1. SnapshotTypeOK /\ NodeInv(n) /\ FiniteLogs /\ snap[n] \in SnapState /\ resume[n] \in ResumeState
  BY NodeTypes DEF IInv, NodeInv, FiniteLogs
<1> DEFINE s == snap[n]
           wins == {i \in s.page : Takes(n, i)}
           ids == {i.key[2] : i \in s.page}
           last == Cardinality(s.page) < MaxBatch
           e == IF last THEN End(s.col) ELSE CHOOSE i \in ids : \A j \in ids : j <= i
           item(r) == CHOOSE i \in wins : i.key = r
           ver == [r \in Rec |-> IF r \in {i.key : i \in wins}
                    THEN [hlc |-> item(r).hlc, src |-> item(r).src, deleted |-> FALSE, updated |-> now]
                    ELSE version[n][r]]
           rows == [r \in Rec |-> IF r \in {i.key : i \in wins} THEN item(r).payload ELSE row[n][r]]
           more == IF resume[n].reconcile THEN {i.key : i \in s.page} ELSE {}
           t == IF ~ last THEN [s EXCEPT !.at = "ask", !.page = {}]
                ELSE IF resume[n].reconcile THEN [s EXCEPT !.at = "list", !.page = {}]
                ELSE NextCollection([s EXCEPT !.page = {}])
<1>2. s.at = "page" /\ UNCHANGED <<localSeq, log, vector, horizon, fence, joined, clock, queue, now,
                                   issued, doubt, events>>
  BY DEF TakePage
<1>3. version' = [version EXCEPT ![n] = ver]
  BY DEF TakePage
<1>4. row' = [row EXCEPT ![n] = rows]
  BY DEF TakePage
<1>5. seen' = [seen EXCEPT ![n] = @ \cup more] /\ resume' = [resume EXCEPT ![n].cols[s.col] = e]
      /\ snap' = [snap EXCEPT ![n] = t]
  BY DEF TakePage
<1>6. s.page \in SUBSET Item /\ IsFiniteSet(s.page) /\ wins \in SUBSET Item /\ s.col \in Col
  BY <1>1, <1>2, SnapIs DEF NodeInv, RunOK
<1>7. s.peer \in Node /\ s.peer # 0 /\ resume[n].peer = s.peer
  BY <1>1, <1>2, PeerIs, NoSnapIs DEF NodeInv
<1>8. ver \in [Rec -> Version] /\ rows \in [Rec -> Payload \cup {NoRow}]
  <2>1. ASSUME NEW r \in Rec
        PROVE  /\ (IF r \in {i.key : i \in wins}
                   THEN [hlc |-> item(r).hlc, src |-> item(r).src, deleted |-> FALSE, updated |-> now]
                   ELSE version[n][r]) \in Version
               /\ (IF r \in {i.key : i \in wins} THEN item(r).payload ELSE row[n][r]) \in Payload \cup {NoRow}
    <3>1. CASE r \in {i.key : i \in wins}
      <4>1. \E i \in wins : i.key = r
        BY <3>1
      <4>2. item(r) \in wins
        BY <4>1
      <4> DEFINE i == item(r)
      <4>3. i \in Item
        BY <1>6, <4>2
      <4> HIDE DEF i
      <4>4. i.hlc \in Nat /\ i.src \in Node \cup {0} /\ i.payload \in Payload /\ now \in Nat
        BY <1>1, <4>3, NodeTypes DEF Item
      <4>5. [hlc |-> i.hlc, src |-> i.src, deleted |-> FALSE, updated |-> now] \in Version
        BY <4>4 DEF Version
      <4> QED
        BY <3>1, <4>4, <4>5 DEF i
    <3>2. CASE r \notin {i.key : i \in wins}
      <4>1. version[n][r] \in Version /\ row[n][r] \in Payload \cup {NoRow}
        BY <1>1, NodeTypes
      <4> QED
        BY <3>2, <4>1
    <3> QED
      BY <3>1, <3>2
  <2> HIDE DEF wins, item
  <2> QED
    BY <2>1
<1> HIDE DEF ver, rows
<1>9. /\ e \in Nat /\ (last => \A i \in IdsOf(s.col) : i <= e)
      /\ (~ last => \E i \in s.page : i.key[2] = e)
  <2>1. e = PageEndOf(s.page, s.col)
    BY DEF PageEndOf
  <2> HIDE DEF s, e
  <2> QED
    BY ONLY <1>6, <2>1, PageEnd DEF last
<1> HIDE DEF e, wins, ids
<1>10. more \in SUBSET Rec
  BY <1>6 DEF Item
<1>11. /\ t \in SnapState /\ t.at \in {"ask", "list", "next"} /\ (t.at # "next" => t.col = s.col)
       /\ (t.at = "list" => resume[n].reconcile)
       /\ t.page = {} /\ t.peer = s.peer /\ t.extra = s.extra /\ t.victim = s.victim
  <2>1. \A at \in {"ask", "list"} :
          /\ [s EXCEPT !.at = at, !.page = {}] \in SnapState
          /\ [s EXCEPT !.at = at, !.page = {}].at = at
          /\ [s EXCEPT !.at = at, !.page = {}].col = s.col
          /\ [s EXCEPT !.at = at, !.page = {}].page = {}
          /\ [s EXCEPT !.at = at, !.page = {}].peer = s.peer
          /\ [s EXCEPT !.at = at, !.page = {}].extra = s.extra
          /\ [s EXCEPT !.at = at, !.page = {}].victim = s.victim
    BY <1>1 DEF SnapState
  <2> DEFINE u == [s EXCEPT !.page = {}]
  <2>2. u \in SnapState /\ u.page = {} /\ u.peer = s.peer /\ u.extra = s.extra /\ u.victim = s.victim
    BY <1>1 DEF SnapState
  <2> HIDE DEF u
  <2>3. /\ NextCollection(u) \in SnapState /\ NextCollection(u).at = "next"
        /\ NextCollection(u).peer = s.peer /\ NextCollection(u).page = {}
        /\ NextCollection(u).extra = s.extra /\ NextCollection(u).victim = s.victim
    BY <2>2, NextCollectionIs
  <2>4. CASE ~ last
    BY <2>1, <2>4
  <2>5. CASE last /\ resume[n].reconcile
    BY <2>1, <2>5
  <2>6. CASE last /\ ~ resume[n].reconcile
    <3>1. t = NextCollection(u)
      BY <2>6 DEF u
    <3> HIDE DEF t
    <3> QED
      BY <2>3, <3>1
  <2> QED
    BY <2>4, <2>5, <2>6
<1> HIDE DEF t
<1>12. /\ snap'[n] = t /\ snap' \in [Node -> SnapState]
       /\ seen'[n] = seen[n] \cup more /\ seen' \in [Node -> SUBSET Rec]
  BY <1>1, <1>5, <1>10, <1>11 DEF SnapshotTypeOK
<1>13. /\ resume' \in [Node -> ResumeState] /\ resume'[n].cols = [resume[n].cols EXCEPT ![s.col] = e]
       /\ resume'[n].peer = resume[n].peer /\ resume'[n].reconcile = resume[n].reconcile
       /\ resume'[n] = [resume[n] EXCEPT !.cols = resume'[n].cols]
  <2> DEFINE k == [resume[n].cols EXCEPT ![s.col] = e]
             q == [resume[n] EXCEPT !.cols = k]
  <2>1. k \in [Col -> Nat]
    BY <1>1, <1>6, <1>9 DEF ResumeState
  <2>2. resume' = [resume EXCEPT ![n] = q]
    BY <1>5
  <2> HIDE DEF k
  <2>3. q \in ResumeState /\ q.cols = k /\ q.peer = resume[n].peer /\ q.reconcile = resume[n].reconcile
    BY <1>1, <2>1 DEF ResumeState
  <2>4. resume'[n] = q /\ resume' \in [Node -> ResumeState]
    BY <1>1, <2>2, <2>3 DEF SnapshotTypeOK
  <2> QED
    BY <2>3, <2>4 DEF k
<1>14. StepTypes' /\ FiniteLogs'
  <2>1. version' \in [Node -> [Rec -> Version]] /\ row' \in [Node -> [Rec -> Payload \cup {NoRow}]]
    BY <1>1, <1>3, <1>4, <1>8 DEF SnapshotTypeOK
  <2>2. FiniteLogs'
    BY <1>1, <1>2 DEF FiniteLogs
  <2> QED
    BY <1>1, <1>2, <1>12, <1>13, <2>1, <2>2 DEF StepTypes, SnapshotTypeOK
<1>15. \A r \in shown'[n] : /\ r \in Rec /\ r \in shown[n]
                            /\ resume'[n].peer # 0 /\ row'[resume'[n].peer][r] # NoRow
  BY <1>1, <1>13, ShownIs
<1>16. RunOK(n)'
  <2>1. IsFiniteSet({})
    BY FS_EmptySet
  <2> QED
    BY <1>6, <1>7, <1>11, <1>12, <1>13, <2>1 DEF RunOK
<1>17. PageHas(n)' /\ Spared(n)'
  BY <1>1, <1>11, <1>12, <1>15 DEF NodeInv, Spared, PageHas
<1>18. SeenAll(n)'
  <2> SUFFICES ASSUME NEW r \in shown'[n], resume'[n].reconcile, r[2] <= resume'[n].cols[r[1]]
               PROVE  r \in seen'[n]
    BY <1>15 DEF SeenAll
  <2>1. r \in Rec /\ r \in shown[n] /\ r[1] \in Col /\ r[2] \in Nat /\ resume[n].reconcile
        /\ resume[n].cols \in [Col -> Nat]
    BY <1>1, <1>13, <1>15, RecIs DEF ResumeState
  <2>2. CASE r[2] <= resume[n].cols[r[1]]
    BY <1>1, <1>12, <2>1, <2>2 DEF NodeInv, SeenAll
  <2>3. CASE ~ (r[2] <= resume[n].cols[r[1]])
    <3>1. r[1] = s.col /\ r[2] <= e
      BY <1>13, <2>1, <2>3
    <3>2. r[2] > resume[n].cols[r[1]]
      BY <2>1, <2>3
    <3>3. \/ \E i \in s.page : i.key = r
          \/ Cardinality(s.page) >= MaxBatch /\ \A i \in s.page : i.key[2] < r[2]
      BY <1>1, <1>2, <2>1, <3>1, <3>2 DEF NodeInv, PageHas
    <3>4. CASE \E i \in s.page : i.key = r
      <4>1. r \in more
        BY <2>1, <3>4
      <4> HIDE DEF more
      <4> QED
        BY <1>12, <4>1
    <3>5. CASE Cardinality(s.page) >= MaxBatch /\ \A i \in s.page : i.key[2] < r[2]
      <4>1. ~ last
        BY <1>6, <3>5, FS_CardinalityType, SnapshotAssumption
      <4>2. e < r[2]
        BY <1>9, <3>5, <4>1
      <4> QED
        BY <1>9, <2>1, <3>1, <4>2
    <3> QED
      BY <3>3, <3>4, <3>5
  <2> QED
    BY <2>2, <2>3
<1> QED
  BY <1>14, <1>16, <1>17, <1>18 DEF NodeInv, FiniteLogs

\* Steps of a snapshot that leave the run alone, and have no page afterwards.
LEMMA MovesKeep ==
  ASSUME SnapshotTypeOK, NEW n \in Node, NodeInv(n), FiniteLogs', shown'[n] = StillShown(n),
         resume'[n] = resume[n], seen'[n] = seen[n], snap[n].peer # 0,
         NEW t \in SnapState, snap'[n] = t, t.peer = snap[n].peer, t.page \subseteq snap[n].page,
         t.at \notin {"read", "page"}, t.at # "next" => t.col \in Col,
         t.at = "list" => resume[n].reconcile,
         \A r \in shown[n] : r \notin t.extra /\ \A v \in t.victim : v.key # r
  PROVE  NodeInv(n)'
<1>1. \A r \in shown'[n] : r \in shown[n] /\ resume'[n].peer # 0 /\ row'[resume'[n].peer][r] # NoRow
  BY ShownIs, SameRun
<1>2. RunOK(n)'
  <2>1. IsFiniteSet(t.page)
    BY FS_Subset DEF NodeInv, RunOK
  <2> QED
    BY <2>1 DEF NodeInv, RunOK
<1>3. SeenAll(n)'
  BY <1>1 DEF NodeInv, SeenAll
<1>4. PageHas(n)' /\ Spared(n)'
  BY <1>1 DEF PageHas, Spared
<1> QED
  BY <1>2, <1>3, <1>4 DEF NodeInv, FiniteLogs

\* Where a snapshot is not between collections, or has some left, it has a peer.
LEMMA HasPeer ==
  ASSUME NEW n \in Node, RunOK(n), snap[n].at # "next" \/ snap[n].left # {}
  PROVE  snap[n].peer # 0
BY NoSnapIs DEF RunOK

LEMMA PageFailsKeeps ==
  ASSUME IInv, NEW n \in Node, shown'[n] = StillShown(n), PageFails(n)
  PROVE  StepTypes' /\ FiniteLogs' /\ NodeInv(n)'
<1> DEFINE u == [snap[n] EXCEPT !.page = {}]
           t == NextCollection(u)
           more == {r \in Rec : r[1] = snap[n].col}
<1>1. SnapshotTypeOK /\ NodeInv(n) /\ FiniteLogs /\ snap[n] \in SnapState
  BY NodeTypes DEF IInv, NodeInv, FiniteLogs
<1>2. /\ snap[n].at \in {"read", "page"} /\ events' = events + 1
      /\ UNCHANGED <<database, clock, queue, now, issued>>
      /\ snap' = [snap EXCEPT ![n] = t] /\ doubt' = [doubt EXCEPT ![n] = @ \cup more]
  BY <1>1 DEF PageFails, SnapshotTypeOK
<1>3. u \in SnapState /\ u.page = {} /\ u.peer = snap[n].peer /\ u.extra = snap[n].extra
      /\ u.victim = snap[n].victim
  BY <1>1 DEF SnapState
<1> HIDE DEF u
<1>4. /\ t \in SnapState /\ t.at = "next" /\ t.page = {} /\ t.peer = snap[n].peer
      /\ t.extra = snap[n].extra /\ t.victim = snap[n].victim
  BY <1>3, NextCollectionIs
<1> HIDE DEF t
<1>5. StepTypes' /\ FiniteLogs' /\ snap'[n] = t
  <2>1. more \subseteq Rec /\ events' \in Nat
    BY <1>1, <1>2 DEF SnapshotTypeOK
  <2> HIDE DEF more
  <2> QED
    BY <1>1, <1>2, <1>4, <2>1, SnapMoves
<1>6. snap[n].peer # 0
  BY <1>1, <1>2, HasPeer DEF NodeInv
<1>7. \A r \in shown[n] : r \notin t.extra /\ \A v \in t.victim : v.key # r
  BY <1>1, <1>4 DEF NodeInv, Spared
<1>8. resume' = resume /\ seen' = seen
  BY <1>2 DEF database
<1> QED
  BY <1>1, <1>4, <1>5, <1>6, <1>7, <1>8, MovesKeep

LEMMA ListExtraKeeps ==
  ASSUME IInv, NEW n \in Node, shown'[n] = StillShown(n), ListExtra(n)
  PROVE  StepTypes' /\ FiniteLogs' /\ NodeInv(n)'
<1>1. SnapshotTypeOK /\ NodeInv(n) /\ FiniteLogs /\ snap[n] \in SnapState /\ resume[n] \in ResumeState
  BY NodeTypes DEF IInv, NodeInv, FiniteLogs
<1>2. PICK c \in IF snap[n].at = "list" THEN {snap[n].col} ELSE snap[n].left :
       /\ resume[n].cols[c] = End(c)
       /\ LET extra == {r \in Rec : r[1] = c /\ row[n][r] # NoRow /\ r \notin seen[n]}
              s     == [snap[n] EXCEPT !.col = c]
          IN  snap' = [snap EXCEPT ![n] =
                IF extra = {} THEN NextCollection(s) ELSE [s EXCEPT !.at = "judge", !.extra = extra]]
       /\ doubt' = [doubt EXCEPT ![n] = @ \cup
            {r \in KeysOf(Unheard(n)) : r[1] = c /\ row[n][r] = NoRow}]
  BY DEF ListExtra
<1>3. /\ snap[n].at = "list" \/ (snap[n].at = "next" /\ resume[n].reconcile)
      /\ UNCHANGED <<database, clock, queue, now, issued, events>>
  BY DEF ListExtra
<1> DEFINE extra == {r \in Rec : r[1] = c /\ row[n][r] # NoRow /\ r \notin seen[n]}
           s == [snap[n] EXCEPT !.col = c]
           j == [s EXCEPT !.at = "judge", !.extra = extra]
           t == IF extra = {} THEN NextCollection(s) ELSE j
           more == {r \in KeysOf(Unheard(n)) : r[1] = c /\ row[n][r] = NoRow}
<1>4. snap' = [snap EXCEPT ![n] = t] /\ doubt' = [doubt EXCEPT ![n] = @ \cup more]
  BY <1>2
<1>5. resume[n].reconcile /\ c \in Col /\ snap[n].peer # 0
  <2>1. CASE snap[n].at = "list"
    BY <1>1, <1>2, <2>1, HasPeer DEF NodeInv, RunOK
  <2>2. CASE snap[n].at = "next" /\ resume[n].reconcile
    BY <1>1, <1>2, <2>2, HasPeer, SnapIs DEF NodeInv
  <2> QED
    BY <1>3, <2>1, <2>2
<1>6. more \subseteq Rec
  <2>1. Unheard(n) \in SUBSET Op
    BY <1>1 DEF Unheard, SnapshotTypeOK
  <2> QED
    BY <2>1, KeysAre
<1>7. extra \in SUBSET Rec /\ \A r \in shown[n] : r \notin extra
  <2> SUFFICES ASSUME NEW r \in shown[n], r \in extra PROVE FALSE
    OBVIOUS
  <2>1. r \in Rec /\ r[1] = c /\ r \notin seen[n] /\ r[2] \in IdsOf(c)
    BY RecIs
  <2>2. r[2] <= resume[n].cols[r[1]]
    BY <1>2, <1>5, <2>1, IdsAre
  <2> QED
    BY <1>1, <1>5, <2>1, <2>2 DEF NodeInv, SeenAll
<1> HIDE DEF extra, more
<1>8. /\ t \in SnapState /\ t.at \in {"next", "judge"} /\ t.peer = snap[n].peer
      /\ t.page = snap[n].page /\ t.victim = snap[n].victim
      /\ (t.at # "next" => t.col \in Col) /\ (t.extra = extra \/ t.extra = snap[n].extra)
  <2>1. /\ s \in SnapState /\ s.peer = snap[n].peer /\ s.page = snap[n].page /\ s.col = c
        /\ s.extra = snap[n].extra /\ s.victim = snap[n].victim
    BY <1>1, <1>5 DEF SnapState
  <2> HIDE DEF s
  <2>2. CASE extra = {}
    BY <2>1, <2>2, NextCollectionIs
  <2>3. CASE extra # {}
    <3>1. /\ j \in SnapState /\ j.at = "judge" /\ j.peer = s.peer /\ j.page = s.page /\ j.col = s.col
          /\ j.extra = extra /\ j.victim = s.victim
      BY <1>7, <2>1 DEF SnapState
    <3>2. t = j
      BY <2>3
    <3> HIDE DEF j, t
    <3> QED
      BY <1>5, <2>1, <3>1, <3>2
  <2> QED
    BY <2>2, <2>3
<1> HIDE DEF t
<1>9. StepTypes' /\ FiniteLogs' /\ snap'[n] = t
  <2>1. events' \in Nat
    BY <1>1, <1>3 DEF SnapshotTypeOK
  <2> QED
    BY <1>1, <1>3, <1>4, <1>6, <1>8, <2>1, SnapMoves
<1>10. \A r \in shown[n] : r \notin t.extra /\ \A v \in t.victim : v.key # r
  BY <1>1, <1>7, <1>8 DEF NodeInv, Spared
<1>11. resume' = resume /\ seen' = seen
  BY <1>3 DEF database
<1> QED
  BY <1>1, <1>5, <1>8, <1>9, <1>10, <1>11, MovesKeep

\* A record that has been judged.
LEMMA JudgedKeeps ==
  ASSUME IInv, NEW n \in Node, shown'[n] = StillShown(n), FiniteLogs', NEW r \in Rec,
         snap[n].at \in {"judge", "delete"}, NEW t, t = Judged(snap[n], r),
         snap' = [snap EXCEPT ![n] = t], resume'[n] = resume[n], seen'[n] = seen[n]
  PROVE  NodeInv(n)' /\ t \in SnapState
<1>1. SnapshotTypeOK /\ NodeInv(n) /\ snap[n] \in SnapState /\ snap'[n] = t
  BY NodeTypes DEF IInv, SnapshotTypeOK
<1>2. /\ t \in SnapState /\ t.at \in {"next", "judge"} /\ (t.at # "next" => t.col = snap[n].col)
      /\ t.peer = snap[n].peer /\ t.page = snap[n].page
      /\ t.extra \subseteq snap[n].extra /\ t.victim = {}
  BY <1>1, JudgedIs
<1>3. snap[n].peer # 0 /\ snap[n].col \in Col
  BY <1>1, HasPeer DEF NodeInv, RunOK
<1>4. \A x \in shown[n] : x \notin t.extra /\ \A v \in t.victim : v.key # x
  BY <1>1, <1>2 DEF NodeInv, Spared
<1>5. NodeInv(n)'
  BY <1>1, <1>2, <1>3, <1>4, MovesKeep
<1> QED
  BY <1>2, <1>5

LEMMA KeepKeeps ==
  ASSUME IInv, NEW n \in Node, shown'[n] = StillShown(n), Keep(n)
  PROVE  StepTypes' /\ FiniteLogs' /\ NodeInv(n)'
<1>1. PICK r \in snap[n].extra :
       /\ snap'  = [snap EXCEPT ![n] = Judged(@, r)]
       /\ doubt' = [doubt EXCEPT ![n] = @ \cup {r}]
  BY DEF Keep
<1>2. snap[n].at = "judge" /\ UNCHANGED <<database, clock, queue, now, issued, events>>
  BY DEF Keep
<1>3. SnapshotTypeOK /\ FiniteLogs /\ snap[n] \in SnapState /\ r \in Rec
  BY NodeTypes, SnapIs DEF IInv, NodeInv, FiniteLogs
<1> DEFINE t == Judged(snap[n], r)
<1>4. t \in SnapState /\ t = Judged(snap[n], r) /\ snap' = [snap EXCEPT ![n] = t]
  BY <1>1, <1>3, JudgedIs
<1> HIDE DEF t
<1>5. StepTypes' /\ FiniteLogs'
  <2>1. {r} \subseteq Rec /\ events' \in Nat
    BY <1>2, <1>3 DEF SnapshotTypeOK
  <2> DEFINE more == {r}
  <2>2. doubt' = [doubt EXCEPT ![n] = @ \cup more]
    BY <1>1
  <2> HIDE DEF more
  <2> QED
    BY <1>2, <1>3, <1>4, <2>1, <2>2, SnapMoves DEF more
<1>6. resume'[n] = resume[n] /\ seen'[n] = seen[n]
  BY <1>2 DEF database
<1>7. NodeInv(n)'
  BY <1>2, <1>3, <1>4, <1>5, <1>6, JudgedKeeps
<1> QED
  BY <1>5, <1>7

LEMMA CondemnKeeps ==
  ASSUME IInv, NEW n \in Node, shown'[n] = StillShown(n), Condemn(n)
  PROVE  StepTypes' /\ FiniteLogs' /\ NodeInv(n)'
<1>1. PICK r \in snap[n].extra :
       /\ clock' = [clock EXCEPT ![n] = Tick(@, now)]
       /\ snap'  = [snap EXCEPT ![n].at = "delete", ![n].victim =
                      {[key |-> r, hlc |-> Encode(clock'[n])]}]
  BY DEF Condemn
<1>2. snap[n].at = "judge" /\ UNCHANGED <<database, queue, now, issued, doubt, events>>
  BY DEF Condemn
<1>3. SnapshotTypeOK /\ NodeInv(n) /\ FiniteLogs /\ snap[n] \in SnapState /\ r \in Rec
  BY NodeTypes, SnapIs DEF IInv, NodeInv, FiniteLogs
<1> DEFINE w == {[key |-> r, hlc |-> Encode(clock'[n])]}
           t == [snap[n] EXCEPT !.at = "delete", !.victim = w]
<1>4. clock' \in [Node -> Clock] /\ Encode(clock'[n]) \in Nat
  <2>1. Tick(clock[n], now) \in Clock
    BY <1>3, NodeTypes, TickIncreases
  <2>2. clock' \in [Node -> Clock]
    BY <1>1, <1>3, <2>1 DEF SnapshotTypeOK
  <2> QED
    BY <2>2, EncodeType
<1>5. w \in SUBSET [key : Rec, hlc : Nat] /\ \A v \in w : v.key = r
  BY <1>3, <1>4
<1>6. snap' = [snap EXCEPT ![n] = t]
  <2>1. snap' = [snap EXCEPT ![n].at = "delete", ![n].victim = w]
    BY <1>1
  <2> HIDE DEF w
  <2> QED
    BY <1>3, <2>1 DEF SnapshotTypeOK
<1> HIDE DEF w
<1>7. /\ t \in SnapState /\ t.at = "delete" /\ t.peer = snap[n].peer /\ t.page = snap[n].page
      /\ t.col = snap[n].col /\ t.extra = snap[n].extra /\ t.victim = w
  BY <1>3, <1>5 DEF SnapState
<1> HIDE DEF t
<1>8. snap' \in [Node -> SnapState] /\ snap'[n] = t
  BY <1>3, <1>6, <1>7 DEF SnapshotTypeOK
<1>9. StepTypes' /\ FiniteLogs'
  BY <1>2, <1>3, <1>4, <1>8 DEF StepTypes, SnapshotTypeOK, database, FiniteLogs
<1>10. snap[n].peer # 0 /\ snap[n].col \in Col
  BY <1>2, <1>3, HasPeer DEF NodeInv, RunOK
<1>11. \A x \in shown[n] : x \notin t.extra /\ \A v \in t.victim : v.key # x
  BY <1>3, <1>5, <1>7 DEF NodeInv, Spared
<1>12. resume' = resume /\ seen' = seen
  BY <1>2 DEF database
<1> QED
  BY <1>3, <1>7, <1>8, <1>9, <1>10, <1>11, <1>12, MovesKeep

LEMMA DeleteKeeps ==
  ASSUME IInv, NEW n \in Node, shown'[n] = StillShown(n), Delete(n)
  PROVE  StepTypes' /\ FiniteLogs' /\ NodeInv(n)'
<1>1. PICK v \in snap[n].victim :
       /\ snap' = [snap EXCEPT ![n] = Judged(@, v.key)]
       /\ \/ UNCHANGED <<version, row, doubt>>
          \/ /\ row'     = [row EXCEPT ![n][v.key] = NoRow]
             /\ version' = [version EXCEPT ![n][v.key] =
                  [hlc |-> v.hlc, src |-> 0, deleted |-> TRUE, updated |-> now]]
             /\ doubt'   = [doubt EXCEPT ![n] = @ \cup
                  IF \E d \in issued : /\ d.key = v.key /\ d.type = "delete"
                                       /\ Less(version[n][v.key], d)
                  THEN {} ELSE {v.key}]
  BY DEF Delete
<1>2. /\ snap[n].at = "delete"
      /\ UNCHANGED <<localSeq, log, vector, horizon, fence, joined, resume, seen, clock, queue, now,
                     issued, events>>
  BY DEF Delete
<1>3. SnapshotTypeOK /\ FiniteLogs /\ snap[n] \in SnapState /\ v \in [key : Rec, hlc : Nat]
  BY NodeTypes, SnapIs DEF IInv, NodeInv, FiniteLogs
<1>4. FiniteLogs'
  BY <1>2, <1>3 DEF FiniteLogs
<1>5. NodeInv(n)' /\ snap'[n] \in SnapState
  <2> DEFINE t == Judged(snap[n], v.key)
  <2>1. snap' = [snap EXCEPT ![n] = t] /\ t = Judged(snap[n], v.key)
    BY <1>1
  <2>2. resume'[n] = resume[n] /\ seen'[n] = seen[n] /\ snap[n].at \in {"judge", "delete"}
    BY <1>2
  <2> DEFINE r == v.key
  <2>3. t = Judged(snap[n], r) /\ r \in Rec
    BY <1>3
  <2> HIDE DEF t, r
  <2>4. NodeInv(n)' /\ t \in SnapState
    BY <1>4, <2>1, <2>2, <2>3, JudgedKeeps
  <2> QED
    BY <1>3, <2>1, <2>4 DEF SnapshotTypeOK
<1>6. snap' \in [Node -> SnapState]
  BY <1>1, <1>3, <1>5 DEF SnapshotTypeOK
<1> DEFINE k == v.key
           ver == [hlc |-> v.hlc, src |-> 0, deleted |-> TRUE, updated |-> now]
<1>7. k \in Rec /\ ver \in Version
  <2>1. v.key \in Rec /\ v.hlc \in Nat /\ now \in Nat
    BY <1>3, NodeTypes
  <2> QED
    BY <2>1 DEF Version
<1>8. /\ version' \in [Node -> [Rec -> Version]]
      /\ row' \in [Node -> [Rec -> Payload \cup {NoRow}]]
      /\ doubt' \in [Node -> SUBSET Rec]
  <2>1. CASE UNCHANGED <<version, row, doubt>>
    BY <1>3, <2>1 DEF SnapshotTypeOK
  <2>2. CASE \E more \in {{}, {k}} : /\ row' = [row EXCEPT ![n][k] = NoRow]
                                     /\ version' = [version EXCEPT ![n][k] = ver]
                                     /\ doubt' = [doubt EXCEPT ![n] = @ \cup more]
    <3> HIDE DEF k, ver
    <3>1. version' \in [Node -> [Rec -> Version]]
      BY <1>3, <1>7, <2>2 DEF SnapshotTypeOK
    <3>2. row' \in [Node -> [Rec -> Payload \cup {NoRow}]]
      BY <1>3, <1>7, <2>2 DEF SnapshotTypeOK
    <3>3. doubt' \in [Node -> SUBSET Rec]
      BY <1>3, <1>7, <2>2 DEF SnapshotTypeOK
    <3> QED
      BY <3>1, <3>2, <3>3
  <2> QED
    BY <1>1, <2>1, <2>2
<1> QED
  BY <1>2, <1>3, <1>4, <1>5, <1>6, <1>8 DEF StepTypes, SnapshotTypeOK

LEMMA FinishKeeps ==
  ASSUME IInv, NEW n \in Node, shown'[n] = StillShown(n), Finish(n)
  PROVE  StepTypes' /\ FiniteLogs' /\ NodeInv(n)'
<1> DEFINE more == IF resume[n].reconcile THEN {} ELSE KeysOf(Unheard(n))
           v == Adopted(vector[n], VectorThen(n), n)
<1>1. /\ vector' = [vector EXCEPT ![n] = v] /\ joined' = [joined EXCEPT ![n] = TRUE]
      /\ doubt' = [doubt EXCEPT ![n] = @ \cup more] /\ resume' = [resume EXCEPT ![n] = NoRun]
      /\ seen' = [seen EXCEPT ![n] = {}] /\ snap' = [snap EXCEPT ![n] = NoSnap]
      /\ UNCHANGED <<localSeq, log, version, row, horizon, fence, clock, queue, now, issued, events>>
  BY DEF Finish
<1>2. SnapshotTypeOK /\ FiniteLogs
  BY DEF IInv, NodeInv, FiniteLogs
<1>3. v \in Vector
  <2>1. vector[n] \in Vector /\ VectorThen(n) \in Vector
    BY <1>2, NodeTypes, SnapIs DEF VectorThen
  <2> QED
    BY <2>1 DEF Adopted, Vector, Larger
<1>4. more \subseteq Rec
  <2>1. Unheard(n) \in SUBSET Op
    BY <1>2 DEF Unheard, SnapshotTypeOK
  <2> QED
    BY <2>1, KeysAre
<1>5. NoRun \in ResumeState /\ NoRun.peer = 0
  BY DEF NoRun, ResumeState
<1> HIDE DEF more, v
<1>6. vector' \in [Node -> Vector] /\ joined' \in [Node -> BOOLEAN] /\ doubt' \in [Node -> SUBSET Rec]
  BY <1>1, <1>2, <1>3, <1>4 DEF SnapshotTypeOK
<1>7. /\ resume' \in [Node -> ResumeState] /\ seen' \in [Node -> SUBSET Rec]
      /\ snap' \in [Node -> SnapState]
      /\ resume'[n] = NoRun /\ snap'[n] = NoSnap
  BY <1>1, <1>2, <1>5, NoSnapIs DEF SnapshotTypeOK
<1>8. shown'[n] = {}
  BY <1>2, <1>5, <1>7, ShownIs
<1>9. IsFiniteSet({})
  BY FS_EmptySet
<1>10. RunOK(n)' /\ SeenAll(n)' /\ PageHas(n)' /\ Spared(n)'
  BY <1>7, <1>8, <1>9, NoSnapIs DEF RunOK, SeenAll, PageHas, Spared
<1>11. FiniteLogs'
  BY <1>1, <1>2 DEF FiniteLogs
<1>12. StepTypes'
  BY <1>1, <1>2, <1>6, <1>7 DEF StepTypes, SnapshotTypeOK
<1> QED
  BY <1>10, <1>11, <1>12 DEF NodeInv, FiniteLogs

LEMMA CrashKeeps ==
  ASSUME IInv, NEW n \in Node, shown'[n] = StillShown(n), Crash(n)
  PROVE  StepTypes' /\ FiniteLogs' /\ NodeInv(n)'
<1>1. /\ events' = events + 1 /\ queue' = [queue EXCEPT ![n] = {}]
      /\ snap' = [snap EXCEPT ![n] = NoSnap] /\ doubt' = [doubt EXCEPT ![n] = @ \cup KeysOf(queue[n])]
      /\ UNCHANGED <<database, clock, now, issued>>
  BY DEF Crash
<1>2. SnapshotTypeOK /\ NodeInv(n) /\ FiniteLogs
  BY DEF IInv, NodeInv, FiniteLogs
<1>3. KeysOf(queue[n]) \subseteq Rec
  BY <1>2, NodeTypes, KeysAre
<1>4. /\ doubt' \in [Node -> SUBSET Rec] /\ queue' \in [Node -> SUBSET Op] /\ events' \in Nat
      /\ snap' \in [Node -> SnapState] /\ snap'[n] = NoSnap
  BY <1>1, <1>2, <1>3, NoSnapIs DEF SnapshotTypeOK
<1>5. StepTypes' /\ FiniteLogs'
  BY <1>1, <1>2, <1>4 DEF StepTypes, SnapshotTypeOK, database, FiniteLogs
<1>6. resume' = resume /\ seen' = seen
  BY <1>1 DEF database
<1>7. \A r \in shown'[n] : r \in shown[n] /\ resume'[n].peer # 0 /\ row'[resume'[n].peer][r] # NoRow
  BY <1>2, <1>6, ShownIs, SameRun
<1>8. SeenAll(n)'
  BY <1>2, <1>6, <1>7 DEF NodeInv, SeenAll
<1>9. IsFiniteSet({})
  BY FS_EmptySet
<1>10. RunOK(n)' /\ PageHas(n)' /\ Spared(n)'
  BY <1>4, <1>9, NoSnapIs DEF RunOK, PageHas, Spared
<1> QED
  BY <1>5, <1>8, <1>10 DEF NodeInv, FiniteLogs

LEMMA JoinKeeps ==
  ASSUME IInv, NEW n \in Node, shown'[n] = StillShown(n), Join(n)
  PROVE  StepTypes' /\ FiniteLogs' /\ NodeInv(n)'
<1>1. SnapshotTypeOK /\ NodeInv(n) /\ FiniteLogs
  BY DEF IInv, NodeInv, FiniteLogs
<1>2. StepTypes' /\ FiniteLogs'
  BY <1>1, JoinTypes
<1>3. PICK p \in PullFrom[n] : StartSnapshot(n, p, FALSE)
  BY DEF Join
<1>4. p \in Node
  BY SnapshotAssumption
<1> QED
  BY <1>1, <1>2, <1>3, <1>4, StartKeeps

LEMMA PullKeeps ==
  ASSUME IInv, NEW n \in Node, shown'[n] = StillShown(n), Pull(n)
  PROVE  StepTypes' /\ FiniteLogs' /\ NodeInv(n)'
<1>1. SnapshotTypeOK /\ NodeInv(n) /\ FiniteLogs
  BY DEF IInv, NodeInv, FiniteLogs
<1>2. StepTypes' /\ FiniteLogs'
  BY <1>1, PullTypes
<1>3. PICK p \in PullFrom[n] : StartSnapshot(n, p, TRUE) \/ UNCHANGED <<resume, seen, snap>>
  BY DEF Pull
<1>4. p \in Node
  BY SnapshotAssumption
<1>5. CASE StartSnapshot(n, p, TRUE)
  BY <1>1, <1>2, <1>4, <1>5, StartKeeps
<1>6. CASE UNCHANGED <<resume, seen, snap>>
  BY <1>1, <1>2, <1>6, QuietKeeps
<1> QED
  BY <1>2, <1>3, <1>5, <1>6

\* Every step of n, for n itself and for the others.
LEMMA NodeKeeps ==
  ASSUME IInv, NEW n \in Node, shown'[n] = StillShown(n), NodeNext(n)
  PROVE  StepTypes' /\ FiniteLogs' /\ NodeInv(n)'
<1>1. SnapshotTypeOK /\ NodeInv(n) /\ FiniteLogs
  BY DEF IInv, NodeInv, FiniteLogs
<1>2. CASE LocalWrite(n) \/ Push(n) \/ Apply(n) \/ Collect(n)
  <2>1. StepTypes' /\ FiniteLogs'
    BY <1>1, <1>2, LocalWriteTypes, PushTypes, ApplyTypes, CollectTypes
  <2>2. resume' = resume /\ seen' = seen /\ snap' = snap
    BY <1>2 DEF LocalWrite, Push, Apply, Collect
  <2> QED
    BY <1>1, <2>1, <2>2, QuietKeeps
<1>3. CASE SnapshotStep(n)
  BY <1>3, ReadRowsKeeps, ReadVersionsKeeps, TakePageKeeps, ListExtraKeeps, KeepKeeps, CondemnKeeps,
     DeleteKeeps, FinishKeeps DEF SnapshotStep
<1>4. CASE Pull(n) \/ Join(n) \/ PageFails(n) \/ Crash(n)
  BY <1>4, PullKeeps, JoinKeeps, PageFailsKeeps, CrashKeeps
<1> QED
  BY <1>2, <1>3, <1>4 DEF NodeNext

LEMMA Elsewhere ==
  ASSUME SnapshotTypeOK, NEW n \in Node, NEW m \in Node, m # n, NodeNext(n)
  PROVE  resume'[m] = resume[m] /\ seen'[m] = seen[m] /\ snap'[m] = snap[m]
<1> USE DEF SnapshotTypeOK
<1>1. CASE LocalWrite(n) \/ Push(n) \/ Apply(n) \/ Collect(n)
  BY <1>1 DEF LocalWrite, Push, Apply, Collect
<1>2. ASSUME NEW p, NEW reconcile, StartSnapshot(n, p, reconcile)
      PROVE  resume'[m] = resume[m] /\ seen'[m] = seen[m] /\ snap'[m] = snap[m]
  BY <1>2 DEF StartSnapshot
<1>3. CASE Join(n)
  BY <1>2, <1>3 DEF Join
<1>4. CASE Pull(n)
  <2>1. PICK p \in PullFrom[n] : StartSnapshot(n, p, TRUE) \/ UNCHANGED <<resume, seen, snap>>
    BY <1>4 DEF Pull
  <2> QED
    BY <1>2, <2>1
<1>5. CASE ReadRows(n) \/ ReadVersions(n) \/ ListExtra(n) \/ Keep(n) \/ Condemn(n)
  <2>1. UNCHANGED database
    BY <1>5 DEF ReadRows, ReadVersions, ListExtra, Keep, Condemn
  <2>2. \E t : snap' = [snap EXCEPT ![n] = t]
    <3>1. CASE ReadRows(n)
      BY <3>1 DEF ReadRows
    <3>2. CASE ReadVersions(n)
      BY <3>2 DEF ReadVersions
    <3>3. CASE ListExtra(n)
      BY <3>3 DEF ListExtra
    <3>4. CASE Keep(n)
      BY <3>4 DEF Keep
    <3>5. CASE Condemn(n)
      BY <3>5 DEF Condemn
    <3> QED
      BY <1>5, <3>1, <3>2, <3>3, <3>4, <3>5
  <2> QED
    BY <2>1, <2>2 DEF database
<1>6. CASE TakePage(n)
  BY <1>6 DEF TakePage
<1>7. CASE Delete(n)
  BY <1>7 DEF Delete
<1>8. CASE Finish(n)
  BY <1>8 DEF Finish
<1>9. CASE PageFails(n) \/ Crash(n)
  BY <1>9 DEF PageFails, Crash, database
<1> QED
  BY <1>1, <1>3, <1>4, <1>5, <1>6, <1>7, <1>8, <1>9 DEF NodeNext, SnapshotStep

-----------------------------------------------------------------------------
(***************************************************************************)
(* Theorems                                                                *)
(***************************************************************************)
LEMMA Starts == SnapshotInit => IInv
<1> SUFFICES ASSUME SnapshotInit PROVE IInv
  OBVIOUS
<1> USE DEF SnapshotInit
<1>1. /\ [m \in Node |-> 0] \in Vector /\ Zero \in Clock /\ NoVersion \in Version
      /\ NoRun \in ResumeState /\ NoRun.peer = 0 /\ NoSnap \in SnapState
  BY NoSnapIs, LogicalAssumption DEF Vector, Zero, Clock, NoVersion, Version, NoRun, ResumeState
<1>2. version \in [Node -> [Rec -> Version]] /\ row \in [Node -> [Rec -> Payload \cup {NoRow}]]
  BY <1>1
<1>3. /\ localSeq \in Vector /\ vector \in [Node -> Vector] /\ horizon \in [Node -> Vector]
      /\ fence \in [Node -> Nat] /\ joined \in [Node -> BOOLEAN]
      /\ resume \in [Node -> ResumeState] /\ clock \in [Node -> Clock] /\ snap \in [Node -> SnapState]
  BY <1>1
<1>4. /\ log \in [Node -> SUBSET [op : Op, created : Nat]] /\ seen \in [Node -> SUBSET Rec]
      /\ queue \in [Node -> SUBSET Op] /\ now \in Nat /\ issued \in SUBSET Op
      /\ shown \in [Node -> SUBSET Rec] /\ doubt \in [Node -> SUBSET Rec] /\ events \in Nat
  OBVIOUS
<1>5. SnapshotTypeOK
  BY <1>2, <1>3, <1>4 DEF SnapshotTypeOK
<1>6. ASSUME NEW n \in Node PROVE NodeInv(n)
  <2>1. log[n] = {} /\ shown[n] = {} /\ snap[n] = NoSnap /\ IsFiniteSet({})
    BY FS_EmptySet
  <2> QED
    BY <2>1, NoSnapIs DEF NodeInv, RunOK, SeenAll, PageHas, Spared
<1> QED
  BY <1>5, <1>6 DEF IInv

\* With the types of the rest come those of what is shown.
LEMMA ShownTypes ==
  ASSUME SnapshotTypeOK, StepTypes', shown' = [n \in Node |-> StillShown(n)]
  PROVE  SnapshotTypeOK'
<1>1. ASSUME NEW n \in Node PROVE StillShown(n) \in SUBSET Rec
  BY DEF StillShown, SnapshotTypeOK
<1>2. shown' \in [Node -> SUBSET Rec]
  BY <1>1
<1> QED
  BY <1>2 DEF StepTypes, SnapshotTypeOK

LEMMA Steps == IInv /\ [SnapshotNext]_vars => IInv'
<1> SUFFICES ASSUME IInv, [SnapshotNext]_vars PROVE IInv'
  OBVIOUS
<1>1. SnapshotTypeOK /\ FiniteLogs /\ \A n \in Node : NodeInv(n)
  BY DEF IInv, NodeInv, FiniteLogs
<1>2. CASE UNCHANGED vars
  <2>1. SnapshotTypeOK'
    BY <1>1, <1>2 DEF vars, database, process, SnapshotTypeOK
  <2>2. \A n \in Node : NodeInv(n)'
    BY <1>1, <1>2 DEF vars, database, process, NodeInv, RunOK, SeenAll, PageHas, Spared
  <2> QED
    BY <2>1, <2>2 DEF IInv
<1>3. CASE SnapshotNext
  <2>1. shown' = [n \in Node |-> StillShown(n)] /\ \A n \in Node : shown'[n] = StillShown(n)
    BY <1>3 DEF SnapshotNext
  <2>2. CASE Time
    <3>1. StepTypes' /\ FiniteLogs' /\ resume' = resume /\ seen' = seen /\ snap' = snap
      BY <1>1, <2>2 DEF Time, database, process, StepTypes, SnapshotTypeOK, FiniteLogs
    <3>2. \A n \in Node : NodeInv(n)'
      BY <1>1, <2>1, <3>1, QuietKeeps
    <3> QED
      BY <1>1, <2>1, <3>1, <3>2, ShownTypes DEF IInv
  <2>3. ASSUME NEW n \in Node, NodeNext(n) PROVE IInv'
    <3>1. StepTypes' /\ FiniteLogs' /\ NodeInv(n)'
      BY <2>1, <2>3, NodeKeeps
    <3>2. ASSUME NEW m \in Node, m # n PROVE NodeInv(m)'
      <4>1. resume'[m] = resume[m] /\ seen'[m] = seen[m] /\ snap'[m] = snap[m]
        BY <1>1, <2>3, <3>2, Elsewhere
      <4> QED
        BY <1>1, <2>1, <3>1, <4>1, QuietKeeps
    <3> QED
      BY <1>1, <2>1, <3>1, <3>2, ShownTypes DEF IInv
  <2> QED
    BY <1>3, <2>2, <2>3 DEF SnapshotNext
<1> QED
  BY <1>2, <1>3

LEMMA Invariant == SnapshotSpec => []IInv
BY Starts, Steps, PTL DEF SnapshotSpec

\* Every variable keeps its type, whatever interleaving of writes, pushes, pulls,
\* collections, snapshots, failures and crashes: no snapshot stores a version, a cursor
\* or a resume state that the tables do not admit.
THEOREM SnapshotTypes == SnapshotSpec => []SnapshotTypeOK
<1>1. IInv => SnapshotTypeOK
  BY DEF IInv
<1> QED
  BY <1>1, Invariant, PTL

\* Reconciling (applyReconcileDelete) removes no record that the peer has had since the run
\* began: however the run was interrupted and resumed, whatever was written or deleted
\* meanwhile, such a record is in _repl_sync_seen when its collection is reconciled.
THEOREM ReconcileSparesTheShown == SnapshotSpec => ReconcilesWhatIsGone
<1>1. ASSUME IInv, [SnapshotNext]_vars
      PROVE  [\A n \in Node : Delete(n) => \A v \in snap[n].victim :
                row[n][v.key] # NoRow => v.key \notin shown[n]]_vars
  BY <1>1 DEF IInv, NodeInv, Spared
<1> QED
  BY <1>1, Invariant, PTL DEF SnapshotSpec, ReconcilesWhatIsGone

\* A page takes no record back: what applySnapshotBatch stores beats what was there, also
\* where it was written while the page was under way.
THEOREM NewerWritesStay == SnapshotSpec => NewerWritesSurvive
<1>1. ASSUME SnapshotTypeOK, NEW n \in Node, TakePage(n), NEW r \in Rec
      PROVE  ~ Less(version'[n][r], version[n][r])
  <2> DEFINE wins == {i \in snap[n].page : Takes(n, i)}
             item == CHOOSE i \in wins : i.key = r
  <2>0. \A x \in Node \cup {0} : x \in Nat
    BY Nodes
  <2>1. version'[n][r] = IF r \in {i.key : i \in wins}
          THEN [hlc |-> item.hlc, src |-> item.src, deleted |-> FALSE, updated |-> now]
          ELSE version[n][r]
    BY <1>1 DEF TakePage, SnapshotTypeOK
  <2>2. Stamped(version[n][r])
    <3>1. version[n][r] \in Version
      BY <1>1, NodeTypes
    <3>2. version[n][r].hlc \in Nat /\ version[n][r].src \in Node \cup {0}
      BY <3>1 DEF Version
    <3> QED
      BY <3>2, <2>0 DEF Stamped
  <2>3. CASE r \in {i.key : i \in wins}
    <3>1. item \in snap[n].page /\ Takes(n, item) /\ item.key = r
      <4>1. \E i \in wins : i.key = r
        BY <2>3
      <4> QED
        BY <4>1
    <3> HIDE DEF item
    <3>2. Stamped(item)
      <4>1. item \in Item
        BY <1>1, <3>1, NodeTypes, SnapIs
      <4>2. item.hlc \in Nat /\ item.src \in Node \cup {0}
        BY <4>1 DEF Item
      <4> QED
        BY <4>2, <2>0 DEF Stamped
    <3>3. Less(version[n][r], item)
      BY <3>1 DEF Takes
    <3>4. ~ Less(item, version[n][r])
      BY <2>2, <3>2, <3>3, LessOrder
    <3>5. version'[n][r].hlc = item.hlc /\ version'[n][r].src = item.src
      BY <2>1, <2>3
    <3> QED
      BY <3>4, <3>5 DEF Less
  <2>4. CASE r \notin {i.key : i \in wins}
    BY <2>1, <2>2, <2>4, LessOrder
  <2> QED
    BY <2>3, <2>4
<1>2. ASSUME SnapshotTypeOK, [SnapshotNext]_vars
      PROVE  [\A n \in Node : TakePage(n) => \A r \in Rec : ~ Less(version'[n][r], version[n][r])]_vars
  BY <1>1, <1>2
<1> QED
  BY <1>2, SnapshotTypes, PTL DEF SnapshotSpec, NewerWritesSurvive
=============================================================================
