-------------------------- MODULE CompactionProofs --------------------------
(***************************************************************************)
(* Garbage collection is safe.  Three layers: Inv, that the clock of a     *)
(* node is never behind its fence; Rest and Finite, that what is chosen    *)
(* among the numbers of a log can be chosen; and RecordsInv, what the row, *)
(* the version, the log and the queue of a record have to do with one      *)
(* another while passes delete from all of them.                           *)
(***************************************************************************)
EXTENDS Compaction, LwwTheorems

-----------------------------------------------------------------------------
\* The types the first layer needs.  Those of the vectors and of a pull's cursor follow in
\* Rest: both are chosen among numbers of operations, which takes that logs are finite.
Typed ==
  /\ localSeq \in Vector
  /\ log \in [Node -> SUBSET LogRow]
  /\ version \in [Node -> [Rec -> Version]]
  /\ pass \in [Node -> PassState]
  /\ queue \in [Node -> SUBSET Op]
  /\ issued \in SUBSET Op /\ now \in Nat

PullTyped ==
  /\ DOMAIN pull = Node
  /\ \A n \in Node : /\ DOMAIN pull[n] = {"peer", "cursor", "answer"}
                     /\ pull[n].peer \in Node \cup {0}
                     /\ \A a \in pull[n].answer : a.ops \subseteq Op

ClockTyped == fence \in [Node -> Nat] /\ clock \in [Node -> Clock]

Inv == Typed /\ PullTyped /\ ClockTyped /\ ClockPassesFence

\* What a step does to the fences.
FenceGrows == \A n \in Node : fence[n] <= fence'[n]

\* A node's fence and clock move together, to a fence h at most.
LEMMA MovesOn ==
  ASSUME ClockTyped, ClockPassesFence, NEW n \in Node, NEW h \in Nat, NEW c \in Clock,
         fence' = [fence EXCEPT ![n] = h], clock' = [clock EXCEPT ![n] = c],
         fence[n] <= h, h <= Encode(c)
  PROVE  ClockTyped' /\ ClockPassesFence' /\ FenceGrows
<1>1. ClockTyped'
  BY DEF ClockTyped
<1>2. \A m \in Node : /\ fence'[m] = IF m = n THEN h ELSE fence[m]
                      /\ clock'[m] = IF m = n THEN c ELSE clock[m]
  BY DEF ClockTyped
<1>3. ClockPassesFence'
  <2> SUFFICES ASSUME NEW m \in Node
               PROVE  fence'[m] <= Encode(clock'[m])
    BY DEF ClockPassesFence, Encode
  <2>1. CASE m = n
    BY <1>2, <2>1
  <2>2. CASE m # n
    BY <1>2, <2>2 DEF ClockPassesFence
  <2> QED
    BY <2>1, <2>2
<1>4. FenceGrows
  BY <1>2 DEF FenceGrows, ClockTyped
<1> QED
  BY <1>1, <1>3, <1>4

\* A clock moves forward, and the fences stay.
LEMMA TicksOn ==
  ASSUME ClockTyped, ClockPassesFence, NEW n \in Node, NEW c \in Clock,
         UNCHANGED fence, clock' = [clock EXCEPT ![n] = c], fence[n] <= Encode(c)
  PROVE  ClockTyped' /\ ClockPassesFence' /\ FenceGrows
<1> DEFINE h == fence[n]
<1>1. h \in Nat /\ h <= h /\ fence' = [fence EXCEPT ![n] = h]
  BY DEF ClockTyped
<1>2. fence[n] <= h /\ h <= Encode(c)
  BY <1>1
<1> HIDE DEF h
<1> QED
  BY <1>1, <1>2, MovesOn

\* Neither moves.
LEMMA StandsStill ==
  ASSUME ClockTyped, ClockPassesFence, UNCHANGED <<fence, clock>>
  PROVE  ClockTyped' /\ ClockPassesFence' /\ FenceGrows
BY DEF ClockTyped, ClockPassesFence, FenceGrows, Encode

-----------------------------------------------------------------------------
\* An operation is issued after everything the node's clock has seen.
LEMMA IssueKeeps ==
  ASSUME Inv, NEW n \in Node, NEW r \in Rec, NEW type \in {"upsert", "delete"},
         NEW c \in Clock, Encode(clock[n]) <= Encode(c), Issue(n, r, type, c),
         UNCHANGED <<fence, now>>
  PROVE  /\ localSeq' \in Vector /\ log' \in [Node -> SUBSET LogRow]
         /\ version' \in [Node -> [Rec -> Version]] /\ issued' \in SUBSET Op
         /\ ClockTyped' /\ ClockPassesFence' /\ FenceGrows
<1> DEFINE t == Tick(c, now + Skew[n])
           o == [src |-> n, seq |-> localSeq[n] + 1, hlc |-> Encode(clock'[n]),
                 type |-> type, key |-> r]
<1>1. now + Skew[n] \in Nat
  BY CompactionAssumption DEF Inv, Typed
<1>2. t \in Clock /\ Encode(c) < Encode(t)
  BY <1>1, TickIncreases
<1>3. clock[n] \in Clock /\ fence[n] \in Nat /\ fence[n] <= Encode(clock[n])
  BY DEF Inv, ClockTyped, ClockPassesFence
<1>4. Encode(clock[n]) \in Nat /\ Encode(c) \in Nat /\ Encode(t) \in Nat
  BY <1>2, <1>3, EncodeType
<1>5. clock' = [clock EXCEPT ![n] = t] /\ clock'[n] = t
  BY DEF Issue, Inv, ClockTyped
<1>6. ClockTyped' /\ ClockPassesFence' /\ FenceGrows
  <2>1. fence[n] <= Encode(t)
    BY <1>2, <1>3, <1>4
  <2> QED
    BY <1>2, <1>5, <2>1, TicksOn DEF Inv
<1>7. localSeq[n] \in Nat /\ localSeq' \in Vector
  BY DEF Inv, Typed, Vector, Issue
<1>8. o \in Op
  BY <1>4, <1>5, <1>7 DEF Op
<1>9. log' \in [Node -> SUBSET LogRow] /\ issued' \in SUBSET Op
  <2>1. [op |-> o, created |-> now] \in LogRow
    BY <1>8 DEF LogRow, Inv, Typed
  <2>2. /\ log' = [log EXCEPT ![n] = @ \cup {[op |-> o, created |-> now]}]
        /\ issued' = issued \cup {o}
    BY DEF Issue
  <2> QED
    BY <1>8, <2>1, <2>2 DEF Inv, Typed
<1>10. version' \in [Node -> [Rec -> Version]]
  <2>1. Stamp(o) \in Version
    BY <1>8 DEF Stamp, Op, Version, Inv, Typed
  <2>2. version' = [version EXCEPT ![n][r] = Stamp(o)]
    BY DEF Issue
  <2> QED
    BY <2>1, <2>2 DEF Inv, Typed
<1> QED
  BY <1>6, <1>7, <1>9, <1>10

\* What is ingested is logged and queued.
LEMMA IngestKeeps ==
  ASSUME Inv, NEW n \in Node, NEW ops \in SUBSET Op, Ingest(n, ops)
  PROVE  log' \in [Node -> SUBSET LogRow] /\ queue' \in [Node -> SUBSET Op]
<1> DEFINE in == {o \in {x \in ops : x.src # n /\ x \notin Held(n)} : Admits(n, o)}
<1>1. /\ log' = [log EXCEPT ![n] = @ \cup {[op |-> o, created |-> now] : o \in in}]
      /\ queue' = [queue EXCEPT ![n] = @ \cup in]
  BY DEF Ingest
<1>2. in \in SUBSET Op
  OBVIOUS
<1>3. {[op |-> o, created |-> now] : o \in in} \in SUBSET LogRow
  BY <1>2 DEF LogRow, Inv, Typed
<1> HIDE DEF in
<1> QED
  BY <1>1, <1>2, <1>3 DEF Inv, Typed

-----------------------------------------------------------------------------
(***************************************************************************)
(* The actions                                                             *)
(***************************************************************************)
LEMMA LocalWriteKeeps ==
  ASSUME Inv, NEW n \in Node, LocalWrite(n)
  PROVE  Inv' /\ FenceGrows
<1>1. PICK w \in UserWrites[n] : Issue(n, w.key, w.type, clock[n])
  BY DEF LocalWrite
<1>2. w.key \in Rec /\ w.type \in {"upsert", "delete"}
  BY CompactionAssumption
<1>3. clock[n] \in Clock /\ Encode(clock[n]) <= Encode(clock[n])
  BY EncodeType DEF Inv, ClockTyped
<1>4. UNCHANGED <<fence, now, pass, queue, pull>>
  BY DEF LocalWrite
<1> QED
  BY <1>1, <1>2, <1>3, <1>4, IssueKeeps DEF Inv, Typed, PullTyped

\* The clock has observed what is applied.
LEMMA ApplyKeeps ==
  ASSUME Inv, NEW n \in Node, Apply(n)
  PROVE  Inv' /\ FenceGrows
<1>1. PICK o \in queue[n] :
        /\ clock' = [clock EXCEPT ![n] = Merge(@, ClockOf(o.hlc))]
        /\ queue' = [queue EXCEPT ![n] = @ \ {o}]
        /\ \/ version' = [version EXCEPT ![n][o.key] = Stamp(o)]
           \/ UNCHANGED version
  BY DEF Apply
<1>2. UNCHANGED <<localSeq, log, pass, issued, now, pull, fence>>
  BY DEF Apply
<1>3. o \in Op /\ o.hlc \in Nat /\ o.key \in Rec
  BY DEF Inv, Typed, Op
<1>4. clock[n] \in Clock /\ ClockOf(o.hlc) \in Clock /\ fence[n] \in Nat
  BY <1>3, ClockOfEncodes DEF Inv, ClockTyped
<1> DEFINE c == Merge(clock[n], ClockOf(o.hlc))
<1>5. c \in Clock /\ fence[n] <= Encode(c)
  <2>1. c \in Clock /\ Encode(clock[n]) <= Encode(c) /\ fence[n] <= Encode(clock[n])
    BY <1>4, MergeIsLarger DEF Inv, ClockPassesFence
  <2>2. Encode(clock[n]) \in Nat /\ Encode(c) \in Nat
    BY <1>4, <2>1, EncodeType
  <2> QED
    BY <1>4, <2>1, <2>2
<1>6. clock' = [clock EXCEPT ![n] = c]
  BY <1>1
<1>7. ClockTyped' /\ ClockPassesFence' /\ FenceGrows
  <2> HIDE DEF c
  <2> QED
    BY <1>2, <1>5, <1>6, TicksOn DEF Inv
<1>8. version' \in [Node -> [Rec -> Version]]
  <2>1. Stamp(o) \in Version
    BY <1>3 DEF Stamp, Op, Version, Inv, Typed
  <2>2. CASE UNCHANGED version
    BY <2>2 DEF Inv, Typed
  <2>3. CASE version' = [version EXCEPT ![n][o.key] = Stamp(o)]
    <3> DEFINE k == o.key
               v == Stamp(o)
    <3>1. k \in Rec /\ v \in Version /\ version' = [version EXCEPT ![n][k] = v]
      BY <1>3, <2>1, <2>3
    <3> HIDE DEF k, v
    <3> QED
      BY <3>1 DEF Inv, Typed
  <2> QED
    BY <1>1, <2>2, <2>3
<1>9. Typed' /\ PullTyped'
  BY <1>1, <1>2, <1>8 DEF Inv, Typed, PullTyped
<1> QED
  BY <1>7, <1>9 DEF Inv

\* A process resumes its clock from the fence at least.
LEMMA CrashKeeps ==
  ASSUME Inv, NEW n \in Node, Crash(n)
  PROVE  Inv' /\ FenceGrows
<1>1. PICK c : Resume(n, c) /\ clock' = [clock EXCEPT ![n] = c]
  BY DEF Crash
<1>2. PICK saved \in [physical : 0 .. clock[n].physical, logical : 0 .. LogicalSize - 1] :
        c = Merge(saved, ClockOf(fence[n]))
  BY <1>1 DEF Resume
<1>3. clock[n].physical \in Nat /\ fence[n] \in Nat
  BY EncodeType DEF Inv, ClockTyped
<1>4. saved \in Clock
  BY <1>3 DEF Clock
<1>5. c \in Clock /\ fence[n] <= Encode(c)
  BY <1>2, <1>3, <1>4, ClockOfEncodes, MergeIsLarger
<1>6. ClockTyped' /\ ClockPassesFence' /\ FenceGrows
  <2>1. UNCHANGED fence
    BY DEF Crash, database
  <2> QED
    BY <1>1, <1>5, <2>1, TicksOn DEF Inv
<1>7. Typed'
  <2>1. UNCHANGED <<localSeq, log, version, pass, issued, now>>
    BY DEF Crash, database
  <2>2. queue' = [queue EXCEPT ![n] = {}]
    BY DEF Crash
  <2> QED
    BY <2>1, <2>2 DEF Inv, Typed
<1>8. PullTyped'
  <2>1. pull' = [pull EXCEPT ![n] = NoPull]
    BY DEF Crash
  <2> QED
    BY <2>1 DEF Inv, PullTyped, NoPull
<1> QED
  BY <1>6, <1>7, <1>8 DEF Inv

\* A pull changes the log and the queue.
LEMMA PushKeeps ==
  ASSUME Inv, NEW n \in Node, Push(n)
  PROVE  Inv' /\ FenceGrows
<1>1. PICK o \in issued : Ingest(n, {o})
  BY DEF Push
<1>2. {o} \in SUBSET Op
  BY DEF Inv, Typed
<1>3. UNCHANGED <<localSeq, version, pass, issued, now, pull, fence, clock>>
  BY DEF Push
<1> QED
  BY <1>1, <1>2, <1>3, IngestKeeps, StandsStill DEF Inv, Typed, PullTyped

LEMMA StartPullKeeps ==
  ASSUME Inv, NEW n \in Node, StartPull(n)
  PROVE  Inv' /\ FenceGrows
<1>1. PICK p \in PullFrom[n] :
        pull' = [pull EXCEPT ![n] = [NoPull EXCEPT !.peer = p, !.cursor = CurrentVector(n)]]
  BY DEF StartPull
<1>2. UNCHANGED <<localSeq, log, version, pass, queue, issued, now, fence, clock>>
  BY DEF StartPull, database
<1>3. p \in Node
  BY CompactionAssumption
<1>4. PullTyped'
  BY <1>1, <1>3 DEF Inv, PullTyped, NoPull
<1> QED
  BY <1>2, <1>4, StandsStill DEF Inv, Typed

\* A peer answers with operations it has.
LEMMA AnswerKeeps ==
  ASSUME Inv, NEW n \in Node, Answer(n)
  PROVE  Inv' /\ FenceGrows
<1> DEFINE p == pull[n].peer
           after == [pull[n].cursor EXCEPT ![n] = Larger(@, CurrentVector(p)[n])]
<1>1. PICK a : a.ops = Page(p, after) /\ pull' = [pull EXCEPT ![n].answer = {a}]
  <2> DEFINE a == [ops |-> Page(p, after), vec |-> CurrentVector(p),
                   required |-> \E src \in Node : Reached(p, after, src)
                                                  /\ BehindHorizon(p, src, after)]
  <2>1. a.ops = Page(p, after) /\ pull' = [pull EXCEPT ![n].answer = {a}]
    BY DEF Answer
  <2> QED
    BY <2>1
<1>2. p \in Node
  BY DEF Answer, Inv, PullTyped
<1>3. a.ops \subseteq Op
  <2>1. Held(p) \subseteq Op
    BY <1>2 DEF Held, Inv, Typed, LogRow
  <2> QED
    BY <1>1, <2>1 DEF Page, Offered
<1>4. PullTyped'
  BY <1>1, <1>3 DEF Inv, PullTyped
<1>5. UNCHANGED <<localSeq, log, version, pass, queue, issued, now, fence, clock>>
  BY DEF Answer, database
<1> QED
  BY <1>4, <1>5, StandsStill DEF Inv, Typed

LEMMA TakePageKeeps ==
  ASSUME Inv, NEW n \in Node, TakePage(n)
  PROVE  Inv' /\ FenceGrows
<1>1. PICK a \in pull[n].answer :
        /\ \/ pull' = [pull EXCEPT ![n] = NoPull] /\ UNCHANGED <<log, queue>>
           \/ /\ Ingest(n, a.ops)
              /\ \E v : pull' = [pull EXCEPT ![n].answer = {}, ![n].cursor = v]
        /\ UNCHANGED <<localSeq, version, pass, issued, now, fence, clock>>
  BY DEF TakePage
<1>2. a.ops \in SUBSET Op
  BY DEF Inv, PullTyped
<1>3. PullTyped'
  <2>1. CASE pull' = [pull EXCEPT ![n] = NoPull]
    BY <2>1 DEF Inv, PullTyped, NoPull
  <2>2. ASSUME NEW v, pull' = [pull EXCEPT ![n].answer = {}, ![n].cursor = v]
        PROVE  PullTyped'
    BY <2>2 DEF Inv, PullTyped
  <2> QED
    BY <1>1, <2>1, <2>2
<1>4. log' \in [Node -> SUBSET LogRow] /\ queue' \in [Node -> SUBSET Op]
  BY <1>1, <1>2, IngestKeeps DEF Inv, Typed
<1> QED
  BY <1>1, <1>3, <1>4, StandsStill DEF Inv, Typed

LEMMA FailPullKeeps ==
  ASSUME Inv, NEW n \in Node, FailPull(n)
  PROVE  Inv' /\ FenceGrows
<1>1. pull' = [pull EXCEPT ![n] = NoPull]
  BY DEF FailPull
<1>2. UNCHANGED <<localSeq, log, version, pass, queue, issued, now, fence, clock>>
  BY DEF FailPull, database
<1>3. PullTyped'
  BY <1>1 DEF Inv, PullTyped, NoPull
<1> QED
  BY <1>2, <1>3, StandsStill DEF Inv, Typed

-----------------------------------------------------------------------------
(***************************************************************************)
(* A batch of a pass                                                       *)
(***************************************************************************)
\* The pass a batch works on, and the one it saves.
LEMMA PassIsTyped ==
  ASSUME Inv, NEW n \in Node
  PROVE  /\ Current(n) \in PassState
         /\ \A q \in PassState : Saved(q) \in PassState
<1>1. pass[n] \in PassState /\ log[n] \in SUBSET LogRow /\ now \in Nat
  BY DEF Inv, Typed
<1>2. [NoPass EXCEPT !.now = now] \in PassState /\ NoPass \in PassState
  BY <1>1 DEF NoPass, PassState
<1>3. Current(n) \in PassState
  <2> DEFINE p == IF pass[n] = NoPass THEN [NoPass EXCEPT !.now = now] ELSE pass[n]
  <2>1. p \in PassState
    BY <1>1, <1>2
  <2> DEFINE rs == {r \in Rec : version[n][r] # NoVersion}
  <2>2. /\ [p EXCEPT !.started = TRUE, !.rows = log[n]] \in PassState
        /\ [p EXCEPT !.started = TRUE, !.recs = rs] \in PassState
    <3>1. rs \in SUBSET Rec
      OBVIOUS
    <3> HIDE DEF p, rs
    <3> QED
      BY <1>1, <2>1, <3>1 DEF PassState
  <2>3. Current(n) \in {p, [p EXCEPT !.started = TRUE, !.rows = log[n]],
                        [p EXCEPT !.started = TRUE, !.recs = rs]}
    BY DEF Current
  <2> QED
    BY <2>1, <2>2, <2>3
<1>4. \A q \in PassState : Saved(q) \in PassState
  BY <1>2 DEF Saved, PassState
<1> QED
  BY <1>3, <1>4

\* Fence and clock pass what is dropped, together.
LEMMA FencePassesKeeps ==
  ASSUME Inv, NEW n \in Node, NEW hlc \in Nat, FencePasses(n, hlc)
  PROVE  ClockTyped' /\ ClockPassesFence' /\ FenceGrows
<1> DEFINE h == Larger(fence[n], hlc)
           c == Merge(clock[n], ClockOf(hlc))
<1>1. fence' = [fence EXCEPT ![n] = h] /\ clock' = [clock EXCEPT ![n] = c]
  BY DEF FencePasses
<1>2. /\ fence[n] \in Nat /\ clock[n] \in Clock /\ fence[n] <= Encode(clock[n])
      /\ ClockOf(hlc) \in Clock /\ Encode(ClockOf(hlc)) = hlc
  BY ClockOfEncodes DEF Inv, ClockTyped, ClockPassesFence
<1>3. c \in Clock /\ Encode(clock[n]) <= Encode(c) /\ hlc <= Encode(c)
  BY <1>2, MergeIsLarger
<1>4. Encode(clock[n]) \in Nat /\ Encode(c) \in Nat
  BY <1>2, <1>3, EncodeType
<1>5. h \in Nat /\ fence[n] <= h /\ h <= Encode(c)
  BY <1>2, <1>3, <1>4 DEF Larger
<1> HIDE DEF h, c
<1> QED
  BY <1>1, <1>3, <1>5, MovesOn DEF Inv

\* What one row of a batch does to all but the pass.
RowKeeps ==
  /\ localSeq' \in Vector /\ log' \in [Node -> SUBSET LogRow]
  /\ version' \in [Node -> [Rec -> Version]] /\ issued' \in SUBSET Op
  /\ ClockTyped' /\ ClockPassesFence' /\ FenceGrows

LEMMA UnchangedKeeps ==
  ASSUME Inv, Unchanged
  PROVE  RowKeeps
BY StandsStill DEF RowKeeps, Unchanged, Inv, Typed

\* A repair is issued after what it repairs.
LEMMA RepairIssues ==
  ASSUME Inv, NEW n \in Node, NEW r \in Rec, NEW x, x.hlc \in Nat, Repair(n, r, x)
  PROVE  \E c \in Clock : /\ Encode(clock[n]) <= Encode(c) /\ Issue(n, r, "delete", c)
                          /\ UNCHANGED <<fence, horizon>>
<1> DEFINE v == version[n][r]
           d == Merge(clock[n], ClockOf(x.hlc))
           c == Merge(d, ClockOf(v.hlc))
<1>1. v.hlc \in Nat /\ clock[n] \in Clock
  BY DEF Inv, Typed, Version, ClockTyped
<1>2. ClockOf(x.hlc) \in Clock /\ ClockOf(v.hlc) \in Clock
  BY <1>1, ClockOfEncodes
<1>3. d \in Clock /\ Encode(clock[n]) <= Encode(d)
  BY <1>1, <1>2, MergeIsLarger
<1>4. c \in Clock /\ Encode(d) <= Encode(c)
  BY <1>2, <1>3, MergeIsLarger
<1>5. Encode(clock[n]) <= Encode(c)
  <2>1. Encode(clock[n]) \in Nat /\ Encode(d) \in Nat /\ Encode(c) \in Nat
    BY <1>1, <1>3, <1>4, EncodeType
  <2> QED
    BY <1>3, <1>4, <2>1
<1>6. Issue(n, r, "delete", c) /\ UNCHANGED <<fence, horizon>>
  BY DEF Repair
<1> HIDE DEF c
<1> QED
  BY <1>4, <1>5, <1>6

LEMMA RepairKeeps ==
  ASSUME Inv, NEW n \in Node, NEW r \in Rec, NEW x, x.hlc \in Nat, Repair(n, r, x),
         UNCHANGED now
  PROVE  RowKeeps
<1>1. PICK c \in Clock : Encode(clock[n]) <= Encode(c) /\ Issue(n, r, "delete", c)
                        /\ UNCHANGED fence
  BY RepairIssues
<1> QED
  BY <1>1, IssueKeeps DEF RowKeeps

\* A row of the log is dropped, repaired or kept.
LEMMA LogRowKeeps ==
  ASSUME Inv, NEW n \in Node, NEW p \in PassState, NEW e \in LogRow, UNCHANGED now,
         DropLogRow(n, p, e) \/ RepairLogRow(n, p, e) \/ KeepLogRow(n, p, e)
  PROVE  RowKeeps
<1>1. e.op.hlc \in Nat /\ e.op.key \in Rec
  BY DEF LogRow, Op
<1>2. CASE DropLogRow(n, p, e)
  <2>1. /\ log' = [log EXCEPT ![n] = @ \ {e}]
        /\ UNCHANGED <<localSeq, version, issued>>
        /\ FencePasses(n, e.op.hlc) \/ UNCHANGED <<fence, clock>>
    BY <1>2 DEF DropLogRow
  <2>2. log' \in [Node -> SUBSET LogRow]
    BY <2>1 DEF Inv, Typed
  <2>3. ClockTyped' /\ ClockPassesFence' /\ FenceGrows
    BY <1>1, <2>1, FencePassesKeeps, StandsStill DEF Inv
  <2> QED
    BY <2>1, <2>2, <2>3 DEF RowKeeps, Inv, Typed
<1>3. CASE RepairLogRow(n, p, e)
  BY <1>1, <1>3, RepairKeeps DEF RepairLogRow
<1>4. CASE KeepLogRow(n, p, e)
  BY <1>4, UnchangedKeeps DEF KeepLogRow
<1> QED
  BY <1>2, <1>3, <1>4

\* A version is dropped, repaired or kept.
LEMMA VersionKeeps ==
  ASSUME Inv, NEW n \in Node, NEW p \in PassState, NEW r \in Rec, UNCHANGED now,
         DropVersion(n, p, r) \/ RepairVersion(n, p, r) \/ KeepVersion(n, p, r)
  PROVE  RowKeeps
<1>1. version[n][r].hlc \in Nat
  BY DEF Inv, Typed, Version
<1>2. CASE DropVersion(n, p, r)
  <2>1. /\ version' = [version EXCEPT ![n][r] = NoVersion]
        /\ UNCHANGED <<localSeq, log, issued>>
        /\ FencePasses(n, version[n][r].hlc)
    BY <1>2 DEF DropVersion
  <2>2. version' \in [Node -> [Rec -> Version]]
    <3>1. NoVersion \in Version
      BY DEF NoVersion, Version
    <3> QED
      BY <2>1, <3>1 DEF Inv, Typed
  <2>3. ClockTyped' /\ ClockPassesFence' /\ FenceGrows
    BY <1>1, <2>1, FencePassesKeeps
  <2> QED
    BY <2>1, <2>2, <2>3 DEF RowKeeps, Inv, Typed
<1>3. CASE RepairVersion(n, p, r)
  BY <1>1, <1>3, RepairKeeps DEF RepairVersion
<1>4. CASE KeepVersion(n, p, r)
  BY <1>4, UnchangedKeeps DEF KeepVersion
<1> QED
  BY <1>2, <1>3, <1>4

LEMMA CompactKeeps ==
  ASSUME Inv, NEW n \in Node, Compact(n)
  PROVE  Inv' /\ FenceGrows
<1> DEFINE p == Current(n)
<1>1. p \in PassState /\ p.rows \in SUBSET LogRow /\ p.recs \in SUBSET Rec
  BY PassIsTyped DEF PassState
<1>2. UNCHANGED <<now, queue, pull>>
  BY DEF Compact
<1>3. PICK q \in PassState : pass' = [pass EXCEPT ![n] = Saved(q)] /\ RowKeeps
  <2>1. CASE Unchanged /\ pass' = [pass EXCEPT ![n] = Saved(p)]
    BY <1>1, <2>1, UnchangedKeeps
  <2>2. ASSUME NEW e \in p.rows,
               pass' = [pass EXCEPT ![n] = Saved([p EXCEPT !.rows = @ \ {e}])],
               DropLogRow(n, p, e) \/ RepairLogRow(n, p, e) \/ KeepLogRow(n, p, e)
        PROVE  \E q \in PassState : pass' = [pass EXCEPT ![n] = Saved(q)] /\ RowKeeps
    <3> DEFINE q == [p EXCEPT !.rows = @ \ {e}]
    <3>1. q \in PassState
      BY <1>1 DEF PassState
    <3>2. RowKeeps
      BY <1>1, <1>2, <2>2, LogRowKeeps
    <3> QED
      BY <2>2, <3>1, <3>2
  <2>3. ASSUME NEW r \in p.recs,
               pass' = [pass EXCEPT ![n] = Saved([p EXCEPT !.recs = @ \ {r}])],
               DropVersion(n, p, r) \/ RepairVersion(n, p, r) \/ KeepVersion(n, p, r)
        PROVE  \E q \in PassState : pass' = [pass EXCEPT ![n] = Saved(q)] /\ RowKeeps
    <3> DEFINE q == [p EXCEPT !.recs = @ \ {r}]
    <3>1. q \in PassState
      BY <1>1 DEF PassState
    <3>2. RowKeeps
      BY <1>1, <1>2, <2>3, VersionKeeps
    <3> QED
      BY <2>3, <3>1, <3>2
  <2> QED
    BY <2>1, <2>2, <2>3 DEF Compact
<1>4. pass' \in [Node -> PassState]
  BY <1>3, PassIsTyped DEF Inv, Typed
<1>5. Typed' /\ PullTyped'
  BY <1>2, <1>3, <1>4 DEF RowKeeps, Inv, Typed, PullTyped
<1> QED
  BY <1>3, <1>5 DEF RowKeeps, Inv

-----------------------------------------------------------------------------
\* What collections and records do moves nothing of this.
LEMMA OthersKeep ==
  ASSUME Inv, NEW n \in Node,
         \/ \E r \in Rec : RemoveUncaptured(n, r)
         \/ DropCollection(n) \/ CreateCollection(n)
  PROVE  Inv' /\ FenceGrows
<1>1. UNCHANGED <<localSeq, log, version, pass, queue, issued, now, pull, fence, clock>>
  BY DEF RemoveUncaptured, DropCollection, CreateCollection, process
<1> QED
  BY <1>1, StandsStill DEF Inv, Typed, PullTyped

LEMMA TimeKeeps ==
  ASSUME Inv, Time
  PROVE  Inv' /\ FenceGrows
<1>1. /\ UNCHANGED <<localSeq, log, version, pass, queue, issued, pull, fence, clock>>
      /\ now' = now + 1
  BY DEF Time, database, process
<1> QED
  BY <1>1, StandsStill DEF Inv, Typed, PullTyped

LEMMA InvInit ==
  ASSUME CompactionInit
  PROVE  Inv
<1>1. Typed
  <2>1. NoVersion \in Version /\ NoPass \in PassState
    BY DEF NoVersion, Version, NoPass, PassState
  <2> QED
    BY <2>1 DEF CompactionInit, Typed, Vector
<1>2. PullTyped
  BY DEF CompactionInit, PullTyped, NoPull
<1>3. ClockTyped /\ ClockPassesFence
  <2>1. Zero \in Clock /\ 0 <= Encode(Zero)
    BY LogicalAssumption DEF Zero, Clock, Encode
  <2> QED
    BY <2>1 DEF CompactionInit, ClockTyped, ClockPassesFence
<1> QED
  BY <1>1, <1>2, <1>3 DEF Inv

LEMMA InvNext ==
  ASSUME Inv, [CompactionNext]_vars
  PROVE  Inv' /\ FenceGrows
<1>1. CASE Time
  BY <1>1, TimeKeeps
<1>2. ASSUME NEW n \in Node, NodeNext(n)
      PROVE  Inv' /\ FenceGrows
  BY <1>2, LocalWriteKeeps, OthersKeep, PushKeeps, ApplyKeeps, CompactKeeps, StartPullKeeps,
     AnswerKeeps, TakePageKeeps, FailPullKeeps, CrashKeeps DEF NodeNext
<1>3. CASE UNCHANGED vars
  BY <1>3, StandsStill DEF vars, database, process, Inv, Typed, PullTyped
<1> QED
  BY <1>1, <1>2, <1>3 DEF CompactionNext

\* What a node writes is never taken for a replay of what it has collected, through
\* crashes and whatever its wall clock and its peers' clocks show.
THEOREM ClocksPassFences == CompactionSpec => []ClockPassesFence
<1>1. Inv => ClockPassesFence
  BY DEF Inv
<1> QED
  BY <1>1, InvInit, InvNext, PTL DEF CompactionSpec

\* No step moves a fence back, so an operation that was refused once stays refused.
THEOREM FencesGrow == CompactionSpec => [][FenceGrows]_vars
<1>1. Inv /\ [CompactionNext]_vars => [FenceGrows]_vars
  BY InvNext
<1> QED
  BY <1>1, InvInit, InvNext, PTL DEF CompactionSpec

-----------------------------------------------------------------------------
(***************************************************************************)
(* The other types.  What vectors and cursors are chosen from is finite.   *)
(***************************************************************************)
Rest ==
  /\ row \in [Node -> [Rec -> Payload \cup {NoRow}]] /\ col \in [Node -> Nat]
  /\ vector \in [Node -> Vector] /\ horizon \in [Node -> Vector]
  /\ pull \in [Node -> PullState]
  /\ refused \in SUBSET Op /\ lost \in [Node -> SUBSET Op]
  /\ buried \in [Node -> [Rec -> Version]] /\ gone \in [Node -> SUBSET Rec]
  /\ setBack \in BOOLEAN /\ events \in Nat

Finite ==
  \A n \in Node : IsFiniteSet(Held(n)) /\ \A a \in pull[n].answer : IsFiniteSet(a.ops)

\* An operation as the tables show it.
LEMMA OpShown ==
  ASSUME NEW o \in Op, now \in Nat
  PROVE  /\ Stamp(o) \in Version /\ Stamp(o) # NoVersion
         /\ Written(o) \in Payload \cup {NoRow}
         /\ Written(o) # NoRow <=> o.type = "upsert"
         /\ \A b \in Version : Buried(b, o) \in Version
<1>1. o.src \in Node /\ o.src # 0 /\ o.seq \in Nat \ {0} /\ o.hlc \in Nat
      /\ o.type \in {"upsert", "delete"}
  BY CompactionAssumption DEF Op
<1>2. Stamp(o) \in Version /\ Stamp(o) # NoVersion
  <2>1. Stamp(o) \in Version
    BY <1>1 DEF Stamp, Version
  <2>2. Stamp(o).src = o.src /\ NoVersion.src = 0
    BY DEF Stamp, NoVersion
  <2> QED
    BY <1>1, <2>1, <2>2
<1>3. CASE o.type = "upsert"
  <2>1. Written(o) = [src |-> o.src, seq |-> o.seq]
    BY <1>3 DEF Written
  <2>2. Written(o).src # NoRow.src
    BY <1>1, <2>1 DEF NoRow
  <2>3. Written(o) \in Payload
    BY <1>1, <2>1 DEF Payload
  <2> QED
    BY <1>2, <1>3, <2>2, <2>3 DEF Buried
<1>4. CASE o.type = "delete"
  BY <1>2, <1>4 DEF Buried, Written
<1> QED
  BY <1>1, <1>3, <1>4

\* The log of one node changes.
LEMMA HeldAfter ==
  ASSUME Typed, NEW n \in Node, NEW L, log' = [log EXCEPT ![n] = L]
  PROVE  /\ Held(n)' = {e.op : e \in L}
         /\ \A m \in Node \ {n} : Held(m)' = Held(m)
<1>1. log'[n] = L /\ \A m \in Node \ {n} : log'[m] = log[m]
  BY DEF Typed
<1> QED
  BY <1>1 DEF Held

LEMMA HeldStays ==
  ASSUME UNCHANGED log
  PROVE  \A m \in Node : Held(m)' = Held(m)
BY DEF Held

\* What is issued is held, and what is ingested.
LEMMA IssueHolds ==
  ASSUME Inv, NEW n \in Node, NEW r \in Rec, NEW type \in {"upsert", "delete"}, NEW c,
         Issue(n, r, type, c), clock'[n] \in Clock
  PROVE  \E o \in Op :
           /\ o = [src |-> n, seq |-> localSeq[n] + 1, hlc |-> Encode(clock'[n]),
                   type |-> type, key |-> r]
           /\ log' = [log EXCEPT ![n] = @ \cup {[op |-> o, created |-> now]}]
           /\ issued' = issued \cup {o}
           /\ version' = [version EXCEPT ![n][r] = Stamp(o)]
           /\ row' = [row EXCEPT ![n][r] = Written(o)]
           /\ buried' = [buried EXCEPT ![n][r] = Buried(buried[n][r], o)]
           /\ gone' = [gone EXCEPT ![n] = gone[n] \ {r}]
           /\ Held(n)' = Held(n) \cup {o}
           /\ \A m \in Node \ {n} : Held(m)' = Held(m)
<1> DEFINE o == [src |-> n, seq |-> localSeq[n] + 1, hlc |-> Encode(clock'[n]),
                 type |-> type, key |-> r]
<1>1. o \in Op
  BY EncodeType DEF Inv, Typed, Vector, Op
<1>2. /\ log' = [log EXCEPT ![n] = @ \cup {[op |-> o, created |-> now]}]
      /\ issued' = issued \cup {o}
      /\ version' = [version EXCEPT ![n][r] = Stamp(o)]
      /\ row' = [row EXCEPT ![n][r] = Written(o)]
      /\ buried' = [buried EXCEPT ![n][r] = Buried(@, o)]
      /\ gone' = [gone EXCEPT ![n] = @ \ {r}]
  BY DEF Issue
<1> HIDE DEF o
<1>3. log' = [log EXCEPT ![n] = log[n] \cup {[op |-> o, created |-> now]}]
  BY <1>2
<1>4. {e.op : e \in log[n] \cup {[op |-> o, created |-> now]}} = Held(n) \cup {o}
  <2> DEFINE d == [op |-> o, created |-> now]
  <2>1. d.op = o
    OBVIOUS
  <2>2. {e.op : e \in log[n] \cup {d}} = Held(n) \cup {o}
    <3> HIDE DEF d
    <3> QED
      BY <2>1 DEF Held
  <2> QED
    BY <2>2
<1>5. Held(n)' = Held(n) \cup {o} /\ \A m \in Node \ {n} : Held(m)' = Held(m)
  BY <1>3, <1>4, HeldAfter DEF Inv
<1> USE DEF o
<1> QED
  BY <1>1, <1>2, <1>5

LEMMA IngestHolds ==
  ASSUME Inv, NEW n \in Node, NEW ops \in SUBSET Op, Ingest(n, ops)
  PROVE  \E in \in SUBSET ops :
           /\ in = {o \in {x \in ops : x.src # n /\ x \notin Held(n)} : Admits(n, o)}
           /\ queue' = [queue EXCEPT ![n] = queue[n] \cup in]
           /\ refused' = refused \cup
                ({o \in ops : o.src # n /\ o \notin Held(n)} \ in)
           /\ vector' = [vector EXCEPT ![n] = [src \in Node |->
                IF \E o \in ops : o.src = src /\ src # n
                THEN Contiguous(Held(n) \cup in, src, vector[n][src]) ELSE vector[n][src]]]
           /\ log[n] \subseteq log'[n]
           /\ Held(n)' = Held(n) \cup in
           /\ \A m \in Node \ {n} : Held(m)' = Held(m) /\ log'[m] = log[m]
<1> DEFINE new == {o \in ops : o.src # n /\ o \notin Held(n)}
           in  == {o \in new : Admits(n, o)}
           L   == {[op |-> o, created |-> now] : o \in in}
<1>1. /\ log' = [log EXCEPT ![n] = log[n] \cup L]
      /\ queue' = [queue EXCEPT ![n] = queue[n] \cup in]
      /\ refused' = refused \cup (new \ in)
      /\ vector' = [vector EXCEPT ![n] = [src \in Node |->
           IF \E o \in ops : o.src = src /\ src # n
           THEN Contiguous(Held(n) \cup in, src, vector[n][src]) ELSE vector[n][src]]]
  BY DEF Ingest
<1>2. {e.op : e \in log[n] \cup L} = Held(n) \cup in
  <2> HIDE DEF in
  <2>1. \A e \in L : e.op \in in
    OBVIOUS
  <2>2. ASSUME NEW o \in in PROVE \E e \in L : e.op = o
    <3>1. [op |-> o, created |-> now] \in L /\ [op |-> o, created |-> now].op = o
      OBVIOUS
    <3> QED
      BY <3>1
  <2> HIDE DEF L
  <2> QED
    BY <2>1, <2>2 DEF Held
<1>3. log'[n] = log[n] \cup L /\ \A m \in Node \ {n} : log'[m] = log[m]
  <2> HIDE DEF L
  <2> QED
    BY <1>1 DEF Inv, Typed
<1>4. Held(n)' = Held(n) \cup in /\ \A m \in Node \ {n} : Held(m)' = Held(m)
  BY <1>2, <1>3 DEF Held
<1> HIDE DEF L
<1> QED
  BY <1>1, <1>3, <1>4

\* What is left finite when the log of one node is, and pulls stay.
LEMMA FiniteStays ==
  ASSUME Finite, \A m \in Node : Held(m)' \subseteq Held(m), UNCHANGED pull
  PROVE  Finite'
<1> SUFFICES ASSUME NEW m \in Node
             PROVE  IsFiniteSet(Held(m)') /\ \A a \in pull[m].answer : IsFiniteSet(a.ops)
  BY DEF Finite
<1>1. Held(m)' \in SUBSET Held(m) /\ IsFiniteSet(Held(m))
  BY DEF Finite
<1> QED
  BY <1>1, FS_Subset DEF Finite

LEMMA FiniteGrows ==
  ASSUME Finite, NEW n \in Node, NEW in, IsFiniteSet(in), Held(n)' = Held(n) \cup in,
         \A m \in Node \ {n} : Held(m)' = Held(m)
  PROVE  \A m \in Node : IsFiniteSet(Held(m)')
<1> SUFFICES ASSUME NEW m \in Node
             PROVE  IsFiniteSet(Held(m)')
  OBVIOUS
<1>1. IsFiniteSet(Held(m))
  BY DEF Finite
<1>2. CASE m = n
  BY <1>1, <1>2, FS_Union
<1>3. CASE m # n
  BY <1>1, <1>3
<1> QED
  BY <1>2, <1>3

\* What an operation does to the record.
LEMMA IssueRest ==
  ASSUME Inv, Rest, Finite, NEW n \in Node, NEW r \in Rec, NEW type \in {"upsert", "delete"},
         NEW c, Issue(n, r, type, c), clock'[n] \in Clock, UNCHANGED pull
  PROVE  /\ row' \in [Node -> [Rec -> Payload \cup {NoRow}]]
         /\ buried' \in [Node -> [Rec -> Version]] /\ gone' \in [Node -> SUBSET Rec]
         /\ Finite'
<1>1. PICK o \in Op :
           /\ row' = [row EXCEPT ![n][r] = Written(o)]
           /\ buried' = [buried EXCEPT ![n][r] = Buried(buried[n][r], o)]
           /\ gone' = [gone EXCEPT ![n] = gone[n] \ {r}]
           /\ Held(n)' = Held(n) \cup {o}
           /\ \A m \in Node \ {n} : Held(m)' = Held(m)
  BY IssueHolds
<1> DEFINE w == Written(o)
           b == Buried(buried[n][r], o)
<1>2. w \in Payload \cup {NoRow} /\ b \in Version
  BY OpShown DEF Rest, Inv, Typed
<1>3. row' = [row EXCEPT ![n][r] = w] /\ buried' = [buried EXCEPT ![n][r] = b]
  BY <1>1
<1>4. IsFiniteSet({o})
  BY FS_Singleton
<1>5. Finite'
  <2>1. \A m \in Node : IsFiniteSet(Held(m)')
    BY <1>1, <1>4, FiniteGrows
  <2> QED
    BY <2>1 DEF Finite
<1> HIDE DEF w, b
<1> QED
  BY <1>1, <1>2, <1>3, <1>5 DEF Rest

\* A vector follows its log.
LEMMA IngestRest ==
  ASSUME Inv, Rest, Finite, NEW n \in Node, NEW ops \in SUBSET Op, IsFiniteSet(ops),
         Ingest(n, ops)
  PROVE  /\ vector' \in [Node -> Vector] /\ refused' \in SUBSET Op
         /\ \A m \in Node : IsFiniteSet(Held(m)')
<1>1. PICK in \in SUBSET ops :
           /\ refused' = refused \cup
                ({o \in ops : o.src # n /\ o \notin Held(n)} \ in)
           /\ vector' = [vector EXCEPT ![n] = [src \in Node |->
                IF \E o \in ops : o.src = src /\ src # n
                THEN Contiguous(Held(n) \cup in, src, vector[n][src]) ELSE vector[n][src]]]
           /\ Held(n)' = Held(n) \cup in
           /\ \A m \in Node \ {n} : Held(m)' = Held(m)
  BY IngestHolds
<1>2. IsFiniteSet(in)
  BY FS_Subset
<1>3. \A m \in Node : IsFiniteSet(Held(m)')
  BY <1>1, <1>2, FiniteGrows
<1> DEFINE V == [src \in Node |->
                IF \E o \in ops : o.src = src /\ src # n
                THEN Contiguous(Held(n) \cup in, src, vector[n][src]) ELSE vector[n][src]]
<1>4. IsFiniteSet(Held(n) \cup in)
  BY <1>1, <1>3
<1>5. ASSUME NEW src \in Node
      PROVE  vector[n][src] \in Nat /\ Contiguous(Held(n) \cup in, src, vector[n][src]) \in Nat
  <2>1. vector[n][src] \in Nat
    BY DEF Rest, Vector
  <2> QED
    BY <1>4, <2>1, ContiguousIs
<1>6. V \in Vector
  BY <1>5 DEF Vector
<1>7. vector' = [vector EXCEPT ![n] = V]
  BY <1>1
<1> HIDE DEF V
<1>8. vector' \in [Node -> Vector]
  BY <1>6, <1>7 DEF Rest
<1> QED
  BY <1>1, <1>3, <1>8 DEF Rest

-----------------------------------------------------------------------------
LEMMA LocalWriteRest ==
  ASSUME Inv, Rest, Finite, Inv', NEW n \in Node, LocalWrite(n)
  PROVE  Rest' /\ Finite'
<1>1. PICK w \in UserWrites[n] : Issue(n, w.key, w.type, clock[n])
  BY DEF LocalWrite
<1>2. w.key \in Rec /\ w.type \in {"upsert", "delete"} /\ clock'[n] \in Clock
  BY CompactionAssumption DEF Inv, ClockTyped
<1>3. UNCHANGED <<col, vector, horizon, pull, refused, lost, setBack, events>>
  BY DEF LocalWrite
<1>4. /\ row' \in [Node -> [Rec -> Payload \cup {NoRow}]]
      /\ buried' \in [Node -> [Rec -> Version]] /\ gone' \in [Node -> SUBSET Rec]
      /\ Finite'
  BY <1>1, <1>2, <1>3, IssueRest
<1> QED
  BY <1>3, <1>4 DEF Rest

LEMMA OthersRest ==
  ASSUME Inv, Rest, Finite, NEW n \in Node,
         \/ \E r \in Rec : RemoveUncaptured(n, r)
         \/ DropCollection(n) \/ CreateCollection(n)
  PROVE  Rest' /\ Finite'
<1>1. UNCHANGED <<vector, horizon, pull, refused, lost, buried, setBack>> /\ UNCHANGED log
  BY DEF RemoveUncaptured, DropCollection, CreateCollection, process, ghosts
<1>2. Finite'
  BY <1>1, HeldStays, FiniteStays
<1>3. /\ row' \in [Node -> [Rec -> Payload \cup {NoRow}]] /\ gone' \in [Node -> SUBSET Rec]
      /\ col' \in [Node -> Nat] /\ events' \in Nat
  <2>1. ASSUME NEW r \in Rec, RemoveUncaptured(n, r)
        PROVE  <1>3!:
    BY <2>1 DEF RemoveUncaptured, Rest
  <2>2. CASE DropCollection(n)
    BY <2>2 DEF DropCollection, ghosts, Rest
  <2>3. CASE CreateCollection(n)
    <3>1. now + 1 \in Nat
      BY DEF Inv, Typed
    <3> QED
      BY <2>3, <3>1 DEF CreateCollection, ghosts, Rest
  <2> QED
    BY <2>1, <2>2, <2>3
<1> QED
  BY <1>1, <1>2, <1>3 DEF Rest

LEMMA PushRest ==
  ASSUME Inv, Rest, Finite, NEW n \in Node, Push(n)
  PROVE  Rest' /\ Finite'
<1>1. PICK o \in issued : Ingest(n, {o})
  BY DEF Push
<1>2. {o} \in SUBSET Op /\ IsFiniteSet({o})
  BY FS_Singleton DEF Inv, Typed
<1>3. UNCHANGED <<row, col, horizon, pull, lost, buried, gone, setBack, events>>
  BY DEF Push
<1>4. /\ vector' \in [Node -> Vector] /\ refused' \in SUBSET Op
      /\ \A m \in Node : IsFiniteSet(Held(m)')
  BY <1>1, <1>2, IngestRest
<1> QED
  BY <1>3, <1>4 DEF Rest, Finite

LEMMA ApplyRest ==
  ASSUME Inv, Rest, Finite, NEW n \in Node, Apply(n)
  PROVE  Rest' /\ Finite'
<1>1. PICK o \in queue[n] :
        /\ \/ /\ row' = [row EXCEPT ![n][o.key] = Written(o)]
              /\ buried' = [buried EXCEPT ![n][o.key] = Buried(@, o)]
              /\ gone' = [gone EXCEPT ![n] = @ \ {o.key}]
           \/ UNCHANGED <<row, buried, gone>>
        /\ refused' = refused \cup IF Rejects(n, o) THEN {o} ELSE {}
  BY DEF Apply
<1>2. UNCHANGED <<col, vector, horizon, pull, lost, setBack, events>> /\ UNCHANGED log
  BY DEF Apply
<1> DEFINE k == o.key
           w == Written(o)
           b == Buried(buried[n][k], o)
<1>3. o \in Op /\ k \in Rec
  BY DEF Inv, Typed, Op
<1>4. w \in Payload \cup {NoRow} /\ b \in Version
  BY <1>3, OpShown DEF Inv, Typed, Rest
<1>5. refused' \in SUBSET Op
  BY <1>1, <1>3 DEF Rest
<1>6. \/ /\ row' = [row EXCEPT ![n][k] = w] /\ buried' = [buried EXCEPT ![n][k] = b]
         /\ gone' = [gone EXCEPT ![n] = gone[n] \ {k}]
      \/ UNCHANGED <<row, buried, gone>>
  BY <1>1
<1> HIDE DEF k, w, b
<1>7. /\ row' \in [Node -> [Rec -> Payload \cup {NoRow}]]
      /\ buried' \in [Node -> [Rec -> Version]] /\ gone' \in [Node -> SUBSET Rec]
  <2>1. CASE /\ row' = [row EXCEPT ![n][k] = w] /\ buried' = [buried EXCEPT ![n][k] = b]
             /\ gone' = [gone EXCEPT ![n] = gone[n] \ {k}]
    BY <1>3, <1>4, <2>1 DEF Rest
  <2>2. CASE UNCHANGED <<row, buried, gone>>
    BY <2>2 DEF Rest
  <2> QED
    BY <1>6, <2>1, <2>2
<1>8. Finite'
  BY <1>2, HeldStays, FiniteStays
<1> QED
  BY <1>2, <1>5, <1>7, <1>8 DEF Rest

\* One row of a batch.
RowRest ==
  /\ row' \in [Node -> [Rec -> Payload \cup {NoRow}]]
  /\ buried' \in [Node -> [Rec -> Version]] /\ gone' \in [Node -> SUBSET Rec]
  /\ horizon' \in [Node -> Vector] /\ Finite'

LEMMA LogRowRest ==
  ASSUME Inv, Rest, Finite, NEW n \in Node, NEW p \in PassState, NEW e \in LogRow,
         ClockTyped', UNCHANGED pull,
         DropLogRow(n, p, e) \/ RepairLogRow(n, p, e) \/ KeepLogRow(n, p, e)
  PROVE  RowRest
<1>1. e.op.src \in Node /\ e.op.seq \in Nat /\ e.op.key \in Rec
  BY DEF LogRow, Op
<1>2. CASE DropLogRow(n, p, e)
  <2>1. /\ log' = [log EXCEPT ![n] = log[n] \ {e}]
        /\ HorizonPasses(n, e.op) \/ UNCHANGED horizon
        /\ UNCHANGED <<row, buried, gone>>
    BY <1>2 DEF DropLogRow
  <2>2. horizon' \in [Node -> Vector]
    <3> DEFINE s == e.op.src
               h == Larger(horizon[n][s], e.op.seq)
    <3>1. h \in Nat /\ s \in Node
      BY <1>1 DEF Larger, Rest, Vector
    <3>2. horizon' = [horizon EXCEPT ![n][s] = h] \/ UNCHANGED horizon
      BY <2>1 DEF HorizonPasses
    <3> HIDE DEF s, h
    <3>3. CASE horizon' = [horizon EXCEPT ![n][s] = h]
      BY <3>1, <3>3 DEF Rest, Vector
    <3>4. CASE UNCHANGED horizon
      BY <3>4 DEF Rest
    <3> QED
      BY <3>2, <3>3, <3>4
  <2>3. \A m \in Node : Held(m)' \subseteq Held(m)
    <3> SUFFICES ASSUME NEW m \in Node, NEW x \in log'[m] PROVE x.op \in Held(m)
      BY DEF Held
    <3>1. x \in log[m]
      BY <2>1 DEF Inv, Typed
    <3> QED
      BY <3>1 DEF Held
  <2> QED
    BY <2>1, <2>2, <2>3, FiniteStays DEF RowRest, Rest
<1>3. CASE RepairLogRow(n, p, e)
  <2>1. PICK c : Issue(n, e.op.key, "delete", c) /\ UNCHANGED horizon
    BY <1>3 DEF RepairLogRow, Repair
  <2>2. clock'[n] \in Clock
    BY DEF ClockTyped
  <2> QED
    BY <1>1, <2>1, <2>2, IssueRest DEF RowRest, Rest
<1>4. CASE KeepLogRow(n, p, e)
  BY <1>4, HeldStays, FiniteStays DEF KeepLogRow, Unchanged, RowRest, Rest
<1> QED
  BY <1>2, <1>3, <1>4

LEMMA VersionRest ==
  ASSUME Inv, Rest, Finite, NEW n \in Node, NEW p \in PassState, NEW r \in Rec,
         ClockTyped', UNCHANGED pull,
         DropVersion(n, p, r) \/ RepairVersion(n, p, r) \/ KeepVersion(n, p, r)
  PROVE  RowRest
<1>1. CASE DropVersion(n, p, r) \/ KeepVersion(n, p, r)
  BY <1>1, HeldStays, FiniteStays DEF DropVersion, KeepVersion, Unchanged, RowRest, Rest
<1>2. CASE RepairVersion(n, p, r)
  <2>1. PICK c : Issue(n, r, "delete", c) /\ UNCHANGED horizon
    BY <1>2 DEF RepairVersion, Repair
  <2>2. clock'[n] \in Clock
    BY DEF ClockTyped
  <2> QED
    BY <2>1, <2>2, IssueRest DEF RowRest, Rest
<1> QED
  BY <1>1, <1>2

LEMMA CompactRest ==
  ASSUME Inv, Rest, Finite, Inv', NEW n \in Node, Compact(n)
  PROVE  Rest' /\ Finite'
<1> DEFINE p == Current(n)
<1>1. p \in PassState /\ p.rows \in SUBSET LogRow /\ p.recs \in SUBSET Rec
  BY PassIsTyped DEF PassState
<1>2. UNCHANGED <<col, vector, pull, refused, lost, setBack, events>> /\ ClockTyped'
  BY DEF Compact, Inv
<1>3. RowRest
  <2>1. CASE Unchanged
    BY <1>2, <2>1, HeldStays, FiniteStays DEF Unchanged, RowRest, Rest
  <2>2. ASSUME NEW e \in p.rows,
               DropLogRow(n, p, e) \/ RepairLogRow(n, p, e) \/ KeepLogRow(n, p, e)
        PROVE  RowRest
    BY <1>1, <1>2, <2>2, LogRowRest
  <2>3. ASSUME NEW r \in p.recs,
               DropVersion(n, p, r) \/ RepairVersion(n, p, r) \/ KeepVersion(n, p, r)
        PROVE  RowRest
    BY <1>1, <1>2, <2>3, VersionRest
  <2> QED
    BY <2>1, <2>2, <2>3 DEF Compact
<1> QED
  BY <1>2, <1>3 DEF RowRest, Rest

\* The vector of a node as it sends it.
LEMMA CurrentVectorType ==
  ASSUME Inv, Rest, NEW n \in Node
  PROVE  CurrentVector(n) \in Vector
BY DEF CurrentVector, Larger, Vector, Inv, Typed, Rest

LEMMA NoPullType == NoPull \in PullState
BY DEF NoPull, PullState, Vector

LEMMA StartPullRest ==
  ASSUME Inv, Rest, Finite, NEW n \in Node, StartPull(n)
  PROVE  Rest' /\ Finite'
<1>1. PICK p \in PullFrom[n] :
        pull' = [pull EXCEPT ![n] = [NoPull EXCEPT !.peer = p, !.cursor = CurrentVector(n)]]
  BY DEF StartPull
<1> DEFINE q == [NoPull EXCEPT !.peer = p, !.cursor = CurrentVector(n)]
<1>2. UNCHANGED <<row, col, vector, horizon, refused, lost, buried, gone, setBack>>
      /\ UNCHANGED log /\ events' \in Nat
  BY DEF StartPull, database, ghosts, Rest
<1>3. q \in PullState /\ q.answer = {}
  <2>1. p \in Node /\ CurrentVector(n) \in Vector
    BY CompactionAssumption, CurrentVectorType
  <2> QED
    BY <2>1, NoPullType DEF PullState, NoPull
<1>4. pull' = [pull EXCEPT ![n] = q]
  BY <1>1
<1> HIDE DEF q
<1>5. pull' \in [Node -> PullState] /\ \A m \in Node : pull'[m].answer \subseteq pull[m].answer
  BY <1>3, <1>4 DEF Rest
<1> QED
  BY <1>2, <1>5, HeldStays DEF Rest, Finite

\* A page is a part of the peer's log.
LEMMA AnswerRest ==
  ASSUME Inv, Rest, Finite, NEW n \in Node, Answer(n)
  PROVE  Rest' /\ Finite'
<1> DEFINE p == pull[n].peer
           after == [pull[n].cursor EXCEPT ![n] = Larger(@, CurrentVector(p)[n])]
           a == [ops |-> Page(p, after), vec |-> CurrentVector(p),
                 required |-> \E src \in Node : Reached(p, after, src)
                                                /\ BehindHorizon(p, src, after)]
<1>1. pull' = [pull EXCEPT ![n].answer = {a}]
  BY DEF Answer
<1>2. UNCHANGED <<row, col, vector, horizon, refused, lost, buried, gone, setBack, events>>
      /\ UNCHANGED log
  BY DEF Answer, database, ghosts
<1>3. p \in Node
  BY DEF Answer, Inv, PullTyped
<1>4. /\ a.ops \in SUBSET Op /\ IsFiniteSet(a.ops) /\ a.vec \in Vector
      /\ a.required \in BOOLEAN
      /\ a \in [ops : SUBSET Op, vec : Vector, required : BOOLEAN]
  <2>1. Page(p, after) \in SUBSET Held(p) /\ Held(p) \subseteq Op
    BY <1>3 DEF Page, Offered, Held, Inv, Typed, LogRow
  <2>2. IsFiniteSet(Page(p, after))
    BY <1>3, <2>1, FS_Subset DEF Finite
  <2>3. CurrentVector(p) \in Vector
    BY <1>3, CurrentVectorType
  <2>4. /\ a.ops = Page(p, after) /\ a.vec = CurrentVector(p) /\ a.required \in BOOLEAN
        /\ a = [ops |-> a.ops, vec |-> a.vec, required |-> a.required]
    OBVIOUS
  <2> HIDE DEF a, after, p
  <2>5. a.ops \in SUBSET Op /\ IsFiniteSet(a.ops) /\ a.vec \in Vector
    BY <2>1, <2>2, <2>3, <2>4
  <2>6. a \in [ops : SUBSET Op, vec : Vector, required : BOOLEAN]
    BY <2>4, <2>5
  <2> QED
    BY <2>4, <2>5, <2>6
<1> HIDE DEF a
<1>5. pull' \in [Node -> PullState]
  <2>1. [pull[n] EXCEPT !.answer = {a}] \in PullState
    <3>1. pull[n] \in PullState
      BY DEF Rest
    <3>2. {a} \in SUBSET [ops : SUBSET Op, vec : Vector, required : BOOLEAN]
      BY <1>4
    <3> HIDE DEF after, p
    <3> QED
      BY <3>1, <3>2 DEF PullState
  <2>2. pull' = [pull EXCEPT ![n] = [pull[n] EXCEPT !.answer = {a}]]
    BY <1>1
  <2> QED
    BY <2>1, <2>2 DEF Rest
<1>6. \A m \in Node : pull'[m].answer \subseteq pull[m].answer \cup {a}
  BY <1>1 DEF Rest, PullState
<1>7. Finite'
  BY <1>2, <1>4, <1>6, HeldStays DEF Finite
<1> QED
  BY <1>2, <1>5, <1>7 DEF Rest

\* The cursor moves to the largest number of the page.
LEMMA CursorMoves ==
  ASSUME NEW ops \in SUBSET Op, IsFiniteSet(ops), NEW src \in Node, NEW cur \in Nat
  PROVE  LET seqs == {o.seq : o \in {x \in ops : x.src = src}} \cup {cur}
         IN  (CHOOSE s \in seqs : \A t \in seqs : t <= s) \in Nat
<1> DEFINE X == {x \in ops : x.src = src}
           seqs == {o.seq : o \in X} \cup {cur}
<1>1. IsFiniteSet(X)
  BY FS_Subset
<1>2. IsFiniteSet({o.seq : o \in X}) /\ IsFiniteSet({cur})
  BY <1>1, FiniteNumbers, FS_Singleton
<1>3. IsFiniteSet(seqs)
  BY <1>2, FS_Union
<1>4. seqs \in SUBSET Nat /\ seqs # {}
  BY DEF Op
<1> HIDE DEF seqs
<1>5. \E s \in seqs : \A t \in seqs : t <= s
  BY <1>3, <1>4, FiniteMaximum
<1>6. (CHOOSE s \in seqs : \A t \in seqs : t <= s) \in Nat
  BY <1>4, <1>5
<1> QED
  BY <1>6 DEF seqs

LEMMA TakePageRest ==
  ASSUME Inv, Rest, Finite, NEW n \in Node, TakePage(n)
  PROVE  Rest' /\ Finite'
<1>1. PICK a \in pull[n].answer :
        \/ /\ pull' = [pull EXCEPT ![n] = NoPull] /\ UNCHANGED <<log, refused, vector>>
        \/ /\ pull' = [pull EXCEPT ![n] = NoPull] /\ UNCHANGED <<log, refused>>
           /\ vector' = [vector EXCEPT ![n] = Adopted(@, a.vec, n)]
        \/ /\ Ingest(n, a.ops)
           /\ pull' = [pull EXCEPT ![n].answer = {}, ![n].cursor = [src \in Node |->
                LET seqs == {o.seq : o \in {x \in a.ops : x.src = src}} \cup {@[src]}
                IN  CHOOSE s \in seqs : \A t \in seqs : t <= s]]
  BY DEF TakePage
<1>2. UNCHANGED <<row, col, horizon, lost, buried, gone, setBack, events>>
  BY DEF TakePage
<1>3. pull[n] \in PullState
  BY DEF Rest
<1>4. a.ops \in SUBSET Op /\ IsFiniteSet(a.ops) /\ a.vec \in Vector
  <2>1. a \in [ops : SUBSET Op, vec : Vector, required : BOOLEAN]
    BY <1>3 DEF PullState
  <2> QED
    BY <2>1 DEF Finite
<1>5. ASSUME pull' = [pull EXCEPT ![n] = NoPull], UNCHANGED <<log, refused>>,
             vector' \in [Node -> Vector]
      PROVE  Rest' /\ Finite'
  <2>1. pull' \in [Node -> PullState] /\ \A m \in Node : pull'[m].answer \subseteq pull[m].answer
    BY <1>5, NoPullType DEF Rest, NoPull
  <2>2. Finite'
    BY <1>5, <2>1, HeldStays DEF Finite
  <2> QED
    BY <1>2, <1>5, <2>1, <2>2 DEF Rest
<1>6. CASE /\ pull' = [pull EXCEPT ![n] = NoPull] /\ UNCHANGED <<log, refused, vector>>
  BY <1>5, <1>6 DEF Rest
<1>7. CASE /\ pull' = [pull EXCEPT ![n] = NoPull] /\ UNCHANGED <<log, refused>>
           /\ vector' = [vector EXCEPT ![n] = Adopted(@, a.vec, n)]
  <2> DEFINE v == Adopted(vector[n], a.vec, n)
  <2>1. v \in Vector
    BY <1>4 DEF Adopted, Larger, Rest, Vector
  <2>2. vector' = [vector EXCEPT ![n] = v]
    BY <1>7
  <2> HIDE DEF v
  <2>3. vector' \in [Node -> Vector]
    BY <2>1, <2>2 DEF Rest
  <2> QED
    BY <1>5, <1>7, <2>3
<1>8. CASE /\ Ingest(n, a.ops)
           /\ pull' = [pull EXCEPT ![n].answer = {}, ![n].cursor = [src \in Node |->
                LET seqs == {o.seq : o \in {x \in a.ops : x.src = src}} \cup {@[src]}
                IN  CHOOSE s \in seqs : \A t \in seqs : t <= s]]
  <2>1. /\ vector' \in [Node -> Vector] /\ refused' \in SUBSET Op
        /\ \A m \in Node : IsFiniteSet(Held(m)')
    BY <1>4, <1>8, IngestRest
  <2> DEFINE C(src) == LET cur == pull[n].cursor[src]
                           seqs == {o.seq : o \in {x \in a.ops : x.src = src}} \cup {cur}
                       IN  CHOOSE s \in seqs : \A t \in seqs : t <= s
             V == [src \in Node |-> C(src)]
             q == [pull[n] EXCEPT !.answer = {}, !.cursor = V]
  <2>2. V \in Vector
    <3>1. ASSUME NEW src \in Node PROVE C(src) \in Nat
      <4>1. pull[n].cursor[src] \in Nat
        BY <1>3 DEF PullState, Vector
      <4> QED
        BY <1>4, <4>1, CursorMoves
    <3> HIDE DEF C
    <3> QED
      BY <3>1 DEF Vector
  <2>3. pull' = [pull EXCEPT ![n] = q]
    BY <1>3, <1>8 DEF PullState
  <2> HIDE DEF V, C
  <2>4. q \in PullState /\ q.answer = {}
    BY <1>3, <2>2 DEF PullState
  <2> HIDE DEF q
  <2>5. pull' \in [Node -> PullState] /\ \A m \in Node : pull'[m].answer \subseteq pull[m].answer
    BY <2>3, <2>4 DEF Rest
  <2>6. Finite'
    BY <2>1, <2>5 DEF Finite
  <2> QED
    BY <1>2, <2>1, <2>5, <2>6 DEF Rest
<1> QED
  BY <1>1, <1>6, <1>7, <1>8

\* Pulls end, with the process too.
LEMMA PullEnds ==
  ASSUME Rest, Finite, NEW n \in Node, pull' = [pull EXCEPT ![n] = NoPull], UNCHANGED log
  PROVE  pull' \in [Node -> PullState] /\ Finite'
<1>1. pull' \in [Node -> PullState] /\ \A m \in Node : pull'[m].answer \subseteq pull[m].answer
  BY NoPullType DEF Rest, NoPull
<1> QED
  BY <1>1, HeldStays DEF Finite

LEMMA FailPullRest ==
  ASSUME Inv, Rest, Finite, NEW n \in Node, FailPull(n)
  PROVE  Rest' /\ Finite'
<1>1. /\ pull' = [pull EXCEPT ![n] = NoPull] /\ UNCHANGED log
      /\ UNCHANGED <<row, col, vector, horizon, refused, lost, buried, gone, setBack, events>>
  BY DEF FailPull, database, ghosts
<1> QED
  BY <1>1, PullEnds DEF Rest

LEMMA CrashRest ==
  ASSUME Inv, Rest, Finite, NEW n \in Node, Crash(n)
  PROVE  Rest' /\ Finite'
<1>1. /\ pull' = [pull EXCEPT ![n] = NoPull] /\ UNCHANGED log
      /\ UNCHANGED <<row, col, vector, horizon, refused, buried, gone>>
      /\ lost' = [lost EXCEPT ![n] = lost[n] \cup queue[n]]
      /\ events' = events + 1
  BY DEF Crash, database
<1>2. setBack' \in BOOLEAN
  BY DEF Crash
<1>3. lost' \in [Node -> SUBSET Op]
  <2>1. lost[n] \cup queue[n] \in SUBSET Op
    BY DEF Inv, Typed, Rest
  <2> QED
    BY <1>1, <2>1 DEF Rest
<1>4. pull' \in [Node -> PullState] /\ Finite'
  BY <1>1, PullEnds
<1> QED
  BY <1>1, <1>2, <1>3, <1>4 DEF Rest

LEMMA RestInit ==
  ASSUME CompactionInit
  PROVE  Rest /\ Finite
<1>1. NoVersion \in Version
  BY DEF NoVersion, Version
<1>2. Rest
  BY <1>1, NoPullType DEF CompactionInit, Rest, Vector
<1>3. \A n \in Node : Held(n) = {} /\ pull[n].answer = {}
  BY DEF CompactionInit, Held, NoPull
<1> QED
  BY <1>2, <1>3, FS_EmptySet DEF Finite

LEMMA RestNext ==
  ASSUME Inv, Rest, Finite, Inv', [CompactionNext]_vars
  PROVE  Rest' /\ Finite'
<1>1. CASE Time \/ UNCHANGED vars
  <2>1. UNCHANGED <<log, row, col, vector, horizon, pull, refused, lost, buried, gone, setBack,
                    events>>
    BY <1>1 DEF Time, vars, database, process, ghosts
  <2> QED
    BY <2>1, HeldStays, FiniteStays DEF Rest
<1>2. ASSUME NEW n \in Node, NodeNext(n)
      PROVE  Rest' /\ Finite'
  BY <1>2, LocalWriteRest, OthersRest, PushRest, ApplyRest, CompactRest, StartPullRest,
     AnswerRest, TakePageRest, FailPullRest, CrashRest DEF NodeNext
<1> QED
  BY <1>1, <1>2 DEF CompactionNext

\* All the tables keep their types; that vectors and cursors stay numbers rests on logs and
\* pages being finite.
THEOREM CompactionTypes == CompactionSpec => []CompactionTypeOK
<1>1. Inv /\ Rest => CompactionTypeOK
  BY DEF Inv, Typed, ClockTyped, Rest, CompactionTypeOK
<1> QED
  BY <1>1, InvInit, InvNext, RestInit, RestNext, PTL DEF CompactionSpec

-----------------------------------------------------------------------------
(***************************************************************************)
(* One record at one node                                                  *)
(***************************************************************************)
\* What is shown is in the table of versions.
RowIsShown(n, r) ==
  row[n][r] # NoRow => version[n][r] # NoVersion /\ ~ version[n][r].deleted

\* A logged operation without a version is newer than what was deleted, and remote.
LogIsAnchored(n, r) ==
  \A o \in Held(n) : o.key = r =>
    \/ version[n][r] # NoVersion
    \/ o.src # n /\ (setBack \/ Less(buried[n][r], o))

\* What was deleted is in the version, or behind the fence.
BuriedIsCovered(n, r) ==
  setBack \/ IF version[n][r] = NoVersion THEN buried[n][r].hlc <= fence[n]
             ELSE ~ Less(version[n][r], buried[n][r])

ClockPassesVersion(n, r) == setBack \/ version[n][r].hlc <= Encode(clock[n])

NotResurrected(n, r) == setBack \/ (row[n][r] # NoRow => Less(buried[n][r], version[n][r]))

IsApplied(n, r) ==
  setBack \/ \A o \in Held(n) : o.key = r =>
               ~ Less(version[n][r], o) \/ o \in queue[n] \/ o \in lost[n]

\* What waits is logged, or its log row was collected.
QueueIsLogged(n, r) ==
  \A x \in queue[n] : x.key = r =>
    x \in Held(n) \/ x.hlc <= fence[n] \/ NewerInLog(n, r, x)

\* A version of this collection that has no record lost it without capture.
GoneIsKnown(n, r) ==
  LET v == version[n][r]
  IN  v # NoVersion /\ ~ v.deleted /\ row[n][r] = NoRow /\ col[n] # 0 /\ v.updated >= col[n]
        => r \in gone[n]

IsPast(n, r) == version[n][r].updated <= now

RecordInv(n, r) ==
  /\ RowIsShown(n, r) /\ LogIsAnchored(n, r) /\ BuriedIsCovered(n, r)
  /\ ClockPassesVersion(n, r) /\ NotResurrected(n, r) /\ IsApplied(n, r)
  /\ QueueIsLogged(n, r) /\ GoneIsKnown(n, r) /\ IsPast(n, r)

RecordsInv == \A n \in Node : \A r \in Rec : RecordInv(n, r)

\* The rows a pass has still to visit are in the log: only passes remove rows.
PassLogged == \A n \in Node : pass[n].rows \subseteq log[n]

\* The types of what a record is made of.
LEMMA RecordTypes ==
  ASSUME Inv, Rest, NEW n \in Node, NEW r \in Rec
  PROVE  /\ version[n][r] \in Version /\ buried[n][r] \in Version
         /\ Stamped(version[n][r]) /\ Stamped(buried[n][r])
         /\ version[n][r].updated \in Nat /\ version[n][r].deleted \in BOOLEAN
         /\ fence[n] \in Nat /\ Encode(clock[n]) \in Nat /\ fence[n] <= Encode(clock[n])
         /\ Held(n) \in SUBSET Op /\ queue[n] \in SUBSET Op /\ now \in Nat /\ col[n] \in Nat
<1>1. version[n][r] \in Version /\ buried[n][r] \in Version
  BY DEF Inv, Typed, Rest
<1>2. /\ Stamped(version[n][r]) /\ Stamped(buried[n][r])
      /\ version[n][r].updated \in Nat /\ version[n][r].deleted \in BOOLEAN
  <2>0. Node \cup {0} \subseteq Nat
    <3>1. Node \subseteq Nat /\ {0} \subseteq Nat
      BY CompactionAssumption
    <3> QED
      BY <3>1
  <2>1. ASSUME NEW v \in Version
        PROVE  v.hlc \in Nat /\ v.src \in Nat /\ v.updated \in Nat
    <3>1. v.src \in Node \cup {0}
      BY DEF Version
    <3>2. v.src \in Nat
      BY <2>0, <3>1, Zenon
    <3> QED
      BY <3>2 DEF Version
  <2>2. ASSUME NEW v \in Version
        PROVE  v.deleted \in BOOLEAN
    BY DEF Version
  <2> QED
    BY <1>1, <2>1, <2>2 DEF Stamped
<1>3. clock[n] \in Clock /\ fence[n] \in Nat /\ fence[n] <= Encode(clock[n])
  BY DEF Inv, ClockTyped, ClockPassesFence
<1>4. Held(n) \in SUBSET Op
  BY DEF Held, Inv, Typed, LogRow
<1>5. queue[n] \in SUBSET Op /\ now \in Nat /\ col[n] \in Nat
  BY DEF Inv, Typed, Rest
<1>6. Encode(clock[n]) \in Nat
  BY <1>3, EncodeType
<1> QED
  BY <1>1, <1>2, <1>3, <1>4, <1>5, <1>6

LEMMA OpStamped ==
  ASSUME NEW o \in Op
  PROVE  /\ Stamped(o) /\ o.src # 0 /\ o.type \in {"upsert", "delete"}
         /\ Stamp(o).hlc = o.hlc /\ Stamp(o).src = o.src /\ Stamp(o).updated = now
         /\ Stamp(o).deleted = (o.type = "delete")
BY CompactionAssumption DEF Op, Stamped, Stamp

\* What was deleted is not ahead of the clock.
LEMMA BuriedPast ==
  ASSUME Inv, Rest, NEW n \in Node, NEW r \in Rec, RecordInv(n, r)
  PROVE  setBack \/ buried[n][r].hlc <= Encode(clock[n])
<1>1. /\ Stamped(version[n][r]) /\ Stamped(buried[n][r])
      /\ fence[n] \in Nat /\ Encode(clock[n]) \in Nat /\ fence[n] <= Encode(clock[n])
  BY RecordTypes
<1>2. CASE version[n][r] = NoVersion
  BY <1>1, <1>2 DEF RecordInv, BuriedIsCovered, Stamped
<1>3. CASE version[n][r] # NoVersion
  BY <1>1, <1>3 DEF RecordInv, BuriedIsCovered, ClockPassesVersion, Stamped, Less
<1> QED
  BY <1>2, <1>3

-----------------------------------------------------------------------------
\* How time, clock and fence of a node move.
Moves(n) ==
  /\ setBack => setBack'
  /\ fence[n] <= fence'[n] /\ now <= now'
  /\ setBack' \/ Encode(clock[n]) <= Encode(clock'[n])

\* The tables keep a record; it may vanish without capture.
TableKept(n, r) ==
  /\ version'[n][r] = version[n][r] /\ buried'[n][r] = buried[n][r]
  /\ row'[n][r] \in {row[n][r], NoRow}

LEMMA TableKeeps ==
  ASSUME Inv, Rest, Inv', Rest', NEW n \in Node, NEW r \in Rec, RecordInv(n, r), Moves(n),
         TableKept(n, r)
  PROVE  /\ RowIsShown(n, r)' /\ BuriedIsCovered(n, r)' /\ ClockPassesVersion(n, r)'
         /\ NotResurrected(n, r)' /\ IsPast(n, r)'
<1>1. /\ fence[n] \in Nat /\ fence'[n] \in Nat /\ Encode(clock[n]) \in Nat
      /\ Encode(clock[n])' \in Nat /\ version[n][r].updated \in Nat /\ now \in Nat /\ now' \in Nat
      /\ version[n][r].hlc \in Nat /\ buried[n][r].hlc \in Nat
  BY RecordTypes, EncodeType DEF Stamped, Inv, Typed, ClockTyped
<1>2. Encode(clock[n])' = Encode(clock'[n])
  BY DEF Encode
<1>3. RowIsShown(n, r)' /\ NotResurrected(n, r)'
  BY DEF RecordInv, RowIsShown, NotResurrected, TableKept, Moves, Less
<1>4. BuriedIsCovered(n, r)'
  <2>1. CASE version[n][r] = NoVersion
    BY <1>1, <2>1 DEF RecordInv, BuriedIsCovered, TableKept, Moves
  <2>2. CASE version[n][r] # NoVersion
    BY <2>2 DEF RecordInv, BuriedIsCovered, TableKept, Moves, Less
  <2> QED
    BY <2>1, <2>2
<1>5. ClockPassesVersion(n, r)' /\ IsPast(n, r)'
  BY <1>1, <1>2 DEF RecordInv, ClockPassesVersion, IsPast, TableKept, Moves
<1> QED
  BY <1>3, <1>4, <1>5

\* The log of a record shrinks and nothing that waits is forgotten.
LEMMA LogKeeps ==
  ASSUME Inv, Rest, NEW n \in Node, NEW r \in Rec, RecordInv(n, r), Moves(n), TableKept(n, r),
         \A o \in Held(n)' : o.key = r => o \in Held(n),
         lost[n] \subseteq lost'[n],
         \A o \in queue[n] : o.key = r =>
           o \in queue'[n] \/ o \in lost'[n] \/ o \notin Held(n) \/ ~ Less(version[n][r], o)
  PROVE  LogIsAnchored(n, r)' /\ IsApplied(n, r)'
<1>1. LogIsAnchored(n, r)'
  BY DEF RecordInv, LogIsAnchored, Moves, TableKept, Less
<1>2. IsApplied(n, r)'
  BY DEF RecordInv, IsApplied, Moves, TableKept, Less
<1> QED
  BY <1>1, <1>2

LEMMA QueueKeeps ==
  ASSUME Inv, Inv', Rest, NEW n \in Node, NEW r \in Rec, RecordInv(n, r), Moves(n),
         \A o \in queue'[n] : o.key = r => o \in queue[n],
         \A o \in Held(n) : o.key = r => o \in Held(n)'
  PROVE  QueueIsLogged(n, r)'
<1>1. fence[n] \in Nat /\ fence'[n] \in Nat /\ fence[n] <= fence'[n]
  BY DEF Inv, ClockTyped, Moves
<1> SUFFICES ASSUME NEW x \in queue'[n], x.key = r
             PROVE  x \in Held(n)' \/ x.hlc <= fence'[n] \/ NewerInLog(n, r, x)'
  BY DEF QueueIsLogged
<1>2. x \in queue[n] /\ x.hlc \in Nat
  BY DEF Inv, Typed, Op
<1>3. x \in Held(n) \/ x.hlc <= fence[n] \/ NewerInLog(n, r, x)
  BY <1>2 DEF RecordInv, QueueIsLogged
<1>4. CASE NewerInLog(n, r, x)
  BY <1>4 DEF NewerInLog, Less
<1> QED
  BY <1>1, <1>2, <1>3, <1>4

\* Nothing of a record moves but time, clock and fence.
Untouched(n, r) ==
  /\ version'[n][r] = version[n][r] /\ buried'[n][r] = buried[n][r] /\ row'[n][r] = row[n][r]
  /\ col'[n] = col[n] /\ (r \in gone[n] => r \in gone'[n]) /\ lost[n] \subseteq lost'[n]
  /\ \A o \in Op : o.key = r => /\ o \in Held(n)' <=> o \in Held(n)
                                /\ o \in queue'[n] <=> o \in queue[n]

LEMMA UntouchedKeeps ==
  ASSUME Inv, Rest, Inv', Rest', NEW n \in Node, NEW r \in Rec, RecordInv(n, r), Moves(n),
         Untouched(n, r)
  PROVE  RecordInv(n, r)'
<1>1. TableKept(n, r)
  BY DEF Untouched, TableKept
<1>2. \A o \in Op : o.key = r => /\ o \in Held(n)' <=> o \in Held(n)
                                 /\ o \in queue'[n] <=> o \in queue[n]
  BY DEF Untouched
<1>3. /\ Held(n) \in SUBSET Op /\ queue[n] \in SUBSET Op /\ queue'[n] \in SUBSET Op
      /\ Held(n)' \in SUBSET Op
  BY DEF Held, Inv, Typed, LogRow
<1>4. /\ \A o \in Held(n)' : o.key = r => o \in Held(n)
      /\ \A o \in Held(n) : o.key = r => o \in Held(n)'
      /\ \A o \in queue[n] : o.key = r => o \in queue'[n]
      /\ \A o \in queue'[n] : o.key = r => o \in queue[n]
      /\ lost[n] \subseteq lost'[n]
  BY <1>2, <1>3 DEF Untouched
<1>5. GoneIsKnown(n, r)'
  BY DEF GoneIsKnown, RecordInv, Untouched
<1>6. /\ RowIsShown(n, r)' /\ BuriedIsCovered(n, r)' /\ ClockPassesVersion(n, r)'
      /\ NotResurrected(n, r)' /\ IsPast(n, r)'
  BY <1>1, TableKeeps
<1>7. LogIsAnchored(n, r)' /\ IsApplied(n, r)'
  BY <1>1, <1>4, LogKeeps
<1>8. QueueIsLogged(n, r)'
  BY <1>4, QueueKeeps
<1> QED
  BY <1>5, <1>6, <1>7, <1>8 DEF RecordInv

\* A record is written by the operation o, which beats what there was.
LEMMA WrittenKeeps ==
  ASSUME Inv, Rest, Inv', Rest', NEW n \in Node, NEW r \in Rec, RecordInv(n, r), Moves(n),
         NEW o \in Op, o.key = r,
         setBack \/ (Less(version[n][r], o) /\ Less(buried[n][r], o)),
         version'[n][r] = Stamp(o), row'[n][r] = Written(o),
         buried'[n][r] = Buried(buried[n][r], o), setBack' = setBack,
         o.hlc <= Encode(clock'[n]),
         \A x \in Held(n)' : x \in Held(n) \/ x = o, Held(n) \subseteq Held(n)',
         queue'[n] \subseteq queue[n], \A x \in queue[n] : x \in queue'[n] \/ x = o,
         lost'[n] = lost[n], now' = now
  PROVE  RecordInv(n, r)'
<1> DEFINE v == version[n][r]
           b == buried[n][r]
           w == Stamp(o)
<1>1. /\ Stamped(v) /\ Stamped(b) /\ now \in Nat /\ Held(n) \in SUBSET Op
  BY RecordTypes
<1>2. /\ Stamped(o) /\ Stamped(w) /\ o.type \in {"upsert", "delete"}
      /\ w.hlc = o.hlc /\ w.src = o.src /\ w.updated = now
      /\ w.deleted = (o.type = "delete") /\ w # NoVersion
      /\ Written(o) # NoRow <=> o.type = "upsert"
  BY OpStamped, OpShown DEF Stamped, Inv, Typed
<1>3. \A x : (Less(w, x) <=> Less(o, x)) /\ (Less(x, w) <=> Less(x, o))
  BY <1>2 DEF Less
<1>4. RowIsShown(n, r)' /\ LogIsAnchored(n, r)'
  BY <1>2 DEF RowIsShown, LogIsAnchored
<1>5. BuriedIsCovered(n, r)'
  <2>1. CASE setBack
    BY <2>1 DEF BuriedIsCovered
  <2>2. CASE ~ setBack
    <3>1. ~ Less(w, w) /\ ~ Less(w, b)
      BY <1>1, <1>2, <2>2 DEF Less, Stamped
    <3>2. buried'[n][r] \in {b, w}
      BY DEF Buried
    <3> QED
      BY <1>2, <3>1, <3>2 DEF BuriedIsCovered, Less
  <2> QED
    BY <2>1, <2>2
<1>6. ClockPassesVersion(n, r)' /\ IsPast(n, r)'
  BY <1>1, <1>2 DEF ClockPassesVersion, IsPast, Encode
<1>7. NotResurrected(n, r)'
  <2> SUFFICES ASSUME ~ setBack, o.type = "upsert"
               PROVE  Less(buried'[n][r], version'[n][r])
    BY <1>2 DEF NotResurrected, Less
  <2>1. buried'[n][r] = b
    BY DEF Buried
  <2> QED
    BY <1>3, <2>1
<1>8. IsApplied(n, r)'
  <2> SUFFICES ASSUME ~ setBack, NEW x \in Held(n)', x.key = r
               PROVE  ~ Less(w, x) \/ x \in queue'[n] \/ x \in lost'[n]
    BY DEF IsApplied, Less
  <2>1. CASE x = o
    BY <1>2, <2>1 DEF Less, Stamped
  <2>2. CASE x # o
    <3>1. x \in Held(n) /\ Stamped(x)
      BY <1>1, <2>2, OpStamped
    <3>2. ~ Less(v, x) \/ x \in queue[n] \/ x \in lost[n]
      BY <3>1 DEF RecordInv, IsApplied
    <3>3. CASE ~ Less(v, x)
      BY <1>1, <1>2, <3>1, <3>3 DEF Less, Stamped
    <3> QED
      BY <2>2, <3>2, <3>3
  <2> QED
    BY <2>1, <2>2
<1>9. QueueIsLogged(n, r)'
  BY QueueKeeps
<1>10. GoneIsKnown(n, r)'
  BY <1>2 DEF GoneIsKnown
<1> QED
  BY <1>4, <1>5, <1>6, <1>7, <1>8, <1>9, <1>10 DEF RecordInv

\* An operation that is stale or rejected leaves the queue.
LEMMA StaleKeeps ==
  ASSUME Inv, Rest, Inv', Rest', NEW n \in Node, NEW r \in Rec, RecordInv(n, r), Moves(n),
         NEW o \in Op, ~ Less(version[n][r], o) \/ o \notin Held(n),
         version'[n][r] = version[n][r], buried'[n][r] = buried[n][r], row'[n][r] = row[n][r],
         col'[n] = col[n], gone'[n] = gone[n], lost'[n] = lost[n], Held(n)' = Held(n),
         queue'[n] = queue[n] \ {o}
  PROVE  RecordInv(n, r)'
<1>1. TableKept(n, r)
  BY DEF TableKept
<1>2. /\ RowIsShown(n, r)' /\ BuriedIsCovered(n, r)' /\ ClockPassesVersion(n, r)'
      /\ NotResurrected(n, r)' /\ IsPast(n, r)'
  BY <1>1, TableKeeps
<1>3. LogIsAnchored(n, r)' /\ IsApplied(n, r)'
  BY <1>1, LogKeeps
<1>4. QueueIsLogged(n, r)'
  BY QueueKeeps
<1>5. GoneIsKnown(n, r)'
  BY DEF GoneIsKnown, RecordInv
<1> QED
  BY <1>2, <1>3, <1>4, <1>5 DEF RecordInv

\* Operations that the fence admits are logged and wait.
LEMMA AdmittedKeeps ==
  ASSUME Inv, Rest, Inv', Rest', NEW n \in Node, NEW r \in Rec, RecordInv(n, r), Moves(n),
         NEW in \in SUBSET Op, \A o \in in : Admits(n, o) /\ o.src # n,
         version'[n][r] = version[n][r], buried'[n][r] = buried[n][r], row'[n][r] = row[n][r],
         col'[n] = col[n], gone'[n] = gone[n], lost'[n] = lost[n],
         Held(n)' = Held(n) \cup in, queue'[n] = queue[n] \cup in
  PROVE  RecordInv(n, r)'
<1>1. TableKept(n, r)
  BY DEF TableKept
<1>2. /\ RowIsShown(n, r)' /\ BuriedIsCovered(n, r)' /\ ClockPassesVersion(n, r)'
      /\ NotResurrected(n, r)' /\ IsPast(n, r)'
  BY <1>1, TableKeeps
<1>3. /\ Stamped(buried[n][r]) /\ fence[n] \in Nat
  BY RecordTypes
<1>4. LogIsAnchored(n, r)'
  <2> SUFFICES ASSUME NEW o \in Held(n)', o.key = r, version[n][r] = NoVersion
               PROVE  o.src # n /\ (setBack' \/ Less(buried[n][r], o))
    BY DEF LogIsAnchored, Less
  <2>1. CASE o \in Held(n)
    BY <2>1 DEF RecordInv, LogIsAnchored, Moves
  <2>2. CASE o \in in
    <3>1. o.hlc > fence[n] /\ o.src # n /\ Stamped(o)
      BY <2>2, OpStamped DEF Admits
    <3>2. setBack \/ buried[n][r].hlc <= fence[n]
      BY DEF RecordInv, BuriedIsCovered
    <3> QED
      BY <1>3, <3>1, <3>2 DEF Less, Stamped, Moves
  <2> QED
    BY <2>1, <2>2
<1>5. IsApplied(n, r)'
  BY DEF RecordInv, IsApplied, Moves, Less
<1>6. QueueIsLogged(n, r)'
  <2> SUFFICES ASSUME NEW x \in queue'[n], x.key = r
               PROVE  x \in Held(n)' \/ x.hlc <= fence'[n] \/ NewerInLog(n, r, x)'
    BY DEF QueueIsLogged
  <2>1. CASE x \in in
    BY <2>1
  <2>2. CASE x \in queue[n]
    <3>1. x \in Held(n) \/ x.hlc <= fence[n] \/ NewerInLog(n, r, x)
      BY <2>2 DEF RecordInv, QueueIsLogged
    <3>2. CASE NewerInLog(n, r, x)
      BY <3>2 DEF NewerInLog, Less
    <3>3. x.hlc \in Nat /\ fence'[n] \in Nat /\ fence[n] <= fence'[n]
      BY <2>2 DEF Inv, Typed, Op, ClockTyped, Moves
    <3> QED
      BY <1>3, <3>1, <3>2, <3>3
  <2> QED
    BY <2>1, <2>2
<1>7. GoneIsKnown(n, r)'
  BY DEF GoneIsKnown, RecordInv
<1> QED
  BY <1>2, <1>4, <1>5, <1>6, <1>7 DEF RecordInv

\* A log row goes, that a newer one beats or that the fence passes.
LEMMA DroppedRowKeeps ==
  ASSUME Inv, Rest, Inv', Rest', NEW n \in Node, NEW r \in Rec, RecordInv(n, r), Moves(n),
         NEW o \in Op, o.hlc <= fence'[n] \/ NewerInLog(n, o.key, o),
         version'[n][r] = version[n][r], buried'[n][r] = buried[n][r], row'[n][r] = row[n][r],
         col'[n] = col[n], gone'[n] = gone[n], lost'[n] = lost[n], queue'[n] = queue[n],
         Held(n)' \subseteq Held(n), \A x \in Held(n) : x \in Held(n)' \/ x = o
  PROVE  RecordInv(n, r)'
<1>1. TableKept(n, r)
  BY DEF TableKept
<1>2. /\ RowIsShown(n, r)' /\ BuriedIsCovered(n, r)' /\ ClockPassesVersion(n, r)'
      /\ NotResurrected(n, r)' /\ IsPast(n, r)'
  BY <1>1, TableKeeps
<1>3. LogIsAnchored(n, r)' /\ IsApplied(n, r)'
  BY <1>1, LogKeeps
<1>4. /\ fence[n] \in Nat /\ fence'[n] \in Nat /\ fence[n] <= fence'[n]
      /\ Held(n) \in SUBSET Op
  BY RecordTypes DEF Inv, ClockTyped, Moves
<1>5. QueueIsLogged(n, r)'
  <2> SUFFICES ASSUME NEW x \in queue'[n], x.key = r, x.hlc > fence'[n], x \notin Held(n)'
               PROVE  NewerInLog(n, r, x)'
    BY <1>4 DEF QueueIsLogged, Inv, Typed, Op
  <2>1. x \in queue[n] /\ Stamped(x) /\ Stamped(o)
    BY OpStamped DEF Inv, Typed
  <2>2. x = o \/ NewerInLog(n, r, x)
    <3>1. x \in Held(n) \/ x.hlc <= fence[n] \/ NewerInLog(n, r, x)
      BY <2>1 DEF RecordInv, QueueIsLogged
    <3> QED
      BY <1>4, <2>1, <3>1 DEF Stamped
  <2>3. PICK y \in Held(n) : y.key = r /\ Less(x, y)
    <3>1. CASE NewerInLog(n, r, x)
      BY <3>1 DEF NewerInLog
    <3>2. CASE x = o
      <4>1. NewerInLog(n, o.key, o)
        BY <1>4, <2>1, <3>2 DEF Stamped
      <4> QED
        BY <3>2, <4>1 DEF NewerInLog
    <3> QED
      BY <2>2, <3>1, <3>2
  <2>4. Stamped(y)
    BY <1>4, OpStamped
  <2>5. CASE y \in Held(n)'
    BY <2>3, <2>5 DEF NewerInLog, Less
  <2>6. CASE y \notin Held(n)'
    <3>1. y = o /\ y.hlc > fence'[n]
      <4>1. y = o
        BY <2>6
      <4> QED
        BY <1>4, <2>1, <2>3, <2>4, <4>1 DEF Less, Stamped
    <3>2. NewerInLog(n, r, o)
      BY <1>4, <2>3, <2>4, <3>1 DEF Stamped
    <3>3. PICK z \in Held(n) : z.key = r /\ Less(o, z)
      BY <3>2 DEF NewerInLog
    <3>4. Stamped(z) /\ z # o
      BY <1>4, <2>1, <3>3, OpStamped DEF Less, Stamped
    <3>5. z \in Held(n)' /\ Less(x, z)
      BY <2>1, <2>3, <2>4, <3>1, <3>3, <3>4 DEF Less, Stamped
    <3> QED
      BY <3>3, <3>5 DEF NewerInLog, Less
  <2> QED
    BY <2>5, <2>6
<1>6. GoneIsKnown(n, r)'
  BY DEF GoneIsKnown, RecordInv
<1> QED
  BY <1>2, <1>3, <1>5, <1>6 DEF RecordInv

\* A tombstone goes that has no operation in the log, behind the fence.
LEMMA DroppedVersionKeeps ==
  ASSUME Inv, Rest, Inv', Rest', NEW n \in Node, NEW r \in Rec, RecordInv(n, r), Moves(n),
         version[n][r].deleted, ~ OpsRemain(n, r), version[n][r].hlc <= fence'[n],
         version'[n][r] = NoVersion, buried'[n][r] = buried[n][r], row'[n][r] = row[n][r],
         queue'[n] = queue[n], Held(n)' = Held(n)
  PROVE  RecordInv(n, r)'
<1>1. version[n][r] # NoVersion
  BY DEF NoVersion
<1>2. row'[n][r] = NoRow
  BY DEF RecordInv, RowIsShown
<1>3. RowIsShown(n, r)' /\ NotResurrected(n, r)'
  BY <1>2 DEF RowIsShown, NotResurrected
<1>4. \A o \in Held(n)' : o.key # r
  BY DEF OpsRemain
<1>5. LogIsAnchored(n, r)' /\ IsApplied(n, r)'
  BY <1>4 DEF LogIsAnchored, IsApplied
<1>6. /\ Stamped(version[n][r]) /\ Stamped(buried[n][r]) /\ fence'[n] \in Nat
      /\ Encode(clock[n])' \in Nat /\ now' \in Nat
  BY RecordTypes, EncodeType DEF Inv, ClockTyped, Typed
<1>7. BuriedIsCovered(n, r)'
  BY <1>1, <1>6 DEF RecordInv, BuriedIsCovered, Moves, Less, Stamped
<1>8. ClockPassesVersion(n, r)' /\ IsPast(n, r)'
  BY <1>6 DEF ClockPassesVersion, IsPast, NoVersion, Encode
<1>9. QueueIsLogged(n, r)'
  BY QueueKeeps
<1>10. GoneIsKnown(n, r)'
  BY DEF GoneIsKnown
<1> QED
  BY <1>3, <1>5, <1>7, <1>8, <1>9, <1>10 DEF RecordInv

-----------------------------------------------------------------------------
\* A clock only moves forward, unless a crash sets it back.
ClockGrows == \A m \in Node : setBack' \/ Encode(clock[m]) <= Encode(clock'[m])

LEMMA ClockSet ==
  ASSUME ClockTyped, NEW n \in Node, NEW c, clock' = [clock EXCEPT ![n] = c],
         setBack' \/ Encode(clock[n]) <= Encode(c)
  PROVE  clock'[n] = c /\ ClockGrows
<1>1. \A m \in Node : clock'[m] = IF m = n THEN c ELSE clock[m]
  BY DEF ClockTyped
<1> SUFFICES ASSUME NEW m \in Node
             PROVE  setBack' \/ Encode(clock[m]) <= Encode(clock'[m])
  BY <1>1 DEF ClockGrows
<1>2. CASE m = n
  BY <1>1, <1>2
<1>3. CASE m # n
  <2>1. clock'[m] = clock[m] /\ Encode(clock[m]) \in Nat
    BY <1>1, <1>3, EncodeType DEF ClockTyped
  <2> QED
    BY <2>1
<1> QED
  BY <1>2, <1>3

LEMMA ClockStays ==
  ASSUME ClockTyped, UNCHANGED clock
  PROVE  ClockGrows
<1> SUFFICES ASSUME NEW m \in Node PROVE Encode(clock[m]) <= Encode(clock'[m])
  BY DEF ClockGrows
<1>1. clock'[m] = clock[m] /\ Encode(clock[m]) \in Nat
  BY EncodeType DEF ClockTyped
<1> QED
  BY <1>1

LEMMA MergeGrows ==
  ASSUME ClockTyped, NEW n \in Node, NEW hlc \in Nat,
         clock' = [clock EXCEPT ![n] = Merge(@, ClockOf(hlc))]
  PROVE  ClockGrows /\ hlc <= Encode(clock'[n])
<1> DEFINE c == Merge(clock[n], ClockOf(hlc))
<1>1. clock[n] \in Clock /\ ClockOf(hlc) \in Clock /\ Encode(ClockOf(hlc)) = hlc
  BY ClockOfEncodes DEF ClockTyped
<1>2. c \in Clock /\ Encode(clock[n]) <= Encode(c) /\ hlc <= Encode(c)
  BY <1>1, MergeIsLarger
<1>3. clock' = [clock EXCEPT ![n] = c]
  OBVIOUS
<1> HIDE DEF c
<1> QED
  BY <1>2, <1>3, ClockSet

LEMMA IssueTicks ==
  ASSUME Inv, NEW n \in Node, NEW r, NEW type, NEW c \in Clock,
         Encode(clock[n]) <= Encode(c), Issue(n, r, type, c)
  PROVE  ClockGrows /\ Encode(clock[n]) < Encode(clock'[n]) /\ clock'[n] \in Clock
<1> DEFINE t == Tick(c, now + Skew[n])
<1>1. now + Skew[n] \in Nat
  BY CompactionAssumption DEF Inv, Typed
<1>2. t \in Clock /\ Encode(c) < Encode(t)
  BY <1>1, TickIncreases
<1>3. clock' = [clock EXCEPT ![n] = t]
  BY DEF Issue
<1>4. clock[n] \in Clock
  BY DEF Inv, ClockTyped
<1> HIDE DEF t
<1>5. Encode(clock[n]) \in Nat /\ Encode(c) \in Nat /\ Encode(t) \in Nat
  BY <1>2, <1>4, EncodeType
<1>6. Encode(clock[n]) < Encode(t) /\ Encode(clock[n]) <= Encode(t)
  BY <1>2, <1>5
<1>7. clock'[n] = t /\ ClockGrows
  BY <1>3, <1>6, ClockSet DEF Inv
<1> QED
  BY <1>2, <1>6, <1>7

LEMMA CompactTicks ==
  ASSUME Inv, NEW n \in Node, Compact(n)
  PROVE  ClockGrows
<1> DEFINE p == Current(n)
<1>1. p \in PassState /\ p.rows \in SUBSET LogRow /\ p.recs \in SUBSET Rec
  BY PassIsTyped DEF PassState
<1>2. CASE Unchanged
  BY <1>2, ClockStays DEF Unchanged, Inv
<1>3. ASSUME NEW r \in Rec, NEW x, x.hlc \in Nat, Repair(n, r, x)
      PROVE  ClockGrows
  <2>1. PICK c \in Clock : Encode(clock[n]) <= Encode(c) /\ Issue(n, r, "delete", c)
    BY <1>3, RepairIssues
  <2> QED
    BY <2>1, IssueTicks
<1>4. ASSUME NEW e \in p.rows,
             DropLogRow(n, p, e) \/ RepairLogRow(n, p, e) \/ KeepLogRow(n, p, e)
      PROVE  ClockGrows
  <2>1. e.op.hlc \in Nat /\ e.op.key \in Rec
    BY <1>1 DEF LogRow, Op
  <2>2. CASE DropLogRow(n, p, e)
    <3>1. UNCHANGED clock \/ clock' = [clock EXCEPT ![n] = Merge(@, ClockOf(e.op.hlc))]
      BY <2>2 DEF DropLogRow, FencePasses
    <3> QED
      BY <2>1, <3>1, ClockStays, MergeGrows DEF Inv
  <2>3. CASE RepairLogRow(n, p, e)
    BY <1>3, <2>1, <2>3 DEF RepairLogRow
  <2>4. CASE KeepLogRow(n, p, e)
    BY <1>2, <2>4 DEF KeepLogRow
  <2> QED
    BY <1>4, <2>2, <2>3, <2>4
<1>5. ASSUME NEW r \in p.recs,
             DropVersion(n, p, r) \/ RepairVersion(n, p, r) \/ KeepVersion(n, p, r)
      PROVE  ClockGrows
  <2>1. r \in Rec /\ version[n][r].hlc \in Nat
    BY <1>1 DEF Inv, Typed, Version
  <2>2. CASE DropVersion(n, p, r)
    <3>1. clock' = [clock EXCEPT ![n] = Merge(@, ClockOf(version[n][r].hlc))]
      BY <2>2 DEF DropVersion, FencePasses
    <3> QED
      BY <2>1, <3>1, MergeGrows DEF Inv
  <2>3. CASE RepairVersion(n, p, r)
    BY <1>3, <2>1, <2>3 DEF RepairVersion
  <2>4. CASE KeepVersion(n, p, r)
    BY <1>2, <2>4 DEF KeepVersion
  <2> QED
    BY <1>5, <2>2, <2>3, <2>4
<1> QED
  BY <1>2, <1>4, <1>5 DEF Compact

LEMMA NextMoves ==
  ASSUME Inv, setBack \in BOOLEAN, [CompactionNext]_vars
  PROVE  \A m \in Node : Moves(m)
<1>1. FenceGrows
  BY InvNext
<1>2. now <= now'
  <2>1. now' \in {now, now + 1}
    BY DEF CompactionNext, Time, NodeNext, LocalWrite, RemoveUncaptured, DropCollection,
       CreateCollection, Push, Apply, Compact, StartPull, Answer, TakePage, FailPull, Crash,
       vars
  <2>2. now \in Nat
    BY DEF Inv, Typed
  <2> QED
    BY <2>1, <2>2
<1>3. setBack => setBack'
  BY DEF CompactionNext, Time, NodeNext, LocalWrite, RemoveUncaptured, DropCollection,
     CreateCollection, Push, Apply, Compact, StartPull, Answer, TakePage, FailPull, Crash,
     vars, ghosts
<1>4. ClockGrows
  <2>1. ASSUME UNCHANGED clock PROVE ClockGrows
    BY <2>1, ClockStays DEF Inv
  <2>2. ASSUME NEW n \in Node, LocalWrite(n) PROVE ClockGrows
    <3>1. PICK w \in UserWrites[n] : Issue(n, w.key, w.type, clock[n])
      BY <2>2 DEF LocalWrite
    <3>2. clock[n] \in Clock /\ Encode(clock[n]) <= Encode(clock[n])
      BY EncodeType DEF Inv, ClockTyped
    <3> QED
      BY <3>1, <3>2, IssueTicks
  <2>3. ASSUME NEW n \in Node, Apply(n) PROVE ClockGrows
    <3>1. PICK o \in queue[n] : clock' = [clock EXCEPT ![n] = Merge(@, ClockOf(o.hlc))]
      BY <2>3 DEF Apply
    <3>2. o.hlc \in Nat
      BY DEF Inv, Typed, Op
    <3> QED
      BY <3>1, <3>2, MergeGrows DEF Inv
  <2>4. ASSUME NEW n \in Node, Crash(n) PROVE ClockGrows
    <3>1. PICK c : clock' = [clock EXCEPT ![n] = c]
      BY <2>4 DEF Crash
    <3>2. clock'[n] = c /\ (setBack' = (setBack \/ c # clock[n]))
      BY <2>4, <3>1 DEF Crash, Inv, ClockTyped
    <3>3. CASE setBack'
      BY <3>3 DEF ClockGrows
    <3>4. CASE ~ setBack'
      <4>1. c = clock[n] /\ Encode(clock[n]) \in Nat
        BY <3>2, <3>4, EncodeType DEF Inv, ClockTyped
      <4>2. Encode(clock[n]) <= Encode(c)
        BY <4>1
      <4> QED
        BY <3>1, <4>2, ClockSet DEF Inv
    <3> QED
      BY <3>3, <3>4
  <2>5. ASSUME NEW n \in Node, NodeNext(n) PROVE ClockGrows
    <3>1. CASE \/ \E r \in Rec : RemoveUncaptured(n, r)
               \/ DropCollection(n) \/ CreateCollection(n) \/ Push(n)
               \/ StartPull(n) \/ Answer(n) \/ TakePage(n) \/ FailPull(n)
      BY <2>1, <3>1 DEF RemoveUncaptured, DropCollection, CreateCollection, Push, StartPull,
         Answer, TakePage, FailPull, process
    <3> QED
      BY <2>2, <2>3, <2>4, <2>5, <3>1, CompactTicks DEF NodeNext
  <2>6. CASE Time \/ UNCHANGED vars
    BY <2>1, <2>6 DEF Time, vars, process
  <2> QED
    BY <2>5, <2>6 DEF CompactionNext
<1> SUFFICES ASSUME NEW m \in Node PROVE Moves(m)
  OBVIOUS
<1>5. fence[m] <= fence'[m]
  BY <1>1 DEF FenceGrows
<1>6. setBack' \/ Encode(clock[m]) <= Encode(clock'[m])
  BY <1>4 DEF ClockGrows
<1> QED
  BY <1>2, <1>3, <1>5, <1>6 DEF Moves

-----------------------------------------------------------------------------
(***************************************************************************)
(* Every record at every node                                              *)
(***************************************************************************)
\* What the lemmas on the actions take for granted.
Given == /\ Inv /\ Rest /\ Inv' /\ Rest' /\ RecordsInv
         /\ \A m \in Node : Moves(m)

\* It is enough to look at the records that a step touches.
LEMMA RecordsStep ==
  ASSUME Given, \A m \in Node : \A r \in Rec : Untouched(m, r) \/ RecordInv(m, r)'
  PROVE  RecordsInv'
<1> SUFFICES ASSUME NEW m \in Node, NEW r \in Rec
             PROVE  RecordInv(m, r)'
  BY DEF RecordsInv
<1>1. Inv /\ Rest /\ Inv' /\ Rest' /\ RecordInv(m, r) /\ Moves(m)
  BY DEF Given, RecordsInv
<1>2. CASE Untouched(m, r)
  BY <1>1, <1>2, UntouchedKeeps
<1> QED
  BY <1>2

\* All that is stored, logged and waiting stays.
LEMMA NothingTouched ==
  ASSUME UNCHANGED <<version, buried, row, col, gone, lost, log, queue>>
  PROVE  \A m \in Node : \A r \in Rec : Untouched(m, r)
BY DEF Untouched, Held

LEMMA IssueRecords ==
  ASSUME Given, NEW n \in Node, NEW k \in Rec, NEW type \in {"upsert", "delete"},
         NEW c \in Clock, Encode(clock[n]) <= Encode(c), Issue(n, k, type, c),
         UNCHANGED <<col, queue, lost, setBack, now>>
  PROVE  RecordsInv'
<1>1. Encode(clock[n]) < Encode(clock'[n]) /\ clock'[n] \in Clock
  BY IssueTicks DEF Given
<1>2. PICK o \in Op :
           /\ o = [src |-> n, seq |-> localSeq[n] + 1, hlc |-> Encode(clock'[n]),
                   type |-> type, key |-> k]
           /\ version' = [version EXCEPT ![n][k] = Stamp(o)]
           /\ row' = [row EXCEPT ![n][k] = Written(o)]
           /\ buried' = [buried EXCEPT ![n][k] = Buried(buried[n][k], o)]
           /\ gone' = [gone EXCEPT ![n] = gone[n] \ {k}]
           /\ Held(n)' = Held(n) \cup {o}
           /\ \A m \in Node \ {n} : Held(m)' = Held(m)
  BY <1>1, IssueHolds DEF Given
<1>3. o.hlc = Encode(clock'[n]) /\ o.key = k
  BY <1>2
<1> DEFINE w == Stamp(o)
           t == Written(o)
           b == Buried(buried[n][k], o)
<1>4. /\ version' = [version EXCEPT ![n][k] = w] /\ row' = [row EXCEPT ![n][k] = t]
      /\ buried' = [buried EXCEPT ![n][k] = b] /\ gone' = [gone EXCEPT ![n] = gone[n] \ {k}]
  BY <1>2
<1> HIDE DEF w, t, b
<1>5. /\ version'[n][k] = w /\ row'[n][k] = t /\ buried'[n][k] = b
      /\ \A m \in Node : \A r \in Rec : m # n \/ r # k =>
           /\ version'[m][r] = version[m][r] /\ row'[m][r] = row[m][r]
           /\ buried'[m][r] = buried[m][r] /\ (r \in gone[m] => r \in gone'[m])
  BY <1>4 DEF Given, Inv, Typed, Rest
<1>6. ASSUME NEW m \in Node, NEW r \in Rec, m # n \/ r # k
      PROVE  Untouched(m, r)
  <2>1. \A x \in Op : x.key = r => (x \in Held(m)' <=> x \in Held(m))
    BY <1>2, <1>3, <1>6
  <2> QED
    BY <1>5, <1>6, <2>1 DEF Untouched
<1>7. RecordInv(n, k)'
  <2>1. Inv /\ Rest /\ Inv' /\ Rest' /\ RecordInv(n, k) /\ Moves(n)
    BY DEF Given, RecordsInv
  <2>2. setBack \/ (Less(version[n][k], o) /\ Less(buried[n][k], o))
    <3>1. setBack \/ buried[n][k].hlc <= Encode(clock[n])
      BY <2>1, BuriedPast
    <3>2. setBack \/ version[n][k].hlc <= Encode(clock[n])
      BY <2>1 DEF RecordInv, ClockPassesVersion
    <3>3. /\ Stamped(version[n][k]) /\ Stamped(buried[n][k]) /\ Encode(clock[n]) \in Nat
          /\ Encode(clock'[n]) \in Nat
      BY <1>1, <2>1, RecordTypes, EncodeType
    <3> QED
      BY <1>1, <1>3, <3>1, <3>2, <3>3 DEF Less, Stamped
  <2>3. o.hlc <= Encode(clock'[n])
    BY <1>1, <1>3, EncodeType
  <2>4. /\ version'[n][k] = Stamp(o) /\ row'[n][k] = Written(o)
        /\ buried'[n][k] = Buried(buried[n][k], o)
    BY <1>5 DEF w, t, b
  <2> QED
    BY <1>2, <1>3, <2>1, <2>2, <2>3, <2>4, WrittenKeeps
<1> QED
  BY <1>6, <1>7, RecordsStep

LEMMA LocalWriteRecords ==
  ASSUME Given, NEW n \in Node, LocalWrite(n)
  PROVE  RecordsInv'
<1>1. PICK w \in UserWrites[n] : Issue(n, w.key, w.type, clock[n])
  BY DEF LocalWrite
<1>2. /\ w.key \in Rec /\ w.type \in {"upsert", "delete"} /\ clock[n] \in Clock
      /\ Encode(clock[n]) <= Encode(clock[n])
  BY CompactionAssumption, EncodeType DEF Given, Inv, ClockTyped
<1>3. UNCHANGED <<col, queue, lost, setBack, now>>
  BY DEF LocalWrite
<1> QED
  BY <1>1, <1>2, <1>3, IssueRecords

\* Records go without capture, and collections with theirs.
LEMMA VanishRecords ==
  ASSUME Given, NEW n \in Node,
         \/ \E r \in Rec : RemoveUncaptured(n, r)
         \/ DropCollection(n) \/ CreateCollection(n)
  PROVE  RecordsInv'
<1>1. UNCHANGED <<version, buried, lost, log, queue, fence, clock, setBack, now>>
  BY DEF RemoveUncaptured, DropCollection, CreateCollection, process, ghosts
<1>2. \A m \in Node : Held(m)' = Held(m)
  BY <1>1, HeldStays
<1>3. ASSUME NEW r \in Rec, row'[n][r] \in {row[n][r], NoRow}, GoneIsKnown(n, r)'
      PROVE  RecordInv(n, r)'
  <2>1. Inv /\ Rest /\ Inv' /\ Rest' /\ RecordInv(n, r) /\ Moves(n)
    BY DEF Given, RecordsInv
  <2>2. TableKept(n, r)
    BY <1>1, <1>3 DEF TableKept
  <2>3. /\ RowIsShown(n, r)' /\ BuriedIsCovered(n, r)' /\ ClockPassesVersion(n, r)'
        /\ NotResurrected(n, r)' /\ IsPast(n, r)'
    BY <2>1, <2>2, TableKeeps
  <2>4. LogIsAnchored(n, r)' /\ IsApplied(n, r)'
    BY <1>1, <1>2, <2>1, <2>2, LogKeeps
  <2>5. QueueIsLogged(n, r)'
    BY <1>1, <1>2, <2>1, QueueKeeps
  <2> QED
    BY <1>3, <2>3, <2>4, <2>5 DEF RecordInv
<1>4. ASSUME NEW r \in Rec PROVE GoneIsKnown(n, r) /\ version[n][r].updated \in Nat /\ now \in Nat
                                 /\ version[n][r].updated <= now
  BY RecordTypes DEF Given, RecordsInv, RecordInv, IsPast
<1>5. ASSUME NEW k \in Rec, RemoveUncaptured(n, k)
      PROVE  RecordsInv'
  <2>1. /\ row' = [row EXCEPT ![n][k] = NoRow] /\ gone' = [gone EXCEPT ![n] = @ \cup {k}]
        /\ UNCHANGED col
    BY <1>5 DEF RemoveUncaptured
  <2>2. /\ row'[n][k] = NoRow /\ k \in gone'[n]
        /\ \A m \in Node : \A r \in Rec : m # n \/ r # k =>
             row'[m][r] = row[m][r] /\ (r \in gone[m] => r \in gone'[m])
    BY <2>1 DEF Given, Rest
  <2>3. GoneIsKnown(n, k)'
    BY <2>2 DEF GoneIsKnown
  <2>4. RecordInv(n, k)'
    BY <1>3, <2>2, <2>3
  <2>5. \A m \in Node : \A r \in Rec : m # n \/ r # k => Untouched(m, r)
    BY <1>1, <1>2, <2>1, <2>2 DEF Untouched
  <2> QED
    BY <2>4, <2>5, RecordsStep
<1>6. CASE DropCollection(n)
  <2>1. /\ col' = [col EXCEPT ![n] = 0] /\ row' = [row EXCEPT ![n] = [r \in Rec |-> NoRow]]
        /\ UNCHANGED gone
    BY <1>6 DEF DropCollection, ghosts
  <2>2. /\ col'[n] = 0 /\ \A r \in Rec : row'[n][r] = NoRow
        /\ \A m \in Node \ {n} : col'[m] = col[m] /\ row'[m] = row[m]
    BY <2>1 DEF Given, Rest
  <2>3. \A r \in Rec : RecordInv(n, r)'
    BY <1>3, <2>2 DEF GoneIsKnown
  <2>4. \A m \in Node \ {n} : \A r \in Rec : Untouched(m, r)
    BY <1>1, <1>2, <2>1, <2>2 DEF Untouched
  <2> QED
    BY <2>3, <2>4, RecordsStep
<1>7. CASE CreateCollection(n)
  <2>1. /\ col' = [col EXCEPT ![n] = now + 1] /\ UNCHANGED <<row, gone>>
    BY <1>7 DEF CreateCollection, ghosts
  <2>2. col'[n] = now + 1 /\ \A m \in Node \ {n} : col'[m] = col[m]
    BY <2>1 DEF Given, Rest
  <2>3. ASSUME NEW r \in Rec PROVE RecordInv(n, r)'
    <3>1. GoneIsKnown(n, r)'
      BY <1>1, <1>4, <2>2 DEF GoneIsKnown
    <3> QED
      BY <1>3, <2>1, <3>1
  <2>4. \A m \in Node \ {n} : \A r \in Rec : Untouched(m, r)
    BY <1>1, <1>2, <2>1, <2>2 DEF Untouched
  <2> QED
    BY <2>3, <2>4, RecordsStep
<1> QED
  BY <1>5, <1>6, <1>7

LEMMA IngestRecords ==
  ASSUME Given, NEW n \in Node, NEW ops \in SUBSET Op, Ingest(n, ops),
         UNCHANGED <<version, row, col, lost, buried, gone>>
  PROVE  RecordsInv'
<1>1. PICK in \in SUBSET ops :
           /\ in = {o \in {x \in ops : x.src # n /\ x \notin Held(n)} : Admits(n, o)}
           /\ queue' = [queue EXCEPT ![n] = queue[n] \cup in]
           /\ Held(n)' = Held(n) \cup in
           /\ \A m \in Node \ {n} : Held(m)' = Held(m)
  BY IngestHolds DEF Given
<1>2. in \in SUBSET Op /\ \A o \in in : Admits(n, o) /\ o.src # n
  BY <1>1
<1>3. queue'[n] = queue[n] \cup in /\ \A m \in Node \ {n} : queue'[m] = queue[m]
  BY <1>1 DEF Given, Inv, Typed
<1>4. ASSUME NEW r \in Rec PROVE RecordInv(n, r)'
  <2>1. Inv /\ Rest /\ Inv' /\ Rest' /\ RecordInv(n, r) /\ Moves(n)
    BY DEF Given, RecordsInv
  <2> QED
    BY <1>1, <1>2, <1>3, <2>1, AdmittedKeeps
<1>5. \A m \in Node \ {n} : \A r \in Rec : Untouched(m, r)
  BY <1>1, <1>3 DEF Untouched
<1> QED
  BY <1>4, <1>5, RecordsStep

LEMMA PushRecords ==
  ASSUME Given, NEW n \in Node, Push(n)
  PROVE  RecordsInv'
<1>1. PICK o \in issued : Ingest(n, {o})
  BY DEF Push
<1>2. {o} \in SUBSET Op
  BY DEF Given, Inv, Typed
<1>3. UNCHANGED <<version, row, col, lost, buried, gone>>
  BY DEF Push
<1> QED
  BY <1>1, <1>2, <1>3, IngestRecords

\* What an operation beats, and no fence rejects, is older than what was deleted.
LEMMA AppliedIsNewer ==
  ASSUME Inv, Rest, NEW n \in Node, NEW o \in Op, RecordInv(n, o.key), o.key \in Rec,
         Supersedes(n, o), ~ Rejects(n, o)
  PROVE  setBack \/ Less(buried[n][o.key], o)
<1> DEFINE r == o.key
<1>1. /\ Stamped(version[n][r]) /\ Stamped(buried[n][r]) /\ Stamped(o) /\ fence[n] \in Nat
  BY RecordTypes, OpStamped
<1>2. CASE version[n][r] # NoVersion
  BY <1>1, <1>2 DEF RecordInv, BuriedIsCovered, Supersedes, Less, Stamped
<1>3. CASE version[n][r] = NoVersion /\ o \in Held(n)
  BY <1>3 DEF RecordInv, LogIsAnchored
<1>4. CASE version[n][r] = NoVersion /\ o \notin Held(n)
  <2>1. ~ (o.hlc <= fence[n])
    BY <1>4 DEF Rejects
  <2>2. setBack \/ buried[n][r].hlc <= fence[n]
    BY <1>4 DEF RecordInv, BuriedIsCovered
  <2> QED
    BY <1>1, <2>1, <2>2 DEF Less, Stamped
<1> QED
  BY <1>2, <1>3, <1>4

LEMMA ApplyRecords ==
  ASSUME Given, NEW n \in Node, Apply(n)
  PROVE  RecordsInv'
<1>1. PICK o \in queue[n] :
        /\ clock' = [clock EXCEPT ![n] = Merge(@, ClockOf(o.hlc))]
        /\ queue' = [queue EXCEPT ![n] = @ \ {o}]
        /\ IF Supersedes(n, o) /\ ~ Rejects(n, o)
           THEN /\ version' = [version EXCEPT ![n][o.key] = Stamp(o)]
                /\ row'     = [row EXCEPT ![n][o.key] = Written(o)]
                /\ buried'  = [buried EXCEPT ![n][o.key] = Buried(@, o)]
                /\ gone'    = [gone EXCEPT ![n] = @ \ {o.key}]
           ELSE UNCHANGED <<version, row, buried, gone>>
  BY DEF Apply
<1>2. UNCHANGED <<log, col, lost, setBack, now>>
  BY DEF Apply
<1> DEFINE k == o.key
<1>3. o \in Op /\ k \in Rec
  BY DEF Given, Inv, Typed, Op
<1>4. Inv /\ Rest /\ Inv' /\ Rest' /\ RecordInv(n, k) /\ Moves(n)
  BY <1>3 DEF Given, RecordsInv
<1>5. \A m \in Node : Held(m)' = Held(m)
  BY <1>2, HeldStays
<1>6. queue'[n] = queue[n] \ {o} /\ \A m \in Node \ {n} : queue'[m] = queue[m]
  BY <1>1 DEF Given, Inv, Typed
<1>7. o.hlc <= Encode(clock'[n])
  <2>1. o.hlc \in Nat /\ ClockTyped
    BY <1>3, <1>4 DEF Op, Inv
  <2> QED
    BY <1>1, <2>1, MergeGrows
<1>8. CASE Supersedes(n, o) /\ ~ Rejects(n, o)
  <2> DEFINE w == Stamp(o)
             t == Written(o)
             b == Buried(buried[n][k], o)
  <2>1. /\ version' = [version EXCEPT ![n][k] = w] /\ row' = [row EXCEPT ![n][k] = t]
        /\ buried' = [buried EXCEPT ![n][k] = b] /\ gone' = [gone EXCEPT ![n] = gone[n] \ {k}]
    BY <1>1, <1>8
  <2> HIDE DEF w, t, b, k
  <2>2. /\ version'[n][k] = w /\ row'[n][k] = t /\ buried'[n][k] = b
        /\ \A m \in Node : \A r \in Rec : m # n \/ r # k =>
             /\ version'[m][r] = version[m][r] /\ row'[m][r] = row[m][r]
             /\ buried'[m][r] = buried[m][r] /\ (r \in gone[m] => r \in gone'[m])
    BY <1>3, <2>1 DEF Given, Inv, Typed, Rest
  <2>3. ASSUME NEW m \in Node, NEW r \in Rec, m # n \/ r # k
        PROVE  Untouched(m, r)
    <3>1. \A x \in Op : x.key = r => (x \in queue'[m] <=> x \in queue[m])
      BY <1>6, <2>3 DEF k
    <3> QED
      BY <1>2, <1>5, <2>2, <2>3, <3>1 DEF Untouched
  <2>4. RecordInv(n, k)'
    <3>1. Less(version[n][k], o) /\ (setBack \/ Less(buried[n][k], o))
      BY <1>3, <1>4, <1>8, AppliedIsNewer DEF Supersedes, k
    <3>2. /\ version'[n][k] = Stamp(o) /\ row'[n][k] = Written(o)
          /\ buried'[n][k] = Buried(buried[n][k], o) /\ o.key = k
      BY <2>2 DEF w, t, b, k
    <3>3. /\ \A x \in Held(n)' : x \in Held(n) \/ x = o
          /\ Held(n) \subseteq Held(n)'
          /\ queue'[n] \subseteq queue[n] /\ \A x \in queue[n] : x \in queue'[n] \/ x = o
      BY <1>5, <1>6
    <3>4. /\ setBack' = setBack /\ lost'[n] = lost[n] /\ now' = now
      BY <1>2
    <3> QED
      BY <1>3, <1>4, <1>7, <3>1, <3>2, <3>3, <3>4, WrittenKeeps
  <2> QED
    BY <2>3, <2>4, RecordsStep
<1>9. CASE ~ (Supersedes(n, o) /\ ~ Rejects(n, o))
  <2>1. UNCHANGED <<version, row, buried, gone>>
    BY <1>1, <1>9
  <2>2. ASSUME NEW m \in Node, NEW r \in Rec, m # n \/ r # k
        PROVE  Untouched(m, r)
    <3>1. \A x \in Op : x.key = r => (x \in queue'[m] <=> x \in queue[m])
      BY <1>6, <2>2
    <3> QED
      BY <1>2, <1>5, <2>1, <3>1 DEF Untouched
  <2>3. RecordInv(n, k)'
    <3>1. ~ Less(version[n][k], o) \/ o \notin Held(n)
      BY <1>9 DEF Supersedes, Rejects
    <3> QED
      BY <1>2, <1>3, <1>4, <1>5, <1>6, <2>1, <3>1, StaleKeeps
  <2> QED
    BY <2>2, <2>3, RecordsStep
<1> QED
  BY <1>8, <1>9

\* A row of the log in a batch.
LEMMA LogRowRecords ==
  ASSUME Given, NEW n \in Node, NEW p \in PassState, NEW e \in LogRow,
         UNCHANGED <<col, queue, now, lost, setBack>>,
         DropLogRow(n, p, e) \/ RepairLogRow(n, p, e) \/ KeepLogRow(n, p, e)
  PROVE  RecordsInv'
<1>1. e.op \in Op /\ e.op.hlc \in Nat /\ e.op.key \in Rec
  BY DEF LogRow, Op
<1>2. CASE DropLogRow(n, p, e)
  <2>1. /\ log' = [log EXCEPT ![n] = log[n] \ {e}]
        /\ UNCHANGED <<version, row, buried, gone>>
    BY <1>2 DEF DropLogRow
  <2>2. e.op.hlc <= fence'[n] \/ NewerInLog(n, e.op.key, e.op)
    <3>1. CASE e.op.type = "delete" /\ Expired(p, e.created)
      <4>1. fence' = [fence EXCEPT ![n] = Larger(@, e.op.hlc)]
        BY <1>2, <3>1 DEF DropLogRow, FencePasses
      <4>2. fence[n] \in Nat /\ fence'[n] = Larger(fence[n], e.op.hlc)
        BY <4>1 DEF Given, Inv, ClockTyped
      <4> QED
        BY <1>1, <4>2 DEF Larger
    <3> QED
      BY <1>2, <3>1 DEF DropLogRow, Droppable
  <2>3. /\ log'[n] = log[n] \ {e} /\ \A m \in Node \ {n} : log'[m] = log[m]
    BY <2>1 DEF Given, Inv, Typed
  <2>4. /\ Held(n)' \subseteq Held(n) /\ \A x \in Held(n) : x \in Held(n)' \/ x = e.op
        /\ \A m \in Node \ {n} : Held(m)' = Held(m)
    BY <2>3 DEF Held
  <2>5. ASSUME NEW r \in Rec PROVE RecordInv(n, r)'
    <3>1. Inv /\ Rest /\ Inv' /\ Rest' /\ RecordInv(n, r) /\ Moves(n)
      BY DEF Given, RecordsInv
    <3> QED
      BY <1>1, <2>1, <2>2, <2>4, <3>1, DroppedRowKeeps
  <2>6. \A m \in Node \ {n} : \A r \in Rec : Untouched(m, r)
    BY <2>1, <2>4 DEF Untouched
  <2> QED
    BY <2>5, <2>6, RecordsStep
<1>3. CASE RepairLogRow(n, p, e)
  <2>1. Repair(n, e.op.key, e.op) /\ Inv
    BY <1>3 DEF RepairLogRow, Given
  <2>2. PICK c \in Clock : Encode(clock[n]) <= Encode(c) /\ Issue(n, e.op.key, "delete", c)
    BY <1>1, <2>1, RepairIssues
  <2> QED
    BY <1>1, <2>2, IssueRecords
<1>4. CASE KeepLogRow(n, p, e)
  <2>1. UNCHANGED <<version, buried, row, col, gone, lost, log, queue>>
    BY <1>4 DEF KeepLogRow, Unchanged
  <2> QED
    BY <2>1, NothingTouched, RecordsStep
<1> QED
  BY <1>2, <1>3, <1>4

\* A version in a batch.
LEMMA VersionRecords ==
  ASSUME Given, NEW n \in Node, NEW p \in PassState, NEW k \in Rec,
         UNCHANGED <<col, queue, now, lost, setBack>>,
         DropVersion(n, p, k) \/ RepairVersion(n, p, k) \/ KeepVersion(n, p, k)
  PROVE  RecordsInv'
<1>1. Inv /\ Rest /\ Inv' /\ Rest' /\ RecordInv(n, k) /\ Moves(n)
  BY DEF Given, RecordsInv
<1>2. version[n][k].hlc \in Nat /\ fence[n] \in Nat
  BY <1>1, RecordTypes DEF Stamped
<1>3. CASE DropVersion(n, p, k)
  <2>1. /\ version' = [version EXCEPT ![n][k] = NoVersion]
        /\ UNCHANGED <<log, row, buried, gone>>
        /\ fence' = [fence EXCEPT ![n] = Larger(@, version[n][k].hlc)]
        /\ version[n][k].deleted /\ ~ OpsRemain(n, k)
    BY <1>3 DEF DropVersion, FencePasses, Collectable
  <2>2. /\ version'[n][k] = NoVersion
        /\ \A m \in Node : \A r \in Rec : m # n \/ r # k => version'[m][r] = version[m][r]
    BY <2>1 DEF Given, Inv, Typed
  <2>3. version[n][k].hlc <= fence'[n]
    <3>1. fence'[n] = Larger(fence[n], version[n][k].hlc)
      BY <2>1 DEF Given, Inv, ClockTyped
    <3> QED
      BY <1>2, <3>1 DEF Larger
  <2>4. \A m \in Node : Held(m)' = Held(m)
    BY <2>1, HeldStays
  <2>5. RecordInv(n, k)'
    BY <1>1, <2>1, <2>2, <2>3, <2>4, DroppedVersionKeeps
  <2>6. \A m \in Node : \A r \in Rec : m # n \/ r # k => Untouched(m, r)
    BY <2>1, <2>2, <2>4 DEF Untouched
  <2> QED
    BY <2>5, <2>6, RecordsStep
<1>4. CASE RepairVersion(n, p, k)
  <2>1. PICK c \in Clock : Encode(clock[n]) <= Encode(c) /\ Issue(n, k, "delete", c)
    BY <1>1, <1>2, <1>4, RepairIssues DEF RepairVersion
  <2> QED
    BY <2>1, IssueRecords
<1>5. CASE KeepVersion(n, p, k)
  <2>1. UNCHANGED <<version, buried, row, col, gone, lost, log, queue>>
    BY <1>5 DEF KeepVersion, Unchanged
  <2> QED
    BY <2>1, NothingTouched, RecordsStep
<1> QED
  BY <1>3, <1>4, <1>5

LEMMA CompactRecords ==
  ASSUME Given, NEW n \in Node, Compact(n)
  PROVE  RecordsInv'
<1> DEFINE p == Current(n)
<1>1. p \in PassState /\ p.rows \in SUBSET LogRow /\ p.recs \in SUBSET Rec
  BY PassIsTyped DEF PassState, Given
<1>2. UNCHANGED <<col, queue, now, lost, setBack>>
  BY DEF Compact
<1>3. CASE Unchanged
  <2>1. UNCHANGED <<version, buried, row, col, gone, lost, log, queue>>
    BY <1>2, <1>3 DEF Unchanged
  <2> QED
    BY <2>1, NothingTouched, RecordsStep
<1>4. ASSUME NEW e \in p.rows,
             DropLogRow(n, p, e) \/ RepairLogRow(n, p, e) \/ KeepLogRow(n, p, e)
      PROVE  RecordsInv'
  BY <1>1, <1>2, <1>4, LogRowRecords
<1>5. ASSUME NEW r \in p.recs,
             DropVersion(n, p, r) \/ RepairVersion(n, p, r) \/ KeepVersion(n, p, r)
      PROVE  RecordsInv'
  BY <1>1, <1>2, <1>5, VersionRecords
<1> QED
  BY <1>3, <1>4, <1>5 DEF Compact

LEMMA TakePageRecords ==
  ASSUME Given, NEW n \in Node, TakePage(n)
  PROVE  RecordsInv'
<1>1. PICK a \in pull[n].answer : Ingest(n, a.ops) \/ UNCHANGED <<log, queue>>
  BY DEF TakePage
<1>2. UNCHANGED <<version, row, col, lost, buried, gone>>
  BY DEF TakePage
<1>3. a.ops \in SUBSET Op
  BY DEF Given, Inv, PullTyped
<1>4. CASE UNCHANGED <<log, queue>>
  BY <1>2, <1>4, NothingTouched, RecordsStep
<1> QED
  BY <1>1, <1>2, <1>3, <1>4, IngestRecords

\* What waited when a process dies is lost.
LEMMA CrashRecords ==
  ASSUME Given, NEW n \in Node, Crash(n)
  PROVE  RecordsInv'
<1>1. /\ lost' = [lost EXCEPT ![n] = @ \cup queue[n]] /\ queue' = [queue EXCEPT ![n] = {}]
      /\ UNCHANGED <<log, version, row, col, buried, gone>>
  BY DEF Crash, database
<1>2. /\ lost'[n] = lost[n] \cup queue[n] /\ queue'[n] = {}
      /\ \A m \in Node \ {n} : lost'[m] = lost[m] /\ queue'[m] = queue[m]
  BY <1>1 DEF Given, Inv, Typed, Rest
<1>3. \A m \in Node : Held(m)' = Held(m)
  BY <1>1, HeldStays
<1>4. ASSUME NEW r \in Rec PROVE RecordInv(n, r)'
  <2>1. Inv /\ Rest /\ Inv' /\ Rest' /\ RecordInv(n, r) /\ Moves(n)
    BY DEF Given, RecordsInv
  <2>2. TableKept(n, r)
    BY <1>1 DEF TableKept
  <2>3. /\ RowIsShown(n, r)' /\ BuriedIsCovered(n, r)' /\ ClockPassesVersion(n, r)'
        /\ NotResurrected(n, r)' /\ IsPast(n, r)'
    BY <2>1, <2>2, TableKeeps
  <2>4. LogIsAnchored(n, r)' /\ IsApplied(n, r)'
    BY <1>2, <1>3, <2>1, <2>2, LogKeeps
  <2>5. QueueIsLogged(n, r)'
    BY <1>2 DEF QueueIsLogged
  <2>6. GoneIsKnown(n, r)'
    BY <1>1, <2>1 DEF RecordInv, GoneIsKnown
  <2> QED
    BY <2>3, <2>4, <2>5, <2>6 DEF RecordInv
<1>5. \A m \in Node \ {n} : \A r \in Rec : Untouched(m, r)
  BY <1>1, <1>2, <1>3 DEF Untouched
<1> QED
  BY <1>4, <1>5, RecordsStep

LEMMA RecordsInit ==
  ASSUME CompactionInit
  PROVE  RecordsInv /\ PassLogged
<1>0. PassLogged
  BY DEF CompactionInit, NoPass, PassLogged
<1> SUFFICES ASSUME NEW n \in Node, NEW r \in Rec
             PROVE  RecordInv(n, r)
  BY <1>0 DEF RecordsInv
<1>1. /\ Held(n) = {} /\ queue[n] = {} /\ version[n][r] = NoVersion /\ buried[n][r] = NoVersion
      /\ row[n][r] = NoRow /\ now = 0 /\ fence[n] = 0 /\ clock[n] = Zero /\ pass[n].rows = {}
  BY DEF CompactionInit, Held, NoPass
<1>2. 0 <= Encode(Zero)
  BY LogicalAssumption DEF Encode, Zero
<1>3. /\ RowIsShown(n, r) /\ LogIsAnchored(n, r) /\ BuriedIsCovered(n, r)
  BY <1>1 DEF RowIsShown, LogIsAnchored, BuriedIsCovered, NoVersion
<1>4. ClockPassesVersion(n, r) /\ NotResurrected(n, r) /\ IsApplied(n, r)
  BY <1>1, <1>2 DEF ClockPassesVersion, NotResurrected, IsApplied, NoVersion
<1>5. QueueIsLogged(n, r) /\ GoneIsKnown(n, r) /\ IsPast(n, r)
  BY <1>1 DEF QueueIsLogged, GoneIsKnown, IsPast, NoVersion
<1> QED
  BY <1>1, <1>3, <1>4, <1>5 DEF RecordInv

LEMMA RecordsNext ==
  ASSUME Inv, Rest, Inv', Rest', RecordsInv, [CompactionNext]_vars
  PROVE  RecordsInv'
<1>1. Given
  BY NextMoves DEF Given, Rest
<1>2. CASE Time \/ UNCHANGED vars
  <2>1. UNCHANGED <<version, buried, row, col, gone, lost, log, queue>>
    BY <1>2 DEF Time, vars, database, process, ghosts
  <2> QED
    BY <1>1, <2>1, NothingTouched, RecordsStep
<1>3. ASSUME NEW n \in Node, NodeNext(n)
      PROVE  RecordsInv'
  <2>1. CASE StartPull(n) \/ Answer(n) \/ FailPull(n)
    <3>1. UNCHANGED <<version, buried, row, col, gone, lost, log, queue>>
      BY <2>1 DEF StartPull, Answer, FailPull, database, ghosts
    <3> QED
      BY <1>1, <3>1, NothingTouched, RecordsStep
  <2> QED
    BY <1>1, <1>3, <2>1, LocalWriteRecords, VanishRecords, PushRecords, ApplyRecords,
       CompactRecords, TakePageRecords, CrashRecords DEF NodeNext
<1> QED
  BY <1>2, <1>3 DEF CompactionNext

-----------------------------------------------------------------------------
\* What a pass that is under way has still to visit is in the log.
LEMMA CurrentLogged ==
  ASSUME Inv, PassLogged, NEW n \in Node
  PROVE  Current(n).rows \subseteq log[n]
<1> DEFINE p == IF pass[n] = NoPass THEN [NoPass EXCEPT !.now = now] ELSE pass[n]
           rs == {r \in Rec : version[n][r] # NoVersion}
<1>1. pass[n] \in PassState
  BY DEF Inv, Typed
<1>2. DOMAIN p = {"now", "phase", "started", "rows", "recs"} /\ p.rows \subseteq log[n]
  BY <1>1 DEF NoPass, PassState, PassLogged
<1>3. Current(n) \in {p, [p EXCEPT !.started = TRUE, !.rows = log[n]],
                      [p EXCEPT !.started = TRUE, !.recs = rs]}
  BY DEF Current
<1> HIDE DEF p, rs
<1>4. /\ [p EXCEPT !.started = TRUE, !.rows = log[n]].rows = log[n]
      /\ [p EXCEPT !.started = TRUE, !.recs = rs].rows = p.rows
  BY <1>2
<1> QED
  BY <1>2, <1>3, <1>4

LEMMA SavedRows ==
  ASSUME NEW q \in PassState
  PROVE  Saved(q).rows \subseteq q.rows
BY DEF Saved, PassState, NoPass

LEMMA PassLoggedNext ==
  ASSUME Inv, PassLogged, [CompactionNext]_vars
  PROVE  PassLogged'
<1>1. ASSUME UNCHANGED pass, \A m \in Node : log[m] \subseteq log'[m]
      PROVE  PassLogged'
  BY <1>1 DEF PassLogged
<1>2. ASSUME NEW n \in Node, NEW ops \in SUBSET Op, Ingest(n, ops)
      PROVE  \A m \in Node : log[m] \subseteq log'[m]
  BY <1>2, IngestHolds
<1>3. ASSUME NEW n \in Node, NEW r, NEW type, NEW c, Issue(n, r, type, c)
      PROVE  \A m \in Node : log[m] \subseteq log'[m]
  <2>1. PICK e : log' = [log EXCEPT ![n] = log[n] \cup {e}]
    BY <1>3 DEF Issue
  <2> QED
    BY <2>1 DEF Inv, Typed
<1>4. ASSUME NEW n \in Node, Compact(n)
      PROVE  PassLogged'
  <2> DEFINE p == Current(n)
  <2>1. /\ p \in PassState /\ p.rows \in SUBSET LogRow /\ p.recs \in SUBSET Rec
        /\ p.rows \subseteq log[n]
    BY PassIsTyped, CurrentLogged DEF PassState
  <2>2. ASSUME NEW q \in PassState, pass' = [pass EXCEPT ![n] = Saved(q)],
               q.rows \subseteq log'[n], \A m \in Node \ {n} : log[m] \subseteq log'[m]
        PROVE  PassLogged'
    <3>1. pass'[n] = Saved(q) /\ \A m \in Node \ {n} : pass'[m] = pass[m]
      BY <2>2 DEF Inv, Typed
    <3> QED
      BY <2>2, <3>1, SavedRows DEF PassLogged
  <2>3. CASE Unchanged /\ pass' = [pass EXCEPT ![n] = Saved(p)]
    BY <2>1, <2>2, <2>3 DEF Unchanged
  <2>4. ASSUME NEW e \in p.rows,
               pass' = [pass EXCEPT ![n] = Saved([p EXCEPT !.rows = @ \ {e}])],
               DropLogRow(n, p, e) \/ RepairLogRow(n, p, e) \/ KeepLogRow(n, p, e)
        PROVE  PassLogged'
    <3> DEFINE q == [p EXCEPT !.rows = @ \ {e}]
    <3>1. q \in PassState /\ q.rows = p.rows \ {e}
      BY <2>1 DEF PassState
    <3>2. log[n] \ {e} \subseteq log'[n] /\ \A m \in Node \ {n} : log[m] \subseteq log'[m]
      <4>1. CASE DropLogRow(n, p, e)
        BY <4>1 DEF DropLogRow, Inv, Typed
      <4>2. CASE RepairLogRow(n, p, e)
        BY <1>3, <4>2 DEF RepairLogRow, Repair
      <4>3. CASE KeepLogRow(n, p, e)
        BY <4>3 DEF KeepLogRow, Unchanged
      <4> QED
        BY <2>4, <4>1, <4>2, <4>3
    <3>3. q.rows \subseteq log'[n]
      BY <2>1, <3>1, <3>2
    <3>4. pass' = [pass EXCEPT ![n] = Saved(q)]
      BY <2>4
    <3> HIDE DEF q
    <3> QED
      BY <2>2, <3>1, <3>2, <3>3, <3>4
  <2>5. ASSUME NEW r \in p.recs,
               pass' = [pass EXCEPT ![n] = Saved([p EXCEPT !.recs = @ \ {r}])],
               DropVersion(n, p, r) \/ RepairVersion(n, p, r) \/ KeepVersion(n, p, r)
        PROVE  PassLogged'
    <3> DEFINE q == [p EXCEPT !.recs = @ \ {r}]
    <3>1. q \in PassState /\ q.rows = p.rows
      BY <2>1 DEF PassState
    <3>2. \A m \in Node : log[m] \subseteq log'[m]
      <4>1. CASE RepairVersion(n, p, r)
        BY <1>3, <4>1 DEF RepairVersion, Repair
      <4>2. CASE DropVersion(n, p, r) \/ KeepVersion(n, p, r)
        BY <4>2 DEF DropVersion, KeepVersion, Unchanged
      <4> QED
        BY <2>5, <4>1, <4>2
    <3>3. q.rows \subseteq log'[n]
      BY <2>1, <3>1, <3>2
    <3>4. pass' = [pass EXCEPT ![n] = Saved(q)]
      BY <2>5
    <3> HIDE DEF q
    <3> QED
      BY <2>2, <3>1, <3>2, <3>3, <3>4
  <2> QED
    BY <2>3, <2>4, <2>5, <1>4 DEF Compact
<1>5. ASSUME NEW n \in Node, NodeNext(n)
      PROVE  PassLogged'
  <2>1. CASE LocalWrite(n)
    <3>1. UNCHANGED pass
      BY <2>1 DEF LocalWrite
    <3> QED
      BY <1>1, <1>3, <2>1, <3>1 DEF LocalWrite
  <2>2. CASE Push(n)
    <3>1. PICK o \in issued : Ingest(n, {o})
      BY <2>2 DEF Push
    <3>2. {o} \in SUBSET Op /\ UNCHANGED pass
      BY <2>2 DEF Push, Inv, Typed
    <3> QED
      BY <1>1, <1>2, <3>1, <3>2
  <2>3. CASE TakePage(n)
    <3>1. PICK a \in pull[n].answer : Ingest(n, a.ops) \/ UNCHANGED log
      BY <2>3 DEF TakePage
    <3>2. a.ops \in SUBSET Op /\ UNCHANGED pass
      BY <2>3 DEF TakePage, Inv, PullTyped
    <3> QED
      BY <1>1, <1>2, <3>1, <3>2
  <2>4. CASE \/ \E r \in Rec : RemoveUncaptured(n, r)
             \/ DropCollection(n) \/ CreateCollection(n) \/ Apply(n)
             \/ StartPull(n) \/ Answer(n) \/ FailPull(n) \/ Crash(n)
    <3>1. UNCHANGED <<log, pass>>
      BY <2>4 DEF RemoveUncaptured, DropCollection, CreateCollection, Apply, StartPull, Answer,
         FailPull, Crash, database
    <3> QED
      BY <1>1, <3>1
  <2> QED
    BY <1>4, <1>5, <2>1, <2>2, <2>3, <2>4 DEF NodeNext
<1>6. CASE Time \/ UNCHANGED vars
  BY <1>1, <1>6 DEF Time, vars, database
<1> QED
  BY <1>5, <1>6 DEF CompactionNext

-----------------------------------------------------------------------------
\* What a repair finds.
RepairDue(n, r) ==
  /\ \/ r \in gone[n] \/ version[n][r].deleted
     \/ version[n][r].updated = col[n] - 1
  /\ ~ \E x \in queue[n] : /\ x.key = r /\ Supersedes(n, x)
                           /\ x \in Held(n) \/ x.hlc > fence[n]

\* An orphan that has a version is one: the log tells what waits for the applier.
LEMMA OrphanIsDue ==
  ASSUME Inv, Rest, RecordsInv, NEW n \in Node, NEW r \in Rec, NEW x, NEW local, NEW seen,
         Orphan(n, r, x, local, seen), version[n][r] # NoVersion
  PROVE  RepairDue(n, r)
<1> DEFINE v == version[n][r]
<1>1. /\ Stamped(v) /\ v.updated \in Nat /\ col[n] \in Nat /\ fence[n] \in Nat
      /\ Held(n) \in SUBSET Op /\ queue[n] \in SUBSET Op
  BY RecordTypes
<1>2. /\ col[n] # 0 /\ v.updated >= col[n] - 1 /\ row[n][r] = NoRow
      /\ ~ NewerInLog(n, r, v)
  BY DEF Orphan
<1>3. RecordInv(n, r)
  BY DEF RecordsInv
<1>4. r \in gone[n] \/ v.deleted \/ v.updated = col[n] - 1
  <2>1. v.updated >= col[n] \/ v.updated = col[n] - 1
    BY <1>1, <1>2
  <2>2. v.updated >= col[n] => r \in gone[n] \/ v.deleted
    BY <1>2, <1>3 DEF RecordInv, GoneIsKnown
  <2> QED
    BY <2>1, <2>2
<1>5. ASSUME NEW y \in queue[n], y.key = r, Less(v, y), y \in Held(n) \/ y.hlc > fence[n]
      PROVE  FALSE
  <2>1. Stamped(y)
    BY <1>1, OpStamped
  <2>2. y \in Held(n) \/ NewerInLog(n, r, y)
    <3>1. y \in Held(n) \/ y.hlc <= fence[n] \/ NewerInLog(n, r, y)
      BY <1>3, <1>5 DEF RecordInv, QueueIsLogged
    <3> QED
      BY <1>1, <1>5, <2>1, <3>1 DEF Stamped
  <2>3. CASE y \in Held(n)
    BY <1>2, <1>5, <2>3 DEF NewerInLog
  <2>4. CASE NewerInLog(n, r, y)
    <3>1. PICK z \in Held(n) : z.key = r /\ Less(y, z)
      BY <2>4 DEF NewerInLog
    <3>2. Stamped(z)
      BY <1>1, OpStamped
    <3>3. Less(v, z)
      BY <1>1, <1>5, <2>1, <3>1, <3>2, LessOrder
    <3> QED
      BY <1>2, <3>1, <3>3 DEF NewerInLog
  <2> QED
    BY <2>2, <2>3, <2>4
<1> QED
  BY <1>4, <1>5 DEF RepairDue, Supersedes

\* The operations that a step issues are deletes of records that are there, or repairs that
\* are due.
LEMMA IssuesAreDue ==
  ASSUME Inv, Rest, RecordsInv, PassLogged, [CompactionNext]_vars,
         NEW n \in Node, NEW o \in issued' \ issued, o.src = n, o.type = "delete",
         row[n][o.key] = NoRow
  PROVE  RepairDue(n, o.key)
<1>1. ASSUME NEW m \in Node, NEW r, NEW type, NEW c, Issue(m, r, type, c)
      PROVE  m = n /\ o.key = r /\ type = "delete"
  <2> DEFINE d == [src |-> m, seq |-> localSeq[m] + 1, hlc |-> Encode(clock'[m]),
                   type |-> type, key |-> r]
  <2>1. issued' = issued \cup {d}
    BY <1>1 DEF Issue
  <2>2. o = d
    BY <2>1
  <2> QED
    BY <2>2
<1>2. PICK m \in Node : LocalWrite(m) \/ Compact(m)
  BY DEF CompactionNext, Time, NodeNext, RemoveUncaptured, DropCollection, CreateCollection,
     Push, Apply, StartPull, Answer, TakePage, FailPull, Crash, vars
<1>3. CASE LocalWrite(m)
  <2>1. PICK w \in UserWrites[m] : /\ w.type = "delete" => row[m][w.key] # NoRow
                                   /\ Issue(m, w.key, w.type, clock[m])
    BY <1>3 DEF LocalWrite
  <2> QED
    BY <1>1, <2>1
<1>4. CASE Compact(m)
  <2> DEFINE p == Current(m)
  <2>1. p.rows \subseteq log[m] /\ p.rows \subseteq LogRow /\ p.recs \subseteq Rec
    BY PassIsTyped, CurrentLogged DEF PassState
  <2>2. CASE Unchanged
    BY <2>2 DEF Unchanged
  <2>3. ASSUME NEW e \in p.rows,
               DropLogRow(m, p, e) \/ RepairLogRow(m, p, e) \/ KeepLogRow(m, p, e)
        PROVE  RepairDue(n, o.key)
    <3>1. Suspect(m, p, e) /\ Repair(m, e.op.key, e.op)
      BY <2>3 DEF DropLogRow, KeepLogRow, Unchanged, RepairLogRow
    <3>2. m = n /\ o.key = e.op.key
      BY <1>1, <3>1 DEF Repair
    <3>3. Orphan(n, e.op.key, e.op, e.op.src = n, e.created)
      BY <3>1, <3>2 DEF Suspect
    <3>4. e.op \in Held(n) /\ e.op.key \in Rec
      BY <2>1, <3>2 DEF Held, LogRow, Op
    <3>5. version[n][e.op.key] # NoVersion
      <4>1. version[n][e.op.key] # NoVersion \/ e.op.src = n
        BY <3>3 DEF Orphan
      <4>2. version[n][e.op.key] # NoVersion \/ e.op.src # n
        BY <3>4 DEF RecordsInv, RecordInv, LogIsAnchored
      <4> QED
        BY <4>1, <4>2
    <3> QED
      BY <3>2, <3>3, <3>4, <3>5, OrphanIsDue
  <2>4. ASSUME NEW r \in p.recs,
               DropVersion(m, p, r) \/ RepairVersion(m, p, r) \/ KeepVersion(m, p, r)
        PROVE  RepairDue(n, o.key)
    <3>1. Live(m, r) /\ Repair(m, r, version[m][r])
      BY <2>4 DEF DropVersion, KeepVersion, Unchanged, RepairVersion
    <3>2. m = n /\ o.key = r
      BY <1>1, <3>1 DEF Repair
    <3>3. Orphan(n, r, version[n][r], FALSE, 0)
      BY <3>1, <3>2 DEF Live
    <3>4. r \in Rec /\ version[n][r] # NoVersion
      BY <2>1, <3>3 DEF Orphan
    <3> QED
      BY <3>2, <3>3, <3>4, OrphanIsDue
  <2> QED
    BY <1>4, <2>2, <2>3, <2>4 DEF Compact
<1> QED
  BY <1>2, <1>3, <1>4

-----------------------------------------------------------------------------
\* The inductive invariant.
IInv == Inv /\ Rest /\ Finite /\ RecordsInv /\ PassLogged

LEMMA IInvAlways == CompactionSpec => []IInv
<1>1. CompactionInit => IInv
  BY InvInit, RestInit, RecordsInit DEF IInv
<1>2. IInv /\ [CompactionNext]_vars => IInv'
  BY InvNext, RestNext, RecordsNext, PassLoggedNext DEF IInv
<1> QED
  BY <1>1, <1>2, PTL DEF CompactionSpec

\* A deleted record never comes back from an older write at a node that has carried out the
\* delete, whatever was collected since: as long as the tombstone is there it beats the
\* write, afterwards the fence refuses it, or the write was in the log before and keeps the
\* tombstone from being collected.
THEOREM DeletedStaysDeleted == CompactionSpec => []NoResurrection
<1>1. IInv => NoResurrection
  BY DEF IInv, RecordsInv, RecordInv, NotResurrected, NoResurrection
<1> QED
  BY <1>1, IInvAlways, PTL

\* No operation in the log is forgotten by the data, and none is rejected once it was logged,
\* although tombstones go and fences pass it while it waits.
THEOREM LogReachesData == CompactionSpec => []LogIsApplied
<1>1. IInv => LogIsApplied
  <2> SUFFICES ASSUME IInv, ~ setBack, NEW n \in Node, NEW o \in Held(n)
               PROVE  ~ Supersedes(n, o) \/ o \in queue[n] \/ o \in lost[n]
    BY DEF LogIsApplied
  <2>1. o.key \in Rec
    BY DEF IInv, Inv, Typed, Held, LogRow, Op
  <2> QED
    BY <2>1 DEF IInv, RecordsInv, RecordInv, IsApplied, Supersedes
<1> QED
  BY <1>1, IInvAlways, PTL

\* Compaction only repairs what was removed without capture or deleted before, and nothing
\* that is on its way to the data.
THEOREM RepairsDue == CompactionSpec => RepairsAreDue
<1>1. IInv /\ [CompactionNext]_vars =>
        [\A n \in Node : \A o \in issued' \ issued :
           o.src = n /\ o.type = "delete" /\ row[n][o.key] = NoRow =>
             /\ \/ o.key \in gone[n] \/ version[n][o.key].deleted
                \/ version[n][o.key].updated = col[n] - 1
             /\ ~ \E x \in queue[n] : /\ x.key = o.key /\ Supersedes(n, x)
                                      /\ x \in Held(n) \/ x.hlc > fence[n]]_vars
  BY IssuesAreDue DEF IInv, RepairDue
<1> QED
  BY <1>1, IInvAlways, PTL DEF CompactionSpec, RepairsAreDue
=============================================================================
