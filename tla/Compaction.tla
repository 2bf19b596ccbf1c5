----------------------------- MODULE Compaction -----------------------------
(***************************************************************************)
(* Garbage collection of the operation log and of tombstones (compact.go): *)
(* passes made of small transactions, the horizons and the fence that      *)
(* stand for what was dropped, the repair of records that were removed     *)
(* without capture, and what they meet: local writes, the ingest and apply *)
(* gates (store.go, apply.go), pulls (sync.go, routes.go) and crashes.     *)
(*                                                                         *)
(* One action is one transaction.  A batch handles one row, which leaves   *)
(* more room between rows than the code's batches do; rows are visited in  *)
(* any order.  A peer that is not modelled may keep anything, so any       *)
(* operation ever issued may be pushed at any time.  The queue has no      *)
(* order (handlers race for it).                                           *)
(*                                                                         *)
(* Not here: schema operations (a collection comes and goes, which leaves  *)
(* versions of records behind), the phases for members and for clients,    *)
(* which share nothing with the log, and what a node does once a peer has  *)
(* told it to take a snapshot.                                             *)
(***************************************************************************)
EXTENDS Lww

CONSTANTS
  Node,         \* node ids; naturals, because the code orders them
  Rec,          \* ids of the records of one collection
  Skew,         \* Skew[n]: how far the wall clock of n is ahead
  Retention,    \* cfg.TombstoneRetention
  Interval,     \* cfg.CompactionInterval
  MaxBatch,     \* cfg.MaxBatch of a pull
  Writes,       \* bound: users of n write while it has issued fewer operations
  UserWrites,   \* bound: what users of node n do, and to which records
  Lossy,        \* bound: nodes where records go without capture or processes die
  PullFrom,     \* PullFrom[n]: the peers n pulls from
  Wanted,       \* bound: Wanted[n], the sources whose operations are pushed to n
  PassTimes,    \* bound: PassTimes[n], when a pass of n may start
  MaxNow,       \* bound: time
  MaxEvents     \* bound: records removed without capture, deletions of the
                \* collection, crashes and pulls, together

ASSUME CompactionAssumption ==
  /\ Node \subseteq Nat \ {0} /\ IsFiniteSet(Node)
  /\ Skew \in [Node -> Nat] /\ Retention \in Nat /\ Interval \in Nat
  /\ MaxBatch \in Nat \ {0} /\ Writes \in [Node -> Nat]
  /\ UserWrites \in [Node -> SUBSET [type : {"upsert", "delete"}, key : Rec]]
  /\ Lossy \subseteq Node /\ PullFrom \in [Node -> SUBSET Node]
  /\ Wanted \in [Node -> SUBSET Node] /\ PassTimes \in [Node -> SUBSET Nat]
  /\ MaxNow \in Nat /\ MaxEvents \in Nat

Op == [src : Node, seq : Nat \ {0}, hlc : Nat, type : {"upsert", "delete"}, key : Rec]

\* A row of _repl_oplog.
LogRow == [op : Op, created : Nat]

\* A row of _repl_versions, and the absent one, which every operation beats.
Version   == [hlc : Nat, src : Node \cup {0}, deleted : BOOLEAN, updated : Nat]
NoVersion == [hlc |-> 0, src |-> 0, deleted |-> FALSE, updated |-> 0]

\* The payload of a record is the operation that wrote it.
Payload == [src : Node, seq : Nat \ {0}]
NoRow   == [src |-> 0, seq |-> 0]

Vector == [Node -> Nat]

VARIABLES
  \* in the database: survives a crash
  localSeq,   \* localSeq[n]: _repl_state local_seq
  log,        \* log[n]: the rows of _repl_oplog
  version,    \* version[n][r]: _repl_versions
  row,        \* row[n][r]: the record, NoRow if there is none
  col,        \* col[n]: 1 + the time the collection was created, 0: there is none
  vector,     \* vector[n][src]: _repl_state vector.<src>
  horizon,    \* horizon[n][src]: _repl_compaction min_seq
  fence,      \* fence[n]: _repl_state gc_hlc
  pass,       \* pass[n]: _repl_state gc_pass
  \* in the process
  clock,      \* clock[n]: the hybrid logical clock
  queue,      \* queue[n]: in the log and not applied yet
  pull,       \* pull[n]: the anti-entropy exchange of n
  \* the world
  now,        \* time
  issued,     \* every operation so far
  \* history
  refused,    \* operations a fence has refused, at ingest or in the applier
  lost,       \* lost[n]: in the queue of n when its process died
  buried,     \* buried[n][r]: the newest delete that n has carried out
  gone,       \* gone[n]: the records of n that were removed without capture
  setBack,    \* a crash has set a clock back
  events

database == <<localSeq, log, version, row, col, vector, horizon, fence, pass>>
process  == <<clock, queue, pull>>
ghosts   == <<refused, lost, buried, gone, setBack>>
vars     == <<database, process, now, issued, ghosts, events>>

(***************************************************************************)
(* A pass: `rows` or `recs` is what the running phase has still to visit   *)
(* of what was there when it started (After .. Head).  No pass is a pass   *)
(* of which nothing has started.                                           *)
(***************************************************************************)
NoPass    == [now |-> 0, phase |-> "oplog", started |-> FALSE, rows |-> {}, recs |-> {}]
PassState == [now : Nat, phase : {"oplog", "versions"}, started : BOOLEAN,
              rows : SUBSET LogRow, recs : SUBSET Rec]

\* A pull: the transient cursor, and the answer of the peer while it is under way.
NoPull    == [peer |-> 0, cursor |-> [m \in Node |-> 0], answer |-> {}]
PullState == [peer : Node \cup {0}, cursor : Vector,
              answer : SUBSET [ops : SUBSET Op, vec : Vector, required : BOOLEAN]]

CompactionTypeOK ==
  /\ localSeq \in Vector
  /\ log \in [Node -> SUBSET LogRow]
  /\ version \in [Node -> [Rec -> Version]]
  /\ row \in [Node -> [Rec -> Payload \cup {NoRow}]]
  /\ col \in [Node -> Nat]
  /\ vector \in [Node -> Vector] /\ horizon \in [Node -> Vector]
  /\ fence \in [Node -> Nat] /\ pass \in [Node -> PassState]
  /\ clock \in [Node -> Clock] /\ queue \in [Node -> SUBSET Op]
  /\ pull \in [Node -> PullState]
  /\ now \in Nat /\ issued \in SUBSET Op
  /\ refused \in SUBSET Op /\ lost \in [Node -> SUBSET Op]
  /\ buried \in [Node -> [Rec -> Version]] /\ gone \in [Node -> SUBSET Rec]
  /\ setBack \in BOOLEAN
  /\ events \in Nat

-----------------------------------------------------------------------------
Held(n)          == {e.op : e \in log[n]}
Supersedes(n, o) == Less(version[n][o.key], o)

Stamp(o)   == [hlc |-> o.hlc, src |-> o.src, deleted |-> o.type = "delete", updated |-> now]
Written(o) == IF o.type = "upsert" THEN [src |-> o.src, seq |-> o.seq] ELSE NoRow

\* newerOpExists: the log of n has an operation on r that beats x.
NewerInLog(n, r, x) == \E o \in Held(n) : o.key = r /\ Less(x, o)

\* opsRemain
OpsRemain(n, r) == \E o \in Held(n) : o.key = r

\* currentVector
CurrentVector(n) == [vector[n] EXCEPT ![n] = Larger(@, localSeq[n])]

\* What is buried once o has been carried out.
Buried(b, o) == IF o.type = "delete" /\ Less(b, o) THEN Stamp(o) ELSE b

-----------------------------------------------------------------------------
CompactionInit ==
  /\ localSeq = [n \in Node |-> 0]
  /\ log      = [n \in Node |-> {}]
  /\ version  = [n \in Node |-> [r \in Rec |-> NoVersion]]
  /\ row      = [n \in Node |-> [r \in Rec |-> NoRow]]
  /\ col      = [n \in Node |-> 1]
  /\ vector   = [n \in Node |-> [m \in Node |-> 0]]
  /\ horizon  = [n \in Node |-> [m \in Node |-> 0]]
  /\ fence    = [n \in Node |-> 0]
  /\ pass     = [n \in Node |-> NoPass]
  /\ clock    = [n \in Node |-> Zero]
  /\ queue    = [n \in Node |-> {}]
  /\ pull     = [n \in Node |-> NoPull]
  /\ now = 0 /\ issued = {} /\ refused = {}
  /\ lost     = [n \in Node |-> {}]
  /\ buried   = [n \in Node |-> [r \in Rec |-> NoVersion]]
  /\ gone     = [n \in Node |-> {}]
  /\ setBack = FALSE /\ events = 0

\* A unit of time is of the order of the compaction interval: the applier has
\* long done what it can do.
Time == /\ now < MaxNow /\ now' = now + 1
        /\ \A n \in Node : col[n] # 0 => queue[n] = {}
        /\ UNCHANGED <<database, process, issued, ghosts, events>>

(***************************************************************************)
(* A new operation of node n whose clock was c: sequence number, log row   *)
(* (insertOp knows no fence) and version in one transaction.               *)
(***************************************************************************)
Issue(n, r, type, c) ==
  /\ localSeq' = [localSeq EXCEPT ![n] = @ + 1]
  /\ clock'    = [clock EXCEPT ![n] = Tick(c, now + Skew[n])]
  /\ LET o == [src |-> n, seq |-> localSeq[n] + 1, hlc |-> Encode(clock'[n]),
               type |-> type, key |-> r]
     IN  /\ log'     = [log EXCEPT ![n] = @ \cup {[op |-> o, created |-> now]}]
         /\ issued'  = issued \cup {o}
         /\ version' = [version EXCEPT ![n][r] = Stamp(o)]
         /\ row'     = [row EXCEPT ![n][r] = Written(o)]
         /\ buried'  = [buried EXCEPT ![n][r] = Buried(@, o)]
  /\ gone' = [gone EXCEPT ![n] = @ \ {r}]

\* captureRecord
LocalWrite(n) ==
  /\ localSeq[n] < Writes[n] /\ col[n] # 0
  /\ \E w \in UserWrites[n] :
       /\ w.type = "delete" => row[n][w.key] # NoRow
       /\ Issue(n, w.key, w.type, clock[n])
  /\ UNCHANGED <<col, vector, horizon, fence, pass, queue, pull, now, refused, lost,
                 setBack, events>>

\* A record is removed behind the hooks (SQL, or a cascade of the database).
RemoveUncaptured(n, r) ==
  /\ n \in Lossy /\ events < MaxEvents /\ events' = events + 1
  /\ row[n][r] # NoRow
  /\ row'  = [row EXCEPT ![n][r] = NoRow]
  /\ gone' = [gone EXCEPT ![n] = @ \cup {r}]
  /\ UNCHANGED <<localSeq, log, version, col, vector, horizon, fence, pass, process, now,
                 issued, refused, lost, buried, setBack>>

\* The collection is deleted with its records, not with their versions ...
DropCollection(n) ==
  /\ n \in Lossy /\ events < MaxEvents /\ events' = events + 1
  /\ col[n] # 0
  /\ col' = [col EXCEPT ![n] = 0]
  /\ row' = [row EXCEPT ![n] = [r \in Rec |-> NoRow]]
  /\ UNCHANGED <<localSeq, log, version, vector, horizon, fence, pass, process, now, issued,
                 ghosts>>

\* ... and created again.
CreateCollection(n) ==
  /\ col[n] = 0
  /\ col' = [col EXCEPT ![n] = now + 1]
  /\ UNCHANGED <<localSeq, log, version, row, vector, horizon, fence, pass, process, now,
                 issued, ghosts, events>>

-----------------------------------------------------------------------------
(***************************************************************************)
(* Ingest and apply                                                        *)
(***************************************************************************)
\* (mutant) no fence.
AdmitsAll(n, o) == TRUE

\* insertOpRow: an operation at or behind the fence is refused if no version is
\* left to judge it by.
Admits(n, o) == version[n][o.key] # NoVersion \/ o.hlc > fence[n]

\* ingestOpsCount: the operations ops are stored and enqueued unless they are
\* known or refused, and the vector follows the log.
Ingest(n, ops) ==
  LET new == {o \in ops : o.src # n /\ o \notin Held(n)}
      in  == {o \in new : Admits(n, o)}
      all == Held(n) \cup in
  IN  /\ log'     = [log EXCEPT ![n] = @ \cup {[op |-> o, created |-> now] : o \in in}]
      /\ queue'   = [queue EXCEPT ![n] = @ \cup in]
      /\ refused' = refused \cup (new \ in)
      /\ vector'  = [vector EXCEPT ![n] = [src \in Node |->
           IF \E o \in ops : o.src = src /\ src # n
           THEN Contiguous(all, src, @[src]) ELSE @[src]]]

\* handleOps: somebody pushes an operation n has not, or no longer.
Push(n) ==
  /\ \E o \in issued : o.src \in Wanted[n] \ {n} /\ o \notin Held(n) /\ Ingest(n, {o})
  /\ UNCHANGED <<localSeq, version, row, col, horizon, fence, pass, clock, pull, now, issued,
                 lost, buried, gone, setBack, events>>

\* (mutant) an operation that was admitted may still be rejected.
RejectsBehindFence(n, o) == version[n][o.key] = NoVersion /\ o.hlc <= fence[n]

\* gcRejects
Rejects(n, o) ==
  version[n][o.key] = NoVersion /\ o \notin Held(n) /\ o.hlc <= fence[n]

\* The applier takes an operation: it is stale, rejected, or applied if the
\* collection is there (otherwise it is parked, which keeps it here).
Apply(n) ==
  /\ \E o \in queue[n] :
       /\ clock' = [clock EXCEPT ![n] = Merge(@, ClockOf(o.hlc))]
       /\ queue' = [queue EXCEPT ![n] = @ \ {o}]
       /\ IF Supersedes(n, o) /\ ~ Rejects(n, o)
          THEN /\ col[n] # 0
               /\ version' = [version EXCEPT ![n][o.key] = Stamp(o)]
               /\ row'     = [row EXCEPT ![n][o.key] = Written(o)]
               /\ buried'  = [buried EXCEPT ![n][o.key] = Buried(@, o)]
               /\ gone'    = [gone EXCEPT ![n] = @ \ {o.key}]
          ELSE UNCHANGED <<version, row, buried, gone>>
       /\ refused' = refused \cup IF Rejects(n, o) THEN {o} ELSE {}
  /\ UNCHANGED <<localSeq, log, col, vector, horizon, fence, pass, pull, now, issued, lost,
                 setBack, events>>

-----------------------------------------------------------------------------
(***************************************************************************)
(* A pass, one row at a time                                               *)
(***************************************************************************)
Expired(p, at)   == at + Retention < p.now
PastGrace(p, at) == at + Interval < p.now

\* The fence and the clock pass a tombstone that is dropped (gcHLCHorizon).
FencePasses(n, hlc) ==
  /\ fence' = [fence EXCEPT ![n] = Larger(@, hlc)]
  /\ clock' = [clock EXCEPT ![n] = Merge(@, ClockOf(hlc))]

\* gcHorizon
HorizonPasses(n, o) == horizon' = [horizon EXCEPT ![n][o.src] = Larger(@, o.seq)]

\* (mutant) the log row waits for the tombstone, and the tombstone for the row.
DroppableLast(n, p, e) ==
  \/ e.op.type = "delete" /\ Expired(p, e.created) /\ ~ version[n][e.op.key].deleted
  \/ NewerInLog(n, e.op.key, e.op) /\ PastGrace(p, e.created)

Droppable(n, p, e) ==
  \/ e.op.type = "delete" /\ Expired(p, e.created)
  \/ NewerInLog(n, e.op.key, e.op) /\ PastGrace(p, e.created)

\* A log row goes: a delete that has expired, or what a newer row beats.
DropLogRow(n, p, e) ==
  /\ Droppable(n, p, e)
  /\ log' = [log EXCEPT ![n] = @ \ {e}]
  /\ IF e.op.type = "delete" /\ Expired(p, e.created)
     THEN FencePasses(n, e.op.hlc) /\ HorizonPasses(n, e.op)
     ELSE UNCHANGED <<fence, clock, horizon>>
  /\ UNCHANGED <<localSeq, version, row, issued, buried, gone>>

\* (mutant) the applier's queue is not thought of.
OrphanOvertakes(n, r, x, localOrigin, seen) ==
  LET v   == version[n][r]
      has == v # NoVersion
  IN  /\ has \/ localOrigin
      /\ col[n] # 0 /\ (IF has THEN v.updated ELSE seen) >= col[n] - 1
      /\ row[n][r] = NoRow
      /\ v.deleted => ~ \E o \in Held(n) : o.key = r /\ o.type = "delete" /\ o.hlc >= v.hlc

\* repairOrphan's conditions: there is evidence that the record existed here, in
\* this collection, and neither a delete that is still in the log nor an
\* operation that waits for the applier explains its absence.
Orphan(n, r, x, localOrigin, seen) ==
  LET v   == version[n][r]
      has == v # NoVersion
  IN  /\ has \/ localOrigin
      /\ col[n] # 0 /\ (IF has THEN v.updated ELSE seen) >= col[n] - 1
      /\ row[n][r] = NoRow
      /\ v.deleted => ~ \E o \in Held(n) : o.key = r /\ o.type = "delete" /\ o.hlc >= v.hlc
      /\ ~ NewerInLog(n, r, IF has THEN v ELSE x)

\* repairOrphan: the record gets a new tombstone of its own.
Repair(n, r, x) ==
  /\ Issue(n, r, "delete",
           Merge(Merge(clock[n], ClockOf(x.hlc)), ClockOf(version[n][r].hlc)))
  /\ UNCHANGED <<horizon, fence>>

\* An old record without a newer operation may be an orphan.
Suspect(n, p, e) ==
  /\ ~ Droppable(n, p, e) /\ e.op.type = "upsert" /\ Expired(p, e.created)
  /\ ~ NewerInLog(n, e.op.key, e.op)
  /\ Orphan(n, e.op.key, e.op, e.op.src = n, e.created)

RepairLogRow(n, p, e) == Suspect(n, p, e) /\ Repair(n, e.op.key, e.op)

Unchanged == UNCHANGED <<localSeq, log, version, row, horizon, fence, clock, issued, buried,
                         gone>>

KeepLogRow(n, p, e) == ~ Droppable(n, p, e) /\ ~ Suspect(n, p, e) /\ Unchanged

Live(n, r) == ~ version[n][r].deleted /\ Orphan(n, r, version[n][r], FALSE, 0)

RepairVersion(n, p, r) == Live(n, r) /\ Repair(n, r, version[n][r])

Collectable(n, p, r) ==
  version[n][r].deleted /\ Expired(p, version[n][r].updated) /\ ~ OpsRemain(n, r)

\* A tombstone without operations goes.
DropVersion(n, p, r) ==
  /\ Collectable(n, p, r)
  /\ FencePasses(n, version[n][r].hlc)
  /\ version' = [version EXCEPT ![n][r] = NoVersion]
  /\ UNCHANGED <<localSeq, log, row, horizon, issued, buried, gone>>

KeepVersion(n, p, r) == ~ Live(n, r) /\ ~ Collectable(n, p, r) /\ Unchanged

\* The pass as compactBatch finds it: new if there is none, with what the phase
\* is to visit if that has not started.
Current(n) ==
  LET p == IF pass[n] = NoPass THEN [NoPass EXCEPT !.now = now] ELSE pass[n]
  IN  IF p.started THEN p
      ELSE IF p.phase = "oplog" THEN [p EXCEPT !.started = TRUE, !.rows = log[n]]
      ELSE [p EXCEPT !.started = TRUE, !.recs = {r \in Rec : version[n][r] # NoVersion}]

\* (mutant) the phase after the last one.
SavedNext(p) ==
  IF p.rows # {} \/ p.recs # {} THEN p
  ELSE [p EXCEPT !.phase = IF @ = "oplog" THEN "versions" ELSE "members", !.started = FALSE]

\* The pass as it is saved: after the last row of the log come the versions, after
\* the last version the pass is over.
Saved(p) ==
  IF p.rows # {} \/ p.recs # {} THEN p
  ELSE IF p.phase = "oplog" THEN [p EXCEPT !.phase = "versions", !.started = FALSE]
  ELSE NoPass

\* compactBatch: one row is visited and the pass saved in the same transaction.
Compact(n) ==
  LET p == Current(n)
      SavePass(q) == pass' = [pass EXCEPT ![n] = Saved(q)]
  IN  /\ pass[n] = NoPass => now \in PassTimes[n]
      /\ \/ p.rows = {} /\ p.recs = {} /\ Unchanged /\ SavePass(p)
         \/ \E e \in p.rows :
              /\ SavePass([p EXCEPT !.rows = @ \ {e}])
              /\ DropLogRow(n, p, e) \/ RepairLogRow(n, p, e) \/ KeepLogRow(n, p, e)
         \/ \E r \in p.recs :
              /\ SavePass([p EXCEPT !.recs = @ \ {r}])
              /\ DropVersion(n, p, r) \/ RepairVersion(n, p, r) \/ KeepVersion(n, p, r)
      /\ UNCHANGED <<col, vector, queue, pull, now, refused, lost, setBack, events>>

-----------------------------------------------------------------------------
(***************************************************************************)
(* Pulls                                                                   *)
(***************************************************************************)
StartPull(n) ==
  /\ events < MaxEvents /\ events' = events + 1
  /\ pull[n] = NoPull
  /\ \E p \in PullFrom[n] :
       pull' = [pull EXCEPT ![n] = [NoPull EXCEPT !.peer = p, !.cursor = CurrentVector(n)]]
  /\ UNCHANGED <<database, clock, queue, now, issued, ghosts>>

\* (mutant) the horizon is not compared with the cursor.
NoHorizon(p, src, after) == FALSE

\* Operations of src that the requester lacks may have been dropped at p.
BehindHorizon(p, src, after) == after[src] < horizon[p][src]

\* opsAfterVector, page by page: the sources in order, without those behind the
\* horizon; a source is reached while the page has room.
Offered(p, after) == {o \in Held(p) : o.seq > after[o.src] /\ ~ BehindHorizon(p, o.src, after)}
Ahead(ops, o)     == {x \in ops : x.src < o.src \/ (x.src = o.src /\ x.seq < o.seq)}
Page(p, after)    ==
  {o \in Offered(p, after) : Cardinality(Ahead(Offered(p, after), o)) < MaxBatch}
Reached(p, after, src) == Cardinality({o \in Offered(p, after) : o.src < src}) < MaxBatch

\* handlePull (skipRequesterOwnedOps: the requester has what it wrote).
Answer(n) ==
  LET p     == pull[n].peer
      after == [pull[n].cursor EXCEPT ![n] = Larger(@, CurrentVector(p)[n])]
      need  == \E src \in Node : Reached(p, after, src) /\ BehindHorizon(p, src, after)
  IN  /\ p # 0 /\ pull[n].answer = {}
      /\ pull' = [pull EXCEPT ![n].answer =
           {[ops |-> Page(p, after), vec |-> CurrentVector(p), required |-> need]}]
      /\ UNCHANGED <<database, clock, queue, now, issued, ghosts, events>>

\* pullFromPeer: a page is ingested, an empty one ends the pull and the vector of
\* the peer is adopted; a pull that needs a snapshot ends and adopts nothing.
TakePage(n) ==
  \E a \in pull[n].answer :
    /\ IF a.required
       THEN pull' = [pull EXCEPT ![n] = NoPull] /\ UNCHANGED <<log, queue, refused, vector>>
       ELSE IF a.ops = {}
       THEN /\ pull'   = [pull EXCEPT ![n] = NoPull]
            /\ vector' = [vector EXCEPT ![n] = Adopted(@, a.vec, n)]
            /\ UNCHANGED <<log, queue, refused>>
       ELSE /\ Ingest(n, a.ops)
            /\ pull' = [pull EXCEPT ![n].answer = {}, ![n].cursor = [src \in Node |->
                 LET seqs == {o.seq : o \in {x \in a.ops : x.src = src}} \cup {@[src]}
                 IN  CHOOSE s \in seqs : \A t \in seqs : t <= s]]
    /\ UNCHANGED <<localSeq, version, row, col, horizon, fence, pass, clock, now, issued, lost,
                   buried, gone, setBack, events>>

\* The call fails.
FailPull(n) ==
  /\ pull[n] # NoPull /\ pull' = [pull EXCEPT ![n] = NoPull]
  /\ UNCHANGED <<database, clock, queue, now, issued, ghosts, events>>

-----------------------------------------------------------------------------
\* (mutant) the clock resumes from what a sync round has saved only.
ResumeSaved(n, c) == c \in {[physical |-> p, logical |-> 0] : p \in 0 .. clock[n].physical}

\* initStorage: the clock resumes from the last one that was saved, which may be
\* any it has had, or from the fence, whichever is later.
Resume(n, c) ==
  \E saved \in [physical : 0 .. clock[n].physical, logical : 0 .. LogicalSize - 1] :
    Encode(saved) <= Encode(clock[n]) /\ c = Merge(saved, ClockOf(fence[n]))

\* The process dies; the pass goes on where its last batch has left it.
Crash(n) ==
  /\ n \in Lossy /\ events < MaxEvents /\ events' = events + 1
  /\ \E c \in [physical : 0 .. clock[n].physical, logical : 0 .. LogicalSize - 1] :
       Resume(n, c) /\ clock' = [clock EXCEPT ![n] = c]
  /\ setBack' = (setBack \/ clock'[n] # clock[n])
  /\ lost'  = [lost EXCEPT ![n] = @ \cup queue[n]]
  /\ queue' = [queue EXCEPT ![n] = {}]
  /\ pull'  = [pull EXCEPT ![n] = NoPull]
  /\ UNCHANGED <<database, now, issued, refused, buried, gone>>

NodeNext(n) ==
  \/ LocalWrite(n) \/ \E r \in Rec : RemoveUncaptured(n, r)
  \/ DropCollection(n) \/ CreateCollection(n)
  \/ Push(n) \/ Apply(n) \/ Compact(n)
  \/ StartPull(n) \/ Answer(n) \/ TakePage(n) \/ FailPull(n) \/ Crash(n)

CompactionNext == Time \/ \E n \in Node : NodeNext(n)

CompactionSpec == CompactionInit /\ [][CompactionNext]_vars

\* compactLoop comes again and the applier goes on; time passes.
CompactionFairSpec ==
  /\ CompactionSpec /\ WF_vars(Time)
  /\ \A n \in Node : WF_vars(Compact(n)) /\ WF_vars(Apply(n))

-----------------------------------------------------------------------------
(***************************************************************************)
(* Properties                                                              *)
(***************************************************************************)
\* A record that a node has deleted does not come back there from an older
\* write, however late that arrives and whatever has been collected since.
NoResurrection ==
  setBack \/ \A n \in Node : \A r \in Rec :
    row[n][r] # NoRow => Less(buried[n][r], version[n][r])

\* The clock of a node is never behind its fence, not after a crash either: what
\* it writes next is not taken for a replay of what was collected.
ClockPassesFence == \A n \in Node : fence[n] <= Encode(clock[n])

\* Every operation in the log has reached the data, is beaten, waits for the
\* applier or was lost in a crash, although the versions that tell are collected.
LogIsApplied ==
  setBack \/ \A n \in Node : \A o \in Held(n) :
    ~ Supersedes(n, o) \/ o \in queue[n] \/ o \in lost[n]

\* The vector of n covers the delete d, and n shows an older record.
Overlooked(n, d) ==
  /\ d.type = "delete" /\ d.src # n /\ d.seq <= vector[n][d.src]
  /\ row[n][d.key] # NoRow /\ Supersedes(n, d)

\* A node whose vector covers a delete does not show an older record, although
\* the delete may have been dropped before it was asked for; unless a node's
\* fence has refused the delete.
DeletesCovered ==
  setBack \/ \A n \in Node : \A d \in issued \ refused :
    Overlooked(n, d) =>
      \E x \in queue[n] \cup lost[n] : x.key = d.key /\ ~ Less(x, d)

\* A repair deletes a record only if it was removed without capture or deleted
\* before, and never while something that would bring it back is on its way to
\* the data (timestamps are seconds, so a collection that is created in the
\* second of the version cannot be told from the one before).  What waits is told
\* by the log: an operation that has waited for its collection until its log row
\* was collected, which moves the fence past it, is not seen.
RepairsAreDue ==
  [][\A n \in Node : \A o \in issued' \ issued :
       o.src = n /\ o.type = "delete" /\ row[n][o.key] = NoRow =>
         /\ \/ o.key \in gone[n] \/ version[n][o.key].deleted
            \/ version[n][o.key].updated = col[n] - 1
         /\ ~ \E x \in queue[n] : /\ x.key = o.key /\ Supersedes(n, x)
                                  /\ x \in Held(n) \/ x.hlc > fence[n]]_vars

\* The nodes of which passes run to the end of time.
Collectors == {n \in Node : MaxNow \in PassTimes[n]}

\* A pass ends and in the end nothing that has expired is kept: tombstones do not
\* pile up, although each pass looks at what was there when it started.
GarbageGoes ==
  <>[](\A n \in Collectors :
    /\ ~ \E e \in log[n] : e.op.type = "delete" /\ e.created + Retention < now
    /\ \A r \in Rec : version[n][r].deleted /\ version[n][r].updated + Retention < now
                        => OpsRemain(n, r))
=============================================================================
