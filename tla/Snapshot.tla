------------------------------ MODULE Snapshot ------------------------------
(***************************************************************************)
(* The logical snapshot (bootstrap.go): a node that joins, or that has     *)
(* fallen behind what a peer has collected, reads the records of the peer  *)
(* page by page, removes what the peer has not (reconcile) and adopts the  *)
(* vector the peer had in the beginning; around it users write, peers push *)
(* and pull, calls fail and processes die.                                 *)
(*                                                                         *)
(* Coarser than the modules these parts have to themselves: a pull is one  *)
(* step (OplogSync has its pages), and so is a garbage collection, which   *)
(* drops expired deletes and tombstones (Compaction has its batches and    *)
(* the repairs).  Seen-set, page and cursor are stored in this order in    *)
(* three transactions and are one step here: a page that is read again     *)
(* after a crash in between changes nothing.  So are the end of the resume *)
(* state and the adoption of the vector, which a crash in between leaves   *)
(* to the next snapshot.  The schema, which comes first, stays the same.   *)
(***************************************************************************)
EXTENDS Lww

CONSTANTS
  Node,         \* node ids; naturals, because the code orders them
  Col,          \* collections
  Rec,          \* records, pairs of a collection and an id, which is a natural
  Retention,    \* cfg.TombstoneRetention
  ResumeAge,    \* maxSnapshotResumeAge
  MaxBatch,     \* cfg.MaxBatch of a page
  Fresh,        \* nodes that may be new to the cluster
  PullFrom,     \* PullFrom[n]: the peers n pulls and takes snapshots from
  Collecting,   \* bound: nodes that collect garbage
  Writes,       \* bound: users of n write while it has issued fewer operations
  UserWrites,   \* bound: what users of n do, and to which records
  Wanted,       \* bound: Wanted[n], the sources whose operations are pushed to n
  MaxNow,       \* bound: time
  MaxEvents     \* bound: crashes and failed calls, together

ASSUME SnapshotAssumption ==
  /\ Node \subseteq Nat \ {0} /\ IsFiniteSet(Node)
  /\ Rec \subseteq Col \X (Nat \ {0}) /\ IsFiniteSet(Rec)
  /\ \A c \in Col : \E r \in Rec : r[1] = c
  /\ Retention \in Nat /\ ResumeAge \in Nat /\ MaxBatch \in Nat \ {0}
  /\ Fresh \subseteq Node /\ PullFrom \in [Node -> SUBSET Node]
  /\ Collecting \subseteq Node /\ Writes \in [Node -> Nat]
  /\ UserWrites \in [Node -> SUBSET [type : {"upsert", "delete"}, key : Rec]]
  /\ Wanted \in [Node -> SUBSET Node] /\ MaxNow \in Nat /\ MaxEvents \in Nat

Op == [src : Node, seq : Nat \ {0}, hlc : Nat, type : {"upsert", "delete"}, key : Rec]

\* A row of _repl_versions.  Source 0 stands for "snapshot-reconcile" too.
Version   == [hlc : Nat, src : Node \cup {0}, deleted : BOOLEAN, updated : Nat]
NoVersion == [hlc |-> 0, src |-> 0, deleted |-> FALSE, updated |-> 0]

\* The payload of a record is the operation that wrote it.
Payload == [src : Node, seq : Nat \ {0}]
NoRow   == [src |-> 0, seq |-> 0]

Vector == [Node -> Nat]
IdsOf(c)  == {r[2] : r \in {x \in Rec : x[1] = c}}

VARIABLES
  \* in the database: survives a crash
  localSeq,   \* localSeq[n]: _repl_state local_seq
  log,        \* log[n]: _repl_oplog, each operation with the time it was stored
  version,    \* version[n][r]: _repl_versions
  row,        \* row[n][r]: the record, NoRow if there is none
  vector,     \* vector[n][src]: _repl_state vector.<src>
  horizon,    \* horizon[n][src]: _repl_compaction min_seq
  fence,      \* fence[n]: _repl_state gc_hlc
  joined,     \* joined[n]: _repl_state bootstrap_done
  resume,     \* resume[n]: _repl_state snapshot_resume
  seen,       \* seen[n]: _repl_sync_seen of the run
  \* in the process
  clock,      \* clock[n]: the hybrid logical clock
  queue,      \* queue[n]: in the log and not applied yet
  snap,       \* snap[n]: the snapshot n is taking
  \* the world
  now,        \* time
  issued,     \* every operation so far
  \* history
  shown,      \* shown[n]: what its peer has had all through the run of n
  doubt,      \* doubt[n]: records a snapshot cannot vouch for
  events

database == <<localSeq, log, version, row, vector, horizon, fence, joined, resume, seen>>
process  == <<clock, queue, snap>>
vars     == <<database, process, now, issued, shown, doubt, events>>

\* snapshotResume: per collection the cursor, or that it is done, which is the id
\* after the last one.
End(c)      == 1 + CHOOSE i \in IdsOf(c) : \A j \in IdsOf(c) : j <= i
NoRun       == [peer |-> 0, reconcile |-> FALSE, started |-> 0, cols |-> [c \in Col |-> 0]]
ResumeState == [peer : Node \cup {0}, reconcile : BOOLEAN, started : Nat, cols : [Col -> Nat]]

\* A snapshot: what meta said, the collections left, and where it is: between
\* collections, with a page half read or read, reconciling, about to delete.
Item      == [key : Rec, payload : Payload, hlc : Nat, src : Node \cup {0}]
SnapState == [peer : Node \cup {0}, vector : Vector, horizon : Nat, left : SUBSET Col,
              at : {"next", "ask", "read", "page", "list", "judge", "delete"},
              col : Col \cup {0}, page : SUBSET Item, extra : SUBSET Rec,
              victim : SUBSET [key : Rec, hlc : Nat]]
NoSnap    == [peer |-> 0, vector |-> [m \in Node |-> 0], horizon |-> 0, left |-> {},
              at |-> "next", col |-> 0, page |-> {}, extra |-> {}, victim |-> {}]

SnapshotTypeOK ==
  /\ localSeq \in Vector
  /\ log \in [Node -> SUBSET [op : Op, created : Nat]]
  /\ version \in [Node -> [Rec -> Version]]
  /\ row \in [Node -> [Rec -> Payload \cup {NoRow}]]
  /\ vector \in [Node -> Vector] /\ horizon \in [Node -> Vector]
  /\ fence \in [Node -> Nat] /\ joined \in [Node -> BOOLEAN]
  /\ resume \in [Node -> ResumeState] /\ seen \in [Node -> SUBSET Rec]
  /\ clock \in [Node -> Clock] /\ queue \in [Node -> SUBSET Op] /\ snap \in [Node -> SnapState]
  /\ now \in Nat /\ issued \in SUBSET Op
  /\ shown \in [Node -> SUBSET Rec] /\ doubt \in [Node -> SUBSET Rec]
  /\ events \in Nat

-----------------------------------------------------------------------------
Held(n)          == {e.op : e \in log[n]}
Supersedes(n, o) == Less(version[n][o.key], o)
CurrentVector(n) == [vector[n] EXCEPT ![n] = Larger(@, localSeq[n])]

Stamp(o)   == [hlc |-> o.hlc, src |-> o.src, deleted |-> o.type = "delete", updated |-> now]
Written(o) == IF o.type = "upsert" THEN [src |-> o.src, seq |-> o.seq] ELSE NoRow

SnapshotInit ==
  /\ localSeq = [n \in Node |-> 0]
  /\ log      = [n \in Node |-> {}]
  /\ version  = [n \in Node |-> [r \in Rec |-> NoVersion]]
  /\ row      = [n \in Node |-> [r \in Rec |-> NoRow]]
  /\ vector   = [n \in Node |-> [m \in Node |-> 0]]
  /\ horizon  = [n \in Node |-> [m \in Node |-> 0]]
  /\ fence    = [n \in Node |-> 0]
  /\ joined \in {j \in [Node -> BOOLEAN] : \A n \in Node \ Fresh : j[n]}
  /\ resume   = [n \in Node |-> NoRun]
  /\ seen     = [n \in Node |-> {}]
  /\ clock    = [n \in Node |-> Zero]
  /\ queue    = [n \in Node |-> {}]
  /\ snap     = [n \in Node |-> NoSnap]
  /\ now = 0 /\ issued = {} /\ events = 0
  /\ shown    = [n \in Node |-> {}]
  /\ doubt    = [n \in Node |-> {}]

-----------------------------------------------------------------------------
(***************************************************************************)
(* Around the snapshot                                                     *)
(***************************************************************************)
\* A unit of time is of the order of the retention: a snapshot takes less.
Time == /\ now < MaxNow /\ now' = now + 1
        /\ \A n \in Node : snap[n] = NoSnap /\ queue[n] = {}
        /\ UNCHANGED <<database, process, issued, doubt, events>>

\* captureRecord.  A snapshot does not observe the timestamps it stores, so the
\* write may be older than the version it replaces.
LocalWrite(n) ==
  /\ localSeq[n] < Writes[n]
  /\ localSeq' = [localSeq EXCEPT ![n] = @ + 1]
  /\ clock'    = [clock EXCEPT ![n] = Tick(@, now)]
  /\ \E w \in UserWrites[n] :
       LET o == [src |-> n, seq |-> localSeq[n] + 1, hlc |-> Encode(clock'[n]),
                 type |-> w.type, key |-> w.key]
       IN  /\ w.type = "delete" => row[n][w.key] # NoRow
           /\ log'     = [log EXCEPT ![n] = @ \cup {[op |-> o, created |-> now]}]
           /\ issued'  = issued \cup {o}
           /\ version' = [version EXCEPT ![n][w.key] = Stamp(o)]
           /\ row'     = [row EXCEPT ![n][w.key] = Written(o)]
           /\ doubt'   = [doubt EXCEPT ![n] = @ \cup
                IF Less(o, version[n][w.key]) THEN {w.key} ELSE {}]
  /\ UNCHANGED <<vector, horizon, fence, joined, resume, seen, queue, snap, now, events>>

\* ingestOpsCount, behind the fence (insertOpRow); a pull adopts a vector in the end.
Ingest(n, ops, theirs) ==
  LET in  == {o \in ops : /\ o.src # n /\ o \notin Held(n)
                          /\ version[n][o.key] # NoVersion \/ o.hlc > fence[n]}
      all == Held(n) \cup in
  IN  /\ log'    = [log EXCEPT ![n] = @ \cup {[op |-> o, created |-> now] : o \in in}]
      /\ queue'  = [queue EXCEPT ![n] = @ \cup in]
      /\ vector' = [vector EXCEPT ![n] =
           Adopted([src \in Node |-> IF \E o \in ops : o.src = src /\ src # n
                                     THEN Contiguous(all, src, @[src]) ELSE @[src]], theirs, n)]

\* handleOps: somebody pushes an operation n has not, or no longer.
Push(n) ==
  /\ \E o \in issued : o.src \in Wanted[n] \ {n} /\ o \notin Held(n) /\ Ingest(n, {o}, vector[n])
  /\ UNCHANGED <<localSeq, version, row, horizon, fence, joined, resume, seen, clock, snap, now,
                 issued, doubt, events>>

\* The applier (applyRecordOp, gcRejects).
Apply(n) ==
  /\ \E o \in queue[n] :
       /\ clock' = [clock EXCEPT ![n] = Merge(@, ClockOf(o.hlc))]
       /\ queue' = [queue EXCEPT ![n] = @ \ {o}]
       /\ IF /\ Supersedes(n, o)
             /\ version[n][o.key] # NoVersion \/ o \in Held(n) \/ o.hlc > fence[n]
          THEN /\ version' = [version EXCEPT ![n][o.key] = Stamp(o)]
               /\ row'     = [row EXCEPT ![n][o.key] = Written(o)]
          ELSE UNCHANGED <<version, row>>
  /\ UNCHANGED <<localSeq, log, vector, horizon, fence, joined, resume, seen, snap, now, issued,
                 doubt, events>>

\* A whole pass of the collector: expired deletes go, what is beaten, and the
\* tombstones without operations.
Collect(n) ==
  LET expired == {e \in log[n] : e.op.type = "delete" /\ e.created + Retention < now}
      beaten  == {e \in log[n] : /\ e.created < now
                                 /\ \E o \in Held(n) : o.key = e.op.key /\ Less(e.op, o)}
      kept    == log[n] \ (expired \cup beaten)
      tombs   == {r \in Rec : /\ version[n][r].deleted /\ version[n][r].updated + Retention < now
                              /\ ~ \E e \in kept : e.op.key = r}
      hlcs    == {e.op.hlc : e \in expired} \cup {version[n][r].hlc : r \in tombs} \cup {fence[n]}
      seqs(src) == {e.op.seq : e \in {x \in expired : x.op.src = src}} \cup {horizon[n][src]}
  IN  /\ n \in Collecting /\ (expired # {} \/ tombs # {})
      /\ log'     = [log EXCEPT ![n] = kept]
      /\ horizon' = [horizon EXCEPT ![n] = [src \in Node |->
                       CHOOSE s \in seqs(src) : \A t \in seqs(src) : t <= s]]
      /\ version' = [version EXCEPT ![n] = [r \in Rec |-> IF r \in tombs THEN NoVersion ELSE @[r]]]
      /\ fence'   = [fence EXCEPT ![n] = CHOOSE h \in hlcs : \A k \in hlcs : k <= h]
      /\ clock'   = [clock EXCEPT ![n] = Merge(@, ClockOf(fence'[n]))]
      /\ UNCHANGED <<localSeq, row, vector, joined, resume, seen, queue, snap, now, issued,
                     doubt, events>>

-----------------------------------------------------------------------------
(***************************************************************************)
(* The snapshot                                                            *)
(***************************************************************************)
KeysOf(ops)  == {o.key : o \in ops}
Paged(run)   == {r \in Rec : r[2] <= run.cols[r[1]]}

\* loadOrStartSnapshotResume: the interrupted run goes on if it is of the same
\* kind, from the same peer and young.
Resumable(n, p, reconcile) ==
  /\ resume[n].peer = p /\ resume[n].reconcile = reconcile
  /\ now < resume[n].started + ResumeAge

\* serveSnapshotMeta
Meta(p) ==
  [vector  |-> CurrentVector(p),
   horizon |-> Larger(fence[p], IF now < Retention THEN 0
                 ELSE Encode([physical |-> now - Retention, logical |-> 0]))]

\* (mutant) whatever is left of the seen-set goes.
SeenNothing(n, goesOn) == {}

\* A new run begins with an empty seen-set (deleteSyncSeen).
SeenBefore(n, goesOn) == IF goesOn THEN seen[n] ELSE {}

StartSnapshot(n, p, reconcile) ==
  LET goesOn == Resumable(n, p, reconcile)
      run    == IF goesOn THEN resume[n]
                ELSE [NoRun EXCEPT !.peer = p, !.reconcile = reconcile, !.started = now]
  IN  /\ snap[n] = NoSnap
      /\ resume' = [resume EXCEPT ![n] = run]
      /\ seen'   = [seen EXCEPT ![n] = SeenBefore(n, goesOn)]
      /\ snap'   = [snap EXCEPT ![n] =
           [NoSnap EXCEPT !.peer = p, !.vector = Meta(p).vector, !.horizon = Meta(p).horizon,
                          !.left = {c \in Col : reconcile \/ run.cols[c] # End(c)}]]
      /\ doubt'  = [doubt EXCEPT ![n] = @ \cup doubt[p] \cup KeysOf(queue[p])
                                        \cup (IF goesOn THEN Paged(run) ELSE {})]

\* bootstrapOrRejoin of a node that has not joined yet.
Join(n) ==
  /\ ~ joined[n] /\ \E p \in PullFrom[n] : joined[p] /\ StartSnapshot(n, p, FALSE)
  /\ UNCHANGED <<localSeq, log, version, row, vector, horizon, fence, joined, clock, queue, now,
                 issued, events>>

\* The operations that the vector of p covers, that its log cannot give to one who
\* is at `after`, and that nothing in the log stands for.
Hidden(p, after) ==
  {o \in issued : /\ o.seq > after[o.src] /\ o.seq <= CurrentVector(p)[o.src]
                  /\ o \notin Held(p)
                  /\ ~ \E x \in Held(p) : x.key = o.key /\ Less(o, x)}

\* pullFromPeer, all pages: what p has and n lacks, and then the vector of p; or a
\* snapshot, if p has dropped what n lacks (triggerSnapshotResync).
Pull(n) ==
  /\ joined[n]
  /\ \E p \in PullFrom[n] :
       LET after  == [CurrentVector(n) EXCEPT ![n] = Larger(@, CurrentVector(p)[n])]
           behind == \E src \in Node : after[src] < horizon[p][src]
       IN  /\ joined[p]
           /\ IF behind
              THEN StartSnapshot(n, p, TRUE) /\ UNCHANGED <<log, queue, vector>>
              ELSE /\ CurrentVector(p) # after
                   /\ Ingest(n, {o \in Held(p) : o.seq > after[o.src]}, CurrentVector(p))
                   /\ doubt' = [doubt EXCEPT ![n] = @ \cup doubt[p] \cup KeysOf(Hidden(p, after))]
                   /\ UNCHANGED <<resume, seen, snap>>
  /\ UNCHANGED <<localSeq, version, row, horizon, fence, joined, clock, now, issued, events>>

\* serveSnapshotRecords: first the records of a page ...
ReadRows(n) ==
  /\ snap[n].at \in {"next", "ask"}
  /\ \E c \in IF snap[n].at = "ask" THEN {snap[n].col} ELSE snap[n].left :
       LET p    == snap[n].peer
           rest == {i \in IdsOf(c) : i > resume[n].cols[c] /\ row[p][<<c, i>>] # NoRow}
           ids  == {i \in rest : Cardinality({j \in rest : j < i}) < MaxBatch}
       IN  /\ resume[n].cols[c] # End(c)
           /\ snap' = [snap EXCEPT ![n].col = c, ![n].at = "read", ![n].page =
                {[key |-> <<c, i>>, payload |-> row[p][<<c, i>>], hlc |-> 0, src |-> 0] : i \in ids}]
  /\ UNCHANGED <<database, clock, queue, now, issued, doubt, events>>

\* The version is not that of the operation the payload comes from.
Torn(i, v) == ~ \E o \in issued : /\ o.src = i.payload.src /\ o.seq = i.payload.seq
                                  /\ o.src = v.src /\ o.hlc = v.hlc

\* ... then their versions.
ReadVersions(n) ==
  /\ snap[n].at = "read"
  /\ LET ver(i) == version[snap[n].peer][i.key]
     IN  /\ snap'  = [snap EXCEPT ![n].at = "page", ![n].page = {
              IF ver(i) = NoVersion THEN [i EXCEPT !.hlc = 1, !.src = snap[n].peer]
              ELSE [i EXCEPT !.hlc = ver(i).hlc, !.src = ver(i).src] : i \in snap[n].page}]
         /\ doubt' = [doubt EXCEPT ![n] = @ \cup
              {i.key : i \in {x \in snap[n].page : Torn(x, ver(x))}}]
  /\ UNCHANGED <<database, clock, queue, now, issued, events>>

\* (mutant) the state in between has no name.
NextNowhere(s) == [s EXCEPT !.left = @ \ {s.col}, !.at = "end", !.col = 0]

\* The collection is over; the next one, if any.
NextCollection(s) == [s EXCEPT !.left = @ \ {s.col}, !.at = "next", !.col = 0]

\* (mutant) what the peer has is as good as anything.
TakesAll(n, i) == i.src # n

\* The gate of applySnapshotBatch; a node does not take what it wrote itself.
Takes(n, i) == i.src # n /\ Less(version[n][i.key], i)

\* snapshotCollection: a page is noted, applied and passed.
TakePage(n) ==
  LET s     == snap[n]
      wins  == {i \in s.page : Takes(n, i)}
      last  == Cardinality(s.page) < MaxBatch
      ids   == {i.key[2] : i \in s.page}
      item(r) == CHOOSE i \in wins : i.key = r
  IN  /\ s.at = "page"
      /\ version' = [version EXCEPT ![n] = [r \in Rec |-> IF r \in {i.key : i \in wins}
           THEN [hlc |-> item(r).hlc, src |-> item(r).src, deleted |-> FALSE, updated |-> now]
           ELSE @[r]]]
      /\ row' = [row EXCEPT ![n] = [r \in Rec |->
           IF r \in {i.key : i \in wins} THEN item(r).payload ELSE @[r]]]
      /\ seen' = [seen EXCEPT ![n] = @ \cup
           IF resume[n].reconcile THEN {i.key : i \in s.page} ELSE {}]
      /\ resume' = [resume EXCEPT ![n].cols[s.col] =
           IF last THEN End(s.col) ELSE CHOOSE i \in ids : \A j \in ids : j <= i]
      /\ snap' = [snap EXCEPT ![n] =
           IF ~ last THEN [s EXCEPT !.at = "ask", !.page = {}]
           ELSE IF resume[n].reconcile THEN [s EXCEPT !.at = "list", !.page = {}]
           ELSE NextCollection([s EXCEPT !.page = {}])]
      /\ UNCHANGED <<localSeq, log, vector, horizon, fence, joined, clock, queue, now, issued,
                     doubt, events>>

\* A call fails: the collection is skipped.
PageFails(n) ==
  /\ events < MaxEvents /\ events' = events + 1
  /\ snap[n].at \in {"read", "page"}
  /\ snap'  = [snap EXCEPT ![n] = NextCollection([@ EXCEPT !.page = {}])]
  /\ doubt' = [doubt EXCEPT ![n] = @ \cup {r \in Rec : r[1] = snap[n].col}]
  /\ UNCHANGED <<database, clock, queue, now, issued>>

\* Deletes that the vector of the peer covers and that have left no trace at n: a
\* snapshot has no tombstones.
Unheard(n) == {d \in issued : /\ d.type = "delete" /\ d.seq <= snap[n].vector[d.src]
                              /\ Supersedes(n, d)}

\* reconcileCollection: the records of n that the peer has not shown ...
ListExtra(n) ==
  /\ \/ snap[n].at = "list"
     \/ snap[n].at = "next" /\ resume[n].reconcile
  /\ \E c \in IF snap[n].at = "list" THEN {snap[n].col} ELSE snap[n].left :
       /\ resume[n].cols[c] = End(c)
       /\ LET extra == {r \in Rec : r[1] = c /\ row[n][r] # NoRow /\ r \notin seen[n]}
              s     == [snap[n] EXCEPT !.col = c]
          IN  snap' = [snap EXCEPT ![n] =
                IF extra = {} THEN NextCollection(s) ELSE [s EXCEPT !.at = "judge", !.extra = extra]]
       /\ doubt' = [doubt EXCEPT ![n] = @ \cup
            {r \in KeysOf(Unheard(n)) : r[1] = c /\ row[n][r] = NoRow}]
  /\ UNCHANGED <<database, clock, queue, now, issued, events>>

Judged(s, r) == LET t == [s EXCEPT !.extra = @ \ {r}, !.victim = {}]
                IN  IF t.extra = {} THEN NextCollection(t) ELSE [t EXCEPT !.at = "judge"]

\* ... stay if they were written after the horizon ...
Keep(n) ==
  /\ snap[n].at = "judge"
  /\ \E r \in snap[n].extra :
       /\ version[n][r] # NoVersion /\ version[n][r].hlc >= snap[n].horizon
       /\ snap'  = [snap EXCEPT ![n] = Judged(@, r)]
       /\ doubt' = [doubt EXCEPT ![n] = @ \cup {r}]
  /\ UNCHANGED <<database, clock, queue, now, issued, events>>

\* ... or else are condemned, with the timestamp of now ...
Condemn(n) ==
  /\ snap[n].at = "judge"
  /\ \E r \in snap[n].extra :
       /\ version[n][r] = NoVersion \/ version[n][r].hlc < snap[n].horizon
       /\ clock' = [clock EXCEPT ![n] = Tick(@, now)]
       /\ snap'  = [snap EXCEPT ![n].at = "delete", ![n].victim =
                      {[key |-> r, hlc |-> Encode(clock'[n])]}]
  /\ UNCHANGED <<database, queue, now, issued, doubt, events>>

\* ... and deleted, whatever has become of them since (applyReconcileDelete).
Delete(n) ==
  /\ snap[n].at = "delete"
  /\ \E v \in snap[n].victim :
       /\ snap' = [snap EXCEPT ![n] = Judged(@, v.key)]
       /\ IF row[n][v.key] = NoRow THEN UNCHANGED <<version, row, doubt>>
          ELSE /\ row'     = [row EXCEPT ![n][v.key] = NoRow]
               /\ version' = [version EXCEPT ![n][v.key] =
                    [hlc |-> v.hlc, src |-> 0, deleted |-> TRUE, updated |-> now]]
               /\ doubt'   = [doubt EXCEPT ![n] = @ \cup
                    IF \E d \in issued : /\ d.key = v.key /\ d.type = "delete"
                                         /\ Less(version[n][v.key], d)
                    THEN {} ELSE {v.key}]
  /\ UNCHANGED <<localSeq, log, vector, horizon, fence, joined, resume, seen, clock, queue, now,
                 issued, events>>

\* (mutant) the vector of the peer as it is in the end.
VectorNow(n) == CurrentVector(snap[n].peer)

\* The vector that meta has brought, before any page.
VectorThen(n) == snap[n].vector

\* The run is over: its state goes, and the vector of the peer is adopted.
Finish(n) ==
  /\ snap[n].peer # 0 /\ snap[n].at = "next" /\ snap[n].left = {}
  /\ vector' = [vector EXCEPT ![n] = Adopted(@, VectorThen(n), n)]
  /\ joined' = [joined EXCEPT ![n] = TRUE]
  /\ doubt'  = [doubt EXCEPT ![n] = @ \cup
                  IF resume[n].reconcile THEN {} ELSE KeysOf(Unheard(n))]
  /\ resume' = [resume EXCEPT ![n] = NoRun]
  /\ seen'   = [seen EXCEPT ![n] = {}]
  /\ snap'   = [snap EXCEPT ![n] = NoSnap]
  /\ UNCHANGED <<localSeq, log, version, row, horizon, fence, clock, queue, now, issued, events>>

\* The process dies (HlcClock has what becomes of the clock).
Crash(n) ==
  /\ events < MaxEvents /\ events' = events + 1
  /\ queue' = [queue EXCEPT ![n] = {}]
  /\ snap'  = [snap EXCEPT ![n] = NoSnap]
  /\ doubt' = [doubt EXCEPT ![n] = @ \cup KeysOf(queue[n])]
  /\ UNCHANGED <<database, clock, now, issued>>

SnapshotStep(n) ==
  \/ ReadRows(n) \/ ReadVersions(n) \/ TakePage(n) \/ ListExtra(n) \/ Keep(n) \/ Condemn(n)
  \/ Delete(n) \/ Finish(n)

NodeNext(n) ==
  \/ LocalWrite(n) \/ Push(n) \/ Apply(n) \/ Collect(n) \/ Pull(n) \/ Join(n)
  \/ SnapshotStep(n) \/ PageFails(n) \/ Crash(n)

\* What the peer of a run has had ever since the run began.
StillShown(n) ==
  LET run   == resume'[n]
      began == [resume[n] EXCEPT !.cols = run.cols] # run
  IN  {r \in (IF began THEN Rec ELSE shown[n]) : run.peer # 0 /\ row'[run.peer][r] # NoRow}

SnapshotNext ==
  /\ Time \/ \E n \in Node : NodeNext(n)
  /\ shown' = [n \in Node |-> StillShown(n)]

SnapshotSpec == SnapshotInit /\ [][SnapshotNext]_vars

-----------------------------------------------------------------------------
(***************************************************************************)
(* Properties                                                              *)
(***************************************************************************)
\* o is the last word on its record.
Newest(o) == ~ \E x \in issued : x.key = o.key /\ Less(o, x)

\* If o is the last word on its record and the vector of n covers it, n shows it, or
\* something waits for the applier.
Shows(n, o) ==
  Newest(o) /\ o.seq <= CurrentVector(n)[o.src] =>
    row[n][o.key] = Written(o) \/ o.key \in KeysOf(queue[n])

\* A node whose vector covers the last word on a record shows it, whatever was
\* written while the snapshot was paged; except of the records a snapshot cannot
\* vouch for: what its peer had in its queue, what was paged before the run was
\* resumed, a collection that was skipped, a record that changed between a page and
\* its versions, one that was kept or deleted at the discretion of the horizon, a
\* delete that left no trace, and what no log can tell.
SnapshotIsComplete ==
  \A n \in Node : \A o \in issued : o.key \notin doubt[n] => Shows(n, o)

\* "adopt the peer's vector (captured BEFORE the record paging, so anything written
\* meanwhile is replayed afterwards - idempotent)" (bootstrap.go:525) and "Safe because
\* the peer's vector covers exactly the effects contained in the retained ops paged
\* through above" (sync.go:488): what a vector covers, its node shows.
VectorIsShown == \A n \in Node : \A o \in issued : Shows(n, o)

\* Reconciling never deletes a record the peer has had all along.
ReconcilesWhatIsGone ==
  [][\A n \in Node : Delete(n) => \A v \in snap[n].victim :
        row[n][v.key] # NoRow => v.key \notin shown[n]]_vars

\* A snapshot never takes a record back to an older version.
NewerWritesSurvive ==
  [][\A n \in Node : TakePage(n) => \A r \in Rec : ~ Less(version'[n][r], version[n][r])]_vars
=============================================================================
