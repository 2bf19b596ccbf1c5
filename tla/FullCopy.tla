------------------------------ MODULE FullCopy ------------------------------
(***************************************************************************)
(* The full database copy (dbcopy.go, dbsnapshot.go): before a node that   *)
(* is new, or flagged for resync, opens its database, it downloads that of *)
(* its seed in chunks, puts its own unsynced writes aside in a file,       *)
(* rewrites the copy as its own, installs it, and once it serves applies   *)
(* what it put aside again and issues it anew.  Around it both nodes write *)
(* and exchange operations, calls break, snapshots expire, processes die   *)
(* and a disk is lost.                                                     *)
(*                                                                         *)
(* One seed and one client.  Both apply what they receive at once, a pull   *)
(* is one step, and so is a collection of the seed, at any time (OplogSync, *)
(* Apply and Compaction have them in detail, and Snapshot what a copy       *)
(* misses that is taken while operations wait for the applier).  No process *)
(* forgets its clock (HlcClock has what becomes of it).  The client opens   *)
(* and closes its old database, which empties its WAL, before anything      *)
(* replaces it.                                                             *)
(***************************************************************************)
EXTENDS Lww, Sequences

CONSTANTS
  Seed, Client, \* node ids; naturals, because the code orders them
  Key,          \* records, and collections
  Schema,       \* the keys that are collections
  Size,         \* of a snapshot file
  Chunk,        \* cfg.FullCopyChunkSize
  Writes,       \* bound: Writes[n], operations that users of n issue
  UserWrites,   \* bound: UserWrites[n], what users of n do, and to which keys
  MaxSnapshots, \* bound: snapshots the seed makes
  MaxResyncs,   \* bound: times the operator restarts a flagged node
  MaxEvents     \* bound: crashes and broken calls, together

Node == {Seed, Client}

ASSUME CopyAssumption ==
  /\ Node \subseteq Nat \ {0} /\ Seed # Client
  /\ IsFiniteSet(Key) /\ Schema \subseteq Key
  /\ Size \in Nat \ {0} /\ Chunk \in Nat \ {0}
  /\ Writes \in [Node -> Nat] /\ MaxSnapshots \in Nat
  /\ MaxResyncs \in Nat /\ MaxEvents \in Nat
  /\ UserWrites \in [Node -> SUBSET [type : {"upsert", "delete"}, key : Key]]

Vector == [Node -> Nat]
Op     == [src : Node, seq : Nat \ {0}, hlc : Nat, type : {"upsert", "delete"}, key : Key]

\* A row of _repl_versions, and what a record holds: the write it comes from.
Version   == [hlc : Nat, src : Node \cup {0}, deleted : BOOLEAN]
NoVersion == [hlc |-> 0, src |-> 0, deleted |-> FALSE]
Payload   == [hlc : Nat, src : Node]
NoRow     == [hlc |-> 0, src |-> 0]

\* A database: _repl_oplog, _repl_versions, the records, and of _repl_state and
\* _repl_compaction what matters here; at last, what its file is made of.
Database ==
  [log : SUBSET Op, version : [Key -> Version], row : [Key -> Payload \cup {NoRow}],
   localSeq : Nat, vector : Vector, horizon : Vector, fence : Nat, hlc : Nat,
   pending : BOOLEAN, bytes : {"whole", "mixed", "stale wal"}]
Empty ==
  [log |-> {}, version |-> [k \in Key |-> NoVersion], row |-> [k \in Key |-> NoRow],
   localSeq |-> 0, vector |-> [n \in Node |-> 0], horizon |-> [n \in Node |-> 0], fence |-> 0,
   hlc |-> 0, pending |-> FALSE, bytes |-> "whole"]

\* dbSnapshotManifest, with the database in the file.
Snapshot == [vector : Vector, hlc : Nat, db : Database]
Id       == 1 .. MaxSnapshots

\* incoming.db and its WAL: the snapshot the bytes are of, whether they are its first
\* ones, and the snapshots that pages in the WAL are of.
File   == [of : Id \cup {0}, size : Nat, prefix : BOOLEAN, wal : SUBSET Id]
NoFile == [of |-> 0, size |-> 0, prefix |-> TRUE, wal |-> {}]

\* rescueState
Rescue   == [ops : SUBSET Op, localSeq : Nat, hlc : Nat]
NoRescue == [ops |-> {}, localSeq |-> 0, hlc |-> 0]

\* Where the client is, the manifest it has, the next offset and the place in the file,
\* its identity, and what is left to replay.
Process == [at : {"down", "manifest", "sidecar", "truncate", "chunk", "rescue", "sanitize",
                  "close", "install", "open", "serving"},
            id : Id \cup {0}, offset : Nat, pos : Nat, own : Rescue,
            replaying : BOOLEAN, left : SUBSET Op, emit : SUBSET Op,
            bytes : {"whole", "mixed", "stale wal"}]
Down    == [at |-> "down", id |-> 0, offset |-> 0, pos |-> 0, own |-> NoRescue,
            replaying |-> FALSE, left |-> {}, emit |-> {}, bytes |-> "whole"]

VARIABLES
  db,         \* db[n]: data.db of n
  here,       \* whether the client has a data.db
  clock,      \* clock[n]: the hybrid logical clock
  made,       \* made[i]: snapshot i of the seed
  reading,    \* of the seed: what it had when it read the vector of a snapshot, if any
  cached,     \* of the seed: dbSnapManifest, 0 if there is none
  onDisk,     \* of the seed: the snapshot files it has
  incoming,   \* of the client: incoming.db
  sidecar,    \* of the client: the snapshot of incoming.manifest.json
  rescue,     \* of the client: rescue.json, a set of at most one
  client,     \* the process of the client
  issued,     \* every operation so far
  doubt,      \* history: keys a copy cannot vouch for
  cut,        \* history: collections applied again, and not issued again for a crash
  resyncs,    \* how often the operator has restarted it
  unknown,    \* history: operations of the client lost with a disk and not in the copy
  events

seedVars   == <<made, reading, cached, onDisk>>
clientVars == <<here, incoming, sidecar, rescue, client>>
history    == <<doubt, cut, unknown, resyncs>>
vars       == <<db, clock, seedVars, clientVars, issued, history, events>>

CopyTypeOK ==
  /\ db \in [Node -> Database] /\ here \in BOOLEAN /\ clock \in [Node -> Clock]
  /\ made \in Seq(Snapshot)
  /\ reading \in SUBSET Database /\ cached \in DOMAIN made \cup {0} /\ onDisk \subseteq DOMAIN made
  /\ incoming \in File
  /\ sidecar \in Id \cup {0} /\ rescue \in SUBSET Rescue
  /\ client \in Process /\ client.offset <= Size
  /\ issued \subseteq Op
  /\ doubt \subseteq Key /\ cut \subseteq Key /\ unknown \subseteq issued /\ events \in Nat /\ resyncs \in Nat

-----------------------------------------------------------------------------
Latest(S)        == CHOOSE x \in S : \A y \in S : y <= x
VectorOf(d, n)   == [d.vector EXCEPT ![n] = Larger(@, d.localSeq)]
CurrentVector(n) == VectorOf(db[n], n)
Supersedes(n, o) == Less(db[n].version[o.key], o)

\* behindGCFence: it would bring to life what may have been collected.
BehindFence(n, o) == db[n].version[o.key] = NoVersion /\ o.hlc <= db[n].fence

Stamp(o)   == [hlc |-> o.hlc, src |-> o.src, deleted |-> o.type = "delete"]
Written(o) == IF o.type = "upsert" THEN [hlc |-> o.hlc, src |-> o.src] ELSE NoRow

\* Database d with o applied, and with o issued as its operation `seq'.
With(d, o)         == [d EXCEPT !.version[o.key] = Stamp(o), !.row[o.key] = Written(o)]
Issues(d, o, seq)  == [d EXCEPT !.log = @ \cup {[o EXCEPT !.seq = seq]}, !.localSeq = seq]

CopyInit ==
  /\ here = TRUE /\ db = [n \in Node |-> Empty] /\ clock = [n \in Node |-> Zero]
  /\ made = << >> /\ reading = {} /\ cached = 0 /\ onDisk = {}
  /\ incoming = NoFile /\ sidecar = 0 /\ rescue = {} /\ client = Down
  /\ issued = {} /\ doubt = {} /\ cut = {} /\ unknown = {} /\ events = 0 /\ resyncs = 0

Event       == events < MaxEvents /\ events' = events + 1
KeysOf(ops) == {o.key : o \in ops}
Serving     == client.at = "serving"
Own(ops)    == {o \in ops : o.src = Client}

-----------------------------------------------------------------------------
(***************************************************************************)
(* Both nodes                                                              *)
(***************************************************************************)
\* captureRecord, captureCollection
LocalWrite(n) ==
  /\ n = Client => Serving
  /\ Cardinality({o.hlc : o \in {x \in issued : x.src = n}}) < Writes[n]
  /\ clock' = [clock EXCEPT ![n] = Tick(@, 0)]
  /\ \E w \in UserWrites[n] :
       LET o == [src |-> n, seq |-> db[n].localSeq + 1, hlc |-> Encode(clock'[n]),
                 type |-> w.type, key |-> w.key]
       IN  /\ w.type = "delete" => db[n].row[w.key] # NoRow
           /\ db'     = [db EXCEPT ![n] = With(Issues(@, o, o.seq), o)]
           /\ issued' = issued \cup {o}
  /\ UNCHANGED <<seedVars, clientVars, history, events>>

\* insertOpIfAbsent: by source and number.
Known(ops, o) == \E x \in ops : x.src = o.src /\ x.seq = o.seq

\* The loops of the client start once it has replayed.
Loops == Serving /\ ~ client.replaying

\* Database d with the operations `ops', each against the version it finds.
Applied(d, ops) ==
  LET wins == {o \in ops : /\ Less(d.version[o.key], o)
                           /\ ~ \E x \in ops : x.key = o.key /\ Less(o, x)}
      of(k) == CHOOSE o \in wins : o.key = k
  IN  [d EXCEPT !.version = [k \in Key |-> IF k \in KeysOf(wins) THEN Stamp(of(k)) ELSE @[k]],
                !.row     = [k \in Key |-> IF k \in KeysOf(wins) THEN Written(of(k)) ELSE @[k]]]

\* Database d of the seed with operation o of the client.
Pushed(d, o) ==
  [Applied(d, {o}) EXCEPT !.log = @ \cup {o},
                          !.vector[Client] = Contiguous(d.log \cup {o}, Client, @)]

\* The seed gets an operation of the client: from it, or from where it has pushed it
\* before it went down (handleOps, ingestOpsCount, applyRecordOp).
Push ==
  /\ Serving => Loops
  /\ \E o \in Own(db[Client].log) :
       /\ ~ Known(db[Seed].log, o) /\ ~ BehindFence(Seed, o)
       /\ db' = [db EXCEPT ![Seed] = Pushed(@, o)]
       /\ clock' = [clock EXCEPT ![Seed] = Merge(@, ClockOf(o.hlc))]
  /\ UNCHANGED <<seedVars, clientVars, issued, history, events>>

\* Database d when a delete, what it has beaten and its tombstone have expired.
Collected(d, k) ==
  LET gone    == {o \in d.log : o.key = k}
      seqs(n) == {o.seq : o \in {x \in gone : x.src = n /\ x.type = "delete"}} \cup {d.horizon[n]}
  IN  [d EXCEPT !.log = @ \ gone, !.version[k] = NoVersion,
                !.horizon = [n \in Node |-> Latest(seqs(n))],
                !.fence = Larger(@, d.version[k].hlc)]

SeedCollect(k) ==
  /\ db[Seed].version[k].deleted
  /\ db' = [db EXCEPT ![Seed] = Collected(@, k)]
  /\ UNCHANGED <<clock, seedVars, clientVars, issued, history, events>>

\* Database d of the client with the operations `in', and the vector of the seed.
Pulled(d, in, theirs) ==
  [Applied(d, in) EXCEPT !.log = @ \cup in, !.vector = Adopted(@, theirs, Client)]

\* pullFromPeer: what the seed has and the client lacks, and its vector; or, if the
\* seed has dropped what the client lacks, the flag (triggerSnapshotResync with the
\* restart-copy strategy).
Pull ==
  LET theirs == CurrentVector(Seed)
      after  == [CurrentVector(Client) EXCEPT ![Client] = Larger(@, theirs[Client])]
      in     == {o \in db[Seed].log : /\ o.src # Client /\ o.seq > after[o.src]
                                      /\ ~ Known(db[Client].log, o) /\ ~ BehindFence(Client, o)}
      new    == Latest({Encode(clock[Client])} \cup {o.hlc : o \in in})
  IN  /\ Loops
      /\ IF \E n \in Node : after[n] < db[Seed].horizon[n]
         THEN /\ ~ db[Client].pending
              /\ db' = [db EXCEPT ![Client].pending = TRUE] /\ UNCHANGED clock
         ELSE /\ after # theirs
              /\ db' = [db EXCEPT ![Client] = Pulled(@, in, theirs)]
              /\ clock' = [clock EXCEPT ![Client] = Merge(@, ClockOf(new))]
      /\ UNCHANGED <<seedVars, clientVars, issued, history, events>>

-----------------------------------------------------------------------------
(***************************************************************************)
(* The seed makes snapshots                                                *)
(***************************************************************************)
\* prepareDBSnapshot when the cached one has expired: the vector is read ...
ReadVector ==
  /\ reading = {} /\ Len(made) < MaxSnapshots
  /\ reading' = {db[Seed]}
  /\ UNCHANGED <<db, clock, made, cached, onDisk, clientVars, issued, history, events>>

\* (mutant) ... after the file is written.
PreparedLate(then, now) ==
  [vector |-> VectorOf(now, Seed), hlc |-> Encode(clock[Seed]), db |-> then]

\* ... before the file is written, and the clock afterwards.
Prepared(then, now) ==
  [vector |-> VectorOf(then, Seed), hlc |-> Encode(clock[Seed]), db |-> now]

Vacuum ==
  /\ \E then \in reading : made' = Append(made, Prepared(then, db[Seed]))
  /\ reading' = {} /\ cached' = Len(made')
  /\ onDisk' = (onDisk \ {cached}) \cup {cached'}
  /\ UNCHANGED <<db, clock, clientVars, issued, history, events>>

\* cleanupDBSnapshots: the files a restart has left.
Cleanup ==
  /\ onDisk \ {cached} # {} /\ onDisk' = onDisk \cap {cached}
  /\ UNCHANGED <<db, clock, made, reading, cached, clientVars, issued, history, events>>

\* The seed restarts and has forgotten which file it has.
SeedRestart ==
  /\ Len(made) < MaxSnapshots /\ Event
  /\ reading' = {} /\ cached' = 0
  /\ UNCHANGED <<db, clock, made, onDisk, clientVars, issued, history>>

-----------------------------------------------------------------------------
(***************************************************************************)
(* The client copies                                                       *)
(***************************************************************************)
Goes(to) == client' = [client EXCEPT !.at = to]

\* decideBootstrapStrategy
Start ==
  /\ client.at = "down"
  /\ Goes(IF here /\ ~ db[Client].pending THEN "open" ELSE "manifest")
  /\ UNCHANGED <<db, here, clock, seedVars, incoming, sidecar, rescue, issued, history, events>>

\* tryFullCopy, downloadDBSnapshot: a download of the same snapshot goes on.
GetManifest ==
  LET done   == IF sidecar = cached THEN incoming.size ELSE 0
      offset == IF done > Size THEN 0 ELSE done
  IN  /\ client.at = "manifest" /\ cached # 0
      /\ client'   = [Down EXCEPT !.at = IF done = 0 THEN "sidecar" ELSE "chunk",
                                  !.id = cached, !.offset = offset, !.pos = offset]
      /\ incoming' = CASE done = 0 -> incoming
                       [] done > Size -> [incoming EXCEPT !.of = cached, !.size = 0, !.prefix = TRUE]
                       [] OTHER -> incoming
      /\ UNCHANGED <<db, here, clock, seedVars, sidecar, rescue, issued, history, events>>

\* A new download: first the sidecar is written, then the file is emptied.
WriteSidecar ==
  /\ client.at = "sidecar" /\ Goes("truncate") /\ sidecar' = client.id
  /\ UNCHANGED <<db, here, clock, seedVars, incoming, rescue, issued, history, events>>

Truncate ==
  /\ client.at = "truncate" /\ Goes("chunk")
  /\ incoming' = [incoming EXCEPT !.of = client.id, !.size = 0, !.prefix = TRUE]
  /\ UNCHANGED <<db, here, clock, seedVars, sidecar, rescue, issued, history, events>>

\* (mutant) as if every chunk were full.
ChunkAlwaysFull(offset) == Chunk

\* handleDBSnapshotChunk
ChunkLength(offset) == IF offset + Chunk > Size THEN Size - offset ELSE Chunk

\* n bytes of the chunk at the offset go where the file is: the offset stays if the
\* call fails and is tried again, the place in the file does not go back.
Receives(n) ==
  /\ client.at = "chunk" /\ client.offset < Size /\ client.id \in onDisk
  /\ incoming' = [incoming EXCEPT !.size = client.pos + n, !.prefix =
                    @ /\ incoming.of = client.id /\ client.pos = client.offset]
  /\ UNCHANGED <<db, here, clock, seedVars, sidecar, rescue, issued, history>>

FetchChunk ==
  LET n == ChunkLength(client.offset)
  IN  /\ Receives(n) /\ client' = [client EXCEPT !.offset = @ + n, !.pos = @ + n]
      /\ UNCHANGED events

ChunkBreaks ==
  /\ Event /\ \E n \in 1 .. ChunkLength(client.offset) - 1 :
       Receives(n) /\ client' = [client EXCEPT !.pos = @ + n]

\* Nobody knows the WAL of the file.
RemoveIncoming == incoming' = [NoFile EXCEPT !.wal = incoming.wal] /\ sidecar' = 0

SnapshotGone ==
  /\ client.at = "chunk" /\ client.offset < Size /\ client.id \notin onDisk
  /\ RemoveIncoming /\ Goes("manifest")
  /\ UNCHANGED <<db, here, clock, seedVars, rescue, issued, history, events>>

\* (mutant) all bytes are there.
SizeMatches(f, id) == f.size = Size

\* The checksum of the manifest is that of the file.
ChecksumMatches(f, id) == f.size = Size /\ f.prefix /\ f.of = id

\* (mutant) what does not match is kept.
KeepIncoming == UNCHANGED <<incoming, sidecar>>

Discard == RemoveIncoming

Verify ==
  /\ client.at = "chunk" /\ client.offset = Size
  /\ IF ChecksumMatches(incoming, client.id)
     THEN Goes("rescue") /\ UNCHANGED <<incoming, sidecar>>
     ELSE Goes("manifest") /\ Discard
  /\ UNCHANGED <<db, here, clock, seedVars, rescue, issued, history, events>>

\* (mutant) a number the seed has heard of acknowledges all before it.
UnackedBeyondLog(m) ==
  {o \in Own(db[Client].log) : \A x \in Own(m.db.log) : o.seq > x.seq}

\* What the seed provably has is covered by its vector.
Unacked(m) == {o \in Own(db[Client].log) : o.seq > m.vector[Client]}

\* rescueLocalState: the file is there before the database is replaced.
WriteRescue ==
  LET own == [ops |-> Unacked(made[client.id]), localSeq |-> db[Client].localSeq,
              hlc |-> db[Client].hlc]
  IN  /\ client.at = "rescue"
      /\ client' = [client EXCEPT !.at = "sanitize", !.own = IF here THEN own ELSE NoRescue]
      /\ rescue' = IF here THEN {own} ELSE rescue
      /\ UNCHANGED <<db, here, clock, seedVars, incoming, sidecar, issued, history, events>>

\* sanitizeCopiedDB opens the file, with the WAL that is there, commits to the WAL ...
Sanitize ==
  /\ client.at = "sanitize" /\ Goes("close")
  /\ incoming' = [incoming EXCEPT !.wal = @ \cup {client.id}]
  /\ UNCHANGED <<db, here, clock, seedVars, sidecar, rescue, issued, history, events>>

\* ... and writes the WAL back when it closes it.
CloseIncoming ==
  /\ client.at = "close"
  /\ client' = [client EXCEPT !.at = "install", !.bytes =
       IF ~ (incoming.size = Size /\ incoming.prefix /\ incoming.of = client.id) THEN "mixed"
       ELSE IF incoming.wal # {client.id} THEN "stale wal" ELSE "whole"]
  /\ incoming' = [incoming EXCEPT !.prefix = FALSE, !.wal = {}]
  /\ UNCHANGED <<db, here, clock, seedVars, sidecar, rescue, issued, history, events>>

\* (mutant) the numbers in the copied log are not looked at.
OwnSeqForgetsLog(m, own) == Larger(own.localSeq, m.vector[Client])

\* Beyond what the node remembers, what the seed acknowledges and what the copy has.
OwnSeq(m, own) ==
  Latest({own.localSeq, m.vector[Client]} \cup {o.seq : o \in Own(m.db.log)})

\* (mutant) the clock of the copy is forgotten.
OwnHlcOnly(m, own) == own.hlc

OwnHlc(m, own) == Larger(own.hlc, Larger(m.db.hlc, m.hlc))

Installed(m, own, bytes) ==
  [m.db EXCEPT !.localSeq = OwnSeq(m, own), !.hlc = OwnHlc(m, own), !.pending = FALSE,
               !.vector = [@ EXCEPT ![Seed] = m.vector[Seed], ![Client] = 0], !.bytes = bytes]

\* The rename; a sidecar that a crash leaves behind here is without a file.
Install ==
  LET m == made[client.id]
  IN  /\ client.at = "install" /\ Goes("open")
      /\ db'       = [db EXCEPT ![Client] = Installed(m, client.own, client.bytes)]
      /\ here'     = TRUE
      /\ incoming' = [NoFile EXCEPT !.wal = incoming.wal] /\ sidecar' = 0
      /\ unknown'  = unknown \cup IF here THEN {} ELSE Own(issued) \ m.db.log
      /\ UNCHANGED <<clock, seedVars, rescue, issued, doubt, cut, resyncs, events>>

\* An attempt fails, and the next begins.
AttemptFails ==
  /\ client.at \in {"sidecar", "truncate", "chunk", "rescue", "sanitize", "install"}
  /\ Event /\ Goes("manifest")
  /\ UNCHANGED <<db, here, clock, seedVars, incoming, sidecar, rescue, issued, history>>

\* FullCopyFallbackAfter is over: the old database is opened, or the start fails.
GiveUp ==
  /\ client.at = "manifest" /\ Event /\ Goes(IF here THEN "open" ELSE "down")
  /\ UNCHANGED <<db, here, clock, seedVars, incoming, sidecar, rescue, issued, history>>

\* initStorage, startBackground: the clock resumes, the node serves, and replays.
Open ==
  /\ client.at = "open"
  /\ clock'  = [clock EXCEPT ![Client] =
                  Merge(Merge(@, ClockOf(db[Client].hlc)), ClockOf(db[Client].fence))]
  /\ client' = [Down EXCEPT !.at = "serving", !.replaying = TRUE,
                            !.left = UNION {x.ops : x \in rescue}]
  /\ UNCHANGED <<db, here, seedVars, incoming, sidecar, rescue, issued, history, events>>

-----------------------------------------------------------------------------
(***************************************************************************)
(* The client replays (replayRescuedOps), in the order of the numbers      *)
(***************************************************************************)
IsNext(o) ==
  /\ Serving /\ client.replaying /\ client.emit = {}
  /\ o \in client.left /\ \A x \in client.left : o.seq <= x.seq

Passes(o) == client' = [client EXCEPT !.left = @ \ {o}]

ReplayLoses ==
  /\ \E o \in client.left : IsNext(o) /\ ~ Supersedes(Client, o) /\ Passes(o)
  /\ UNCHANGED <<db, here, clock, seedVars, incoming, sidecar, rescue, issued, history, events>>

Fenced(o) == BehindFence(Client, o)

\* Every peer would refuse it.
ReplayFenced ==
  /\ \E o \in client.left :
       /\ IsNext(o) /\ Supersedes(Client, o) /\ Fenced(o)
       /\ Passes(o) /\ doubt' = doubt \cup {o.key}
  /\ UNCHANGED <<db, here, clock, seedVars, incoming, sidecar, rescue, issued, cut, unknown, resyncs, events>>

\* A record is applied and issued again, under its old timestamp, in one transaction ...
ReplayRecord ==
  /\ \E o \in client.left :
       /\ IsNext(o) /\ Supersedes(Client, o) /\ ~ Fenced(o) /\ o.key \notin Schema
       /\ db' = [db EXCEPT ![Client] = With(Issues(@, o, @.localSeq + 1), o)]
       /\ issued' = issued \cup {[o EXCEPT !.seq = db'[Client].localSeq]}
       /\ Passes(o)
  /\ UNCHANGED <<here, clock, seedVars, incoming, sidecar, rescue, history, events>>

\* ... a collection is applied ...
ReplaySchema ==
  /\ \E o \in client.left :
       /\ IsNext(o) /\ Supersedes(Client, o) /\ ~ Fenced(o) /\ o.key \in Schema
       /\ db' = [db EXCEPT ![Client] = With(@, o)]
       /\ client' = [client EXCEPT !.left = @ \ {o}, !.emit = {o}]
  /\ UNCHANGED <<here, clock, seedVars, incoming, sidecar, rescue, issued, history, events>>

\* ... and issued in a second one.
ReplayEmit ==
  /\ \E o \in client.emit :
       /\ db' = [db EXCEPT ![Client] = Issues(@, o, @.localSeq + 1)]
       /\ issued' = issued \cup {[o EXCEPT !.seq = db'[Client].localSeq]}
  /\ client' = [client EXCEPT !.emit = {}]
  /\ UNCHANGED <<here, clock, seedVars, incoming, sidecar, rescue, history, events>>

\* An operation that fails is passed over.
ReplayFails ==
  /\ \E o \in client.left :
       IsNext(o) /\ Supersedes(Client, o) /\ Event /\ Passes(o) /\ doubt' = doubt \cup {o.key}
  /\ UNCHANGED <<db, here, clock, seedVars, incoming, sidecar, rescue, issued, cut, unknown, resyncs>>

ReplayEnds ==
  /\ Serving /\ client.replaying /\ client.left = {} /\ client.emit = {}
  /\ client' = [client EXCEPT !.replaying = FALSE] /\ rescue' = {}
  /\ UNCHANGED <<db, here, clock, seedVars, incoming, sidecar, issued, history, events>>

\* The operator restarts a node that is flagged (shutdown).
Stop ==
  /\ Loops /\ db[Client].pending /\ client' = Down
  /\ resyncs < MaxResyncs /\ resyncs' = resyncs + 1
  /\ db' = [db EXCEPT ![Client].hlc = Encode(clock[Client])]
  /\ UNCHANGED <<here, clock, seedVars, incoming, sidecar, rescue, issued, doubt, cut, unknown, events>>

\* The process dies; if it is writing the WAL back, part of it may be in the file.
Crash ==
  /\ client.at # "down" /\ Event /\ client' = Down
  /\ incoming' \in {incoming} \cup (IF client.at = "close" THEN {[incoming EXCEPT !.prefix = FALSE]} ELSE {})
  /\ cut' = cut \cup KeysOf(client.emit)
  /\ UNCHANGED <<db, here, clock, seedVars, sidecar, rescue, issued, doubt, unknown, resyncs>>

\* A node with a configured id gets a new disk (a seed that knows the id refuses it
\* under StrictNodeID).  Bound: this is then all that happens.
LoseDisk ==
  /\ client.at = "down" /\ here /\ events = 0 /\ events' = MaxEvents
  /\ here' = FALSE /\ db' = [db EXCEPT ![Client] = Empty]
  /\ incoming' = NoFile /\ sidecar' = 0 /\ rescue' = {}
  /\ doubt' = doubt \cup KeysOf(Own(issued))
  /\ UNCHANGED <<clock, seedVars, client, issued, cut, unknown, resyncs>>

CopySteps ==
  \/ Start \/ GetManifest \/ WriteSidecar \/ Truncate \/ FetchChunk \/ SnapshotGone \/ Verify
  \/ WriteRescue \/ Sanitize \/ CloseIncoming \/ Install \/ Open
  \/ ReplayLoses \/ ReplayFenced \/ ReplayRecord \/ ReplaySchema \/ ReplayEmit \/ ReplayEnds

SeedAnswers == client.at = "manifest" /\ ((cached = 0 /\ ReadVector) \/ Vacuum)

\* Bound: what the rest of the cluster does while the client is busy with itself it can
\* do before or after as well: the client looks at the seed in these places only.
Around ==
  /\ client.at \in {"manifest", "serving"}
  /\ (\E n \in Node : LocalWrite(n)) \/ Push \/ Pull \/ \E k \in Key : SeedCollect(k)

SeedPrepares ==
  /\ client.at \in {"manifest", "chunk", "serving"}
  /\ ReadVector \/ Vacuum \/ Cleanup \/ SeedRestart

CopyNext ==
  \/ Around \/ SeedPrepares
  \/ CopySteps \/ ChunkBreaks \/ AttemptFails \/ GiveUp \/ ReplayFails \/ Stop \/ Crash \/ LoseDisk

CopySpec == CopyInit /\ [][CopyNext]_vars

CopyFairSpec == CopySpec /\ WF_vars(CopySteps \/ SeedAnswers)

-----------------------------------------------------------------------------
(***************************************************************************)
(* Properties                                                              *)
(***************************************************************************)
SameWrite(x, o) == x.hlc = o.hlc /\ x.src = o.src
Newest(o)       == ~ \E x \in issued : x.key = o.key /\ Less(o, x)
PutAside        == UNION {x.ops : x \in rescue}

\* A database the client has is one snapshot of the seed, byte for byte, however its
\* chunks broke, were tried again and resumed; apart from a WAL that a crash has left.
CopyIsWhole == here => db[Client].bytes # "mixed"

\* What the vector of the client covers is what it shows, or has put aside: nothing it
\* has copied as done, or acknowledged to itself, is missing; except of keys of
\* which an operation was refused by the fence, failed, or went with a disk.
CopyIsComplete ==
  here /\ unknown = {} => \A o \in issued :
    Newest(o) /\ o.seq <= CurrentVector(Client)[o.src] /\ o.key \notin doubt \cup cut =>
      db[Client].row[o.key] = Written(o) \/ \E x \in PutAside : SameWrite(x, o)

\* Somebody still has the write, or has had it and collected it.
Survives(o) ==
  \/ \E x \in db[Client].log \cup db[Seed].log \cup PutAside : SameWrite(x, o)
  \/ SameWrite(db[Seed].version[o.key], o)
  \/ o.type = "delete" /\ o.hlc <= db[Seed].fence

\* "unsynced local writes a resyncing node made while offline are rescued ... and
\* re-applied": the last word on a key that is the client's is somewhere the cluster can
\* get it from, at every step of the copy and the replay and after a crash at any of
\* them; but for a collection whose replay a crash has cut in two.
NoWriteLost ==
  unknown = {} => \A o \in Own(issued) :
    Newest(o) /\ o.key \notin doubt \cup cut => Survives(o)

\* No number is used for two writes; but for those that went with a disk and that the
\* copy could not know of.
NumbersAreFresh ==
  \A x, y \in issued : Known({x}, y) => SameWrite(x, y) \/ x \in unknown \/ y \in unknown

\* A version never goes back while the node serves: neither do local writes fall behind
\* what was copied, nor does a replay undo what the cluster wrote later.
LaterWritesWin ==
  [][Serving => \A k \in Key : ~ Less(db'[Client].version[k], db[Client].version[k])]_vars

\* A start ends: the node serves and has replayed, or it is down.
StartEnds == []<>(client.at = "down" \/ Loops)
=============================================================================
