------------------------------- MODULE Apply -------------------------------
(***************************************************************************)
(* From the operation log to the data: capture of local changes            *)
(* (capture.go), ingest and its queue (sync.go), the applier goroutine,    *)
(* parked operations (apply.go), and what a crash loses of it.             *)
(*                                                                         *)
(* The transport is the abstract one of Dissemination: a node may learn    *)
(* any operation another node's log has, in any order (OplogSync           *)
(* implements it).  An action is one database transaction or one step      *)
(* between two of them: handlers, local writers, the sync round and the    *)
(* applier run concurrently.                                               *)
(*                                                                         *)
(* Not here: garbage collection and its fence (nothing is collected, so    *)
(* opFenced and gcRejects refuse nothing), files, the payload of a record  *)
(* (identified with the operation that wrote it), collections that are     *)
(* not replicated, and resolution of a collection by name.                 *)
(***************************************************************************)
EXTENDS Lww, Sequences

CONSTANTS
  Node,          \* node ids; naturals, because the code orders them
  Col,           \* collections
  Rec,           \* record ids
  ColOf,         \* ColOf[r]: the collection of record r
  Content,       \* what a collection's schema can be: positive naturals
  InitialSchema, \* InitialSchema[c]: the schema on every node at first, or 0
  QueueCap,      \* applyQueueCap: never below a batch
  ApplyBatch,    \* cfg.ApplyBatch
  MaxPending,    \* maxPendingOps
  Handlers,      \* bound: requests a node ingests at the same time
  Writes,        \* bound: Writes[n] local writes of node n ...
  WriteTypes,    \* ... of the types WriteTypes[n]
  MaxWall,       \* bound: readings of the wall clock
  MaxFailures,   \* bound: statements that fail
  MaxRestarts    \* bound: crashes

RecordType == {"upsert", "delete"}
SchemaType == {"colUpsert", "colDelete"}
Key        == Rec \cup Col

ASSUME ApplyAssumption ==
  /\ Node \subseteq Nat \ {0} /\ IsFiniteSet(Node)
  /\ Rec \cap Col = {} /\ ColOf \in [Rec -> Col]
  /\ Content \subseteq Nat \ {0} /\ InitialSchema \in [Col -> Content \cup {0}]
  /\ QueueCap \in Nat /\ ApplyBatch \in 1 .. QueueCap /\ MaxPending \in Nat \ {0}
  /\ Handlers \in Nat /\ Writes \in [Node -> Nat]
  /\ WriteTypes \in [Node -> SUBSET (RecordType \cup SchemaType)]
  /\ MaxWall \in Nat /\ MaxFailures \in Nat /\ MaxRestarts \in Nat

\* An operation; `content` is the schema of a colUpsert.
RecordOp ==
  [src : Node, seq : Nat \ {0}, hlc : Nat, type : RecordType, key : Rec, content : {0}]
SchemaOp ==
  [src : Node, seq : Nat \ {0}, hlc : Nat, type : SchemaType, key : Col,
   content : Content \cup {0}]
Op == RecordOp \cup SchemaOp

\* A row of _repl_versions, and the absent one, which every operation beats.
Version   == [hlc : Nat, src : Node \cup {0}, deleted : BOOLEAN]
NoVersion == [hlc |-> 0, src |-> 0, deleted |-> FALSE]

\* The payload of a record is the operation that wrote it.
Payload == [src : Node, seq : Nat \ {0}]
NoRow   == [src |-> 0, seq |-> 0]

VARIABLES
  \* in the database: survives a crash
  localSeq,   \* localSeq[n]: _repl_state local_seq
  oplog,      \* oplog[n]: the operations of _repl_oplog
  version,    \* version[n][k]: _repl_versions
  row,        \* row[n][r]: the record, NoRow if there is none
  schema,     \* schema[n][c]: the collection, 0 if there is none
  savedClock, \* savedClock[n]: _repl_state hlc
  \* in the process
  clock,      \* clock[n]: the hybrid logical clock
  arriving,   \* arriving[n]: stored by a handler and not yet enqueued
  queue,      \* queue[n]: applyCh
  pending,    \* pending[n]: pendingOps, parked operations
  applier,    \* applier[n]: the applier goroutine
  round,      \* round[n]: the end of a sync round, from retryPending on
  \* history
  lost,       \* lost[n]: failed, dropped by parkPending or lost in a crash
  setBack,    \* a crash has set a clock back: it had not been saved since it moved
  failures, restarts

database == <<localSeq, oplog, version, row, schema, savedClock>>
history  == <<lost, setBack, failures, restarts>>
applyVars == <<database, clock, arriving, queue, pending, applier, round, history>>

(***************************************************************************)
(* The applier: `todo` is what is left of the drained batch and `group` the *)
(* record operations collected from it; while they are `resolving`, their  *)
(* collections are looked up and they move to `entries`, which the shared  *)
(* transaction applies; `single` are those that are retried one by one (the*)
(* collection of the first has been looked up where `found` is TRUE);      *)
(* `change` is the collection operation being applied, with its next step; *)
(* `parked` is what retryPending has still to look at, as in `round`.      *)
(***************************************************************************)
Idle ==
  [todo |-> <<>>, group |-> <<>>, resolving |-> FALSE, entries |-> <<>>, single |-> <<>>,
   found |-> FALSE, change |-> {}, parked |-> <<>>]

ApplierState ==
  [todo : Seq(Op), group : Seq(RecordOp), resolving : BOOLEAN, entries : Seq(RecordOp),
   single : Seq(RecordOp), found : BOOLEAN,
   change : SUBSET [op : SchemaOp, step : {"save", "saved", "bump"}], parked : Seq(Op)]

Waiting    == [on |-> FALSE, parked |-> <<>>]
RoundState == [on : BOOLEAN, parked : Seq(Op)]

ApplyTypeOK ==
  /\ localSeq \in [Node -> Nat]
  /\ oplog \in [Node -> SUBSET Op]
  /\ version \in [Node -> [Key -> Version]]
  /\ row \in [Node -> [Rec -> Payload \cup {NoRow}]]
  /\ schema \in [Node -> [Col -> Content \cup {0}]]
  /\ savedClock \in [Node -> Clock] /\ clock \in [Node -> Clock]
  /\ arriving \in [Node -> SUBSET Op]
  /\ queue \in [Node -> Seq(Op)] /\ pending \in [Node -> Seq(Op)]
  /\ \A n \in Node : Len(queue[n]) <= QueueCap /\ Len(pending[n]) <= MaxPending
  /\ applier \in [Node -> ApplierState] /\ round \in [Node -> RoundState]
  /\ lost \in [Node -> SUBSET Op]
  /\ setBack \in BOOLEAN /\ failures \in Nat /\ restarts \in Nat

-----------------------------------------------------------------------------
ToSet(s) == {s[i] : i \in 1 .. Len(s)}
Least(a, b) == IF a <= b THEN a ELSE b

\* The collection an operation needs, and whether node n has it.
ColOfKey(k)    == IF k \in Col THEN k ELSE ColOf[k]
Resolves(n, o) == schema[n][ColOfKey(o.key)] # 0

\* supersedes
Supersedes(n, o) == Less(version[n][o.key], o)

Stamp(o) ==
  [hlc |-> o.hlc, src |-> o.src, deleted |-> o.type \in {"delete", "colDelete"}]

Written(o) == IF o.type = "upsert" THEN [src |-> o.src, seq |-> o.seq] ELSE NoRow

\* What deleting collection c leaves of the rows rs.
WithoutRowsOf(rs, c) == [r \in Rec |-> IF ColOf[r] = c THEN NoRow ELSE rs[r]]

\* (mutant) the parked operations are never dropped.
ParkedAll(parked, o) == Append(parked, o)

\* The parked operations once o has joined them; the oldest makes room.
Parked(parked, o) == Append(IF Len(parked) >= MaxPending THEN Tail(parked) ELSE parked, o)

\* parkPending: what is dropped is lost.
Park(n, o) ==
  /\ pending' = [pending EXCEPT ![n] = Parked(@, o)]
  /\ lost' = [lost EXCEPT ![n] =
       @ \cup IF Len(pending[n]) >= MaxPending THEN {Head(pending[n])} ELSE {}]

\* (mutant) what does not fit into the queue is not parked again.
TryAgainForgets(n, o) ==
  IF Resolves(n, o)
  THEN /\ queue' = IF Len(queue[n]) < QueueCap
                   THEN [queue EXCEPT ![n] = Append(@, o)] ELSE queue
       /\ UNCHANGED <<pending, lost>>
  ELSE Park(n, o) /\ UNCHANGED queue

\* retryPending, one operation: back to the queue if its collection is known
\* and there is room, else parked again.
TryAgain(n, o) ==
  IF Resolves(n, o) /\ Len(queue[n]) < QueueCap
  THEN /\ queue' = [queue EXCEPT ![n] = Append(@, o)]
       /\ UNCHANGED <<pending, lost>>
  ELSE Park(n, o) /\ UNCHANGED queue

-----------------------------------------------------------------------------
ApplyInit ==
  /\ localSeq   = [n \in Node |-> 0]
  /\ oplog      = [n \in Node |-> {}]
  /\ version    = [n \in Node |-> [k \in Key |-> NoVersion]]
  /\ row        = [n \in Node |-> [r \in Rec |-> NoRow]]
  /\ schema     = [n \in Node |-> InitialSchema]
  /\ savedClock = [n \in Node |-> Zero]
  /\ clock      = [n \in Node |-> Zero]
  /\ arriving   = [n \in Node |-> {}]
  /\ queue      = [n \in Node |-> <<>>]
  /\ pending    = [n \in Node |-> <<>>]
  /\ applier    = [n \in Node |-> Idle]
  /\ round      = [n \in Node |-> Waiting]
  /\ lost       = [n \in Node |-> {}]
  /\ setBack    = FALSE /\ failures = 0 /\ restarts = 0

(***************************************************************************)
(* Local changes.  The change, the sequence number, the log row and the    *)
(* version commit in one transaction; there is no last-write-wins gate.    *)
(***************************************************************************)
Capture(n, type, key, content) ==
  /\ type \in WriteTypes[n] /\ localSeq[n] < Writes[n]
  /\ localSeq' = [localSeq EXCEPT ![n] = @ + 1]
  /\ \E wall \in 0 .. MaxWall : clock' = [clock EXCEPT ![n] = Tick(@, wall)]
  /\ LET o == [src |-> n, seq |-> localSeq[n] + 1, hlc |-> Encode(clock'[n]),
               type |-> type, key |-> key, content |-> content]
     IN  /\ oplog'   = [oplog EXCEPT ![n] = @ \cup {o}]
         /\ version' = [version EXCEPT ![n][key] = Stamp(o)]
         /\ IF key \in Rec THEN row' = [row EXCEPT ![n][key] = Written(o)]
            ELSE IF type = "colDelete" THEN row' = [row EXCEPT ![n] = WithoutRowsOf(@, key)]
            ELSE UNCHANGED row
  /\ UNCHANGED <<savedClock, arriving, queue, pending, applier, history, round>>

\* captureRecord
LocalRecord(n, r) ==
  /\ schema[n][ColOf[r]] # 0 /\ UNCHANGED schema
  /\ \/ Capture(n, "upsert", r, 0)
     \/ row[n][r] # NoRow /\ Capture(n, "delete", r, 0)

\* captureCollection
LocalSchema(n, c) ==
  \/ \E v \in Content \ {schema[n][c]} :
       /\ Capture(n, "colUpsert", c, v)
       /\ schema' = [schema EXCEPT ![n][c] = v]
  \/ /\ schema[n][c] # 0 /\ Capture(n, "colDelete", c, 0)
     /\ schema' = [schema EXCEPT ![n][c] = 0]

-----------------------------------------------------------------------------
(***************************************************************************)
(* Ingest: ingestOpsCount, as far as the log and the queue                 *)
(***************************************************************************)
\* A handler stores an operation of p's log that node n has not ...
Ingest(n, p) ==
  /\ Cardinality(arriving[n]) < Handlers
  /\ \E o \in oplog[p] \ oplog[n] :
       /\ o.src # n
       /\ oplog'    = [oplog EXCEPT ![n] = @ \cup {o}]
       /\ arriving' = [arriving EXCEPT ![n] = @ \cup {o}]
  /\ UNCHANGED <<localSeq, version, row, schema, savedClock, clock, queue, pending,
                 applier, history, round>>

\* ... and enqueues it, waiting for room (enqueueApply).
Enqueue(n) ==
  /\ Len(queue[n]) < QueueCap
  /\ \E o \in arriving[n] : /\ queue'    = [queue EXCEPT ![n] = Append(@, o)]
                            /\ arriving' = [arriving EXCEPT ![n] = @ \ {o}]
  /\ UNCHANGED <<database, clock, pending, applier, history, round>>

-----------------------------------------------------------------------------
(***************************************************************************)
(* The applier                                                             *)
(***************************************************************************)
SetApplier(n, x) == applier' = [applier EXCEPT ![n] = x]

\* What the applier works on now comes before the rest of the batch.
Busy(x) == x.resolving \/ x.single # <<>> \/ x.change # {} \/ x.parked # <<>>

\* drainApplyQueue, at one moment: what arrives while it drains could as well have
\* arrived before, since a batch always fits into the queue.
Drain(n) ==
  LET size == Least(ApplyBatch, Len(queue[n]))
  IN  /\ applier[n] = Idle /\ queue[n] # <<>>
      /\ SetApplier(n, [Idle EXCEPT !.todo = SubSeq(queue[n], 1, size)])
      /\ queue' = [queue EXCEPT ![n] = SubSeq(@, size + 1, Len(@))]
      /\ UNCHANGED <<database, clock, arriving, pending, history, round>>

\* The next operation of the batch, of one of the types.
NextIs(n, types) == applier[n].todo # <<>> /\ Head(applier[n].todo).type \in types

Observed(n, o) == [clock EXCEPT ![n] = Merge(@, ClockOf(o.hlc))]

\* (mutant) the clock does not see what is applied.
CollectBlindly(n) ==
  /\ ~ Busy(applier[n]) /\ NextIs(n, RecordType)
  /\ SetApplier(n, [applier[n] EXCEPT !.todo  = Tail(@),
                                      !.group = Append(@, Head(applier[n].todo))])
  /\ UNCHANGED <<database, clock, arriving, queue, pending, history, round>>

\* applyBatch: a record operation joins the group.
Collect(n) ==
  /\ ~ Busy(applier[n]) /\ NextIs(n, RecordType)
  /\ clock' = Observed(n, Head(applier[n].todo))
  /\ SetApplier(n, [applier[n] EXCEPT !.todo  = Tail(@),
                                      !.group = Append(@, Head(applier[n].todo))])
  /\ UNCHANGED <<database, arriving, queue, pending, history, round>>

\* The group is complete: at the end of the batch, or at a collection operation,
\* which is observed first.
Flush(n) ==
  LET x == applier[n]
  IN  /\ ~ Busy(x) /\ x.group # <<>>
      /\ \/ x.todo = <<>> /\ UNCHANGED clock
         \/ NextIs(n, SchemaType) /\ clock' = Observed(n, Head(x.todo))
      /\ SetApplier(n, [x EXCEPT !.resolving = TRUE])
      /\ UNCHANGED <<database, arriving, queue, pending, history, round>>

\* applyRecordBatch, before its transaction: an operation is an entry if its
\* collection is known, else it is parked.
Resolve(n) ==
  LET x == applier[n]
      o == Head(x.group)
  IN  /\ x.resolving /\ x.group # <<>>
      /\ IF Resolves(n, o)
         THEN /\ SetApplier(n, [x EXCEPT !.group = Tail(@), !.entries = Append(@, o)])
              /\ UNCHANGED <<pending, lost>>
         ELSE /\ SetApplier(n, [x EXCEPT !.group = Tail(@)])
              /\ Park(n, o)
      /\ UNCHANGED <<database, clock, arriving, queue, setBack, failures, restarts, round>>

\* (mutant) the operation that comes last is applied last and stays.
LastWins(n, ops, i) ==
  /\ Supersedes(n, ops[i])
  /\ \A j \in i + 1 .. Len(ops) : ops[j].key # ops[i].key

\* Of the operations ops on one record, number i is the one whose effect is
\* left after each has passed the last-write-wins gate in turn.
Wins(n, ops, i) ==
  /\ Supersedes(n, ops[i])
  /\ \A j \in 1 .. Len(ops) : ops[j].key = ops[i].key =>
       /\ ~ Less(ops[i], ops[j])
       /\ j < i => Less(ops[j], ops[i])

\* One transaction applies the record operations ops to node n.
ApplyRecords(n, ops) ==
  LET winner(k) == {i \in 1 .. Len(ops) : ops[i].key = k /\ Wins(n, ops, i)}
  IN  /\ version' = [version EXCEPT ![n] = [k \in Key |->
           IF winner(k) = {} THEN @[k] ELSE Stamp(ops[CHOOSE i \in winner(k) : TRUE])]]
      /\ row' = [row EXCEPT ![n] = [r \in Rec |->
           IF winner(r) = {} THEN @[r] ELSE Written(ops[CHOOSE i \in winner(r) : TRUE])]]

\* applyRecordBatch: the shared transaction, if there are entries, commits; the
\* collections of the operations that pass the gate must still exist.
ApplyTogether(n) ==
  LET x == applier[n]
  IN  /\ x.resolving /\ x.group = <<>>
      /\ \A o \in ToSet(x.entries) : Supersedes(n, o) => Resolves(n, o)
      /\ ApplyRecords(n, x.entries)
      /\ SetApplier(n, [x EXCEPT !.resolving = FALSE, !.entries = <<>>])
      /\ UNCHANGED <<localSeq, oplog, schema, savedClock, clock, arriving, queue, pending,
                     history, round>>

\* (mutant) the versions are stored outside the transaction.
RollBackKeepsVersions(n) ==
  LET x       == applier[n]
      beats(k) == {o \in ToSet(x.entries) : o.key = k /\ Supersedes(n, o)}
  IN  /\ x.resolving /\ x.group = <<>> /\ x.entries # <<>>
      /\ failures < MaxFailures /\ failures' = failures + 1
      /\ version' = [version EXCEPT ![n] = [k \in Key |->
           IF beats(k) = {} THEN @[k] ELSE Stamp(CHOOSE o \in beats(k) : TRUE)]]
      /\ SetApplier(n, [x EXCEPT !.resolving = FALSE, !.entries = <<>>, !.single = x.entries])
      /\ UNCHANGED <<localSeq, oplog, row, schema, savedClock, clock, arriving, queue,
                     pending, lost, setBack, restarts, round>>

\* It rolls back because a collection is gone or a statement fails: the
\* operations are applied one by one.
RollBack(n) ==
  LET x == applier[n]
  IN  /\ x.resolving /\ x.group = <<>> /\ x.entries # <<>>
      /\ \/ /\ \E o \in ToSet(x.entries) : Supersedes(n, o) /\ ~ Resolves(n, o)
            /\ UNCHANGED failures
         \/ failures < MaxFailures /\ failures' = failures + 1
      /\ SetApplier(n, [x EXCEPT !.resolving = FALSE, !.entries = <<>>, !.single = x.entries])
      /\ UNCHANGED <<database, clock, arriving, queue, pending, lost, setBack, restarts,
                     round>>

\* applyOp, applyRecordOp: the operation passes a first gate and its collection
\* is looked up ...
FindAlone(n) ==
  LET x == applier[n]
  IN  /\ x.single # <<>> /\ ~ x.found
      /\ Supersedes(n, Head(x.single)) /\ Resolves(n, Head(x.single))
      /\ SetApplier(n, [x EXCEPT !.found = TRUE])
      /\ UNCHANGED <<database, clock, arriving, queue, pending, history, round>>

\* ... then it is applied, or is stale, now or before ...
ApplyAlone(n) ==
  LET x == applier[n]
  IN  /\ x.single # <<>>
      /\ IF Supersedes(n, Head(x.single))
         THEN x.found /\ Resolves(n, Head(x.single)) ELSE TRUE
      /\ ApplyRecords(n, <<Head(x.single)>>)
      /\ SetApplier(n, [x EXCEPT !.single = Tail(@), !.found = FALSE])
      /\ UNCHANGED <<localSeq, oplog, schema, savedClock, clock, arriving, queue, pending,
                     history, round>>

\* ... or is parked, because its collection is not known ...
ParkAlone(n) ==
  LET x == applier[n]
  IN  /\ x.single # <<>> /\ ~ x.found
      /\ Supersedes(n, Head(x.single)) /\ ~ Resolves(n, Head(x.single))
      /\ Park(n, Head(x.single))
      /\ SetApplier(n, [x EXCEPT !.single = Tail(@)])
      /\ UNCHANGED <<database, clock, arriving, queue, setBack, failures, restarts, round>>

\* ... or fails, because the collection is gone since or for another reason,
\* which is reported and not tried again.
FailAlone(n) ==
  LET x == applier[n]
  IN  /\ x.single # <<>>
      /\ \/ /\ x.found /\ Supersedes(n, Head(x.single)) /\ ~ Resolves(n, Head(x.single))
            /\ UNCHANGED failures
         \/ failures < MaxFailures /\ failures' = failures + 1
      /\ lost' = [lost EXCEPT ![n] = @ \cup {Head(x.single)}]
      /\ SetApplier(n, [x EXCEPT !.single = Tail(@), !.found = FALSE])
      /\ UNCHANGED <<database, clock, arriving, queue, pending, setBack, restarts, round>>

-----------------------------------------------------------------------------
(***************************************************************************)
(* A collection operation (applyCollectionOp) reads the version and the    *)
(* collection (here at one moment), saves the collection, and stores the   *)
(* version: three transactions, with nothing held in between.              *)
(***************************************************************************)
ReadSchema(n) ==
  LET x    == applier[n]
      o    == Head(x.todo)
      same == o.type = "colUpsert" /\ schema[n][o.key] = o.content
      gone == o.type = "colDelete" /\ schema[n][o.key] = 0
      step == IF same \/ gone THEN "bump" ELSE "save"
  IN  /\ ~ Busy(x) /\ x.group = <<>> /\ NextIs(n, SchemaType)
      /\ clock' = Observed(n, o)
      /\ SetApplier(n, [x EXCEPT !.todo = Tail(@),
           !.change = IF Supersedes(n, o) THEN {[op |-> o, step |-> step]} ELSE {}])
      /\ UNCHANGED <<database, arriving, queue, pending, history, round>>

\* The collection is saved, or deleted with its records.
SaveSchema(n) ==
  \E ch \in applier[n].change :
    /\ ch.step = "save"
    /\ schema' = [schema EXCEPT ![n][ch.op.key] = ch.op.content]
    /\ row' = IF ch.op.type = "colDelete"
              THEN [row EXCEPT ![n] = WithoutRowsOf(@, ch.op.key)] ELSE row
    /\ SetApplier(n, [applier[n] EXCEPT !.change = {[ch EXCEPT !.step = "saved"]}])
    /\ UNCHANGED <<localSeq, oplog, version, savedClock, clock, arriving, queue, pending,
                   history, round>>

\* The version is stored; after an upsert that changed something, the parked
\* operations are tried again.
StoreSchemaVersion(n) ==
  \E ch \in applier[n].change :
    LET retry == ch.op.type = "colUpsert" /\ ch.step = "saved"
    IN  /\ ch.step \in {"saved", "bump"}
        /\ version' = [version EXCEPT ![n][ch.op.key] = Stamp(ch.op)]
        /\ pending' = IF retry THEN [pending EXCEPT ![n] = <<>>] ELSE pending
        /\ SetApplier(n, [applier[n] EXCEPT
             !.change = {}, !.parked = IF retry THEN pending[n] ELSE <<>>])
        /\ UNCHANGED <<localSeq, oplog, row, schema, savedClock, clock, arriving, queue,
                       history, round>>

\* (mutant) the applier waits for room in its own queue.
ApplierRetryWaits(n) ==
  LET x == applier[n]
  IN  /\ x.parked # <<>> /\ Len(queue[n]) < QueueCap
      /\ TryAgain(n, Head(x.parked))
      /\ SetApplier(n, [x EXCEPT !.parked = Tail(@)])
      /\ UNCHANGED <<database, clock, arriving, setBack, failures, restarts, round>>

\* retryPending on the applier goroutine.
ApplierRetry(n) ==
  LET x == applier[n]
  IN  /\ x.parked # <<>>
      /\ TryAgain(n, Head(x.parked))
      /\ SetApplier(n, [x EXCEPT !.parked = Tail(@)])
      /\ UNCHANGED <<database, clock, arriving, setBack, failures, restarts, round>>

\* One of its statements fails: reported and not tried again.
FailSchema(n) ==
  \E ch \in applier[n].change :
    /\ failures < MaxFailures /\ failures' = failures + 1
    /\ lost' = [lost EXCEPT ![n] = @ \cup {ch.op}]
    /\ SetApplier(n, [applier[n] EXCEPT !.change = {}])
    /\ UNCHANGED <<database, clock, arriving, queue, pending, setBack, restarts, round>>

-----------------------------------------------------------------------------
(***************************************************************************)
(* The end of a sync round: retryPending on the goroutine of anti-entropy, *)
(* then the clock is saved.                                                *)
(***************************************************************************)
SetRound(n, x) == round' = [round EXCEPT ![n] = x]

RoundRetries(n) ==
  /\ ~ round[n].on
  /\ SetRound(n, [on |-> TRUE, parked |-> pending[n]])
  /\ pending' = [pending EXCEPT ![n] = <<>>]
  /\ UNCHANGED <<database, clock, arriving, queue, applier, history>>

RoundRetry(n) ==
  /\ round[n].parked # <<>>
  /\ TryAgain(n, Head(round[n].parked))
  /\ SetRound(n, [round[n] EXCEPT !.parked = Tail(@)])
  /\ UNCHANGED <<database, clock, arriving, applier, setBack, failures, restarts>>

RoundSaves(n) ==
  /\ round[n].on /\ round[n].parked = <<>>
  /\ SetRound(n, Waiting)
  /\ savedClock' = [savedClock EXCEPT ![n] = clock[n]]
  /\ UNCHANGED <<localSeq, oplog, version, row, schema, clock, arriving, queue, pending,
                 applier, history>>

SyncRound(n) == RoundRetries(n) \/ RoundRetry(n) \/ RoundSaves(n)

\* What node n has stored and not applied is in memory only.
Outstanding(n) ==
  LET x == applier[n]
  IN  arriving[n] \cup ToSet(queue[n]) \cup ToSet(pending[n]) \cup ToSet(x.todo)
        \cup ToSet(x.group) \cup ToSet(x.entries) \cup ToSet(x.single)
        \cup ToSet(x.parked) \cup ToSet(round[n].parked) \cup {ch.op : ch \in x.change}

\* The process dies and a new one resumes the saved clock (initStorage).
Crash(n) ==
  /\ restarts < MaxRestarts /\ restarts' = restarts + 1
  /\ clock'    = [clock EXCEPT ![n] = savedClock[n]]
  /\ setBack'  = (setBack \/ clock'[n] # clock[n])
  /\ lost'     = [lost EXCEPT ![n] = @ \cup Outstanding(n)]
  /\ arriving' = [arriving EXCEPT ![n] = {}]
  /\ queue'    = [queue EXCEPT ![n] = <<>>]
  /\ pending'  = [pending EXCEPT ![n] = <<>>]
  /\ SetApplier(n, Idle) /\ SetRound(n, Waiting)
  /\ UNCHANGED <<database, failures>>

-----------------------------------------------------------------------------
Applier(n) ==
  \/ Drain(n) \/ Collect(n) \/ Flush(n) \/ Resolve(n) \/ ApplyTogether(n) \/ RollBack(n)
  \/ FindAlone(n) \/ ApplyAlone(n) \/ ParkAlone(n) \/ FailAlone(n)
  \/ ReadSchema(n) \/ SaveSchema(n) \/ StoreSchemaVersion(n) \/ FailSchema(n)
  \/ ApplierRetry(n)

ApplyNext ==
  \E n \in Node :
    \/ \E r \in Rec : LocalRecord(n, r)
    \/ \E c \in Col : LocalSchema(n, c)
    \/ \E p \in Node : Ingest(n, p)
    \/ Enqueue(n) \/ Applier(n) \/ SyncRound(n) \/ Crash(n)

ApplySpec == ApplyInit /\ [][ApplyNext]_applyVars

(***************************************************************************)
(* Fairness.  Goroutines that can go on do (whether a statement fails is    *)
(* not theirs to choose), and the sync round comes again and again.        *)
(* Nothing makes a node write, ingest or crash.                            *)
(***************************************************************************)
ApplyFairSpec ==
  /\ ApplySpec
  /\ \A n \in Node : /\ WF_applyVars(Enqueue(n)) /\ WF_applyVars(Applier(n))
                     /\ WF_applyVars(SyncRound(n))

-----------------------------------------------------------------------------
(***************************************************************************)
(* Properties                                                              *)
(***************************************************************************)
NoDrops == \A n \in Node : \A o \in oplog[n] : o.type # "colDelete"

\* A record is what its version says: the payload of the operation that won, or
\* nothing after a delete, at any moment, through batches that roll back and
\* crashes (deleting a collection drops records and leaves their versions).
RowIsWinner ==
  NoDrops =>
    \A n \in Node : \A r \in Rec :
      LET v == version[n][r]
      IN  IF v = NoVersion \/ v.deleted THEN row[n][r] = NoRow
          ELSE \E o \in oplog[n] : /\ o.key = r /\ o.type = "upsert" /\ Stamp(o) = v
                                   /\ row[n][r] = Written(o)

\* Every record operation in the log has reached the data, is beaten by what
\* has, or is still on its way there; what was lost is known to be.
Accounted ==
  setBack \/ \A n \in Node : \A o \in oplog[n] :
    o.key \in Rec => ~ Supersedes(n, o) \/ o \in Outstanding(n) \/ o \in lost[n]

\* The applier never gets stuck: in the end only operations whose collection is
\* not known wait, although the applier itself puts parked operations back into
\* the bounded queue it alone empties (retryPending).
QueueDrains ==
  <>[](\A n \in Node : \A o \in Outstanding(n) : ~ Resolves(n, o))

\* Nothing is on its way, and every log has everything.
Settled ==
  /\ \A n \in Node : Outstanding(n) = {}
  /\ \A n, m \in Node : oplog[n] = oplog[m]

SameRecords ==
  \A n, m \in Node : \A r \in Rec : version[n][r] = version[m][r] /\ row[n][r] = row[m][r]

\* Nodes that have the same operations and applied them have the same records,
\* whatever the order in which these arrived, unless one was lost or a clock
\* was set back.
Converged ==
  Settled /\ NoDrops /\ ~ setBack /\ (\A n \in Node : lost[n] = {}) => SameRecords

\* "All nodes accept writes and converge to the same state" (README.md).
AlwaysConverges == Settled /\ NoDrops => SameRecords

\* A record never goes back to an older version, not by applying an operation
\* late, and not by a local write, which has no gate: its timestamp is beyond
\* everything applied before.
VersionsAdvance ==
  [][setBack' \/ \A n \in Node : \A r \in Rec : ~ Less(version'[n][r], version[n][r])]_applyVars
=============================================================================
