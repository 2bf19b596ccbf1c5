------------------------------ MODULE Identity ------------------------------
(***************************************************************************)
(* The ids of nodes (identity.go, and the join of bootstrap.go and         *)
(* routes.go).  A directory that is copied takes its id with it.  A process *)
(* finds out when its seed answers with its own id before it serves, or    *)
(* when its join is refused; the next start then gives it a fresh id, and  *)
(* issues anew under that what the seed does not know.  In strict mode it  *)
(* does not start instead.                                                 *)
(*                                                                         *)
(* Every process has bootstrapped, and the id of a seed is its own business *)
(* (no seed of an old version).  One record; what is received is applied at *)
(* once, a push or a pull is one step and nothing is ever collected         *)
(* (OplogSync, Apply and Compaction have them in detail).  Any two          *)
(* processes with different ids exchange operations, and a seed has some    *)
(* address that an id was announced with, and has heard of it lately or     *)
(* not: which is left open.                                                 *)
(***************************************************************************)
EXTENDS Lww

CONSTANTS
  Process,         \* data directories, and the addresses they are served at; naturals
  Original, Clone, \* the second is copied from the first
  Id,              \* node ids; naturals, because the code orders them
  FirstId,         \* FirstId[p]
  Configs,         \* choices of the SeedURL of each process (an address, or 0), of those
                   \* without NodeURL and of those with StrictNodeID; bound: with each
                   \* the number of stops, failed calls and transactions, together,
                   \* and whom each process calls
  Writes           \* bound: Writes[p], local writes of p

ASSUME IdentityAssumption ==
  /\ Process \subseteq Nat \ {0} /\ Original \in Process /\ Clone \in Process \ {Original}
  /\ Id \subseteq Nat /\ IsFiniteSet(Id) /\ FirstId \in [Process \ {Clone} -> Id]
  /\ \A p, q \in Process \ {Clone} : FirstId[p] = FirstId[q] => p = q
  /\ Configs \subseteq [seed : [Process -> Process \cup {0}],
                         pullOnly : SUBSET Process, strict : SUBSET Process, events : Nat,
                         calls : [Process -> SUBSET Process]]
  /\ Writes \in [Process -> Nat]

\* An operation, and the process whose write it is.
Op      == [src : Id, seq : Nat \ {0}, hlc : Nat, by : Process]
Version == [hlc : Nat, src : Id \cup {0}, by : Process \cup {0}]

\* A data directory: _repl_oplog, the record with its version, and of _repl_state
\* local_seq, the vector, stateDupNodePending and the clock.
Database ==
  [id : Id, log : SUBSET Op, version : Version, localSeq : Nat, vector : [Id -> Nat],
   flag : BOOLEAN, clock : Nat]
Fresh(i) ==
  [id |-> i, log |-> {}, version |-> [hlc |-> 0, src |-> 0, by |-> 0], localSeq |-> 0,
   vector |-> [j \in Id |-> 0], flag |-> FALSE, clock |-> 0]

VARIABLES
  config,   \* what the operator has configured
  db,       \* db[p]
  at,       \* at[p]: where the process is
  ack,      \* ack[p]: what fetchSeedAck has returned; 0 if that is unknown
  started,  \* started[p]: its log when it started, before the push cursors
  claimed,  \* claimed[i]: the addresses that id i was announced with, 0 for none
  spread,   \* history: writes that others got under an id that two processes had
  tied,     \* history: writes that had met one of the same time when they got a new id
  events

history == <<spread, tied>>
vars    == <<config, db, at, ack, started, claimed, history, events>>

IdentityTypeOK ==
  /\ config \in Configs
  /\ db \in [Process -> Database]
  /\ at \in [Process -> {"absent", "down", "probe", "fetch", "adopt", "join", "running"}]
  /\ ack \in [Process -> Nat] /\ started \in [Process -> SUBSET Op]
  /\ claimed \in [Id -> SUBSET (Process \cup {0})]
  /\ events \in Nat /\ \A w \in spread \cup tied : w.by \in Process
  /\ \A p \in Process : db[p].localSeq =
       Cardinality({o \in db[p].log : o.src = db[p].id})

-----------------------------------------------------------------------------
IdOf(p)    == db[p].id
Seed(p)    == config.seed[p]
Url(p)     == IF p \in config.pullOnly THEN 0 ELSE p
IsStrict(p) == p \in config.strict
Own(p)     == {o \in db[p].log : o.src = IdOf(p)}

\* It listens; the join and the loops come after that.
Serving(p) == at[p] \in {"join", "running"}
Answers(u) == u # 0 /\ Serving(u)
Event      == events < config.events /\ events' = events + 1

CurrentVector(p) == [db[p].vector EXCEPT ![IdOf(p)] = Larger(@, db[p].localSeq)]
Known(ops, o)    == \E x \in ops : x.src = o.src /\ x.seq = o.seq
WriteOf(o)       == [hlc |-> o.hlc, by |-> o.by]
SameWrite(x, o)  == x.hlc = o.hlc /\ x.by = o.by
Stamp(o)         == [hlc |-> o.hlc, src |-> o.src, by |-> o.by]

IdentityInit ==
  /\ config \in Configs
  /\ db = [p \in Process |-> Fresh(FirstId[IF p = Clone THEN Original ELSE p])]
  /\ at = [p \in Process |-> IF p = Clone THEN "absent" ELSE "running"]
  /\ ack = [p \in Process |-> 0] /\ started = [p \in Process |-> {}]
  /\ claimed = [i \in Id |-> {Url(p) : p \in {q \in Process \ {Clone} : FirstId[q] = i}}]
  /\ spread = {} /\ tied = {} /\ events = 0

Goes(p, to) == at' = [at EXCEPT ![p] = to]

\* captureRecord
LocalWrite(p) ==
  LET d == db[p]
      o == [src |-> d.id, seq |-> d.localSeq + 1, hlc |-> d.clock + 1, by |-> p]
  IN  /\ Serving(p) /\ Cardinality({x \in d.log : x.by = p}) < Writes[p]
      /\ db' = [db EXCEPT ![p] = [d EXCEPT !.log = @ \cup {o}, !.localSeq = o.seq,
                                           !.clock = o.hlc, !.version = Stamp(o)]]
      /\ UNCHANGED <<config, at, ack, started, claimed, history, events>>

\* The operator copies a data directory.  Bound: that has something in it.
Copy ==
  /\ at[Clone] = "absent" /\ db[Original].log # {} /\ Goes(Clone, "down")
  /\ db' = [db EXCEPT ![Clone] = db[Original]]
  /\ UNCHANGED <<config, ack, started, claimed, history, events>>

\* Bound: once there is a copy.
Stop(p) ==
  /\ at[p] # "down" /\ at[Clone] # "absent" /\ Event /\ Goes(p, "down")
  /\ ack' = [ack EXCEPT ![p] = 0] /\ started' = [started EXCEPT ![p] = {}]
  /\ UNCHANGED <<config, db, claimed, history>>

-----------------------------------------------------------------------------
(***************************************************************************)
(* Whose id it is                                                          *)
(***************************************************************************)
\* (mutant) whatever answers is another process.
InUseWhenAnswered(i, u, p, healthy) ==
  IF Answers(u) /\ IdOf(u) = i THEN TRUE
  ELSE ~ (u # 0 /\ (u = Url(p) \/ Answers(Url(p)))) /\ healthy

\* registeredIdentityInUse, for the owner of id i at address u: what answers there for
\* i decides; or it is p's own address, or p can be called back; or else it counts
\* whether the owner was heard of lately.
InUse(i, u, p, healthy) ==
  IF Answers(u) /\ IdOf(u) = i THEN u # p
  ELSE ~ (u # 0 /\ (u = Url(p) \/ Answers(Url(p)))) /\ healthy

\* The seed s of p may answer p's claim to its id in this way: 409 for TRUE
\* (handleIdentityCheck, handleJoin).
Refuses(s, p, answer) ==
  \/ IdOf(s) = IdOf(p) /\ answer = (s # p)
  \/ IdOf(s) # IdOf(p) /\ claimed[IdOf(p)] = {} /\ ~ answer
  \/ IdOf(s) # IdOf(p) /\ \E u \in claimed[IdOf(p)], healthy \in BOOLEAN :
       answer = InUse(IdOf(p), u, p, healthy)

\* (mutant) a seed that does not answer has nothing against it.
NotRefused(p) == Seed(p) # 0 /\ Answers(Seed(p)) => Refuses(Seed(p), p, FALSE)

\* checkStrictNodeID: any failure is fatal.
Checked(p) == Seed(p) # 0 => Answers(Seed(p)) /\ Refuses(Seed(p), p, FALSE)

\* OnServe: in strict mode only after the seed has agreed, and then without the flag
\* (clearDuplicateNodeIDFlag).
Start(p) ==
  /\ at[p] = "down" /\ Goes(p, "probe")
  /\ IsStrict(p) => Checked(p)
  /\ db'      = [db EXCEPT ![p].flag = @ /\ ~ IsStrict(p)]
  /\ started' = [started EXCEPT ![p] = db[p].log]
  /\ UNCHANGED <<config, ack, claimed, history, events>>

\* resolveDuplicateNodeID: a flag, or the seed answers with the id of p.
Duplicate(p) ==
  \/ db[p].flag
  \/ Seed(p) \notin {0, p} /\ Answers(Seed(p)) /\ IdOf(Seed(p)) = IdOf(p)

Probe(p) ==
  /\ at[p] = "probe" /\ Goes(p, IF Duplicate(p) THEN "fetch" ELSE "join")
  /\ UNCHANGED <<config, db, ack, started, claimed, history, events>>

ProbeFails(p) ==
  /\ at[p] = "probe" /\ Event /\ ~ db[p].flag /\ Goes(p, "join")
  /\ UNCHANGED <<config, db, ack, started, claimed, history>>

\* fetchSeedAck: a join without instance and address, which nobody refuses, and which
\* is recorded where the id is another's.
Fetch(p) ==
  LET s == Seed(p)
  IN  /\ at[p] = "fetch" /\ Goes(p, "adopt")
      /\ \/ Answers(s) /\ UNCHANGED events
            /\ ack' = [ack EXCEPT ![p] = CurrentVector(s)[IdOf(p)]]
            /\ claimed' = IF IdOf(s) = IdOf(p) THEN claimed
                          ELSE [claimed EXCEPT ![IdOf(p)] = @ \cup {0}]
         \/ /\ IF Answers(s) THEN Event ELSE UNCHANGED events
            /\ ack' = [ack EXCEPT ![p] = 0] /\ UNCHANGED claimed
      /\ UNCHANGED <<config, db, started, history>>

MaxOwn(p) == CHOOSE n \in {0} \cup {o.seq : o \in Own(p)} : \A o \in Own(p) : o.seq <= n

\* (mutant) what the seed has of the original counts as held.
BoundaryOfSeed(p) == ack[p]

\* (mutant) without an answer nothing is issued anew.
BoundaryUnknown(p) == IF ack[p] = 0 \/ ack[p] > MaxOwn(p) THEN MaxOwn(p) ELSE ack[p]

Boundary(p) == IF ack[p] > MaxOwn(p) THEN MaxOwn(p) ELSE ack[p]

Moved(p, a) == {o \in Own(p) : o.seq > a}

\* (mutant) the version keeps the old id.
VersionStays(p, moved, new) == db[p].version

Renamed(p, moved, new) ==
  LET v == db[p].version
  IN  IF v.src = IdOf(p) /\ \E o \in moved : o.hlc = v.hlc THEN [v EXCEPT !.src = new] ELSE v

\* (mutant) the numbers go on.
LocalSeqStays(p, moved) == db[p].localSeq

LocalSeqAfter(p, moved) == Cardinality(moved)

\* A directory whose operations after number a have become the first ones of a new id.
WithId(p, new) ==
  LET a     == Boundary(p)
      moved == Moved(p, a)
      place(o) == Cardinality({x \in moved : x.seq <= o.seq})
  IN  [db[p] EXCEPT
         !.id = new, !.flag = FALSE, !.localSeq = LocalSeqAfter(p, moved),
         !.log = (@ \ {o \in Own(p) : o.seq > a})
                   \cup {[o EXCEPT !.src = new, !.seq = place(o)] : o \in moved},
         !.version = Renamed(p, moved, new),
         !.vector = [@ EXCEPT ![IdOf(p)] = a, ![new] = 0]]

\* adoptFreshNodeID: one transaction.
Adopt(p) ==
  /\ at[p] = "adopt" /\ Goes(p, "join")
  /\ \E new \in Id \ {IdOf(q) : q \in Process} :
       /\ \A q \in Process : ~ \E o \in db[q].log : o.src = new
       /\ db' = [db EXCEPT ![p] = WithId(p, new)]
  /\ ack'  = [ack EXCEPT ![p] = 0]
  /\ tied' = tied \cup {WriteOf(o) : o \in {x \in Moved(p, Boundary(p)) :
               \E y \in db[p].log : y.hlc = x.hlc /\ ~ SameWrite(x, y)}}
  /\ UNCHANGED <<config, started, claimed, spread, events>>

AdoptFails(p) ==
  /\ at[p] = "adopt" /\ Event /\ Goes(p, "join")
  /\ ack' = [ack EXCEPT ![p] = 0]
  /\ UNCHANGED <<config, db, started, claimed, history>>

-----------------------------------------------------------------------------
(***************************************************************************)
(* Joining (joinCluster, handleJoin); the loops wait for the end of it     *)
(***************************************************************************)
JoinAccepted(p) ==
  /\ at[p] = "join" /\ Goes(p, "running")
  /\ IF Seed(p) = 0 THEN UNCHANGED claimed
     ELSE /\ Answers(Seed(p)) /\ Refuses(Seed(p), p, FALSE)
          /\ claimed' = [claimed EXCEPT ![IdOf(p)] = @ \cup {Url(p)}]
  /\ UNCHANGED <<config, db, ack, started, history, events>>

\* The flag is for the next start; the loops run all the same.  In strict mode the
\* join is tried again.
JoinRefused(p) ==
  /\ at[p] = "join" /\ ~ IsStrict(p)
  /\ Answers(Seed(p)) /\ Refuses(Seed(p), p, TRUE)
  /\ db' = [db EXCEPT ![p].flag = TRUE] /\ Goes(p, "running")
  /\ UNCHANGED <<config, ack, started, claimed, history, events>>

JoinFails(p) ==
  /\ at[p] = "join" /\ Seed(p) # 0 /\ Goes(p, "running")
  /\ IF Answers(Seed(p)) THEN Event ELSE UNCHANGED events
  /\ UNCHANGED <<config, db, ack, started, claimed, history>>

-----------------------------------------------------------------------------
(***************************************************************************)
(* Exchanging operations                                                   *)
(***************************************************************************)
\* Database d with the operations `ops'.
Ingested(d, ops) ==
  LET log  == d.log \cup ops
      wins == {o \in ops : Less(d.version, o) /\ ~ \E x \in ops : Less(o, x)}
  IN  [d EXCEPT !.log = log,
         !.vector  = [i \in Id |-> IF i = d.id THEN @[i] ELSE Contiguous(log, i, @[i])],
         !.version = IF wins = {} THEN @ ELSE Stamp(CHOOSE o \in wins : TRUE),
         !.clock   = CHOOSE c \in {@} \cup {o.hlc : o \in ops} :
                       c >= @ /\ \A o \in ops : o.hlc <= c]

\* p calls q, which notes the sender; `ops' go from one to the other.
Reaches(p, q) == q \in config.calls[p] /\ at[p] = "running" /\ Serving(q) /\ Url(q) # 0 /\ IdOf(p) # IdOf(q)

Calls(p, q, ops, from) ==
  /\ UNCHANGED <<config, at, ack, started, tied, events>>
  /\ claimed' = [claimed EXCEPT ![IdOf(p)] = IF Url(p) = 0 /\ @ # {} THEN @ ELSE @ \cup {Url(p)}]
  /\ spread' = spread \cup {WriteOf(o) : o \in {x \in ops :
       x.src = IdOf(from) /\ \E r \in Process \ {from} : at[r] # "absent" /\ IdOf(r) = x.src}}

\* What is in the log of p since it started, and was not there before.
Push(p, q) ==
  LET ops == {o \in db[p].log \ started[p] : o.src # IdOf(q) /\ ~ Known(db[q].log, o)}
  IN  /\ Reaches(p, q) /\ ops # {} /\ Calls(p, q, ops, p)
      /\ db' = [db EXCEPT ![q] = Ingested(@, ops)]

\* pullFromPeer: handlePull skips what p may have written itself.
Pull(p, q) ==
  LET theirs == CurrentVector(q)
      after  == [CurrentVector(p) EXCEPT ![IdOf(p)] = Larger(@, theirs[IdOf(p)])]
      ops    == {o \in db[q].log : /\ o.src # IdOf(p) /\ o.seq > after[o.src]
                                   /\ ~ Known(db[p].log, o)}
      got    == Ingested(db[p], ops)
  IN  /\ Reaches(p, q) /\ theirs # after /\ Calls(p, q, ops, q)
      /\ db' = [db EXCEPT ![p] = [got EXCEPT !.vector = Adopted(@, theirs, IdOf(p))]]

Starts(p)    == Start(p) \/ Probe(p) \/ Fetch(p) \/ Adopt(p)
Joins(p)     == JoinAccepted(p) \/ JoinRefused(p) \/ JoinFails(p)
Exchanges(p) == \E q \in Process : Push(p, q) \/ Pull(p, q)

IdentityNext ==
  \/ Copy
  \/ \E p \in Process :
       \/ LocalWrite(p) \/ Stop(p) \/ Starts(p) \/ Joins(p) \/ Exchanges(p)
       \/ ProbeFails(p) \/ AdoptFails(p)

IdentitySpec == IdentityInit /\ [][IdentityNext]_vars

\* All these come to an end: that some of them happens while any can is fairness enough.
IdentityFairSpec ==
  IdentitySpec /\ WF_vars(\E p \in Process : Starts(p) \/ Joins(p) \/ Exchanges(p))

-----------------------------------------------------------------------------
(***************************************************************************)
(* Properties                                                              *)
(***************************************************************************)
Logs           == UNION {db[p].log : p \in Process}
Clash(o)       == \E x, y \in Logs : /\ SameWrite(x, o) /\ ~ SameWrite(y, o)
                                     /\ x.src = y.src /\ x.seq = y.seq

\* What the vector of a process covers it holds, through copies, fresh ids and numbers
\* that the original hands out again; but for numbers that two processes gave to
\* different writes.
HoldsWhatItCovers ==
  \A p \in Process : at[p] # "absent" => \A o \in Logs :
    o.seq <= CurrentVector(p)[o.src] => (\E x \in db[p].log : SameWrite(x, o)) \/ Clash(o)

\* Logs that are equal give records that are equal, through changes of ids; but for
\* those numbers and for writes of which a tie was decided by the old id.
Converged ==
  \A p, q \in Process :
    db[p].log = db[q].log /\ db[p].version # db[q].version =>
      \E o \in db[p].log : WriteOf(o) \in tied \/ Clash(o)

\* "In strict mode the configured id must never be silently replaced".
StrictIdsStay == [][\A p \in config.strict : at[p] # "absent" => db'[p].id = db[p].id]_vars

\* A restart is not taken for a duplicate: a process with an address of its own, of whose
\* directory there is no copy, keeps its id.
NoFalseAlarm ==
  \A p \in Process \ ({Original, Clone} \cup config.pullOnly) : IdOf(p) = FirstId[p]

Distinct == \A p, q \in Process : p # q /\ at[p] # "absent" /\ at[q] # "absent" => IdOf(p) # IdOf(q)

\* A pull-only process that stops before it has pushed (OplogSync has this).
Unpushed(w) == \E p \in config.pullOnly : \E o \in started[p] : SameWrite(o, w) /\ o.src = IdOf(p)

Arrived(w) ==
  \/ \A p \in Process : at[p] # "absent" => \E o \in db[p].log : SameWrite(o, w)
  \/ w \in spread \/ Unpushed(w) \/ \E o \in Logs : SameWrite(o, w) /\ Clash(o)

\* "local data is kept; writes the original doesn't know about are re-emitted under the
\* new id": once every process has an id of its own, every write reaches them all; but
\* for numbers that were given twice and writes that others got under an id of two.
WritesArrive == []<>(Distinct => \A o \in Logs : Arrived(WriteOf(o)))
=============================================================================
