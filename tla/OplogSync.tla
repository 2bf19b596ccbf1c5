------------------------------ MODULE OplogSync ------------------------------
(***************************************************************************)
(* How operations travel between the oplogs of a cluster: capture of a     *)
(* local write (capture.go, store.go), the pusher and the handler of       *)
(* POST /ops, the anti-entropy puller and the handler of POST /pull        *)
(* (sync.go, routes.go), and the volatile state a process restart loses    *)
(* (pbreplication.go).                                                     *)
(*                                                                         *)
(* One action is one database statement or one read of a shared value:     *)
(* requests of different peers and the pull client run concurrently, and   *)
(* ingestOpsCount is NOT a transaction.                                    *)
(*                                                                         *)
(* Not here: what an operation says and when it is applied, the member     *)
(* table (constant here), and compaction (no row is deleted, so no horizon *)
(* and no fence exist and a pull never asks for a snapshot).  Node ids are *)
(* naturals because the code orders them (ORDER BY src_node).              *)
(***************************************************************************)
EXTENDS Naturals, Sequences, FiniteSets

CONSTANTS
  Node,         \* node ids
  PushTo,       \* PushTo[n], PullFrom[n]: the members with a URL that n knows.
  PullFrom,     \* The code uses one list for both; two of them let an
                \* instance leave exchanges out.  A pull-only node is in none.
  MaxBatch,     \* cfg.MaxBatch: operations per request
  MaxSeq,       \* bound: MaxSeq[n] local writes of node n
  MaxRestarts   \* bound: process restarts in a behaviour

ASSUME NodeAssumption     == Node \subseteq Nat /\ IsFiniteSet(Node)
ASSUME PeersAssumption    ==
  /\ PushTo \in [Node -> SUBSET Node] /\ PullFrom \in [Node -> SUBSET Node]
  /\ \A n \in Node : n \notin PushTo[n] /\ n \notin PullFrom[n]
ASSUME BatchAssumption    == MaxBatch \in Nat \ {0}
ASSUME MaxSeqAssumption   == MaxSeq \in [Node -> Nat]
ASSUME RestartsAssumption == MaxRestarts \in Nat

Op     == [src : Node, seq : Nat \ {0}]
Vector == [Node -> Nat]

VARIABLES
  \* in the database: survives a restart
  localSeq,    \* localSeq[n]: _repl_state local_seq
  oplog,       \* oplog[n]: _repl_oplog in rowid order; the rowid is the index
  vector,      \* vector[n][src]: _repl_state vector.<src>
  \* in the process
  serving,     \* serving[n]: startBackground has run
  startRow,    \* startRow[n]: startRowID
  pushCursor,  \* pushCursor[n][p]: pushCursors, startRowID where absent
  pushWake,    \* pushWake[n]: a token is in the pushWake channel
  pushing,     \* pushing[n]: peers whose pushToPeer goroutine is running
  push,        \* push[p][n]: the POST /ops exchange from p to n
  pull,        \* pull[n]: the anti-entropy exchange of n
  restarts     \* restarts so far

persistent == <<localSeq, oplog, vector>>
pusher     == <<startRow, pushCursor, pushWake, pushing>>
vars       == <<persistent, serving, pusher, push, pull, restarts>>

(***************************************************************************)
(* Exchanges.  `touched` and `write` are the local variables of            *)
(* ingestOpsCount/advanceVector/adoptVector: the sources still to visit    *)
(* and the vector entry that has been computed and not yet stored.         *)
(***************************************************************************)
PushIdle ==
  [phase |-> "idle", waiting |-> FALSE, at |-> 0, last |-> 0,
   touched |-> {}, write |-> {}]

PullIdle ==
  [phase |-> "idle", peer |-> 0, cursor |-> [m \in Node |-> 0],
   vec |-> [m \in Node |-> 0], page |-> {}, touched |-> {}, write |-> {}]

PushState ==
  [phase : {"idle", "sent", "handling"}, waiting : BOOLEAN, at : Nat, last : Nat,
   touched : SUBSET Node, write : SUBSET Op]

PullState ==
  [phase : {"idle", "request", "serving", "ingest", "adopt"}, peer : Node \cup {0},
   cursor : Vector, vec : Vector, page : SUBSET Op,
   touched : SUBSET Node, write : SUBSET Op]

TypeOK ==
  /\ localSeq \in Vector
  /\ oplog \in [Node -> Seq(Op)]
  /\ vector \in [Node -> Vector]
  /\ serving \in [Node -> BOOLEAN]
  /\ startRow \in [Node -> Nat]
  /\ pushCursor \in [Node -> Vector]
  /\ pushWake \in [Node -> BOOLEAN]
  /\ pushing \in [Node -> SUBSET Node]
  /\ push \in [Node -> [Node -> PushState]]
  /\ pull \in [Node -> PullState]
  /\ restarts \in Nat

-----------------------------------------------------------------------------
Smaller(a, b) == IF a <= b THEN a ELSE b
Larger(a, b)  == IF a >= b THEN a ELSE b

\* The operations in n's oplog.
Held(n) == {oplog[n][i] : i \in 1 .. Len(oplog[n])}

\* currentVector: the persisted entries, and the local sequence for n itself.
CurrentVector(n) == [vector[n] EXCEPT ![n] = Larger(@, localSeq[n])]

\* INSERT OR IGNORE of a remote operation, with the next rowid.
Stored(n, o) == IF o \in Held(n) THEN oplog[n] ELSE Append(oplog[n], o)

\* (mutant) the scan counts the first missing sequence as held.
ScanPastTheGap(n, src, cur, next) ==
  /\ \A s \in cur + 1 .. next - 1 : [src |-> src, seq |-> s] \in Held(n)
  /\ [src |-> src, seq |-> next] \notin Held(n)

\* advanceVector: `next` is where the scan from `cur` stops.
ScanStopsAt(n, src, cur, next) ==
  /\ \A s \in cur + 1 .. next : [src |-> src, seq |-> s] \in Held(n)
  /\ [src |-> src, seq |-> next + 1] \notin Held(n)

\* ORDER BY src_node, then src_seq.
Before(a, b) == a.src < b.src \/ (a.src = b.src /\ a.seq < b.seq)

\* (mutant) src_seq > after + 1: the operation next in line is left out.
IsPageAfterNext(page, p, after) ==
  LET avail == {o \in Held(p) : o.seq > after[o.src] + 1}
  IN  /\ page \subseteq avail
      /\ \A a \in page : \A b \in avail : Before(b, a) => b \in page
      /\ Cardinality(page) <= MaxBatch
      /\ page = avail \/ Cardinality(page) = MaxBatch

\* opsAfterVector: the first MaxBatch operations of p beyond `after`.
IsPage(page, p, after) ==
  LET avail == {o \in Held(p) : o.seq > after[o.src]}
  IN  /\ page \subseteq avail
      /\ \A a \in page : \A b \in avail : Before(b, a) => b \in page
      /\ Cardinality(page) <= MaxBatch
      /\ page = avail \/ Cardinality(page) = MaxBatch

\* The exchange x once the scan for src has stopped at `next`, the stored
\* entry being cur: what is left to do is to store `next` if it is new.
Scanned(x, src, cur, next) ==
  [x EXCEPT !.touched = @ \ {src},
            !.write   = IF next = cur THEN {} ELSE {[src |-> src, seq |-> next]}]

SetPush(p, n, x) == push' = [push EXCEPT ![p][n] = x]
SetPull(n, x)    == pull' = [pull EXCEPT ![n] = x]

-----------------------------------------------------------------------------
Init ==
  /\ localSeq   = [n \in Node |-> 0]
  /\ oplog      = [n \in Node |-> <<>>]
  /\ vector     = [n \in Node |-> [m \in Node |-> 0]]
  /\ serving    = [n \in Node |-> TRUE]
  /\ startRow   = [n \in Node |-> 0]
  /\ pushCursor = [n \in Node |-> [m \in Node |-> 0]]
  /\ pushWake   = [n \in Node |-> FALSE]
  /\ pushing    = [n \in Node |-> {}]
  /\ push       = [p \in Node |-> [n \in Node |-> PushIdle]]
  /\ pull       = [n \in Node |-> PullIdle]
  /\ restarts   = 0

\* (mutant) the operation carries the sequence before the increment.
LocalWriteOldSeq(n) ==
  /\ localSeq[n] < MaxSeq[n]
  /\ localSeq' = [localSeq EXCEPT ![n] = @ + 1]
  /\ oplog'    = [oplog EXCEPT ![n] = Append(@, [src |-> n, seq |-> localSeq[n]])]
  /\ pushWake' = [pushWake EXCEPT ![n] = TRUE]
  /\ UNCHANGED <<vector, serving, startRow, pushCursor, pushing, push, pull, restarts>>

\* (mutant) the sequence is allocated, the row is not in the transaction.
LocalWriteNoRow(n) ==
  /\ localSeq[n] < MaxSeq[n]
  /\ localSeq' = [localSeq EXCEPT ![n] = @ + 1]
  /\ pushWake' = [pushWake EXCEPT ![n] = TRUE]
  /\ UNCHANGED <<oplog, vector, serving, startRow, pushCursor, pushing, push, pull, restarts>>

(***************************************************************************)
(* Capture: the sequence number, the oplog row and the write commit        *)
(* together; the pusher is woken after the commit.  A write may happen     *)
(* before startBackground (a migration).                                   *)
(***************************************************************************)
LocalWrite(n) ==
  /\ localSeq[n] < MaxSeq[n]
  /\ localSeq' = [localSeq EXCEPT ![n] = @ + 1]
  /\ oplog'    = [oplog EXCEPT ![n] = Append(@, [src |-> n, seq |-> localSeq[n] + 1])]
  /\ pushWake' = [pushWake EXCEPT ![n] = TRUE]
  /\ UNCHANGED <<vector, serving, startRow, pushCursor, pushing, push, pull, restarts>>

-----------------------------------------------------------------------------
(***************************************************************************)
(* The pusher                                                              *)
(***************************************************************************)
\* pushRound: one goroutine per member with a URL; the next round waits.
PushRound(n) ==
  /\ serving[n] /\ pushWake[n] /\ pushing[n] = {}
  /\ pushWake' = [pushWake EXCEPT ![n] = FALSE]
  /\ pushing'  = [pushing EXCEPT ![n] = PushTo[n]]
  /\ UNCHANGED <<persistent, serving, startRow, pushCursor, push, pull, restarts>>

\* pushToPeer reads the rows after the cursor and posts them.
PushSend(p, n) ==
  /\ n \in pushing[p] /\ push[p][n].phase = "idle"
  /\ pushCursor[p][n] < Len(oplog[p])
  /\ SetPush(p, n, [PushIdle EXCEPT
       !.phase = "sent", !.waiting = TRUE,
       !.at    = pushCursor[p][n] + 1,
       !.last  = Smaller(pushCursor[p][n] + MaxBatch, Len(oplog[p]))])
  /\ UNCHANGED <<persistent, serving, pusher, pull, restarts>>

\* pushToPeer finds no row after the cursor.
PushNothing(p, n) ==
  /\ n \in pushing[p] /\ push[p][n].phase = "idle"
  /\ pushCursor[p][n] = Len(oplog[p])
  /\ pushing' = [pushing EXCEPT ![p] = @ \ {n}]
  /\ UNCHANGED <<persistent, serving, startRow, pushCursor, pushWake, push, pull, restarts>>

\* handleOps: ingestOpsCount takes the next operation of the request.
HandleOp(p, n) ==
  LET x == push[p][n]
      o == oplog[p][x.at]
  IN  /\ x.phase \in {"sent", "handling"} /\ x.at <= x.last
      /\ SetPush(p, n, [x EXCEPT !.phase = "handling", !.at = @ + 1,
                                 !.touched = @ \cup ({o.src} \ {n})])
      /\ oplog' = IF o.src = n THEN oplog ELSE [oplog EXCEPT ![n] = Stored(n, o)]
      /\ UNCHANGED <<localSeq, vector, serving, pusher, pull, restarts>>

\* handleOps: advanceVector scans the log for one touched source ...
HandleScan(p, n) ==
  LET x == push[p][n]
  IN  /\ x.phase = "handling" /\ x.at > x.last /\ x.write = {}
      /\ \E src \in x.touched :
           \E next \in vector[n][src] .. vector[n][src] + Len(oplog[n]) :
             /\ ScanStopsAt(n, src, vector[n][src], next)
             /\ SetPush(p, n, Scanned(x, src, vector[n][src], next))
      /\ UNCHANGED <<persistent, serving, pusher, pull, restarts>>

\* ... and stores where the scan stopped.
HandleStore(p, n) ==
  \E w \in push[p][n].write :
    /\ vector' = [vector EXCEPT ![n][w.src] = w.seq]
    /\ SetPush(p, n, [push[p][n] EXCEPT !.write = {}])
    /\ UNCHANGED <<localSeq, oplog, serving, pusher, pull, restarts>>

\* handleOps wakes the receiver's own pusher (gossip) and answers.  If the
\* sender still waits, it moves its cursor; after a short page its goroutine
\* ends.
PushDone(p, n) ==
  LET x == push[p][n]
  IN  /\ x.phase = "handling" /\ x.at > x.last /\ x.touched = {} /\ x.write = {}
      /\ SetPush(p, n, PushIdle)
      /\ pushWake' = [pushWake EXCEPT ![n] = TRUE]
      /\ IF x.waiting
         THEN /\ pushCursor' = [pushCursor EXCEPT ![p][n] = x.last]
              /\ pushing' = IF x.last - pushCursor[p][n] < MaxBatch
                            THEN [pushing EXCEPT ![p] = @ \ {n}]
                            ELSE pushing
         ELSE UNCHANGED <<pushCursor, pushing>>
      /\ UNCHANGED <<persistent, serving, startRow, pull, restarts>>

\* (mutant) the cursor moves before the call is known to have succeeded.
PushFailMovesCursor(p, n) ==
  /\ push[p][n].phase # "idle"
  /\ SetPush(p, n, PushIdle)
  /\ pushing' = IF push[p][n].waiting THEN [pushing EXCEPT ![p] = @ \ {n}] ELSE pushing
  /\ pushCursor' = [pushCursor EXCEPT ![p][n] = push[p][n].last]
  /\ UNCHANGED <<persistent, serving, startRow, pushWake, pull, restarts>>

\* The request never arrives, or its handler stops at a database error: what
\* it has stored stays, the rest of the request is dropped and nobody is
\* woken.  A sender that waits gives this peer up until the next wake; its
\* cursor stays.
PushFail(p, n) ==
  /\ push[p][n].phase # "idle"
  /\ SetPush(p, n, PushIdle)
  /\ pushing' = IF push[p][n].waiting THEN [pushing EXCEPT ![p] = @ \ {n}] ELSE pushing
  /\ UNCHANGED <<persistent, serving, startRow, pushCursor, pushWake, pull, restarts>>

\* The call times out or the answer is lost; the handler still runs.
PushTimeout(p, n) ==
  /\ push[p][n].waiting
  /\ SetPush(p, n, [push[p][n] EXCEPT !.waiting = FALSE])
  /\ pushing' = [pushing EXCEPT ![p] = @ \ {n}]
  /\ UNCHANGED <<persistent, serving, startRow, pushCursor, pushWake, pull, restarts>>

-----------------------------------------------------------------------------
(***************************************************************************)
(* Anti-entropy                                                            *)
(***************************************************************************)
\* syncRound reaches member p: pullFromPeer takes the current vector.
StartPull(n, p) ==
  /\ serving[n] /\ pull[n].phase = "idle" /\ p \in PullFrom[n]
  /\ SetPull(n, [PullIdle EXCEPT !.phase = "request", !.peer = p, !.cursor = CurrentVector(n)])
  /\ UNCHANGED <<persistent, serving, pusher, push, restarts>>

\* handlePull on the peer captures its vector before it reads the page.
ServeVector(n) ==
  /\ pull[n].phase = "request"
  /\ SetPull(n, [pull[n] EXCEPT !.phase = "serving", !.vec = CurrentVector(pull[n].peer)])
  /\ UNCHANGED <<persistent, serving, pusher, push, restarts>>

\* skipRequesterOwnedOps
ServedAfter(n) == [pull[n].cursor EXCEPT ![n] = Larger(@, pull[n].vec[n])]

\* The sources of the peer's vector, without n itself.
Advertised(n) == {src \in Node \ {n} : pull[n].vec[src] > 0}

\* handlePull reads the page and answers; an empty page completes the pull.
ServePage(n) ==
  /\ pull[n].phase = "serving"
  /\ \E page \in SUBSET Held(pull[n].peer) :
       /\ IsPage(page, pull[n].peer, ServedAfter(n))
       /\ SetPull(n, IF page = {}
            THEN [pull[n] EXCEPT !.phase = "adopt", !.touched = Advertised(n)]
            ELSE [pull[n] EXCEPT !.phase = "ingest", !.page = page])
  /\ UNCHANGED <<persistent, serving, pusher, push, restarts>>

\* advancePullVector: the pagination cursor passes operation o of the page.
Paged(x, o) ==
  [x EXCEPT !.page = @ \ {o}, !.cursor[o.src] = Larger(@, o.seq)]

\* pullFromPeer: ingestOpsCount takes the next operation of the page.
PullOp(n) ==
  \E o \in pull[n].page :
    /\ \A b \in pull[n].page : ~ Before(b, o)
    /\ SetPull(n, [Paged(pull[n], o) EXCEPT !.touched = @ \cup ({o.src} \ {n})])
    /\ oplog' = IF o.src = n THEN oplog ELSE [oplog EXCEPT ![n] = Stored(n, o)]
    /\ UNCHANGED <<localSeq, vector, serving, pusher, push, restarts>>

\* pullFromPeer: advanceVector scans for one source of the page.
PullScan(n) ==
  /\ pull[n].phase = "ingest" /\ pull[n].page = {} /\ pull[n].write = {}
  /\ \E src \in pull[n].touched :
       \E next \in vector[n][src] .. vector[n][src] + Len(oplog[n]) :
         /\ ScanStopsAt(n, src, vector[n][src], next)
         /\ SetPull(n, Scanned(pull[n], src, vector[n][src], next))
  /\ UNCHANGED <<persistent, serving, pusher, push, restarts>>

\* adoptVector compares one entry of the peer's vector with the stored one, or
\* skips it after a database error.
AdoptEntry(n) ==
  /\ pull[n].phase = "adopt" /\ pull[n].write = {}
  /\ \E src \in pull[n].touched :
       \E next \in {Larger(pull[n].vec[src], vector[n][src]), vector[n][src]} :
         SetPull(n, Scanned(pull[n], src, vector[n][src], next))
  /\ UNCHANGED <<persistent, serving, pusher, push, restarts>>

\* (mutant) the store fails and nobody looks at the error.
PullStoreFails(n) ==
  /\ pull[n].write # {}
  /\ SetPull(n, [pull[n] EXCEPT !.write = {}])
  /\ UNCHANGED <<persistent, serving, pusher, push, restarts>>

\* advanceVector or adoptVector stores the entry.
PullStore(n) ==
  \E w \in pull[n].write :
    /\ vector' = [vector EXCEPT ![n][w.src] = w.seq]
    /\ SetPull(n, [pull[n] EXCEPT !.write = {}])
    /\ UNCHANGED <<localSeq, oplog, serving, pusher, push, restarts>>

\* (mutant) the first page is taken for the last one.
NextPageAdopts(n) ==
  /\ pull[n].phase = "ingest" /\ pull[n].page = {}
  /\ pull[n].touched = {} /\ pull[n].write = {}
  /\ SetPull(n, [pull[n] EXCEPT !.phase = "adopt", !.touched = Advertised(n)])
  /\ pushWake' = [pushWake EXCEPT ![n] = TRUE]
  /\ UNCHANGED <<persistent, serving, startRow, pushCursor, pushing, push, restarts>>

\* The page is ingested: the pusher is woken and the next page requested.
NextPage(n) ==
  /\ pull[n].phase = "ingest" /\ pull[n].page = {}
  /\ pull[n].touched = {} /\ pull[n].write = {}
  /\ SetPull(n, [pull[n] EXCEPT !.phase = "request", !.vec = PullIdle.vec])
  /\ pushWake' = [pushWake EXCEPT ![n] = TRUE]
  /\ UNCHANGED <<persistent, serving, startRow, pushCursor, pushing, push, restarts>>

\* Every entry is adopted: the pull is complete.
PullDone(n) ==
  /\ pull[n].phase = "adopt" /\ pull[n].touched = {} /\ pull[n].write = {}
  /\ SetPull(n, PullIdle)
  /\ UNCHANGED <<persistent, serving, pusher, push, restarts>>

\* The request or its answer is lost, or the database fails while a page is
\* ingested: pullFromPeer returns the error.
PullFail(n) ==
  /\ pull[n].phase \in {"request", "serving", "ingest"}
  /\ SetPull(n, PullIdle)
  /\ UNCHANGED <<persistent, serving, pusher, push, restarts>>

-----------------------------------------------------------------------------
(***************************************************************************)
(* Restart                                                                 *)
(***************************************************************************)
\* The process of n dies.  The handlers it runs die with it and their senders
\* see an error; the requests it sent go on without it.
Restart(n) ==
  /\ restarts < MaxRestarts
  /\ restarts' = restarts + 1
  /\ serving'  = [serving EXCEPT ![n] = FALSE]
  /\ pushWake' = [pushWake EXCEPT ![n] = FALSE]
  /\ pushing'  = [p \in Node |->
       IF p = n THEN {}
       ELSE IF push[p][n].phase = "handling" /\ push[p][n].waiting
       THEN pushing[p] \ {n} ELSE pushing[p]]
  /\ push' = [p \in Node |-> [m \in Node |->
       IF m = n /\ push[p][m].phase = "handling" THEN PushIdle
       ELSE IF p = n THEN [push[p][m] EXCEPT !.waiting = FALSE]
       ELSE push[p][m]]]
  /\ pull' = [m \in Node |->
       IF m = n \/ (pull[m].phase = "serving" /\ pull[m].peer = n)
       THEN PullIdle ELSE pull[m]]
  /\ UNCHANGED <<persistent, startRow, pushCursor>>

\* startBackground: pushes start at the oplog head of this moment.
StartBackground(n) ==
  /\ ~ serving[n]
  /\ serving'    = [serving EXCEPT ![n] = TRUE]
  /\ startRow'   = [startRow EXCEPT ![n] = Len(oplog[n])]
  /\ pushCursor' = [pushCursor EXCEPT ![n] = [m \in Node |-> Len(oplog[n])]]
  /\ UNCHANGED <<persistent, pushWake, pushing, push, pull, restarts>>

-----------------------------------------------------------------------------
PushStep(p, n) ==
  \/ PushSend(p, n) \/ PushNothing(p, n)
  \/ HandleOp(p, n) \/ HandleScan(p, n) \/ HandleStore(p, n) \/ PushDone(p, n)
  \/ PushFail(p, n) \/ PushTimeout(p, n)

PullStep(n) ==
  \/ ServeVector(n) \/ ServePage(n) \/ PullOp(n) \/ PullScan(n) \/ AdoptEntry(n)
  \/ PullStore(n) \/ NextPage(n) \/ PullDone(n) \/ PullFail(n)

Next ==
  \/ \E n \in Node : LocalWrite(n) \/ PushRound(n) \/ PullStep(n)
                       \/ Restart(n) \/ StartBackground(n)
  \/ \E p, n \in Node : PushStep(p, n) \/ StartPull(p, n)

Spec == Init /\ [][Next]_vars

(***************************************************************************)
(* Fairness.  What a process can do by itself it does (weak).  syncRound   *)
(* visits every member again and again, and an exchange that is tried for  *)
(* ever passes each of its stages some of the time (strong): neither the   *)
(* network nor a database fails for good.  Nothing makes a node write,     *)
(* restart, or try a push again without a wake.                            *)
(***************************************************************************)
Fairness ==
  /\ \A n \in Node : /\ WF_vars(StartBackground(n)) /\ WF_vars(PushRound(n))
                     /\ WF_vars(AdoptEntry(n) \/ PullDone(n))
  /\ \A n \in Node : \A p \in PushTo[n] :
       /\ WF_vars(PushSend(n, p) \/ PushNothing(n, p))
       /\ SF_vars(HandleOp(n, p)) /\ SF_vars(HandleScan(n, p))
       /\ SF_vars(HandleStore(n, p)) /\ SF_vars(PushDone(n, p))
  /\ \A n \in Node : \A p \in PullFrom[n] :
       LET From(step) == pull[n].peer = p /\ step
       IN  /\ SF_vars(StartPull(n, p))
           /\ SF_vars(From(ServeVector(n))) /\ SF_vars(From(ServePage(n)))
           /\ SF_vars(From(PullOp(n))) /\ SF_vars(From(PullScan(n)))
           /\ SF_vars(From(PullStore(n))) /\ SF_vars(From(NextPage(n)))

FairSpec == Spec /\ Fairness

-----------------------------------------------------------------------------
(***************************************************************************)
(* Properties                                                              *)
(***************************************************************************)
\* The operations 1 .. k of src.
UpTo(src, k) == {[src |-> src, seq |-> s] : s \in 1 .. k}

\* No vector entry, stored or on its way to the database, runs ahead of what
\* its source has written: a peer never believes it has an operation that
\* does not exist yet and so never skips one that is still to be written
\* (currentVector, advanceVector, adoptVector).
VectorBounded ==
  \A n, src \in Node :
    /\ vector[n][src] <= localSeq[src]
    /\ pull[n].vec[src] <= localSeq[src]
    /\ \A w \in pull[n].write \cup push[src][n].write : w.seq <= localSeq[w.src]

\* Pushes never skip a row: whatever the cursor of this process has passed is
\* in the peer's oplog or was written there, through lost requests, lost
\* answers, late handlers and restarts of either side (pushToPeer).
PushCursorSound ==
  \A p, n \in Node : \A i \in startRow[p] + 1 .. pushCursor[p][n] :
    oplog[p][i] \in Held(n)

\* What adoptVector relies on (sync.go, "Complete pull"): the vector of a node
\* covers only operations the node holds, so nothing behind it is missing.
VectorCovers == \A n, src \in Node : UpTo(src, vector[n][src]) \subseteq Held(n)

\* As long as every process pushes its oplog from the first row.
VectorSound == restarts = 0 => VectorCovers

\* The oplogs implement the abstract dissemination.
D == INSTANCE Dissemination
       WITH issued <- localSeq, known <- [n \in Node |-> Held(n)]

Disseminates == D!Spec

\* Every operation a node has written reaches every other node.
Delivered ==
  \A src \in Node : \A n \in Node \ {src} : \A s \in 1 .. MaxSeq[src] :
    (localSeq[src] >= s) ~> ([src |-> src, seq |-> s] \in Held(n))

\* Every node's vector catches up with every source and stays there, whatever
\* stale entries racing handlers store over newer ones (peerLag reaches 0; the
\* bound makes every node stop writing).
LagClears ==
  \A src \in Node : \A n \in Node \ {src} : <>[](vector[n][src] = localSeq[src])
=============================================================================
