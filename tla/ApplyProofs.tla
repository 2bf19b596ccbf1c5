---------------------------- MODULE ApplyProofs ----------------------------
(***************************************************************************)
(* From the log to the data, for every number of nodes, records and        *)
(* writes: records are what their versions say, versions never go back,    *)
(* nothing is forgotten silently, and nodes with equal logs have equal     *)
(* records.                                                                *)
(***************************************************************************)
EXTENDS Apply, LwwTheorems

-----------------------------------------------------------------------------
(***************************************************************************)
(* Sequences as sets                                                       *)
(***************************************************************************)
LEMMA ToSetLaws ==
  ASSUME NEW T, NEW s \in Seq(T)
  PROVE  /\ ToSet(s) \subseteq T /\ ToSet(<<>>) = {}
         /\ \A e \in T : Append(s, e) \in Seq(T) /\ ToSet(Append(s, e)) = ToSet(s) \cup {e}
         /\ s # <<>> => /\ Head(s) \in T /\ Tail(s) \in Seq(T)
                        /\ ToSet(s) = {Head(s)} \cup ToSet(Tail(s))
<1>1. ToSet(s) \subseteq T /\ ToSet(<<>>) = {}
  BY DEF ToSet
<1>2. ASSUME NEW e \in T
      PROVE  Append(s, e) \in Seq(T) /\ ToSet(Append(s, e)) = ToSet(s) \cup {e}
  <2>1. /\ Append(s, e) \in Seq(T) /\ Len(Append(s, e)) = Len(s) + 1 /\ Len(s) \in Nat
        /\ \A i \in 1 .. Len(s) : Append(s, e)[i] = s[i]
        /\ Append(s, e)[Len(s) + 1] = e
    OBVIOUS
  <2>2. 1 .. Len(s) + 1 = (1 .. Len(s)) \cup {Len(s) + 1}
    BY <2>1
  <2> QED
    BY <2>1, <2>2 DEF ToSet
<1>3. ASSUME s # <<>>
      PROVE  /\ Head(s) \in T /\ Tail(s) \in Seq(T)
             /\ ToSet(s) = {Head(s)} \cup ToSet(Tail(s))
  <2>1. /\ Head(s) \in T /\ Head(s) = s[1] /\ Tail(s) \in Seq(T) /\ Len(s) \in Nat \ {0}
        /\ Len(Tail(s)) = Len(s) - 1
        /\ \A i \in 1 .. Len(s) - 1 : Tail(s)[i] = s[i + 1]
    BY <1>3
  <2>2. ASSUME NEW i \in 1 .. Len(s)
        PROVE  s[i] \in {Head(s)} \cup ToSet(Tail(s))
    <3>1. CASE i = 1
      BY <2>1, <3>1
    <3>2. CASE i # 1
      <4>1. i - 1 \in 1 .. Len(s) - 1 /\ s[i] = Tail(s)[i - 1]
        BY <2>1, <3>2
      <4> QED
        BY <2>1, <4>1 DEF ToSet
    <3> QED
      BY <3>1, <3>2
  <2>3. ASSUME NEW i \in 1 .. Len(s) - 1
        PROVE  Tail(s)[i] \in ToSet(s)
    BY <2>1 DEF ToSet
  <2>4. s[1] \in ToSet(s)
    BY <2>1 DEF ToSet
  <2>5. ToSet(s) \subseteq {Head(s)} \cup ToSet(Tail(s))
    BY <2>2 DEF ToSet
  <2>6. ToSet(Tail(s)) \subseteq ToSet(s)
    BY <2>1, <2>3 DEF ToSet
  <2> QED
    BY <2>1, <2>4, <2>5, <2>6
<1> QED
  BY <1>1, <1>2, <1>3

\* A sequence that is cut in two.
LEMMA ToSetCut ==
  ASSUME NEW T, NEW s \in Seq(T), NEW k \in 0 .. Len(s)
  PROVE  /\ SubSeq(s, 1, k) \in Seq(T) /\ SubSeq(s, k + 1, Len(s)) \in Seq(T)
         /\ Len(SubSeq(s, 1, k)) = k /\ Len(SubSeq(s, k + 1, Len(s))) = Len(s) - k
         /\ ToSet(s) = ToSet(SubSeq(s, 1, k)) \cup ToSet(SubSeq(s, k + 1, Len(s)))
<1> DEFINE a == SubSeq(s, 1, k)
           b == SubSeq(s, k + 1, Len(s))
<1>1. /\ a \in Seq(T) /\ b \in Seq(T) /\ Len(a) = k /\ Len(b) = Len(s) - k
      /\ \A i \in 1 .. k : a[i] = s[i]
      /\ \A i \in 1 .. Len(s) - k : b[i] = s[k + i]
  OBVIOUS
<1>2. ASSUME NEW i \in 1 .. Len(s)
      PROVE  s[i] \in ToSet(a) \cup ToSet(b)
  <2>1. CASE i <= k
    BY <1>1, <2>1 DEF ToSet
  <2>2. CASE ~ (i <= k)
    <3>1. i - k \in 1 .. Len(s) - k /\ s[i] = b[i - k]
      BY <1>1, <2>2
    <3> QED
      BY <1>1, <3>1 DEF ToSet
  <2> QED
    BY <2>1, <2>2
<1>3. ToSet(a) \subseteq ToSet(s)
  BY <1>1 DEF ToSet
<1>4. ASSUME NEW i \in 1 .. Len(s) - k
      PROVE  b[i] \in ToSet(s)
  <2>1. k + i \in 1 .. Len(s) /\ b[i] = s[k + i]
    BY <1>1
  <2> QED
    BY <2>1 DEF ToSet
<1>5. ToSet(b) \subseteq ToSet(s)
  BY <1>1, <1>4 DEF ToSet
<1>6. ToSet(s) \subseteq ToSet(a) \cup ToSet(b)
  BY <1>2 DEF ToSet
<1> HIDE DEF a, b
<1> QED
  BY <1>1, <1>3, <1>5, <1>6 DEF a, b

-----------------------------------------------------------------------------
(***************************************************************************)
(* The invariant                                                           *)
(***************************************************************************)
\* What the applier has taken up and observed.
InHand(n) ==
  LET x == applier[n]
  IN  ToSet(x.group) \cup ToSet(x.entries) \cup ToSet(x.single) \cup {ch.op : ch \in x.change}

\* What is on its way to the data is in the log.
Logged == \A n \in Node : Outstanding(n) \subseteq oplog[n]

\* A version is that of an operation in the log.
VersionsLogged ==
  \A n \in Node : \A k \in Key :
    version[n][k] = NoVersion \/ \E o \in oplog[n] : o.key = k /\ Stamp(o) = version[n][k]

\* The clock of n is not behind what n has applied or has in hand, nor behind what
\* anybody has from n.
Covered(n) ==
  /\ \A k \in Key : version[n][k].hlc <= Encode(clock[n])
  /\ \A o \in InHand(n) : o.hlc <= Encode(clock[n])
  /\ \A p \in Node : \A o \in oplog[p] : o.src = n => o.hlc <= Encode(clock[n])

ClockCovers == setBack \/ \A n \in Node : Covered(n)

\* A stamp is that of one operation.
OneStamp ==
  setBack \/ \A n, m \in Node : \A o \in oplog[n] : \A x \in oplog[m] :
    o.src = x.src /\ o.hlc = x.hlc => o = x

\* The applier does one thing at a time, and a round that is over has nothing left.
OneTask(x) ==
  /\ x.resolving => x.single = <<>> /\ x.change = {} /\ x.parked = <<>>
  /\ x.single # <<>> => x.change = {} /\ x.parked = <<>>
  /\ x.change # {} => x.parked = <<>>
  /\ \A a, b \in x.change : a = b

OneTaskEach ==
  \A n \in Node : OneTask(applier[n]) /\ (round[n].on \/ round[n].parked = <<>>)

IInv ==
  /\ ApplyTypeOK /\ OneTaskEach /\ Logged /\ VersionsLogged /\ ClockCovers /\ OneStamp
  /\ RowIsWinner /\ Accounted

-----------------------------------------------------------------------------
(***************************************************************************)
(* What steps have in common                                               *)
(***************************************************************************)
\* A step of node n touches nothing of the others.
Local(n) ==
  \A m \in Node \ {n} :
    /\ oplog'[m] = oplog[m] /\ version'[m] = version[m] /\ row'[m] = row[m]
    /\ clock'[m] = clock[m] /\ arriving'[m] = arriving[m] /\ queue'[m] = queue[m]
    /\ pending'[m] = pending[m] /\ applier'[m] = applier[m] /\ round'[m] = round[m]
    /\ lost'[m] = lost[m]

\* What n has on its way stays there, is lost, or has no effect any more; what is
\* new there is in the log.
Flows(n) ==
  /\ Outstanding(n)' \subseteq Outstanding(n) \cup (oplog'[n] \ oplog[n])
  /\ \A o \in Outstanding(n) :
       o.key \in Rec => o \in Outstanding(n)' \/ o \in lost'[n] \/ ~ Supersedes(n, o)'
  /\ lost[n] \subseteq lost'[n]

\* The clock of n moves on, beyond what n takes up.
Observes(n) ==
  /\ Encode(clock[n]) <= Encode(clock'[n])
  /\ \A o \in InHand(n)' : o \in InHand(n) \/ o.hlc <= Encode(clock'[n])

\* Neither logs nor records nor versions change.
Quiet(n) ==
  /\ ApplyTypeOK' /\ UNCHANGED <<oplog, version, row, setBack>>
  /\ Local(n) /\ Flows(n) /\ Observes(n)

LEMMA ApplierType ==
  ASSUME ApplyTypeOK, NEW n \in Node
  PROVE  /\ applier[n] \in ApplierState
         /\ applier[n].todo \in Seq(Op) /\ applier[n].group \in Seq(RecordOp)
         /\ applier[n].resolving \in BOOLEAN /\ applier[n].entries \in Seq(RecordOp)
         /\ applier[n].single \in Seq(RecordOp) /\ applier[n].found \in BOOLEAN
         /\ applier[n].change \in SUBSET [op : SchemaOp, step : {"save", "saved", "bump"}]
         /\ applier[n].parked \in Seq(Op)
<1>1. applier[n] \in ApplierState
  BY DEF ApplyTypeOK
<1> QED
  BY <1>1 DEF ApplierState

LEMMA OpType ==
  ASSUME NEW o \in Op
  PROVE  /\ o.src \in Node /\ o.seq \in Nat \ {0} /\ o.hlc \in Nat /\ o.key \in Key
         /\ Stamped(o) /\ Stamp(o) \in Version
         /\ o.type \in RecordType => o \in RecordOp
         /\ o.type \in SchemaType => o \in SchemaOp
         /\ o \in RecordOp => o.key \in Rec /\ o.type \in RecordType
         /\ o \in SchemaOp => /\ o.key \in Col /\ o.type \in SchemaType
                              /\ o.content \in Content \cup {0}
<1>1. Node \subseteq Nat
  BY ApplyAssumption
<1>2. o \in RecordOp =>
        /\ o.src \in Node /\ o.seq \in Nat \ {0} /\ o.hlc \in Nat
        /\ o.key \in Rec /\ o.type \in RecordType
  BY DEF RecordOp
<1>3. o \in SchemaOp =>
        /\ o.src \in Node /\ o.seq \in Nat \ {0} /\ o.hlc \in Nat
        /\ o.key \in Col /\ o.type \in SchemaType /\ o.content \in Content \cup {0}
  BY DEF SchemaOp
<1>4. RecordType \cap SchemaType = {}
  BY DEF RecordType, SchemaType
<1>5. o \in RecordOp \/ o \in SchemaOp
  BY DEF Op
<1>6. /\ o.src \in Node /\ o.seq \in Nat \ {0} /\ o.hlc \in Nat /\ o.key \in Key
      /\ o.src \in Nat
  BY <1>1, <1>2, <1>3, <1>5 DEF Key
<1>7. Stamped(o) /\ Stamp(o) \in Version
  BY <1>6 DEF Stamped, Stamp, Version
<1> QED
  BY <1>2, <1>3, <1>4, <1>5, <1>6, <1>7

\* The operations in state x of an applier, and those of them it has observed.
Held(x) ==
  ToSet(x.group) \cup ToSet(x.entries) \cup ToSet(x.single) \cup {ch.op : ch \in x.change}
Work(x) == ToSet(x.todo) \cup ToSet(x.parked) \cup Held(x)

LEMMA OnItsWay ==
  ASSUME NEW n \in Node
  PROVE  /\ InHand(n) = Held(applier[n])
         /\ Outstanding(n) = arriving[n] \cup ToSet(queue[n]) \cup ToSet(pending[n])
                               \cup Work(applier[n]) \cup ToSet(round[n].parked)
BY DEF InHand, Outstanding, Held, Work

\* The clock of n does not go back.
Onward(n) ==
  /\ clock' \in [Node -> Clock] /\ \A m \in Node \ {n} : clock'[m] = clock[m]
  /\ Encode(clock[n]) <= Encode(clock'[n])

\* The queue and the parked operations of n change; what is dropped is lost.
Shifts(n) ==
  /\ queue' \in [Node -> Seq(Op)] /\ pending' \in [Node -> Seq(Op)]
  /\ lost' \in [Node -> SUBSET Op]
  /\ \A m \in Node : Len(queue'[m]) <= QueueCap /\ Len(pending'[m]) <= MaxPending
  /\ \A m \in Node \ {n} :
       queue'[m] = queue[m] /\ pending'[m] = pending[m] /\ lost'[m] = lost[m]
  /\ lost[n] \subseteq lost'[n]

LEMMA VersionStamped ==
  ASSUME ApplyTypeOK, NEW n \in Node, NEW k \in Key
  PROVE  Stamped(version[n][k])
<1>1. version[n][k] \in Version
  BY DEF ApplyTypeOK
<1>2. Node \cup {0} \subseteq Nat
  BY ApplyAssumption
<1> QED
  BY <1>1, <1>2 DEF Version, Stamped

\* A clock that observes moves on.
LEMMA Observation ==
  ASSUME ApplyTypeOK, NEW n \in Node, NEW o \in Op, clock' = Observed(n, o)
  PROVE  Onward(n) /\ o.hlc <= Encode(clock'[n])
<1> DEFINE c == Merge(clock[n], ClockOf(o.hlc))
<1>1. o.hlc \in Nat /\ clock \in [Node -> Clock] /\ clock[n] \in Clock
  BY OpType DEF ApplyTypeOK
<1>2. ClockOf(o.hlc) \in Clock /\ Encode(ClockOf(o.hlc)) = o.hlc
  BY <1>1, ClockOfEncodes
<1>3. c \in Clock /\ Encode(clock[n]) <= Encode(c) /\ o.hlc <= Encode(c)
  BY <1>1, <1>2, MergeIsLarger
<1>4. clock' = [clock EXCEPT ![n] = c]
  BY DEF Observed
<1> HIDE DEF c
<1> QED
  BY <1>1, <1>3, <1>4 DEF Onward

\* A clock that stays is as good.
LEMMA NoObservation ==
  ASSUME ApplyTypeOK, NEW n \in Node, UNCHANGED clock
  PROVE  Onward(n)
<1>1. clock \in [Node -> Clock] /\ clock[n] \in Clock
  BY DEF ApplyTypeOK
<1> QED
  BY <1>1, EncodeType DEF Onward

LEMMA NoShift ==
  ASSUME ApplyTypeOK, NEW n \in Node, UNCHANGED <<queue, pending, lost>>
  PROVE  Shifts(n)
BY DEF ApplyTypeOK, Shifts

\* The applier of n gets a new state.
LEMMA ApplierMoves ==
  ASSUME ApplyTypeOK, NEW n \in Node, NEW y \in ApplierState, SetApplier(n, y)
  PROVE  /\ applier' \in [Node -> ApplierState] /\ applier'[n] = y
         /\ \A m \in Node \ {n} : applier'[m] = applier[m]
BY DEF ApplyTypeOK, SetApplier

\* A step of the applier that only passes operations on is quiet.
LEMMA QuietMove ==
  ASSUME ApplyTypeOK, NEW n \in Node, NEW y \in ApplierState, SetApplier(n, y),
         UNCHANGED <<database, arriving, round, setBack, restarts>>, failures' \in Nat,
         Onward(n), Shifts(n),
         \A o \in Held(y) : o \in Held(applier[n]) \/ o.hlc <= Encode(clock'[n]),
         ToSet(queue'[n]) \cup ToSet(pending'[n]) \cup Work(y)
           \subseteq ToSet(queue[n]) \cup ToSet(pending[n]) \cup Work(applier[n]),
         \A o \in ToSet(queue[n]) \cup ToSet(pending[n]) \cup Work(applier[n]) :
           \/ o \in ToSet(queue'[n]) \cup ToSet(pending'[n]) \cup Work(y) \cup lost'[n]
           \/ o.key \notin Rec
  PROVE  Quiet(n)
<1>1. /\ applier' \in [Node -> ApplierState] /\ applier'[n] = y
      /\ \A m \in Node \ {n} : applier'[m] = applier[m]
  BY ApplierMoves
<1>2. ApplyTypeOK'
  BY <1>1 DEF ApplyTypeOK, Onward, Shifts, database
<1>3. Local(n)
  BY <1>1 DEF Local, Onward, Shifts, database
<1>4. /\ Outstanding(n) = arriving[n] \cup ToSet(queue[n]) \cup ToSet(pending[n])
                            \cup Work(applier[n]) \cup ToSet(round[n].parked)
      /\ Outstanding(n)' = arriving[n] \cup ToSet(queue'[n]) \cup ToSet(pending'[n])
                             \cup Work(y) \cup ToSet(round[n].parked)
      /\ InHand(n) = Held(applier[n]) /\ InHand(n)' = Held(y)
  <2>1. /\ Outstanding(n)' = arriving'[n] \cup ToSet(queue'[n]) \cup ToSet(pending'[n])
                               \cup Work(applier'[n]) \cup ToSet(round'[n].parked)
        /\ InHand(n)' = Held(applier'[n])
    BY DEF InHand, Outstanding, Held, Work
  <2> QED
    BY <1>1, <2>1, OnItsWay
<1>5. Flows(n)
  <2>1. Outstanding(n)' \subseteq Outstanding(n)
    BY <1>4
  <2>2. \A o \in Outstanding(n) : o.key \in Rec => o \in Outstanding(n)' \cup lost'[n]
    BY <1>4
  <2> QED
    BY <2>1, <2>2 DEF Flows, Shifts
<1>6. Observes(n)
  BY <1>4 DEF Observes, Onward
<1> QED
  BY <1>2, <1>3, <1>5, <1>6 DEF Quiet, database

\* A parked operation pushes the oldest one out if there is no room.
LEMMA Parking ==
  ASSUME ApplyTypeOK, NEW n \in Node, NEW o \in Op, Park(n, o)
  PROVE  /\ pending' \in [Node -> Seq(Op)] /\ lost' \in [Node -> SUBSET Op]
         /\ \A m \in Node : Len(pending'[m]) <= MaxPending
         /\ \A m \in Node \ {n} : pending'[m] = pending[m] /\ lost'[m] = lost[m]
         /\ ToSet(pending'[n]) \subseteq ToSet(pending[n]) \cup {o}
         /\ ToSet(pending[n]) \cup {o} \subseteq ToSet(pending'[n]) \cup lost'[n]
         /\ lost[n] \subseteq lost'[n]
<1> DEFINE s == pending[n]
           t == IF Len(s) >= MaxPending THEN Tail(s) ELSE s
           d == IF Len(s) >= MaxPending THEN {Head(s)} ELSE {}
<1>1. /\ pending \in [Node -> Seq(Op)] /\ lost \in [Node -> SUBSET Op]
      /\ \A m \in Node : Len(pending[m]) <= MaxPending
      /\ MaxPending \in Nat \ {0} /\ s \in Seq(Op)
  BY ApplyAssumption DEF ApplyTypeOK
<1>2. /\ t \in Seq(Op) /\ Len(t) < MaxPending /\ d \subseteq Op
      /\ ToSet(s) = ToSet(t) \cup d
  <2>1. CASE Len(s) >= MaxPending
    <3>1. s # <<>> /\ Len(Tail(s)) = Len(s) - 1
      BY <1>1, <2>1
    <3> QED
      BY <1>1, <2>1, <3>1, ToSetLaws
  <2>2. CASE ~ (Len(s) >= MaxPending)
    BY <1>1, <2>2
  <2> QED
    BY <2>1, <2>2
<1>3. pending' = [pending EXCEPT ![n] = Append(t, o)] /\ lost' = [lost EXCEPT ![n] = @ \cup d]
  BY DEF Park, Parked
<1> HIDE DEF s, t, d
<1>4. /\ Append(t, o) \in Seq(Op) /\ Len(Append(t, o)) <= MaxPending
      /\ ToSet(Append(t, o)) = ToSet(t) \cup {o}
  BY <1>1, <1>2, ToSetLaws
<1>5. ToSet(pending[n]) = ToSet(t) \cup d
  BY <1>2 DEF s
<1> QED
  BY <1>1, <1>2, <1>3, <1>4, <1>5

\* An operation that is tried again is in the queue, parked or lost.
LEMMA TryingAgain ==
  ASSUME ApplyTypeOK, NEW n \in Node, NEW o \in Op, TryAgain(n, o)
  PROVE  /\ Shifts(n)
         /\ ToSet(queue'[n]) \cup ToSet(pending'[n])
              \subseteq ToSet(queue[n]) \cup ToSet(pending[n]) \cup {o}
         /\ ToSet(queue[n]) \cup ToSet(pending[n]) \cup {o}
              \subseteq ToSet(queue'[n]) \cup ToSet(pending'[n]) \cup lost'[n]
<1>1. /\ pending \in [Node -> Seq(Op)] /\ queue \in [Node -> Seq(Op)]
      /\ lost \in [Node -> SUBSET Op]
      /\ \A m \in Node : Len(queue[m]) <= QueueCap /\ Len(pending[m]) <= MaxPending
      /\ QueueCap \in Nat /\ queue[n] \in Seq(Op)
  BY ApplyAssumption DEF ApplyTypeOK
<1>2. CASE Resolves(n, o) /\ Len(queue[n]) < QueueCap
  <2>1. /\ queue' = [queue EXCEPT ![n] = Append(@, o)] /\ UNCHANGED <<pending, lost>>
    BY <1>2 DEF TryAgain
  <2>2. /\ Append(queue[n], o) \in Seq(Op) /\ Len(Append(queue[n], o)) <= QueueCap
        /\ ToSet(Append(queue[n], o)) = ToSet(queue[n]) \cup {o}
    BY <1>1, <1>2, ToSetLaws
  <2> QED
    BY <1>1, <2>1, <2>2 DEF Shifts
<1>3. CASE ~ (Resolves(n, o) /\ Len(queue[n]) < QueueCap)
  <2>1. Park(n, o) /\ UNCHANGED queue
    BY <1>3 DEF TryAgain
  <2> QED
    BY <1>1, <2>1, Parking DEF Shifts
<1> QED
  BY <1>2, <1>3

LEMMA IdleType ==
  /\ Idle \in ApplierState /\ Work(Idle) = {} /\ Held(Idle) = {}
  /\ \A q \in Seq(Op) : /\ [Idle EXCEPT !.todo = q] \in ApplierState
                        /\ Work([Idle EXCEPT !.todo = q]) = ToSet(q)
                        /\ Held([Idle EXCEPT !.todo = q]) = {}
<1>1. /\ Idle.todo = <<>> /\ Idle.group = <<>> /\ Idle.entries = <<>> /\ Idle.single = <<>>
      /\ Idle.change = {} /\ Idle.parked = <<>> /\ ToSet(<<>>) = {}
  BY DEF Idle, ToSet
<1>2. <<>> \in Seq(Op) /\ <<>> \in Seq(RecordOp)
  OBVIOUS
<1>3. Idle \in ApplierState
  BY <1>2 DEF Idle, ApplierState
<1>4. Work(Idle) = {} /\ Held(Idle) = {}
  BY <1>1 DEF Work, Held
<1>5. ASSUME NEW q \in Seq(Op)
      PROVE  /\ [Idle EXCEPT !.todo = q] \in ApplierState
             /\ Work([Idle EXCEPT !.todo = q]) = ToSet(q)
             /\ Held([Idle EXCEPT !.todo = q]) = {}
  <2> DEFINE y == [Idle EXCEPT !.todo = q]
  <2>1. y \in ApplierState
    BY <1>3 DEF ApplierState
  <2>2. /\ y.todo = q /\ y.group = Idle.group /\ y.entries = Idle.entries
        /\ y.single = Idle.single /\ y.change = Idle.change /\ y.parked = Idle.parked
    BY <1>3 DEF ApplierState
  <2> HIDE DEF y
  <2>3. Work(y) = ToSet(q) /\ Held(y) = {}
    BY <1>1, <2>2 DEF Work, Held
  <2> QED
    BY <2>1, <2>3 DEF y
<1> QED
  BY <1>3, <1>4, <1>5

\* The batch that is drained comes from the queue.
LEMMA DrainIsQuiet ==
  ASSUME ApplyTypeOK, NEW n \in Node, Drain(n)
  PROVE  Quiet(n)
<1> DEFINE q == queue[n]
           k == Least(ApplyBatch, Len(q))
           a == SubSeq(q, 1, k)
           b == SubSeq(q, k + 1, Len(q))
           y == [Idle EXCEPT !.todo = a]
<1>1. /\ applier[n] = Idle /\ SetApplier(n, y) /\ queue' = [queue EXCEPT ![n] = b]
      /\ UNCHANGED <<database, clock, arriving, pending, history, round>>
  BY DEF Drain
<1>2. /\ queue \in [Node -> Seq(Op)] /\ q \in Seq(Op) /\ Len(q) \in Nat /\ Len(q) <= QueueCap
      /\ QueueCap \in Nat /\ ApplyBatch \in Nat
  BY ApplyAssumption DEF ApplyTypeOK
<1>3. k \in 0 .. Len(q)
  BY <1>2 DEF Least
<1> HIDE DEF k
<1>4. a \in Seq(Op) /\ b \in Seq(Op) /\ Len(b) = Len(q) - k /\ ToSet(q) = ToSet(a) \cup ToSet(b)
  BY <1>2, <1>3, ToSetCut
<1>5. Len(b) <= QueueCap
  BY <1>2, <1>3, <1>4
<1> HIDE DEF a, b
<1>6. y \in ApplierState /\ Work(y) = ToSet(a) /\ Held(y) = {} /\ Work(applier[n]) = {}
  BY <1>1, <1>4, IdleType
<1> HIDE DEF y, q
<1>7. Shifts(n) /\ queue'[n] = b
  BY <1>1, <1>2, <1>4, <1>5 DEF Shifts, ApplyTypeOK, history
<1>8. Onward(n)
  BY <1>1, NoObservation
<1>9. ToSet(queue[n]) = ToSet(a) \cup ToSet(b) /\ pending'[n] = pending[n]
  BY <1>1, <1>4 DEF q
<1>10. UNCHANGED <<database, arriving, round, setBack, restarts>> /\ failures' \in Nat
  BY <1>1 DEF ApplyTypeOK, history
<1> QED
  BY <1>1, <1>6, <1>7, <1>8, <1>9, <1>10, QuietMove

\* The applier takes up the next operation of its batch.
LEMMA CollectIsQuiet ==
  ASSUME ApplyTypeOK, NEW n \in Node, Collect(n)
  PROVE  Quiet(n)
<1> DEFINE x == applier[n]
           o == Head(x.todo)
           y == [x EXCEPT !.todo = Tail(@), !.group = Append(@, o)]
<1>1. /\ x \in ApplierState /\ x.todo \in Seq(Op) /\ x.group \in Seq(RecordOp) /\ x.todo # <<>>
      /\ o.type \in RecordType /\ SetApplier(n, y) /\ clock' = Observed(n, o)
      /\ UNCHANGED <<database, arriving, queue, pending, history, round>>
  BY ApplierType DEF Collect, NextIs
<1>2. o \in Op /\ o \in RecordOp /\ Tail(x.todo) \in Seq(Op)
      /\ ToSet(x.todo) = {o} \cup ToSet(Tail(x.todo))
  BY <1>1, ToSetLaws, OpType
<1>3. Append(x.group, o) \in Seq(RecordOp) /\ ToSet(Append(x.group, o)) = ToSet(x.group) \cup {o}
  BY <1>1, <1>2, ToSetLaws
<1>4. /\ y \in ApplierState /\ y.todo = Tail(x.todo) /\ y.group = Append(x.group, o)
      /\ y.entries = x.entries /\ y.single = x.single /\ y.change = x.change
      /\ y.parked = x.parked
  BY <1>1, <1>2, <1>3 DEF ApplierState
<1> HIDE DEF y
<1>5. Work(y) = Work(x) /\ Held(y) = Held(x) \cup {o}
  BY <1>2, <1>3, <1>4 DEF Work, Held
<1> HIDE DEF x, o
<1>6. Onward(n) /\ o.hlc <= Encode(clock'[n])
  BY <1>1, <1>2, Observation
<1>7. /\ Shifts(n) /\ UNCHANGED <<queue, pending>>
      /\ UNCHANGED <<database, arriving, round, setBack, restarts>> /\ failures' \in Nat
  BY <1>1, NoShift DEF ApplyTypeOK, history
<1>8. Held(applier[n]) = Held(x) /\ Work(applier[n]) = Work(x)
  BY DEF x
<1> QED
  BY <1>1, <1>4, <1>5, <1>6, <1>7, <1>8, QuietMove

\* The group is complete; a collection operation that follows is observed first.
LEMMA FlushIsQuiet ==
  ASSUME ApplyTypeOK, NEW n \in Node, Flush(n)
  PROVE  Quiet(n)
<1> DEFINE x == applier[n]
           y == [x EXCEPT !.resolving = TRUE]
<1>1. /\ x \in ApplierState /\ x.todo \in Seq(Op) /\ SetApplier(n, y)
      /\ UNCHANGED <<database, arriving, queue, pending, history, round>>
  BY ApplierType DEF Flush
<1>2. /\ y \in ApplierState /\ y.todo = x.todo /\ y.group = x.group
      /\ y.entries = x.entries /\ y.single = x.single /\ y.change = x.change
      /\ y.parked = x.parked
  BY <1>1 DEF ApplierState
<1> HIDE DEF y
<1>3. Work(y) = Work(x) /\ Held(y) = Held(x)
  BY <1>2 DEF Work, Held
<1>4. Onward(n)
  <2>1. CASE UNCHANGED clock
    BY <2>1, NoObservation
  <2>2. CASE x.todo # <<>> /\ clock' = Observed(n, Head(x.todo))
    BY <1>1, <2>2, ToSetLaws, Observation
  <2> QED
    BY <2>1, <2>2 DEF Flush, NextIs
<1>5. /\ Shifts(n) /\ UNCHANGED <<queue, pending>>
      /\ UNCHANGED <<database, arriving, round, setBack, restarts>> /\ failures' \in Nat
  BY <1>1, NoShift DEF ApplyTypeOK, history
<1> QED
  BY <1>1, <1>2, <1>3, <1>4, <1>5, QuietMove

\* An operation of the group becomes an entry or is parked.
LEMMA ResolveIsQuiet ==
  ASSUME ApplyTypeOK, NEW n \in Node, Resolve(n)
  PROVE  Quiet(n)
<1> DEFINE x == applier[n]
           o == Head(x.group)
<1>1. /\ x \in ApplierState /\ x.group \in Seq(RecordOp) /\ x.entries \in Seq(RecordOp)
      /\ x.group # <<>> /\ UNCHANGED <<database, clock, arriving, queue, setBack, failures,
                                       restarts, round>>
  BY ApplierType DEF Resolve
<1>2. o \in RecordOp /\ o \in Op /\ Tail(x.group) \in Seq(RecordOp)
      /\ ToSet(x.group) = {o} \cup ToSet(Tail(x.group))
  BY <1>1, ToSetLaws DEF Op
<1>3. /\ Append(x.entries, o) \in Seq(RecordOp)
      /\ ToSet(Append(x.entries, o)) = ToSet(x.entries) \cup {o}
  BY <1>1, <1>2, ToSetLaws
<1>4. Onward(n) /\ failures' \in Nat
  BY <1>1, NoObservation DEF ApplyTypeOK
<1>5. CASE Resolves(n, o)
  <2> DEFINE y == [x EXCEPT !.group = Tail(@), !.entries = Append(@, o)]
  <2>1. SetApplier(n, y) /\ UNCHANGED <<pending, lost>>
    BY <1>5 DEF Resolve
  <2>2. /\ y \in ApplierState /\ y.todo = x.todo /\ y.group = Tail(x.group)
        /\ y.entries = Append(x.entries, o) /\ y.single = x.single /\ y.change = x.change
        /\ y.parked = x.parked
    BY <1>1, <1>2, <1>3 DEF ApplierState
  <2> HIDE DEF y
  <2>3. Work(y) = Work(x) /\ Held(y) = Held(x)
    BY <1>2, <1>3, <2>2 DEF Work, Held
  <2>4. Shifts(n)
    BY <1>1, <2>1, NoShift
  <2> HIDE DEF o
  <2> QED
    BY <1>1, <1>4, <2>1, <2>2, <2>3, <2>4, QuietMove
<1>6. CASE ~ Resolves(n, o)
  <2> DEFINE y == [x EXCEPT !.group = Tail(@)]
  <2>1. SetApplier(n, y) /\ Park(n, o)
    BY <1>6 DEF Resolve
  <2>2. /\ y \in ApplierState /\ y.todo = x.todo /\ y.group = Tail(x.group)
        /\ y.entries = x.entries /\ y.single = x.single /\ y.change = x.change
        /\ y.parked = x.parked
    BY <1>1, <1>2 DEF ApplierState
  <2> HIDE DEF y
  <2>3. Work(x) = Work(y) \cup {o} /\ Held(x) = Held(y) \cup {o}
    BY <1>2, <2>2 DEF Work, Held
  <2> HIDE DEF o
  <2>4. /\ Shifts(n) /\ ToSet(pending'[n]) \subseteq ToSet(pending[n]) \cup {o}
        /\ ToSet(pending[n]) \cup {o} \subseteq ToSet(pending'[n]) \cup lost'[n]
    BY <1>1, <1>2, <2>1, Parking DEF Shifts, ApplyTypeOK
  <2> QED
    BY <1>1, <1>4, <2>1, <2>2, <2>3, <2>4, QuietMove
<1> QED
  BY <1>5, <1>6

\* The entries of a batch that rolls back are applied one by one.
LEMMA RollBackIsQuiet ==
  ASSUME ApplyTypeOK, NEW n \in Node, OneTask(applier[n]), RollBack(n)
  PROVE  Quiet(n)
<1> DEFINE x == applier[n]
           y == [x EXCEPT !.resolving = FALSE, !.entries = <<>>, !.single = x.entries]
<1>1. /\ x \in ApplierState /\ x.entries \in Seq(RecordOp) /\ SetApplier(n, y)
      /\ x.single = <<>>
      /\ UNCHANGED <<database, clock, arriving, queue, pending, lost, setBack, restarts, round>>
      /\ failures' \in Nat
  BY ApplierType DEF RollBack, ApplyTypeOK, OneTask
<1>2. /\ y \in ApplierState /\ y.todo = x.todo /\ y.group = x.group
      /\ y.entries = <<>> /\ y.single = x.entries /\ y.change = x.change
      /\ y.parked = x.parked
  BY <1>1 DEF ApplierState
<1> HIDE DEF y
<1>3. Work(y) = Work(x) /\ Held(y) = Held(x)
  <2>1. ToSet(<<>>) = {}
    BY DEF ToSet
  <2> QED
    BY <1>1, <1>2, <2>1 DEF Work, Held
<1>4. Onward(n) /\ Shifts(n)
  BY <1>1, NoObservation, NoShift
<1> QED
  BY <1>1, <1>2, <1>3, <1>4, QuietMove

\* The collection of an operation is looked up.
LEMMA FindAloneIsQuiet ==
  ASSUME ApplyTypeOK, NEW n \in Node, FindAlone(n)
  PROVE  Quiet(n)
<1> DEFINE x == applier[n]
           y == [x EXCEPT !.found = TRUE]
<1>1. /\ x \in ApplierState /\ SetApplier(n, y) /\ failures' \in Nat
      /\ UNCHANGED <<database, clock, arriving, queue, pending, lost, setBack, restarts, round>>
  BY ApplierType DEF FindAlone, ApplyTypeOK, history
<1>2. /\ y \in ApplierState /\ y.todo = x.todo /\ y.group = x.group
      /\ y.entries = x.entries /\ y.single = x.single /\ y.change = x.change
      /\ y.parked = x.parked
  BY <1>1 DEF ApplierState
<1> HIDE DEF y
<1>3. Work(y) = Work(x) /\ Held(y) = Held(x)
  BY <1>2 DEF Work, Held
<1>4. Onward(n) /\ Shifts(n)
  BY <1>1, NoObservation, NoShift
<1> QED
  BY <1>1, <1>2, <1>3, <1>4, QuietMove

\* The applier is done with the first of those it applies one by one.
LEMMA NextAlone ==
  ASSUME ApplyTypeOK, NEW n \in Node, applier[n].single # <<>>, NEW b \in BOOLEAN
  PROVE  LET x == applier[n]
             y == [x EXCEPT !.single = Tail(@), !.found = b]
             o == Head(x.single)
         IN  /\ y \in ApplierState /\ o \in RecordOp /\ o \in Op
             /\ Work(x) = Work(y) \cup {o} /\ Held(x) = Held(y) \cup {o}
<1> DEFINE x == applier[n]
           y == [x EXCEPT !.single = Tail(@), !.found = b]
           o == Head(x.single)
<1>1. x \in ApplierState /\ x.single \in Seq(RecordOp)
  BY ApplierType
<1>2. o \in RecordOp /\ o \in Op /\ Tail(x.single) \in Seq(RecordOp)
      /\ ToSet(x.single) = {o} \cup ToSet(Tail(x.single))
  BY <1>1, ToSetLaws DEF Op
<1>3. /\ y \in ApplierState /\ y.todo = x.todo /\ y.group = x.group
      /\ y.entries = x.entries /\ y.single = Tail(x.single) /\ y.change = x.change
      /\ y.parked = x.parked
  BY <1>1, <1>2 DEF ApplierState
<1> HIDE DEF y
<1>4. Work(x) = Work(y) \cup {o} /\ Held(x) = Held(y) \cup {o}
  BY <1>2, <1>3 DEF Work, Held
<1> QED
  BY <1>2, <1>3, <1>4 DEF y

\* An operation whose collection is not known is parked.
LEMMA ParkAloneIsQuiet ==
  ASSUME ApplyTypeOK, NEW n \in Node, ParkAlone(n)
  PROVE  Quiet(n)
<1> DEFINE x == applier[n]
           o == Head(x.single)
           y == [x EXCEPT !.single = Tail(@), !.found = FALSE]
<1>1. /\ x.single # <<>> /\ ~ x.found /\ x \in ApplierState /\ Park(n, o)
      /\ SetApplier(n, [x EXCEPT !.single = Tail(@)])
      /\ UNCHANGED <<database, clock, arriving, queue, setBack, failures, restarts, round>>
  BY ApplierType DEF ParkAlone
<1>2. y \in ApplierState /\ o \in Op /\ Work(x) = Work(y) \cup {o} /\ Held(x) = Held(y) \cup {o}
  BY <1>1, NextAlone
<1>3. SetApplier(n, y)
  <2>1. [x EXCEPT !.single = Tail(@)] = y
    BY <1>1 DEF ApplierState
  <2> QED
    BY <1>1, <2>1
<1> HIDE DEF y, o
<1>4. /\ Shifts(n) /\ ToSet(pending'[n]) \subseteq ToSet(pending[n]) \cup {o}
      /\ ToSet(pending[n]) \cup {o} \subseteq ToSet(pending'[n]) \cup lost'[n]
  BY <1>1, <1>2, Parking DEF Shifts, ApplyTypeOK
<1>5. Onward(n) /\ failures' \in Nat
  BY <1>1, NoObservation DEF ApplyTypeOK
<1> QED
  BY <1>1, <1>2, <1>3, <1>4, <1>5, QuietMove

\* An operation that fails is lost.
LEMMA FailAloneIsQuiet ==
  ASSUME ApplyTypeOK, NEW n \in Node, FailAlone(n)
  PROVE  Quiet(n)
<1> DEFINE x == applier[n]
           o == Head(x.single)
           y == [x EXCEPT !.single = Tail(@), !.found = FALSE]
<1>1. /\ x.single # <<>> /\ lost' = [lost EXCEPT ![n] = @ \cup {o}] /\ SetApplier(n, y)
      /\ UNCHANGED <<database, clock, arriving, queue, pending, setBack, restarts, round>>
      /\ failures' \in Nat
  BY DEF FailAlone, ApplyTypeOK
<1>2. y \in ApplierState /\ o \in Op /\ Work(x) = Work(y) \cup {o} /\ Held(x) = Held(y) \cup {o}
  BY <1>1, NextAlone
<1> HIDE DEF y, o
<1>3. Shifts(n) /\ lost'[n] = lost[n] \cup {o}
  BY <1>1, <1>2 DEF Shifts, ApplyTypeOK
<1>4. Onward(n)
  BY <1>1, NoObservation
<1> QED
  BY <1>1, <1>2, <1>3, <1>4, QuietMove

\* A collection operation is taken up, if it passes the gate; else it has no effect
\* and is in nobody's way.
LEMMA ReadSchemaIsQuiet ==
  ASSUME ApplyTypeOK, NEW n \in Node, ReadSchema(n)
  PROVE  Quiet(n)
<1> DEFINE x == applier[n]
           o == Head(x.todo)
<1>1. /\ x \in ApplierState /\ x.todo \in Seq(Op) /\ x.todo # <<>> /\ x.change = {}
      /\ o.type \in SchemaType /\ clock' = Observed(n, o)
      /\ UNCHANGED <<database, arriving, queue, pending, history, round>>
  BY ApplierType DEF ReadSchema, NextIs, Busy
<1>2. o \in Op /\ o \in SchemaOp /\ o.key \notin Rec /\ Tail(x.todo) \in Seq(Op)
      /\ ToSet(x.todo) = {o} \cup ToSet(Tail(x.todo))
  <2>1. o \in Op /\ Tail(x.todo) \in Seq(Op) /\ ToSet(x.todo) = {o} \cup ToSet(Tail(x.todo))
    BY <1>1, ToSetLaws
  <2>2. o \in SchemaOp /\ o.key \in Col
    BY <1>1, <2>1, OpType
  <2> QED
    BY <2>1, <2>2, ApplyAssumption
<1>3. PICK c : /\ SetApplier(n, [x EXCEPT !.todo = Tail(@), !.change = c])
               /\ \/ c = {}
                  \/ \E step \in {"save", "bump"} : c = {[op |-> o, step |-> step]}
  BY DEF ReadSchema
<1> DEFINE y == [x EXCEPT !.todo = Tail(@), !.change = c]
<1>4. /\ c \in SUBSET [op : SchemaOp, step : {"save", "saved", "bump"}]
      /\ {ch.op : ch \in c} \subseteq {o}
  BY <1>2, <1>3
<1>5. /\ y \in ApplierState /\ y.todo = Tail(x.todo) /\ y.group = x.group
      /\ y.entries = x.entries /\ y.single = x.single /\ y.change = c
      /\ y.parked = x.parked
  BY <1>1, <1>2, <1>4 DEF ApplierState
<1>6. SetApplier(n, y)
  BY <1>3
<1> HIDE DEF y
<1>7. /\ Work(y) \subseteq Work(x) /\ Work(x) \subseteq Work(y) \cup {o}
      /\ Held(y) \subseteq Held(x) \cup {o}
  BY <1>1, <1>2, <1>4, <1>5 DEF Work, Held
<1> HIDE DEF o
<1>8. Onward(n) /\ o.hlc <= Encode(clock'[n])
  BY <1>1, <1>2, Observation
<1>9. /\ Shifts(n) /\ UNCHANGED <<queue, pending>>
      /\ UNCHANGED <<database, arriving, round, setBack, restarts>> /\ failures' \in Nat
  BY <1>1, NoShift DEF ApplyTypeOK, history
<1> QED
  BY <1>2, <1>5, <1>6, <1>7, <1>8, <1>9, QuietMove

\* What is in the change the applier works on.
LEMMA ChangeType ==
  ASSUME ApplyTypeOK, NEW n \in Node, NEW ch \in applier[n].change
  PROVE  /\ ch \in [op : SchemaOp, step : {"save", "saved", "bump"}]
         /\ ch.op \in SchemaOp /\ ch.op \in Op /\ ch.op.key \in Col /\ ch.op.key \notin Rec
         /\ ch.op \in InHand(n) /\ ch.op \in Outstanding(n)
<1>1. ch \in [op : SchemaOp, step : {"save", "saved", "bump"}]
  BY ApplierType
<1>2. ch.op \in SchemaOp /\ ch.op \in Op
  BY <1>1 DEF Op
<1>3. ch.op.key \in Col
  BY <1>2 DEF SchemaOp
<1>4. ch.op \in {c.op : c \in applier[n].change}
  OBVIOUS
<1> QED
  BY <1>1, <1>2, <1>3, <1>4, ApplyAssumption DEF InHand, Outstanding

\* The change moves on, or is over.
LEMMA ChangeMoves ==
  ASSUME ApplyTypeOK, NEW n \in Node, NEW ch \in applier[n].change, OneTask(applier[n]),
         NEW c \in {{}, {[ch EXCEPT !.step = "saved"]}}, NEW p \in Seq(Op)
  PROVE  LET x == applier[n]
             y == [x EXCEPT !.change = c, !.parked = p]
         IN  /\ y \in ApplierState /\ Held(y) \subseteq Held(x)
             /\ Work(y) \subseteq Work(x) \cup ToSet(p)
             /\ Work(x) \cup ToSet(p) \subseteq Work(y) \cup {ch.op}
<1> DEFINE x == applier[n]
           y == [x EXCEPT !.change = c, !.parked = p]
<1>1. x \in ApplierState /\ ch \in [op : SchemaOp, step : {"save", "saved", "bump"}]
  BY ApplierType, ChangeType
<1>2. x.change = {ch} /\ x.parked = <<>> /\ ToSet(<<>>) = {}
  BY DEF OneTask, ToSet
<1>3. /\ c \in SUBSET [op : SchemaOp, step : {"save", "saved", "bump"}]
      /\ {a.op : a \in c} \subseteq {ch.op}
  BY <1>1
<1>4. /\ y \in ApplierState /\ y.todo = x.todo /\ y.group = x.group
      /\ y.entries = x.entries /\ y.single = x.single /\ y.change = c
      /\ y.parked = p
  BY <1>1, <1>3 DEF ApplierState
<1>5. {a.op : a \in x.change} = {ch.op}
  BY <1>2
<1> HIDE DEF x, y
<1>6. Held(y) \subseteq Held(x) /\ Held(x) \subseteq Held(y) \cup {ch.op}
  BY <1>3, <1>4, <1>5 DEF Held
<1>7. Work(y) \subseteq Work(x) \cup ToSet(p) /\ Work(x) \cup ToSet(p) \subseteq Work(y) \cup {ch.op}
  BY <1>2, <1>4, <1>6 DEF Work
<1> QED
  BY <1>4, <1>6, <1>7 DEF x, y

\* A collection operation that fails is lost.
LEMMA FailSchemaIsQuiet ==
  ASSUME ApplyTypeOK, NEW n \in Node, OneTask(applier[n]), FailSchema(n)
  PROVE  Quiet(n)
<1> DEFINE x == applier[n]
<1>1. PICK ch \in x.change :
        /\ lost' = [lost EXCEPT ![n] = @ \cup {ch.op}]
        /\ SetApplier(n, [x EXCEPT !.change = {}])
        /\ UNCHANGED <<database, clock, arriving, queue, pending, setBack, restarts, round>>
        /\ failures' = failures + 1
  BY DEF FailSchema
<1>2. failures' \in Nat
  BY <1>1 DEF ApplyTypeOK
<1> DEFINE y == [x EXCEPT !.change = {}, !.parked = <<>>]
<1>3. /\ y \in ApplierState /\ Held(y) \subseteq Held(x) /\ Work(y) \subseteq Work(x)
      /\ Work(x) \subseteq Work(y) \cup {ch.op}
  <2>1. <<>> \in Seq(Op) /\ ToSet(<<>>) = {}
    BY DEF ToSet
  <2> QED
    BY <2>1, ChangeMoves
<1>4. SetApplier(n, y)
  <2>1. x \in ApplierState /\ x.parked = <<>>
    BY ApplierType DEF OneTask
  <2>2. [x EXCEPT !.change = {}] = y
    BY <2>1 DEF ApplierState
  <2> QED
    BY <1>1, <2>2
<1> HIDE DEF y
<1>5. Shifts(n) /\ lost'[n] = lost[n] \cup {ch.op}
  BY <1>1, ChangeType DEF Shifts, ApplyTypeOK
<1>6. Onward(n)
  BY <1>1, NoObservation
<1> QED
  BY <1>1, <1>2, <1>3, <1>4, <1>5, <1>6, QuietMove

\* The applier tries a parked operation again.
LEMMA ApplierRetryIsQuiet ==
  ASSUME ApplyTypeOK, NEW n \in Node, ApplierRetry(n)
  PROVE  Quiet(n)
<1> DEFINE x == applier[n]
           o == Head(x.parked)
           y == [x EXCEPT !.parked = Tail(@)]
<1>1. /\ x \in ApplierState /\ x.parked \in Seq(Op) /\ x.parked # <<>> /\ TryAgain(n, o)
      /\ SetApplier(n, y) /\ failures' \in Nat
      /\ UNCHANGED <<database, clock, arriving, setBack, restarts, round>>
  BY ApplierType DEF ApplierRetry, ApplyTypeOK
<1>2. o \in Op /\ Tail(x.parked) \in Seq(Op) /\ ToSet(x.parked) = {o} \cup ToSet(Tail(x.parked))
  BY <1>1, ToSetLaws
<1>3. /\ y \in ApplierState /\ y.todo = x.todo /\ y.group = x.group
      /\ y.entries = x.entries /\ y.single = x.single /\ y.change = x.change
      /\ y.parked = Tail(x.parked)
  BY <1>1, <1>2 DEF ApplierState
<1> HIDE DEF y
<1>4. Work(x) = Work(y) \cup {o} /\ Held(y) = Held(x)
  BY <1>2, <1>3 DEF Work, Held
<1> HIDE DEF o, x
<1>5. /\ Shifts(n)
      /\ ToSet(queue'[n]) \cup ToSet(pending'[n])
           \subseteq ToSet(queue[n]) \cup ToSet(pending[n]) \cup {o}
      /\ ToSet(queue[n]) \cup ToSet(pending[n]) \cup {o}
           \subseteq ToSet(queue'[n]) \cup ToSet(pending'[n]) \cup lost'[n]
  BY <1>1, <1>2, TryingAgain
<1>6. Onward(n)
  BY <1>1, NoObservation
<1>7. Work(applier[n]) = Work(x) /\ Held(applier[n]) = Held(x)
  BY DEF x
<1> QED
  BY <1>1, <1>3, <1>4, <1>5, <1>6, <1>7, QuietMove

\* A step of another goroutine that only passes operations on is quiet.
LEMMA QuietHandOver ==
  ASSUME ApplyTypeOK, NEW n \in Node, UNCHANGED <<localSeq, oplog, version, row, schema>>,
         UNCHANGED <<clock, applier, setBack, failures, restarts>>, Shifts(n),
         savedClock' \in [Node -> Clock],
         arriving' \in [Node -> SUBSET Op], \A m \in Node \ {n} : arriving'[m] = arriving[m],
         round' \in [Node -> RoundState], \A m \in Node \ {n} : round'[m] = round[m],
         arriving'[n] \cup ToSet(queue'[n]) \cup ToSet(pending'[n]) \cup ToSet(round'[n].parked)
           \subseteq arriving[n] \cup ToSet(queue[n]) \cup ToSet(pending[n])
                       \cup ToSet(round[n].parked),
         arriving[n] \cup ToSet(queue[n]) \cup ToSet(pending[n]) \cup ToSet(round[n].parked)
           \subseteq arriving'[n] \cup ToSet(queue'[n]) \cup ToSet(pending'[n])
                       \cup ToSet(round'[n].parked) \cup lost'[n]
  PROVE  Quiet(n)
<1>1. ApplyTypeOK'
  BY DEF ApplyTypeOK, Shifts
<1>2. Local(n)
  BY DEF Local, Shifts
<1>3. /\ Outstanding(n) = arriving[n] \cup ToSet(queue[n]) \cup ToSet(pending[n])
                            \cup Work(applier[n]) \cup ToSet(round[n].parked)
      /\ Outstanding(n)' = arriving'[n] \cup ToSet(queue'[n]) \cup ToSet(pending'[n])
                             \cup Work(applier[n]) \cup ToSet(round'[n].parked)
      /\ InHand(n)' = InHand(n)
  <2>1. /\ Outstanding(n)' = arriving'[n] \cup ToSet(queue'[n]) \cup ToSet(pending'[n])
                               \cup Work(applier'[n]) \cup ToSet(round'[n].parked)
        /\ InHand(n)' = Held(applier'[n])
    BY DEF InHand, Outstanding, Held, Work
  <2> QED
    BY <2>1, OnItsWay
<1>4. Flows(n)
  <2>1. Outstanding(n)' \subseteq Outstanding(n)
    BY <1>3
  <2>2. Outstanding(n) \subseteq Outstanding(n)' \cup lost'[n]
    BY <1>3
  <2> QED
    BY <2>1, <2>2 DEF Flows, Shifts
<1>5. Observes(n)
  BY <1>3, NoObservation DEF Observes, Onward
<1> QED
  BY <1>1, <1>2, <1>4, <1>5 DEF Quiet

LEMMA EnqueueIsQuiet ==
  ASSUME ApplyTypeOK, NEW n \in Node, Enqueue(n)
  PROVE  Quiet(n)
<1>1. PICK o \in arriving[n] : /\ queue'    = [queue EXCEPT ![n] = Append(@, o)]
                               /\ arriving' = [arriving EXCEPT ![n] = @ \ {o}]
  BY DEF Enqueue
<1>2. /\ Len(queue[n]) < QueueCap /\ queue[n] \in Seq(Op) /\ o \in Op /\ QueueCap \in Nat
      /\ UNCHANGED <<database, clock, pending, applier, history, round>>
  BY ApplyAssumption DEF Enqueue, ApplyTypeOK
<1>3. /\ Append(queue[n], o) \in Seq(Op) /\ Len(Append(queue[n], o)) <= QueueCap
      /\ ToSet(Append(queue[n], o)) = ToSet(queue[n]) \cup {o}
  BY <1>2, ToSetLaws
<1>4. /\ Shifts(n) /\ queue'[n] = Append(queue[n], o)
      /\ pending' = pending /\ lost' = lost /\ round' = round
  BY <1>1, <1>2, <1>3 DEF Shifts, ApplyTypeOK, history
<1>5. /\ arriving' \in [Node -> SUBSET Op] /\ \A m \in Node \ {n} : arriving'[m] = arriving[m]
      /\ arriving'[n] = arriving[n] \ {o}
  BY <1>1 DEF ApplyTypeOK
<1>6. /\ UNCHANGED <<localSeq, oplog, version, row, schema>>
      /\ UNCHANGED <<clock, applier, setBack, failures, restarts>>
      /\ savedClock' \in [Node -> Clock] /\ round' \in [Node -> RoundState]
  BY <1>2 DEF database, history, ApplyTypeOK
<1>7. /\ arriving'[n] \cup ToSet(queue'[n]) \cup ToSet(pending'[n]) \cup ToSet(round'[n].parked)
           \subseteq arriving[n] \cup ToSet(queue[n]) \cup ToSet(pending[n])
                       \cup ToSet(round[n].parked)
      /\ arriving[n] \cup ToSet(queue[n]) \cup ToSet(pending[n]) \cup ToSet(round[n].parked)
           \subseteq arriving'[n] \cup ToSet(queue'[n]) \cup ToSet(pending'[n])
                       \cup ToSet(round'[n].parked) \cup lost'[n]
  BY <1>1, <1>3, <1>4, <1>5
<1> QED
  BY <1>4, <1>5, <1>6, <1>7, QuietHandOver

LEMMA RoundRetriesIsQuiet ==
  ASSUME ApplyTypeOK, OneTaskEach, NEW n \in Node, RoundRetries(n)
  PROVE  Quiet(n)
<1> DEFINE r == [on |-> TRUE, parked |-> pending[n]]
<1>1. /\ round' = [round EXCEPT ![n] = r] /\ pending' = [pending EXCEPT ![n] = <<>>]
      /\ round[n].parked = <<>> /\ pending[n] \in Seq(Op) /\ MaxPending \in Nat
      /\ UNCHANGED <<database, clock, arriving, queue, applier, history>>
  BY ApplyAssumption DEF RoundRetries, SetRound, OneTaskEach, ApplyTypeOK
<1>2. r \in RoundState /\ r.parked = pending[n]
  BY <1>1 DEF RoundState
<1> HIDE DEF r
<1>3. /\ round' \in [Node -> RoundState] /\ \A m \in Node \ {n} : round'[m] = round[m]
      /\ round'[n].parked = pending[n]
  BY <1>1, <1>2 DEF ApplyTypeOK
<1>4. <<>> \in Seq(Op) /\ Len(<<>>) = 0 /\ ToSet(<<>>) = {}
  BY DEF ToSet
<1>5. /\ Shifts(n) /\ pending'[n] = <<>> /\ queue' = queue /\ arriving' = arriving
  BY <1>1, <1>4 DEF Shifts, ApplyTypeOK, history
<1>6. /\ UNCHANGED <<localSeq, oplog, version, row, schema>>
      /\ UNCHANGED <<clock, applier, setBack, failures, restarts>>
      /\ savedClock' \in [Node -> Clock] /\ arriving' \in [Node -> SUBSET Op]
  BY <1>1 DEF database, history, ApplyTypeOK
<1> QED
  BY <1>1, <1>3, <1>4, <1>5, <1>6, QuietHandOver

LEMMA RoundRetryIsQuiet ==
  ASSUME ApplyTypeOK, NEW n \in Node, RoundRetry(n)
  PROVE  Quiet(n)
<1> DEFINE x == round[n]
           o == Head(x.parked)
           r == [x EXCEPT !.parked = Tail(@)]
<1>1. /\ round' = [round EXCEPT ![n] = r] /\ TryAgain(n, o) /\ x.parked # <<>>
      /\ x \in RoundState /\ x.parked \in Seq(Op)
      /\ UNCHANGED <<database, clock, arriving, applier, setBack, failures, restarts>>
  BY DEF RoundRetry, SetRound, ApplyTypeOK, RoundState
<1>2. o \in Op /\ Tail(x.parked) \in Seq(Op) /\ ToSet(x.parked) = {o} \cup ToSet(Tail(x.parked))
  BY <1>1, ToSetLaws
<1>3. r \in RoundState /\ r.parked = Tail(x.parked)
  BY <1>1, <1>2 DEF RoundState
<1> HIDE DEF r
<1>4. /\ round' \in [Node -> RoundState] /\ \A m \in Node \ {n} : round'[m] = round[m]
      /\ round'[n].parked = Tail(x.parked)
  BY <1>1, <1>3 DEF ApplyTypeOK
<1>5. /\ Shifts(n)
      /\ ToSet(queue'[n]) \cup ToSet(pending'[n])
           \subseteq ToSet(queue[n]) \cup ToSet(pending[n]) \cup {o}
      /\ ToSet(queue[n]) \cup ToSet(pending[n]) \cup {o}
           \subseteq ToSet(queue'[n]) \cup ToSet(pending'[n]) \cup lost'[n]
  BY <1>1, <1>2, TryingAgain
<1>6. /\ UNCHANGED <<localSeq, oplog, version, row, schema>>
      /\ UNCHANGED <<clock, applier, setBack, failures, restarts>> /\ arriving' = arriving
      /\ savedClock' \in [Node -> Clock] /\ arriving' \in [Node -> SUBSET Op]
  BY <1>1 DEF database, ApplyTypeOK
<1>7. ToSet(round[n].parked) = {o} \cup ToSet(Tail(x.parked))
  BY <1>2
<1> HIDE DEF o, x
<1> QED
  BY <1>4, <1>5, <1>6, <1>7, QuietHandOver

LEMMA RoundSavesIsQuiet ==
  ASSUME ApplyTypeOK, NEW n \in Node, RoundSaves(n)
  PROVE  Quiet(n)
<1>1. /\ round' = [round EXCEPT ![n] = Waiting] /\ round[n].parked = <<>>
      /\ savedClock' = [savedClock EXCEPT ![n] = clock[n]]
      /\ UNCHANGED <<localSeq, oplog, version, row, schema, clock, arriving, queue, pending,
                     applier, history>>
  BY DEF RoundSaves, SetRound
<1>2. Waiting \in RoundState /\ Waiting.parked = <<>>
  BY DEF Waiting, RoundState
<1>3. /\ round' \in [Node -> RoundState] /\ \A m \in Node \ {n} : round'[m] = round[m]
      /\ round'[n].parked = <<>>
  BY <1>1, <1>2 DEF ApplyTypeOK
<1>4. Shifts(n)
  BY <1>1, NoShift DEF history
<1>5. /\ savedClock' \in [Node -> Clock] /\ arriving' \in [Node -> SUBSET Op]
      /\ UNCHANGED <<setBack, failures, restarts>>
  BY <1>1 DEF history, ApplyTypeOK
<1> QED
  BY <1>1, <1>3, <1>4, <1>5, QuietHandOver

-----------------------------------------------------------------------------
(***************************************************************************)
(* Steps that keep the invariant                                           *)
(***************************************************************************)
Fresh(n) == oplog'[n] \ oplog[n]

\* What a step of n does to its data: it writes the version, and with it the row,
\* of an operation in its log, never an older one; an operation that is new in the
\* log has an effect or is on its way; it is another log's or issued now.
Progress(n) ==
  /\ ApplyTypeOK' /\ Local(n) /\ Flows(n) /\ Observes(n) /\ UNCHANGED setBack
  /\ oplog[n] \subseteq oplog'[n]
  /\ \A k \in Key : \/ version'[n][k] = version[n][k]
                    \/ \E o \in oplog'[n] : /\ o.key = k /\ Stamp(o) = version'[n][k]
                                            /\ setBack \/ o.hlc <= Encode(clock'[n])
  /\ NoDrops' => \A r \in Rec :
       \/ version'[n][r] = version[n][r] /\ row'[n][r] = row[n][r]
       \/ \E o \in oplog'[n] : o.key = r /\ Stamp(o) = version'[n][r] /\ Written(o) = row'[n][r]
  /\ setBack \/ \A r \in Rec : ~ Less(version'[n][r], version[n][r])
  /\ \A o \in Fresh(n) :
       /\ o.key \in Rec => ~ Supersedes(n, o)' \/ o \in Outstanding(n)' \/ o \in lost'[n]
       /\ (o.src = n /\ o.hlc <= Encode(clock'[n])) \/ \E p \in Node : o \in oplog[p]

\* The others are as they were.
LEMMA OthersStay ==
  ASSUME NEW n \in Node, NEW m \in Node \ {n}, Local(n)
  PROVE  /\ oplog'[m] = oplog[m] /\ version'[m] = version[m] /\ row'[m] = row[m]
         /\ clock'[m] = clock[m] /\ lost'[m] = lost[m]
         /\ Outstanding(m)' = Outstanding(m) /\ InHand(m)' = InHand(m)
         /\ \A o : Supersedes(m, o)' = Supersedes(m, o)
<1>1. /\ oplog'[m] = oplog[m] /\ version'[m] = version[m] /\ row'[m] = row[m]
      /\ clock'[m] = clock[m] /\ arriving'[m] = arriving[m] /\ queue'[m] = queue[m]
      /\ pending'[m] = pending[m] /\ applier'[m] = applier[m] /\ round'[m] = round[m]
      /\ lost'[m] = lost[m]
  BY DEF Local
<1>2. Outstanding(m)' = Outstanding(m)
  BY <1>1 DEF Outstanding
<1>3. InHand(m)' = InHand(m)
  BY <1>1 DEF InHand
<1>4. ASSUME NEW o PROVE Supersedes(m, o)' = Supersedes(m, o)
  BY <1>1 DEF Supersedes
<1> QED
  BY <1>1, <1>2, <1>3, <1>4

LEMMA LoggedKept ==
  ASSUME Logged, NEW n \in Node, Local(n), Flows(n), oplog[n] \subseteq oplog'[n]
  PROVE  Logged'
<1>1. Outstanding(n)' \subseteq oplog'[n]
  <2>1. Outstanding(n) \subseteq oplog[n] /\ Outstanding(n)' \subseteq Outstanding(n) \cup oplog'[n]
    BY DEF Logged, Flows
  <2> QED
    BY <2>1
<1>2. ASSUME NEW m \in Node \ {n} PROVE Outstanding(m)' \subseteq oplog'[m]
  BY <1>2, OthersStay DEF Logged
<1> QED
  BY <1>1, <1>2 DEF Logged

LEMMA VersionsLoggedKept ==
  ASSUME VersionsLogged, NEW n \in Node, Progress(n)
  PROVE  VersionsLogged'
<1>1. ASSUME NEW m \in Node, NEW k \in Key
      PROVE  version'[m][k] = NoVersion \/ \E o \in oplog'[m] : o.key = k /\ Stamp(o) = version'[m][k]
  <2>1. CASE m = n
    BY <2>1 DEF Progress, VersionsLogged
  <2>2. CASE m # n
    BY <2>2, OthersStay DEF Progress, VersionsLogged
  <2> QED
    BY <2>1, <2>2
<1> QED
  BY <1>1 DEF VersionsLogged

\* The row of an operation fits its version.
LEMMA WinnersRow ==
  ASSUME NEW o \in Op, NEW r \in Rec, o.key = r
  PROVE  /\ Stamp(o) # NoVersion
         /\ Stamp(o).deleted => Written(o) = NoRow
         /\ ~ Stamp(o).deleted => o.type = "upsert"
<1>1. o \in RecordOp /\ o.src \in Node /\ o.type \in RecordType
  <2>1. o \in SchemaOp => o.key \in Col
    BY DEF SchemaOp
  <2>2. o \in RecordOp
    BY <2>1, ApplyAssumption DEF Op
  <2> QED
    BY <2>2 DEF RecordOp
<1>2. o.src # 0
  BY <1>1, ApplyAssumption
<1>3. Stamp(o).src = o.src /\ NoVersion.src = 0
  BY DEF Stamp, NoVersion
<1>4. CASE o.type = "upsert"
  <2>1. ~ Stamp(o).deleted
    BY <1>4 DEF Stamp
  <2> QED
    BY <1>2, <1>3, <1>4, <2>1
<1>5. CASE o.type = "delete"
  <2>1. Stamp(o).deleted /\ Written(o) = NoRow
    BY <1>5 DEF Stamp, Written
  <2> QED
    BY <1>2, <1>3, <2>1
<1> QED
  BY <1>1, <1>4, <1>5 DEF RecordType

LEMMA RowIsWinnerKept ==
  ASSUME ApplyTypeOK, RowIsWinner, NEW n \in Node, Progress(n)
  PROVE  RowIsWinner'
<1> USE DEF Progress
<1>1. SUFFICES ASSUME NoDrops', NEW m \in Node, NEW r \in Rec
               PROVE  LET v == version'[m][r]
                      IN  IF v = NoVersion \/ v.deleted THEN row'[m][r] = NoRow
                          ELSE \E o \in oplog'[m] : /\ o.key = r /\ o.type = "upsert"
                                                    /\ Stamp(o) = v /\ row'[m][r] = Written(o)
  BY DEF RowIsWinner
<1>2. \A p \in Node : oplog[p] \subseteq oplog'[p]
  BY OthersStay
<1>3. NoDrops
  BY <1>1, <1>2 DEF NoDrops
<1>4. LET v == version[m][r]
      IN  IF v = NoVersion \/ v.deleted THEN row[m][r] = NoRow
          ELSE \E o \in oplog[m] : /\ o.key = r /\ o.type = "upsert"
                                   /\ Stamp(o) = v /\ row[m][r] = Written(o)
  BY <1>3 DEF RowIsWinner
<1>5. CASE version'[m][r] = version[m][r] /\ row'[m][r] = row[m][r]
  BY <1>2, <1>4, <1>5
<1>6. CASE \E o \in oplog'[m] : o.key = r /\ Stamp(o) = version'[m][r] /\ Written(o) = row'[m][r]
  <2>1. PICK o \in oplog'[m] : o.key = r /\ Stamp(o) = version'[m][r] /\ Written(o) = row'[m][r]
    BY <1>6
  <2>2. o \in Op
    BY DEF ApplyTypeOK
  <2> QED
    BY <2>1, <2>2, WinnersRow
<1>7. m # n => version'[m][r] = version[m][r] /\ row'[m][r] = row[m][r]
  BY OthersStay
<1> QED
  BY <1>1, <1>5, <1>6, <1>7

LEMMA AccountedKept ==
  ASSUME ApplyTypeOK, Accounted, NEW n \in Node, Progress(n)
  PROVE  Accounted'
<1> USE DEF Progress
<1>1. SUFFICES ASSUME ~ setBack, NEW m \in Node, NEW o \in oplog'[m], o.key \in Rec
               PROVE  ~ Supersedes(m, o)' \/ o \in Outstanding(m)' \/ o \in lost'[m]
  BY DEF Accounted
<1>2. o \in oplog[m] => ~ Supersedes(m, o) \/ o \in Outstanding(m) \/ o \in lost[m]
  BY <1>1 DEF Accounted
<1>3. CASE m # n
  BY <1>2, <1>3, OthersStay
<1>4. CASE m = n /\ o \in Fresh(n)
  BY <1>1, <1>4
<1>5. CASE m = n /\ o \in oplog[n]
  <2>1. CASE ~ Supersedes(n, o)
    <3>1. ~ Less(version'[n][o.key], version[n][o.key]) /\ ~ Less(version[n][o.key], o)
      BY <1>1, <2>1 DEF Supersedes
    <3>2. Stamped(version'[n][o.key]) /\ Stamped(version[n][o.key]) /\ Stamped(o)
      <4>1. o.key \in Key /\ o \in Op
        BY <1>5, OpType DEF ApplyTypeOK
      <4>2. version[n][o.key] \in Version /\ version'[n][o.key] \in Version
        BY <4>1 DEF ApplyTypeOK
      <4>3. Node \cup {0} \subseteq Nat
        BY ApplyAssumption
      <4> QED
        BY <4>1, <4>2, <4>3, OpType DEF Version, Stamped
    <3>3. ~ Less(version'[n][o.key], o)
      BY <3>1, <3>2, LessOrder
    <3>4. ~ Supersedes(n, o)'
      BY <3>3 DEF Supersedes
    <3> QED
      BY <1>5, <3>4
  <2>2. CASE o \in Outstanding(n)
    BY <1>1, <1>5, <2>2 DEF Flows
  <2>3. CASE o \in lost[n]
    BY <1>5, <2>3 DEF Flows
  <2> QED
    BY <1>2, <1>5, <2>1, <2>2, <2>3
<1> QED
  BY <1>3, <1>4, <1>5 DEF Fresh

LEMMA ClockCoversKept ==
  ASSUME ApplyTypeOK, Logged, ClockCovers, NEW n \in Node, Progress(n)
  PROVE  ClockCovers'
<1> USE DEF Progress
<1>1. SUFFICES ASSUME ~ setBack, NEW m \in Node PROVE Covered(m)'
  BY DEF ClockCovers
<1>2. \A p \in Node : Covered(p)
  BY <1>1 DEF ClockCovers
<1>3. \A p \in Node : Encode(clock[p]) \in Nat /\ Encode(clock'[p]) \in Nat
                      /\ Encode(clock[p]) <= Encode(clock'[p])
  <2>1. \A p \in Node : clock[p] \in Clock /\ clock'[p] \in Clock
    BY DEF ApplyTypeOK
  <2>2. \A p \in Node : Encode(clock[p]) \in Nat /\ Encode(clock'[p]) \in Nat
    BY <2>1, EncodeType
  <2>3. \A p \in Node \ {n} : clock'[p] = clock[p]
    BY OthersStay
  <2> QED
    BY <2>2, <2>3 DEF Observes
<1>4. ASSUME NEW p \in Node, NEW o \in oplog'[p], o.src = m
      PROVE  o.hlc <= Encode(clock'[m])
  <2>1. o.hlc \in Nat
    BY OpType DEF ApplyTypeOK
  <2>2. CASE \E q \in Node : o \in oplog[q]
    <3>1. o.hlc <= Encode(clock[m])
      BY <1>2, <1>4, <2>2 DEF Covered
    <3> QED
      BY <1>3, <2>1, <3>1
  <2>3. CASE ~ \E q \in Node : o \in oplog[q]
    <3>1. p = n
      BY <2>3, OthersStay
    <3> QED
      BY <1>4, <2>3, <3>1 DEF Fresh
  <2> QED
    BY <2>2, <2>3
<1>5. ASSUME NEW k \in Key PROVE version'[m][k].hlc <= Encode(clock'[m])
  <2>1. version[m][k].hlc \in Nat /\ version[m][k].hlc <= Encode(clock[m])
    BY <1>2 DEF Covered, ApplyTypeOK, Version
  <2>2. CASE version'[m][k] = version[m][k]
    BY <1>3, <2>1, <2>2
  <2>3. CASE version'[m][k] # version[m][k]
    <3>1. m = n
      BY <2>3, OthersStay
    <3>2. PICK o \in oplog'[n] : Stamp(o) = version'[n][k] /\ o.hlc <= Encode(clock'[n])
      BY <1>1, <2>3, <3>1
    <3> QED
      BY <3>1, <3>2 DEF Stamp
  <2> QED
    BY <2>2, <2>3
<1>6. ASSUME NEW o \in InHand(m)' PROVE o.hlc <= Encode(clock'[m])
  <2>1. CASE o \in InHand(m)
    <3>1. o.hlc <= Encode(clock[m])
      BY <1>2, <2>1 DEF Covered
    <3>2. o.hlc \in Nat
      <4>1. InHand(m) \subseteq Outstanding(m)
        BY DEF InHand, Outstanding
      <4>2. o \in Op
        BY <2>1, <4>1 DEF Logged, ApplyTypeOK
      <4> QED
        BY <4>2, OpType
    <3> QED
      BY <1>3, <3>1, <3>2
  <2>2. CASE o \notin InHand(m)
    <3>1. m = n
      BY <2>2, OthersStay
    <3> QED
      BY <2>2, <3>1 DEF Observes
  <2> QED
    BY <2>1, <2>2
<1> QED
  BY <1>4, <1>5, <1>6 DEF Covered

\* Nobody issues an operation, so stamps stay unique.
LEMMA OneStampKept ==
  ASSUME OneStamp, NEW n \in Node, Local(n), UNCHANGED setBack,
         \A o \in oplog'[n] : \E p \in Node : o \in oplog[p]
  PROVE  OneStamp'
<1>1. \A m \in Node : \A o \in oplog'[m] : \E p \in Node : o \in oplog[p]
  BY OthersStay
<1> QED
  BY <1>1 DEF OneStamp

LEMMA QuietProgress ==
  ASSUME ApplyTypeOK, NEW n \in Node, Quiet(n)
  PROVE  Progress(n)
<1>1. Fresh(n) = {} /\ oplog'[n] = oplog[n] /\ version'[n] = version[n] /\ row'[n] = row[n]
  BY DEF Fresh, Quiet
<1>2. ASSUME NEW r \in Rec PROVE ~ Less(version[n][r], version[n][r])
  BY VersionStamped DEF Less, Stamped, Key
<1> QED
  BY <1>1, <1>2 DEF Progress, Quiet

\* An operation that is stored is on its way.
LEMMA IngestProgress ==
  ASSUME ApplyTypeOK, NEW n \in Node, NEW p \in Node, Ingest(n, p)
  PROVE  Progress(n)
<1>1. PICK o \in oplog[p] \ oplog[n] :
        /\ oplog'    = [oplog EXCEPT ![n] = @ \cup {o}]
        /\ arriving' = [arriving EXCEPT ![n] = @ \cup {o}]
  BY DEF Ingest
<1>2. UNCHANGED <<localSeq, version, row, schema, savedClock, clock, queue, pending,
                  applier, history, round>>
  BY DEF Ingest
<1>3. /\ oplog' \in [Node -> SUBSET Op] /\ oplog'[n] = oplog[n] \cup {o}
      /\ arriving' \in [Node -> SUBSET Op] /\ arriving'[n] = arriving[n] \cup {o}
      /\ \A m \in Node \ {n} : oplog'[m] = oplog[m] /\ arriving'[m] = arriving[m]
  BY <1>1 DEF ApplyTypeOK
<1>4. ApplyTypeOK'
  BY <1>2, <1>3 DEF ApplyTypeOK, history
<1>5. Local(n)
  BY <1>2, <1>3 DEF Local, history
<1>6. Outstanding(n)' = Outstanding(n) \cup {o} /\ InHand(n)' = InHand(n)
  BY <1>2, <1>3 DEF Outstanding, InHand
<1>7. Fresh(n) = {o}
  BY <1>1, <1>3 DEF Fresh
<1>8. Flows(n)
  BY <1>2, <1>6, <1>7 DEF Flows, Fresh, history
<1>9. Observes(n)
  BY <1>2, <1>6, NoObservation DEF Observes, Onward
<1>10. ASSUME NEW r \in Rec PROVE ~ Less(version'[n][r], version[n][r])
  BY <1>2, VersionStamped DEF Less, Stamped, Key
<1> QED
  BY <1>2, <1>3, <1>4, <1>5, <1>6, <1>7, <1>8, <1>9, <1>10 DEF Progress, history

-----------------------------------------------------------------------------
(***************************************************************************)
(* Applying records                                                        *)
(***************************************************************************)
\* Applied in turn, of the operations on a record the one that is beaten by no other
\* stays, if it beats what was there, and nothing beats what is there then.
LEMMA ApplyingRecords ==
  ASSUME ApplyTypeOK, NEW n \in Node, NEW ops \in Seq(RecordOp), ApplyRecords(n, ops)
  PROVE  /\ version' \in [Node -> [Key -> Version]]
         /\ row' \in [Node -> [Rec -> Payload \cup {NoRow}]]
         /\ \A m \in Node \ {n} : version'[m] = version[m] /\ row'[m] = row[m]
         /\ \A k \in Key :
              \/ /\ version'[n][k] = version[n][k]
                 /\ k \in Rec => row'[n][k] = row[n][k]
              \/ \E o \in ToSet(ops) : /\ o.key = k /\ Stamp(o) = version'[n][k]
                                       /\ k \in Rec => Written(o) = row'[n][k]
         /\ \A k \in Key : ~ Less(version'[n][k], version[n][k])
         /\ \A o \in ToSet(ops) : ~ Less(version'[n][o.key], o)
<1> DEFINE Mine(k) == {i \in 1 .. Len(ops) : ops[i].key = k}
           W(k)    == {i \in 1 .. Len(ops) : ops[i].key = k /\ Wins(n, ops, i)}
           w(k)    == CHOOSE i \in W(k) : TRUE
<1>1. /\ version' = [version EXCEPT ![n] = [k \in Key |->
           IF W(k) = {} THEN @[k] ELSE Stamp(ops[w(k)])]]
      /\ row' = [row EXCEPT ![n] = [r \in Rec |->
           IF W(r) = {} THEN @[r] ELSE Written(ops[w(r)])]]
  BY DEF ApplyRecords
<1>2. \A i \in 1 .. Len(ops) : ops[i] \in RecordOp /\ ops[i] \in Op /\ ops[i] \in ToSet(ops)
  BY DEF ToSet, Op
<1>3. \A k \in Key : W(k) # {} => w(k) \in W(k)
  OBVIOUS
<1>4. \A k \in Key : W(k) \subseteq 1 .. Len(ops)
  OBVIOUS
<1>5. \A k \in Key : \A i \in W(k) : ops[i].key = k /\ Wins(n, ops, i)
  OBVIOUS
<1>6. ASSUME NEW k \in Key, NEW i \in 1 .. Len(ops), ops[i].key = k, Supersedes(n, ops[i])
      PROVE  W(k) # {}
  <2>1. Mine(k) \in SUBSET Nat /\ IsFiniteSet(Mine(k)) /\ i \in Mine(k)
    <3>1. IsFiniteSet(1 .. Len(ops)) /\ Mine(k) \subseteq 1 .. Len(ops)
      BY FS_Interval
    <3> QED
      BY <1>6, <3>1, FS_Subset
  <2>2. \A j \in Mine(k) : Stamped(ops[j])
    BY <1>2, OpType
  <2>3. PICK j \in Mine(k) : \A l \in Mine(k) :
          ~ Less(ops[j], ops[l]) /\ (l < j => Less(ops[l], ops[j]))
    <3> HIDE DEF Mine
    <3> QED
      BY <2>1, <2>2, FirstWinner
  <2>4. Less(version[n][k], ops[i]) /\ ~ Less(ops[j], ops[i])
    BY <1>6, <2>1, <2>3 DEF Supersedes
  <2>5. Less(version[n][k], ops[j])
    BY <2>1, <2>2, <2>4, VersionStamped, LessOrder
  <2>6. j \in 1 .. Len(ops) /\ ops[j].key = k
    OBVIOUS
  <2>7. Wins(n, ops, j)
    BY <2>3, <2>5, <2>6 DEF Wins, Supersedes
  <2> QED
    BY <2>6, <2>7
<1> HIDE DEF W, w
<1>7. \A k \in Key : W(k) # {} =>
        /\ Stamp(ops[w(k)]) \in Version
        /\ k \in Rec => Written(ops[w(k)]) \in Payload \cup {NoRow}
  <2>1. ASSUME NEW o \in Op PROVE Written(o) \in Payload \cup {NoRow}
    BY OpType DEF Written, Payload
  <2> QED
    BY <1>2, <1>3, <1>4, <2>1, OpType
<1>8. /\ version \in [Node -> [Key -> Version]] /\ row \in [Node -> [Rec -> Payload \cup {NoRow}]]
      /\ Rec \subseteq Key
  BY DEF ApplyTypeOK, Key
<1>9. /\ version' \in [Node -> [Key -> Version]]
      /\ row' \in [Node -> [Rec -> Payload \cup {NoRow}]]
  BY <1>1, <1>7, <1>8
<1>10. /\ \A m \in Node \ {n} : version'[m] = version[m] /\ row'[m] = row[m]
       /\ \A k \in Key : version'[n][k] = IF W(k) = {} THEN version[n][k] ELSE Stamp(ops[w(k)])
       /\ \A r \in Rec : row'[n][r] = IF W(r) = {} THEN row[n][r] ELSE Written(ops[w(r)])
  BY <1>1, <1>8
<1>11. ASSUME NEW k \in Key
       PROVE  \/ /\ version'[n][k] = version[n][k]
                 /\ k \in Rec => row'[n][k] = row[n][k]
              \/ \E o \in ToSet(ops) : /\ o.key = k /\ Stamp(o) = version'[n][k]
                                       /\ k \in Rec => Written(o) = row'[n][k]
  BY <1>2, <1>3, <1>4, <1>5, <1>10
<1>12. ASSUME NEW k \in Key
       PROVE  ~ Less(version'[n][k], version[n][k])
  <2>1. Stamped(version[n][k])
    BY VersionStamped
  <2>2. CASE W(k) = {}
    BY <1>10, <2>1, <2>2 DEF Less, Stamped
  <2>3. CASE W(k) # {}
    <3> DEFINE o == ops[w(k)]
    <3>1. Less(version[n][k], o) /\ version'[n][k] = Stamp(o) /\ Stamped(o)
      BY <1>2, <1>3, <1>4, <1>5, <1>10, <2>3, OpType DEF Wins, Supersedes
    <3> HIDE DEF o
    <3> QED
      BY <2>1, <3>1 DEF Less, Stamp, Stamped
  <2> QED
    BY <2>2, <2>3
<1>13. ASSUME NEW o \in ToSet(ops)
       PROVE  ~ Less(version'[n][o.key], o)
  <2>1. PICK i \in 1 .. Len(ops) : o = ops[i]
    BY DEF ToSet
  <2>2. o \in Op /\ o.key \in Key /\ Stamped(o)
    BY <1>2, <2>1, OpType
  <2>3. CASE W(o.key) = {}
    BY <1>6, <1>10, <2>1, <2>2, <2>3 DEF Supersedes
  <2>4. CASE W(o.key) # {}
    <3> DEFINE x == ops[w(o.key)]
    <3>1. x.key = o.key /\ ~ Less(x, o) /\ version'[n][o.key] = Stamp(x)
      BY <1>3, <1>4, <1>5, <1>10, <2>1, <2>2, <2>4 DEF Wins
    <3> HIDE DEF x
    <3> QED
      BY <3>1 DEF Less, Stamp
  <2> QED
    BY <2>3, <2>4
<1> QED
  BY <1>9, <1>10, <1>11, <1>12, <1>13

\* What a transaction has applied is no longer on its way and has an effect or is beaten.
LEMMA ApplyProgress ==
  ASSUME ApplyTypeOK, Logged, ClockCovers, NEW n \in Node,
         NEW ops \in Seq(RecordOp), ToSet(ops) \subseteq Held(applier[n]), ApplyRecords(n, ops),
         NEW y \in ApplierState, SetApplier(n, y),
         Held(y) \subseteq Held(applier[n]), Work(y) \subseteq Work(applier[n]),
         Work(applier[n]) \subseteq Work(y) \cup ToSet(ops),
         UNCHANGED <<localSeq, oplog, schema, savedClock, clock, arriving, queue, pending,
                     history, round>>
  PROVE  Progress(n)
<1>1. /\ applier' \in [Node -> ApplierState] /\ applier'[n] = y
      /\ \A m \in Node \ {n} : applier'[m] = applier[m]
  BY ApplierMoves
<1>2. /\ version' \in [Node -> [Key -> Version]]
      /\ row' \in [Node -> [Rec -> Payload \cup {NoRow}]]
      /\ \A m \in Node \ {n} : version'[m] = version[m] /\ row'[m] = row[m]
  BY ApplyingRecords
<1>3. ApplyTypeOK'
  BY <1>1, <1>2 DEF ApplyTypeOK, history
<1>4. Local(n)
  BY <1>1, <1>2 DEF Local, history
<1>5. /\ InHand(n) = Held(applier[n]) /\ InHand(n)' = Held(y)
      /\ Outstanding(n)' \subseteq Outstanding(n)
      /\ Outstanding(n) \subseteq Outstanding(n)' \cup ToSet(ops)
  <2>1. InHand(n)' = Held(applier'[n])
    BY DEF InHand, Held
  <2>2. Outstanding(n)' = arriving'[n] \cup ToSet(queue'[n]) \cup ToSet(pending'[n])
                            \cup Work(applier'[n]) \cup ToSet(round'[n].parked)
    BY DEF Outstanding, Held, Work
  <2>3. Outstanding(n)' = arriving[n] \cup ToSet(queue[n]) \cup ToSet(pending[n])
                            \cup Work(y) \cup ToSet(round[n].parked)
    BY <1>1, <2>2
  <2> QED
    BY <1>1, <2>1, <2>3, OnItsWay
<1>6. \A o \in ToSet(ops) : ~ Supersedes(n, o)'
  BY ApplyingRecords DEF Supersedes
<1>7. UNCHANGED <<oplog, setBack, lost>> /\ Fresh(n) = {}
  BY DEF history, Fresh
<1>8. Flows(n)
  BY <1>5, <1>6, <1>7 DEF Flows
<1>9. Observes(n)
  BY <1>5, NoObservation DEF Observes, Onward
<1>10. \A o \in ToSet(ops) : o \in oplog'[n] /\ (setBack \/ o.hlc <= Encode(clock'[n]))
  <2>1. Held(applier[n]) \subseteq Outstanding(n)
    BY OnItsWay DEF Work
  <2> QED
    BY <1>5, <1>7, <2>1 DEF Logged, ClockCovers, Covered
<1>11. \A k \in Key :
         /\ ~ Less(version'[n][k], version[n][k])
         /\ \/ /\ version'[n][k] = version[n][k]
               /\ k \in Rec => row'[n][k] = row[n][k]
            \/ \E o \in ToSet(ops) : /\ o.key = k /\ Stamp(o) = version'[n][k]
                                     /\ k \in Rec => Written(o) = row'[n][k]
  BY ApplyingRecords
<1>12. \A k \in Key : \/ version'[n][k] = version[n][k]
                      \/ \E o \in oplog'[n] : /\ o.key = k /\ Stamp(o) = version'[n][k]
                                              /\ setBack \/ o.hlc <= Encode(clock'[n])
  BY <1>10, <1>11
<1>13. \A r \in Rec :
         \/ version'[n][r] = version[n][r] /\ row'[n][r] = row[n][r]
         \/ \E o \in oplog'[n] : /\ o.key = r /\ Stamp(o) = version'[n][r]
                                 /\ Written(o) = row'[n][r]
  BY <1>10, <1>11 DEF Key
<1>14. \A r \in Rec : ~ Less(version'[n][r], version[n][r])
  BY <1>11 DEF Key
<1> QED
  BY <1>3, <1>4, <1>7, <1>8, <1>9, <1>12, <1>13, <1>14 DEF Progress

LEMMA ApplyTogetherProgress ==
  ASSUME ApplyTypeOK, Logged, ClockCovers, NEW n \in Node, ApplyTogether(n)
  PROVE  Progress(n)
<1> DEFINE x == applier[n]
           y == [x EXCEPT !.resolving = FALSE, !.entries = <<>>]
<1>1. /\ x \in ApplierState /\ x.entries \in Seq(RecordOp) /\ ApplyRecords(n, x.entries)
      /\ SetApplier(n, y)
      /\ UNCHANGED <<localSeq, oplog, schema, savedClock, clock, arriving, queue, pending,
                     history, round>>
  BY ApplierType DEF ApplyTogether
<1>2. /\ y \in ApplierState /\ y.todo = x.todo /\ y.group = x.group /\ y.entries = <<>>
      /\ y.single = x.single /\ y.change = x.change /\ y.parked = x.parked
  <2>1. <<>> \in Seq(RecordOp)
    OBVIOUS
  <2> QED
    BY <1>1, <2>1 DEF ApplierState
<1> HIDE DEF y
<1>3. Held(x) = Held(y) \cup ToSet(x.entries)
  <2>1. ToSet(<<>>) = {}
    BY DEF ToSet
  <2> QED
    BY <1>2, <2>1 DEF Held
<1>4. Work(x) = Work(y) \cup ToSet(x.entries)
  BY <1>2, <1>3 DEF Work
<1> QED
  BY <1>1, <1>2, <1>3, <1>4, ApplyProgress

LEMMA ApplyAloneProgress ==
  ASSUME ApplyTypeOK, Logged, ClockCovers, NEW n \in Node, ApplyAlone(n)
  PROVE  Progress(n)
<1> DEFINE x == applier[n]
           o == Head(x.single)
           y == [x EXCEPT !.single = Tail(@), !.found = FALSE]
<1>1. /\ x.single # <<>> /\ ApplyRecords(n, <<o>>) /\ SetApplier(n, y)
      /\ UNCHANGED <<localSeq, oplog, schema, savedClock, clock, arriving, queue, pending,
                     history, round>>
  BY DEF ApplyAlone
<1>2. /\ y \in ApplierState /\ o \in RecordOp /\ Work(x) = Work(y) \cup {o}
      /\ Held(x) = Held(y) \cup {o}
  BY <1>1, NextAlone
<1> HIDE DEF y, o
<1>3. <<o>> \in Seq(RecordOp) /\ ToSet(<<o>>) = {o}
  <2>1. Len(<<o>>) = 1 /\ <<o>>[1] = o
    OBVIOUS
  <2> QED
    BY <1>2, <2>1 DEF ToSet
<1> QED
  BY <1>1, <1>2, <1>3, ApplyProgress

-----------------------------------------------------------------------------
(***************************************************************************)
(* Collection operations                                                   *)
(***************************************************************************)
\* What is on its way stays on its way.
LEMMA FlowsOn ==
  ASSUME NEW n \in Node, Outstanding(n)' = Outstanding(n), UNCHANGED lost
  PROVE  Flows(n)
BY DEF Flows

LEMMA SaveSchemaProgress ==
  ASSUME ApplyTypeOK, Logged, OneTaskEach, NEW n \in Node, SaveSchema(n)
  PROVE  Progress(n)
<1> DEFINE x == applier[n]
<1>1. PICK ch \in x.change :
        /\ schema' = [schema EXCEPT ![n][ch.op.key] = ch.op.content]
        /\ row' = IF ch.op.type = "colDelete"
                  THEN [row EXCEPT ![n] = WithoutRowsOf(@, ch.op.key)] ELSE row
        /\ SetApplier(n, [x EXCEPT !.change = {[ch EXCEPT !.step = "saved"]}])
        /\ UNCHANGED <<localSeq, oplog, version, savedClock, clock, arriving, queue, pending,
                       history, round>>
  BY DEF SaveSchema
<1>2. /\ ch \in [op : SchemaOp, step : {"save", "saved", "bump"}]
      /\ ch.op \in SchemaOp /\ ch.op.key \in Col /\ ch.op \in oplog[n]
      /\ ch.op.content \in Content \cup {0}
  BY ChangeType DEF Logged, SchemaOp
<1> DEFINE ch2 == [ch EXCEPT !.step = "saved"]
           y   == [x EXCEPT !.change = {ch2}]
<1>3. /\ x \in ApplierState /\ ch2 \in [op : SchemaOp, step : {"save", "saved", "bump"}]
      /\ ch2.op = ch.op /\ x.change = {ch} /\ OneTask(x)
  BY <1>2, ApplierType DEF OneTaskEach, OneTask
<1> HIDE DEF ch2
<1>4. /\ y \in ApplierState /\ y.todo = x.todo /\ y.group = x.group /\ y.entries = x.entries
      /\ y.single = x.single /\ y.change = {ch2} /\ y.parked = x.parked
  BY <1>3 DEF ApplierState
<1>5. SetApplier(n, y)
  BY <1>1 DEF ch2
<1> HIDE DEF y
<1>6. {c.op : c \in y.change} = {c.op : c \in x.change}
  BY <1>3, <1>4
<1>7. Held(y) = Held(x) /\ Work(y) = Work(x)
  BY <1>4, <1>6 DEF Held, Work
<1>8. /\ applier' \in [Node -> ApplierState] /\ applier'[n] = y
      /\ \A m \in Node \ {n} : applier'[m] = applier[m]
  BY <1>4, <1>5, ApplierMoves
<1>9. /\ schema' \in [Node -> [Col -> Content \cup {0}]]
      /\ row' \in [Node -> [Rec -> Payload \cup {NoRow}]]
      /\ \A m \in Node \ {n} : row'[m] = row[m]
  <2>1. schema' \in [Node -> [Col -> Content \cup {0}]]
    BY <1>1, <1>2 DEF ApplyTypeOK
  <2>2. WithoutRowsOf(row[n], ch.op.key) \in [Rec -> Payload \cup {NoRow}]
    BY DEF WithoutRowsOf, ApplyTypeOK
  <2> QED
    BY <1>1, <2>1, <2>2 DEF ApplyTypeOK
<1>10. ApplyTypeOK'
  BY <1>1, <1>8, <1>9 DEF ApplyTypeOK, history
<1>11. Local(n)
  BY <1>1, <1>8, <1>9 DEF Local, history
<1>12. Outstanding(n)' = Outstanding(n) /\ InHand(n)' = InHand(n)
  <2>1. /\ InHand(n)' = Held(applier'[n])
        /\ Outstanding(n)' = arriving'[n] \cup ToSet(queue'[n]) \cup ToSet(pending'[n])
                               \cup Work(applier'[n]) \cup ToSet(round'[n].parked)
    BY DEF InHand, Outstanding, Held, Work
  <2> QED
    BY <1>1, <1>7, <1>8, <2>1, OnItsWay
<1>13. Flows(n)
  BY <1>1, <1>12, FlowsOn DEF history
<1>14. Observes(n)
  BY <1>1, <1>12, NoObservation DEF Observes, Onward
<1>15. NoDrops' => row' = row
  BY <1>1, <1>2 DEF NoDrops
<1>16. \A r \in Rec : ~ Less(version[n][r], version[n][r])
  BY VersionStamped DEF Less, Stamped, Key
<1>17. Fresh(n) = {} /\ UNCHANGED <<oplog, version, setBack>>
  BY <1>1 DEF Fresh, history
<1> QED
  BY <1>10, <1>11, <1>13, <1>14, <1>15, <1>16, <1>17 DEF Progress

LEMMA StoreSchemaVersionProgress ==
  ASSUME ApplyTypeOK, Logged, ClockCovers, OneTaskEach, NEW n \in Node, StoreSchemaVersion(n)
  PROVE  Progress(n)
<1> DEFINE x == applier[n]
<1>1. PICK ch \in x.change, p \in {<<>>, pending[n]} :
        /\ version' = [version EXCEPT ![n][ch.op.key] = Stamp(ch.op)]
        /\ \/ p = pending[n] /\ pending' = [pending EXCEPT ![n] = <<>>]
           \/ p = <<>> /\ pending' = pending
        /\ SetApplier(n, [x EXCEPT !.change = {}, !.parked = p])
        /\ UNCHANGED <<localSeq, oplog, row, schema, savedClock, clock, arriving, queue,
                       history, round>>
  BY DEF StoreSchemaVersion
<1> DEFINE y == [x EXCEPT !.change = {}, !.parked = p]
<1>2. /\ ch.op \in Op /\ ch.op.key \in Col /\ ch.op.key \notin Rec /\ ch.op \in InHand(n)
      /\ ch.op \in oplog[n] /\ ch.op.key \in Key /\ Stamp(ch.op) \in Version
  BY ChangeType, OpType DEF Logged, Key
<1>3. pending[n] \in Seq(Op) /\ <<>> \in Seq(Op) /\ ToSet(<<>>) = {} /\ Len(<<>>) = 0
      /\ MaxPending \in Nat
  BY ApplyAssumption DEF ApplyTypeOK, ToSet
<1>4. /\ y \in ApplierState /\ Held(y) \subseteq Held(x)
      /\ Work(y) \subseteq Work(x) \cup ToSet(p)
      /\ Work(x) \cup ToSet(p) \subseteq Work(y) \cup {ch.op}
  <2>1. OneTask(x) /\ p \in Seq(Op)
    BY <1>1, <1>3 DEF OneTaskEach
  <2> QED
    BY <2>1, ChangeMoves
<1>5. SetApplier(n, y)
  BY <1>1
<1> HIDE DEF y
<1>6. /\ applier' \in [Node -> ApplierState] /\ applier'[n] = y
      /\ \A m \in Node \ {n} : applier'[m] = applier[m]
  BY <1>4, <1>5, ApplierMoves
<1>7. /\ version' \in [Node -> [Key -> Version]]
      /\ \A m \in Node \ {n} : version'[m] = version[m]
      /\ \A k \in Key : version'[n][k] = IF k = ch.op.key THEN Stamp(ch.op) ELSE version[n][k]
  BY <1>1, <1>2 DEF ApplyTypeOK
<1>8. /\ pending' \in [Node -> Seq(Op)] /\ \A m \in Node : Len(pending'[m]) <= MaxPending
      /\ \A m \in Node \ {n} : pending'[m] = pending[m]
      /\ ToSet(pending[n]) = ToSet(pending'[n]) \cup ToSet(p)
  <2>1. CASE p = pending[n] /\ pending' = [pending EXCEPT ![n] = <<>>]
    BY <1>3, <2>1 DEF ApplyTypeOK
  <2>2. CASE p = <<>> /\ pending' = pending
    BY <1>3, <2>2 DEF ApplyTypeOK
  <2> QED
    BY <1>1, <2>1, <2>2
<1>9. ApplyTypeOK'
  BY <1>1, <1>6, <1>7, <1>8 DEF ApplyTypeOK, history
<1>10. Local(n)
  BY <1>1, <1>6, <1>7, <1>8 DEF Local, history
<1>11. /\ InHand(n)' \subseteq InHand(n) /\ Outstanding(n)' \subseteq Outstanding(n)
       /\ Outstanding(n) \subseteq Outstanding(n)' \cup {ch.op}
  <2>1. /\ InHand(n)' = Held(applier'[n])
        /\ Outstanding(n)' = arriving'[n] \cup ToSet(queue'[n]) \cup ToSet(pending'[n])
                               \cup Work(applier'[n]) \cup ToSet(round'[n].parked)
    BY DEF InHand, Outstanding, Held, Work
  <2>2. Outstanding(n)' = arriving[n] \cup ToSet(queue[n]) \cup ToSet(pending'[n])
                            \cup Work(y) \cup ToSet(round[n].parked)
    BY <1>1, <1>6, <2>1
  <2> QED
    BY <1>4, <1>6, <1>8, <2>1, <2>2, OnItsWay
<1>12. UNCHANGED <<oplog, row, lost, setBack, clock>> /\ Fresh(n) = {}
  BY <1>1 DEF history, Fresh
<1>13. Flows(n)
  BY <1>2, <1>11, <1>12 DEF Flows
<1>14. Observes(n)
  BY <1>11, <1>12, NoObservation DEF Observes, Onward
<1>15. setBack \/ ch.op.hlc <= Encode(clock'[n])
  BY <1>2, <1>12 DEF ClockCovers, Covered
<1>16. \A k \in Key : \/ version'[n][k] = version[n][k]
                      \/ \E o \in oplog'[n] : /\ o.key = k /\ Stamp(o) = version'[n][k]
                                              /\ setBack \/ o.hlc <= Encode(clock'[n])
  BY <1>2, <1>7, <1>12, <1>15
<1>17. \A r \in Rec : version'[n][r] = version[n][r] /\ ~ Less(version[n][r], version[n][r])
  BY <1>2, <1>7, VersionStamped DEF Less, Stamped, Key
<1> QED
  BY <1>9, <1>10, <1>12, <1>13, <1>14, <1>16, <1>17 DEF Progress

-----------------------------------------------------------------------------
(***************************************************************************)
(* Local changes                                                           *)
(***************************************************************************)
\* What a local change is stamped with is beyond all that the node has applied,
\* and beyond all that anybody has from it.
LEMMA CaptureProgress ==
  ASSUME ApplyTypeOK, ClockCovers, OneStamp, NEW n \in Node,
         NEW type \in RecordType \cup SchemaType, NEW key \in Key,
         NEW content \in Content \cup {0},
         type \in RecordType => key \in Rec /\ content = 0,
         type \in SchemaType => key \in Col,
         Capture(n, type, key, content), schema' \in [Node -> [Col -> Content \cup {0}]]
  PROVE  Progress(n) /\ OneStamp'
<1> DEFINE e == [src |-> n, seq |-> localSeq[n] + 1, hlc |-> Encode(clock'[n]),
                 type |-> type, key |-> key, content |-> content]
<1>1. PICK wall \in 0 .. MaxWall : clock' = [clock EXCEPT ![n] = Tick(@, wall)]
  BY DEF Capture
<1>2. /\ Onward(n) /\ Encode(clock'[n]) \in Nat /\ Encode(clock[n]) \in Nat
      /\ Encode(clock[n]) < Encode(clock'[n])
  <2>1. wall \in Nat /\ clock \in [Node -> Clock] /\ clock[n] \in Clock
    BY ApplyAssumption DEF ApplyTypeOK
  <2>2. /\ clock' \in [Node -> Clock] /\ \A m \in Node \ {n} : clock'[m] = clock[m]
        /\ clock'[n] = Tick(clock[n], wall) /\ clock'[n] \in Clock
    BY <1>1, <2>1, TickIncreases
  <2>3. Encode(clock[n]) < Encode(clock'[n])
    BY <2>1, <2>2, TickIncreases
  <2>4. Encode(clock'[n]) \in Nat /\ Encode(clock[n]) \in Nat
    BY <2>1, <2>2, EncodeType
  <2> QED
    BY <2>2, <2>3, <2>4 DEF Onward
<1>3. e \in Op
  <2>1. localSeq[n] + 1 \in Nat \ {0}
    BY DEF ApplyTypeOK
  <2>2. CASE type \in RecordType
    BY <1>2, <2>1, <2>2 DEF Op, RecordOp
  <2>3. CASE type \in SchemaType
    BY <1>2, <2>1, <2>3 DEF Op, SchemaOp
  <2> QED
    BY <2>2, <2>3
<1>4. PICK o \in Op : o = e
  BY <1>3
<1>5. /\ localSeq' = [localSeq EXCEPT ![n] = @ + 1]
      /\ oplog'   = [oplog EXCEPT ![n] = @ \cup {o}]
      /\ version' = [version EXCEPT ![n][key] = Stamp(o)]
      /\ IF key \in Rec THEN row' = [row EXCEPT ![n][key] = Written(o)]
         ELSE IF type = "colDelete" THEN row' = [row EXCEPT ![n] = WithoutRowsOf(@, key)]
         ELSE UNCHANGED row
      /\ UNCHANGED <<savedClock, arriving, queue, pending, applier, history, round>>
  BY <1>4 DEF Capture
<1>6. /\ o.src = n /\ o.hlc = Encode(clock'[n]) /\ o.type = type /\ o.key = key
      /\ Stamp(o) \in Version /\ Stamped(o) /\ Written(o) \in Payload \cup {NoRow}
  <2>1. Written(o) \in Payload \cup {NoRow}
    BY <1>4, OpType DEF Written, Payload
  <2>2. o.src = n /\ o.hlc = Encode(clock'[n]) /\ o.type = type /\ o.key = key
    BY <1>4
  <2>3. Stamp(o) \in Version /\ Stamped(o)
    BY <1>4, OpType
  <2> QED
    BY <2>1, <2>2, <2>3
<1> HIDE DEF e
<1>7. /\ localSeq' \in [Node -> Nat]
      /\ oplog' \in [Node -> SUBSET Op] /\ oplog'[n] = oplog[n] \cup {o}
      /\ version' \in [Node -> [Key -> Version]]
      /\ \A k \in Key : version'[n][k] = IF k = key THEN Stamp(o) ELSE version[n][k]
      /\ \A m \in Node \ {n} : oplog'[m] = oplog[m] /\ version'[m] = version[m]
  BY <1>4, <1>5, <1>6 DEF ApplyTypeOK
<1>8. /\ row' \in [Node -> [Rec -> Payload \cup {NoRow}]]
      /\ \A m \in Node \ {n} : row'[m] = row[m]
  <2>1. WithoutRowsOf(row[n], key) \in [Rec -> Payload \cup {NoRow}]
    BY DEF WithoutRowsOf, ApplyTypeOK
  <2>2. row \in [Node -> [Rec -> Payload \cup {NoRow}]]
    BY DEF ApplyTypeOK
  <2>3. CASE key \in Rec
    <3>1. row' = [row EXCEPT ![n][key] = Written(o)]
      BY <1>5, <2>3
    <3>2. [row[n] EXCEPT ![key] = Written(o)] \in [Rec -> Payload \cup {NoRow}]
      BY <1>6, <2>2, <2>3
    <3> QED
      BY <2>2, <3>1, <3>2
  <2>4. CASE key \notin Rec /\ type = "colDelete"
    BY <1>5, <2>1, <2>2, <2>4
  <2>5. CASE key \notin Rec /\ type # "colDelete"
    BY <1>5, <2>2, <2>5
  <2> QED
    BY <2>3, <2>4, <2>5
<1>9. ApplyTypeOK'
  BY <1>2, <1>5, <1>7, <1>8 DEF ApplyTypeOK, Onward, history
<1>10. Local(n)
  BY <1>2, <1>5, <1>7, <1>8 DEF Local, Onward, history
<1>11. Outstanding(n)' = Outstanding(n) /\ InHand(n)' = InHand(n)
  BY <1>5 DEF Outstanding, InHand
<1>12. Flows(n) /\ Observes(n)
  BY <1>2, <1>5, <1>11, FlowsOn DEF Observes, history
<1>13. \A k \in Key : \/ version'[n][k] = version[n][k]
                      \/ \E x \in oplog'[n] : /\ x.key = k /\ Stamp(x) = version'[n][k]
                                              /\ setBack \/ x.hlc <= Encode(clock'[n])
  BY <1>2, <1>6, <1>7
<1>14. ASSUME NoDrops', NEW r \in Rec
       PROVE  \/ version'[n][r] = version[n][r] /\ row'[n][r] = row[n][r]
              \/ \E x \in oplog'[n] : /\ x.key = r /\ Stamp(x) = version'[n][r]
                                      /\ Written(x) = row'[n][r]
  <2>1. type # "colDelete"
    BY <1>6, <1>7, <1>14 DEF NoDrops
  <2>2. CASE r = key
    BY <1>5, <1>6, <1>7, <2>2 DEF ApplyTypeOK, Key
  <2>3. CASE r # key
    BY <1>5, <1>7, <2>1, <2>3 DEF ApplyTypeOK, Key
  <2> QED
    BY <2>2, <2>3
<1>15. \A r \in Rec : setBack \/ ~ Less(version'[n][r], version[n][r])
  <2>1. ASSUME NEW r \in Rec, ~ setBack
        PROVE  ~ Less(version'[n][r], version[n][r])
    <3>1. version[n][r].hlc <= Encode(clock[n]) /\ Stamped(version[n][r])
      BY <2>1, VersionStamped DEF ClockCovers, Covered, Key
    <3>2. CASE r = key
      BY <1>2, <1>6, <1>7, <3>1, <3>2 DEF Less, Stamped, Stamp, Key
    <3>3. CASE r # key
      BY <1>7, <3>1, <3>3 DEF Less, Stamped, Key
    <3> QED
      BY <3>2, <3>3
  <2> QED
    BY <2>1
<1>16. Fresh(n) \subseteq {o} /\ ~ Supersedes(n, o)'
  <2>1. version'[n][o.key] = Stamp(o)
    BY <1>6, <1>7
  <2>2. ~ Less(Stamp(o), o)
    BY <1>6 DEF Less, Stamp, Stamped
  <2>3. ~ Supersedes(n, o)'
    BY <2>1, <2>2 DEF Supersedes
  <2> QED
    BY <1>7, <2>3 DEF Fresh
<1>17. Progress(n)
  <2>1. oplog[n] \subseteq oplog'[n] /\ UNCHANGED setBack
    BY <1>5, <1>7 DEF history
  <2>2. \A x \in Fresh(n) : x = o /\ x.src = n /\ x.hlc <= Encode(clock'[n])
    BY <1>2, <1>6, <1>16
  <2> QED
    BY <1>9, <1>10, <1>12, <1>13, <1>14, <1>15, <1>16, <2>1, <2>2 DEF Progress
<1>18. OneStamp'
  <2>1. SUFFICES ASSUME ~ setBack, NEW p \in Node, NEW q \in Node,
                        NEW a \in oplog'[p], NEW b \in oplog'[q], a.src = b.src, a.hlc = b.hlc
                 PROVE  a = b
    BY <1>5 DEF OneStamp, history
  <2>2. \A m \in Node : \A x \in oplog[m] : x.src = n => x.hlc # o.hlc
    <3>1. ASSUME NEW m \in Node, NEW x \in oplog[m], x.src = n PROVE x.hlc # o.hlc
      <4>1. x.hlc <= Encode(clock[n]) /\ x.hlc \in Nat
        BY <2>1, <3>1, OpType DEF ClockCovers, Covered, ApplyTypeOK
      <4> QED
        BY <1>2, <1>6, <4>1
    <3> QED
      BY <3>1
  <2>3. a = o \/ a \in oplog[p]
    BY <1>7
  <2>4. b = o \/ b \in oplog[q]
    BY <1>7
  <2> QED
    BY <1>6, <2>1, <2>2, <2>3, <2>4 DEF OneStamp
<1> QED
  BY <1>17, <1>18

LEMMA LocalProgress ==
  ASSUME ApplyTypeOK, ClockCovers, OneStamp, NEW n \in Node,
         (\E r \in Rec : LocalRecord(n, r)) \/ (\E c \in Col : LocalSchema(n, c))
  PROVE  Progress(n) /\ OneStamp' /\ UNCHANGED <<applier, round>>
<1>1. ASSUME NEW r \in Rec, LocalRecord(n, r)
      PROVE  Progress(n) /\ OneStamp' /\ UNCHANGED <<applier, round>>
  <2>1. PICK type \in RecordType : Capture(n, type, r, 0)
    BY <1>1 DEF LocalRecord, RecordType
  <2>2. /\ schema' \in [Node -> [Col -> Content \cup {0}]] /\ r \in Key
        /\ type \in RecordType \cup SchemaType /\ type \notin SchemaType
    BY <1>1 DEF LocalRecord, ApplyTypeOK, Key, RecordType, SchemaType
  <2>3. Progress(n) /\ OneStamp'
    BY <2>1, <2>2, CaptureProgress
  <2> QED
    BY <2>1, <2>3 DEF Capture
<1>2. ASSUME NEW c \in Col, LocalSchema(n, c)
      PROVE  Progress(n) /\ OneStamp' /\ UNCHANGED <<applier, round>>
  <2>1. PICK type \in SchemaType, v \in Content \cup {0} :
          Capture(n, type, c, v) /\ schema' = [schema EXCEPT ![n][c] = v]
    BY <1>2 DEF LocalSchema, SchemaType
  <2>2. /\ schema' \in [Node -> [Col -> Content \cup {0}]] /\ c \in Key
        /\ type \in RecordType \cup SchemaType /\ type \notin RecordType
    BY <2>1 DEF ApplyTypeOK, Key, RecordType, SchemaType
  <2>3. Progress(n) /\ OneStamp'
    BY <2>1, <2>2, CaptureProgress
  <2> QED
    BY <2>1, <2>3 DEF Capture
<1> QED
  BY <1>1, <1>2

-----------------------------------------------------------------------------
(***************************************************************************)
(* A crash                                                                 *)
(***************************************************************************)
LEMMA CrashKeeps ==
  ASSUME IInv, NEW n \in Node, Crash(n)
  PROVE  /\ ApplyTypeOK' /\ Logged' /\ VersionsLogged' /\ ClockCovers' /\ OneStamp'
         /\ RowIsWinner' /\ Accounted'
<1> USE DEF IInv
<1>1. /\ clock' = [clock EXCEPT ![n] = savedClock[n]]
      /\ setBack' = (setBack \/ clock'[n] # clock[n])
      /\ lost' = [lost EXCEPT ![n] = @ \cup Outstanding(n)]
      /\ arriving' = [arriving EXCEPT ![n] = {}]
      /\ queue' = [queue EXCEPT ![n] = <<>>] /\ pending' = [pending EXCEPT ![n] = <<>>]
      /\ applier' = [applier EXCEPT ![n] = Idle] /\ round' = [round EXCEPT ![n] = Waiting]
      /\ UNCHANGED <<database, failures>> /\ restarts' = restarts + 1
  BY DEF Crash, SetApplier, SetRound
<1>2. Waiting \in RoundState /\ Waiting.parked = <<>> /\ Idle \in ApplierState
      /\ Held(Idle) = {} /\ Work(Idle) = {}
  BY IdleType DEF Waiting, RoundState
<1>3. <<>> \in Seq(Op) /\ Len(<<>>) = 0 /\ ToSet(<<>>) = {} /\ QueueCap \in Nat /\ MaxPending \in Nat
  BY ApplyAssumption DEF ToSet
<1>4. /\ queue' \in [Node -> Seq(Op)] /\ pending' \in [Node -> Seq(Op)]
      /\ \A m \in Node : Len(queue'[m]) <= QueueCap /\ Len(pending'[m]) <= MaxPending
  BY <1>1, <1>3 DEF ApplyTypeOK
<1>5. lost' \in [Node -> SUBSET Op]
  <2>1. Outstanding(n) \subseteq Op
    BY DEF Logged, ApplyTypeOK
  <2> QED
    BY <1>1, <2>1 DEF ApplyTypeOK
<1>6. /\ clock' \in [Node -> Clock] /\ arriving' \in [Node -> SUBSET Op]
      /\ applier' \in [Node -> ApplierState] /\ round' \in [Node -> RoundState]
      /\ setBack' \in BOOLEAN /\ restarts' \in Nat
  BY <1>1, <1>2 DEF ApplyTypeOK
<1>7. ApplyTypeOK'
  BY <1>1, <1>4, <1>5, <1>6 DEF ApplyTypeOK, database
<1>8. Local(n)
  BY <1>1 DEF Local, database, ApplyTypeOK
<1>9. Outstanding(n)' = {} /\ InHand(n)' = {}
  <2>1. /\ InHand(n)' = Held(applier'[n])
        /\ Outstanding(n)' = arriving'[n] \cup ToSet(queue'[n]) \cup ToSet(pending'[n])
                               \cup Work(applier'[n]) \cup ToSet(round'[n].parked)
    BY DEF InHand, Outstanding, Held, Work
  <2>2. /\ arriving'[n] = {} /\ queue'[n] = <<>> /\ pending'[n] = <<>>
        /\ applier'[n] = Idle /\ round'[n].parked = <<>>
    BY <1>1, <1>2 DEF ApplyTypeOK
  <2> QED
    BY <1>2, <1>3, <2>1, <2>2
<1>10. UNCHANGED <<oplog, version, row>>
  BY <1>1 DEF database
<1>11. Logged'
  <2>1. \A m \in Node \ {n} : Outstanding(m)' = Outstanding(m)
    BY <1>8, OthersStay
  <2> QED
    BY <1>9, <1>10, <2>1 DEF Logged
<1>12. VersionsLogged'
  BY <1>10 DEF VersionsLogged
<1>13. OneStamp'
  BY <1>1, <1>10 DEF OneStamp
<1>14. RowIsWinner'
  BY <1>10 DEF RowIsWinner, NoDrops
<1>15. Accounted'
  <2>1. SUFFICES ASSUME ~ setBack', NEW m \in Node, NEW o \in oplog'[m], o.key \in Rec
                 PROVE  ~ Supersedes(m, o)' \/ o \in Outstanding(m)' \/ o \in lost'[m]
    BY DEF Accounted
  <2>2. ~ setBack /\ o \in oplog[m] /\ Supersedes(m, o)' = Supersedes(m, o)
    BY <1>1, <1>10, <2>1 DEF Supersedes
  <2>3. ~ Supersedes(m, o) \/ o \in Outstanding(m) \/ o \in lost[m]
    BY <2>1, <2>2 DEF Accounted
  <2>4. CASE m = n
    <3>1. lost'[n] = lost[n] \cup Outstanding(n)
      BY <1>1 DEF ApplyTypeOK
    <3> QED
      BY <2>2, <2>3, <2>4, <3>1
  <2>5. CASE m # n
    BY <1>8, <2>2, <2>3, <2>5, OthersStay
  <2> QED
    BY <2>4, <2>5
<1>16. ClockCovers'
  <2>1. SUFFICES ASSUME ~ setBack', NEW m \in Node PROVE Covered(m)'
    BY DEF ClockCovers
  <2>2. ~ setBack /\ clock'[m] = clock[m] /\ Covered(m)
    BY <1>1, <1>8, <2>1 DEF ClockCovers, Local
  <2>3. InHand(m)' \subseteq InHand(m)
    BY <1>8, <1>9, OthersStay
  <2> QED
    BY <1>10, <2>2, <2>3 DEF Covered
<1> QED
  BY <1>7, <1>11, <1>12, <1>13, <1>14, <1>15, <1>16

-----------------------------------------------------------------------------
(***************************************************************************)
(* Each step                                                               *)
(***************************************************************************)
LEMMA OneTaskKept ==
  ASSUME ApplyTypeOK, OneTaskEach, NEW n \in Node, Applier(n) \/ SyncRound(n) \/ Crash(n)
  PROVE  OneTaskEach'
<1>1. SUFFICES /\ OneTask(applier'[n]) /\ (round'[n].on \/ round'[n].parked = <<>>)
               /\ \A m \in Node \ {n} : applier'[m] = applier[m] /\ round'[m] = round[m]
  BY DEF OneTaskEach, OneTask
<1> DEFINE x == applier[n]
<1>2. /\ x \in ApplierState /\ OneTask(x) /\ applier \in [Node -> ApplierState]
      /\ round \in [Node -> RoundState] /\ round[n] \in RoundState
      /\ round[n].on \/ round[n].parked = <<>>
  BY ApplierType DEF OneTaskEach, ApplyTypeOK
<1>3. ASSUME NEW y, SetApplier(n, y), OneTask(y), UNCHANGED round
      PROVE  /\ OneTask(applier'[n]) /\ (round'[n].on \/ round'[n].parked = <<>>)
             /\ \A m \in Node \ {n} : applier'[m] = applier[m] /\ round'[m] = round[m]
  BY <1>2, <1>3 DEF SetApplier
<1>4. OneTask(Idle)
  BY DEF Idle, OneTask
<1>5. CASE Applier(n)
  <2>1. CASE Drain(n)
    <3>1. PICK q : SetApplier(n, [Idle EXCEPT !.todo = q])
      BY <2>1 DEF Drain
    <3>2. OneTask([Idle EXCEPT !.todo = q])
      BY DEF Idle, OneTask
    <3> QED
      BY <1>3, <2>1, <3>1, <3>2 DEF Drain
  <2>2. CASE Collect(n)
    <3>1. ~ Busy(x) /\ UNCHANGED round
          /\ SetApplier(n, [x EXCEPT !.todo = Tail(@), !.group = Append(@, Head(x.todo))])
      BY <2>2 DEF Collect
    <3> QED
      BY <1>2, <1>3, <3>1 DEF Busy, OneTask, ApplierState
  <2>3. CASE Flush(n)
    <3>1. ~ Busy(x) /\ UNCHANGED round /\ SetApplier(n, [x EXCEPT !.resolving = TRUE])
      BY <2>3 DEF Flush
    <3> QED
      BY <1>2, <1>3, <3>1 DEF Busy, OneTask, ApplierState
  <2>4. CASE Resolve(n)
    <3>1. /\ UNCHANGED round
          /\ \/ SetApplier(n, [x EXCEPT !.group = Tail(@), !.entries = Append(@, Head(x.group))])
             \/ SetApplier(n, [x EXCEPT !.group = Tail(@)])
      BY <2>4 DEF Resolve
    <3> QED
      BY <1>2, <1>3, <3>1 DEF OneTask, ApplierState
  <2>5. CASE ApplyTogether(n)
    <3>1. UNCHANGED round /\ SetApplier(n, [x EXCEPT !.resolving = FALSE, !.entries = <<>>])
      BY <2>5 DEF ApplyTogether
    <3> QED
      BY <1>2, <1>3, <3>1 DEF OneTask, ApplierState
  <2>6. CASE RollBack(n)
    <3>1. /\ UNCHANGED round /\ x.resolving
          /\ SetApplier(n, [x EXCEPT !.resolving = FALSE, !.entries = <<>>, !.single = x.entries])
      BY <2>6 DEF RollBack
    <3> QED
      BY <1>2, <1>3, <3>1 DEF OneTask, ApplierState
  <2>7. CASE FindAlone(n)
    <3>1. UNCHANGED round /\ SetApplier(n, [x EXCEPT !.found = TRUE])
      BY <2>7 DEF FindAlone, history
    <3> QED
      BY <1>2, <1>3, <3>1 DEF OneTask, ApplierState
  <2>8. CASE ApplyAlone(n) \/ FailAlone(n)
    <3>1. /\ UNCHANGED round /\ x.single # <<>>
          /\ SetApplier(n, [x EXCEPT !.single = Tail(@), !.found = FALSE])
      BY <2>8 DEF ApplyAlone, FailAlone
    <3> QED
      BY <1>2, <1>3, <3>1 DEF OneTask, ApplierState
  <2>9. CASE ParkAlone(n)
    <3>1. UNCHANGED round /\ x.single # <<>> /\ SetApplier(n, [x EXCEPT !.single = Tail(@)])
      BY <2>9 DEF ParkAlone
    <3> QED
      BY <1>2, <1>3, <3>1 DEF OneTask, ApplierState
  <2>10. CASE ReadSchema(n)
    <3>1. PICK c : /\ SetApplier(n, [x EXCEPT !.todo = Tail(@), !.change = c])
                   /\ c = {} \/ \E step \in {"save", "bump"} : c = {[op |-> Head(x.todo), step |-> step]}
      BY <2>10 DEF ReadSchema
    <3>2. UNCHANGED round /\ ~ Busy(x)
      BY <2>10 DEF ReadSchema
    <3>3. \A a, b \in c : a = b
      BY <3>1
    <3> QED
      BY <1>2, <1>3, <3>1, <3>2, <3>3 DEF Busy, OneTask, ApplierState
  <2>11. CASE SaveSchema(n)
    <3>1. PICK ch \in x.change : SetApplier(n, [x EXCEPT !.change = {[ch EXCEPT !.step = "saved"]}])
      BY <2>11 DEF SaveSchema
    <3>2. UNCHANGED round /\ x.change # {}
      BY <2>11 DEF SaveSchema
    <3> QED
      BY <1>2, <1>3, <3>1, <3>2 DEF OneTask, ApplierState
  <2>12. CASE StoreSchemaVersion(n)
    <3>1. PICK p : SetApplier(n, [x EXCEPT !.change = {}, !.parked = p])
      BY <2>12 DEF StoreSchemaVersion
    <3>2. UNCHANGED round /\ x.change # {}
      BY <2>12 DEF StoreSchemaVersion
    <3> QED
      BY <1>2, <1>3, <3>1, <3>2 DEF OneTask, ApplierState
  <2>13. CASE FailSchema(n)
    <3>1. UNCHANGED round /\ SetApplier(n, [x EXCEPT !.change = {}])
      BY <2>13 DEF FailSchema
    <3> QED
      BY <1>2, <1>3, <3>1 DEF OneTask, ApplierState
  <2>14. CASE ApplierRetry(n)
    <3>1. /\ UNCHANGED round /\ x.parked # <<>>
          /\ SetApplier(n, [x EXCEPT !.parked = Tail(@)])
      BY <2>14 DEF ApplierRetry
    <3> QED
      BY <1>2, <1>3, <3>1 DEF OneTask, ApplierState
  <2> QED
    BY <1>5, <2>1, <2>2, <2>3, <2>4, <2>5, <2>6, <2>7, <2>8, <2>9, <2>10, <2>11, <2>12,
       <2>13, <2>14 DEF Applier
<1>6. CASE SyncRound(n)
  <2>1. UNCHANGED applier
    BY <1>6 DEF SyncRound, RoundRetries, RoundRetry, RoundSaves
  <2>2. PICK r : round' = [round EXCEPT ![n] = r] /\ (r.on \/ r.parked = <<>>)
    BY <1>2, <1>6 DEF SyncRound, RoundRetries, RoundRetry, RoundSaves, SetRound, Waiting, RoundState
  <2> QED
    BY <1>2, <2>1, <2>2
<1>7. CASE Crash(n)
  <2>1. applier' = [applier EXCEPT ![n] = Idle] /\ round' = [round EXCEPT ![n] = Waiting]
    BY <1>7 DEF Crash, SetApplier, SetRound
  <2> QED
    BY <1>2, <1>4, <2>1 DEF Waiting
<1> QED
  BY <1>5, <1>6, <1>7

\* Every step but a crash makes progress.
LEMMA StepProgress ==
  ASSUME IInv, NEW n \in Node,
         \/ \E r \in Rec : LocalRecord(n, r)
         \/ \E c \in Col : LocalSchema(n, c)
         \/ \E p \in Node : Ingest(n, p)
         \/ Enqueue(n) \/ Applier(n) \/ SyncRound(n)
  PROVE  Progress(n) /\ OneStamp' /\ OneTaskEach'
<1> USE DEF IInv
<1>1. ASSUME Quiet(n) PROVE Progress(n) /\ OneStamp'
  <2>1. Progress(n)
    BY <1>1, QuietProgress
  <2>2. \A o \in oplog'[n] : \E p \in Node : o \in oplog[p]
    BY <1>1 DEF Quiet
  <2> QED
    BY <1>1, <2>1, <2>2, OneStampKept DEF Quiet
<1>2. ASSUME Progress(n), UNCHANGED oplog PROVE OneStamp'
  BY <1>2 DEF OneStamp, Progress
<1>3. OneTask(applier[n])
  BY DEF OneTaskEach
<1>4. ASSUME UNCHANGED <<applier, round>> PROVE OneTaskEach'
  BY <1>4 DEF OneTaskEach, OneTask
<1>5. CASE (\E r \in Rec : LocalRecord(n, r)) \/ (\E c \in Col : LocalSchema(n, c))
  <2>1. Progress(n) /\ OneStamp' /\ UNCHANGED <<applier, round>>
    BY <1>5, LocalProgress
  <2> QED
    BY <1>4, <2>1
<1>6. CASE \E p \in Node : Ingest(n, p)
  <2>1. PICK p \in Node : Ingest(n, p)
    BY <1>6
  <2>2. Progress(n) /\ UNCHANGED <<applier, round, setBack>>
    BY <2>1, IngestProgress DEF Ingest, history
  <2>3. \A o \in oplog'[n] : \E q \in Node : o \in oplog[q]
    BY <2>1 DEF Ingest, ApplyTypeOK
  <2>4. OneStamp'
    BY <2>2, <2>3, OneStampKept DEF Progress
  <2> QED
    BY <1>4, <2>2, <2>4
<1>7. CASE Enqueue(n)
  <2>1. Quiet(n) /\ UNCHANGED <<applier, round>>
    BY <1>7, EnqueueIsQuiet DEF Enqueue
  <2> QED
    BY <1>1, <1>4, <2>1
<1>8. CASE Applier(n)
  <2>1. OneTaskEach'
    BY <1>8, OneTaskKept
  <2>2. CASE Drain(n) \/ Collect(n) \/ Flush(n) \/ Resolve(n) \/ FindAlone(n) \/ ParkAlone(n)
    BY <1>1, <2>1, <2>2, DrainIsQuiet, CollectIsQuiet, FlushIsQuiet, ResolveIsQuiet,
       FindAloneIsQuiet, ParkAloneIsQuiet
  <2>3. CASE RollBack(n) \/ FailAlone(n) \/ ReadSchema(n) \/ FailSchema(n) \/ ApplierRetry(n)
    BY <1>1, <1>3, <2>1, <2>3, RollBackIsQuiet, FailAloneIsQuiet, ReadSchemaIsQuiet,
       FailSchemaIsQuiet, ApplierRetryIsQuiet
  <2>4. CASE ApplyTogether(n) \/ ApplyAlone(n) \/ SaveSchema(n) \/ StoreSchemaVersion(n)
    <3>1. Progress(n)
      BY <2>4, ApplyTogetherProgress, ApplyAloneProgress, SaveSchemaProgress,
         StoreSchemaVersionProgress
    <3>2. UNCHANGED oplog
      BY <2>4 DEF ApplyTogether, ApplyAlone, SaveSchema, StoreSchemaVersion
    <3> QED
      BY <1>2, <2>1, <3>1, <3>2
  <2> QED
    BY <1>8, <2>2, <2>3, <2>4 DEF Applier
<1>9. CASE SyncRound(n)
  <2>1. OneTaskEach'
    BY <1>9, OneTaskKept
  <2>2. Quiet(n)
    BY <1>9, RoundRetriesIsQuiet, RoundRetryIsQuiet, RoundSavesIsQuiet DEF SyncRound
  <2> QED
    BY <1>1, <2>1, <2>2
<1> QED
  BY <1>5, <1>6, <1>7, <1>8, <1>9

LEMMA InvInit == ApplyInit => IInv
<1> SUFFICES ASSUME ApplyInit PROVE IInv
  OBVIOUS
<1>1. /\ <<>> \in Seq(Op) /\ Len(<<>>) = 0 /\ ToSet(<<>>) = {}
      /\ QueueCap \in Nat /\ MaxPending \in Nat /\ InitialSchema \in [Col -> Content \cup {0}]
  BY ApplyAssumption DEF ToSet
<1>2. /\ Zero \in Clock /\ Encode(Zero) = 0 /\ NoVersion \in Version /\ Waiting \in RoundState
  BY LogicalAssumption DEF Zero, Clock, Encode, NoVersion, Version, Waiting, RoundState
<1>3. Idle \in ApplierState /\ Work(Idle) = {} /\ Held(Idle) = {} /\ OneTask(Idle)
  <2>1. OneTask(Idle)
    BY DEF Idle, OneTask
  <2> QED
    BY <2>1, IdleType
<1>4. ApplyTypeOK
  <2>1. /\ localSeq \in [Node -> Nat] /\ oplog \in [Node -> SUBSET Op]
        /\ version \in [Node -> [Key -> Version]]
        /\ row \in [Node -> [Rec -> Payload \cup {NoRow}]]
        /\ schema \in [Node -> [Col -> Content \cup {0}]]
    BY <1>1, <1>2 DEF ApplyInit
  <2>2. /\ savedClock \in [Node -> Clock] /\ clock \in [Node -> Clock]
        /\ arriving \in [Node -> SUBSET Op] /\ lost \in [Node -> SUBSET Op]
        /\ setBack \in BOOLEAN /\ failures \in Nat /\ restarts \in Nat
        /\ applier \in [Node -> ApplierState] /\ round \in [Node -> RoundState]
    BY <1>2, <1>3 DEF ApplyInit
  <2>3. /\ queue \in [Node -> Seq(Op)] /\ pending \in [Node -> Seq(Op)]
        /\ \A n \in Node : Len(queue[n]) <= QueueCap /\ Len(pending[n]) <= MaxPending
    BY <1>1 DEF ApplyInit
  <2> QED
    BY <2>1, <2>2, <2>3 DEF ApplyTypeOK
<1>5. \A n \in Node : /\ oplog[n] = {} /\ arriving[n] = {} /\ queue[n] = <<>>
                      /\ pending[n] = <<>> /\ applier[n] = Idle /\ round[n] = Waiting
                      /\ clock[n] = Zero
                      /\ \A k \in Key : version[n][k] = NoVersion
                      /\ \A r \in Rec : row[n][r] = NoRow
  BY DEF ApplyInit
<1>6. \A n \in Node : Outstanding(n) = {} /\ InHand(n) = {}
  BY <1>1, <1>3, <1>5, OnItsWay DEF Waiting
<1>7. OneTaskEach
  BY <1>3, <1>5 DEF OneTaskEach, Waiting
<1>8. Logged /\ VersionsLogged /\ OneStamp /\ Accounted
  BY <1>5, <1>6 DEF Logged, VersionsLogged, OneStamp, Accounted
<1>9. ClockCovers
  BY <1>2, <1>5, <1>6 DEF ClockCovers, Covered, NoVersion
<1>10. RowIsWinner
  BY <1>5 DEF RowIsWinner, Key
<1> QED
  BY <1>4, <1>7, <1>8, <1>9, <1>10 DEF IInv

LEMMA InvNext == IInv /\ [ApplyNext]_applyVars => IInv'
<1> SUFFICES ASSUME IInv, [ApplyNext]_applyVars PROVE IInv'
  OBVIOUS
<1>1. ASSUME NEW n \in Node, Progress(n), OneStamp', OneTaskEach'
      PROVE  IInv'
  <2>1. ApplyTypeOK' /\ Local(n) /\ Flows(n) /\ oplog[n] \subseteq oplog'[n]
    BY <1>1 DEF Progress
  <2> QED
    BY <1>1, <2>1, LoggedKept, VersionsLoggedKept, ClockCoversKept, RowIsWinnerKept,
       AccountedKept DEF IInv
<1>2. ASSUME NEW n \in Node, Crash(n) PROVE IInv'
  <2>1. OneTaskEach'
    BY <1>2, OneTaskKept DEF IInv
  <2> QED
    BY <1>2, <2>1, CrashKeeps DEF IInv
<1>3. CASE ApplyNext
  <2>1. PICK n \in Node :
          \/ \E r \in Rec : LocalRecord(n, r)
          \/ \E c \in Col : LocalSchema(n, c)
          \/ \E p \in Node : Ingest(n, p)
          \/ Enqueue(n) \/ Applier(n) \/ SyncRound(n) \/ Crash(n)
    BY <1>3 DEF ApplyNext
  <2>2. CASE Crash(n)
    BY <1>2, <2>2
  <2>3. CASE ~ Crash(n)
    BY <1>1, <2>1, <2>3, StepProgress
  <2> QED
    BY <2>2, <2>3
<1>4. CASE UNCHANGED applyVars
  <2> USE <1>4 DEF applyVars, database, history
  <2>1. \A n \in Node : Outstanding(n)' = Outstanding(n) /\ InHand(n)' = InHand(n)
    BY DEF Outstanding, InHand
  <2>2. ApplyTypeOK'
    BY DEF IInv, ApplyTypeOK
  <2>3. OneTaskEach' /\ VersionsLogged' /\ OneStamp' /\ RowIsWinner'
    BY DEF IInv, OneTaskEach, OneTask, VersionsLogged, OneStamp, RowIsWinner, NoDrops
  <2>4. Logged' /\ ClockCovers'
    BY <2>1 DEF IInv, Logged, ClockCovers, Covered
  <2>5. Accounted'
    BY <2>1 DEF IInv, Accounted, Supersedes
  <2> QED
    BY <2>2, <2>3, <2>4, <2>5 DEF IInv
<1> QED
  BY <1>3, <1>4

LEMMA InvAlways == ApplySpec => []IInv
<1> QED
  BY InvInit, InvNext, PTL DEF ApplySpec

-----------------------------------------------------------------------------
(***************************************************************************)
(* The results                                                             *)
(***************************************************************************)
\* Nodes that have the same operations and have applied them have the same versions
\* and the same records.
LEMMA SameAlways ==
  ASSUME IInv, Settled, NoDrops, ~ setBack, \A n \in Node : lost[n] = {}
  PROVE  SameRecords
<1> USE DEF IInv
<1>1. ASSUME NEW n \in Node, NEW m \in Node, NEW r \in Rec
      PROVE  ~ Less(version[m][r], version[n][r])
  <2>1. Stamped(version[m][r]) /\ r \in Key
    BY VersionStamped DEF Key
  <2>2. CASE version[n][r] = NoVersion
    BY <2>1, <2>2 DEF NoVersion, Less, Stamped
  <2>3. CASE version[n][r] # NoVersion
    <3>1. PICK o \in oplog[n] : o.key = r /\ Stamp(o) = version[n][r]
      BY <2>1, <2>3 DEF VersionsLogged
    <3>2. o \in oplog[m] /\ o \notin Outstanding(m) /\ o \notin lost[m]
      BY <3>1 DEF Settled
    <3>3. ~ Less(version[m][r], o)
      BY <3>1, <3>2 DEF Accounted, Supersedes
    <3>4. version[n][r].hlc = o.hlc /\ version[n][r].src = o.src
      BY <3>1 DEF Stamp
    <3> QED
      BY <3>3, <3>4 DEF Less
  <2> QED
    BY <2>2, <2>3
<1>2. ASSUME NEW n \in Node, NEW m \in Node, NEW r \in Rec
      PROVE  version[n][r].hlc = version[m][r].hlc /\ version[n][r].src = version[m][r].src
  <2>1. Stamped(version[n][r]) /\ Stamped(version[m][r])
    BY VersionStamped DEF Key
  <2> QED
    BY <1>1, <2>1, LessOrder
<1>3. ASSUME NEW n \in Node, NEW r \in Rec
      PROVE  version[n][r] = NoVersion \/
             \E o \in oplog[n] : /\ o \in Op /\ o.key = r /\ Stamp(o) = version[n][r]
                                 /\ o.src = version[n][r].src /\ o.hlc = version[n][r].hlc
                                 /\ o.src # NoVersion.src
  <2>1. CASE version[n][r] # NoVersion
    <3>1. PICK o \in oplog[n] : o.key = r /\ Stamp(o) = version[n][r]
      BY <2>1 DEF VersionsLogged, Key
    <3>2. o \in Op
      BY DEF ApplyTypeOK
    <3>3. o.src # NoVersion.src
      BY <3>2, OpType, ApplyAssumption DEF NoVersion
    <3> QED
      BY <3>1, <3>2, <3>3 DEF Stamp
  <2> QED
    BY <2>1
<1>4. \A n, m \in Node : \A o \in oplog[n] : \A x \in oplog[m] :
        o.src = x.src /\ o.hlc = x.hlc => o = x
  BY DEF OneStamp
<1>5. ASSUME NEW n \in Node, NEW m \in Node, NEW r \in Rec
      PROVE  version[n][r] = version[m][r]
  BY <1>2, <1>3, <1>4
<1>6. ASSUME NEW n \in Node, NEW m \in Node, NEW r \in Rec
      PROVE  row[n][r] = row[m][r]
  <2> DEFINE v == version[n][r]
  <2>1. version[m][r] = v
    BY <1>5
  <2>2. CASE v = NoVersion \/ v.deleted
    BY <2>1, <2>2 DEF RowIsWinner
  <2>3. CASE ~ (v = NoVersion \/ v.deleted)
    <3>1. PICK o \in oplog[n] : Stamp(o) = v /\ row[n][r] = Written(o)
      BY <2>3 DEF RowIsWinner
    <3>2. PICK x \in oplog[m] : Stamp(x) = v /\ row[m][r] = Written(x)
      BY <2>1, <2>3 DEF RowIsWinner
    <3>3. o.src = x.src /\ o.hlc = x.hlc
      <4>1. Stamp(o).src = o.src /\ Stamp(o).hlc = o.hlc /\ Stamp(x).src = x.src
            /\ Stamp(x).hlc = x.hlc
        BY DEF Stamp
      <4> QED
        BY <3>1, <3>2, <4>1
    <3> QED
      BY <1>4, <3>1, <3>2, <3>3
  <2> QED
    BY <2>2, <2>3
<1> QED
  BY <1>5, <1>6 DEF SameRecords

\* No queue or set of parked operations grows beyond its bound, and the applier works
\* on what it may.
THEOREM ApplyTypes == ApplySpec => []ApplyTypeOK
<1>1. IInv => ApplyTypeOK
  BY DEF IInv
<1> QED
  BY <1>1, InvAlways, PTL

\* A record is what its version says (the three transactions of applyRecordBatch,
\* applyRecordOp and captureRecord write both or neither).
THEOREM RowsAreWinners == ApplySpec => []RowIsWinner
<1>1. IInv => RowIsWinner
  BY DEF IInv
<1> QED
  BY <1>1, InvAlways, PTL

\* A record operation in the log has reached the data, is beaten by what has, is on
\* its way, or is known to be lost.
THEOREM NothingForgotten == ApplySpec => []Accounted
<1>1. IInv => Accounted
  BY DEF IInv
<1> QED
  BY <1>1, InvAlways, PTL

\* Nodes that have the same operations and applied them have the same records, in
\* whatever order, and by whatever way, the operations arrived.
THEOREM NodesConverge == ApplySpec => []Converged
<1>1. IInv => Converged
  BY SameAlways DEF Converged
<1> QED
  BY <1>1, InvAlways, PTL

\* The version of a record never goes back, by what is applied late or written here.
THEOREM VersionsNeverGoBack == ApplySpec => VersionsAdvance
<1> DEFINE Forward == setBack' \/ \A n \in Node : \A r \in Rec : ~ Less(version'[n][r], version[n][r])
<1>1. IInv /\ [ApplyNext]_applyVars => [Forward]_applyVars
  <2> SUFFICES ASSUME IInv, ApplyNext PROVE Forward
    OBVIOUS
  <2>1. PICK n \in Node :
          \/ \E r \in Rec : LocalRecord(n, r)
          \/ \E c \in Col : LocalSchema(n, c)
          \/ \E p \in Node : Ingest(n, p)
          \/ Enqueue(n) \/ Applier(n) \/ SyncRound(n) \/ Crash(n)
    BY DEF ApplyNext
  <2>2. \A m \in Node : \A r \in Rec : ~ Less(version[m][r], version[m][r])
    BY VersionStamped DEF IInv, Less, Stamped, Key
  <2>3. CASE Crash(n)
    BY <2>2, <2>3 DEF Crash, database
  <2>4. CASE ~ Crash(n)
    <3>1. Progress(n)
      BY <2>1, <2>4, StepProgress
    <3>2. UNCHANGED setBack /\ Local(n)
          /\ (setBack \/ \A r \in Rec : ~ Less(version'[n][r], version[n][r]))
      BY <3>1 DEF Progress
    <3>3. \A m \in Node \ {n} : version'[m] = version[m]
      BY <3>2 DEF Local
    <3> QED
      BY <2>2, <3>2, <3>3
  <2> QED
    BY <2>3, <2>4
<1> QED
  BY <1>1, InvAlways, PTL DEF ApplySpec, VersionsAdvance
=============================================================================
