--------------------------- MODULE FullCopyProofs ---------------------------
(***************************************************************************)
(* What a full copy installs is one snapshot, no sequence number is used   *)
(* for two writes, and no version goes back while the client serves; what  *)
(* the client has copied is complete, and no last word of it is lost.      *)
(*                                                                         *)
(* The first half rests on IInv: what each database, file and clock is.    *)
(* The second half needs to know what each of them shows (Told): which     *)
(* last words a vector, a fence, a horizon or an acknowledgement speaks    *)
(* for, in the databases, in every snapshot, and between the two steps in  *)
(* which the seed makes one.                                               *)
(***************************************************************************)
EXTENDS FullCopy, LwwTheorems

-----------------------------------------------------------------------------
(***************************************************************************)
(* The invariant                                                           *)
(***************************************************************************)
\* A database of which the operations `ops' have been issued, and no version is
\* beyond the timestamp h.
Sound(d, ops, h) ==
  /\ d \in Database /\ IsFiniteSet(d.log) /\ d.log \subseteq ops
  /\ d.bytes # "mixed"
  /\ \A k \in Key : d.version[k].hlc <= h

Databases ==
  /\ db = [n \in Node |-> db[n]]
  /\ Sound(db[Seed], issued, Encode(clock[Seed]))
  /\ Sound(db[Client], issued, Larger(Encode(clock[Client]), db[Client].hlc))

Clocks ==
  /\ clock \in [Node -> Clock]
  /\ issued \subseteq Op /\ \A o \in issued : o.hlc <= Encode(clock[o.src])
  /\ Serving => \A k \in Key : db[Client].version[k].hlc <= Encode(clock[Client])

SeedFiles ==
  /\ made \in Seq(Snapshot) /\ Len(made) <= MaxSnapshots
  /\ \A i \in DOMAIN made : Sound(made[i].db, issued, made[i].hlc)
  /\ reading \in SUBSET Database /\ (reading # {} => Len(made) < MaxSnapshots)
  /\ cached \in DOMAIN made \cup {0} /\ onDisk \subseteq DOMAIN made

\* Where the client is in its copy, and what it knows there.
Stages ==
  /\ client \in Process /\ client.offset <= Size
  /\ incoming \in File /\ sidecar \in Id \cup {0} /\ here \in BOOLEAN
  /\ client.at \in {"open", "serving"} => here
  /\ client.at \in {"sidecar", "truncate", "chunk", "rescue", "sanitize", "close", "install"}
       => client.id \in DOMAIN made
  /\ client.at \in {"rescue", "sanitize", "close"} =>
       incoming.size = Size /\ incoming.prefix /\ incoming.of = client.id
  /\ client.at = "install" => client.bytes # "mixed"
  /\ client.at \in {"sanitize", "close", "install"} /\ here =>
       client.own.localSeq = db[Client].localSeq

\* What is put aside and replayed is the client's own.
Rescued ==
  /\ rescue \in SUBSET Rescue /\ \A x \in rescue : x.ops \subseteq Own(issued)
  /\ client.left \subseteq Own(issued) /\ client.emit \subseteq Own(issued)
  /\ client.at # "serving" => client.left = {} /\ client.emit = {}

\* No number is beyond what its node remembers; but for those that are unknown.
Numbers ==
  /\ \A o \in issued : o.src = Seed => o.seq <= db[Seed].localSeq
  /\ here => \A o \in Own(issued) \ unknown : o.seq <= db[Client].localSeq
  /\ NumbersAreFresh

History ==
  /\ doubt \subseteq Key /\ cut \subseteq Key /\ unknown \subseteq issued
  /\ events \in Nat /\ resyncs \in Nat

IInv == Databases /\ Clocks /\ SeedFiles /\ Stages /\ Rescued /\ Numbers /\ History

-----------------------------------------------------------------------------
(***************************************************************************)
(* Databases                                                               *)
(***************************************************************************)
LEMMA Nodes == Seed \in Node /\ Client \in Node /\ Seed # Client /\ Node \subseteq Nat
               /\ \A n \in Node : n # 0 /\ (n = Seed \/ n = Client)
BY CopyAssumption DEF Node

\* An operation as the tables show it.
LEMMA OpShown ==
  ASSUME NEW o \in Op
  PROVE  /\ o.src \in Node /\ o.seq \in Nat /\ o.hlc \in Nat /\ o.key \in Key
         /\ Stamp(o) \in Version /\ Stamp(o).hlc = o.hlc /\ Stamp(o).src = o.src
         /\ Stamp(o).deleted = (o.type = "delete")
         /\ Written(o) \in Payload \cup {NoRow}
         /\ \A s \in Nat \ {0} : [o EXCEPT !.seq = s] \in Op
<1>1. o.src \in Node /\ o.seq \in Nat /\ o.hlc \in Nat /\ o.key \in Key
  BY DEF Op
<1>2. Stamp(o) \in Version
  BY <1>1 DEF Stamp, Version
<1>3. Stamp(o).hlc = o.hlc /\ Stamp(o).src = o.src /\ Stamp(o).deleted = (o.type = "delete")
  BY DEF Stamp
<1>4. Written(o) \in Payload \cup {NoRow}
  BY <1>1 DEF Written, Payload
<1>5. \A s \in Nat \ {0} : [o EXCEPT !.seq = s] \in Op
  BY DEF Op
<1> QED
  BY <1>1, <1>2, <1>3, <1>4, <1>5

LEMMA VersionIs ==
  ASSUME NEW v \in Version
  PROVE  v.hlc \in Nat /\ v.src \in Nat
<1>1. v.hlc \in Nat /\ v.src \in Node \cup {0}
  BY DEF Version
<1>2. Node \cup {0} \subseteq Nat
  BY Nodes
<1> QED
  BY <1>1, <1>2, Zenon

LEMMA WithIs ==
  ASSUME NEW d \in Database, NEW o \in Op
  PROVE  /\ With(d, o) \in Database
         /\ With(d, o).log = d.log /\ With(d, o).localSeq = d.localSeq
         /\ With(d, o).hlc = d.hlc /\ With(d, o).bytes = d.bytes
         /\ With(d, o).version = [d.version EXCEPT ![o.key] = Stamp(o)]
<1>1. o.key \in Key /\ Stamp(o) \in Version /\ Written(o) \in Payload \cup {NoRow}
  BY OpShown
<1> QED
  BY <1>1 DEF With, Database

LEMMA IssuesIs ==
  ASSUME NEW d \in Database, NEW o \in Op, NEW s \in Nat \ {0}
  PROVE  /\ Issues(d, o, s) \in Database
         /\ Issues(d, o, s).log = d.log \cup {[o EXCEPT !.seq = s]}
         /\ Issues(d, o, s).localSeq = s
         /\ Issues(d, o, s).hlc = d.hlc /\ Issues(d, o, s).bytes = d.bytes
         /\ Issues(d, o, s).version = d.version
<1>1. [o EXCEPT !.seq = s] \in Op
  BY OpShown
<1> QED
  BY <1>1 DEF Issues, Database

\* What the operations of a batch leave of a version.
LEMMA AppliedIs ==
  ASSUME NEW d \in Database, NEW ops \in SUBSET Op
  PROVE  /\ Applied(d, ops) \in Database
         /\ Applied(d, ops).log = d.log /\ Applied(d, ops).localSeq = d.localSeq
         /\ Applied(d, ops).hlc = d.hlc /\ Applied(d, ops).bytes = d.bytes
         /\ Applied(d, ops).vector = d.vector /\ Applied(d, ops).fence = d.fence
         /\ \A k \in Key : \/ Applied(d, ops).version[k] = d.version[k]
                           \/ \E o \in ops : /\ o.key = k /\ Less(d.version[k], o)
                                             /\ Applied(d, ops).version[k] = Stamp(o)
<1> DEFINE wins == {o \in ops : /\ Less(d.version[o.key], o)
                                /\ ~ \E x \in ops : x.key = o.key /\ Less(o, x)}
           of(k) == CHOOSE o \in wins : o.key = k
           ver == [k \in Key |-> IF k \in KeysOf(wins) THEN Stamp(of(k)) ELSE d.version[k]]
           rows == [k \in Key |-> IF k \in KeysOf(wins) THEN Written(of(k)) ELSE d.row[k]]
<1>1. \A k \in KeysOf(wins) : of(k) \in wins /\ of(k).key = k
  BY DEF KeysOf
<1>2. wins \subseteq Op
  OBVIOUS
<1>3. ver \in [Key -> Version]
  <2>1. \A k \in KeysOf(wins) : Stamp(of(k)) \in Version
    <3> HIDE DEF wins, of
    <3> QED
      BY <1>1, <1>2, OpShown
  <2> HIDE DEF wins, of
  <2> QED
    BY <2>1 DEF Database
<1>4. rows \in [Key -> Payload \cup {NoRow}]
  <2>1. \A k \in KeysOf(wins) : Written(of(k)) \in Payload \cup {NoRow}
    <3> HIDE DEF wins, of
    <3> QED
      BY <1>1, <1>2, OpShown
  <2> HIDE DEF wins, of
  <2> QED
    BY <2>1 DEF Database
<1>5. Applied(d, ops) = [d EXCEPT !.version = ver, !.row = rows]
  BY DEF Applied, Database
<1>6. ASSUME NEW k \in Key
      PROVE  \/ ver[k] = d.version[k]
             \/ \E o \in ops : o.key = k /\ Less(d.version[k], o) /\ ver[k] = Stamp(o)
  <2>1. CASE k \in KeysOf(wins)
    <3>1. of(k) \in ops /\ of(k).key = k /\ Less(d.version[of(k).key], of(k))
      BY <1>1, <2>1
    <3>2. ver[k] = Stamp(of(k))
      BY <2>1
    <3> HIDE DEF ver, of
    <3> QED
      BY <3>1, <3>2
  <2>2. CASE k \notin KeysOf(wins)
    BY <2>2
  <2> QED
    BY <2>1, <2>2
<1> HIDE DEF ver, rows
<1>7. Applied(d, ops) \in Database /\ Applied(d, ops).version = ver
  BY <1>3, <1>4, <1>5 DEF Database
<1>8. /\ Applied(d, ops).log = d.log /\ Applied(d, ops).localSeq = d.localSeq
      /\ Applied(d, ops).hlc = d.hlc /\ Applied(d, ops).bytes = d.bytes
      /\ Applied(d, ops).vector = d.vector /\ Applied(d, ops).fence = d.fence
  BY <1>5 DEF Database
<1> QED
  BY <1>6, <1>7, <1>8

LEMMA LatestIs ==
  ASSUME NEW S \in SUBSET Nat, IsFiniteSet(S), S # {}
  PROVE  Latest(S) \in S /\ Latest(S) \in Nat /\ \A y \in S : y <= Latest(S)
<1>1. \E x \in S : \A y \in S : y <= x
  BY FiniteMaximum
<1> QED
  BY <1>1 DEF Latest

LEMMA SoundGrows ==
  ASSUME NEW d, NEW ops, NEW more, ops \subseteq more, NEW h \in Nat, NEW g \in Nat, h <= g,
         Sound(d, ops, h)
  PROVE  Sound(d, more, g)
<1>1. \A k \in Key : d.version[k].hlc \in Nat
  BY DEF Sound, Database, Version
<1> QED
  BY <1>1 DEF Sound

\* What the operations of a log, or an issued one, leave of a sound database.
LEMMA AppliedIsSound ==
  ASSUME NEW d, NEW all, NEW h \in Nat, NEW g \in Nat, h <= g, Sound(d, all, h),
         NEW ops \in SUBSET Op, \A o \in ops : o.hlc <= g
  PROVE  /\ Sound(Applied(d, ops), all, g)
         /\ \A k \in Key : ~ Less(Applied(d, ops).version[k], d.version[k])
<1>1. d \in Database /\ \A k \in Key : d.version[k] \in Version
  BY DEF Sound, Database
<1>2. \A k \in Key : d.version[k].hlc \in Nat /\ d.version[k].src \in Nat
  BY <1>1, VersionIs
<1>3. ASSUME NEW k \in Key
      PROVE  /\ Applied(d, ops).version[k].hlc <= g
             /\ ~ Less(Applied(d, ops).version[k], d.version[k])
  <2>1. CASE Applied(d, ops).version[k] = d.version[k]
    BY <1>2, <2>1 DEF Sound, Less
  <2>2. ASSUME NEW o \in ops, Less(d.version[k], o), Applied(d, ops).version[k] = Stamp(o)
        PROVE  /\ Applied(d, ops).version[k].hlc <= g
               /\ ~ Less(Applied(d, ops).version[k], d.version[k])
    <3>1. o.hlc \in Nat /\ o.src \in Nat /\ Stamp(o).hlc = o.hlc /\ Stamp(o).src = o.src
      BY OpShown, Nodes
    <3> QED
      BY <1>2, <2>2, <3>1 DEF Less
  <2> QED
    BY <1>1, <2>1, <2>2, AppliedIs
<1>4. Sound(Applied(d, ops), all, g)
  BY <1>1, <1>3, AppliedIs DEF Sound
<1> QED
  BY <1>3, <1>4

-----------------------------------------------------------------------------
(***************************************************************************)
(* What a step leaves alone                                                *)
(***************************************************************************)
LEMMA ClocksAreNumbers ==
  ASSUME Clocks
  PROVE  \A n \in Node : clock[n] \in Clock /\ Encode(clock[n]) \in Nat
BY EncodeType DEF Clocks

LEMMA DatabasesKept ==
  ASSUME Databases, UNCHANGED <<db, clock, issued>>
  PROVE  Databases'
BY DEF Databases, Sound

LEMMA ClocksKept ==
  ASSUME Clocks, UNCHANGED <<db, clock, issued>>, Serving' => Serving
  PROVE  Clocks'
BY DEF Clocks

LEMMA FilesKept ==
  ASSUME SeedFiles, UNCHANGED seedVars, issued \subseteq issued'
  PROVE  SeedFiles'
<1>1. \A i \in DOMAIN made : Sound(made[i].db, issued', made[i].hlc)
  BY DEF SeedFiles, Sound
<1> QED
  BY <1>1 DEF SeedFiles, seedVars

\* A snapshot the seed has made.
LEMMA MadeIs ==
  ASSUME SeedFiles
  PROVE  /\ DOMAIN made = 1 .. Len(made) /\ Len(made) \in Nat
         /\ \A i \in DOMAIN made : i \in Id /\ i # 0 /\ made[i] \in Snapshot
<1>1. made \in Seq(Snapshot) /\ Len(made) <= MaxSnapshots /\ MaxSnapshots \in Nat
  BY CopyAssumption DEF SeedFiles
<1>2. DOMAIN made = 1 .. Len(made) /\ Len(made) \in Nat
      /\ \A i \in 1 .. Len(made) : made[i] \in Snapshot
  BY <1>1
<1>3. \A i \in 1 .. Len(made) : i \in Id /\ i # 0
  BY <1>1, <1>2 DEF Id
<1> QED
  BY <1>2, <1>3

LEMMA StagesKept ==
  ASSUME Stages, UNCHANGED <<here, incoming, sidecar, client>>, DOMAIN made \subseteq DOMAIN made',
         \/ db'[Client].localSeq = db[Client].localSeq
         \/ client.at \notin {"sanitize", "close", "install"}
  PROVE  Stages'
BY DEF Stages

LEMMA RescuedKept ==
  ASSUME Rescued, issued \subseteq issued', rescue' \subseteq rescue,
         client'.left \subseteq client.left, client'.emit \subseteq client.left \cup client.emit,
         \/ client.at # "serving" \/ client'.at = "serving"
         \/ client'.left = {} /\ client'.emit = {}
  PROVE  Rescued'
<1>1. Own(issued) \subseteq Own(issued')
  BY DEF Own
<1> QED
  BY <1>1 DEF Rescued

LEMMA NumbersKept ==
  ASSUME Numbers, UNCHANGED <<db, issued, here, unknown>>
  PROVE  Numbers'
BY DEF Numbers, NumbersAreFresh, Known, SameWrite, Own

LEMMA HistoryKept ==
  ASSUME History, doubt' \subseteq Key, UNCHANGED <<cut, unknown, resyncs>>, issued \subseteq issued',
         events' \in Nat
  PROVE  History'
BY DEF History

\* A client that is busy with itself.
LEMMA ClientIsBusy ==
  ASSUME IInv, UNCHANGED <<db, clock, issued, seedVars>>, Serving' => Serving,
         UNCHANGED <<here, unknown>>, Stages', Rescued',
         cut' \subseteq Key, doubt' \subseteq Key, events' \in Nat, resyncs' \in Nat
  PROVE  IInv'
<1>1. Databases' /\ Clocks' /\ SeedFiles' /\ Numbers'
  BY DatabasesKept, ClocksKept, FilesKept, NumbersKept DEF IInv
<1>2. History'
  BY DEF IInv, History
<1> QED
  BY <1>1, <1>2 DEF IInv

-----------------------------------------------------------------------------
(***************************************************************************)
(* The client copies                                                       *)
(***************************************************************************)
Places == {"down", "manifest", "sidecar", "truncate", "chunk", "rescue", "sanitize",
           "close", "install", "open", "serving"}

LEMMA GoesTo ==
  ASSUME client \in Process, NEW to \in Places, Goes(to)
  PROVE  /\ client' \in Process /\ client'.at = to
         /\ client'.id = client.id /\ client'.offset = client.offset /\ client'.own = client.own
         /\ client'.bytes = client.bytes /\ client'.left = client.left /\ client'.emit = client.emit
BY DEF Goes, Process, Places

LEMMA DownIs ==
  /\ Down \in Process /\ Down.at = "down" /\ Down.id = 0 /\ Down.offset = 0
  /\ Down.left = {} /\ Down.emit = {}
<1>1. NoRescue \in Rescue
  BY DEF NoRescue, Rescue
<1> QED
  BY <1>1 DEF Down, Process

LEMMA StartStep == ASSUME IInv, Start PROVE IInv'
<1>1. PICK to \in {"open", "manifest"} : Goes(to) /\ (to = "open" => here)
  BY DEF Start
<1>2. client.at = "down" /\ UNCHANGED <<db, here, clock, seedVars, incoming, sidecar, rescue, issued, history, events>>
  BY DEF Start
<1>3. client \in Process /\ to \in Places
  BY DEF IInv, Stages, Places
<1>4. Stages'
  BY <1>1, <1>2, <1>3, GoesTo DEF IInv, Stages
<1>5. Rescued'
  BY <1>1, <1>2, <1>3, GoesTo, RescuedKept DEF IInv
<1>6. Serving' => Serving
  BY <1>1, <1>3, GoesTo DEF Serving
<1> QED
  BY <1>2, <1>4, <1>5, <1>6, ClientIsBusy DEF IInv, History, history

LEMMA GetManifestStep == ASSUME IInv, GetManifest PROVE IInv'
<1> DEFINE done   == IF sidecar = cached THEN incoming.size ELSE 0
           offset == IF done > Size THEN 0 ELSE done
           to     == IF done = 0 THEN "sidecar" ELSE "chunk"
<1>1. /\ cached # 0 /\ client.at = "manifest"
      /\ client' = [Down EXCEPT !.at = to, !.id = cached, !.offset = offset, !.pos = offset]
      /\ UNCHANGED <<db, here, clock, seedVars, sidecar, rescue, issued, history, events>>
  BY DEF GetManifest
<1>2. cached \in DOMAIN made /\ cached \in Id /\ incoming \in File /\ incoming.size \in Nat
  <2>1. cached \in DOMAIN made /\ incoming \in File
    BY <1>1 DEF IInv, SeedFiles, Stages
  <2>2. cached \in Id
    BY <2>1, MadeIs DEF IInv
  <2> QED
    BY <2>1, <2>2 DEF File
<1>3. offset \in Nat /\ offset <= Size
  BY <1>2, CopyAssumption
<1> HIDE DEF offset
<1>4. client' \in Process /\ client'.at \in {"sidecar", "chunk"} /\ client'.id = cached
      /\ client'.offset = offset /\ client'.left = {} /\ client'.emit = {}
  BY <1>1, <1>2, <1>3, DownIs DEF Process
<1>5. incoming' \in File
  <2>1. incoming' = incoming \/ incoming' = [incoming EXCEPT !.of = cached, !.size = 0, !.prefix = TRUE]
    BY DEF GetManifest
  <2>2. cached \in Id \cup {0} /\ 0 \in Nat /\ TRUE \in BOOLEAN
    BY <1>2
  <2>3. CASE incoming' = incoming
    BY <1>2, <2>3
  <2>4. CASE incoming' = [incoming EXCEPT !.of = cached, !.size = 0, !.prefix = TRUE]
    BY <1>2, <2>2, <2>4 DEF File
  <2> QED
    BY <2>1, <2>3, <2>4
<1>6. Stages'
  BY <1>1, <1>2, <1>3, <1>4, <1>5 DEF IInv, Stages, seedVars
<1>7. Rescued'
  BY <1>1, <1>4, RescuedKept DEF IInv
<1>8. Serving' => Serving
  BY <1>4 DEF Serving
<1> QED
  BY <1>1, <1>6, <1>7, <1>8, ClientIsBusy DEF IInv, History, history

LEMMA WriteSidecarStep == ASSUME IInv, WriteSidecar PROVE IInv'
<1>1. /\ client.at = "sidecar" /\ Goes("truncate") /\ sidecar' = client.id
      /\ UNCHANGED <<db, here, clock, seedVars, incoming, rescue, issued, history, events>>
  BY DEF WriteSidecar
<1>2. client \in Process /\ "truncate" \in Places /\ client.id \in DOMAIN made
  BY <1>1 DEF IInv, Stages, Places
<1>3. client.id \in Id
  BY <1>2, MadeIs DEF IInv
<1>4. Stages'
  BY <1>1, <1>2, <1>3, GoesTo DEF IInv, Stages, seedVars
<1>5. Rescued'
  BY <1>1, <1>2, GoesTo, RescuedKept DEF IInv
<1>6. Serving' => Serving
  BY <1>1, <1>2, GoesTo DEF Serving
<1> QED
  BY <1>1, <1>4, <1>5, <1>6, ClientIsBusy DEF IInv, History, history

LEMMA TruncateStep == ASSUME IInv, Truncate PROVE IInv'
<1>1. /\ client.at = "truncate" /\ Goes("chunk")
      /\ incoming' = [incoming EXCEPT !.of = client.id, !.size = 0, !.prefix = TRUE]
      /\ UNCHANGED <<db, here, clock, seedVars, sidecar, rescue, issued, history, events>>
  BY DEF Truncate
<1>2. client \in Process /\ "chunk" \in Places /\ client.id \in DOMAIN made
  BY <1>1 DEF IInv, Stages, Places
<1>3. client.id \in Id
  BY <1>2, MadeIs DEF IInv
<1>4. incoming' \in File
  BY <1>1, <1>3 DEF IInv, Stages, File
<1>5. Stages'
  BY <1>1, <1>2, <1>4, GoesTo DEF IInv, Stages, seedVars
<1>6. Rescued'
  BY <1>1, <1>2, GoesTo, RescuedKept DEF IInv
<1>7. Serving' => Serving
  BY <1>1, <1>2, GoesTo DEF Serving
<1> QED
  BY <1>1, <1>5, <1>6, <1>7, ClientIsBusy DEF IInv, History, history

\* A chunk is at least one byte, and ends inside the file.
LEMMA ChunkIs ==
  ASSUME NEW offset \in Nat, offset < Size
  PROVE  ChunkLength(offset) \in Nat \ {0} /\ offset + ChunkLength(offset) <= Size
BY CopyAssumption DEF ChunkLength

LEMMA ReceivesIs ==
  ASSUME IInv, NEW n \in Nat, Receives(n)
  PROVE  /\ client.at = "chunk" /\ client.offset < Size /\ incoming' \in File
         /\ client.offset \in Nat /\ client.pos \in Nat
         /\ UNCHANGED <<db, here, clock, seedVars, sidecar, rescue, issued, history>>
<1>1. client.offset \in Nat /\ client.pos \in Nat /\ incoming \in File
  BY DEF IInv, Stages, Process
<1>2. /\ client.at = "chunk" /\ client.offset < Size
      /\ incoming' = [incoming EXCEPT !.size = client.pos + n, !.prefix =
                    @ /\ incoming.of = client.id /\ client.pos = client.offset]
      /\ UNCHANGED <<db, here, clock, seedVars, sidecar, rescue, issued, history>>
  BY DEF Receives
<1>3. client.pos + n \in Nat
  BY <1>1
<1>4. PICK b \in BOOLEAN : incoming' = [incoming EXCEPT !.size = client.pos + n, !.prefix = b]
  BY <1>1, <1>2 DEF File
<1>5. incoming' \in File
  BY <1>1, <1>3, <1>4 DEF File
<1> QED
  BY <1>1, <1>2, <1>5

\* A client that has received something, whole chunks or part of one.
LEMMA ChunkStep ==
  ASSUME IInv, NEW n \in Nat, Receives(n), NEW offset \in Nat, offset <= Size,
         client' = [client EXCEPT !.offset = offset, !.pos = client.pos + n], events' \in Nat
  PROVE  IInv'
<1>1. /\ client.at = "chunk" /\ incoming' \in File /\ client.pos \in Nat
      /\ UNCHANGED <<db, here, clock, seedVars, sidecar, rescue, issued, history>>
  BY ReceivesIs
<1>2. client \in Process
  BY DEF IInv, Stages
<1> DEFINE place == client.pos + n
<1>3. place \in Nat /\ client' = [client EXCEPT !.offset = offset, !.pos = place]
  BY <1>1
<1> HIDE DEF place
<1>4. client' \in Process /\ client'.at = client.at /\ client'.id = client.id
      /\ client'.offset = offset /\ client'.left = client.left /\ client'.emit = client.emit
  BY <1>2, <1>3 DEF Process
<1>5. Stages'
  BY <1>1, <1>4 DEF IInv, Stages, seedVars
<1>6. Rescued'
  BY <1>1, <1>4, RescuedKept DEF IInv
<1>7. Serving' => Serving
  BY <1>4 DEF Serving
<1> QED
  BY <1>1, <1>5, <1>6, <1>7, ClientIsBusy DEF IInv, History, history

LEMMA FetchChunkStep == ASSUME IInv, FetchChunk PROVE IInv'
<1> DEFINE n == ChunkLength(client.offset)
<1>1. Receives(n) /\ UNCHANGED events
      /\ client' = [client EXCEPT !.offset = client.offset + n, !.pos = client.pos + n]
  BY DEF FetchChunk
<1>2. client.offset \in Nat /\ client.offset < Size
  BY <1>1 DEF Receives, IInv, Stages, Process
<1>3. n \in Nat /\ client.offset + n \in Nat /\ client.offset + n <= Size
  BY <1>2, ChunkIs
<1>4. events' \in Nat
  BY <1>1 DEF IInv, History
<1> HIDE DEF n
<1> QED
  BY <1>1, <1>3, <1>4, ChunkStep

LEMMA ChunkBreaksStep == ASSUME IInv, ChunkBreaks PROVE IInv'
<1>1. PICK n \in 1 .. ChunkLength(client.offset) - 1 :
        Receives(n) /\ client' = [client EXCEPT !.pos = client.pos + n]
  BY DEF ChunkBreaks
<1>2. client \in Process /\ client.offset \in Nat /\ client.offset < Size
  BY <1>1 DEF Receives, IInv, Stages, Process
<1>3. n \in Nat
  BY <1>1, <1>2, ChunkIs
<1>4. events' \in Nat
  BY DEF ChunkBreaks, Event, IInv, History
<1>5. client' = [client EXCEPT !.offset = client.offset, !.pos = client.pos + n]
  BY <1>1, <1>2 DEF Process
<1>6. client.offset <= Size
  BY <1>2, CopyAssumption
<1> QED
  BY <1>1, <1>2, <1>3, <1>4, <1>5, <1>6, ChunkStep

\* The file is given up, its WAL stays.
LEMMA RemovedIs ==
  ASSUME incoming \in File, RemoveIncoming
  PROVE  incoming' \in File /\ sidecar' = 0
BY DEF RemoveIncoming, File, NoFile

LEMMA SnapshotGoneStep == ASSUME IInv, SnapshotGone PROVE IInv'
<1>1. /\ client.at = "chunk" /\ RemoveIncoming /\ Goes("manifest")
      /\ UNCHANGED <<db, here, clock, seedVars, rescue, issued, history, events>>
  BY DEF SnapshotGone
<1>2. client \in Process /\ "manifest" \in Places /\ incoming' \in File /\ sidecar' = 0
  BY <1>1, RemovedIs DEF IInv, Stages, Places
<1>3. Stages'
  BY <1>1, <1>2, GoesTo DEF IInv, Stages
<1>4. Rescued'
  BY <1>1, <1>2, GoesTo, RescuedKept DEF IInv
<1>5. Serving' => Serving
  BY <1>1, <1>2, GoesTo DEF Serving
<1> QED
  BY <1>1, <1>3, <1>4, <1>5, ClientIsBusy DEF IInv, History, history

LEMMA VerifyStep == ASSUME IInv, Verify PROVE IInv'
<1>1. /\ client.at = "chunk"
      /\ UNCHANGED <<db, here, clock, seedVars, rescue, issued, history, events>>
  BY DEF Verify
<1>2. client \in Process /\ {"manifest", "rescue"} \subseteq Places
      /\ client.id \in DOMAIN made
  BY <1>1 DEF IInv, Stages, Places
<1>3. Stages' /\ Rescued' /\ (Serving' => Serving)
  <2>1. CASE ChecksumMatches(incoming, client.id)
    <3>1. Goes("rescue") /\ UNCHANGED <<incoming, sidecar>>
      BY <2>1 DEF Verify
    <3>2. incoming.size = Size /\ incoming.prefix /\ incoming.of = client.id
      BY <2>1 DEF ChecksumMatches
    <3>3. Stages'
      BY <1>1, <1>2, <3>1, <3>2, GoesTo DEF IInv, Stages, seedVars
    <3>4. Rescued'
      BY <1>1, <1>2, <3>1, GoesTo, RescuedKept DEF IInv
    <3>5. ~ Serving'
      BY <1>2, <3>1, GoesTo DEF Serving
    <3> QED
      BY <3>3, <3>4, <3>5
  <2>2. CASE ~ ChecksumMatches(incoming, client.id)
    <3>1. Goes("manifest") /\ RemoveIncoming
      BY <2>2 DEF Verify, Discard
    <3>2. incoming' \in File /\ sidecar' = 0
      BY <3>1, RemovedIs DEF IInv, Stages
    <3>3. Stages'
      BY <1>1, <1>2, <3>1, <3>2, GoesTo DEF IInv, Stages
    <3>4. Rescued'
      BY <1>1, <1>2, <3>1, GoesTo, RescuedKept DEF IInv
    <3>5. ~ Serving'
      BY <1>2, <3>1, GoesTo DEF Serving
    <3> QED
      BY <3>3, <3>4, <3>5
  <2> QED
    BY <2>1, <2>2
<1> QED
  BY <1>1, <1>3, ClientIsBusy DEF IInv, History, history

LEMMA WriteRescueStep == ASSUME IInv, WriteRescue PROVE IInv'
<1> DEFINE own == [ops |-> Unacked(made[client.id]), localSeq |-> db[Client].localSeq,
                   hlc |-> db[Client].hlc]
           mine == IF here THEN own ELSE NoRescue
<1>1. /\ client.at = "rescue" /\ client' = [client EXCEPT !.at = "sanitize", !.own = mine]
      /\ rescue' = IF here THEN {own} ELSE rescue
      /\ UNCHANGED <<db, here, clock, seedVars, incoming, sidecar, issued, history, events>>
  BY DEF WriteRescue
<1>2. db[Client] \in Database /\ db[Client].log \subseteq issued /\ client \in Process
  BY DEF IInv, Databases, Sound, Stages
<1>3. Unacked(made[client.id]) \subseteq Own(issued)
  BY <1>2 DEF Unacked, Own
<1>4. own \in Rescue /\ own.localSeq = db[Client].localSeq
  BY <1>2, <1>3 DEF Rescue, Database, Own, IInv, Clocks
<1>5. mine \in Rescue
  BY <1>4 DEF NoRescue, Rescue
<1>6. here => mine.localSeq = db[Client].localSeq
  BY <1>4
<1>7. own.ops \subseteq Own(issued)
  BY <1>3
<1> HIDE DEF own, mine
<1>8. client' \in Process /\ client'.at = "sanitize" /\ client'.own = mine
      /\ client'.id = client.id /\ client'.offset = client.offset
      /\ client'.left = client.left /\ client'.emit = client.emit
  BY <1>1, <1>2, <1>5 DEF Process
<1>9. Stages'
  BY <1>1, <1>6, <1>8 DEF IInv, Stages, seedVars
<1>10. Rescued'
  BY <1>1, <1>4, <1>7, <1>8 DEF IInv, Rescued
<1>11. ~ Serving'
  BY <1>8 DEF Serving
<1> QED
  BY <1>1, <1>9, <1>10, <1>11, ClientIsBusy DEF IInv, History, history

LEMMA SanitizeStep == ASSUME IInv, Sanitize PROVE IInv'
<1>1. /\ client.at = "sanitize" /\ Goes("close")
      /\ incoming' = [incoming EXCEPT !.wal = @ \cup {client.id}]
      /\ UNCHANGED <<db, here, clock, seedVars, sidecar, rescue, issued, history, events>>
  BY DEF Sanitize
<1>2. client \in Process /\ "close" \in Places /\ client.id \in DOMAIN made
  BY <1>1 DEF IInv, Stages, Places
<1>3. client.id \in Id
  BY <1>2, MadeIs DEF IInv
<1>4. incoming' \in File /\ incoming'.size = incoming.size /\ incoming'.of = incoming.of
      /\ incoming'.prefix = incoming.prefix
  BY <1>1, <1>3 DEF IInv, Stages, File
<1>5. Stages'
  BY <1>1, <1>2, <1>4, GoesTo DEF IInv, Stages, seedVars
<1>6. Rescued'
  BY <1>1, <1>2, GoesTo, RescuedKept DEF IInv
<1>7. ~ Serving'
  BY <1>1, <1>2, GoesTo DEF Serving
<1> QED
  BY <1>1, <1>5, <1>6, <1>7, ClientIsBusy DEF IInv, History, history

\* What is closed is what was verified.
LEMMA CloseIncomingStep == ASSUME IInv, CloseIncoming PROVE IInv'
<1>1. /\ client.at = "close"
      /\ incoming' = [incoming EXCEPT !.prefix = FALSE, !.wal = {}]
      /\ UNCHANGED <<db, here, clock, seedVars, sidecar, rescue, issued, history, events>>
  BY DEF CloseIncoming
<1>2. client \in Process /\ incoming.size = Size /\ incoming.prefix /\ incoming.of = client.id
  BY <1>1 DEF IInv, Stages
<1>3. PICK b \in {"whole", "stale wal"} : client' = [client EXCEPT !.at = "install", !.bytes = b]
  BY <1>2 DEF CloseIncoming
<1>4. client' \in Process /\ client'.at = "install" /\ client'.bytes # "mixed"
      /\ client'.id = client.id /\ client'.offset = client.offset /\ client'.own = client.own
      /\ client'.left = client.left /\ client'.emit = client.emit
  BY <1>2, <1>3 DEF Process
<1>5. incoming' \in File
  BY <1>1 DEF IInv, Stages, File
<1>6. Stages'
  BY <1>1, <1>4, <1>5 DEF IInv, Stages, seedVars
<1>7. Rescued'
  BY <1>1, <1>4, RescuedKept DEF IInv
<1>8. ~ Serving'
  BY <1>4 DEF Serving
<1> QED
  BY <1>1, <1>6, <1>7, <1>8, ClientIsBusy DEF IInv, History, history

LEMMA AttemptFailsStep == ASSUME IInv, AttemptFails PROVE IInv'
<1>1. /\ Goes("manifest") /\ events' \in Nat /\ client.at # "serving"
      /\ UNCHANGED <<db, here, clock, seedVars, incoming, sidecar, rescue, issued, history>>
  BY DEF AttemptFails, Event, IInv, History
<1>2. client \in Process /\ "manifest" \in Places
  BY DEF IInv, Stages, Places
<1>3. Stages'
  BY <1>1, <1>2, GoesTo DEF IInv, Stages
<1>4. Rescued'
  BY <1>1, <1>2, GoesTo, RescuedKept DEF IInv
<1>5. ~ Serving'
  BY <1>1, <1>2, GoesTo DEF Serving
<1> QED
  BY <1>1, <1>3, <1>4, <1>5, ClientIsBusy DEF IInv, History, history

LEMMA GiveUpStep == ASSUME IInv, GiveUp PROVE IInv'
<1>1. /\ events' \in Nat /\ client.at = "manifest"
      /\ UNCHANGED <<db, here, clock, seedVars, incoming, sidecar, rescue, issued, history>>
  BY DEF GiveUp, Event, IInv, History
<1>2. PICK to \in {"open", "down"} : Goes(to) /\ (to = "open" => here)
  BY DEF GiveUp
<1>3. client \in Process /\ to \in Places
  BY DEF IInv, Stages, Places
<1>4. Stages'
  BY <1>1, <1>2, <1>3, GoesTo DEF IInv, Stages
<1>5. Rescued'
  BY <1>1, <1>2, <1>3, GoesTo, RescuedKept DEF IInv
<1>6. ~ Serving'
  BY <1>2, <1>3, GoesTo DEF Serving
<1> QED
  BY <1>1, <1>4, <1>5, <1>6, ClientIsBusy DEF IInv, History, history

LEMMA CrashStep == ASSUME IInv, Crash PROVE IInv'
<1>1. /\ client' = Down /\ events' \in Nat
      /\ incoming' = incoming \/ incoming' = [incoming EXCEPT !.prefix = FALSE]
      /\ cut' = cut \cup KeysOf(client.emit)
      /\ UNCHANGED <<db, here, clock, seedVars, sidecar, rescue, issued, doubt, unknown, resyncs>>
  BY DEF Crash, Event, IInv, History
<1>2. incoming' \in File
  BY <1>1 DEF IInv, Stages, File
<1>3. cut' \subseteq Key
  <2>1. client.emit \subseteq Op
    BY DEF IInv, Stages, Process
  <2>2. KeysOf(client.emit) \subseteq Key
    BY <2>1 DEF KeysOf, Op
  <2> QED
    BY <1>1, <2>2 DEF IInv, History
<1>4. Stages'
  BY <1>1, <1>2, DownIs, CopyAssumption DEF IInv, Stages
<1>5. Rescued'
  BY <1>1, DownIs, RescuedKept DEF IInv
<1>6. ~ Serving'
  BY <1>1, DownIs DEF Serving
<1> QED
  BY <1>1, <1>3, <1>4, <1>5, <1>6, ClientIsBusy DEF IInv, History

-----------------------------------------------------------------------------
(***************************************************************************)
(* The client serves and replays                                           *)
(***************************************************************************)
\* The databases other than that of the node that moves.
LEMMA SeedKept ==
  ASSUME Databases, Clocks, issued \subseteq issued', db'[Seed] = db[Seed], clock'[Seed] = clock[Seed]
  PROVE  Sound(db'[Seed], issued', Encode(clock'[Seed]))
BY DEF Databases, Sound

LEMMA ClientKept ==
  ASSUME Databases, Clocks, issued \subseteq issued', db'[Client] = db[Client],
         clock'[Client] = clock[Client]
  PROVE  Sound(db'[Client], issued', Larger(Encode(clock'[Client]), db'[Client].hlc))
BY DEF Databases, Sound

\* The timestamps of the client.
LEMMA ClientTimes ==
  ASSUME IInv
  PROVE  /\ db[Client] \in Database /\ db[Client].hlc \in Nat /\ db[Client].localSeq \in Nat
         /\ db[Client].fence \in Nat
         /\ clock[Client] \in Clock /\ Encode(clock[Client]) \in Nat
         /\ Larger(Encode(clock[Client]), db[Client].hlc) \in Nat
         /\ Encode(clock[Client]) <= Larger(Encode(clock[Client]), db[Client].hlc)
         /\ db[Client].hlc <= Larger(Encode(clock[Client]), db[Client].hlc)
<1>1. db[Client] \in Database /\ clock[Client] \in Clock /\ Encode(clock[Client]) \in Nat
  BY Nodes, ClocksAreNumbers DEF IInv, Databases, Sound
<1>2. db[Client].hlc \in Nat /\ db[Client].localSeq \in Nat /\ db[Client].fence \in Nat
  BY <1>1 DEF Database
<1> QED
  BY <1>1, <1>2 DEF Larger

\* A later clock is a better bound.
LEMMA ClocksGrow ==
  ASSUME Clocks, clock' \in [Node -> Clock], issued' = issued,
         \A n \in Node : Encode(clock[n]) <= Encode(clock'[n])
  PROVE  \A o \in issued' : o.hlc <= Encode(clock'[o.src])
<1>1. \A n \in Node : Encode(clock[n]) \in Nat /\ Encode(clock'[n]) \in Nat
  BY EncodeType DEF Clocks
<1>2. \A o \in issued : o.hlc \in Nat /\ o.src \in Node
  BY DEF Clocks, Op
<1> QED
  BY <1>1, <1>2 DEF Clocks

LEMMA OpenStep == ASSUME IInv, Open PROVE IInv'
<1> DEFINE ca == Merge(clock[Client], ClockOf(db[Client].hlc))
           cb == Merge(ca, ClockOf(db[Client].fence))
           left == UNION {x.ops : x \in rescue}
<1>1. /\ client.at = "open" /\ clock' = [clock EXCEPT ![Client] = cb]
      /\ client' = [Down EXCEPT !.at = "serving", !.replaying = TRUE, !.left = left]
      /\ UNCHANGED <<db, here, seedVars, incoming, sidecar, rescue, issued, history, events>>
  BY DEF Open
<1>2. /\ ca \in Clock /\ Encode(clock[Client]) <= Encode(ca) /\ db[Client].hlc <= Encode(ca)
      /\ Encode(ca) \in Nat
  BY ClientTimes, ClockOfEncodes, MergeIsLarger, EncodeType
<1>3. cb \in Clock /\ Encode(ca) <= Encode(cb) /\ Encode(cb) \in Nat
  <2> HIDE DEF ca
  <2> QED
    BY <1>2, ClientTimes, ClockOfEncodes, MergeIsLarger, EncodeType
<1> HIDE DEF ca, cb
<1>4. Encode(clock[Client]) <= Encode(cb) /\ db[Client].hlc <= Encode(cb)
  BY <1>2, <1>3, ClientTimes
<1>5. clock' \in [Node -> Clock] /\ clock'[Client] = cb /\ clock'[Seed] = clock[Seed]
      /\ \A n \in Node : Encode(clock[n]) <= Encode(clock'[n])
  BY <1>1, <1>3, <1>4, Nodes, ClocksAreNumbers DEF IInv, Clocks
<1>6. Larger(Encode(clock[Client]), db[Client].hlc) <= Encode(cb)
      /\ Larger(Encode(cb), db[Client].hlc) = Encode(cb)
  BY <1>3, <1>4, ClientTimes DEF Larger
<1>7. Sound(db[Client], issued, Encode(cb))
  BY <1>3, <1>6, ClientTimes, SoundGrows DEF IInv, Databases
<1>8. Databases'
  BY <1>1, <1>5, <1>6, <1>7 DEF IInv, Databases
<1>9. Clocks'
  BY <1>1, <1>5, <1>7, ClocksGrow DEF IInv, Clocks, Sound
<1>10. left \subseteq Own(issued) /\ left \subseteq Op
  BY DEF IInv, Rescued, Own, Clocks
<1>11. client' \in Process /\ client'.at = "serving" /\ client'.left = left /\ client'.emit = {}
       /\ client'.offset = 0
  BY <1>1, <1>10, DownIs DEF Process, Down
<1>12. Stages'
  BY <1>1, <1>11, CopyAssumption DEF IInv, Stages
<1>13. Rescued'
  BY <1>1, <1>10, <1>11 DEF IInv, Rescued
<1>14. SeedFiles' /\ Numbers' /\ History'
  <2>1. UNCHANGED <<doubt, cut, unknown, resyncs>>
    BY <1>1 DEF history
  <2> QED
    BY <1>1, <2>1, FilesKept, NumbersKept, HistoryKept DEF IInv, History
<1> QED
  BY <1>8, <1>9, <1>12, <1>13, <1>14 DEF IInv

\* The client passes an operation.
LEMMA PassesIs ==
  ASSUME IInv, NEW o \in client.left, IsNext(o), Passes(o)
  PROVE  /\ client' \in Process /\ client'.at = "serving" /\ client'.offset = client.offset
         /\ client'.left \subseteq client.left /\ client'.emit = client.emit
         /\ Serving /\ o \in Own(issued) /\ o \in Op /\ o.src = Client
         /\ o.hlc <= Encode(clock[Client])
<1>1. client \in Process /\ client.at = "serving" /\ client' = [client EXCEPT !.left = @ \ {o}]
  BY DEF IInv, Stages, IsNext, Serving, Passes
<1>2. client' \in Process /\ client'.at = "serving" /\ client'.offset = client.offset
      /\ client'.left \subseteq client.left /\ client'.emit = client.emit
  BY <1>1 DEF Process
<1>3. o \in Own(issued) /\ o.src = Client /\ o \in Op
  BY DEF IInv, Rescued, Own, Clocks
<1>4. o.hlc <= Encode(clock[Client])
  BY <1>3 DEF IInv, Clocks, Own
<1> QED
  BY <1>1, <1>2, <1>3, <1>4 DEF Serving

\* A replay that changes nothing but what is left.
LEMMA PassedOver ==
  ASSUME IInv, NEW o \in client.left, IsNext(o), Passes(o), doubt' \subseteq Key, events' \in Nat,
         UNCHANGED <<db, here, clock, seedVars, incoming, sidecar, rescue, issued, cut, unknown, resyncs>>
  PROVE  IInv'
<1>1. Stages'
  BY PassesIs DEF IInv, Stages, Serving
<1>2. Rescued'
  BY PassesIs, RescuedKept DEF IInv
<1>3. Serving
  BY PassesIs
<1> QED
  BY <1>1, <1>2, <1>3, ClientIsBusy DEF IInv, History

LEMMA ReplayPassesStep ==
  ASSUME IInv, ReplayLoses \/ ReplayFenced \/ ReplayFails
  PROVE  IInv'
<1>1. CASE ReplayLoses
  <2>1. PICK o \in client.left : IsNext(o) /\ Passes(o)
    BY <1>1 DEF ReplayLoses
  <2>2. UNCHANGED <<db, here, clock, seedVars, incoming, sidecar, rescue, issued, history, events>>
    BY <1>1 DEF ReplayLoses
  <2> QED
    BY <2>1, <2>2, PassedOver DEF history, IInv, History
<1>2. CASE ReplayFenced
  <2>1. PICK o \in client.left : IsNext(o) /\ Passes(o) /\ doubt' = doubt \cup {o.key}
    BY <1>2 DEF ReplayFenced
  <2>2. UNCHANGED <<db, here, clock, seedVars, incoming, sidecar, rescue, issued, cut, unknown, resyncs, events>>
    BY <1>2 DEF ReplayFenced
  <2>3. doubt' \subseteq Key /\ events' \in Nat
    BY <2>1, <2>2, PassesIs, OpShown DEF IInv, History
  <2> QED
    BY <2>1, <2>2, <2>3, PassedOver
<1>3. CASE ReplayFails
  <2>1. PICK o \in client.left : IsNext(o) /\ Passes(o) /\ Event /\ doubt' = doubt \cup {o.key}
    BY <1>3 DEF ReplayFails
  <2>2. UNCHANGED <<db, here, clock, seedVars, incoming, sidecar, rescue, issued, cut, unknown, resyncs>>
    BY <1>3 DEF ReplayFails
  <2>3. doubt' \subseteq Key /\ events' \in Nat
    BY <2>1, PassesIs, OpShown DEF IInv, History, Event
  <2> QED
    BY <2>1, <2>2, <2>3, PassedOver
<1> QED
  BY <1>1, <1>2, <1>3

LEMMA ReplayEndsStep == ASSUME IInv, ReplayEnds PROVE IInv'
<1>1. /\ Serving /\ client' = [client EXCEPT !.replaying = FALSE] /\ rescue' = {}
      /\ UNCHANGED <<db, here, clock, seedVars, incoming, sidecar, issued, history, events>>
  BY DEF ReplayEnds
<1>2. client' \in Process /\ client'.at = client.at /\ client'.offset = client.offset
      /\ client'.left = client.left /\ client'.emit = client.emit
  BY <1>1 DEF IInv, Stages, Process
<1>3. Stages'
  BY <1>1, <1>2 DEF IInv, Stages, Serving
<1>4. Rescued'
  BY <1>1, <1>2, RescuedKept DEF IInv
<1> QED
  BY <1>1, <1>3, <1>4, ClientIsBusy DEF IInv, History, history

-----------------------------------------------------------------------------
(***************************************************************************)
(* A node issues an operation                                              *)
(***************************************************************************)
\* Its number is new.
LEMMA NewNumber ==
  ASSUME Numbers, issued \subseteq Op, NEW n \in Node, n = Client => here, NEW o \in Op, o.src = n,
         db[n].localSeq \in Nat, o.seq = db[n].localSeq + 1, issued' = issued \cup {o},
         db'[n].localSeq = o.seq, \A m \in Node \ {n} : db'[m].localSeq = db[m].localSeq,
         here' = here, unknown' = unknown
  PROVE  Numbers'
<1>1. \A x \in issued : x.seq \in Nat
  BY DEF Op
<1>2. \A x \in issued : x.src = n /\ x \notin unknown => x.seq <= db[n].localSeq
  BY Nodes DEF Numbers, Own
<1>3. \A x \in issued' : x.src = Seed => x.seq <= db'[Seed].localSeq
  <2>1. CASE n = Seed
    BY <1>1, <2>1 DEF Numbers
  <2>2. CASE n # Seed
    BY <2>2, Nodes DEF Numbers
  <2> QED
    BY <2>1, <2>2
<1>4. here' => \A x \in Own(issued') \ unknown' : x.seq <= db'[Client].localSeq
  <2>1. CASE n = Client
    BY <1>1, <1>2, <2>1 DEF Own
  <2>2. CASE n # Client
    BY <2>2, Nodes DEF Numbers, Own
  <2> QED
    BY <2>1, <2>2
<1>5. ASSUME NEW x \in issued', NEW y \in issued', Known({x}, y)
      PROVE  SameWrite(x, y) \/ x \in unknown' \/ y \in unknown'
  <2>1. x.src = y.src /\ x.seq = y.seq
    BY <1>5 DEF Known
  <2>2. CASE x = o /\ y = o
    BY <2>2 DEF SameWrite
  <2>3. CASE x = o /\ y \in issued
    BY <1>1, <1>2, <2>1, <2>3
  <2>4. CASE x \in issued /\ y = o
    BY <1>1, <1>2, <2>1, <2>4
  <2>5. CASE x \in issued /\ y \in issued
    BY <1>5, <2>5 DEF Numbers, NumbersAreFresh
  <2> QED
    BY <2>2, <2>3, <2>4, <2>5
<1>6. NumbersAreFresh'
  BY <1>5 DEF NumbersAreFresh, Known, SameWrite
<1> QED
  BY <1>3, <1>4, <1>6 DEF Numbers

\* What has been issued stays older than the clock of its node.
LEMMA NewTimestamp ==
  ASSUME Clocks, NEW o \in Op, issued' = issued \cup {o}, clock' \in [Node -> Clock],
         \A n \in Node : Encode(clock[n]) <= Encode(clock'[n]), o.hlc <= Encode(clock'[o.src])
  PROVE  issued' \subseteq Op /\ \A x \in issued' : x.hlc <= Encode(clock'[x.src])
<1>1. \A n \in Node : Encode(clock[n]) \in Nat /\ Encode(clock'[n]) \in Nat
  BY EncodeType DEF Clocks
<1>2. \A x \in issued : x.hlc \in Nat /\ x.src \in Node
  BY DEF Clocks, Op
<1> QED
  BY <1>1, <1>2 DEF Clocks

LEMMA IssuedIsSound ==
  ASSUME NEW d, NEW all, NEW h \in Nat, NEW g \in Nat, h <= g, Sound(d, all, h),
         NEW o \in Op, NEW s \in Nat \ {0}, o.hlc <= g
  PROVE  LET x == [o EXCEPT !.seq = s]
         IN  /\ Sound(Issues(d, o, s), all \cup {x}, g)
             /\ Sound(With(Issues(d, o, s), o), all \cup {x}, g)
             /\ Sound(With(d, o), all, g)
<1>1. d \in Database /\ IsFiniteSet(d.log)
  BY DEF Sound
<1> DEFINE e == Issues(d, o, s)
           x == [o EXCEPT !.seq = s]
<1>2. /\ e \in Database /\ e.log = d.log \cup {x} /\ e.bytes = d.bytes /\ e.version = d.version
  BY <1>1, IssuesIs
<1>3. IsFiniteSet(d.log \cup {x})
  BY <1>1, FS_AddElement
<1>4. \A k \in Key : d.version[k].hlc <= g
  BY SoundGrows DEF Sound
<1>5. Sound(e, all \cup {x}, g)
  BY <1>2, <1>3, <1>4 DEF Sound
<1>6. ASSUME NEW f, NEW more, Sound(f, more, g)
      PROVE  Sound(With(f, o), more, g)
  <2>1. f \in Database /\ f.version \in [Key -> Version]
    BY <1>6 DEF Sound, Database
  <2>2. /\ With(f, o) \in Database /\ With(f, o).log = f.log /\ With(f, o).bytes = f.bytes
        /\ With(f, o).version = [f.version EXCEPT ![o.key] = Stamp(o)] /\ Stamp(o).hlc = o.hlc
    BY <2>1, WithIs, OpShown
  <2> QED
    BY <1>6, <2>1, <2>2 DEF Sound
<1>7. Sound(d, all, g)
  BY SoundGrows
<1> HIDE DEF e, x
<1>8. Sound(With(e, o), all \cup {x}, g) /\ Sound(With(d, o), all, g)
  BY <1>5, <1>6, <1>7
<1> QED
  BY <1>5, <1>8 DEF e, x

\* What LaterWritesWin says of a step.
Forward == \A k \in Key : ~ Less(db'[Client].version[k], db[Client].version[k])

LEMMA ForwardKept ==
  ASSUME IInv, db'[Client].version = db[Client].version
  PROVE  Forward
<1>1. \A k \in Key : db[Client].version[k] \in Version
  BY ClientTimes DEF Database
<1>2. \A k \in Key : db[Client].version[k].hlc \in Nat /\ db[Client].version[k].src \in Nat
  BY <1>1, VersionIs
<1> QED
  BY <1>2 DEF Forward, Less

\* One version becomes that of a newer operation.
LEMMA ForwardStamped ==
  ASSUME IInv, NEW o \in Op, Less(db[Client].version[o.key], o),
         db'[Client].version = [db[Client].version EXCEPT ![o.key] = Stamp(o)]
  PROVE  Forward
<1>1. db[Client].version \in [Key -> Version]
  BY ClientTimes DEF Database
<1>2. \A k \in Key : db[Client].version[k].hlc \in Nat /\ db[Client].version[k].src \in Nat
  BY <1>1, VersionIs
<1>3. o.hlc \in Nat /\ o.src \in Nat /\ Stamp(o).hlc = o.hlc /\ Stamp(o).src = o.src /\ o.key \in Key
  BY OpShown, Nodes
<1>4. \A k \in Key : db'[Client].version[k] = IF k = o.key THEN Stamp(o) ELSE db[Client].version[k]
  BY <1>1, <1>3
<1> QED
  BY <1>2, <1>3, <1>4 DEF Forward, Less

\* How a node that serves changes its database in one transaction, issuing o or not.
LEMMA ServesStep ==
  ASSUME IInv, NEW n \in Node, n = Client => Serving, NEW d, db' = [db EXCEPT ![n] = d],
         clock' \in [Node -> Clock], \A m \in Node : Encode(clock[m]) <= Encode(clock'[m]),
         \A m \in Node \ {n} : clock'[m] = clock[m], issued \subseteq issued',
         Sound(d, issued', Encode(clock'[n])), n = Client => d.hlc = db[n].hlc
  PROVE  /\ Databases' /\ (Serving' /\ Serving => \A k \in Key :
              db'[Client].version[k].hlc <= Encode(clock'[Client]))
<1>1. db'[n] = d /\ DOMAIN db' = Node /\ \A m \in Node \ {n} : db'[m] = db[m]
  BY DEF IInv, Databases
<1>2. \A m \in Node : Encode(clock'[m]) \in Nat
  BY EncodeType
<1>3. CASE n = Seed
  <2>1. Sound(db'[Client], issued', Larger(Encode(clock'[Client]), db'[Client].hlc))
    BY <1>1, <1>3, Nodes, ClientKept DEF IInv
  <2>2. db'[Client] = db[Client] /\ clock'[Client] = clock[Client]
    BY <1>1, <1>3, Nodes
  <2> QED
    BY <1>1, <1>3, <2>1, <2>2 DEF IInv, Databases, Clocks
<1>4. CASE n = Client
  <2>1. Sound(db'[Seed], issued', Encode(clock'[Seed]))
    BY <1>1, <1>4, Nodes, SeedKept DEF IInv
  <2>2. d.hlc \in Nat /\ Larger(Encode(clock'[Client]), d.hlc) \in Nat
        /\ Encode(clock'[Client]) <= Larger(Encode(clock'[Client]), d.hlc)
    BY <1>2, <1>4, ClientTimes DEF Larger
  <2>3. Sound(d, issued', Larger(Encode(clock'[Client]), d.hlc))
    BY <1>2, <1>4, <2>2, SoundGrows
  <2> QED
    BY <1>1, <1>4, <2>1, <2>3 DEF Databases, Sound
<1> QED
  BY <1>3, <1>4, Nodes

LEMMA SeedTimes ==
  ASSUME IInv
  PROVE  /\ db[Seed] \in Database /\ db[Seed].localSeq \in Nat
         /\ clock[Seed] \in Clock /\ Encode(clock[Seed]) \in Nat
         /\ Sound(db[Seed], issued, Encode(clock[Seed]))
<1>1. db[Seed] \in Database /\ clock[Seed] \in Clock /\ Encode(clock[Seed]) \in Nat
  BY Nodes, ClocksAreNumbers DEF IInv, Databases, Sound
<1> QED
  BY <1>1 DEF Database, IInv, Databases

\* A node that serves has seen what it shows.
LEMMA ServingIsSound ==
  ASSUME IInv, NEW n \in Node, n = Client => Serving
  PROVE  Sound(db[n], issued, Encode(clock[n])) /\ Encode(clock[n]) \in Nat
         /\ clock[n] \in Clock /\ db[n].localSeq \in Nat
         /\ \A k \in Key : db[n].version[k].hlc <= Encode(clock[n])
<1>1. CASE n = Seed
  BY <1>1, SeedTimes DEF Sound
<1>2. CASE n = Client
  BY <1>2, ClientTimes DEF IInv, Databases, Clocks, Sound
<1> QED
  BY <1>1, <1>2, Nodes

LEMMA LocalWriteStep ==
  ASSUME IInv, NEW n \in Node, LocalWrite(n)
  PROVE  IInv' /\ (Serving => Forward)
<1> DEFINE c == Tick(clock[n], 0)
           New(w) == [src |-> n, seq |-> db[n].localSeq + 1, hlc |-> Encode(c),
                      type |-> w.type, key |-> w.key]
<1>1. (n = Client => Serving) /\ clock' = [clock EXCEPT ![n] = c]
      /\ UNCHANGED <<seedVars, clientVars, history, events>>
  BY DEF LocalWrite
<1>2. /\ Sound(db[n], issued, Encode(clock[n])) /\ Encode(clock[n]) \in Nat
      /\ clock[n] \in Clock /\ db[n].localSeq \in Nat
      /\ \A k \in Key : db[n].version[k].hlc <= Encode(clock[n])
  BY <1>1, ServingIsSound
<1>3. c \in Clock /\ Encode(clock[n]) < Encode(c) /\ Encode(c) \in Nat
  BY <1>2, TickIncreases, EncodeType
<1>4. clock'[n] = c /\ clock' \in [Node -> Clock]
  BY <1>1, <1>3 DEF IInv, Clocks
<1> HIDE DEF c
<1>5. PICK w \in UserWrites[n] :
        /\ db' = [db EXCEPT ![n] = With(Issues(@, New(w), New(w).seq), New(w))]
        /\ issued' = issued \cup {New(w)}
  BY <1>4 DEF LocalWrite
<1> DEFINE o == New(w)
           s == db[n].localSeq + 1
           d == With(Issues(db[n], o, s), o)
<1>6. w.type \in {"upsert", "delete"} /\ w.key \in Key
  BY CopyAssumption
<1>7. s \in Nat \ {0}
  BY <1>2
<1>8. o \in Op /\ o.src = n /\ o.seq = s /\ o.hlc = Encode(c) /\ [o EXCEPT !.seq = s] = o
  BY <1>3, <1>6, <1>7 DEF Op
<1>9. db' = [db EXCEPT ![n] = d] /\ issued' = issued \cup {o} /\ db[n] \in Database
  BY <1>2, <1>5, <1>8 DEF IInv, Databases, Sound
<1>10. s = db[n].localSeq + 1
  OBVIOUS
<1> HIDE DEF o, s
<1>11. Sound(d, issued', Encode(c))
  BY <1>2, <1>3, <1>7, <1>8, <1>9, IssuedIsSound
<1>12. d.hlc = db[n].hlc /\ d.localSeq = s /\ d.version = [db[n].version EXCEPT ![o.key] = Stamp(o)]
  <2> DEFINE e == Issues(db[n], o, s)
  <2>1. e \in Database /\ e.localSeq = s /\ e.hlc = db[n].hlc /\ e.version = db[n].version
    BY <1>7, <1>8, <1>9, IssuesIs
  <2> HIDE DEF e
  <2>2. /\ With(e, o).localSeq = e.localSeq /\ With(e, o).hlc = e.hlc
        /\ With(e, o).version = [e.version EXCEPT ![o.key] = Stamp(o)]
    BY <1>8, <2>1, WithIs
  <2> QED
    BY <2>1, <2>2 DEF e
<1> HIDE DEF d
<1>13. \A m \in Node : Encode(clock[m]) <= Encode(clock'[m]) /\ (m # n => clock'[m] = clock[m])
  <2>1. \A m \in Node : Encode(clock[m]) \in Nat
    BY ClocksAreNumbers DEF IInv
  <2> QED
    BY <1>1, <1>2, <1>3, <1>4, <2>1 DEF IInv, Clocks
<1>14. here' = here /\ client' = client /\ unknown' = unknown /\ doubt' = doubt
       /\ UNCHANGED <<incoming, sidecar, rescue, cut, resyncs, events>> /\ issued \subseteq issued'
  BY <1>1, <1>9 DEF clientVars, history
<1>15. Databases' /\ (Serving' /\ Serving => \A k \in Key :
            db'[Client].version[k].hlc <= Encode(clock'[Client]))
  BY <1>1, <1>4, <1>9, <1>11, <1>12, <1>13, <1>14, ServesStep
<1>16. Clocks'
  <2>1. issued' \subseteq Op /\ \A x \in issued' : x.hlc <= Encode(clock'[x.src])
    <3>1. o.hlc <= Encode(clock'[o.src])
      BY <1>3, <1>4, <1>8
    <3> QED
      BY <1>4, <1>8, <1>9, <1>13, <3>1, NewTimestamp DEF IInv
  <2>2. Serving' = Serving
    BY <1>14 DEF Serving
  <2> QED
    BY <1>4, <1>15, <2>1, <2>2 DEF Clocks
<1>17. db'[n] = d /\ \A m \in Node \ {n} : db'[m] = db[m]
  BY <1>9 DEF IInv, Databases
<1>18. Numbers'
  <2>1. n = Client => here
    BY <1>1 DEF Serving, IInv, Stages
  <2>2. db'[n].localSeq = o.seq /\ o.seq = db[n].localSeq + 1 /\ o.src = n
        /\ \A m \in Node \ {n} : db'[m].localSeq = db[m].localSeq
    BY <1>8, <1>10, <1>12, <1>17
  <2> QED
    BY <1>2, <1>8, <1>9, <1>14, <2>1, <2>2, NewNumber DEF IInv, Clocks
<1>19. Stages'
  <2>1. db'[Client].localSeq = db[Client].localSeq \/ client.at = "serving"
    BY <1>1, <1>17, Nodes DEF Serving
  <2> QED
    BY <1>1, <1>14, <2>1, StagesKept DEF IInv, seedVars
<1>20. Rescued' /\ SeedFiles' /\ History'
  BY <1>1, <1>14, RescuedKept, FilesKept, HistoryKept DEF IInv, History
<1>21. Serving => Forward
  <2>1. CASE n = Client
    <3>1. Less(db[Client].version[o.key], o)
      <4>1. db[Client].version \in [Key -> Version] /\ o.key \in Key
        BY <1>8, <1>9, <2>1, OpShown DEF Database
      <4>2. db[Client].version[o.key].hlc \in Nat
        BY <4>1, VersionIs
      <4> QED
        BY <1>2, <1>3, <1>8, <2>1, <4>1, <4>2 DEF Less
    <3> QED
      BY <1>8, <1>12, <1>17, <2>1, <3>1, ForwardStamped
  <2>2. CASE n # Client
    BY <1>17, <2>2, Nodes, ForwardKept
  <2> QED
    BY <2>1, <2>2
<1> QED
  BY <1>15, <1>16, <1>18, <1>19, <1>20, <1>21 DEF IInv

-----------------------------------------------------------------------------
(***************************************************************************)
(* The client replays an operation, or issues it again                     *)
(***************************************************************************)
\* Databases and clocks when the client replaces its database by d.
LEMMA ReplayChanges ==
  ASSUME IInv, Serving, Serving', NEW d, db' = [db EXCEPT ![Client] = d], UNCHANGED clock,
         issued \subseteq issued', issued' \subseteq Op,
         \A o \in issued' : o.hlc <= Encode(clock[o.src]),
         Sound(d, issued', Encode(clock[Client])), d.hlc = db[Client].hlc
  PROVE  Databases' /\ Clocks' /\ db'[Client] = d /\ db'[Seed] = db[Seed]
<1>1. /\ clock' \in [Node -> Clock]
      /\ \A m \in Node : Encode(clock[m]) <= Encode(clock'[m])
      /\ \A m \in Node \ {Client} : clock'[m] = clock[m]
  BY ClocksAreNumbers DEF IInv, Clocks
<1>2. Databases' /\ \A k \in Key : db'[Client].version[k].hlc <= Encode(clock'[Client])
  BY <1>1, Nodes, ServesStep
<1>3. db'[Client] = d /\ db'[Seed] = db[Seed]
  BY Nodes DEF IInv, Databases
<1> QED
  BY <1>1, <1>2, <1>3 DEF Clocks

LEMMA ReplayIssues ==
  ASSUME IInv, Serving, NEW o \in Op, o.src = Client, o.hlc <= Encode(clock[Client]),
         NEW s, s = db[Client].localSeq + 1, issued' = issued \cup {[o EXCEPT !.seq = s]},
         NEW d, db' = [db EXCEPT ![Client] = d], Sound(d, issued', Encode(clock[Client])),
         d.hlc = db[Client].hlc, d.localSeq = s,
         UNCHANGED <<here, clock, seedVars, incoming, sidecar, rescue, history, events>>,
         client' \in Process, client'.at = "serving", client'.offset = client.offset,
         client'.left \subseteq client.left, client'.emit \subseteq client.left \cup client.emit
  PROVE  IInv'
<1> DEFINE x == [o EXCEPT !.seq = s]
<1>1. s \in Nat \ {0} /\ db[Client].localSeq \in Nat
  BY ClientTimes
<1>2. x \in Op /\ x.src = Client /\ x.hlc = o.hlc /\ x.seq = s
  BY <1>1 DEF Op
<1> HIDE DEF x
<1>3. issued' = issued \cup {x} /\ issued' \subseteq Op
      /\ \A y \in issued' : y.hlc <= Encode(clock[y.src])
  BY <1>2 DEF x, IInv, Clocks
<1>4. Serving' /\ here /\ UNCHANGED <<doubt, cut, unknown, resyncs>>
  BY DEF Serving, IInv, Stages, history
<1>5. Databases' /\ Clocks' /\ db'[Client] = d /\ db'[Seed] = db[Seed]
  BY <1>3, <1>4, ReplayChanges
<1>6. Numbers'
  <2>1. \A m \in Node \ {Client} : db'[m].localSeq = db[m].localSeq
    BY <1>5, Nodes
  <2> QED
    BY <1>1, <1>2, <1>3, <1>4, <1>5, <2>1, Nodes, NewNumber DEF IInv, Clocks
<1>7. Stages'
  BY <1>4 DEF IInv, Stages, seedVars
<1>8. Rescued'
  BY <1>3, RescuedKept DEF IInv
<1>9. SeedFiles' /\ History'
  BY <1>3, <1>4, FilesKept, HistoryKept DEF IInv, History
<1> QED
  BY <1>5, <1>6, <1>7, <1>8, <1>9 DEF IInv

LEMMA ReplayRecordStep ==
  ASSUME IInv, ReplayRecord
  PROVE  IInv' /\ Forward
<1>1. PICK o \in client.left :
        /\ IsNext(o) /\ Supersedes(Client, o) /\ Passes(o)
        /\ db' = [db EXCEPT ![Client] = With(Issues(@, o, @.localSeq + 1), o)]
        /\ issued' = issued \cup {[o EXCEPT !.seq = db'[Client].localSeq]}
  BY DEF ReplayRecord
<1>2. UNCHANGED <<here, clock, seedVars, incoming, sidecar, rescue, history, events>>
  BY DEF ReplayRecord
<1>3. /\ client' \in Process /\ client'.at = "serving" /\ client'.offset = client.offset
      /\ client'.left \subseteq client.left /\ client'.emit = client.emit
      /\ Serving /\ o \in Op /\ o.src = Client /\ o.hlc <= Encode(clock[Client])
  BY <1>1, PassesIs
<1> DEFINE s == db[Client].localSeq + 1
           e == Issues(db[Client], o, s)
           d == With(e, o)
<1>4. s \in Nat \ {0} /\ db[Client] \in Database
  BY ClientTimes
<1>5. db' = [db EXCEPT ![Client] = d] /\ db'[Client] = d /\ s = db[Client].localSeq + 1
  BY <1>1, Nodes DEF IInv, Databases
<1> HIDE DEF s
<1>6. e \in Database /\ e.localSeq = s /\ e.hlc = db[Client].hlc /\ e.version = db[Client].version
  BY <1>3, <1>4, IssuesIs
<1>7. Sound(d, issued \cup {[o EXCEPT !.seq = s]}, Encode(clock[Client]))
  BY <1>3, <1>4, Nodes, ServingIsSound, IssuedIsSound
<1> HIDE DEF e
<1>8. d.localSeq = s /\ d.hlc = db[Client].hlc
      /\ d.version = [db[Client].version EXCEPT ![o.key] = Stamp(o)]
  BY <1>3, <1>6, WithIs
<1> HIDE DEF d
<1>9. issued' = issued \cup {[o EXCEPT !.seq = s]}
  BY <1>1, <1>5, <1>8
<1>10. IInv'
  BY <1>2, <1>3, <1>5, <1>7, <1>8, <1>9, ReplayIssues
<1>11. Forward
  BY <1>1, <1>3, <1>5, <1>8, ForwardStamped DEF Supersedes
<1> QED
  BY <1>10, <1>11

LEMMA ReplaySchemaStep ==
  ASSUME IInv, ReplaySchema
  PROVE  IInv' /\ Forward
<1>1. PICK o \in client.left :
        /\ IsNext(o) /\ Supersedes(Client, o)
        /\ db' = [db EXCEPT ![Client] = With(@, o)]
        /\ client' = [client EXCEPT !.left = @ \ {o}, !.emit = {o}]
  BY DEF ReplaySchema
<1>2. UNCHANGED <<here, clock, seedVars, incoming, sidecar, rescue, issued, history, events>>
  BY DEF ReplaySchema
<1>3. client \in Process /\ client.at = "serving" /\ o \in Own(issued) /\ o \in Op /\ o.src = Client
      /\ o.hlc <= Encode(clock[Client])
  BY <1>1 DEF IInv, Stages, Rescued, IsNext, Serving, Own, Clocks
<1>4. client' \in Process /\ client'.at = "serving" /\ client'.offset = client.offset
      /\ client'.left \subseteq client.left /\ client'.emit = {o}
  BY <1>1, <1>3 DEF Process
<1> DEFINE d == With(db[Client], o)
<1>5. db' = [db EXCEPT ![Client] = d] /\ db[Client] \in Database
  BY <1>1, ClientTimes
<1>6. d.localSeq = db[Client].localSeq /\ d.hlc = db[Client].hlc
      /\ d.version = [db[Client].version EXCEPT ![o.key] = Stamp(o)]
  BY <1>3, <1>5, WithIs
<1>7. Sound(d, issued, Encode(clock[Client]))
  <2>1. Sound(db[Client], issued, Encode(clock[Client])) /\ Encode(clock[Client]) \in Nat
    BY <1>3, Nodes, ServingIsSound DEF Serving
  <2>2. 1 \in Nat \ {0} /\ Encode(clock[Client]) <= Encode(clock[Client])
    BY <2>1
  <2> QED
    BY <1>3, <2>1, <2>2, IssuedIsSound
<1> HIDE DEF d
<1>8. Serving /\ Serving' /\ UNCHANGED <<doubt, cut, unknown, resyncs>>
  BY <1>2, <1>3, <1>4 DEF Serving, history
<1>9. Databases' /\ Clocks' /\ db'[Client] = d /\ db'[Seed] = db[Seed]
  BY <1>2, <1>5, <1>6, <1>7, <1>8, ReplayChanges DEF IInv, Clocks
<1>10. Numbers'
  BY <1>2, <1>6, <1>8, <1>9 DEF IInv, Numbers, NumbersAreFresh, Known, SameWrite, Own
<1>11. Stages'
  BY <1>2, <1>3, <1>4 DEF IInv, Stages, seedVars
<1>12. Rescued'
  BY <1>1, <1>2, <1>3, <1>4, RescuedKept DEF IInv
<1>13. SeedFiles' /\ History'
  BY <1>2, <1>8, FilesKept, HistoryKept DEF IInv, History
<1>14. Forward
  BY <1>1, <1>3, <1>6, <1>9, ForwardStamped DEF Supersedes
<1> QED
  BY <1>9, <1>10, <1>11, <1>12, <1>13, <1>14 DEF IInv

LEMMA ReplayEmitStep ==
  ASSUME IInv, ReplayEmit
  PROVE  IInv' /\ (Serving => Forward)
<1>1. PICK o \in client.emit :
        /\ db' = [db EXCEPT ![Client] = Issues(@, o, @.localSeq + 1)]
        /\ issued' = issued \cup {[o EXCEPT !.seq = db'[Client].localSeq]}
  BY DEF ReplayEmit
<1>2. client' = [client EXCEPT !.emit = {}]
      /\ UNCHANGED <<here, clock, seedVars, incoming, sidecar, rescue, history, events>>
  BY DEF ReplayEmit
<1>3. client \in Process /\ o \in Op /\ o.src = Client /\ o.hlc <= Encode(clock[Client])
  BY <1>1 DEF IInv, Stages, Rescued, Own, Clocks
<1>4. Serving /\ client.at = "serving"
  BY <1>1 DEF IInv, Rescued, Serving
<1>5. /\ client' \in Process /\ client'.at = "serving" /\ client'.offset = client.offset
      /\ client'.left \subseteq client.left /\ client'.emit \subseteq client.left \cup client.emit
  BY <1>2, <1>3, <1>4 DEF Process
<1> DEFINE s == db[Client].localSeq + 1
           d == Issues(db[Client], o, s)
<1>6. s \in Nat \ {0} /\ db[Client] \in Database
  BY ClientTimes
<1>7. db' = [db EXCEPT ![Client] = d] /\ db'[Client] = d /\ s = db[Client].localSeq + 1
  BY <1>1, Nodes DEF IInv, Databases
<1> HIDE DEF s
<1>8. d.localSeq = s /\ d.hlc = db[Client].hlc /\ d.version = db[Client].version
  BY <1>3, <1>6, IssuesIs
<1>9. Sound(d, issued \cup {[o EXCEPT !.seq = s]}, Encode(clock[Client]))
  BY <1>3, <1>4, <1>6, Nodes, ServingIsSound, IssuedIsSound
<1> HIDE DEF d
<1>10. issued' = issued \cup {[o EXCEPT !.seq = s]}
  BY <1>1, <1>7, <1>8
<1>11. IInv'
  BY <1>2, <1>3, <1>4, <1>5, <1>7, <1>8, <1>9, <1>10, ReplayIssues
<1>12. Forward
  BY <1>7, <1>8, ForwardKept
<1> QED
  BY <1>11, <1>12

-----------------------------------------------------------------------------
(***************************************************************************)
(* The client stops, loses its disk, or installs a copy                    *)
(***************************************************************************)
LEMMA StopStep == ASSUME IInv, Stop PROVE IInv'
<1>1. /\ client' = Down /\ resyncs' = resyncs + 1
      /\ db' = [db EXCEPT ![Client].hlc = Encode(clock[Client])]
      /\ UNCHANGED <<here, clock, seedVars, incoming, sidecar, rescue, issued, doubt, cut, unknown, events>>
  BY DEF Stop
<1>2. db[Client] \in Database /\ Encode(clock[Client]) \in Nat
  BY ClientTimes
<1> DEFINE h == Encode(clock[Client])
           d == [db[Client] EXCEPT !.hlc = h]
<1>3. db'[Client] = d /\ db'[Seed] = db[Seed] /\ DOMAIN db' = Node
  BY <1>1, Nodes DEF IInv, Databases
<1> HIDE DEF h
<1>4. d \in Database /\ d.log = db[Client].log /\ d.version = db[Client].version
      /\ d.bytes = db[Client].bytes /\ d.localSeq = db[Client].localSeq /\ d.hlc = h
  BY <1>2 DEF h, Database
<1> HIDE DEF d
<1>5. Databases'
  <2>1. Sound(db[Client], issued, h) /\ Larger(h, h) = h
    <3>1. Serving
      BY DEF Stop, Loops
    <3> QED
      BY <1>2, <3>1, Nodes, ServingIsSound DEF h, Larger
  <2>2. Sound(d, issued, Larger(h, d.hlc))
    BY <1>4, <2>1 DEF Sound
  <2>3. Sound(db'[Seed], issued', Encode(clock'[Seed]))
    BY <1>1, <1>3, SeedKept DEF IInv
  <2> QED
    BY <1>1, <1>3, <2>2, <2>3 DEF Databases, h
<1>6. Clocks'
  BY <1>1, DownIs DEF IInv, Clocks, Serving
<1>7. Numbers'
  BY <1>1, <1>3, <1>4 DEF IInv, Numbers, NumbersAreFresh, Known, SameWrite, Own
<1>8. Stages'
  BY <1>1, DownIs, CopyAssumption DEF IInv, Stages
<1>9. Rescued'
  BY <1>1, DownIs, RescuedKept DEF IInv
<1>10. SeedFiles' /\ History'
  BY <1>1, FilesKept DEF IInv, History
<1> QED
  BY <1>5, <1>6, <1>7, <1>8, <1>9, <1>10 DEF IInv

LEMMA EmptyIs ==
  /\ Empty \in Database /\ Empty.hlc = 0 /\ Empty.localSeq = 0
  /\ \A ops : \A h \in Nat : Sound(Empty, ops, h)
<1>1. NoVersion \in Version /\ NoVersion.hlc = 0
  BY DEF NoVersion, Version
<1>2. Empty \in Database /\ Empty.hlc = 0 /\ Empty.localSeq = 0
  BY <1>1 DEF Empty, Database, Vector
<1>3. IsFiniteSet(Empty.log) /\ Empty.log = {} /\ Empty.bytes = "whole"
  BY FS_EmptySet DEF Empty
<1>4. \A k \in Key : Empty.version[k].hlc = 0
  BY <1>1 DEF Empty
<1> QED
  BY <1>2, <1>3, <1>4 DEF Sound

LEMMA LoseDiskStep == ASSUME IInv, LoseDisk PROVE IInv'
<1>1. /\ client.at = "down" /\ events' = MaxEvents
      /\ here' = FALSE /\ db' = [db EXCEPT ![Client] = Empty]
      /\ incoming' = NoFile /\ sidecar' = 0 /\ rescue' = {}
      /\ doubt' = doubt \cup KeysOf(Own(issued))
      /\ UNCHANGED <<clock, seedVars, client, issued, cut, unknown, resyncs>>
  BY DEF LoseDisk
<1>2. db'[Client] = Empty /\ db'[Seed] = db[Seed] /\ DOMAIN db' = Node
  BY <1>1, Nodes DEF IInv, Databases
<1>3. Databases'
  <2>1. Sound(Empty, issued, Larger(Encode(clock[Client]), 0))
    <3>1. Larger(Encode(clock[Client]), 0) \in Nat
      BY ClientTimes DEF Larger
    <3> QED
      BY <3>1, EmptyIs
  <2>2. Sound(db'[Seed], issued', Encode(clock'[Seed]))
    BY <1>1, <1>2, SeedKept DEF IInv
  <2> QED
    BY <1>1, <1>2, <2>1, <2>2, EmptyIs DEF Databases
<1>4. Clocks'
  BY <1>1 DEF IInv, Clocks, Serving
<1>5. Numbers'
  BY <1>1, <1>2 DEF IInv, Numbers, NumbersAreFresh, Known, SameWrite, Own
<1>6. Stages'
  <2>1. NoFile \in File
    BY DEF NoFile, File
  <2> QED
    BY <1>1, <2>1 DEF IInv, Stages
<1>7. Rescued'
  BY <1>1, RescuedKept DEF IInv
<1>8. SeedFiles'
  BY <1>1, FilesKept DEF IInv
<1>9. History'
  <2>1. KeysOf(Own(issued)) \subseteq Key
    BY OpShown DEF KeysOf, Own, IInv, Clocks
  <2> QED
    BY <1>1, <2>1, CopyAssumption DEF IInv, History
<1> QED
  BY <1>3, <1>4, <1>5, <1>6, <1>7, <1>8, <1>9 DEF IInv

\* What the node continues from: nothing it or the copy knows is beyond it.
LEMMA OwnSeqIs ==
  ASSUME NEW m \in Snapshot, IsFiniteSet(m.db.log), NEW own \in Rescue
  PROVE  /\ OwnSeq(m, own) \in Nat /\ own.localSeq <= OwnSeq(m, own)
         /\ \A o \in m.db.log : o.src = Client => o.seq <= OwnSeq(m, own)
<1> DEFINE mine == Own(m.db.log)
           nums == {o.seq : o \in mine}
           S == {own.localSeq, m.vector[Client]} \cup nums
<1>1. m.db \in Database /\ m.vector \in Vector /\ own.localSeq \in Nat
  BY DEF Snapshot, Rescue
<1>2. m.vector[Client] \in Nat /\ m.db.log \subseteq Op
  BY <1>1, Nodes DEF Vector, Database
<1>3. mine \subseteq Op /\ IsFiniteSet(mine)
  BY <1>2, FS_Subset DEF Own
<1>4. IsFiniteSet(nums)
  <2> HIDE DEF mine
  <2> QED
    BY <1>3, FiniteNumbers
<1>5. nums \subseteq Nat
  BY <1>3, OpShown
<1>6. IsFiniteSet(S)
  <2>1. IsFiniteSet({own.localSeq, m.vector[Client]})
    <3>1. IsFiniteSet({own.localSeq}) /\ IsFiniteSet({m.vector[Client]})
      BY FS_Singleton
    <3>2. {own.localSeq, m.vector[Client]} = {own.localSeq} \cup {m.vector[Client]}
      OBVIOUS
    <3> QED
      BY <3>1, <3>2, FS_Union
  <2> HIDE DEF nums
  <2> QED
    BY <1>4, <2>1, FS_Union
<1>7. S \in SUBSET Nat /\ S # {} /\ own.localSeq \in S /\ nums \subseteq S
  <2> HIDE DEF nums
  <2> QED
    BY <1>1, <1>2, <1>5
<1>8. OwnSeq(m, own) = Latest(S)
  BY DEF OwnSeq
<1> HIDE DEF S
<1>9. Latest(S) \in Nat /\ \A y \in S : y <= Latest(S)
  BY <1>6, <1>7, LatestIs
<1>10. \A o \in m.db.log : o.src = Client => o.seq \in S
  BY <1>7 DEF Own
<1> QED
  BY <1>7, <1>8, <1>9, <1>10

LEMMA InstallStep == ASSUME IInv, Install PROVE IInv'
<1> DEFINE m == made[client.id]
           d == Installed(m, client.own, client.bytes)
           keep == IF here THEN {} ELSE Own(issued) \ m.db.log
<1>1. /\ client.at = "install" /\ Goes("open")
      /\ db' = [db EXCEPT ![Client] = d] /\ here' = TRUE
      /\ incoming' = [NoFile EXCEPT !.wal = incoming.wal] /\ sidecar' = 0
      /\ unknown' = unknown \cup keep
      /\ UNCHANGED <<clock, seedVars, rescue, issued, doubt, cut, resyncs, events>>
  BY DEF Install
<1>2. client \in Process /\ client.own \in Rescue /\ client.bytes # "mixed"
      /\ client.bytes \in {"whole", "mixed", "stale wal"} /\ client.id \in DOMAIN made
      /\ (here => client.own.localSeq = db[Client].localSeq)
  BY <1>1 DEF IInv, Stages, Process
<1>3. m \in Snapshot /\ Sound(m.db, issued, m.hlc)
  BY <1>2, MadeIs DEF IInv, SeedFiles
<1>4. m.db \in Database /\ m.vector \in Vector /\ m.hlc \in Nat /\ IsFiniteSet(m.db.log)
  BY <1>3 DEF Snapshot, Sound
<1> HIDE DEF m
<1> DEFINE s == OwnSeq(m, client.own)
           h == OwnHlc(m, client.own)
           v == [m.db.vector EXCEPT ![Seed] = m.vector[Seed], ![Client] = 0]
<1>5. s \in Nat /\ client.own.localSeq <= s
      /\ \A o \in m.db.log : o.src = Client => o.seq <= s
  BY <1>2, <1>3, <1>4, OwnSeqIs
<1>6. h \in Nat /\ m.hlc <= h
  <2>1. client.own.hlc \in Nat /\ m.db.hlc \in Nat
    BY <1>2, <1>4 DEF Rescue, Database
  <2> QED
    BY <1>4, <2>1 DEF OwnHlc, Larger
<1>7. v \in Vector
  BY <1>4, Nodes DEF Vector, Database
<1>8. d = [m.db EXCEPT !.localSeq = s, !.hlc = h, !.pending = FALSE, !.vector = v,
                       !.bytes = client.bytes]
  BY <1>4 DEF Installed, Database
<1> HIDE DEF s, h, v, d
<1>9. d \in Database /\ d.log = m.db.log /\ d.version = m.db.version /\ d.localSeq = s /\ d.hlc = h
      /\ d.bytes = client.bytes
  BY <1>2, <1>4, <1>5, <1>6, <1>7, <1>8 DEF Database
<1>10. db'[Client] = d /\ db'[Seed] = db[Seed] /\ DOMAIN db' = Node
  BY <1>1, Nodes DEF IInv, Databases
<1>11. Databases'
  <2>1. Larger(Encode(clock[Client]), h) \in Nat /\ m.hlc <= Larger(Encode(clock[Client]), h)
    BY <1>4, <1>6, ClientTimes DEF Larger
  <2>2. Sound(m.db, issued, Larger(Encode(clock[Client]), h))
    BY <1>3, <1>4, <2>1, SoundGrows
  <2>3. Sound(d, issued, Larger(Encode(clock[Client]), h))
    BY <1>2, <1>9, <2>2 DEF Sound
  <2>4. Sound(db'[Seed], issued', Encode(clock'[Seed]))
    BY <1>1, <1>10, SeedKept DEF IInv
  <2> QED
    BY <1>1, <1>9, <1>10, <2>3, <2>4 DEF Databases
<1>12. client' \in Process /\ client'.at = "open" /\ client'.offset = client.offset
       /\ client'.left = client.left /\ client'.emit = client.emit
  BY <1>1, <1>2, GoesTo DEF Places
<1>13. Clocks'
  BY <1>1, <1>12 DEF IInv, Clocks, Serving
<1>14. Numbers'
  <2>1. \A o \in issued' : o.src = Seed => o.seq <= db'[Seed].localSeq
    BY <1>1, <1>10 DEF IInv, Numbers
  <2>2. ASSUME NEW o \in Own(issued') \ unknown'
        PROVE  o.seq <= db'[Client].localSeq
    <3>1. o \in Own(issued) /\ o \notin unknown /\ o \notin keep /\ o.src = Client /\ o.seq \in Nat
      BY <1>1, OpShown DEF Own, IInv, Clocks
    <3>2. CASE here
      <4>1. o.seq <= db[Client].localSeq /\ db[Client].localSeq \in Nat
        BY <3>1, <3>2, ClientTimes DEF IInv, Numbers
      <4>2. client.own.localSeq = db[Client].localSeq
        BY <1>2, <3>2
      <4>3. db[Client].localSeq <= s /\ s \in Nat /\ db'[Client].localSeq = s
        BY <1>5, <1>9, <1>10, <4>2
      <4> QED
        BY <3>1, <4>1, <4>3
    <3>3. CASE ~ here
      <4>1. o \in m.db.log
        BY <3>1, <3>3
      <4> QED
        BY <1>5, <1>9, <1>10, <3>1, <4>1
    <3> QED
      BY <3>2, <3>3
  <2>3. NumbersAreFresh'
    BY <1>1 DEF IInv, Numbers, NumbersAreFresh, Known, SameWrite
  <2> QED
    BY <2>1, <2>2, <2>3 DEF Numbers
<1>15. Stages'
  <2>1. incoming' \in File
    BY <1>1 DEF IInv, Stages, NoFile, File
  <2> QED
    BY <1>1, <1>12, <2>1 DEF IInv, Stages
<1>16. Rescued'
  BY <1>1, <1>12, RescuedKept DEF IInv
<1>17. SeedFiles'
  BY <1>1, FilesKept DEF IInv
<1>18. History'
  <2>1. keep \subseteq issued
    BY DEF Own
  <2> HIDE DEF keep
  <2> QED
    BY <1>1, <2>1 DEF IInv, History
<1> QED
  BY <1>11, <1>13, <1>14, <1>15, <1>16, <1>17, <1>18 DEF IInv

-----------------------------------------------------------------------------
(***************************************************************************)
(* The nodes exchange operations, and the seed collects                    *)
(***************************************************************************)
\* The timestamps of finitely many operations are finitely many.
LEMMA FiniteTimestamps ==
  ASSUME NEW X, IsFiniteSet(X)
  PROVE  IsFiniteSet({x.hlc : x \in X})
<1> DEFINE T == {x.hlc : x \in X}
           f == [x \in X |-> x.hlc]
<1>1. f \in Surjection(X, T)
  BY DEF Surjection
<1> HIDE DEF f
<1> QED
  BY <1>1, FS_Surjection

LEMMA OwnIssued ==
  ASSUME IInv
  PROVE  /\ db[Client].log \subseteq Op /\ db[Client].log \subseteq issued
         /\ db[Seed].log \subseteq Op /\ db[Seed].log \subseteq issued
         /\ IsFiniteSet(db[Seed].log) /\ IsFiniteSet(db[Client].log)
         /\ db[Seed].vector \in Vector /\ db[Client].vector \in Vector
BY DEF IInv, Databases, Sound, Database

LEMMA PushStep == ASSUME IInv, Push PROVE IInv' /\ Forward
<1>1. PICK o \in Own(db[Client].log) :
        /\ db' = [db EXCEPT ![Seed] = Pushed(@, o)]
        /\ clock' = [clock EXCEPT ![Seed] = Merge(@, ClockOf(o.hlc))]
  BY DEF Push
<1>2. UNCHANGED <<seedVars, clientVars, issued, history, events>>
  BY DEF Push
<1>3. o \in Op /\ o \in issued /\ {o} \in SUBSET Op /\ o.hlc \in Nat
  BY OwnIssued, OpShown DEF Own
<1> DEFINE c == Merge(clock[Seed], ClockOf(o.hlc))
           a == Applied(db[Seed], {o})
           n == Contiguous(db[Seed].log \cup {o}, Client, db[Seed].vector[Client])
           w == [db[Seed].vector EXCEPT ![Client] = n]
           d == [a EXCEPT !.log = db[Seed].log \cup {o}, !.vector = w]
<1>4. c \in Clock /\ Encode(clock[Seed]) <= Encode(c) /\ o.hlc <= Encode(c) /\ Encode(c) \in Nat
  BY <1>3, SeedTimes, ClockOfEncodes, MergeIsLarger, EncodeType
<1>5. Sound(a, issued, Encode(c)) /\ a \in Database /\ a.log = db[Seed].log
      /\ a.localSeq = db[Seed].localSeq /\ a.vector = db[Seed].vector
  <2>1. Sound(a, issued, Encode(c))
    <3> HIDE DEF c
    <3> QED
      BY <1>3, <1>4, SeedTimes, AppliedIsSound
  <2> QED
    BY <1>3, <2>1, SeedTimes, AppliedIs
<1>6. w \in Vector
  <2>1. IsFiniteSet(db[Seed].log \cup {o}) /\ db[Seed].vector[Client] \in Nat
    BY OwnIssued, Nodes, FS_AddElement DEF Vector
  <2>2. n \in Nat
    BY <2>1, ContiguousIs
  <2> HIDE DEF n
  <2> QED
    BY <2>2, OwnIssued DEF Vector
<1>7. db' = [db EXCEPT ![Seed] = d] /\ clock' = [clock EXCEPT ![Seed] = c]
  <2>1. Pushed(db[Seed], o) = d
    BY <1>5 DEF Database, Pushed
  <2> HIDE DEF d
  <2> QED
    BY <1>1, <2>1
<1> HIDE DEF w, a, c
<1>8. d \in Database /\ d.log = db[Seed].log \cup {o} /\ d.version = a.version
      /\ d.bytes = a.bytes /\ d.localSeq = db[Seed].localSeq
  BY <1>3, <1>5, <1>6, OwnIssued DEF Database
<1> HIDE DEF d
<1>9. Sound(d, issued, Encode(c))
  <2>1. IsFiniteSet(db[Seed].log \cup {o}) /\ db[Seed].log \cup {o} \subseteq issued
    BY <1>3, OwnIssued, FS_AddElement
  <2> QED
    BY <1>5, <1>8, <2>1 DEF Sound
<1>10. /\ clock' \in [Node -> Clock] /\ clock'[Seed] = c
       /\ \A m \in Node : Encode(clock[m]) <= Encode(clock'[m])
       /\ \A m \in Node \ {Seed} : clock'[m] = clock[m]
  BY <1>4, <1>7, Nodes, ClocksAreNumbers DEF IInv, Clocks
<1>11. UNCHANGED <<here, incoming, sidecar, rescue, client, doubt, cut, unknown, resyncs, events, issued>>
  BY <1>2 DEF clientVars, history
<1>12. db'[Client] = db[Client] /\ db'[Seed] = d
  BY <1>7, Nodes DEF IInv, Databases
<1>13. Databases' /\ Clocks'
  <2>1. Databases' /\ (Serving' /\ Serving => \A k \in Key :
            db'[Client].version[k].hlc <= Encode(clock'[Client]))
    BY <1>7, <1>9, <1>10, <1>11, Nodes, ServesStep
  <2>2. Serving' = Serving
    BY <1>11 DEF Serving
  <2> QED
    BY <1>10, <1>11, <2>1, <2>2, ClocksGrow DEF IInv, Clocks
<1>14. Numbers'
  BY <1>8, <1>11, <1>12 DEF IInv, Numbers, NumbersAreFresh, Known, SameWrite, Own
<1>15. Stages' /\ Rescued' /\ SeedFiles' /\ History'
  BY <1>2, <1>11, <1>12, StagesKept, RescuedKept, FilesKept DEF IInv, History, seedVars
<1> QED
  BY <1>12, <1>13, <1>14, <1>15, ForwardKept DEF IInv

\* The client pulls, or is told that it is behind.
LEMMA PullStep == ASSUME IInv, Pull PROVE IInv' /\ Forward
<1>1. Serving /\ UNCHANGED <<seedVars, clientVars, issued, history, events>>
  BY DEF Pull, Loops
<1>2. UNCHANGED <<here, incoming, sidecar, rescue, client, doubt, cut, unknown, resyncs, events, issued>>
      /\ Serving' /\ client.at = "serving"
  BY <1>1 DEF clientVars, history, Serving
<1>3. \E d, c : /\ db' = [db EXCEPT ![Client] = d] /\ clock' = [clock EXCEPT ![Client] = c]
                /\ c \in Clock /\ Encode(clock[Client]) <= Encode(c)
                /\ Sound(d, issued, Encode(c)) /\ d.hlc = db[Client].hlc
                /\ d.localSeq = db[Client].localSeq
                /\ \A k \in Key : ~ Less(d.version[k], db[Client].version[k])
  <2> DEFINE theirs == CurrentVector(Seed)
             after == [CurrentVector(Client) EXCEPT ![Client] = Larger(@, theirs[Client])]
             in == {o \in db[Seed].log : /\ o.src # Client /\ o.seq > after[o.src]
                                         /\ ~ Known(db[Client].log, o) /\ ~ BehindFence(Client, o)}
             S == {Encode(clock[Client])} \cup {o.hlc : o \in in}
             new == Latest(S)
  <2>1. Sound(db[Client], issued, Encode(clock[Client])) /\ Encode(clock[Client]) \in Nat
        /\ clock[Client] \in Clock /\ db[Client] \in Database
    BY <1>1, Nodes, ServingIsSound, ClientTimes
  <2>2. CASE \E n \in Node : after[n] < db[Seed].horizon[n]
    <3> DEFINE d == [db[Client] EXCEPT !.pending = TRUE]
    <3>1. db' = [db EXCEPT ![Client] = d] /\ clock' = [clock EXCEPT ![Client] = clock[Client]]
      BY <2>2, Nodes DEF Pull, IInv, Clocks
    <3>2. d \in Database /\ d.hlc = db[Client].hlc /\ d.localSeq = db[Client].localSeq
          /\ d.version = db[Client].version /\ d.log = db[Client].log /\ d.bytes = db[Client].bytes
      BY <2>1 DEF Database
    <3> HIDE DEF d
    <3>3. Sound(d, issued, Encode(clock[Client]))
      BY <2>1, <3>2 DEF Sound
    <3>4. \A k \in Key : ~ Less(d.version[k], db[Client].version[k])
      <4>1. \A k \in Key : db[Client].version[k] \in Version
        BY <2>1 DEF Database
      <4>2. \A k \in Key : db[Client].version[k].hlc \in Nat /\ db[Client].version[k].src \in Nat
        BY <4>1, VersionIs
      <4> QED
        BY <3>2, <4>2 DEF Less
    <3>5. Encode(clock[Client]) <= Encode(clock[Client])
      BY <2>1
    <3> QED
      BY <2>1, <3>1, <3>2, <3>3, <3>4, <3>5
  <2>3. CASE ~ \E n \in Node : after[n] < db[Seed].horizon[n]
    <3> DEFINE a == Applied(db[Client], in)
               w == Adopted(db[Client].vector, theirs, Client)
               d == [a EXCEPT !.log = db[Client].log \cup in, !.vector = w]
               c == Merge(clock[Client], ClockOf(new))
    <3>1. in \subseteq db[Seed].log /\ in \in SUBSET Op /\ in \subseteq issued /\ IsFiniteSet(in)
      BY OwnIssued, FS_Subset
    <3>2. theirs \in Vector
      <4>1. db[Seed].vector \in Vector /\ db[Seed].localSeq \in Nat
        BY SeedTimes, OwnIssued
      <4> QED
        BY <4>1 DEF CurrentVector, VectorOf, Vector, Larger
    <3>3. w \in Vector
      BY <3>2, OwnIssued DEF Adopted, Larger, Vector
    <3>4. db' = [db EXCEPT ![Client] = Pulled(@, in, theirs)]
          /\ clock' = [clock EXCEPT ![Client] = Merge(@, ClockOf(new))]
      BY <2>3 DEF Pull
    <3> HIDE DEF in, theirs
    <3>5. a \in Database /\ a.log = db[Client].log /\ a.localSeq = db[Client].localSeq
          /\ a.vector = db[Client].vector /\ a.hlc = db[Client].hlc
      BY <2>1, <3>1, AppliedIs
    <3>6. db' = [db EXCEPT ![Client] = d] /\ clock' = [clock EXCEPT ![Client] = c]
      <4>1. Pulled(db[Client], in, theirs) = d
        BY <3>5 DEF Database, Pulled
      <4> HIDE DEF d
      <4> QED
        BY <3>4, <4>1
    <3>7. new \in Nat /\ Encode(clock[Client]) <= new /\ \A o \in in : o.hlc <= new
      <4>1. IsFiniteSet({o.hlc : o \in in})
        BY <3>1, FiniteTimestamps
      <4>2. IsFiniteSet(S)
        BY <4>1, FS_Singleton, FS_Union
      <4>3. S \in SUBSET Nat /\ S # {} /\ Encode(clock[Client]) \in S /\ \A o \in in : o.hlc \in S
        BY <2>1, <3>1, OpShown
      <4> HIDE DEF S
      <4> QED
        BY <4>2, <4>3, LatestIs
    <3> HIDE DEF new
    <3>8. c \in Clock /\ Encode(clock[Client]) <= Encode(c) /\ new <= Encode(c) /\ Encode(c) \in Nat
      BY <2>1, <3>7, ClockOfEncodes, MergeIsLarger, EncodeType
    <3> HIDE DEF c
    <3>9. \A o \in in : o.hlc <= Encode(c)
      <4>1. \A o \in in : o.hlc \in Nat
        BY <3>1, OpShown
      <4> QED
        BY <3>7, <3>8, <4>1
    <3>10. Sound(a, issued, Encode(c)) /\ \A k \in Key : ~ Less(a.version[k], db[Client].version[k])
      BY <2>1, <3>1, <3>8, <3>9, AppliedIsSound
    <3> HIDE DEF a, w
    <3>11. d \in Database /\ d.log = db[Client].log \cup in /\ d.version = a.version
           /\ d.bytes = a.bytes /\ d.localSeq = a.localSeq /\ d.hlc = a.hlc
      BY <3>1, <3>3, <3>5, OwnIssued DEF Database
    <3> HIDE DEF d
    <3>12. Sound(d, issued, Encode(c))
      BY <3>1, <3>5, <3>10, <3>11, OwnIssued, FS_Union DEF Sound
    <3> QED
      BY <3>5, <3>6, <3>8, <3>10, <3>11, <3>12
  <2> QED
    BY <2>2, <2>3
<1>4. PICK d, c : /\ db' = [db EXCEPT ![Client] = d] /\ clock' = [clock EXCEPT ![Client] = c]
                  /\ c \in Clock /\ Encode(clock[Client]) <= Encode(c)
                  /\ Sound(d, issued, Encode(c)) /\ d.hlc = db[Client].hlc
                  /\ d.localSeq = db[Client].localSeq
                  /\ \A k \in Key : ~ Less(d.version[k], db[Client].version[k])
  BY <1>3
<1>5. /\ clock' \in [Node -> Clock] /\ clock'[Client] = c
      /\ \A m \in Node : Encode(clock[m]) <= Encode(clock'[m])
      /\ \A m \in Node \ {Client} : clock'[m] = clock[m]
  BY <1>4, Nodes, ClocksAreNumbers DEF IInv, Clocks
<1>6. db'[Seed] = db[Seed] /\ db'[Client] = d
  BY <1>4, Nodes DEF IInv, Databases
<1>7. Databases' /\ Clocks'
  <2>1. Databases' /\ (Serving' /\ Serving => \A k \in Key :
            db'[Client].version[k].hlc <= Encode(clock'[Client]))
    BY <1>1, <1>2, <1>4, <1>5, Nodes, ServesStep
  <2> QED
    BY <1>1, <1>2, <1>5, <2>1, ClocksGrow DEF IInv, Clocks
<1>8. Numbers'
  BY <1>2, <1>4, <1>6 DEF IInv, Numbers, NumbersAreFresh, Known, SameWrite, Own
<1>9. Stages' /\ Rescued' /\ SeedFiles' /\ History'
  BY <1>1, <1>2, <1>4, <1>6, StagesKept, RescuedKept, FilesKept DEF IInv, History, seedVars
<1>10. Forward
  BY <1>4, <1>6 DEF Forward
<1> QED
  BY <1>7, <1>8, <1>9, <1>10 DEF IInv

\* What a collection leaves of a database.
LEMMA CollectedIs ==
  ASSUME NEW d \in Database, IsFiniteSet(d.log), NEW k \in Key
  PROVE  /\ Collected(d, k) \in Database
         /\ Collected(d, k).log \subseteq d.log /\ Collected(d, k).bytes = d.bytes
         /\ Collected(d, k).localSeq = d.localSeq
         /\ \A j \in Key : \/ Collected(d, k).version[j] = d.version[j]
                           \/ Collected(d, k).version[j] = NoVersion
<1> DEFINE gone == {o \in d.log : o.key = k}
           seqs(n) == {o.seq : o \in {x \in gone : x.src = n /\ x.type = "delete"}} \cup {d.horizon[n]}
           h == [n \in Node |-> Latest(seqs(n))]
           f == Larger(d.fence, d.version[k].hlc)
           ver == [d.version EXCEPT ![k] = NoVersion]
<1>1. d.log \subseteq Op /\ d.version \in [Key -> Version] /\ d.horizon \in Vector /\ d.fence \in Nat
  BY DEF Database
<1>2. Collected(d, k) = [d EXCEPT !.log = d.log \ gone, !.version = ver, !.horizon = h, !.fence = f]
  BY DEF Collected, Database
<1>3. h \in Vector
  <2>1. ASSUME NEW n \in Node
        PROVE  Latest(seqs(n)) \in Nat
    <3> DEFINE X == {x \in gone : x.src = n /\ x.type = "delete"}
               N == {o.seq : o \in X}
    <3>1. X \subseteq d.log /\ X \subseteq Op /\ IsFiniteSet(X)
      BY <1>1, FS_Subset
    <3>2. IsFiniteSet(N) /\ N \subseteq Nat
      <4> HIDE DEF X
      <4> QED
        BY <3>1, FiniteNumbers, OpShown
    <3>3. d.horizon[n] \in Nat /\ IsFiniteSet({d.horizon[n]})
      BY <1>1, FS_Singleton DEF Vector
    <3>4. seqs(n) = N \cup {d.horizon[n]}
      OBVIOUS
    <3> HIDE DEF N, seqs
    <3>5. IsFiniteSet(seqs(n)) /\ seqs(n) \in SUBSET Nat /\ seqs(n) # {}
      BY <3>2, <3>3, <3>4, FS_Union
    <3> QED
      BY <3>5, LatestIs
  <2> HIDE DEF seqs
  <2> QED
    BY <2>1 DEF Vector
<1>4. f \in Nat
  BY <1>1 DEF Version, Larger
<1>5. NoVersion \in Version
  BY DEF NoVersion, Version
<1>6. ver \in [Key -> Version] /\ \A j \in Key : ver[j] = d.version[j] \/ ver[j] = NoVersion
  BY <1>1, <1>5
<1>7. d.log \ gone \subseteq d.log
  OBVIOUS
<1> HIDE DEF h, f, ver, gone
<1>8. Collected(d, k) \in Database
  BY <1>1, <1>2, <1>3, <1>4, <1>6, <1>7 DEF Database
<1>9. /\ Collected(d, k).log = d.log \ gone /\ Collected(d, k).version = ver
      /\ Collected(d, k).bytes = d.bytes /\ Collected(d, k).localSeq = d.localSeq
  BY <1>2 DEF Database
<1> QED
  BY <1>6, <1>7, <1>8, <1>9

LEMMA SeedCollectStep ==
  ASSUME IInv, NEW k \in Key, SeedCollect(k)
  PROVE  IInv' /\ Forward
<1> DEFINE d == Collected(db[Seed], k)
<1>1. db' = [db EXCEPT ![Seed] = d] /\ UNCHANGED <<clock, seedVars, clientVars, issued, history, events>>
  BY DEF SeedCollect
<1>2. UNCHANGED <<here, incoming, sidecar, rescue, client, doubt, cut, unknown, resyncs, events, issued>>
  BY <1>1 DEF clientVars, history
<1>3. db[Seed] \in Database /\ IsFiniteSet(db[Seed].log) /\ Sound(db[Seed], issued, Encode(clock[Seed]))
      /\ Encode(clock[Seed]) \in Nat
  BY SeedTimes, OwnIssued
<1>4. /\ d \in Database /\ d.log \subseteq db[Seed].log /\ d.bytes = db[Seed].bytes
      /\ d.localSeq = db[Seed].localSeq
      /\ \A j \in Key : d.version[j] = db[Seed].version[j] \/ d.version[j] = NoVersion
  BY <1>3, CollectedIs
<1> HIDE DEF d
<1>5. Sound(d, issued, Encode(clock[Seed]))
  <2>1. IsFiniteSet(d.log) /\ d.log \subseteq issued
    BY <1>3, <1>4, OwnIssued, FS_Subset
  <2>2. \A j \in Key : d.version[j].hlc <= Encode(clock[Seed])
    BY <1>3, <1>4 DEF Sound, NoVersion
  <2> QED
    BY <1>3, <1>4, <2>1, <2>2 DEF Sound
<1>6. db'[Seed] = d /\ db'[Client] = db[Client] /\ DOMAIN db' = Node
  BY <1>1, Nodes DEF IInv, Databases
<1>7. Databases'
  BY <1>1, <1>2, <1>5, <1>6, ClientKept DEF IInv, Databases
<1>8. Clocks'
  BY <1>1, <1>2, <1>6 DEF IInv, Clocks, Serving
<1>9. Numbers'
  BY <1>2, <1>4, <1>6 DEF IInv, Numbers, NumbersAreFresh, Known, SameWrite, Own
<1>10. Stages' /\ Rescued' /\ SeedFiles' /\ History'
  BY <1>1, <1>2, <1>6, StagesKept, RescuedKept, FilesKept DEF IInv, History, seedVars
<1> QED
  BY <1>6, <1>7, <1>8, <1>9, <1>10, ForwardKept DEF IInv

-----------------------------------------------------------------------------
(***************************************************************************)
(* The seed makes snapshots                                                *)
(***************************************************************************)
\* The seed does something about its files.
LEMMA SeedIsBusy ==
  ASSUME IInv, UNCHANGED <<db, clock, issued, clientVars, history>>, SeedFiles',
         DOMAIN made \subseteq DOMAIN made', events' \in Nat
  PROVE  IInv' /\ Forward
<1>1. UNCHANGED <<here, incoming, sidecar, rescue, client, doubt, cut, unknown, resyncs>>
  BY DEF clientVars, history
<1>2. Databases' /\ Clocks' /\ Numbers'
  BY <1>1, DatabasesKept, ClocksKept, NumbersKept DEF IInv, Serving
<1>3. Stages' /\ Rescued' /\ History'
  BY <1>1, StagesKept, RescuedKept DEF IInv, History
<1> QED
  BY <1>2, <1>3, ForwardKept DEF IInv

LEMMA ReadVectorStep == ASSUME IInv, ReadVector PROVE IInv' /\ Forward
<1>1. /\ Len(made) < MaxSnapshots /\ reading' = {db[Seed]}
      /\ UNCHANGED <<db, clock, made, cached, onDisk, clientVars, issued, history, events>>
  BY DEF ReadVector
<1>2. SeedFiles'
  BY <1>1, SeedTimes DEF IInv, SeedFiles, Sound
<1> QED
  BY <1>1, <1>2, SeedIsBusy DEF IInv, History

LEMMA VacuumStep == ASSUME IInv, Vacuum PROVE IInv' /\ Forward
<1>1. PICK then \in reading : made' = Append(made, Prepared(then, db[Seed]))
  BY DEF Vacuum
<1>2. /\ reading' = {} /\ cached' = Len(made')
      /\ onDisk' = (onDisk \ {cached}) \cup {cached'}
      /\ UNCHANGED <<db, clock, clientVars, issued, history, events>>
  BY DEF Vacuum
<1> DEFINE p == Prepared(then, db[Seed])
<1>3. made \in Seq(Snapshot) /\ then \in Database /\ Len(made) < MaxSnapshots /\ MaxSnapshots \in Nat
      /\ onDisk \subseteq DOMAIN made
  BY CopyAssumption DEF IInv, SeedFiles
<1>4. p \in Snapshot /\ p.db = db[Seed] /\ p.hlc = Encode(clock[Seed])
  <2>1. VectorOf(then, Seed) \in Vector
    BY <1>3 DEF VectorOf, Vector, Database, Larger
  <2> QED
    BY <2>1, SeedTimes DEF Prepared, Snapshot
<1> HIDE DEF p
<1>5. /\ made' \in Seq(Snapshot) /\ Len(made') = Len(made) + 1 /\ Len(made) \in Nat
      /\ DOMAIN made' = 1 .. Len(made) + 1 /\ DOMAIN made = 1 .. Len(made)
      /\ made'[Len(made) + 1] = p /\ \A i \in 1 .. Len(made) : made'[i] = made[i]
  BY <1>1, <1>3, <1>4 DEF p
<1>6. SeedFiles'
  <2>1. ASSUME NEW i \in DOMAIN made'
        PROVE  Sound(made'[i].db, issued', made'[i].hlc)
    <3>1. CASE i = Len(made) + 1
      BY <1>2, <1>4, <1>5, <3>1, SeedTimes
    <3>2. CASE i \in 1 .. Len(made)
      BY <1>2, <1>5, <3>2 DEF IInv, SeedFiles
    <3> QED
      BY <1>5, <3>1, <3>2
  <2>2. Len(made') <= MaxSnapshots /\ cached' \in DOMAIN made' /\ onDisk' \subseteq DOMAIN made'
    BY <1>2, <1>3, <1>5
  <2> QED
    BY <1>2, <1>5, <2>1, <2>2 DEF SeedFiles
<1> QED
  BY <1>2, <1>5, <1>6, SeedIsBusy DEF IInv, History

LEMMA CleanupStep == ASSUME IInv, Cleanup PROVE IInv' /\ Forward
<1>1. /\ onDisk' = onDisk \cap {cached}
      /\ UNCHANGED <<db, clock, made, reading, cached, clientVars, issued, history, events>>
  BY DEF Cleanup
<1>2. SeedFiles'
  BY <1>1 DEF IInv, SeedFiles
<1> QED
  BY <1>1, <1>2, SeedIsBusy DEF IInv, History

LEMMA SeedRestartStep == ASSUME IInv, SeedRestart PROVE IInv' /\ Forward
<1>1. /\ events' = events + 1 /\ reading' = {} /\ cached' = 0
      /\ UNCHANGED <<db, clock, made, onDisk, clientVars, issued, history>>
  BY DEF SeedRestart, Event
<1>2. SeedFiles'
  BY <1>1 DEF IInv, SeedFiles
<1> QED
  BY <1>1, <1>2, SeedIsBusy DEF IInv, History

-----------------------------------------------------------------------------
(***************************************************************************)
(* What a database shows                                                   *)
(***************************************************************************)
\* The last words on their keys.
Final(all) == {o \in all : ~ \E x \in all : x.key = o.key /\ Less(o, x)}

\* A database has the outcome of o; of a delete, it may have collected it.
Shows(d, o) ==
  /\ d.row[o.key] = Written(o)
  /\ \/ d.version[o.key] = Stamp(o)
     \/ d.version[o.key] = NoVersion /\ o.type = "delete" /\ o.hlc <= d.fence

Has(ops, o)  == \E x \in ops : SameWrite(x, o)
Behind(d, o) == d.version[o.key] = NoVersion /\ o.hlc <= d.fence

\* No operation beats what is shown, and what is shown is one of them; but of the keys
\* `but'.
Consistent(d, ops, but) ==
  /\ \A x \in ops : ~ Less(d.version[x.key], x)
  /\ \A k \in Key \ but :
       \/ d.version[k] = NoVersion /\ d.row[k] = NoRow
       \/ \E x \in ops : x.key = k /\ d.version[k] = Stamp(x) /\ d.row[k] = Written(x)

\* A write that is issued again stays what it was.
Settled(all) ==
  \A x, y \in all : SameWrite(x, y) =>
    x.type = y.type /\ x.key = y.key /\ (x.src = Seed => x = y)

\* The operations of the seed that a vector, or the fence, speaks for are shown.
Copied(d, n, all, but) ==
  \A o \in Final(all) :
    o.src = Seed /\ (o.seq <= n \/ o.hlc <= d.fence) /\ o.key \notin but => Shows(d, o)

\* Those of the client that a number acknowledges.
Acked(d, n, all) == \A o \in Final(all) : o.src = Client /\ o.seq <= n => Shows(d, o)

\* The client has its last words, has put them aside, or shows what is acknowledged.
Kept(d, aside, all, n, but) ==
  \A o \in Final(all) : o.src = Client /\ o.key \notin but =>
    \/ Has(d.log \cup aside, o)
    \/ Shows(d, o) /\ \E x \in all : SameWrite(x, o) /\ x.seq <= n

LEMMA SameShown ==
  ASSUME NEW all \in SUBSET Op, Settled(all), NEW x \in all, NEW o \in all, SameWrite(x, o)
  PROVE  /\ x.key = o.key /\ Stamp(x) = Stamp(o) /\ Written(x) = Written(o)
         /\ o \in Final(all) => x \in Final(all)
         /\ \A d : Shows(d, x) => Shows(d, o)
<1>1. x.hlc = o.hlc /\ x.src = o.src /\ x.key = o.key /\ x.type = o.type
  BY DEF SameWrite, Settled
<1>2. Stamp(x) = Stamp(o) /\ Written(x) = Written(o)
  BY <1>1 DEF Stamp, Written
<1>3. o \in Final(all) => x \in Final(all)
  BY <1>1 DEF Final, Less
<1> QED
  BY <1>1, <1>2, <1>3 DEF Shows

\* Of the operations on a key the last ones are one write.
LEMMA FinalIsOne ==
  ASSUME NEW all \in SUBSET Op, NEW o \in Final(all), NEW x \in all, x.key = o.key
  PROVE  ~ Less(o, x) /\ (Less(x, o) \/ SameWrite(x, o))
<1>1. o \in Op /\ x \in Op /\ ~ Less(o, x)
  BY DEF Final
<1>2. o.hlc \in Nat /\ o.src \in Nat /\ x.hlc \in Nat /\ x.src \in Nat
  BY <1>1, OpShown, Nodes
<1> QED
  BY <1>1, <1>2 DEF Less, SameWrite

LEMMA FinalGrows ==
  ASSUME NEW all, NEW more, all \subseteq more, NEW o \in Final(more), o \in all
  PROVE  o \in Final(all)
BY DEF Final

\* What a version is worth.
LEMMA StampOrder ==
  ASSUME NEW x \in Op, NEW y \in Op
  PROVE  /\ Less(Stamp(x), y) <=> Less(x, y)
         /\ Less(y, Stamp(x)) <=> Less(y, x)
         /\ Less(NoVersion, x) /\ Stamp(x) # NoVersion
         /\ Stamp(x) = Stamp(y) => SameWrite(x, y)
<1>1. x.hlc \in Nat /\ x.src \in Nat /\ x.src # 0 /\ y.hlc \in Nat /\ y.src \in Nat
  BY OpShown, Nodes
<1>2. Stamp(x).hlc = x.hlc /\ Stamp(x).src = x.src /\ Stamp(y).hlc = y.hlc /\ Stamp(y).src = y.src
  BY OpShown
<1>3. NoVersion.hlc = 0 /\ NoVersion.src = 0
  BY DEF NoVersion
<1> QED
  BY <1>1, <1>2, <1>3 DEF Less, SameWrite

\* A last word that is in the log is shown.
LEMMA LogShows ==
  ASSUME NEW all \in SUBSET Op, Settled(all), NEW d, NEW ops \in SUBSET all, NEW but,
         Consistent(d, ops, but), NEW o \in Final(all), Has(ops, o), o.key \notin but
  PROVE  Shows(d, o)
<1>1. PICK x \in ops : SameWrite(x, o)
  BY DEF Has
<1>2. x \in Op /\ o \in Op /\ o \in all /\ x \in all
  BY DEF Final
<1>3. x.key = o.key /\ x.key \in Key /\ x.hlc = o.hlc /\ x.src = o.src
  BY <1>1, <1>2, SameShown, OpShown DEF SameWrite
<1>4. ~ Less(d.version[o.key], x) /\ d.version[o.key] # NoVersion
  BY <1>2, <1>3, StampOrder DEF Consistent
<1>5. PICK y \in ops : y.key = o.key /\ d.version[o.key] = Stamp(y) /\ d.row[o.key] = Written(y)
  BY <1>3, <1>4 DEF Consistent
<1>6. y \in all /\ y \in Op /\ ~ Less(y, x)
  BY <1>2, <1>4, <1>5, StampOrder
<1>7. ~ Less(y, o)
  BY <1>3, <1>6 DEF Less
<1>8. SameWrite(y, o)
  BY <1>5, <1>6, <1>7, FinalIsOne
<1>9. Stamp(y) = Stamp(o) /\ Written(y) = Written(o)
  BY <1>2, <1>6, <1>8, SameShown
<1> QED
  BY <1>5, <1>9 DEF Shows

\* What is shown and has not been collected has its operation.
LEMMA ShownIsLogged ==
  ASSUME NEW all \in SUBSET Op, NEW d, NEW ops \in SUBSET all, NEW but,
         Consistent(d, ops, but), NEW o \in all, Shows(d, o), o.key \notin but,
         d.version[o.key] # NoVersion
  PROVE  Has(ops, o)
<1>1. o \in Op /\ o.key \in Key
  BY OpShown
<1>2. d.version[o.key] = Stamp(o)
  BY DEF Shows
<1>3. PICK x \in ops : d.version[o.key] = Stamp(x)
  BY <1>1 DEF Consistent
<1>4. SameWrite(x, o)
  BY <1>1, <1>2, <1>3, StampOrder
<1> QED
  BY <1>4 DEF Has

\* Nothing that is applied beats a last word that is shown.
LEMMA NotBeaten ==
  ASSUME NEW all \in SUBSET Op, NEW d, NEW o \in Final(all), Shows(d, o), d.fence \in Nat,
         NEW x \in all, x.key = o.key, ~ Behind(d, x)
  PROVE  ~ Less(d.version[x.key], x)
<1>1. x \in Op /\ o \in Op /\ ~ Less(o, x)
  BY FinalIsOne DEF Final
<1>2. CASE d.version[o.key] = Stamp(o)
  BY <1>1, <1>2, StampOrder
<1>3. CASE d.version[o.key] = NoVersion /\ o.hlc <= d.fence
  <2>1. x.hlc > d.fence
    BY <1>1, <1>3, OpShown DEF Behind
  <2> QED
    BY <1>1, <1>3, <2>1, OpShown DEF Less
<1> QED
  BY <1>2, <1>3 DEF Shows

-----------------------------------------------------------------------------
(***************************************************************************)
(* What the operations on databases leave shown                            *)
(***************************************************************************)
\* Version and row of one key become those of o.
Becomes(d, o, e) ==
  /\ e.version = [d.version EXCEPT ![o.key] = Stamp(o)]
  /\ e.row = [d.row EXCEPT ![o.key] = Written(o)]
  /\ e.fence = d.fence

LEMMA WithBecomes ==
  ASSUME NEW d \in Database, NEW o \in Op
  PROVE  Becomes(d, o, With(d, o)) /\ With(d, o).vector = d.vector /\ With(d, o).pending = d.pending
BY DEF With, Database, Becomes

LEMMA IssuesShows ==
  ASSUME NEW d \in Database, NEW o \in Op, NEW s \in Nat \ {0}
  PROVE  /\ Issues(d, o, s).row = d.row /\ Issues(d, o, s).fence = d.fence
         /\ Issues(d, o, s).vector = d.vector /\ Issues(d, o, s).horizon = d.horizon
         /\ Issues(d, o, s).pending = d.pending
BY DEF Issues, Database

\* A new write is consistent with what it has beaten; x is o, or o under another number.
LEMMA BecomesConsistent ==
  ASSUME NEW d \in Database, NEW ops \in SUBSET Op, NEW but, Consistent(d, ops, but),
         NEW o \in Op, NEW x \in Op, x.key = o.key, Stamp(x) = Stamp(o), Written(x) = Written(o),
         Less(d.version[o.key], o), NEW e, Becomes(d, o, e)
  PROVE  Consistent(e, ops \cup {x}, but)
<1>1. o.key \in Key /\ d.version \in [Key -> Version] /\ d.row \in [Key -> Payload \cup {NoRow}]
  BY OpShown DEF Database
<1>2. /\ e.version[o.key] = Stamp(o) /\ e.row[o.key] = Written(o)
      /\ \A k \in Key \ {o.key} : e.version[k] = d.version[k] /\ e.row[k] = d.row[k]
  BY <1>1 DEF Becomes
<1>3. ASSUME NEW y \in ops \cup {x}
      PROVE  ~ Less(e.version[y.key], y)
  <2>1. y \in Op /\ y.key \in Key
    BY OpShown
  <2>2. CASE y \in ops /\ y.key = o.key
    <3>1. ~ Less(d.version[o.key], y)
      BY <2>2 DEF Consistent
    <3>2. d.version[o.key].hlc \in Nat /\ d.version[o.key].src \in Nat
          /\ o.hlc \in Nat /\ o.src \in Nat /\ y.hlc \in Nat /\ y.src \in Nat
      BY <1>1, <2>1, VersionIs, OpShown, Nodes
    <3>3. ~ Less(o, y)
      BY <3>1, <3>2 DEF Less
    <3> QED
      BY <1>2, <2>1, <2>2, <3>3, StampOrder
  <2>3. CASE y \in ops /\ y.key # o.key
    BY <1>2, <2>1, <2>3 DEF Consistent
  <2>4. CASE y = x
    <3>1. ~ Less(x, x)
      BY OpShown, Nodes DEF Less
    <3> QED
      BY <1>2, <2>4, <3>1, StampOrder
  <2> QED
    BY <2>2, <2>3, <2>4
<1>4. ASSUME NEW k \in Key \ but
      PROVE  \/ e.version[k] = NoVersion /\ e.row[k] = NoRow
             \/ \E y \in ops \cup {x} : y.key = k /\ e.version[k] = Stamp(y) /\ e.row[k] = Written(y)
  <2>1. CASE k = o.key
    BY <1>2, <2>1
  <2>2. CASE k # o.key
    BY <1>2, <2>2 DEF Consistent
  <2> QED
    BY <2>1, <2>2
<1> QED
  BY <1>3, <1>4 DEF Consistent

LEMMA BecomesShows ==
  ASSUME NEW all \in SUBSET Op, NEW d \in Database, NEW o \in Op, NEW x \in all,
         x.key = o.key, Stamp(x) = Stamp(o),
         Less(d.version[o.key], o), ~ Behind(d, o), NEW e, Becomes(d, o, e),
         NEW y \in Final(all), Shows(d, y)
  PROVE  Shows(e, y) /\ e.version[y.key] = d.version[y.key]
<1>1. y \in Op /\ y.key \in Key /\ o.key \in Key /\ d.fence \in Nat
  BY OpShown DEF Final, Database
<1>2. x \in Op /\ x.hlc = o.hlc /\ x.src = o.src
  BY OpShown
<1>3. ~ Behind(d, x) /\ Less(d.version[x.key], x)
  BY <1>2 DEF Behind, Less
<1>4. y.key # o.key
  BY <1>1, <1>3, NotBeaten
<1>5. e.version[y.key] = d.version[y.key] /\ e.row[y.key] = d.row[y.key] /\ e.fence = d.fence
  BY <1>1, <1>4 DEF Becomes, Database
<1> QED
  BY <1>5 DEF Shows

\* Of finitely many operations one is not beaten by another.
LEMMA FiniteWinner ==
  ASSUME NEW X \in SUBSET Op, IsFiniteSet(X), X # {}
  PROVE  \E x \in X : \A y \in X : ~ Less(x, y)
<1> DEFINE H == {x.hlc : x \in X}
<1>1. H \in SUBSET Nat /\ H # {} /\ IsFiniteSet(H)
  BY FiniteTimestamps, OpShown
<1>2. PICK h \in H : \A g \in H : g <= h
  BY <1>1, FiniteMaximum
<1> DEFINE T == {x \in X : x.hlc = h}
           S == {x.src : x \in T}
<1>3. T \subseteq X /\ T # {}
  OBVIOUS
<1>4. S \in SUBSET Nat /\ S # {} /\ IsFiniteSet(S)
  <2>1. S \subseteq Node
    BY OpShown
  <2>2. IsFiniteSet({Seed} \cup {Client})
    <3>1. IsFiniteSet({Seed}) /\ IsFiniteSet({Client})
      BY FS_Singleton
    <3> QED
      BY <3>1, FS_Union
  <2>3. Node = {Seed} \cup {Client}
    BY DEF Node
  <2>4. S # {}
    BY <1>3
  <2> HIDE DEF S
  <2>5. IsFiniteSet(S)
    BY <2>1, <2>2, <2>3, FS_Subset
  <2> QED
    BY <2>1, <2>4, <2>5, Nodes
<1>5. PICK n \in S : \A m \in S : m <= n
  BY <1>4, FiniteMaximum
<1>6. PICK x \in T : x.src = n
  OBVIOUS
<1>7. ASSUME NEW y \in X PROVE ~ Less(x, y)
  <2>1. y.hlc <= x.hlc /\ (y.hlc = x.hlc => y.src <= x.src)
    BY <1>2, <1>5, <1>6
  <2>2. y.hlc \in Nat /\ x.hlc \in Nat /\ y.src \in Nat /\ x.src \in Nat
    BY OpShown, Nodes
  <2> QED
    BY <2>1, <2>2 DEF Less
<1> QED
  BY <1>6, <1>7

\* A batch: what it leaves of version and row.
AppliedTo(d, ops, e) ==
  /\ e.fence = d.fence
  /\ \A k \in Key : \/ e.version[k] = d.version[k] /\ e.row[k] = d.row[k]
                    \/ \E o \in ops : /\ o.key = k /\ Less(d.version[k], o)
                                      /\ e.version[k] = Stamp(o) /\ e.row[k] = Written(o)
  /\ \A o \in ops : ~ Less(e.version[o.key], o)

LEMMA AppliedShows ==
  ASSUME NEW d \in Database, NEW ops \in SUBSET Op, IsFiniteSet(ops)
  PROVE  AppliedTo(d, ops, Applied(d, ops)) /\ Applied(d, ops).pending = d.pending
         /\ Applied(d, ops).horizon = d.horizon
<1> DEFINE wins == {o \in ops : /\ Less(d.version[o.key], o)
                                /\ ~ \E x \in ops : x.key = o.key /\ Less(o, x)}
           of(k) == CHOOSE o \in wins : o.key = k
           ver == [k \in Key |-> IF k \in KeysOf(wins) THEN Stamp(of(k)) ELSE d.version[k]]
           rows == [k \in Key |-> IF k \in KeysOf(wins) THEN Written(of(k)) ELSE d.row[k]]
           e == Applied(d, ops)
<1>1. \A k \in KeysOf(wins) : of(k) \in wins /\ of(k).key = k
  BY DEF KeysOf
<1>2. e = [d EXCEPT !.version = ver, !.row = rows]
  BY DEF Applied, Database
<1>3. e.version = ver /\ e.row = rows /\ e.fence = d.fence /\ e.pending = d.pending
      /\ e.horizon = d.horizon
  <2> HIDE DEF ver, rows, e
  <2> QED
    BY <1>2 DEF Database
<1>4. ASSUME NEW k \in Key
      PROVE  \/ ver[k] = d.version[k] /\ rows[k] = d.row[k]
             \/ \E o \in ops : /\ o.key = k /\ Less(d.version[k], o)
                               /\ ver[k] = Stamp(o) /\ rows[k] = Written(o)
  <2>1. CASE k \in KeysOf(wins)
    <3>1. of(k) \in ops /\ of(k).key = k /\ Less(d.version[of(k).key], of(k))
      BY <1>1, <2>1
    <3>2. ver[k] = Stamp(of(k)) /\ rows[k] = Written(of(k))
      BY <2>1
    <3> HIDE DEF ver, rows, of
    <3> QED
      BY <3>1, <3>2
  <2>2. CASE k \notin KeysOf(wins)
    BY <2>2
  <2> QED
    BY <2>1, <2>2
<1>5. ASSUME NEW o \in ops PROVE ~ Less(ver[o.key], o)
  <2> DEFINE k == o.key
             X == {x \in ops : x.key = k}
  <2>1. k \in Key /\ d.version[k] \in Version
    BY OpShown DEF Database
  <2>2. d.version[k].hlc \in Nat /\ d.version[k].src \in Nat
    BY <2>1, VersionIs
  <2>3. \A x \in ops : x.hlc \in Nat /\ x.src \in Nat
    BY OpShown, Nodes
  <2>4. PICK w \in X : \A x \in X : ~ Less(w, x)
    <3>1. X \in SUBSET Op /\ X # {} /\ IsFiniteSet(X)
      BY FS_Subset
    <3> HIDE DEF X
    <3> QED
      BY <3>1, FiniteWinner
  <2>5. CASE k \in KeysOf(wins)
    <3>1. ver[k] = Stamp(of(k)) /\ of(k) \in wins /\ of(k).key = k
      BY <1>1, <2>1, <2>5
    <3>2. of(k) \in Op /\ ~ Less(of(k), o)
      BY <3>1
    <3> HIDE DEF ver, of
    <3> QED
      BY <3>1, <3>2, StampOrder
  <2>6. CASE k \notin KeysOf(wins)
    <3>1. ver[k] = d.version[k]
      BY <2>1, <2>6
    <3>2. ASSUME Less(d.version[k], o) PROVE FALSE
      <4>1. ~ Less(w, o) /\ w \in ops /\ w.key = k
        BY <2>4
      <4>2. Less(d.version[k], w)
        BY <2>2, <2>3, <3>2, <4>1 DEF Less
      <4>3. w \in wins
        BY <2>4, <4>1, <4>2
      <4> QED
        BY <2>6, <4>1, <4>3 DEF KeysOf
    <3> QED
      BY <3>1, <3>2
  <2> QED
    BY <2>5, <2>6
<1> HIDE DEF ver, rows, e
<1> QED
  BY <1>3, <1>4, <1>5 DEF AppliedTo, e

LEMMA AppliedConsistent ==
  ASSUME NEW d \in Database, NEW log \in SUBSET Op, NEW but, Consistent(d, log, but),
         NEW ops \in SUBSET Op, NEW e, AppliedTo(d, ops, e)
  PROVE  Consistent(e, log \cup ops, but)
<1>1. \A k \in Key : d.version[k].hlc \in Nat /\ d.version[k].src \in Nat
  BY VersionIs DEF Database
<1>2. ASSUME NEW x \in log PROVE ~ Less(e.version[x.key], x)
  <2>1. x.key \in Key /\ x.hlc \in Nat /\ x.src \in Nat /\ ~ Less(d.version[x.key], x)
    BY OpShown, Nodes DEF Consistent
  <2>2. CASE e.version[x.key] = d.version[x.key]
    BY <2>1, <2>2
  <2>3. ASSUME NEW o \in ops, Less(d.version[x.key], o), e.version[x.key] = Stamp(o)
        PROVE  ~ Less(e.version[x.key], x)
    <3>1. o.hlc \in Nat /\ o.src \in Nat
      BY OpShown, Nodes
    <3>2. ~ Less(o, x)
      BY <1>1, <2>1, <2>3, <3>1 DEF Less
    <3> QED
      BY <2>3, <3>2, StampOrder
  <2> QED
    BY <2>1, <2>2, <2>3 DEF AppliedTo
<1>3. ASSUME NEW k \in Key \ but
      PROVE  \/ e.version[k] = NoVersion /\ e.row[k] = NoRow
             \/ \E y \in log \cup ops : y.key = k /\ e.version[k] = Stamp(y) /\ e.row[k] = Written(y)
  BY DEF Consistent, AppliedTo
<1> QED
  BY <1>2, <1>3 DEF Consistent, AppliedTo

LEMMA AppliedKeeps ==
  ASSUME NEW all \in SUBSET Op, NEW d \in Database, NEW ops \in SUBSET all, NEW e,
         AppliedTo(d, ops, e), \A o \in ops : ~ Behind(d, o), NEW y \in Final(all), Shows(d, y)
  PROVE  Shows(e, y) /\ e.version[y.key] = d.version[y.key]
<1>1. y.key \in Key /\ d.fence \in Nat
  BY OpShown DEF Final, Database
<1>2. ASSUME NEW o \in ops, o.key = y.key PROVE ~ Less(d.version[y.key], o)
  BY <1>1, <1>2, NotBeaten
<1>3. e.version[y.key] = d.version[y.key] /\ e.row[y.key] = d.row[y.key] /\ e.fence = d.fence
  BY <1>1, <1>2 DEF AppliedTo
<1> QED
  BY <1>3 DEF Shows

\* What a collection leaves shown, and what it notes of the deletes it drops.
LEMMA CollectedShows ==
  ASSUME NEW d \in Database, IsFiniteSet(d.log), NEW k \in Key
  PROVE  /\ Collected(d, k).row = d.row /\ Collected(d, k).vector = d.vector
         /\ Collected(d, k).version = [d.version EXCEPT ![k] = NoVersion]
         /\ Collected(d, k).fence = Larger(d.fence, d.version[k].hlc)
         /\ Collected(d, k).log = {o \in d.log : o.key # k}
         /\ \A n \in Node : /\ d.horizon[n] \in Nat /\ Collected(d, k).horizon[n] \in Nat
                            /\ d.horizon[n] <= Collected(d, k).horizon[n]
         /\ \A o \in d.log : o.key = k /\ o.type = "delete" =>
              o.seq <= Collected(d, k).horizon[o.src]
<1> DEFINE gone == {o \in d.log : o.key = k}
           seqs(n) == {o.seq : o \in {x \in gone : x.src = n /\ x.type = "delete"}} \cup {d.horizon[n]}
           h == [n \in Node |-> Latest(seqs(n))]
           f == Larger(d.fence, d.version[k].hlc)
           ver == [d.version EXCEPT ![k] = NoVersion]
<1>1. d.log \subseteq Op /\ d.version \in [Key -> Version] /\ d.horizon \in Vector /\ d.fence \in Nat
  BY DEF Database
<1>2. Collected(d, k) = [d EXCEPT !.log = d.log \ gone, !.version = ver, !.horizon = h, !.fence = f]
  BY DEF Collected, Database
<1>3. ASSUME NEW n \in Node
      PROVE  Latest(seqs(n)) \in Nat /\ \A s \in seqs(n) : s <= Latest(seqs(n))
  <2> DEFINE X == {x \in gone : x.src = n /\ x.type = "delete"}
             N == {o.seq : o \in X}
  <2>1. X \subseteq d.log /\ X \subseteq Op /\ IsFiniteSet(X)
    BY <1>1, FS_Subset
  <2>2. IsFiniteSet(N) /\ N \subseteq Nat
    <3> HIDE DEF X
    <3> QED
      BY <2>1, FiniteNumbers, OpShown
  <2>3. d.horizon[n] \in Nat /\ IsFiniteSet({d.horizon[n]})
    BY <1>1, FS_Singleton DEF Vector
  <2>4. seqs(n) = N \cup {d.horizon[n]}
    OBVIOUS
  <2> HIDE DEF N, seqs
  <2>5. IsFiniteSet(seqs(n)) /\ seqs(n) \in SUBSET Nat /\ seqs(n) # {}
    BY <2>2, <2>3, <2>4, FS_Union
  <2> QED
    BY <2>5, LatestIs
<1>4. \A n \in Node : d.horizon[n] \in seqs(n) /\ d.horizon[n] \in Nat
  BY <1>1 DEF Vector
<1>5. \A o \in d.log : o.key = k /\ o.type = "delete" => o.seq \in seqs(o.src)
  OBVIOUS
<1>6. d.log \ gone = {o \in d.log : o.key # k}
  OBVIOUS
<1> HIDE DEF seqs
<1>7. \A n \in Node : h[n] \in Nat /\ d.horizon[n] <= h[n] /\ \A s \in seqs(n) : s <= h[n]
  BY <1>3, <1>4
<1> HIDE DEF h, f, ver, gone
<1>8. /\ Collected(d, k).row = d.row /\ Collected(d, k).vector = d.vector
      /\ Collected(d, k).version = ver /\ Collected(d, k).fence = f
      /\ Collected(d, k).log = d.log \ gone /\ Collected(d, k).horizon = h
  BY <1>2 DEF Database
<1>9. \A o \in d.log : o.src \in Node
  BY <1>1, OpShown
<1>10. \A o \in d.log : o.key = k /\ o.type = "delete" => o.seq <= h[o.src]
  BY <1>5, <1>7, <1>9
<1> QED
  BY <1>4, <1>6, <1>7, <1>8, <1>10 DEF ver, f

LEMMA CollectedConsistent ==
  ASSUME NEW d \in Database, IsFiniteSet(d.log), NEW k \in Key, d.version[k].deleted,
         Consistent(d, d.log, {}), NEW e, e = Collected(d, k)
  PROVE  Consistent(e, e.log, {})
<1>1. /\ e.row = d.row /\ e.version = [d.version EXCEPT ![k] = NoVersion]
      /\ e.log = {o \in d.log : o.key # k} /\ d.version \in [Key -> Version] /\ d.log \subseteq Op
  BY CollectedShows DEF Database
<1>2. e.version[k] = NoVersion /\ \A j \in Key \ {k} : e.version[j] = d.version[j]
  BY <1>1
<1>3. d.row[k] = NoRow
  <2>1. d.version[k] # NoVersion
    BY DEF NoVersion
  <2>2. PICK x \in d.log : d.version[k] = Stamp(x) /\ d.row[k] = Written(x)
    BY <2>1 DEF Consistent
  <2>3. x \in Op /\ x.type = "delete"
    BY <1>1, <2>2, OpShown
  <2> QED
    BY <2>2, <2>3 DEF Written
<1>4. \A x \in e.log : ~ Less(e.version[x.key], x)
  <2>1. \A x \in e.log : x \in d.log /\ x.key \in Key \ {k}
    BY <1>1, OpShown
  <2> QED
    BY <1>2, <2>1 DEF Consistent
<1>5. ASSUME NEW j \in Key \ {}
      PROVE  \/ e.version[j] = NoVersion /\ e.row[j] = NoRow
             \/ \E x \in e.log : x.key = j /\ e.version[j] = Stamp(x) /\ e.row[j] = Written(x)
  <2>1. CASE j = k
    BY <1>1, <1>2, <1>3, <2>1
  <2>2. CASE j # k
    BY <1>1, <1>2, <2>2 DEF Consistent
  <2> QED
    BY <2>1, <2>2
<1> QED
  BY <1>4, <1>5 DEF Consistent

\* A delete that is collected stays shown.
LEMMA CollectedKeeps ==
  ASSUME NEW d \in Database, IsFiniteSet(d.log), NEW k \in Key, d.version[k].deleted,
         NEW o \in Op, Shows(d, o)
  PROVE  /\ Shows(Collected(d, k), o)
         /\ Collected(d, k).version[o.key] = NoVersion =>
              \/ d.version[o.key] = NoVersion
              \/ d.version[o.key] = Stamp(o) /\ o.key = k /\ o.type = "delete"
<1> DEFINE e == Collected(d, k)
<1>1. /\ e.row = d.row /\ e.version = [d.version EXCEPT ![k] = NoVersion]
      /\ e.fence = Larger(d.fence, d.version[k].hlc) /\ d.version \in [Key -> Version]
      /\ d.fence \in Nat /\ o.key \in Key
  BY CollectedShows, OpShown DEF Database
<1>2. d.version[k].hlc \in Nat /\ d.version[k] # NoVersion
  BY <1>1, VersionIs DEF NoVersion
<1>3. d.fence <= e.fence /\ d.version[k].hlc <= e.fence /\ e.fence \in Nat /\ o.hlc \in Nat
  BY <1>1, <1>2, OpShown DEF Larger
<1> HIDE DEF e
<1>4. CASE o.key = k
  <2>1. d.version[k] = Stamp(o)
    BY <1>2, <1>4 DEF Shows
  <2>2. o.type = "delete" /\ d.version[k].hlc = o.hlc
    BY <2>1, OpShown
  <2> QED
    BY <1>1, <1>3, <1>4, <2>1, <2>2 DEF Shows, e
<1>5. CASE o.key # k
  <2>1. e.version[o.key] = d.version[o.key] /\ e.row[o.key] = d.row[o.key]
    BY <1>1, <1>5
  <2>2. o.hlc <= d.fence => o.hlc <= e.fence
    BY <1>1, <1>3
  <2> QED
    BY <1>5, <2>1, <2>2 DEF Shows, e
<1> QED
  BY <1>4, <1>5

\* What is in doubt can only grow.
LEMMA ConsistentMore ==
  ASSUME NEW d, NEW ops, NEW but, NEW more, but \subseteq more, Consistent(d, ops, but)
  PROVE  Consistent(d, ops, more)
BY DEF Consistent

\* Databases that show the same.
Same(d, e) == e.version = d.version /\ e.row = d.row /\ e.fence = d.fence

LEMMA ConsistentSame ==
  ASSUME NEW d, NEW e, Same(d, e), NEW ops, NEW but, Consistent(d, ops, but)
  PROVE  Consistent(e, ops, but)
BY DEF Consistent, Same

LEMMA SameShows ==
  ASSUME NEW d, NEW e, Same(d, e)
  PROVE  \A o : Shows(d, o) => Shows(e, o)
BY DEF Shows, Same

\* The same write under another number.
LEMMA Renumbered ==
  ASSUME NEW o \in Op, NEW s \in Nat \ {0}
  PROVE  LET x == [o EXCEPT !.seq = s]
         IN  /\ x \in Op /\ x.key = o.key /\ x.src = o.src /\ x.hlc = o.hlc /\ x.type = o.type
             /\ x.seq = s /\ SameWrite(x, o) /\ Stamp(x) = Stamp(o) /\ Written(x) = Written(o)
<1> DEFINE x == [o EXCEPT !.seq = s]
<1>1. x \in Op /\ x.key = o.key /\ x.src = o.src /\ x.hlc = o.hlc /\ x.type = o.type /\ x.seq = s
  BY DEF Op
<1> HIDE DEF x
<1>2. SameWrite(x, o) /\ Stamp(x) = Stamp(o) /\ Written(x) = Written(o)
  BY <1>1 DEF SameWrite, Stamp, Written
<1> QED
  BY <1>1, <1>2 DEF x

LEMMA ConsistentRenumbered ==
  ASSUME NEW d, NEW ops \in SUBSET Op, NEW but, NEW o \in Op, Consistent(d, ops \cup {o}, but),
         NEW x \in Op, x.key = o.key, SameWrite(x, o), Stamp(x) = Stamp(o), Written(x) = Written(o)
  PROVE  Consistent(d, ops \cup {x}, but)
<1>1. ASSUME NEW y \in ops \cup {x}
      PROVE  ~ Less(d.version[y.key], y)
  BY DEF Consistent, Less, SameWrite
<1>2. ASSUME NEW k \in Key \ but
      PROVE  \/ d.version[k] = NoVersion /\ d.row[k] = NoRow
             \/ \E y \in ops \cup {x} : y.key = k /\ d.version[k] = Stamp(y) /\ d.row[k] = Written(y)
  <2>1. \/ d.version[k] = NoVersion /\ d.row[k] = NoRow
        \/ \E y \in ops \cup {o} : y.key = k /\ d.version[k] = Stamp(y) /\ d.row[k] = Written(y)
    BY DEF Consistent
  <2> QED
    BY <2>1
<1> QED
  BY <1>1, <1>2 DEF Consistent

\* A crash between applying a collection and issuing it again.
LEMMA ConsistentCut ==
  ASSUME NEW d, NEW ops \in SUBSET Op, NEW emit \in SUBSET Op, NEW but,
         Consistent(d, ops \cup emit, but)
  PROVE  Consistent(d, ops, but \cup KeysOf(emit))
<1>1. ASSUME NEW k \in Key \ (but \cup KeysOf(emit))
      PROVE  \/ d.version[k] = NoVersion /\ d.row[k] = NoRow
             \/ \E x \in ops : x.key = k /\ d.version[k] = Stamp(x) /\ d.row[k] = Written(x)
  BY DEF Consistent, KeysOf
<1> QED
  BY <1>1 DEF Consistent

-----------------------------------------------------------------------------
(***************************************************************************)
(* What is said of the operations so far, when there are more              *)
(***************************************************************************)
\* The operations that have become known are beyond what a vector and a fence speak for.
LEMMA CopiedGrows ==
  ASSUME NEW d, NEW e, NEW n, NEW all, NEW more, all \subseteq more, NEW but, NEW except,
         but \subseteq except, Copied(d, n, all, but), e.fence = d.fence,
         \A x \in more \ all : x.src = Seed => ~ (x.seq <= n) /\ ~ (x.hlc <= d.fence),
         \A o \in Final(more) : o \in all /\ Shows(d, o) => Shows(e, o)
  PROVE  Copied(e, n, more, except)
<1> SUFFICES ASSUME NEW o \in Final(more), o.src = Seed, o.seq <= n \/ o.hlc <= e.fence,
                    o.key \notin except
             PROVE  Shows(e, o)
  BY DEF Copied
<1>1. o \in more
  BY DEF Final
<1>2. o \in all
  BY <1>1
<1>3. o \in Final(all)
  BY <1>2, FinalGrows
<1>4. Shows(d, o)
  BY <1>3 DEF Copied
<1> QED
  BY <1>2, <1>4

LEMMA AckedGrows ==
  ASSUME NEW d, NEW e, NEW n, NEW all, NEW more, all \subseteq more, Acked(d, n, all),
         \A x \in more \ all : x.src = Client => ~ (x.seq <= n),
         \A o \in Final(more) : o \in all /\ Shows(d, o) => Shows(e, o)
  PROVE  Acked(e, n, more)
<1> SUFFICES ASSUME NEW o \in Final(more), o.src = Client, o.seq <= n
             PROVE  Shows(e, o)
  BY DEF Acked
<1>1. o \in more
  BY DEF Final
<1>2. o \in all
  BY <1>1
<1>3. o \in Final(all)
  BY <1>2, FinalGrows
<1>4. Shows(d, o)
  BY <1>3 DEF Acked
<1> QED
  BY <1>2, <1>4

\* New operations of the client are in its log.
LEMMA KeptGrows ==
  ASSUME NEW d, NEW e, NEW aside, NEW all, NEW more, all \subseteq more, NEW n \in Nat, NEW m \in Nat,
         n <= m, more \subseteq Op, NEW but, NEW except, but \subseteq except,
         Kept(d, aside, all, n, but), d.log \subseteq e.log,
         \A x \in more \ all : x.src = Client => Has(e.log, x),
         \A o \in Final(more) : o \in all /\ Shows(d, o) => Shows(e, o)
  PROVE  Kept(e, aside, more, m, except)
<1> SUFFICES ASSUME NEW o \in Final(more), o.src = Client, o.key \notin except
             PROVE  \/ Has(e.log \cup aside, o)
                    \/ Shows(e, o) /\ \E x \in more : SameWrite(x, o) /\ x.seq <= m
  BY DEF Kept
<1>1. CASE o \notin all
  BY <1>1 DEF Final, Has
<1>2. CASE o \in all
  <2>1. o \in Final(all) /\ o.key \notin but
    BY <1>2, FinalGrows
  <2>2. CASE Has(d.log \cup aside, o)
    BY <2>2 DEF Has
  <2>3. ASSUME Shows(d, o), NEW x \in all, SameWrite(x, o), x.seq <= n
        PROVE  Shows(e, o) /\ x \in more /\ x.seq <= m
    <3>1. x.seq \in Nat
      BY OpShown
    <3> QED
      BY <1>2, <2>3, <3>1
  <2> QED
    BY <2>1, <2>2, <2>3 DEF Kept
<1> QED
  BY <1>1, <1>2

-----------------------------------------------------------------------------
(***************************************************************************)
(* What the nodes, and the snapshots, tell                                 *)
(***************************************************************************)
OneStamp == Settled(issued) /\ unknown \subseteq Own(issued)

\* The seed shows its own last words, or its horizon covers the ones it has collected.
SeedShows(d, all) ==
  \A o \in Final(all) : o.src = Seed =>
    Shows(d, o) /\ (d.version[o.key] = NoVersion => o.seq <= d.horizon[Seed])

SeedTells(d, c, all) ==
  /\ Consistent(d, d.log, {}) /\ d.fence <= c /\ d.vector[Seed] = 0
  /\ d.vector[Client] # 0 => \E o \in Own(all) : o.seq = d.vector[Client]
  /\ SeedShows(d, all)

SeedData ==
  /\ SeedTells(db[Seed], Encode(clock[Seed]), issued)
  /\ unknown = {} => Acked(db[Seed], db[Seed].vector[Client], issued)

\* A snapshot shows what its vector speaks for; the seed, d, is beyond it.
Faithful(m, d, c, all) ==
  /\ Consistent(m.db, m.db.log, {}) /\ m.db.fence <= m.hlc /\ m.hlc <= c
  /\ m.vector[Client] <= d.vector[Client] /\ m.vector[Seed] <= d.localSeq
  /\ Copied(m.db, m.vector[Seed], all, {})

Reads(then, files, d) ==
  /\ then.vector[Seed] = 0 /\ then.vector[Client] <= d.vector[Client] /\ then.localSeq <= d.localSeq
  /\ \A i \in DOMAIN files : files[i].vector[Client] <= then.vector[Client]

FilesTell(files, d, c, all) ==
  /\ \A i \in DOMAIN files : Faithful(files[i], d, c, all)
  /\ \A i, j \in DOMAIN files : i <= j => files[i].vector[Client] <= files[j].vector[Client]

AllAcked(files, all) == \A i \in DOMAIN files : Acked(files[i].db, files[i].vector[Client], all)

FilesData ==
  /\ cached \in {0, Len(made)}
  /\ FilesTell(made, db[Seed], Encode(clock[Seed]), issued)
  /\ \A then \in reading : Reads(then, made, db[Seed])
  /\ unknown = {} => AllAcked(made, issued)

\* The snapshot of which the client may rely on what it acknowledges: the one it copies,
\* or the last.
Copying == {"sidecar", "truncate", "chunk", "rescue", "sanitize", "close", "install"}
Base     == IF client.at \in Copying THEN client.id ELSE Len(made)
Promised == IF Base \in DOMAIN made THEN made[Base].vector[Client] ELSE 0

ClientTells(d, emit, but, n, c) ==
  Consistent(d, d.log \cup emit, but) /\ d.fence <= c /\ d.vector[Seed] <= n

ClientData ==
  /\ ClientTells(db[Client], client.emit, cut, db[Seed].localSeq, Encode(clock[Seed]))
  /\ Serving => db[Client].fence <= Encode(clock[Client])
  /\ here => Copied(db[Client], db[Client].vector[Seed], issued, cut)
  /\ here /\ unknown = {} => Kept(db[Client], PutAside, issued, Promised, doubt \cup cut)

\* Unacked, of a database.
Unheard(d, m) == {o \in Own(d.log) : o.seq > m.vector[Client]}

\* What has been put aside and is not left to replay is in the log.
Replayed(d, all, done, but) ==
  \A y \in done : y \in Final(all) /\ y.key \notin but => Has(d.log, y)

Aside ==
  /\ ~ here => rescue = {} /\ KeysOf(Own(issued)) \subseteq doubt
  /\ here /\ client.at \in Copying \cup {"manifest"} => db[Client].pending
  /\ here /\ db[Client].pending => PutAside \subseteq db[Client].log
  /\ here /\ client.at \in {"sanitize", "close", "install"} =>
       Unheard(db[Client], made[client.id]) \subseteq PutAside
  /\ Serving /\ ~ client.replaying => rescue = {}
  /\ Serving =>
       /\ client.left \cup client.emit \subseteq PutAside
       /\ \A x, y \in client.emit : x = y
       /\ Replayed(db[Client], issued, PutAside \ (client.left \cup client.emit), doubt \cup cut)

Told == OneStamp /\ SeedData /\ FilesData /\ ClientData /\ Aside
WInv == IInv /\ Told

-----------------------------------------------------------------------------
(***************************************************************************)
(* New operations are beyond what is told                                  *)
(***************************************************************************)
\* Those of the seed are new to it, and those of the client are not acknowledged.
Beyond(d, c, all, more) == \A x \in more \ all : x.src = Seed => x.seq > d.localSeq /\ x.hlc > c
Fresh(d, all, more)     == \A x \in more \ all : x.src = Client => x.seq > d.vector[Client]

LEMMA FaithfulGrows ==
  ASSUME NEW m \in Snapshot, NEW d \in Database, NEW e \in Database, NEW c \in Nat, NEW g \in Nat,
         c <= g, d.vector[Client] <= e.vector[Client], d.localSeq <= e.localSeq,
         NEW more \in SUBSET Op, NEW all \in SUBSET more, Beyond(d, c, all, more),
         Faithful(m, d, c, all)
  PROVE  Faithful(m, e, g, more)
<1>1. /\ m.db \in Database /\ m.hlc \in Nat /\ m.db.fence \in Nat
      /\ m.vector[Client] \in Nat /\ m.vector[Seed] \in Nat
      /\ d.vector[Client] \in Nat /\ e.vector[Client] \in Nat
      /\ d.localSeq \in Nat /\ e.localSeq \in Nat
  BY Nodes DEF Snapshot, Database, Vector
<1>2. ASSUME NEW x \in more \ all, x.src = Seed
      PROVE  ~ (x.seq <= m.vector[Seed]) /\ ~ (x.hlc <= m.db.fence)
  <2>1. x.seq \in Nat /\ x.hlc \in Nat /\ x.seq > d.localSeq /\ x.hlc > c
    BY <1>2, OpShown DEF Beyond
  <2>2. m.vector[Seed] <= d.localSeq /\ m.db.fence <= m.hlc /\ m.hlc <= c
    BY DEF Faithful
  <2> QED
    BY <1>1, <2>1, <2>2
<1>3. Copied(m.db, m.vector[Seed], more, {})
  <2>1. Copied(m.db, m.vector[Seed], all, {})
    BY DEF Faithful
  <2> QED
    BY <1>2, <2>1, CopiedGrows
<1> QED
  BY <1>1, <1>3 DEF Faithful

LEMMA FilesGrow ==
  ASSUME NEW files \in Seq(Snapshot), NEW d \in Database, NEW e \in Database, NEW c \in Nat,
         NEW g \in Nat, c <= g, d.vector[Client] <= e.vector[Client], d.localSeq <= e.localSeq,
         NEW more \in SUBSET Op, NEW all \in SUBSET more, Beyond(d, c, all, more),
         FilesTell(files, d, c, all)
  PROVE  /\ FilesTell(files, e, g, more)
         /\ Fresh(d, all, more) /\ AllAcked(files, all) => AllAcked(files, more)
<1>1. \A i \in DOMAIN files : files[i] \in Snapshot
  OBVIOUS
<1>2. \A i \in DOMAIN files : Faithful(files[i], e, g, more)
  BY <1>1, FaithfulGrows DEF FilesTell
<1>3. ASSUME Fresh(d, all, more), AllAcked(files, all), NEW i \in DOMAIN files
      PROVE  Acked(files[i].db, files[i].vector[Client], more)
  <2>1. files[i].vector[Client] <= d.vector[Client] /\ files[i].vector[Client] \in Nat
        /\ d.vector[Client] \in Nat
    BY <1>1, Nodes DEF FilesTell, Faithful, Snapshot, Database, Vector
  <2>2. \A x \in more \ all : x.src = Client => ~ (x.seq <= files[i].vector[Client])
    BY <1>3, <2>1, OpShown DEF Fresh
  <2> QED
    BY <1>3, <2>2, AckedGrows DEF AllAcked
<1> QED
  BY <1>2, <1>3 DEF FilesTell, AllAcked

LEMMA SeedGrows ==
  ASSUME NEW d \in Database, NEW c \in Nat, NEW g \in Nat, c <= g,
         NEW more \in SUBSET Op, NEW all \in SUBSET more, SeedTells(d, c, all),
         \A x \in more \ all : x.src = Client
  PROVE  /\ SeedTells(d, g, more)
         /\ Fresh(d, all, more) /\ Acked(d, d.vector[Client], all) => Acked(d, d.vector[Client], more)
<1>1. d.fence \in Nat /\ d.vector[Client] \in Nat
  BY Nodes DEF Database, Vector
<1>2. SeedShows(d, more)
  <2> SUFFICES ASSUME NEW o \in Final(more), o.src = Seed
               PROVE  Shows(d, o) /\ (d.version[o.key] = NoVersion => o.seq <= d.horizon[Seed])
    BY DEF SeedShows
  <2>1. o \in more
    BY DEF Final
  <2>2. o \in all
    BY <2>1, Nodes
  <2>3. o \in Final(all)
    BY <2>2, FinalGrows
  <2> QED
    BY <2>3 DEF SeedTells, SeedShows
<1>3. d.vector[Client] # 0 => \E o \in Own(more) : o.seq = d.vector[Client]
  BY DEF SeedTells, Own
<1>4. ASSUME Fresh(d, all, more), Acked(d, d.vector[Client], all)
      PROVE  Acked(d, d.vector[Client], more)
  <2>1. \A x \in more \ all : x.src = Client => ~ (x.seq <= d.vector[Client])
    BY <1>1, <1>4, OpShown DEF Fresh
  <2> QED
    BY <1>4, <2>1, AckedGrows
<1> QED
  BY <1>1, <1>2, <1>3, <1>4 DEF SeedTells

-----------------------------------------------------------------------------
(***************************************************************************)
(* The client is busy with its copy                                        *)
(***************************************************************************)
LEMMA SeedUntouched ==
  ASSUME OneStamp, SeedData, FilesData, db'[Seed] = db[Seed], clock'[Seed] = clock[Seed],
         UNCHANGED <<seedVars, issued>>, unknown \subseteq unknown', unknown' \subseteq Own(issued)
  PROVE  OneStamp' /\ SeedData' /\ FilesData'
<1>1. UNCHANGED <<made, reading, cached>>
  BY DEF seedVars
<1>2. unknown' = {} => unknown = {}
  OBVIOUS
<1>3. OneStamp'
  BY DEF OneStamp, Settled
<1>4. SeedData'
  <2>1. SeedTells(db'[Seed], Encode(clock'[Seed]), issued')
    BY DEF SeedData
  <2>2. unknown' = {} => Acked(db'[Seed], db'[Seed].vector[Client], issued')
    BY <1>2 DEF SeedData
  <2> QED
    BY <2>1, <2>2 DEF SeedData
<1>5. FilesData'
  <2>1. FilesTell(made', db'[Seed], Encode(clock'[Seed]), issued')
    BY <1>1 DEF FilesData
  <2>2. \A then \in reading' : Reads(then, made', db'[Seed])
    BY <1>1 DEF FilesData
  <2>3. unknown' = {} => AllAcked(made', issued')
    BY <1>1, <1>2 DEF FilesData
  <2>4. cached' \in {0, Len(made')}
    BY <1>1 DEF FilesData
  <2> QED
    BY <2>1, <2>2, <2>3, <2>4 DEF FilesData
<1> QED
  BY <1>3, <1>4, <1>5

\* What the client relies on does not go back.
LEMMA PromiseIs ==
  ASSUME IInv, FilesTell(made, db[Seed], Encode(clock[Seed]), issued)
  PROVE  /\ Promised \in Nat /\ db[Seed].vector[Client] \in Nat
         /\ Promised <= db[Seed].vector[Client]
         /\ \A i \in DOMAIN made : made[i].vector[Client] \in Nat
         /\ client.at \in Copying =>
              client.id \in DOMAIN made /\ Promised = made[client.id].vector[Client]
<1>1. DOMAIN made = 1 .. Len(made) /\ Len(made) \in Nat
      /\ \A i \in DOMAIN made : made[i] \in Snapshot
  BY MadeIs DEF IInv
<1>2. db[Seed].vector[Client] \in Nat
  BY SeedTimes, Nodes DEF Database, Vector
<1>3. \A i \in DOMAIN made : made[i].vector[Client] \in Nat
        /\ made[i].vector[Client] <= db[Seed].vector[Client]
  BY <1>1, Nodes DEF Snapshot, Vector, FilesTell, Faithful
<1>4. client.at \in Copying => client.id \in DOMAIN made
  BY DEF IInv, Stages, Copying
<1> QED
  BY <1>2, <1>3, <1>4 DEF Promised, Base

LEMMA PromiseKept ==
  ASSUME IInv, FilesTell(made, db[Seed], Encode(clock[Seed]), issued), made' = made,
         \/ client'.at \notin Copying
         \/ client.at \in Copying /\ client'.at \in Copying /\ client'.id = client.id
         \/ client.at \notin Copying /\ client'.at \in Copying /\ client'.id = Len(made)
  PROVE  Promised' \in Nat /\ Promised <= Promised'
<1>1. DOMAIN made = 1 .. Len(made) /\ Len(made) \in Nat
  BY MadeIs DEF IInv
<1>2. \A i \in DOMAIN made : made[i].vector[Client] \in Nat
  BY PromiseIs
<1>3. \A i, j \in DOMAIN made : i <= j => made[i].vector[Client] <= made[j].vector[Client]
  BY DEF FilesTell
<1>4. CASE Base' = Base
  BY <1>2, <1>4 DEF Promised
<1>5. CASE Base' = Len(made)
  <2>1. CASE Base \in DOMAIN made
    <3>1. Len(made) \in DOMAIN made /\ Base <= Len(made)
      BY <1>1, <2>1
    <3> QED
      BY <1>2, <1>3, <1>5, <2>1, <3>1 DEF Promised
  <2>2. CASE Base \notin DOMAIN made
    BY <1>2, <1>5, <2>2 DEF Promised
  <2> QED
    BY <2>1, <2>2
<1>6. Base' = Base \/ Base' = Len(made)
  BY DEF Base
<1> QED
  BY <1>4, <1>5, <1>6

\* A client that moves on with its database as it is.
LEMMA ClientMoves ==
  ASSUME WInv, UNCHANGED <<db, here, clock, seedVars, rescue, issued, history>>,
         client.at # "serving", client'.at # "serving", client'.emit = {},
         \/ client'.at \notin Copying
         \/ client.at \in Copying /\ client'.at \in Copying /\ client'.id = client.id
         \/ client.at \notin Copying /\ client'.at \in Copying /\ client'.id = Len(made),
         here /\ client'.at \in Copying \cup {"manifest"} => db[Client].pending,
         here /\ client'.at \in {"sanitize", "close", "install"} =>
           client.at \in {"sanitize", "close"} /\ client'.id = client.id
  PROVE  Told'
<1>1. OneStamp' /\ SeedData' /\ FilesData'
  BY SeedUntouched DEF WInv, Told, history, OneStamp
<1>2. client.emit = {} /\ made' = made /\ UNCHANGED <<doubt, cut, unknown>> /\ PutAside' = PutAside
  BY DEF WInv, Told, IInv, Rescued, seedVars, history, PutAside
<1>3. ClientData'
  <2>1. ClientTells(db'[Client], client'.emit, cut', db'[Seed].localSeq, Encode(clock'[Seed]))
    BY <1>2 DEF WInv, Told, ClientData
  <2>2. here' => Copied(db'[Client], db'[Client].vector[Seed], issued', cut')
    BY <1>2 DEF WInv, Told, ClientData
  <2>3. here' /\ unknown' = {} => Kept(db'[Client], PutAside', issued', Promised', doubt' \cup cut')
    <3>1. SUFFICES ASSUME here, unknown = {}
                   PROVE  Kept(db[Client], PutAside, issued, Promised', doubt \cup cut)
      BY <1>2
    <3>2. Kept(db[Client], PutAside, issued, Promised, doubt \cup cut)
      BY <3>1 DEF WInv, Told, ClientData
    <3>3. Promised \in Nat /\ Promised' \in Nat /\ Promised <= Promised'
      BY <1>2, PromiseIs, PromiseKept DEF WInv, Told, FilesData
    <3>4. issued \subseteq Op
      BY DEF WInv, Told, IInv, Clocks
    <3> QED
      BY <3>2, <3>3, <3>4, KeptGrows
  <2> QED
    BY <2>1, <2>2, <2>3 DEF ClientData, Serving
<1>4. Aside'
  <2>1. ~ Serving'
    BY DEF Serving
  <2>2. ~ here' => rescue' = {} /\ KeysOf(Own(issued')) \subseteq doubt'
    BY <1>2 DEF WInv, Told, Aside
  <2>3. here' /\ db'[Client].pending => PutAside' \subseteq db'[Client].log
    BY <1>2 DEF WInv, Told, Aside
  <2>4. here' /\ client'.at \in {"sanitize", "close", "install"} =>
          Unheard(db'[Client], made'[client'.id]) \subseteq PutAside'
    <3>1. SUFFICES ASSUME here, client'.at \in {"sanitize", "close", "install"}
                   PROVE  Unheard(db[Client], made[client.id]) \subseteq PutAside /\ client'.id = client.id
      BY <1>2
    <3> QED
      BY <3>1 DEF WInv, Told, Aside
  <2> QED
    BY <2>1, <2>2, <2>3, <2>4 DEF Aside
<1> QED
  BY <1>1, <1>3, <1>4 DEF Told

\* It goes on from one place to the next.
LEMMA ClientGoes ==
  ASSUME WInv, UNCHANGED <<db, here, clock, seedVars, rescue, issued, history>>,
         client.at # "serving", NEW to \in Places \ {"serving"}, Goes(to),
         to \in Copying => client.at \in Copying,
         here /\ to \in Copying \cup {"manifest"} =>
           db[Client].pending \/ client.at \in Copying \cup {"manifest"},
         to \in {"sanitize", "close", "install"} => client.at \in {"sanitize", "close"}
  PROVE  Told'
<1>1. client' \in Process /\ client'.at = to /\ client'.id = client.id /\ client'.emit = {}
  <2>1. client \in Process /\ client.emit = {}
    BY DEF WInv, IInv, Stages, Rescued
  <2> QED
    BY <2>1, GoesTo
<1>2. here /\ client'.at \in Copying \cup {"manifest"} => db[Client].pending
  BY <1>1 DEF WInv, Told, Aside
<1> QED
  BY <1>1, <1>2, ClientMoves

LEMMA GetManifestTold == ASSUME WInv, GetManifest PROVE Told'
<1> DEFINE done   == IF sidecar = cached THEN incoming.size ELSE 0
           offset == IF done > Size THEN 0 ELSE done
           to     == IF done = 0 THEN "sidecar" ELSE "chunk"
<1>1. /\ cached # 0 /\ client.at = "manifest"
      /\ client' = [Down EXCEPT !.at = to, !.id = cached, !.offset = offset, !.pos = offset]
      /\ UNCHANGED <<db, here, clock, seedVars, sidecar, rescue, issued, history, events>>
  BY DEF GetManifest
<1>2. to \in {"sidecar", "chunk"} /\ cached = Len(made)
  BY <1>1 DEF WInv, Told, FilesData
<1> HIDE DEF to, offset, done
<1>3. client'.at = to /\ client'.id = cached /\ client'.emit = {}
  BY <1>1 DEF Down
<1>4. here => db[Client].pending
  BY <1>1 DEF WInv, Told, Aside
<1> QED
  BY <1>1, <1>2, <1>3, <1>4, ClientMoves DEF Copying

LEMMA CloseIncomingTold == ASSUME WInv, CloseIncoming PROVE Told'
<1>1. client.at = "close" /\ UNCHANGED <<db, here, clock, seedVars, sidecar, rescue, issued, history, events>>
  BY DEF CloseIncoming
<1>2. \E b : client' = [client EXCEPT !.at = "install", !.bytes = b]
  BY DEF CloseIncoming
<1>3. client'.at = "install" /\ client'.id = client.id /\ client'.emit = client.emit
  BY <1>2 DEF WInv, IInv, Stages, Process
<1>4. client.emit = {} /\ (here => db[Client].pending)
  BY <1>1 DEF WInv, Told, Aside, IInv, Rescued, Copying
<1> QED
  BY <1>1, <1>3, <1>4, ClientMoves DEF Copying

\* A chunk, or part of one, changes the file only.
LEMMA ChunkTold == ASSUME WInv, FetchChunk \/ ChunkBreaks PROVE Told'
<1>1. PICK n : Receives(n) /\ \E offset, pos : client' = [client EXCEPT !.offset = offset, !.pos = pos]
  <2>1. CASE FetchChunk
    BY <2>1 DEF FetchChunk
  <2>2. CASE ChunkBreaks
    <3>1. PICK n \in 1 .. ChunkLength(client.offset) - 1 :
            Receives(n) /\ client' = [client EXCEPT !.pos = client.pos + n]
      BY <2>2 DEF ChunkBreaks
    <3>2. client' = [client EXCEPT !.offset = client.offset, !.pos = client.pos + n]
      BY <3>1 DEF WInv, IInv, Stages, Process
    <3> QED
      BY <3>1, <3>2
  <2> QED
    BY <2>1, <2>2
<1>2. client.at = "chunk" /\ UNCHANGED <<db, here, clock, seedVars, sidecar, rescue, issued, history>>
  BY <1>1 DEF Receives
<1>3. client'.at = "chunk" /\ client'.id = client.id /\ client'.emit = client.emit
  BY <1>1, <1>2 DEF WInv, IInv, Stages, Process
<1>4. client.emit = {} /\ (here => db[Client].pending)
  BY <1>2 DEF WInv, Told, Aside, IInv, Rescued, Copying
<1> QED
  BY <1>2, <1>3, <1>4, ClientMoves DEF Copying

LEMMA CopyMovesTold ==
  ASSUME WInv, \/ Start \/ WriteSidecar \/ Truncate \/ SnapshotGone \/ Verify \/ Sanitize
               \/ AttemptFails \/ GiveUp
  PROVE  Told'
<1>1. CASE Start
  <2>1. client.at = "down" /\ UNCHANGED <<db, here, clock, seedVars, incoming, sidecar, rescue, issued, history, events>>
        /\ Goes(IF here /\ ~ db[Client].pending THEN "open" ELSE "manifest")
    BY <1>1 DEF Start
  <2>2. CASE here /\ ~ db[Client].pending
    BY <2>1, <2>2, ClientGoes DEF Places, Copying
  <2>3. CASE ~ (here /\ ~ db[Client].pending)
    <3>1. here => db[Client].pending
      BY <2>3, ClientTimes DEF Database, WInv
    <3>2. Goes("manifest")
      BY <2>1, <2>3
    <3> QED
      BY <2>1, <3>1, <3>2, ClientGoes DEF Places, Copying
  <2> QED
    BY <2>2, <2>3
<1>2. CASE WriteSidecar
  <2>1. client.at = "sidecar" /\ Goes("truncate")
        /\ UNCHANGED <<db, here, clock, seedVars, incoming, rescue, issued, history, events>>
    BY <1>2 DEF WriteSidecar
  <2> QED
    BY <2>1, ClientGoes DEF Places, Copying
<1>3. CASE Truncate
  <2>1. client.at = "truncate" /\ Goes("chunk")
        /\ UNCHANGED <<db, here, clock, seedVars, sidecar, rescue, issued, history, events>>
    BY <1>3 DEF Truncate
  <2> QED
    BY <2>1, ClientGoes DEF Places, Copying
<1>4. CASE SnapshotGone
  <2>1. client.at = "chunk" /\ Goes("manifest")
        /\ UNCHANGED <<db, here, clock, seedVars, rescue, issued, history, events>>
    BY <1>4 DEF SnapshotGone
  <2> QED
    BY <2>1, ClientGoes DEF Places, Copying
<1>5. CASE Verify
  <2>1. client.at = "chunk" /\ (Goes("rescue") \/ Goes("manifest"))
        /\ UNCHANGED <<db, here, clock, seedVars, rescue, issued, history, events>>
    BY <1>5 DEF Verify
  <2> QED
    BY <2>1, ClientGoes DEF Places, Copying
<1>6. CASE Sanitize
  <2>1. client.at = "sanitize" /\ Goes("close")
        /\ UNCHANGED <<db, here, clock, seedVars, sidecar, rescue, issued, history, events>>
    BY <1>6 DEF Sanitize
  <2> QED
    BY <2>1, ClientGoes DEF Places, Copying
<1>7. CASE AttemptFails
  <2>1. /\ client.at \in {"sidecar", "truncate", "chunk", "rescue", "sanitize", "install"}
        /\ Goes("manifest")
        /\ UNCHANGED <<db, here, clock, seedVars, incoming, sidecar, rescue, issued, history>>
    BY <1>7 DEF AttemptFails
  <2> QED
    BY <2>1, ClientGoes DEF Places, Copying
<1>8. CASE GiveUp
  <2>1. /\ client.at = "manifest" /\ (Goes("open") \/ Goes("down"))
        /\ UNCHANGED <<db, here, clock, seedVars, incoming, sidecar, rescue, issued, history>>
    BY <1>8 DEF GiveUp
  <2> QED
    BY <2>1, ClientGoes DEF Places, Copying
<1> QED
  BY <1>1, <1>2, <1>3, <1>4, <1>5, <1>6, <1>7, <1>8

\* What is rescued is what the client has and the seed does not acknowledge.
LEMMA WriteRescueTold == ASSUME WInv, WriteRescue PROVE Told'
<1> DEFINE m == made[client.id]
           own == [ops |-> Unacked(m), localSeq |-> db[Client].localSeq, hlc |-> db[Client].hlc]
           mine == IF here THEN own ELSE NoRescue
<1>1. /\ client.at = "rescue" /\ client' = [client EXCEPT !.at = "sanitize", !.own = mine]
      /\ rescue' = IF here THEN {own} ELSE rescue
      /\ UNCHANGED <<db, here, clock, seedVars, incoming, sidecar, issued, history, events>>
  BY DEF WriteRescue
<1>2. own.ops = Unheard(db[Client], m)
  BY DEF Unacked, Unheard
<1> HIDE DEF own, mine
<1>3. client'.at = "sanitize" /\ client'.id = client.id /\ client'.emit = client.emit
  BY <1>1 DEF WInv, IInv, Stages, Process
<1>4. client.emit = {} /\ (here => db[Client].pending) /\ ~ Serving /\ ~ Serving'
  BY <1>1, <1>3 DEF WInv, Told, Aside, IInv, Rescued, Copying, Serving
<1>5. made' = made /\ UNCHANGED <<doubt, cut, unknown>>
  BY <1>1 DEF seedVars, history
<1>6. /\ here => PutAside' = Unheard(db[Client], m) /\ PutAside \subseteq db[Client].log
      /\ ~ here => rescue' = rescue
  <2>1. ASSUME here PROVE PutAside' = Unheard(db[Client], m)
    <3>1. rescue' = {own}
      BY <1>1, <2>1
    <3> QED
      BY <1>2, <3>1 DEF PutAside
  <2> QED
    BY <1>1, <1>4, <2>1 DEF WInv, Told, Aside
<1>7. Unheard(db[Client], m) \subseteq db[Client].log
  BY DEF Unheard, Own
<1>8. OneStamp' /\ SeedData' /\ FilesData'
  BY <1>1, <1>5, SeedUntouched DEF WInv, Told, OneStamp
<1>9. ClientData'
  <2>1. ClientTells(db'[Client], client'.emit, cut', db'[Seed].localSeq, Encode(clock'[Seed]))
    BY <1>1, <1>3, <1>5 DEF WInv, Told, ClientData
  <2>2. here' => Copied(db'[Client], db'[Client].vector[Seed], issued', cut')
    BY <1>1, <1>5 DEF WInv, Told, ClientData
  <2>3. here' /\ unknown' = {} => Kept(db'[Client], PutAside', issued', Promised', doubt' \cup cut')
    <3>1. SUFFICES ASSUME here, unknown = {}
                   PROVE  Kept(db[Client], PutAside', issued, Promised', doubt \cup cut)
      BY <1>1, <1>5
    <3>2. Kept(db[Client], PutAside, issued, Promised, doubt \cup cut)
      BY <3>1 DEF WInv, Told, ClientData
    <3>3. Promised' = Promised
      BY <1>1, <1>3, <1>5 DEF Promised, Base, Copying
    <3>4. \A o : Has(db[Client].log \cup PutAside, o) => Has(db[Client].log \cup PutAside', o)
      BY <1>6, <3>1 DEF Has
    <3> QED
      BY <3>2, <3>3, <3>4 DEF Kept
  <2> QED
    BY <1>4, <2>1, <2>2, <2>3 DEF ClientData
<1>10. Aside'
  <2>1. ~ here' => rescue' = {} /\ KeysOf(Own(issued')) \subseteq doubt'
    BY <1>1, <1>5, <1>6 DEF WInv, Told, Aside
  <2>2. here' => db'[Client].pending
    BY <1>1, <1>4
  <2>3. here' => PutAside' \subseteq db'[Client].log
    BY <1>1, <1>6, <1>7
  <2>4. here' => Unheard(db'[Client], made'[client'.id]) \subseteq PutAside'
    BY <1>1, <1>3, <1>5, <1>6
  <2> QED
    BY <1>4, <2>1, <2>2, <2>3, <2>4 DEF Aside
<1> QED
  BY <1>8, <1>9, <1>10 DEF Told

\* The clock of the client, too, is beyond the fence.
LEMMA OpenTold == ASSUME WInv, Open PROVE Told'
<1> DEFINE ca == Merge(clock[Client], ClockOf(db[Client].hlc))
           cb == Merge(ca, ClockOf(db[Client].fence))
<1>1. /\ client.at = "open" /\ clock' = [clock EXCEPT ![Client] = cb]
      /\ client' = [Down EXCEPT !.at = "serving", !.replaying = TRUE, !.left = PutAside]
      /\ UNCHANGED <<db, here, seedVars, incoming, sidecar, rescue, issued, history, events>>
  BY DEF Open, PutAside
<1>2. ca \in Clock
  BY ClientTimes, ClockOfEncodes, MergeIsLarger DEF WInv
<1>3. cb \in Clock /\ db[Client].fence <= Encode(cb)
  <2> HIDE DEF ca
  <2> QED
    BY <1>2, ClientTimes, ClockOfEncodes, MergeIsLarger, EncodeType DEF WInv
<1> HIDE DEF ca, cb
<1>4. clock'[Client] = cb /\ clock'[Seed] = clock[Seed]
  BY <1>1, <1>3, Nodes DEF WInv, IInv, Clocks
<1>5. client'.at = "serving" /\ client'.left = PutAside /\ client'.emit = {} /\ client'.replaying
  BY <1>1 DEF Down
<1>6. client.emit = {} /\ made' = made /\ UNCHANGED <<doubt, cut, unknown>> /\ PutAside' = PutAside /\ here
  BY <1>1 DEF WInv, IInv, Rescued, Stages, seedVars, history, PutAside
<1>7. OneStamp' /\ SeedData' /\ FilesData'
  BY <1>1, <1>4, <1>6, SeedUntouched DEF WInv, Told, OneStamp
<1>8. ClientData'
  <2>1. ClientTells(db'[Client], client'.emit, cut', db'[Seed].localSeq, Encode(clock'[Seed]))
    BY <1>1, <1>4, <1>5, <1>6 DEF WInv, Told, ClientData
  <2>2. here' => Copied(db'[Client], db'[Client].vector[Seed], issued', cut')
    BY <1>1, <1>6 DEF WInv, Told, ClientData
  <2>3. here' /\ unknown' = {} => Kept(db'[Client], PutAside', issued', Promised', doubt' \cup cut')
    <3>1. Promised' = Promised
      BY <1>1, <1>5, <1>6 DEF Promised, Base, Copying
    <3> QED
      BY <1>1, <1>6, <3>1 DEF WInv, Told, ClientData
  <2>4. db'[Client].fence <= Encode(clock'[Client])
    BY <1>1, <1>3, <1>4
  <2> QED
    BY <2>1, <2>2, <2>3, <2>4 DEF ClientData
<1>9. Aside'
  <2>1. ~ here' => rescue' = {} /\ KeysOf(Own(issued')) \subseteq doubt'
    BY <1>1, <1>6
  <2>2. client'.at \notin Copying \cup {"manifest", "sanitize", "close", "install"}
    BY <1>5 DEF Copying
  <2>3. here' /\ db'[Client].pending => PutAside' \subseteq db'[Client].log
    BY <1>1, <1>6 DEF WInv, Told, Aside
  <2>4. client'.left \cup client'.emit \subseteq PutAside'
        /\ PutAside' \ (client'.left \cup client'.emit) = {}
        /\ \A x, y \in client'.emit : x = y
    BY <1>5, <1>6
  <2>5. Replayed(db'[Client], issued', PutAside' \ (client'.left \cup client'.emit), doubt' \cup cut')
    BY <2>4 DEF Replayed
  <2> QED
    BY <1>5, <2>1, <2>2, <2>3, <2>4, <2>5 DEF Aside
<1> QED
  BY <1>7, <1>8, <1>9 DEF Told

\* A client that goes down has nothing in between, or its keys are cut.
LEMMA CrashTold == ASSUME WInv, Crash PROVE Told'
<1>1. /\ client' = Down /\ cut' = cut \cup KeysOf(client.emit)
      /\ UNCHANGED <<db, here, clock, seedVars, sidecar, rescue, issued, doubt, unknown, resyncs>>
  BY DEF Crash
<1>2. made' = made /\ PutAside' = PutAside /\ client'.at = "down" /\ client'.emit = {} /\ ~ Serving'
  BY <1>1, DownIs DEF seedVars, PutAside, Serving
<1>3. OneStamp' /\ SeedData' /\ FilesData'
  BY <1>1, SeedUntouched DEF WInv, Told, OneStamp
<1>4. issued \subseteq Op /\ client.emit \subseteq Op /\ db[Client].log \subseteq Op
  BY OwnIssued DEF WInv, IInv, Clocks, Rescued, Own
<1>5. ClientData'
  <2>1. ClientTells(db'[Client], client'.emit, cut', db'[Seed].localSeq, Encode(clock'[Seed]))
    <3>1. Consistent(db[Client], db[Client].log \cup client.emit, cut)
      BY DEF WInv, Told, ClientData, ClientTells
    <3>2. Consistent(db[Client], db[Client].log, cut')
      BY <1>1, <1>4, <3>1, ConsistentCut
    <3> QED
      BY <1>1, <1>2, <3>2 DEF WInv, Told, ClientData, ClientTells
  <2>2. here' => Copied(db'[Client], db'[Client].vector[Seed], issued', cut')
    BY <1>1 DEF WInv, Told, ClientData, Copied
  <2>3. here' /\ unknown' = {} => Kept(db'[Client], PutAside', issued', Promised', doubt' \cup cut')
    <3>1. SUFFICES ASSUME here, unknown = {}
                   PROVE  Kept(db[Client], PutAside, issued, Promised', doubt \cup cut')
      BY <1>1, <1>2
    <3>2. Kept(db[Client], PutAside, issued, Promised, doubt \cup cut)
      BY <3>1 DEF WInv, Told, ClientData
    <3>3. Promised \in Nat /\ Promised' \in Nat /\ Promised <= Promised'
      BY <1>2, PromiseIs, PromiseKept DEF WInv, Told, FilesData, Copying
    <3>4. doubt \cup cut \subseteq doubt \cup cut'
      BY <1>1
    <3> QED
      BY <1>4, <3>2, <3>3, <3>4, KeptGrows
  <2> QED
    BY <1>2, <2>1, <2>2, <2>3 DEF ClientData
<1>6. Aside'
  <2>1. ~ here' => rescue' = {} /\ KeysOf(Own(issued')) \subseteq doubt'
    BY <1>1 DEF WInv, Told, Aside
  <2>2. here' /\ db'[Client].pending => PutAside' \subseteq db'[Client].log
    BY <1>1, <1>2 DEF WInv, Told, Aside
  <2>3. client'.at \notin Copying \cup {"manifest", "sanitize", "close", "install"}
    BY <1>2 DEF Copying
  <2> QED
    BY <1>2, <2>1, <2>2, <2>3 DEF Aside
<1> QED
  BY <1>3, <1>5, <1>6 DEF Told

LEMMA LoopsIs ==
  ASSUME WInv, Loops
  PROVE  Serving /\ rescue = {} /\ PutAside = {} /\ client.left = {} /\ client.emit = {} /\ here
         /\ client.at = "serving"
<1>1. rescue = {} /\ Serving
  BY DEF WInv, Told, Aside, Loops
<1>2. PutAside = {}
  BY <1>1 DEF PutAside
<1>3. client.left \cup client.emit \subseteq PutAside
  BY <1>1 DEF WInv, Told, Aside
<1> QED
  BY <1>1, <1>2, <1>3 DEF WInv, IInv, Stages, Serving

LEMMA StopTold == ASSUME WInv, Stop PROVE Told'
<1>1. /\ client' = Down /\ Loops
      /\ db' = [db EXCEPT ![Client].hlc = Encode(clock[Client])]
      /\ UNCHANGED <<here, clock, seedVars, incoming, sidecar, rescue, issued, doubt, cut, unknown, events>>
  BY DEF Stop
<1> DEFINE d == db[Client]
           h == Encode(clock[Client])
           e == [d EXCEPT !.hlc = h]
<1>2. db'[Client] = e /\ db'[Seed] = db[Seed]
  BY <1>1, Nodes DEF WInv, IInv, Databases
<1> HIDE DEF h
<1>3. Same(d, e) /\ e.log = d.log /\ e.vector = d.vector /\ e.pending = d.pending
  BY ClientTimes DEF WInv, Database, Same
<1> HIDE DEF e
<1>4. rescue = {} /\ client.emit = {} /\ here
  BY <1>1, LoopsIs
<1>5. made' = made /\ PutAside' = PutAside /\ client'.at = "down" /\ client'.emit = {} /\ ~ Serving'
  BY <1>1, DownIs DEF seedVars, PutAside, Serving
<1>6. OneStamp' /\ SeedData' /\ FilesData'
  BY <1>1, <1>2, SeedUntouched DEF WInv, Told, OneStamp
<1>7. issued \subseteq Op
  BY DEF WInv, IInv, Clocks
<1>8. ClientData'
  <2>1. ClientTells(e, {}, cut, db[Seed].localSeq, Encode(clock[Seed]))
    <3>1. ClientTells(d, {}, cut, db[Seed].localSeq, Encode(clock[Seed]))
      BY <1>4 DEF WInv, Told, ClientData
    <3> QED
      BY <1>3, <3>1, ConsistentSame DEF ClientTells, Same
  <2>2. Copied(e, e.vector[Seed], issued, cut)
    <3>1. Copied(d, d.vector[Seed], issued, cut)
      BY <1>4 DEF WInv, Told, ClientData
    <3> QED
      BY <1>3, <3>1, SameShows DEF Copied, Same
  <2>3. unknown = {} => Kept(e, PutAside, issued, Promised', doubt \cup cut)
    <3>1. SUFFICES ASSUME unknown = {}
                   PROVE  Kept(e, PutAside, issued, Promised', doubt \cup cut)
      OBVIOUS
    <3>2. Kept(d, PutAside, issued, Promised, doubt \cup cut)
      BY <1>4, <3>1 DEF WInv, Told, ClientData
    <3>3. Promised \in Nat /\ Promised' \in Nat /\ Promised <= Promised'
      BY <1>5, PromiseIs, PromiseKept DEF WInv, Told, FilesData, Copying
    <3>4. \A o : Shows(d, o) => Shows(e, o)
      BY <1>3, SameShows
    <3> QED
      BY <1>3, <1>7, <3>2, <3>3, <3>4, KeptGrows
  <2> QED
    BY <1>1, <1>2, <1>5, <2>1, <2>2, <2>3 DEF ClientData
<1>9. Aside'
  <2>1. here' /\ rescue' = {} /\ PutAside' = {}
    BY <1>1, <1>4 DEF PutAside
  <2>2. client'.at \notin Copying \cup {"manifest", "sanitize", "close", "install"}
    BY <1>5 DEF Copying
  <2> QED
    BY <1>5, <2>1, <2>2 DEF Aside
<1> QED
  BY <1>6, <1>8, <1>9 DEF Told

LEMMA LoseDiskTold == ASSUME WInv, LoseDisk PROVE Told'
<1>1. /\ client.at = "down" /\ here' = FALSE /\ db' = [db EXCEPT ![Client] = Empty]
      /\ rescue' = {} /\ doubt' = doubt \cup KeysOf(Own(issued))
      /\ UNCHANGED <<clock, seedVars, client, issued, cut, unknown, resyncs>>
  BY DEF LoseDisk
<1>2. db'[Client] = Empty /\ db'[Seed] = db[Seed]
  BY <1>1, Nodes DEF WInv, IInv, Databases
<1>3. client.emit = {} /\ ~ Serving' /\ PutAside' = {}
  BY <1>1 DEF WInv, IInv, Rescued, Serving, PutAside
<1>4. OneStamp' /\ SeedData' /\ FilesData'
  BY <1>1, <1>2, SeedUntouched DEF WInv, Told, OneStamp
<1>5. ClientTells(Empty, {}, cut, db[Seed].localSeq, Encode(clock[Seed]))
  <2>1. Consistent(Empty, {}, cut)
    BY DEF Consistent, Empty
  <2>2. Empty.fence = 0 /\ Empty.vector[Seed] = 0 /\ Empty.log = {}
    BY Nodes DEF Empty
  <2> QED
    BY <2>1, <2>2, SeedTimes DEF ClientTells, WInv
<1>6. ClientData'
  BY <1>1, <1>2, <1>3, <1>5 DEF ClientData
<1>7. Aside'
  BY <1>1, <1>3 DEF Aside
<1> QED
  BY <1>4, <1>6, <1>7 DEF Told

\* The client gets back from the copy what it has not put aside.
LEMMA InstallTold == ASSUME WInv, Install PROVE Told'
<1> DEFINE m == made[client.id]
           d == db[Client]
           e == Installed(m, client.own, client.bytes)
           keep == IF here THEN {} ELSE Own(issued) \ m.db.log
<1>1. /\ client.at = "install" /\ Goes("open") /\ db' = [db EXCEPT ![Client] = e] /\ here' = TRUE
      /\ unknown' = unknown \cup keep
      /\ UNCHANGED <<clock, seedVars, rescue, issued, doubt, cut, resyncs, events>>
  BY DEF Install
<1>2. client.id \in DOMAIN made /\ client \in Process /\ client.emit = {} /\ client.at \in Copying
  BY <1>1 DEF WInv, IInv, Stages, Rescued, Copying
<1>3. m \in Snapshot /\ m.db \in Database /\ m.db.log \subseteq issued
  BY <1>2, MadeIs DEF WInv, IInv, SeedFiles, Sound
<1>4. Faithful(m, db[Seed], Encode(clock[Seed]), issued)
  BY <1>2 DEF WInv, Told, FilesData, FilesTell
<1> HIDE DEF m
<1>5. /\ Same(m.db, e) /\ e.log = m.db.log /\ e.pending = FALSE
      /\ e.vector[Seed] = m.vector[Seed]
  <2>1. Same(m.db, e) /\ e.log = m.db.log /\ e.pending = FALSE
        /\ e.vector = [m.db.vector EXCEPT ![Seed] = m.vector[Seed], ![Client] = 0]
    BY <1>3 DEF Installed, Database, Same
  <2>2. m.db.vector \in [Node -> Nat]
    BY <1>3 DEF Database, Vector
  <2> HIDE DEF e
  <2> QED
    BY <2>1, <2>2, Nodes
<1>6. db'[Client] = e /\ db'[Seed] = db[Seed]
  BY <1>1, Nodes DEF WInv, IInv, Databases
<1> HIDE DEF e
<1>7. client'.at = "open" /\ client'.emit = {} /\ ~ Serving' /\ made' = made /\ PutAside' = PutAside
  BY <1>1, <1>2, GoesTo DEF Places, Serving, seedVars, PutAside
<1>8. unknown \subseteq unknown' /\ unknown' \subseteq Own(issued)
  BY <1>1 DEF WInv, Told, OneStamp, Own
<1>9. OneStamp' /\ SeedData' /\ FilesData'
  BY <1>1, <1>6, <1>8, SeedUntouched DEF WInv, Told
<1>10. issued \subseteq Op /\ Settled(issued) /\ d.log \subseteq issued
  BY OwnIssued DEF WInv, Told, OneStamp, IInv, Clocks
<1>11. ClientTells(e, {}, cut, db[Seed].localSeq, Encode(clock[Seed]))
  <2>1. Consistent(e, e.log \cup {}, cut)
    BY <1>4, <1>5, ConsistentSame, ConsistentMore DEF Faithful
  <2>2. e.fence <= Encode(clock[Seed])
    <3>1. m.db.fence \in Nat /\ m.hlc \in Nat /\ Encode(clock[Seed]) \in Nat
      BY <1>3, SeedTimes DEF Snapshot, Database, WInv
    <3> QED
      BY <1>4, <1>5, <3>1 DEF Faithful, Same
  <2> QED
    BY <1>4, <1>5, <2>1, <2>2 DEF ClientTells, Faithful
<1>12. Copied(e, e.vector[Seed], issued, cut)
  <2>1. Copied(m.db, m.vector[Seed], issued, {})
    BY <1>4 DEF Faithful
  <2> QED
    BY <1>5, <2>1, SameShows DEF Copied, Same
<1>13. ASSUME unknown' = {}
       PROVE  Kept(e, PutAside, issued, Promised', doubt \cup cut)
  <2>1. unknown = {}
    BY <1>8, <1>13
  <2>2. Promised \in Nat /\ Promised' \in Nat /\ Promised <= Promised' /\ Promised = m.vector[Client]
    BY <1>2, <1>7, PromiseIs, PromiseKept DEF WInv, Told, FilesData, Copying, m
  <2>3. Acked(m.db, m.vector[Client], issued)
    BY <1>2, <2>1 DEF WInv, Told, FilesData, AllAcked, m
  <2> SUFFICES ASSUME NEW o \in Final(issued), o.src = Client, o.key \notin doubt \cup cut
               PROVE  \/ Has(e.log \cup PutAside, o)
                      \/ Shows(e, o) /\ \E x \in issued : SameWrite(x, o) /\ x.seq <= Promised'
    BY DEF Kept
  <2>4. o \in issued /\ o \in Own(issued)
    BY DEF Final, Own
  <2>5. here
    BY <2>4 DEF WInv, Told, Aside, KeysOf
  <2>6. Kept(d, PutAside, issued, Promised, doubt \cup cut)
    BY <2>1, <2>5 DEF WInv, Told, ClientData
  <2>7. Unheard(d, m) \subseteq PutAside
    BY <1>1, <2>5 DEF WInv, Told, Aside, m
  <2>8. ASSUME NEW x \in issued, SameWrite(x, o), x.seq <= m.vector[Client]
        PROVE  Shows(e, o) /\ x.seq <= Promised'
    <3>1. x \in Final(issued) /\ x.src = Client /\ x.seq \in Nat
      BY <1>10, <2>4, <2>8, SameShown, OpShown DEF SameWrite
    <3>2. Shows(m.db, x)
      BY <2>3, <2>8, <3>1 DEF Acked
    <3>3. Shows(m.db, o)
      BY <1>10, <2>4, <2>8, <3>2, SameShown
    <3> QED
      BY <1>5, <2>2, <2>8, <3>1, <3>3, SameShows
  <2>9. CASE Has(d.log \cup PutAside, o)
    <3>1. PICK x \in d.log \cup PutAside : SameWrite(x, o)
      BY <2>9 DEF Has
    <3>2. CASE x \in PutAside
      BY <3>1, <3>2 DEF Has
    <3>3. CASE x \in d.log \ PutAside
      <4>1. x \in issued /\ x.src = Client /\ x \in Own(d.log)
        BY <1>10, <3>1, <3>3 DEF SameWrite, Own
      <4>2. ~ (x.seq > m.vector[Client])
        BY <2>7, <3>3, <4>1 DEF Unheard
      <4>3. x.seq \in Nat /\ m.vector[Client] \in Nat
        BY <1>3, <1>10, <4>1, OpShown, Nodes DEF Snapshot, Vector
      <4>4. x.seq <= m.vector[Client]
        BY <4>2, <4>3
      <4> QED
        BY <2>8, <3>1, <4>1, <4>4
    <3> QED
      BY <3>1, <3>2, <3>3
  <2>10. ASSUME NEW x \in issued, SameWrite(x, o), x.seq <= Promised
         PROVE  Shows(e, o) /\ x.seq <= Promised'
    BY <2>2, <2>8, <2>10
  <2> QED
    BY <2>6, <2>8, <2>9, <2>10 DEF Kept
<1>14. ClientData'
  <2>1. ClientTells(db'[Client], client'.emit, cut', db'[Seed].localSeq, Encode(clock'[Seed]))
    BY <1>1, <1>6, <1>7, <1>11
  <2>2. Copied(db'[Client], db'[Client].vector[Seed], issued', cut')
    BY <1>1, <1>6, <1>12
  <2>3. unknown' = {} => Kept(db'[Client], PutAside', issued', Promised', doubt' \cup cut')
    BY <1>1, <1>6, <1>7, <1>13
  <2> QED
    BY <1>7, <2>1, <2>2, <2>3 DEF ClientData
<1>15. Aside'
  <2>1. here' /\ db'[Client].pending = FALSE
    BY <1>1, <1>5, <1>6
  <2>2. client'.at \notin Copying \cup {"manifest", "sanitize", "close", "install"}
    BY <1>7 DEF Copying
  <2> QED
    BY <1>7, <2>1, <2>2 DEF Aside
<1> QED
  BY <1>9, <1>14, <1>15 DEF Told

-----------------------------------------------------------------------------
(***************************************************************************)
(* The seed is busy with its files                                         *)
(***************************************************************************)
\* All but its files stays, and those the client knows stay as they are.
LEMMA FilesChange ==
  ASSUME WInv, UNCHANGED <<db, clock, clientVars, issued, history>>, FilesData',
         \A i \in DOMAIN made : made'[i] = made[i], Promised' \in Nat, Promised <= Promised'
  PROVE  Told'
<1>1. UNCHANGED <<here, rescue, client, doubt, cut, unknown>> /\ PutAside' = PutAside
  BY DEF clientVars, history, PutAside
<1>2. OneStamp' /\ SeedData'
  BY <1>1 DEF WInv, Told, OneStamp, Settled, SeedData
<1>3. Promised \in Nat /\ issued \subseteq Op
  BY PromiseIs DEF WInv, Told, FilesData, IInv, Clocks
<1>4. ClientData'
  <2>1. ClientTells(db'[Client], client'.emit, cut', db'[Seed].localSeq, Encode(clock'[Seed]))
    BY <1>1 DEF WInv, Told, ClientData
  <2>2. here' => Copied(db'[Client], db'[Client].vector[Seed], issued', cut')
    BY <1>1 DEF WInv, Told, ClientData
  <2>3. ASSUME here, unknown = {}
        PROVE  Kept(db[Client], PutAside, issued, Promised', doubt \cup cut)
    <3>1. Kept(db[Client], PutAside, issued, Promised, doubt \cup cut)
      BY <2>3 DEF WInv, Told, ClientData
    <3> QED
      BY <1>3, <3>1, KeptGrows
  <2>4. Serving' => db'[Client].fence <= Encode(clock'[Client])
    BY <1>1 DEF WInv, Told, ClientData, Serving
  <2> QED
    BY <1>1, <2>1, <2>2, <2>3, <2>4 DEF ClientData
<1>5. Aside'
  <2>1. ASSUME here, client.at \in {"sanitize", "close", "install"}
        PROVE  Unheard(db[Client], made'[client.id]) \subseteq PutAside
    <3>1. client.id \in DOMAIN made
      BY <2>1 DEF WInv, IInv, Stages
    <3> QED
      BY <2>1, <3>1 DEF WInv, Told, Aside
  <2> QED
    BY <1>1, <2>1 DEF WInv, Told, Aside, Serving
<1> QED
  BY <1>2, <1>4, <1>5 DEF Told

LEMMA VacuumTold == ASSUME WInv, Vacuum PROVE Told'
<1>1. PICK then \in reading : made' = Append(made, Prepared(then, db[Seed]))
  BY DEF Vacuum
<1>2. /\ reading' = {} /\ cached' = Len(made')
      /\ UNCHANGED <<db, clock, clientVars, issued, history, events>>
  BY DEF Vacuum
<1> DEFINE p == Prepared(then, db[Seed])
           d == db[Seed]
           c == Encode(clock[Seed])
<1>3. made \in Seq(Snapshot) /\ then \in Database /\ d \in Database /\ c \in Nat
  BY SeedTimes DEF WInv, IInv, SeedFiles
<1>4. Reads(then, made, d) /\ FilesTell(made, d, c, issued)
  BY DEF WInv, Told, FilesData
<1>5. /\ then.vector \in [Node -> Nat] /\ then.localSeq \in Nat
      /\ d.vector[Client] \in Nat /\ d.localSeq \in Nat /\ d.fence \in Nat
  BY <1>3, Nodes DEF Database, Vector
<1>6. p.db = d /\ p.hlc = c /\ p.vector[Client] = then.vector[Client] /\ p.vector[Seed] = then.localSeq
  <2>1. p.vector = [then.vector EXCEPT ![Seed] = Larger(then.vector[Seed], then.localSeq)]
    BY DEF Prepared, VectorOf
  <2>2. Larger(then.vector[Seed], then.localSeq) = then.localSeq
    BY <1>4, <1>5 DEF Reads, Larger
  <2> QED
    BY <1>5, <2>1, <2>2, Nodes DEF Prepared
<1>7. p \in Snapshot
  <2>1. p.vector \in Vector
    BY <1>5 DEF Prepared, VectorOf, Vector, Larger
  <2> QED
    BY <1>3, <2>1 DEF Prepared, Snapshot
<1> HIDE DEF p
<1>8. /\ Len(made') = Len(made) + 1 /\ Len(made) \in Nat
      /\ DOMAIN made' = 1 .. Len(made) + 1 /\ DOMAIN made = 1 .. Len(made)
      /\ made'[Len(made) + 1] = p /\ \A i \in 1 .. Len(made) : made'[i] = made[i]
  BY <1>1, <1>3, <1>7 DEF p
<1>9. SeedTells(d, c, issued)
  BY DEF WInv, Told, SeedData
<1>10. Faithful(p, d, c, issued)
  <2>1. Copied(p.db, p.vector[Seed], issued, {})
    BY <1>6, <1>9 DEF SeedTells, SeedShows, Copied
  <2> QED
    BY <1>3, <1>4, <1>5, <1>6, <1>9, <2>1 DEF Faithful, SeedTells, Reads
<1>11. \A i \in DOMAIN made : made[i].vector[Client] \in Nat /\ made[i].vector[Client] <= p.vector[Client]
  BY <1>4, <1>6, PromiseIs DEF WInv, Reads
<1>12. FilesTell(made', d, c, issued)
  <2>1. ASSUME NEW i \in DOMAIN made', NEW j \in DOMAIN made', i <= j
        PROVE  Faithful(made'[i], d, c, issued) /\ made'[i].vector[Client] <= made'[j].vector[Client]
    <3>1. CASE i = Len(made) + 1
      <4>1. j = i /\ p.vector[Client] \in Nat
        BY <1>5, <1>6, <1>8, <2>1, <3>1, Nodes
      <4> QED
        BY <1>8, <1>10, <3>1, <4>1
    <3>2. CASE i # Len(made) + 1
      <4>1. i \in DOMAIN made /\ Faithful(made'[i], d, c, issued)
        BY <1>4, <1>8, <3>2 DEF FilesTell
      <4>2. CASE j = Len(made) + 1
        BY <1>8, <1>11, <4>1, <4>2
      <4>3. CASE j # Len(made) + 1
        BY <1>4, <1>8, <2>1, <4>1, <4>3 DEF FilesTell
      <4> QED
        BY <4>1, <4>2, <4>3
    <3> QED
      BY <3>1, <3>2
  <2>2. \A i \in DOMAIN made' : Faithful(made'[i], d, c, issued)
    <3>1. \A i \in DOMAIN made' : i <= i
      BY <1>8
    <3> QED
      BY <2>1, <3>1
  <2> QED
    BY <2>1, <2>2 DEF FilesTell
<1>13. ASSUME unknown = {} PROVE AllAcked(made', issued)
  <2>1. Acked(p.db, p.vector[Client], issued)
    <3>1. Acked(d, d.vector[Client], issued)
      BY <1>13 DEF WInv, Told, SeedData
    <3>2. then.vector[Client] <= d.vector[Client] /\ then.vector[Client] \in Nat
      BY <1>4, <1>5, Nodes DEF Reads
    <3>3. \A o \in Final(issued) : o.seq \in Nat
      BY OpShown DEF Final, WInv, IInv, Clocks
    <3> QED
      BY <1>5, <1>6, <3>1, <3>2, <3>3 DEF Acked
  <2>2. AllAcked(made, issued)
    BY <1>13 DEF WInv, Told, FilesData
  <2> QED
    BY <1>8, <2>1, <2>2 DEF AllAcked
<1>14. FilesData'
  <2>1. unknown' = unknown
    BY <1>2 DEF history
  <2> QED
    BY <1>2, <1>12, <1>13, <2>1 DEF FilesData
<1>15. Promised' \in Nat /\ Promised <= Promised'
  <2>1. client' = client
    BY <1>2 DEF clientVars
  <2>2. p.vector[Client] \in Nat
    BY <1>5, <1>6, Nodes
  <2>3. CASE client.at \in Copying
    <3>1. Base' = Base /\ Base \in DOMAIN made
      BY <2>1, <2>3, PromiseIs DEF Base, WInv, Told, FilesData
    <3> QED
      BY <1>8, <1>11, <3>1 DEF Promised
  <2>4. CASE client.at \notin Copying
    <3>1. Base' = Len(made) + 1 /\ Base = Len(made)
      BY <1>8, <2>1, <2>4 DEF Base
    <3> QED
      BY <1>8, <1>11, <2>2, <3>1 DEF Promised
  <2> QED
    BY <2>3, <2>4
<1> QED
  BY <1>2, <1>8, <1>14, <1>15, FilesChange

LEMMA SeedPreparesTold == ASSUME WInv, SeedPrepares PROVE Told'
<1>1. CASE Vacuum
  BY <1>1, VacuumTold
<1>2. CASE ReadVector \/ Cleanup \/ SeedRestart
  <2>1. made' = made /\ UNCHANGED <<db, clock, clientVars, issued, history>>
    BY <1>2 DEF ReadVector, Cleanup, SeedRestart
  <2>2. cached' \in {cached, 0} /\ reading' \in {reading, {}, {db[Seed]}}
    BY <1>2 DEF ReadVector, Cleanup, SeedRestart
  <2>3. Reads(db[Seed], made, db[Seed])
    <3>1. db[Seed].vector[Client] \in Nat /\ db[Seed].localSeq \in Nat
      BY SeedTimes, Nodes DEF Database, Vector, WInv
    <3> QED
      BY <3>1 DEF WInv, Told, FilesData, FilesTell, Faithful, SeedData, SeedTells, Reads
  <2>4. \A then \in reading' : Reads(then, made, db[Seed])
    BY <2>2, <2>3 DEF WInv, Told, FilesData
  <2>5. unknown' = unknown /\ client' = client
    BY <2>1 DEF history, clientVars
  <2>6. FilesData'
    BY <2>1, <2>2, <2>4, <2>5 DEF WInv, Told, FilesData
  <2>7. Promised' = Promised /\ Promised \in Nat
    BY <2>1, <2>5, PromiseIs DEF WInv, Told, FilesData, Promised, Base
  <2> QED
    BY <2>1, <2>6, <2>7, FilesChange
<1> QED
  BY <1>1, <1>2 DEF SeedPrepares

-----------------------------------------------------------------------------
(***************************************************************************)
(* The client serves                                                       *)
(***************************************************************************)
LEMMA SettledNew ==
  ASSUME NEW all, Settled(all), NEW o, \A y \in all : ~ SameWrite(y, o)
  PROVE  Settled(all \cup {o})
BY DEF Settled, SameWrite

LEMMA SettledAgain ==
  ASSUME NEW all, Settled(all), NEW o \in all, o.src = Client, NEW x, SameWrite(x, o),
         x.type = o.type, x.key = o.key
  PROVE  Settled(all \cup {x})
<1> SUFFICES ASSUME NEW y \in all \cup {x}, NEW z \in all \cup {x}, SameWrite(y, z)
             PROVE  y.type = z.type /\ y.key = z.key /\ (y.src = Seed => y = z)
  BY DEF Settled
<1>1. x.src # Seed
  BY Nodes DEF SameWrite
<1>2. CASE y \in all /\ z \in all
  BY <1>2 DEF Settled
<1>3. CASE y = x /\ z \in all
  <2>1. SameWrite(o, z)
    BY <1>3 DEF SameWrite
  <2> QED
    BY <1>1, <1>3, <2>1 DEF Settled
<1>4. CASE y \in all /\ z = x
  <2>1. SameWrite(y, o)
    BY <1>4 DEF SameWrite
  <2> QED
    BY <1>1, <1>4, <2>1 DEF Settled, SameWrite
<1>5. CASE y = x /\ z = x
  BY <1>5
<1> QED
  BY <1>2, <1>3, <1>4, <1>5

\* The seed does not acknowledge a number before it is used.
LEMMA NewIsFresh ==
  ASSUME WInv, here, unknown = {}
  PROVE  db[Client].localSeq + 1 > db[Seed].vector[Client]
<1>1. db[Seed].vector[Client] \in Nat /\ db[Client].localSeq \in Nat
  BY SeedTimes, ClientTimes, Nodes DEF Database, Vector, WInv
<1>2. CASE db[Seed].vector[Client] = 0
  BY <1>1, <1>2
<1>3. CASE db[Seed].vector[Client] # 0
  <2>1. PICK o \in Own(issued) : o.seq = db[Seed].vector[Client]
    BY <1>3 DEF WInv, Told, SeedData, SeedTells
  <2>2. o.seq <= db[Client].localSeq
    BY DEF WInv, IInv, Numbers
  <2> QED
    BY <1>1, <2>1, <2>2
<1> QED
  BY <1>2, <1>3

\* What has been put aside is the client's own.
LEMMA AsideIssued == ASSUME IInv PROVE PutAside \subseteq Own(issued) /\ PutAside \subseteq issued
BY DEF IInv, Rescued, PutAside, Own

\* The client changes its database, and issues operations or replays some.
LEMMA ServesTold ==
  ASSUME WInv, client.at = "serving", client'.at = "serving",
         UNCHANGED <<here, seedVars, rescue, cut, unknown>>, doubt \subseteq doubt',
         db'[Seed] = db[Seed], clock'[Seed] = clock[Seed],
         db[Client].fence <= Encode(clock'[Client]),
         issued \subseteq issued', issued' \subseteq Op, Settled(issued'),
         NEW d, d = db[Client], NEW e, e = db'[Client],
         Consistent(e, e.log \cup client'.emit, cut), e.fence = d.fence, e.vector = d.vector,
         e.pending = d.pending, d.log \subseteq e.log,
         \A x \in issued' \ issued : x.src = Client /\ x.seq = d.localSeq + 1 /\ Has(e.log, x),
         \A o \in Final(issued') : o \in issued /\ Shows(d, o) => Shows(e, o),
         client'.replaying = client.replaying,
         client'.left \cup client'.emit \subseteq client.left \cup client.emit,
         \A x, y \in client'.emit : x = y,
         \A y \in (client.left \cup client.emit) \ (client'.left \cup client'.emit) :
           y \in Final(issued') /\ y.key \notin doubt' \cup cut => Has(e.log, y)
  PROVE  Told'
<1>1. made' = made /\ reading' = reading /\ cached' = cached /\ PutAside' = PutAside
      /\ here /\ here' /\ Serving /\ Serving'
  BY DEF seedVars, PutAside, WInv, IInv, Stages, Serving
<1>2. db[Seed] \in Database /\ Encode(clock[Seed]) \in Nat /\ made \in Seq(Snapshot)
      /\ Encode(clock[Seed]) <= Encode(clock[Seed])
      /\ db[Seed].vector[Client] <= db[Seed].vector[Client] /\ db[Seed].localSeq <= db[Seed].localSeq
  <2>1. db[Seed] \in Database /\ Encode(clock[Seed]) \in Nat /\ made \in Seq(Snapshot)
    BY SeedTimes DEF WInv, IInv, SeedFiles
  <2>2. db[Seed].vector[Client] \in Nat /\ db[Seed].localSeq \in Nat
    BY <2>1, Nodes DEF Database, Vector
  <2> QED
    BY <2>1, <2>2
<1>3. unknown = {} => Fresh(db[Seed], issued, issued')
  BY <1>1, NewIsFresh DEF Fresh
<1>4. Beyond(db[Seed], Encode(clock[Seed]), issued, issued')
  BY Nodes DEF Beyond
<1>5. OneStamp'
  BY DEF WInv, Told, OneStamp, Own
<1>6. SeedData'
  <2>1. SeedTells(db[Seed], Encode(clock[Seed]), issued')
    BY <1>2, SeedGrows DEF WInv, Told, SeedData
  <2>2. unknown = {} => Acked(db[Seed], db[Seed].vector[Client], issued')
    BY <1>2, <1>3, SeedGrows DEF WInv, Told, SeedData
  <2> QED
    BY <2>1, <2>2 DEF SeedData
<1>7. FilesData'
  <2>1. FilesTell(made, db[Seed], Encode(clock[Seed]), issued')
    BY <1>2, <1>4, FilesGrow DEF WInv, Told, FilesData
  <2>2. unknown = {} => AllAcked(made, issued')
    BY <1>2, <1>3, <1>4, FilesGrow DEF WInv, Told, FilesData
  <2>3. cached' \in {0, Len(made')} /\ \A then \in reading' : Reads(then, made', db'[Seed])
    BY <1>1 DEF WInv, Told, FilesData
  <2> QED
    BY <1>1, <2>1, <2>2, <2>3 DEF FilesData
<1>8. ClientTells(d, client.emit, cut, db[Seed].localSeq, Encode(clock[Seed]))
  BY DEF WInv, Told, ClientData
<1>9. ClientData'
  <2>1. ClientTells(e, client'.emit, cut, db[Seed].localSeq, Encode(clock[Seed]))
    BY <1>8 DEF ClientTells
  <2>2. Copied(e, e.vector[Seed], issued', cut)
    <3>1. Copied(d, d.vector[Seed], issued, cut)
      BY <1>1 DEF WInv, Told, ClientData
    <3>2. \A x \in issued' \ issued : x.src # Seed
      BY Nodes
    <3> QED
      BY <3>1, <3>2, CopiedGrows
  <2>3. unknown = {} => Kept(e, PutAside, issued', Promised', doubt' \cup cut)
    <3>1. SUFFICES ASSUME unknown = {}
                   PROVE  Kept(e, PutAside, issued', Promised', doubt' \cup cut)
      OBVIOUS
    <3>2. Kept(d, PutAside, issued, Promised, doubt \cup cut)
      BY <1>1, <3>1 DEF WInv, Told, ClientData
    <3>3. Promised' = Promised
      BY <1>1 DEF Promised, Base, Copying
    <3>4. Promised \in Nat /\ Promised <= Promised
      BY PromiseIs DEF WInv, Told, FilesData
    <3>5. doubt \cup cut \subseteq doubt' \cup cut
      OBVIOUS
    <3>6. \A x \in issued' \ issued : x.src = Client => Has(e.log, x)
      OBVIOUS
    <3> QED
      BY <3>2, <3>3, <3>4, <3>5, <3>6, KeptGrows
  <2> QED
    BY <1>1, <2>1, <2>2, <2>3 DEF ClientData
<1>10. Aside'
  <2>1. here /\ db'[Client].pending => PutAside \subseteq e.log
    BY DEF WInv, Told, Aside
  <2>2. client'.at \notin Copying \cup {"manifest", "sanitize", "close", "install"}
    BY DEF Copying
  <2>3. ~ client'.replaying => rescue' = {}
    BY <1>1 DEF WInv, Told, Aside
  <2>4. client.left \cup client.emit \subseteq PutAside
        /\ Replayed(d, issued, PutAside \ (client.left \cup client.emit), doubt \cup cut)
    BY <1>1 DEF WInv, Told, Aside
  <2>5. Replayed(e, issued', PutAside \ (client'.left \cup client'.emit), doubt' \cup cut)
    <3> SUFFICES ASSUME NEW y \in PutAside \ (client'.left \cup client'.emit),
                        y \in Final(issued'), y.key \notin doubt' \cup cut
                 PROVE  Has(e.log, y)
      BY DEF Replayed
    <3>1. CASE y \in client.left \cup client.emit
      BY <3>1
    <3>2. CASE y \notin client.left \cup client.emit
      <4>1. y \in issued
        BY AsideIssued DEF WInv
      <4>2. y \in Final(issued)
        BY <4>1, FinalGrows
      <4>3. Has(d.log, y)
        BY <2>4, <3>2, <4>2 DEF Replayed
      <4> QED
        BY <4>3 DEF Has
    <3> QED
      BY <3>1, <3>2
  <2>6. client'.left \cup client'.emit \subseteq PutAside
    BY <2>4
  <2> QED
    BY <1>1, <2>1, <2>2, <2>3, <2>5, <2>6 DEF Aside
<1> QED
  BY <1>5, <1>6, <1>7, <1>9, <1>10 DEF Told

-----------------------------------------------------------------------------
(***************************************************************************)
(* The client replays                                                      *)
(***************************************************************************)
\* An operation that is next to be replayed.
LEMMA NextIs ==
  ASSUME WInv, NEW o \in client.left, IsNext(o)
  PROVE  /\ client \in Process /\ client.at = "serving" /\ client.emit = {} /\ Serving /\ here
         /\ o \in issued /\ o \in Op /\ o.src = Client /\ o \in PutAside
         /\ db[Client] \in Database /\ db[Client].log \subseteq issued
         /\ issued \subseteq Op /\ Settled(issued)
         /\ Consistent(db[Client], db[Client].log, cut)
         /\ db[Client].fence <= Encode(clock[Client])
<1>1. client.emit = {} /\ Serving /\ client.at = "serving"
  BY DEF IsNext, Serving
<1>2. o \in Own(issued) /\ issued \subseteq Op
  BY DEF WInv, IInv, Rescued, Clocks
<1>3. Consistent(db[Client], db[Client].log \cup {}, cut) /\ db[Client].fence <= Encode(clock[Client])
  BY <1>1 DEF WInv, Told, ClientData, ClientTells
<1>4. o \in PutAside
  BY <1>1 DEF WInv, Told, Aside
<1>5. client \in Process /\ here /\ db[Client] \in Database /\ db[Client].log \subseteq issued
  BY <1>1, ClientTimes, OwnIssued DEF WInv, IInv, Stages
<1> QED
  BY <1>1, <1>2, <1>3, <1>4, <1>5 DEF Own, WInv, Told, OneStamp

\* What is passed over has lost, or is in doubt.
LEMMA PassedTold ==
  ASSUME WInv, NEW o \in client.left, IsNext(o), Passes(o), doubt \subseteq doubt',
         UNCHANGED <<db, here, clock, seedVars, rescue, issued, cut, unknown>>,
         o \in Final(issued) /\ o.key \notin doubt' \cup cut => Has(db[Client].log, o)
  PROVE  Told'
<1>1. client \in Process /\ client.at = "serving" /\ client.emit = {} /\ issued \subseteq Op
      /\ Settled(issued) /\ Consistent(db[Client], db[Client].log \cup {}, cut)
      /\ db[Client].fence <= Encode(clock[Client])
  BY NextIs
<1>2. client' = [client EXCEPT !.left = client.left \ {o}]
  BY DEF Passes
<1>3. client'.at = "serving" /\ client'.left = client.left \ {o} /\ client'.emit = {}
      /\ client'.replaying = client.replaying
  BY <1>1, <1>2 DEF Process
<1>4. \A y \in (client.left \cup client.emit) \ (client'.left \cup client'.emit) : y = o
  BY <1>1, <1>3
<1> DEFINE d == db[Client]
<1>5. Consistent(d, d.log \cup client'.emit, cut)
  BY <1>1, <1>3
<1>6. d = db'[Client] /\ issued' \ issued = {} /\ \A y \in Final(issued') : Shows(d, y) => Shows(d, y)
  OBVIOUS
<1>7. client'.left \cup client'.emit \subseteq client.left \cup client.emit
      /\ \A x, y \in client'.emit : x = y
  BY <1>3
<1>8. \A y \in (client.left \cup client.emit) \ (client'.left \cup client'.emit) :
        y \in Final(issued') /\ y.key \notin doubt' \cup cut => Has(d.log, y)
  BY <1>4
<1> HIDE DEF d
<1> QED
  BY <1>1, <1>3, <1>5, <1>6, <1>7, <1>8, ServesTold DEF d

\* A last word that does not supersede what is shown has its operation in the log.
LEMMA LosesHas ==
  ASSUME NEW all \in SUBSET Op, NEW d, NEW ops \in SUBSET all, NEW but, Consistent(d, ops, but),
         NEW o \in Final(all), o.key \notin but, ~ Less(d.version[o.key], o)
  PROVE  Has(ops, o)
<1>1. o \in Op /\ o.key \in Key
  BY OpShown DEF Final
<1>2. d.version[o.key] # NoVersion
  BY <1>1, StampOrder
<1>3. PICK x \in ops : x.key = o.key /\ d.version[o.key] = Stamp(x)
  BY <1>1, <1>2 DEF Consistent
<1>4. ~ Less(x, o)
  BY <1>1, <1>3, StampOrder
<1>5. SameWrite(x, o)
  BY <1>3, <1>4, FinalIsOne
<1> QED
  BY <1>5 DEF Has

LEMMA ReplayPassesTold == ASSUME WInv, ReplayLoses \/ ReplayFenced \/ ReplayFails PROVE Told'
<1>1. CASE ReplayLoses
  <2>1. PICK o \in client.left : IsNext(o) /\ ~ Supersedes(Client, o) /\ Passes(o)
    BY <1>1 DEF ReplayLoses
  <2>2. UNCHANGED <<db, here, clock, seedVars, incoming, sidecar, rescue, issued, history, events>>
    BY <1>1 DEF ReplayLoses
  <2>3. o \in Final(issued) /\ o.key \notin doubt' \cup cut => Has(db[Client].log, o)
    BY <2>1, NextIs, LosesHas DEF Supersedes
  <2> QED
    BY <2>1, <2>2, <2>3, PassedTold DEF history
<1>2. CASE ReplayFenced
  <2>1. PICK o \in client.left : IsNext(o) /\ Passes(o) /\ doubt' = doubt \cup {o.key}
    BY <1>2 DEF ReplayFenced
  <2>2. UNCHANGED <<db, here, clock, seedVars, incoming, sidecar, rescue, issued, cut, unknown, resyncs, events>>
    BY <1>2 DEF ReplayFenced
  <2> QED
    BY <2>1, <2>2, PassedTold
<1>3. CASE ReplayFails
  <2>1. PICK o \in client.left : IsNext(o) /\ Passes(o) /\ doubt' = doubt \cup {o.key}
    BY <1>3 DEF ReplayFails
  <2>2. UNCHANGED <<db, here, clock, seedVars, incoming, sidecar, rescue, issued, cut, unknown, resyncs>>
    BY <1>3 DEF ReplayFails
  <2> QED
    BY <2>1, <2>2, PassedTold
<1> QED
  BY <1>1, <1>2, <1>3

\* A record is applied and issued again at once.
LEMMA ReplayRecordTold == ASSUME WInv, IInv', ReplayRecord PROVE Told'
<1>1. PICK o \in client.left :
        /\ IsNext(o) /\ Supersedes(Client, o) /\ ~ Fenced(o) /\ Passes(o)
        /\ db' = [db EXCEPT ![Client] = With(Issues(@, o, @.localSeq + 1), o)]
        /\ issued' = issued \cup {[o EXCEPT !.seq = db'[Client].localSeq]}
  BY DEF ReplayRecord
<1>2. UNCHANGED <<here, clock, seedVars, incoming, sidecar, rescue, history, events>>
  BY DEF ReplayRecord
<1> DEFINE d == db[Client]
           s == d.localSeq + 1
           f == Issues(d, o, s)
           e == With(f, o)
           x == [o EXCEPT !.seq = s]
<1>3. /\ client \in Process /\ client.at = "serving" /\ client.emit = {}
      /\ o \in issued /\ o \in Op /\ o.src = Client /\ d \in Database /\ d.log \subseteq issued
      /\ issued \subseteq Op /\ Settled(issued) /\ Consistent(d, d.log, cut)
      /\ d.fence <= Encode(clock[Client])
  BY <1>1, NextIs
<1>4. s \in Nat \ {0} /\ s = d.localSeq + 1
  BY ClientTimes DEF WInv
<1>5. db'[Client] = e /\ db'[Seed] = db[Seed]
  BY <1>1, Nodes DEF WInv, IInv, Databases
<1> HIDE DEF s
<1>6. /\ x \in Op /\ x.key = o.key /\ x.src = Client /\ x.type = o.type /\ x.seq = s
      /\ SameWrite(x, o) /\ Stamp(x) = Stamp(o) /\ Written(x) = Written(o)
  BY <1>3, <1>4, Renumbered
<1>7. /\ f \in Database /\ f.log = d.log \cup {x} /\ f.version = d.version /\ f.localSeq = s
      /\ f.row = d.row /\ f.fence = d.fence /\ f.vector = d.vector /\ f.pending = d.pending
  BY <1>3, <1>4, IssuesIs, IssuesShows
<1> HIDE DEF f, x
<1>8. /\ Becomes(f, o, e) /\ e.log = f.log /\ e.vector = f.vector /\ e.pending = f.pending
      /\ e.localSeq = f.localSeq
  BY <1>3, <1>7, WithIs, WithBecomes
<1> HIDE DEF e
<1>9. issued' = issued \cup {x} /\ issued' \subseteq Op
  BY <1>1, <1>3, <1>5, <1>6, <1>7, <1>8 DEF x
<1>10. Less(d.version[o.key], o) /\ ~ Behind(d, o)
  BY <1>1 DEF Supersedes, Fenced, BehindFence, Behind
<1>11. Becomes(d, o, e)
  BY <1>7, <1>8 DEF Becomes
<1>12. Consistent(e, e.log, cut)
  BY <1>3, <1>6, <1>7, <1>8, <1>10, <1>11, BecomesConsistent
<1>13. \A y \in Final(issued') : y \in issued /\ Shows(d, y) => Shows(e, y)
  BY <1>3, <1>6, <1>9, <1>10, <1>11, BecomesShows
<1>14. Settled(issued')
  BY <1>3, <1>6, <1>9, SettledAgain
<1>15. client'.at = "serving" /\ client'.left = client.left \ {o} /\ client'.emit = {}
       /\ client'.replaying = client.replaying
  BY <1>1, <1>3 DEF Passes, Process
<1>16. x \in e.log /\ d.log \subseteq e.log /\ Has(e.log, x) /\ Has(e.log, o)
  BY <1>6, <1>7, <1>8 DEF Has, SameWrite
<1>17. \A y \in (client.left \cup client.emit) \ (client'.left \cup client'.emit) : y = o
  BY <1>3, <1>15
<1>18. client'.left \cup client'.emit \subseteq client.left \cup client.emit
       /\ \A y, z \in client'.emit : y = z
  BY <1>15
<1>19. \A y \in issued' \ issued : y.src = Client /\ y.seq = d.localSeq + 1 /\ Has(e.log, y)
  BY <1>4, <1>6, <1>9, <1>16
<1>20. \A y \in (client.left \cup client.emit) \ (client'.left \cup client'.emit) :
         y \in Final(issued') /\ y.key \notin doubt' \cup cut => Has(e.log, y)
  BY <1>16, <1>17
<1>21. UNCHANGED <<here, seedVars, rescue, cut, unknown>> /\ doubt \subseteq doubt'
       /\ clock'[Seed] = clock[Seed] /\ d.fence <= Encode(clock'[Client])
       /\ issued \subseteq issued' /\ Consistent(e, e.log \cup client'.emit, cut)
       /\ e.fence = d.fence /\ e.vector = d.vector /\ e.pending = d.pending
  BY <1>2, <1>3, <1>7, <1>8, <1>9, <1>11, <1>12, <1>15 DEF history, Becomes
<1> HIDE DEF d
<1> QED
  BY <1>3, <1>5, <1>9, <1>13, <1>14, <1>15, <1>16, <1>18, <1>19, <1>20, <1>21, ServesTold DEF d

\* A collection is applied; it is issued again in the next transaction.
LEMMA ReplaySchemaTold == ASSUME WInv, ReplaySchema PROVE Told'
<1>1. PICK o \in client.left :
        /\ IsNext(o) /\ Supersedes(Client, o) /\ ~ Fenced(o)
        /\ db' = [db EXCEPT ![Client] = With(@, o)]
        /\ client' = [client EXCEPT !.left = client.left \ {o}, !.emit = {o}]
  BY DEF ReplaySchema
<1>2. UNCHANGED <<here, clock, seedVars, incoming, sidecar, rescue, issued, history, events>>
  BY DEF ReplaySchema
<1> DEFINE d == db[Client]
           e == With(d, o)
<1>3. /\ client \in Process /\ client.at = "serving" /\ client.emit = {}
      /\ o \in issued /\ o \in Op /\ o.src = Client /\ d \in Database /\ d.log \subseteq issued
      /\ issued \subseteq Op /\ Settled(issued) /\ Consistent(d, d.log, cut)
      /\ d.fence <= Encode(clock[Client])
  BY <1>1, NextIs
<1>4. db'[Client] = e /\ db'[Seed] = db[Seed]
  BY <1>1, Nodes DEF WInv, IInv, Databases
<1>5. Becomes(d, o, e) /\ e.log = d.log /\ e.vector = d.vector /\ e.pending = d.pending
  BY <1>3, WithIs, WithBecomes
<1> HIDE DEF e
<1>6. client'.at = "serving" /\ client'.left = client.left \ {o} /\ client'.emit = {o}
       /\ client'.replaying = client.replaying
  BY <1>1, <1>3 DEF Process
<1>7. Less(d.version[o.key], o) /\ ~ Behind(d, o)
  BY <1>1 DEF Supersedes, Fenced, BehindFence, Behind
<1>8. Consistent(e, e.log \cup client'.emit, cut)
  <2>1. d.log \in SUBSET Op
    BY <1>3
  <2> QED
    BY <1>3, <1>5, <1>6, <1>7, <2>1, BecomesConsistent
<1>9. \A y \in Final(issued') : y \in issued /\ Shows(d, y) => Shows(e, y)
  BY <1>2, <1>3, <1>5, <1>7, BecomesShows
<1>10. client'.left \cup client'.emit \subseteq client.left \cup client.emit
       /\ \A y, z \in client'.emit : y = z
       /\ (client.left \cup client.emit) \ (client'.left \cup client'.emit) = {}
  BY <1>3, <1>6
<1>11. UNCHANGED <<here, seedVars, rescue, cut, unknown>> /\ doubt \subseteq doubt'
       /\ clock'[Seed] = clock[Seed] /\ d.fence <= Encode(clock'[Client]) /\ issued' \ issued = {}
       /\ issued \subseteq issued' /\ issued' \subseteq Op /\ Settled(issued')
       /\ e.fence = d.fence /\ d.log \subseteq e.log
  BY <1>2, <1>3, <1>5 DEF history, Becomes
<1> HIDE DEF d
<1> QED
  BY <1>3, <1>4, <1>5, <1>6, <1>8, <1>9, <1>10, <1>11, ServesTold DEF d

LEMMA ReplayEmitTold == ASSUME WInv, IInv', ReplayEmit PROVE Told'
<1>1. PICK o \in client.emit :
        /\ db' = [db EXCEPT ![Client] = Issues(@, o, @.localSeq + 1)]
        /\ issued' = issued \cup {[o EXCEPT !.seq = db'[Client].localSeq]}
  BY DEF ReplayEmit
<1>2. client' = [client EXCEPT !.emit = {}]
      /\ UNCHANGED <<here, clock, seedVars, incoming, sidecar, rescue, history, events>>
  BY DEF ReplayEmit
<1> DEFINE d == db[Client]
           s == d.localSeq + 1
           e == Issues(d, o, s)
           x == [o EXCEPT !.seq = s]
<1>3. client \in Process /\ client.at = "serving" /\ Serving /\ here
  BY <1>1 DEF WInv, IInv, Stages, Rescued, Serving
<1>4. client.emit = {o}
  BY <1>1, <1>3 DEF WInv, Told, Aside
<1>5. /\ o \in issued /\ o \in Op /\ o.src = Client /\ d \in Database /\ d.log \subseteq issued
      /\ issued \subseteq Op /\ Settled(issued)
  BY <1>1, ClientTimes, OwnIssued DEF WInv, Told, OneStamp, IInv, Rescued, Clocks, Own
<1>6. Consistent(d, d.log \cup {o}, cut) /\ d.fence <= Encode(clock[Client])
  BY <1>3, <1>4 DEF WInv, Told, ClientData, ClientTells
<1>7. s \in Nat \ {0} /\ s = d.localSeq + 1
  BY ClientTimes DEF WInv
<1>8. db'[Client] = e /\ db'[Seed] = db[Seed]
  BY <1>1, Nodes DEF WInv, IInv, Databases
<1> HIDE DEF s
<1>9. /\ x \in Op /\ x.key = o.key /\ x.src = Client /\ x.type = o.type /\ x.seq = s
      /\ SameWrite(x, o) /\ Stamp(x) = Stamp(o) /\ Written(x) = Written(o)
  BY <1>5, <1>7, Renumbered
<1>10. /\ e.log = d.log \cup {x} /\ Same(d, e) /\ e.localSeq = s
       /\ e.vector = d.vector /\ e.pending = d.pending
  BY <1>5, <1>7, IssuesIs, IssuesShows DEF Same
<1> HIDE DEF e, x
<1>11. issued' = issued \cup {x} /\ issued' \subseteq Op
  BY <1>1, <1>5, <1>8, <1>9, <1>10 DEF x
<1>12. Consistent(e, e.log, cut)
  <2>1. Consistent(d, d.log \cup {x}, cut)
    BY <1>5, <1>6, <1>9, ConsistentRenumbered
  <2> QED
    BY <1>10, <2>1, ConsistentSame
<1>13. \A y \in Final(issued') : y \in issued /\ Shows(d, y) => Shows(e, y)
  BY <1>10, SameShows
<1>14. Settled(issued')
  BY <1>5, <1>9, <1>11, SettledAgain
<1>15. client'.at = "serving" /\ client'.left = client.left /\ client'.emit = {}
       /\ client'.replaying = client.replaying
  BY <1>2, <1>3 DEF Process
<1>16. x \in e.log /\ d.log \subseteq e.log /\ Has(e.log, x) /\ Has(e.log, o)
  BY <1>9, <1>10 DEF Has, SameWrite
<1>17. client'.left \cup client'.emit \subseteq client.left \cup client.emit
       /\ \A a, b \in client'.emit : a = b
       /\ \A y \in (client.left \cup client.emit) \ (client'.left \cup client'.emit) : y = o
  BY <1>4, <1>15
<1>18. \A y \in issued' \ issued : y.src = Client /\ y.seq = d.localSeq + 1 /\ Has(e.log, y)
  BY <1>7, <1>9, <1>11, <1>16
<1>19. \A y \in (client.left \cup client.emit) \ (client'.left \cup client'.emit) :
         y \in Final(issued') /\ y.key \notin doubt' \cup cut => Has(e.log, y)
  BY <1>4, <1>15, <1>16
<1>20. UNCHANGED <<here, seedVars, rescue, cut, unknown>> /\ doubt \subseteq doubt'
       /\ clock'[Seed] = clock[Seed] /\ d.fence <= Encode(clock'[Client])
       /\ issued \subseteq issued' /\ Consistent(e, e.log \cup client'.emit, cut)
       /\ e.fence = d.fence /\ e.vector = d.vector /\ e.pending = d.pending
  BY <1>2, <1>6, <1>10, <1>11, <1>12, <1>15 DEF history, Same
<1> HIDE DEF d
<1> QED
  BY <1>3, <1>8, <1>11, <1>13, <1>14, <1>15, <1>16, <1>17, <1>18, <1>19, <1>20, ServesTold DEF d

\* At the end of the replay nothing needs to be put aside.
LEMMA ReplayEndsTold == ASSUME WInv, ReplayEnds PROVE Told'
<1>1. /\ Serving /\ client.left = {} /\ client.emit = {}
      /\ client' = [client EXCEPT !.replaying = FALSE] /\ rescue' = {}
      /\ UNCHANGED <<db, here, clock, seedVars, incoming, sidecar, issued, history, events>>
  BY DEF ReplayEnds
<1>2. client'.at = "serving" /\ client'.left = {} /\ client'.emit = {}
      /\ client.at = "serving" /\ here
  BY <1>1 DEF WInv, IInv, Stages, Process, Serving
<1>3. made' = made /\ PutAside' = {} /\ UNCHANGED <<doubt, cut, unknown>>
  BY <1>1 DEF seedVars, PutAside, history
<1>4. OneStamp' /\ SeedData' /\ FilesData'
  BY <1>1, <1>3, SeedUntouched DEF WInv, Told, OneStamp
<1>5. Replayed(db[Client], issued, PutAside, doubt \cup cut)
  <2>1. PutAside \ (client.left \cup client.emit) = PutAside
    BY <1>1
  <2> QED
    BY <1>1, <2>1 DEF WInv, Told, Aside
<1>6. ClientData'
  <2>1. ClientTells(db'[Client], client'.emit, cut', db'[Seed].localSeq, Encode(clock'[Seed]))
    BY <1>1, <1>2, <1>3 DEF WInv, Told, ClientData
  <2>2. here' => Copied(db'[Client], db'[Client].vector[Seed], issued', cut')
    BY <1>1, <1>3 DEF WInv, Told, ClientData
  <2>3. unknown = {} => Kept(db[Client], {}, issued, Promised, doubt \cup cut)
    <3> SUFFICES ASSUME unknown = {}, NEW o \in Final(issued), o.src = Client, o.key \notin doubt \cup cut
                 PROVE  \/ Has(db[Client].log \cup {}, o)
                        \/ Shows(db[Client], o) /\ \E x \in issued : SameWrite(x, o) /\ x.seq <= Promised
      BY DEF Kept
    <3>1. Kept(db[Client], PutAside, issued, Promised, doubt \cup cut)
      BY <1>2 DEF WInv, Told, ClientData
    <3>2. CASE Has(db[Client].log \cup PutAside, o)
      <4>1. PICK x \in db[Client].log \cup PutAside : SameWrite(x, o)
        BY <3>2 DEF Has
      <4>2. CASE x \in db[Client].log
        BY <4>1, <4>2 DEF Has
      <4>3. CASE x \in PutAside
        <5>1. x \in issued /\ o \in issued /\ issued \subseteq Op /\ Settled(issued)
          BY <4>3, AsideIssued DEF WInv, Told, OneStamp, Final, IInv, Clocks
        <5>2. x \in Final(issued) /\ x.key = o.key
          BY <4>1, <5>1, SameShown
        <5>3. Has(db[Client].log, x)
          BY <1>5, <4>3, <5>2 DEF Replayed
        <5>4. Has(db[Client].log, o)
          BY <4>1, <5>3 DEF Has, SameWrite
        <5> QED
          BY <5>4
      <4> QED
        BY <4>1, <4>2, <4>3
    <3> QED
      BY <3>1, <3>2 DEF Kept
  <2>4. Promised' = Promised
    BY <1>2, <1>3 DEF Promised, Base, Copying
  <2>5. db'[Client].fence <= Encode(clock'[Client])
    BY <1>1 DEF WInv, Told, ClientData
  <2> QED
    BY <1>1, <1>3, <2>1, <2>2, <2>3, <2>4, <2>5 DEF ClientData
<1>7. Aside'
  <2>1. client'.at \notin Copying \cup {"manifest", "sanitize", "close", "install"}
    BY <1>2 DEF Copying
  <2>2. here' /\ rescue' = {} /\ PutAside' \ (client'.left \cup client'.emit) = {}
        /\ client'.left \cup client'.emit \subseteq PutAside'
        /\ \A x, y \in client'.emit : x = y
    BY <1>1, <1>2, <1>3
  <2>3. Replayed(db'[Client], issued', PutAside' \ (client'.left \cup client'.emit), doubt' \cup cut')
    BY <2>2 DEF Replayed
  <2> QED
    BY <1>3, <2>1, <2>2, <2>3 DEF Aside
<1> QED
  BY <1>4, <1>6, <1>7 DEF Told

-----------------------------------------------------------------------------
(***************************************************************************)
(* A node writes                                                           *)
(***************************************************************************)
\* A write issued and applied in one transaction.
Writes1(d, o, e) ==
  /\ Becomes(d, o, e) /\ e.log = d.log \cup {o} /\ e.localSeq = d.localSeq + 1
  /\ e.vector = d.vector /\ e.horizon = d.horizon /\ e.pending = d.pending

LEMMA WriteIs ==
  ASSUME WInv, NEW n \in Node, LocalWrite(n)
  PROVE  /\ n = Client => Serving
         /\ UNCHANGED <<seedVars, clientVars, history, events>>
         /\ \A m \in Node \ {n} : db'[m] = db[m] /\ clock'[m] = clock[m]
         /\ Encode(clock[n]) \in Nat /\ Encode(clock'[n]) \in Nat /\ Encode(clock[n]) < Encode(clock'[n])
         /\ \E o \in Op : /\ o.src = n /\ o.seq = db[n].localSeq + 1 /\ o.hlc = Encode(clock'[n])
                          /\ issued' = issued \cup {o} /\ Writes1(db[n], o, db'[n])
<1> DEFINE c == Tick(clock[n], 0)
           New(w) == [src |-> n, seq |-> db[n].localSeq + 1, hlc |-> Encode(c),
                      type |-> w.type, key |-> w.key]
<1>1. (n = Client => Serving) /\ clock' = [clock EXCEPT ![n] = c]
      /\ UNCHANGED <<seedVars, clientVars, history, events>>
  BY DEF LocalWrite
<1>2. /\ Encode(clock[n]) \in Nat /\ clock[n] \in Clock /\ db[n].localSeq \in Nat /\ db[n] \in Database
  BY <1>1, ServingIsSound DEF WInv, Sound
<1>3. c \in Clock /\ Encode(clock[n]) < Encode(c) /\ Encode(c) \in Nat
  BY <1>2, TickIncreases, EncodeType
<1>4. clock'[n] = c /\ \A m \in Node \ {n} : clock'[m] = clock[m]
  BY <1>1, <1>3 DEF WInv, IInv, Clocks
<1> HIDE DEF c
<1>5. PICK w \in UserWrites[n] :
        /\ db' = [db EXCEPT ![n] = With(Issues(@, New(w), New(w).seq), New(w))]
        /\ issued' = issued \cup {New(w)}
  BY <1>4 DEF LocalWrite
<1> DEFINE o == New(w)
           s == db[n].localSeq + 1
           f == Issues(db[n], o, s)
           e == With(f, o)
<1>6. w.type \in {"upsert", "delete"} /\ w.key \in Key
  BY CopyAssumption
<1>7. s \in Nat \ {0} /\ s = db[n].localSeq + 1
  BY <1>2
<1>8. o \in Op /\ o.src = n /\ o.seq = s /\ o.hlc = Encode(c) /\ [o EXCEPT !.seq = s] = o
  BY <1>3, <1>6, <1>7 DEF Op
<1>9. db'[n] = e /\ (\A m \in Node \ {n} : db'[m] = db[m]) /\ issued' = issued \cup {o}
  BY <1>5, <1>8 DEF WInv, IInv, Databases
<1> HIDE DEF o, s
<1>10. /\ f \in Database /\ f.log = db[n].log \cup {o} /\ f.version = db[n].version /\ f.localSeq = s
       /\ f.row = db[n].row /\ f.fence = db[n].fence /\ f.vector = db[n].vector
       /\ f.pending = db[n].pending /\ f.horizon = db[n].horizon
  BY <1>2, <1>7, <1>8, IssuesIs, IssuesShows
<1> HIDE DEF f
<1>11. /\ Becomes(f, o, e) /\ e.log = f.log /\ e.vector = f.vector /\ e.pending = f.pending
       /\ e.localSeq = f.localSeq
  BY <1>8, <1>10, WithIs, WithBecomes
<1>12. e.horizon = f.horizon
  BY <1>8, <1>10 DEF With, Database
<1> HIDE DEF e
<1>13. Writes1(db[n], o, e)
  BY <1>7, <1>10, <1>11, <1>12 DEF Writes1, Becomes
<1> QED
  BY <1>1, <1>2, <1>3, <1>4, <1>7, <1>8, <1>9, <1>13

\* It is later than what the node shows, and new.
LEMMA WriteShows ==
  ASSUME NEW all \in SUBSET Op, Settled(all), NEW d \in Database, d.log \subseteq all, NEW c \in Nat,
         NEW ops \in SUBSET all, NEW but, Consistent(d, ops, but),
         \A k \in Key : d.version[k].hlc <= c, d.fence <= c,
         NEW o \in Op, o.hlc > c, \A y \in all : y.src = o.src => y.hlc < o.hlc,
         NEW e, Writes1(d, o, e)
  PROVE  /\ Settled(all \cup {o}) /\ o \notin all
         /\ Consistent(e, ops \cup {o}, but) /\ Shows(e, o) /\ e.version[o.key] # NoVersion
         /\ \A y \in Final(all \cup {o}) : y \in all /\ Shows(d, y) =>
              Shows(e, y) /\ e.version[y.key] = d.version[y.key]
<1>1. o.key \in Key /\ o.hlc \in Nat /\ d.version \in [Key -> Version] /\ d.fence \in Nat
      /\ d.row \in [Key -> Payload \cup {NoRow}]
  BY OpShown DEF Database
<1>2. d.version[o.key].hlc \in Nat
  BY <1>1, VersionIs
<1>3. Less(d.version[o.key], o) /\ ~ Behind(d, o)
  BY <1>1, <1>2 DEF Less, Behind
<1>4. \A y \in all : ~ SameWrite(y, o)
  <2>1. \A y \in all : y.hlc \in Nat
    BY OpShown
  <2> QED
    BY <1>1, <2>1 DEF SameWrite
<1>5. Settled(all \cup {o}) /\ o \notin all
  BY <1>4, SettledNew DEF SameWrite
<1>6. Becomes(d, o, e)
  BY DEF Writes1
<1>7. Consistent(e, ops \cup {o}, but)
  BY <1>3, <1>6, BecomesConsistent
<1>8. Shows(e, o) /\ e.version[o.key] # NoVersion
  BY <1>1, <1>6, StampOrder DEF Becomes, Shows
<1>9. all \cup {o} \in SUBSET Op /\ o \in all \cup {o}
  OBVIOUS
<1>10. ASSUME NEW y \in Final(all \cup {o}), y \in all, Shows(d, y)
       PROVE  Shows(e, y) /\ e.version[y.key] = d.version[y.key]
  BY <1>3, <1>6, <1>9, <1>10, BecomesShows
<1> QED
  BY <1>5, <1>7, <1>8, <1>10

LEMMA ClientWriteTold == ASSUME WInv, IInv', LocalWrite(Client) PROVE Told'
<1>1. /\ Serving /\ UNCHANGED <<seedVars, clientVars, history, events>>
      /\ db'[Seed] = db[Seed] /\ clock'[Seed] = clock[Seed]
      /\ Encode(clock[Client]) \in Nat /\ Encode(clock'[Client]) \in Nat
      /\ Encode(clock[Client]) < Encode(clock'[Client])
  BY Nodes, WriteIs
<1>2. PICK o \in Op : /\ o.src = Client /\ o.seq = db[Client].localSeq + 1
                      /\ o.hlc = Encode(clock'[Client])
                      /\ issued' = issued \cup {o} /\ Writes1(db[Client], o, db'[Client])
  BY Nodes, WriteIs
<1> DEFINE d == db[Client]
           e == db'[Client]
           c == Encode(clock[Client])
<1>3. UNCHANGED <<here, rescue, client, doubt, cut, unknown>> /\ client.at = "serving"
  BY <1>1 DEF clientVars, history, Serving
<1>4. /\ d \in Database /\ d.log \subseteq issued /\ issued \subseteq Op /\ Settled(issued)
      /\ client.emit \subseteq issued /\ \A k \in Key : d.version[k].hlc <= c
      /\ \A y \in issued : y.src = Client => y.hlc <= c
  BY <1>1, Nodes, ServingIsSound, ClientTimes, OwnIssued
    DEF WInv, Told, OneStamp, IInv, Clocks, Rescued, Own
<1>5. Consistent(d, d.log \cup client.emit, cut) /\ d.fence <= c
  BY <1>1 DEF WInv, Told, ClientData, ClientTells
<1>6. o.hlc > c /\ \A y \in issued : y.src = o.src => y.hlc < o.hlc
  <2>1. \A y \in issued : y.hlc \in Nat
    BY <1>4, OpShown
  <2> QED
    BY <1>1, <1>2, <1>4, <2>1
<1>7. d.log \cup client.emit \in SUBSET issued
  BY <1>4
<1>8. /\ Settled(issued') /\ Consistent(e, (d.log \cup client.emit) \cup {o}, cut)
      /\ \A y \in Final(issued') : y \in issued /\ Shows(d, y) => Shows(e, y)
  <2>1. issued' = issued \cup {o} /\ Writes1(d, o, e) /\ c \in Nat
    BY <1>1, <1>2
  <2>2. issued \in SUBSET Op
    BY <1>4
  <2> DEFINE ops == d.log \cup client.emit
  <2>3. ops \in SUBSET issued /\ Consistent(d, ops, cut)
    BY <1>5, <1>7
  <2>4. \A k \in Key : d.version[k].hlc <= c
    BY <1>4
  <2>5. d \in Database /\ d.log \subseteq issued /\ Settled(issued) /\ d.fence <= c
    BY <1>4, <1>5
  <2>6. o \in Op /\ o.hlc > c
    BY <1>6
  <2> HIDE DEF d, e, c, ops
  <2>7. /\ Settled(issued \cup {o}) /\ Consistent(e, ops \cup {o}, cut)
        /\ \A y \in Final(issued \cup {o}) : y \in issued /\ Shows(d, y) => Shows(e, y)
    BY <1>6, <2>1, <2>2, <2>3, <2>4, <2>5, <2>6, WriteShows
  <2> QED
    BY <2>1, <2>7 DEF ops
<1>9. e.log = d.log \cup {o} /\ e.fence = d.fence /\ e.vector = d.vector /\ e.pending = d.pending
  BY <1>2 DEF Writes1, Becomes
<1>10. Consistent(e, e.log \cup client'.emit, cut)
  <2>1. (d.log \cup client.emit) \cup {o} = e.log \cup client'.emit
    BY <1>3, <1>9
  <2> QED
    BY <1>8, <2>1
<1>11. \A x \in issued' \ issued : x.src = Client /\ x.seq = d.localSeq + 1 /\ Has(e.log, x)
  BY <1>2, <1>9 DEF Has, SameWrite
<1>12. /\ client'.left \cup client'.emit \subseteq client.left \cup client.emit
       /\ \A x, y \in client'.emit : x = y
       /\ (client.left \cup client.emit) \ (client'.left \cup client'.emit) = {}
  BY <1>1, <1>3 DEF WInv, Told, Aside
<1>13. /\ d.fence <= Encode(clock'[Client]) /\ issued \subseteq issued' /\ issued' \subseteq Op
       /\ d.log \subseteq e.log /\ client'.at = "serving" /\ client'.replaying = client.replaying
  <2>1. d.fence \in Nat
    BY <1>4 DEF Database
  <2> QED
    BY <1>1, <1>2, <1>3, <1>4, <1>5, <1>9, <2>1
<1>14. UNCHANGED <<here, seedVars, rescue, cut, unknown>> /\ doubt \subseteq doubt' /\ d = db[Client]
       /\ e = db'[Client]
  BY <1>1, <1>3
<1> HIDE DEF d, e
<1>15. db[Client].fence <= Encode(clock'[Client])
  BY <1>13, <1>14
<1> QED
  BY <1>1, <1>3, <1>8, <1>9, <1>10, <1>11, <1>12, <1>13, <1>14, <1>15, ServesTold

-----------------------------------------------------------------------------
(***************************************************************************)
(* The seed writes, is pushed to, and collects                             *)
(***************************************************************************)
LEMMA SeedMovesTold ==
  ASSUME WInv, db'[Client] = db[Client], clock'[Client] = clock[Client],
         UNCHANGED <<seedVars, clientVars, history>>,
         issued \subseteq issued', issued' \subseteq Op, Settled(issued'),
         NEW d \in Database, d = db[Seed], NEW e \in Database, e = db'[Seed],
         NEW c \in Nat, c = Encode(clock[Seed]), NEW g \in Nat, g = Encode(clock'[Seed]), c <= g,
         d.vector[Client] <= e.vector[Client], d.localSeq <= e.localSeq,
         \A x \in issued' \ issued : x.src = Seed /\ x.seq > d.localSeq /\ x.hlc > c,
         SeedTells(e, g, issued'), unknown = {} => Acked(e, e.vector[Client], issued')
  PROVE  Told'
<1>1. UNCHANGED <<here, rescue, client, doubt, cut, unknown, made, reading, cached>>
      /\ PutAside' = PutAside /\ Promised' = Promised
  BY DEF clientVars, history, seedVars, PutAside, Promised, Base
<1>2. Beyond(d, c, issued, issued') /\ Fresh(d, issued, issued') /\ Own(issued') = Own(issued)
      /\ Own(issued) \subseteq Own(issued')
  BY Nodes DEF Beyond, Fresh, Own
<1>3. OneStamp'
  BY <1>1, <1>2 DEF WInv, Told, OneStamp
<1>4. SeedData'
  BY <1>1 DEF SeedData
<1>5. FilesData'
  <2>1. made \in Seq(Snapshot) /\ reading \subseteq Database
    BY DEF WInv, IInv, SeedFiles
  <2>2. FilesTell(made, e, g, issued')
    BY <1>2, <2>1, FilesGrow DEF WInv, Told, FilesData
  <2>3. unknown = {} => AllAcked(made, issued')
    BY <1>2, <2>1, FilesGrow DEF WInv, Told, FilesData
  <2>4. ASSUME NEW then \in reading PROVE Reads(then, made, e)
    <3>1. Reads(then, made, d)
      BY DEF WInv, Told, FilesData
    <3>2. then \in Database /\ \A f \in Database : f.vector[Client] \in Nat /\ f.localSeq \in Nat
      BY <2>1, Nodes DEF Database, Vector
    <3>3. then.vector[Client] \in Nat /\ d.vector[Client] \in Nat /\ e.vector[Client] \in Nat
          /\ then.localSeq \in Nat /\ d.localSeq \in Nat /\ e.localSeq \in Nat
      BY <3>2
    <3> QED
      BY <3>1, <3>3 DEF Reads
  <2>5. cached' \in {0, Len(made')}
    BY <1>1 DEF WInv, Told, FilesData
  <2> QED
    BY <1>1, <2>2, <2>3, <2>4, <2>5 DEF FilesData
<1> DEFINE b == db[Client]
<1>6. b \in Database /\ b.fence \in Nat /\ b.vector[Seed] \in Nat /\ d.localSeq \in Nat /\ e.localSeq \in Nat
  BY ClientTimes, Nodes DEF Database, Vector, WInv
<1>7. ClientTells(b, client.emit, cut, d.localSeq, c)
  BY DEF WInv, Told, ClientData
<1>8. ClientData'
  <2>1. ClientTells(b, client.emit, cut, e.localSeq, g)
    BY <1>6, <1>7 DEF ClientTells
  <2>2. here => Copied(b, b.vector[Seed], issued', cut)
    <3> SUFFICES ASSUME here PROVE Copied(b, b.vector[Seed], issued', cut)
      OBVIOUS
    <3>1. Copied(b, b.vector[Seed], issued, cut)
      BY DEF WInv, Told, ClientData
    <3>2. \A x \in issued' \ issued : ~ (x.seq <= b.vector[Seed]) /\ ~ (x.hlc <= b.fence)
      <4>1. \A x \in issued' : x.seq \in Nat /\ x.hlc \in Nat
        BY OpShown
      <4> QED
        BY <1>6, <1>7, <4>1 DEF ClientTells
    <3> QED
      BY <3>1, <3>2, CopiedGrows
  <2>3. here /\ unknown = {} => Kept(b, PutAside, issued', Promised, doubt \cup cut)
    <3> SUFFICES ASSUME here, unknown = {} PROVE Kept(b, PutAside, issued', Promised, doubt \cup cut)
      OBVIOUS
    <3>1. Kept(b, PutAside, issued, Promised, doubt \cup cut)
      BY DEF WInv, Told, ClientData
    <3>2. Promised \in Nat /\ Promised <= Promised
      BY PromiseIs DEF WInv, Told, FilesData
    <3>3. \A x \in issued' \ issued : x.src # Client
      BY Nodes
    <3> QED
      BY <3>1, <3>2, <3>3, KeptGrows
  <2>4. Serving' => b.fence <= Encode(clock'[Client])
    BY <1>1 DEF WInv, Told, ClientData, Serving
  <2> QED
    BY <1>1, <2>1, <2>2, <2>3, <2>4 DEF ClientData
<1>9. Aside'
  <2>1. Serving => Replayed(b, issued', PutAside \ (client.left \cup client.emit), doubt \cup cut)
    <3> SUFFICES ASSUME Serving, NEW y \in PutAside \ (client.left \cup client.emit),
                        y \in Final(issued'), y.key \notin doubt \cup cut
                 PROVE  Has(b.log, y)
      BY DEF Replayed
    <3>1. y \in issued
      BY AsideIssued DEF WInv
    <3>2. y \in Final(issued)
      BY <3>1, FinalGrows
    <3> QED
      BY <3>2 DEF WInv, Told, Aside, Replayed
  <2> QED
    BY <1>1, <1>2, <2>1 DEF WInv, Told, Aside, Serving
<1> QED
  BY <1>3, <1>4, <1>5, <1>8, <1>9 DEF Told

LEMMA SeedWriteTold == ASSUME WInv, IInv', LocalWrite(Seed) PROVE Told'
<1>1. /\ UNCHANGED <<seedVars, clientVars, history, events>>
      /\ db'[Client] = db[Client] /\ clock'[Client] = clock[Client]
      /\ Encode(clock[Seed]) \in Nat /\ Encode(clock'[Seed]) \in Nat
      /\ Encode(clock[Seed]) < Encode(clock'[Seed])
  BY Nodes, WriteIs
<1>2. PICK o \in Op : /\ o.src = Seed /\ o.seq = db[Seed].localSeq + 1
                      /\ o.hlc = Encode(clock'[Seed])
                      /\ issued' = issued \cup {o} /\ Writes1(db[Seed], o, db'[Seed])
  BY Nodes, WriteIs
<1> DEFINE d == db[Seed]
           e == db'[Seed]
           c == Encode(clock[Seed])
           g == Encode(clock'[Seed])
<1>3. /\ d \in Database /\ d.log \subseteq issued /\ issued \subseteq Op /\ Settled(issued)
      /\ (\A k \in Key : d.version[k].hlc <= c) /\ e \in Database
      /\ \A y \in issued : y.src = Seed => y.hlc <= c
  BY SeedTimes, OwnIssued DEF WInv, Told, OneStamp, IInv, Clocks, Databases, Sound
<1>4. SeedTells(d, c, issued)
  BY DEF WInv, Told, SeedData
<1>5. o.hlc > c /\ \A y \in issued : y.src = o.src => y.hlc < o.hlc
  <2>1. \A y \in issued : y.hlc \in Nat
    BY <1>3, OpShown
  <2> QED
    BY <1>1, <1>2, <1>3, <2>1
<1>6. /\ Settled(issued') /\ o \notin issued
      /\ Consistent(e, d.log \cup {o}, {}) /\ Shows(e, o) /\ e.version[o.key] # NoVersion
      /\ \A y \in Final(issued') : y \in issued /\ Shows(d, y) =>
           Shows(e, y) /\ e.version[y.key] = d.version[y.key]
  <2>1. Consistent(d, d.log, {}) /\ d.fence <= c /\ d.log \in SUBSET issued
    BY <1>3, <1>4 DEF SeedTells
  <2>2. issued' = issued \cup {o} /\ Writes1(d, o, e) /\ c \in Nat /\ issued \in SUBSET Op
    BY <1>1, <1>2, <1>3
  <2> HIDE DEF d, e, c
  <2>3. /\ Settled(issued \cup {o}) /\ o \notin issued
        /\ Consistent(e, d.log \cup {o}, {}) /\ Shows(e, o) /\ e.version[o.key] # NoVersion
        /\ \A y \in Final(issued \cup {o}) : y \in issued /\ Shows(d, y) =>
             Shows(e, y) /\ e.version[y.key] = d.version[y.key]
    BY <1>3, <1>5, <2>1, <2>2, WriteShows
  <2> QED
    BY <2>2, <2>3
<1>7. e.log = d.log \cup {o} /\ e.fence = d.fence /\ e.vector = d.vector /\ e.horizon = d.horizon
      /\ e.localSeq = d.localSeq + 1
  BY <1>2 DEF Writes1, Becomes
<1>8. d.localSeq \in Nat /\ d.fence \in Nat /\ d.vector[Client] \in Nat
  BY <1>3, Nodes DEF Database, Vector
<1>9. SeedShows(e, issued')
  <2> SUFFICES ASSUME NEW y \in Final(issued'), y.src = Seed
               PROVE  Shows(e, y) /\ (e.version[y.key] = NoVersion => y.seq <= e.horizon[Seed])
    BY DEF SeedShows
  <2>1. CASE y = o
    BY <1>6, <2>1
  <2>2. CASE y # o
    <3>1. y \in issued
      BY <1>2, <2>2 DEF Final
    <3>2. y \in Final(issued)
      BY <1>2, <3>1, FinalGrows
    <3>3. Shows(d, y) /\ (d.version[y.key] = NoVersion => y.seq <= d.horizon[Seed])
      BY <1>4, <3>2 DEF SeedTells, SeedShows
    <3> QED
      BY <1>6, <1>7, <3>1, <3>3
  <2> QED
    BY <2>1, <2>2
<1>10. SeedTells(e, g, issued')
  <2>1. e.vector[Client] # 0 => \E x \in Own(issued') : x.seq = e.vector[Client]
    BY <1>2, <1>4, <1>7 DEF SeedTells, Own
  <2>2. e.fence <= g
    BY <1>1, <1>4, <1>7, <1>8 DEF SeedTells
  <2> QED
    BY <1>4, <1>6, <1>7, <1>9, <2>1, <2>2 DEF SeedTells
<1>11. unknown = {} => Acked(e, e.vector[Client], issued')
  <2> SUFFICES ASSUME unknown = {} PROVE Acked(e, e.vector[Client], issued')
    OBVIOUS
  <2>1. Acked(d, d.vector[Client], issued)
    BY DEF WInv, Told, SeedData
  <2>2. \A x \in issued' \ issued : x.src # Client
    BY <1>2, Nodes
  <2>3. issued \subseteq issued'
    BY <1>2
  <2>4. Acked(e, d.vector[Client], issued')
    BY <1>6, <2>1, <2>2, <2>3, AckedGrows
  <2> QED
    BY <1>7, <2>4
<1>12. \A x \in issued' \ issued : x.src = Seed /\ x.seq > d.localSeq /\ x.hlc > c
  BY <1>2, <1>5, <1>8
<1>13. d.vector[Client] <= e.vector[Client] /\ d.localSeq <= e.localSeq /\ c <= g
       /\ issued \subseteq issued' /\ issued' \subseteq Op
  BY <1>1, <1>2, <1>3, <1>7, <1>8
<1>14. d = db[Seed] /\ e = db'[Seed] /\ c = Encode(clock[Seed]) /\ g = Encode(clock'[Seed])
       /\ c \in Nat /\ g \in Nat
  BY <1>1
<1> HIDE DEF d, e, c, g
<1> QED
  BY <1>1, <1>3, <1>6, <1>10, <1>11, <1>12, <1>13, <1>14, SeedMovesTold

\* The database of the seed with an operation pushed to it.
LEMMA PushedShows ==
  ASSUME NEW d \in Database, NEW o \in Op
  PROVE  /\ AppliedTo(d, {o}, Pushed(d, o)) /\ Pushed(d, o).log = d.log \cup {o}
         /\ Pushed(d, o).localSeq = d.localSeq /\ Pushed(d, o).horizon = d.horizon
         /\ Pushed(d, o).vector =
              [d.vector EXCEPT ![Client] = Contiguous(d.log \cup {o}, Client, d.vector[Client])]
<1> DEFINE a == Applied(d, {o})
           w == [d.vector EXCEPT ![Client] = Contiguous(d.log \cup {o}, Client, d.vector[Client])]
           e == [a EXCEPT !.log = d.log \cup {o}, !.vector = w]
<1>1. {o} \in SUBSET Op /\ IsFiniteSet({o})
  BY FS_Singleton
<1>2. a \in Database /\ a.log = d.log /\ a.localSeq = d.localSeq /\ a.vector = d.vector
  BY <1>1, AppliedIs
<1>3. AppliedTo(d, {o}, a) /\ a.horizon = d.horizon
  BY <1>1, AppliedShows
<1>4. Pushed(d, o) = e
  BY <1>2 DEF Pushed, Database
<1> HIDE DEF a, w
<1>5. /\ e.log = d.log \cup {o} /\ e.vector = w /\ e.localSeq = a.localSeq /\ e.horizon = a.horizon
      /\ e.version = a.version /\ e.row = a.row /\ e.fence = a.fence
  BY <1>2 DEF Database
<1> HIDE DEF e
<1>6. AppliedTo(d, {o}, e)
  BY <1>3, <1>5 DEF AppliedTo
<1> QED
  BY <1>2, <1>3, <1>4, <1>5, <1>6 DEF w

\* How far the seed acknowledges the operations of the client.
LEMMA PushedVector ==
  ASSUME NEW d \in Database, IsFiniteSet(d.log), NEW o \in Op
  PROVE  LET n == Pushed(d, o).vector[Client]
         IN  /\ n \in Nat /\ d.vector[Client] \in Nat /\ d.vector[Client] <= n
             /\ Pushed(d, o).vector[Seed] = d.vector[Seed]
             /\ \A s \in d.vector[Client] + 1 .. n :
                  \E x \in d.log \cup {o} : x.src = Client /\ x.seq = s
<1> DEFINE ops == d.log \cup {o}
           n == Contiguous(ops, Client, d.vector[Client])
<1>1. d.vector \in Vector /\ d.vector[Client] \in Nat
  BY Nodes DEF Database, Vector
<1>2. /\ n \in Nat /\ d.vector[Client] <= n
      /\ \A s \in d.vector[Client] + 1 .. n : \E x \in ops : x.src = Client /\ x.seq = s
  <2>1. IsFiniteSet(ops)
    BY FS_AddElement
  <2> HIDE DEF ops
  <2> QED
    BY <1>1, <2>1, ContiguousIs
<1> HIDE DEF n
<1>3. Pushed(d, o).vector = [d.vector EXCEPT ![Client] = n]
  BY PushedShows DEF n
<1>4. Pushed(d, o).vector[Client] = n /\ Pushed(d, o).vector[Seed] = d.vector[Seed]
  BY <1>1, <1>3, Nodes DEF Vector
<1> QED
  BY <1>1, <1>2, <1>4

LEMMA PushTold == ASSUME WInv, IInv', Push PROVE Told'
<1>1. PICK o \in Own(db[Client].log) :
        /\ ~ BehindFence(Seed, o) /\ db' = [db EXCEPT ![Seed] = Pushed(db[Seed], o)]
        /\ clock' = [clock EXCEPT ![Seed] = Merge(clock[Seed], ClockOf(o.hlc))]
  BY DEF Push
<1>2. UNCHANGED <<seedVars, clientVars, issued, history, events>>
  BY DEF Push
<1>3. /\ o \in Op /\ o \in issued /\ o.hlc \in Nat /\ issued \subseteq Op /\ Settled(issued)
      /\ IsFiniteSet(db[Seed].log) /\ db[Seed].log \subseteq issued
  BY OwnIssued, OpShown DEF Own, WInv, Told, OneStamp, IInv, Clocks
<1>4. /\ db'[Seed] = Pushed(db[Seed], o) /\ db'[Client] = db[Client] /\ clock'[Client] = clock[Client]
      /\ clock'[Seed] = Merge(clock[Seed], ClockOf(o.hlc))
  BY <1>1, Nodes DEF WInv, IInv, Databases, Clocks
<1> DEFINE d == db[Seed]
           e == db'[Seed]
           c == Encode(clock[Seed])
           g == Encode(clock'[Seed])
           n == e.vector[Client]
<1>5. c \in Nat /\ g \in Nat /\ c <= g
  BY <1>3, <1>4, SeedTimes, ClockOfEncodes, MergeIsLarger, EncodeType DEF WInv
<1>6. d \in Database /\ e \in Database /\ d.fence \in Nat /\ d.localSeq \in Nat
  <2>1. d \in Database /\ e \in Database
    BY DEF WInv, IInv, Databases, Sound
  <2> QED
    BY <2>1 DEF Database
<1>7. e = Pushed(d, o) /\ ~ Behind(d, o)
  BY <1>1, <1>4 DEF BehindFence, Behind
<1>8. SeedTells(d, c, issued) /\ (unknown = {} => Acked(d, d.vector[Client], issued))
  BY DEF WInv, Told, SeedData
<1>9. d = db[Seed] /\ e = db'[Seed] /\ c = Encode(clock[Seed]) /\ g = Encode(clock'[Seed])
      /\ IsFiniteSet(d.log) /\ d.log \subseteq issued
  BY <1>3
<1> HIDE DEF d, e, c, g
<1>10. AppliedTo(d, {o}, e) /\ e.log = d.log \cup {o} /\ e.localSeq = d.localSeq /\ e.horizon = d.horizon
  BY <1>3, <1>6, <1>7, PushedShows
<1>11. /\ n \in Nat /\ d.vector[Client] \in Nat /\ d.vector[Client] <= n
       /\ e.vector[Seed] = d.vector[Seed]
       /\ \A s \in d.vector[Client] + 1 .. n :
            \E x \in d.log \cup {o} : x.src = Client /\ x.seq = s
  BY <1>3, <1>6, <1>7, <1>9, PushedVector
<1> HIDE DEF n
<1>12. \A y \in Final(issued) : Shows(d, y) => Shows(e, y) /\ e.version[y.key] = d.version[y.key]
  <2>1. {o} \in SUBSET issued /\ \A x \in {o} : ~ Behind(d, x)
    BY <1>3, <1>7
  <2> QED
    BY <1>3, <1>6, <1>10, <2>1, AppliedKeeps
<1>13. Consistent(e, e.log, {})
  <2>1. Consistent(d, d.log, {}) /\ {o} \in SUBSET Op /\ d.log \in SUBSET Op
    BY <1>3, <1>8, <1>9 DEF SeedTells
  <2>2. Consistent(e, d.log \cup {o}, {})
    BY <1>6, <1>10, <2>1, AppliedConsistent
  <2> QED
    BY <1>10, <2>2
<1>14. SeedTells(e, g, issued)
  <2>1. SeedShows(e, issued)
    BY <1>8, <1>10, <1>12 DEF SeedTells, SeedShows
  <2>2. n # 0 => \E x \in Own(issued) : x.seq = n
    <3>1. CASE n = d.vector[Client]
      BY <1>8, <3>1 DEF SeedTells
    <3>2. CASE n # d.vector[Client]
      <4>1. n \in d.vector[Client] + 1 .. n
        BY <1>11, <3>2
      <4>2. PICK x \in d.log \cup {o} : x.src = Client /\ x.seq = n
        BY <1>11, <4>1
      <4> QED
        BY <1>3, <1>9, <4>2 DEF Own
    <3> QED
      BY <3>1, <3>2
  <2>3. e.fence <= g
    <3>1. e.fence = d.fence /\ d.fence <= c
      BY <1>8, <1>10 DEF SeedTells, AppliedTo
    <3> QED
      BY <1>5, <1>6, <3>1
  <2> QED
    BY <1>8, <1>11, <1>13, <2>1, <2>2, <2>3 DEF SeedTells, n
<1>15. unknown = {} => Acked(e, n, issued)
  <2> SUFFICES ASSUME unknown = {}, NEW y \in Final(issued), y.src = Client, y.seq <= n
               PROVE  Shows(e, y)
    BY DEF Acked
  <2>1. y \in issued /\ y \in Op /\ y.seq \in Nat /\ y.key \in Key
    BY <1>3, OpShown DEF Final
  <2>2. CASE y.seq <= d.vector[Client]
    BY <1>8, <1>12, <2>2 DEF Acked
  <2>3. CASE ~ (y.seq <= d.vector[Client])
    <3>1. y.seq \in d.vector[Client] + 1 .. n
      BY <1>11, <2>1, <2>3
    <3>2. PICK x \in d.log \cup {o} : x.src = Client /\ x.seq = y.seq
      BY <1>11, <3>1
    <3>3. x \in issued /\ x \in e.log
      BY <1>3, <1>9, <1>10, <3>2
    <3>4. SameWrite(x, y)
      BY <2>1, <3>2, <3>3 DEF WInv, IInv, Numbers, NumbersAreFresh, Known
    <3>5. Has(e.log, y) /\ e.log \in SUBSET issued
      BY <1>3, <1>9, <1>10, <3>3, <3>4 DEF Has
    <3> QED
      BY <1>3, <1>13, <2>1, <3>5, LogShows
  <2> QED
    BY <2>2, <2>3
<1>16. \A x \in issued' \ issued : x.src = Seed /\ x.seq > d.localSeq /\ x.hlc > c
  BY <1>2
<1>17. /\ issued \subseteq issued' /\ issued' \subseteq Op /\ Settled(issued')
       /\ d.vector[Client] <= e.vector[Client] /\ d.localSeq <= e.localSeq
       /\ SeedTells(e, g, issued') /\ (unknown = {} => Acked(e, e.vector[Client], issued'))
       /\ UNCHANGED <<seedVars, clientVars, history>>
  <2>1. issued' = issued /\ d.localSeq <= d.localSeq
    BY <1>2, <1>6
  <2> QED
    BY <1>2, <1>3, <1>10, <1>11, <1>14, <1>15, <2>1 DEF n
<1> QED
  BY <1>4, <1>5, <1>6, <1>9, <1>16, <1>17, SeedMovesTold

LEMMA SeedCollectTold ==
  ASSUME WInv, IInv', NEW k \in Key, SeedCollect(k)
  PROVE  Told'
<1>1. /\ db[Seed].version[k].deleted /\ db' = [db EXCEPT ![Seed] = Collected(db[Seed], k)]
      /\ UNCHANGED <<clock, seedVars, clientVars, issued, history, events>>
  BY DEF SeedCollect
<1>2. db'[Seed] = Collected(db[Seed], k) /\ db'[Client] = db[Client]
  BY <1>1, Nodes DEF WInv, IInv, Databases
<1> DEFINE d == db[Seed]
           e == db'[Seed]
           c == Encode(clock[Seed])
<1>3. /\ d \in Database /\ e \in Database /\ IsFiniteSet(d.log) /\ d.log \subseteq issued /\ c \in Nat
      /\ issued \subseteq Op /\ Settled(issued) /\ \A j \in Key : d.version[j].hlc <= c
  BY SeedTimes, OwnIssued DEF WInv, Told, OneStamp, IInv, Databases, Sound, Clocks
<1>4. SeedTells(d, c, issued) /\ (unknown = {} => Acked(d, d.vector[Client], issued))
  BY DEF WInv, Told, SeedData
<1>5. d = db[Seed] /\ e = db'[Seed] /\ c = Encode(clock[Seed]) /\ c = Encode(clock'[Seed])
      /\ e = Collected(d, k) /\ d.version[k].deleted
  BY <1>1, <1>2
<1> HIDE DEF d, e, c
<1>6. d.fence \in Nat /\ d.version[k].hlc \in Nat /\ d.version[k].hlc <= c /\ d.localSeq \in Nat
      /\ d.vector[Client] \in Nat /\ d.horizon[Seed] \in Nat
  BY <1>3, Nodes DEF Database, Version, Vector
<1>7. /\ e.vector = d.vector /\ e.fence = Larger(d.fence, d.version[k].hlc)
      /\ e.localSeq = d.localSeq
      /\ e.horizon[Seed] \in Nat /\ d.horizon[Seed] <= e.horizon[Seed]
      /\ \A o \in d.log : o.key = k /\ o.type = "delete" => o.seq <= e.horizon[o.src]
  <2> DEFINE f == Collected(d, k)
  <2>1. f.vector = d.vector /\ f.fence = Larger(d.fence, d.version[k].hlc) /\ f.localSeq = d.localSeq
    BY <1>3, CollectedShows, CollectedIs
  <2>2. \A m \in Node : f.horizon[m] \in Nat /\ d.horizon[m] <= f.horizon[m]
    BY <1>3, CollectedShows
  <2>3. \A o \in d.log : o.key = k /\ o.type = "delete" => o.seq <= f.horizon[o.src]
    BY <1>3, CollectedShows
  <2> HIDE DEF f
  <2>4. e = f
    BY <1>5 DEF f
  <2> QED
    BY <2>1, <2>2, <2>3, <2>4, Nodes
<1>8. Consistent(e, e.log, {})
  BY <1>3, <1>4, <1>5, CollectedConsistent DEF SeedTells
<1>9. ASSUME NEW y \in Final(issued), Shows(d, y)
      PROVE  /\ Shows(e, y)
             /\ e.version[y.key] = NoVersion =>
                  \/ d.version[y.key] = NoVersion
                  \/ d.version[y.key] = Stamp(y) /\ y.key = k /\ y.type = "delete"
  <2>1. y \in Op
    BY <1>3 DEF Final
  <2> QED
    BY <1>3, <1>5, <1>9, <2>1, CollectedKeeps
<1>10. SeedShows(e, issued)
  <2> SUFFICES ASSUME NEW y \in Final(issued), y.src = Seed
               PROVE  Shows(e, y) /\ (e.version[y.key] = NoVersion => y.seq <= e.horizon[Seed])
    BY DEF SeedShows
  <2>1. Shows(d, y) /\ (d.version[y.key] = NoVersion => y.seq <= d.horizon[Seed])
    BY <1>4 DEF SeedTells, SeedShows
  <2>2. y \in issued /\ y \in Op /\ y.seq \in Nat
    BY <1>3, OpShown DEF Final
  <2>3. CASE d.version[y.key] = NoVersion
    BY <1>6, <1>7, <1>9, <2>1, <2>2, <2>3
  <2>4. CASE d.version[y.key] = Stamp(y) /\ y.key = k /\ y.type = "delete"
    <3>1. d.version[y.key] # NoVersion
      BY <2>2, <2>4, StampOrder
    <3>2. Consistent(d, d.log, {}) /\ d.log \in SUBSET issued
      BY <1>3, <1>4 DEF SeedTells
    <3>3. Has(d.log, y)
      BY <1>3, <2>1, <2>2, <3>1, <3>2, ShownIsLogged
    <3>4. y \in d.log
      BY <1>3, <2>2, <3>3 DEF Has, Settled, SameWrite
    <3> QED
      BY <1>7, <1>9, <2>1, <2>4, <3>4
  <2> QED
    BY <1>9, <2>1, <2>3, <2>4
<1>11. SeedTells(e, c, issued)
  <2>1. e.fence <= c
    BY <1>4, <1>6, <1>7 DEF SeedTells, Larger
  <2> QED
    BY <1>4, <1>7, <1>8, <1>10, <2>1 DEF SeedTells
<1>12. unknown = {} => Acked(e, e.vector[Client], issued)
  BY <1>4, <1>7, <1>9 DEF Acked
<1>13. /\ issued \subseteq issued' /\ issued' \subseteq Op /\ Settled(issued')
       /\ d.vector[Client] <= e.vector[Client] /\ d.localSeq <= e.localSeq /\ c <= c
       /\ SeedTells(e, c, issued') /\ (unknown = {} => Acked(e, e.vector[Client], issued'))
       /\ \A x \in issued' \ issued : x.src = Seed /\ x.seq > d.localSeq /\ x.hlc > c
       /\ UNCHANGED <<seedVars, clientVars, history>> /\ clock'[Client] = clock[Client]
  <2>1. issued' = issued
    BY <1>1
  <2> QED
    BY <1>1, <1>3, <1>6, <1>7, <1>11, <1>12, <2>1
<1> QED
  BY <1>2, <1>3, <1>5, <1>13, SeedMovesTold

-----------------------------------------------------------------------------
(***************************************************************************)
(* The client pulls                                                        *)
(***************************************************************************)
LEMMA PulledShows ==
  ASSUME NEW d \in Database, NEW in \in SUBSET Op, IsFiniteSet(in), NEW theirs \in Vector
  PROVE  /\ AppliedTo(d, in, Pulled(d, in, theirs)) /\ Pulled(d, in, theirs).log = d.log \cup in
         /\ Pulled(d, in, theirs).vector = Adopted(d.vector, theirs, Client)
<1> DEFINE a == Applied(d, in)
           w == Adopted(d.vector, theirs, Client)
           e == [a EXCEPT !.log = d.log \cup in, !.vector = w]
<1>1. a \in Database /\ a.log = d.log /\ a.vector = d.vector
  BY AppliedIs
<1>2. AppliedTo(d, in, a)
  BY AppliedShows
<1>3. Pulled(d, in, theirs) = e
  BY <1>1 DEF Pulled, Database
<1> HIDE DEF a, w
<1>4. /\ e.log = d.log \cup in /\ e.vector = w
      /\ e.version = a.version /\ e.row = a.row /\ e.fence = a.fence
  BY <1>1 DEF Database
<1> HIDE DEF e
<1>5. AppliedTo(d, in, e)
  BY <1>2, <1>4 DEF AppliedTo
<1> QED
  BY <1>3, <1>4, <1>5 DEF w

\* A client with nothing to replay changes its database.
LEMMA LoopTold ==
  ASSUME WInv, Loops, UNCHANGED <<seedVars, clientVars, issued, history>>,
         db'[Seed] = db[Seed], clock'[Seed] = clock[Seed],
         NEW d, d = db[Client], NEW e, e = db'[Client],
         d.log \subseteq e.log, Consistent(e, e.log, cut), e.fence <= Encode(clock[Seed]),
         e.fence <= Encode(clock'[Client]), e.vector[Seed] <= db[Seed].localSeq,
         \A y \in Final(issued) : Shows(d, y) => Shows(e, y),
         Copied(e, e.vector[Seed], issued, cut)
  PROVE  Told'
<1>1. rescue = {} /\ PutAside = {} /\ client.left = {} /\ client.emit = {} /\ here
      /\ client.at = "serving"
  BY LoopsIs
<1>2. UNCHANGED <<here, rescue, client, doubt, cut, unknown, made, issued>>
      /\ PutAside' = {} /\ Promised' = Promised
  BY <1>1 DEF clientVars, history, seedVars, PutAside, Promised, Base
<1>3. OneStamp' /\ SeedData' /\ FilesData'
  BY <1>2, SeedUntouched DEF WInv, Told, OneStamp
<1>4. ClientData'
  <2>1. ClientTells(e, client.emit, cut, db[Seed].localSeq, Encode(clock[Seed]))
    BY <1>1 DEF ClientTells
  <2>2. unknown = {} => Kept(e, PutAside, issued, Promised, doubt \cup cut)
    <3> SUFFICES ASSUME unknown = {} PROVE Kept(e, PutAside, issued, Promised, doubt \cup cut)
      OBVIOUS
    <3>1. Kept(d, PutAside, issued, Promised, doubt \cup cut)
      BY <1>1 DEF WInv, Told, ClientData
    <3>2. Promised \in Nat /\ Promised <= Promised
      BY PromiseIs DEF WInv, Told, FilesData
    <3>3. issued \subseteq Op
      BY DEF WInv, IInv, Clocks
    <3> QED
      BY <3>1, <3>2, <3>3, KeptGrows
  <2> QED
    BY <1>1, <1>2, <2>1, <2>2 DEF ClientData
<1>5. Aside'
  <2>1. client'.at \notin Copying \cup {"manifest", "sanitize", "close", "install"}
    BY <1>1, <1>2 DEF Copying
  <2>2. Replayed(e, issued, {}, doubt \cup cut)
    BY DEF Replayed
  <2> QED
    BY <1>1, <1>2, <2>1, <2>2 DEF Aside
<1> QED
  BY <1>3, <1>4, <1>5 DEF Told

\* What the seed has, and the client lacks.
Lacking(after) ==
  {o \in db[Seed].log : /\ o.src # Client /\ o.seq > after[o.src]
                        /\ ~ Known(db[Client].log, o) /\ ~ BehindFence(Client, o)}

\* The vectors that a pull compares.
LEMMA PullVectors ==
  ASSUME WInv
  PROVE  LET theirs == CurrentVector(Seed)
             after  == [CurrentVector(Client) EXCEPT ![Client] = Larger(@, theirs[Client])]
             w      == Adopted(db[Client].vector, theirs, Client)
         IN  /\ theirs \in Vector /\ after[Seed] = db[Client].vector[Seed]
             /\ db[Client].vector[Seed] \in Nat
             /\ w[Seed] = db[Seed].localSeq
<1> DEFINE theirs == CurrentVector(Seed)
           mine   == CurrentVector(Client)
           after  == [mine EXCEPT ![Client] = Larger(mine[Client], theirs[Client])]
           w      == Adopted(db[Client].vector, theirs, Client)
<1>1. /\ db[Seed].vector \in Vector /\ db[Client].vector \in Vector
      /\ db[Seed].localSeq \in Nat /\ db[Client].localSeq \in Nat
  BY OwnIssued, SeedTimes, ClientTimes DEF WInv
<1>2. db[Client].vector[Seed] \in Nat /\ db[Seed].vector[Seed] = 0
      /\ db[Client].vector[Seed] <= db[Seed].localSeq
  BY <1>1, Nodes DEF Vector, WInv, Told, SeedData, SeedTells, ClientData, ClientTells
<1>3. theirs \in Vector /\ theirs[Seed] = db[Seed].localSeq
  BY <1>1, <1>2, Nodes DEF CurrentVector, VectorOf, Vector, Larger
<1>4. mine \in Vector /\ mine[Seed] = db[Client].vector[Seed]
  BY <1>1, Nodes DEF CurrentVector, VectorOf, Vector, Larger
<1> HIDE DEF theirs, mine
<1>5. after[Seed] = db[Client].vector[Seed]
  BY <1>4, Nodes DEF Vector
<1>6. w[Seed] = db[Seed].localSeq
  BY <1>1, <1>2, <1>3, Nodes DEF Adopted, Vector, Larger
<1> QED
  BY <1>2, <1>3, <1>5, <1>6 DEF theirs, mine

\* What the client lacks of the seed, and does not refuse, it pulls.
LEMMA PullHas ==
  ASSUME WInv, NEW after, after[Seed] = db[Client].vector[Seed],
         db[Seed].horizon[Seed] <= db[Client].vector[Seed],
         NEW y \in Final(issued), y.src = Seed, ~ (y.seq <= db[Client].vector[Seed]),
         ~ (y.hlc <= db[Client].fence)
  PROVE  Has(db[Client].log \cup Lacking(after), y)
<1>1. /\ issued \subseteq Op /\ Settled(issued) /\ db[Seed].log \subseteq issued
      /\ db[Client].log \subseteq issued /\ unknown \subseteq Own(issued)
  BY OwnIssued DEF WInv, Told, OneStamp, IInv, Clocks
<1>2. y \in issued /\ y \in Op /\ y.seq \in Nat /\ y.key \in Key
  BY <1>1, OpShown DEF Final
<1>3. db[Client].vector[Seed] \in Nat /\ db[Seed].horizon[Seed] \in Nat
  <2>1. \A d \in Database : d.vector[Seed] \in Nat /\ d.horizon[Seed] \in Nat
    BY Nodes DEF Database, Vector
  <2> QED
    BY <2>1, ClientTimes, SeedTimes DEF WInv
<1>4. SeedShows(db[Seed], issued) /\ Consistent(db[Seed], db[Seed].log, {})
  BY DEF WInv, Told, SeedData, SeedTells
<1>5. Shows(db[Seed], y) /\ db[Seed].version[y.key] # NoVersion
  BY <1>2, <1>3, <1>4 DEF SeedShows
<1>6. Has(db[Seed].log, y)
  BY <1>1, <1>2, <1>4, <1>5, ShownIsLogged
<1>7. y \in db[Seed].log
  BY <1>1, <1>2, <1>6 DEF Has, Settled, SameWrite
<1>8. CASE ~ Known(db[Client].log, y)
  <2>1. y.seq > after[y.src] /\ y.src # Client /\ ~ BehindFence(Client, y)
    BY <1>2, <1>3, Nodes DEF BehindFence
  <2>2. y \in Lacking(after)
    BY <1>7, <1>8, <2>1 DEF Lacking
  <2> QED
    BY <2>2 DEF Has, SameWrite
<1>9. CASE Known(db[Client].log, y)
  <2>1. PICK x \in db[Client].log : x.src = y.src /\ x.seq = y.seq
    BY <1>9 DEF Known
  <2>2. x \in issued /\ x \notin unknown /\ y \notin unknown /\ Known({x}, y)
    BY <1>1, <2>1, Nodes DEF Own, Known
  <2>3. SameWrite(x, y)
    BY <1>2, <2>2 DEF WInv, IInv, Numbers, NumbersAreFresh
  <2> QED
    BY <2>1, <2>3 DEF Has
<1> QED
  BY <1>8, <1>9

LEMMA PullTold == ASSUME WInv, IInv', Pull PROVE Told'
<1> DEFINE theirs == CurrentVector(Seed)
           after  == [CurrentVector(Client) EXCEPT ![Client] = Larger(@, theirs[Client])]
           in     == Lacking(after)
           new    == Latest({Encode(clock[Client])} \cup {o.hlc : o \in in})
           d == db[Client]
           e == db'[Client]
<1>1. /\ Loops /\ UNCHANGED <<seedVars, clientVars, issued, history, events>>
      /\ IF \E n \in Node : after[n] < db[Seed].horizon[n]
         THEN /\ db' = [db EXCEPT ![Client].pending = TRUE] /\ UNCHANGED clock
         ELSE /\ db' = [db EXCEPT ![Client] = Pulled(@, in, theirs)]
              /\ clock' = [clock EXCEPT ![Client] = Merge(@, ClockOf(new))]
  BY DEF Pull, Lacking
<1>2. /\ theirs \in Vector /\ after[Seed] = d.vector[Seed] /\ d.vector[Seed] \in Nat
      /\ Adopted(d.vector, theirs, Client)[Seed] = db[Seed].localSeq
  BY PullVectors
<1>3. /\ d \in Database /\ d.fence \in Nat /\ d.log \subseteq issued /\ issued \subseteq Op /\ Settled(issued)
      /\ client.emit = {} /\ here /\ Serving /\ client.at = "serving"
      /\ Encode(clock[Client]) \in Nat /\ clock[Client] \in Clock
  BY <1>1, LoopsIs, ClientTimes, OwnIssued DEF WInv, Told, OneStamp, IInv, Clocks
<1>4. /\ Consistent(d, d.log, cut) /\ d.fence <= Encode(clock[Seed]) /\ d.vector[Seed] <= db[Seed].localSeq
      /\ d.fence <= Encode(clock[Client]) /\ Copied(d, d.vector[Seed], issued, cut)
  <2>1. ClientTells(d, {}, cut, db[Seed].localSeq, Encode(clock[Seed]))
    BY <1>3 DEF WInv, Told, ClientData
  <2>2. Consistent(d, d.log \cup {}, cut)
    BY <2>1 DEF ClientTells
  <2> QED
    BY <1>3, <2>1, <2>2 DEF WInv, Told, ClientData, ClientTells
<1>5. d = db[Client] /\ e = db'[Client]
  OBVIOUS
<1> HIDE DEF theirs, after, in, new
<1>6. CASE \E n \in Node : after[n] < db[Seed].horizon[n]
  <2>1. db' = [db EXCEPT ![Client].pending = TRUE] /\ clock' = clock
    BY <1>1, <1>6
  <2>2. e = [d EXCEPT !.pending = TRUE] /\ db'[Seed] = db[Seed]
    BY <2>1, Nodes DEF WInv, IInv, Databases
  <2>3. Same(d, e) /\ e.log = d.log /\ e.vector = d.vector
    BY <1>3, <2>2 DEF Same, Database
  <2> HIDE DEF d, e
  <2>4. Consistent(e, e.log, cut) /\ \A y : Shows(d, y) => Shows(e, y)
    BY <1>4, <2>3, ConsistentSame, SameShows
  <2>5. Copied(e, e.vector[Seed], issued, cut)
    BY <1>4, <2>3, <2>4 DEF Copied, Same
  <2>6. e.fence <= Encode(clock[Seed]) /\ e.fence <= Encode(clock'[Client]) /\ d.log \subseteq e.log
        /\ e.vector[Seed] <= db[Seed].localSeq /\ clock'[Seed] = clock[Seed]
    BY <1>4, <2>1, <2>3 DEF Same
  <2> QED
    BY <1>1, <1>5, <2>2, <2>4, <2>5, <2>6, LoopTold
<1>7. CASE ~ \E n \in Node : after[n] < db[Seed].horizon[n]
  <2>1. /\ db' = [db EXCEPT ![Client] = Pulled(d, in, theirs)]
        /\ clock' = [clock EXCEPT ![Client] = Merge(clock[Client], ClockOf(new))]
    BY <1>1, <1>7
  <2>2. e = Pulled(d, in, theirs) /\ db'[Seed] = db[Seed]
    BY <2>1, Nodes DEF WInv, IInv, Databases
  <2>3. clock'[Seed] = clock[Seed] /\ clock'[Client] = Merge(clock[Client], ClockOf(new))
    BY <2>1, Nodes DEF WInv, IInv, Clocks
  <2>4. in \subseteq issued /\ in \in SUBSET Op /\ IsFiniteSet(in) /\ \A o \in in : ~ Behind(d, o)
    <3>1. in \subseteq db[Seed].log /\ \A o \in in : ~ Behind(d, o)
      BY DEF in, Lacking, BehindFence, Behind
    <3> QED
      BY <3>1, OwnIssued, FS_Subset DEF WInv
  <2>5. new \in Nat
    <3> DEFINE T == {o.hlc : o \in in}
               S == {Encode(clock[Client])} \cup T
    <3>1. IsFiniteSet(T) /\ T \subseteq Nat
      BY <2>4, FiniteTimestamps, OpShown
    <3> HIDE DEF T
    <3>2. IsFiniteSet(S) /\ S \in SUBSET Nat /\ S # {}
      BY <1>3, <3>1, FS_Singleton, FS_Union
    <3> HIDE DEF S
    <3>3. Latest(S) \in Nat
      BY <3>2, LatestIs
    <3> QED
      BY <3>3 DEF S, T, new
  <2>6. Encode(clock[Client]) <= Encode(clock'[Client]) /\ Encode(clock'[Client]) \in Nat
    BY <1>3, <2>3, <2>5, ClockOfEncodes, MergeIsLarger, EncodeType
  <2> HIDE DEF d, e
  <2>7. AppliedTo(d, in, e) /\ e.log = d.log \cup in /\ e.vector = Adopted(d.vector, theirs, Client)
    BY <1>2, <1>3, <2>2, <2>4, PulledShows
  <2>8. e.fence = d.fence /\ e.vector[Seed] = db[Seed].localSeq
    BY <1>2, <2>7 DEF AppliedTo
  <2>9. Consistent(e, e.log, cut)
    <3>1. d.log \in SUBSET Op
      BY <1>3
    <3>2. Consistent(e, d.log \cup in, cut)
      BY <1>3, <1>4, <2>4, <2>7, <3>1, AppliedConsistent
    <3> QED
      BY <2>7, <3>2
  <2>10. \A y \in Final(issued) : Shows(d, y) => Shows(e, y)
    BY <1>3, <2>4, <2>7, AppliedKeeps
  <2>11. Copied(e, e.vector[Seed], issued, cut)
    <3> SUFFICES ASSUME NEW y \in Final(issued), y.src = Seed, y.key \notin cut
                 PROVE  Shows(e, y)
      BY DEF Copied
    <3>1. CASE y.seq <= d.vector[Seed] \/ y.hlc <= d.fence
      BY <1>4, <2>10, <3>1 DEF Copied
    <3>2. CASE ~ (y.seq <= d.vector[Seed]) /\ ~ (y.hlc <= d.fence)
      <4>1. db[Seed].horizon[Seed] <= d.vector[Seed]
        <5>1. ~ (after[Seed] < db[Seed].horizon[Seed])
          BY <1>7, Nodes
        <5>2. db[Seed].horizon[Seed] \in Nat
          <6>1. \A f \in Database : f.horizon[Seed] \in Nat
            BY Nodes DEF Database, Vector
          <6> QED
            BY <6>1, SeedTimes DEF WInv
        <5> QED
          BY <1>2, <5>1, <5>2
      <4>2. Has(e.log, y)
        BY <1>2, <2>7, <3>2, <4>1, PullHas DEF d, in
      <4>3. e.log \in SUBSET issued
        BY <1>3, <2>4, <2>7
      <4> QED
        BY <1>3, <2>9, <4>2, <4>3, LogShows
    <3> QED
      BY <3>1, <3>2
  <2>12. e.fence <= Encode(clock[Seed]) /\ e.fence <= Encode(clock'[Client]) /\ d.log \subseteq e.log
         /\ e.vector[Seed] <= db[Seed].localSeq
    <3>1. db[Seed].localSeq \in Nat
      BY SeedTimes DEF WInv
    <3> QED
      BY <1>3, <1>4, <2>6, <2>7, <2>8, <3>1
  <2> QED
    BY <1>1, <1>5, <2>2, <2>3, <2>9, <2>10, <2>11, <2>12, LoopTold
<1> QED
  BY <1>6, <1>7

-----------------------------------------------------------------------------
(***************************************************************************)
(* The theorems                                                            *)
(***************************************************************************)
LEMMA InitInv == CopyInit => IInv
<1> SUFFICES ASSUME CopyInit PROVE IInv
  OBVIOUS
<1>1. Zero \in Clock /\ Encode(Zero) \in Nat
  <2>1. Zero \in Clock
    BY LogicalAssumption DEF Zero, Clock
  <2> QED
    BY <2>1, EncodeType
<1>2. clock \in [Node -> Clock] /\ \A n \in Node : db[n] = Empty /\ clock[n] = Zero
  BY <1>1 DEF CopyInit
<1>3. Databases
  <2>1. Larger(Encode(Zero), 0) \in Nat
    BY <1>1 DEF Larger
  <2>2. db = [n \in Node |-> db[n]]
    BY DEF CopyInit
  <2> QED
    BY <1>1, <1>2, <2>1, <2>2, Nodes, EmptyIs DEF Databases
<1>4. Clocks
  BY <1>2, DownIs DEF CopyInit, Clocks, Serving
<1>5. SeedFiles
  BY CopyAssumption DEF CopyInit, SeedFiles
<1>6. Stages
  <2>1. NoFile \in File
    BY DEF NoFile, File
  <2> QED
    BY <2>1, DownIs, CopyAssumption DEF CopyInit, Stages
<1>7. Rescued
  BY DownIs DEF CopyInit, Rescued
<1>8. Numbers
  BY DEF CopyInit, Numbers, NumbersAreFresh, Own
<1>9. History
  BY DEF CopyInit, History
<1> QED
  BY <1>3, <1>4, <1>5, <1>6, <1>7, <1>8, <1>9 DEF IInv

\* A step of the client, alone or with what breaks or stops it.
ClientStep ==
  CopySteps \/ ChunkBreaks \/ AttemptFails \/ GiveUp \/ ReplayFails \/ Stop \/ Crash \/ LoseDisk

LEMMA ClientStepInv == ASSUME IInv, ClientStep PROVE IInv'
<1>1. CASE Start \/ GetManifest \/ WriteSidecar \/ Truncate \/ FetchChunk \/ SnapshotGone \/ Verify
  BY <1>1, StartStep, GetManifestStep, WriteSidecarStep, TruncateStep, FetchChunkStep,
     SnapshotGoneStep, VerifyStep
<1>2. CASE WriteRescue \/ Sanitize \/ CloseIncoming \/ Install \/ Open
  BY <1>2, WriteRescueStep, SanitizeStep, CloseIncomingStep, InstallStep, OpenStep
<1>3. CASE ReplayLoses \/ ReplayFenced \/ ReplayRecord \/ ReplaySchema \/ ReplayEmit \/ ReplayEnds
           \/ ReplayFails
  BY <1>3, ReplayPassesStep, ReplayRecordStep, ReplaySchemaStep, ReplayEmitStep, ReplayEndsStep
<1>4. CASE ChunkBreaks \/ AttemptFails \/ GiveUp \/ Stop \/ Crash \/ LoseDisk
  BY <1>4, ChunkBreaksStep, AttemptFailsStep, GiveUpStep, StopStep, CrashStep, LoseDiskStep
<1> QED
  BY <1>1, <1>2, <1>3, <1>4 DEF ClientStep, CopySteps

\* While it serves, the client changes its database in the replay only.
LEMMA ClientStepForward == ASSUME IInv, ClientStep, Serving PROVE Forward
<1>1. CASE Start \/ GetManifest \/ WriteSidecar \/ Truncate \/ FetchChunk \/ SnapshotGone \/ Verify
           \/ WriteRescue \/ Sanitize \/ CloseIncoming
  <2>1. db' = db
    BY <1>1 DEF Start, GetManifest, WriteSidecar, Truncate, FetchChunk, Receives, SnapshotGone,
      Verify, WriteRescue, Sanitize, CloseIncoming
  <2> QED
    BY <2>1, ForwardKept
<1>2. CASE Open \/ ReplayLoses \/ ReplayFenced \/ ReplayFails \/ ReplayEnds
           \/ ChunkBreaks \/ AttemptFails \/ GiveUp \/ Crash
  <2>1. db' = db
    BY <1>2 DEF Open, ReplayLoses, ReplayFenced, ReplayFails, ReplayEnds, ChunkBreaks, Receives,
      AttemptFails, GiveUp, Crash
  <2> QED
    BY <2>1, ForwardKept
<1>3. CASE ReplayRecord \/ ReplaySchema \/ ReplayEmit
  BY <1>3, ReplayRecordStep, ReplaySchemaStep, ReplayEmitStep
<1>4. CASE Stop
  <2>1. db[Client] \in Database /\ db' = [db EXCEPT ![Client].hlc = Encode(clock[Client])]
    BY <1>4, ClientTimes DEF Stop
  <2>2. db'[Client] = [db[Client] EXCEPT !.hlc = Encode(clock[Client])]
    BY <2>1, Nodes DEF IInv, Databases
  <2>3. db'[Client].version = db[Client].version
    BY <2>1, <2>2 DEF Database
  <2> QED
    BY <2>3, ForwardKept
<1>5. CASE Install \/ LoseDisk
  BY <1>5 DEF Install, LoseDisk, Serving
<1> QED
  BY <1>1, <1>2, <1>3, <1>4, <1>5 DEF ClientStep, CopySteps

LEMMA NextInv == ASSUME IInv, CopyNext PROVE IInv' /\ (Serving => Forward)
<1>1. CASE Around
  <2>1. CASE \E n \in Node : LocalWrite(n)
    BY <2>1, LocalWriteStep
  <2>2. CASE Push \/ Pull
    BY <2>2, PushStep, PullStep
  <2>3. CASE \E k \in Key : SeedCollect(k)
    BY <2>3, SeedCollectStep
  <2> QED
    BY <1>1, <2>1, <2>2, <2>3 DEF Around
<1>2. CASE SeedPrepares
  BY <1>2, ReadVectorStep, VacuumStep, CleanupStep, SeedRestartStep DEF SeedPrepares
<1>3. CASE ClientStep
  BY <1>3, ClientStepInv, ClientStepForward
<1> QED
  BY <1>1, <1>2, <1>3 DEF CopyNext, ClientStep

LEMMA StutterInv == ASSUME IInv, UNCHANGED vars PROVE IInv' /\ Forward
<1>1. UNCHANGED <<db, clock, made, reading, cached, onDisk, here, incoming, sidecar, rescue, client,
                  issued, doubt, cut, unknown, resyncs, events>>
  BY DEF vars, seedVars, clientVars, history
<1>2. Stages' /\ Rescued'
  BY <1>1, StagesKept, RescuedKept DEF IInv
<1>3. IInv'
  BY <1>1, <1>2, ClientIsBusy DEF IInv, History, Serving, seedVars
<1> QED
  BY <1>1, <1>3, ForwardKept

LEMMA InvAlways == CopySpec => []IInv
<1>1. IInv /\ [CopyNext]_vars => IInv'
  BY NextInv, StutterInv
<1> QED
  BY <1>1, InitInv, PTL DEF CopySpec

\* The client is where its files let it be, and every file, number and operation is one
\* there can be.
THEOREM CopyTypes == CopySpec => []CopyTypeOK
<1>1. ASSUME IInv PROVE CopyTypeOK
  <2>1. db \in [Node -> Database]
    <3>1. \A n \in Node : db[n] \in Database
      BY <1>1, Nodes DEF IInv, Databases, Sound
    <3>2. db = [n \in Node |-> db[n]]
      BY <1>1 DEF IInv, Databases
    <3> QED
      BY <3>1, <3>2
  <2> QED
    BY <1>1, <2>1 DEF IInv, Clocks, SeedFiles, Stages, Rescued, History, CopyTypeOK
<1> QED
  BY <1>1, InvAlways, PTL

\* A database the client has, or has copied, is one snapshot of its seed, however chunks
\* broke, were tried again, resumed and ran into a new snapshot (downloadDBSnapshot).
THEOREM CopiesAreWhole == CopySpec => []CopyIsWhole
<1>1. IInv => CopyIsWhole
  BY DEF IInv, Databases, Sound, CopyIsWhole
<1> QED
  BY <1>1, InvAlways, PTL

\* No sequence number is used for two writes, though the client goes back to an older
\* database and issues what it has put aside anew (sanitizeCopiedDB, replayRescuedOps);
\* but for numbers that went with a disk and that the copy did not know of.
THEOREM NumbersStayFresh == CopySpec => []NumbersAreFresh
<1>1. IInv => NumbersAreFresh
  BY DEF IInv, Numbers
<1> QED
  BY <1>1, InvAlways, PTL

\* While the client serves no version goes back, by a write, by what is replayed or by
\* what it pulls.
THEOREM LaterWritesStay == CopySpec => LaterWritesWin
<1> DEFINE Stays == Serving => Forward
<1>1. IInv /\ [CopyNext]_vars => [Stays]_vars
  BY NextInv
<1>2. [Stays]_vars => [Serving => \A k \in Key : ~ Less(db'[Client].version[k], db[Client].version[k])]_vars
  BY DEF Forward
<1> HIDE DEF Stays
<1> QED
  BY <1>1, <1>2, InvAlways, PTL DEF CopySpec, LaterWritesWin

-----------------------------------------------------------------------------
(***************************************************************************)
(* Nothing that is written is lost, and a copy is complete                 *)
(***************************************************************************)
LEMMA InitTold == CopyInit => Told
<1> SUFFICES ASSUME CopyInit PROVE Told
  OBVIOUS
<1>1. IInv
  BY InitInv
<1>2. /\ issued = {} /\ unknown = {} /\ made = << >> /\ reading = {} /\ cached = 0 /\ rescue = {}
      /\ client = Down /\ here = TRUE
  BY DEF CopyInit
<1>3. db[Seed] = Empty /\ db[Client] = Empty
  BY Nodes DEF CopyInit
<1>4. client.at = "down" /\ client.emit = {} /\ PutAside = {} /\ Final(issued) = {} /\ ~ Serving
  BY <1>2, DownIs DEF PutAside, Final, Serving
<1>5. /\ Empty.log = {} /\ Empty.fence = 0 /\ Empty.vector[Seed] = 0 /\ Empty.vector[Client] = 0
      /\ Empty.localSeq = 0
      /\ \A k \in Key : Empty.version[k] = NoVersion /\ Empty.row[k] = NoRow
  BY Nodes DEF Empty
<1>6. Encode(clock[Seed]) \in Nat
  BY <1>1, SeedTimes
<1>7. \A but : Consistent(Empty, {}, but)
  BY <1>5 DEF Consistent
<1>8. OneStamp
  BY <1>2 DEF OneStamp, Settled, Own
<1>9. SeedData
  BY <1>3, <1>4, <1>5, <1>6, <1>7 DEF SeedData, SeedTells, SeedShows, Acked
<1>10. FilesData
  <2>1. DOMAIN made = {} /\ Len(made) = 0
    BY <1>2
  <2> QED
    BY <1>2, <2>1 DEF FilesData, FilesTell, AllAcked
<1>11. ClientData
  <2>1. Consistent(db[Client], db[Client].log \cup client.emit, cut)
    BY <1>3, <1>4, <1>5, <1>7
  <2> QED
    BY <1>3, <1>4, <1>5, <1>6, <2>1 DEF ClientData, ClientTells, Copied, Kept
<1>12. Aside
  <2>1. client.at \notin Copying \cup {"manifest", "sanitize", "close", "install"}
    BY <1>4 DEF Copying
  <2> QED
    BY <1>2, <1>4, <2>1 DEF Aside
<1> QED
  BY <1>8, <1>9, <1>10, <1>11, <1>12 DEF Told

LEMMA ClientStepTold == ASSUME WInv, IInv', ClientStep PROVE Told'
<1>1. CASE Start \/ GetManifest \/ WriteSidecar \/ Truncate \/ FetchChunk \/ SnapshotGone \/ Verify
           \/ Sanitize \/ CloseIncoming \/ ChunkBreaks \/ AttemptFails \/ GiveUp
  BY <1>1, CopyMovesTold, GetManifestTold, CloseIncomingTold, ChunkTold
<1>2. CASE WriteRescue \/ Install \/ Open
  BY <1>2, WriteRescueTold, InstallTold, OpenTold
<1>3. CASE ReplayLoses \/ ReplayFenced \/ ReplayRecord \/ ReplaySchema \/ ReplayEmit \/ ReplayEnds
           \/ ReplayFails
  BY <1>3, ReplayPassesTold, ReplayRecordTold, ReplaySchemaTold, ReplayEmitTold, ReplayEndsTold
<1>4. CASE Stop \/ Crash \/ LoseDisk
  BY <1>4, StopTold, CrashTold, LoseDiskTold
<1> QED
  BY <1>1, <1>2, <1>3, <1>4 DEF ClientStep, CopySteps

LEMMA NextTold == ASSUME WInv, CopyNext PROVE WInv'
<1>1. IInv'
  BY NextInv DEF WInv
<1>2. CASE Around
  <2>1. ASSUME NEW n \in Node, LocalWrite(n) PROVE Told'
    BY <1>1, <2>1, Nodes, ClientWriteTold, SeedWriteTold
  <2>2. ASSUME Push \/ Pull PROVE Told'
    BY <1>1, <2>2, PushTold, PullTold
  <2>3. ASSUME NEW k \in Key, SeedCollect(k) PROVE Told'
    BY <1>1, <2>3, SeedCollectTold
  <2> QED
    BY <1>1, <1>2, <2>1, <2>2, <2>3 DEF Around, WInv
<1>3. CASE SeedPrepares
  BY <1>1, <1>3, SeedPreparesTold DEF WInv
<1>4. CASE ClientStep
  BY <1>1, <1>4, ClientStepTold DEF WInv
<1> QED
  BY <1>2, <1>3, <1>4 DEF CopyNext, ClientStep

LEMMA StutterTold == ASSUME WInv, UNCHANGED vars PROVE WInv'
<1>1. UNCHANGED <<db, clock, made, reading, cached, onDisk, here, incoming, sidecar, rescue, client,
                  issued, doubt, cut, unknown, resyncs, events, seedVars>>
  BY DEF vars, seedVars, clientVars, history
<1>2. IInv'
  BY StutterInv DEF WInv
<1>3. OneStamp' /\ SeedData' /\ FilesData'
  BY <1>1, SeedUntouched DEF WInv, Told, OneStamp
<1>4. Serving' = Serving /\ PutAside' = PutAside /\ Promised' = Promised
  BY <1>1 DEF Serving, PutAside, Promised, Base
<1>5. ClientData'
  BY <1>1, <1>4 DEF WInv, Told, ClientData
<1>6. Aside'
  BY <1>1, <1>4 DEF WInv, Told, Aside
<1> QED
  BY <1>2, <1>3, <1>5, <1>6 DEF WInv, Told

LEMMA ToldAlways == CopySpec => []WInv
<1>1. CopyInit => WInv
  BY InitInv, InitTold DEF WInv
<1>2. WInv /\ [CopyNext]_vars => WInv'
  BY NextTold, StutterTold
<1> QED
  BY <1>1, <1>2, PTL DEF CopySpec

LEMMA NewestIsFinal ==
  ASSUME NEW o \in issued
  PROVE  Newest(o) <=> o \in Final(issued)
BY DEF Newest, Final

\* "unsynced local writes a resyncing node made while offline are rescued ... and
\* re-applied" (rescueLocalState, replayRescuedOps): the last word on a key that is the
\* client's is at every step, and after a crash at any of them, in a log, in what is put
\* aside, or in what the seed shows; unless the fence refused it, its replay failed, it
\* went with a disk, or a crash cut the replay of a collection in two.
THEOREM NothingLost == CopySpec => []NoWriteLost
<1>1. ASSUME WInv PROVE NoWriteLost
  <2> SUFFICES ASSUME unknown = {}, NEW o \in Own(issued), Newest(o), o.key \notin doubt \cup cut
               PROVE  Survives(o)
    BY DEF NoWriteLost
  <2>1. o \in issued /\ o.src = Client /\ o \in Final(issued) /\ issued \subseteq Op /\ Settled(issued)
    BY <1>1, NewestIsFinal DEF Own, WInv, Told, OneStamp, IInv, Clocks
  <2>2. here
    BY <1>1 DEF WInv, Told, Aside, KeysOf
  <2>3. Kept(db[Client], PutAside, issued, Promised, doubt \cup cut)
    BY <1>1, <2>2 DEF WInv, Told, ClientData
  <2>4. CASE Has(db[Client].log \cup PutAside, o)
    BY <2>4 DEF Has, Survives
  <2>5. ASSUME NEW x \in issued, SameWrite(x, o), x.seq <= Promised
        PROVE  Survives(o)
    <3>1. Acked(db[Seed], db[Seed].vector[Client], issued)
      BY <1>1 DEF WInv, Told, SeedData
    <3>2. Promised \in Nat /\ db[Seed].vector[Client] \in Nat /\ Promised <= db[Seed].vector[Client]
          /\ x.seq \in Nat
      BY <1>1, <2>1, PromiseIs, OpShown DEF WInv, Told, FilesData
    <3>3. x \in Final(issued) /\ x.src = Client /\ x.seq <= db[Seed].vector[Client]
      BY <2>1, <2>5, <3>2, SameShown DEF SameWrite
    <3>4. Shows(db[Seed], o)
      BY <2>1, <2>5, <3>1, <3>3, SameShown DEF Acked
    <3>5. Stamp(o).hlc = o.hlc /\ Stamp(o).src = o.src
      BY <2>1, OpShown
    <3> QED
      BY <3>4, <3>5 DEF Shows, Survives, SameWrite
  <2> QED
    BY <2>1, <2>3, <2>4, <2>5 DEF Kept
<1> QED
  BY <1>1, ToldAlways, PTL

\* What the vector of the client covers, it shows or has put aside (the vector that
\* prepareDBSnapshot reads before the file is written, and sanitizeCopiedDB writes):
\* nothing is taken for copied, or for acknowledged, that is not there.
THEOREM CopiesAreComplete == CopySpec => []CopyIsComplete
<1>1. ASSUME WInv PROVE CopyIsComplete
  <2> SUFFICES ASSUME here, unknown = {}, NEW o \in issued, Newest(o),
                      o.seq <= CurrentVector(Client)[o.src], o.key \notin doubt \cup cut
               PROVE  db[Client].row[o.key] = Written(o) \/ \E x \in PutAside : SameWrite(x, o)
    BY DEF CopyIsComplete
  <2>1. o \in Final(issued) /\ issued \subseteq Op /\ Settled(issued) /\ o \in Op
    BY <1>1, NewestIsFinal DEF WInv, Told, OneStamp, IInv, Clocks
  <2>2. CASE o.src = Client
    <3>1. Kept(db[Client], PutAside, issued, Promised, doubt \cup cut)
      BY <1>1 DEF WInv, Told, ClientData
    <3>2. CASE Has(PutAside, o)
      BY <3>2 DEF Has
    <3>3. CASE Has(db[Client].log, o)
      <4> DEFINE ops == db[Client].log \cup client.emit
      <4>1. Consistent(db[Client], ops, cut)
        BY <1>1 DEF WInv, Told, ClientData, ClientTells
      <4>2. ops \in SUBSET issued
        BY <1>1, OwnIssued DEF WInv, IInv, Rescued, Own
      <4>3. Has(ops, o)
        BY <3>3 DEF Has
      <4> HIDE DEF ops
      <4>4. Shows(db[Client], o)
        BY <2>1, <4>1, <4>2, <4>3, LogShows
      <4> QED
        BY <4>4 DEF Shows
    <3>4. Has(db[Client].log \cup PutAside, o) => Has(db[Client].log, o) \/ Has(PutAside, o)
      BY DEF Has
    <3> QED
      BY <2>1, <2>2, <3>1, <3>2, <3>3, <3>4 DEF Kept, Shows
  <2>3. CASE o.src = Seed
    <3>1. CurrentVector(Client)[Seed] = db[Client].vector[Seed]
      <4>1. db[Client].vector \in Vector
        BY <1>1, OwnIssued DEF WInv
      <4> QED
        BY <4>1, Nodes DEF CurrentVector, VectorOf, Vector
    <3>2. Copied(db[Client], db[Client].vector[Seed], issued, cut)
      BY <1>1 DEF WInv, Told, ClientData
    <3> QED
      BY <2>1, <2>3, <3>1, <3>2 DEF Copied, Shows
  <2> QED
    BY <2>1, <2>2, <2>3, OpShown, Nodes
<1> QED
  BY <1>1, ToldAlways, PTL
=============================================================================
