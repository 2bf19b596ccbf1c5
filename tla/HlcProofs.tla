----------------------------- MODULE HlcProofs -----------------------------
(***************************************************************************)
(* The clock of a node over its processes only moves forward.              *)
(***************************************************************************)
EXTENDS HlcClock, LwwTheorems

\* The clock of a process is at or past everything it has resumed from,
\* observed and issued.
ClockCovers ==
  \A i \in 1 .. Len(history) : history[i].stamp <= Encode(clock)

ClockInv == ClockTypeOK /\ ClockCovers /\ IssuedIncreases

\* A process that has just started has a history of one event.
LEMMA InvStart ==
  ASSUME ClockInv, Start
  PROVE  ClockInv'
<1>1. /\ Zero \in Clock /\ persisted \in Clock
  BY LogicalAssumption DEF ClockInv, ClockTypeOK, Zero, Clock
<1>2. clock' \in Clock /\ Encode(persisted) <= Encode(clock') /\ Encode(persisted) \in Nat
  BY <1>1, MergeIsLarger, EncodeType DEF Start
<1>3. ClockTypeOK'
  BY <1>2 DEF ClockInv, ClockTypeOK, Start, Event, Kind
<1>4. Len(history') = 1 /\ history'[1].stamp = Encode(persisted)
  BY DEF Start
<1>5. ClockCovers'
  BY <1>2, <1>4 DEF ClockCovers, Start
<1>6. IssuedIncreases'
  BY <1>4 DEF IssuedIncreases
<1> QED
  BY <1>3, <1>5, <1>6 DEF ClockInv

\* An event that the new clock covers, and that is past the old one if it is
\* issued, extends the history.
LEMMA InvRecord ==
  ASSUME ClockInv, running, running' = running, persisted' = persisted,
         NEW kind \in Kind, NEW c \in Clock, Record(kind, c),
         clock' \in Clock, Encode(clock) <= Encode(clock'), Encode(c) <= Encode(clock'),
         kind = "issued" => Encode(clock) < Encode(c)
  PROVE  ClockInv'
<1> DEFINE e == [kind |-> kind, stamp |-> Encode(c)]
<1>1. /\ clock \in Clock /\ Encode(clock) \in Nat /\ Encode(clock') \in Nat /\ Encode(c) \in Nat
      /\ e \in Event /\ history \in Seq(Event)
  BY EncodeType DEF ClockInv, ClockTypeOK, Event
<1>2. /\ e.kind = kind /\ e.stamp = Encode(c)
      /\ history' = Append(history, e)
  BY DEF Record
<1> HIDE DEF e
<1>3. /\ history' \in Seq(Event) /\ Len(history) \in Nat /\ Len(history') = Len(history) + 1
      /\ history'[Len(history) + 1] = e
      /\ \A i \in 1 .. Len(history) : history'[i] = history[i]
  BY <1>1, <1>2
<1>4. ClockTypeOK'
  BY <1>3 DEF ClockInv, ClockTypeOK
<1>7. ASSUME NEW i \in 1 .. Len(history) PROVE history[i].stamp \in Nat
  <2>1. history[i] \in Event
    BY <1>1
  <2> QED
    BY <2>1 DEF Event
<1>5. ClockCovers'
  BY <1>1, <1>2, <1>3, <1>7 DEF ClockInv, ClockCovers
<1>6. IssuedIncreases'
  <2> SUFFICES ASSUME NEW i \in 1 .. Len(history'), NEW j \in 1 .. Len(history'),
                      i < j, history'[j].kind = "issued"
               PROVE  history'[i].stamp < history'[j].stamp
    BY DEF IssuedIncreases
  <2>1. i \in 1 .. Len(history) /\ history'[i] = history[i]
    BY <1>3
  <2>2. CASE j = Len(history) + 1
    BY <1>1, <1>2, <1>3, <1>7, <2>1, <2>2 DEF ClockInv, ClockCovers
  <2>3. CASE j # Len(history) + 1
    <3>1. j \in 1 .. Len(history) /\ history'[j] = history[j]
      BY <1>3, <2>3
    <3> QED
      BY <2>1, <3>1 DEF ClockInv, IssuedIncreases
  <2> QED
    BY <2>2, <2>3
<1> QED
  BY <1>4, <1>5, <1>6 DEF ClockInv

\* Nothing is wrong with an empty history.
LEMMA EmptyHistory ==
  ASSUME history = <<>>
  PROVE  history \in Seq(Event) /\ ClockCovers /\ IssuedIncreases
<1>1. history \in Seq(Event) /\ 1 .. Len(history) = {}
  OBVIOUS
<1> QED
  BY <1>1 DEF ClockCovers, IssuedIncreases

\* The invariant holds at first and is kept by every step.
LEMMA InvKept ==
  /\ ClockInit => ClockInv
  /\ ClockInv /\ [ClockNext]_clockVars => ClockInv'
<1>0. Zero \in Clock
  BY LogicalAssumption DEF Zero, Clock
<1>1. ClockInit => ClockInv
  BY <1>0, EmptyHistory DEF ClockInit, ClockInv, ClockTypeOK
<1>2. ASSUME ClockInv, NEW wall \in 0 .. MaxWall, Now(wall)
      PROVE  ClockInv'
  <2>1. clock \in Clock /\ wall \in Nat
    BY <1>2, WallAssumption DEF ClockInv, ClockTypeOK
  <2>2. /\ clock' \in Clock /\ Encode(clock) < Encode(clock')
        /\ Encode(clock) \in Nat /\ Encode(clock') \in Nat
    BY <1>2, <2>1, TickIncreases, EncodeType DEF Now
  <2>3. history' = Append(history, [kind |-> "issued", stamp |-> Encode(clock')])
    BY <1>2 DEF Now, Record
  <2>4. PICK c \in Clock : c = clock'
    BY <2>2
  <2> QED
    BY <1>2, <2>2, <2>3, <2>4, InvRecord DEF Now, Record, Kind
<1>3. ASSUME ClockInv, NEW r \in Clock, Observe(r)
      PROVE  ClockInv'
  <2>1. clock \in Clock
    BY <1>3 DEF ClockInv, ClockTypeOK
  <2>2. /\ clock' \in Clock /\ Encode(clock) <= Encode(clock') /\ Encode(r) <= Encode(clock')
    BY <1>3, <2>1, MergeIsLarger DEF Observe
  <2> QED
    BY <1>3, <2>2, InvRecord DEF Observe, Kind
<1>4. [physical : 0 .. MaxWall, logical : 0 .. LogicalSize - 1] \subseteq Clock
  BY WallAssumption DEF Clock
<1>5. ASSUME ClockInv, Stop PROVE ClockInv'
  <2>1. 1 .. Len(history') = {} /\ history' \in Seq(Event)
    BY <1>5 DEF Stop
  <2> QED
    BY <1>0, <1>5, <2>1 DEF Stop, ClockInv, ClockTypeOK, ClockCovers, IssuedIncreases
<1>6. ASSUME ClockInv, Persist \/ UNCHANGED clockVars PROVE ClockInv'
  BY <1>6
  DEF Persist, clockVars, ClockInv, ClockTypeOK, ClockCovers, IssuedIncreases
<1> QED
  BY <1>1, <1>2, <1>3, <1>4, <1>5, <1>6, InvStart DEF ClockNext

\* The clock keeps its range: the logical counter never leaves its sixteen bits, as
\* it wraps into the physical part (hlc.go, Now).
THEOREM ClockTypes == ClockSpec => []ClockTypeOK
<1>1. ClockInv => ClockTypeOK
  BY DEF ClockInv
<1> QED
  BY <1>1, InvKept, PTL DEF ClockSpec

\* Now returns a timestamp greater than any the process has issued, observed or
\* resumed from, whatever the wall clock does, and although the counter wraps
\* (hlc.go, Now).
THEOREM ClockIncreases == ClockSpec => [](ClockTypeOK /\ IssuedIncreases)
<1>1. ClockInv => ClockTypeOK /\ IssuedIncreases
  BY DEF ClockInv
<1> QED
  BY <1>1, InvKept, PTL DEF ClockSpec
=============================================================================
