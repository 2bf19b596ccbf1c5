---------------------------- MODULE LwwTheorems ----------------------------
(***************************************************************************)
(* Facts about the functions of the hybrid logical clock, for every width  *)
(* of its counter, about the order of writes, and about what vectors and   *)
(* horizons are chosen from.                                               *)
(***************************************************************************)
EXTENDS Lww, FiniteSetTheorems, TLAPS

\* A later millisecond sorts after every timestamp of an earlier one.
LEMMA LaterMillisecond ==
  ASSUME NEW p \in Nat, NEW q \in Nat, p < q
  PROVE  p * LogicalSize + LogicalSize <= q * LogicalSize
<1>1. LogicalSize \in Nat
  BY LogicalAssumption
<1>2. PICK d \in Nat : q = p + 1 + d
  <2>1. q - p - 1 \in Nat /\ q = p + 1 + (q - p - 1)
    OBVIOUS
  <2> QED
    BY <2>1
<1>3. q * LogicalSize = p * LogicalSize + LogicalSize + d * LogicalSize
  BY <1>1, <1>2
<1>4. d * LogicalSize \in Nat /\ p * LogicalSize \in Nat
  BY <1>1
<1> QED
  BY <1>1, <1>3, <1>4

\* A timestamp is a number.
LEMMA EncodeType ==
  ASSUME NEW c \in Clock
  PROVE  /\ Encode(c) \in Nat
         /\ c.physical \in Nat /\ c.logical \in Nat /\ c.logical < LogicalSize
         /\ c.physical * LogicalSize \in Nat
BY LogicalAssumption DEF Encode, Clock

\* Timestamps are ordered as the pairs are: physical part first.
THEOREM EncodeOrder ==
  ASSUME NEW c \in Clock, NEW d \in Clock
  PROVE  Encode(c) < Encode(d) <=>
           \/ c.physical < d.physical
           \/ c.physical = d.physical /\ c.logical < d.logical
<1>1. CASE c.physical < d.physical
  BY <1>1, EncodeType, LaterMillisecond, LogicalAssumption DEF Encode
<1>2. CASE d.physical < c.physical
  BY <1>2, EncodeType, LaterMillisecond, LogicalAssumption DEF Encode
<1>3. CASE d.physical = c.physical
  BY <1>3, EncodeType, LogicalAssumption DEF Encode
<1> QED
  BY <1>1, <1>2, <1>3, EncodeType

\* What Now issues is greater than the clock was, also when the counter wraps.
THEOREM TickIncreases ==
  ASSUME NEW c \in Clock, NEW wall \in Nat
  PROVE  Tick(c, wall) \in Clock /\ Encode(c) < Encode(Tick(c, wall))
<1>1. CASE wall > c.physical
  <2>1. Tick(c, wall) = [physical |-> wall, logical |-> 0] /\ Tick(c, wall) \in Clock
    BY <1>1, LogicalAssumption DEF Tick, Clock
  <2> QED
    BY <1>1, <2>1, EncodeOrder
<1>2. CASE ~ (wall > c.physical)
  <2>1. CASE c.logical + 1 = LogicalSize
    <3>1. /\ Tick(c, wall) = [physical |-> c.physical + 1, logical |-> 0]
          /\ Tick(c, wall) \in Clock
      BY <1>2, <2>1, LogicalAssumption DEF Tick, NextLogical, Clock
    <3>2. Tick(c, wall).physical = c.physical + 1 /\ c.physical \in Nat
      BY <3>1, EncodeType
    <3> QED
      BY <3>1, <3>2, EncodeOrder
  <2>2. CASE c.logical + 1 # LogicalSize
    <3>1. /\ Tick(c, wall) = [c EXCEPT !.logical = @ + 1]
          /\ Tick(c, wall) \in Clock
      BY <1>2, <2>2, LogicalAssumption DEF Tick, NextLogical, Clock
    <3>2. Tick(c, wall).physical = c.physical /\ Tick(c, wall).logical = c.logical + 1
      BY <3>1 DEF Clock
    <3>3. c.logical < c.logical + 1
      BY EncodeType
    <3> QED
      BY <3>1, <3>2, <3>3, EncodeOrder
  <2> QED
    BY <2>1, <2>2
<1> QED
  BY <1>1, <1>2

\* A clock that has observed another is the greater of the two.
THEOREM MergeIsLarger ==
  ASSUME NEW c \in Clock, NEW r \in Clock
  PROVE  /\ Merge(c, r) \in Clock
         /\ Encode(c) <= Encode(Merge(c, r)) /\ Encode(r) <= Encode(Merge(c, r))
         /\ Merge(c, r) \in {c, r}
<1>1. CASE r.physical > c.physical
  <2>1. Merge(c, r) = r
    BY <1>1, EncodeType DEF Merge
  <2> QED
    BY <1>1, <2>1, EncodeOrder, EncodeType
<1>2. CASE r.physical = c.physical /\ r.logical > c.logical
  <2>1. Merge(c, r) = [c EXCEPT !.logical = r.logical]
    BY <1>2, EncodeType DEF Merge
  <2>2. [c EXCEPT !.logical = r.logical] = r
    BY <1>2 DEF Clock
  <2> QED
    BY <1>2, <2>1, <2>2, EncodeOrder, EncodeType
<1>3. CASE ~ (r.physical > c.physical) /\ ~ (r.physical = c.physical /\ r.logical > c.logical)
  <2>1. Merge(c, r) = c
    BY <1>3 DEF Merge
  <2>2. ~ (Encode(c) < Encode(r))
    BY <1>3, EncodeOrder, EncodeType
  <2> QED
    BY <2>1, <2>2, EncodeType
<1> QED
  BY <1>1, <1>2, <1>3

\* Decoding a timestamp gives the clock it was taken from.
LEMMA ClockOfEncodes ==
  ASSUME NEW h \in Nat
  PROVE  ClockOf(h) \in Clock /\ Encode(ClockOf(h)) = h
<1>1. LogicalSize \in Nat /\ LogicalSize > 1
  BY LogicalAssumption
<1>2. h \div LogicalSize \in Nat
  BY <1>1
<1>3. h % LogicalSize \in 0 .. LogicalSize - 1
  BY <1>1
<1>4. h = LogicalSize * (h \div LogicalSize) + (h % LogicalSize)
  BY <1>1
<1>5. (h \div LogicalSize) * LogicalSize = LogicalSize * (h \div LogicalSize)
  BY <1>1, <1>2
<1> QED
  BY <1>2, <1>3, <1>4, <1>5 DEF ClockOf, Clock, Encode

-----------------------------------------------------------------------------
\* What the order of writes compares.
Stamped(x) == x.hlc \in Nat /\ x.src \in Nat

\* The order of writes is a strict order, total but for writes of the same stamp.
LEMMA LessOrder ==
  ASSUME NEW a, NEW b, NEW c, Stamped(a), Stamped(b), Stamped(c)
  PROVE  /\ ~ Less(a, a)
         /\ Less(a, b) => ~ Less(b, a)
         /\ Less(a, b) /\ Less(b, c) => Less(a, c)
         /\ ~ Less(b, a) /\ ~ Less(c, b) => ~ Less(c, a)
         /\ Less(a, b) /\ ~ Less(c, b) => Less(a, c)
         /\ ~ Less(b, a) /\ Less(b, c) => Less(a, c)
         /\ ~ Less(a, b) /\ ~ Less(b, a) => a.hlc = b.hlc /\ a.src = b.src
BY DEF Less, Stamped

\* A finite set of numbers has a largest one: a smallest set without is empty.
LEMMA FiniteMaximum ==
  ASSUME NEW S \in SUBSET Nat, IsFiniteSet(S), S # {}
  PROVE  \E x \in S : \A y \in S : y <= x
<1> DEFINE Bad == {X \in FiniteSubsetsOf(Nat) : X # {} /\ ~ \E x \in X : \A y \in X : y <= x}
<1>1. SUFFICES ASSUME Bad # {} PROVE FALSE
  BY DEF FiniteSubsetsOf
<1>2. PICK X \in Bad : \A Y \in Bad : <<Y, X>> \notin StrictSubsetOrdering(Nat)
  <2>1. Bad \subseteq FiniteSubsetsOf(Nat)
    OBVIOUS
  <2> HIDE DEF Bad
  <2> QED
    BY <1>1, <2>1, WFMin, FS_StrictSubsetOrderingWellFounded
<1>3. PICK x : x \in X
  OBVIOUS
<1> DEFINE Y == X \ {x}
<1>4. Y \in FiniteSubsetsOf(Nat) /\ Y \subseteq X /\ Y # X
  BY <1>3, FS_RemoveElement DEF FiniteSubsetsOf
<1>5. Y \notin Bad
  BY <1>2, <1>4 DEF FiniteSubsetsOf, StrictSubsetOrdering
<1>6. CASE Y = {}
  BY <1>3, <1>6 DEF FiniteSubsetsOf
<1>7. CASE Y # {}
  <2>1. PICK z \in Y : \A y \in Y : y <= z
    BY <1>4, <1>5, <1>7
  <2>2. x \in Nat /\ z \in Nat /\ z \in X
    BY <1>3, <2>1 DEF FiniteSubsetsOf
  <2>3. CASE z <= x
    BY <1>3, <2>1, <2>2, <2>3 DEF FiniteSubsetsOf
  <2>4. CASE ~ (z <= x)
    BY <1>3, <2>1, <2>2, <2>4 DEF FiniteSubsetsOf
  <2> QED
    BY <2>3, <2>4
<1> QED
  BY <1>6, <1>7

\* Of finitely many numbered writes one is the first of those that no other beats.
LEMMA FirstWinner ==
  ASSUME NEW S \in SUBSET Nat, IsFiniteSet(S), S # {}, NEW f, \A i \in S : Stamped(f[i])
  PROVE  \E i \in S : \A j \in S : ~ Less(f[i], f[j]) /\ (j < i => Less(f[j], f[i]))
<1> DEFINE First(X, i) == \A j \in X : ~ Less(f[i], f[j]) /\ (j < i => Less(f[j], f[i]))
           Bad == {X \in FiniteSubsetsOf(S) : X # {} /\ ~ \E i \in X : First(X, i)}
<1>1. SUFFICES ASSUME Bad # {} PROVE FALSE
  BY DEF FiniteSubsetsOf
<1>2. PICK X \in Bad : \A Y \in Bad : <<Y, X>> \notin StrictSubsetOrdering(S)
  <2>1. Bad \subseteq FiniteSubsetsOf(S)
    OBVIOUS
  <2> HIDE DEF Bad
  <2> QED
    BY <1>1, <2>1, WFMin, FS_StrictSubsetOrderingWellFounded
<1>3. PICK x : x \in X
  OBVIOUS
<1> DEFINE Y == X \ {x}
<1>4. Y \in FiniteSubsetsOf(S) /\ Y \subseteq X /\ Y # X
  BY <1>3, FS_RemoveElement DEF FiniteSubsetsOf
<1>5. Y \notin Bad
  BY <1>2, <1>4 DEF FiniteSubsetsOf, StrictSubsetOrdering
<1>6. X \subseteq S /\ x \in S /\ ~ Less(f[x], f[x])
  BY <1>3 DEF FiniteSubsetsOf, Less, Stamped
<1>7. CASE Y = {}
  <2>1. X = {x}
    BY <1>3, <1>7
  <2> QED
    BY <1>6, <2>1
<1>8. CASE Y # {}
  <2>1. PICK z \in Y : First(Y, z)
    BY <1>4, <1>5, <1>8
  <2>2. x \in Nat /\ z \in Nat /\ z \in X /\ x # z /\ Stamped(f[x]) /\ Stamped(f[z])
        /\ \A j \in Y : Stamped(f[j]) /\ j \in Nat /\ j # x
    BY <1>3, <1>6, <2>1
  <2>3. CASE Less(f[z], f[x]) \/ (~ Less(f[x], f[z]) /\ x < z)
    <3>1. ASSUME NEW j \in Y
          PROVE  ~ Less(f[x], f[j]) /\ (j < x => Less(f[j], f[x]))
      <4>1. ~ Less(f[z], f[j]) /\ (j < z => Less(f[j], f[z]))
        BY <2>1
      <4>2. CASE Less(f[z], f[x])
        BY <2>2, <4>1, <4>2 DEF Less, Stamped
      <4>3. CASE ~ Less(f[x], f[z]) /\ x < z
        BY <2>2, <4>1, <4>3 DEF Less, Stamped
      <4> QED
        BY <2>3, <4>2, <4>3
    <3>2. First(X, x)
      BY <1>6, <3>1
    <3> QED
      BY <1>3, <3>2
  <2>4. CASE ~ (Less(f[z], f[x]) \/ (~ Less(f[x], f[z]) /\ x < z))
    <3>1. ~ Less(f[z], f[x]) /\ (x < z => Less(f[x], f[z]))
      BY <2>4
    <3>2. First(X, z)
      BY <2>1, <3>1
    <3> QED
      BY <2>2, <3>2
  <2> QED
    BY <2>3, <2>4
<1> QED
  BY <1>7, <1>8

\* How far the operations of a source are contiguous in a finite log is determined: the
\* number advanceVector finds is at least the one it started from, everything up to it is
\* there, and the next one is not.
LEMMA ContiguousIs ==
  ASSUME NEW ops, IsFiniteSet(ops), NEW src, NEW cur \in Nat
  PROVE  LET next == Contiguous(ops, src, cur)
         IN  /\ next \in Nat /\ cur <= next
             /\ \A s \in cur + 1 .. next : \E o \in ops : o.src = src /\ o.seq = s
             /\ ~ \E o \in ops : o.src = src /\ o.seq = next + 1
<1> DEFINE C == Cardinality(ops)
           Has(s) == \E o \in ops : o.src = src /\ o.seq = s
           S == {k \in cur .. cur + C : \A s \in cur + 1 .. k : Has(s)}
<1>1. C \in Nat
  BY FS_CardinalityType
<1>2. PICK m \in S : \A k \in S : k <= m
  <2>1. cur \in S
    BY <1>1
  <2>2. S \in SUBSET Nat /\ IsFiniteSet(S)
    <3>1. S \in SUBSET (cur .. cur + C) /\ S \in SUBSET Nat
      BY <1>1
    <3>2. IsFiniteSet(cur .. cur + C)
      <4>1. cur \in Int /\ cur + C \in Int
        BY <1>1
      <4> QED
        BY <4>1, FS_Interval
    <3> HIDE DEF S, C
    <3> QED
      BY <3>1, <3>2, FS_Subset
  <2> HIDE DEF S
  <2> QED
    BY <2>1, <2>2, FiniteMaximum
<1>3. m \in Nat /\ m \in cur .. cur + C /\ \A s \in cur + 1 .. m : Has(s)
  BY <1>1, <1>2
<1>4. ASSUME Has(m + 1) PROVE FALSE
  <2>1. \A s \in cur + 1 .. m + 1 : Has(s)
    <3> SUFFICES ASSUME NEW s \in cur + 1 .. m + 1 PROVE Has(s)
      OBVIOUS
    <3> HIDE DEF Has
    <3>1. s \in cur + 1 .. m \/ s = m + 1
      BY <1>3
    <3> QED
      BY <1>3, <1>4, <3>1
  <2>2. m = cur + C
    <3>1. ASSUME m + 1 \in cur .. cur + C PROVE FALSE
      <4>1. m + 1 \in S
        BY <2>1, <3>1
      <4>2. m + 1 <= m
        BY <1>2, <4>1
      <4> QED
        BY <1>3, <4>2
    <3> HIDE DEF C
    <3> QED
      BY <1>1, <1>3, <3>1
  <2> DEFINE T == cur + 1 .. m + 1
             f == [s \in T |-> CHOOSE o \in ops : o.src = src /\ o.seq = s]
  <2>3. IsFiniteSet(T) /\ Cardinality(T) = C + 1
    <3> HIDE DEF C
    <3>1. /\ cur + 1 \in Int /\ m + 1 \in Int /\ ~ (cur + 1 > m + 1)
          /\ (m + 1) - (cur + 1) + 1 = C + 1
      BY <1>1, <2>2
    <3> QED
      BY <3>1, FS_Interval
  <2>4. \A s \in T : f[s] \in ops /\ f[s].seq = s
    BY <2>1
  <2>5. f \in [T -> ops]
    BY <2>4
  <2> HIDE DEF T, f
  <2>6. PICK x, y \in T : x # y /\ f[x] = f[y]
    <3>1. Cardinality(ops) < Cardinality(T)
      BY <1>1, <2>3
    <3> QED
      BY <2>3, <2>5, <3>1, FS_PigeonHole
  <2> QED
    BY <2>4, <2>6
<1> DEFINE P(next) == (\A s \in cur + 1 .. next : Has(s)) /\ ~ Has(next + 1)
<1>5. P(m) /\ m \in cur .. cur + C
  BY <1>3, <1>4
<1>6. Contiguous(ops, src, cur) = CHOOSE next \in cur .. cur + C : P(next)
  BY DEF Contiguous
<1>7. P(Contiguous(ops, src, cur)) /\ Contiguous(ops, src, cur) \in cur .. cur + C
  <2> HIDE DEF P
  <2> QED
    BY <1>5, <1>6
<1> QED
  BY <1>1, <1>7

\* The numbers of finitely many operations are finitely many.
LEMMA FiniteNumbers ==
  ASSUME NEW X, IsFiniteSet(X)
  PROVE  IsFiniteSet({x.seq : x \in X})
<1> DEFINE T == {x.seq : x \in X}
           f == [x \in X |-> x.seq]
<1>1. f \in Surjection(X, T)
  BY DEF Surjection
<1> HIDE DEF f
<1> QED
  BY <1>1, FS_Surjection
=============================================================================
