--------------------------- MODULE IdentityProofs ---------------------------
(***************************************************************************)
(* A strict id is never replaced, a process that is no copy and has none   *)
(* keeps its id, a process numbers its own operations without gaps, and    *)
(* holds what its vector covers: through copies, refused joins and fresh   *)
(* ids.                                                                    *)
(***************************************************************************)
EXTENDS Identity, LwwTheorems

-----------------------------------------------------------------------------
(***************************************************************************)
(* The invariant                                                           *)
(***************************************************************************)
Types ==
  /\ config \in Configs /\ db \in [Process -> Database]
  /\ at \in [Process -> {"absent", "down", "probe", "fetch", "adopt", "join", "running"}]
  /\ ack \in [Process -> Nat] /\ started \in [Process -> SUBSET Op]
  /\ claimed \in [Id -> SUBSET (Process \cup {0})]
  /\ events \in Nat /\ \A w \in spread \cup tied : w.by \in Process

\* The operations of a directory that are its own have the numbers 1 .. localSeq, each
\* once.
Numbered(d) ==
  /\ IsFiniteSet(d.log)
  /\ \A o \in d.log : o.src = d.id => o.seq <= d.localSeq
  /\ \A s \in 1 .. d.localSeq : \E o \in d.log : o.src = d.id /\ o.seq = s
  /\ \A x, y \in d.log : x.src = d.id /\ y.src = d.id /\ x.seq = y.seq => x = y

\* A strict process that has started has been told by its seed that its id is its own,
\* which no later change of an id takes back.
Agreed(p) ==
  p \in config.strict =>
    /\ at[p] \notin {"fetch", "adopt"}
    /\ at[p] = "probe" =>
         /\ ~ db[p].flag
         /\ Seed(p) \notin {0, p} => at[Seed(p)] # "absent" /\ IdOf(Seed(p)) # IdOf(p)

\* A process that has an address and no copy is the only one of its id, under which
\* nobody else is known.
Sole(p) ==
  p \notin {Original, Clone} \cup config.pullOnly =>
    /\ IdOf(p) = FirstId[p] /\ claimed[FirstId[p]] \subseteq {p}
    /\ \A q \in Process \ {p} : IdOf(q) # FirstId[p]
    /\ ~ db[p].flag /\ at[p] \notin {"fetch", "adopt"}

IInv == Types /\ \A p \in Process : Numbered(db[p]) /\ Agreed(p) /\ Sole(p)

-----------------------------------------------------------------------------
(***************************************************************************)
(* Processes, directories, and how many there are of what is numbered      *)
(***************************************************************************)
LEMMA Processes ==
  /\ Process \subseteq Nat /\ 0 \notin Process /\ Original \in Process /\ Clone \in Process
  /\ Original # Clone /\ Id \subseteq Nat
  /\ \A p \in Process \ {Clone} : FirstId[p] \in Id
  /\ \A p, q \in Process \ {Clone} : FirstId[p] = FirstId[q] => p = q
BY IdentityAssumption

LEMMA ConfigIs ==
  ASSUME Types
  PROVE  /\ config.pullOnly \subseteq Process /\ config.events \in Nat
         /\ \A p \in Process : Url(p) \in Process \cup {0} /\ Seed(p) \in Process \cup {0}
<1>1. config \in [seed : [Process -> Process \cup {0}],
                  pullOnly : SUBSET Process, strict : SUBSET Process, events : Nat,
                  calls : [Process -> SUBSET Process]]
  BY IdentityAssumption DEF Types
<1> QED
  BY <1>1 DEF Url, Seed

LEMMA OpIs ==
  ASSUME NEW o \in Op
  PROVE  /\ o.src \in Id /\ o.seq \in Nat \ {0} /\ o.hlc \in Nat /\ o.by \in Process
         /\ Stamp(o) \in Version /\ WriteOf(o).by \in Process
<1>1. o.src \in Id /\ o.seq \in Nat \ {0} /\ o.hlc \in Nat /\ o.by \in Process
  BY DEF Op
<1> QED
  BY <1>1 DEF Stamp, Version, WriteOf

LEMMA DatabaseIs ==
  ASSUME NEW d \in Database
  PROVE  /\ d.id \in Id /\ d.log \in SUBSET Op /\ d.version \in Version /\ d.localSeq \in Nat
         /\ d.vector \in [Id -> Nat] /\ d.flag \in BOOLEAN /\ d.clock \in Nat
BY DEF Database

\* What has the numbers m + 1 .. n, each once, are n - m.
LEMMA Counted ==
  ASSUME NEW S, NEW m \in Nat, NEW n \in Nat, m <= n,
         \A x \in S : x.seq \in m + 1 .. n,
         \A k \in m + 1 .. n : \E x \in S : x.seq = k,
         \A x, y \in S : x.seq = y.seq => x = y
  PROVE  IsFiniteSet(S) /\ Cardinality(S) = n - m
<1> DEFINE I == m + 1 .. n
           f == [k \in I |-> CHOOSE x \in S : x.seq = k]
<1>1. \A k \in I : f[k] \in S /\ f[k].seq = k
  OBVIOUS
<1>2. \A x \in S : x.seq \in I /\ f[x.seq] = x
  OBVIOUS
<1>3. f \in [I -> S]
  BY <1>1
<1>4. IsFiniteSet(I) /\ Cardinality(I) = n - m
  <2>1. m + 1 \in Int /\ n \in Int
    OBVIOUS
  <2>2. IsFiniteSet(I) /\ Cardinality(I) = IF m + 1 > n THEN 0 ELSE n - (m + 1) + 1
    BY <2>1, FS_Interval
  <2> QED
    BY <2>2
<1> HIDE DEF f, I
<1>5. f \in Bijection(I, S)
  <2>1. \A j, k \in I : f[j] = f[k] => j = k
    BY <1>1
  <2>2. \A x \in S : \E k \in I : f[k] = x
    BY <1>2
  <2> QED
    BY <1>3, <2>1, <2>2 DEF Bijection, Injection, Surjection, IsInjective
<1> QED
  BY <1>4, <1>5, FS_Bijection DEF ExistsBijection

LEMMA OwnCounted ==
  ASSUME NEW d \in Database, Numbered(d)
  PROVE  d.localSeq = Cardinality({o \in d.log : o.src = d.id})
<1> DEFINE S == {o \in d.log : o.src = d.id}
<1>1. \A x \in S : x.seq \in 0 + 1 .. d.localSeq
  BY DatabaseIs, OpIs DEF Numbered
<1>2. \A k \in 0 + 1 .. d.localSeq : \E x \in S : x.seq = k
  BY DatabaseIs DEF Numbered
<1>3. \A x, y \in S : x.seq = y.seq => x = y
  BY DEF Numbered
<1>4. d.localSeq \in Nat /\ 0 <= d.localSeq
  BY DatabaseIs
<1> HIDE DEF S
<1>5. Cardinality(S) = d.localSeq - 0
  BY <1>1, <1>2, <1>3, <1>4, Counted
<1> QED
  BY <1>4, <1>5 DEF S

LEMMA CurrentVectorIs ==
  ASSUME Types, NEW p \in Process
  PROVE  /\ db[p] \in Database /\ CurrentVector(p) \in [Id -> Nat] /\ Own(p) \in SUBSET Op
         /\ IdOf(p) \in Id
<1>1. db[p] \in Database
  BY DEF Types
<1>2. CurrentVector(p) \in [Id -> Nat]
  BY <1>1, DatabaseIs DEF CurrentVector, IdOf, Larger
<1> QED
  BY <1>1, <1>2, DatabaseIs DEF Own, IdOf

-----------------------------------------------------------------------------
(***************************************************************************)
(* A directory after a write, after an exchange, and with a fresh id       *)
(***************************************************************************)
\* A write: the next number.
Written(p) ==
  LET d == db[p]
      o == [src |-> d.id, seq |-> d.localSeq + 1, hlc |-> d.clock + 1, by |-> p]
  IN  [d EXCEPT !.log = @ \cup {o}, !.localSeq = o.seq, !.clock = o.hlc, !.version = Stamp(o)]

LEMMA WrittenIs ==
  ASSUME Types, NEW p \in Process, Numbered(db[p])
  PROVE  /\ Written(p) \in Database /\ Numbered(Written(p))
         /\ Written(p).id = db[p].id /\ Written(p).flag = db[p].flag
<1> DEFINE d == db[p]
           o == [src |-> d.id, seq |-> d.localSeq + 1, hlc |-> d.clock + 1, by |-> p]
           e == Written(p)
<1>1. d \in Database /\ d.id \in Id /\ d.log \in SUBSET Op /\ d.localSeq \in Nat /\ d.clock \in Nat
  BY CurrentVectorIs, DatabaseIs
<1>2. o \in Op /\ o.src = d.id /\ o.seq = d.localSeq + 1 /\ o.hlc \in Nat
  BY <1>1 DEF Op
<1>3. e = [d EXCEPT !.log = d.log \cup {o}, !.localSeq = o.seq, !.clock = o.hlc, !.version = Stamp(o)]
  BY DEF Written
<1> HIDE DEF o, e
<1>4. /\ e.log = d.log \cup {o} /\ e.localSeq = d.localSeq + 1 /\ e.id = d.id /\ e.flag = d.flag
      /\ e \in Database
  BY <1>1, <1>2, <1>3, OpIs DEF Database
<1>5. Numbered(e)
  <2>1. IsFiniteSet(e.log)
    BY <1>4, FS_AddElement DEF Numbered
  <2>2. \A x \in d.log : x.seq \in Nat /\ (x.src = d.id => x.seq <= d.localSeq)
    BY <1>1, OpIs DEF Numbered
  <2>3. \A x \in e.log : x.src = e.id => x.seq <= e.localSeq
    BY <1>1, <1>2, <1>4, <2>2
  <2>4. ASSUME NEW s \in 1 .. e.localSeq PROVE \E x \in e.log : x.src = e.id /\ x.seq = s
    <3>1. CASE s = d.localSeq + 1
      BY <1>2, <1>4, <3>1
    <3>2. CASE s # d.localSeq + 1
      <4>1. s \in 1 .. d.localSeq
        BY <1>1, <1>4, <3>2
      <4> QED
        BY <1>4, <4>1 DEF Numbered
    <3> QED
      BY <3>1, <3>2
  <2>5. \A x, y \in e.log : x.src = e.id /\ y.src = e.id /\ x.seq = y.seq => x = y
    <3>1. \A x, y \in d.log : x.src = d.id /\ y.src = d.id /\ x.seq = y.seq => x = y
      BY DEF Numbered
    <3>2. \A x \in d.log : x.src = d.id => x.seq # o.seq
      BY <1>1, <1>2, <2>2
    <3> QED
      BY <1>4, <3>1, <3>2
  <2> QED
    BY <2>1, <2>3, <2>4, <2>5 DEF Numbered
<1> QED
  BY <1>4, <1>5 DEF e

\* What is received is somebody else's.
LEMMA IngestedIs ==
  ASSUME NEW d \in Database, Numbered(d), NEW ops \in SUBSET Op, IsFiniteSet(ops),
         \A o \in ops : o.src # d.id
  PROVE  /\ Ingested(d, ops) \in Database /\ Numbered(Ingested(d, ops))
         /\ Ingested(d, ops).id = d.id /\ Ingested(d, ops).flag = d.flag
<1> DEFINE log  == d.log \cup ops
           wins == {o \in ops : Less(d.version, o) /\ ~ \E x \in ops : Less(o, x)}
           v == [i \in Id |-> IF i = d.id THEN d.vector[i] ELSE Contiguous(log, i, d.vector[i])]
           w == IF wins = {} THEN d.version ELSE Stamp(CHOOSE o \in wins : TRUE)
           cs == {d.clock} \cup {o.hlc : o \in ops}
           c == CHOOSE x \in cs : x >= d.clock /\ \A o \in ops : o.hlc <= x
           e == [d EXCEPT !.log = log, !.vector = v, !.version = w, !.clock = c]
<1>1. /\ d.id \in Id /\ d.log \in SUBSET Op /\ d.version \in Version /\ d.localSeq \in Nat
      /\ d.vector \in [Id -> Nat] /\ d.clock \in Nat
  BY DatabaseIs
<1>2. Ingested(d, ops) = e
  BY DEF Ingested
<1>3. log \in SUBSET Op /\ IsFiniteSet(log)
  BY <1>1, FS_Union DEF Numbered
<1>4. v \in [Id -> Nat]
  <2>1. \A i \in Id : d.vector[i] \in Nat
    BY <1>1
  <2> HIDE DEF log
  <2>2. \A i \in Id : Contiguous(log, i, d.vector[i]) \in Nat
    BY <1>3, <2>1, ContiguousIs
  <2> QED
    BY <2>1, <2>2
<1>5. w \in Version
  <2>1. CASE wins = {}
    BY <1>1, <2>1
  <2>2. CASE wins # {}
    <3>1. (CHOOSE o \in wins : TRUE) \in wins
      BY <2>2
    <3> DEFINE o == CHOOSE x \in wins : TRUE
    <3>2. o \in Op
      BY <3>1
    <3> HIDE DEF o
    <3>3. Stamp(o) \in Version
      BY <3>2, OpIs
    <3> QED
      BY <2>2, <3>3 DEF o
  <2> QED
    BY <2>1, <2>2
<1>6. c \in Nat
  <2> DEFINE f == [o \in ops |-> o.hlc]
             N == {f[o] : o \in ops}
  <2>1. cs = {d.clock} \cup N /\ N \in SUBSET Nat /\ \A o \in ops : o.hlc \in N
    BY OpIs
  <2> HIDE DEF f
  <2>2. IsFiniteSet(N)
    <3> DEFINE T == {f[o] : o \in ops}
               g == [o \in ops |-> f[o]]
    <3>1. g \in Surjection(ops, T)
      BY DEF Surjection
    <3> HIDE DEF g
    <3>2. IsFiniteSet(T)
      BY <3>1, FS_Surjection
    <3> QED
      BY <3>2
  <2> HIDE DEF N, cs
  <2>3. cs \in SUBSET Nat /\ cs # {} /\ d.clock \in cs /\ \A o \in ops : o.hlc \in cs
    BY <1>1, <2>1
  <2>4. IsFiniteSet(cs)
    BY <2>1, <2>2, FS_Singleton, FS_Union
  <2>5. PICK x \in cs : \A y \in cs : y <= x
    BY <2>3, <2>4, FiniteMaximum
  <2>6. x >= d.clock /\ \A o \in ops : o.hlc <= x
    BY <1>1, <2>3, <2>5
  <2>7. c \in cs
    BY <2>6
  <2> QED
    BY <2>3, <2>7
<1> HIDE DEF v, w, c
<1>7. /\ e \in Database /\ e.log = log /\ e.localSeq = d.localSeq /\ e.id = d.id /\ e.flag = d.flag
  BY <1>3, <1>4, <1>5, <1>6 DEF Database
<1> HIDE DEF e
<1>8. Numbered(e)
  <2>1. \A o \in log : o.src = d.id => o \in d.log
    OBVIOUS
  <2> QED
    BY <1>3, <1>7, <2>1 DEF Numbered
<1> QED
  BY <1>2, <1>7, <1>8

LEMMA BoundaryIs ==
  ASSUME Types, NEW p \in Process, Numbered(db[p])
  PROVE  Boundary(p) \in Nat /\ Boundary(p) <= db[p].localSeq
<1> DEFINE S == {0} \cup {o.seq : o \in Own(p)}
           top == CHOOSE n \in S : \A o \in Own(p) : o.seq <= n
<1>1. db[p].localSeq \in Nat /\ \A o \in Own(p) : o.seq \in Nat /\ o.seq <= db[p].localSeq
  BY CurrentVectorIs, DatabaseIs, OpIs DEF Own, IdOf, Numbered
<1>2. \E n \in S : \A o \in Own(p) : o.seq <= n
  <2>1. CASE db[p].localSeq = 0
    BY <1>1, <2>1
  <2>2. CASE db[p].localSeq # 0
    <3>1. PICK o \in db[p].log : o.src = db[p].id /\ o.seq = db[p].localSeq
      BY <1>1, <2>2 DEF Numbered
    <3>2. o \in Own(p)
      BY <3>1 DEF Own, IdOf
    <3> QED
      BY <1>1, <3>1, <3>2
  <2> QED
    BY <2>1, <2>2
<1>3. top \in S
  BY <1>2
<1>4. MaxOwn(p) = top
  BY DEF MaxOwn
<1>5. S \subseteq 0 .. db[p].localSeq
  BY <1>1
<1> HIDE DEF S, top
<1>6. MaxOwn(p) \in 0 .. db[p].localSeq
  BY <1>3, <1>4, <1>5
<1>7. ack[p] \in Nat
  BY DEF Types
<1> QED
  BY <1>1, <1>6, <1>7 DEF Boundary

\* The operation with number k after a becomes number k - a.
LEMMA PlaceIs ==
  ASSUME Types, NEW p \in Process, Numbered(db[p]), NEW a \in Nat, a <= db[p].localSeq
  PROVE  /\ Moved(p, a) \in SUBSET Op /\ IsFiniteSet(Moved(p, a))
         /\ Cardinality(Moved(p, a)) = db[p].localSeq - a
         /\ \A o \in Moved(p, a) :
              /\ o.seq \in a + 1 .. db[p].localSeq
              /\ Cardinality({x \in Moved(p, a) : x.seq <= o.seq}) = o.seq - a
         /\ \A k \in a + 1 .. db[p].localSeq : \E o \in Moved(p, a) : o.seq = k
         /\ \A x, y \in Moved(p, a) : x.seq = y.seq => x = y
<1> DEFINE M == Moved(p, a)
           top == db[p].localSeq
<1>1. top \in Nat /\ \A o \in Own(p) : o.seq \in Nat /\ o.seq # 0 /\ o.seq <= top
  BY CurrentVectorIs, DatabaseIs, OpIs DEF Own, IdOf, Numbered
<1>2. M \in SUBSET Op
  BY CurrentVectorIs DEF Moved
<1>3. \A x \in M : x.seq \in a + 1 .. top
  BY <1>1 DEF Moved
<1>4. ASSUME NEW k \in a + 1 .. top PROVE \E x \in M : x.seq = k
  <2>1. k \in 1 .. top /\ k > a
    BY <1>1
  <2>2. PICK o \in db[p].log : o.src = db[p].id /\ o.seq = k
    BY <2>1 DEF Numbered
  <2>3. o \in M
    BY <2>1, <2>2 DEF Moved, Own, IdOf
  <2> QED
    BY <2>2, <2>3
<1>5. \A x, y \in M : x.seq = y.seq => x = y
  BY DEF Moved, Own, IdOf, Numbered
<1> HIDE DEF M
<1>6. IsFiniteSet(M) /\ Cardinality(M) = top - a
  <2> HIDE DEF top
  <2> QED
    BY <1>1, <1>3, <1>4, <1>5, Counted DEF top
<1>7. ASSUME NEW o \in M PROVE Cardinality({x \in M : x.seq <= o.seq}) = o.seq - a
  <2> DEFINE S == {x \in M : x.seq <= o.seq}
             n == o.seq
  <2>1. n \in Nat /\ a <= n /\ n <= top
    BY <1>1, <1>3
  <2>2. \A x \in S : x.seq \in a + 1 .. n
    BY <1>3, <2>1
  <2>3. \A k \in a + 1 .. n : \E x \in S : x.seq = k
    BY <1>1, <1>4, <2>1
  <2>4. \A x, y \in S : x.seq = y.seq => x = y
    BY <1>5
  <2> HIDE DEF S, n
  <2>5. Cardinality(S) = n - a
    BY <2>1, <2>2, <2>3, <2>4, Counted
  <2> QED
    BY <2>5 DEF S, n
<1> QED
  BY <1>2, <1>3, <1>4, <1>5, <1>6, <1>7 DEF M

LEMMA WithIdIs ==
  ASSUME Types, NEW p \in Process, Numbered(db[p]), NEW new \in Id,
         \A o \in db[p].log : o.src # new
  PROVE  /\ WithId(p, new) \in Database /\ Numbered(WithId(p, new))
         /\ WithId(p, new).id = new /\ WithId(p, new).flag = FALSE
<1> DEFINE d == db[p]
           a == Boundary(p)
           moved == Moved(p, a)
           place(o) == Cardinality({x \in moved : x.seq <= o.seq})
           f == [o \in moved |-> [o EXCEPT !.src = new, !.seq = place(o)]]
           N == {f[o] : o \in moved}
           rest == d.log \ {o \in Own(p) : o.seq > a}
           n == LocalSeqAfter(p, moved)
           w == Renamed(p, moved, new)
           v == [d.vector EXCEPT ![IdOf(p)] = a, ![new] = 0]
           e == [d EXCEPT !.id = new, !.flag = FALSE, !.localSeq = n, !.log = rest \cup N,
                          !.version = w, !.vector = v]
<1>1. d \in Database /\ d.log \in SUBSET Op /\ d.version \in Version /\ d.localSeq \in Nat
      /\ d.vector \in [Id -> Nat] /\ IdOf(p) \in Id
  BY CurrentVectorIs, DatabaseIs
<1>2. a \in Nat /\ a <= d.localSeq
  BY BoundaryIs
<1>3. WithId(p, new) = e
  BY DEF WithId
<1> HIDE DEF a
<1>4. /\ moved \in SUBSET Op /\ IsFiniteSet(moved) /\ Cardinality(moved) = d.localSeq - a
      /\ \A o \in moved : o.seq \in a + 1 .. d.localSeq /\ place(o) = o.seq - a
      /\ \A k \in a + 1 .. d.localSeq : \E o \in moved : o.seq = k
      /\ \A x, y \in moved : x.seq = y.seq => x = y
  BY <1>2, PlaceIs
<1> HIDE DEF moved
<1>5. ASSUME NEW o \in moved
      PROVE  f[o] \in Op /\ f[o].src = new /\ f[o].seq = o.seq - a
  <2>1. f[o] = [o EXCEPT !.src = new, !.seq = place(o)]
    OBVIOUS
  <2> HIDE DEF place, f
  <2>2. o \in Op /\ o.seq \in a + 1 .. d.localSeq /\ place(o) = o.seq - a
    BY <1>4
  <2>3. o.seq - a \in Nat \ {0}
    BY <1>1, <1>2, <2>2
  <2> QED
    BY <2>1, <2>2, <2>3 DEF Op
<1> HIDE DEF f
<1>6. N \in SUBSET Op /\ IsFiniteSet(N)
  <2> DEFINE g == [o \in moved |-> f[o]]
  <2>1. g \in Surjection(moved, N)
    BY DEF Surjection
  <2>2. IsFiniteSet(N)
    <3> HIDE DEF g, N
    <3> QED
      BY <1>4, <2>1, FS_Surjection
  <2> QED
    BY <1>5, <2>2
<1>7. rest \cup N \in SUBSET Op /\ IsFiniteSet(rest \cup N) /\ rest \subseteq d.log
  <2>1. rest \subseteq d.log
    OBVIOUS
  <2> HIDE DEF rest, N
  <2>2. IsFiniteSet(rest)
    BY <2>1, FS_Subset DEF Numbered
  <2> QED
    BY <1>1, <1>6, <2>1, <2>2, FS_Union
<1>8. n = d.localSeq - a /\ n \in Nat
  BY <1>1, <1>2, <1>4 DEF LocalSeqAfter
<1>9. w \in Version
  <2>1. [d.version EXCEPT !.src = new] \in Version
    BY <1>1 DEF Version
  <2> QED
    BY <1>1, <2>1 DEF Renamed
<1>10. v \in [Id -> Nat]
  BY <1>1, <1>2
<1>11. \A x \in N : \E o \in moved : x = f[o]
  OBVIOUS
<1>12. \A o \in moved : f[o] \in N
  OBVIOUS
<1> HIDE DEF n, w, v, N, rest
<1>13. /\ e \in Database /\ e.log = rest \cup N /\ e.localSeq = n /\ e.id = new /\ e.flag = FALSE
  BY <1>1, <1>7, <1>8, <1>9, <1>10 DEF Database
<1> HIDE DEF e
<1>14. Numbered(e)
  <2>1. \A x \in e.log : x.src = new => x \in N
    BY <1>7, <1>13
  <2>2. \A x \in N : x.seq <= n
    <3> SUFFICES ASSUME NEW x \in N PROVE x.seq <= n
      OBVIOUS
    <3>1. PICK o \in moved : x = f[o]
      BY <1>11
    <3>2. x.seq = o.seq - a /\ o.seq \in a + 1 .. d.localSeq
      BY <1>4, <1>5, <3>1
    <3> QED
      BY <1>1, <1>2, <1>8, <3>2
  <2>3. ASSUME NEW s \in 1 .. n PROVE \E x \in e.log : x.src = new /\ x.seq = s
    <3>1. s + a \in a + 1 .. d.localSeq
      BY <1>1, <1>2, <1>8
    <3>2. PICK o \in moved : o.seq = s + a
      BY <1>4, <3>1
    <3>3. f[o] \in e.log /\ f[o].src = new /\ f[o].seq = (s + a) - a
      BY <1>5, <1>12, <1>13, <3>2
    <3> QED
      BY <1>2, <3>3
  <2>4. ASSUME NEW x \in N, NEW y \in N, x.seq = y.seq PROVE x = y
    <3>1. PICK o \in moved : x = f[o]
      BY <1>11
    <3>2. PICK k \in moved : y = f[k]
      BY <1>11
    <3>3. o.seq - a = k.seq - a /\ o.seq \in a + 1 .. d.localSeq /\ k.seq \in a + 1 .. d.localSeq
      BY <1>4, <1>5, <2>4, <3>1, <3>2
    <3>4. o.seq = k.seq
      BY <1>1, <1>2, <3>3
    <3> QED
      BY <1>4, <3>1, <3>2, <3>4
  <2> QED
    BY <1>7, <1>13, <2>1, <2>2, <2>3, <2>4 DEF Numbered
<1> QED
  BY <1>3, <1>13, <1>14

-----------------------------------------------------------------------------
(***************************************************************************)
(* Types and numbers, step by step                                         *)
(***************************************************************************)
Sound == Types /\ \A p \in Process : Numbered(db[p])

\* One directory changes.
LEMMA DirectoryChanges ==
  ASSUME Sound, NEW p \in Process, NEW d \in Database, Numbered(d), db' = [db EXCEPT ![p] = d]
  PROVE  /\ db' \in [Process -> Database] /\ \A q \in Process : Numbered(db'[q])
         /\ db'[p] = d /\ \A q \in Process \ {p} : db'[q] = db[q]
BY DEF Sound, Types

LEMMA FlagChanges ==
  ASSUME Sound, NEW p \in Process, NEW b \in BOOLEAN, db' = [db EXCEPT ![p].flag = b]
  PROVE  /\ db' \in [Process -> Database] /\ \A q \in Process : Numbered(db'[q])
         /\ db'[p].flag = b /\ db'[p].id = db[p].id /\ \A q \in Process \ {p} : db'[q] = db[q]
<1> DEFINE d == [db[p] EXCEPT !.flag = b]
<1>1. db[p] \in Database /\ Numbered(db[p])
  BY DEF Sound, Types
<1>2. d \in Database /\ d.flag = b /\ d.id = db[p].id /\ d.log = db[p].log
      /\ d.localSeq = db[p].localSeq
  BY <1>1 DEF Database
<1>3. db' = [db EXCEPT ![p] = d]
  OBVIOUS
<1> HIDE DEF d
<1>4. Numbered(d)
  BY <1>1, <1>2 DEF Numbered
<1> QED
  BY <1>2, <1>3, <1>4, DirectoryChanges

LEMMA LocalWriteSound ==
  ASSUME Sound, NEW p \in Process, LocalWrite(p)
  PROVE  Sound' /\ \A q \in Process : db'[q].id = db[q].id /\ db'[q].flag = db[q].flag
<1>1. db' = [db EXCEPT ![p] = Written(p)] /\ UNCHANGED <<config, at, ack, started, claimed, history, events>>
  BY DEF LocalWrite, Written
<1>2. /\ Written(p) \in Database /\ Numbered(Written(p))
      /\ Written(p).id = db[p].id /\ Written(p).flag = db[p].flag
  BY WrittenIs DEF Sound
<1>3. /\ db' \in [Process -> Database] /\ \A q \in Process : Numbered(db'[q])
      /\ db'[p] = Written(p) /\ \A q \in Process \ {p} : db'[q] = db[q]
  BY <1>1, <1>2, DirectoryChanges
<1>4. Sound'
  BY <1>1, <1>3 DEF Sound, Types, history
<1> QED
  BY <1>2, <1>3, <1>4

LEMMA CopySound ==
  ASSUME Sound, Copy
  PROVE  Sound' /\ db'[Clone] = db[Original] /\ \A q \in Process \ {Clone} : db'[q] = db[q]
<1>1. db' = [db EXCEPT ![Clone] = db[Original]] /\ at' = [at EXCEPT ![Clone] = "down"]
      /\ UNCHANGED <<config, ack, started, claimed, history, events>>
  BY DEF Copy, Goes
<1>2. /\ db' \in [Process -> Database] /\ \A q \in Process : Numbered(db'[q])
      /\ db'[Clone] = db[Original] /\ \A q \in Process \ {Clone} : db'[q] = db[q]
  <2>1. db[Original] \in Database /\ Numbered(db[Original])
    BY Processes DEF Sound, Types
  <2> QED
    BY <1>1, <2>1, Processes, DirectoryChanges
<1> QED
  BY <1>1, <1>2 DEF Sound, Types, history

LEMMA AdoptSound ==
  ASSUME Sound, NEW p \in Process, Adopt(p)
  PROVE  /\ Sound' /\ db'[p].flag = FALSE
         /\ \A q \in Process : db'[p].id # db[q].id
         /\ \A q \in Process \ {p} : db'[q] = db[q]
<1>1. PICK new \in Id \ {IdOf(q) : q \in Process} :
         /\ \A q \in Process : ~ \E o \in db[q].log : o.src = new
         /\ db' = [db EXCEPT ![p] = WithId(p, new)]
  BY DEF Adopt
<1>2. /\ at' = [at EXCEPT ![p] = "join"] /\ ack' = [ack EXCEPT ![p] = 0]
      /\ tied' = tied \cup {WriteOf(o) : o \in {x \in Moved(p, Boundary(p)) :
                   \E y \in db[p].log : y.hlc = x.hlc /\ ~ SameWrite(x, y)}}
      /\ UNCHANGED <<config, started, claimed, spread, events>>
  BY DEF Adopt, Goes
<1>3. /\ WithId(p, new) \in Database /\ Numbered(WithId(p, new))
      /\ WithId(p, new).id = new /\ WithId(p, new).flag = FALSE
  <2>1. new \in Id /\ \A o \in db[p].log : o.src # new
    BY <1>1
  <2> QED
    BY <2>1, WithIdIs DEF Sound
<1>4. /\ db' \in [Process -> Database] /\ \A q \in Process : Numbered(db'[q])
      /\ db'[p] = WithId(p, new) /\ \A q \in Process \ {p} : db'[q] = db[q]
  BY <1>1, <1>3, DirectoryChanges
<1>5. \A w \in spread' \cup tied' : w.by \in Process
  <2>1. Moved(p, Boundary(p)) \in SUBSET Op
    BY CurrentVectorIs DEF Moved, Sound
  <2>2. \A o \in Moved(p, Boundary(p)) : WriteOf(o).by \in Process
    BY <2>1, OpIs
  <2> QED
    BY <1>2, <2>2 DEF Sound, Types
<1>6. \A q \in Process : new # db[q].id
  BY <1>1 DEF IdOf
<1>7. Sound'
  BY <1>2, <1>4, <1>5 DEF Sound, Types
<1> QED
  BY <1>3, <1>4, <1>6, <1>7

LEMMA FetchSound ==
  ASSUME Sound, NEW p \in Process, Fetch(p)
  PROVE  Sound'
<1> DEFINE s == Seed(p)
<1>1. /\ at' = [at EXCEPT ![p] = "adopt"] /\ UNCHANGED <<config, db, started, history>>
      /\ \/ /\ Answers(s) /\ UNCHANGED events
            /\ ack' = [ack EXCEPT ![p] = CurrentVector(s)[IdOf(p)]]
            /\ claimed' = IF IdOf(s) = IdOf(p) THEN claimed
                          ELSE [claimed EXCEPT ![IdOf(p)] = @ \cup {0}]
         \/ /\ events' = events \/ events' = events + 1
            /\ ack' = [ack EXCEPT ![p] = 0] /\ UNCHANGED claimed
  BY DEF Fetch, Goes, Event
<1>2. Types /\ IdOf(p) \in Id
  BY CurrentVectorIs DEF Sound
<1>3. ack' \in [Process -> Nat] /\ claimed' \in [Id -> SUBSET (Process \cup {0})] /\ events' \in Nat
  <2>1. CASE /\ Answers(s) /\ UNCHANGED events
             /\ ack' = [ack EXCEPT ![p] = CurrentVector(s)[IdOf(p)]]
             /\ claimed' = IF IdOf(s) = IdOf(p) THEN claimed
                           ELSE [claimed EXCEPT ![IdOf(p)] = @ \cup {0}]
    <3>1. s \in Process
      BY <1>2, <2>1, ConfigIs DEF Answers
    <3>2. CurrentVector(s)[IdOf(p)] \in Nat
      BY <1>2, <3>1, CurrentVectorIs
    <3> QED
      BY <1>2, <2>1, <3>2 DEF Types
  <2>2. CASE /\ events' = events \/ events' = events + 1
             /\ ack' = [ack EXCEPT ![p] = 0] /\ UNCHANGED claimed
    BY <1>2, <2>2 DEF Types
  <2> QED
    BY <1>1, <2>1, <2>2
<1> QED
  BY <1>1, <1>2, <1>3 DEF Sound, Types, history

LEMMA CallsSound ==
  ASSUME Sound, NEW p \in Process, NEW q, NEW ops \in SUBSET Op, NEW from, Calls(p, q, ops, from),
         db' \in [Process -> Database], \A r \in Process : Numbered(db'[r])
  PROVE  Sound'
<1>1. /\ UNCHANGED <<config, at, ack, started, tied, events>>
      /\ claimed' = [claimed EXCEPT ![IdOf(p)] = IF Url(p) = 0 /\ @ # {} THEN @ ELSE @ \cup {Url(p)}]
      /\ spread' = spread \cup {WriteOf(o) : o \in {x \in ops :
           x.src = IdOf(from) /\ \E r \in Process \ {from} : at[r] # "absent" /\ IdOf(r) = x.src}}
  BY DEF Calls
<1>2. claimed' \in [Id -> SUBSET (Process \cup {0})]
  BY <1>1, ConfigIs, CurrentVectorIs DEF Sound, Types
<1>3. \A w \in spread' \cup tied' : w.by \in Process
  <2>1. \A o \in ops : WriteOf(o).by \in Process
    BY OpIs
  <2> QED
    BY <1>1, <2>1 DEF Sound, Types
<1> QED
  BY <1>1, <1>2, <1>3 DEF Sound, Types

LEMMA PushSound ==
  ASSUME Sound, NEW p \in Process, NEW q \in Process, Push(p, q)
  PROVE  /\ Sound' /\ \A r \in Process : db'[r].id = db[r].id /\ db'[r].flag = db[r].flag
         /\ \E ops, from : Calls(p, q, ops, from)
<1> DEFINE ops == {o \in db[p].log \ started[p] : o.src # IdOf(q) /\ ~ Known(db[q].log, o)}
           d == Ingested(db[q], ops)
<1>1. Calls(p, q, ops, p) /\ db' = [db EXCEPT ![q] = d]
  BY DEF Push
<1>2. ops \in SUBSET Op /\ IsFiniteSet(ops) /\ \A o \in ops : o.src # db[q].id
  <2>1. db[p].log \in SUBSET Op /\ IsFiniteSet(db[p].log)
    BY CurrentVectorIs, DatabaseIs DEF Sound, Numbered
  <2> QED
    BY <2>1, FS_Subset DEF IdOf
<1>3. db[q] \in Database /\ Numbered(db[q])
  BY DEF Sound, Types
<1> HIDE DEF ops
<1>4. d \in Database /\ Numbered(d) /\ d.id = db[q].id /\ d.flag = db[q].flag
  BY <1>2, <1>3, IngestedIs
<1> HIDE DEF d
<1>5. /\ db' \in [Process -> Database] /\ \A r \in Process : Numbered(db'[r])
      /\ db'[q] = d /\ \A r \in Process \ {q} : db'[r] = db[r]
  BY <1>1, <1>4, DirectoryChanges
<1>6. Sound'
  BY <1>1, <1>2, <1>5, CallsSound
<1> QED
  BY <1>1, <1>4, <1>5, <1>6

LEMMA PullSound ==
  ASSUME Sound, NEW p \in Process, NEW q \in Process, Pull(p, q)
  PROVE  /\ Sound' /\ \A r \in Process : db'[r].id = db[r].id /\ db'[r].flag = db[r].flag
         /\ \E ops, from : Calls(p, q, ops, from)
<1> DEFINE theirs == CurrentVector(q)
           after == [CurrentVector(p) EXCEPT ![IdOf(p)] = Larger(@, theirs[IdOf(p)])]
           ops == {o \in db[q].log : /\ o.src # IdOf(p) /\ o.seq > after[o.src]
                                     /\ ~ Known(db[p].log, o)}
           got == Ingested(db[p], ops)
           v == Adopted(got.vector, theirs, IdOf(p))
           d == [got EXCEPT !.vector = v]
<1>1. Calls(p, q, ops, q) /\ db' = [db EXCEPT ![p] = d]
  BY DEF Pull
<1>2. ops \in SUBSET Op /\ IsFiniteSet(ops) /\ \A o \in ops : o.src # db[p].id
  <2>1. db[q].log \in SUBSET Op /\ IsFiniteSet(db[q].log)
    BY CurrentVectorIs, DatabaseIs DEF Sound, Numbered
  <2> QED
    BY <2>1, FS_Subset DEF IdOf
<1>3. db[p] \in Database /\ Numbered(db[p]) /\ theirs \in [Id -> Nat]
  BY CurrentVectorIs DEF Sound, Types
<1> HIDE DEF ops, theirs
<1>4. got \in Database /\ Numbered(got) /\ got.id = db[p].id /\ got.flag = db[p].flag
  BY <1>2, <1>3, IngestedIs
<1> HIDE DEF got
<1>5. v \in [Id -> Nat]
  BY <1>3, <1>4, DatabaseIs DEF Adopted, Larger
<1> HIDE DEF v
<1>6. d \in Database /\ d.log = got.log /\ d.localSeq = got.localSeq /\ d.id = db[p].id
      /\ d.flag = db[p].flag
  BY <1>4, <1>5 DEF Database
<1> HIDE DEF d
<1>7. Numbered(d)
  BY <1>4, <1>6 DEF Numbered
<1>8. /\ db' \in [Process -> Database] /\ \A r \in Process : Numbered(db'[r])
      /\ db'[p] = d /\ \A r \in Process \ {p} : db'[r] = db[r]
  BY <1>1, <1>6, <1>7, DirectoryChanges
<1>9. Sound'
  BY <1>1, <1>2, <1>8, CallsSound
<1> QED
  BY <1>1, <1>6, <1>8, <1>9

LEMMA StartSound ==
  ASSUME Sound, NEW p \in Process, Start(p)
  PROVE  /\ Sound' /\ db'[p].id = db[p].id /\ (~ db[p].flag \/ IsStrict(p) => ~ db'[p].flag)
         /\ \A q \in Process \ {p} : db'[q] = db[q]
<1> DEFINE b == db[p].flag /\ ~ IsStrict(p)
<1>1. /\ at' = [at EXCEPT ![p] = "probe"] /\ db' = [db EXCEPT ![p].flag = b]
      /\ started' = [started EXCEPT ![p] = db[p].log]
      /\ UNCHANGED <<config, ack, claimed, history, events>>
  BY DEF Start, Goes
<1>2. b \in BOOLEAN /\ (~ db[p].flag \/ IsStrict(p) => ~ b)
  OBVIOUS
<1> HIDE DEF b
<1>3. /\ db' \in [Process -> Database] /\ \A q \in Process : Numbered(db'[q])
      /\ db'[p].flag = b /\ db'[p].id = db[p].id /\ \A q \in Process \ {p} : db'[q] = db[q]
  BY <1>1, <1>2, FlagChanges
<1>4. db[p].log \in SUBSET Op
  BY CurrentVectorIs, DatabaseIs DEF Sound
<1>5. Sound'
  BY <1>1, <1>3, <1>4 DEF Sound, Types, history
<1> QED
  BY <1>2, <1>3, <1>5

LEMMA JoinRefusedSound ==
  ASSUME Sound, NEW p \in Process, JoinRefused(p)
  PROVE  /\ Sound' /\ db'[p].id = db[p].id /\ \A q \in Process \ {p} : db'[q] = db[q]
<1>1. /\ at' = [at EXCEPT ![p] = "running"] /\ db' = [db EXCEPT ![p].flag = TRUE]
      /\ UNCHANGED <<config, ack, started, claimed, history, events>>
  BY DEF JoinRefused, Goes
<1>2. /\ db' \in [Process -> Database] /\ \A q \in Process : Numbered(db'[q])
      /\ db'[p].id = db[p].id /\ \A q \in Process \ {p} : db'[q] = db[q]
  BY <1>1, FlagChanges
<1>3. Sound'
  BY <1>1, <1>2 DEF Sound, Types, history
<1> QED
  BY <1>2, <1>3

\* Steps that leave the directories alone.
LEMMA OtherSound ==
  ASSUME Sound, NEW p \in Process,
         \/ Stop(p) \/ Probe(p) \/ ProbeFails(p) \/ AdoptFails(p) \/ JoinAccepted(p) \/ JoinFails(p)
  PROVE  Sound' /\ db' = db
<1>1. Types
  BY DEF Sound
<1>2. db' = db /\ config' = config /\ UNCHANGED history
  BY DEF Stop, Probe, ProbeFails, AdoptFails, JoinAccepted, JoinFails
<1>3. events' \in Nat
  <2>1. events' = events \/ events' = events + 1
    BY DEF Stop, Probe, ProbeFails, AdoptFails, JoinAccepted, JoinFails, Event
  <2> QED
    BY <1>1, <2>1 DEF Types
<1>4. \E to \in {"down", "fetch", "join", "running"} : at' = [at EXCEPT ![p] = to]
  BY DEF Stop, Probe, ProbeFails, AdoptFails, JoinAccepted, JoinFails, Goes
<1>5. ack' = ack \/ ack' = [ack EXCEPT ![p] = 0]
  BY DEF Stop, Probe, ProbeFails, AdoptFails, JoinAccepted, JoinFails
<1>6. started' = started \/ started' = [started EXCEPT ![p] = {}]
  BY DEF Stop, Probe, ProbeFails, AdoptFails, JoinAccepted, JoinFails
<1>7. claimed' = claimed \/ claimed' = [claimed EXCEPT ![IdOf(p)] = @ \cup {Url(p)}]
  BY DEF Stop, Probe, ProbeFails, AdoptFails, JoinAccepted, JoinFails
<1>8. claimed' \in [Id -> SUBSET (Process \cup {0})]
  BY <1>1, <1>7, ConfigIs, CurrentVectorIs DEF Types
<1>9. /\ at' \in [Process -> {"absent", "down", "probe", "fetch", "adopt", "join", "running"}]
      /\ ack' \in [Process -> Nat] /\ started' \in [Process -> SUBSET Op]
  BY <1>1, <1>4, <1>5, <1>6 DEF Types
<1> QED
  BY <1>2, <1>3, <1>8, <1>9 DEF Sound, Types, history

-----------------------------------------------------------------------------
(***************************************************************************)
(* Whose id it is, step by step                                            *)
(***************************************************************************)
SameIds == config' = config /\ \A q \in Process : db'[q].id = db[q].id

\* While no id changes, an agreement holds for who has one, or is past the question.
LEMMA AgreedStays ==
  ASSUME SameIds, NEW q \in Process, Seed(q) \in Process \cup {0}, Agreed(q),
         \A r \in Process : at'[r] = "absent" => at[r] = "absent",
         \/ at'[q] \notin {"probe", "fetch", "adopt"}
         \/ at'[q] = at[q] /\ db'[q].flag = db[q].flag
  PROVE  Agreed(q)'
BY DEF Agreed, SameIds, IdOf, Seed

LEMMA SoleStays ==
  ASSUME SameIds, NEW q \in Process, Sole(q),
         q \notin {Original, Clone} \cup config.pullOnly =>
           /\ claimed'[FirstId[q]] \subseteq claimed[FirstId[q]] \cup {q}
           /\ ~ db'[q].flag
           /\ at'[q] \notin {"fetch", "adopt"} \/ at'[q] = at[q]
  PROVE  Sole(q)'
BY DEF Sole, SameIds, IdOf

\* A process whose id is announced adds nobody to what another's is known by.
LEMMA ClaimStays ==
  ASSUME Types, NEW p \in Process, NEW q \in Process, Sole(q),
         q \notin {Original, Clone} \cup config.pullOnly, NEW u, u = Url(p) \/ p # q,
         \/ claimed' = claimed \/ claimed' = [claimed EXCEPT ![IdOf(p)] = @ \cup {u}]
  PROVE  claimed'[FirstId[q]] \subseteq claimed[FirstId[q]] \cup {q}
<1>1. CASE p = q
  <2>1. u = q /\ IdOf(q) \in Id /\ IdOf(q) = FirstId[q]
    BY <1>1, CurrentVectorIs DEF Url, Sole
  <2> QED
    BY <1>1, <2>1 DEF Types
<1>2. CASE p # q
  <2>1. IdOf(p) # FirstId[q] /\ FirstId[q] \in Id
    BY <1>2, Processes DEF Sole
  <2> QED
    BY <2>1 DEF Types
<1> QED
  BY <1>1, <1>2

\* Nobody refuses a process that is alone with its id, nor takes it for a duplicate.
LEMMA SoleIsWelcome ==
  ASSUME Types, NEW p \in Process, Sole(p), p \notin {Original, Clone} \cup config.pullOnly
  PROVE  /\ ~ Duplicate(p)
         /\ Seed(p) # 0 => ~ Refuses(Seed(p), p, TRUE)
<1>1. Seed(p) \in Process \cup {0} /\ IdOf(p) = FirstId[p] /\ claimed[IdOf(p)] \subseteq {p}
      /\ ~ db[p].flag /\ Url(p) = p /\ p # 0
  BY ConfigIs, Processes DEF Sole, Url
<1>2. Seed(p) \notin {0, p} => IdOf(Seed(p)) # IdOf(p)
  BY <1>1 DEF Sole
<1>3. ~ Duplicate(p)
  BY <1>1, <1>2 DEF Duplicate
<1>4. ASSUME NEW healthy \in BOOLEAN PROVE ~ InUse(IdOf(p), p, p, healthy)
  BY <1>1 DEF InUse
<1>5. ASSUME Seed(p) # 0, Refuses(Seed(p), p, TRUE) PROVE FALSE
  <2>1. CASE IdOf(Seed(p)) = IdOf(p) /\ TRUE = (Seed(p) # p)
    BY <1>2, <1>5, <2>1
  <2>2. CASE \E u \in claimed[IdOf(p)], healthy \in BOOLEAN : TRUE = InUse(IdOf(p), u, p, healthy)
    BY <1>1, <1>4, <2>2
  <2> QED
    BY <1>5, <2>1, <2>2 DEF Refuses
<1> QED
  BY <1>3, <1>5

\* What a strict process has checked before it starts.
LEMMA CheckedIs ==
  ASSUME Types, NEW p \in Process, Checked(p), Seed(p) \notin {0, p}
  PROVE  at[Seed(p)] # "absent" /\ IdOf(Seed(p)) # IdOf(p)
<1>1. Answers(Seed(p)) /\ Refuses(Seed(p), p, FALSE)
  BY DEF Checked
<1>2. at[Seed(p)] # "absent"
  BY <1>1 DEF Answers, Serving
<1>3. ~ (IdOf(Seed(p)) = IdOf(p) /\ FALSE = (Seed(p) # p))
  OBVIOUS
<1> QED
  BY <1>1, <1>2, <1>3 DEF Refuses

\* Steps that change no id, flag or claim, and bring nobody into a quandary.
LEMMA PlainKeeps ==
  ASSUME Sound, NEW q \in Process, Agreed(q), Sole(q), config' = config, at' = at \/ \E p \in Process :
           \E to \in {"down", "join", "running"} : at' = [at EXCEPT ![p] = to],
         \A r \in Process : db'[r].id = db[r].id /\ db'[r].flag = db[r].flag,
         \/ claimed' = claimed
         \/ \E p \in Process : claimed' = [claimed EXCEPT ![IdOf(p)] = @ \cup {Url(p)}]
  PROVE  Agreed(q)' /\ Sole(q)'
<1>1. Types /\ SameIds /\ Seed(q) \in Process \cup {0}
  BY ConfigIs DEF Sound, SameIds
<1>2. /\ \A r \in Process : at'[r] = "absent" => at[r] = "absent"
      /\ at'[q] \notin {"probe", "fetch", "adopt"} \/ at'[q] = at[q]
  BY <1>1 DEF Types
<1>3. q \notin {Original, Clone} \cup config.pullOnly =>
        /\ claimed'[FirstId[q]] \subseteq claimed[FirstId[q]] \cup {q}
        /\ ~ db'[q].flag
  BY <1>1, ClaimStays DEF Sole
<1>4. Agreed(q)'
  BY <1>1, <1>2, AgreedStays
<1>5. Sole(q)'
  BY <1>1, <1>2, <1>3, SoleStays
<1> QED
  BY <1>4, <1>5

LEMMA CopyKeeps ==
  ASSUME Sound, NEW q \in Process, Agreed(q), Sole(q), Copy
  PROVE  Agreed(q)' /\ Sole(q)'
<1>1. /\ at[Clone] = "absent" /\ at' = [at EXCEPT ![Clone] = "down"]
      /\ UNCHANGED <<config, claimed>>
  BY DEF Copy, Goes
<1>2. db'[Clone] = db[Original] /\ \A r \in Process \ {Clone} : db'[r] = db[r]
  BY CopySound
<1>3. Types /\ Seed(q) \in Process \cup {0}
  BY ConfigIs DEF Sound
<1>4. at'[q] = IF q = Clone THEN "down" ELSE at[q]
  BY <1>1, <1>3 DEF Types
<1>5. Agreed(q)'
  <2>1. CASE q = Clone
    BY <1>4, <2>1 DEF Agreed
  <2>2. CASE q # Clone
    <3> SUFFICES ASSUME q \in config.strict, at[q] = "probe", Seed(q) \notin {0, q}
                 PROVE  at'[Seed(q)] # "absent" /\ db'[Seed(q)].id # db'[q].id
      BY <1>1, <1>2, <1>4, <2>2 DEF Agreed, Seed, IdOf
    <3>1. at[Seed(q)] # "absent" /\ IdOf(Seed(q)) # IdOf(q)
      BY DEF Agreed
    <3>2. Seed(q) # Clone /\ Seed(q) \in Process
      BY <1>1, <1>3, <3>1
    <3> QED
      BY <1>1, <1>2, <1>3, <2>2, <3>1, <3>2 DEF IdOf, Types
  <2> QED
    BY <2>1, <2>2
<1>6. Sole(q)'
  <2> SUFFICES ASSUME q \notin {Original, Clone} \cup config.pullOnly
               PROVE  Sole(q)'
    BY <1>1 DEF Sole
  <2>1. /\ db[q].id = FirstId[q] /\ claimed[FirstId[q]] \subseteq {q}
        /\ \A r \in Process \ {q} : db[r].id # FirstId[q]
        /\ ~ db[q].flag /\ at[q] \notin {"fetch", "adopt"}
    BY DEF Sole, IdOf
  <2>2. \A r \in Process \ {q} : db'[r].id # FirstId[q]
    BY <1>2, <2>1, Processes
  <2> QED
    BY <1>1, <1>2, <1>4, <2>1, <2>2 DEF Sole, IdOf
<1> QED
  BY <1>5, <1>6

LEMMA AdoptKeeps ==
  ASSUME Sound, NEW p \in Process, NEW q \in Process, Agreed(p), Sole(p), Agreed(q), Sole(q), Adopt(p)
  PROVE  Agreed(q)' /\ Sole(q)'
<1>1. at[p] = "adopt" /\ at' = [at EXCEPT ![p] = "join"] /\ UNCHANGED <<config, claimed>>
  BY DEF Adopt, Goes
<1>2. /\ db'[p].flag = FALSE /\ \A r \in Process : db'[p].id # db[r].id
      /\ \A r \in Process \ {p} : db'[r] = db[r]
  BY AdoptSound
<1>3. Types /\ Seed(q) \in Process \cup {0}
  BY ConfigIs DEF Sound
<1>4. at'[p] = "join" /\ \A r \in Process \ {p} : at'[r] = at[r]
  BY <1>1, <1>3 DEF Types
<1>5. Agreed(q)'
  <2>1. CASE q = p
    BY <1>4, <2>1 DEF Agreed
  <2>2. CASE q # p
    <3> SUFFICES ASSUME q \in config.strict, at[q] = "probe", Seed(q) \notin {0, q}
                 PROVE  at'[Seed(q)] # "absent" /\ db'[Seed(q)].id # db'[q].id
      BY <1>1, <1>2, <1>4, <2>2 DEF Agreed, Seed, IdOf
    <3>1. at[Seed(q)] # "absent" /\ db[Seed(q)].id # db[q].id /\ Seed(q) \in Process
      BY <1>3 DEF Agreed, IdOf
    <3> QED
      BY <1>2, <1>4, <2>2, <3>1
  <2> QED
    BY <2>1, <2>2
<1>6. Sole(q)'
  <2> SUFFICES ASSUME q \notin {Original, Clone} \cup config.pullOnly
               PROVE  Sole(q)'
    BY <1>1 DEF Sole
  <2>1. /\ db[q].id = FirstId[q] /\ claimed[FirstId[q]] \subseteq {q}
        /\ \A r \in Process \ {q} : db[r].id # FirstId[q]
        /\ ~ db[q].flag /\ at[q] \notin {"fetch", "adopt"}
    BY DEF Sole, IdOf
  <2>2. q # p
    BY <1>1, <2>1
  <2>3. \A r \in Process \ {q} : db'[r].id # FirstId[q]
    BY <1>2, <2>1
  <2> QED
    BY <1>1, <1>2, <1>4, <2>1, <2>2, <2>3 DEF Sole, IdOf
<1> QED
  BY <1>5, <1>6

LEMMA StartKeeps ==
  ASSUME Sound, NEW p \in Process, NEW q \in Process, Agreed(q), Sole(q), Start(p)
  PROVE  Agreed(q)' /\ Sole(q)'
<1>1. /\ at[p] = "down" /\ at' = [at EXCEPT ![p] = "probe"] /\ UNCHANGED <<config, claimed>>
      /\ IsStrict(p) => Checked(p)
  BY DEF Start, Goes
<1>2. /\ db'[p].id = db[p].id /\ (~ db[p].flag \/ IsStrict(p) => ~ db'[p].flag)
      /\ \A r \in Process \ {p} : db'[r] = db[r]
  BY StartSound
<1>3. Types /\ SameIds /\ Seed(q) \in Process \cup {0}
  BY <1>1, <1>2, ConfigIs DEF Sound, SameIds
<1>4. at'[p] = "probe" /\ \A r \in Process \ {p} : at'[r] = at[r]
  BY <1>1, <1>3 DEF Types
<1>5. Agreed(q)'
  <2>1. CASE q = p
    <3> SUFFICES ASSUME p \in config.strict, Seed(p) \notin {0, p}
                 PROVE  at'[Seed(p)] # "absent" /\ IdOf(Seed(p))' # IdOf(p)'
      BY <1>1, <1>2, <1>4, <2>1 DEF Agreed, IsStrict, Seed
    <3>1. at[Seed(p)] # "absent" /\ IdOf(Seed(p)) # IdOf(p)
      BY <1>1, <1>3, CheckedIs DEF IsStrict
    <3>2. Seed(p)' = Seed(p) /\ Seed(p) \in Process
      BY <1>1, <1>3, <2>1 DEF Seed
    <3> QED
      BY <1>2, <1>4, <3>1, <3>2 DEF IdOf
  <2>2. CASE q # p
    BY <1>2, <1>3, <1>4, <2>2, AgreedStays
  <2> QED
    BY <2>1, <2>2
<1>6. Sole(q)'
  <2>1. q \notin {Original, Clone} \cup config.pullOnly => ~ db'[q].flag
    BY <1>2 DEF Sole
  <2>2. at'[q] \notin {"fetch", "adopt"} \/ at'[q] = at[q]
    BY <1>4
  <2> QED
    BY <1>1, <1>3, <2>1, <2>2, SoleStays
<1> QED
  BY <1>5, <1>6

LEMMA ProbeKeeps ==
  ASSUME Sound, NEW p \in Process, NEW q \in Process, Agreed(q), Sole(q), Probe(p)
  PROVE  Agreed(q)' /\ Sole(q)'
<1>1. /\ at[p] = "probe" /\ at' = [at EXCEPT ![p] = IF Duplicate(p) THEN "fetch" ELSE "join"]
      /\ UNCHANGED <<config, db, claimed>>
  BY DEF Probe, Goes
<1>2. Types /\ SameIds /\ Seed(q) \in Process \cup {0}
  BY <1>1, ConfigIs DEF Sound, SameIds
<1>3. /\ at'[p] = IF Duplicate(p) THEN "fetch" ELSE "join"
      /\ \A r \in Process \ {p} : at'[r] = at[r]
  BY <1>1, <1>2 DEF Types
<1>4. p = q /\ q \in config.strict => ~ Duplicate(p)
  BY <1>1 DEF Agreed, Duplicate
<1>5. p = q /\ q \notin {Original, Clone} \cup config.pullOnly => ~ Duplicate(p)
  BY <1>2, SoleIsWelcome
<1>6. Agreed(q)'
  <2>1. CASE q \in config.strict
    <3>1. at'[q] \notin {"probe", "fetch", "adopt"} \/ at'[q] = at[q]
      BY <1>3, <1>4, <2>1
    <3>2. \A r \in Process : at'[r] = "absent" => at[r] = "absent"
      BY <1>3
    <3> QED
      BY <1>1, <1>2, <3>1, <3>2, AgreedStays
  <2>2. CASE q \notin config.strict
    BY <1>1, <2>2 DEF Agreed
  <2> QED
    BY <2>1, <2>2
<1>7. Sole(q)'
  BY <1>1, <1>2, <1>3, <1>5, SoleStays DEF Sole
<1> QED
  BY <1>6, <1>7

LEMMA FetchKeeps ==
  ASSUME Sound, NEW p \in Process, NEW q \in Process, Agreed(q), Sole(q), Fetch(p)
  PROVE  Agreed(q)' /\ Sole(q)'
<1>1. /\ at[p] = "fetch" /\ at' = [at EXCEPT ![p] = "adopt"] /\ UNCHANGED <<config, db>>
      /\ claimed' = claimed \/ claimed' = [claimed EXCEPT ![IdOf(p)] = @ \cup {0}]
  BY DEF Fetch, Goes
<1>2. Types /\ SameIds /\ Seed(q) \in Process \cup {0}
  BY <1>1, ConfigIs DEF Sound, SameIds
<1>3. at'[p] = "adopt" /\ \A r \in Process \ {p} : at'[r] = at[r]
  BY <1>1, <1>2 DEF Types
<1>4. Agreed(q)'
  <2>1. CASE q = p
    BY <1>1, <2>1 DEF Agreed
  <2>2. CASE q # p
    BY <1>1, <1>2, <1>3, <2>2, AgreedStays
  <2> QED
    BY <2>1, <2>2
<1>5. Sole(q)'
  <2>1. ASSUME q \notin {Original, Clone} \cup config.pullOnly
        PROVE  /\ claimed'[FirstId[q]] \subseteq claimed[FirstId[q]] \cup {q}
               /\ ~ db'[q].flag /\ at'[q] = at[q]
    <3>1. q # p /\ ~ db[q].flag
      BY <1>1, <2>1 DEF Sole
    <3>2. claimed'[FirstId[q]] \subseteq claimed[FirstId[q]] \cup {q}
      BY <1>1, <1>2, <2>1, <3>1, ClaimStays
    <3> QED
      BY <1>1, <1>3, <3>1, <3>2
  <2> QED
    BY <1>2, <2>1, SoleStays
<1> QED
  BY <1>4, <1>5

LEMMA JoinRefusedKeeps ==
  ASSUME Sound, NEW p \in Process, NEW q \in Process, Agreed(q), Sole(q), JoinRefused(p)
  PROVE  Agreed(q)' /\ Sole(q)'
<1>1. /\ at' = [at EXCEPT ![p] = "running"] /\ UNCHANGED <<config, claimed>>
      /\ Answers(Seed(p)) /\ Refuses(Seed(p), p, TRUE)
  BY DEF JoinRefused, Goes
<1>2. db'[p].id = db[p].id /\ \A r \in Process \ {p} : db'[r] = db[r]
  BY JoinRefusedSound
<1>3. Types /\ SameIds /\ Seed(q) \in Process \cup {0}
  BY <1>1, <1>2, ConfigIs DEF Sound, SameIds
<1>4. at'[p] = "running" /\ \A r \in Process \ {p} : at'[r] = at[r]
  BY <1>1, <1>3 DEF Types
<1>5. Agreed(q)'
  BY <1>2, <1>3, <1>4, AgreedStays
<1>6. Sole(q)'
  <2>1. ASSUME q \notin {Original, Clone} \cup config.pullOnly PROVE q # p
    BY <1>1, <1>3, <2>1, SoleIsWelcome DEF Answers
  <2>2. q \notin {Original, Clone} \cup config.pullOnly => ~ db'[q].flag /\ at'[q] = at[q]
    BY <1>2, <1>4, <2>1 DEF Sole
  <2> QED
    BY <1>1, <1>3, <2>2, SoleStays
<1> QED
  BY <1>5, <1>6

\* The steps that PlainKeeps is about.
LEMMA CallsClaim ==
  ASSUME Types, NEW p \in Process, NEW q, NEW ops, NEW from, Calls(p, q, ops, from)
  PROVE  /\ config' = config /\ at' = at
         /\ claimed' = claimed \/ claimed' = [claimed EXCEPT ![IdOf(p)] = @ \cup {Url(p)}]
BY DEF Calls, Types

LEMMA OthersKeep ==
  ASSUME Sound, NEW p \in Process, NEW q \in Process, Agreed(q), Sole(q),
         \/ LocalWrite(p) \/ Stop(p) \/ ProbeFails(p) \/ AdoptFails(p) \/ JoinAccepted(p)
         \/ JoinFails(p) \/ Exchanges(p)
  PROVE  Sound' /\ Agreed(q)' /\ Sole(q)'
<1>1. CASE LocalWrite(p)
  <2>1. Sound' /\ \A r \in Process : db'[r].id = db[r].id /\ db'[r].flag = db[r].flag
    BY <1>1, LocalWriteSound
  <2>2. config' = config /\ at' = at /\ claimed' = claimed
    BY <1>1 DEF LocalWrite
  <2> QED
    BY <2>1, <2>2, PlainKeeps
<1>2. CASE Stop(p) \/ ProbeFails(p) \/ AdoptFails(p) \/ JoinAccepted(p) \/ JoinFails(p)
  <2>1. Sound' /\ db' = db
    BY <1>2, OtherSound
  <2>2. config' = config /\ \E to \in {"down", "join", "running"} : at' = [at EXCEPT ![p] = to]
    BY <1>2 DEF Stop, ProbeFails, AdoptFails, JoinAccepted, JoinFails, Goes
  <2>3. claimed' = claimed \/ claimed' = [claimed EXCEPT ![IdOf(p)] = @ \cup {Url(p)}]
    BY <1>2 DEF Stop, ProbeFails, AdoptFails, JoinAccepted, JoinFails
  <2>4. \A r \in Process : db'[r].id = db[r].id /\ db'[r].flag = db[r].flag
    BY <2>1
  <2> QED
    BY <2>1, <2>2, <2>3, <2>4, PlainKeeps
<1>3. CASE Exchanges(p)
  <2>1. PICK r \in Process : Push(p, r) \/ Pull(p, r)
    BY <1>3 DEF Exchanges
  <2>2. /\ Sound' /\ \A x \in Process : db'[x].id = db[x].id /\ db'[x].flag = db[x].flag
        /\ \E ops, from : Calls(p, r, ops, from)
    BY <2>1, PushSound, PullSound
  <2>3. /\ config' = config /\ at' = at
        /\ claimed' = claimed \/ claimed' = [claimed EXCEPT ![IdOf(p)] = @ \cup {Url(p)}]
    BY <2>2, CallsClaim DEF Sound
  <2> QED
    BY <2>2, <2>3, PlainKeeps
<1> QED
  BY <1>1, <1>2, <1>3

-----------------------------------------------------------------------------
(***************************************************************************)
(* What a vector covers                                                    *)
(***************************************************************************)
\* Number s of id i is there.
Holds(d, i, s) == \E x \in d.log : x.src = i /\ x.seq = s

\* Of its own operations a directory keeps count without the vector; of all others it
\* holds every number that its vector covers.
Covered(d) ==
  /\ d.vector[d.id] = 0
  /\ \A i \in Id \ {d.id} : \A s \in 1 .. d.vector[i] : Holds(d, i, s)

HInv == IInv /\ \A p \in Process : Covered(db[p])

LEMMA CurrentVectorHolds ==
  ASSUME Types, NEW p \in Process, Numbered(db[p]), Covered(db[p])
  PROVE  /\ CurrentVector(p)[IdOf(p)] = db[p].localSeq
         /\ \A i \in Id \ {IdOf(p)} : CurrentVector(p)[i] = db[p].vector[i]
         /\ \A i \in Id : \A s \in 1 .. CurrentVector(p)[i] : Holds(db[p], i, s)
<1>1. /\ db[p].id \in Id /\ db[p].localSeq \in Nat /\ db[p].vector \in [Id -> Nat]
  BY CurrentVectorIs, DatabaseIs
<1>2. CurrentVector(p)[IdOf(p)] = db[p].localSeq
  BY <1>1 DEF CurrentVector, IdOf, Larger, Covered
<1>3. \A i \in Id \ {IdOf(p)} : CurrentVector(p)[i] = db[p].vector[i]
  BY <1>1 DEF CurrentVector, IdOf
<1>4. \A s \in 1 .. db[p].localSeq : Holds(db[p], IdOf(p), s)
  BY DEF Numbered, Holds, IdOf
<1> QED
  BY <1>2, <1>3, <1>4 DEF Covered, IdOf

\* A write is one's own.
LEMMA WrittenCovers ==
  ASSUME Types, NEW p \in Process, Covered(db[p])
  PROVE  Covered(Written(p))
<1> DEFINE d == db[p]
           o == [src |-> d.id, seq |-> d.localSeq + 1, hlc |-> d.clock + 1, by |-> p]
           e == Written(p)
<1>1. e = [d EXCEPT !.log = d.log \cup {o}, !.localSeq = o.seq, !.clock = o.hlc, !.version = Stamp(o)]
  BY DEF Written
<1>2. d \in Database
  BY CurrentVectorIs
<1> HIDE DEF o, e
<1>3. e.log = d.log \cup {o} /\ e.vector = d.vector /\ e.id = d.id
  BY <1>1, <1>2 DEF Database
<1> QED
  BY <1>3 DEF Covered, Holds, e

\* What advanceVector goes on to is there.
LEMMA IngestedCovers ==
  ASSUME NEW d \in Database, Numbered(d), Covered(d), NEW ops \in SUBSET Op, IsFiniteSet(ops)
  PROVE  /\ Covered(Ingested(d, ops)) /\ Ingested(d, ops).log = d.log \cup ops
         /\ Ingested(d, ops).id = d.id
<1> DEFINE log  == d.log \cup ops
           v == [i \in Id |-> IF i = d.id THEN d.vector[i] ELSE Contiguous(log, i, d.vector[i])]
           e == Ingested(d, ops)
<1>1. d.id \in Id /\ d.log \in SUBSET Op /\ d.vector \in [Id -> Nat]
  BY DatabaseIs
<1>2. e.log = log /\ e.vector = v /\ e.id = d.id
  BY DEF Ingested, Database
<1>3. IsFiniteSet(log)
  BY FS_Union DEF Numbered
<1>4. ASSUME NEW i \in Id \ {d.id}, NEW s \in 1 .. v[i]
      PROVE  \E x \in log : x.src = i /\ x.seq = s
  <2> DEFINE next == Contiguous(log, i, d.vector[i])
  <2>1. d.vector[i] \in Nat /\ v[i] = next
    BY <1>1
  <2> HIDE DEF log, v
  <2>2. next \in Nat /\ \A k \in d.vector[i] + 1 .. next : \E o \in log : o.src = i /\ o.seq = k
    BY <1>3, <2>1, ContiguousIs
  <2>3. CASE s <= d.vector[i]
    <3>1. s \in 1 .. d.vector[i]
      BY <2>1, <2>2, <2>3
    <3> QED
      BY <3>1 DEF Covered, Holds, log
  <2>4. CASE ~ (s <= d.vector[i])
    <3> HIDE DEF next
    <3>1. s \in d.vector[i] + 1 .. next
      BY <2>1, <2>2, <2>4
    <3> QED
      BY <2>2, <3>1
  <2> QED
    BY <2>3, <2>4
<1>5. v[d.id] = 0
  BY <1>1 DEF Covered
<1> HIDE DEF v, log, e
<1>6. Covered(e)
  BY <1>2, <1>4, <1>5 DEF Covered, Holds
<1> QED
  BY <1>2, <1>6 DEF log, e

\* What keeps its old number is what the boundary covers.
LEMMA WithIdCovers ==
  ASSUME Types, NEW p \in Process, Numbered(db[p]), Covered(db[p]), NEW new \in Id,
         \A o \in db[p].log : o.src # new
  PROVE  Covered(WithId(p, new))
<1> DEFINE d == db[p]
           a == Boundary(p)
           moved == Moved(p, a)
           place(o) == Cardinality({x \in moved : x.seq <= o.seq})
           N == {[o EXCEPT !.src = new, !.seq = place(o)] : o \in moved}
           rest == d.log \ {o \in Own(p) : o.seq > a}
           v == [d.vector EXCEPT ![IdOf(p)] = a, ![new] = 0]
           e == WithId(p, new)
<1>1. d \in Database /\ d.id \in Id /\ d.log \in SUBSET Op /\ d.localSeq \in Nat
      /\ d.vector \in [Id -> Nat] /\ IdOf(p) = d.id
  BY CurrentVectorIs, DatabaseIs DEF IdOf
<1>2. a \in Nat /\ a <= d.localSeq
  BY BoundaryIs
<1>3. rest \subseteq e.log /\ e.vector = v /\ e.id = new
  <2> HIDE DEF N, rest, v
  <2>1. e = [d EXCEPT !.id = new, !.flag = FALSE, !.localSeq = LocalSeqAfter(p, moved),
               !.log = rest \cup N, !.version = Renamed(p, moved, new), !.vector = v]
    BY DEF WithId, N, rest, v
  <2> QED
    BY <1>1, <2>1 DEF Database
<1> HIDE DEF a, e
<1>4. v[new] = 0
  BY <1>1
<1>5. ASSUME NEW i \in Id \ {new}, NEW s \in 1 .. v[i] PROVE Holds(e, i, s)
  <2>1. CASE i = d.id
    <3>1. s \in 1 .. d.localSeq /\ s <= a
      BY <1>1, <1>2, <2>1
    <3>2. PICK x \in d.log : x.src = d.id /\ x.seq = s
      BY <3>1 DEF Numbered
    <3>3. x \in rest
      BY <1>2, <3>1, <3>2
    <3> QED
      BY <1>3, <2>1, <3>2, <3>3 DEF Holds
  <2>2. CASE i # d.id
    <3>1. s \in 1 .. d.vector[i]
      BY <1>1, <2>2
    <3>2. PICK x \in d.log : x.src = i /\ x.seq = s
      BY <2>2, <3>1 DEF Covered, Holds
    <3>3. x \in rest
      BY <1>1, <2>2, <3>2 DEF Own
    <3> QED
      BY <1>3, <3>2, <3>3 DEF Holds
  <2> QED
    BY <2>1, <2>2
<1> QED
  BY <1>3, <1>4, <1>5 DEF Covered, e

LEMMA PushCovers ==
  ASSUME Sound, \A r \in Process : Covered(db[r]), NEW p \in Process, NEW q \in Process, Push(p, q)
  PROVE  \A r \in Process : Covered(db'[r])
<1> DEFINE ops == {o \in db[p].log \ started[p] : o.src # IdOf(q) /\ ~ Known(db[q].log, o)}
<1>1. db' = [db EXCEPT ![q] = Ingested(db[q], ops)]
  BY DEF Push
<1>2. ops \in SUBSET Op /\ IsFiniteSet(ops)
  <2>1. db[p].log \in SUBSET Op /\ IsFiniteSet(db[p].log)
    BY CurrentVectorIs, DatabaseIs DEF Sound, Numbered
  <2> QED
    BY <2>1, FS_Subset
<1>3. db \in [Process -> Database] /\ Numbered(db[q])
  BY DEF Sound, Types
<1> HIDE DEF ops
<1>4. Covered(Ingested(db[q], ops))
  BY <1>2, <1>3, IngestedCovers
<1> QED
  BY <1>1, <1>3, <1>4

\* The vector of the peer is about what p has, or has just got.
LEMMA PullCovers ==
  ASSUME Sound, \A r \in Process : Covered(db[r]), NEW p \in Process, NEW q \in Process, Pull(p, q)
  PROVE  \A r \in Process : Covered(db'[r])
<1> DEFINE theirs == CurrentVector(q)
           after == [CurrentVector(p) EXCEPT ![IdOf(p)] = Larger(@, theirs[IdOf(p)])]
           ops == {o \in db[q].log : /\ o.src # IdOf(p) /\ o.seq > after[o.src]
                                     /\ ~ Known(db[p].log, o)}
           got == Ingested(db[p], ops)
           v == Adopted(got.vector, theirs, IdOf(p))
           d == [got EXCEPT !.vector = v]
<1>1. db' = [db EXCEPT ![p] = d]
  BY DEF Pull
<1>2. ops \in SUBSET Op /\ IsFiniteSet(ops) /\ \A o \in ops : o.src # db[p].id
  <2>1. db[q].log \in SUBSET Op /\ IsFiniteSet(db[q].log)
    BY CurrentVectorIs, DatabaseIs DEF Sound, Numbered
  <2> QED
    BY <2>1, FS_Subset DEF IdOf
<1>3. /\ db \in [Process -> Database] /\ db[p] \in Database /\ Numbered(db[p]) /\ Types
      /\ theirs \in [Id -> Nat] /\ CurrentVector(p) \in [Id -> Nat] /\ IdOf(p) \in Id
      /\ IdOf(p) = db[p].id
  BY CurrentVectorIs DEF Sound, Types, IdOf
<1>4. \A i \in Id \ {IdOf(p)} : after[i] = CurrentVector(p)[i]
  BY <1>3
<1>5. \A i \in Id : \A s \in 1 .. theirs[i] : Holds(db[q], i, s)
  BY <1>3, CurrentVectorHolds DEF Sound
<1>6. \A i \in Id : \A s \in 1 .. CurrentVector(p)[i] : Holds(db[p], i, s)
  BY <1>3, CurrentVectorHolds
<1> HIDE DEF theirs, after
<1>7. ASSUME NEW i \in Id \ {IdOf(p)}, NEW s \in 1 .. theirs[i]
      PROVE  \E x \in db[p].log \cup ops : x.src = i /\ x.seq = s
  <2>1. CASE s \in 1 .. CurrentVector(p)[i]
    BY <1>6, <2>1 DEF Holds
  <2>2. CASE s \notin 1 .. CurrentVector(p)[i]
    <3>1. s > after[i]
      BY <1>3, <1>4, <2>2
    <3>2. PICK x \in db[q].log : x.src = i /\ x.seq = s
      BY <1>5 DEF Holds
    <3>3. x \in ops \/ Known(db[p].log, x)
      BY <3>1, <3>2
    <3> QED
      BY <3>2, <3>3 DEF Known
  <2> QED
    BY <2>1, <2>2
<1> HIDE DEF ops
<1>8. /\ got \in Database /\ Covered(got) /\ got.log = db[p].log \cup ops /\ got.id = db[p].id
  BY <1>2, <1>3, IngestedIs, IngestedCovers
<1> HIDE DEF got
<1>9. /\ v[IdOf(p)] = 0
      /\ \A i \in Id \ {IdOf(p)} : v[i] = got.vector[i] \/ v[i] = theirs[i]
  <2>1. DOMAIN got.vector = Id
    BY <1>8, DatabaseIs
  <2> QED
    BY <1>3, <1>8, <2>1 DEF Adopted, Larger, Covered
<1> HIDE DEF v
<1>10. d.log = got.log /\ d.vector = v /\ d.id = db[p].id
  BY <1>8 DEF Database
<1> HIDE DEF d
<1>11. Covered(d)
  <2>1. ASSUME NEW i \in Id \ {d.id}, NEW s \in 1 .. v[i] PROVE Holds(d, i, s)
    <3>1. CASE v[i] = got.vector[i]
      BY <1>8, <1>10, <3>1 DEF Covered, Holds
    <3>2. CASE v[i] = theirs[i]
      BY <1>3, <1>7, <1>8, <1>10, <3>2 DEF Holds
    <3> QED
      BY <1>3, <1>9, <1>10, <3>1, <3>2
  <2> QED
    BY <1>3, <1>9, <1>10, <2>1 DEF Covered
<1> QED
  BY <1>1, <1>3, <1>11

-----------------------------------------------------------------------------
(***************************************************************************)
(* Theorems                                                                *)
(***************************************************************************)
LEMMA Beginning == IdentityInit => IInv
<1> SUFFICES ASSUME IdentityInit PROVE IInv
  OBVIOUS
<1> USE DEF IdentityInit
<1>1. \A p \in Process : FirstId[IF p = Clone THEN Original ELSE p] \in Id
  BY Processes
<1>2. ASSUME NEW i \in Id PROVE Fresh(i) \in Database /\ Numbered(Fresh(i))
  <2>1. Fresh(i) \in Database
    BY <1>2 DEF Fresh, Database, Version
  <2>2. Fresh(i).log = {} /\ Fresh(i).localSeq = 0 /\ IsFiniteSet({})
    BY FS_EmptySet DEF Fresh
  <2> QED
    BY <2>1, <2>2 DEF Numbered
<1>3. db \in [Process -> Database] /\ \A p \in Process : Numbered(db[p])
  BY <1>1, <1>2
<1>4. /\ config \in [seed : [Process -> Process \cup {0}],
                      pullOnly : SUBSET Process, strict : SUBSET Process, events : Nat,
                      calls : [Process -> SUBSET Process]]
      /\ \A p \in Process : Url(p) \in Process \cup {0}
  BY IdentityAssumption DEF Url
<1>5. claimed \in [Id -> SUBSET (Process \cup {0})]
  BY <1>4
<1>6. Types
  BY <1>3, <1>5 DEF Types
<1>7. ASSUME NEW p \in Process PROVE Agreed(p)
  BY DEF Agreed
<1>8. ASSUME NEW p \in Process PROVE Sole(p)
  <2> SUFFICES ASSUME p \notin {Original, Clone} \cup config.pullOnly PROVE Sole(p)
    BY DEF Sole
  <2>1. \A q \in Process : db[q].id = FirstId[IF q = Clone THEN Original ELSE q] /\ ~ db[q].flag
    BY DEF Fresh
  <2>2. db[p].id = FirstId[p] /\ \A q \in Process \ {p} : db[q].id # FirstId[p]
    BY <2>1, Processes
  <2>3. claimed[FirstId[p]] \subseteq {p}
    <3>1. FirstId[p] \in Id /\ \A q \in Process \ {Clone} : FirstId[q] = FirstId[p] => q = p
      BY Processes
    <3>2. Url(p) = p
      BY DEF Url
    <3>3. claimed[FirstId[p]] = {Url(q) : q \in {r \in Process \ {Clone} : FirstId[r] = FirstId[p]}}
      BY <3>1
    <3> QED
      BY <3>1, <3>2, <3>3
  <2> QED
    BY <2>1, <2>2, <2>3 DEF Sole, IdOf
<1> QED
  BY <1>3, <1>6, <1>7, <1>8 DEF IInv

LEMMA Inductive == IInv /\ [IdentityNext]_vars => IInv'
<1> SUFFICES ASSUME IInv, [IdentityNext]_vars PROVE IInv'
  OBVIOUS
<1>1. Sound /\ \A p \in Process : Agreed(p) /\ Sole(p)
  BY DEF IInv, Sound
<1>2. SUFFICES Sound' /\ \A q \in Process : Agreed(q)' /\ Sole(q)'
  BY DEF IInv, Sound
<1>3. CASE UNCHANGED vars
  BY <1>1, <1>3 DEF vars, history, Sound, Types, Numbered, Agreed, Sole, IdOf, Seed
<1>4. CASE Copy
  BY <1>1, <1>4, CopySound, CopyKeeps
<1>5. ASSUME NEW p \in Process,
             \/ LocalWrite(p) \/ Stop(p) \/ ProbeFails(p) \/ AdoptFails(p) \/ JoinAccepted(p)
             \/ JoinFails(p) \/ Exchanges(p)
      PROVE  Sound' /\ \A q \in Process : Agreed(q)' /\ Sole(q)'
  <2>1. \A q \in Process : Sound' /\ Agreed(q)' /\ Sole(q)'
    BY <1>1, <1>5, OthersKeep
  <2> QED
    BY <2>1
<1>6. ASSUME NEW p \in Process, Starts(p)
      PROVE  Sound' /\ \A q \in Process : Agreed(q)' /\ Sole(q)'
  <2>1. CASE Start(p)
    BY <1>1, <2>1, StartSound, StartKeeps
  <2>2. CASE Probe(p)
    BY <1>1, <2>2, OtherSound, ProbeKeeps
  <2>3. CASE Fetch(p)
    BY <1>1, <2>3, FetchSound, FetchKeeps
  <2>4. CASE Adopt(p)
    BY <1>1, <2>4, AdoptSound, AdoptKeeps
  <2> QED
    BY <1>6, <2>1, <2>2, <2>3, <2>4 DEF Starts
<1>7. ASSUME NEW p \in Process, JoinRefused(p)
      PROVE  Sound' /\ \A q \in Process : Agreed(q)' /\ Sole(q)'
  BY <1>1, <1>7, JoinRefusedSound, JoinRefusedKeeps
<1> QED
  BY <1>3, <1>4, <1>5, <1>6, <1>7 DEF IdentityNext, Joins

LEMMA Always == IdentitySpec => []IInv
BY Beginning, Inductive, PTL DEF IdentitySpec

LEMMA AdoptCovers ==
  ASSUME Sound, \A r \in Process : Covered(db[r]), NEW p \in Process, Adopt(p)
  PROVE  \A r \in Process : Covered(db'[r])
<1>1. PICK new \in Id \ {IdOf(q) : q \in Process} :
         /\ \A q \in Process : ~ \E o \in db[q].log : o.src = new
         /\ db' = [db EXCEPT ![p] = WithId(p, new)]
  BY DEF Adopt
<1>2. Covered(WithId(p, new))
  <2>1. new \in Id /\ \A o \in db[p].log : o.src # new
    BY <1>1
  <2> QED
    BY <2>1, WithIdCovers DEF Sound
<1> QED
  BY <1>1, <1>2 DEF Sound, Types

LEMMA FlagCovers ==
  ASSUME Sound, \A r \in Process : Covered(db[r]), NEW p \in Process, NEW b,
         db' = [db EXCEPT ![p].flag = b]
  PROVE  \A r \in Process : Covered(db'[r])
<1>1. db'[p] = [db[p] EXCEPT !.flag = b] /\ \A r \in Process \ {p} : db'[r] = db[r]
  BY DEF Sound, Types
<1>2. db[p] \in Database
  BY DEF Sound, Types
<1>3. db'[p].log = db[p].log /\ db'[p].vector = db[p].vector /\ db'[p].id = db[p].id
  BY <1>1, <1>2 DEF Database
<1>4. Covered(db'[p])
  BY <1>3 DEF Covered, Holds
<1> QED
  BY <1>1, <1>4

LEMMA StepCovers ==
  ASSUME Sound, \A r \in Process : Covered(db[r]), IdentityNext
  PROVE  \A r \in Process : Covered(db'[r])
<1>1. CASE Copy
  BY <1>1, CopySound, Processes
<1>2. ASSUME NEW p \in Process,
             \/ LocalWrite(p) \/ Stop(p) \/ Starts(p) \/ Joins(p) \/ Exchanges(p)
             \/ ProbeFails(p) \/ AdoptFails(p)
      PROVE  \A r \in Process : Covered(db'[r])
  <2>1. CASE LocalWrite(p)
    <3>1. db' = [db EXCEPT ![p] = Written(p)]
      BY <2>1 DEF LocalWrite, Written
    <3> QED
      BY <3>1, WrittenCovers DEF Sound, Types
  <2>2. CASE Stop(p) \/ Probe(p) \/ ProbeFails(p) \/ AdoptFails(p) \/ JoinAccepted(p) \/ JoinFails(p)
    BY <2>2, OtherSound
  <2>3. CASE Start(p)
    <3>1. db' = [db EXCEPT ![p].flag = db[p].flag /\ ~ IsStrict(p)]
      BY <2>3 DEF Start
    <3> QED
      BY <3>1, FlagCovers
  <2>4. CASE Fetch(p)
    BY <2>4 DEF Fetch
  <2>5. CASE Adopt(p)
    BY <2>5, AdoptCovers
  <2>6. CASE JoinRefused(p)
    BY <2>6, FlagCovers DEF JoinRefused
  <2>7. CASE Exchanges(p)
    BY <2>7, PushCovers, PullCovers DEF Exchanges
  <2> QED
    BY <1>2, <2>1, <2>2, <2>3, <2>4, <2>5, <2>6, <2>7 DEF Starts, Joins
<1> QED
  BY <1>1, <1>2 DEF IdentityNext

LEMMA AlwaysCovers == IdentitySpec => []HInv
<1>1. IdentityInit => HInv
  <2> SUFFICES ASSUME IdentityInit PROVE \A p \in Process : Covered(db[p])
    BY Beginning DEF HInv
  <2>1. IInv
    BY Beginning
  <2>2. ASSUME NEW p \in Process PROVE Covered(db[p])
    <3>1. db[p] \in Database /\ db[p].id \in Id
      BY <2>1, DatabaseIs DEF IInv, Types
    <3>2. db[p].vector = [j \in Id |-> 0]
      BY DEF IdentityInit, Fresh
    <3> QED
      BY <3>1, <3>2 DEF Covered
  <2> QED
    BY <2>2
<1>2. HInv /\ [IdentityNext]_vars => HInv'
  <2> SUFFICES ASSUME HInv, [IdentityNext]_vars PROVE HInv'
    OBVIOUS
  <2>1. IInv' /\ Sound
    BY Inductive DEF HInv, IInv, Sound
  <2>2. CASE IdentityNext
    BY <2>1, <2>2, StepCovers DEF HInv
  <2>3. CASE UNCHANGED vars
    BY <2>1, <2>3 DEF vars, HInv
  <2> QED
    BY <2>2, <2>3
<1> QED
  BY <1>1, <1>2, PTL DEF IdentitySpec

\* Every variable keeps its type, and a process numbers the operations it has under its id
\* without gaps, whatever is copied, fetched, renumbered and exchanged (adoptFreshNodeID,
\* captureRecord).
THEOREM IdentityTypes == IdentitySpec => []IdentityTypeOK
<1>1. ASSUME IInv PROVE IdentityTypeOK
  <2>1. ASSUME NEW p \in Process
        PROVE  db[p].localSeq = Cardinality({o \in db[p].log : o.src = db[p].id})
    BY <1>1, OwnCounted DEF IInv, Types
  <2> QED
    BY <1>1, <2>1 DEF IInv, Types, IdentityTypeOK
<1> QED
  BY <1>1, Always, PTL

\* No process in strict mode ever changes its id: neither a flag that came with a copied
\* directory nor a seed that takes its id between the check and the probe gets it there
\* (checkStrictNodeID, clearDuplicateNodeIDFlag, resolveDuplicateNodeID).
THEOREM StrictStays == IdentitySpec => StrictIdsStay
<1> DEFINE Stays == \A p \in config.strict : at[p] # "absent" => db'[p].id = db[p].id
<1>1. ASSUME IInv, IdentityNext PROVE Stays
  <2> SUFFICES ASSUME NEW p \in config.strict, at[p] # "absent" PROVE db'[p].id = db[p].id
    OBVIOUS
  <2>1. Sound /\ p \in Process /\ at[p] # "adopt"
    <3>1. config.strict \subseteq Process
      <4>1. config \in [seed : [Process -> Process \cup {0}],
                        pullOnly : SUBSET Process, strict : SUBSET Process, events : Nat,
                        calls : [Process -> SUBSET Process]]
        BY <1>1, IdentityAssumption DEF IInv, Types
      <4> QED
        BY <4>1
    <3> QED
      BY <1>1, <3>1 DEF IInv, Sound, Agreed
  <2>2. CASE Copy
    BY <2>1, <2>2, CopySound DEF Copy
  <2>3. ASSUME NEW q \in Process, IdentityNext, ~ Copy,
               \/ LocalWrite(q) \/ Stop(q) \/ Starts(q) \/ Joins(q) \/ Exchanges(q)
               \/ ProbeFails(q) \/ AdoptFails(q)
        PROVE  db'[p].id = db[p].id
    <3>1. CASE LocalWrite(q)
      BY <2>1, <3>1, LocalWriteSound
    <3>2. CASE Stop(q) \/ Probe(q) \/ ProbeFails(q) \/ AdoptFails(q) \/ JoinAccepted(q) \/ JoinFails(q)
      BY <2>1, <3>2, OtherSound
    <3>3. CASE Start(q)
      BY <2>1, <3>3, StartSound
    <3>4. CASE Fetch(q)
      BY <3>4 DEF Fetch
    <3>5. CASE Adopt(q)
      BY <2>1, <3>5, AdoptSound DEF Adopt
    <3>6. CASE JoinRefused(q)
      BY <2>1, <3>6, JoinRefusedSound
    <3>7. CASE Exchanges(q)
      BY <2>1, <3>7, PushSound, PullSound DEF Exchanges
    <3> QED
      BY <2>3, <3>1, <3>2, <3>3, <3>4, <3>5, <3>6, <3>7 DEF Starts, Joins
  <2> QED
    BY <1>1, <2>2, <2>3 DEF IdentityNext
<1>2. IInv /\ [IdentityNext]_vars => [Stays]_vars
  BY <1>1
<1> QED
  BY <1>2, Always, PTL DEF IdentitySpec, StrictIdsStay

\* A restart is never taken for a duplicate: a process with an address, of whose directory
\* there is no copy, keeps its id, in whatever order others stop, copy, join and are
\* announced (registeredIdentityInUse, handleJoin).
THEOREM NoAlarmIsFalse == IdentitySpec => []NoFalseAlarm
<1>1. IInv => NoFalseAlarm
  BY DEF IInv, Sole, NoFalseAlarm
<1> QED
  BY <1>1, Always, PTL

\* What the vector of a process covers it holds, or the number was given to two writes: a
\* fresh id takes along what the seed did not know and leaves the rest of the old id
\* covered, and what a peer's vector covers has come with it (advanceVector, adoptVector,
\* adoptFreshNodeID).
THEOREM CoveredIsHeld == IdentitySpec => []HoldsWhatItCovers
<1>1. ASSUME HInv PROVE HoldsWhatItCovers
  <2> SUFFICES ASSUME NEW p \in Process, NEW o \in Logs, o.seq <= CurrentVector(p)[o.src]
               PROVE  (\E x \in db[p].log : SameWrite(x, o)) \/ Clash(o)
    BY DEF HoldsWhatItCovers
  <2>1. Types /\ Numbered(db[p]) /\ Covered(db[p])
    BY <1>1 DEF HInv, IInv
  <2>2. o \in Op
    BY <2>1, CurrentVectorIs, DatabaseIs DEF Logs
  <2>3. o.src \in Id /\ o.seq \in 1 .. CurrentVector(p)[o.src]
    <3>1. o.src \in Id /\ o.seq \in Nat \ {0} /\ CurrentVector(p)[o.src] \in Nat
      BY <2>1, <2>2, OpIs, CurrentVectorIs
    <3> QED
      BY <3>1
  <2>4. PICK x \in db[p].log : x.src = o.src /\ x.seq = o.seq
    BY <2>1, <2>3, CurrentVectorHolds DEF Holds
  <2>5. x \in Logs /\ SameWrite(o, o)
    BY <2>4 DEF Logs, SameWrite
  <2>6. CASE SameWrite(x, o)
    BY <2>4, <2>6
  <2>7. CASE ~ SameWrite(x, o)
    BY <2>4, <2>5, <2>7 DEF Clash
  <2> QED
    BY <2>6, <2>7
<1> QED
  BY <1>1, AlwaysCovers, PTL
=============================================================================
