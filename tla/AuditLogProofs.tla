---------------------------- MODULE AuditLogProofs ----------------------------
(***************************************************************************)
(* Proofs about AuditLog: for one process with any number of recorders, a  *)
(* ring of any size, and any number of records, failed appends, crashes    *)
(* and restarts, the durable log is kept.                                  *)
(***************************************************************************)
EXTENDS AuditLog, FiniteSetTheorems, WellFoundedInduction, TLAPS

Entry == [seq : 1 .. MaxRecords, hash : Nat, prev : Nat]

Task == {Rest} \cup [at : {"queued"}, upto : 1 .. MaxRecords]
        \cup [at : {"writing"}, upto : 1 .. MaxRecords, from : Nat \ {0}]

TypeOK ==
  /\ up \in [Procs -> BOOLEAN]
  /\ ring \in [Procs -> Seq(Entry)]
  /\ seq \in [Procs -> Nat \ {0}]
  /\ high \in [Procs -> 0 .. MaxRecords]
  /\ lock \in [Procs -> Recorders \cup {Nil}]
  /\ task \in [Procs -> [Recorders -> Task]]
  /\ file \in [Procs -> Seq(Entry)]
  /\ table \in [1 .. MaxRecords -> Entry \cup {Nil}]
  /\ made \in Nat /\ faults \in Nat /\ unread \in Nat /\ overrun \in BOOLEAN

\* A number of the store's log that has a record.
Held(s) == table[s] # Nil

\* The records of the store are filed under their numbers.
RowsOK == \A s \in 1 .. MaxRecords : Held(s) => table[s].seq = s

(***************************************************************************)
(* Sets of numbers and their order                                         *)
(***************************************************************************)
\* A set of numbers up to n has a largest element.
LEMMA HasLargest ==
  ASSUME NEW n \in Nat, NEW S \in SUBSET (0 .. n), S # {}
  PROVE  /\ Max(S) \in S
         /\ \A y \in S : y <= Max(S)
<1> DEFINE T == {n - s : s \in S}
<1>1. T \subseteq Nat /\ T # {}
  <2>1. \A s \in S : n - s \in Nat
    OBVIOUS
  <2>2. PICK s \in S : TRUE
    OBVIOUS
  <2>3. n - s \in T
    BY <2>2
  <2> QED
    BY <2>1, <2>3
<1>2. PICK x \in T : \A y \in T : ~(<<y, x>> \in OpToRel(<, Nat))
  BY <1>1, NatLessThanWellFounded, WFMin
<1>3. PICK s \in S : x = n - s
  BY <1>2
<1>4. \A y \in S : s >= y
  <2> SUFFICES ASSUME NEW y \in S, y > s PROVE FALSE
    OBVIOUS
  <2>1. n - y \in T /\ n - y \in Nat /\ x \in Nat /\ n - y < x
    BY <1>3
  <2> QED
    BY <1>2, <2>1 DEF OpToRel
<1>5. Max(S) \in S /\ \A y \in S : Max(S) >= y
  BY <1>3, <1>4 DEF Max
<1> QED
  BY <1>5

\* How many elements of S are smaller than s.
Rank(S, s) == Cardinality({t \in S : t < s})

\* A larger element has more elements before it.
LEMMA RankGrows ==
  ASSUME NEW S \in SUBSET Nat, IsFiniteSet(S), NEW s \in S, NEW u \in S, s < u
  PROVE  Rank(S, s) < Rank(S, u)
<1> DEFINE A == {t \in S : t < s}
           B == {t \in S : t < u}
<1>1. IsFiniteSet(B) /\ IsFiniteSet(A) /\ B \in SUBSET S
  BY FS_Subset
<1>2. A \in SUBSET B /\ s \in B /\ s \notin A
  <2>1. \A t \in S : t \in Nat /\ (t < s => t < u) /\ ~(s < s)
    OBVIOUS
  <2> QED
    BY <2>1
<1>3. Cardinality(A) <= Cardinality(B) /\ Cardinality(A) # Cardinality(B)
  BY <1>1, <1>2, FS_Subset
<1>4. Cardinality(A) \in Nat /\ Cardinality(B) \in Nat
  BY <1>1, FS_CardinalityType
<1> QED
  BY <1>3, <1>4 DEF Rank

\* The ranks of the elements are the numbers below the size of the set.
LEMMA RankInto ==
  ASSUME NEW S \in SUBSET Nat, IsFiniteSet(S), NEW s \in S
  PROVE  Rank(S, s) \in 0 .. Cardinality(S) - 1
<1> DEFINE A == {t \in S : t < s}
<1>1. A \in SUBSET S /\ s \notin A
  OBVIOUS
<1>2. IsFiniteSet(A) /\ Cardinality(A) <= Cardinality(S) /\ Cardinality(S) # Cardinality(A)
  BY <1>1, FS_Subset
<1>3. Cardinality(A) \in Nat /\ Cardinality(S) \in Nat
  BY <1>2, FS_CardinalityType
<1> QED
  BY <1>2, <1>3 DEF Rank

\* Every number below the size of the set is the rank of one element.
LEMMA RankOnto ==
  ASSUME NEW S \in SUBSET Nat, IsFiniteSet(S), NEW i \in 1 .. Cardinality(S)
  PROVE  \E s \in S : Rank(S, s) = i - 1
<1> DEFINE n == Cardinality(S)
           T == 0 .. n - 1
           f == [s \in S |-> Rank(S, s)]
<1>1. n \in Nat
  BY FS_CardinalityType
<1>2. f \in [S -> T]
  BY RankInto
<1>3. \A a, b \in S : f[a] = f[b] => a = b
  <2> SUFFICES ASSUME NEW a \in S, NEW b \in S, a # b PROVE Rank(S, a) # Rank(S, b)
    OBVIOUS
  <2>1. a \in Nat /\ b \in Nat /\ Rank(S, a) \in Int /\ Rank(S, b) \in Int
    BY <1>1, RankInto
  <2>2. CASE a < b
    BY <2>1, <2>2, RankGrows
  <2>3. CASE b < a
    BY <2>1, <2>3, RankGrows
  <2> QED
    BY <2>1, <2>2, <2>3
<1>4. f \in Injection(S, T)
  BY <1>2, <1>3 DEF Injection, IsInjective
<1>5. IsFiniteSet(T) /\ Cardinality(T) = n
  <2>1. \A m \in Nat : IsFiniteSet(0 .. m - 1) /\ Cardinality(0 .. m - 1) = m
    <3> SUFFICES ASSUME NEW m \in Nat
                 PROVE  IsFiniteSet(0 .. m - 1) /\ Cardinality(0 .. m - 1) = m
      OBVIOUS
    <3>1. 0 \in Int /\ m - 1 \in Int
      OBVIOUS
    <3>2. /\ IsFiniteSet(0 .. m - 1)
          /\ Cardinality(0 .. m - 1) = IF 0 > m - 1 THEN 0 ELSE m - 1 - 0 + 1
      BY <3>1, FS_Interval
    <3> QED
      BY <3>2
  <2> QED
    BY <1>1, <2>1
<1> HIDE DEF T, f
<1>6. f \in Surjection(S, T)
  BY <1>4, <1>5, FS_Injection
<1>7. i - 1 \in T
  BY <1>1 DEF T
<1>8. \E s \in S : f[s] = i - 1
  BY <1>6, <1>7 DEF Surjection
<1> QED
  BY <1>8 DEF f

\* Two elements of one rank are one.
LEMMA RankUnique ==
  ASSUME NEW S \in SUBSET Nat, IsFiniteSet(S), NEW s \in S, NEW u \in S,
         Rank(S, s) = Rank(S, u)
  PROVE  s = u
<1>1. s \in Nat /\ u \in Nat /\ Rank(S, s) \in Int /\ Cardinality(S) \in Nat
  BY RankInto, FS_CardinalityType
<1>2. CASE s < u
  BY <1>1, <1>2, RankGrows
<1>3. CASE u < s
  BY <1>1, <1>3, RankGrows
<1> QED
  BY <1>1, <1>2, <1>3

(***************************************************************************)
(* What a start reads                                                      *)
(***************************************************************************)
\* The numbers of a list of entries grow.
Increasing(q) == \A i, j \in DOMAIN q : i < j => q[i].seq < q[j].seq

HeldSet == {s \in DOMAIN table : table[s] # Nil}
TailSet == {s \in HeldSet : Cardinality({t \in HeldSet : t > s}) < RingSize}
Pick(i) == CHOOSE s \in TailSet : Cardinality({t \in TailSet : t < s}) = i - 1

\* The tail of the log, as a function of the positions.
LEMMA TailIsPicked ==
  list_audit_tail = [i \in 1 .. Cardinality(TailSet) |-> table[Pick(i)]]
BY DEF list_audit_tail, HeldSet, TailSet, Pick

\* The numbers in the tail.
LEMMA TailNumbers ==
  ASSUME TypeOK
  PROVE  /\ HeldSet \in SUBSET (1 .. MaxRecords)
         /\ IsFiniteSet(HeldSet)
         /\ TailSet \in SUBSET HeldSet
         /\ TailSet \in SUBSET Nat
         /\ IsFiniteSet(TailSet)
         /\ Cardinality(TailSet) \in Nat
<1>1. HeldSet \in SUBSET (1 .. MaxRecords) /\ TailSet \in SUBSET HeldSet
  BY DEF TypeOK, HeldSet, TailSet
<1>2. 1 \in Int /\ MaxRecords \in Int /\ MaxRecords \in Nat
  BY AuditAssumption
<1>3. IsFiniteSet(1 .. MaxRecords)
  BY <1>2, FS_Interval
<1>4. IsFiniteSet(HeldSet) /\ IsFiniteSet(TailSet)
  BY <1>1, <1>3, FS_Subset
<1> QED
  BY <1>1, <1>2, <1>4, FS_CardinalityType

\* The record at each position of the tail.
LEMMA Picked ==
  ASSUME TypeOK, NEW i \in 1 .. Cardinality(TailSet)
  PROVE  Pick(i) \in TailSet /\ Rank(TailSet, Pick(i)) = i - 1
<1>1. \E s \in TailSet : Rank(TailSet, s) = i - 1
  BY TailNumbers, RankOnto
<1> QED
  BY <1>1 DEF Pick, Rank

\* The largest number held is in the tail.
LEMMA NewestInTail ==
  ASSUME TypeOK, HeldSet # {}
  PROVE  Max(HeldSet) \in TailSet /\ \A s \in HeldSet : s <= Max(HeldSet)
<1>1. MaxRecords \in Nat /\ RingSize \in Nat \ {0}
  BY AuditAssumption
<1>2. HeldSet \in SUBSET (0 .. MaxRecords)
  BY <1>1, TailNumbers
<1>3. Max(HeldSet) \in HeldSet /\ \A s \in HeldSet : s <= Max(HeldSet)
  BY <1>1, <1>2, HasLargest
<1>4. {t \in HeldSet : t > Max(HeldSet)} = {}
  <2> DEFINE m == Max(HeldSet)
  <2>1. m \in HeldSet /\ \A t \in HeldSet : t <= m
    BY <1>3
  <2> HIDE DEF m
  <2>2. \A t \in HeldSet : t \in Nat
    BY <1>1, <1>2
  <2>3. \A t \in HeldSet : ~(t > m)
    BY <2>1, <2>2
  <2> QED
    BY <2>3 DEF m
<1>5. Cardinality({t \in HeldSet : t > Max(HeldSet)}) = 0
  BY <1>4, FS_EmptySet
<1> QED
  BY <1>1, <1>3, <1>5 DEF TailSet

\* What list_audit_tail gives: records of the log in their order, the newest
\* included.
LEMMA TailOK ==
  ASSUME TypeOK, RowsOK, NEW q, q = list_audit_tail
  PROVE  /\ q \in Seq(Entry) /\ Increasing(q)
         /\ Len(q) = Cardinality(TailSet)
         /\ \A i \in DOMAIN q : q[i] = table[Pick(i)] /\ q[i].seq = Pick(i)
         /\ \A i \in DOMAIN q : Held(q[i].seq) /\ table[q[i].seq] = q[i]
         /\ Numbers(q) = TailSet
<1> DEFINE n == Cardinality(TailSet)
<1>1. n \in Nat /\ q = [i \in 1 .. n |-> table[Pick(i)]]
  BY TailNumbers, TailIsPicked
<1>2. \A i \in 1 .. n : /\ Pick(i) \in TailSet /\ Rank(TailSet, Pick(i)) = i - 1
                        /\ Pick(i) \in 1 .. MaxRecords /\ Held(Pick(i))
                        /\ table[Pick(i)] \in Entry /\ table[Pick(i)].seq = Pick(i)
  BY Picked, TailNumbers DEF HeldSet, Held, RowsOK, TypeOK
<1>3. q \in Seq(Entry) /\ Len(q) = n /\ DOMAIN q = 1 .. n
  BY <1>1, <1>2
<1>4. \A i \in 1 .. n : q[i] = table[Pick(i)] /\ q[i].seq = Pick(i)
  BY <1>1, <1>2
<1>5. Increasing(q)
  <2> SUFFICES ASSUME NEW i \in 1 .. n, NEW j \in 1 .. n, i < j
               PROVE  Pick(i) < Pick(j)
    BY <1>3, <1>4 DEF Increasing
  <2>1. Pick(i) \in Nat /\ Pick(j) \in Nat /\ Pick(i) \in TailSet /\ Pick(j) \in TailSet
    BY <1>2, TailNumbers
  <2>2. Rank(TailSet, Pick(i)) < Rank(TailSet, Pick(j))
    BY <1>1, <1>2
  <2>3. CASE Pick(j) < Pick(i)
    BY <1>1, <1>2, <2>1, <2>2, <2>3, RankGrows, TailNumbers
  <2>4. CASE Pick(j) = Pick(i)
    BY <1>1, <1>2, <2>2, <2>4
  <2> QED
    BY <2>1, <2>3, <2>4
<1>6. \A s \in TailSet : \E i \in 1 .. n : Pick(i) = s
  <2> SUFFICES ASSUME NEW s \in TailSet PROVE \E i \in 1 .. n : Pick(i) = s
    OBVIOUS
  <2>1. Rank(TailSet, s) \in 0 .. n - 1
    BY TailNumbers, RankInto
  <2>2. Rank(TailSet, s) + 1 \in 1 .. n
    BY <1>1, <2>1
  <2>3. Rank(TailSet, Pick(Rank(TailSet, s) + 1)) = Rank(TailSet, s)
    BY <1>1, <1>2, <2>1, <2>2
  <2>4. Pick(Rank(TailSet, s) + 1) = s
    BY <1>2, <2>2, <2>3, RankUnique, TailNumbers
  <2> QED
    BY <2>2, <2>4
<1>7. Numbers(q) = TailSet
  BY <1>2, <1>3, <1>4, <1>6 DEF Numbers
<1> QED
  BY <1>2, <1>3, <1>4, <1>5, <1>7

\* The newest number of the tail is the newest of the log.
LEMMA NewestOK ==
  ASSUME TypeOK, RowsOK, NEW q, q = list_audit_tail, NEW m, m = MaxOr0(Numbers(q))
  PROVE  /\ m \in 0 .. MaxRecords
         /\ m > 0 => m \in HeldSet
         /\ \A s \in HeldSet : s <= m
         /\ q = <<>> => m = 0 /\ HeldSet = {}
         /\ q # <<>> => m > 0 /\ m = q[Len(q)].seq
<1>1. q \in Seq(Entry) /\ Increasing(q) /\ Numbers(q) = TailSet /\ MaxRecords \in Nat
  BY TailOK, AuditAssumption
<1>2. HeldSet \in SUBSET (1 .. MaxRecords) /\ TailSet \in SUBSET HeldSet
  BY TailNumbers
<1>3. CASE TailSet = {}
  <2>1. HeldSet = {}
    BY <1>3, NewestInTail
  <2>2. m = 0
    BY <1>1, <1>3 DEF MaxOr0
  <2>3. q = <<>>
    <3>1. \A i \in DOMAIN q : q[i].seq \in Numbers(q)
      BY DEF Numbers
    <3>2. DOMAIN q = {} /\ DOMAIN q = 1 .. Len(q) /\ Len(q) \in Nat
      BY <1>1, <1>3, <3>1
    <3> QED
      BY <1>1, <3>2
  <2> QED
    BY <1>1, <2>1, <2>2, <2>3
<1>4. CASE TailSet # {}
  <2>1. m = Max(TailSet)
    BY <1>1, <1>4 DEF MaxOr0
  <2>2. TailSet \in SUBSET (0 .. MaxRecords)
    BY <1>1, <1>2
  <2>3. m \in TailSet /\ \A s \in TailSet : s <= m
    BY <1>1, <1>4, <2>1, <2>2, HasLargest
  <2>4. HeldSet # {}
    BY <1>2, <1>4
  <2>5. PICK h \in TailSet : \A s \in HeldSet : s <= h
    BY <2>4, NewestInTail
  <2>6. m \in 1 .. MaxRecords /\ m \in HeldSet
    BY <1>2, <2>3
  <2>7. \A s \in HeldSet : s <= m
    <3> SUFFICES ASSUME NEW s \in HeldSet PROVE s <= m
      OBVIOUS
    <3>1. s \in 1 .. MaxRecords /\ h \in 1 .. MaxRecords /\ s <= h /\ h <= m
      BY <1>2, <2>3, <2>5
    <3> QED
      BY <1>1, <2>6, <3>1
  <2>8. PICK i \in DOMAIN q : q[i].seq = m
    BY <1>1, <2>3 DEF Numbers
  <2>9. q # <<>> /\ Len(q) \in DOMAIN q /\ Len(q) \in Nat /\ DOMAIN q = 1 .. Len(q)
    BY <1>1, <2>8
  <2>10. q[Len(q)].seq \in TailSet
    BY <1>1, <2>9 DEF Numbers
  <2>11. q[Len(q)].seq = m
    <3>1. q[Len(q)].seq <= m
      BY <2>3, <2>10
    <3>2. i < Len(q) => m < q[Len(q)].seq
      BY <1>1, <2>8, <2>9 DEF Increasing
    <3>3. i = Len(q) \/ i < Len(q)
      BY <2>9
    <3>4. q[Len(q)].seq \in 1 .. MaxRecords /\ m \in 1 .. MaxRecords
      BY <1>2, <2>6, <2>10
    <3> QED
      BY <2>8, <3>1, <3>2, <3>3, <3>4
  <2> QED
    BY <1>1, <2>6, <2>7, <2>9, <2>11
<1> QED
  BY <1>3, <1>4

\* Without a hole the log is an interval, and so is its tail.
LEMMA TailInterval ==
  ASSUME TypeOK, RowsOK, \A s, t \in 1 .. MaxRecords : s <= t /\ Held(t) => Held(s),
         NEW q, q = list_audit_tail, q # <<>>
  PROVE  \E lo \in 1 .. MaxRecords :
           \A i \in DOMAIN q : q[i] = table[lo + i - 1] /\ q[i].seq = lo + i - 1
<1> DEFINE h == q[Len(q)].seq
<1>1. /\ q \in Seq(Entry) /\ Numbers(q) = TailSet /\ MaxRecords \in Nat /\ RingSize \in Nat \ {0}
      /\ Len(q) = Cardinality(TailSet)
      /\ \A i \in DOMAIN q : q[i] = table[Pick(i)] /\ q[i].seq = Pick(i)
  BY TailOK, AuditAssumption
<1>2. h \in HeldSet /\ h \in 1 .. MaxRecords /\ \A s \in HeldSet : s <= h
  <2>1. MaxOr0(Numbers(q)) = h /\ MaxOr0(Numbers(q)) > 0
    BY NewestOK
  <2>2. h \in HeldSet /\ \A s \in HeldSet : s <= h
    BY <2>1, NewestOK
  <2> QED
    BY <2>2, TailNumbers
<1> HIDE DEF h
<1>3. HeldSet = 1 .. h
  <2>1. HeldSet \in SUBSET (1 .. MaxRecords)
    BY TailNumbers
  <2>2. \A s \in 1 .. h : s \in HeldSet
    BY <1>1, <1>2 DEF HeldSet, Held, TypeOK
  <2>3. \A s \in HeldSet : s \in 1 .. h
    BY <1>1, <1>2, <2>1
  <2> QED
    BY <2>2, <2>3
<1>4. \A s \in 1 .. h : Cardinality({t \in HeldSet : t > s}) = h - s
  <2> SUFFICES ASSUME NEW s \in 1 .. h PROVE Cardinality({t \in HeldSet : t > s}) = h - s
    OBVIOUS
  <2>1. {t \in HeldSet : t > s} = (s + 1) .. h
    <3>1. h \in Nat /\ s \in Nat /\ s >= 1
      BY <1>1, <1>2
    <3>2. \A t : t \in 1 .. h /\ t > s <=> t \in (s + 1) .. h
      BY <3>1
    <3> QED
      BY <1>3, <3>2
  <2>2. s + 1 \in Int /\ h \in Int
    BY <1>2
  <2>3. Cardinality((s + 1) .. h) = IF s + 1 > h THEN 0 ELSE h - (s + 1) + 1
    BY <2>2, FS_Interval
  <2>4. (IF s + 1 > h THEN 0 ELSE h - (s + 1) + 1) = h - s
    <3>1. h \in Nat /\ s \in Nat /\ s <= h
      BY <1>1, <1>2
    <3> QED
      BY <3>1
  <2> QED
    BY <2>1, <2>3, <2>4
<1> DEFINE lo == IF h > RingSize THEN h - RingSize + 1 ELSE 1
<1>5. lo \in 1 .. MaxRecords /\ lo <= h
  BY <1>1, <1>2
<1>6. TailSet = lo .. h
  <2>1. TailSet = {s \in 1 .. h : h - s < RingSize}
    BY <1>3, <1>4 DEF TailSet
  <2>2. \A s \in 1 .. h : h - s < RingSize <=> s >= lo
    BY <1>1, <1>2
  <2> QED
    BY <1>1, <1>2, <1>5, <2>1, <2>2
<1> HIDE DEF lo
<1>7. \A s \in lo .. h : Rank(TailSet, s) = s - lo
  <2> SUFFICES ASSUME NEW s \in lo .. h PROVE Rank(TailSet, s) = s - lo
    OBVIOUS
  <2>1. {t \in TailSet : t < s} = lo .. (s - 1)
    <3>1. h \in Nat /\ lo \in Nat /\ s \in Nat /\ s <= h
      BY <1>1, <1>2, <1>5
    <3>2. \A t : t \in lo .. h /\ t < s <=> t \in lo .. (s - 1)
      BY <3>1
    <3> QED
      BY <1>6, <3>2
  <2>2. lo \in Int /\ s - 1 \in Int
    BY <1>2, <1>5
  <2>3. Cardinality(lo .. (s - 1)) = IF lo > s - 1 THEN 0 ELSE s - 1 - lo + 1
    BY <2>2, FS_Interval
  <2>4. (IF lo > s - 1 THEN 0 ELSE s - 1 - lo + 1) = s - lo
    <3>1. lo \in Nat /\ s \in Nat /\ lo <= s
      BY <1>1, <1>2, <1>5
    <3> QED
      BY <3>1
  <2> QED
    BY <2>1, <2>3, <2>4 DEF Rank
<1>8. \A i \in DOMAIN q : Pick(i) = lo + i - 1
  <2> SUFFICES ASSUME NEW i \in DOMAIN q PROVE Pick(i) = lo + i - 1
    OBVIOUS
  <2>1. i \in 1 .. Cardinality(TailSet) /\ i \in Nat
    BY <1>1
  <2>2. Pick(i) \in lo .. h /\ Rank(TailSet, Pick(i)) = i - 1
    BY <1>6, <2>1, Picked
  <2>3. Pick(i) - lo = i - 1
    BY <1>7, <2>2
  <2> QED
    BY <1>2, <1>5, <2>1, <2>2, <2>3
<1> QED
  BY <1>1, <1>5, <1>8

(***************************************************************************)
(* Types, and who writes                                                   *)
(***************************************************************************)
\* A recorder at work has an entry of a running process; one that writes holds
\* the lock and is past the watermark.
LockInv ==
  \A p \in Procs : \A r \in Recorders :
    /\ task[p][r].at # "idle" => up[p] /\ task[p][r].upto < seq[p]
    /\ Writing(p, r) => lock[p] = r /\ task[p][r].from > high[p]

IInv == TypeOK /\ RowsOK /\ LockInv

\* The kinds of task, told by where they are.
LEMMA TaskKinds ==
  ASSUME NEW t \in Task
  PROVE  /\ t.at \in {"idle", "queued", "writing"}
         /\ t.at = "idle" => t = Rest
         /\ t.at \in {"queued", "writing"} => t.upto \in 1 .. MaxRecords
         /\ t.at = "writing" => t.from \in Nat \ {0}
         /\ Rest.at = "idle"
BY DEF Task, Rest

\* The fields of the state of one process are well typed.
LEMMA ProcTypes ==
  ASSUME TypeOK, NEW p \in Procs
  PROVE  /\ ring[p] \in Seq(Entry) /\ file[p] \in Seq(Entry)
         /\ seq[p] \in Nat \ {0} /\ high[p] \in 0 .. MaxRecords /\ MaxRecords \in Nat
         /\ high[p] \in Nat
         /\ \A r \in Recorders : task[p][r] \in Task
BY AuditAssumption DEF TypeOK

\* The larger of two numbers.
LEMMA LargerOfTwo ==
  ASSUME NEW a \in Nat, NEW b \in Nat
  PROVE  Max({a, b}) \in {a, b} /\ a <= Max({a, b}) /\ b <= Max({a, b})
<1>1. \E x \in {a, b} : \A y \in {a, b} : x >= y
  BY Z3
<1>2. Max({a, b}) \in {a, b} /\ \A y \in {a, b} : Max({a, b}) >= y
  BY <1>1 DEF Max
<1> HIDE DEF Max
<1> QED
  BY <1>2

\* The largest number of a list of entries.
LEMMA NumbersMax ==
  ASSUME NEW q \in Seq(Entry), NEW m, m = MaxOr0(Numbers(q))
  PROVE  /\ m \in 0 .. MaxRecords
         /\ \A i \in DOMAIN q : q[i].seq <= m
         /\ q # <<>> => \E i \in DOMAIN q : q[i].seq = m
         /\ q = <<>> => m = 0
<1>1. \A i \in DOMAIN q : q[i].seq \in 1 .. MaxRecords
  <2>1. \A i \in DOMAIN q : q[i] \in Entry
    OBVIOUS
  <2> QED
    BY <2>1 DEF Entry
<1>2. MaxRecords \in Nat
  BY AuditAssumption
<1>3. Numbers(q) \in SUBSET (0 .. MaxRecords) /\ \A i \in DOMAIN q : q[i].seq \in Numbers(q)
  BY <1>1, <1>2 DEF Numbers
<1>4. CASE q = <<>>
  <2>1. Numbers(q) = {}
    BY <1>4 DEF Numbers
  <2>2. m = 0
    BY <2>1 DEF MaxOr0
  <2> QED
    BY <1>2, <1>4, <2>2
<1>5. CASE q # <<>>
  <2>1. 1 \in DOMAIN q
    BY <1>5
  <2>2. Numbers(q) # {} /\ m = Max(Numbers(q))
    BY <1>3, <2>1 DEF MaxOr0
  <2>3. m \in Numbers(q) /\ \A y \in Numbers(q) : y <= m
    BY <1>2, <1>3, <2>2, HasLargest
  <2>4. \E i \in DOMAIN q : q[i].seq = m
    BY <2>3 DEF Numbers
  <2> QED
    BY <1>3, <1>5, <2>3, <2>4
<1> QED
  BY <1>4, <1>5

\* x is the ring q after a push of e: the entries of q, moved by d, and e.
IsPush(q, e, x) ==
  /\ x \in Seq(Entry) /\ x # <<>> /\ x[Len(x)] = e
  /\ \E d \in {0, 1} :
       /\ d = 1 <=> Len(q) >= RingSize
       /\ d = 1 => q # <<>>
       /\ Len(x) + d = Len(q) + 1
       /\ \A i \in 1 .. Len(x) - 1 : i + d \in 1 .. Len(q) /\ x[i] = q[i + d]

\* A push drops the oldest entry of a full ring.
LEMMA PushPlaces ==
  ASSUME NEW q \in Seq(Entry), NEW e \in Entry
  PROVE  IsPush(q, e, Pushed(q, e))
<1> SUFFICES ASSUME NEW x, x = Pushed(q, e) PROVE IsPush(q, e, x)
  OBVIOUS
<1>1. /\ x \in Seq(Entry) /\ x # <<>> /\ x[Len(x)] = e
      /\ Len(q) >= RingSize => Len(x) = Len(q) /\ q # <<>> /\ \A i \in 1 .. Len(q) - 1 : x[i] = q[i + 1]
      /\ Len(q) < RingSize => Len(x) = Len(q) + 1 /\ \A i \in 1 .. Len(q) : x[i] = q[i]
  <2>1. RingSize \in Nat \ {0} /\ Len(q) \in Nat
    BY AuditAssumption
  <2>2. CASE Len(q) >= RingSize
    <3> DEFINE t == Tail(q)
    <3>1. x = Append(t, e) /\ q # <<>>
      BY <2>1, <2>2 DEF Pushed
    <3>2. t \in Seq(Entry) /\ Len(t) = Len(q) - 1 /\ \A i \in 1 .. Len(q) - 1 : t[i] = q[i + 1]
      BY <3>1
    <3> HIDE DEF t
    <3>3. /\ x \in Seq(Entry) /\ Len(x) = Len(t) + 1 /\ x[Len(t) + 1] = e
          /\ \A i \in 1 .. Len(t) : x[i] = t[i]
      BY <3>1, <3>2
    <3>4. Len(x) = Len(q) /\ x # <<>>
      BY <2>1, <3>2, <3>3
    <3>5. x[Len(x)] = e /\ \A i \in 1 .. Len(q) - 1 : x[i] = q[i + 1]
      BY <3>2, <3>3
    <3> QED
      BY <2>1, <2>2, <3>1, <3>3, <3>4, <3>5
  <2>3. CASE Len(q) < RingSize
    <3>1. x = Append(q, e)
      BY <2>1, <2>3 DEF Pushed
    <3> QED
      BY <2>1, <2>3, <3>1
  <2> QED
    BY <2>1, <2>2, <2>3
<1> DEFINE m == Len(q)
           n == Len(x)
<1>2. m \in Nat /\ RingSize \in Nat /\ n \in Nat
  BY <1>1, AuditAssumption
<1>3. CASE m >= RingSize
  <2>1. n = m /\ q # <<>> /\ \A i \in 1 .. m - 1 : x[i] = q[i + 1]
    BY <1>1, <1>3
  <2> HIDE DEF m, n
  <2>2. \A i \in 1 .. n - 1 : i + 1 \in 1 .. m /\ x[i] = q[i + 1]
    BY <1>2, <2>1
  <2>3. n + 1 = m + 1
    BY <1>2, <2>1
  <2> QED
    BY <1>1, <1>2, <1>3, <2>1, <2>2, <2>3 DEF m, n, IsPush
<1>4. CASE m < RingSize
  <2>1. n = m + 1 /\ \A i \in 1 .. m : x[i] = q[i]
    BY <1>1, <1>4
  <2> HIDE DEF m, n
  <2>2. \A i \in 1 .. n - 1 : i + 0 \in 1 .. m /\ x[i] = q[i + 0]
    BY <1>2, <2>1
  <2>3. n + 0 = m + 1 /\ ~(m >= RingSize)
    BY <1>2, <1>4, <2>1
  <2> QED
    BY <1>1, <1>2, <1>4, <2>1, <2>2, <2>3 DEF m, n, IsPush
<1> QED
  BY <1>2, <1>3, <1>4

\* What an append writes is the ring's entry of that number.
LEMMA WrittenOK ==
  ASSUME TypeOK, NEW p \in Procs, NEW s, InRing(p, s) # {}
  PROVE  \E i \in DOMAIN ring[p] :
           /\ ring[p][i].seq = s /\ ring[p][i] \in Entry /\ s \in 1 .. MaxRecords
           /\ Written(p, s) = [table EXCEPT ![s] = ring[p][i]]
<1> DEFINE i == CHOOSE i \in InRing(p, s) : TRUE
<1>1. i \in InRing(p, s)
  OBVIOUS
<1>2. i \in DOMAIN ring[p] /\ ring[p][i].seq = s
  BY <1>1 DEF InRing
<1>3. ring[p][i] \in Entry
  BY <1>2, ProcTypes
<1>4. Written(p, s) = [table EXCEPT ![s] = ring[p][i]]
  BY DEF Written
<1> HIDE DEF i
<1>5. s \in 1 .. MaxRecords
  BY <1>2, <1>3 DEF Entry
<1> QED
  BY <1>2, <1>3, <1>4, <1>5

\* A start that could read the store: q is the ring, n the next number and h
\* the watermark it begins with.
Restored(p, q, n, h) ==
  /\ unread = 0 /\ unread' = 0
  /\ \A s \in HeldSet : s <= h
  /\ h > 0 => h \in HeldSet
  /\ h < n
  /\ q \in {list_audit_tail, file[p], <<>>}
  /\ HeldSet # {} /\ Linked(list_audit_tail) => q = list_audit_tail /\ n = h + 1
  /\ HeldSet = {} => h = 0 /\ q \in {file[p], <<>>} /\ n = MaxOr0(Numbers(q)) + 1

\* What a start does to the state of its process.
Begins(p, q, n, h) ==
  /\ ring' = [ring EXCEPT ![p] = q]
  /\ seq' = [seq EXCEPT ![p] = n]
  /\ high' = [high EXCEPT ![p] = h]
  /\ \A i \in DOMAIN q : q[i].seq < n
  /\ unread' \in Nat
  /\ unread' = 0 => Restored(p, q, n, h)

\* `load` gives a list of entries and a number after all of them.
LEMMA LoadedOK ==
  ASSUME TypeOK, NEW p \in Procs, NEW from \in Nat \ {0}, Loaded(p, from)
  PROVE  \E q \in {file[p], <<>>} : \E n \in Nat \ {0} :
           /\ q \in Seq(Entry)
           /\ ring' = [ring EXCEPT ![p] = q] /\ seq' = [seq EXCEPT ![p] = n]
           /\ \A i \in DOMAIN q : q[i].seq < n
           /\ from <= n
           /\ from = 1 => n = MaxOr0(Numbers(q)) + 1
<1>1. PICK q \in {file[p], <<>>} :
        /\ ring' = [ring EXCEPT ![p] = q]
        /\ seq' = [seq EXCEPT ![p] = Max({from, MaxOr0(Numbers(q)) + 1})]
  BY DEF Loaded
<1>2. q \in Seq(Entry)
  <2>1. file[p] \in Seq(Entry) /\ <<>> \in Seq(Entry)
    BY ProcTypes
  <2> QED
    BY <1>1, <2>1
<1> DEFINE m == MaxOr0(Numbers(q))
           n == Max({from, m + 1})
<1>3. m \in 0 .. MaxRecords /\ \A i \in DOMAIN q : q[i].seq <= m
  BY <1>2, NumbersMax
<1>4. m \in Nat /\ m + 1 \in Nat
  BY <1>3, AuditAssumption
<1> HIDE DEF m
<1>5. n \in {from, m + 1} /\ from <= n /\ m + 1 <= n
  BY <1>4, LargerOfTwo
<1>6. seq' = [seq EXCEPT ![p] = n]
  BY <1>1 DEF m
<1> HIDE DEF n
<1>7. \A i \in DOMAIN q : q[i].seq \in 1 .. MaxRecords
  <2>1. \A i \in DOMAIN q : q[i] \in Entry
    BY <1>2
  <2> QED
    BY <2>1 DEF Entry
<1>8. n \in Nat \ {0}
  BY <1>4, <1>5
<1>9. \A i \in DOMAIN q : q[i].seq < n
  BY <1>3, <1>4, <1>5, <1>7, <1>8
<1>10. from = 1 => n = m + 1
  BY <1>4, <1>5
<1> QED
  BY <1>1, <1>2, <1>5, <1>6, <1>8, <1>9, <1>10 DEF m

\* A start.
LEMMA StartOK ==
  ASSUME TypeOK, RowsOK, NEW p \in Procs, Start(p)
  PROVE  \E q \in Seq(Entry), n \in Nat \ {0}, h \in 0 .. MaxRecords : Begins(p, q, n, h)
<1>1. unread \in Nat /\ MaxRecords \in Nat
  BY AuditAssumption DEF TypeOK
<1>2. CASE restore_from_store(p) /\ UNCHANGED unread
  <2> DEFINE records == list_audit_tail
             h == MaxOr0(Numbers(records))
  <2>1. /\ h \in 0 .. MaxRecords /\ (h > 0 => h \in HeldSet) /\ \A s \in HeldSet : s <= h
        /\ records = <<>> => h = 0 /\ HeldSet = {}
        /\ records # <<>> => h > 0 /\ h = records[Len(records)].seq
    BY NewestOK
  <2>2. records \in Seq(Entry) /\ \A i \in DOMAIN records : records[i].seq \in HeldSet
    BY TailOK, TailNumbers DEF Held, HeldSet, TypeOK, Numbers
  <2>3. /\ high' = [high EXCEPT ![p] = h]
        /\ IF records # <<>> /\ Linked(records)
           THEN ring' = [ring EXCEPT ![p] = records] /\ seq' = [seq EXCEPT ![p] = h + 1]
           ELSE Loaded(p, h + 1)
    BY <1>2 DEF restore_from_store
  <2> HIDE DEF h, records
  <2>4. h \in Nat /\ h + 1 \in Nat \ {0} /\ h < h + 1
    BY <1>1, <2>1
  <2>5. HeldSet # {} => records # <<>>
    BY <2>1
  <2>6. CASE records # <<>> /\ Linked(records)
    <3>1. \A i \in DOMAIN records : records[i].seq < h + 1
      <4>1. \A s \in HeldSet : s \in 1 .. MaxRecords
        BY TailNumbers
      <4> QED
        BY <2>1, <2>2, <2>4, <4>1
    <3>2. HeldSet # {}
      BY <2>1, <2>6
    <3>3. Restored(p, records, h + 1, h) \/ unread' # 0
      BY <1>2, <2>1, <2>4, <2>6, <3>2 DEF Restored, records
    <3>4. Begins(p, records, h + 1, h)
      BY <1>1, <1>2, <2>3, <2>6, <3>1, <3>3 DEF Begins
    <3> QED
      BY <2>1, <2>2, <2>4, <3>4
  <2>7. CASE ~(records # <<>> /\ Linked(records))
    <3>1. PICK q \in {file[p], <<>>}, n \in Nat \ {0} :
           /\ q \in Seq(Entry)
           /\ ring' = [ring EXCEPT ![p] = q] /\ seq' = [seq EXCEPT ![p] = n]
           /\ \A i \in DOMAIN q : q[i].seq < n
           /\ h + 1 <= n
           /\ h + 1 = 1 => n = MaxOr0(Numbers(q)) + 1
      BY <2>3, <2>4, <2>7, LoadedOK
    <3>2. h < n
      BY <2>4, <3>1
    <3>3. HeldSet = {} => h = 0
      BY <2>1, <2>4
    <3>4. Restored(p, q, n, h) \/ unread' # 0
      BY <1>2, <2>1, <2>5, <2>7, <3>1, <3>2, <3>3 DEF Restored, records
    <3>5. Begins(p, q, n, h)
      BY <1>1, <1>2, <2>3, <3>1, <3>4 DEF Begins
    <3> QED
      BY <2>1, <3>1, <3>5
  <2> QED
    BY <2>6, <2>7
<1>3. CASE Loaded(p, 1) /\ high' = [high EXCEPT ![p] = 0] /\ unread' = unread + 1
  <2>1. PICK q \in {file[p], <<>>}, n \in Nat \ {0} :
         /\ q \in Seq(Entry)
         /\ ring' = [ring EXCEPT ![p] = q] /\ seq' = [seq EXCEPT ![p] = n]
         /\ \A i \in DOMAIN q : q[i].seq < n
    BY <1>3, LoadedOK
  <2>2. unread' \in Nat /\ unread' # 0 /\ 0 \in 0 .. MaxRecords
    BY <1>1, <1>3
  <2>3. Begins(p, q, n, 0)
    BY <1>3, <2>1, <2>2 DEF Begins
  <2> QED
    BY <2>1, <2>2, <2>3
<1> QED
  BY <1>2, <1>3 DEF Start

(***************************************************************************)
(* Types, rows and the lock                                                *)
(***************************************************************************)
\* One task moves and the others stay.
LEMMA TaskMoves ==
  ASSUME TypeOK, NEW p \in Procs, NEW r \in Recorders, NEW t \in Task,
         task' = [task EXCEPT ![p][r] = t]
  PROVE  /\ task' \in [Procs -> [Recorders -> Task]]
         /\ task'[p][r] = t
         /\ \A y \in Recorders : y # r => task'[p][y] = task[p][y]
         /\ \A x \in Procs : x # p => task'[x] = task[x]
BY DEF TypeOK

\* A writer that goes on to the next number.
LEMMA FromGrows ==
  ASSUME TypeOK, NEW p \in Procs, NEW r \in Recorders, Writing(p, r)
  PROVE  \E t \in Task :
           /\ t.at = "writing" /\ t.upto = task[p][r].upto /\ t.from = task[p][r].from + 1
           /\ task[p][r].from \in Nat \ {0}
           /\ [task EXCEPT ![p][r].from = @ + 1] = [task EXCEPT ![p][r] = t]
<1> DEFINE t == [task[p][r] EXCEPT !.from = task[p][r].from + 1]
           W == [at : {"writing"}, upto : 1 .. MaxRecords, from : Nat \ {0}]
<1>1. task[p][r] \in Task /\ task[p][r].at = "writing"
  BY ProcTypes DEF Writing
<1>2. task[p][r] \in W
  BY <1>1 DEF Task, Rest
<1>3. /\ t \in W /\ t.at = "writing" /\ t.upto = task[p][r].upto
      /\ t.from = task[p][r].from + 1 /\ task[p][r].from \in Nat \ {0}
  BY <1>2
<1>4. [task EXCEPT ![p][r].from = @ + 1] = [task EXCEPT ![p][r] = t]
  OBVIOUS
<1> HIDE DEF t
<1> QED
  BY <1>3, <1>4 DEF Task

\* The entry that `record_by` makes.
NewEntry(p) ==
  [seq |-> seq[p], hash |-> made + 1, prev |-> IF ring[p] = <<>> THEN 0 ELSE Last(ring[p]).hash]

\* A new entry names the last one of the ring.
LEMMA NewEntryOK ==
  ASSUME TypeOK, NEW p \in Procs, seq[p] <= MaxRecords, NEW e, e = NewEntry(p)
  PROVE  /\ e \in Entry /\ e.seq = seq[p]
         /\ ring[p] # <<>> => e.prev = ring[p][Len(ring[p])].hash
<1>1. /\ ring[p] \in Seq(Entry) /\ seq[p] \in Nat \ {0} /\ MaxRecords \in Nat /\ made \in Nat
  BY ProcTypes DEF TypeOK
<1>2. CASE ring[p] = <<>>
  BY <1>1, <1>2 DEF NewEntry, Entry
<1>3. CASE ring[p] # <<>>
  <2>1. ring[p][Len(ring[p])] \in Entry
    BY <1>1, <1>3
  <2>2. ring[p][Len(ring[p])].hash \in Nat
    BY <2>1 DEF Entry
  <2> QED
    BY <1>1, <1>3, <2>2 DEF NewEntry, Entry, Last
<1> QED
  BY <1>2, <1>3

\* What a record does.
LEMMA Records ==
  ASSUME TypeOK, NEW p \in Procs, NEW r \in Recorders, record_by(p, r)
  PROVE  \E e \in Entry : \E t \in Task : \E q \in Seq(Entry) :
           /\ e.seq = seq[p] /\ (ring[p] # <<>> => e.prev = ring[p][Len(ring[p])].hash)
           /\ t.at = "queued" /\ t.upto = seq[p]
           /\ IsPush(ring[p], e, q)
           /\ ring' = [ring EXCEPT ![p] = q]
           /\ task' = [task EXCEPT ![p][r] = t]
           /\ overrun' = (overrun \/ (Len(ring[p]) >= RingSize /\ table[Head(ring[p]).seq] # Head(ring[p])))
<1> DEFINE e == NewEntry(p)
           t == [at |-> "queued", upto |-> seq[p]]
<1>1. /\ seq[p] <= MaxRecords
      /\ ring' = [ring EXCEPT ![p] = Pushed(ring[p], e)]
      /\ task' = [task EXCEPT ![p][r] = t]
      /\ overrun' = (overrun \/ (Len(ring[p]) >= RingSize /\ table[Head(ring[p]).seq] # Head(ring[p])))
  BY DEF record_by, NewEntry
<1>2. e \in Entry /\ e.seq = seq[p] /\ (ring[p] # <<>> => e.prev = ring[p][Len(ring[p])].hash)
  BY <1>1, NewEntryOK
<1>3. t \in Task /\ t.at = "queued" /\ t.upto = seq[p]
  BY <1>1, ProcTypes DEF Task
<1> HIDE DEF e
<1>4. IsPush(ring[p], e, Pushed(ring[p], e)) /\ Pushed(ring[p], e) \in Seq(Entry)
  <2>1. ring[p] \in Seq(Entry)
    BY ProcTypes
  <2>2. IsPush(ring[p], e, Pushed(ring[p], e))
    BY <1>2, <2>1, PushPlaces
  <2> QED
    BY <2>2 DEF IsPush
<1> HIDE DEF t
<1> QED
  BY <1>1, <1>2, <1>3, <1>4

\* What holds of the tasks of one process.
TasksOK(p) ==
  \A r \in Recorders :
    /\ task[p][r].at # "idle" => up[p] /\ task[p][r].upto < seq[p]
    /\ Writing(p, r) => lock[p] = r /\ task[p][r].from > high[p]

\* LockInv is about each process.
LEMMA LockSplit == LockInv <=> \A p \in Procs : TasksOK(p)
BY DEF LockInv, TasksOK

\* A process of which nothing changes keeps its tasks in order.
LEMMA TasksStay ==
  ASSUME LockInv, NEW p \in Procs,
         \A x \in Procs : x # p => /\ up'[x] = up[x] /\ seq'[x] = seq[x] /\ high'[x] = high[x]
                                   /\ lock'[x] = lock[x] /\ task'[x] = task[x],
         TasksOK(p)'
  PROVE  LockInv'
<1> SUFFICES ASSUME NEW x \in Procs PROVE TasksOK(x)'
  BY DEF LockInv, TasksOK
<1>1. CASE x = p
  BY <1>1
<1>2. CASE x # p
  <2>1. TasksOK(x)
    BY LockSplit
  <2> QED
    BY <1>2, <2>1 DEF TasksOK, Writing
<1> QED
  BY <1>1, <1>2

\* A start has no task.
LEMMA StartStep ==
  ASSUME IInv, NEW p \in Procs, Start(p)
  PROVE  IInv'
<1>1. PICK q \in Seq(Entry), n \in Nat \ {0}, h \in 0 .. MaxRecords : Begins(p, q, n, h)
  BY StartOK DEF IInv
<1>2. /\ up' = [up EXCEPT ![p] = TRUE] /\ ~up[p]
      /\ UNCHANGED <<lock, task, file, table, made, faults, overrun>>
  BY DEF Start
<1>3. TypeOK'
  BY <1>1, <1>2 DEF Begins, TypeOK, IInv
<1>4. RowsOK'
  BY <1>2 DEF RowsOK, Held, IInv
<1>5. TasksOK(p)'
  <2>1. TasksOK(p)
    BY LockSplit DEF IInv
  <2>2. \A r \in Recorders : task[p][r].at = "idle"
    BY <1>2, <2>1 DEF TasksOK
  <2> QED
    BY <1>2, <2>2 DEF TasksOK, Writing
<1>6. LockInv'
  BY <1>1, <1>2, <1>5, TasksStay DEF Begins, TypeOK, IInv
<1> QED
  BY <1>3, <1>4, <1>6 DEF IInv

\* Only the state file changes.
LEMMA SnapshotStep ==
  ASSUME IInv, NEW p \in Procs, Snapshot(p)
  PROVE  IInv'
<1>1. file' = [file EXCEPT ![p] = ring[p]] /\ UNCHANGED <<memory, table, made, faults, unread, overrun>>
  BY DEF Snapshot
<1>2. TypeOK'
  BY <1>1 DEF IInv, TypeOK, memory
<1>3. RowsOK' /\ LockInv'
  BY <1>1 DEF IInv, RowsOK, Held, LockInv, Writing, memory
<1> QED
  BY <1>2, <1>3 DEF IInv

\* A crash ends every task.
LEMMA CrashStep ==
  ASSUME IInv, NEW p \in Procs, Crash(p)
  PROVE  IInv'
<1>1. /\ up' = [up EXCEPT ![p] = FALSE] /\ ring' = [ring EXCEPT ![p] = <<>>]
      /\ seq' = [seq EXCEPT ![p] = 1] /\ high' = [high EXCEPT ![p] = 0]
      /\ lock' = [lock EXCEPT ![p] = Nil]
      /\ task' = [task EXCEPT ![p] = [r \in Recorders |-> Rest]]
      /\ faults' = faults + 1
      /\ UNCHANGED <<file, table, made, unread, overrun>>
  BY DEF Crash
<1>2. [r \in Recorders |-> Rest] \in [Recorders -> Task] /\ 0 \in 0 .. MaxRecords /\ faults' \in Nat
  BY <1>1, AuditAssumption DEF Task, IInv, TypeOK
<1>3. TypeOK'
  BY <1>1, <1>2 DEF IInv, TypeOK
<1>4. RowsOK'
  BY <1>1 DEF IInv, RowsOK, Held
<1>5. task'[p] = [r \in Recorders |-> Rest] /\ Rest.at = "idle"
  BY <1>1 DEF IInv, TypeOK, Rest
<1>6. TasksOK(p)'
  BY <1>5 DEF TasksOK, Writing
<1>7. LockInv'
  BY <1>1, <1>6, TasksStay DEF IInv, TypeOK
<1> QED
  BY <1>3, <1>4, <1>7 DEF IInv

\* A record waits for its write with the number it was given.
LEMMA RecordStep ==
  ASSUME IInv, NEW p \in Procs, NEW r \in Recorders, record_by(p, r)
  PROVE  IInv'
<1>1. TypeOK
  BY DEF IInv
<1>2. PICK e \in Entry, t \in Task, q \in Seq(Entry) :
           /\ t.at = "queued" /\ t.upto = seq[p]
           /\ ring' = [ring EXCEPT ![p] = q]
           /\ task' = [task EXCEPT ![p][r] = t]
           /\ overrun' = (overrun \/ (Len(ring[p]) >= RingSize /\ table[Head(ring[p]).seq] # Head(ring[p])))
  BY <1>1, Records
<1>3. /\ seq' = [seq EXCEPT ![p] = seq[p] + 1] /\ made' = made + 1 /\ up[p]
      /\ UNCHANGED <<up, high, lock, file, table, faults, unread>>
  BY DEF record_by
<1>4. overrun' \in BOOLEAN
  BY <1>2
<1>5. seq[p] + 1 \in Nat \ {0} /\ made' \in Nat /\ seq[p] \in Nat
  BY <1>1, <1>3, ProcTypes DEF TypeOK
<1>6. /\ task' \in [Procs -> [Recorders -> Task]] /\ task'[p][r] = t
      /\ \A y \in Recorders : y # r => task'[p][y] = task[p][y]
      /\ \A x \in Procs : x # p => task'[x] = task[x]
  BY <1>1, <1>2, TaskMoves
<1>7. TypeOK'
  BY <1>1, <1>2, <1>3, <1>4, <1>5, <1>6 DEF TypeOK
<1>8. RowsOK'
  BY <1>3 DEF IInv, RowsOK, Held
<1>9. seq'[p] = seq[p] + 1 /\ \A x \in Procs : x # p => seq'[x] = seq[x]
  BY <1>1, <1>3 DEF TypeOK
<1>10. TasksOK(p)'
  <2>1. TasksOK(p)
    BY LockSplit DEF IInv
  <2> SUFFICES ASSUME NEW y \in Recorders
               PROVE  /\ task'[p][y].at # "idle" => up'[p] /\ task'[p][y].upto < seq'[p]
                      /\ Writing(p, y)' => lock'[p] = y /\ task'[p][y].from > high'[p]
    BY DEF TasksOK
  <2>2. CASE y = r
    BY <1>2, <1>3, <1>5, <1>6, <1>9, <2>2 DEF Writing
  <2>3. CASE y # r
    <3>1. task'[p][y] = task[p][y]
      BY <1>6, <2>3
    <3>2. task[p][y].at # "idle" => task[p][y].upto < seq[p] + 1
      <4>1. task[p][y].at # "idle" => task[p][y].upto \in Nat
        BY <1>1, ProcTypes, TaskKinds
      <4> QED
        BY <1>5, <2>1, <4>1 DEF TasksOK
    <3> QED
      BY <1>3, <1>9, <2>1, <3>1, <3>2 DEF TasksOK, Writing
  <2> QED
    BY <2>2, <2>3
<1>11. LockInv'
  BY <1>3, <1>6, <1>9, <1>10, TasksStay DEF IInv
<1> QED
  BY <1>7, <1>8, <1>11 DEF IInv

\* The writer of a process is alone.
LEMMA OneWriter ==
  ASSUME IInv, NEW p \in Procs, NEW r \in Recorders, Writing(p, r)
  PROVE  /\ TypeOK /\ TasksOK(p) /\ up[p] /\ lock[p] = r
         /\ task[p][r].from \in Nat \ {0} /\ task[p][r].from > high[p]
         /\ task[p][r].upto \in 1 .. MaxRecords /\ task[p][r].upto < seq[p]
         /\ high[p] \in Nat /\ seq[p] \in Nat /\ MaxRecords \in Nat
         /\ \A y \in Recorders : y # r => ~Writing(p, y)
<1>1. TypeOK /\ TasksOK(p)
  BY LockSplit DEF IInv
<1>2. task[p][r].at = "writing" /\ task[p][r] \in Task
  BY <1>1, ProcTypes DEF Writing
<1>3. task[p][r].from \in Nat \ {0} /\ task[p][r].upto \in 1 .. MaxRecords
  BY <1>2, TaskKinds
<1>4. up[p] /\ lock[p] = r /\ task[p][r].from > high[p] /\ task[p][r].upto < seq[p]
  BY <1>1, <1>2 DEF TasksOK, Writing
<1>5. \A y \in Recorders : y # r => ~Writing(p, y)
  BY <1>1, <1>4 DEF TasksOK
<1> QED
  BY <1>1, <1>3, <1>4, <1>5, ProcTypes

\* A task that ends gives up the lock.
LEMMA Leaves ==
  ASSUME IInv, NEW p \in Procs, NEW r \in Recorders, Writing(p, r), Leave(p, r),
         UNCHANGED <<up, seq, high>>
  PROVE  /\ task' \in [Procs -> [Recorders -> Task]]
         /\ lock' \in [Procs -> Recorders \cup {Nil}]
         /\ LockInv'
         /\ \A x \in Procs : \A y \in Recorders : Writing(x, y)' => Writing(x, y) /\ task'[x][y] = task[x][y]
<1>1. TypeOK
  BY DEF IInv
<1>2. Rest \in Task /\ Rest.at = "idle"
  BY DEF Task, Rest
<1>3. /\ task' \in [Procs -> [Recorders -> Task]] /\ task'[p][r] = Rest
      /\ \A y \in Recorders : y # r => task'[p][y] = task[p][y]
      /\ \A x \in Procs : x # p => task'[x] = task[x]
  BY <1>1, <1>2, TaskMoves DEF Leave
<1>4. lock' \in [Procs -> Recorders \cup {Nil}] /\ \A x \in Procs : x # p => lock'[x] = lock[x]
  BY <1>1 DEF Leave, TypeOK
<1>5. TasksOK(p)'
  BY <1>2, <1>3, OneWriter DEF TasksOK, Writing
<1>6. LockInv'
  BY <1>3, <1>4, <1>5, TasksStay DEF IInv
<1>7. \A x \in Procs : \A y \in Recorders : Writing(x, y)' => Writing(x, y) /\ task'[x][y] = task[x][y]
  BY <1>2, <1>3 DEF Writing
<1> QED
  BY <1>3, <1>4, <1>6, <1>7

\* What a write that is done, or not needed, does to the task.
StepsOn(p, r) == task' = [task EXCEPT ![p][r].from = @ + 1]

\* The writer goes on to the next number.
LEMMA GoesOn ==
  ASSUME IInv, NEW p \in Procs, NEW r \in Recorders, Writing(p, r),
         StepsOn(p, r),
         UNCHANGED <<up, seq, lock>>,
         high' \in [Procs -> 0 .. MaxRecords],
         \A x \in Procs : x # p => high'[x] = high[x],
         high'[p] <= task[p][r].from
  PROVE  /\ task' \in [Procs -> [Recorders -> Task]]
         /\ LockInv'
         /\ task'[p][r].from = task[p][r].from + 1
         /\ \A x \in Procs : \A y \in Recorders :
              Writing(x, y)' => Writing(x, y) /\ (<<x, y>> # <<p, r>> => task'[x][y] = task[x][y])
<1>1. TypeOK /\ MaxRecords \in Nat
  BY AuditAssumption DEF IInv
<1>2. PICK t \in Task :
           /\ t.at = "writing" /\ t.upto = task[p][r].upto /\ t.from = task[p][r].from + 1
           /\ task[p][r].from \in Nat \ {0}
           /\ [task EXCEPT ![p][r].from = @ + 1] = [task EXCEPT ![p][r] = t]
  BY <1>1, FromGrows
<1>3. /\ task' \in [Procs -> [Recorders -> Task]] /\ task'[p][r] = t
      /\ \A y \in Recorders : y # r => task'[p][y] = task[p][y]
      /\ \A x \in Procs : x # p => task'[x] = task[x]
  <2>1. task' = [task EXCEPT ![p][r] = t] /\ t \in Task
    BY <1>2 DEF StepsOn
  <2> QED
    BY <1>1, <2>1, TaskMoves
<1>4. high'[p] \in Nat
  BY <1>1
<1>5. t.from > high'[p]
  BY <1>2, <1>4
<1>6. TasksOK(p)'
  BY <1>2, <1>3, <1>5, OneWriter DEF TasksOK, Writing
<1>7. LockInv'
  BY <1>3, <1>6, TasksStay DEF IInv
<1>8. \A x \in Procs : \A y \in Recorders :
              Writing(x, y)' => Writing(x, y) /\ (<<x, y>> # <<p, r>> => task'[x][y] = task[x][y])
  BY <1>3 DEF Writing
<1> QED
  BY <1>2, <1>3, <1>7, <1>8

\* The lock is free: the first number to write is the one after the watermark.
LEMMA BeginStep ==
  ASSUME IInv, NEW p \in Procs, NEW r \in Recorders, BeginCatchUp(p, r)
  PROVE  /\ IInv' /\ up[p] /\ task'[p][r].from = high[p] + 1
         /\ \A x \in Procs : \A y \in Recorders : <<x, y>> # <<p, r>> => task'[x][y] = task[x][y]
<1>1. TypeOK /\ TasksOK(p)
  BY LockSplit DEF IInv
<1> DEFINE t == [at |-> "writing", upto |-> task[p][r].upto, from |-> high[p] + 1]
<1>2. /\ task[p][r].at = "queued" /\ lock[p] = Nil /\ lock' = [lock EXCEPT ![p] = r]
      /\ task' = [task EXCEPT ![p][r] = t]
      /\ UNCHANGED <<up, ring, seq, high, file, table, made, faults, unread, overrun>>
  BY DEF BeginCatchUp, FirstMissing
<1>3. task[p][r].upto \in 1 .. MaxRecords /\ high[p] \in Nat
  BY <1>1, <1>2, ProcTypes, TaskKinds
<1>4. t \in Task /\ t.at = "writing" /\ t.upto = task[p][r].upto /\ t.from = high[p] + 1
  BY <1>3 DEF Task
<1> HIDE DEF t
<1>5. /\ task' \in [Procs -> [Recorders -> Task]] /\ task'[p][r] = t
      /\ \A y \in Recorders : y # r => task'[p][y] = task[p][y]
      /\ \A x \in Procs : x # p => task'[x] = task[x]
  BY <1>1, <1>2, <1>4, TaskMoves
<1>6. lock' \in [Procs -> Recorders \cup {Nil}] /\ lock'[p] = r /\ \A x \in Procs : x # p => lock'[x] = lock[x]
  BY <1>1, <1>2 DEF TypeOK
<1>7. TypeOK'
  BY <1>1, <1>2, <1>5, <1>6 DEF TypeOK
<1>8. RowsOK'
  BY <1>2 DEF IInv, RowsOK, Held
<1>9. \A y \in Recorders : ~Writing(p, y) /\ y # Nil
  BY <1>1, <1>2, AuditAssumption DEF TasksOK
<1>10. up[p] /\ task[p][r].upto < seq[p] /\ t.from > high[p]
  BY <1>1, <1>2, <1>3, <1>4 DEF TasksOK
<1>11. TasksOK(p)'
  BY <1>1, <1>2, <1>4, <1>5, <1>6, <1>9, <1>10 DEF TasksOK, Writing
<1>12. LockInv'
  BY <1>2, <1>5, <1>6, <1>11, TasksStay DEF IInv
<1> QED
  BY <1>4, <1>5, <1>7, <1>8, <1>10, <1>12 DEF IInv

\* The writer is done.
LEMMA EndStep ==
  ASSUME IInv, NEW p \in Procs, NEW r \in Recorders, EndCatchUp(p, r)
  PROVE  IInv'
<1>1. Writing(p, r) /\ Leave(p, r) /\ UNCHANGED <<up, ring, seq, high, file, table, made, faults, unread, overrun>>
  BY DEF EndCatchUp
<1>2. task' \in [Procs -> [Recorders -> Task]] /\ lock' \in [Procs -> Recorders \cup {Nil}] /\ LockInv'
  BY <1>1, Leaves
<1>3. TypeOK'
  BY <1>1, <1>2 DEF IInv, TypeOK
<1>4. RowsOK'
  BY <1>1 DEF IInv, RowsOK, Held
<1> QED
  BY <1>2, <1>3, <1>4 DEF IInv

\* An entry that has left the ring is passed over.
LEMMA SkipStep ==
  ASSUME IInv, NEW p \in Procs, NEW r \in Recorders, SkipPruned(p, r)
  PROVE  IInv'
<1>1. /\ Writing(p, r) /\ task' = [task EXCEPT ![p][r].from = @ + 1]
      /\ UNCHANGED <<up, ring, seq, high, lock, file, table, made, faults, unread, overrun>>
  BY DEF SkipPruned
<1>2. high[p] <= task[p][r].from
  BY <1>1, OneWriter
<1>3. task' \in [Procs -> [Recorders -> Task]] /\ LockInv'
  BY <1>1, <1>2, GoesOn DEF IInv, TypeOK, StepsOn
<1>4. TypeOK'
  BY <1>1, <1>3 DEF IInv, TypeOK
<1>5. RowsOK'
  BY <1>1 DEF IInv, RowsOK, Held
<1> QED
  BY <1>3, <1>4, <1>5 DEF IInv

\* What an append leaves in the store.
LEMMA Appends ==
  ASSUME IInv, NEW p \in Procs, NEW s, InRing(p, s) # {}, table' = Written(p, s)
  PROVE  /\ table' \in [1 .. MaxRecords -> Entry \cup {Nil}] /\ RowsOK'
         /\ s \in 1 .. MaxRecords
         /\ \E i \in DOMAIN ring[p] : ring[p][i].seq = s /\ table'[s] = ring[p][i] /\ ring[p][i] # Nil
         /\ \A x \in 1 .. MaxRecords : x # s => table'[x] = table[x]
<1>1. TypeOK /\ RowsOK
  BY DEF IInv
<1>2. PICK i \in DOMAIN ring[p] :
           /\ ring[p][i].seq = s /\ ring[p][i] \in Entry /\ s \in 1 .. MaxRecords
           /\ Written(p, s) = [table EXCEPT ![s] = ring[p][i]]
  BY <1>1, WrittenOK
<1>3. ring[p][i] # Nil
  <2>1. Entry \in SUBSET [seq : Nat, hash : Nat, prev : Nat]
    BY AuditAssumption DEF Entry
  <2> QED
    BY <1>2, <2>1, AuditAssumption
<1>4. /\ table' \in [1 .. MaxRecords -> Entry \cup {Nil}] /\ table'[s] = ring[p][i]
      /\ \A x \in 1 .. MaxRecords : x # s => table'[x] = table[x]
  BY <1>1, <1>2 DEF TypeOK
<1>5. RowsOK'
  BY <1>1, <1>2, <1>4 DEF RowsOK, Held
<1> QED
  BY <1>2, <1>3, <1>4, <1>5

\* An append that succeeds raises the watermark.
LEMMA AppendStep ==
  ASSUME IInv, NEW p \in Procs, NEW r \in Recorders, AppendAudit(p, r)
  PROVE  /\ IInv' /\ high' = [high EXCEPT ![p] = task[p][r].from]
         /\ table' = Written(p, task[p][r].from)
<1> DEFINE s == task[p][r].from
<1>1. /\ Writing(p, r) /\ InRing(p, s) # {} /\ table' = Written(p, s)
      /\ high' = [high EXCEPT ![p] = IF s > high[p] THEN s ELSE high[p]]
      /\ task' = [task EXCEPT ![p][r].from = @ + 1]
      /\ UNCHANGED <<up, ring, seq, lock, file, made, faults, unread, overrun>>
  BY DEF AppendAudit
<1>2. TypeOK /\ s \in Nat \ {0} /\ s > high[p]
  BY <1>1, OneWriter
<1> HIDE DEF s
<1>3. high' = [high EXCEPT ![p] = s]
  BY <1>1, <1>2
<1>4. table' \in [1 .. MaxRecords -> Entry \cup {Nil}] /\ RowsOK' /\ s \in 1 .. MaxRecords
  BY <1>1, Appends
<1>5. s \in 0 .. MaxRecords /\ s <= s
  BY <1>2, <1>4, AuditAssumption
<1>6. high' \in [Procs -> 0 .. MaxRecords] /\ high'[p] = s /\ \A x \in Procs : x # p => high'[x] = high[x]
  BY <1>2, <1>3, <1>5 DEF TypeOK
<1>7. task' \in [Procs -> [Recorders -> Task]] /\ LockInv'
  BY <1>1, <1>5, <1>6, GoesOn DEF s, StepsOn
<1>8. TypeOK'
  BY <1>1, <1>2, <1>4, <1>6, <1>7 DEF TypeOK
<1> QED
  BY <1>1, <1>3, <1>4, <1>7, <1>8 DEF IInv, s

\* An append that fails, or whose answer is lost.
LEMMA FailStep ==
  ASSUME IInv, NEW p \in Procs, NEW r \in Recorders, AppendFails(p, r)
  PROVE  IInv'
<1> DEFINE s == task[p][r].from
<1>1. /\ Writing(p, r) /\ InRing(p, s) # {} /\ table' \in {table, Written(p, s)}
      /\ faults' = faults + 1 /\ Leave(p, r)
      /\ UNCHANGED <<up, ring, seq, high, file, made, unread, overrun>>
  BY DEF AppendFails
<1> HIDE DEF s
<1>2. task' \in [Procs -> [Recorders -> Task]] /\ lock' \in [Procs -> Recorders \cup {Nil}] /\ LockInv'
  BY <1>1, Leaves
<1>3. table' \in [1 .. MaxRecords -> Entry \cup {Nil}] /\ RowsOK'
  <2>1. CASE table' = table
    BY <2>1 DEF IInv, TypeOK, RowsOK, Held
  <2>2. CASE table' = Written(p, s)
    BY <1>1, <2>2, Appends
  <2> QED
    BY <1>1, <2>1, <2>2
<1>4. faults' \in Nat
  BY <1>1 DEF IInv, TypeOK
<1>5. TypeOK'
  BY <1>1, <1>2, <1>3, <1>4 DEF IInv, TypeOK
<1> QED
  BY <1>2, <1>3, <1>5 DEF IInv

\* Types, rows and the lock are kept by every step.
LEMMA InvStep == IInv /\ [Next]_vars => IInv'
<1>1. ASSUME IInv, UNCHANGED vars PROVE IInv'
  BY <1>1 DEF IInv, TypeOK, RowsOK, Held, LockInv, Writing, vars, memory
<1> QED
  BY <1>1, StartStep, SnapshotStep, CrashStep, RecordStep, BeginStep, EndStep, SkipStep,
     AppendStep, FailStep DEF Next

\* They hold at first.
LEMMA InvInit == Init => IInv
<1> SUFFICES ASSUME Init PROVE IInv
  OBVIOUS
<1>1. Rest \in Task /\ Rest.at = "idle" /\ <<>> \in Seq(Entry) /\ 0 \in 0 .. MaxRecords
  BY AuditAssumption DEF Task, Rest
<1>2. TypeOK
  <2>1. [r \in Recorders |-> Rest] \in [Recorders -> Task]
    BY <1>1
  <2>2. task \in [Procs -> [Recorders -> Task]]
    BY <2>1 DEF Init
  <2>3. ring \in [Procs -> Seq(Entry)] /\ file \in [Procs -> Seq(Entry)]
    BY <1>1 DEF Init
  <2>4. /\ up \in [Procs -> BOOLEAN] /\ seq \in [Procs -> Nat \ {0}] /\ high \in [Procs -> 0 .. MaxRecords]
        /\ lock \in [Procs -> Recorders \cup {Nil}]
        /\ table \in [1 .. MaxRecords -> Entry \cup {Nil}]
    BY <1>1 DEF Init
  <2> QED
    BY <2>2, <2>3, <2>4 DEF Init, TypeOK
<1>3. RowsOK /\ LockInv
  BY <1>1 DEF Init, RowsOK, Held, LockInv, Writing
<1> QED
  BY <1>2, <1>3 DEF IInv

(***************************************************************************)
(* The audit log is well formed in every state of every fleet: rows are    *)
(* filed under their numbers, at most one recorder of a process writes, it *)
(* holds the lock, and it writes past the watermark (audit.rs record_by,   *)
(* durable_write_through, restore_from_store).                             *)
(***************************************************************************)
THEOREM TypeCorrect == Spec => []IInv
BY InvInit, InvStep, PTL DEF Spec

(***************************************************************************)
(* One process: its numbers only grow                                      *)
(***************************************************************************)
\* The log has one writer: no other process shares the store.
Solo == \A p, x \in Procs : p = x

\* The ring and the file are in order; a process that runs gives out numbers
\* that no record has, and what it has not written through is in the store as
\* it is in the ring or not at all.
Ordered(p) ==
  /\ Increasing(ring[p]) /\ Increasing(file[p])
  /\ up[p] => /\ high[p] < seq[p]
              /\ \A i \in DOMAIN ring[p] : ring[p][i].seq < seq[p]
              /\ \A s \in 1 .. MaxRecords : Held(s) => s < seq[p]
              /\ \A i \in DOMAIN ring[p] :
                   ring[p][i].seq > high[p] => table[ring[p][i].seq] \in {Nil, ring[p][i]}

OrderInv == unread = 0 => \A p \in Procs : Ordered(p)

\* The numbers of a list of entries.
LEMMA EntryNumbers ==
  ASSUME NEW q \in Seq(Entry)
  PROVE  /\ \A i \in DOMAIN q : q[i] \in Entry /\ q[i].seq \in 1 .. MaxRecords /\ q[i].seq \in Nat
         /\ DOMAIN q = 1 .. Len(q) /\ Len(q) \in Nat
         /\ q # <<>> => 1 \in DOMAIN q /\ Len(q) \in DOMAIN q
<1>1. \A i \in DOMAIN q : q[i] \in Entry
  OBVIOUS
<1>2. \A i \in DOMAIN q : q[i].seq \in 1 .. MaxRecords /\ q[i].seq \in Nat
  BY <1>1, AuditAssumption DEF Entry
<1> QED
  BY <1>1, <1>2

\* In a list in order a number belongs to one entry.
LEMMA OneOfNumber ==
  ASSUME NEW q \in Seq(Entry), Increasing(q), NEW i \in DOMAIN q, NEW j \in DOMAIN q,
         q[i].seq = q[j].seq
  PROVE  i = j
<1>1. i \in Nat /\ j \in Nat /\ q[i].seq \in Nat
  BY EntryNumbers
<1>2. ~(i < j) /\ ~(j < i)
  BY <1>1 DEF Increasing
<1> QED
  BY <1>1, <1>2

\* What is written goes where nothing, or the same record, is.
LEMMA WritesFresh ==
  ASSUME IInv, NEW p \in Procs, NEW r \in Recorders, Writing(p, r), Ordered(p),
         InRing(p, task[p][r].from) # {}, table' = Written(p, task[p][r].from)
  PROVE  /\ \A s \in 1 .. MaxRecords : Held(s) => table'[s] = table[s]
         /\ \A s \in 1 .. MaxRecords : Held(s)' => s = task[p][r].from \/ Held(s)
         /\ \A i \in DOMAIN ring[p] :
              ring[p][i].seq = task[p][r].from => table'[ring[p][i].seq] = ring[p][i]
         /\ \A s \in 1 .. MaxRecords : s # task[p][r].from => table'[s] = table[s]
         /\ task[p][r].from \in 1 .. MaxRecords
<1> DEFINE f == task[p][r].from
<1>1. f > high[p] /\ up[p] /\ ring[p] \in Seq(Entry)
  BY OneWriter, ProcTypes
<1>2. f \in 1 .. MaxRecords /\ \A x \in 1 .. MaxRecords : x # f => table'[x] = table[x]
  BY Appends
<1>3. PICK i \in DOMAIN ring[p] : ring[p][i].seq = f /\ table'[f] = ring[p][i] /\ ring[p][i] # Nil
  BY Appends
<1> HIDE DEF f
<1>4. table[f] \in {Nil, ring[p][i]}
  BY <1>1, <1>3 DEF Ordered
<1>5. \A j \in DOMAIN ring[p] : ring[p][j].seq = f => j = i
  BY <1>1, <1>3, OneOfNumber DEF Ordered
<1>6. \A s \in 1 .. MaxRecords : Held(s) => table'[s] = table[s]
  BY <1>2, <1>3, <1>4 DEF Held
<1>7. \A s \in 1 .. MaxRecords : Held(s)' => s = f \/ Held(s)
  BY <1>2 DEF Held
<1>8. \A j \in DOMAIN ring[p] : ring[p][j].seq = f => table'[ring[p][j].seq] = ring[p][j]
  BY <1>3, <1>5
<1> QED
  BY <1>2, <1>6, <1>7, <1>8 DEF f

\* A write keeps the order.
LEMMA WriteOrder ==
  ASSUME IInv, NEW p \in Procs, NEW r \in Recorders, Writing(p, r), Ordered(p),
         InRing(p, task[p][r].from) # {}, task[p][r].from <= task[p][r].upto,
         table' = Written(p, task[p][r].from),
         high'[p] \in {high[p], task[p][r].from},
         UNCHANGED <<up, ring, seq, file>>
  PROVE  Ordered(p)'
<1> DEFINE f == task[p][r].from
           n == seq[p]
<1>1. /\ f \in Nat \ {0} /\ f > high[p] /\ up[p] /\ high[p] \in Nat /\ n \in Nat /\ f < n
  BY OneWriter
<1>2. ring[p] \in Seq(Entry)
  BY OneWriter, ProcTypes
<1>3. /\ \A s \in 1 .. MaxRecords : Held(s)' => s = f \/ Held(s)
      /\ \A i \in DOMAIN ring[p] : ring[p][i].seq = f => table'[ring[p][i].seq] = ring[p][i]
      /\ \A s \in 1 .. MaxRecords : s # f => table'[s] = table[s]
  BY WritesFresh
<1> HIDE DEF f, n
<1>4. Increasing(ring[p])' /\ Increasing(file[p])'
  BY DEF Ordered, Increasing
<1>5. high'[p] < n /\ high'[p] \in Nat /\ high'[p] >= high[p]
  BY <1>1 DEF Ordered, n, f
<1>6. \A i \in DOMAIN ring[p] : ring[p][i].seq < n
  BY <1>1 DEF Ordered, n
<1>7. \A s \in 1 .. MaxRecords : Held(s)' => s < n
  BY <1>1, <1>3 DEF Ordered, n
<1>8. \A i \in DOMAIN ring[p] :
        ring[p][i].seq > high'[p] => table'[ring[p][i].seq] \in {Nil, ring[p][i]}
  <2> SUFFICES ASSUME NEW i \in DOMAIN ring[p], ring[p][i].seq > high'[p]
               PROVE  table'[ring[p][i].seq] \in {Nil, ring[p][i]}
    OBVIOUS
  <2>1. ring[p][i].seq \in 1 .. MaxRecords /\ ring[p][i].seq \in Nat
    BY <1>2, EntryNumbers
  <2>2. CASE ring[p][i].seq = f
    BY <1>3, <2>2
  <2>3. CASE ring[p][i].seq # f
    <3>1. ring[p][i].seq > high[p]
      BY <1>1, <1>5, <2>1
    <3> QED
      BY <1>1, <1>3, <2>1, <2>3, <3>1 DEF Ordered
  <2> QED
    BY <2>2, <2>3
<1> QED
  BY <1>1, <1>4, <1>5, <1>6, <1>7, <1>8 DEF Ordered, n

\* A record keeps the order.
LEMMA RecordOrder ==
  ASSUME IInv, NEW p \in Procs, NEW r \in Recorders, record_by(p, r), Ordered(p)
  PROVE  Ordered(p)'
<1> DEFINE q == ring[p]
           n == seq[p]
<1>1. TypeOK
  BY DEF IInv
<1>2. /\ up[p] /\ seq' = [seq EXCEPT ![p] = seq[p] + 1] /\ seq[p] <= MaxRecords
      /\ UNCHANGED <<up, high, lock, file, table, faults, unread>>
  BY DEF record_by
<1>3. PICK e \in Entry, t \in Task, x \in Seq(Entry) :
           e.seq = seq[p] /\ IsPush(ring[p], e, x) /\ ring' = [ring EXCEPT ![p] = x]
  BY <1>1, Records
<1>4. ring'[p] = x /\ seq'[p] = n + 1 /\ q \in Seq(Entry) /\ n \in Nat \ {0} /\ high[p] \in Nat
  BY <1>1, <1>2, <1>3, ProcTypes DEF TypeOK
<1>5. x # <<>> /\ x[Len(x)] = e
  BY <1>3, <1>4 DEF IsPush
<1> DEFINE m == Len(q)
           l == Len(x)
<1>a. PICK d \in {0, 1} :
        l + d = m + 1 /\ \A i \in 1 .. l - 1 : i + d \in 1 .. m /\ x[i] = q[i + d]
  BY <1>3, <1>4 DEF IsPush
<1>6. /\ Increasing(q) /\ high[p] < n
      /\ \A i \in DOMAIN q : q[i].seq < n
      /\ \A s \in 1 .. MaxRecords : Held(s) => s < n
      /\ \A i \in DOMAIN q : q[i].seq > high[p] => table[q[i].seq] \in {Nil, q[i]}
  BY <1>2 DEF Ordered
<1> HIDE DEF q, n
<1>7. DOMAIN q = 1 .. m /\ DOMAIN x = 1 .. l /\ m \in Nat /\ l \in Nat /\ d \in Nat
  BY <1>3, <1>4, <1>a
<1> HIDE DEF m, l
<1>8. \A i \in DOMAIN q : q[i].seq \in Nat /\ q[i].seq \in 1 .. MaxRecords
  BY <1>4, EntryNumbers
<1>9. \A i \in DOMAIN x : i = l \/ (i \in 1 .. l - 1 /\ i + d \in DOMAIN q /\ x[i] = q[i + d])
  <2>1. \A i \in DOMAIN x : i = l \/ i \in 1 .. l - 1
    BY <1>7
  <2> QED
    BY <1>7, <1>a, <2>1
<1>10. Increasing(x)
  <2> SUFFICES ASSUME NEW i \in DOMAIN x, NEW j \in DOMAIN x, i < j PROVE x[i].seq < x[j].seq
    BY DEF Increasing
  <2>1. i \in Nat /\ j \in Nat /\ i # l
    BY <1>7
  <2>2. i + d \in DOMAIN q /\ x[i] = q[i + d]
    BY <1>9, <2>1
  <2>3. CASE j = l
    BY <1>3, <1>5, <1>6, <2>2, <2>3 DEF n, l
  <2>4. CASE j # l
    <3>1. j + d \in DOMAIN q /\ x[j] = q[j + d] /\ i + d < j + d
      BY <1>7, <1>9, <2>1, <2>4
    <3> QED
      BY <1>6, <2>2, <3>1 DEF Increasing
  <2> QED
    BY <2>3, <2>4
<1>11. \A i \in DOMAIN x : x[i].seq < n + 1
  BY <1>3, <1>4, <1>5, <1>6, <1>8, <1>9 DEF n, l
<1>12. high[p] < n + 1 /\ \A s \in 1 .. MaxRecords : Held(s) => s < n + 1
  BY <1>4, <1>6
<1>13. n \in 1 .. MaxRecords /\ ~Held(n)
  BY <1>2, <1>4, <1>6 DEF n
<1>14. \A i \in DOMAIN x : x[i].seq > high[p] => table[x[i].seq] \in {Nil, x[i]}
  BY <1>3, <1>5, <1>6, <1>9, <1>13 DEF Held, n, l
<1>15. Increasing(file[p])
  BY DEF Ordered
<1>16. up'[p] = up[p] /\ high'[p] = high[p] /\ file'[p] = file[p] /\ table' = table
  BY <1>2
<1>17. Increasing(ring[p])' /\ Increasing(file[p])'
  BY <1>4, <1>10, <1>15, <1>16 DEF Increasing
<1>18. \A s \in 1 .. MaxRecords : Held(s)' => s < n + 1
  BY <1>12, <1>16 DEF Held
<1> QED
  BY <1>4, <1>11, <1>12, <1>14, <1>16, <1>17, <1>18 DEF Ordered

\* A start that could read the store gives out numbers that no record has.
LEMMA StartOrder ==
  ASSUME IInv, NEW p \in Procs, Start(p), unread' = 0, Ordered(p)
  PROVE  Ordered(p)'
<1>1. TypeOK /\ RowsOK /\ MaxRecords \in Nat
  BY AuditAssumption DEF IInv
<1>2. PICK q \in Seq(Entry), n \in Nat \ {0}, h \in 0 .. MaxRecords : Begins(p, q, n, h)
  BY <1>1, StartOK
<1>3. UNCHANGED <<file, table>>
  BY DEF Start
<1>4. /\ ring'[p] = q /\ seq'[p] = n /\ high'[p] = h /\ \A i \in DOMAIN q : q[i].seq < n
      /\ Restored(p, q, n, h)
  BY <1>1, <1>2 DEF Begins, TypeOK
<1>5. h \in Nat /\ n \in Nat /\ h < n /\ \A s \in HeldSet : s <= h
  BY <1>1, <1>4 DEF Restored
<1>6. Increasing(q) /\ Increasing(file[p])
  <2>1. Increasing(list_audit_tail)
    BY <1>1, TailOK
  <2>2. Increasing(file[p]) /\ Increasing(<<>>)
    BY DEF Ordered, Increasing
  <2> QED
    BY <1>4, <2>1, <2>2 DEF Restored
<1>7. \A s \in 1 .. MaxRecords : Held(s) => s <= h /\ s < n
  <2>1. \A s \in 1 .. MaxRecords : Held(s) => s \in HeldSet
    BY <1>1 DEF Held, HeldSet, TypeOK
  <2> QED
    BY <1>5, <2>1
<1>8. \A i \in DOMAIN q : q[i].seq > h => table[q[i].seq] = Nil
  <2>1. \A i \in DOMAIN q : q[i].seq \in 1 .. MaxRecords
    BY EntryNumbers
  <2> QED
    BY <1>5, <1>7, <2>1 DEF Held
<1>9. Increasing(ring[p])' /\ Increasing(file[p])'
  BY <1>3, <1>4, <1>6 DEF Increasing
<1>10. \A s \in 1 .. MaxRecords : Held(s)' => s < n
  BY <1>3, <1>7 DEF Held
<1> QED
  BY <1>3, <1>4, <1>5, <1>8, <1>9, <1>10 DEF Ordered

\* One step of a process.
Step(p) ==
  \/ Start(p) \/ Snapshot(p) \/ Crash(p)
  \/ \E r \in Recorders :
       \/ record_by(p, r) \/ BeginCatchUp(p, r) \/ EndCatchUp(p, r)
       \/ SkipPruned(p, r) \/ AppendAudit(p, r) \/ AppendFails(p, r)

\* The unread starts are only ever counted up.
LEMMA UnreadGrows ==
  ASSUME IInv, [Next]_vars, unread' = 0
  PROVE  unread = 0
<1>1. unread \in Nat
  BY DEF IInv, TypeOK
<1>2. unread' \in {unread, unread + 1}
  <2>1. ASSUME NEW p \in Procs, Start(p) \/ Snapshot(p) \/ Crash(p) PROVE unread' \in {unread, unread + 1}
    BY <2>1 DEF Start, Snapshot, Crash
  <2>2. ASSUME NEW p \in Procs, NEW r \in Recorders,
               record_by(p, r) \/ BeginCatchUp(p, r) \/ EndCatchUp(p, r)
        PROVE  unread' = unread
    BY <2>2 DEF record_by, BeginCatchUp, EndCatchUp
  <2>3. ASSUME NEW p \in Procs, NEW r \in Recorders,
               SkipPruned(p, r) \/ AppendAudit(p, r) \/ AppendFails(p, r)
        PROVE  unread' = unread
    BY <2>3 DEF SkipPruned, AppendAudit, AppendFails
  <2>4. CASE UNCHANGED vars
    BY <2>4 DEF vars
  <2> QED
    BY <2>1, <2>2, <2>3, <2>4 DEF Next
<1> QED
  BY <1>1, <1>2

\* Steps of one process keep the order of its numbers.
LEMMA OrderStep ==
  ASSUME IInv, NEW p \in Procs, Ordered(p), unread' = 0,
         Step(p)
  PROVE  Ordered(p)'
<1>1. TypeOK
  BY DEF IInv
<1>2. ASSUME UNCHANGED <<up, ring, seq, high, file, table>> PROVE Ordered(p)'
  BY <1>2 DEF Ordered, Increasing, Held
<1>3. CASE Snapshot(p)
  <2>1. file'[p] = ring[p] /\ UNCHANGED <<up, ring, seq, high, table>>
    BY <1>1, <1>3 DEF Snapshot, memory, TypeOK
  <2> QED
    BY <2>1 DEF Ordered, Increasing, Held
<1>4. CASE Crash(p)
  <2>1. file'[p] = file[p] /\ ring'[p] = <<>> /\ ~up'[p]
    BY <1>1, <1>4 DEF Crash, TypeOK
  <2> QED
    BY <2>1 DEF Ordered, Increasing
<1>5. ASSUME NEW r \in Recorders, BeginCatchUp(p, r) \/ EndCatchUp(p, r) \/ SkipPruned(p, r)
      PROVE  Ordered(p)'
  BY <1>2, <1>5 DEF BeginCatchUp, EndCatchUp, SkipPruned
<1>6. ASSUME NEW r \in Recorders, AppendAudit(p, r) PROVE Ordered(p)'
  <2>1. /\ Writing(p, r) /\ InRing(p, task[p][r].from) # {} /\ task[p][r].from <= task[p][r].upto
        /\ UNCHANGED <<up, ring, seq, file>>
    BY <1>6 DEF AppendAudit
  <2>2. table' = Written(p, task[p][r].from) /\ high'[p] = task[p][r].from
    BY <1>1, <1>6, AppendStep DEF TypeOK
  <2> QED
    BY <2>1, <2>2, WriteOrder
<1>7. ASSUME NEW r \in Recorders, AppendFails(p, r) PROVE Ordered(p)'
  <2>1. /\ Writing(p, r) /\ InRing(p, task[p][r].from) # {} /\ task[p][r].from <= task[p][r].upto
        /\ UNCHANGED <<up, ring, seq, high, file>>
        /\ table' \in {table, Written(p, task[p][r].from)}
    BY <1>7 DEF AppendFails
  <2>2. CASE table' = table
    BY <1>2, <2>1, <2>2
  <2>3. CASE table' = Written(p, task[p][r].from)
    BY <2>1, <2>3, WriteOrder
  <2> QED
    BY <2>1, <2>2, <2>3
<1> QED
  BY <1>3, <1>4, <1>5, <1>6, <1>7, StartOrder, RecordOrder DEF Step

\* A step that leaves the store's log alone, or writes in order, rewrites nothing.
LEMMA NothingRewritten ==
  ASSUME IInv, NEW p \in Procs, Ordered(p),
         Step(p)
  PROVE  \A s \in 1 .. MaxRecords : Held(s) => table'[s] = table[s]
<1>1. ASSUME NEW r \in Recorders, AppendAudit(p, r) \/ AppendFails(p, r)
      PROVE  \A s \in 1 .. MaxRecords : Held(s) => table'[s] = table[s]
  <2>1. /\ Writing(p, r) /\ InRing(p, task[p][r].from) # {}
        /\ table' \in {table, Written(p, task[p][r].from)}
    BY <1>1 DEF AppendAudit, AppendFails
  <2>2. CASE table' = table
    BY <2>2
  <2>3. CASE table' = Written(p, task[p][r].from)
    BY <2>1, <2>3, WritesFresh
  <2> QED
    BY <2>1, <2>2, <2>3
<1>2. ASSUME \/ Start(p) \/ Snapshot(p) \/ Crash(p)
             \/ \E r \in Recorders :
                  record_by(p, r) \/ BeginCatchUp(p, r) \/ EndCatchUp(p, r) \/ SkipPruned(p, r)
      PROVE  table' = table
  BY <1>2 DEF Start, Snapshot, Crash, record_by, BeginCatchUp, EndCatchUp, SkipPruned
<1> QED
  BY <1>1, <1>2 DEF Step

(***************************************************************************)
(* One process: the log of the store is one chain                          *)
(***************************************************************************)
Consecutive(q) ==
  \A i \in DOMAIN q : /\ q[i].seq + Len(q) = q[Len(q)].seq + i
                      /\ i > 1 => q[i].prev = q[i - 1].hash

\* The record before the first of the list is in the store.
Anchored(q) == q # <<>> /\ q[1].seq > 1 => Held(q[1].seq - 1)

NoHoles == \A s, t \in 1 .. MaxRecords : s <= t /\ Held(t) => Held(s)

Linkage ==
  \A s \in 2 .. MaxRecords : Held(s) => Held(s - 1) /\ table[s].prev = table[s - 1].hash

\* The ring goes on from the store's log and agrees with it.
RingChain(p) ==
  /\ ring[p] = <<>> => seq[p] = 1
  /\ ring[p] # <<>> => ring[p][Len(ring[p])].seq + 1 = seq[p]
  /\ Consecutive(ring[p]) /\ Anchored(ring[p])
  /\ ring[p] # <<>> /\ ring[p][1].seq > 1 => ring[p][1].prev = table[ring[p][1].seq - 1].hash
  /\ \A i \in DOMAIN ring[p] : table[ring[p][i].seq] \in {Nil, ring[p][i]}

\* The record at the watermark, and the one before the next to be written, are
\* in the store.
MarkChain(p) ==
  /\ high[p] > 0 => Held(high[p])
  /\ \A r \in Recorders : Writing(p, r) /\ task[p][r].from > 1 => Held(task[p][r].from - 1)

FileChain(p) == Consecutive(file[p]) /\ Anchored(file[p])

ChainInv ==
  ~overrun /\ unread = 0 =>
    /\ NoHoles /\ Linkage
    /\ \A p \in Procs : FileChain(p) /\ (up[p] => RingChain(p) /\ MarkChain(p))

\* The numbers of a ring that goes on from the store's log.
LEMMA RingCovers ==
  ASSUME NEW q \in Seq(Entry), q # <<>>, Consecutive(q), NEW f \in Nat,
         q[1].seq <= f, f <= q[Len(q)].seq
  PROVE  \E i \in DOMAIN q : q[i].seq = f
<1> DEFINE m == Len(q)
           a == q[1].seq
           b == q[Len(q)].seq
           i == f - a + 1
<1>1. m \in Nat /\ a \in Nat /\ b \in Nat /\ DOMAIN q = 1 .. m /\ 1 \in DOMAIN q
  BY EntryNumbers
<1>2. a + m = b + 1
  BY <1>1 DEF Consecutive
<1>3. \A j \in DOMAIN q : q[j].seq + m = b + j /\ q[j].seq \in Nat
  BY EntryNumbers DEF Consecutive
<1>4. a <= f /\ f <= b
  OBVIOUS
<1> HIDE DEF m, a, b
<1>5. i \in DOMAIN q
  BY <1>1, <1>2, <1>4
<1>6. q[i].seq + m = b + i /\ q[i].seq \in Nat
  BY <1>3, <1>5
<1>7. q[i].seq = f
  <2> DEFINE z == q[i].seq
  <2>1. z + m = b + (f - a + 1) /\ z \in Nat
    BY <1>6
  <2> HIDE DEF z
  <2>2. z = f
    BY <1>1, <1>2, <2>1
  <2> QED
    BY <2>2 DEF z
<1> QED
  BY <1>5, <1>7

\* An entry that has left the ring is in the store.
LEMMA PrunedIsHeld ==
  ASSUME TypeOK, NEW p \in Procs, NoHoles, RingChain(p), NEW f \in Nat \ {0}, f < seq[p],
         InRing(p, f) = {}, f \in 1 .. MaxRecords
  PROVE  Held(f)
<1> DEFINE q == ring[p]
           a == ring[p][1].seq
<1>1. q \in Seq(Entry) /\ seq[p] \in Nat
  BY ProcTypes
<1>2. q # <<>>
  BY <1>1 DEF RingChain
<1>3. q[Len(q)].seq + 1 = seq[p] /\ Consecutive(q) /\ Anchored(q)
  BY <1>2 DEF RingChain
<1>4. a \in 1 .. MaxRecords /\ a \in Nat /\ q[Len(q)].seq \in Nat
  BY <1>1, <1>2, EntryNumbers
<1>5. f <= q[Len(q)].seq
  BY <1>1, <1>3, <1>4
<1>6. ~(a <= f)
  <2>1. ~ \E i \in DOMAIN q : q[i].seq = f
    BY DEF InRing
  <2> QED
    BY <1>1, <1>2, <1>3, <1>5, <2>1, RingCovers
<1>7. Held(a - 1)
  <2>1. a > 1
    BY <1>4, <1>6
  <2> QED
    BY <1>2, <1>3, <2>1 DEF Anchored
<1> HIDE DEF a
<1>8. f <= a - 1 /\ a - 1 \in 1 .. MaxRecords
  BY <1>4, <1>6, AuditAssumption
<1> QED
  BY <1>7, <1>8 DEF NoHoles

\* The tail of a chain without a hole is accepted at the next start.
LEMMA TailChain ==
  ASSUME TypeOK, RowsOK, NoHoles, Linkage, HeldSet # {}, NEW q, q = list_audit_tail
  PROVE  /\ q \in Seq(Entry) /\ q # <<>> /\ Linked(q) /\ Consecutive(q) /\ Anchored(q)
         /\ q[1].seq > 1 => q[1].prev = table[q[1].seq - 1].hash
         /\ \A i \in DOMAIN q : table[q[i].seq] = q[i]
         /\ q[Len(q)].seq \in HeldSet /\ \A s \in HeldSet : s <= q[Len(q)].seq
<1>1. q \in Seq(Entry) /\ \A i \in DOMAIN q : Held(q[i].seq) /\ table[q[i].seq] = q[i]
  BY TailOK
<1>2. /\ q # <<>> /\ q[Len(q)].seq \in HeldSet /\ \A s \in HeldSet : s <= q[Len(q)].seq
  <2> DEFINE h == MaxOr0(Numbers(q))
  <2>1. /\ h > 0 => h \in HeldSet
        /\ \A s \in HeldSet : s <= h
        /\ q = <<>> => h = 0 /\ HeldSet = {}
        /\ q # <<>> => h > 0 /\ h = q[Len(q)].seq
    BY NewestOK
  <2> HIDE DEF h
  <2> QED
    BY <2>1
<1>3. PICK lo \in 1 .. MaxRecords : \A i \in DOMAIN q : q[i] = table[lo + i - 1] /\ q[i].seq = lo + i - 1
  BY <1>2, TailInterval DEF NoHoles
<1> DEFINE m == Len(q)
<1>4. m \in Nat /\ DOMAIN q = 1 .. m /\ 1 \in DOMAIN q /\ m \in DOMAIN q /\ MaxRecords \in Nat /\ lo \in Nat
  BY <1>1, <1>2, EntryNumbers, AuditAssumption
<1>5. \A i \in DOMAIN q : q[i].seq \in 1 .. MaxRecords
  BY <1>1, EntryNumbers
<1>6. \A i \in DOMAIN q : i > 1 => q[i].prev = q[i - 1].hash
  <2> SUFFICES ASSUME NEW i \in DOMAIN q, i > 1 PROVE q[i].prev = q[i - 1].hash
    OBVIOUS
  <2> DEFINE s == lo + i - 1
  <2>1. i \in Nat /\ i - 1 \in DOMAIN q
    BY <1>4
  <2>2. q[i] = table[s] /\ s \in 1 .. MaxRecords /\ Held(s)
    BY <1>1, <1>3, <1>5
  <2>3. q[i - 1] = table[lo + (i - 1) - 1]
    BY <1>3, <2>1
  <2>4. lo + (i - 1) - 1 = s - 1 /\ s \in 2 .. MaxRecords
    BY <1>4, <2>1, <2>2
  <2> HIDE DEF s
  <2> QED
    BY <2>2, <2>3, <2>4 DEF Linkage
<1>7. \A i \in DOMAIN q : q[i].seq + m = q[m].seq + i
  BY <1>3, <1>4
<1>8. Consecutive(q)
  BY <1>6, <1>7 DEF Consecutive
<1>9. Linked(q)
  <2>1. \A i \in 2 .. m : i \in DOMAIN q /\ i > 1
    BY <1>4
  <2> QED
    BY <1>6, <2>1 DEF Linked
<1>10. q[1].seq > 1 => Held(q[1].seq - 1) /\ q[1].prev = table[q[1].seq - 1].hash
  <2> DEFINE a == q[1].seq
  <2>1. a \in 1 .. MaxRecords /\ Held(a) /\ table[a] = q[1]
    BY <1>1, <1>4, <1>5
  <2> HIDE DEF a
  <2>2. a > 1 => a \in 2 .. MaxRecords
    BY <1>4, <2>1
  <2>3. a > 1 => Held(a - 1) /\ q[1].prev = table[a - 1].hash
    BY <2>1, <2>2 DEF Linkage
  <2> QED
    BY <2>3 DEF a
<1>11. Anchored(q)
  BY <1>10 DEF Anchored
<1> QED
  BY <1>1, <1>2, <1>8, <1>9, <1>10, <1>11

\* A write goes on from the record before it and links up with the one after.
LEMMA WriteChain ==
  ASSUME IInv, NEW p \in Procs, NEW r \in Recorders, Writing(p, r), Ordered(p),
         InRing(p, task[p][r].from) # {}, table' = Written(p, task[p][r].from),
         NoHoles, Linkage, RingChain(p), MarkChain(p), FileChain(p),
         UNCHANGED <<ring, seq, file>>
  PROVE  /\ NoHoles' /\ Linkage' /\ RingChain(p)' /\ FileChain(p)'
         /\ table'[task[p][r].from] # Nil /\ \A s \in 1 .. MaxRecords : Held(s) => table'[s] # Nil
<1> DEFINE f == task[p][r].from
           q == ring[p]
<1>1. /\ \A s \in 1 .. MaxRecords : Held(s) => table'[s] = table[s]
      /\ \A s \in 1 .. MaxRecords : table'[s] # Nil => s = f \/ Held(s)
      /\ \A i \in DOMAIN q : q[i].seq = f => table'[q[i].seq] = q[i]
      /\ \A s \in 1 .. MaxRecords : s # f => table'[s] = table[s]
      /\ f \in 1 .. MaxRecords
  BY WritesFresh DEF Held
<1>2. PICK i \in DOMAIN q : q[i].seq = f /\ table'[f] = q[i] /\ q[i] # Nil
  BY Appends
<1>3. f > 1 => Held(f - 1)
  BY DEF MarkChain
<1>4. q \in Seq(Entry) /\ file[p] \in Seq(Entry) /\ MaxRecords \in Nat /\ TypeOK
  BY OneWriter, ProcTypes
<1>5. /\ q # <<>> => q[Len(q)].seq + 1 = seq[p]
      /\ Consecutive(q) /\ Anchored(q)
      /\ q # <<>> /\ q[1].seq > 1 => q[1].prev = table[q[1].seq - 1].hash
      /\ \A j \in DOMAIN q : table[q[j].seq] \in {Nil, q[j]}
  BY DEF RingChain
<1>6. /\ DOMAIN q = 1 .. Len(q) /\ Len(q) \in Nat /\ 1 \in DOMAIN q /\ q # <<>>
      /\ \A j \in DOMAIN q : q[j].seq \in 1 .. MaxRecords /\ q[j].seq \in Nat
  BY <1>2, <1>4, EntryNumbers
<1> HIDE DEF f, q
<1>7. table'[f] # Nil /\ \A s \in 1 .. MaxRecords : Held(s) => table'[s] # Nil
  BY <1>1, <1>2 DEF Held
<1>8. f \in Nat /\ f >= 1
  BY <1>1, <1>4
<1>9. NoHoles'
  <2> SUFFICES ASSUME NEW s \in 1 .. MaxRecords, NEW t \in 1 .. MaxRecords, s <= t, table'[t] # Nil
               PROVE  table'[s] # Nil
    BY DEF NoHoles, Held
  <2>1. CASE Held(t)
    BY <1>7, <2>1 DEF NoHoles
  <2>2. CASE t = f
    <3>1. CASE s = f
      BY <1>7, <3>1
    <3>2. CASE s # f
      <4>1. f > 1 /\ f - 1 \in 1 .. MaxRecords /\ s <= f - 1
        BY <1>4, <1>8, <2>2, <3>2
      <4> QED
        BY <1>3, <1>7, <4>1 DEF NoHoles
    <3> QED
      BY <3>1, <3>2
  <2> QED
    BY <1>1, <2>1, <2>2
<1>10. Linkage'
  <2> SUFFICES ASSUME NEW s \in 2 .. MaxRecords, table'[s] # Nil
               PROVE  table'[s - 1] # Nil /\ table'[s].prev = table'[s - 1].hash
    BY DEF Linkage, Held
  <2>1. s \in 1 .. MaxRecords /\ s - 1 \in 1 .. MaxRecords /\ s > 1
    BY <1>4
  <2>2. CASE Held(s)
    <3>1. Held(s - 1) /\ table[s].prev = table[s - 1].hash
      BY <2>2 DEF Linkage
    <3> QED
      BY <1>1, <1>7, <2>1, <2>2, <3>1
  <2>3. CASE s = f
    <3>1. Held(f - 1) /\ table'[f - 1] = table[f - 1]
      BY <1>1, <1>3, <2>1, <2>3
    <3>2. q[i].prev = table[f - 1].hash
      <4>1. CASE i = 1
        BY <1>2, <1>5, <1>6, <2>1, <2>3, <4>1
      <4>2. CASE i # 1
        <5>1. i \in 1 .. Len(q) /\ i > 1 /\ i - 1 \in DOMAIN q
          BY <1>2, <1>6, <4>2
        <5>2. q[i].prev = q[i - 1].hash
          BY <1>5, <5>1 DEF Consecutive
        <5>3. q[i].seq + Len(q) = q[Len(q)].seq + i /\ q[i - 1].seq + Len(q) = q[Len(q)].seq + (i - 1)
          BY <1>5, <5>1 DEF Consecutive
        <5>4. q[i - 1].seq = f - 1
          <6> DEFINE a == q[i].seq
                     b == q[i - 1].seq
                     c == q[Len(q)].seq
                     m == Len(q)
          <6>1. a + m = c + i /\ b + m = c + (i - 1) /\ a = f
            BY <1>2, <5>3
          <6>2. a \in Nat /\ b \in Nat /\ c \in Nat /\ m \in Nat /\ i \in Nat
            BY <1>6, <5>1
          <6> HIDE DEF a, b, c, m
          <6>3. b = f - 1
            BY <6>1, <6>2
          <6> QED
            BY <6>3 DEF b
        <5>5. table[f - 1] = q[i - 1]
          BY <1>5, <3>1, <5>1, <5>4 DEF Held
        <5> QED
          BY <5>2, <5>5
      <4> QED
        BY <4>1, <4>2
    <3> QED
      BY <1>2, <1>7, <2>1, <2>3, <3>1, <3>2
  <2> QED
    BY <1>1, <2>1, <2>2, <2>3
<1>11. FileChain(p)'
  <2> DEFINE a == file[p]
  <2>1. Consecutive(a) /\ Anchored(a)
    BY DEF FileChain
  <2>2. a # <<>> => a[1].seq \in 1 .. MaxRecords
    BY <1>4, EntryNumbers
  <2> HIDE DEF a
  <2>3. a # <<>> /\ a[1].seq > 1 => a[1].seq - 1 \in 1 .. MaxRecords
    BY <1>4, <2>2
  <2>4. Consecutive(a)' /\ Anchored(a)'
    <3>1. a' = a
      BY DEF a
    <3>2. a # <<>> /\ a[1].seq > 1 => table'[a[1].seq - 1] # Nil
      BY <1>7, <2>1, <2>3 DEF Anchored
    <3> QED
      BY <2>1, <3>1, <3>2 DEF Consecutive, Anchored, Held
  <2> QED
    BY <2>4 DEF FileChain, a
<1>12. RingChain(p)'
  <2>1. q' = q /\ seq'[p] = seq[p]
    BY DEF q
  <2>2. q[1].seq > 1 => q[1].seq - 1 \in 1 .. MaxRecords /\ Held(q[1].seq - 1)
    BY <1>4, <1>5, <1>6 DEF Anchored
  <2>3. q[1].seq > 1 => table'[q[1].seq - 1] = table[q[1].seq - 1] /\ table'[q[1].seq - 1] # Nil
    BY <1>1, <1>7, <2>2
  <2>4. \A j \in DOMAIN q : table'[q[j].seq] \in {Nil, q[j]}
    BY <1>1, <1>5, <1>6
  <2>5. Consecutive(q)' /\ Anchored(q)'
    BY <1>5, <2>1, <2>3 DEF Consecutive, Anchored, Held
  <2> QED
    BY <1>5, <1>6, <2>1, <2>3, <2>4, <2>5 DEF RingChain, q
<1> QED
  BY <1>7, <1>9, <1>10, <1>11, <1>12 DEF f

\* A record goes on from the last one; what it pushes out of the ring is in the
\* store.
LEMMA RecordChain ==
  ASSUME IInv, NEW p \in Procs, NEW r \in Recorders, record_by(p, r), Ordered(p),
         RingChain(p), ~overrun'
  PROVE  RingChain(p)' /\ ~overrun
<1> DEFINE q == ring[p]
           n == seq[p]
           m == Len(q)
<1>1. TypeOK
  BY DEF IInv
<1>2. /\ up[p] /\ seq' = [seq EXCEPT ![p] = seq[p] + 1] /\ seq[p] <= MaxRecords /\ table' = table
  BY DEF record_by
<1>3. PICK e \in Entry, t \in Task, x \in Seq(Entry) :
           /\ e.seq = seq[p] /\ (ring[p] # <<>> => e.prev = ring[p][Len(ring[p])].hash)
           /\ IsPush(ring[p], e, x)
           /\ ring' = [ring EXCEPT ![p] = x]
           /\ overrun' = (overrun \/ (Len(ring[p]) >= RingSize /\ table[Head(ring[p]).seq] # Head(ring[p])))
  BY <1>1, Records
<1> DEFINE l == Len(x)
<1>4. ring'[p] = x /\ seq'[p] = n + 1 /\ q \in Seq(Entry) /\ n \in Nat \ {0} /\ MaxRecords \in Nat
  BY <1>1, <1>2, <1>3, ProcTypes DEF TypeOK
<1>5. ~overrun /\ (m >= RingSize /\ q # <<>> => table[q[1].seq] = q[1])
  <2>1. ~(overrun \/ (Len(ring[p]) >= RingSize /\ table[Head(ring[p]).seq] # Head(ring[p])))
    BY <1>3
  <2>2. q # <<>> => Head(ring[p]) = q[1]
    BY <1>4
  <2> QED
    BY <2>1, <2>2
<1>6. x # <<>> /\ x[l] = e /\ e.seq = n /\ (q # <<>> => e.prev = q[m].hash)
  BY <1>3 DEF IsPush
<1>7. PICK d \in {0, 1} :
        /\ d = 1 => m >= RingSize /\ q # <<>>
        /\ l + d = m + 1 /\ \A i \in 1 .. l - 1 : i + d \in 1 .. m /\ x[i] = q[i + d]
  BY <1>3 DEF IsPush
<1>8. /\ DOMAIN q = 1 .. m /\ DOMAIN x = 1 .. l /\ m \in Nat /\ l \in Nat /\ d \in Nat /\ 1 \in DOMAIN x
      /\ l \in DOMAIN x /\ (q # <<>> => m > 0) /\ (q = <<>> => m = 0)
  BY <1>3, <1>4, <1>6, <1>7, EntryNumbers
<1>9. /\ q = <<>> => n = 1
      /\ q # <<>> => q[m].seq + 1 = n
      /\ Consecutive(q) /\ Anchored(q)
      /\ q # <<>> /\ q[1].seq > 1 => q[1].prev = table[q[1].seq - 1].hash
      /\ \A j \in DOMAIN q : table[q[j].seq] \in {Nil, q[j]}
  BY DEF RingChain
<1>10. \A i \in DOMAIN q : q[i].seq \in Nat /\ q[i].seq \in 1 .. MaxRecords
  BY <1>4, EntryNumbers
<1>11. n \in 1 .. MaxRecords /\ table[n] = Nil
  BY <1>2, <1>4 DEF Ordered, Held
<1>12. \A i \in DOMAIN q : q[i].seq + m = q[m].seq + i /\ (i > 1 => q[i].prev = q[i - 1].hash)
  BY <1>9 DEF Consecutive
<1> HIDE DEF q, n, m, l
<1>13. \A i \in DOMAIN x : i # l => i \in 1 .. l - 1 /\ i + d \in DOMAIN q /\ x[i] = q[i + d]
  BY <1>7, <1>8
<1>14. \A i \in DOMAIN x : x[i].seq + l = x[l].seq + i
  <2> SUFFICES ASSUME NEW i \in DOMAIN x, i # l PROVE x[i].seq + l = x[l].seq + i
    BY <1>4, <1>6, <1>8
  <2>1. i + d \in DOMAIN q /\ x[i] = q[i + d] /\ i \in Nat
    BY <1>8, <1>13
  <2> DEFINE a == q[i + d].seq
             b == q[m].seq
  <2>2. q # <<>> /\ m \in DOMAIN q
    BY <1>8, <2>1
  <2>3. a + m = b + (i + d) /\ b + 1 = n /\ a \in Nat /\ b \in Nat
    BY <1>9, <1>10, <1>12, <2>1, <2>2
  <2> HIDE DEF a, b
  <2>4. a + l = n + i
    <3>1. l + d = m + 1 /\ l \in Nat /\ d \in Nat /\ m \in Nat /\ i \in Nat /\ n \in Nat
      BY <1>4, <1>7, <1>8, <2>1
    <3>2. a \in Nat /\ b \in Nat /\ a + m = b + (i + d) /\ b + 1 = n
      BY <2>3
    <3>3. a + l <= n + i /\ a + l >= n + i
      BY <3>1, <3>2
    <3> QED
      BY <3>1, <3>2, <3>3
  <2> QED
    BY <1>6, <2>1, <2>4 DEF a
<1>15. \A i \in DOMAIN x : i > 1 => x[i].prev = x[i - 1].hash
  <2> SUFFICES ASSUME NEW i \in DOMAIN x, i > 1 PROVE x[i].prev = x[i - 1].hash
    OBVIOUS
  <2>1. i \in Nat /\ i - 1 \in DOMAIN x /\ i - 1 # l
    BY <1>8
  <2>2. i - 1 + d \in DOMAIN q /\ x[i - 1] = q[i - 1 + d]
    BY <1>13, <2>1
  <2>3. CASE i = l
    <3>1. i - 1 + d = m /\ q # <<>>
      BY <1>7, <1>8, <2>2, <2>3
    <3> QED
      BY <1>6, <2>2, <2>3, <3>1
  <2>4. CASE i # l
    <3>1. i + d \in DOMAIN q /\ x[i] = q[i + d] /\ i + d > 1 /\ (i + d) - 1 = i - 1 + d
      BY <1>8, <1>13, <2>1, <2>4
    <3> QED
      BY <1>12, <2>2, <3>1
  <2> QED
    BY <2>3, <2>4
<1>16. x[1].seq > 1 => table[x[1].seq - 1] # Nil /\ x[1].prev = table[x[1].seq - 1].hash
  <2>1. CASE q = <<>>
    <3>1. l = 1
      BY <1>7, <1>8, <2>1
    <3> QED
      BY <1>6, <1>9, <2>1, <3>1
  <2>2. CASE q # <<>> /\ d = 0
    <3>1. 1 \in DOMAIN q /\ 1 # l /\ 1 + d = 1
      BY <1>7, <1>8, <2>2
    <3>2. x[1] = q[1]
      BY <1>8, <1>13, <3>1
    <3> QED
      BY <1>9, <2>2, <3>2 DEF Anchored, Held
  <2>3. CASE q # <<>> /\ d = 1
    <3> DEFINE c == q[1].seq
    <3>1. 1 \in DOMAIN q /\ table[c] = q[1] /\ q[1] # Nil /\ c \in Nat
      <4>1. 1 \in DOMAIN q
        BY <1>8, <2>3
      <4>2. q[1] \in Entry
        BY <1>4, <4>1, EntryNumbers
      <4>3. Entry \in SUBSET [seq : Nat, hash : Nat, prev : Nat]
        BY AuditAssumption DEF Entry
      <4> QED
        BY <1>5, <1>7, <1>10, <2>3, <4>1, <4>2, <4>3, AuditAssumption
    <3>2. x[1].seq = c + 1 /\ x[1].prev = q[1].hash
      <4>1. CASE l = 1
        <5>1. m = 1
          BY <1>7, <1>8, <2>3, <4>1
        <5> QED
          BY <1>6, <1>9, <2>3, <4>1, <5>1
      <4>2. CASE l # 1
        <5>1. 2 \in DOMAIN q /\ x[1] = q[2]
          <6>1. 1 + d = 2
            BY <2>3
          <6> QED
            BY <1>8, <1>13, <4>2, <6>1
        <5> DEFINE a == q[2].seq
                   b == q[m].seq
        <5>2. a + m = b + 2 /\ c + m = b + 1 /\ a \in Nat /\ b \in Nat /\ q[2].prev = q[1].hash
          <6>1. m \in DOMAIN q /\ 2 > 1 /\ 2 - 1 = 1
            BY <1>8, <2>3
          <6> QED
            BY <1>10, <1>12, <3>1, <5>1, <6>1
        <5> HIDE DEF a, b, c
        <5>3. a = c + 1
          BY <1>8, <3>1, <5>2
        <5> QED
          BY <5>1, <5>2, <5>3 DEF a
      <4> QED
        BY <4>1, <4>2
    <3> HIDE DEF c
    <3>3. x[1].seq - 1 = c
      BY <3>1, <3>2
    <3> QED
      BY <3>1, <3>2, <3>3
  <2> QED
    BY <2>1, <2>2, <2>3
<1>17. \A i \in DOMAIN x : table[x[i].seq] \in {Nil, x[i]}
  BY <1>6, <1>9, <1>11, <1>13
<1>18. Consecutive(x)
  BY <1>14, <1>15 DEF Consecutive, l
<1>19. Consecutive(ring[p])' /\ Anchored(ring[p])'
  BY <1>2, <1>4, <1>16, <1>18 DEF Consecutive, Anchored, Held
<1>20. x[Len(x)].seq + 1 = seq'[p]
  BY <1>4, <1>6 DEF l
<1>21. RingChain(p)'
  BY <1>2, <1>4, <1>6, <1>16, <1>17, <1>19, <1>20 DEF RingChain
<1> QED
  BY <1>5, <1>21

\* A start takes up the chain of the store, or of the file when the store has
\* none.
LEMMA StartChain ==
  ASSUME IInv, NEW p \in Procs, Start(p), unread' = 0, Ordered(p), NoHoles, Linkage, FileChain(p)
  PROVE  RingChain(p)' /\ MarkChain(p)'
<1>1. TypeOK /\ RowsOK /\ MaxRecords \in Nat
  BY AuditAssumption DEF IInv
<1>2. PICK q \in Seq(Entry), n \in Nat \ {0}, h \in 0 .. MaxRecords : Begins(p, q, n, h)
  BY <1>1, StartOK
<1>3. UNCHANGED <<file, table, task>> /\ ~up[p]
  BY DEF Start
<1>4. ring'[p] = q /\ seq'[p] = n /\ high'[p] = h /\ Restored(p, q, n, h)
  BY <1>1, <1>2 DEF Begins, TypeOK
<1>5. \A s \in HeldSet : Held(s) /\ s \in Nat
  BY <1>1, TailNumbers DEF HeldSet, Held
<1>6. MarkChain(p)'
  <2>1. \A r \in Recorders : ~Writing(p, r)
    BY <1>3, LockSplit DEF IInv, TasksOK, Writing
  <2>2. h > 0 => Held(h)
    BY <1>4, <1>5 DEF Restored
  <2> QED
    BY <1>3, <1>4, <2>1, <2>2 DEF MarkChain, Writing, Held
<1>7. /\ q = <<>> => n = 1
      /\ q # <<>> => q[Len(q)].seq + 1 = n
      /\ Consecutive(q) /\ Anchored(q)
      /\ q # <<>> /\ q[1].seq > 1 => q[1].prev = table[q[1].seq - 1].hash
      /\ \A j \in DOMAIN q : table[q[j].seq] \in {Nil, q[j]}
  <2>1. CASE HeldSet # {}
    <3>1. /\ list_audit_tail # <<>> /\ Linked(list_audit_tail)
      BY <1>1, <2>1, TailChain
    <3>2. q = list_audit_tail /\ n = h + 1
      BY <1>4, <2>1, <3>1 DEF Restored
    <3>3. /\ q # <<>> /\ Consecutive(q) /\ Anchored(q)
          /\ q[1].seq > 1 => q[1].prev = table[q[1].seq - 1].hash
          /\ \A i \in DOMAIN q : table[q[i].seq] = q[i]
          /\ q[Len(q)].seq \in HeldSet /\ \A s \in HeldSet : s <= q[Len(q)].seq
      BY <1>1, <2>1, <3>2, TailChain
    <3> DEFINE b == q[Len(q)].seq
    <3>4. b \in HeldSet /\ b \in Nat /\ b > 0 /\ (h \in HeldSet => h <= b) /\ b <= h /\ (h > 0 => h \in HeldSet) /\ h \in Nat
      <4>1. b \in HeldSet
        BY <3>3
      <4>2. b \in 1 .. MaxRecords
        BY <1>1, <4>1, TailNumbers
      <4> QED
        BY <1>1, <1>4, <3>3, <4>1, <4>2 DEF Restored
    <3> HIDE DEF b
    <3>5. b = h
      BY <3>4
    <3> QED
      BY <3>2, <3>3, <3>5 DEF b
  <2>2. CASE HeldSet = {}
    <3>1. /\ q \in {file[p], <<>>} /\ n = MaxOr0(Numbers(q)) + 1
      BY <1>4, <2>2 DEF Restored
    <3>2. \A s \in 1 .. MaxRecords : table[s] = Nil
      BY <1>1, <2>2 DEF HeldSet, TypeOK
    <3>3. Consecutive(q) /\ Anchored(q) /\ Increasing(q)
      <4>1. Consecutive(<<>>) /\ Anchored(<<>>) /\ Increasing(<<>>)
        BY DEF Consecutive, Anchored, Increasing
      <4> QED
        BY <3>1, <4>1 DEF FileChain, Ordered
    <3>4. \A j \in DOMAIN q : q[j].seq \in 1 .. MaxRecords /\ q[j].seq \in Nat
      BY EntryNumbers
    <3>5. DOMAIN q = 1 .. Len(q) /\ Len(q) \in Nat /\ (q # <<>> => 1 \in DOMAIN q /\ Len(q) \in DOMAIN q)
      BY EntryNumbers
    <3>6. q # <<>> => ~(q[1].seq > 1)
      <4> SUFFICES ASSUME q # <<>>, q[1].seq > 1 PROVE FALSE
        OBVIOUS
      <4> DEFINE a == q[1].seq
      <4>1. table[a - 1] # Nil /\ a \in 1 .. MaxRecords /\ a > 1
        BY <3>3, <3>4, <3>5 DEF Anchored, Held
      <4> HIDE DEF a
      <4>2. a - 1 \in 1 .. MaxRecords
        BY <1>1, <4>1
      <4> QED
        BY <3>2, <4>1, <4>2
    <3>7. /\ q = <<>> => n = 1
          /\ q # <<>> => q[Len(q)].seq + 1 = n
      <4> DEFINE k == MaxOr0(Numbers(q))
      <4>1. /\ k \in 0 .. MaxRecords /\ \A i \in DOMAIN q : q[i].seq <= k
            /\ q # <<>> => \E i \in DOMAIN q : q[i].seq = k
            /\ q = <<>> => k = 0
        BY NumbersMax
      <4>2. k \in Nat /\ n = k + 1
        BY <1>1, <3>1, <4>1
      <4> HIDE DEF k
      <4>3. q # <<>> => q[Len(q)].seq = k
        <5> SUFFICES ASSUME q # <<>> PROVE q[Len(q)].seq = k
          OBVIOUS
        <5>1. PICK i \in DOMAIN q : q[i].seq = k
          BY <4>1
        <5>2. Len(q) \in DOMAIN q /\ q[Len(q)].seq <= k /\ q[Len(q)].seq \in Nat
          BY <3>4, <3>5, <4>1
        <5>3. CASE i = Len(q)
          BY <5>1, <5>3
        <5>4. CASE i # Len(q)
          <6>1. i < Len(q)
            BY <3>5, <5>1, <5>4
          <6>2. q[i].seq < q[Len(q)].seq
            BY <3>3, <5>1, <5>2, <6>1 DEF Increasing
          <6> QED
            BY <4>2, <5>1, <5>2, <6>2
        <5> QED
          BY <5>3, <5>4
      <4> QED
        BY <4>1, <4>2, <4>3
    <3> QED
      BY <3>2, <3>3, <3>4, <3>6, <3>7
  <2> QED
    BY <2>1, <2>2
<1>8. Consecutive(ring[p])' /\ Anchored(ring[p])'
  BY <1>3, <1>4, <1>7 DEF Consecutive, Anchored, Held
<1>9. RingChain(p)'
  BY <1>3, <1>4, <1>7, <1>8 DEF RingChain
<1> QED
  BY <1>6, <1>9

\* The moves of the tasks keep the record before the next to be written.
LEMMA MarkMoves ==
  ASSUME NEW p \in Procs, MarkChain(p), UNCHANGED <<high, table>>,
         \A y \in Recorders :
           Writing(p, y)' => \/ Writing(p, y) /\ task'[p][y] = task[p][y]
                             \/ task'[p][y].from > 1 => table'[task'[p][y].from - 1] # Nil
  PROVE  MarkChain(p)'
BY DEF MarkChain, Held

\* Steps of one process keep the chain.
LEMMA ChainStep ==
  ASSUME IInv, NEW p \in Procs, Ordered(p), unread' = 0, ~overrun', Step(p),
         NoHoles, Linkage, FileChain(p), up[p] => RingChain(p) /\ MarkChain(p)
  PROVE  /\ NoHoles' /\ Linkage' /\ FileChain(p)'
         /\ (up[p] => RingChain(p) /\ MarkChain(p))'
<1>1. TypeOK /\ MaxRecords \in Nat
  BY AuditAssumption DEF IInv
<1>2. ASSUME UNCHANGED table PROVE NoHoles' /\ Linkage'
  BY <1>2 DEF NoHoles, Linkage, Held
<1>3. ASSUME UNCHANGED <<table, file>> PROVE FileChain(p)'
  BY <1>3 DEF FileChain, Consecutive, Anchored, Held
<1>4. ASSUME RingChain(p), UNCHANGED <<table, ring, seq>> PROVE RingChain(p)'
  BY <1>4 DEF RingChain, Consecutive, Anchored, Held
<1>5. CASE Start(p)
  <2>1. UNCHANGED <<table, file>>
    BY <1>5 DEF Start
  <2> QED
    BY <1>2, <1>3, <1>5, <2>1, StartChain
<1>6. CASE Snapshot(p)
  <2>1. file'[p] = ring[p] /\ up[p] /\ UNCHANGED <<up, ring, seq, high, lock, task, table>>
    BY <1>1, <1>6 DEF Snapshot, memory, TypeOK
  <2>2. FileChain(p)'
    BY <2>1 DEF FileChain, RingChain, Consecutive, Anchored, Held
  <2>3. MarkChain(p)'
    BY <2>1 DEF MarkChain, Held, Writing
  <2> QED
    BY <1>2, <1>4, <2>1, <2>2, <2>3
<1>7. CASE Crash(p)
  <2>1. ~up'[p] /\ UNCHANGED <<table, file>>
    BY <1>1, <1>7 DEF Crash, TypeOK
  <2> QED
    BY <1>2, <1>3, <2>1
<1>8. ASSUME NEW r \in Recorders, record_by(p, r)
      PROVE  NoHoles' /\ Linkage' /\ FileChain(p)' /\ RingChain(p)' /\ MarkChain(p)'
  <2>1. up[p] /\ UNCHANGED <<table, file, high>>
    BY <1>8 DEF record_by
  <2>2. RingChain(p)'
    BY <1>8, <2>1, RecordChain
  <2>3. PICK t \in Task : t.at = "queued" /\ task' = [task EXCEPT ![p][r] = t]
    BY <1>1, <1>8, Records
  <2>4. task'[p][r] = t /\ \A y \in Recorders : y # r => task'[p][y] = task[p][y]
    BY <1>1, <2>3, TaskMoves
  <2>5. \A y \in Recorders : Writing(p, y)' => Writing(p, y) /\ task'[p][y] = task[p][y]
    BY <2>3, <2>4 DEF Writing
  <2>6. MarkChain(p)'
    BY <2>1, <2>5, MarkMoves
  <2> QED
    BY <1>2, <1>3, <2>1, <2>2, <2>6
<1>9. ASSUME NEW r \in Recorders, BeginCatchUp(p, r)
      PROVE  NoHoles' /\ Linkage' /\ FileChain(p)' /\ RingChain(p)' /\ MarkChain(p)'
  <2>1. UNCHANGED <<table, file, high, ring, seq>>
    BY <1>9 DEF BeginCatchUp
  <2>2. /\ up[p] /\ task'[p][r].from = high[p] + 1
        /\ \A y \in Recorders : <<p, y>> # <<p, r>> => task'[p][y] = task[p][y]
    BY <1>9, BeginStep
  <2>3. high[p] \in Nat /\ (high[p] > 0 => table[high[p]] # Nil)
    BY <1>1, <2>2, ProcTypes DEF MarkChain, Held
  <2>4. task'[p][r].from > 1 => table'[task'[p][r].from - 1] # Nil
    BY <2>1, <2>2, <2>3
  <2>5. \A y \in Recorders : y # r => task'[p][y] = task[p][y]
    BY <2>2
  <2>6. MarkChain(p)'
    BY <2>1, <2>2, <2>4, <2>5, MarkMoves DEF Writing
  <2> QED
    BY <1>2, <1>3, <1>4, <2>1, <2>2, <2>6
<1>10. ASSUME NEW r \in Recorders, EndCatchUp(p, r)
       PROVE  NoHoles' /\ Linkage' /\ FileChain(p)' /\ RingChain(p)' /\ MarkChain(p)'
  <2>1. Writing(p, r) /\ Leave(p, r) /\ UNCHANGED <<up, table, file, high, ring, seq>>
    BY <1>10 DEF EndCatchUp
  <2>2. up[p] /\ \A y \in Recorders : Writing(p, y)' => Writing(p, y) /\ task'[p][y] = task[p][y]
    BY <2>1, OneWriter, Leaves
  <2>3. MarkChain(p)'
    BY <2>1, <2>2, MarkMoves
  <2> QED
    BY <1>2, <1>3, <1>4, <2>1, <2>2, <2>3
<1>11. ASSUME NEW r \in Recorders, SkipPruned(p, r)
       PROVE  NoHoles' /\ Linkage' /\ FileChain(p)' /\ RingChain(p)' /\ MarkChain(p)'
  <2> DEFINE f == task[p][r].from
             u == task[p][r].upto
  <2>1. /\ Writing(p, r) /\ f <= u /\ InRing(p, f) = {}
        /\ task' = [task EXCEPT ![p][r].from = @ + 1]
        /\ UNCHANGED <<up, lock, table, file, high, ring, seq>>
    BY <1>11 DEF SkipPruned
  <2>2. up[p] /\ f \in Nat \ {0} /\ u \in 1 .. MaxRecords /\ u < seq[p] /\ high[p] <= f /\ seq[p] \in Nat
    BY <2>1, OneWriter
  <2>3. f < seq[p] /\ f \in 1 .. MaxRecords
    <3> HIDE DEF f, u
    <3> QED
      BY <1>1, <2>1, <2>2
  <2>4. table[f] # Nil
    BY <1>1, <2>1, <2>2, <2>3, PrunedIsHeld DEF Held
  <2>5. /\ task'[p][r].from = f + 1
        /\ \A y \in Recorders : Writing(p, y)' => Writing(p, y) /\ (<<p, y>> # <<p, r>> => task'[p][y] = task[p][y])
    <3>1. StepsOn(p, r) /\ UNCHANGED <<up, seq, lock>>
      BY <2>1 DEF StepsOn
    <3>2. high' \in [Procs -> 0 .. MaxRecords] /\ high' = high
      BY <1>1, <2>1 DEF TypeOK
    <3>3. high'[p] <= task[p][r].from
      BY <2>2, <3>2
    <3> QED
      BY <2>1, <3>1, <3>2, <3>3, GoesOn
  <2> HIDE DEF f, u
  <2>6. task'[p][r].from - 1 = f
    BY <2>2, <2>5
  <2>7. table'[task'[p][r].from - 1] # Nil
    BY <2>1, <2>4, <2>6
  <2>8. \A y \in Recorders : Writing(p, y)' => y = r \/ (Writing(p, y) /\ task'[p][y] = task[p][y])
    <3>1. \A y \in Recorders : y # r => <<p, y>> # <<p, r>>
      BY Z3
    <3> QED
      BY <2>5, <3>1, Zenon
  <2>9. MarkChain(p)'
    BY <2>1, <2>2, <2>7, <2>8, MarkMoves
  <2> QED
    BY <1>2, <1>3, <1>4, <2>1, <2>2, <2>9
<1>12. ASSUME NEW r \in Recorders, AppendAudit(p, r)
       PROVE  NoHoles' /\ Linkage' /\ FileChain(p)' /\ RingChain(p)' /\ MarkChain(p)'
  <2> DEFINE f == task[p][r].from
  <2>1. /\ Writing(p, r) /\ InRing(p, f) # {} /\ task' = [task EXCEPT ![p][r].from = @ + 1]
        /\ UNCHANGED <<up, ring, seq, lock, file>>
    BY <1>12 DEF AppendAudit
  <2>2. table' = Written(p, f) /\ high' = [high EXCEPT ![p] = f] /\ IInv'
    BY <1>12, AppendStep
  <2>3. up[p] /\ f \in Nat
    BY <2>1, OneWriter
  <2>4. NoHoles' /\ Linkage' /\ RingChain(p)' /\ FileChain(p)' /\ table'[f] # Nil
    BY <2>1, <2>2, <2>3, WriteChain
  <2>5. high'[p] = f /\ high' \in [Procs -> 0 .. MaxRecords] /\ f <= f /\ \A x \in Procs : x # p => high'[x] = high[x]
    BY <1>1, <2>2, <2>3 DEF TypeOK, IInv
  <2>6. /\ task'[p][r].from = f + 1
        /\ \A y \in Recorders : Writing(p, y)' => Writing(p, y)
    BY <2>1, <2>5, GoesOn DEF StepsOn
  <2>7. \A y \in Recorders : Writing(p, y)' => y = r
    BY <2>1, <2>6, OneWriter
  <2> HIDE DEF f
  <2>8. task'[p][r].from - 1 = f
    BY <2>3, <2>6
  <2>9. MarkChain(p)'
    BY <2>4, <2>5, <2>7, <2>8 DEF MarkChain, Held
  <2> QED
    BY <2>4, <2>9
<1>13. ASSUME NEW r \in Recorders, AppendFails(p, r)
       PROVE  NoHoles' /\ Linkage' /\ FileChain(p)' /\ RingChain(p)' /\ MarkChain(p)'
  <2> DEFINE f == task[p][r].from
  <2>1. /\ Writing(p, r) /\ InRing(p, f) # {} /\ table' \in {table, Written(p, f)} /\ Leave(p, r)
        /\ UNCHANGED <<up, ring, seq, high, file>>
    BY <1>13 DEF AppendFails
  <2>2. up[p] /\ \A y \in Recorders : Writing(p, y)' => Writing(p, y) /\ task'[p][y] = task[p][y]
    BY <2>1, OneWriter, Leaves
  <2>3. CASE table' = table
    <3>1. MarkChain(p)'
      BY <2>1, <2>2, <2>3, MarkMoves
    <3> QED
      BY <1>2, <1>3, <1>4, <2>1, <2>2, <2>3, <3>1
  <2>4. CASE table' = Written(p, f)
    <3>1. /\ NoHoles' /\ Linkage' /\ RingChain(p)' /\ FileChain(p)'
          /\ \A s \in 1 .. MaxRecords : Held(s) => table'[s] # Nil
      BY <2>1, <2>2, <2>4, WriteChain
    <3>2. high[p] \in Nat /\ high[p] <= MaxRecords /\ f \in Nat \ {0} /\ f \in 1 .. MaxRecords
      BY <1>1, <2>1, <2>4, ProcTypes, OneWriter, Appends
    <3>3. high[p] > 0 => table'[high[p]] # Nil
      BY <1>1, <2>2, <3>1, <3>2 DEF MarkChain
    <3>4. \A y \in Recorders : ~Writing(p, y)'
      <4>1. \A y \in Recorders : y # r => ~Writing(p, y)
        BY <2>1, OneWriter
      <4>2. ~Writing(p, r)'
        <5>1. Rest \in Task /\ Rest.at = "idle"
          BY DEF Task, Rest
        <5>2. task'[p][r] = Rest
          BY <1>1, <2>1, <5>1, TaskMoves DEF Leave
        <5> QED
          BY <5>1, <5>2 DEF Writing
      <4> QED
        BY <2>2, <4>1, <4>2
    <3>5. MarkChain(p)'
      BY <2>1, <3>3, <3>4 DEF MarkChain, Held
    <3> QED
      BY <3>1, <3>5
  <2> QED
    BY <2>1, <2>3, <2>4
<1> QED
  BY <1>5, <1>6, <1>7, <1>8, <1>9, <1>10, <1>11, <1>12, <1>13 DEF Step

\* An overrun is never forgotten.
LEMMA OverrunStays ==
  ASSUME IInv, NEW p \in Procs, Step(p), ~overrun'
  PROVE  ~overrun
<1>1. TypeOK
  BY DEF IInv
<1>2. ASSUME NEW r \in Recorders, record_by(p, r) PROVE ~overrun
  <2>1. overrun' = (overrun \/ (Len(ring[p]) >= RingSize /\ table[Head(ring[p]).seq] # Head(ring[p])))
    BY <1>1, <1>2, Records
  <2> QED
    BY <2>1
<1>3. ASSUME Start(p) \/ Snapshot(p) \/ Crash(p) PROVE overrun' = overrun
  BY <1>3 DEF Start, Snapshot, Crash
<1>4. ASSUME NEW r \in Recorders,
             \/ BeginCatchUp(p, r) \/ EndCatchUp(p, r)
             \/ SkipPruned(p, r) \/ AppendAudit(p, r) \/ AppendFails(p, r)
      PROVE  overrun' = overrun
  BY <1>4 DEF BeginCatchUp, EndCatchUp, SkipPruned, AppendAudit, AppendFails
<1> QED
  BY <1>2, <1>3, <1>4 DEF Step

\* What is kept of the log of one process.
KeptInv == IInv /\ OrderInv /\ ChainInv

\* It holds at first.
LEMMA KeptInit == Init => KeptInv
<1> SUFFICES ASSUME Init PROVE KeptInv
  OBVIOUS
<1>1. IInv
  BY InvInit
<1>2. \A p \in Procs : ring[p] = <<>> /\ file[p] = <<>> /\ ~up[p]
  BY DEF Init
<1>3. \A s \in 1 .. MaxRecords : ~Held(s)
  BY DEF Init, Held
<1>4. OrderInv
  <2>1. Increasing(<<>>)
    BY DEF Increasing
  <2> QED
    BY <1>2, <2>1 DEF OrderInv, Ordered
<1>5. ChainInv
  <2>1. Consecutive(<<>>) /\ Anchored(<<>>)
    BY DEF Consecutive, Anchored
  <2>2. NoHoles /\ Linkage
    <3>1. \A s \in 2 .. MaxRecords : s \in 1 .. MaxRecords
      BY AuditAssumption
    <3> QED
      BY <1>3, <3>1 DEF NoHoles, Linkage
  <2> QED
    BY <1>2, <2>1, <2>2 DEF ChainInv, FileChain
<1> QED
  BY <1>1, <1>4, <1>5 DEF KeptInv

\* It is kept, and so is what the log has, by every step of the only process.
LEMMA KeptStep ==
  ASSUME Solo, KeptInv, [Next]_vars
  PROVE  KeptInv' /\ NeverRewritten
<1>1. IInv /\ OrderInv /\ ChainInv /\ IInv'
  BY InvStep DEF KeptInv
<1>2. DOMAIN table = 1 .. MaxRecords
  BY <1>1 DEF IInv, TypeOK
<1>3. CASE UNCHANGED vars
  <2>1. UNCHANGED <<up, ring, seq, high, lock, task, file, table, unread, overrun>>
    BY <1>3 DEF vars, memory
  <2>2. OrderInv'
    BY <1>1, <2>1 DEF OrderInv, Ordered, Increasing, Held
  <2>3. ChainInv'
    BY <1>1, <2>1 DEF ChainInv, NoHoles, Linkage, FileChain, RingChain, MarkChain, Consecutive, Anchored, Held,
                      Writing
  <2> QED
    BY <1>1, <2>1, <2>2, <2>3 DEF KeptInv, NeverRewritten
<1>4. CASE Next
  <2>1. PICK p \in Procs : Step(p)
    BY <1>4 DEF Next, Step
  <2>2. \A x \in Procs : x = p
    BY DEF Solo
  <2>3. unread' = 0 => unread = 0
    BY <1>1, UnreadGrows
  <2>4. unread = 0 => Ordered(p)
    BY <1>1 DEF OrderInv
  <2>5. OrderInv'
    <3>1. unread' = 0 => Ordered(p)'
      BY <1>1, <2>1, <2>3, <2>4, OrderStep
    <3> QED
      BY <2>2, <3>1 DEF OrderInv
  <2>6. ChainInv'
    <3> SUFFICES ASSUME ~overrun', unread' = 0
                 PROVE  /\ NoHoles' /\ Linkage'
                        /\ \A x \in Procs : (FileChain(x) /\ (up[x] => RingChain(x) /\ MarkChain(x)))'
      BY DEF ChainInv
    <3>1. unread = 0 /\ ~overrun /\ Ordered(p)
      BY <1>1, <2>1, <2>3, <2>4, OverrunStays
    <3>2. NoHoles /\ Linkage /\ FileChain(p) /\ (up[p] => RingChain(p) /\ MarkChain(p))
      BY <1>1, <3>1 DEF ChainInv
    <3>3. /\ NoHoles' /\ Linkage' /\ FileChain(p)'
          /\ (up[p] => RingChain(p) /\ MarkChain(p))'
      BY <1>1, <2>1, <3>1, <3>2, ChainStep
    <3> QED
      BY <2>2, <3>3
  <2>7. NeverRewritten
    <3>1. unread = 0 => \A s \in 1 .. MaxRecords : Held(s) => table'[s] = table[s]
      BY <1>1, <2>1, <2>4, NothingRewritten
    <3> QED
      BY <1>2, <3>1 DEF NeverRewritten, Held
  <2> QED
    BY <1>1, <2>5, <2>6, <2>7 DEF KeptInv
<1> QED
  BY <1>3, <1>4

\* The chain that is kept can be taken up again.
LEMMA ChainIsRestorable == KeptInv => ChainRestorable
BY DEF KeptInv, ChainInv, Linkage, ChainRestorable, Held

(***************************************************************************)
(* The durable log of a process that has its store to itself is kept: no   *)
(* record is ever rewritten and the log stays one chain without a hole,    *)
(* however its recorders overtake each other, whichever appends fail or    *)
(* are answered late, and however often it crashes and starts, as long as  *)
(* each start could read the store and, for the chain, no outage outlasts  *)
(* the ring (audit.rs record_by, durable_write_through,                    *)
(* restore_from_store, load).                                              *)
(***************************************************************************)
THEOREM LogKept == ASSUME Solo PROVE Spec => LogIsKept
<1>1. Init => KeptInv
  BY KeptInit
<1>2. KeptInv /\ [Next]_vars => KeptInv' /\ [NeverRewritten /\ ChainRestorable']_vars
  <2> SUFFICES ASSUME KeptInv, [Next]_vars PROVE KeptInv' /\ NeverRewritten /\ ChainRestorable'
    OBVIOUS
  <2>1. KeptInv' /\ NeverRewritten
    BY KeptStep
  <2>2. KeptInv' => ChainRestorable'
    BY ChainIsRestorable, PTL
  <2> QED
    BY <2>1, <2>2
<1> QED
  BY <1>1, <1>2, PTL DEF Spec, LogIsKept
=============================================================================
