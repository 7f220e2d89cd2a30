----------------------- MODULE SegmentAllocatorProofs -----------------------
(***************************************************************************)
(* Proofs about SegmentAllocator, for any number of keys and segments and  *)
(* segments of any size.                                                   *)
(***************************************************************************)
EXTENDS SegmentAllocator, SequenceTheorems, FiniteSetTheorems, TLAPS

-----------------------------------------------------------------------------
(* Numbers and sequences. *)

\* A set of naturals that is not empty has a least element.
LEMMA LeastNumber ==
  ASSUME NEW T \in SUBSET Nat, T # {}
  PROVE  \E x \in T : \A y \in T : x <= y
  <1> DEFINE below == {0..x : x \in T}
  <1>1. below \subseteq FiniteSubsetsOf(Nat) /\ below # {}
    <2>1. \A x \in T : IsFiniteSet(0..x) /\ 0..x \in SUBSET Nat
      BY FS_Interval
    <2> QED
      BY <2>1 DEF FiniteSubsetsOf
  <1> HIDE DEF below
  <1>2. PICK s \in below : \A t \in below : <<t, s>> \notin StrictSubsetOrdering(Nat)
    BY <1>1, FS_StrictSubsetOrderingWellFounded, WFMin
  <1> USE DEF below
  <1>3. PICK x \in T : s = 0..x
    BY <1>2
  <1>4. \A y \in T : ~(y < x)
    <2> SUFFICES ASSUME NEW y \in T, y < x PROVE FALSE
      OBVIOUS
    <2>1. /\ 0..y \in SUBSET Nat /\ 0..x \in SUBSET Nat
          /\ 0..y \subseteq 0..x /\ x \in 0..x /\ x \notin 0..y
      OBVIOUS
    <2>2. <<0..y, s>> \in StrictSubsetOrdering(Nat)
      BY <1>3, <2>1 DEF StrictSubsetOrdering
    <2> QED
      BY <1>2, <2>2
  <1> QED
    BY <1>4

\* The first a elements of a sequence, x, and its elements from the b-th.
Spliced(s, a, x, b) == SubSeq(s, 1, a) \o <<x>> \o SubSeq(s, b, Len(s))

IsSpliced(r, S, s, a, x, b) ==
  /\ r \in Seq(S)
  /\ Len(r) = a + 2 + Len(s) - b
  /\ \A j \in 1..a : r[j] = s[j]
  /\ r[a + 1] = x
  /\ \A j \in (a + 2)..(a + 2 + Len(s) - b) : r[j] = s[j + b - a - 2]

LEMMA SpliceFacts ==
  ASSUME NEW S, NEW s \in Seq(S), NEW x \in S, NEW a \in 0..Len(s),
         NEW b \in (a + 1)..(Len(s) + 1)
  PROVE  IsSpliced(Spliced(s, a, x, b), S, s, a, x, b)
  <1> PICK n \in Nat : n = Len(s)
    OBVIOUS
  <1>1. \A i \in 1..n : s[i] \in S
    OBVIOUS
  <1> DEFINE head == SubSeq(s, 1, a)
             tail == SubSeq(s, b, n)
             front == head \o <<x>>
  <1>2. head \in Seq(S) /\ Len(head) = a /\ \A i \in 1..a : head[i] = s[i]
    <2>1. \A i \in 1..a : s[i] \in S /\ 1 + i - 1 = i
      BY <1>1
    <2>2. /\ head \in Seq(S) /\ Len(head) = IF 1 <= a THEN a - 1 + 1 ELSE 0
          /\ \A i \in 1..(a - 1 + 1) : head[i] = s[1 + i - 1]
      BY <2>1, SubSeqProperties
    <2>3. a - 1 + 1 = a /\ a >= 0
      OBVIOUS
    <2> QED
      BY <2>1, <2>2, <2>3
  <1>3. /\ tail \in Seq(S) /\ Len(tail) = n - b + 1
        /\ \A i \in 1..(n - b + 1) : tail[i] = s[b + i - 1]
    <2>1. \A i \in b..n : s[i] \in S
      BY <1>1
    <2>2. /\ tail \in Seq(S) /\ Len(tail) = IF b <= n THEN n - b + 1 ELSE 0
          /\ \A i \in 1..(n - b + 1) : tail[i] = s[b + i - 1]
      BY <2>1, SubSeqProperties
    <2>3. ~(b <= n) => n - b + 1 = 0
      OBVIOUS
    <2> QED
      BY <2>2, <2>3
  <1> HIDE DEF head, tail
  <1>4. /\ front \in Seq(S) /\ Len(front) = a + 1 /\ front[a + 1] = x
        /\ \A i \in 1..a : front[i] = s[i]
    <2>1. <<x>> \in Seq(S) /\ Len(<<x>>) = 1 /\ <<x>>[1] = x
      OBVIOUS
    <2>2. /\ front \in Seq(S) /\ Len(front) = a + 1
          /\ \A i \in 1..(a + 1) : front[i] = IF i <= a THEN head[i] ELSE <<x>>[i - a]
      BY <1>2, <2>1, ConcatProperties
    <2>3. a + 1 \in 1..(a + 1) /\ ~(a + 1 <= a) /\ (a + 1) - a = 1
      OBVIOUS
    <2>4. \A i \in 1..a : i \in 1..(a + 1) /\ i <= a
      OBVIOUS
    <2> QED
      BY <1>2, <2>1, <2>2, <2>3, <2>4
  <1> HIDE DEF front
  <1>5. /\ front \o tail \in Seq(S) /\ Len(front \o tail) = a + 2 + n - b
        /\ \A i \in 1..(a + 2 + n - b) :
             (front \o tail)[i] = IF i <= a + 1 THEN front[i] ELSE tail[i - (a + 1)]
    <2>1. Len(front) = a + 1 /\ Len(tail) = n - b + 1 /\ Len(front) + Len(tail) = a + 2 + n - b
      BY <1>3, <1>4
    <2>2. /\ front \o tail \in Seq(S) /\ Len(front \o tail) = Len(front) + Len(tail)
          /\ \A i \in 1..(Len(front) + Len(tail)) :
               (front \o tail)[i] = IF i <= Len(front) THEN front[i] ELSE tail[i - Len(front)]
      BY <1>3, <1>4, ConcatProperties
    <2> QED
      BY <2>1, <2>2
  <1>6. front \o tail = Spliced(s, a, x, b)
    BY DEF Spliced, front, head, tail
  <1>7. \A j \in (a + 2)..(a + 2 + n - b) :
          /\ j \in 1..(a + 2 + n - b) /\ ~(j <= a + 1)
          /\ j - (a + 1) \in 1..(n - b + 1) /\ b + (j - (a + 1)) - 1 = j + b - a - 2
    OBVIOUS
  <1>8. \A j \in 1..(a + 1) : j \in 1..(a + 2 + n - b) /\ j <= a + 1
    OBVIOUS
  <1>9. \A j \in 1..a : j \in 1..(a + 1)
    OBVIOUS
  <1>10. a + 1 \in 1..(a + 1)
    OBVIOUS
  <1> PICK r : r = front \o tail
    OBVIOUS
  <1>11. \A j \in (a + 2)..(a + 2 + n - b) : r[j] = s[j + b - a - 2]
    BY <1>3, <1>5, <1>7
  <1> QED
    BY <1>4, <1>5, <1>6, <1>8, <1>9, <1>10, <1>11 DEF IsSpliced

\* Without the i-th element.
IsWithout(r, S, s, i) ==
  /\ r \in Seq(S)
  /\ Len(r) = Len(s) - 1
  /\ \A j \in 1..(i - 1) : r[j] = s[j]
  /\ \A j \in i..(Len(s) - 1) : r[j] = s[j + 1]

LEMMA RemoveAtFacts ==
  ASSUME NEW S, NEW s \in Seq(S), NEW i \in 1..Len(s)
  PROVE  IsWithout(RemoveAt(s, i), S, s, i)
  <1> PICK n \in Nat : n = Len(s)
    OBVIOUS
  <1>1. \A j \in 1..n : s[j] \in S
    OBVIOUS
  <1> DEFINE head == SubSeq(s, 1, i - 1)
             tail == SubSeq(s, i + 1, n)
  <1>2. head \in Seq(S) /\ Len(head) = i - 1 /\ \A j \in 1..(i - 1) : head[j] = s[j]
    <2>1. \A j \in 1..(i - 1) : s[j] \in S /\ 1 + j - 1 = j
      BY <1>1
    <2>2. /\ head \in Seq(S) /\ Len(head) = IF 1 <= i - 1 THEN i - 1 - 1 + 1 ELSE 0
          /\ \A j \in 1..(i - 1 - 1 + 1) : head[j] = s[1 + j - 1]
      BY <2>1, SubSeqProperties
    <2>3. i - 1 - 1 + 1 = i - 1 /\ (~(1 <= i - 1) => i - 1 = 0)
      OBVIOUS
    <2> QED
      BY <2>1, <2>2, <2>3
  <1>3. /\ tail \in Seq(S) /\ Len(tail) = n - i
        /\ \A j \in 1..(n - i) : tail[j] = s[i + j]
    <2>1. \A j \in (i + 1)..n : s[j] \in S
      BY <1>1
    <2>2. /\ tail \in Seq(S) /\ Len(tail) = IF i + 1 <= n THEN n - (i + 1) + 1 ELSE 0
          /\ \A j \in 1..(n - (i + 1) + 1) : tail[j] = s[(i + 1) + j - 1]
      BY <2>1, SubSeqProperties
    <2>3. n - (i + 1) + 1 = n - i /\ (~(i + 1 <= n) => n - i = 0)
      OBVIOUS
    <2>4. \A j \in 1..(n - i) : (i + 1) + j - 1 = i + j
      OBVIOUS
    <2> QED
      BY <2>2, <2>3, <2>4
  <1> HIDE DEF head, tail
  <1>4. /\ head \o tail \in Seq(S) /\ Len(head \o tail) = n - 1
        /\ \A j \in 1..(n - 1) :
             (head \o tail)[j] = IF j <= i - 1 THEN head[j] ELSE tail[j - (i - 1)]
    <2>1. Len(head) + Len(tail) = n - 1
      BY <1>2, <1>3
    <2>2. /\ head \o tail \in Seq(S) /\ Len(head \o tail) = Len(head) + Len(tail)
          /\ \A j \in 1..(Len(head) + Len(tail)) :
               (head \o tail)[j] = IF j <= Len(head) THEN head[j] ELSE tail[j - Len(head)]
      BY <1>2, <1>3, ConcatProperties
    <2>3. Len(head) = i - 1
      BY <1>2
    <2> QED
      BY <2>1, <2>2, <2>3
  <1> PICK r : r = head \o tail
    OBVIOUS
  <1>5. r = RemoveAt(s, i)
    BY DEF RemoveAt, head, tail
  <1>6. \A j \in 1..(i - 1) : j \in 1..(n - 1) /\ j <= i - 1
    OBVIOUS
  <1>7. \A j \in i..(n - 1) : /\ j \in 1..(n - 1) /\ ~(j <= i - 1)
                              /\ j - (i - 1) \in 1..(n - i) /\ i + (j - (i - 1)) = j + 1
    OBVIOUS
  <1>8. \A j \in i..(n - 1) : r[j] = s[j + 1]
    BY <1>3, <1>4, <1>7
  <1> QED
    BY <1>2, <1>4, <1>5, <1>6, <1>8 DEF IsWithout

-----------------------------------------------------------------------------
(* One segment: its free extents, and the entries in it. *)

FreeExtent == [offset : 0..(SegmentSize - 1), length : 1..SegmentSize]

End(e) == e.offset + e.length
Has(e, b) == e.offset <= b /\ b < End(e)

\* Sorted extents below t that do not touch.
Coalesced(list, t) ==
  /\ list \in Seq(FreeExtent)
  /\ \A i \in 1..Len(list) : End(list[i]) <= t
  /\ \A i, j \in 1..Len(list) : i < j => End(list[i]) < list[j].offset

Holding(list, b) == \E i \in 1..Len(list) : Has(list[i], b)

\* Below t, each byte is free or in exactly one of the entries E.
SegmentOK(list, t, E) ==
  /\ t \in 1..SegmentSize
  /\ Coalesced(list, t)
  /\ \A e \in E : End(e) <= t
  /\ \A d, e \in E : \A b \in Nat : Has(d, b) /\ Has(e, b) => d = e
  /\ \A e \in E : \A b \in Nat : Has(e, b) => ~Holding(list, b)
  /\ \A b \in 0..(t - 1) : Holding(list, b) \/ \E e \in E : Has(e, b)

\* The extents around x stay, and x takes the place of those between.
LEMMA SpliceCoalesced ==
  ASSUME NEW t \in 1..SegmentSize, NEW list, Coalesced(list, t), NEW x \in FreeExtent,
         NEW a \in 0..Len(list), NEW b \in (a + 1)..(Len(list) + 1), End(x) <= t,
         \A j \in 1..a : End(list[j]) < x.offset,
         \A j \in b..Len(list) : End(x) < list[j].offset
  PROVE  /\ Coalesced(Spliced(list, a, x, b), t)
         /\ \A c : Holding(Spliced(list, a, x, b), c) <=>
              \/ Has(x, c)
              \/ \E j \in 1..Len(list) : (j <= a \/ b <= j) /\ Has(list[j], c)
  <1> PICK n \in Nat : n = Len(list)
    BY DEF Coalesced
  <1> PICK r : r = Spliced(list, a, x, b)
    OBVIOUS
  <1> DEFINE m == a + 2 + n - b
  <1>1. /\ list \in Seq(FreeExtent)
        /\ \A i \in 1..n : list[i] \in FreeExtent /\ End(list[i]) <= t
        /\ \A i, j \in 1..n : i < j => End(list[i]) < list[j].offset
    BY DEF Coalesced
  <1>2. /\ r \in Seq(FreeExtent) /\ Len(r) = m
        /\ \A j \in 1..a : r[j] = list[j]
        /\ r[a + 1] = x
        /\ \A j \in (a + 2)..m : r[j] = list[j + b - a - 2]
    <2>1. IsSpliced(Spliced(list, a, x, b), FreeExtent, list, a, x, b)
      BY <1>1, SpliceFacts
    <2> QED
      BY <2>1 DEF IsSpliced
  <1>0. a \in Nat /\ b \in Nat /\ a + 1 <= b /\ b <= n + 1
    OBVIOUS
  \* Where each element comes from.
  <1> DEFINE from(j) == IF j <= a THEN j ELSE j + b - a - 2
  <1>3. \A j \in 1..m : j # a + 1 => /\ from(j) \in 1..n /\ r[j] = list[from(j)]
                                     /\ j <= a => from(j) \in 1..a
                                     /\ j > a + 1 => from(j) \in b..n
    <2> SUFFICES ASSUME NEW j \in 1..m, j # a + 1
                 PROVE  /\ from(j) \in 1..n /\ r[j] = list[from(j)]
                        /\ j <= a => from(j) \in 1..a
                        /\ j > a + 1 => from(j) \in b..n
      OBVIOUS
    <2>1. CASE j <= a
      BY <1>2, <2>1
    <2>2. CASE j > a + 1
      <3>1. j \in (a + 2)..m /\ from(j) = j + b - a - 2 /\ from(j) \in b..n
        BY SMTT(30), <1>0, <2>2
      <3> QED
        BY <1>2, <3>1
    <2> QED
      BY <2>1, <2>2
  <1>4. \A i, j \in 1..m : i < j /\ i # a + 1 /\ j # a + 1 => from(i) < from(j)
    OBVIOUS
  <1> HIDE DEF m, from
  <1>5. m \in Nat /\ a + 1 \in 1..m
    BY DEF m
  <1>6. \A i \in 1..m : End(r[i]) <= t
    <2> SUFFICES ASSUME NEW i \in 1..m PROVE End(r[i]) <= t
      OBVIOUS
    <2>1. CASE i = a + 1
      BY <1>2, <2>1
    <2>2. CASE i # a + 1
      BY <1>1, <1>3, <2>2
    <2> QED
      BY <2>1, <2>2
  <1>7. ASSUME NEW i \in 1..m, NEW j \in 1..m, i < j PROVE End(r[i]) < r[j].offset
    <2>1. CASE i # a + 1 /\ j # a + 1
      <3>1. from(i) \in 1..n /\ from(j) \in 1..n /\ from(i) < from(j)
        BY <1>3, <1>4, <1>7, <2>1
      <3> QED
        BY <1>1, <1>3, <2>1, <3>1
    <2>2. CASE i = a + 1
      <3>1. j > a + 1 /\ j # a + 1
        BY <1>7, <2>2, <1>5
      <3>2. from(j) \in b..n /\ r[j] = list[from(j)] /\ r[i] = x
        BY <1>2, <1>3, <2>2, <3>1
      <3> QED
        BY <3>2
    <2>3. CASE j = a + 1
      <3>1. i <= a /\ i # a + 1
        BY <1>7, <2>3, <1>5
      <3>2. from(i) \in 1..a /\ r[i] = list[from(i)] /\ r[j] = x
        BY <1>2, <1>3, <2>3, <3>1
      <3> QED
        BY <3>2
    <2> QED
      BY <2>1, <2>2, <2>3
  <1>8. Coalesced(r, t)
    BY <1>2, <1>6, <1>7 DEF Coalesced
  <1>9. ASSUME NEW c, Holding(r, c)
        PROVE  \/ Has(x, c)
               \/ \E j \in 1..n : (j <= a \/ b <= j) /\ Has(list[j], c)
    <2>1. PICK i \in 1..m : Has(r[i], c)
      BY <1>2, <1>9 DEF Holding
    <2>2. CASE i = a + 1
      BY <1>2, <2>1, <2>2
    <2>3. CASE i # a + 1
      <3>1. from(i) \in 1..n /\ Has(list[from(i)], c)
        BY <1>3, <2>1, <2>3
      <3>2. i <= a \/ i > a + 1
        BY <2>3
      <3>3. from(i) <= a \/ b <= from(i)
        BY <1>3, <2>3, <3>2
      <3> QED
        BY <3>1, <3>3
    <2> QED
      BY <2>2, <2>3
  <1>10. ASSUME NEW c, Has(x, c) PROVE Holding(r, c)
    BY <1>2, <1>5, <1>10 DEF Holding
  <1>11. ASSUME NEW c, NEW j \in 1..n, j <= a \/ b <= j, Has(list[j], c) PROVE Holding(r, c)
    <2>1. CASE j <= a
      <3>1. j \in 1..m /\ j \in 1..a
        BY <2>1 DEF m
      <3> QED
        BY <1>2, <1>11, <3>1 DEF Holding
    <2>2. CASE b <= j
      <3> DEFINE i == j - b + a + 2
      <3>1. i \in 1..m /\ i \in (a + 2)..m /\ i + b - a - 2 = j
        BY <2>2 DEF m
      <3> HIDE DEF i
      <3>2. r[i] = list[j]
        BY <1>2, <3>1
      <3> QED
        BY <1>2, <1>11, <3>1, <3>2 DEF Holding
    <2> QED
      BY <1>11, <2>1, <2>2
  <1> QED
    BY <1>8, <1>9, <1>10, <1>11

LEMMA ExtentTypes ==
  ASSUME NEW list, NEW t, Coalesced(list, t)
  PROVE  /\ Len(list) \in Nat
         /\ \A i \in 1..Len(list) :
              /\ list[i] \in FreeExtent
              /\ list[i].offset \in Nat /\ list[i].length \in Nat \ {0}
              /\ End(list[i]) \in Nat /\ list[i].offset < End(list[i])
              /\ End(list[i]) <= t
  <1>1. /\ list \in Seq(FreeExtent)
        /\ \A i \in 1..Len(list) : list[i] \in FreeExtent /\ End(list[i]) <= t
    BY DEF Coalesced
  <1>2. \A x \in FreeExtent : /\ x.offset \in Nat /\ x.length \in Nat \ {0}
                              /\ End(x) \in Nat /\ x.offset < End(x)
    BY SizesAssumption DEF FreeExtent, End
  <1> QED
    BY <1>1, <1>2

LEMMA EntryTypes ==
  ASSUME NEW e \in Entry
  PROVE  /\ e.offset \in Nat /\ e.length \in 1..SegmentSize
         /\ End(e) \in Nat /\ End(e) = e.offset + e.length /\ e.offset < End(e)
         /\ Has(e, e.offset)
  BY SizesAssumption DEF Entry, End, Has

\* A byte lies in one free extent at most.
LEMMA ExtentsDisjoint ==
  ASSUME NEW list, NEW t, Coalesced(list, t), NEW i \in 1..Len(list), NEW j \in 1..Len(list),
         NEW b \in Nat, Has(list[i], b), Has(list[j], b)
  PROVE  i = j
  <1>1. i \in Nat /\ j \in Nat
    BY ExtentTypes
  <1>2. /\ End(list[i]) \in Nat /\ End(list[j]) \in Nat
        /\ list[i].offset \in Nat /\ list[j].offset \in Nat
    BY ExtentTypes
  <1>3. /\ i < j => End(list[i]) < list[j].offset
        /\ j < i => End(list[j]) < list[i].offset
    BY DEF Coalesced
  <1>4. /\ list[i].offset <= b /\ b < End(list[i])
        /\ list[j].offset <= b /\ b < End(list[j])
    BY DEF Has
  <1>5. /\ ~(End(list[i]) < list[j].offset)
        /\ ~(End(list[j]) < list[i].offset)
    BY <1>2, <1>4
  <1> QED
    BY <1>1, <1>3, <1>5

-----------------------------------------------------------------------------
(* What one operation does to a segment. *)

\* An entry in the bytes behind what was ever used.
LEMMA TailTaken ==
  ASSUME NEW list, NEW t, NEW E, SegmentOK(list, t, E), E \subseteq Entry,
         NEW at \in Entry, at.offset = t, End(at) <= SegmentSize
  PROVE  SegmentOK(list, End(at), E \cup {at})
  <1>1. /\ t \in 1..SegmentSize /\ at.offset \in Nat /\ at.length \in 1..SegmentSize
        /\ End(at) = t + at.length /\ End(at) \in 1..SegmentSize /\ t < End(at)
    BY SizesAssumption DEF SegmentOK, Entry, End
  <1>2. /\ \A i \in 1..Len(list) : End(list[i]) <= t
        /\ \A i \in 1..Len(list) : list[i].offset \in Nat /\ End(list[i]) \in Nat
        /\ \A e \in E : e.offset \in Nat /\ End(e) \in Nat /\ End(e) <= t
    <2>1. Coalesced(list, t) /\ \A e \in E : End(e) <= t /\ e \in Entry
      BY DEF SegmentOK
    <2> QED
      BY <2>1, ExtentTypes, EntryTypes
  <1>3. \A b \in Nat : Has(at, b) <=> t <= b /\ b < End(at)
    BY DEF Has
  <1>4. \A b \in Nat : Holding(list, b) => b < t
    BY <1>1, <1>2 DEF Holding, Has
  <1>5. \A b \in Nat : \A e \in E : Has(e, b) => b < t
    BY <1>1, <1>2 DEF Has
  <1>6. Coalesced(list, End(at))
    BY <1>1, <1>2 DEF SegmentOK, Coalesced
  <1>7. \A e \in E \cup {at} : End(e) <= End(at)
    BY <1>1, <1>2
  <1>8. \A d, e \in E \cup {at} : \A b \in Nat : Has(d, b) /\ Has(e, b) => d = e
    <2>1. \A d, e \in E : \A b \in Nat : Has(d, b) /\ Has(e, b) => d = e
      BY DEF SegmentOK
    <2>2. \A e \in E : \A b \in Nat : ~(Has(e, b) /\ Has(at, b))
      BY <1>1, <1>3, <1>5
    <2> QED
      BY <2>1, <2>2
  <1>9. \A e \in E \cup {at} : \A b \in Nat : Has(e, b) => ~Holding(list, b)
    <2>1. \A e \in E : \A b \in Nat : Has(e, b) => ~Holding(list, b)
      BY DEF SegmentOK
    <2>2. \A b \in Nat : Has(at, b) => ~Holding(list, b)
      BY <1>1, <1>3, <1>4
    <2> QED
      BY <2>1, <2>2
  <1>10. \A b \in 0..(End(at) - 1) : Holding(list, b) \/ \E e \in E \cup {at} : Has(e, b)
    <2> SUFFICES ASSUME NEW b \in 0..(End(at) - 1)
                 PROVE  Holding(list, b) \/ \E e \in E \cup {at} : Has(e, b)
      OBVIOUS
    <2>1. CASE b < t
      <3>1. b \in 0..(t - 1)
        BY <1>1, <2>1
      <3> QED
        BY <3>1 DEF SegmentOK
    <2>2. CASE t <= b
      <3>1. Has(at, b)
        BY <1>1, <1>3, <2>2
      <3> QED
        BY <3>1
    <2> QED
      BY <1>1, <2>1, <2>2
  <1> QED
    BY <1>1, <1>6, <1>7, <1>8, <1>9, <1>10 DEF SegmentOK

\* A segment that enters the registry.
LEMMA SegmentStarts ==
  ASSUME NEW at \in Entry, at.offset = 0, End(at) <= SegmentSize
  PROVE  SegmentOK(<<>>, End(at), {at})
  <1>1. at.length \in 1..SegmentSize /\ End(at) = at.length
    BY SizesAssumption DEF Entry, End
  <1>2. <<>> \in Seq(FreeExtent) /\ Len(<<>>) = 0
    OBVIOUS
  <1>3. Coalesced(<<>>, End(at))
    BY <1>2 DEF Coalesced
  <1>4. \A b \in Nat : ~Holding(<<>>, b)
    BY <1>2 DEF Holding
  <1>5. \A b \in 0..(End(at) - 1) : Has(at, b)
    BY <1>1, SizesAssumption DEF Has
  <1> QED
    BY <1>1, <1>3, <1>4, <1>5 DEF SegmentOK

\* The list without one extent.
LEMMA ExtentRemoved ==
  ASSUME NEW list, NEW t, Coalesced(list, t), NEW i \in 1..Len(list)
  PROVE  /\ Coalesced(RemoveAt(list, i), t)
         /\ \A b \in Nat : Holding(RemoveAt(list, i), b) <=>
                             Holding(list, b) /\ ~Has(list[i], b)
  <1> PICK n \in Nat : n = Len(list)
    BY ExtentTypes
  <1> PICK r : r = RemoveAt(list, i)
    OBVIOUS
  <1> DEFINE from(j) == IF j < i THEN j ELSE j + 1
  <1>1. /\ r \in Seq(FreeExtent) /\ Len(r) = n - 1
        /\ \A j \in 1..(n - 1) : from(j) \in 1..n /\ from(j) # i /\ r[j] = list[from(j)]
    <2>1. list \in Seq(FreeExtent)
      BY DEF Coalesced
    <2>2. /\ r \in Seq(FreeExtent) /\ Len(r) = n - 1
          /\ \A j \in 1..(i - 1) : r[j] = list[j]
          /\ \A j \in i..(n - 1) : r[j] = list[j + 1]
      <3>1. IsWithout(RemoveAt(list, i), FreeExtent, list, i)
        BY <2>1, RemoveAtFacts
      <3> QED
        BY <3>1 DEF IsWithout
    <2>3. \A j \in 1..(n - 1) : /\ j < i => j \in 1..(i - 1)
                                /\ ~(j < i) => j \in i..(n - 1)
      OBVIOUS
    <2>4. \A j \in 1..(n - 1) : from(j) \in 1..n /\ from(j) # i
      OBVIOUS
    <2> QED
      BY <2>2, <2>3, <2>4
  <1>2. \A j, k \in 1..(n - 1) : j < k => from(j) < from(k)
    OBVIOUS
  <1>3. \A k \in 1..n : k # i => \E j \in 1..(n - 1) : from(j) = k
    <2> SUFFICES ASSUME NEW k \in 1..n, k # i PROVE \E j \in 1..(n - 1) : from(j) = k
      OBVIOUS
    <2>1. CASE k < i
      <3>1. k \in 1..(n - 1) /\ from(k) = k
        BY <2>1
      <3> QED
        BY <3>1
    <2>2. CASE k > i
      <3>1. k - 1 \in 1..(n - 1) /\ from(k - 1) = k
        BY <2>2
      <3> QED
        BY <3>1
    <2> QED
      BY <2>1, <2>2
  <1> HIDE DEF from
  <1>4. Coalesced(r, t)
    <2>1. /\ \A k \in 1..n : End(list[k]) <= t
          /\ \A j, k \in 1..n : j < k => End(list[j]) < list[k].offset
      BY DEF Coalesced
    <2>2. \A j \in 1..(n - 1) : End(r[j]) <= t
      BY <1>1, <2>1
    <2>3. \A j, k \in 1..(n - 1) : j < k => End(r[j]) < r[k].offset
      BY <1>1, <1>2, <2>1
    <2> QED
      BY <1>1, <2>2, <2>3 DEF Coalesced
  <1>5. ASSUME NEW b \in Nat PROVE Holding(r, b) <=> Holding(list, b) /\ ~Has(list[i], b)
    <2>1. ASSUME Holding(r, b) PROVE Holding(list, b) /\ ~Has(list[i], b)
      <3>1. PICK j \in 1..(n - 1) : Has(r[j], b)
        BY <1>1, <2>1 DEF Holding
      <3>2. from(j) \in 1..n /\ from(j) # i /\ Has(list[from(j)], b)
        BY <1>1, <3>1
      <3> QED
        BY <3>2, ExtentsDisjoint DEF Holding
    <2>2. ASSUME Holding(list, b), ~Has(list[i], b) PROVE Holding(r, b)
      <3>1. PICK k \in 1..n : Has(list[k], b)
        BY <2>2 DEF Holding
      <3>2. k # i
        BY <2>2, <3>1
      <3>3. PICK j \in 1..(n - 1) : from(j) = k
        BY <1>3, <3>2
      <3> QED
        BY <1>1, <3>1, <3>3 DEF Holding
    <2> QED
      BY <2>1, <2>2
  <1> QED
    BY <1>4, <1>5

\* The list with the first bytes of one extent cut off.
LEMMA ExtentShortened ==
  ASSUME NEW list, NEW t, Coalesced(list, t), NEW i \in 1..Len(list),
         NEW x \in FreeExtent, End(x) = End(list[i]), list[i].offset < x.offset
  PROVE  /\ Coalesced(ReplaceAt(list, i, x), t)
         /\ \A b \in Nat : Holding(ReplaceAt(list, i, x), b) <=>
              Holding(list, b) /\ ~(list[i].offset <= b /\ b < x.offset)
  <1> PICK n \in Nat : n = Len(list)
    BY ExtentTypes
  <1> PICK r : r = ReplaceAt(list, i, x)
    OBVIOUS
  <1>1. /\ r \in Seq(FreeExtent) /\ Len(r) = n /\ r[i] = x
        /\ \A j \in 1..n : j # i => r[j] = list[j]
    BY DEF Coalesced, ReplaceAt
  <1>2. /\ x.offset \in Nat /\ list[i].offset \in Nat /\ End(x) \in Nat
        /\ \A j \in 1..n : End(list[j]) <= t
        /\ \A j \in 1..n : End(list[j]) \in Nat /\ list[j].offset \in Nat
    BY ExtentTypes DEF FreeExtent
  <1>3. \A j, k \in 1..n : j < k => End(list[j]) < list[k].offset
    BY DEF Coalesced
  <1>4. \A j, k \in 1..n : j < k => End(r[j]) < r[k].offset
    <2> SUFFICES ASSUME NEW j \in 1..n, NEW k \in 1..n, j < k
                 PROVE  End(r[j]) < r[k].offset
      OBVIOUS
    <2>1. End(r[j]) = End(list[j])
      BY <1>1
    <2>2. list[k].offset <= r[k].offset /\ r[k].offset \in Nat
      BY <1>1, <1>2
    <2>3. End(list[j]) < list[k].offset
      BY <1>3
    <2> QED
      BY <1>2, <2>1, <2>2, <2>3
  <1>5. \A j \in 1..n : End(r[j]) <= t
    BY <1>1, <1>2
  <1>6. Coalesced(r, t)
    BY <1>1, <1>4, <1>5 DEF Coalesced
  <1>7. ASSUME NEW b \in Nat
        PROVE  Holding(r, b) <=> Holding(list, b) /\ ~(list[i].offset <= b /\ b < x.offset)
    <2>1. Has(x, b) <=> Has(list[i], b) /\ ~(list[i].offset <= b /\ b < x.offset)
      BY <1>2 DEF Has
    <2>2. list[i].offset <= b /\ b < x.offset => Has(list[i], b)
      <3>1. x.offset < End(x)
        BY SizesAssumption DEF FreeExtent, End
      <3> QED
        BY <1>2, <3>1 DEF Has
    <2>3. ASSUME Holding(r, b)
          PROVE  Holding(list, b) /\ ~(list[i].offset <= b /\ b < x.offset)
      <3>1. PICK j \in 1..n : Has(r[j], b)
        BY <1>1, <2>3 DEF Holding
      <3>2. CASE j = i
        BY <1>1, <2>1, <3>1, <3>2 DEF Holding
      <3>3. CASE j # i
        <4>1. Has(list[j], b)
          BY <1>1, <3>1, <3>3
        <4>2. ~Has(list[i], b)
          BY <3>3, <4>1, ExtentsDisjoint
        <4> QED
          BY <2>2, <4>1, <4>2 DEF Holding
      <3> QED
        BY <3>2, <3>3
    <2>4. ASSUME Holding(list, b), ~(list[i].offset <= b /\ b < x.offset)
          PROVE  Holding(r, b)
      <3>1. PICK j \in 1..n : Has(list[j], b)
        BY <2>4 DEF Holding
      <3>2. Has(r[j], b)
        BY <1>1, <2>1, <2>4, <3>1
      <3> QED
        BY <1>1, <3>2 DEF Holding
    <2> QED
      BY <2>3, <2>4
  <1> QED
    BY <1>6, <1>7

\* An entry in bytes that were free.
LEMMA FreeTaken ==
  ASSUME NEW list, NEW t, NEW E, SegmentOK(list, t, E), E \subseteq Entry,
         NEW at \in Entry, End(at) <= t,
         \A b \in Nat : Has(at, b) => Holding(list, b),
         NEW new, Coalesced(new, t),
         \A b \in Nat : Holding(new, b) <=> Holding(list, b) /\ ~Has(at, b)
  PROVE  SegmentOK(new, t, E \cup {at}) /\ at \notin E
  <1>1. \A e \in E : \A b \in Nat : ~(Has(e, b) /\ Has(at, b))
    BY DEF SegmentOK
  <1>2. at \notin E
    BY <1>1, EntryTypes
  <1>3. \A d, e \in E \cup {at} : \A b \in Nat : Has(d, b) /\ Has(e, b) => d = e
    BY <1>1 DEF SegmentOK
  <1>4. \A e \in E \cup {at} : \A b \in Nat : Has(e, b) => ~Holding(new, b)
    BY DEF SegmentOK
  <1>5. \A b \in 0..(t - 1) : Holding(new, b) \/ \E e \in E \cup {at} : Has(e, b)
    <2>1. \A b \in 0..(t - 1) : b \in Nat
      OBVIOUS
    <2> QED
      BY <2>1 DEF SegmentOK
  <1> QED
    BY <1>2, <1>3, <1>4, <1>5 DEF SegmentOK

\* An entry in the first bytes of a free extent: Cut.
CutList(list, i, size) ==
  IF list[i].length = size THEN RemoveAt(list, i)
  ELSE ReplaceAt(list, i, [offset |-> list[i].offset + size, length |-> list[i].length - size])

HoleFits(list, t, E, i, at) ==
  /\ SegmentOK(list, t, E) /\ E \subseteq Entry
  /\ i \in 1..Len(list)
  /\ at \in Entry /\ at.offset = list[i].offset /\ at.length <= list[i].length

LEMMA HoleTaken ==
  ASSUME NEW list, NEW t, NEW E, NEW i, NEW at, HoleFits(list, t, E, i, at)
  PROVE  /\ at \notin E
         /\ SegmentOK(CutList(list, i, at.length), t, E \cup {at})
  <1> /\ SegmentOK(list, t, E) /\ E \subseteq Entry
      /\ i \in 1..Len(list)
      /\ at \in Entry /\ at.offset = list[i].offset /\ at.length <= list[i].length
    BY DEF HoleFits
  <1>1. Coalesced(list, t)
    BY DEF SegmentOK
  <1>2. /\ list[i] \in FreeExtent /\ list[i].offset \in Nat /\ list[i].length \in Nat
        /\ End(list[i]) = list[i].offset + list[i].length /\ End(list[i]) <= t
    BY <1>1, ExtentTypes DEF End
  <1>3. /\ at.offset \in Nat /\ at.length \in 1..SegmentSize
        /\ End(at) = at.offset + at.length /\ at.offset < End(at) /\ End(at) \in Nat
    BY EntryTypes
  <1>4. t \in 1..SegmentSize /\ t \in Nat
    BY SizesAssumption DEF SegmentOK
  <1>5. End(at) <= End(list[i]) /\ End(at) <= t
    BY <1>2, <1>3, <1>4
  <1>6. \A b \in Nat : Has(at, b) => Has(list[i], b)
    BY <1>2, <1>3, <1>5 DEF Has
  <1>7. \A b \in Nat : Has(at, b) => Holding(list, b)
    BY <1>6 DEF Holding
  <1>8. at \notin E
    BY <1>7, EntryTypes DEF SegmentOK
  <1>9. ASSUME at.length = list[i].length
        PROVE  SegmentOK(RemoveAt(list, i), t, E \cup {at})
    <2>1. \A b : Has(at, b) <=> Has(list[i], b)
      BY <1>2, <1>3, <1>9 DEF Has
    <2>2. /\ Coalesced(RemoveAt(list, i), t)
          /\ \A b \in Nat : Holding(RemoveAt(list, i), b) <=>
                              Holding(list, b) /\ ~Has(list[i], b)
      BY <1>1, ExtentRemoved
    <2>3. \A b \in Nat : Holding(RemoveAt(list, i), b) <=> Holding(list, b) /\ ~Has(at, b)
      BY <2>1, <2>2
    <2> QED
      BY <1>5, <1>7, <2>2, <2>3, FreeTaken
  <1>10. ASSUME at.length # list[i].length,
                NEW x, x = [offset |-> list[i].offset + at.length,
                            length |-> list[i].length - at.length]
         PROVE  SegmentOK(ReplaceAt(list, i, x), t, E \cup {at})
    <2>1. /\ x \in FreeExtent /\ End(x) = End(list[i]) /\ list[i].offset < x.offset
          /\ x.offset = End(at)
      <3>1. at.length < list[i].length
        BY <1>2, <1>3, <1>10
      <3>2. /\ x.offset = list[i].offset + at.length
            /\ x.length = list[i].length - at.length
        BY <1>10
      <3>3. /\ x.offset \in 0..(SegmentSize - 1) /\ x.length \in 1..SegmentSize
            /\ x.offset + x.length = End(list[i]) /\ list[i].offset < x.offset
            /\ x.offset = End(at)
        <4>1. PICK p \in Nat, q \in Nat, u \in Nat :
                p = list[i].offset /\ q = list[i].length /\ u = at.length
          BY <1>2, <1>3
        <4>2. /\ x.offset = p + u /\ x.length = q - u /\ u < q /\ p + q <= t /\ u >= 1
              /\ End(list[i]) = p + q /\ End(at) = p + u
          BY <1>2, <1>3, <3>1, <3>2, <4>1
        <4>3. p + u \in 0..(SegmentSize - 1) /\ q - u \in 1..SegmentSize
          BY <1>4, <4>2, SizesAssumption
        <4>4. (p + u) + (q - u) = p + q /\ p < p + u
          BY <4>2
        <4> QED
          BY <4>1, <4>2, <4>3, <4>4
      <3> QED
        BY <1>10, <3>3 DEF FreeExtent, End
    <2>2. /\ Coalesced(ReplaceAt(list, i, x), t)
          /\ \A b \in Nat : Holding(ReplaceAt(list, i, x), b) <=>
               Holding(list, b) /\ ~(list[i].offset <= b /\ b < x.offset)
      BY <1>1, <2>1, ExtentShortened
    <2>3. \A b : Has(at, b) <=> list[i].offset <= b /\ b < x.offset
      BY <2>1 DEF Has
    <2>4. \A b \in Nat : Holding(ReplaceAt(list, i, x), b) <=>
            Holding(list, b) /\ ~Has(at, b)
      BY <2>2, <2>3
    <2> QED
      BY <1>5, <1>7, <2>2, <2>4, FreeTaken
  <1> QED
    BY <1>8, <1>9, <1>10 DEF CutList

\* The bytes of an entry become free.
LEMMA EntryGone ==
  ASSUME NEW list, NEW t, NEW E, SegmentOK(list, t, E), NEW e \in E,
         NEW new, Coalesced(new, t),
         \A b \in Nat : Holding(new, b) <=> Holding(list, b) \/ Has(e, b)
  PROVE  SegmentOK(new, t, E \ {e})
  <1>1. \A d \in E \ {e} : \A b \in Nat : Has(d, b) => ~Holding(new, b)
    BY DEF SegmentOK
  <1>2. \A b \in 0..(t - 1) : Holding(new, b) \/ \E d \in E \ {e} : Has(d, b)
    <2>1. \A b \in 0..(t - 1) : b \in Nat /\ (Holding(list, b) \/ \E d \in E : Has(d, b))
      BY DEF SegmentOK
    <2> QED
      BY <2>1
  <1> QED
    BY <1>1, <1>2 DEF SegmentOK

\* Where Merged puts extent x: before the i-th, with its neighbours.
Meets(d, e) == End(d) = e.offset
PrevJoins(list, x, i) == i > 1 /\ Meets(list[i - 1], x)
NextJoins(list, x, i) == i <= Len(list) /\ Meets(x, list[i])
Joined(list, x, i) ==
  [offset |-> IF PrevJoins(list, x, i) THEN list[i - 1].offset ELSE x.offset,
   length |-> x.length + (IF NextJoins(list, x, i) THEN list[i].length ELSE 0)
                       + (IF PrevJoins(list, x, i) THEN list[i - 1].length ELSE 0)]

LEMMA MergedPlace ==
  ASSUME NEW list, NEW t, Coalesced(list, t), NEW x \in FreeExtent
  PROVE  \E i \in 1..(Len(list) + 1) :
           /\ \A j \in 1..(i - 1) : list[j].offset <= x.offset
           /\ i <= Len(list) => list[i].offset > x.offset
           /\ Merged(list, x) = Spliced(list, IF PrevJoins(list, x, i) THEN i - 2 ELSE i - 1,
                                        Joined(list, x, i),
                                        IF NextJoins(list, x, i) THEN i + 1 ELSE i)
  <1> PICK n \in Nat : n = Len(list)
    BY ExtentTypes
  <1> DEFINE I == {j \in 1..n : list[j].offset > x.offset}
             found == IF I # {} THEN Min(I) ELSE 0
             i == IF found = 0 THEN n + 1 ELSE found
  <1>1. I = {} => found = 0
    OBVIOUS
  <1>2. I # {} => found \in I /\ \A j \in I : found <= j
    <2> SUFFICES ASSUME I # {} PROVE Min(I) \in I /\ \A j \in I : Min(I) <= j
      OBVIOUS
    <2>1. I \in SUBSET Nat
      OBVIOUS
    <2> HIDE DEF I
    <2>2. \E m \in I : \A j \in I : m <= j
      BY <2>1, LeastNumber
    <2> QED
      BY <2>2 DEF Min
  <1>3. \A j \in 1..n : list[j].offset \in Nat
    BY ExtentTypes
  <1>4. x.offset \in Nat
    BY SizesAssumption DEF FreeExtent
  <1>5. \A j \in I : j \in 1..n /\ list[j].offset > x.offset
    OBVIOUS
  <1>6. \A j \in 1..n : j \notin I => list[j].offset <= x.offset
    BY <1>3, <1>4
  <1>7. Merged(list, x) = Spliced(list, IF PrevJoins(list, x, i) THEN i - 2 ELSE i - 1,
                                  Joined(list, x, i),
                                  IF NextJoins(list, x, i) THEN i + 1 ELSE i)
    BY DEF Merged, SelectInSeq, Spliced, PrevJoins, NextJoins, Joined, Meets, End
  <1> HIDE DEF I
  <1>8. i \in 1..(n + 1) /\ (i <= n => i \in I)
    BY <1>1, <1>2, <1>5
  <1>9. \A j \in 1..(i - 1) : j \in 1..n /\ j \notin I
    BY SMTT(30), <1>1, <1>2, <1>5, <1>8
  <1> HIDE DEF i
  <1> QED
    BY <1>5, <1>6, <1>7, <1>8, <1>9

\* Freed bytes next to free extents join them.
LEMMA MergedFacts ==
  ASSUME NEW list, NEW t \in 1..SegmentSize, Coalesced(list, t), NEW x \in FreeExtent, End(x) <= t,
         \A b \in Nat : Has(x, b) => ~Holding(list, b)
  PROVE  /\ Coalesced(Merged(list, x), t)
         /\ \A b \in Nat : Holding(Merged(list, x), b) <=> Holding(list, b) \/ Has(x, b)
  <1> PICK n \in Nat : n = Len(list)
    BY ExtentTypes
  <1>1. /\ \A j \in 1..n : /\ list[j] \in FreeExtent
                           /\ list[j].offset \in Nat /\ list[j].length \in Nat \ {0}
                           /\ End(list[j]) \in Nat /\ list[j].offset < End(list[j])
                           /\ End(list[j]) <= t
                           /\ End(list[j]) = list[j].offset + list[j].length
    BY ExtentTypes DEF End
  <1>2. /\ x.offset \in Nat /\ x.length \in Nat \ {0} /\ End(x) \in Nat
        /\ x.offset < End(x) /\ End(x) = x.offset + x.length
    BY SizesAssumption DEF FreeExtent, End
  <1>3. \A j, k \in 1..n : j < k => End(list[j]) < list[k].offset
    BY DEF Coalesced
  <1>4. PICK i \in 1..(n + 1) :
          /\ \A j \in 1..(i - 1) : list[j].offset <= x.offset
          /\ i <= n => list[i].offset > x.offset
          /\ Merged(list, x) = Spliced(list, IF PrevJoins(list, x, i) THEN i - 2 ELSE i - 1,
                                       Joined(list, x, i),
                                       IF NextJoins(list, x, i) THEN i + 1 ELSE i)
    BY MergedPlace
  <1> DEFINE prev == PrevJoins(list, x, i)
             next == NextJoins(list, x, i)
             y == Joined(list, x, i)
             a == IF prev THEN i - 2 ELSE i - 1
             b == IF next THEN i + 1 ELSE i
  \* Everything before i ends where x begins at the latest, and likewise behind.
  <1>5. ASSUME NEW j \in 1..(i - 1) PROVE End(list[j]) <= x.offset
    <2>1. j \in 1..n
      OBVIOUS
    <2>2. ASSUME x.offset < End(list[j]) PROVE FALSE
      <3>1. Has(list[j], x.offset)
        BY <1>4, <2>2 DEF Has
      <3>2. Holding(list, x.offset)
        BY <2>1, <3>1 DEF Holding
      <3>3. Has(x, x.offset)
        BY <1>2 DEF Has
      <3> QED
        BY <1>2, <3>2, <3>3
    <2> QED
      BY <1>1, <1>2, <2>1, <2>2
  <1>6. ASSUME NEW j \in i..n PROVE End(x) <= list[j].offset
    <2>1. j \in 1..n /\ i \in 1..n
      OBVIOUS
    <2>2. x.offset < list[j].offset
      <3>1. CASE j = i
        BY <1>4, <3>1
      <3>2. CASE i < j
        <4>1. x.offset < list[i].offset
          BY <1>4, <2>1
        <4>2. End(list[i]) < list[j].offset
          BY <1>3, <2>1, <3>2
        <4> QED
          BY SMTT(30), <1>1, <1>2, <2>1, <4>1, <4>2
      <3> QED
        BY <3>1, <3>2
    <2>3. ASSUME list[j].offset < End(x) PROVE FALSE
      <3>1. Has(x, list[j].offset)
        BY <1>1, <1>2, <2>1, <2>2, <2>3 DEF Has
      <3>2. Has(list[j], list[j].offset)
        BY <1>1, <2>1 DEF Has
      <3>3. Holding(list, list[j].offset)
        BY <2>1, <3>2 DEF Holding
      <3> QED
        BY <1>1, <2>1, <3>1, <3>3
    <2> QED
      BY <1>1, <1>2, <2>1, <2>3
  <1>7. /\ prev => i - 1 \in 1..n /\ i - 1 \in 1..(i - 1) /\ End(list[i - 1]) = x.offset
        /\ ~prev /\ i > 1 => End(list[i - 1]) # x.offset
    BY DEF PrevJoins, Meets
  <1>8. /\ next => i \in 1..n /\ End(x) = list[i].offset
        /\ ~next /\ i <= n => End(x) # list[i].offset
    BY DEF NextJoins, Meets
  <1>9. /\ y.offset = IF prev THEN list[i - 1].offset ELSE x.offset
        /\ y.length = x.length + (IF next THEN list[i].length ELSE 0)
                               + (IF prev THEN list[i - 1].length ELSE 0)
        /\ y = [offset |-> y.offset, length |-> y.length]
    BY DEF Joined
  <1>10. /\ a = IF prev THEN i - 2 ELSE i - 1
         /\ b = IF next THEN i + 1 ELSE i
    OBVIOUS
  <1>11. a \in 0..n /\ b \in (a + 1)..(n + 1)
    BY <1>7, <1>8
  <1> HIDE DEF prev, next, y, a, b
  <1>12. /\ y.offset \in Nat /\ y.length \in Nat
         /\ End(y) = IF next THEN End(list[i]) ELSE End(x)
    <2>1. End(y) = y.offset + y.length
      BY DEF End
    <2>2. prev => /\ list[i - 1].offset \in Nat /\ list[i - 1].length \in Nat
                  /\ list[i - 1].offset + list[i - 1].length = x.offset
      BY <1>1, <1>7
    <2>3. next => /\ list[i].offset \in Nat /\ list[i].length \in Nat
                  /\ list[i].offset + list[i].length = End(list[i])
                  /\ x.offset + x.length = list[i].offset
      BY <1>1, <1>2, <1>8
    <2>4. CASE next
      <3>1. y.length = x.length + list[i].length + (IF prev THEN list[i - 1].length ELSE 0)
        BY <1>9, <2>4
      <3>2. CASE prev
        <4>1. y.length = x.length + list[i].length + list[i - 1].length
          BY <3>1, <3>2
        <4>2. y.offset = list[i - 1].offset
          BY <1>9, <3>2
        <4>3. PICK p \in Nat, q \in Nat, u \in Nat, z \in Nat :
                p = list[i - 1].offset /\ q = list[i - 1].length /\ u = x.length /\ z = list[i].length
          BY <1>2, <2>2, <2>3, <2>4, <3>2
        <4>4. p + q + u + z = End(list[i])
          BY <2>2, <2>3, <2>4, <3>2, <4>3
        <4>5. y.offset = p /\ y.length = u + z + q
          BY <4>1, <4>2, <4>3
        <4>6. y.offset + y.length = p + q + u + z /\ y.offset \in Nat /\ y.length \in Nat
          BY <4>5
        <4> QED
          BY <2>1, <2>4, <4>4, <4>6
      <3>3. CASE ~prev
        <4>1. y.length = x.length + list[i].length
          BY <1>2, <2>3, <2>4, <3>1, <3>3
        <4> QED
          BY SMTT(30), <1>2, <1>9, <2>1, <2>3, <2>4, <3>3, <4>1
      <3> QED
        BY <3>2, <3>3
    <2>5. CASE ~next
      <3>1. y.length = x.length + (IF prev THEN list[i - 1].length ELSE 0)
        BY <1>2, <1>9, <2>2, <2>5
      <3> QED
        BY SMTT(30), <1>2, <1>9, <2>1, <2>2, <2>5, <3>1
    <2> QED
      BY <2>4, <2>5
  <1>13. y.offset <= x.offset /\ End(x) <= End(y) /\ End(y) <= t /\ End(y) \in Nat
    <2>1. y.offset <= x.offset
      BY <1>1, <1>2, <1>7, <1>9
    <2>2. End(x) <= End(y) /\ End(y) <= t /\ End(y) \in Nat
      BY <1>1, <1>2, <1>8, <1>12
    <2> QED
      BY <2>1, <2>2
  <1>14. y \in FreeExtent
    <2>1. End(y) = y.offset + y.length /\ y.offset < End(y)
      BY <1>2, <1>12, <1>13 DEF End
    <2>2. y.offset \in 0..(SegmentSize - 1) /\ y.length \in 1..SegmentSize
      BY <1>12, <1>13, <2>1, SizesAssumption
    <2> QED
      BY <1>9, <2>2 DEF FreeExtent
  <1>15. ASSUME NEW j \in 1..a PROVE End(list[j]) < y.offset
    <2>1. j \in 1..n /\ j \in 1..(i - 1)
      BY <1>10, <1>11
    <2>2. CASE prev
      <3>1. j < i - 1
        BY <1>10, <2>2
      <3> QED
        BY <1>3, <1>7, <1>9, <2>1, <2>2, <3>1
    <2>3. CASE ~prev
      <3>1. End(list[j]) <= x.offset
        BY <1>5, <2>1
      <3>2. CASE j = i - 1
        BY <1>1, <1>2, <1>7, <1>9, <2>1, <2>3, <3>1, <3>2
      <3>3. CASE j < i - 1
        <4>1. i - 1 \in 1..n /\ i - 1 \in 1..(i - 1)
          BY <2>1
        <4>2. End(list[j]) < list[i - 1].offset /\ End(list[i - 1]) <= x.offset
          BY <1>3, <1>5, <2>1, <3>3, <4>1
        <4> QED
          BY SMTT(30), <1>1, <1>2, <1>9, <2>1, <2>3, <4>1, <4>2
      <3> QED
        BY <2>1, <3>2, <3>3
    <2> QED
      BY <2>2, <2>3
  <1>16. ASSUME NEW j \in b..n PROVE End(y) < list[j].offset
    <2>1. j \in 1..n /\ j \in i..n
      BY <1>10, <1>11
    <2>2. CASE next
      <3>1. i < j
        BY <1>10, <2>2
      <3> QED
        BY <1>3, <1>8, <1>12, <2>1, <2>2, <3>1
    <2>3. CASE ~next
      <3>1. End(x) <= list[j].offset
        BY <1>6, <2>1
      <3>2. CASE j = i
        BY <1>1, <1>2, <1>8, <1>12, <2>1, <2>3, <3>1, <3>2
      <3>3. CASE i < j
        <4>1. i \in 1..n /\ i \in i..n
          BY <2>1
        <4>2. End(list[i]) < list[j].offset /\ End(x) <= list[i].offset
          BY <1>3, <1>6, <2>1, <3>3, <4>1
        <4> QED
          BY SMTT(30), <1>1, <1>2, <1>12, <2>1, <2>3, <4>1, <4>2
      <3> QED
        BY <2>1, <3>2, <3>3
    <2> QED
      BY <2>2, <2>3
  <1> PICK r : r = Spliced(list, a, y, b)
    OBVIOUS
  <1>17. r = Merged(list, x)
    BY <1>4 DEF prev, next, y, a, b
  <1>18. /\ Coalesced(r, t)
         /\ \A c : Holding(r, c) <=>
              \/ Has(y, c)
              \/ \E j \in 1..n : (j <= a \/ b <= j) /\ Has(list[j], c)
    <2>1. /\ a \in 0..Len(list) /\ b \in (a + 1)..(Len(list) + 1) /\ End(y) <= t
          /\ \A j \in 1..a : End(list[j]) < y.offset
          /\ \A j \in b..Len(list) : End(y) < list[j].offset
      BY <1>11, <1>13, <1>15, <1>16
    <2> QED
      BY <1>14, <2>1, SpliceCoalesced
  <1>19. ASSUME NEW c \in Nat PROVE Holding(r, c) <=> Holding(list, c) \/ Has(x, c)
    <2>1. Has(y, c) <=> \/ Has(x, c)
                        \/ prev /\ Has(list[i - 1], c)
                        \/ next /\ Has(list[i], c)
      <3>1. Has(y, c) <=> y.offset <= c /\ c < End(y)
        BY DEF Has
      <3>2. Has(x, c) <=> x.offset <= c /\ c < End(x)
        BY DEF Has
      <3>3. prev => (Has(list[i - 1], c) <=> y.offset <= c /\ c < x.offset)
        BY <1>7, <1>9 DEF Has
      <3>4. next => (Has(list[i], c) <=> End(x) <= c /\ c < End(y))
        BY <1>8, <1>12 DEF Has
      <3>5. /\ ~prev => y.offset = x.offset
            /\ ~next => End(y) = End(x)
        BY <1>9, <1>12
      <3> QED
        BY <1>2, <1>12, <1>13, <3>1, <3>2, <3>3, <3>4, <3>5
    <2>2. \A j \in 1..n : \/ j <= a \/ b <= j
                          \/ prev /\ j = i - 1
                          \/ next /\ j = i
      BY <1>10
    <2>3. /\ prev => i - 1 \in 1..n
          /\ next => i \in 1..n
      BY <1>7, <1>8
    <2> QED
      BY <1>18, <2>1, <2>2, <2>3 DEF Holding
  <1> QED
    BY <1>17, <1>18, <1>19

-----------------------------------------------------------------------------
(* The bytes in use. *)

\* The recursive function of Lengths exists: the least domain 0..m on which there
\* were none would extend that of m - 1.
LEMMA LengthsAt ==
  ASSUME NEW list, NEW n \in Nat, n = Len(list)
  PROVE  /\ Lengths(list)[0] = 0
         /\ \A i \in 1..n : Lengths(list)[i] = Lengths(list)[i - 1] + list[i].length
  <1> DEFINE Sums(f, m) == f = [i \in 0..m |-> IF i = 0 THEN 0 ELSE f[i - 1] + list[i].length]
             none == {m \in 0..n : ~\E f : Sums(f, m)}
  <1>1. none = {}
    <2> SUFFICES ASSUME none # {} PROVE FALSE
      OBVIOUS
    <2>1. none \in SUBSET Nat
      OBVIOUS
    <2>2. PICK m \in none : \A k \in none : m <= k
      <3> HIDE DEF none
      <3> QED
        BY <2>1, LeastNumber
    <2>3. m # 0
      <3>1. Sums([i \in 0..0 |-> 0], 0)
        OBVIOUS
      <3> QED
        BY <3>1
    <2>4. PICK f : Sums(f, m - 1)
      <3>1. m - 1 \in 0..n /\ ~(m <= m - 1)
        BY <2>3
      <3> QED
        BY <2>2, <3>1
    <2> DEFINE g == [i \in 0..m |-> IF i = m THEN f[m - 1] + list[m].length ELSE f[i]]
    <2>5. Sums(g, m)
      <3>1. m \in 1..n /\ m - 1 \in 0..m
        BY <2>3
      <3>2. \A i \in 0..m : i # m =>
              i \in 0..(m - 1) /\ (i # 0 => i - 1 \in 0..(m - 1) /\ i - 1 # m /\ i - 1 \in 0..m)
        OBVIOUS
      <3>3. \A i \in 0..(m - 1) : f[i] = IF i = 0 THEN 0 ELSE f[i - 1] + list[i].length
        BY <2>4
      <3>4. g[m] = g[m - 1] + list[m].length
        BY <3>1
      <3>5. \A i \in 0..m : i # m => g[i] = IF i = 0 THEN 0 ELSE g[i - 1] + list[i].length
        BY <3>2, <3>3
      <3>6. g = [i \in 0..m |-> g[i]]
        OBVIOUS
      <3> HIDE DEF g
      <3>7. \A i \in 0..m : g[i] = IF i = 0 THEN 0 ELSE g[i - 1] + list[i].length
        BY <2>3, <3>4, <3>5
      <3> QED
        BY <3>6, <3>7
    <2> QED
      BY <2>5
  <1>2. PICK f : Sums(f, n)
    BY <1>1
  <1>3. Sums(Lengths(list), n)
    BY <1>2 DEF Lengths
  <1>4. \A i \in 0..n : Lengths(list)[i] =
          IF i = 0 THEN 0 ELSE Lengths(list)[i - 1] + list[i].length
    BY <1>3
  <1> QED
    BY <1>4

LEMMA LengthsBounded ==
  ASSUME NEW list, NEW t \in 1..SegmentSize, Coalesced(list, t)
  PROVE  /\ \A i \in 0..Len(list) : Lengths(list)[i] \in Nat
         /\ \A i \in 1..Len(list) : Lengths(list)[i] <= End(list[i])
  <1> PICK n \in Nat : n = Len(list)
    BY ExtentTypes
  <1> DEFINE sum == Lengths(list)
             good(i) == sum[i] \in Nat /\ (i # 0 => sum[i] <= End(list[i]))
             bad == {i \in 0..n : ~good(i)}
  <1>1. /\ \A i \in 1..n : /\ list[i].offset \in Nat /\ list[i].length \in Nat
                           /\ End(list[i]) \in Nat
                           /\ End(list[i]) = list[i].offset + list[i].length
        /\ \A i, j \in 1..n : i < j => End(list[i]) < list[j].offset
    BY ExtentTypes DEF End, Coalesced
  <1>2. sum[0] = 0 /\ \A i \in 1..n : sum[i] = sum[i - 1] + list[i].length
    BY LengthsAt
  <1> HIDE DEF sum
  <1>3. bad = {}
    <2> SUFFICES ASSUME bad # {} PROVE FALSE
      OBVIOUS
    <2>1. bad \in SUBSET Nat
      OBVIOUS
    <2>2. PICK m \in bad : \A k \in bad : m <= k
      <3> HIDE DEF bad
      <3> QED
        BY <2>1, LeastNumber
    <2>3. m # 0
      BY <1>2, <2>2
    <2>4. m \in 1..n /\ m - 1 \in 0..n /\ ~(m <= m - 1)
      BY <2>3
    <2>5. good(m - 1)
      BY <2>2, <2>4
    <2>6. sum[m] = sum[m - 1] + list[m].length /\ sum[m - 1] \in Nat
      BY <1>2, <2>4, <2>5
    <2>7. sum[m - 1] <= list[m].offset
      <3>1. CASE m = 1
        BY <1>1, <1>2, <2>4, <3>1
      <3>2. CASE m # 1
        <4>1. m - 1 \in 1..n /\ m - 1 < m
          BY <2>4, <3>2
        <4>2. sum[m - 1] <= End(list[m - 1]) /\ End(list[m - 1]) < list[m].offset
          BY <1>1, <2>4, <2>5, <4>1
        <4> QED
          BY <1>1, <2>4, <2>6, <4>1, <4>2
      <3> QED
        BY <3>1, <3>2
    <2>8. sum[m] \in Nat /\ sum[m] <= End(list[m])
      BY <1>1, <2>4, <2>6, <2>7
    <2> QED
      BY <2>8
  <1> QED
    BY <1>3 DEF sum

\* No byte of a segment is in use exactly when no entry is left in it.
LEMMA UsedIsZero ==
  ASSUME NEW list, NEW t, NEW E, SegmentOK(list, t, E), E \subseteq Entry
  PROVE  t - Lengths(list)[Len(list)] = 0 <=> E = {}
  <1> PICK n \in Nat : n = Len(list)
    BY ExtentTypes DEF SegmentOK
  <1> DEFINE sum == Lengths(list)
  <1>0. Coalesced(list, t) /\ t \in 1..SegmentSize
    BY DEF SegmentOK
  <1>1. /\ \A i \in 1..n : /\ list[i].offset \in Nat /\ list[i].length \in Nat \ {0}
                           /\ End(list[i]) \in Nat /\ list[i].offset < End(list[i])
                           /\ End(list[i]) <= t
                           /\ End(list[i]) = list[i].offset + list[i].length
        /\ \A i, j \in 1..n : i < j => End(list[i]) < list[j].offset
    BY <1>0, ExtentTypes DEF End, Coalesced
  <1>2. sum[0] = 0 /\ \A i \in 1..n : sum[i] = sum[i - 1] + list[i].length
    BY LengthsAt
  <1>3. /\ \A i \in 0..n : sum[i] \in Nat
        /\ \A i \in 1..n : sum[i] <= End(list[i])
    BY <1>0, LengthsBounded
  <1>4. t \in Nat /\ t >= 1
    BY <1>0, SizesAssumption
  <1> HIDE DEF sum
  <1>5. ASSUME E = {} PROVE sum[n] = t
    <2>1. \A b \in 0..(t - 1) : \E i \in 1..n : Has(list[i], b)
      BY <1>5 DEF SegmentOK, Holding
    <2>2. PICK i \in 1..n : Has(list[i], 0)
      BY <1>4, <2>1
    <2>3. list[i].offset = 0
      BY <1>1, <2>2 DEF Has
    <2>4. \A j \in 1..n : ~(j < i)
      BY <1>1, <2>3
    <2>5. i = 1 /\ 1 \in 1..n
      BY <2>4
    <2>6. End(list[1]) = t
      <3> SUFFICES ASSUME End(list[1]) # t PROVE FALSE
        OBVIOUS
      <3>1. End(list[1]) \in 0..(t - 1)
        BY <1>1, <1>4, <2>5
      <3>2. PICK j \in 1..n : Has(list[j], End(list[1]))
        BY <2>1, <3>1
      <3>3. list[j].offset <= End(list[1]) /\ End(list[1]) < End(list[j])
        BY <3>2 DEF Has
      <3>4. CASE j = 1
        BY <3>1, <3>3, <3>4
      <3>5. CASE j > 1
        <4>1. End(list[1]) < list[j].offset
          BY <1>1, <2>5, <3>5
        <4> QED
          BY <1>1, <2>5, <3>3, <4>1
      <3> QED
        BY <3>4, <3>5
    <2>7. n = 1
      <3> SUFFICES ASSUME n # 1 PROVE FALSE
        OBVIOUS
      <3>1. 2 \in 1..n /\ 1 < 2
        BY <2>5
      <3>2. End(list[1]) < list[2].offset /\ list[2].offset < t
        BY <1>1, <1>4, <2>5, <3>1
      <3> QED
        BY <1>1, <1>4, <2>6, <3>1, <3>2
    <2>8. sum[1] = list[1].length
      BY <1>1, <1>2, <2>5
    <2> QED
      BY <1>1, <1>4, <2>3, <2>5, <2>6, <2>7, <2>8
  <1>6. ASSUME NEW e \in E, sum[n] = t PROVE FALSE
    <2>1. n # 0
      BY <1>2, <1>4, <1>6
    <2>2. n \in 1..n /\ n - 1 \in 0..n
      BY <2>1
    <2>3. sum[n] = sum[n - 1] + list[n].length /\ sum[n - 1] \in Nat
      BY <1>2, <1>3, <2>2
    <2>4. n = 1
      <3> SUFFICES ASSUME n # 1 PROVE FALSE
        OBVIOUS
      <3>1. n - 1 \in 1..n /\ n - 1 < n
        BY <2>1
      <3>2. sum[n - 1] <= End(list[n - 1]) /\ End(list[n - 1]) < list[n].offset
        BY <1>1, <1>3, <2>2, <3>1
      <3> QED
        BY SMTT(30), <1>1, <1>4, <1>6, <2>2, <2>3, <3>1, <3>2
    <2>5. list[1].length = t
      BY <1>1, <1>2, <1>6, <2>2, <2>3, <2>4
    <2>6. list[1].offset = 0 /\ End(list[1]) = t
      BY <1>1, <1>4, <2>2, <2>4, <2>5
    <2>7. /\ e \in Entry /\ End(e) <= t
          /\ e.offset \in Nat /\ e.offset < End(e) /\ End(e) \in Nat /\ Has(e, e.offset)
      BY EntryTypes DEF SegmentOK
    <2>8. Has(list[1], e.offset)
      BY <1>4, <2>6, <2>7 DEF Has
    <2>9. Holding(list, e.offset)
      BY <2>2, <2>4, <2>8 DEF Holding
    <2> QED
      BY <2>7, <2>9 DEF SegmentOK
  <1>7. t - sum[n] = 0 <=> sum[n] = t
    <2>1. sum[n] \in Nat
      BY <1>3
    <2> QED
      BY <1>4, <2>1
  <1> QED
    BY <1>5, <1>6, <1>7 DEF sum

-----------------------------------------------------------------------------
(* The registry and the entries L that it accounts for. *)

IsRegistry(r) ==
  /\ r = [order |-> r.order, free |-> r.free, tail |-> r.tail]
  /\ r.order \in Seq(Segment)
  /\ \A i, j \in 1..Len(r.order) : r.order[i] = r.order[j] => i = j
  /\ r.free = [s \in Registered(r) |-> r.free[s]]
  /\ r.tail = [s \in Registered(r) |-> r.tail[s]]

In(L, s) == {e \in L : e.segment = s}

Accounts(r, L) ==
  /\ IsRegistry(r)
  /\ L \subseteq Entry
  /\ \A e \in L : e.segment \in Registered(r)
  /\ \A s \in Registered(r) : SegmentOK(r.free[s], r.tail[s], In(L, s))

LEMMA RankIs ==
  ASSUME NEW r, IsRegistry(r), NEW s \in Registered(r)
  PROVE  /\ Rank(r, s) \in 1..Len(r.order) /\ r.order[Rank(r, s)] = s
         /\ s \in Segment
  <1>1. r.order \in Seq(Segment) /\ DOMAIN r.order = 1..Len(r.order)
    BY DEF IsRegistry
  <1>2. \E i \in DOMAIN r.order : r.order[i] = s
    BY DEF Registered, Range
  <1> QED
    BY <1>1, <1>2 DEF Rank

LEMMA OrderFacts ==
  ASSUME NEW r, IsRegistry(r)
  PROVE  /\ r.order \in Seq(Segment) /\ Len(r.order) \in Nat
         /\ \A i, j \in 1..Len(r.order) : r.order[i] = r.order[j] => i = j
         /\ \A i \in 1..Len(r.order) : r.order[i] \in Registered(r)
         /\ \A s \in Registered(r) : \E i \in 1..Len(r.order) : r.order[i] = s
         /\ Registered(r) = {r.order[i] : i \in 1..Len(r.order)}
  <1>1. r.order \in Seq(Segment) /\ DOMAIN r.order = 1..Len(r.order) /\ Len(r.order) \in Nat
    BY DEF IsRegistry
  <1>2. Registered(r) = {r.order[i] : i \in 1..Len(r.order)}
    BY <1>1 DEF Registered, Range
  <1>3. \A i, j \in 1..Len(r.order) : r.order[i] = r.order[j] => i = j
    BY DEF IsRegistry
  <1> QED
    BY <1>1, <1>2, <1>3

LEMMA FirstIn ==
  ASSUME NEW r, IsRegistry(r), NEW S \in SUBSET Registered(r), S # {}
  PROVE  First(r, S) \in S
  <1> DEFINE ranks == {Rank(r, s) : s \in S}
  <1>1. \A s \in S : Rank(r, s) \in Nat
    <2>1. Len(r.order) \in Nat
      BY DEF IsRegistry
    <2> QED
      BY <2>1, RankIs
  <1>2. ranks \in SUBSET Nat /\ ranks # {}
    BY <1>1
  <1>3. PICK m \in ranks : \A k \in ranks : m <= k
    <2> HIDE DEF ranks
    <2> QED
      BY <1>2, LeastNumber
  <1>4. \E s \in S : \A t \in S : Rank(r, s) <= Rank(r, t)
    BY <1>3
  <1> QED
    BY <1>4 DEF First

LEMMA BestHoleIn ==
  ASSUME NEW r, IsRegistry(r), NEW H \in SUBSET (Registered(r) \X (1..SegmentSize)), H # {},
         \A h \in H : r.free[h[1]][h[2]].length \in Nat
  PROVE  BestHole(r, H) \in H
  <1> DEFINE size(h) == r.free[h[1]][h[2]].length
             sizes == {size(h) : h \in H}
             least == {h \in H : \A g \in H : size(h) <= size(g)}
             s == First(r, {h[1] : h \in least})
             ranks == {h[2] : h \in {g \in least : g[1] = s}}
  <1>1. least # {}
    <2>1. sizes \in SUBSET Nat /\ sizes # {}
      OBVIOUS
    <2>2. PICK m \in sizes : \A k \in sizes : m <= k
      <3> HIDE DEF sizes
      <3> QED
        BY <2>1, LeastNumber
    <2>3. PICK h \in H : m = size(h)
      BY <2>2
    <2>4. \A g \in H : size(h) <= size(g)
      BY <2>2, <2>3
    <2> QED
      BY <2>4
  <1>2. least \subseteq H
    OBVIOUS
  <1>3. \A h \in H : h[1] \in Registered(r) /\ h[2] \in 1..SegmentSize
    OBVIOUS
  <1> HIDE DEF least
  <1>4. s \in {h[1] : h \in least}
    <2>1. {h[1] : h \in least} \in SUBSET Registered(r) /\ {h[1] : h \in least} # {}
      BY <1>1, <1>2, <1>3
    <2> QED
      BY <2>1, FirstIn
  <1> HIDE DEF s
  <1>5. PICK m \in ranks : \A k \in ranks : m <= k
    <2>1. ranks \in SUBSET Nat /\ ranks # {}
      BY <1>2, <1>3, <1>4
    <2> HIDE DEF ranks
    <2> QED
      BY <2>1, LeastNumber
  <1>6. \E h \in least : h[1] = s /\ \A g \in least : g[1] = s => h[2] <= g[2]
    BY <1>5
  <1>7. BestHole(r, H) = CHOOSE h \in least : h[1] = s /\ \A g \in least : g[1] = s => h[2] <= g[2]
    BY DEF BestHole, least, s
  <1>8. BestHole(r, H) \in least
    BY <1>6, <1>7
  <1> QED
    BY <1>2, <1>8

\* One segment changes, and the entries in it.
Replaced(r, s, list, t) ==
  [order |-> r.order, free |-> [r.free EXCEPT ![s] = list], tail |-> [r.tail EXCEPT ![s] = t]]

SameOutside(L, M, s) == \A u : u # s => In(M, u) = In(L, u)

Replaces(r, L, s, list, t, M) ==
  /\ Accounts(r, L) /\ s \in Registered(r)
  /\ M \subseteq Entry /\ SameOutside(L, M, s)
  /\ SegmentOK(list, t, In(M, s))

LEMMA SegmentReplaced ==
  ASSUME NEW r, NEW L, NEW s, NEW list, NEW t, NEW M, Replaces(r, L, s, list, t, M)
  PROVE  /\ Accounts(Replaced(r, s, list, t), M)
         /\ Registered(Replaced(r, s, list, t)) = Registered(r)
  <1> /\ Accounts(r, L) /\ s \in Registered(r)
      /\ M \subseteq Entry /\ SameOutside(L, M, s)
      /\ SegmentOK(list, t, In(M, s))
    BY DEF Replaces
  <1> PICK q : q = Replaced(r, s, list, t)
    OBVIOUS
  <1>1. IsRegistry(r)
    BY DEF Accounts
  <1>2. /\ q.order = r.order
        /\ q.free = [r.free EXCEPT ![s] = list]
        /\ q.tail = [r.tail EXCEPT ![s] = t]
        /\ q = [order |-> q.order, free |-> q.free, tail |-> q.tail]
    BY DEF Replaced
  <1>3. Registered(q) = Registered(r)
    BY <1>2 DEF Registered
  <1>4. /\ q.free[s] = list /\ q.tail[s] = t
        /\ \A u \in Registered(r) : u # s => q.free[u] = r.free[u] /\ q.tail[u] = r.tail[u]
        /\ q.free = [u \in Registered(r) |-> q.free[u]]
        /\ q.tail = [u \in Registered(r) |-> q.tail[u]]
    BY <1>1, <1>2 DEF IsRegistry
  <1>5. IsRegistry(q)
    <2>1. /\ q.order \in Seq(Segment)
          /\ \A i, j \in 1..Len(q.order) : q.order[i] = q.order[j] => i = j
      BY <1>1, <1>2 DEF IsRegistry
    <2>2. /\ q.free = [u \in Registered(q) |-> q.free[u]]
          /\ q.tail = [u \in Registered(q) |-> q.tail[u]]
      BY <1>3, <1>4
    <2> QED
      BY <1>2, <2>1, <2>2 DEF IsRegistry
  <1>6. \A e \in M : e.segment \in Registered(r)
    <2> SUFFICES ASSUME NEW e \in M, e.segment # s PROVE e.segment \in Registered(r)
      OBVIOUS
    <2>1. e \in In(M, e.segment)
      BY DEF In
    <2>2. e \in In(L, e.segment)
      BY <2>1 DEF SameOutside
    <2> QED
      BY <2>2 DEF In, Accounts
  <1>7. \A u \in Registered(r) : SegmentOK(q.free[u], q.tail[u], In(M, u))
    BY <1>4 DEF Accounts, SameOutside
  <1> QED
    BY <1>3, <1>5, <1>6, <1>7 DEF Accounts

\* Bytes for `size`, where PlaceIn finds them: nobody else's, outside the segments cl.
IsPlaced(p, r, L, cl, size) ==
  /\ p.at = None => p.reg = r
  /\ p.at # None =>
       /\ p.at \in Entry /\ p.at.length = size
       /\ p.at.segment \in Registered(r) \ cl /\ p.at \notin L
       /\ Accounts(p.reg, L \cup {p.at})
       /\ Registered(p.reg) = Registered(r)
       /\ p.reg.order = r.order

LEMMA Placed ==
  ASSUME NEW r, NEW L, Accounts(r, L), NEW cl, NEW size \in 1..SegmentSize
  PROVE  IsPlaced(PlaceIn(r, cl, size), r, L, cl, size)
  <1>p. PICK p : p = PlaceIn(r, cl, size)
    OBVIOUS
  <1> DEFINE holes == Holes(r, cl, size)
             room == TailRoom(r, cl, size)
  <1>0. IsRegistry(r)
    BY DEF Accounts
  <1>1. ASSUME holes # {} PROVE IsPlaced(p, r, L, cl, size)
    <2>h. PICK h : h = BestHole(r, holes)
      OBVIOUS
    <2>1. \A g \in holes : /\ g[1] \in Registered(r) \ cl /\ g[2] \in 1..SegmentSize
                           /\ g[2] <= Len(r.free[g[1]])
                           /\ r.free[g[1]][g[2]].length >= size
      BY DEF Holes
    <2>2. \A u \in Registered(r) : SegmentOK(r.free[u], r.tail[u], In(L, u))
      BY DEF Accounts
    <2>3. \A g \in holes : /\ g[2] \in 1..Len(r.free[g[1]])
                           /\ r.free[g[1]][g[2]].length \in Nat
      <3> SUFFICES ASSUME NEW g \in holes
                   PROVE  /\ g[2] \in 1..Len(r.free[g[1]])
                          /\ r.free[g[1]][g[2]].length \in Nat
        OBVIOUS
      <3>1. Coalesced(r.free[g[1]], r.tail[g[1]])
        BY <2>1, <2>2 DEF SegmentOK
      <3>2. Len(r.free[g[1]]) \in Nat /\ g[2] \in Nat /\ g[2] >= 1
        BY <2>1, <3>1, ExtentTypes
      <3>3. g[2] \in 1..Len(r.free[g[1]])
        BY <2>1, <3>2
      <3> QED
        BY <3>1, <3>3, ExtentTypes
    <2>4. holes \in SUBSET (Registered(r) \X (1..SegmentSize))
      BY DEF Holes
    <2>5. h \in holes
      <3> HIDE DEF holes
      <3> QED
        BY <1>0, <1>1, <2>h, <2>3, <2>4, BestHoleIn
    <2>s. PICK s, i : s = h[1] /\ i = h[2]
      OBVIOUS
    <2>6. /\ s \in Registered(r) \ cl /\ i \in 1..Len(r.free[s])
          /\ r.free[s][i].length >= size /\ SegmentOK(r.free[s], r.tail[s], In(L, s))
      BY <2>1, <2>2, <2>3, <2>5, <2>s
    <2>a. PICK at : at = [segment |-> s, offset |-> r.free[s][i].offset, length |-> size]
      OBVIOUS
    <2>7. p = [at |-> at, reg |-> Cut(r, s, i, size)]
      BY <1>p, <1>1, <2>h, <2>s, <2>a DEF PlaceIn
    <2>8. r.free[s][i] \in FreeExtent /\ s \in Segment /\ Len(r.free[s]) \in Nat
      <3>1. Coalesced(r.free[s], r.tail[s])
        BY <2>6 DEF SegmentOK
      <3> QED
        BY <1>0, <2>6, <3>1, ExtentTypes, RankIs
    <2>9. /\ at \in Entry /\ at.segment = s /\ at.length = size
          /\ at.offset = r.free[s][i].offset
      BY <2>8, <2>a DEF Entry, FreeExtent
    <2>10. at # None
      BY <2>9, NoneAssumption
    <2>11. In(L, s) \subseteq Entry
      BY DEF In, Accounts
    <2>12. HoleFits(r.free[s], r.tail[s], In(L, s), i, at)
      BY <2>6, <2>8, <2>9, <2>11 DEF HoleFits, FreeExtent
    <2>13. /\ at \notin In(L, s)
           /\ SegmentOK(CutList(r.free[s], i, at.length), r.tail[s], In(L, s) \cup {at})
      BY <2>12, HoleTaken
    <2>14. /\ In(L \cup {at}, s) = In(L, s) \cup {at}
           /\ SameOutside(L, L \cup {at}, s)
           /\ at \notin L /\ L \cup {at} \subseteq Entry
      BY <2>9, <2>13 DEF In, Accounts, SameOutside
    <2>l. PICK list : list = CutList(r.free[s], i, size)
      OBVIOUS
    <2>15. Cut(r, s, i, size) = Replaced(r, s, list, r.tail[s])
      <3>1. r = [order |-> r.order, free |-> r.free, tail |-> r.tail]
        BY <1>0 DEF IsRegistry
      <3>2. [r.tail EXCEPT ![s] = r.tail[s]] = r.tail
        BY <1>0 DEF IsRegistry
      <3>3. Cut(r, s, i, size) = [r EXCEPT !.free[s] = list]
        BY <2>l DEF Cut, CutList
      <3> QED
        BY <3>1, <3>2, <3>3 DEF Replaced
    <2>16. SegmentOK(list, r.tail[s], In(L \cup {at}, s))
      BY <2>9, <2>13, <2>14, <2>l
    <2>17. /\ Accounts(Replaced(r, s, list, r.tail[s]), L \cup {at})
           /\ Registered(Replaced(r, s, list, r.tail[s])) = Registered(r)
      <3>1. Replaces(r, L, s, list, r.tail[s], L \cup {at})
        BY <2>6, <2>14, <2>16 DEF Replaces
      <3> QED
        BY <3>1, SegmentReplaced
    <2>18. Replaced(r, s, list, r.tail[s]).order = r.order
      BY DEF Replaced
    <2>19. p.at = at /\ p.reg = Replaced(r, s, list, r.tail[s])
      BY <2>7, <2>15
    <2> QED
      BY <2>6, <2>9, <2>10, <2>14, <2>17, <2>18, <2>19 DEF IsPlaced
  <1>2. ASSUME holes = {}, room # {} PROVE IsPlaced(p, r, L, cl, size)
    <2>s. PICK s : s = First(r, room)
      OBVIOUS
    <2>a. PICK at : at = [segment |-> s, offset |-> r.tail[s], length |-> size]
      OBVIOUS
    <2>1. room \in SUBSET Registered(r)
      BY DEF TailRoom
    <2>2. s \in room
      <3> HIDE DEF room
      <3> QED
        BY <1>0, <1>2, <2>s, <2>1, FirstIn
    <2>3. /\ s \in Registered(r) \ cl /\ r.tail[s] + size <= SegmentSize
          /\ SegmentOK(r.free[s], r.tail[s], In(L, s))
      BY <2>2 DEF TailRoom, Accounts
    <2>4. p = [at |-> at, reg |-> [r EXCEPT !.tail[s] = @ + size]]
      BY <1>p, <1>2, <2>s, <2>a DEF PlaceIn
    <2>5. r.tail[s] \in 1..SegmentSize /\ s \in Segment
      BY <1>0, <2>3, RankIs DEF SegmentOK
    <2>6. /\ at \in Entry /\ at.segment = s /\ at.length = size
          /\ at.offset = r.tail[s] /\ End(at) = r.tail[s] + size /\ End(at) <= SegmentSize
      <3>1. r.tail[s] \in 0..(SegmentSize - 1)
        BY <2>3, <2>5, SizesAssumption
      <3> QED
        BY <2>3, <2>5, <2>a, <3>1 DEF Entry, End
    <2>7. at # None
      BY <2>6, NoneAssumption
    <2>8. In(L, s) \subseteq Entry
      BY DEF In, Accounts
    <2>9. SegmentOK(r.free[s], End(at), In(L, s) \cup {at})
      BY <2>3, <2>6, <2>8, TailTaken
    <2>10. at \notin L
      <3>1. ASSUME at \in In(L, s) PROVE FALSE
        <4>1. End(at) <= r.tail[s]
          BY <2>3, <3>1 DEF SegmentOK
        <4> QED
          BY <2>5, <2>6, <4>1
      <3> QED
        BY <2>6, <3>1 DEF In
    <2>11. /\ In(L \cup {at}, s) = In(L, s) \cup {at}
           /\ SameOutside(L, L \cup {at}, s)
           /\ L \cup {at} \subseteq Entry
      BY <2>6 DEF In, Accounts, SameOutside
    <2>12. [r EXCEPT !.tail[s] = @ + size] = Replaced(r, s, r.free[s], End(at))
      <3>1. r = [order |-> r.order, free |-> r.free, tail |-> r.tail]
        BY <1>0 DEF IsRegistry
      <3>2. [r.free EXCEPT ![s] = r.free[s]] = r.free
        BY <1>0 DEF IsRegistry
      <3> QED
        BY <2>6, <3>1, <3>2 DEF Replaced
    <2>13. /\ Accounts(Replaced(r, s, r.free[s], End(at)), L \cup {at})
           /\ Registered(Replaced(r, s, r.free[s], End(at))) = Registered(r)
      <3>1. Replaces(r, L, s, r.free[s], End(at), L \cup {at})
        BY <2>3, <2>9, <2>11 DEF Replaces
      <3> QED
        BY <3>1, SegmentReplaced
    <2>14. Replaced(r, s, r.free[s], End(at)).order = r.order
      BY DEF Replaced
    <2> QED
      BY <2>3, <2>4, <2>6, <2>7, <2>10, <2>12, <2>13, <2>14 DEF IsPlaced
  <1>3. ASSUME holes = {}, room = {} PROVE IsPlaced(p, r, L, cl, size)
    <2>1. p = [at |-> None, reg |-> r]
      BY <1>p, <1>3 DEF PlaceIn
    <2> QED
      BY <2>1 DEF IsPlaced
  <1> HIDE DEF holes, room
  <1> QED
    BY <1>p, <1>1, <1>2, <1>3

LEMMA ReleasedFacts ==
  ASSUME NEW r, NEW L, Accounts(r, L), NEW e \in L
  PROVE  /\ Accounts(Released(r, e), L \ {e})
         /\ Registered(Released(r, e)) = Registered(r)
         /\ Released(r, e).order = r.order
  <1>s. PICK s : s = e.segment
    OBVIOUS
  <1>x. PICK x : x = [offset |-> e.offset, length |-> e.length]
    OBVIOUS
  <1>l. PICK list : list = Merged(r.free[s], x)
    OBVIOUS
  <1>1. /\ IsRegistry(r) /\ e \in Entry /\ s \in Registered(r)
        /\ SegmentOK(r.free[s], r.tail[s], In(L, s)) /\ e \in In(L, s) /\ L \subseteq Entry
    BY <1>s DEF Accounts, In
  <1>2. /\ x \in FreeExtent /\ End(x) = End(e) /\ \A b : Has(x, b) <=> Has(e, b)
    BY <1>1, <1>x DEF FreeExtent, Entry, End, Has
  <1>3. /\ r.tail[s] \in 1..SegmentSize /\ Coalesced(r.free[s], r.tail[s])
        /\ End(x) <= r.tail[s]
        /\ \A b \in Nat : Has(x, b) => ~Holding(r.free[s], b)
    BY <1>1, <1>2 DEF SegmentOK
  <1>4. /\ Coalesced(list, r.tail[s])
        /\ \A b \in Nat : Holding(list, b) <=> Holding(r.free[s], b) \/ Has(x, b)
    BY <1>l, <1>2, <1>3, MergedFacts
  <1>5. \A b \in Nat : Holding(list, b) <=> Holding(r.free[s], b) \/ Has(e, b)
    BY <1>2, <1>4
  <1>6. SegmentOK(list, r.tail[s], In(L, s) \ {e})
    BY <1>1, <1>4, <1>5, EntryGone
  <1>7. /\ In(L \ {e}, s) = In(L, s) \ {e}
        /\ SameOutside(L, L \ {e}, s) /\ L \ {e} \subseteq Entry
    BY <1>1, <1>s DEF In, SameOutside
  <1>8. Released(r, e) = Replaced(r, s, list, r.tail[s])
    <2>1. r = [order |-> r.order, free |-> r.free, tail |-> r.tail]
      BY <1>1 DEF IsRegistry
    <2>2. [r.tail EXCEPT ![s] = r.tail[s]] = r.tail
      BY <1>1 DEF IsRegistry
    <2>3. Released(r, e) = [r EXCEPT !.free[s] = list]
      BY <1>s, <1>x, <1>l DEF Released
    <2> QED
      BY <2>1, <2>2, <2>3 DEF Replaced
  <1>9. Replaces(r, L, s, list, r.tail[s], L \ {e})
    BY <1>1, <1>6, <1>7 DEF Replaces
  <1>10. Replaced(r, s, list, r.tail[s]).order = r.order
    BY DEF Replaced
  <1> QED
    BY <1>8, <1>9, <1>10, SegmentReplaced

FirstOf(s, size) == [segment |-> s, offset |-> 0, length |-> size]

IsRegistered(q, r, L, s, at) ==
  /\ at \in Entry /\ at \notin L
  /\ Accounts(q, L \cup {at})
  /\ Registered(q) = Registered(r) \cup {s}
  /\ Len(q.order) = Len(r.order) + 1

LEMMA RegisterFacts ==
  ASSUME NEW r, NEW L, Accounts(r, L), NEW s \in Segment, s \notin Registered(r),
         NEW size \in 1..SegmentSize
  PROVE  IsRegistered(Register(r, s, size), r, L, s, FirstOf(s, size))
  <1>a. PICK at : at = FirstOf(s, size)
    OBVIOUS
  <1>q. PICK q : q = Register(r, s, size)
    OBVIOUS
  <1>1. /\ IsRegistry(r) /\ L \subseteq Entry /\ \A e \in L : e.segment \in Registered(r)
        /\ \A u \in Registered(r) : SegmentOK(r.free[u], r.tail[u], In(L, u))
    BY DEF Accounts
  <1>2. /\ at \in Entry /\ at.segment = s /\ at.offset = 0 /\ at.length = size
        /\ End(at) = size /\ End(at) <= SegmentSize
    <2>1. 0 \in 0..(SegmentSize - 1)
      BY SizesAssumption
    <2>2. at = [segment |-> s, offset |-> 0, length |-> size]
      BY <1>a DEF FirstOf
    <2> QED
      BY <2>1, <2>2 DEF Entry, End
  <1>3. at \notin L
    BY <1>1, <1>2
  <1>4. /\ q.order = Append(r.order, s)
        /\ q.free = [u \in Registered(r) \cup {s} |-> IF u = s THEN <<>> ELSE r.free[u]]
        /\ q.tail = [u \in Registered(r) \cup {s} |-> IF u = s THEN size ELSE r.tail[u]]
        /\ q = [order |-> q.order, free |-> q.free, tail |-> q.tail]
    BY <1>q DEF Register
  <1>5. PICK n \in Nat : n = Len(r.order)
    BY <1>1 DEF IsRegistry
  <1>6. /\ r.order \in Seq(Segment)
        /\ \A i, j \in 1..n : r.order[i] = r.order[j] => i = j
        /\ \A i \in 1..n : r.order[i] \in Registered(r)
        /\ \A u \in Registered(r) : \E i \in 1..n : r.order[i] = u
    BY <1>1, <1>5, OrderFacts
  <1>7. /\ q.order \in Seq(Segment) /\ Len(q.order) = n + 1
        /\ q.order[n + 1] = s /\ \A i \in 1..n : q.order[i] = r.order[i]
    BY <1>4, <1>5, <1>6
  <1>8. Registered(q) = Registered(r) \cup {s}
    <2>1. DOMAIN q.order = 1..(n + 1)
      BY <1>7
    <2>2. n + 1 \in 1..(n + 1) /\ \A i \in 1..(n + 1) : i = n + 1 \/ i \in 1..n
      OBVIOUS
    <2>3. \A i \in 1..n : i \in 1..(n + 1)
      OBVIOUS
    <2>4. Registered(q) = {q.order[i] : i \in 1..(n + 1)}
      BY <2>1 DEF Registered, Range
    <2>5. ASSUME NEW u \in Registered(q) PROVE u \in Registered(r) \cup {s}
      BY <1>6, <1>7, <2>2, <2>4
    <2>6. ASSUME NEW u \in Registered(r) PROVE u \in Registered(q)
      BY <1>6, <1>7, <2>3, <2>4
    <2>7. s \in Registered(q)
      BY <1>7, <2>2, <2>4
    <2> QED
      BY <2>5, <2>6, <2>7
  <1>9. \A i, j \in 1..(n + 1) : q.order[i] = q.order[j] => i = j
    <2>1. \A i \in 1..n : q.order[i] # s
      BY <1>6, <1>7
    <2>2. \A i \in 1..(n + 1) : i = n + 1 \/ i \in 1..n
      OBVIOUS
    <2> QED
      BY <1>6, <1>7, <2>1, <2>2
  <1>10. IsRegistry(q)
    <2>1. /\ q.free = [u \in Registered(q) |-> q.free[u]]
          /\ q.tail = [u \in Registered(q) |-> q.tail[u]]
      BY <1>4, <1>8
    <2> QED
      BY <1>4, <1>7, <1>9, <2>1 DEF IsRegistry
  <1>11. /\ q.free[s] = <<>> /\ q.tail[s] = size
         /\ \A u \in Registered(r) : q.free[u] = r.free[u] /\ q.tail[u] = r.tail[u]
    BY <1>4
  <1>12. In(L \cup {at}, s) = {at} /\ \A u \in Registered(r) : In(L \cup {at}, u) = In(L, u)
    BY <1>1, <1>2 DEF In
  <1>13. SegmentOK(<<>>, size, {at})
    BY <1>2, SegmentStarts
  <1>14. \A u \in Registered(q) : SegmentOK(q.free[u], q.tail[u], In(L \cup {at}, u))
    BY <1>1, <1>8, <1>11, <1>12, <1>13
  <1>15. Accounts(q, L \cup {at})
    BY <1>1, <1>2, <1>8, <1>10, <1>14 DEF Accounts
  <1> QED
    BY <1>a, <1>q, <1>2, <1>3, <1>5, <1>7, <1>8, <1>15 DEF IsRegistered

LEMMA UnregisterFacts ==
  ASSUME NEW r, NEW L, Accounts(r, L), NEW s \in Registered(r), In(L, s) = {}
  PROVE  /\ Accounts(Unregister(r, s), L)
         /\ Registered(Unregister(r, s)) = Registered(r) \ {s}
         /\ Len(Unregister(r, s).order) = Len(r.order) - 1
  <1>q. PICK q : q = Unregister(r, s)
    OBVIOUS
  <1>k. PICK k : k = Rank(r, s)
    OBVIOUS
  <1>1. /\ IsRegistry(r) /\ L \subseteq Entry /\ \A e \in L : e.segment \in Registered(r)
        /\ \A u \in Registered(r) : SegmentOK(r.free[u], r.tail[u], In(L, u))
    BY DEF Accounts
  <1>2. PICK n \in Nat : n = Len(r.order)
    BY <1>1 DEF IsRegistry
  <1>3. /\ r.order \in Seq(Segment)
        /\ \A i, j \in 1..n : r.order[i] = r.order[j] => i = j
        /\ \A u \in Registered(r) : \E i \in 1..n : r.order[i] = u
        /\ \A i \in 1..n : r.order[i] \in Registered(r)
    BY <1>1, <1>2, OrderFacts
  <1>4. k \in 1..n /\ r.order[k] = s
    BY <1>1, <1>2, <1>k, RankIs
  <1>5. /\ q.order = RemoveAt(r.order, k)
        /\ q.free = [u \in Registered(r) \ {s} |-> r.free[u]]
        /\ q.tail = [u \in Registered(r) \ {s} |-> r.tail[u]]
        /\ q = [order |-> q.order, free |-> q.free, tail |-> q.tail]
    BY <1>q, <1>k DEF Unregister
  <1>6. /\ q.order \in Seq(Segment) /\ Len(q.order) = n - 1
        /\ \A j \in 1..(k - 1) : q.order[j] = r.order[j]
        /\ \A j \in k..(n - 1) : q.order[j] = r.order[j + 1]
    <2>1. IsWithout(RemoveAt(r.order, k), Segment, r.order, k)
      BY <1>2, <1>3, <1>4, RemoveAtFacts
    <2> QED
      BY <1>2, <1>5, <2>1 DEF IsWithout
  <1> DEFINE from(j) == IF j < k THEN j ELSE j + 1
  <1>7. \A j \in 1..(n - 1) : from(j) \in 1..n /\ from(j) # k /\ q.order[j] = r.order[from(j)]
    <2>1. \A j \in 1..(n - 1) : /\ j < k => j \in 1..(k - 1)
                                /\ ~(j < k) => j \in k..(n - 1)
      BY <1>4
    <2>2. \A j \in 1..(n - 1) : from(j) \in 1..n /\ from(j) # k
      BY <1>4
    <2> QED
      BY <1>6, <2>1, <2>2
  <1>8. \A i, j \in 1..(n - 1) : from(i) = from(j) => i = j
    BY <1>4
  <1>9. \A m \in 1..n : m # k => \E j \in 1..(n - 1) : from(j) = m
    <2> SUFFICES ASSUME NEW m \in 1..n, m # k PROVE \E j \in 1..(n - 1) : from(j) = m
      OBVIOUS
    <2>1. CASE m < k
      <3>1. m \in 1..(n - 1) /\ from(m) = m
        BY <1>4, <2>1
      <3> QED
        BY <3>1
    <2>2. CASE m > k
      <3>1. m - 1 \in 1..(n - 1) /\ from(m - 1) = m
        BY <1>4, <2>2
      <3> QED
        BY <3>1
    <2> QED
      BY <1>4, <2>1, <2>2
  <1> HIDE DEF from
  <1>10. Registered(q) = Registered(r) \ {s}
    <2>1. Registered(q) = {q.order[j] : j \in 1..(n - 1)}
      BY <1>6 DEF Registered, Range
    <2>2. ASSUME NEW u \in Registered(q) PROVE u \in Registered(r) \ {s}
      BY <1>3, <1>4, <1>7, <2>1
    <2>3. ASSUME NEW u \in Registered(r) \ {s} PROVE u \in Registered(q)
      <3>1. PICK m \in 1..n : r.order[m] = u
        BY <1>3
      <3>2. PICK j \in 1..(n - 1) : from(j) = m
        BY <1>4, <1>9, <3>1
      <3> QED
        BY <1>7, <2>1, <3>1, <3>2
    <2> QED
      BY <2>2, <2>3
  <1>11. \A i, j \in 1..(n - 1) : q.order[i] = q.order[j] => i = j
    BY SMTT(30), <1>3, <1>7, <1>8
  <1>12. IsRegistry(q)
    <2>1. /\ q.free = [u \in Registered(q) |-> q.free[u]]
          /\ q.tail = [u \in Registered(q) |-> q.tail[u]]
      BY <1>5, <1>10
    <2> QED
      BY <1>5, <1>6, <1>11, <2>1 DEF IsRegistry
  <1>13. \A e \in L : e.segment \in Registered(q)
    BY <1>1, <1>10 DEF In
  <1>14. \A u \in Registered(q) : SegmentOK(q.free[u], q.tail[u], In(L, u))
    BY <1>1, <1>5, <1>10
  <1>15. Accounts(q, L)
    BY <1>1, <1>12, <1>13, <1>14 DEF Accounts
  <1> QED
    BY <1>q, <1>2, <1>6, <1>10, <1>15

-----------------------------------------------------------------------------
(* Plans of a compaction. *)

LEMMA SequenceOfSet ==
  ASSUME NEW S, IsFiniteSet(S), NEW f \in SetToSeqs(S)
  PROVE  /\ Len(f) \in Nat /\ DOMAIN f = 1..Len(f)
         /\ \A i \in 1..Len(f) : f[i] \in S
         /\ \A i, j \in 1..Len(f) : f[i] = f[j] => i = j
         /\ \A x \in S : \E i \in 1..Len(f) : f[i] = x
  <1> PICK n \in Nat : n = Cardinality(S)
    BY FS_CardinalityType
  <1>1. f \in [1..n -> S] /\ \A i, j \in 1..n : i # j => f[i] # f[j]
    BY DEF SetToSeqs
  <1>2. f \in Injection(1..n, S)
    BY <1>1 DEF Injection, IsInjective
  <1>3. Cardinality(1..n) = n
    <2>1. Cardinality(1..n) = IF 1 > n THEN 0 ELSE n - 1 + 1
      <3>1. 1 \in Int /\ n \in Int
        OBVIOUS
      <3> QED
        BY <3>1, FS_Interval
    <2> QED
      BY <2>1
  <1>4. f \in Surjection(1..n, S)
    BY <1>2, <1>3, FS_Injection
  <1>5. \A x \in S : \E i \in 1..n : f[i] = x
    BY <1>4 DEF Surjection
  <1>6. Len(f) = n
    BY <1>1
  <1> QED
    BY <1>1, <1>5, <1>6

LEMMA PlansAt ==
  ASSUME NEW s, NEW items, NEW n \in Nat, n = Len(items)
  PROVE  /\ Plans(s, items)[0] = [reg |-> reg, moves |-> <<>>, fits |-> TRUE]
         /\ \A i \in 1..n : Plans(s, items)[i] = PlanNext(s, items, Plans(s, items)[i - 1], i)
  <1> PICK start : start = [reg |-> reg, moves |-> <<>>, fits |-> TRUE]
    OBVIOUS
  <1> DEFINE Steps(f, m) ==
               f = [i \in 0..m |-> IF i = 0 THEN start ELSE PlanNext(s, items, f[i - 1], i)]
             none == {m \in 0..n : ~\E f : Steps(f, m)}
  <1>1. none = {}
    <2> SUFFICES ASSUME none # {} PROVE FALSE
      OBVIOUS
    <2>1. none \in SUBSET Nat
      OBVIOUS
    <2>2. PICK m \in none : \A k \in none : m <= k
      <3> HIDE DEF none
      <3> QED
        BY <2>1, LeastNumber
    <2>3. m # 0
      <3>1. Steps([i \in 0..0 |-> start], 0)
        OBVIOUS
      <3> QED
        BY <3>1
    <2>4. PICK f : Steps(f, m - 1)
      <3>1. m - 1 \in 0..n /\ ~(m <= m - 1)
        BY <2>3
      <3> QED
        BY <2>2, <3>1
    <2> DEFINE g == [i \in 0..m |-> IF i = m THEN PlanNext(s, items, f[m - 1], m) ELSE f[i]]
    <2>5. Steps(g, m)
      <3>1. m \in 1..n /\ m - 1 \in 0..m
        BY <2>3
      <3>2. \A i \in 0..m : i # m =>
              i \in 0..(m - 1) /\ (i # 0 => i - 1 \in 0..(m - 1) /\ i - 1 # m /\ i - 1 \in 0..m)
        OBVIOUS
      <3>3. \A i \in 0..(m - 1) : f[i] = IF i = 0 THEN start ELSE PlanNext(s, items, f[i - 1], i)
        BY <2>4
      <3>4. g[m] = PlanNext(s, items, g[m - 1], m)
        BY <3>1
      <3>5. \A i \in 0..m : i # m =>
              g[i] = IF i = 0 THEN start ELSE PlanNext(s, items, g[i - 1], i)
        BY <3>2, <3>3
      <3>6. g = [i \in 0..m |-> g[i]]
        OBVIOUS
      <3> HIDE DEF g
      <3>7. \A i \in 0..m : g[i] = IF i = 0 THEN start ELSE PlanNext(s, items, g[i - 1], i)
        BY <2>3, <3>4, <3>5
      <3> QED
        BY <3>6, <3>7
    <2> QED
      BY <2>5
  <1>2. PICK f : Steps(f, n)
    BY <1>1
  <1>3. Steps(Plans(s, items), n)
    BY <1>2 DEF Plans
  <1>4. \A i \in 0..n : Plans(s, items)[i] =
          IF i = 0 THEN start ELSE PlanNext(s, items, Plans(s, items)[i - 1], i)
    BY <1>3
  <1>5. 0 \in 0..n /\ \A i \in 1..n : i \in 0..n /\ i # 0
    OBVIOUS
  <1> QED
    BY <1>4, <1>5

LEMMA ReturnedAt ==
  ASSUME NEW r, NEW moves, NEW n \in Nat, n = Len(moves)
  PROVE  /\ Returned(r, moves)[0] = r
         /\ \A i \in 1..n : Returned(r, moves)[i] = Released(Returned(r, moves)[i - 1], moves[i])
  <1> DEFINE Steps(f, m) == f = [i \in 0..m |-> IF i = 0 THEN r ELSE Released(f[i - 1], moves[i])]
             none == {m \in 0..n : ~\E f : Steps(f, m)}
  <1>1. none = {}
    <2> SUFFICES ASSUME none # {} PROVE FALSE
      OBVIOUS
    <2>1. none \in SUBSET Nat
      OBVIOUS
    <2>2. PICK m \in none : \A k \in none : m <= k
      <3> HIDE DEF none
      <3> QED
        BY <2>1, LeastNumber
    <2>3. m # 0
      <3>1. Steps([i \in 0..0 |-> r], 0)
        OBVIOUS
      <3> QED
        BY <3>1
    <2>4. PICK f : Steps(f, m - 1)
      <3>1. m - 1 \in 0..n /\ ~(m <= m - 1)
        BY <2>3
      <3> QED
        BY <2>2, <3>1
    <2> DEFINE g == [i \in 0..m |-> IF i = m THEN Released(f[m - 1], moves[m]) ELSE f[i]]
    <2>5. Steps(g, m)
      <3>1. m \in 1..n /\ m - 1 \in 0..m
        BY <2>3
      <3>2. \A i \in 0..m : i # m =>
              i \in 0..(m - 1) /\ (i # 0 => i - 1 \in 0..(m - 1) /\ i - 1 # m /\ i - 1 \in 0..m)
        OBVIOUS
      <3>3. \A i \in 0..(m - 1) : f[i] = IF i = 0 THEN r ELSE Released(f[i - 1], moves[i])
        BY <2>4
      <3>4. g[m] = Released(g[m - 1], moves[m])
        BY <3>1
      <3>5. \A i \in 0..m : i # m => g[i] = IF i = 0 THEN r ELSE Released(g[i - 1], moves[i])
        BY <3>2, <3>3
      <3>6. g = [i \in 0..m |-> g[i]]
        OBVIOUS
      <3> HIDE DEF g
      <3>7. \A i \in 0..m : g[i] = IF i = 0 THEN r ELSE Released(g[i - 1], moves[i])
        BY <2>3, <3>4, <3>5
      <3> QED
        BY <3>6, <3>7
    <2> QED
      BY <2>5
  <1>2. PICK f : Steps(f, n)
    BY <1>1
  <1>3. Steps(Returned(r, moves), n)
    BY <1>2 DEF Returned
  <1>4. \A i \in 0..n : Returned(r, moves)[i] =
          IF i = 0 THEN r ELSE Released(Returned(r, moves)[i - 1], moves[i])
    BY <1>3
  <1> QED
    BY <1>4

\* A plan for the first i of `items`, beside the entries L of registry r: new places
\* outside the segments cl, of the right size as long as everything fits.
Moves(plan) == {plan.moves[j] : j \in 1..Len(plan.moves)}

PlanGood(plan, r, L, cl, items, i) ==
  /\ plan = [reg |-> plan.reg, moves |-> plan.moves, fits |-> plan.fits]
  /\ plan.moves \in Seq(Entry)
  /\ \A j, k \in 1..Len(plan.moves) : plan.moves[j] = plan.moves[k] => j = k
  /\ \A e \in Moves(plan) : e \notin L /\ e.segment \in Registered(r) \ cl
  /\ Accounts(plan.reg, L \cup Moves(plan))
  /\ Registered(plan.reg) = Registered(r)
  /\ plan.reg.order = r.order
  /\ plan.fits => /\ Len(plan.moves) = i
                  /\ \A j \in 1..i : plan.moves[j].length = index[items[j]].length

LEMMA PlanStarts ==
  ASSUME NEW L, Accounts(reg, L), NEW cl, NEW items
  PROVE  PlanGood([reg |-> reg, moves |-> <<>>, fits |-> TRUE], reg, L, cl, items, 0)
  <1>0. PICK plan : plan = [reg |-> reg, moves |-> <<>>, fits |-> TRUE]
    OBVIOUS
  <1>1. /\ plan.moves = <<>> /\ plan.reg = reg /\ Len(plan.moves) = 0
        /\ plan = [reg |-> plan.reg, moves |-> plan.moves, fits |-> plan.fits]
        /\ plan.moves \in Seq(Entry)
    BY <1>0
  <1>2. Moves(plan) = {} /\ L \cup Moves(plan) = L
    BY <1>1 DEF Moves
  <1>3. PlanGood(plan, reg, L, cl, items, 0)
    BY <1>1, <1>2 DEF PlanGood
  <1> QED
    BY <1>0, <1>3

LEMMA PlanGrows ==
  ASSUME NEW L, NEW s, NEW items, NEW i \in Nat \ {0},
         NEW plan, PlanGood(plan, reg, L, closed \cup {s}, items, i - 1),
         index[items[i]].length \in 1..SegmentSize
  PROVE  PlanGood(PlanNext(s, items, plan, i), reg, L, closed \cup {s}, items, i)
  <1> PICK cl : cl = closed \cup {s}
    OBVIOUS
  <1>s. PICK size \in 1..SegmentSize : size = index[items[i]].length
    OBVIOUS
  <1>p. PICK place : place = PlaceIn(plan.reg, cl, size)
    OBVIOUS
  <1>n. PICK new : new = PlanNext(s, items, plan, i)
    OBVIOUS
  <1>1. /\ plan = [reg |-> plan.reg, moves |-> plan.moves, fits |-> plan.fits]
        /\ plan.moves \in Seq(Entry)
        /\ \A j, k \in 1..Len(plan.moves) : plan.moves[j] = plan.moves[k] => j = k
        /\ \A e \in Moves(plan) : e \notin L /\ e.segment \in Registered(reg) \ cl
        /\ Accounts(plan.reg, L \cup Moves(plan))
        /\ Registered(plan.reg) = Registered(reg)
        /\ plan.reg.order = reg.order
    BY DEF PlanGood
  <1>2. /\ place.at = None => place.reg = plan.reg
        /\ place.at # None =>
             /\ place.at \in Entry /\ place.at.length = size
             /\ place.at.segment \in Registered(plan.reg) \ cl
             /\ place.at \notin L \cup Moves(plan)
             /\ Accounts(place.reg, L \cup Moves(plan) \cup {place.at})
             /\ Registered(place.reg) = Registered(plan.reg)
             /\ place.reg.order = plan.reg.order
    <2>1. IsPlaced(place, plan.reg, L \cup Moves(plan), cl, size)
      BY <1>1, <1>p, Placed
    <2> QED
      BY <2>1 DEF IsPlaced
  <1>3. new = IF ~plan.fits \/ place.at = None THEN [plan EXCEPT !.fits = FALSE]
              ELSE [reg |-> place.reg, moves |-> Append(plan.moves, place.at), fits |-> TRUE]
    BY <1>s, <1>p, <1>n DEF PlanNext
  <1>4. CASE ~plan.fits \/ place.at = None
    <2>1. new = [reg |-> plan.reg, moves |-> plan.moves, fits |-> FALSE]
      BY <1>1, <1>3, <1>4
    <2>2. new.reg = plan.reg /\ new.moves = plan.moves /\ ~new.fits
          /\ new = [reg |-> new.reg, moves |-> new.moves, fits |-> new.fits]
      BY <2>1
    <2>3. Moves(new) = Moves(plan)
      BY <2>2 DEF Moves
    <2>4. PlanGood(new, reg, L, cl, items, i)
      BY <1>1, <2>2, <2>3 DEF PlanGood
    <2> QED
      BY <1>n, <2>4
  <1>5. CASE plan.fits /\ place.at # None
    <2> PICK at : at = place.at
      OBVIOUS
    <2> PICK n \in Nat : n = Len(plan.moves)
      BY <1>1
    <2>1. /\ at \in Entry /\ at.length = size
          /\ at.segment \in Registered(reg) \ cl
          /\ at \notin L /\ at \notin Moves(plan)
          /\ Accounts(place.reg, L \cup Moves(plan) \cup {at})
          /\ Registered(place.reg) = Registered(reg)
          /\ place.reg.order = reg.order
      BY <1>1, <1>2, <1>5
    <2>2. /\ new.reg = place.reg /\ new.moves = Append(plan.moves, at) /\ new.fits
          /\ new = [reg |-> new.reg, moves |-> new.moves, fits |-> new.fits]
      BY <1>3, <1>5
    <2>3. /\ new.moves \in Seq(Entry) /\ Len(new.moves) = n + 1 /\ new.moves[n + 1] = at
          /\ \A j \in 1..n : new.moves[j] = plan.moves[j]
      BY <1>1, <2>1, <2>2
    <2>4. \A j \in 1..(n + 1) : j = n + 1 \/ j \in 1..n
      OBVIOUS
    <2>5. n + 1 \in 1..(n + 1) /\ \A j \in 1..n : j \in 1..(n + 1)
      OBVIOUS
    <2>6. Moves(new) = Moves(plan) \cup {at}
      <3>1. Moves(new) = {new.moves[j] : j \in 1..(n + 1)}
        BY <2>3 DEF Moves
      <3>2. Moves(plan) = {plan.moves[j] : j \in 1..n}
        BY DEF Moves
      <3> QED
        BY <2>3, <2>4, <2>5, <3>1, <3>2
    <2>7. \A j \in 1..n : plan.moves[j] # at
      BY <2>1 DEF Moves
    <2>8. \A j, k \in 1..Len(new.moves) : new.moves[j] = new.moves[k] => j = k
      <3>1. \A j, k \in 1..(n + 1) : new.moves[j] = new.moves[k] => j = k
        BY <1>1, <2>3, <2>4, <2>7
      <3> QED
        BY <2>3, <3>1
    <2>9. \A e \in Moves(new) : e \notin L /\ e.segment \in Registered(reg) \ cl
      BY <1>1, <2>1, <2>6
    <2>10. L \cup Moves(plan) \cup {at} = L \cup Moves(new)
      BY <2>6
    <2>11. n = i - 1 /\ \A j \in 1..n : plan.moves[j].length = index[items[j]].length
      BY <1>5 DEF PlanGood
    <2>12. Len(new.moves) = i /\ \A j \in 1..i : new.moves[j].length = index[items[j]].length
      <3>1. n + 1 = i
        BY <2>11
      <3> QED
        BY <1>s, <2>1, <2>3, <2>4, <2>11, <3>1
    <2>13. Accounts(new.reg, L \cup Moves(new))
      BY <2>1, <2>2, <2>10
    <2>14. PlanGood(new, reg, L, cl, items, i)
      BY <2>1, <2>2, <2>3, <2>8, <2>9, <2>12, <2>13 DEF PlanGood
    <2> QED
      BY <1>n, <2>14
  <1> QED
    BY <1>4, <1>5

LEMMA PlannedFacts ==
  ASSUME NEW L, Accounts(reg, L), NEW s, NEW items, NEW n \in Nat, n = Len(items),
         \A i \in 1..n : index[items[i]].length \in 1..SegmentSize
  PROVE  PlanGood(Planned(s, items), reg, L, closed \cup {s}, items, n)
  <1> DEFINE good(i) == PlanGood(Plans(s, items)[i], reg, L, closed \cup {s}, items, i)
             bad == {i \in 0..n : ~good(i)}
  <1>1. good(0)
    BY PlansAt, PlanStarts
  <1>2. \A i \in 1..n : good(i - 1) => good(i)
    <2> SUFFICES ASSUME NEW i \in 1..n, good(i - 1) PROVE good(i)
      OBVIOUS
    <2>1. i \in Nat \ {0}
      OBVIOUS
    <2>2. Plans(s, items)[i] = PlanNext(s, items, Plans(s, items)[i - 1], i)
      BY PlansAt
    <2> QED
      BY <2>1, <2>2, PlanGrows
  <1> HIDE DEF good
  <1>3. bad = {}
    <2> SUFFICES ASSUME bad # {} PROVE FALSE
      OBVIOUS
    <2>1. bad \in SUBSET Nat
      OBVIOUS
    <2>2. PICK m \in bad : \A k \in bad : m <= k
      <3> HIDE DEF bad
      <3> QED
        BY <2>1, LeastNumber
    <2>3. m # 0
      BY <1>1
    <2>4. m \in 1..n /\ m - 1 \in 0..n /\ ~(m <= m - 1)
      BY <2>3
    <2>5. good(m - 1)
      BY <2>2, <2>4
    <2> QED
      BY <1>2, <2>4, <2>5
  <1>4. good(n)
    BY <1>3
  <1> QED
    BY <1>4 DEF good, Planned

\* Releasing the places of a plan again leaves the entries that were there before.
LEMMA ReturnedFacts ==
  ASSUME NEW r, NEW L, NEW moves \in Seq(Entry),
         \A j, k \in 1..Len(moves) : moves[j] = moves[k] => j = k,
         \A j \in 1..Len(moves) : moves[j] \notin L,
         Accounts(r, L \cup {moves[j] : j \in 1..Len(moves)})
  PROVE  /\ Accounts(Returned(r, moves)[Len(moves)], L)
         /\ Registered(Returned(r, moves)[Len(moves)]) = Registered(r)
         /\ Returned(r, moves)[Len(moves)].order = r.order
  <1> PICK n \in Nat : n = Len(moves)
    OBVIOUS
  <1> DEFINE rest(i) == L \cup {moves[j] : j \in (i + 1)..n}
             q(i) == Returned(r, moves)[i]
             good(i) == /\ Accounts(q(i), rest(i))
                        /\ Registered(q(i)) = Registered(r)
                        /\ q(i).order = r.order
             bad == {i \in 0..n : ~good(i)}
  <1>1. good(0)
    <2>1. q(0) = r
      BY ReturnedAt
    <2>2. rest(0) = L \cup {moves[j] : j \in 1..n}
      OBVIOUS
    <2> QED
      BY <2>1, <2>2
  <1>2. \A i \in 1..n : good(i - 1) => good(i)
    <2> SUFFICES ASSUME NEW i \in 1..n, good(i - 1) PROVE good(i)
      OBVIOUS
    <2>1. q(i) = Released(q(i - 1), moves[i])
      BY ReturnedAt
    <2>2. rest(i - 1) = rest(i) \cup {moves[i]} /\ moves[i] \notin rest(i)
      <3>1. (i - 1) + 1 = i /\ \A j \in i..n : j = i \/ j \in (i + 1)..n
        OBVIOUS
      <3>2. i \in i..n /\ (\A j \in (i + 1)..n : j \in i..n /\ j # i /\ j \in 1..n)
        OBVIOUS
      <3>3. \A j \in (i + 1)..n : moves[j] # moves[i]
        BY <3>2
      <3>4. {moves[j] : j \in i..n} = {moves[j] : j \in (i + 1)..n} \cup {moves[i]}
        BY <3>1, <3>2
      <3> QED
        BY <3>1, <3>3, <3>4
    <2>3. moves[i] \in rest(i - 1) /\ rest(i - 1) \ {moves[i]} = rest(i)
      BY <2>2
    <2> HIDE DEF q, rest
    <2>4. /\ Accounts(Released(q(i - 1), moves[i]), rest(i - 1) \ {moves[i]})
          /\ Registered(Released(q(i - 1), moves[i])) = Registered(q(i - 1))
          /\ Released(q(i - 1), moves[i]).order = q(i - 1).order
      BY <2>3, ReleasedFacts
    <2> QED
      BY <2>1, <2>3, <2>4
  <1>3. rest(n) = L
    <2>1. (n + 1)..n = {}
      OBVIOUS
    <2> QED
      BY <2>1
  <1> HIDE DEF good
  <1>4. bad = {}
    <2> SUFFICES ASSUME bad # {} PROVE FALSE
      OBVIOUS
    <2>1. bad \in SUBSET Nat
      OBVIOUS
    <2>2. PICK m \in bad : \A k \in bad : m <= k
      <3> HIDE DEF bad
      <3> QED
        BY <2>1, LeastNumber
    <2>3. m # 0
      BY <1>1
    <2>4. m \in 1..n /\ m - 1 \in 0..n /\ ~(m <= m - 1)
      BY <2>3
    <2>5. good(m - 1)
      BY <2>2, <2>4
    <2> QED
      BY <1>2, <2>4, <2>5
  <1>5. good(n)
    BY <1>4
  <1> QED
    BY <1>3, <1>5 DEF good

-----------------------------------------------------------------------------
(* The segments that were created. *)

PoolOK(r, waiting, count) ==
  /\ count \in 0..MaxSegments
  /\ waiting \in Seq(Segment)
  /\ \A i, j \in 1..Len(waiting) : waiting[i] = waiting[j] => i = j
  /\ Registered(r) \cap Range(waiting) = {}
  /\ Registered(r) \cup Range(waiting) = 1..count
  /\ Len(r.order) \in Nat /\ Len(r.order) + Len(waiting) = count

LEMMA PoolSame ==
  ASSUME NEW r, NEW waiting, NEW count, PoolOK(r, waiting, count), NEW q, q.order = r.order
  PROVE  PoolOK(q, waiting, count)
  BY DEF PoolOK, Registered

LEMMA RangeOf ==
  ASSUME NEW S, NEW s \in Seq(S)
  PROVE  Range(s) = {s[i] : i \in 1..Len(s)}
  BY DEF Range

\* The first of the segments kept for reuse enters the registry.
LEMMA PoolReused ==
  ASSUME NEW r, NEW waiting, NEW count, PoolOK(r, waiting, count), waiting # <<>>,
         NEW s, s = Head(waiting), NEW q
  PROVE  /\ s \in Segment /\ s \notin Registered(r)
         /\ (Registered(q) = Registered(r) \cup {s} /\ Len(q.order) = Len(r.order) + 1
               => PoolOK(q, Tail(waiting), count))
  <1> PICK n \in Nat : n = Len(waiting)
    BY DEF PoolOK
  <1>1. /\ waiting \in Seq(Segment) /\ count \in 0..MaxSegments
        /\ \A i, j \in 1..n : waiting[i] = waiting[j] => i = j
        /\ Registered(r) \cap Range(waiting) = {}
        /\ Registered(r) \cup Range(waiting) = 1..count
        /\ Len(r.order) \in Nat /\ Len(r.order) + n = count
    BY DEF PoolOK
  <1>2. n # 0 /\ s = waiting[1]
    BY <1>1
  <1>3. Range(waiting) = {waiting[i] : i \in 1..n}
    BY <1>1, RangeOf
  <1>4. 1 \in 1..n
    BY <1>2
  <1>5. s \in Segment /\ s \in Range(waiting)
    BY <1>1, <1>2, <1>3, <1>4
  <1>t. PICK t : t = Tail(waiting)
    OBVIOUS
  <1>6. t \in Seq(Segment) /\ Len(t) = n - 1 /\ \A i \in 1..(n - 1) : t[i] = waiting[i + 1]
    BY <1>1, <1>2, <1>t
  <1>7. Range(t) = {t[i] : i \in 1..(n - 1)}
    BY <1>6, RangeOf
  <1>8. /\ \A i \in 1..(n - 1) : i + 1 \in 1..n /\ i + 1 # 1
        /\ \A i \in 1..n : i # 1 => i - 1 \in 1..(n - 1) /\ (i - 1) + 1 = i
        /\ \A i, j \in 1..(n - 1) : i + 1 = j + 1 => i = j
    OBVIOUS
  <1>9. Range(t) = Range(waiting) \ {s}
    <2>1. ASSUME NEW x \in Range(t) PROVE x \in Range(waiting) \ {s}
      <3>1. PICK i \in 1..(n - 1) : x = waiting[i + 1]
        BY <1>6, <1>7
      <3>2. i + 1 \in 1..n /\ i + 1 # 1
        BY <1>8
      <3> QED
        BY <1>1, <1>2, <1>3, <1>4, <3>1, <3>2
    <2>2. ASSUME NEW x \in Range(waiting) \ {s} PROVE x \in Range(t)
      <3>1. PICK i \in 1..n : x = waiting[i]
        BY <1>3
      <3>2. i - 1 \in 1..(n - 1) /\ (i - 1) + 1 = i
        BY <1>2, <1>8, <3>1
      <3>3. t[i - 1] = x
        BY <1>6, <3>1, <3>2
      <3> QED
        BY <1>7, <3>2, <3>3
    <2> QED
      BY <2>1, <2>2
  <1>10. \A i, j \in 1..Len(t) : t[i] = t[j] => i = j
    <2>1. \A i, j \in 1..(n - 1) : t[i] = t[j] => i + 1 = j + 1
      BY <1>1, <1>6, <1>8
    <2> QED
      BY <1>6, <1>8, <2>1
  <1>11. ASSUME Registered(q) = Registered(r) \cup {s}, Len(q.order) = Len(r.order) + 1
         PROVE  PoolOK(q, t, count)
    <2>1. Registered(q) \cap Range(t) = {} /\ Registered(q) \cup Range(t) = 1..count
      BY <1>1, <1>5, <1>9, <1>11
    <2>2. Len(q.order) \in Nat /\ Len(q.order) + Len(t) = count
      <3>1. PICK m \in Nat : m = Len(r.order)
        BY <1>1
      <3>2. m + n = count /\ Len(q.order) = m + 1 /\ Len(t) = n - 1
        BY <1>1, <1>6, <1>11, <3>1
      <3>3. (m + 1) + (n - 1) = m + n /\ m + 1 \in Nat
        OBVIOUS
      <3> QED
        BY <3>2, <3>3
    <2> QED
      BY <1>1, <1>6, <1>10, <2>1, <2>2 DEF PoolOK
  <1> QED
    BY <1>1, <1>5, <1>11, <1>t

\* A segment is created.
LEMMA PoolCreated ==
  ASSUME NEW r, NEW count, PoolOK(r, <<>>, count), count < MaxSegments, NEW q
  PROVE  /\ count + 1 \in Segment /\ count + 1 \notin Registered(r)
         /\ (Registered(q) = Registered(r) \cup {count + 1} /\ Len(q.order) = Len(r.order) + 1
               => PoolOK(q, <<>>, count + 1))
  <1>1. /\ Range(<<>>) = {} /\ Len(<<>>) = 0 /\ <<>> \in Seq(Segment)
    BY DEF Range
  <1>2. /\ count \in Nat /\ MaxSegments \in Nat
        /\ Registered(r) = 1..count /\ Len(r.order) \in Nat /\ Len(r.order) = count
    <2>1. count \in 0..MaxSegments /\ MaxSegments \in Nat
      BY SizesAssumption DEF PoolOK
    <2>2. Registered(r) \cup {} = 1..count /\ Len(r.order) \in Nat /\ Len(r.order) + 0 = count
      BY <1>1 DEF PoolOK
    <2> QED
      BY <2>1, <2>2
  <1>3. count + 1 \in Segment /\ count + 1 \notin 1..count /\ count + 1 \in 0..MaxSegments
    BY <1>2 DEF Segment
  <1>4. (1..count) \cup {count + 1} = 1..(count + 1)
    BY <1>2
  <1> QED
    BY <1>1, <1>2, <1>3, <1>4 DEF PoolOK

\* A segment leaves the registry and is kept for reuse.
LEMMA PoolEmptied ==
  ASSUME NEW r, NEW waiting, NEW count, PoolOK(r, waiting, count), NEW s \in Registered(r), s \in Segment,
         NEW q, Registered(q) = Registered(r) \ {s}, Len(q.order) = Len(r.order) - 1
  PROVE  PoolOK(q, Append(waiting, s), count)
  <1> PICK n \in Nat : n = Len(waiting)
    BY DEF PoolOK
  <1>1. /\ waiting \in Seq(Segment) /\ count \in 0..MaxSegments
        /\ \A i, j \in 1..n : waiting[i] = waiting[j] => i = j
        /\ Registered(r) \cap Range(waiting) = {}
        /\ Registered(r) \cup Range(waiting) = 1..count
        /\ Len(r.order) \in Nat /\ Len(r.order) + n = count
    BY DEF PoolOK
  <1>2. Range(waiting) = {waiting[i] : i \in 1..n}
    BY <1>1, RangeOf
  <1>a. PICK t : t = Append(waiting, s)
    OBVIOUS
  <1>3. /\ t \in Seq(Segment) /\ Len(t) = n + 1 /\ t[n + 1] = s
        /\ \A i \in 1..n : t[i] = waiting[i]
    BY <1>1, <1>a
  <1>4. Range(t) = {t[i] : i \in 1..(n + 1)}
    BY <1>3, RangeOf
  <1>5. /\ \A i \in 1..(n + 1) : i = n + 1 \/ i \in 1..n
        /\ n + 1 \in 1..(n + 1) /\ \A i \in 1..n : i \in 1..(n + 1)
    OBVIOUS
  <1>6. Range(t) = Range(waiting) \cup {s}
    BY <1>2, <1>3, <1>4, <1>5
  <1>7. \A i \in 1..n : waiting[i] # s
    BY <1>1, <1>2
  <1>8. \A i, j \in 1..Len(t) : t[i] = t[j] => i = j
    <2>1. \A i, j \in 1..(n + 1) : t[i] = t[j] => i = j
      BY <1>1, <1>3, <1>5, <1>7
    <2> QED
      BY <1>3, <2>1
  <1>9. Registered(q) \cap Range(t) = {} /\ Registered(q) \cup Range(t) = 1..count
    BY <1>1, <1>6
  <1>10. Len(q.order) \in Nat /\ Len(q.order) + Len(t) = count
    <2>1. Len(r.order) # 0
      <3>1. PICK i : i \in DOMAIN r.order
        BY DEF Registered, Range
      <3> QED
        OBVIOUS
    <2>2. PICK m \in Nat : m = Len(r.order)
      BY <1>1
    <2>3. m # 0 /\ m + n = count /\ Len(q.order) = m - 1 /\ Len(t) = n + 1
      BY <1>1, <1>3, <2>1, <2>2
    <2>4. (m - 1) + (n + 1) = m + n /\ m - 1 \in Nat
      BY <2>3
    <2> QED
      BY <2>3, <2>4
  <1>11. PoolOK(q, t, count)
    BY <1>1, <1>3, <1>8, <1>9, <1>10 DEF PoolOK
  <1> QED
    BY <1>11, <1>a

-----------------------------------------------------------------------------
(* The inductive invariant. *)

\* An entry has one owner.
OwnersDistinct ==
  /\ index \in [Keys -> Entry \cup {None}]
  /\ private \cap Published = {}
  /\ (private \cup Published) \cap retired = {}
  /\ \A j, k \in Keys : index[j] # None /\ index[j] = index[k] => j = k

ClosedOK ==
  /\ closed \subseteq Registered(reg)
  /\ \A e \in Published : e.segment \notin closed

AllocInv ==
  /\ Accounts(reg, Live)
  /\ OwnersDistinct
  /\ ClosedOK
  /\ \A s \in Registered(reg) : In(Live, s) # {}
  /\ PoolOK(reg, empty, created)

LEMMA AllocInit == Init => AllocInv
  <1> SUFFICES ASSUME Init PROVE AllocInv
    OBVIOUS
  <1>1. /\ reg.order = <<>> /\ reg.free = <<>> /\ reg.tail = <<>>
        /\ reg = [order |-> reg.order, free |-> reg.free, tail |-> reg.tail]
        /\ closed = {} /\ created = 0 /\ empty = <<>>
        /\ index = [k \in Keys |-> None] /\ private = {} /\ retired = {}
    BY DEF Init
  <1>2. Registered(reg) = {} /\ Range(empty) = {} /\ Len(<<>>) = 0
    BY <1>1 DEF Registered, Range
  <1>3. Published = {} /\ Live = {}
    BY <1>1 DEF Published, Live
  <1>4. IsRegistry(reg)
    <2>1. <<>> = [s \in {} |-> reg.free[s]] /\ <<>> = [s \in {} |-> reg.tail[s]]
      OBVIOUS
    <2>2. reg.order \in Seq(Segment) /\ Len(reg.order) = 0
      BY <1>1
    <2> QED
      BY <1>1, <1>2, <2>1, <2>2 DEF IsRegistry
  <1>5. Accounts(reg, Live)
    BY <1>2, <1>3, <1>4 DEF Accounts
  <1>6. OwnersDistinct /\ ClosedOK
    BY <1>1, <1>2, <1>3 DEF OwnersDistinct, ClosedOK
  <1>7. PoolOK(reg, empty, created)
    <2>1. /\ 0 \in 0..MaxSegments /\ 1..0 = {}
      BY SizesAssumption
    <2>2. empty \in Seq(Segment) /\ Len(empty) = 0 /\ Len(reg.order) = 0
      BY <1>1
    <2> QED
      BY <1>1, <1>2, <2>1, <2>2 DEF PoolOK
  <1> QED
    BY <1>2, <1>5, <1>6, <1>7 DEF AllocInv

\* What Allocate does: an entry nobody has, in a segment that is not closed.
LEMMA AllocateFacts ==
  ASSUME AllocInv, NEW size \in 1..SegmentSize, Allocate(size)
  PROVE  \E at \in Entry :
           /\ at \notin Live /\ at.segment \notin closed
           /\ private' = private \cup {at}
           /\ Accounts(reg', Live \cup {at})
           /\ Registered(reg') = Registered(reg) \cup {at.segment}
           /\ PoolOK(reg', empty', created')
           /\ UNCHANGED <<closed, index, retired>>
  <1>1. /\ Accounts(reg, Live) /\ PoolOK(reg, empty, created)
        /\ closed \subseteq Registered(reg)
    BY DEF AllocInv, ClosedOK
  <1>2. UNCHANGED <<closed, index, retired>>
    BY DEF Allocate
  <1>p. PICK place : place = PlaceIn(reg, closed, size)
    OBVIOUS
  <1>3. IsPlaced(place, reg, Live, closed, size)
    BY <1>1, <1>p, Placed
  <1>4. CASE place.at # None /\ reg' = place.reg /\ private' = private \cup {place.at}
             /\ UNCHANGED <<created, empty>>
    <2>1. /\ place.at \in Entry /\ place.at \notin Live
          /\ place.at.segment \in Registered(reg) /\ place.at.segment \notin closed
          /\ Accounts(reg', Live \cup {place.at})
          /\ Registered(reg') = Registered(reg) /\ reg'.order = reg.order
      BY <1>3, <1>4 DEF IsPlaced
    <2>2. PoolOK(reg', empty', created')
      <3>1. PICK q : q = reg'
        OBVIOUS
      <3>2. PoolOK(q, empty, created)
        BY <1>1, <2>1, <3>1, PoolSame
      <3> QED
        BY <1>4, <3>1, <3>2
    <2>3. Registered(reg') = Registered(reg) \cup {place.at.segment}
      BY <2>1
    <2> QED
      BY <1>2, <1>4, <2>1, <2>2, <2>3
  <1>5. ASSUME NEW s \in Segment, s \notin Registered(reg),
               reg' = Register(reg, s, size),
               private' = private \cup {[segment |-> s, offset |-> 0, length |-> size]},
               (Registered(Register(reg, s, size)) = Registered(reg) \cup {s}
                 /\ Len(Register(reg, s, size).order) = Len(reg.order) + 1
                 => PoolOK(reg', empty', created'))
        PROVE  \E at \in Entry :
                 /\ at \notin Live /\ at.segment \notin closed
                 /\ private' = private \cup {at}
                 /\ Accounts(reg', Live \cup {at})
                 /\ Registered(reg') = Registered(reg) \cup {at.segment}
                 /\ PoolOK(reg', empty', created')
                 /\ UNCHANGED <<closed, index, retired>>
    <2>a. PICK at : at = [segment |-> s, offset |-> 0, length |-> size]
      OBVIOUS
    <2>1. /\ at \in Entry /\ at \notin Live
          /\ Accounts(Register(reg, s, size), Live \cup {at})
          /\ Registered(Register(reg, s, size)) = Registered(reg) \cup {s}
          /\ Len(Register(reg, s, size).order) = Len(reg.order) + 1
      <3>1. IsRegistered(Register(reg, s, size), reg, Live, s, FirstOf(s, size))
        BY <1>1, <1>5, RegisterFacts
      <3>2. at = FirstOf(s, size)
        BY <2>a DEF FirstOf
      <3> QED
        BY <3>1, <3>2 DEF IsRegistered
    <2>2. at.segment = s /\ s \notin closed
      BY <1>1, <1>5, <2>a
    <2>3. PoolOK(reg', empty', created')
      BY <1>5, <2>1
    <2> QED
      BY <1>2, <1>5, <2>a, <2>1, <2>2, <2>3
  <1>6. CASE /\ empty # <<>> /\ reg' = Register(reg, Head(empty), size)
             /\ private' = private \cup {[segment |-> Head(empty), offset |-> 0, length |-> size]}
             /\ empty' = Tail(empty) /\ UNCHANGED created
    <2>1. PICK s, q : s = Head(empty) /\ q = Register(reg, s, size)
      OBVIOUS
    <2>2. /\ s \in Segment /\ s \notin Registered(reg)
          /\ (Registered(q) = Registered(reg) \cup {s} /\ Len(q.order) = Len(reg.order) + 1
                => PoolOK(q, Tail(empty), created))
      BY <1>1, <1>6, <2>1, PoolReused
    <2> QED
      BY <1>5, <1>6, <2>1, <2>2
  <1>7. CASE /\ empty = <<>> /\ created < MaxSegments /\ reg' = Register(reg, created + 1, size)
             /\ private' = private \cup {[segment |-> created + 1, offset |-> 0, length |-> size]}
             /\ created' = created + 1 /\ UNCHANGED empty
    <2>1. PICK s, q : s = created + 1 /\ q = Register(reg, s, size)
      OBVIOUS
    <2>2. /\ s \in Segment /\ s \notin Registered(reg)
          /\ (Registered(q) = Registered(reg) \cup {s} /\ Len(q.order) = Len(reg.order) + 1
                => PoolOK(q, <<>>, s))
      BY <1>1, <1>7, <2>1, PoolCreated
    <2> QED
      BY <1>5, <1>7, <2>1, <2>2
  <1> QED
    BY <1>4, <1>6, <1>7, <1>p DEF Allocate

\* What Free does: the entry is gone, and its segment if it was the last one there.
LEMMA FreeFacts ==
  ASSUME AllocInv, NEW e \in Entry, Free(e)
  PROVE  /\ e \in Live /\ e \notin Published
         /\ private' = private \ {e} /\ retired' = retired \ {e}
         /\ UNCHANGED <<created, index>>
         /\ Accounts(reg', Live \ {e})
         /\ closed' \subseteq Registered(reg') /\ closed' \subseteq closed
         /\ \A s \in Registered(reg') : In(Live \ {e}, s) # {}
         /\ PoolOK(reg', empty', created')
  <1>1. /\ Accounts(reg, Live) /\ PoolOK(reg, empty, created)
        /\ closed \subseteq Registered(reg)
        /\ \A s \in Registered(reg) : In(Live, s) # {}
    BY DEF AllocInv, ClosedOK
  <1>2. /\ e \in Live /\ e \notin Published
        /\ private' = private \ {e} /\ retired' = retired \ {e}
        /\ UNCHANGED <<created, index>>
    BY DEF Free, AllocInv, OwnersDistinct, Live
  <1>r. PICK r : r = Released(reg, e)
    OBVIOUS
  <1>s. PICK s : s = e.segment
    OBVIOUS
  <1>m. PICK M : M = Live \ {e}
    OBVIOUS
  <1>3. Accounts(r, M) /\ Registered(r) = Registered(reg) /\ r.order = reg.order
    BY <1>1, <1>2, <1>r, <1>m, ReleasedFacts
  <1>4. s \in Registered(reg) /\ s \in Segment
    BY <1>1, <1>2, <1>s DEF Accounts, Entry
  <1>5. Empties(r, s) <=> In(M, s) = {}
    <2>1. SegmentOK(r.free[s], r.tail[s], In(M, s)) /\ In(M, s) \subseteq Entry
      BY <1>3, <1>4 DEF Accounts, In
    <2>2. r.tail[s] - Lengths(r.free[s])[Len(r.free[s])] = 0 <=> In(M, s) = {}
      BY <2>1, UsedIsZero
    <2> QED
      BY <2>2 DEF Empties, Used
  <1>6. \A u \in Registered(reg) : u # s => In(M, u) # {}
    <2>1. \A u : u # s => In(M, u) = In(Live, u)
      BY <1>s, <1>m DEF In
    <2> QED
      BY <1>1, <2>1
  <1>7. CASE Empties(r, s)
    <2>q. PICK q : q = Unregister(r, s)
      OBVIOUS
    <2>1. reg' = q /\ closed' = closed \ {s} /\ empty' = Append(empty, s)
      BY <1>7, <1>r, <1>s, <2>q DEF Free, StillClosed
    <2>2. /\ Accounts(q, M) /\ Registered(q) = Registered(r) \ {s}
          /\ Len(q.order) = Len(r.order) - 1
      BY <1>3, <1>4, <1>5, <1>7, <2>q, UnregisterFacts
    <2>3. PoolOK(q, Append(empty, s), created)
      BY <1>1, <1>3, <1>4, <2>2, PoolEmptied
    <2>4. \A u \in Registered(q) : In(M, u) # {}
      BY <1>3, <1>6, <2>2
    <2>5. closed' \subseteq Registered(q) /\ closed' \subseteq closed
      BY <1>1, <1>3, <2>1, <2>2
    <2> QED
      BY <1>2, <1>m, <2>1, <2>2, <2>3, <2>4, <2>5
  <1>8. CASE ~Empties(r, s)
    <2>1. reg' = r /\ UNCHANGED <<closed, empty>>
      BY <1>8, <1>r, <1>s DEF Free
    <2>2. PoolOK(r, empty, created)
      BY <1>1, <1>3, PoolSame
    <2>3. \A u \in Registered(r) : In(M, u) # {}
      BY <1>3, <1>5, <1>6, <1>8
    <2> QED
      BY <1>1, <1>2, <1>3, <1>m, <2>1, <2>2, <2>3
  <1> QED
    BY <1>7, <1>8

LEMMA ItemsFinite ==
  ASSUME AllocInv, NEW s \in Registered(reg)
  PROVE  IsFiniteSet(Items(s)) /\ \A k \in Items(s) : index[k] \in In(Live, s)
  <1> DEFINE f == [k \in Items(s) |-> index[k].offset]
  <1>1. /\ Accounts(reg, Live) /\ OwnersDistinct
    BY DEF AllocInv
  <1>2. \A k \in Items(s) : k \in Keys /\ index[k] \in In(Live, s)
    BY DEF Items, In, Live, Published
  <1>3. \A k \in Items(s) : index[k].offset \in 0..(SegmentSize - 1)
                            /\ index[k].offset \in Nat /\ Has(index[k], index[k].offset)
    <2>1. \A k \in Items(s) : index[k] \in Entry
      BY <1>1, <1>2 DEF Accounts, In
    <2>2. \A e \in Entry : e.offset \in 0..(SegmentSize - 1)
      BY DEF Entry
    <2> QED
      BY <2>1, <2>2, EntryTypes
  <1>4. SegmentOK(reg.free[s], reg.tail[s], In(Live, s))
    BY <1>1 DEF Accounts
  <1>5. \A j, k \in Items(s) : index[j].offset = index[k].offset => j = k
    <2> SUFFICES ASSUME NEW j \in Items(s), NEW k \in Items(s), index[j].offset = index[k].offset
                 PROVE  j = k
      OBVIOUS
    <2>1. index[j] = index[k]
      BY <1>2, <1>3, <1>4 DEF SegmentOK
    <2> QED
      BY <1>1, <1>2, <2>1 DEF OwnersDistinct, Items
  <1>6. f \in Injection(Items(s), 0..(SegmentSize - 1))
    BY <1>3, <1>5 DEF Injection, IsInjective
  <1>7. IsFiniteSet(0..(SegmentSize - 1))
    <2>1. 0 \in Int /\ SegmentSize - 1 \in Int
      BY SizesAssumption
    <2> QED
      BY <2>1, FS_Interval
  <1> QED
    BY <1>2, <1>6, <1>7, FS_Injection

\* What Compact does: nothing, or the published entries of segment s move to new
\* places outside it and outside the closed segments.
Moved(s) == {index'[k] : k \in Items(s)}

Relocates(s) ==
  /\ s \in Registered(reg) /\ closed' = closed \cup {s}
  /\ \A k \in Items(s) : /\ index'[k] \in Entry /\ index'[k] \notin Live
                         /\ index'[k].segment \in Registered(reg) \ (closed \cup {s})
                         /\ index'[k].length = index[k].length
  /\ \A j, k \in Items(s) : index'[j] = index'[k] => j = k
  /\ index' = [k \in Keys |-> index'[k]]
  /\ \A k \in Keys \ Items(s) : index'[k] = index[k]
  /\ retired' = retired \cup {index[k] : k \in Items(s)}
  /\ Accounts(reg', Live \cup Moved(s))

LEMMA CompactFacts ==
  ASSUME AllocInv, Compact
  PROVE  /\ UNCHANGED <<created, empty, private>>
         /\ reg'.order = reg.order
         /\ \/ Accounts(reg', Live) /\ UNCHANGED <<closed, index, retired>>
            \/ \E s : Relocates(s)
  <1>1. PICK s \in Targets :
          /\ Items(s) # {}
          /\ \E items \in SetToSeqs(Items(s)) :
               LET plan == Planned(s, items)
                   to == [k \in Items(s) |-> plan.moves[CHOOSE i \in DOMAIN items : items[i] = k]]
               IN  IF plan.fits
                   THEN /\ reg' = plan.reg
                        /\ closed' = closed \cup {s}
                        /\ index' = [k \in Keys |-> IF k \in Items(s) THEN to[k] ELSE index[k]]
                        /\ retired' = Vacated(s)
                   ELSE /\ reg' = RolledBack(plan)
                        /\ UNCHANGED <<closed, index, retired>>
          /\ UNCHANGED <<created, empty, private>>
    BY DEF Compact
  <1>2. PICK items \in SetToSeqs(Items(s)) :
          LET plan == Planned(s, items)
              to == [k \in Items(s) |-> plan.moves[CHOOSE i \in DOMAIN items : items[i] = k]]
          IN  IF plan.fits
              THEN /\ reg' = plan.reg
                   /\ closed' = closed \cup {s}
                   /\ index' = [k \in Keys |-> IF k \in Items(s) THEN to[k] ELSE index[k]]
                   /\ retired' = Vacated(s)
              ELSE /\ reg' = RolledBack(plan)
                   /\ UNCHANGED <<closed, index, retired>>
    BY <1>1
  <1>p. PICK plan : plan = Planned(s, items)
    OBVIOUS
  <1>3. /\ Accounts(reg, Live) /\ IsRegistry(reg) /\ Live \subseteq Entry
    BY DEF AllocInv, Accounts
  <1>4. s \in Registered(reg)
    <2> DEFINE open == Registered(reg) \ closed
               least == {u \in open : /\ Used(reg, u) < Threshold
                                      /\ \A t \in open : Used(reg, u) <= Used(reg, t)}
    <2>1. least # {} /\ s = First(reg, least)
      BY DEF Targets
    <2>2. least \in SUBSET Registered(reg)
      OBVIOUS
    <2> HIDE DEF least
    <2>3. s \in least
      BY <1>3, <2>1, <2>2, FirstIn
    <2> QED
      BY <2>2, <2>3
  <1>5. IsFiniteSet(Items(s)) /\ \A k \in Items(s) : index[k] \in In(Live, s)
    BY <1>4, ItemsFinite
  <1> PICK n : n = Len(items)
    OBVIOUS
  <1>6. /\ n \in Nat /\ DOMAIN items = 1..n
        /\ \A i \in 1..n : items[i] \in Items(s)
        /\ \A i, j \in 1..n : items[i] = items[j] => i = j
        /\ \A x \in Items(s) : \E i \in 1..n : items[i] = x
    BY <1>5, SequenceOfSet
  <1>7. \A k \in Items(s) : index[k].length \in 1..SegmentSize
    BY <1>3, <1>5, EntryTypes DEF In
  <1>8. PlanGood(plan, reg, Live, closed \cup {s}, items, n)
    <2>1. \A i \in 1..n : index[items[i]].length \in 1..SegmentSize
      BY <1>6, <1>7
    <2> QED
      BY <1>3, <1>6, <1>p, <2>1, PlannedFacts
  <1>9. /\ plan.moves \in Seq(Entry)
        /\ \A j, k \in 1..Len(plan.moves) : plan.moves[j] = plan.moves[k] => j = k
        /\ \A e \in Moves(plan) : /\ e \notin Live
                                  /\ e.segment \in Registered(reg) \ (closed \cup {s})
        /\ Accounts(plan.reg, Live \cup Moves(plan))
        /\ plan.reg.order = reg.order
        /\ plan.fits => /\ Len(plan.moves) = n
                        /\ \A j \in 1..n : plan.moves[j].length = index[items[j]].length
    BY <1>8 DEF PlanGood
  <1>10. ASSUME plan.fits PROVE reg'.order = reg.order /\ Relocates(s)
    <2> DEFINE rank(k) == CHOOSE i \in DOMAIN items : items[i] = k
    <2>1. \A k \in Items(s) : rank(k) \in 1..n /\ items[rank(k)] = k
      BY <1>6
    <2>2. \A i \in 1..n : rank(items[i]) = i
      BY <1>6, <2>1
    <2>3. /\ reg' = plan.reg /\ closed' = closed \cup {s} /\ retired' = Vacated(s)
          /\ index' = [k \in Keys |-> IF k \in Items(s)
                         THEN [j \in Items(s) |-> plan.moves[rank(j)]][k] ELSE index[k]]
      BY <1>2, <1>10, <1>p
    <2>4. Items(s) \subseteq Keys
      BY DEF Items
    <2> HIDE DEF rank
    <2>5. /\ index' = [k \in Keys |-> index'[k]]
          /\ \A k \in Keys \ Items(s) : index'[k] = index[k]
          /\ \A k \in Items(s) : index'[k] = plan.moves[rank(k)]
      BY <2>3, <2>4
    <2>6. Len(plan.moves) = n /\ Moves(plan) = {plan.moves[j] : j \in 1..n}
      BY <1>9, <1>10 DEF Moves
    <2>7. \A k \in Items(s) : index'[k] \in Moves(plan) /\ index'[k] \in Entry
                              /\ index'[k].length = index[k].length
      BY <1>6, <1>9, <1>10, <2>1, <2>5, <2>6
    <2>8. \A j, k \in Items(s) : index'[j] = index'[k] => j = k
      BY <1>9, <2>1, <2>5, <2>6
    <2>9. Moved(s) = Moves(plan)
      <3>1. Moved(s) \subseteq Moves(plan)
        BY <2>7 DEF Moved
      <3>2. ASSUME NEW j \in 1..n PROVE plan.moves[j] \in Moved(s)
        <4>1. items[j] \in Items(s) /\ index'[items[j]] = plan.moves[j]
          BY <1>6, <2>2, <2>5
        <4> QED
          BY <4>1 DEF Moved
      <3> QED
        BY <2>6, <3>1, <3>2
    <2> QED
      BY <1>4, <1>9, <2>3, <2>5, <2>7, <2>8, <2>9 DEF Relocates, Vacated
  <1>11. ASSUME ~plan.fits
         PROVE  /\ reg'.order = reg.order
                /\ Accounts(reg', Live) /\ UNCHANGED <<closed, index, retired>>
    <2>1. reg' = RolledBack(plan) /\ UNCHANGED <<closed, index, retired>>
      BY <1>2, <1>11, <1>p
    <2>2. \A j \in 1..Len(plan.moves) : plan.moves[j] \notin Live
      BY <1>9 DEF Moves
    <2>3. /\ Accounts(RolledBack(plan), Live)
          /\ RolledBack(plan).order = plan.reg.order
      BY <1>9, <2>2, ReturnedFacts DEF Moves, RolledBack
    <2> QED
      BY <1>9, <2>1, <2>3
  <1> QED
    BY <1>1, <1>10, <1>11

LEMMA PublishedIs ==
  /\ Published = {index[k] : k \in Keys} \ {None}
  /\ Published' = {index'[k] : k \in Keys} \ {None}
  /\ Live' = private' \cup Published' \cup retired'
  BY DEF Published, Live

LEMMA AllocateKeeps ==
  ASSUME AllocInv, NEW size \in 1..SegmentSize, Allocate(size)
  PROVE  AllocInv'
  <1>1. PICK at \in Entry :
           /\ at \notin Live /\ at.segment \notin closed
           /\ private' = private \cup {at}
           /\ Accounts(reg', Live \cup {at})
           /\ Registered(reg') = Registered(reg) \cup {at.segment}
           /\ PoolOK(reg', empty', created')
           /\ UNCHANGED <<closed, index, retired>>
    BY AllocateFacts
  <1>2. Published' = Published /\ Live' = Live \cup {at}
    BY <1>1 DEF Live, Published
  <1>3. OwnersDistinct'
    BY <1>1, <1>2 DEF AllocInv, OwnersDistinct, Live
  <1>4. ClosedOK'
    BY <1>1, <1>2 DEF AllocInv, ClosedOK
  <1>5. \A s \in Registered(reg') : In(Live \cup {at}, s) # {}
    BY <1>1 DEF AllocInv, In
  <1> QED
    BY <1>1, <1>2, <1>3, <1>4, <1>5 DEF AllocInv

LEMMA FreeKeeps ==
  ASSUME AllocInv, NEW e \in Entry, Free(e)
  PROVE  AllocInv'
  <1>1. /\ e \in Live /\ e \notin Published
        /\ private' = private \ {e} /\ retired' = retired \ {e}
        /\ UNCHANGED <<created, index>>
        /\ Accounts(reg', Live \ {e})
        /\ closed' \subseteq Registered(reg') /\ closed' \subseteq closed
        /\ \A s \in Registered(reg') : In(Live \ {e}, s) # {}
        /\ PoolOK(reg', empty', created')
    BY FreeFacts
  <1>2. Published' = Published /\ Live' = Live \ {e}
    BY <1>1 DEF Live, Published
  <1>3. OwnersDistinct'
    BY <1>1, <1>2 DEF AllocInv, OwnersDistinct
  <1>4. ClosedOK'
    BY <1>1, <1>2 DEF AllocInv, ClosedOK
  <1> QED
    BY <1>1, <1>2, <1>3, <1>4 DEF AllocInv

LEMMA PutKeeps ==
  ASSUME AllocInv, NEW k \in Keys, NEW e \in private, Put(k, e)
  PROVE  AllocInv'
  <1>1. /\ private' = private \ {e}
        /\ index' = [index EXCEPT ![k] = e]
        /\ retired' = retired \cup ({index[k]} \ {None})
        /\ closed' = closed \ {e.segment}
        /\ UNCHANGED <<reg, created, empty>>
    BY DEF Put, Reopened
  <1>2. /\ e \in Live /\ e \in Entry /\ e # None /\ e \notin Published /\ e \notin retired
        /\ index \in [Keys -> Entry \cup {None}]
    BY NoneAssumption DEF AllocInv, OwnersDistinct, Accounts, Live
  <1>3. /\ index' \in [Keys -> Entry \cup {None}] /\ index'[k] = e
        /\ \A j \in Keys : j # k => index'[j] = index[j]
    BY <1>1, <1>2
  <1>4. \A j \in Keys : index[j] # None => index[j] \in Published /\ index[j] \in Live
    BY DEF Published, Live
  <1>5. Published' = (Published \ {index[k]}) \cup {e}
    <2>1. \A j \in Keys : j # k /\ index[j] # None => index[j] # index[k]
      BY DEF AllocInv, OwnersDistinct
    <2>2. ASSUME NEW x \in Published' PROVE x \in (Published \ {index[k]}) \cup {e}
      <3>1. PICK j \in Keys : x = index'[j] /\ x # None
        BY PublishedIs
      <3> QED
        BY <1>3, <1>4, <2>1, <3>1
    <2>3. ASSUME NEW x \in Published \ {index[k]} PROVE x \in Published'
      <3>1. PICK j \in Keys : x = index[j] /\ x # None
        BY PublishedIs
      <3>2. index'[j] = x
        BY <1>3, <3>1
      <3> QED
        BY <3>1, <3>2, PublishedIs
    <2>4. e \in Published'
      BY <1>2, <1>3, PublishedIs
    <2> QED
      BY <2>2, <2>3, <2>4
  <1>6. Live' = Live
    <2>1. index[k] # None => index[k] \in Published
      BY <1>4
    <2>2. index[k] = None => index[k] \notin Published
      BY PublishedIs
    <2> QED
      BY <1>1, <1>5, <2>1, <2>2, PublishedIs DEF Live
  <1>7. OwnersDistinct'
    <2>1. private' \cap Published' = {}
      BY <1>1, <1>5 DEF AllocInv, OwnersDistinct
    <2>2. (private' \cup Published') \cap retired' = {}
      <3>1. index[k] # None => index[k] \notin private /\ index[k] \notin retired /\ index[k] # e
        BY <1>2, <1>4 DEF AllocInv, OwnersDistinct
      <3> QED
        BY <1>1, <1>2, <1>5, <3>1 DEF AllocInv, OwnersDistinct
    <2>3. \A i, j \in Keys : index'[i] # None /\ index'[i] = index'[j] => i = j
      BY <1>2, <1>3, <1>4 DEF AllocInv, OwnersDistinct
    <2> QED
      BY <1>3, <2>1, <2>2, <2>3 DEF OwnersDistinct
  <1>8. ClosedOK'
    BY <1>1, <1>5 DEF AllocInv, ClosedOK
  <1> QED
    BY <1>1, <1>6, <1>7, <1>8 DEF AllocInv

LEMMA RemoveKeyKeeps ==
  ASSUME AllocInv, NEW k \in Keys, RemoveKey(k)
  PROVE  AllocInv'
  <1>1. /\ index[k] # None
        /\ index' = [index EXCEPT ![k] = None]
        /\ retired' = retired \cup {index[k]}
        /\ UNCHANGED <<reg, closed, created, empty, private>>
    BY DEF RemoveKey
  <1>2. /\ index \in [Keys -> Entry \cup {None}] /\ index[k] \in Published
        /\ index[k] \notin private
    BY <1>1 DEF AllocInv, OwnersDistinct, Published
  <1>3. /\ index' \in [Keys -> Entry \cup {None}] /\ index'[k] = None
        /\ \A j \in Keys : j # k => index'[j] = index[j]
    BY <1>1, <1>2
  <1>4. Published' = Published \ {index[k]}
    <2>1. \A j \in Keys : j # k /\ index[j] # None => index[j] # index[k]
      BY DEF AllocInv, OwnersDistinct
    <2>2. ASSUME NEW x \in Published' PROVE x \in Published \ {index[k]}
      <3>1. PICK j \in Keys : x = index'[j] /\ x # None
        BY PublishedIs
      <3> QED
        BY <1>3, <2>1, <3>1, PublishedIs
    <2>3. ASSUME NEW x \in Published \ {index[k]} PROVE x \in Published'
      <3>1. PICK j \in Keys : x = index[j] /\ x # None
        BY PublishedIs
      <3>2. index'[j] = x
        BY <1>3, <3>1
      <3> QED
        BY <3>1, <3>2, PublishedIs
    <2> QED
      BY <2>2, <2>3
  <1>5. Live' = Live
    BY <1>1, <1>2, <1>4, PublishedIs DEF Live
  <1>6. OwnersDistinct'
    BY <1>1, <1>2, <1>3, <1>4 DEF AllocInv, OwnersDistinct
  <1>7. ClosedOK'
    BY <1>1, <1>4 DEF AllocInv, ClosedOK
  <1> QED
    BY <1>1, <1>5, <1>6, <1>7 DEF AllocInv

LEMMA RelocatesKeeps ==
  ASSUME AllocInv, NEW s, Relocates(s), UNCHANGED <<created, empty, private>>,
         reg'.order = reg.order
  PROVE  AllocInv'
  <1>1. /\ s \in Registered(reg) /\ closed' = closed \cup {s}
        /\ \A k \in Items(s) : /\ index'[k] \in Entry /\ index'[k] \notin Live
                               /\ index'[k].segment \in Registered(reg) \ (closed \cup {s})
        /\ \A j, k \in Items(s) : index'[j] = index'[k] => j = k
        /\ index' = [k \in Keys |-> index'[k]]
        /\ \A k \in Keys \ Items(s) : index'[k] = index[k]
        /\ retired' = retired \cup {index[k] : k \in Items(s)}
        /\ Accounts(reg', Live \cup Moved(s))
    BY DEF Relocates
  <1>2. /\ Items(s) \subseteq Keys
        /\ \A k \in Items(s) : index[k] # None /\ index[k].segment = s
        /\ \A k \in Keys \ Items(s) : index[k] = None \/ index[k].segment # s
    BY DEF Items
  <1>3. /\ index \in [Keys -> Entry \cup {None}]
        /\ private \cap Published = {} /\ (private \cup Published) \cap retired = {}
        /\ \A j, k \in Keys : index[j] # None /\ index[j] = index[k] => j = k
    BY DEF AllocInv, OwnersDistinct
  <1>4. \A k \in Keys : index[k] # None => index[k] \in Published /\ index[k] \in Live
    BY DEF Published, Live
  <1>o. PICK out : out = {index[k] : k \in Items(s)}
    OBVIOUS
  <1>5. \A k \in Items(s) : index'[k] \in Moved(s) /\ index'[k] # None
    BY <1>1, NoneAssumption DEF Moved
  <1>6. \A x \in Moved(s) : x \notin Live /\ x # None
                            /\ x.segment \in Registered(reg) \ (closed \cup {s})
    BY <1>1, NoneAssumption DEF Moved
  <1>7. out \subseteq Published /\ \A k \in Keys \ Items(s) : index[k] \notin out
    BY <1>2, <1>4, <1>o
  <1>8. Published' = (Published \ out) \cup Moved(s)
    <2>1. ASSUME NEW x \in Published' PROVE x \in (Published \ out) \cup Moved(s)
      <3>1. PICK k \in Keys : x = index'[k] /\ x # None
        BY PublishedIs
      <3> QED
        BY <1>1, <1>4, <1>5, <1>7, <3>1
    <2>2. ASSUME NEW x \in Published \ out PROVE x \in Published'
      <3>1. PICK k \in Keys : x = index[k] /\ x # None
        BY PublishedIs
      <3>2. k \in Keys \ Items(s)
        BY <1>o, <3>1
      <3> QED
        BY <1>1, <3>1, <3>2, PublishedIs
    <2>3. ASSUME NEW x \in Moved(s) PROVE x \in Published'
      <3>1. PICK k \in Items(s) : x = index'[k]
        BY DEF Moved
      <3> QED
        BY <1>2, <1>5, <3>1, PublishedIs
    <2> QED
      BY <2>1, <2>2, <2>3
  <1>9. Live' = Live \cup Moved(s)
    BY <1>1, <1>o, <1>7, <1>8, PublishedIs DEF Live
  <1>10. OwnersDistinct'
    <2>1. index' \in [Keys -> Entry \cup {None}]
      BY <1>1, <1>3
    <2>2. private' \cap Published' = {}
      BY <1>3, <1>6, <1>8 DEF Live
    <2>3. (private' \cup Published') \cap retired' = {}
      BY <1>1, <1>3, <1>6, <1>7, <1>8, <1>o DEF Live
    <2>4. \A j, k \in Keys : index'[j] # None /\ index'[j] = index'[k] => j = k
      <3> SUFFICES ASSUME NEW j \in Keys, NEW k \in Keys, index'[j] # None, index'[j] = index'[k]
                   PROVE  j = k
        OBVIOUS
      <3>1. CASE j \in Items(s) /\ k \in Items(s)
        BY <1>1, <3>1
      <3>2. CASE j \in Items(s) /\ k \notin Items(s)
        <4>1. index'[k] = index[k] /\ index[k] # None
          BY <1>1, <3>2
        <4> QED
          BY <1>4, <1>5, <1>6, <3>2, <4>1
      <3>3. CASE j \notin Items(s) /\ k \in Items(s)
        <4>1. index'[j] = index[j] /\ index[j] # None
          BY <1>1, <3>3
        <4> QED
          BY <1>4, <1>5, <1>6, <3>3, <4>1
      <3>4. CASE j \notin Items(s) /\ k \notin Items(s)
        BY <1>1, <1>3, <3>4
      <3> QED
        BY <3>1, <3>2, <3>3, <3>4
    <2> QED
      BY <2>1, <2>2, <2>3, <2>4 DEF OwnersDistinct
  <1>11. Registered(reg') = Registered(reg)
    BY DEF Registered
  <1>12. ClosedOK'
    <2>1. ASSUME NEW e \in Published' PROVE e.segment \notin closed \cup {s}
      <3>1. CASE e \in Moved(s)
        BY <1>6, <3>1
      <3>2. CASE e \in Published \ out
        <4>1. PICK k \in Keys : e = index[k] /\ e # None
          BY <3>2, PublishedIs
        <4>2. k \notin Items(s)
          BY <1>o, <3>2, <4>1
        <4> QED
          BY <1>2, <3>2, <4>1, <4>2 DEF AllocInv, ClosedOK
      <3> QED
        BY <1>8, <3>1, <3>2
    <2> QED
      BY <1>1, <1>11, <2>1 DEF AllocInv, ClosedOK
  <1>13. \A u \in Registered(reg') : In(Live \cup Moved(s), u) # {}
    BY <1>11 DEF AllocInv, In
  <1>14. PoolOK(reg', empty', created')
    <2>1. PICK q : q = reg'
      OBVIOUS
    <2>2. PoolOK(q, empty, created)
      BY <2>1, PoolSame DEF AllocInv
    <2> QED
      BY <2>1, <2>2
  <1> QED
    BY <1>1, <1>9, <1>10, <1>12, <1>13, <1>14 DEF AllocInv

LEMMA CompactKeeps ==
  ASSUME AllocInv, Compact
  PROVE  AllocInv'
  <1>1. /\ UNCHANGED <<created, empty, private>>
        /\ reg'.order = reg.order
        /\ \/ Accounts(reg', Live) /\ UNCHANGED <<closed, index, retired>>
           \/ \E s : Relocates(s)
    BY CompactFacts
  <1>2. CASE Accounts(reg', Live) /\ UNCHANGED <<closed, index, retired>>
    <2>1. Published' = Published /\ Live' = Live
      BY <1>1, <1>2 DEF Live, Published
    <2>2. Registered(reg') = Registered(reg)
      BY <1>1 DEF Registered
    <2>3. PoolOK(reg', empty', created')
      <3>1. PICK q : q = reg'
        OBVIOUS
      <3>2. PoolOK(q, empty, created)
        BY <1>1, <3>1, PoolSame DEF AllocInv
      <3> QED
        BY <1>1, <3>1, <3>2
    <2>4. OwnersDistinct' /\ ClosedOK'
      BY <1>1, <1>2, <2>1, <2>2 DEF AllocInv, OwnersDistinct, ClosedOK
    <2> QED
      BY <1>2, <2>1, <2>2, <2>3, <2>4 DEF AllocInv
  <1>3. CASE \E s : Relocates(s)
    BY <1>1, <1>3, RelocatesKeeps
  <1> QED
    BY <1>1, <1>2, <1>3

\* AllocInv is inductive: every byte stays accounted for, through every operation.
THEOREM AllocInductive == Spec => []AllocInv
  <1>1. AllocInv /\ [Next]_vars => AllocInv'
    <2> SUFFICES ASSUME AllocInv, [Next]_vars PROVE AllocInv'
      OBVIOUS
    <2>1. CASE \E size \in 1..SegmentSize : Allocate(size)
      BY <2>1, AllocateKeeps
    <2>2. CASE \E k \in Keys, e \in private : Put(k, e)
      BY <2>2, PutKeeps
    <2>3. CASE \E k \in Keys : RemoveKey(k)
      BY <2>3, RemoveKeyKeeps
    <2>4. CASE \E e \in Entry : Free(e)
      BY <2>4, FreeKeeps
    <2>5. CASE Compact
      BY <2>5, CompactKeeps
    <2>6. CASE UNCHANGED vars
      <3>1. UNCHANGED <<reg, closed, created, empty, index, private, retired>>
        BY <2>6 DEF vars
      <3>2. Published' = Published /\ Live' = Live
        BY <3>1 DEF Published, Live
      <3>3. OwnersDistinct' /\ ClosedOK'
        BY <3>1, <3>2 DEF AllocInv, OwnersDistinct, ClosedOK
      <3> QED
        BY <3>1, <3>2, <3>3 DEF AllocInv
    <2> QED
      BY <2>1, <2>2, <2>3, <2>4, <2>5, <2>6 DEF Next
  <1> QED
    BY <1>1, AllocInit, PTL DEF Spec


-----------------------------------------------------------------------------
(* The properties. *)

LEMMA AllocTypes == AllocInv => TypeOK
  <1> SUFFICES ASSUME AllocInv PROVE TypeOK
    OBVIOUS
  <1>1. /\ IsRegistry(reg) /\ Live \subseteq Entry
        /\ \A s \in Registered(reg) : SegmentOK(reg.free[s], reg.tail[s], In(Live, s))
    BY DEF AllocInv, Accounts
  <1>2. reg.order \in Seq(Segment) /\ DOMAIN reg.free = Registered(reg)
    BY <1>1 DEF IsRegistry
  <1>3. \A s \in Registered(reg) : reg.free[s] \in Seq(FreeExtent)
    BY <1>1 DEF SegmentOK, Coalesced
  <1>4. reg.tail \in [Registered(reg) -> 1..SegmentSize]
    <2>1. \A s \in Registered(reg) : reg.tail[s] \in 1..SegmentSize
      BY <1>1 DEF SegmentOK
    <2> QED
      BY <1>1, <2>1 DEF IsRegistry
  <1>5. private \subseteq Entry /\ retired \subseteq Entry
    BY <1>1 DEF Live
  <1> QED
    BY <1>2, <1>3, <1>4, <1>5
       DEF TypeOK, FreeExtent, AllocInv, OwnersDistinct, ClosedOK, PoolOK

\* The bytes of e are the places it has in its segment.
LEMMA BytesAre ==
  ASSUME NEW e, e.offset \in Nat, e.length \in Nat
  PROVE  \A x : x \in Bytes(e) <=> \E b \in Nat : x = <<e.segment, b>> /\ Has(e, b)
  <1>1. \A b : b \in e.offset .. (e.offset + e.length - 1) <=> b \in Nat /\ Has(e, b)
    BY DEF Has, End
  <1> QED
    BY <1>1 DEF Bytes

LEMMA AllocBytes == AllocInv => BytesAccounted
  <1> SUFFICES ASSUME AllocInv PROVE BytesAccounted
    OBVIOUS
  <1> DEFINE inUse == UNION {Bytes(e) : e \in Live}
             freed == UNION {UNION {Bytes([segment |-> s, offset |-> e.offset,
                                           length |-> e.length]) :
                                      e \in Range(reg.free[s])} : s \in Registered(reg)}
             below == UNION {{s} \X (0..(reg.tail[s] - 1)) : s \in Registered(reg)}
  <1>1. /\ IsRegistry(reg) /\ Live \subseteq Entry
        /\ \A e \in Live : e.segment \in Registered(reg)
        /\ \A s \in Registered(reg) : SegmentOK(reg.free[s], reg.tail[s], In(Live, s))
    BY DEF AllocInv, Accounts
  <1>f. /\ \A s \in Registered(reg) : reg.free[s] \in Seq(FreeExtent)
        /\ \A e \in FreeExtent : e.offset \in Nat /\ e.length \in Nat /\ End(e) \in Nat
    <2>1. \A s \in Registered(reg) : reg.free[s] \in Seq(FreeExtent)
      BY <1>1 DEF SegmentOK, Coalesced
    <2>2. \A e \in FreeExtent : e.offset \in Nat /\ e.length \in Nat /\ End(e) \in Nat
      BY SizesAssumption DEF FreeExtent, End
    <2> QED
      BY <2>1, <2>2
  <1>2. \A x : x \in inUse <=> \E e \in Live : \E b \in Nat : x = <<e.segment, b>> /\ Has(e, b)
    <2>1. \A e \in Live : \A x : x \in Bytes(e) <=> \E b \in Nat : x = <<e.segment, b>> /\ Has(e, b)
      <3> SUFFICES ASSUME NEW e \in Live
                   PROVE  \A x : x \in Bytes(e) <=> \E b \in Nat : x = <<e.segment, b>> /\ Has(e, b)
        OBVIOUS
      <3>1. e.offset \in Nat /\ e.length \in Nat
        BY <1>1, EntryTypes
      <3> QED
        BY <3>1, BytesAre
    <2> QED
      BY <2>1
  <1>3. \A x : x \in freed <=>
          \E s \in Registered(reg) : \E b \in Nat : x = <<s, b>> /\ Holding(reg.free[s], b)
    <2>1. \A s \in Registered(reg) : Range(reg.free[s]) = {reg.free[s][i] : i \in 1..Len(reg.free[s])}
      BY <1>1, RangeOf DEF SegmentOK, Coalesced
    <2>2. \A s \in Registered(reg) : \A e \in Range(reg.free[s]) :
            \A x : x \in Bytes([segment |-> s, offset |-> e.offset, length |-> e.length])
                     <=> \E b \in Nat : x = <<s, b>> /\ Has(e, b)
      <3> SUFFICES ASSUME NEW s \in Registered(reg), NEW e \in Range(reg.free[s])
                   PROVE  \A x : x \in Bytes([segment |-> s, offset |-> e.offset, length |-> e.length])
                                   <=> \E b \in Nat : x = <<s, b>> /\ Has(e, b)
        OBVIOUS
      <3>1. PICK i \in 1..Len(reg.free[s]) : e = reg.free[s][i]
        BY <2>1
      <3>2. e.offset \in Nat /\ e.length \in Nat
        BY <1>f, <3>1
      <3>3. PICK d : d = [segment |-> s, offset |-> e.offset, length |-> e.length]
        OBVIOUS
      <3>4. d.segment = s /\ d.offset = e.offset /\ d.length = e.length
        BY <3>3
      <3>5. \A b : Has(d, b) <=> Has(e, b)
        BY <3>4 DEF Has, End
      <3> QED
        BY <3>2, <3>3, <3>4, <3>5, BytesAre
    <2>3. \A s \in Registered(reg) : \A b :
            Holding(reg.free[s], b) <=> \E e \in Range(reg.free[s]) : Has(e, b)
      BY ZenonT(30), <2>1 DEF Holding
    <2> DEFINE part(s, e) == Bytes([segment |-> s, offset |-> e.offset, length |-> e.length])
    <2>4. \A x : x \in freed <=>
            \E s \in Registered(reg) : \E e \in Range(reg.free[s]) : x \in part(s, e)
      OBVIOUS
    <2>5. \A s \in Registered(reg) : \A e \in Range(reg.free[s]) :
            \A x : x \in part(s, e) <=> \E b \in Nat : x = <<s, b>> /\ Has(e, b)
      BY <2>2
    <2> HIDE DEF freed, part
    <2> QED
      BY <2>3, <2>4, <2>5
  <1>4. \A x : x \in below <=> \E s \in Registered(reg) : \E b \in 0..(reg.tail[s] - 1) : x = <<s, b>>
    OBVIOUS
  <1> HIDE DEF inUse, freed, below
  <1>5. \A s \in Registered(reg) : \A b \in Nat :
          /\ b \in 0..(reg.tail[s] - 1)
               <=> Holding(reg.free[s], b) \/ \E e \in In(Live, s) : Has(e, b)
          /\ ~(Holding(reg.free[s], b) /\ \E e \in In(Live, s) : Has(e, b))
    <2> SUFFICES ASSUME NEW s \in Registered(reg), NEW b \in Nat
                 PROVE  /\ b \in 0..(reg.tail[s] - 1)
                             <=> Holding(reg.free[s], b) \/ \E e \in In(Live, s) : Has(e, b)
                        /\ ~(Holding(reg.free[s], b) /\ \E e \in In(Live, s) : Has(e, b))
      OBVIOUS
    <2>1. SegmentOK(reg.free[s], reg.tail[s], In(Live, s))
      BY <1>1
    <2>2. PICK t \in Nat : t = reg.tail[s]
      BY <2>1, SizesAssumption DEF SegmentOK
    <2>3. b \in 0..(t - 1) <=> b < t
      OBVIOUS
    <2>4. ASSUME NEW e \in In(Live, s), Has(e, b) PROVE b < t
      <3>1. End(e) <= t /\ End(e) \in Nat
        BY <1>1, <2>1, <2>2, EntryTypes DEF SegmentOK, In, End
      <3> QED
        BY <2>4, <3>1 DEF Has
    <2>5. ASSUME NEW i \in 1..Len(reg.free[s]), Has(reg.free[s][i], b) PROVE b < t
      <3>1. reg.free[s][i] \in FreeExtent /\ End(reg.free[s][i]) <= t
        BY <2>1, <2>2 DEF SegmentOK, Coalesced
      <3>2. End(reg.free[s][i]) \in Nat
        BY <1>f
      <3> QED
        BY <2>5, <3>1, <3>2 DEF Has
    <2> QED
      BY <2>1, <2>2, <2>3, <2>4, <2>5 DEF SegmentOK, Holding
  <1>6. inUse \cup freed = below
    <2>1. ASSUME NEW x \in inUse PROVE x \in below
      <3>1. PICK e \in Live, b \in Nat : x = <<e.segment, b>> /\ Has(e, b)
        BY <1>2
      <3>2. e \in In(Live, e.segment) /\ e.segment \in Registered(reg)
        BY <1>1 DEF In
      <3> QED
        BY <1>4, <1>5, <3>1, <3>2
    <2>2. ASSUME NEW x \in freed PROVE x \in below
      BY <1>3, <1>4, <1>5
    <2>3. ASSUME NEW x \in below PROVE x \in inUse \cup freed
      <3>0. PICK s \in Registered(reg) : \E b \in 0..(reg.tail[s] - 1) : x = <<s, b>>
        BY <1>4
      <3>1. PICK b \in 0..(reg.tail[s] - 1) : x = <<s, b>>
        BY <3>0
      <3>2. b \in Nat
        OBVIOUS
      <3>3. CASE Holding(reg.free[s], b)
        BY <1>3, <3>1, <3>2, <3>3
      <3>4. CASE \E e \in In(Live, s) : Has(e, b)
        <4>1. PICK e \in In(Live, s) : Has(e, b)
          BY <3>4
        <4>2. e \in Live /\ e.segment = s
          BY DEF In
        <4> QED
          BY <1>2, <3>1, <3>2, <4>1, <4>2
      <3> QED
        BY <1>5, <3>2, <3>3, <3>4
    <2> QED
      BY <2>1, <2>2, <2>3
  <1>7. inUse \cap freed = {}
    <2> SUFFICES ASSUME NEW x \in inUse, x \in freed PROVE FALSE
      OBVIOUS
    <2>1. PICK e \in Live, b \in Nat : x = <<e.segment, b>> /\ Has(e, b)
      BY <1>2
    <2>2. PICK s \in Registered(reg), c \in Nat : x = <<s, c>> /\ Holding(reg.free[s], c)
      BY <1>3
    <2>3. s = e.segment /\ c = b
      BY <2>1, <2>2
    <2>4. e \in In(Live, s)
      BY <2>3 DEF In
    <2> QED
      BY <1>5, <2>1, <2>2, <2>3, <2>4
  <1>8. \A d, e \in Live : d # e => Bytes(d) \cap Bytes(e) = {}
    <2> SUFFICES ASSUME NEW d \in Live, NEW e \in Live, NEW x \in Bytes(d), x \in Bytes(e)
                 PROVE  d = e
      OBVIOUS
    <2>1. d.offset \in Nat /\ d.length \in Nat /\ e.offset \in Nat /\ e.length \in Nat
      BY <1>1, EntryTypes
    <2>2. PICK b \in Nat : x = <<d.segment, b>> /\ Has(d, b)
      BY <2>1, BytesAre
    <2>3. PICK c \in Nat : x = <<e.segment, c>> /\ Has(e, c)
      BY <2>1, BytesAre
    <2>4. d.segment = e.segment /\ b = c
      BY <2>2, <2>3
    <2>5. d \in In(Live, d.segment) /\ e \in In(Live, d.segment) /\ d.segment \in Registered(reg)
      BY <1>1, <2>4 DEF In
    <2> QED
      BY <1>1, <2>2, <2>3, <2>4, <2>5 DEF SegmentOK
  <1> USE DEF inUse, freed, below
  <1> QED
    BY <1>6, <1>7, <1>8 DEF BytesAccounted, AllocInv, OwnersDistinct


\* Free extents never touch, so that bytes freed piecemeal are found as one extent.
LEMMA AllocCoalesced == AllocInv => FreeExtentsCoalesced
  <1> SUFFICES ASSUME AllocInv, NEW s \in Registered(reg), NEW i \in 1..(Len(reg.free[s]) - 1)
               PROVE  reg.free[s][i].offset + reg.free[s][i].length < reg.free[s][i + 1].offset
    BY DEF FreeExtentsCoalesced
  <1>1. /\ reg.free[s] \in Seq(FreeExtent)
        /\ \A j, k \in 1..Len(reg.free[s]) : j < k => End(reg.free[s][j]) < reg.free[s][k].offset
    BY DEF AllocInv, Accounts, SegmentOK, Coalesced
  <1>2. i \in 1..Len(reg.free[s]) /\ i + 1 \in 1..Len(reg.free[s]) /\ i < i + 1
    BY <1>1
  <1> QED
    BY <1>1, <1>2 DEF End

LEMMA AllocReuse == AllocInv => EmptySegmentsReusable
  <1> SUFFICES ASSUME AllocInv PROVE EmptySegmentsReusable
    OBVIOUS
  <1>1. Registered(reg) = {e.segment : e \in Live}
    BY DEF AllocInv, Accounts, In
  <1> QED
    BY <1>1 DEF EmptySegmentsReusable, AllocInv, PoolOK

\* What a step does to the entries of a segment that is closed before and after it.
LEMMA StepClosed ==
  ASSUME AllocInv, [Next]_vars, NEW s \in closed, s \in closed'
  PROVE  {e \in Live' : e.segment = s} \subseteq {e \in Live : e.segment = s}
  <1> SUFFICES ASSUME NEW e \in Live', e.segment = s PROVE e \in Live
    OBVIOUS
  <1>1. CASE \E size \in 1..SegmentSize : Allocate(size)
    <2>1. PICK size \in 1..SegmentSize : Allocate(size)
      BY <1>1
    <2>2. PICK at \in Entry : /\ at.segment \notin closed
                              /\ private' = private \cup {at}
                              /\ UNCHANGED <<index, retired>>
      BY <2>1, AllocateFacts
    <2>3. Live' = Live \cup {at}
      BY <2>2 DEF Live, Published
    <2> QED
      BY <2>2, <2>3
  <1>2. CASE \E k \in Keys, d \in private : Put(k, d)
    <2>1. PICK k \in Keys, d \in private : Put(k, d)
      BY <1>2
    <2>2. /\ private' = private \ {d} /\ index' = [index EXCEPT ![k] = d]
          /\ retired' = retired \cup ({index[k]} \ {None})
      BY <2>1 DEF Put
    <2> QED
      BY <2>2 DEF Live, Published, AllocInv, OwnersDistinct
  <1>3. CASE \E k \in Keys : RemoveKey(k)
    BY <1>3 DEF RemoveKey, Live, Published, AllocInv, OwnersDistinct
  <1>4. CASE \E d \in Entry : Free(d)
    BY <1>4, FreeFacts DEF Live, Published
  <1>5. CASE Compact
    <2>1. /\ UNCHANGED private
          /\ UNCHANGED <<index, retired>> \/ \E u : Relocates(u)
      BY <1>5, CompactFacts
    <2>2. CASE UNCHANGED <<index, retired>>
      BY <2>1, <2>2 DEF Live, Published
    <2>3. CASE \E u : Relocates(u)
      <3> PICK u : Relocates(u)
        BY <2>3
      <3>1. /\ \A k \in Items(u) : index'[k].segment \notin closed
            /\ \A k \in Keys \ Items(u) : index'[k] = index[k]
            /\ retired' = retired \cup {index[k] : k \in Items(u)}
            /\ \A k \in Items(u) : k \in Keys /\ index[k] # None
        BY DEF Relocates, Items
      <3>2. CASE e \in private' \cup retired'
        BY <2>1, <3>1, <3>2 DEF Live, Published
      <3>3. CASE e \in Published'
        <4>1. PICK k \in Keys : e = index'[k] /\ e # None
          BY <3>3, PublishedIs
        <4>2. e = index[k]
          BY <3>1, <4>1
        <4> QED
          BY <4>1, <4>2 DEF Live, Published
      <3> QED
        BY <3>2, <3>3, PublishedIs
    <2> QED
      BY <2>1, <2>2, <2>3
  <1>6. CASE UNCHANGED vars
    BY <1>6 DEF vars, Live, Published
  <1> QED
    BY <1>1, <1>2, <1>3, <1>4, <1>5, <1>6 DEF Next

\* A step that publishes for k neither what was there nor a private entry relocates it.
LEMMA StepRelocates ==
  ASSUME AllocInv, [Next]_vars, NEW k \in Keys, index[k] # None, index'[k] # None,
         index'[k] \notin private \cup {index[k]}
  PROVE  /\ index'[k].length = index[k].length
         /\ index'[k] \notin Live
         /\ index[k] \in retired'
         /\ created' = created /\ empty' = empty
  <1>1. CASE \E size \in 1..SegmentSize : Allocate(size)
    BY <1>1 DEF Allocate
  <1>2. CASE \E j \in Keys, d \in private : Put(j, d)
    <2>1. PICK j \in Keys, d \in private : index' = [index EXCEPT ![j] = d]
      BY <1>2 DEF Put
    <2> QED
      BY <2>1 DEF AllocInv, OwnersDistinct
  <1>3. CASE \E j \in Keys : RemoveKey(j)
    <2>1. PICK j \in Keys : index' = [index EXCEPT ![j] = None]
      BY <1>3 DEF RemoveKey
    <2> QED
      BY <2>1 DEF AllocInv, OwnersDistinct
  <1>4. CASE \E d \in Entry : Free(d)
    BY <1>4 DEF Free
  <1>5. CASE Compact
    <2>1. /\ UNCHANGED <<created, empty>>
          /\ UNCHANGED index \/ \E u : Relocates(u)
      BY <1>5, CompactFacts
    <2> PICK u : Relocates(u)
      BY <2>1
    <2>2. /\ \A j \in Items(u) : index'[j] \notin Live /\ index'[j].length = index[j].length
          /\ \A j \in Keys \ Items(u) : index'[j] = index[j]
          /\ retired' = retired \cup {index[j] : j \in Items(u)}
      BY DEF Relocates
    <2>3. k \in Items(u)
      BY <2>2
    <2> QED
      BY <2>1, <2>2, <2>3
  <1>6. CASE UNCHANGED vars
    BY <1>6 DEF vars
  <1> QED
    BY <1>1, <1>2, <1>3, <1>4, <1>5, <1>6 DEF Next

\* The registry, the index and the pool keep their types.
THEOREM AllocatorTypes == Spec => []TypeOK
  BY AllocInductive, AllocTypes, PTL

\* Every byte below the tail of a registered segment (cache.js, SegmentRegistry) is
\* free or belongs to exactly one live entry: none is handed out twice or lost.
THEOREM BytesAccountedAlways == Spec => []BytesAccounted
  BY AllocInductive, AllocBytes, PTL

\* Free extents are sorted and never touch (free merges with both neighbours).
THEOREM FreeExtentsCoalescedAlways == Spec => []FreeExtentsCoalesced
  BY AllocInductive, AllocCoalesced, PTL

\* A segment without live entries is unregistered and waits, once, for reuse.
THEOREM EmptySegmentsReusableAlways == Spec => []EmptySegmentsReusable
  BY AllocInductive, AllocReuse, PTL

\* A segment that compaction closed holds nothing published until it opens again.
THEOREM ClosedHoldsNoPublishedAlways == Spec => []ClosedHoldsNoPublished
  <1>1. AllocInv => ClosedHoldsNoPublished
    BY DEF AllocInv, ClosedOK, ClosedHoldsNoPublished
  <1> QED
    BY <1>1, AllocInductive, PTL

\* No step places an entry in a segment that stays closed.
THEOREM ClosedTakesNothingAlways == Spec => ClosedTakesNothing
  <1> DEFINE Step == \A s \in closed \cap closed' :
               {e \in Live' : e.segment = s} \subseteq {e \in Live : e.segment = s}
  <1>1. AllocInv /\ [Next]_vars => Step
    BY StepClosed
  <1>2. AllocInv /\ [Next]_vars => [Step]_vars
    BY <1>1
  <1> HIDE DEF Step
  <1>3. Spec => [][Step]_vars
    BY <1>2, AllocInductive, PTL DEF Spec
  <1> QED
    BY <1>3, PTL DEF Step, ClosedTakesNothing

\* A relocation keeps the version's size, puts it where nothing lives, retires the
\* old place and takes no segment (kernel.js, #compact).
THEOREM RelocationsKeepVersionsAlways == Spec => RelocationsKeepVersions
  <1> DEFINE Step == \A k \in Keys :
               index[k] # None /\ index'[k] # None /\ index'[k] \notin private \cup {index[k]} =>
                 /\ index'[k].length = index[k].length
                 /\ index'[k] \notin Live
                 /\ index[k] \in retired'
                 /\ created' = created /\ empty' = empty
  <1>1. AllocInv /\ [Next]_vars => Step
    BY StepRelocates
  <1>2. AllocInv /\ [Next]_vars => [Step]_vars
    BY <1>1
  <1> HIDE DEF Step
  <1>3. Spec => [][Step]_vars
    BY <1>2, AllocInductive, PTL DEF Spec
  <1> QED
    BY <1>3 DEF Step, RelocationsKeepVersions
=============================================================================
