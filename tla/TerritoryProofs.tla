--------------------------- MODULE TerritoryProofs ---------------------------
(***************************************************************************)
(* Proofs about Territory, for any paths, directories, extensions and      *)
(* configurations: types, and that what is hidden stays hidden while the   *)
(* index has not misled the router, that no raw file stands in for a       *)
(* prepared one, and that the index of implicit directories lists what is  *)
(* held.                                                                   *)
(*                                                                         *)
(* First prefixes of paths; then the index, which Indexing defines as a    *)
(* function of the entries alone, whatever led to them; then what the      *)
(* router makes of settings, and that of the operations one by one.        *)
(***************************************************************************)
EXTENDS Territory, SequenceTheorems, FiniteSetTheorems, TLAPS

-----------------------------------------------------------------------------
(* Paths. *)

\* A set of naturals that is not empty has a least element.
LEMMA LeastNumber ==
  ASSUME NEW T \in SUBSET Nat, T # {}
  PROVE  \E x \in T : \A y \in T : x <= y
  <1> DEFINE below == {0..x : x \in T}
  <1>1. below \subseteq FiniteSubsetsOf(Nat) /\ below # {}
    <2>1. \A x \in T : IsFiniteSet(0..x) /\ 0..x \in SUBSET Nat
      BY FS_Interval
    <2> QED
      BY <2>1 DEF FiniteSubsetsOf
  <1> HIDE DEF below
  <1>2. PICK s \in below : \A t \in below : <<t, s>> \notin StrictSubsetOrdering(Nat)
    BY <1>1, FS_StrictSubsetOrderingWellFounded, WFMin
  <1> USE DEF below
  <1>3. PICK x \in T : s = 0..x
    BY <1>2
  <1>4. \A y \in T : ~(y < x)
    <2> SUFFICES ASSUME NEW y \in T, y < x PROVE FALSE
      OBVIOUS
    <2>1. /\ 0..y \in SUBSET Nat /\ 0..x \in SUBSET Nat
          /\ 0..y \subseteq 0..x /\ x \in 0..x /\ x \notin 0..y
      OBVIOUS
    <2>2. <<0..y, s>> \in StrictSubsetOrdering(Nat)
      BY <1>3, <2>1 DEF StrictSubsetOrdering
    <2> QED
      BY <1>2, <2>2
  <1> QED
    BY <1>4

\* From the greatest of some numbers downwards.
LEMMA Downwards ==
  ASSUME NEW a \in Nat, NEW b \in Nat, NEW R,
         \A n \in a..b : n = b \/ n + 1 \in R => n \in R
  PROVE  \A n \in a..b : n \in R
  <1> DEFINE wrong == {k \in Nat : k <= b - a /\ b - k \notin R}
  <1> SUFFICES ASSUME NEW m \in a..b, m \notin R PROVE FALSE
    OBVIOUS
  <1>1. b - m \in wrong
    BY b - (b - m) = m
  <1>2. PICK k \in wrong : \A j \in wrong : k <= j
    BY <1>1, LeastNumber
  <1>3. k \in Nat /\ b - k \in a..b /\ b - k \notin R
    OBVIOUS
  <1>4. b - k # b /\ b - k + 1 \notin R
    BY <1>3
  <1>5. k - 1 \in Nat /\ k - 1 <= b - a /\ b - (k - 1) = b - k + 1
    BY <1>3, <1>4
  <1>6. k - 1 \in wrong
    BY <1>4, <1>5
  <1> QED
    BY <1>2, <1>3, <1>6

\* To be a prefix, element by element.
LEMMA PrefixByElement ==
  ASSUME NEW S, NEW p \in Seq(S), NEW q \in Seq(S)
  PROVE  IsPrefix(p, q) <=> Len(p) <= Len(q) /\ \A i \in 1..Len(p) : p[i] = q[i]
  <1> PICK m \in Nat, n \in Nat : m = Len(p) /\ n = Len(q)
    OBVIOUS
  <1>1. \A i \in 1..m : p[i] \in S
    OBVIOUS
  <1>2. \A i \in 1..n : q[i] \in S
    OBVIOUS
  <1>3. CASE m <= n
    <2>1. /\ SubSeq(p, 1, m) = p
          /\ SubSeq(q, 1, m) \in Seq(S) /\ Len(SubSeq(q, 1, m)) = m
          /\ \A i \in 1..m : SubSeq(q, 1, m)[i] = q[i]
      <3>1. \A i \in 1..m : q[i] \in S
        BY <1>2, <1>3
      <3>2. Len(SubSeq(q, 1, m)) = IF 1 <= m THEN m - 1 + 1 ELSE 0
        BY <3>1, SubSeqProperties
      <3> QED
        BY <3>1, <3>2, SubSeqProperties, SubSeqFull
    <2>2. (p = SubSeq(q, 1, m)) <=> \A i \in 1..m : p[i] = q[i]
      BY <2>1, SeqEqual
    <2> QED
      BY <1>3, <2>1, <2>2 DEF IsPrefix
  <1>4. CASE ~(m <= n)
    BY <1>4 DEF IsPrefix
  <1> QED
    BY <1>3, <1>4

\* The first n elements of p are the prefix of p of that length.
LEMMA PrefixOfLength ==
  ASSUME NEW S, NEW p \in Seq(S), NEW n \in 0..Len(p)
  PROVE  /\ SubSeq(p, 1, n) \in Seq(S) /\ Len(SubSeq(p, 1, n)) = n
         /\ \A i \in 1..n : SubSeq(p, 1, n)[i] = p[i]
         /\ IsPrefix(SubSeq(p, 1, n), p)
         /\ \A x \in Seq(S) : IsPrefix(x, p) /\ Len(x) = n => x = SubSeq(p, 1, n)
  <1>1. \A i \in 1..n : p[i] \in S
    OBVIOUS
  <1>2. /\ SubSeq(p, 1, n) \in Seq(S) /\ Len(SubSeq(p, 1, n)) = n
        /\ \A i \in 1..n : SubSeq(p, 1, n)[i] = p[i]
    BY <1>1, SubSeqProperties
  <1>3. IsPrefix(SubSeq(p, 1, n), p)
    <2> DEFINE x == SubSeq(p, 1, n)
    <2>1. x \in Seq(S) /\ Len(x) <= Len(p) /\ \A i \in 1..Len(x) : x[i] = p[i]
      BY <1>2
    <2> HIDE DEF x
    <2>2. IsPrefix(x, p)
      BY <2>1, PrefixByElement
    <2> QED
      BY <2>2 DEF x
  <1>4. ASSUME NEW x \in Seq(S), IsPrefix(x, p), Len(x) = n
        PROVE  x = SubSeq(p, 1, n)
    <2>1. \A i \in 1..n : x[i] = p[i]
      BY <1>4, PrefixByElement
    <2> QED
      BY <1>2, <1>4, <2>1, SeqEqual
  <1> QED
    BY <1>2, <1>3, <1>4

\* The prefixes of a sequence are in order.
LEMMA PrefixOrder ==
  ASSUME NEW S, NEW p \in Seq(S), NEW q \in Seq(S), NEW r \in Seq(S)
  PROVE  /\ IsPrefix(p, p)
         /\ IsPrefix(p, q) /\ IsPrefix(q, r) => IsPrefix(p, r)
         /\ IsPrefix(p, r) /\ IsPrefix(q, r) /\ Len(p) <= Len(q) => IsPrefix(p, q)
         /\ IsPrefix(p, q) /\ Len(p) = Len(q) => p = q
         /\ IsPrefix(p, q) => Len(p) <= Len(q)
         /\ IsStrictPrefix(p, q) <=> IsPrefix(p, q) /\ Len(p) < Len(q)
  <1> PICK k \in Nat, m \in Nat, n \in Nat : k = Len(p) /\ m = Len(q) /\ n = Len(r)
    OBVIOUS
  <1>1. /\ IsPrefix(p, q) <=> k <= m /\ \A i \in 1..k : p[i] = q[i]
        /\ IsPrefix(q, r) <=> m <= n /\ \A i \in 1..m : q[i] = r[i]
        /\ IsPrefix(p, r) <=> k <= n /\ \A i \in 1..k : p[i] = r[i]
        /\ IsPrefix(p, p) <=> k <= k /\ \A i \in 1..k : p[i] = p[i]
    <2>1. IsPrefix(p, q) <=> Len(p) <= Len(q) /\ \A i \in 1..Len(p) : p[i] = q[i]
      BY PrefixByElement, SMTT(30)
    <2>2. IsPrefix(q, r) <=> Len(q) <= Len(r) /\ \A i \in 1..Len(q) : q[i] = r[i]
      BY PrefixByElement, SMTT(30)
    <2>3. IsPrefix(p, r) <=> Len(p) <= Len(r) /\ \A i \in 1..Len(p) : p[i] = r[i]
      BY PrefixByElement, SMTT(30)
    <2>4. IsPrefix(p, p) <=> Len(p) <= Len(p) /\ \A i \in 1..Len(p) : p[i] = p[i]
      BY PrefixByElement, SMTT(30)
    <2> QED
      BY <2>1, <2>2, <2>3, <2>4
  <1>2. IsPrefix(p, q) /\ k = m => p = q
    BY <1>1, SeqEqual
  <1>3. IsStrictPrefix(p, q) <=> IsPrefix(p, q) /\ k < m
    BY <1>1, <1>2 DEF IsStrictPrefix
  <1> QED
    BY <1>1, <1>2, <1>3

\* The directory of x is its prefix one shorter.
LEMMA FrontIsPrefix ==
  ASSUME NEW S, NEW x \in Seq(S), Len(x) >= 1, NEW d \in Seq(S)
  PROVE  Front(x) = d <=> IsPrefix(d, x) /\ Len(x) = Len(d) + 1
  <1> PICK n \in Nat : n = Len(x) - 1
    OBVIOUS
  <1>1. n \in 0..Len(x) /\ Front(x) = SubSeq(x, 1, n)
    BY DEF Front
  <1> DEFINE f == SubSeq(x, 1, n)
  <1>2. /\ Len(f) = n /\ IsPrefix(f, x)
        /\ \A y \in Seq(S) : IsPrefix(y, x) /\ Len(y) = n => y = f
    BY <1>1, PrefixOfLength
  <1> HIDE DEF f
  <1>3. Front(x) = f
    BY <1>1 DEF f
  <1>4. Len(d) \in Nat
    OBVIOUS
  <1> QED
    BY <1>2, <1>3, <1>4

-----------------------------------------------------------------------------
(* The directory index of a place is a function of its entries. *)

\* The length of the path of a place.
Top == Len(AppRoot) + 1

\* x or something below it has an entry.
Borne(e, x) == \E p \in DOMAIN e : e[p] # None /\ IsPrefix(x, p)
Index(e) == {x \in Seq(Names) : Len(x) > Top /\ Borne(e, x)}
Indexing(e) == [entries |-> e, names |-> Index(e)]

LEMMA PathFacts ==
  /\ Paths \subseteq Seq(Names) /\ Folders \subseteq Seq(Names) /\ AppRoot \in Seq(Names)
  /\ Top \in Nat /\ Top >= 1 /\ Top = Len(AppRoot) + 1
  BY PathsAssumption DEF Top

\* A directory is listed when something below it has an entry.
LEMMA DirectoryIsBorne ==
  ASSUME NEW e, DOMAIN e = Paths, NEW d \in Seq(Names), Len(d) >= Top
  PROVE  Files!HasDirectory(Index(e), d)
           <=> \E p \in Paths : e[p] # None /\ IsPrefix(d, p) /\ Len(d) < Len(p)
  <1>1. ASSUME NEW x \in Index(e), Front(x) = d
        PROVE  \E p \in Paths : e[p] # None /\ IsPrefix(d, p) /\ Len(d) < Len(p)
    <2>1. x \in Seq(Names) /\ Len(x) >= 1
      BY PathFacts DEF Index
    <2>2. PICK p \in Paths : e[p] # None /\ IsPrefix(x, p)
      BY DEF Index, Borne
    <2>3. IsPrefix(d, x) /\ Len(x) = Len(d) + 1
      BY <1>1, <2>1, FrontIsPrefix
    <2>4. p \in Seq(Names)
      BY PathFacts
    <2>5. IsPrefix(d, p) /\ Len(x) <= Len(p)
      BY <2>1, <2>2, <2>3, <2>4, PrefixOrder
    <2>6. Len(d) \in Nat /\ Len(p) \in Nat
      BY <2>4
    <2> QED
      BY <2>2, <2>3, <2>5, <2>6
  <1>2. ASSUME NEW p \in Paths, e[p] # None, IsPrefix(d, p), Len(d) < Len(p)
        PROVE  \E x \in Index(e) : Front(x) = d
    <2> DEFINE x == SubSeq(p, 1, Len(d) + 1)
    <2>1. p \in Seq(Names) /\ Len(d) + 1 \in 0..Len(p)
      BY <1>2, PathFacts
    <2>2. x \in Seq(Names) /\ Len(x) = Len(d) + 1 /\ IsPrefix(x, p)
      BY <2>1, PrefixOfLength
    <2> HIDE DEF x
    <2>3. Len(d) \in Nat /\ Len(d) <= Len(x)
      BY <2>2
    <2>4. IsPrefix(d, x)
      BY <1>2, <2>1, <2>2, <2>3, PrefixOrder
    <2>5. Front(x) = d
      BY <2>2, <2>3, <2>4, FrontIsPrefix
    <2>6. x \in Index(e)
      BY <1>2, <2>2, <2>3, PathFacts DEF Index, Borne
    <2> QED
      BY <2>5, <2>6
  <1>3. Files!HasDirectory(Index(e), d) <=> \E x \in Index(e) : Front(x) = d
    BY DEF Files!HasDirectory, Files!Front, Front
  <1> QED
    BY <1>1, <1>2, <1>3

LEMMA LinkedIsIndex ==
  ASSUME NEW e, DOMAIN e = Paths, NEW p \in Paths, e[p] = None, NEW v, v # None
  PROVE  Files!Linked(Index(e), p) = Index([e EXCEPT ![p] = v])
  <1> DEFINE f == [e EXCEPT ![p] = v]
  <1>1. p \in Seq(Names) /\ Len(p) \in Nat
    BY PathFacts
  <1>2. /\ DOMAIN f = Paths /\ f[p] = v
        /\ \A q \in Paths : q # p => f[q] = e[q]
    OBVIOUS
  <1> HIDE DEF f
  <1>3. ASSUME NEW x \in Seq(Names)
        PROVE  Borne(f, x) <=> Borne(e, x) \/ IsPrefix(x, p)
    BY <1>2 DEF Borne
  <1>4. ASSUME NEW n \in (Top + 1)..Len(p)
        PROVE  SubSeq(p, 1, n) \in Index(f)
    <2>1. n \in 0..Len(p) /\ n > Top
      BY <1>1, PathFacts
    <2> DEFINE x == SubSeq(p, 1, n)
    <2>2. x \in Seq(Names) /\ Len(x) = n /\ IsPrefix(x, p)
      BY <1>1, <2>1, PrefixOfLength
    <2> HIDE DEF x
    <2>3. x \in Index(f)
      BY <1>3, <2>1, <2>2 DEF Index
    <2> QED
      BY <2>3 DEF x
  <1>5. ASSUME NEW x \in Seq(Names), Len(x) > Top, IsPrefix(x, p)
        PROVE  \E n \in (Top + 1)..Len(p) : x = SubSeq(p, 1, n)
    <2>1. Len(x) \in Nat /\ Len(x) <= Len(p)
      BY <1>1, <1>5, PrefixOrder
    <2>2. Len(x) \in 0..Len(p) /\ Len(x) \in (Top + 1)..Len(p)
      BY <1>1, <1>5, <2>1, PathFacts
    <2> QED
      BY <1>1, <1>5, <2>2, PrefixOfLength
  <1>6. Files!Linked(Index(e), p) = Index(e) \cup {SubSeq(p, 1, n) : n \in (Top + 1)..Len(p)}
    BY DEF Files!Linked, Files!Levels, Files!Prefix, Top
  <1>7. Index(e) \subseteq Index(f)
    BY <1>3 DEF Index
  <1>8. \A x \in Index(f) : x \in Index(e) \/ (x \in Seq(Names) /\ Len(x) > Top /\ IsPrefix(x, p))
    BY <1>3 DEF Index
  <1>9. Files!Linked(Index(e), p) = Index(f)
    BY <1>4, <1>5, <1>6, <1>7, <1>8
  <1> QED
    BY <1>9 DEF f

\* The index while the levels of p from n on have been gone through, f being the entries.
Left(e, f, p, n) == {x \in Index(e) : IsPrefix(x, p) /\ Len(x) >= n => Borne(f, x)}

\* f is e without the entry of p.
Without(e, f, p) ==
  /\ DOMAIN f = Paths /\ f[p] = None
  /\ \A r \in Paths : r # p => f[r] = e[r]

LEMMA UnlinkingStep ==
  ASSUME NEW e, DOMAIN e = Paths, NEW p \in Paths, e[p] # None,
         NEW f, Without(e, f, p),
         NEW n \in (Top + 1)..Len(p), NEW q \in Seq(Names), IsPrefix(q, p), Len(q) = n
  PROVE  Left(e, f, p, n) =
           IF Files!Holds(f, q) \/ Files!HasDirectory(Left(e, f, p, n + 1), q)
           THEN Left(e, f, p, n + 1) ELSE Left(e, f, p, n + 1) \ {q}
  <1> DEFINE above == Left(e, f, p, n + 1)
  <1>1. p \in Seq(Names) /\ Len(p) \in Nat /\ n \in 0..Len(p) /\ n > Top /\ n \in Nat
    BY PathFacts
  <1>2. /\ Len(q) = n /\ IsPrefix(q, p) /\ IsPrefix(q, q)
        /\ \A x \in Seq(Names) : IsPrefix(x, p) /\ Len(x) = n => x = q
    BY <1>1, PrefixOfLength, PrefixOrder
  <1>3. /\ DOMAIN f = Paths /\ f[p] = None
        /\ \A r \in Paths : r # p => f[r] = e[r]
    BY DEF Without
  <1>4. ASSUME NEW x, Borne(f, x) PROVE Borne(e, x)
    BY <1>3, <1>4 DEF Borne
  <1>5. Files!Holds(f, q) => Borne(f, q)
    BY <1>2, <1>3 DEF Files!Holds, Borne
  <1>6. ASSUME NEW x \in above, Front(x) = q PROVE Borne(f, q)
    <2>1. x \in Seq(Names) /\ Len(x) >= 1 /\ Len(x) \in Nat
      BY PathFacts DEF Left, Index
    <2>2. IsPrefix(q, x) /\ Len(x) = n + 1
      BY <1>2, <1>6, <2>1, FrontIsPrefix
    <2>3. PICK r \in Paths : e[r] # None /\ IsPrefix(x, r)
      BY DEF Left, Index, Borne
    <2>4. \E s \in Paths : f[s] # None /\ IsPrefix(x, s)
      <3>1. CASE r = p
        <4>1. Borne(f, x)
          BY <1>1, <2>2, <2>3, <3>1 DEF Left
        <4> QED
          BY <1>3, <4>1 DEF Borne
      <3>2. CASE r # p
        BY <1>3, <2>3, <3>2
      <3> QED
        BY <3>1, <3>2
    <2>5. PICK s \in Paths : f[s] # None /\ IsPrefix(x, s)
      BY <2>4
    <2>6. s \in Seq(Names)
      BY PathFacts
    <2>7. IsPrefix(q, s)
      BY <1>2, <2>1, <2>2, <2>5, <2>6, PrefixOrder
    <2> QED
      BY <1>3, <2>5, <2>7 DEF Borne
  <1>7. ASSUME Borne(f, q), ~Files!Holds(f, q) PROVE \E x \in above : Front(x) = q
    <2>1. PICK r \in Paths : f[r] # None /\ IsPrefix(q, r)
      BY <1>3, <1>7 DEF Borne
    <2>2. r \in Seq(Names) /\ Len(r) \in Nat /\ r # q
      BY <1>3, <1>7, <2>1, PathFacts DEF Files!Holds
    <2>3. n < Len(r)
      BY <1>2, <2>1, <2>2, PrefixOrder
    <2> DEFINE x == SubSeq(r, 1, n + 1)
    <2>4. n + 1 \in 0..Len(r)
      BY <1>1, <2>2, <2>3
    <2>5. x \in Seq(Names) /\ Len(x) = n + 1 /\ IsPrefix(x, r)
      BY <2>2, <2>4, PrefixOfLength
    <2> HIDE DEF x
    <2>6. IsPrefix(q, x)
      BY <1>1, <1>2, <2>1, <2>2, <2>5, PrefixOrder
    <2>7. Front(x) = q
      BY <1>1, <1>2, <2>5, <2>6, FrontIsPrefix
    <2>8. Borne(f, x)
      BY <1>3, <2>1, <2>5 DEF Borne
    <2>9. Borne(e, x)
      BY <1>4, <2>8
    <2>10. x \in Index(e)
      BY <1>1, <2>5, <2>9, PathFacts DEF Index
    <2>11. x \in above
      BY <2>8, <2>10 DEF Left
    <2> QED
      BY <2>7, <2>11
  <1>8. Files!Holds(f, q) \/ Files!HasDirectory(above, q) <=> Borne(f, q)
    <2>1. Files!HasDirectory(above, q) <=> \E x \in above : Front(x) = q
      BY DEF Files!HasDirectory, Files!Front, Front
    <2> HIDE DEF above
    <2> QED
      BY <1>5, <1>6, <1>7, <2>1
  <1>9. ASSUME NEW x \in Index(e)
        PROVE  /\ x \in above <=> (IsPrefix(x, p) /\ Len(x) >= n + 1 => Borne(f, x))
               /\ x \in Left(e, f, p, n) <=> (IsPrefix(x, p) /\ Len(x) >= n => Borne(f, x))
               /\ IsPrefix(x, p) => (Len(x) = n <=> x = q)
               /\ Len(x) \in Nat
    BY <1>2 DEF Left, Index
  <1>10. above \subseteq Index(e) /\ Left(e, f, p, n) \subseteq Index(e)
    BY DEF Left
  <1>11. q \in Left(e, f, p, n) => Borne(f, q)
    BY <1>1, <1>2 DEF Left
  <1>12. CASE Borne(f, q)
    <2>1. above = Left(e, f, p, n)
      <3> HIDE DEF above
      <3> QED
        BY <1>1, <1>9, <1>10, <1>12
    <2> QED
      BY <1>8, <1>12, <2>1
  <1>13. CASE ~Borne(f, q)
    <2>1. Left(e, f, p, n) = above \ {q}
      <3> HIDE DEF above
      <3> QED
        BY <1>1, <1>9, <1>10, <1>11, <1>13
    <2> QED
      BY <1>8, <1>13, <2>1
  <1> QED
    BY <1>12, <1>13

LEMMA LeftEnds ==
  ASSUME NEW e, DOMAIN e = Paths, NEW p \in Paths,
         NEW f, Without(e, f, p)
  PROVE  /\ Left(e, f, p, Len(p) + 1) = Index(e)
         /\ Left(e, f, p, Top + 1) = Index(f)
  <1>1. p \in Seq(Names) /\ Len(p) \in Nat /\ Top \in Nat
    BY PathFacts
  <1>2. /\ DOMAIN f = Paths /\ f[p] = None
        /\ \A r \in Paths : r # p => f[r] = e[r]
    BY DEF Without
  <1>3. ASSUME NEW x \in Index(e) PROVE ~(IsPrefix(x, p) /\ Len(x) >= Len(p) + 1)
    <2>1. x \in Seq(Names) /\ Len(x) \in Nat
      BY DEF Index
    <2>2. IsPrefix(x, p) => Len(x) <= Len(p)
      BY <1>1, <2>1, PrefixOrder
    <2> QED
      BY <1>1, <2>1, <2>2
  <1>4. Left(e, f, p, Len(p) + 1) = Index(e)
    BY <1>3 DEF Left
  <1>5. ASSUME NEW x \in Seq(Names), Len(x) > Top
        PROVE  /\ Len(x) >= Top + 1
               /\ Borne(f, x) <=> Borne(e, x) /\ (IsPrefix(x, p) => Borne(f, x))
    BY <1>1, <1>2, <1>5 DEF Borne
  <1>6. Left(e, f, p, Top + 1) = Index(f)
    BY <1>5 DEF Left, Index
  <1> QED
    BY <1>4, <1>6

LEMMA UnlinkedIsIndex ==
  ASSUME NEW e, DOMAIN e = Paths, NEW p \in Paths, e[p] # None,
         NEW f, Without(e, f, p), Len(p) >= Top
  PROVE  Files!Unlinked(Index(e), f, p) = Index(f)
  <1>1. p \in Seq(Names) /\ Len(p) \in Nat /\ Top \in Nat
    BY PathFacts
  <1> DEFINE T == (Top + 1)..(Len(p) + 1)
             Step(g, n) ==
               IF n = Len(p) + 1 THEN Index(e)
               ELSE LET left == g[n + 1]
                        q == SubSeq(p, 1, n)
                    IN  IF Files!Holds(f, q) \/ Files!HasDirectory(left, q)
                        THEN left ELSE left \ {q}
             level == [n \in T |-> Left(e, f, p, n)]
             after == CHOOSE g : g = [n \in T |-> Step(g, n)]
  <1>2. Files!Unlinking(Index(e), f, p) = after
    BY DEF Files!Unlinking, Files!Prefix, Top
  <1>3. ASSUME NEW n \in T PROVE Left(e, f, p, n) = Step(level, n)
    <2>1. CASE n = Len(p) + 1
      BY <2>1, LeftEnds
    <2>2. CASE n # Len(p) + 1
      <3>1. n \in (Top + 1)..Len(p) /\ n + 1 \in T
        BY <1>1, <2>2
      <3>2. level[n + 1] = Left(e, f, p, n + 1)
        BY <3>1
      <3>3. Left(e, f, p, n) =
              IF Files!Holds(f, SubSeq(p, 1, n))
                   \/ Files!HasDirectory(Left(e, f, p, n + 1), SubSeq(p, 1, n))
              THEN Left(e, f, p, n + 1) ELSE Left(e, f, p, n + 1) \ {SubSeq(p, 1, n)}
        <4>1. /\ SubSeq(p, 1, n) \in Seq(Names) /\ IsPrefix(SubSeq(p, 1, n), p)
              /\ Len(SubSeq(p, 1, n)) = n
          <5>1. n \in 0..Len(p)
            BY <1>1, <3>1
          <5> QED
            BY <1>1, <5>1, PrefixOfLength
        <4>2. \A q \in Seq(Names) : IsPrefix(q, p) /\ Len(q) = n =>
                Left(e, f, p, n) =
                  IF Files!Holds(f, q) \/ Files!HasDirectory(Left(e, f, p, n + 1), q)
                  THEN Left(e, f, p, n + 1) ELSE Left(e, f, p, n + 1) \ {q}
          BY <3>1, UnlinkingStep
        <4> QED
          BY <4>1, <4>2
      <3> QED
        BY <2>2, <3>2, <3>3
    <2> QED
      BY <2>1, <2>2
  <1>4. level = [n \in T |-> Step(level, n)]
    BY <1>3
  <1>5. after = [n \in T |-> Step(after, n)]
    BY <1>4
  <1>6. \A n \in T : after[n] = level[n]
    <2>1. ASSUME NEW n \in T, n = Len(p) + 1 \/ after[n + 1] = level[n + 1]
          PROVE  after[n] = level[n]
      <3>1. after[n] = Step(after, n) /\ level[n] = Step(level, n)
        <4> HIDE DEF Step, level, after
        <4> QED
          BY <1>4, <1>5
      <3>2. Step(after, n) = Step(level, n)
        <4> HIDE DEF after, level
        <4> QED
          BY <2>1
      <3> QED
        BY <3>1, <3>2
    <2>2. Top + 1 \in Nat /\ Len(p) + 1 \in Nat
      BY <1>1
    <2>3. PICK a \in Nat, b \in Nat, R \in SUBSET T :
            a = Top + 1 /\ b = Len(p) + 1 /\ R = {n \in T : after[n] = level[n]}
      BY <2>2
    <2>4. \A n \in a..b : n = b \/ n + 1 \in R => n \in R
      <3> HIDE DEF after, level
      <3> QED
        BY <2>1, <2>3
    <2>5. \A n \in a..b : n \in R
      BY <2>4, Downwards
    <2> HIDE DEF after, level
    <2> QED
      BY <2>3, <2>5
  <1>7. Top + 1 \in T
    BY <1>1
  <1>8. level[Top + 1] = Index(f)
    BY <1>7, LeftEnds
  <1> HIDE DEF after, level
  <1> QED
    BY <1>2, <1>6, <1>7, <1>8 DEF Files!Unlinked, Top

\* All subsets of a finite set, each from the one without some element of it.
Agree(S, some, g, h) ==
  \A T \in SUBSET S :
    /\ T # {} => some[T] \in T
    /\ T = {} \/ g[T \ {some[T]}] = h[T \ {some[T]}] => g[T] = h[T]
LEMMA Subsets ==
  ASSUME NEW S, IsFiniteSet(S), NEW some, NEW g, NEW h, Agree(S, some, g, h)
  PROVE  \A T \in SUBSET S : g[T] = h[T]
  <1> DEFINE wrong == {k \in Nat : \E T \in SUBSET S : k = Cardinality(T) /\ g[T] # h[T]}
  <1> SUFFICES ASSUME NEW R \in SUBSET S, g[R] # h[R] PROVE FALSE
    OBVIOUS
  <1>1. \A T \in SUBSET S : IsFiniteSet(T) /\ Cardinality(T) \in Nat
    BY FS_Subset, FS_CardinalityType
  <1>2. Cardinality(R) \in wrong
    BY <1>1
  <1>3. PICK k \in wrong : \A j \in wrong : k <= j
    BY <1>2, LeastNumber
  <1>4. PICK T \in SUBSET S : k = Cardinality(T) /\ g[T] # h[T]
    OBVIOUS
  <1> DEFINE x == some[T]
             U == T \ {x}
  <1>5. T # {} /\ g[U] # h[U]
    BY <1>4 DEF Agree
  <1>6. x \in T
    BY <1>5 DEF Agree
  <1> HIDE DEF x
  <1>7. U \in SUBSET S /\ Cardinality(U) = Cardinality(T) - 1
    BY <1>1, <1>6, FS_RemoveElement
  <1>8. Cardinality(U) \in wrong
    <2> HIDE DEF U
    <2> QED
      BY <1>1, <1>5, <1>7
  <1> HIDE DEF wrong, U
  <1> QED
    BY <1>1, <1>3, <1>4, <1>7, <1>8

\* The operations of the projection keep it indexed.
LEMMA SetIsIndexing ==
  ASSUME NEW V, NEW e \in [Paths -> V], NEW p \in Paths, NEW v, v # None
  PROVE  Files!Set(Indexing(e), p, v) = Indexing([e EXCEPT ![p] = v])
  <1>1. CASE e[p] = None
    BY <1>1, LinkedIsIndex DEF Files!Set, Indexing
  <1>2. CASE e[p] # None
    <2> DEFINE f == [e EXCEPT ![p] = v]
    <2>1. DOMAIN f = Paths /\ \A q \in Paths : f[q] # None <=> e[q] # None
      BY <1>2
    <2> HIDE DEF f
    <2>2. Index(f) = Index(e)
      BY <2>1 DEF Index, Borne
    <2> QED
      BY <1>2, <2>2 DEF Files!Set, Indexing, f
  <1> QED
    BY <1>1, <1>2

LEMMA DeleteIsIndexing ==
  ASSUME NEW V, NEW e \in [Paths -> V], NEW p \in Paths, Len(p) >= Top
  PROVE  Files!Delete(Indexing(e), p) = Indexing([e EXCEPT ![p] = None])
  <1>1. CASE e[p] = None
    <2>1. [e EXCEPT ![p] = None] = e
      BY <1>1
    <2> QED
      BY <1>1, <2>1 DEF Files!Delete, Indexing
  <1>2. CASE e[p] # None
    <2> DEFINE f == [e EXCEPT ![p] = None]
    <2>1. Without(e, f, p)
      BY DEF Without
    <2> HIDE DEF f
    <2>2. Files!Unlinked(Index(e), f, p) = Index(f)
      BY <1>2, <2>1, UnlinkedIsIndex
    <2> QED
      BY <1>2, <2>2 DEF Files!Delete, Indexing, f
  <1> QED
    BY <1>1, <1>2

\* The entries e with those of changes at T.
Over(e, changes, T) == [p \in Paths |-> IF p \in T THEN changes[p] ELSE e[p]]

LEMMA PutIsIndexing ==
  ASSUME NEW V, NEW e \in [Paths -> V], NEW p \in Paths, NEW v, Len(p) >= Top
  PROVE  Files!Put(Indexing(e), p, v) = Indexing([e EXCEPT ![p] = v])
  BY SetIsIndexing, DeleteIsIndexing DEF Files!Put

LEMMA PutAllIsIndexing ==
  ASSUME NEW V, NEW e \in [Paths -> V], NEW changes, DOMAIN changes \subseteq Paths,
         \A p \in DOMAIN changes : Len(p) >= Top
  PROVE  Files!PutAll(Indexing(e), changes) = Indexing(Over(e, changes, DOMAIN changes))
  <1> DEFINE S == DOMAIN changes
             Some(T) == CHOOSE x \in T : TRUE
             Step(g, T) ==
               IF T = {} THEN Indexing(e)
               ELSE Files!Put(g[T \ {Some(T)}], Some(T), changes[Some(T)])
             some == [T \in SUBSET S |-> Some(T)]
             level == [T \in SUBSET S |-> Indexing(Over(e, changes, T))]
             iter == CHOOSE g : g = [T \in SUBSET S |-> Step(g, T)]
  <1>1. Files!PutAll(Indexing(e), changes) = iter[S]
    BY DEF Files!PutAll, Files!FoldSet, Files!MapThenFoldSet, FoldSet, MapThenFoldSet
  <1>2. ASSUME NEW T \in SUBSET S PROVE level[T] = Step(level, T)
    <2>1. CASE T = {}
      <3>1. Over(e, changes, T) = e
        BY <2>1 DEF Over
      <3> QED
        BY <2>1, <3>1
    <2>2. CASE T # {}
      <3> DEFINE x == Some(T)
                 U == T \ {x}
                 f == Over(e, changes, U)
      <3>1. x \in T /\ x \in Paths /\ Len(x) >= Top
        BY <2>2
      <3> HIDE DEF x, Some
      <3>2. Over(e, changes, T) = [f EXCEPT ![x] = changes[x]]
        BY <3>1 DEF Over
      <3>3. f \in [Paths -> V \cup {changes[q] : q \in S}]
        BY DEF Over
      <3> HIDE DEF f
      <3>4. Files!Put(Indexing(f), x, changes[x]) = Indexing(Over(e, changes, T))
        <4>1. \A v : Files!Put(Indexing(f), x, v) = Indexing([f EXCEPT ![x] = v])
          BY <3>1, <3>3, PutIsIndexing
        <4> QED
          BY <3>2, <4>1
      <3>5. level[U] = Indexing(f)
        BY DEF f
      <3>6. Step(level, T) = Files!Put(level[U], x, changes[x])
        <4> HIDE DEF level
        <4> QED
          BY <2>2 DEF x
      <3> QED
        BY <3>4, <3>5, <3>6
    <2> QED
      BY <2>1, <2>2
  <1>3. level = [T \in SUBSET S |-> Step(level, T)]
    <2>1. level = [T \in SUBSET S |-> level[T]]
      OBVIOUS
    <2> HIDE DEF level, Step
    <2> QED
      BY <1>2, <2>1
  <1>4. iter = [T \in SUBSET S |-> Step(iter, T)]
    <2> HIDE DEF level, Step
    <2> QED
      BY <1>3
  <1>5. IsFiniteSet(S)
    BY PathsAssumption, FS_Subset
  <1>6. ASSUME NEW T \in SUBSET S,
               T = {} \/ iter[T \ {some[T]}] = level[T \ {some[T]}]
        PROVE  iter[T] = level[T]
    <2>1. iter[T] = Step(iter, T) /\ level[T] = Step(level, T)
      <3> HIDE DEF Step, level, iter
      <3> QED
        BY <1>3, <1>4
    <2>2. Step(iter, T) = Step(level, T)
      <3> HIDE DEF iter, level
      <3> QED
        BY <1>6
    <2> QED
      BY <2>1, <2>2
  <1> HIDE DEF iter
  <1>7. level[S] = Indexing(Over(e, changes, S))
    OBVIOUS
  <1>8. \A T \in SUBSET S : T # {} => some[T] \in T
    OBVIOUS
  <1> HIDE DEF level, some, S
  <1>9. \A T \in SUBSET S : iter[T] = level[T]
    <2>1. Agree(S, some, iter, level)
      BY <1>6, <1>8 DEF Agree
    <2> QED
      BY <1>5, <2>1, Subsets
  <1>10. S \in SUBSET S
    OBVIOUS
  <1>11. Files!PutAll(Indexing(e), changes) = Indexing(Over(e, changes, S))
    BY <1>1, <1>7, <1>9, <1>10
  <1> QED
    BY <1>11 DEF S

-----------------------------------------------------------------------------
(* What an accepted configuration promises. *)

\* A place whose files come from a directory.
DiskOrigin(place) == place.provider \in Config!Origined /\ ~place.virtual /\ place.fs

GoodPlace(place) ==
  /\ place.virtual => place.provider \in Config!Origined /\ place.fs
  /\ place.fallback # None => DiskOrigin(place)
  /\ \A x \in place.prepared : place.scanned = None \/ x \in place.scanned
  /\ place.virtual \in BOOLEAN

\* What a domain prepares is loaded.
LEMMA PreparedIsScanned ==
  ASSUME NEW raw, Config!PreparesOnce(raw), NEW x \in Config!PreparedExt(raw)
  PROVE  Config!ScanExt(raw) = None \/ x \in Config!ScanExt(raw)
  <1> PICK d \in Config!Domains(raw) : x \in Config!Assigned(d)
    BY DEF Config!PreparedExt
  <1>1. Config!PrepareAllowed(d) /\ d.prepare # None
    BY DEF Config!PreparesOnce, Config!Assigned
  <1>2. SUFFICES ASSUME ~(raw.fs # None /\ Config!FsExt(raw.fs) = None)
                 PROVE  x \in d.ext
    BY DEF Config!ScanExt
  <1>3. d.ext # None
    BY <1>2, NoneAssumption DEF Config!Domains, Config!Or
  <1>4. CASE d.prepare.form # "short"
    BY <1>1, <1>3, <1>4 DEF Config!PrepareAllowed, Config!Assigned
  <1>5. CASE d.prepare.form = "short"
    <2>1. x \in d.own /\ d.own # None
      BY <1>1, <1>5 DEF Config!PrepareAllowed, Config!Assigned
    <2>2. d.own = d.ext \/ (d.own = raw.fs.ext /\ d.ext = Config!FsExt(raw.fs))
      BY DEF Config!Domains
    <2>3. CASE d.own = raw.fs.ext /\ d.ext = Config!FsExt(raw.fs)
      BY <2>1, <2>3 DEF Config!FsExt, Config!Or
    <2> QED
      BY <2>1, <2>2, <2>3
  <1> QED
    BY <1>4, <1>5

LEMMA ResolvedIsGood ==
  ASSUME NEW raw, Config!Accepted(raw), NEW strict
  PROVE  GoodPlace(Config!Resolved(raw, strict))
  <1> DEFINE place == Config!Resolved(raw, strict)
  <1>1. /\ place.provider = raw.provider /\ place.virtual = (Config!Origin(raw) = "virtual")
        /\ place.fs = (raw.fs # None) /\ place.fallback = Config!Fallback(raw, strict)
        /\ place.scanned = Config!ScanExt(raw) /\ place.prepared = Config!PreparedExt(raw)
    BY DEF Config!Resolved
  <1> HIDE DEF place
  <1>2. Config!Origin(raw) = "virtual" => raw.provider \in Config!Origined /\ raw.fs # None
    BY NoneAssumption DEF Config!Origin, Config!Accepted
  <1>3. Config!Fallback(raw, strict) # None =>
          raw.fs # None /\ raw.provider \in Config!Origined /\ Config!Origin(raw) # "virtual"
    BY DEF Config!Fallback, Config!OnDisk
  <1>4. \A x \in Config!PreparedExt(raw) :
          Config!ScanExt(raw) = None \/ x \in Config!ScanExt(raw)
    BY PreparedIsScanned DEF Config!Accepted
  <1>5. GoodPlace(place)
    BY <1>1, <1>2, <1>3, <1>4 DEF GoodPlace, DiskOrigin
  <1> QED
    BY <1>5 DEF place

LEMMA PlacesAreGood ==
  ASSUME NEW s \in Settings, NEW n \in DOMAIN s.places
  PROVE  GoodPlace(s.places[n])
  <1>1. PICK c \in Configs :
          /\ Config!AllAccepted(c.places)
          /\ s = [strict |-> c.strict, oversize |-> c.oversize,
                  places |-> Config!Places(c.places, c.strict)]
    BY DEF Settings
  <1>2. /\ n \in DOMAIN c.places
        /\ s.places[n] = Config!Resolved(c.places[n], c.strict)
    BY <1>1 DEF Config!Places
  <1> QED
    BY <1>1, <1>2, ResolvedIsGood DEF Config!AllAccepted

-----------------------------------------------------------------------------
(* Owners. *)

LEMMA Routes ==
  ASSUME NEW p \in All
  PROVE  /\ p \in Seq(Names) /\ Len(p) \in Nat
         /\ Owned(p) <=> /\ Len(p) >= Top /\ IsPrefix(AppRoot, p)
                         /\ p[Top] \in DOMAIN settings.places
         /\ Place(p) = settings.places[p[Top]]
         /\ InIndexed(p) => p[Top] # None
  <1>1. p \in Seq(Names) /\ Len(p) \in Nat
    BY PathFacts DEF All
  <1>2. Owned(p) <=> /\ Len(p) >= Top /\ IsPrefix(AppRoot, p)
                     /\ p[Top] \in DOMAIN settings.places
    BY <1>1, PathFacts DEF Owned, Outside, Outer, Top
  <1>3. Place(p) = settings.places[p[Top]]
    BY DEF Place, Top
  <1>4. Owned(p) => p[Top] \in Names
    BY <1>1, <1>2, PathFacts, ElementOfSeq
  <1> QED
    BY <1>1, <1>2, <1>3, <1>4, NoneAssumption DEF InIndexed

\* Everything below a path of an owned place is in that place.
LEMMA OwnerBelow ==
  ASSUME NEW p \in All, NEW q \in All, IsPrefix(p, q), Len(p) >= Top
  PROVE  /\ IsPrefix(AppRoot, p) <=> IsPrefix(AppRoot, q)
         /\ q[Top] = p[Top]
  <1>1. p \in Seq(Names) /\ q \in Seq(Names) /\ AppRoot \in Seq(Names)
    BY PathFacts DEF All
  <1>2. Len(AppRoot) <= Len(p) /\ Top \in 1..Len(p)
    BY <1>1, PathFacts
  <1>3. q[Top] = p[Top]
    BY <1>1, <1>2, PrefixByElement
  <1>4. IsPrefix(AppRoot, p) => IsPrefix(AppRoot, q)
    BY <1>1, PrefixOrder
  <1>5. IsPrefix(AppRoot, q) => IsPrefix(AppRoot, p)
    BY <1>1, <1>2, PrefixOrder
  <1> QED
    BY <1>3, <1>4, <1>5

-----------------------------------------------------------------------------
(* The invariant. *)

\* An entry lives in an indexed place, as its place may hold it.
GoodEntry(p, x) ==
  x # None =>
    /\ InIndexed(p)
    /\ Place(p).virtual \/ Cached(p)
    /\ PreparedAt(p) => x.prepared /\ x.inMemory
    /\ ~misled => Secret \notin x.bytes

GoodMap(map) ==
  /\ map = Indexing(map.entries)
  /\ map.entries \in [Paths -> Entries \cup {None}]
  /\ \A p \in Paths : GoodEntry(p, map.entries[p])

\* Secrets lie where they are hidden, as long as the index has not misled the router.
GoodDisk(files) ==
  /\ files \in [Paths -> Bytes \cup {None}]
  /\ ~misled =>
       \A p \in Paths : files[p] # None /\ Secret \in files[p] => HiddenBy(settings, p)

GoodCopy(c) ==
  /\ c \in Copies \cup {None}
  /\ ~misled /\ c # None =>
       /\ ~HiddenBy(settings, c.from)
       /\ c.bytes # None => Secret \notin c.bytes

\* The history tells.
Told == misled \in BOOLEAN /\ (Misled => misled)

Inv ==
  /\ settings \in Settings
  /\ made \in 0..MaxMade
  /\ Told
  /\ GoodMap(vfs) /\ GoodDisk(disk) /\ GoodCopy(copy)

LEMMA SettingsStay ==
  ASSUME settings' = settings, misled => misled'
  PROVE  /\ GoodMap(vfs') => GoodMap(vfs)'
         /\ GoodDisk(disk') => GoodDisk(disk)'
         /\ GoodCopy(copy') => GoodCopy(copy)'
  <1>1. ASSUME NEW p PROVE /\ InIndexed(p)' <=> InIndexed(p)
                           /\ Place(p)' = Place(p)
                           /\ Cached(p)' <=> Cached(p)
                           /\ PreparedAt(p)' <=> PreparedAt(p)
    BY DEF InIndexed, Owned, Place, Cached, PreparedAt, Among
  <1>2. GoodMap(vfs') => GoodMap(vfs)'
    BY <1>1 DEF GoodMap, GoodEntry, Indexing, Index, Borne
  <1>3. GoodDisk(disk') => GoodDisk(disk)'
    BY DEF GoodDisk
  <1>4. GoodCopy(copy') => GoodCopy(copy)'
    BY DEF GoodCopy
  <1> QED
    BY <1>2, <1>3, <1>4

LEMMA HeldFacts ==
  ASSUME NEW map, GoodMap(map), NEW p \in Paths, map.entries[p] # None
  PROVE  /\ InIndexed(p) /\ Owned(p) /\ IsPrefix(AppRoot, p) /\ Len(p) >= Top
         /\ map.entries[p] \in Entries
         /\ Place(p).virtual \/ Cached(p)
         /\ PreparedAt(p) => map.entries[p].prepared /\ map.entries[p].inMemory
         /\ ~misled => Secret \notin map.entries[p].bytes
  <1>1. /\ InIndexed(p) /\ map.entries[p] \in Entries
        /\ Place(p).virtual \/ Cached(p)
        /\ PreparedAt(p) => map.entries[p].prepared /\ map.entries[p].inMemory
        /\ ~misled => Secret \notin map.entries[p].bytes
    BY DEF GoodMap, GoodEntry
  <1>2. Owned(p) /\ p \in All
    BY <1>1 DEF InIndexed, All
  <1> QED
    BY <1>1, <1>2, Routes

LEMMA SetKeeps ==
  ASSUME NEW map, GoodMap(map), NEW p \in Paths, NEW x \in Entries, GoodEntry(p, x)
  PROVE  GoodMap(Files!Set(map, p, x))
  <1> PICK e : e = map.entries
    OBVIOUS
  <1> DEFINE f == [e EXCEPT ![p] = x]
  <1>1. e \in [Paths -> Entries \cup {None}] /\ map = Indexing(e)
    BY DEF GoodMap
  <1>2. Files!Set(map, p, x) = Indexing(f)
    <2>1. x # None
      BY ValuesAssumption
    <2> QED
      BY <1>1, <2>1, SetIsIndexing
  <1>3. f \in [Paths -> Entries \cup {None}] /\ \A q \in Paths : GoodEntry(q, f[q])
    BY <1>1 DEF GoodMap
  <1> HIDE DEF f
  <1>4. Indexing(f).entries = f
    BY DEF Indexing
  <1> QED
    BY <1>2, <1>3, <1>4 DEF GoodMap

LEMMA DeleteKeeps ==
  ASSUME NEW map, GoodMap(map), NEW p \in Paths
  PROVE  GoodMap(Files!Delete(map, p))
  <1> PICK e : e = map.entries
    OBVIOUS
  <1>1. e \in [Paths -> Entries \cup {None}] /\ map = Indexing(e)
    BY DEF GoodMap
  <1>2. CASE e[p] = None
    BY <1>2 DEF Files!Delete
  <1>3. CASE e[p] # None
    <2> DEFINE f == [e EXCEPT ![p] = None]
    <2>1. Len(p) >= Top
      BY <1>3, HeldFacts
    <2>2. Files!Delete(map, p) = Indexing(f)
      BY <1>1, <2>1, DeleteIsIndexing
    <2>3. f \in [Paths -> Entries \cup {None}] /\ \A q \in Paths : GoodEntry(q, f[q])
      BY <1>1 DEF GoodMap, GoodEntry
    <2> HIDE DEF f
    <2>4. Indexing(f).entries = f
      BY DEF Indexing
    <2> QED
      BY <2>2, <2>3, <2>4 DEF GoodMap
  <1> QED
    BY <1>2, <1>3

LEMMA PutAllKeeps ==
  ASSUME NEW map, GoodMap(map), NEW changes, DOMAIN changes \subseteq Paths,
         \A p \in DOMAIN changes :
           /\ Len(p) >= Top
           /\ changes[p] \in Entries \cup {None}
           /\ GoodEntry(p, changes[p])
  PROVE  GoodMap(Files!PutAll(map, changes))
  <1> PICK e : e = map.entries
    OBVIOUS
  <1> DEFINE f == Over(e, changes, DOMAIN changes)
  <1>1. e \in [Paths -> Entries \cup {None}] /\ map = Indexing(e)
    BY DEF GoodMap
  <1>2. Files!PutAll(map, changes) = Indexing(f)
    BY <1>1, PutAllIsIndexing
  <1>3. f \in [Paths -> Entries \cup {None}] /\ \A q \in Paths : GoodEntry(q, f[q])
    BY <1>1 DEF GoodMap, Over
  <1> HIDE DEF f
  <1>4. Indexing(f).entries = f
    BY DEF Indexing
  <1> QED
    BY <1>2, <1>3, <1>4 DEF GoodMap

LEMMA DeleteAllKeeps ==
  ASSUME NEW map, GoodMap(map), NEW T \in SUBSET Paths, \A p \in T : map.entries[p] # None
  PROVE  GoodMap(Files!DeleteAll(map, T))
  <1> DEFINE changes == [p \in T |-> None]
  <1>1. /\ DOMAIN changes = T
        /\ \A p \in T : changes[p] = None /\ Len(p) >= Top
    BY HeldFacts
  <1> HIDE DEF changes
  <1>2. GoodMap(Files!PutAll(map, changes))
    BY <1>1, PutAllKeeps DEF GoodEntry
  <1> QED
    BY <1>2 DEF Files!DeleteAll, changes

-----------------------------------------------------------------------------
(* The stores. *)

\* A path that mutates its store lies in a virtual place.
LEMMA StoreFacts ==
  ASSUME settings \in Settings, NEW p \in All, Mutate(p) = "store"
  PROVE  /\ InIndexed(p) /\ Owned(p) /\ Place(p).virtual /\ Len(p) >= Top
         /\ IsPrefix(AppRoot, p)
  <1>1. Owned(p) /\ Place(p).virtual
    BY DEF Mutate, ByMode
  <1>2. /\ p[Top] \in DOMAIN settings.places /\ Place(p) = settings.places[p[Top]]
        /\ Len(p) >= Top /\ IsPrefix(AppRoot, p)
    BY <1>1, Routes
  <1>3. Place(p).provider \in Config!Origined
    BY <1>1, <1>2, PlacesAreGood DEF GoodPlace
  <1>4. InIndexed(p)
    BY <1>1, <1>3 DEF InIndexed, Config!Origined, Config!Indexed
  <1> QED
    BY <1>1, <1>2, <1>4

\* Bytes of which no one need keep a secret.
Free(bytes) == bytes \in Bytes /\ (~misled => Secret \notin bytes)

LEMMA CanonicalIsGood ==
  ASSUME NEW p, InIndexed(p), Place(p).virtual \/ Cached(p), NEW bytes, Free(bytes)
  PROVE  Canonical(p, bytes) \in Entries /\ GoodEntry(p, Canonical(p, bytes))
  <1>0. PreparedAt(p) \in BOOLEAN
    BY DEF PreparedAt
  <1> PICK b \in BOOLEAN : b = PreparedAt(p)
    BY <1>0
  <1> DEFINE x == [bytes |-> bytes, prepared |-> b, inMemory |-> TRUE]
  <1>1. Canonical(p, bytes) = x
    BY DEF Canonical
  <1>2. /\ x \in Entries /\ x.bytes = bytes
        /\ x.prepared = b /\ x.inMemory
    BY DEF Entries, Free
  <1> HIDE DEF x
  <1>3. GoodEntry(p, x)
    BY <1>2 DEF GoodEntry, Free
  <1> QED
    BY <1>1, <1>2, <1>3

LEMMA WrittenIsFree ==
  ASSUME NEW w \in Written
  PROVE  Free({w}) /\ \A bytes \in Bytes : bytes \cup {w} \in Bytes
  <1>1. w # Secret
    BY ValuesAssumption
  <1>2. {w} \in Bytes /\ Secret \notin {w}
    BY <1>1 DEF Bytes
  <1>3. \A bytes \in Bytes : bytes \cup {w} \in Bytes
    BY DEF Bytes
  <1> QED
    BY <1>2, <1>3 DEF Free

LEMMA StoreWriteKeeps ==
  ASSUME settings \in Settings, GoodMap(vfs), NEW p \in Paths, Mutate(p) = "store",
         NEW bytes, Free(bytes), NEW exclusive, StoreWrite(p, bytes, exclusive)
  PROVE  GoodMap(vfs')
  <1>1. InIndexed(p) /\ Place(p).virtual
    BY StoreFacts DEF All
  <1>2. Canonical(p, bytes) \in Entries /\ GoodEntry(p, Canonical(p, bytes))
    BY <1>1, CanonicalIsGood
  <1> QED
    BY <1>2, SetKeeps DEF StoreWrite

LEMMA StoreAppendKeeps ==
  ASSUME settings \in Settings, GoodMap(vfs), NEW p \in Paths, Mutate(p) = "store",
         NEW w \in Written, StoreAppend(p, {w})
  PROVE  GoodMap(vfs')
  <1> DEFINE bytes == IF EntryAt(p) = None THEN {w} ELSE EntryAt(p).bytes \cup {w}
  <1>1. InIndexed(p) /\ Place(p).virtual
    BY StoreFacts DEF All
  <1>2. Free(bytes)
    <2>1. CASE EntryAt(p) = None
      BY <2>1, WrittenIsFree
    <2>2. CASE EntryAt(p) # None
      <3>1. EntryAt(p).bytes \in Bytes /\ (~misled => Secret \notin EntryAt(p).bytes)
        BY <2>2, HeldFacts DEF EntryAt, Entries
      <3> QED
        BY <2>2, <3>1, WrittenIsFree, ValuesAssumption DEF Free
    <2> QED
      BY <2>1, <2>2
  <1>3. vfs' = Files!Set(vfs, p, Canonical(p, bytes))
    BY DEF StoreAppend
  <1> HIDE DEF bytes
  <1>4. Canonical(p, bytes) \in Entries /\ GoodEntry(p, Canonical(p, bytes))
    BY <1>1, <1>2, CanonicalIsGood
  <1> QED
    BY <1>3, <1>4, SetKeeps

LEMMA BelowIsHeld ==
  ASSUME GoodMap(vfs), NEW p \in All, NEW r \in Files!KeysBelow(vfs, p)
  PROVE  /\ r \in Paths /\ vfs.entries[r] # None
         /\ IsPrefix(p, r) /\ Len(p) < Len(r)
  <1>1. Files!IsStrictPrefix(p, r) /\ r \in DOMAIN vfs.entries /\ vfs.entries[r] # None
    BY DEF Files!KeysBelow, Files!Below, Files!Holds
  <1>2. r \in Paths
    BY <1>1 DEF GoodMap
  <1>3. IsStrictPrefix(p, r)
    BY <1>1 DEF Files!IsStrictPrefix, Files!IsPrefix, IsStrictPrefix, IsPrefix
  <1>4. p \in Seq(Names) /\ r \in Seq(Names)
    BY <1>2, PathFacts DEF All
  <1> QED
    BY <1>1, <1>2, <1>3, <1>4, PrefixOrder

LEMMA StoreRmKeeps ==
  ASSUME GoodMap(vfs), NEW p \in All, StoreRm(p)
  PROVE  GoodMap(vfs')
  <1> DEFINE T == Files!KeysBelow(vfs, p)
  <1>1. \A r \in T : r \in Paths /\ vfs.entries[r] # None
    BY BelowIsHeld
  <1>2. vfs' = Files!DeleteAll(vfs, T)
    BY DEF StoreRm
  <1> HIDE DEF T
  <1> QED
    BY <1>1, <1>2, DeleteAllKeeps

LEMMA StoreMoveKeeps ==
  ASSUME settings \in Settings, GoodMap(vfs), NEW p \in All, NEW q \in All,
         Mutate(p) = "store", Mutate(q) = "store", StoreMove(p, q)
  PROVE  GoodMap(vfs')
  <1>1. p \in Paths /\ q \in Paths /\ EntryAt(p) = vfs.entries[p] /\ EntryAt(p) # None
    BY DEF StoreMove, EntryAt
  <1>2. Free(EntryAt(p).bytes)
    BY <1>1, HeldFacts DEF Entries, Free
  <1> DEFINE x == Canonical(q, EntryAt(p).bytes)
             map == Files!Set(vfs, q, x)
  <1>3. x \in Entries /\ GoodEntry(q, x)
    BY <1>2, StoreFacts, CanonicalIsGood
  <1>4. vfs' = Files!Delete(map, p)
    BY DEF StoreMove
  <1> HIDE DEF x
  <1>5. GoodMap(map)
    BY <1>1, <1>3, SetKeeps
  <1> HIDE DEF map
  <1> QED
    BY <1>1, <1>4, <1>5, DeleteKeeps

\* r has the m elements of p and then the n elements of q.
IsJoined(r, S, p, m, q, n) ==
  /\ r \in Seq(S) /\ Len(r) = m + n
  /\ \A i \in 1..(m + n) : r[i] = IF i <= m THEN p[i] ELSE q[i - m]
LEMMA Joined ==
  ASSUME NEW S, NEW p \in Seq(S), NEW q \in Seq(S), NEW m \in Nat, NEW n \in Nat,
         Len(p) = m, Len(q) = n
  PROVE  IsJoined(p \o q, S, p, m, q, n)
  <1>1. /\ p \o q \in Seq(S) /\ Len(p \o q) = Len(p) + Len(q)
        /\ \A i \in 1..(Len(p) + Len(q)) :
             (p \o q)[i] = IF i <= Len(p) THEN p[i] ELSE q[i - Len(p)]
    BY ConcatProperties
  <1> DEFINE r == p \o q
  <1> HIDE DEF r
  <1>2. /\ r \in Seq(S) /\ Len(r) = Len(p) + Len(q)
        /\ \A i \in 1..(Len(p) + Len(q)) :
             r[i] = IF i <= Len(p) THEN p[i] ELSE q[i - Len(p)]
    BY <1>1 DEF r
  <1>3. /\ r \in Seq(S) /\ Len(r) = m + n
        /\ \A i \in 1..(m + n) : r[i] = IF i <= m THEN p[i] ELSE q[i - m]
    BY <1>2
  <1> QED
    BY <1>3 DEF r, IsJoined

\* A subtree under another path, and back.
LEMMA RebasedFacts ==
  ASSUME NEW p \in Seq(Names), NEW q \in Seq(Names), NEW r \in Seq(Names),
         IsPrefix(p, r), Len(p) < Len(r)
  PROVE  /\ Rebased(p, q, r) \in Seq(Names)
         /\ IsPrefix(q, Rebased(p, q, r)) /\ Len(q) < Len(Rebased(p, q, r))
         /\ Last(Rebased(p, q, r)) = Last(r)
         /\ Rebased(q, p, Rebased(p, q, r)) = r
  <1> PICK k \in Nat, m \in Nat, n \in Nat :
        k = Len(p) /\ m = Len(q) /\ k + n = Len(r) /\ n >= 1
    <2>1. Len(p) \in Nat /\ Len(q) \in Nat /\ Len(r) \in Nat
      OBVIOUS
    <2>2. Len(r) - Len(p) \in Nat /\ Len(r) - Len(p) >= 1 /\ Len(p) + (Len(r) - Len(p)) = Len(r)
      BY <2>1
    <2> QED
      BY <2>1, <2>2
  <1>1. \A i \in (k + 1)..(k + n) : r[i] \in Names
    OBVIOUS
  <1> DEFINE t == SubSeq(r, k + 1, k + n)
             s == q \o t
             u == SubSeq(s, m + 1, m + n)
  <1>2. t \in Seq(Names) /\ Len(t) = n /\ \A i \in 1..n : t[i] = r[k + i]
    <2>1. k + n - (k + 1) + 1 = n /\ k + 1 <= k + n /\ \A i \in 1..n : k + 1 + i - 1 = k + i
      OBVIOUS
    <2>2. /\ SubSeq(r, k + 1, k + n) \in Seq(Names)
          /\ Len(SubSeq(r, k + 1, k + n)) = k + n - (k + 1) + 1
          /\ \A i \in 1..(k + n - (k + 1) + 1) : SubSeq(r, k + 1, k + n)[i] = r[k + 1 + i - 1]
      BY <1>1, <2>1, SubSeqProperties
    <2> HIDE DEF t
    <2> QED
      BY <2>1, <2>2 DEF t
  <1>3. Rebased(p, q, r) = s
    BY DEF Rebased
  <1> HIDE DEF t
  <1>4. /\ s \in Seq(Names) /\ Len(s) = m + n
        /\ \A i \in 1..m : s[i] = q[i]
        /\ \A i \in 1..n : s[m + i] = r[k + i]
    <2>1. /\ s \in Seq(Names) /\ Len(s) = m + n
          /\ \A i \in 1..(m + n) : s[i] = IF i <= m THEN q[i] ELSE t[i - m]
      <3>1. IsJoined(q \o t, Names, q, m, t, n)
        BY <1>2, Joined
      <3> QED
        BY <3>1 DEF IsJoined
    <2> HIDE DEF s
    <2>2. \A i \in 1..m : s[i] = q[i]
      BY <2>1
    <2>3. ASSUME NEW i \in 1..n PROVE s[m + i] = r[k + i]
      <3>1. m + i \in 1..(m + n) /\ ~(m + i <= m) /\ m + i - m = i
        OBVIOUS
      <3>2. s[m + i] = t[m + i - m]
        BY <2>1, <3>1
      <3> QED
        BY <1>2, <3>1, <3>2
    <2> QED
      BY <2>1, <2>2, <2>3
  <1>5. Rebased(q, p, s) = p \o u
    BY <1>4 DEF Rebased
  <1> HIDE DEF s
  <1>6. u \in Seq(Names) /\ Len(u) = n /\ \A i \in 1..n : u[i] = r[k + i]
    <2>1. m + n - (m + 1) + 1 = n /\ m + 1 <= m + n /\ \A i \in 1..n : m + 1 + i - 1 = m + i
      OBVIOUS
    <2>2. \A i \in (m + 1)..(m + n) : s[i] \in Names
      BY <1>4
    <2>3. /\ SubSeq(s, m + 1, m + n) \in Seq(Names)
          /\ Len(SubSeq(s, m + 1, m + n)) = m + n - (m + 1) + 1
          /\ \A i \in 1..(m + n - (m + 1) + 1) :
               SubSeq(s, m + 1, m + n)[i] = s[m + 1 + i - 1]
      BY <2>1, <2>2, SubSeqProperties
    <2> HIDE DEF u
    <2>4. u \in Seq(Names) /\ Len(u) = n /\ \A i \in 1..n : u[i] = s[m + i]
      BY <2>1, <2>3 DEF u
    <2> QED
      BY <1>4, <2>4
  <1> HIDE DEF u
  <1>7. p \o u = r
    <2>1. \A i \in 1..k : p[i] = r[i]
      BY PrefixByElement
    <2>2. /\ p \o u \in Seq(Names) /\ Len(p \o u) = k + n
          /\ \A i \in 1..(k + n) : (p \o u)[i] = IF i <= k THEN p[i] ELSE u[i - k]
      <3>1. IsJoined(p \o u, Names, p, k, u, n)
        BY <1>6, Joined
      <3> QED
        BY <3>1 DEF IsJoined
    <2>3. ASSUME NEW i \in 1..(k + n) PROVE (p \o u)[i] = r[i]
      <3>1. CASE i <= k
        BY <2>1, <2>2, <3>1
      <3>2. CASE ~(i <= k)
        <4>1. i - k \in 1..n /\ k + (i - k) = i
          BY <3>2
        <4>2. u[i - k] = r[k + (i - k)]
          BY <1>6, <4>1
        <4> QED
          BY <2>2, <3>2, <4>1, <4>2
      <3> QED
        BY <3>1, <3>2
    <2> DEFINE v == p \o u
    <2>4. v \in Seq(Names) /\ Len(v) = Len(r) /\ \A i \in 1..Len(v) : v[i] = r[i]
      BY <2>2, <2>3
    <2> HIDE DEF v
    <2>5. v = r
      BY <2>4, SeqEqual
    <2> QED
      BY <2>5 DEF v
  <1>8. IsPrefix(q, s)
    <2>1. Len(q) <= Len(s) /\ \A i \in 1..Len(q) : q[i] = s[i]
      BY <1>4
    <2> QED
      BY <1>4, <2>1, PrefixByElement
  <1>9. Last(s) = Last(r)
    <2>1. s[m + n] = r[k + n]
      BY <1>4
    <2> QED
      BY <1>4, <2>1 DEF Last
  <1> QED
    BY <1>3, <1>4, <1>5, <1>7, <1>8, <1>9

LEMMA PlaceBelow ==
  ASSUME NEW p \in All, NEW q \in All, IsPrefix(p, q), Len(p) >= Top
  PROVE  /\ Owned(q) <=> Owned(p)
         /\ InIndexed(q) <=> InIndexed(p)
         /\ Place(q) = Place(p)
  <1>1. p \in Seq(Names) /\ q \in Seq(Names) /\ Len(q) >= Len(p)
    BY PathFacts, PrefixOrder DEF All
  <1>2. Len(q) >= Top
    BY <1>1, PathFacts
  <1>3. q[Top] = p[Top] /\ (IsPrefix(AppRoot, p) <=> IsPrefix(AppRoot, q))
    BY OwnerBelow
  <1>4. (Owned(q) <=> Owned(p)) /\ Place(q) = Place(p)
    BY <1>2, <1>3, Routes
  <1> QED
    BY <1>4 DEF InIndexed

\* A file keeps its extension where its subtree goes.
LEMMA RebasedPath ==
  ASSUME NEW p \in All, NEW q \in All, NEW r \in Paths, IsPrefix(p, r), Len(p) < Len(r),
         NEW s \in Paths, s = Rebased(p, q, r)
  PROVE  /\ IsPrefix(q, s) /\ Len(q) < Len(s)
         /\ Ext[s] = Ext[r]
         /\ Rebased(q, p, s) = r
  <1>1. p \in Seq(Names) /\ q \in Seq(Names) /\ r \in Seq(Names)
    BY PathFacts DEF All
  <1>2. /\ IsPrefix(q, s) /\ Len(q) < Len(s)
        /\ Last(s) = Last(r) /\ Rebased(q, p, s) = r
    BY <1>1, RebasedFacts
  <1>3. Ext[s] = Ext[r]
    BY <1>2, PathsAssumption
  <1> QED
    BY <1>2, <1>3

LEMMA StoreMoveTreeKeeps ==
  ASSUME settings \in Settings, GoodMap(vfs), NEW p \in All, NEW q \in All,
         Mutate(p) = "store", Mutate(q) = "store", IndexedOwner(p) = IndexedOwner(q),
         StoreMoveTree(p, q)
  PROVE  GoodMap(vfs')
  <1> DEFINE moved == Files!KeysBelow(vfs, p)
             gone == Files!DeleteAll(vfs, moved)
             places == {Rebased(p, q, r) : r \in moved}
             changes == [s \in places |-> vfs.entries[Rebased(q, p, s)]]
  <1>1. /\ \A r \in moved : ~PreparedAt(r) /\ Rebased(p, q, r) \in Paths
        /\ vfs' = Files!PutAll(gone, changes)
    BY DEF StoreMoveTree
  <1>2. \A r \in moved : /\ r \in Paths /\ vfs.entries[r] # None
                         /\ IsPrefix(p, r) /\ Len(p) < Len(r)
    BY BelowIsHeld
  <1> HIDE DEF moved
  <1>3. GoodMap(gone)
    BY <1>2, DeleteAllKeeps
  <1>4. /\ Len(p) >= Top /\ Len(q) >= Top
        /\ InIndexed(p) /\ InIndexed(q) /\ Place(q) = Place(p) /\ Place(q).virtual
    <2>1. /\ InIndexed(p) /\ InIndexed(q) /\ Len(p) >= Top /\ Len(q) >= Top
          /\ Place(q).virtual
      BY StoreFacts
    <2>2. p[Top] = q[Top]
      BY <2>1 DEF IndexedOwner, Top
    <2> QED
      BY <2>1, <2>2, Routes
  <1>5. ASSUME NEW s \in places
        PROVE  /\ s \in Paths /\ Len(s) >= Top
               /\ changes[s] \in Entries /\ GoodEntry(s, changes[s])
    <2>1. PICK r \in moved : s = Rebased(p, q, r)
      OBVIOUS
    <2>2. s \in Paths /\ s \in All /\ r \in Paths /\ r \in All /\ IsPrefix(p, r) /\ Len(p) < Len(r)
      BY <1>1, <1>2, <2>1 DEF All
    <2>3. /\ IsPrefix(q, s) /\ Len(q) < Len(s) /\ Ext[s] = Ext[r]
          /\ Rebased(q, p, s) = r
      BY <2>1, <2>2, RebasedPath
    <2>4. InIndexed(s) /\ Place(s) = Place(q) /\ Place(r) = Place(p)
      BY <1>4, <2>2, <2>3, PlaceBelow
    <2>5. ~PreparedAt(s)
      BY <1>1, <1>4, <2>3, <2>4 DEF PreparedAt
    <2>6. changes[s] = vfs.entries[r]
      BY <2>3
    <2>7. /\ vfs.entries[r] \in Entries
          /\ ~misled => Secret \notin vfs.entries[r].bytes
      BY <1>2, <2>2, HeldFacts
    <2>8. Len(s) >= Top
      <3>1. Len(q) \in Nat /\ Len(s) \in Nat /\ Top \in Nat
        BY <2>2, PathFacts, Routes
      <3> QED
        BY <1>4, <2>3, <3>1
    <2> HIDE DEF changes
    <2>9. GoodEntry(s, changes[s])
      BY <1>4, <2>4, <2>5, <2>6, <2>7 DEF GoodEntry
    <2> QED
      BY <2>2, <2>6, <2>7, <2>8, <2>9
  <1>6. DOMAIN changes = places
    OBVIOUS
  <1> HIDE DEF changes, places, gone
  <1>7. GoodMap(Files!PutAll(gone, changes))
    BY <1>3, <1>5, <1>6, PutAllKeeps
  <1> QED
    BY <1>1, <1>7

-----------------------------------------------------------------------------
(* Hidden files. *)

LEMMA ReadValues ==
  ASSUME NEW p
  PROVE  Read(p) \in {"deny", "dir", "root", "passthrough", "disk", "file"}
  <1>1. Miss(p) \in {"deny", "disk", "passthrough"} /\ ByMode \in {"deny", "passthrough"}
    BY DEF Miss, ByMode
  <1>2. CASE Outside(p) \/ p = AppRoot \/ ~Owned(p) \/ ~Place(p).fs
    BY <1>1, <1>2 DEF Read, InIndexed, VisibleEntry
  <1>3. CASE ~Outside(p) /\ p # AppRoot /\ Owned(p) /\ Place(p).fs
    BY <1>1, <1>3 DEF Read
  <1> QED
    BY <1>2, <1>3

\* A hidden path is below the application, not above it.
LEMMA HiddenIsInside ==
  ASSUME NEW p \in Paths, HiddenBy(settings, p)
  PROVE  p \in All /\ IsPrefix(AppRoot, p) /\ p # AppRoot /\ ~Outside(p) /\ Len(p) >= Top
  <1>1. p \in All /\ p \in Seq(Names) /\ Len(p) \in Nat /\ ~IsPrefix(p, AppRoot)
    BY PathFacts, PathsAssumption DEF All
  <1>2. IsPrefix(AppRoot, p)
    <2>1. HiddenBy(settings, p) => IsPrefix(AppRoot, p)
      BY DEF HiddenBy
    <2> QED
      BY <2>1
  <1>3. p # AppRoot
    BY <1>1, <1>2, PrefixOrder
  <1>4. Len(AppRoot) <= Len(p) /\ Len(AppRoot) # Len(p)
    BY <1>1, <1>2, <1>3, PathFacts, PrefixOrder
  <1> QED
    BY <1>1, <1>2, <1>3, <1>4, PathFacts DEF Outside, Outer

\* node:fs refuses what is hidden, unless it takes it for a directory, and nothing is
\* published there.
LEMMA HiddenIsDenied ==
  ASSUME settings \in Settings, GoodMap(vfs), NEW p \in Paths, HiddenBy(settings, p)
  PROVE  /\ Read(p) = "deny" \/ (Read(p) = "dir" /\ IsDirectory(p))
         /\ EntryAt(p) = None
  <1>1. p \in All
    BY DEF All
  <1>3. IsPrefix(AppRoot, p) /\ p # AppRoot /\ ~Outside(p) /\ Len(p) >= Top
    BY HiddenIsInside
  <1> DEFINE place == settings.places[p[Top]]
  <1>4. CASE p[Top] \notin DOMAIN settings.places
    <2>1. ~Owned(p)
      BY <1>1, <1>4, Routes
    <2>2. settings.strict
      BY <1>3, <1>4 DEF HiddenBy, Top
    <2>3. EntryAt(p) = None
      BY <2>1, HeldFacts DEF EntryAt
    <2>4. Read(p) = "deny"
      BY <1>3, <2>1, <2>2 DEF Read, ByMode, InIndexed
    <2> QED
      BY <2>3, <2>4
  <1>5. CASE p[Top] \in DOMAIN settings.places
    <2>1. Owned(p) /\ Place(p) = place
      BY <1>1, <1>3, <1>5, Routes
    <2>2. GoodPlace(place)
      BY <1>5, PlacesAreGood
    <2> HIDE DEF place
    <2>3. /\ ~Cached(p)
          /\ IF place.fs THEN place.fallback = "deny"
             ELSE settings.strict /\ place.provider \in Config!Indexed
      BY <1>3, <1>5, <2>1 DEF HiddenBy, Top, Cached, place
    <2>4. ~place.virtual
      BY <2>2, <2>3, NoneAssumption DEF GoodPlace, DiskOrigin
    <2>5. EntryAt(p) = None
      BY <2>1, <2>3, <2>4, HeldFacts DEF EntryAt
    <2>6. CASE ~place.fs
      <3>1. ~VisibleEntry(p)
        BY <2>5 DEF VisibleEntry
      <3>2. Read(p) = "deny"
        BY <1>3, <2>1, <2>3, <2>6, <3>1 DEF Read, ByMode
      <3> QED
        BY <2>5, <3>2
    <2>7. CASE place.fs
      <3>1. InIndexed(p)
        BY <2>1, <2>2, <2>3, <2>7, NoneAssumption
           DEF GoodPlace, DiskOrigin, InIndexed, Config!Origined, Config!Indexed
      <3>2. ~VisibleEntry(p)
        BY <2>5 DEF VisibleEntry
      <3>3. Miss(p) = "deny"
        BY <2>1, <2>3, <2>7 DEF Miss
      <3> QED
        BY <1>3, <2>1, <2>5, <2>7, <3>1, <3>2, <3>3 DEF Read
    <2> QED
      BY <2>6, <2>7
  <1> QED
    BY <1>4, <1>5

-----------------------------------------------------------------------------
(* The disk. *)

LEMMA DiskWriteKeeps ==
  ASSUME GoodDisk(disk), NEW p \in Paths, NEW bytes \in Bytes,
         ~misled /\ Secret \in bytes => HiddenBy(settings, p),
         NEW exclusive, DiskWrite(p, bytes, exclusive)
  PROVE  GoodDisk(disk')
  <1> DEFINE files == [disk EXCEPT ![p] = bytes]
  <1>1. disk' = files
    BY DEF DiskWrite
  <1>2. GoodDisk(files)
    BY DEF GoodDisk
  <1> QED
    BY <1>1, <1>2

LEMMA WriteThroughKeeps ==
  ASSUME settings \in Settings, GoodMap(vfs), GoodDisk(disk), NEW p \in Paths,
         NEW bytes, Free(bytes), NEW exclusive, WriteThrough(p, bytes, exclusive)
  PROVE  GoodMap(vfs') /\ GoodDisk(disk')
  <1>1. CASE ToStore(p) /\ StoreWrite(p, bytes, exclusive)
    BY <1>1, StoreWriteKeeps DEF ToStore
  <1>2. CASE ToDisk(p) /\ DiskWrite(p, bytes, exclusive)
    BY <1>2, DiskWriteKeeps DEF ToDisk, Free
  <1> QED
    BY <1>1, <1>2 DEF WriteThrough

\* What is on the disk at a path that node:fs does not refuse is free.
LEMMA ReadableIsFree ==
  ASSUME settings \in Settings, GoodMap(vfs), GoodDisk(disk), Told,
         NEW p, OnDisk(p), Read(p) # "deny"
  PROVE  p \in Paths /\ Free(disk[p])
  <1>1. p \in Paths
    BY DEF OnDisk
  <1>2. ~misled => ~HiddenBy(settings, p)
    BY <1>1, HiddenIsDenied DEF Told, Misled
  <1> QED
    BY <1>1, <1>2 DEF OnDisk, GoodDisk, Free

\* What a directory of a hidden file gives way to: the file stays hidden.
LEMMA MovedStaysHidden ==
  ASSUME settings \in Settings, NEW p \in All, NEW q \in All, NEW r \in Paths,
         Read(p) # "deny", ~Encloses(p), IndexedOwner(p) = IndexedOwner(q),
         IsPrefix(p, r), Len(p) < Len(r), NEW s \in Paths, s = Rebased(p, q, r),
         HiddenBy(settings, r)
  PROVE  HiddenBy(settings, s)
  <1>1. p \in Seq(Names) /\ q \in Seq(Names) /\ r \in Seq(Names) /\ r \in All /\ s \in All
    BY PathFacts DEF All
  <1>2. IsPrefix(AppRoot, r)
    <2>1. HiddenBy(settings, r) => IsPrefix(AppRoot, r)
      BY DEF HiddenBy
    <2> QED
      BY <2>1
  <1>3. IsPrefix(AppRoot, p) /\ Len(p) >= Top
    <2>1. ~IsPrefix(p, AppRoot)
      BY DEF Encloses, Enclosing
    <2>2. Len(AppRoot) \in Nat /\ Len(p) \in Nat
      BY <1>1, PathFacts
    <2>3. IsPrefix(AppRoot, p) \/ IsPrefix(p, AppRoot)
      BY <1>1, <1>2, <2>2, PathFacts, PrefixOrder
    <2>4. Len(AppRoot) # Len(p)
      BY <1>1, <2>1, <2>3, PathFacts, PrefixOrder
    <2>5. Len(AppRoot) <= Len(p)
      BY <1>1, <2>1, <2>3, PathFacts, PrefixOrder
    <2> QED
      BY <2>1, <2>2, <2>3, <2>4, <2>5, PathFacts
  <1>4. r[Top] = p[Top] /\ Place(r) = Place(p) /\ (Owned(r) <=> Owned(p))
    BY <1>1, <1>3, OwnerBelow, PlaceBelow
  <1>5. Owned(p) <=> p[Top] \in DOMAIN settings.places
    BY <1>3, Routes
  <1>6. p # AppRoot /\ ~Outside(p)
    BY <1>1, <1>3, PathFacts DEF Outside, Outer
  <1>7. InIndexed(p)
    <2>1. CASE ~Owned(p)
      <3>1. settings.strict
        BY <1>2, <1>4, <1>5, <2>1 DEF HiddenBy, Top
      <3>2. Read(p) = "deny"
        BY <1>6, <2>1, <3>1 DEF Read, ByMode, InIndexed
      <3> QED
        BY <3>2
    <2>2. CASE Owned(p)
      <3> DEFINE place == settings.places[p[Top]]
      <3>1. GoodPlace(place) /\ Place(p) = place
        BY <1>5, <2>2, PlacesAreGood, Routes
      <3>2. IF place.fs THEN place.fallback = "deny" ELSE place.provider \in Config!Indexed
        BY <1>2, <1>4, <1>5, <2>2 DEF HiddenBy, Top
      <3> HIDE DEF place
      <3>3. place.provider \in Config!Indexed
        BY <3>1, <3>2, NoneAssumption
           DEF GoodPlace, DiskOrigin, Config!Origined, Config!Indexed
      <3> QED
        BY <2>2, <3>1, <3>3 DEF InIndexed
    <2> QED
      BY <2>1, <2>2
  <1>8. InIndexed(q) /\ q[Top] = p[Top]
    <2>1. IndexedOwner(p) = p[Top] /\ p[Top] # None
      BY <1>7, Routes DEF IndexedOwner, Top
    <2> QED
      BY <2>1 DEF IndexedOwner, Top
  <1>9. IsPrefix(q, s) /\ Ext[s] = Ext[r] /\ Len(q) >= Top /\ IsPrefix(AppRoot, q)
    <2>1. Owned(q)
      BY <1>8 DEF InIndexed
    <2> QED
      BY <2>1, RebasedPath, Routes
  <1>10. s[Top] = r[Top] /\ IsPrefix(AppRoot, s)
    BY <1>1, <1>4, <1>8, <1>9, OwnerBelow
  <1>11. HiddenBy(settings, s) <=> HiddenBy(settings, r)
    BY <1>2, <1>9, <1>10 DEF HiddenBy, Top, Among
  <1> QED
    BY <1>11

LEMMA DiskMoveKeeps ==
  ASSUME settings \in Settings, GoodMap(vfs), GoodDisk(disk), Told,
         NEW p \in All, NEW q \in All,
         Move(p, q) = "passthrough" \/ (Move(p, q) = "crossing" /\ ~DiskFolder(p)),
         DiskMove(p, q)
  PROVE  GoodDisk(disk')
  <1>1. /\ Read(p) # "deny" /\ ~Encloses(p)
        /\ DiskFolder(p) => IndexedOwner(p) = IndexedOwner(q)
    BY DEF Move
  <1>2. CASE /\ OnDisk(p) /\ q \in Paths
             /\ disk' = [disk EXCEPT ![q] = disk[p], ![p] = None]
    <2>1. p \in Paths /\ Free(disk[p])
      BY <1>1, <1>2, ReadableIsFree
    <2> DEFINE files == [disk EXCEPT ![q] = disk[p], ![p] = None]
    <2>2. files \in [Paths -> Bytes \cup {None}]
      BY <1>2, <2>1 DEF GoodDisk, Free
    <2>3. ASSUME ~misled, NEW s \in Paths, files[s] # None, Secret \in files[s]
          PROVE  HiddenBy(settings, s)
      <3>1. s # p
        BY <1>2, <2>1, <2>3 DEF GoodDisk
      <3>2. s # q
        BY <1>2, <2>1, <2>3, <3>1 DEF GoodDisk, Free
      <3>3. files[s] = disk[s]
        BY <3>1, <3>2 DEF GoodDisk
      <3> QED
        BY <2>3, <3>3 DEF GoodDisk
    <2> HIDE DEF files
    <2>4. GoodDisk(files)
      BY <2>2, <2>3 DEF GoodDisk
    <2> QED
      BY <1>2, <2>4 DEF files
  <1> DEFINE below == {r \in Under[p] : disk[r] # None}
             Comes(r, s) == r \in below /\ Rebased(p, q, r) = s
             files == [s \in Paths |->
                         IF \E r \in below : Rebased(p, q, r) = s
                         THEN disk[CHOOSE r \in below : Rebased(p, q, r) = s]
                         ELSE IF s \in below THEN None ELSE disk[s]]
  <1>3. CASE below # {} /\ disk' = files
    <2>1. /\ below \subseteq Paths
          /\ \A r \in below : disk[r] # None /\ IsPrefix(p, r) /\ Len(p) < Len(r)
      <3>1. \A r \in Under[p] : r \in Paths /\ IsStrictPrefix(p, r)
        BY DEF Under
      <3>2. p \in Seq(Names) /\ \A r \in Paths : r \in Seq(Names)
        BY PathFacts DEF All
      <3> QED
        BY <3>1, <3>2, PrefixOrder
    <2>2. DiskFolder(p)
      BY <1>3 DEF DiskFolder
    <2> HIDE DEF below
    <2>3. ASSUME NEW s \in Paths
          PROVE  \/ \E r \in below : s = Rebased(p, q, r) /\ files[s] = disk[r]
                 \/ files[s] = None \/ files[s] = disk[s]
      <3>1. CASE \E r \in below : Rebased(p, q, r) = s
        <4> DEFINE t == CHOOSE r \in below : Rebased(p, q, r) = s
        <4>1. t \in below /\ Rebased(p, q, t) = s
          BY <3>1
        <4>2. files[s] = disk[t]
          BY <3>1
        <4> HIDE DEF t
        <4> QED
          BY <4>1, <4>2
      <3>2. CASE ~ \E r \in below : Rebased(p, q, r) = s
        BY <3>2
      <3> QED
        BY <3>1, <3>2
    <2>4. files = [s \in Paths |-> files[s]]
      OBVIOUS
    <2> HIDE DEF files
    <2>5. files \in [Paths -> Bytes \cup {None}]
      <3>1. \A s \in Paths : files[s] \in Bytes \cup {None}
        BY <2>1, <2>3 DEF GoodDisk
      <3> QED
        BY <2>4, <3>1
    <2>6. ASSUME ~misled, NEW s \in Paths, files[s] # None, Secret \in files[s]
          PROVE  HiddenBy(settings, s)
      <3>1. CASE files[s] = disk[s]
        BY <2>6, <3>1 DEF GoodDisk
      <3>2. CASE \E r \in below : s = Rebased(p, q, r) /\ files[s] = disk[r]
        <4> PICK r \in below : s = Rebased(p, q, r) /\ files[s] = disk[r]
          BY <3>2
        <4>1. r \in Paths /\ IsPrefix(p, r) /\ Len(p) < Len(r) /\ HiddenBy(settings, r)
          BY <2>1, <2>6 DEF GoodDisk
        <4> QED
          BY <1>1, <2>2, <4>1, MovedStaysHidden
      <3> QED
        BY <2>3, <2>6, <3>1, <3>2
    <2> QED
      BY <1>3, <2>5, <2>6 DEF GoodDisk
  <1> QED
    BY <1>2, <1>3 DEF DiskMove

-----------------------------------------------------------------------------
(* The application's steps and the watcher's. *)

\* What a step is to keep.
Kept == settings' = settings /\ made' \in 0..MaxMade
          /\ GoodMap(vfs') /\ GoodDisk(disk') /\ GoodCopy(copy')

LEMMA MakesOne ==
  ASSUME made \in 0..MaxMade, Makes
  PROVE  made' \in 0..MaxMade
  BY ValuesAssumption DEF Makes

LEMMA WriteFileKeeps ==
  ASSUME Inv, NEW p \in Paths, NEW flag \in {"w", "a"}, NEW w \in Written,
         WriteFile(p, flag, {w})
  PROVE  Kept
  <1>1. /\ settings \in Settings /\ GoodMap(vfs) /\ GoodDisk(disk) /\ GoodCopy(copy)
        /\ settings' = settings /\ copy' = copy /\ made' \in 0..MaxMade
    BY MakesOne DEF Inv, WriteFile
  <1>2. Free({w})
    BY WrittenIsFree
  <1>3. CASE WriteThrough(p, {w}, FALSE)
    BY <1>1, <1>2, <1>3, WriteThroughKeeps DEF Kept
  <1>4. CASE ToStore(p) /\ StoreAppend(p, {w})
    BY <1>1, <1>4, StoreAppendKeeps DEF Kept, ToStore
  <1> DEFINE bytes == (IF OnDisk(p) THEN disk[p] ELSE {}) \cup {w}
  <1>5. CASE ToDisk(p) /\ DiskWrite(p, bytes, FALSE)
    <2>1. CASE OnDisk(p)
      <3>1. disk[p] \in Bytes /\ bytes = disk[p] \cup {w}
        BY <1>1, <2>1 DEF GoodDisk, OnDisk
      <3>2. bytes \in Bytes
        BY <3>1, WrittenIsFree
      <3>3. ~misled /\ Secret \in bytes => HiddenBy(settings, p)
        BY <1>1, <2>1, <3>1, ValuesAssumption DEF GoodDisk, OnDisk
      <3> HIDE DEF bytes
      <3> QED
        BY <1>1, <1>5, <3>2, <3>3, DiskWriteKeeps DEF Kept, ToDisk
    <2>2. CASE ~OnDisk(p)
      <3>1. bytes = {w}
        BY <2>2
      <3> HIDE DEF bytes
      <3> QED
        BY <1>1, <1>2, <1>5, <3>1, DiskWriteKeeps DEF Kept, ToDisk, Free
    <2> QED
      BY <2>1, <2>2
  <1> QED
    BY <1>3, <1>4, <1>5 DEF WriteFile

LEMMA UnlinkKeeps ==
  ASSUME Inv, NEW p \in Paths, Unlink(p)
  PROVE  Kept
  <1>1. /\ settings \in Settings /\ GoodMap(vfs) /\ GoodDisk(disk) /\ GoodCopy(copy)
        /\ settings' = settings /\ copy' = copy /\ made' \in 0..MaxMade
    BY DEF Inv, Unlink
  <1>2. CASE ToStore(p) /\ StoreUnlink(p)
    BY <1>1, <1>2, DeleteKeeps DEF ToStore, StoreUnlink, Kept
  <1>3. CASE ToDisk(p) /\ disk' = [disk EXCEPT ![p] = None]
    BY <1>1, <1>3 DEF ToDisk, Kept, GoodDisk
  <1> QED
    BY <1>2, <1>3 DEF Unlink

LEMMA RmKeeps ==
  ASSUME Inv, NEW p \in Folders, Rm(p)
  PROVE  Kept
  <1>1. /\ settings \in Settings /\ GoodMap(vfs) /\ GoodDisk(disk) /\ GoodCopy(copy)
        /\ settings' = settings /\ copy' = copy /\ made' \in 0..MaxMade
    BY DEF Inv, Rm
  <1>2. CASE ToStore(p) /\ StoreRm(p)
    BY <1>1, <1>2, StoreRmKeeps DEF ToStore, Kept, All
  <1>3. CASE /\ ToDisk(p)
             /\ disk' = [q \in Paths |-> IF IsPrefix(p, q) THEN None ELSE disk[q]]
    BY <1>1, <1>3 DEF ToDisk, Kept, GoodDisk
  <1> QED
    BY <1>2, <1>3 DEF Rm

LEMMA RenameKeeps ==
  ASSUME Inv, NEW p \in All, NEW q \in All, Rename(p, q)
  PROVE  Kept
  <1>1. /\ settings \in Settings /\ GoodMap(vfs) /\ GoodDisk(disk) /\ GoodCopy(copy) /\ Told
        /\ settings' = settings /\ copy' = copy /\ made' \in 0..MaxMade
    BY DEF Inv, Rename
  <1>2. CASE /\ ToStore(p) /\ ToStore(q) /\ IndexedOwner(p) = IndexedOwner(q)
             /\ StoreMove(p, q) \/ StoreMoveTree(p, q)
    <2>1. Mutate(p) = "store" /\ Mutate(q) = "store" /\ disk' = disk
      BY <1>2 DEF ToStore
    <2>2. GoodMap(vfs')
      BY <1>1, <1>2, <2>1, StoreMoveKeeps, StoreMoveTreeKeeps
    <2> QED
      BY <1>1, <2>1, <2>2 DEF Kept
  <1>3. CASE /\ ToDisk(p) /\ ToDisk(q)
             /\ Move(p, q) = "passthrough" \/ (Move(p, q) = "crossing" /\ ~DiskFolder(p))
             /\ DiskMove(p, q)
    <2>1. vfs' = vfs
      BY <1>3 DEF ToDisk
    <2>2. GoodDisk(disk')
      BY <1>1, <1>3, DiskMoveKeeps
    <2> QED
      BY <1>1, <2>1, <2>2 DEF Kept
  <1> QED
    BY <1>2, <1>3 DEF Rename

LEMMA LinkKeeps ==
  ASSUME Inv, NEW p \in Paths, NEW q \in Paths, Link(p, q)
  PROVE  Kept
  <1>1. /\ settings \in Settings /\ GoodMap(vfs) /\ GoodDisk(disk) /\ GoodCopy(copy) /\ Told
        /\ settings' = settings /\ copy' = copy /\ made' \in 0..MaxMade
    BY MakesOne DEF Inv, Link
  <1>2. OnDisk(p) /\ Read(p) # "deny"
    BY DEF Link, HardLink
  <1>3. Free(disk[p])
    BY <1>1, <1>2, ReadableIsFree
  <1>4. vfs' = vfs /\ DiskWrite(q, disk[p], TRUE)
    BY DEF Link, ToDisk
  <1>5. GoodDisk(disk')
    BY <1>1, <1>3, <1>4, DiskWriteKeeps DEF Free
  <1> QED
    BY <1>1, <1>4, <1>5 DEF Kept

LEMMA CopyFileKeeps ==
  ASSUME Inv, NEW p \in Paths, NEW q \in Paths, NEW existing \in Existing,
         CopyFile(p, q, existing)
  PROVE  Kept
  <1>1. /\ settings \in Settings /\ GoodMap(vfs) /\ GoodDisk(disk) /\ GoodCopy(copy) /\ Told
        /\ settings' = settings /\ made' \in 0..MaxMade
    BY MakesOne DEF Inv, CopyFile
  <1>2. CASE /\ CopySource(p) = "canonical"
             /\ WriteThrough(q, EntryAt(p).bytes, Exclusive(existing))
             /\ UNCHANGED copy
    <2>1. EntryAt(p) # None
      <3>1. Read(p) = "file"
        BY <1>2, ReadValues DEF CopySource
      <3> QED
        BY <3>1 DEF Read, Miss, ByMode, VisibleEntry
    <2>2. Free(EntryAt(p).bytes)
      BY <1>1, <2>1, HeldFacts DEF EntryAt, Entries, Free
    <2>3. GoodMap(vfs') /\ GoodDisk(disk')
      BY <1>1, <1>2, <2>2, WriteThroughKeeps
    <2> QED
      BY <1>1, <1>2, <2>3 DEF Kept
  <1>3. CopySource(p) = "passthrough" => Read(p) \notin {"deny", "dir"}
    BY DEF CopySource
  <1>4. CASE /\ CopySource(p) = "passthrough" /\ OnDisk(p)
             /\ WriteThrough(q, disk[p], Exclusive(existing))
             /\ UNCHANGED copy
    <2>1. Free(disk[p])
      BY <1>1, <1>3, <1>4, ReadableIsFree
    <2>2. GoodMap(vfs') /\ GoodDisk(disk')
      BY <1>1, <1>4, <2>1, WriteThroughKeeps
    <2> QED
      BY <1>1, <1>4, <2>2 DEF Kept
  <1>5. CASE /\ CopySource(p) = "passthrough"
             /\ copy' = [from |-> p, to |-> q, existing |-> existing, bytes |-> None]
             /\ UNCHANGED <<disk, vfs>>
    <2>1. ~HiddenBy(settings, p)
      <3>1. Read(p) # "deny" /\ Read(p) # "dir"
        BY <1>3, <1>5
      <3> QED
        BY <1>1, <3>1, HiddenIsDenied
    <2>2. GoodCopy(copy')
      BY <1>5, <2>1 DEF GoodCopy, Copies
    <2> QED
      BY <1>1, <1>5, <2>2 DEF Kept
  <1> QED
    BY <1>2, <1>4, <1>5 DEF CopyFile

LEMMA ReadInputKeeps ==
  ASSUME Inv, ReadInput
  PROVE  Kept
  <1>1. /\ settings \in Settings /\ GoodMap(vfs) /\ GoodDisk(disk) /\ GoodCopy(copy)
        /\ settings' = settings /\ made' \in 0..MaxMade
        /\ disk' = disk /\ vfs' = vfs
    BY DEF Inv, ReadInput
  <1>2. copy \in Copies /\ copy.from \in Paths
    BY <1>1 DEF ReadInput, GoodCopy, Copies
  <1>3. CASE OnDisk(copy.from)
    <2>1. copy' = [copy EXCEPT !.bytes = disk[copy.from]]
      BY <1>3 DEF ReadInput
    <2>2. /\ disk[copy.from] \in Bytes
          /\ ~misled => Secret \notin disk[copy.from]
      BY <1>1, <1>2, <1>3 DEF GoodDisk, GoodCopy, OnDisk, ReadInput
    <2>3. copy' \in Copies /\ copy'.from = copy.from /\ copy'.bytes = disk[copy.from]
      BY <1>2, <2>1, <2>2 DEF Copies
    <2>4. GoodCopy(copy')
      BY <1>1, <2>2, <2>3 DEF GoodCopy, ReadInput
    <2> QED
      BY <1>1, <2>4 DEF Kept
  <1>4. CASE ~OnDisk(copy.from)
    BY <1>1, <1>4 DEF ReadInput, Kept, GoodCopy
  <1> QED
    BY <1>3, <1>4

LEMMA WriteInputKeeps ==
  ASSUME Inv, WriteInput
  PROVE  Kept
  <1>1. /\ settings \in Settings /\ GoodMap(vfs) /\ GoodDisk(disk) /\ GoodCopy(copy)
        /\ settings' = settings /\ made' \in 0..MaxMade /\ copy' = None
    BY DEF Inv, WriteInput
  <1>2. /\ copy \in Copies /\ copy.to \in Paths
        /\ Free(copy.bytes)
    BY <1>1 DEF WriteInput, GoodCopy, Copies, Free
  <1>3. GoodCopy(copy')
    BY <1>1 DEF GoodCopy
  <1>4. CASE WriteThrough(copy.to, copy.bytes, Exclusive(copy.existing))
    BY <1>1, <1>2, <1>3, <1>4, WriteThroughKeeps DEF Kept
  <1>5. CASE UNCHANGED <<disk, vfs>>
    BY <1>1, <1>3, <1>5 DEF Kept
  <1> QED
    BY <1>4, <1>5 DEF WriteInput

LEMMA PublishKeeps ==
  ASSUME Inv, NEW p \in Paths, Publish(p)
  PROVE  Kept
  <1>1. /\ settings \in Settings /\ GoodMap(vfs) /\ GoodDisk(disk) /\ GoodCopy(copy)
        /\ settings' = settings /\ made' \in 0..MaxMade
        /\ disk' = disk /\ copy' = copy
        /\ InIndexed(p) /\ Cached(p)
    BY DEF Inv, Publish
  <1>2. CASE OnDisk(p)
    <2> DEFINE x == [Canonical(p, disk[p]) EXCEPT !.inMemory = Fits(disk[p])]
    <2>1. ~HiddenBy(settings, p)
      <3>1. /\ p[Top] \in DOMAIN settings.places /\ Place(p) = settings.places[p[Top]]
            /\ IsPrefix(AppRoot, p)
        BY <1>1, Routes DEF InIndexed, All
      <3> QED
        BY <1>1, <3>1 DEF HiddenBy, Cached, Top
    <2>2. Free(disk[p])
      BY <1>1, <1>2, <2>1 DEF GoodDisk, OnDisk, Free
    <2>3. /\ PreparedAt(p) => Fits(disk[p])
          /\ vfs' = Files!Set(vfs, p, x)
      BY <1>2 DEF Publish
    <2>4. Canonical(p, disk[p]) \in Entries /\ GoodEntry(p, Canonical(p, disk[p]))
      BY <1>1, <2>2, CanonicalIsGood
    <2>5. Fits(disk[p]) \in BOOLEAN
      BY DEF Fits
    <2>6. PICK y \in Entries : y = Canonical(p, disk[p])
      BY <2>4
    <2>7. PICK b \in BOOLEAN : b = Fits(disk[p])
      BY <2>5
    <2>8. [y EXCEPT !.inMemory = b] \in Entries /\ GoodEntry(p, [y EXCEPT !.inMemory = b])
      <3>1. PICK z : z = [y EXCEPT !.inMemory = b]
        OBVIOUS
      <3>2. /\ z \in Entries /\ z.bytes = y.bytes /\ z.prepared = y.prepared
            /\ z.inMemory = b
        BY <3>1 DEF Entries
      <3>3. y # None
        BY ValuesAssumption
      <3>4. GoodEntry(p, z)
        BY <2>3, <2>4, <2>6, <2>7, <3>2, <3>3 DEF GoodEntry
      <3> QED
        BY <3>1, <3>2, <3>4
    <2>9. x \in Entries /\ GoodEntry(p, x)
      BY <2>6, <2>7, <2>8
    <2> HIDE DEF x
    <2>10. GoodMap(vfs')
      BY <1>1, <2>3, <2>9, SetKeeps
    <2> QED
      BY <1>1, <2>10 DEF Kept
  <1>3. CASE ~OnDisk(p)
    <2>1. vfs' = Files!Delete(vfs, p)
      BY <1>3 DEF Publish
    <2> QED
      BY <1>1, <2>1, DeleteKeeps DEF Kept
  <1> QED
    BY <1>2, <1>3

-----------------------------------------------------------------------------
(* The invariant holds. *)

LEMMA InvInit ==
  ASSUME Init
  PROVE  Inv
  <1>1. PICK h \in Paths : HiddenBy(settings, h) /\ disk = [NoFiles EXCEPT ![h] = {Secret}]
    BY DEF Init
  <1>2. GoodDisk(disk)
    <2>1. {Secret} \in Bytes
      BY DEF Bytes
    <2>2. /\ disk \in [Paths -> Bytes \cup {None}]
          /\ \A p \in Paths : p # h => disk[p] = None
      BY <1>1, <2>1 DEF NoFiles
    <2> QED
      BY <1>1, <2>2 DEF GoodDisk
  <1>3. GoodMap(vfs)
    <2>1. vfs.entries = NoFiles /\ vfs = [entries |-> NoFiles, names |-> {}]
      BY DEF Init
    <2>2. Index(NoFiles) = {}
      BY DEF Index, Borne, NoFiles
    <2> QED
      BY <2>1, <2>2 DEF GoodMap, GoodEntry, Indexing, NoFiles
  <1>4. Told
    <2>1. misled = Misled /\ Misled \in BOOLEAN
      BY DEF Init, Misled
    <2> QED
      BY <2>1 DEF Told
  <1> QED
    BY <1>2, <1>3, <1>4, ValuesAssumption DEF Init, Inv, GoodCopy

LEMMA NextTells ==
  ASSUME Inv, [Next]_vars
  PROVE  Told' /\ (misled => misled')
  <1>1. Noted => Told' /\ (misled => misled')
    <2>1. Misled' \in BOOLEAN
      BY DEF Misled
    <2> QED
      BY <2>1 DEF Noted, Told
  <1>2. CASE Next
    <2>1. \A p \in Paths, flag \in {"w", "a"}, w \in Written : WriteFile(p, flag, {w}) => Noted
      BY DEF WriteFile
    <2>2. \A p \in Paths : Unlink(p) \/ Publish(p) => Noted
      BY DEF Unlink, Publish
    <2>3. \A p : Rm(p) => Noted
      BY DEF Rm
    <2>4. \A p, q : Rename(p, q) => Noted
      BY DEF Rename
    <2>5. \A p, q \in Paths : Link(p, q) => Noted
      BY DEF Link
    <2>6. \A p, q \in Paths, e \in Existing : CopyFile(p, q, e) => Noted
      BY DEF CopyFile
    <2>7. ReadInput \/ WriteInput => Noted
      BY DEF ReadInput, WriteInput
    <2> QED
      BY <1>1, <1>2, <2>1, <2>2, <2>3, <2>4, <2>5, <2>6, <2>7 DEF Next
  <1>3. CASE UNCHANGED vars
    <2>1. settings' = settings /\ disk' = disk /\ vfs' = vfs /\ misled' = misled
      BY <1>3 DEF vars
    <2>2. Misled' <=> Misled
      BY <2>1 DEF Misled, OnDisk, HiddenBy, IsDirectory, IsMount, Owned, Among
    <2> QED
      BY <2>1, <2>2 DEF Inv, Told
  <1> QED
    BY <1>2, <1>3

LEMMA InvNext ==
  ASSUME Inv, [Next]_vars
  PROVE  Inv'
  <1>1. Kept => Inv'
    <2>1. SUFFICES ASSUME Kept PROVE Inv'
      OBVIOUS
    <2>2. settings' \in Settings
      BY <2>1 DEF Inv, Kept
    <2>3. Told' /\ (misled => misled')
      BY NextTells
    <2>4. GoodMap(vfs)' /\ GoodDisk(disk)' /\ GoodCopy(copy)'
      BY <2>1, <2>3, SettingsStay DEF Kept
    <2> QED
      BY <2>1, <2>2, <2>3, <2>4 DEF Inv, Kept
  <1>2. CASE \E p \in Paths, flag \in {"w", "a"}, w \in Written : WriteFile(p, flag, {w})
    BY <1>1, <1>2, WriteFileKeeps
  <1>3. CASE \E p \in Paths : Unlink(p) \/ Publish(p)
    BY <1>1, <1>3, UnlinkKeeps, PublishKeeps
  <1>4. CASE \E p \in Folders : Rm(p)
    BY <1>1, <1>4, RmKeeps
  <1>5. CASE \E p \in Paths \cup Folders : There(p) /\ \E q \in Paths \cup Folders : Rename(p, q)
    BY <1>1, <1>5, RenameKeeps DEF All
  <1>6. CASE \E p, q \in Paths : Link(p, q) \/ \E e \in Existing : CopyFile(p, q, e)
    BY <1>1, <1>6, LinkKeeps, CopyFileKeeps
  <1>7. CASE ReadInput \/ WriteInput
    BY <1>1, <1>7, ReadInputKeeps, WriteInputKeeps
  <1>8. CASE UNCHANGED vars
    <2>1. Kept
      BY <1>8 DEF vars, Inv, Kept
    <2> QED
      BY <1>1, <2>1
  <1> QED
    BY <1>2, <1>3, <1>4, <1>5, <1>6, <1>7, <1>8 DEF Next

\* The invariant, in every state of every behaviour: the index of place.js is what the
\* entries alone determine, what a place holds is what the router lets it hold, and what
\* is hidden lies, on the disk and half-way through a copy, only where it is hidden.
THEOREM TerritoryInductive == Spec => []Inv
  <1>1. Init => Inv
    BY InvInit
  <1>2. Inv /\ [Next]_vars => Inv'
    BY InvNext
  <1> QED
    BY <1>1, <1>2, PTL DEF Spec

\* Types: files are bytes, entries have their flags, and the index of place.js lists
\* nothing but paths and the directories above them.
THEOREM TerritoryTypes == Spec => []TypeOK
  <1>1. ASSUME Inv PROVE TypeOK
    <2>1. /\ settings \in Settings /\ made \in 0..MaxMade
          /\ vfs.entries \in [Paths -> Entries \cup {None}]
          /\ disk \in [Paths -> Bytes \cup {None}] /\ copy \in Copies \cup {None}
          /\ misled \in BOOLEAN
      BY <1>1 DEF Inv, GoodMap, GoodDisk, GoodCopy, Told
    <2>2. ASSUME NEW x \in vfs.names PROVE x \in Paths \cup Folders
      <3> PICK e : e = vfs.entries
        OBVIOUS
      <3>1. x \in Index(e)
        BY <1>1, <2>2 DEF Inv, GoodMap, Indexing
      <3>2. PICK p \in Paths : vfs.entries[p] # None /\ IsPrefix(x, p)
        BY <2>1, <3>1 DEF Index, Borne
      <3>3. IsPrefix(AppRoot, p)
        BY <1>1, <3>2, HeldFacts DEF Inv
      <3>4. /\ x \in Seq(Names) /\ Len(x) \in Nat /\ Len(x) > Top
            /\ p \in Seq(Names) /\ Len(p) \in Nat /\ Len(x) <= Len(p)
        BY <3>1, <3>2, PathFacts, PrefixOrder DEF Index
      <3>5. Len(x) \in 0..Len(p) /\ Len(x) \in (Len(AppRoot) + 1)..Len(p)
        BY <3>4, PathFacts
      <3>6. x = SubSeq(p, 1, Len(x))
        BY <3>2, <3>4, <3>5, PrefixOfLength
      <3> QED
        BY <3>3, <3>5, <3>6, PathsAssumption
    <2> QED
      BY <2>1, <2>2 DEF TypeOK
  <1> QED
    BY <1>1, TerritoryInductive, PTL

\* What the application gets is the file on the disk or the entry.
LEMMA ReadableFrom ==
  ASSUME NEW p
  PROVE  \A c \in Readable(p) : c \in FromDisk(p) \/ (EntryAt(p) # None /\ c \in FromEntry(p))
  <1>1. Read(p) = "file" => EntryAt(p) # None
    BY DEF Read, Miss, ByMode, VisibleEntry
  <1>2. \A c \in ReadFile(p) : c \in FromDisk(p) \/ (EntryAt(p) # None /\ c \in FromEntry(p))
    BY <1>1 DEF ReadFile
  <1>3. \A c \in PlaceReadFile(p) :
          c \in FromDisk(p) \/ (EntryAt(p) # None /\ c \in FromEntry(p))
    BY DEF PlaceReadFile, VisibleEntry
  <1>4. ASSUME NEW d \in {"require", "import"}
        PROVE  \A c \in LoadModule(p, d) :
                 c \in FromDisk(p) \/ (EntryAt(p) # None /\ c \in FromEntry(p))
    <2>1. Module(p, d) = "file" => EntryAt(p) # None
      BY DEF Module
    <2> QED
      BY <2>1 DEF LoadModule
  <1> QED
    BY <1>2, <1>3, <1>4 DEF Readable

\* Nothing reads a path no policy serves.
LEMMA HiddenIsUnreadable ==
  ASSUME settings \in Settings, GoodMap(vfs), NEW p \in Paths, HiddenBy(settings, p)
  PROVE  Readable(p) = {}
  <1>1. p \in All /\ Read(p) \in {"deny", "dir"} /\ EntryAt(p) = None
    BY HiddenIsDenied DEF All
  <1>2. ReadFile(p) = {}
    BY <1>1 DEF ReadFile
  <1>3. IsPrefix(AppRoot, p) /\ p # AppRoot /\ ~Outside(p) /\ Len(p) >= Top
    BY HiddenIsInside
  <1>4. CASE p[Top] \notin DOMAIN settings.places
    <2>1. ~Owned(p) /\ ~InIndexed(p)
      BY <1>1, <1>4, Routes DEF InIndexed
    <2>2. settings.strict
      BY <1>3, <1>4 DEF HiddenBy, Top
    <2>3. \A d \in {"require", "import"} : LoadModule(p, d) = {}
      <3>1. \A d \in {"require", "import"} : Module(p, d) = "deny"
        BY <1>3, <2>1, <2>2 DEF Module
      <3> QED
        BY <3>1 DEF LoadModule
    <2>4. PlaceReadFile(p) = {}
      BY <2>1 DEF PlaceReadFile
    <2> QED
      BY <1>2, <2>3, <2>4 DEF Readable
  <1>5. CASE p[Top] \in DOMAIN settings.places
    <2> DEFINE place == settings.places[p[Top]]
    <2>1. Owned(p) /\ Place(p) = place /\ GoodPlace(place)
      BY <1>1, <1>3, <1>5, Routes, PlacesAreGood
    <2> HIDE DEF place
    <2>2. IF place.fs THEN place.fallback = "deny" ELSE place.provider \in Config!Indexed
      BY <1>3, <1>5 DEF HiddenBy, Top, place
    <2>3. place.provider \in Config!Indexed
      BY <2>1, <2>2, NoneAssumption
         DEF GoodPlace, DiskOrigin, Config!Origined, Config!Indexed
    <2>4. PlaceReadFile(p) = {}
      BY <1>1, <2>1, <2>2 DEF PlaceReadFile, VisibleEntry, DiskFile, FallsBack
    <2>5. ASSUME settings.strict
          PROVE  \A d \in {"require", "import"} : LoadModule(p, d) = {}
      <3>1. \A d \in {"require", "import"} : Module(p, d) = "deny"
        BY <1>1, <1>3, <2>1, <2>3, <2>5 DEF Module, Config!Indexed
      <3> QED
        BY <3>1 DEF LoadModule
    <2> QED
      BY <1>2, <2>4, <2>5 DEF Readable
  <1> QED
    BY <1>4, <1>5

\* What a hidden file holds never becomes readable: copies, links, renames of it or of
\* directories above it, writes and publications give it no name that serves it
\* (registry.js, fs-patch.js), as long as no hidden file has lain where the index of its
\* place lists a directory.
THEOREM HiddenUnlessMisledAlways == Spec => []HiddenUnlessMisled
  <1>1. ASSUME Inv, ~misled, NEW p \in Paths, NEW c \in Readable(p) PROVE Secret \notin c.bytes
    <2>1. ~HiddenBy(settings, p)
      BY <1>1, HiddenIsUnreadable DEF Inv
    <2>2. ASSUME c \in FromDisk(p) PROVE Secret \notin c.bytes
      BY <1>1, <2>1, <2>2 DEF Inv, GoodDisk, FromDisk, OnDisk, Raw
    <2>3. ASSUME EntryAt(p) # None, c \in FromEntry(p) PROVE Secret \notin c.bytes
      <3>1. Secret \notin EntryAt(p).bytes
        BY <1>1, <2>3, HeldFacts DEF Inv, EntryAt
      <3>2. CASE EntryAt(p).inMemory
        BY <2>3, <3>1, <3>2 DEF FromEntry
      <3>3. CASE ~EntryAt(p).inMemory
        BY <2>2, <2>3, <3>3 DEF FromEntry
      <3> QED
        BY <3>2, <3>3
    <2> QED
      BY <1>1, <2>2, <2>3, ReadableFrom
  <1>2. Inv => HiddenUnlessMisled
    BY <1>1 DEF HiddenUnlessMisled, HiddenStaysHidden
  <1> QED
    BY <1>2, TerritoryInductive, PTL

\* Under strict, where a preparer is due nobody gets the raw file in the place of what it
\* made.
THEOREM RawNeverStandsInAlways == Spec => []RawNeverStandsIn
  <1>1. ASSUME Inv, settings.strict, NEW p \in Paths, InIndexed(p), PreparedAt(p),
               NEW c \in Readable(p)
        PROVE  c.prepared
    <2>1. p \in All /\ p \in Seq(Names) /\ settings \in Settings /\ GoodMap(vfs)
      BY <1>1, PathFacts DEF Inv, All
    <2>2. Owned(p)
      BY <1>1 DEF InIndexed
    <2>3. /\ p[Top] \in DOMAIN settings.places /\ Place(p) = settings.places[p[Top]]
          /\ IsPrefix(AppRoot, p) /\ Len(p) >= Top
      BY <2>1, <2>2, Routes
    <2>4. Cached(p)
      BY <1>1, <2>1, <2>3, PlacesAreGood DEF GoodPlace, PreparedAt, Cached, Among
    <2>5. p # AppRoot /\ ~Outside(p)
      BY <2>1, <2>3, PathFacts DEF Outside, Outer
    <2>6. EntryAt(p) # None => EntryAt(p).prepared /\ EntryAt(p).inMemory
      BY <1>1, <2>1, HeldFacts DEF EntryAt
    <2>7. EntryAt(p) # None => \A x \in FromEntry(p) : x.prepared
      BY <2>6 DEF FromEntry
    <2>8. \A x \in ReadFile(p) : x.prepared
      <3>1. Miss(p) = "deny"
        BY <1>1, <2>4 DEF Miss, ByMode
      <3>2. Read(p) \in {"deny", "dir", "file"} /\ (Read(p) = "file" => EntryAt(p) # None)
        <4>1. CASE ~Place(p).fs
          BY <1>1, <2>2, <2>5, <4>1 DEF Read, ByMode, VisibleEntry
        <4>2. CASE Place(p).fs /\ VisibleEntry(p)
          BY <1>1, <2>2, <2>5, <2>6, <4>2 DEF Read, VisibleEntry
        <4>3. CASE Place(p).fs /\ ~VisibleEntry(p)
          BY <1>1, <2>2, <2>5, <3>1, <4>3 DEF Read
        <4> QED
          BY <4>1, <4>2, <4>3
      <3> QED
        BY <2>7, <3>2 DEF ReadFile
    <2>9. \A x \in PlaceReadFile(p) : x.prepared
      BY <1>1, <2>4, <2>7 DEF PlaceReadFile, VisibleEntry, DiskFile
    <2>10. ASSUME NEW d \in {"require", "import"} PROVE \A x \in LoadModule(p, d) : x.prepared
      <3>1. /\ Module(p, d) \in {"deny", "file"}
            /\ Module(p, d) = "file" => EntryAt(p) # None
        BY <1>1, <2>2, <2>5 DEF Module, InIndexed, Config!Indexed
      <3> QED
        BY <2>7, <3>1 DEF LoadModule
    <2> QED
      BY <1>1, <2>8, <2>9, <2>10 DEF Readable
  <1>2. Inv => RawNeverStandsIn
    BY <1>1 DEF RawNeverStandsIn
  <1> QED
    BY <1>2, TerritoryInductive, PTL

\* A directory of a place lists and finds what the place holds, no more and no less.
THEOREM ListedIsHeldAlways == Spec => []ListedIsHeld
  <1>1. ASSUME Inv, NEW dir \in Folders, InIndexed(dir)
        PROVE  /\ PlaceReaddir(dir) = {p \in Inside[dir] : Holds(p)}
               /\ PlaceExists(dir) <=> IsMount(dir) \/ Holds(dir)
    <2> PICK e : e = vfs.entries
      OBVIOUS
    <2>1. e \in [Paths -> Entries \cup {None}] /\ vfs.names = Index(e) /\ GoodMap(vfs)
      BY <1>1 DEF Inv, GoodMap, Indexing
    <2>2. /\ dir \in All /\ dir \in Seq(Names) /\ Len(dir) \in Nat /\ Len(dir) >= Top
          /\ Owned(dir)
      BY <1>1, Routes DEF All, InIndexed
    <2>3. ASSUME NEW p \in All, Len(p) >= Top
          PROVE  Files!HasDirectory(vfs.names, p) <=> \E q \in Under[p] : EntryAt(q) # None
      <3>1. p \in Seq(Names)
        BY PathFacts DEF All
      <3>2. \A q \in Paths : q \in Under[p] <=> IsPrefix(p, q) /\ Len(p) < Len(q)
        BY <3>1, PathFacts, PrefixOrder DEF Under
      <3>3. Under[p] \subseteq Paths
        BY DEF Under
      <3>4. Files!HasDirectory(Index(e), p)
              <=> \E q \in Paths : e[q] # None /\ IsPrefix(p, q) /\ Len(p) < Len(q)
        BY <2>1, <2>3, <3>1, DirectoryIsBorne
      <3> QED
        BY <2>1, <3>2, <3>3, <3>4 DEF EntryAt
    <2>4. ASSUME NEW p \in Inside[dir]
          PROVE  /\ p \in All /\ p \in Seq(Names) /\ Len(p) = Len(dir) + 1 /\ Len(p) >= Top
                 /\ IsPrefix(dir, p) /\ Place(p) = Place(dir) /\ Front(p) = dir
      <3>1. p \in All /\ Len(p) = Len(dir) + 1 /\ IsPrefix(dir, p)
        BY <2>2, <2>4 DEF Inside
      <3>2. p \in Seq(Names)
        BY <3>1, PathFacts DEF All
      <3>3. Place(p) = Place(dir)
        BY <2>2, <3>1, PlaceBelow
      <3>4. Front(p) = dir
        BY <2>2, <3>1, <3>2, FrontIsPrefix
      <3> QED
        BY <2>2, <3>1, <3>2, <3>3, <3>4, PathFacts
    <2>5. ASSUME NEW p \in Files!Children(vfs, dir)
          PROVE  p \in Inside[dir]
      <3>1. p \in Index(e) /\ Front(p) = dir
        BY <2>1, <2>5 DEF Files!Children, Files!Front, Front
      <3>2. /\ p \in Seq(Names) /\ Len(p) > Top /\ Len(p) \in Nat
            /\ \E q \in Paths : e[q] # None /\ IsPrefix(p, q)
        BY <2>1, <3>1 DEF Index, Borne
      <3>3. IsPrefix(dir, p) /\ Len(p) = Len(dir) + 1
        BY <2>2, <3>1, <3>2, PathFacts, FrontIsPrefix
      <3>4. p \in All
        <4>1. PICK q \in Paths : e[q] # None /\ IsPrefix(p, q)
          BY <3>2
        <4>2. IsPrefix(AppRoot, q)
          BY <2>1, <4>1, HeldFacts
        <4>3. q \in Seq(Names) /\ Len(q) \in Nat /\ Len(p) <= Len(q)
          BY <3>2, <4>1, PathFacts, PrefixOrder
        <4>4. Len(p) \in 0..Len(q) /\ Len(p) \in (Len(AppRoot) + 1)..Len(q)
          BY <3>2, <4>3, PathFacts
        <4>5. p = SubSeq(q, 1, Len(p))
          BY <3>2, <4>1, <4>3, <4>4, PrefixOfLength
        <4> QED
          BY <4>2, <4>4, <4>5, PathsAssumption DEF All
      <3> QED
        BY <2>2, <3>3, <3>4 DEF Inside
    <2>6. ASSUME NEW p \in Inside[dir],
                 Files!HasDirectory(vfs.names, p) \/ EntryAt(p) # None
          PROVE  p \in Files!Children(vfs, dir)
      <3>1. PICK q \in Paths : e[q] # None /\ IsPrefix(p, q)
        <4>1. CASE EntryAt(p) # None
          <5>1. p \in Paths /\ e[p] # None /\ p \in Seq(Names)
            BY <2>4, <4>1 DEF EntryAt
          <5> QED
            BY <5>1, PrefixOrder
        <4>2. CASE Files!HasDirectory(vfs.names, p)
          BY <2>1, <2>4, <4>2, DirectoryIsBorne
        <4> QED
          BY <2>6, <4>1, <4>2
      <3>2. Len(p) > Top
        BY <2>2, <2>4, PathFacts
      <3>3. p \in Index(e)
        BY <2>1, <2>4, <3>1, <3>2 DEF Index, Borne
      <3> QED
        BY <2>1, <2>4, <3>3 DEF Files!Children, Files!Front, Front
    <2>7. \A p \in Inside[dir] : FallsBack(p) <=> FallsBack(dir)
      BY <2>4 DEF FallsBack
    <2>8. ASSUME NEW p \in Inside[dir] PROVE p \in PlaceReaddir(dir) <=> Holds(p)
      <3>1. Files!HasDirectory(vfs.names, p) <=> \E q \in Under[p] : EntryAt(q) # None
        BY <2>3, <2>4
      <3>2. p \in PlaceReaddir(dir) <=>
              \/ FallsBack(p) /\ (DiskFolder(p) \/ (OnDisk(p) /\ ~Cached(p)))
              \/ /\ p \in Files!Children(vfs, dir)
                 /\ Files!HasDirectory(vfs.names, p) \/ (EntryAt(p) # None /\ VisibleEntry(p))
        BY <2>7 DEF PlaceReaddir
      <3>3. VisibleEntry(p) => EntryAt(p) # None
        BY DEF VisibleEntry
      <3> QED
        BY <2>6, <3>1, <3>2, <3>3 DEF Holds, DiskFile
    <2>9. PlaceReaddir(dir) \subseteq Inside[dir]
      BY <2>5 DEF PlaceReaddir
    <2>10. PlaceReaddir(dir) = {p \in Inside[dir] : Holds(p)}
      BY <2>8, <2>9
    <2>11. PlaceExists(dir) <=> IsMount(dir) \/ Holds(dir)
      <3>1. Files!HasDirectory(vfs.names, dir) <=> \E q \in Under[dir] : EntryAt(q) # None
        BY <2>2, <2>3
      <3> QED
        BY <3>1 DEF PlaceExists, Holds, IsDirectory
    <2> QED
      BY <2>10, <2>11
  <1>2. Inv => ListedIsHeld
    BY <1>1 DEF ListedIsHeld
  <1> QED
    BY <1>2, TerritoryInductive, PTL
=============================================================================
