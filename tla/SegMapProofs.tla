---------------------------- MODULE SegMapProofs ----------------------------
(***************************************************************************)
(* The segment map behaves like the set of the segments received, proved   *)
(* for every size of a word and every number of words, 32 and 75 among     *)
(* them. FtpClient treats the map as that set.                             *)
(*                                                                         *)
(* All of it rests on one fact of arithmetic, BitsAreApart: a segment's    *)
(* word and bit are its own. The list of missing segments needs that the   *)
(* ranks of a finite set of numbers are the positions of a list as well    *)
(* (RanksAreAll).                                                          *)
(***************************************************************************)
EXTENDS SegMap, FiniteSetTheorems, TLAPS

\* Quotient and remainder, as the provers know them.
LEMMA DivMod ==
    ASSUME NEW n \in Nat, NEW k \in Nat \ {0}
    PROVE  /\ n \div k \in Nat
           /\ n % k \in 0 .. k - 1
           /\ n = (n \div k) * k + (n % k)
<1>1. n \div k \in Nat
  BY Z3
<1>2. n % k \in 0 .. k - 1
  BY Z3
<1>3. n = (n \div k) * k + (n % k)
  BY Z3
<1> QED
  BY <1>1, <1>2, <1>3

LEMMA DivModUnique ==
    ASSUME NEW k \in Nat \ {0}, NEW i \in Nat, NEW j \in 0 .. k - 1
    PROVE  /\ i * k + j \in Nat
           /\ (i * k + j) \div k = i
           /\ (i * k + j) % k = j
<1>1. i * k + j \in Nat
  BY Z3
<1>2. (i * k + j) \div k = i
  BY Z3
<1>3. (i * k + j) % k = j
  BY Z3
<1> QED
  BY <1>1, <1>2, <1>3

\* The segment a word's bit stands for, and its number of words and bits.
Number(i, j) == i * WordBits + j

LEMMA Sizes ==
    /\ WordBits \in Nat \ {0}
    /\ NumWords \in Nat \ {0}
    /\ MaxSegments \in Nat
  BY WordsAssumption DEF MaxSegments

LEMMA SegmentHasBit ==
    ASSUME NEW n \in Nat
    PROVE  Base(n) \in Nat /\ BitOf(n) \in Bits /\ n = Number(Base(n), BitOf(n))
  BY Sizes, DivMod DEF Base, BitOf, Bits, Number

LEMMA BitHasSegment ==
    ASSUME NEW i \in Nat, NEW j \in Bits
    PROVE  Number(i, j) \in Nat /\ Base(Number(i, j)) = i /\ BitOf(Number(i, j)) = j
  BY Sizes, DivModUnique DEF Base, BitOf, Bits, Number

\* No two segments share a bit.
LEMMA BitsAreApart ==
    ASSUME NEW m \in Nat, NEW n \in Nat, Base(m) = Base(n), BitOf(m) = BitOf(n)
    PROVE  m = n
  BY SegmentHasBit

\* The numbers are in the order of their words, and in a word of their bits.
LEMMA NumbersInOrder ==
    ASSUME NEW i \in Nat, NEW j \in Bits, NEW n \in Nat
    PROVE  Number(i, j) < n <=> i < Base(n) \/ (i = Base(n) /\ j < BitOf(n))
<1> DEFINE b == Base(n)
           r == BitOf(n)
<1>1. b \in Nat /\ r \in 0 .. WordBits - 1 /\ n = b * WordBits + r
  BY SegmentHasBit DEF Number, Bits
<1>2. j \in 0 .. WordBits - 1 /\ WordBits \in Nat \ {0}
  BY Sizes DEF Bits
<1> HIDE DEF b, r
<1>3. CASE i < b
  <2>1. (i + 1) * WordBits <= b * WordBits /\ (i + 1) * WordBits = i * WordBits + WordBits
    BY <1>1, <1>2, <1>3, Z3
  <2> QED
    BY <1>1, <1>2, <1>3, <2>1 DEF Number, b
<1>4. CASE i = b
  BY <1>1, <1>2, <1>4 DEF Number, b, r
<1>5. CASE i > b
  <2>1. (b + 1) * WordBits <= i * WordBits /\ (b + 1) * WordBits = b * WordBits + WordBits
    BY <1>1, <1>2, <1>5, Z3
  <2> QED
    BY <1>1, <1>2, <1>5, <2>1 DEF Number, b
<1> QED
  BY <1>1, <1>3, <1>4, <1>5

\* The array has a word for every number below MaxSegments, and MaxSegments
\* itself falls into the word after it.
LEMMA WordOf ==
    ASSUME NEW n \in 0 .. MaxSegments
    PROVE  Base(n) \in 0 .. NumWords /\ (n < MaxSegments => Base(n) < NumWords)
<1>1. /\ Base(n) \in Nat /\ n = Base(n) * WordBits + BitOf(n)
      /\ BitOf(n) \in 0 .. WordBits - 1
  BY SegmentHasBit, Sizes DEF Number, Bits
<1>2. CASE Base(n) > NumWords
  BY <1>1, <1>2, Sizes, Z3 DEF MaxSegments
<1>3. CASE Base(n) = NumWords
  BY <1>1, <1>3, Sizes, Z3 DEF MaxSegments
<1> QED
  BY <1>1, <1>2, <1>3, Sizes

-----------------------------------------------------------------------------
(* The map *)

SegInv == TypeOK /\ MapIsReceived

LEMMA TypeInit == Init => TypeOK
  BY Sizes, WordsAssumption DEF Init, TypeOK, Cleared, Bits

LEMMA TypeStep == TypeOK /\ [Next]_vars => TypeOK'
<1> SUFFICES ASSUME TypeOK, [Next]_vars PROVE TypeOK'
  OBVIOUS
<1> USE DEF TypeOK
<1>1. ASSUME NEW n \in 0 .. MaxSegments, NewFile(n)
      PROVE  TypeOK'
  BY <1>1, WordsAssumption DEF NewFile, Cleared, Bits
<1>2. CASE Restart
  BY <1>2, Sizes DEF Restart
<1>3. ASSUME NEW n \in 0 .. MaxSegments, Segment(n)
      PROVE  TypeOK'
  <2>1. BitOf(n) \in Bits /\ Base(n) \in 0 .. NumWords
    BY SegmentHasBit, WordOf, Sizes
  <2>2. Track(words, n) \in [0 .. NumWords -> SUBSET Bits]
    BY <2>1 DEF Track
  <2> QED
    BY <1>3, <2>2 DEF Segment
<1>4. CASE UNCHANGED vars
  BY <1>4 DEF vars
<1> QED
  BY <1>1, <1>2, <1>3, <1>4 DEF Next

\* TypeOK: a bit set in a word, the field after the array included, is one of
\* the word's bits; the number of segments and those received are what the map
\* has room for.
THEOREM TypeCorrect == Spec => []TypeOK
  BY TypeInit, TypeStep, PTL DEF Spec

\* Cleared words stand for the empty set.
LEMMA ClearedIsEmpty ==
    ASSUME NEW w, \A i \in 0 .. NumWords - 1 : w[i] = {}
    PROVE  \A n \in 0 .. MaxSegments - 1 : BitOf(n) \notin w[Base(n)]
<1> SUFFICES ASSUME NEW n \in 0 .. MaxSegments - 1 PROVE w[Base(n)] = {}
  OBVIOUS
<1>1. Base(n) \in 0 .. NumWords - 1
  BY WordOf, Sizes
<1> QED
  BY <1>1

LEMMA MapStep == TypeOK /\ MapIsReceived /\ [Next]_vars => MapIsReceived'
<1> SUFFICES ASSUME TypeOK, MapIsReceived, [Next]_vars PROVE MapIsReceived'
  OBVIOUS
<1> USE DEF MapIsReceived
<1>1. ASSUME NEW n \in 0 .. MaxSegments, NewFile(n)
      PROVE  MapIsReceived'
  <2>1. \A i \in 0 .. NumWords - 1 : words'[i] = {}
    BY <1>1, Sizes DEF NewFile, Cleared
  <2> QED
    BY <1>1, <2>1, ClearedIsEmpty DEF NewFile
<1>2. CASE Restart
  <2>1. \A i \in 0 .. NumWords - 1 : words'[i] = {}
    BY <1>2, Sizes DEF Restart
  <2> QED
    BY <1>2, <2>1, ClearedIsEmpty DEF Restart
<1>3. ASSUME NEW n \in 0 .. MaxSegments, Segment(n)
      PROVE  MapIsReceived'
  <2> SUFFICES ASSUME NEW m \in 0 .. MaxSegments - 1
               PROVE  BitOf(m) \in words'[Base(m)] <=> m \in received'
    OBVIOUS
  <2>1. Base(m) \in 0 .. NumWords /\ Base(n) \in 0 .. NumWords
    BY WordOf, Sizes
  <2>2. words' = [words EXCEPT ![Base(n)] = @ \cup {BitOf(n)}]
    BY <1>3, Sizes DEF Segment, Track, TrackGuard
  <2>3. CASE Base(m) = Base(n)
    <3>1. BitOf(m) = BitOf(n) <=> m = n
      BY <2>3, BitsAreApart, Sizes
    <3> QED
      BY <1>3, <2>1, <2>2, <2>3, <3>1 DEF Segment, TypeOK
  <2>4. CASE Base(m) # Base(n)
    BY <1>3, <2>1, <2>2, <2>4 DEF Segment, TypeOK
  <2> QED
    BY <2>3, <2>4
<1>4. CASE UNCHANGED vars
  BY <1>4 DEF vars
<1> QED
  BY <1>1, <1>2, <1>3, <1>4 DEF Next

\* The bit of a segment is set exactly if the segment was tracked, whatever the
\* order the segments come in.
THEOREM MapIsTheSet == Spec => []MapIsReceived
<1>1. Init => MapIsReceived
  <2> SUFFICES ASSUME Init PROVE MapIsReceived
    OBVIOUS
  <2>1. \A i \in 0 .. NumWords - 1 : words[i] = {}
    BY Sizes DEF Init, Cleared
  <2> QED
    BY <2>1, ClearedIsEmpty DEF Init, MapIsReceived
<1> QED
  BY <1>1, MapStep, TypeCorrect, PTL DEF Spec

-----------------------------------------------------------------------------
(* What the loops over the words find *)

\* The bits the loops look at are those of the file's segments.
LEMMA LoopBits ==
    ASSUME NEW n \in 0 .. MaxSegments, NEW i, NEW j
    PROVE  i \in 0 .. Base(n) /\ j \in BitsOfWord(n, i)
           <=> i \in Nat /\ j \in Bits /\ Number(i, j) \in 0 .. n - 1
<1>1. n \in Nat /\ Base(n) \in Nat /\ BitOf(n) \in Bits
  BY SegmentHasBit, Sizes
<1>2. ASSUME i \in 0 .. Base(n), j \in BitsOfWord(n, i)
      PROVE  i \in Nat /\ j \in Bits /\ Number(i, j) \in 0 .. n - 1
  <2>1. i \in Nat /\ j \in Bits
    BY <1>1, <1>2 DEF BitsOfWord
  <2>2. i < Base(n) \/ (i = Base(n) /\ j < BitOf(n))
    BY <1>1, <1>2 DEF BitsOfWord
  <2> QED
    BY <1>1, <2>1, <2>2, NumbersInOrder, BitHasSegment
<1>3. ASSUME i \in Nat, j \in Bits, Number(i, j) \in 0 .. n - 1
      PROVE  i \in 0 .. Base(n) /\ j \in BitsOfWord(n, i)
  <2>1. i < Base(n) \/ (i = Base(n) /\ j < BitOf(n))
    BY <1>1, <1>3, NumbersInOrder
  <2> QED
    BY <1>1, <1>3, <2>1 DEF BitsOfWord
<1> QED
  BY <1>2, <1>3

LEMMA ZeroBitsMember ==
    ASSUME NEW w, NEW n, NEW m
    PROVE  m \in ZeroBits(w, n)
           <=> \E i \in 0 .. Base(n) : \E j \in BitsOfWord(n, i) \ w[i] : m = Number(i, j)
<1> DEFINE zeros(i) == {i * WordBits + j : j \in BitsOfWord(n, i) \ w[i]}
<1>1. \A i : m \in zeros(i) <=> \E j \in BitsOfWord(n, i) \ w[i] : m = Number(i, j)
  BY DEF Number
<1>2. ZeroBits(w, n) = UNION {zeros(i) : i \in 0 .. Base(n)}
  BY DEF ZeroBits
<1>3. m \in ZeroBits(w, n) <=> \E i \in 0 .. Base(n) : m \in zeros(i)
  <2> HIDE DEF zeros
  <2> QED
    BY <1>2
<1> QED
  BY <1>1, <1>3

LEMMA ZeroBitsAreMissing ==
    ASSUME TypeOK, MapIsReceived
    PROVE  ZeroBits(words, num_segs) = StillMissing
<1> USE DEF StillMissing, FileSegs
<1>1. ASSUME NEW m \in ZeroBits(words, num_segs)
      PROVE  m \in StillMissing
  <2>1. PICK i \in 0 .. Base(num_segs) : \E j \in BitsOfWord(num_segs, i) \ words[i] :
               m = Number(i, j)
    BY <1>1, ZeroBitsMember
  <2>2. PICK j \in BitsOfWord(num_segs, i) \ words[i] : m = Number(i, j)
    BY <2>1
  <2>3. i \in Nat /\ j \in Bits /\ m \in 0 .. num_segs - 1
    BY <2>2, LoopBits DEF TypeOK
  <2>4. Base(m) = i /\ BitOf(m) = j
    BY <2>2, <2>3, BitHasSegment
  <2>5. m \notin received
    BY <2>2, <2>3, <2>4, Sizes DEF MapIsReceived, TypeOK
  <2> QED
    BY <2>3, <2>5
<1>2. ASSUME NEW m \in StillMissing
      PROVE  m \in ZeroBits(words, num_segs)
  <2>1. m \in Nat /\ m \in 0 .. num_segs - 1 /\ m \in 0 .. MaxSegments - 1
    BY <1>2, Sizes DEF TypeOK
  <2>2. /\ Base(m) \in Nat /\ BitOf(m) \in Bits
        /\ m = Number(Base(m), BitOf(m))
    BY <2>1, SegmentHasBit
  <2>3. Base(m) \in 0 .. Base(num_segs) /\ BitOf(m) \in BitsOfWord(num_segs, Base(m))
    BY <2>1, <2>2, LoopBits DEF TypeOK
  <2>4. BitOf(m) \notin words[Base(m)]
    BY <1>2, <2>1 DEF MapIsReceived
  <2> QED
    BY <2>2, <2>3, <2>4, ZeroBitsMember
<1> QED
  BY <1>1, <1>2

\* The word-wise test for completeness is exact, at every number of segments.
THEOREM CompletenessExact == Spec => []CompleteIsExact
<1>1. TypeOK /\ MapIsReceived => CompleteIsExact
  <2> SUFFICES ASSUME TypeOK, MapIsReceived PROVE CompleteIsExact
    OBVIOUS
  <2>1. TransferIsComplete(words, num_segs) <=> ZeroBits(words, num_segs) = {}
    <3>1. ASSUME NEW i \in 0 .. Base(num_segs), NEW j \in BitsOfWord(num_segs, i),
                 j \notin words[i]
          PROVE  Number(i, j) \in ZeroBits(words, num_segs)
      BY <3>1, ZeroBitsMember
    <3>2. ASSUME NEW m \in ZeroBits(words, num_segs)
          PROVE  ~ TransferIsComplete(words, num_segs)
      BY ZeroBitsMember DEF TransferIsComplete
    <3> QED
      BY <3>1, <3>2 DEF TransferIsComplete
  <2> QED
    BY <2>1, ZeroBitsAreMissing DEF CompleteIsExact, StillMissing
<1> QED
  BY <1>1, TypeCorrect, MapIsTheSet, PTL

\* The number of segments an application is told are missing is theirs.
THEOREM CountExact == Spec => []CountIsExact
<1>1. TypeOK /\ MapIsReceived => CountIsExact
  <2> SUFFICES ASSUME TypeOK, MapIsReceived PROVE CountIsExact
    OBVIOUS
  <2>1. ~ num_segs > MaxSegments
    BY Sizes DEF TypeOK
  <2> QED
    BY <2>1, ZeroBitsAreMissing DEF CountIsExact, NumMissingSegsGet
<1> QED
  BY <1>1, TypeCorrect, MapIsTheSet, PTL

-----------------------------------------------------------------------------
(* The list of a request *)

\* How many elements of S come before m in the list.
Before(S, m) == {l \in S : l < m}
Rank(S) == [m \in S |-> Cardinality(Before(S, m))]

\* The ranks of a finite set of numbers are 0, 1, ..., each taken once.
LEMMA RanksAreAll ==
    ASSUME NEW S, S \subseteq Nat, IsFiniteSet(S)
    PROVE  /\ Cardinality(S) \in Nat
           /\ \A k \in 1 .. Cardinality(S) : \E m \in S : Rank(S)[m] = k - 1
           /\ \A m \in S : Rank(S)[m] \in 0 .. Cardinality(S) - 1
           /\ \A l, m \in S : l < m => Rank(S)[l] < Rank(S)[m]
<1> DEFINE c == Cardinality(S)
           T == 0 .. c - 1
<1>1. c \in Nat
  BY FS_CardinalityType
<1>2. ASSUME NEW m \in S
      PROVE  /\ IsFiniteSet(Before(S, m)) /\ Cardinality(Before(S, m)) \in Nat
             /\ Cardinality(Before(S, m)) < c
  <2>1. Before(S, m) \in SUBSET S /\ m \notin Before(S, m)
    BY DEF Before
  <2>2. /\ IsFiniteSet(Before(S, m)) /\ Cardinality(Before(S, m)) <= c
        /\ c = Cardinality(Before(S, m)) => S = Before(S, m)
    BY <2>1, FS_Subset
  <2>3. Cardinality(Before(S, m)) \in Nat
    BY <2>2, FS_CardinalityType
  <2> QED
    BY <1>1, <2>1, <2>2, <2>3
<1>3. ASSUME NEW l \in S, NEW m \in S, l < m
      PROVE  Rank(S)[l] < Rank(S)[m]
  <2>1. Before(S, l) \in SUBSET Before(S, m)
    <3>1. ASSUME NEW x \in S, x < l
          PROVE  x < m
      <4>1. x \in Nat /\ l \in Nat /\ m \in Nat
        OBVIOUS
      <4> QED
        BY <1>3, <3>1, <4>1
    <3> QED
      BY <3>1 DEF Before
  <2>2. l \in Before(S, m) /\ l \notin Before(S, l)
    BY <1>3 DEF Before
  <2>3. /\ Cardinality(Before(S, l)) <= Cardinality(Before(S, m))
        /\ Cardinality(Before(S, m)) = Cardinality(Before(S, l))
           => Before(S, m) = Before(S, l)
    BY <1>2, <2>1, FS_Subset
  <2>4. Cardinality(Before(S, l)) < Cardinality(Before(S, m))
    BY <1>2, <2>2, <2>3
  <2> QED
    BY <2>4 DEF Rank
<1>4. \A m \in S : Rank(S)[m] \in T
  BY <1>1, <1>2 DEF Rank
<1>5. Rank(S) \in [S -> T]
  BY <1>4 DEF Rank
<1>6. Rank(S) \in Injection(S, T)
  <2>1. ASSUME NEW l \in S, NEW m \in S, Rank(S)[l] = Rank(S)[m]
        PROVE  l = m
    <3>1. ~ (l < m) /\ ~ (m < l)
      BY <1>1, <1>3, <1>4, <2>1
    <3> QED
      BY <3>1
  <2> QED
    BY <1>5, <2>1 DEF Injection, IsInjective
<1>7. IsFiniteSet(T) /\ Cardinality(T) = c
  <2>1. 0 \in Int /\ c - 1 \in Int
    BY <1>1
  <2>2. /\ IsFiniteSet(0 .. c - 1)
        /\ Cardinality(0 .. c - 1) = IF 0 > c - 1 THEN 0 ELSE (c - 1) - 0 + 1
    BY <2>1, FS_Interval
  <2> QED
    BY <1>1, <2>2
<1>8. Rank(S) \in Surjection(S, T)
  BY <1>6, <1>7, FS_Injection
<1>9. \A k \in T : \E m \in S : Rank(S)[m] = k
  BY <1>8 DEF Surjection
<1> QED
  BY <1>1, <1>3, <1>4, <1>9

\* The list has the elements of the set, each once and in order.
LEMMA AscendingIsExact ==
    ASSUME NEW S, S \subseteq Nat, IsFiniteSet(S)
    PROVE  LET a == Ascending(S) IN
           /\ Len(a) = Cardinality(S)
           /\ {a[k] : k \in DOMAIN a} = S
           /\ \A k \in 2 .. Len(a) : a[k - 1] < a[k]
<1> DEFINE a == Ascending(S)
           c == Cardinality(S)
<1> DEFINE R == Rank(S)
<1>0. /\ c \in Nat
      /\ \A k \in 1 .. c : \E m \in S : R[m] = k - 1
      /\ \A m \in S : R[m] \in 0 .. c - 1
      /\ \A l, m \in S : l < m => R[l] < R[m]
  BY RanksAreAll
<1>1. c \in Nat
  BY <1>0
<1>2. /\ DOMAIN a = 1 .. c /\ Len(a) = c
      /\ \A k \in 1 .. c :
            a[k] = CHOOSE m \in S : Cardinality({l \in S : l < m}) = k - 1
  <2> DEFINE At(k) == CHOOSE m \in S : Cardinality({l \in S : l < m}) = k - 1
  <2>1. a = [k \in 1 .. c |-> At(k)]
    BY ZenonT(30) DEF Ascending
  <2> HIDE DEF a, c, R, At
  <2>2. DOMAIN a = 1 .. c /\ Len(a) = c
    BY <1>1, <2>1
  <2>3. \A k \in 1 .. c : a[k] = At(k)
    BY <2>1
  <2>4. ASSUME NEW k \in 1 .. c
        PROVE  a[k] = CHOOSE m \in S : Cardinality({l \in S : l < m}) = k - 1
    BY <2>3, ZenonT(30) DEF At
  <2> QED
    BY <2>2, <2>4
<1>3. \A k \in 1 .. c : a[k] \in S /\ R[a[k]] = k - 1
  <2>1. \A m \in S : R[m] = Cardinality({l \in S : l < m})
    BY DEF Rank, Before
  <2> HIDE DEF a, R
  <2>2. \A k \in 1 .. c : \E m \in S : Cardinality({l \in S : l < m}) = k - 1
    BY <1>0, <2>1
  <2>3. ASSUME NEW k \in 1 .. c
        PROVE  a[k] \in S /\ Cardinality({l \in S : l < a[k]}) = k - 1
    BY <1>2, <2>2, <2>3
  <2> QED
    BY <2>1, <2>3
<1>4. DOMAIN a = 1 .. c /\ Len(a) = c
  BY <1>2
<1> HIDE DEF a, c, R
<1>5. ASSUME NEW l \in S, NEW m \in S, R[l] <= R[m]
      PROVE  l <= m
  <2>1. l \in Nat /\ m \in Nat /\ R[l] \in Nat /\ R[m] \in Nat
    BY <1>0
  <2>2. m < l => R[m] < R[l]
    BY <1>0
  <2> QED
    BY <1>5, <2>1, <2>2
<1>6. ASSUME NEW m \in S
      PROVE  \E k \in 1 .. c : a[k] = m
  <2> DEFINE k == R[m] + 1
  <2>1. R[m] \in 0 .. c - 1
    BY <1>0
  <2>2. k \in 1 .. c /\ k - 1 = R[m] /\ R[m] \in Int
    BY <1>1, <2>1
  <2> HIDE DEF k
  <2>3. a[k] \in S /\ R[a[k]] = R[m]
    BY <1>3, <2>2
  <2>r. R[a[k]] <= R[m] /\ R[m] <= R[a[k]]
    BY <2>2, <2>3
  <2>4. a[k] <= m /\ m <= a[k]
    BY <1>5, <2>3, <2>r
  <2>5. a[k] \in Nat /\ m \in Nat
    BY <2>3
  <2>6. a[k] = m
    BY <2>4, <2>5
  <2> QED
    BY <2>2, <2>6
<1>7. ASSUME NEW k \in 2 .. c
      PROVE  a[k - 1] < a[k]
  <2>1. k - 1 \in 1 .. c /\ k \in 1 .. c /\ k \in Nat
    BY <1>1, <1>7
  <2> DEFINE x == a[k - 1]
             y == a[k]
  <2>2. /\ x \in S /\ R[x] = (k - 1) - 1
        /\ y \in S /\ R[y] = k - 1
    BY <1>3, <2>1
  <2> HIDE DEF x, y
  <2>3. x \in Nat /\ y \in Nat
    BY <2>2
  <2>4. x # y
    BY <2>1, <2>2
  <2>5. y < x => R[y] < R[x]
    BY <1>0, <2>2
  <2>6. x < y
    BY <2>1, <2>2, <2>3, <2>4, <2>5
  <2> QED
    BY <2>6 DEF x, y
<1>8. {a[k] : k \in DOMAIN a} = S
  <2>1. \A x \in {a[k] : k \in 1 .. c} : x \in S
    BY <1>3
  <2>2. \A m \in S : m \in {a[k] : k \in 1 .. c}
    BY <1>6
  <2>3. DOMAIN a = 1 .. c
    BY <1>4
  <2> QED
    BY <2>1, <2>2, <2>3, Zenon
<1> QED
  BY <1>4, <1>7, <1>8 DEF a, c

\* RequestIsExact: a request lists the missing segments, each once and in order,
\* and fits its buffer; or asks for the whole file, and then the missing ones
\* would at least fill the buffer.
THEOREM RequestExact == Spec => []RequestIsExact
<1>1. ASSUME TypeOK, MapIsReceived
      PROVE  RequestIsExact
  <2> DEFINE S == StillMissing
             c == Cardinality(S)
             r == SegsRequest(words, num_segs)
  <2>1. S \subseteq Nat /\ IsFiniteSet(S)
    <3>1. num_segs \in Nat
      BY <1>1, Sizes DEF TypeOK
    <3>2. IsFiniteSet(FileSegs) /\ S \in SUBSET FileSegs
      BY <3>1, FS_Interval DEF FileSegs, StillMissing
    <3>3. IsFiniteSet(S)
      BY <3>2, FS_Subset
    <3> QED
      BY <3>1, <3>2, <3>3 DEF FileSegs
  <2>2. c \in Nat /\ MaxRetrySegs \in Nat
    BY <2>1, FS_CardinalityType, WordsAssumption
  <2>3. r = IF MissingCount(words, num_segs) >= MaxRetrySegs
            THEN [ack |-> "NAK", list |-> <<>>]
            ELSE [ack |-> "NAK_SEGMENT", list |-> Ascending(S)]
    BY <1>1, ZeroBitsAreMissing DEF SegsRequest
  <2>4. MissingCount(words, num_segs) = IF c > MaxRetrySegs THEN Overflow ELSE c
    BY <1>1, ZeroBitsAreMissing DEF MissingCount
  <2> HIDE DEF S, r
  <2>5. CASE r.ack = "NAK"
    <3>1. MissingCount(words, num_segs) >= MaxRetrySegs
      BY <2>3, <2>5
    <3>2. c >= MaxRetrySegs
      BY <2>2, <2>4, <3>1
    <3> QED
      BY <2>5, <3>2 DEF RequestIsExact, S, r
  <2>6. CASE r.ack # "NAK"
    <3>1. ~ (MissingCount(words, num_segs) >= MaxRetrySegs) /\ r.list = Ascending(S)
      BY <2>3, <2>6
    <3>2. c <= MaxRetrySegs
      <4>1. Overflow \in Nat
        BY Sizes DEF Overflow
      <4>2. CASE c > MaxRetrySegs
        <5>1. c <= MaxSegments
          <6>1. num_segs \in 0 .. MaxSegments /\ MaxSegments \in Nat
            BY <1>1, Sizes DEF TypeOK
          <6>2. IsFiniteSet(0 .. num_segs - 1) /\ Cardinality(0 .. num_segs - 1) <= num_segs
            <7>1. 0 \in Int /\ num_segs - 1 \in Int
              BY <6>1
            <7>2. /\ IsFiniteSet(0 .. num_segs - 1)
                  /\ Cardinality(0 .. num_segs - 1)
                     = IF 0 > num_segs - 1 THEN 0 ELSE (num_segs - 1) - 0 + 1
              BY <7>1, FS_Interval
            <7> QED
              BY <6>1, <7>2
          <6>3. S \in SUBSET (0 .. num_segs - 1)
            BY DEF S, StillMissing, FileSegs
          <6>4. c <= Cardinality(0 .. num_segs - 1) /\ Cardinality(0 .. num_segs - 1) \in Nat
            BY <6>2, <6>3, FS_Subset, FS_CardinalityType
          <6> QED
            BY <2>2, <6>1, <6>2, <6>4
        <5>2. Overflow > MaxSegments
          BY Sizes DEF Overflow
        <5> QED
          BY <2>2, <2>4, <3>1, <4>1, <4>2, <5>1, <5>2, Sizes
      <4> QED
        BY <2>2, <4>2
    <3>3. /\ Len(r.list) = c /\ {r.list[k] : k \in DOMAIN r.list} = S
          /\ \A k \in 2 .. Len(r.list) : r.list[k - 1] < r.list[k]
      <4> DEFINE a == Ascending(S)
      <4>1. /\ Len(a) = c /\ {a[k] : k \in DOMAIN a} = S
            /\ \A k \in 2 .. Len(a) : a[k - 1] < a[k]
        BY <2>1, AscendingIsExact
      <4>2. r.list = a
        BY <3>1
      <4> HIDE DEF a
      <4> QED
        BY <4>1, <4>2
    <3> QED
      BY <2>6, <3>2, <3>3 DEF RequestIsExact, S, r
  <2> QED
    BY <2>5, <2>6
<1> QED
  BY <1>1, TypeCorrect, MapIsTheSet, PTL
=============================================================================
