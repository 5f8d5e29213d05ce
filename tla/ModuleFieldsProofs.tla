------------------------- MODULE ModuleFieldsProofs -------------------------
(***************************************************************************)
(* The getters undo the setters: for every field, and every value of its   *)
(* type, what the API reads back from the bytes it wrote is that value.    *)
(*                                                                         *)
(* The argument follows the bytes: the members of a layout lie one after   *)
(* the other (Offset), a byte is the one that Values shifts down, bytes    *)
(* put together again are the number they came from, and a signed member   *)
(* is cast back. The radio's eight bytes are taken apart by hand.          *)
(***************************************************************************)
EXTENDS ModuleFields, WellFoundedInduction, TLAPS

-----------------------------------------------------------------------------
(* Natural numbers *)

LEMMA LeastNumber ==
    ASSUME NEW T, T \subseteq Nat, T # {}
    PROVE  \E n \in T : \A k \in T : n <= k
<1>1. \E n \in T : \A k \in T : ~ (<<k, n>> \in OpToRel(<, Nat))
  BY NatLessThanWellFounded, WFMin
<1>2. PICK n \in T : \A k \in T : ~ (<<k, n>> \in OpToRel(<, Nat))
  BY <1>1
<1>3. \A k \in T : ~ (k < n)
  BY <1>2 DEF OpToRel
<1> QED
  BY <1>3

\* A set of numbers with 0 and with the next of each of its members.
LEMMA AllNumbers ==
    ASSUME NEW T, 0 \in T, \A n \in Nat : n \in T => n + 1 \in T
    PROVE  Nat \subseteq T
<1> SUFFICES ASSUME Nat \ T # {} PROVE FALSE
  OBVIOUS
<1>1. PICK n \in Nat \ T : \A k \in Nat \ T : n <= k
  BY LeastNumber
<1>2. n # 0 /\ n - 1 \in Nat /\ n - 1 \in T
  BY <1>1
<1> QED
  BY <1>1, <1>2

-----------------------------------------------------------------------------
(* The values of so many bytes *)

LEMMA ValuesAre ==
    /\ Values[0] = 1
    /\ \A n \in 0 .. 3 : Values[n + 1] = ByteMod * Values[n]
<1> DEFINE B2 == ByteMod * ByteMod
           B3 == ByteMod * B2
           B4 == ByteMod * B3
           g == [n \in 0 .. 4 |-> IF n = 0 THEN 1 ELSE IF n = 1 THEN ByteMod
                                  ELSE IF n = 2 THEN B2 ELSE IF n = 3 THEN B3 ELSE B4]
           P(v) == v = [n \in 0 .. 4 |-> IF n = 0 THEN 1 ELSE ByteMod * v[n - 1]]
<1> HIDE DEF B2, B3, B4
<1>1. /\ g[0] = 1 /\ g[1] = ByteMod * g[0] /\ g[2] = ByteMod * g[1]
      /\ g[3] = ByteMod * g[2] /\ g[4] = ByteMod * g[3]
  BY ByteModAssumption DEF B2, B3, B4
<1>2. P(g)
  <2>1. \A n \in 0 .. 4 : g[n] = IF n = 0 THEN 1 ELSE ByteMod * g[n - 1]
    BY <1>1
  <2> HIDE DEF g
  <2>2. g = [n \in 0 .. 4 |-> g[n]]
    BY DEF g
  <2> QED
    BY <2>1, <2>2
<1>3. P(Values)
  <2>1. Values = CHOOSE v : P(v)
    BY DEF Values
  <2> HIDE DEF P
  <2> QED
    BY <1>2, <2>1
<1> QED
  BY <1>3

LEMMA ValuesTyped == \A n \in 0 .. 4 : Values[n] \in Nat /\ Values[n] > 0
<1>1. ASSUME NEW v \in Nat, v > 0
      PROVE  ByteMod * v \in Nat /\ ByteMod * v > 0
  BY <1>1, ByteModAssumption
<1>2. /\ Values[0] = 1 /\ Values[1] = ByteMod * Values[0] /\ Values[2] = ByteMod * Values[1]
      /\ Values[3] = ByteMod * Values[2] /\ Values[4] = ByteMod * Values[3]
  <2>1. Values[0 + 1] = ByteMod * Values[0] /\ Values[1 + 1] = ByteMod * Values[1]
        /\ Values[2 + 1] = ByteMod * Values[2] /\ Values[3 + 1] = ByteMod * Values[3]
    BY ValuesAre
  <2> QED
    BY <2>1, ValuesAre
<1>3. Values[0] \in Nat /\ Values[0] > 0
  BY <1>2
<1>4. Values[1] \in Nat /\ Values[1] > 0
  BY <1>1, <1>2, <1>3
<1>5. Values[2] \in Nat /\ Values[2] > 0
  BY <1>1, <1>2, <1>4
<1>6. Values[3] \in Nat /\ Values[3] > 0
  BY <1>1, <1>2, <1>5
<1>7. Values[4] \in Nat /\ Values[4] > 0
  BY <1>1, <1>2, <1>6
<1> QED
  BY <1>3, <1>4, <1>5, <1>6, <1>7

-----------------------------------------------------------------------------
(* Offsets *)

Ends(l, g, n) == g = [i \in 0 .. n |-> IF i = 0 THEN 0 ELSE g[i - 1] + l[i]]

\* The recursion of Offset has a solution: one for n members is one for n + 1.
LEMMA EndsExist ==
    ASSUME NEW l \in Seq(Nat), NEW n \in Nat
    PROVE  \E g : Ends(l, g, n)
<1> DEFINE T == {i \in Nat : \E g : Ends(l, g, i)}
<1>1. 0 \in T
  <2>1. Ends(l, [i \in 0 .. 0 |-> 0], 0)
    BY DEF Ends
  <2> QED
    BY <2>1
<1>2. ASSUME NEW i \in Nat, i \in T
      PROVE  i + 1 \in T
  <2>1. PICK g : Ends(l, g, i)
    BY <1>2
  <2> DEFINE h == [j \in 0 .. i + 1 |-> IF j \in 0 .. i THEN g[j] ELSE g[i] + l[i + 1]]
  <2>2. \A j \in 0 .. i : h[j] = g[j] /\ g[j] = IF j = 0 THEN 0 ELSE g[j - 1] + l[j]
    BY <2>1 DEF Ends
  <2>3. h[i + 1] = g[i] + l[i + 1]
    OBVIOUS
  <2>4. \A j \in 0 .. i + 1 : h[j] = IF j = 0 THEN 0 ELSE h[j - 1] + l[j]
    <3>1. ASSUME NEW j \in 0 .. i, j # 0
          PROVE  j - 1 \in 0 .. i
      BY <3>1
    <3>2. ASSUME NEW j \in 0 .. i
          PROVE  h[j] = IF j = 0 THEN 0 ELSE h[j - 1] + l[j]
      <4> HIDE DEF h
      <4> QED
        BY <2>2, <3>1
    <3>3. h[i + 1] = h[i] + l[i + 1] /\ i + 1 # 0 /\ (i + 1) - 1 = i
      BY <2>2, <2>3
    <3>4. \A j \in 0 .. i + 1 : j \in 0 .. i \/ j = i + 1
      OBVIOUS
    <3> HIDE DEF h
    <3> QED
      BY <3>2, <3>3, <3>4
  <2>5. h = [j \in 0 .. i + 1 |-> h[j]]
    OBVIOUS
  <2> HIDE DEF h
  <2>6. Ends(l, h, i + 1)
    BY <2>4, <2>5 DEF Ends
  <2> QED
    BY <2>6
<1> HIDE DEF T
<1>3. n \in T
  BY <1>1, <1>2, AllNumbers
<1> QED
  BY <1>3 DEF T

LEMMA OffsetIs ==
    ASSUME NEW l \in Seq(Nat)
    PROVE  /\ Offset(l, 1) = 0
           /\ \A k \in 1 .. Len(l) : Offset(l, k + 1) = Offset(l, k) + l[k]
<1> DEFINE n == Len(l)
           e == CHOOSE g : Ends(l, g, n)
<1>1. n \in Nat
  OBVIOUS
<1>2. Ends(l, e, n)
  BY <1>1, EndsExist
<1>3. \A k : Offset(l, k) = e[k - 1]
  BY DEF Offset, Ends
<1> HIDE DEF e, n
<1>4. \A i \in 0 .. n : e[i] = IF i = 0 THEN 0 ELSE e[i - 1] + l[i]
  BY <1>2 DEF Ends
<1>5. Offset(l, 1) = 0
  <2>1. Offset(l, 1) = e[1 - 1]
    BY <1>3
  <2> QED
    BY <1>1, <1>4, <2>1
<1>6. ASSUME NEW k \in 1 .. n
      PROVE  Offset(l, k + 1) = Offset(l, k) + l[k]
  <2>1. Offset(l, k + 1) = e[(k + 1) - 1] /\ Offset(l, k) = e[k - 1]
    BY <1>3
  <2>2. (k + 1) - 1 = k /\ k \in 0 .. n /\ k # 0
    BY <1>1
  <2> QED
    BY <1>4, <2>1, <2>2
<1> QED
  BY <1>5, <1>6 DEF n

LEMMA OffsetTyped ==
    ASSUME NEW l \in Seq(Nat)
    PROVE  \A k \in 1 .. Len(l) + 1 : Offset(l, k) \in Nat
<1> DEFINE T == {i \in Nat : i + 1 \in 1 .. Len(l) + 1 => Offset(l, i + 1) \in Nat}
<1>1. 0 \in T
  BY OffsetIs
<1>2. ASSUME NEW i \in Nat, i \in T
      PROVE  i + 1 \in T
  <2> SUFFICES ASSUME (i + 1) + 1 \in 1 .. Len(l) + 1
               PROVE  Offset(l, (i + 1) + 1) \in Nat
    OBVIOUS
  <2>1. i + 1 \in 1 .. Len(l) /\ i + 1 \in 1 .. Len(l) + 1
    OBVIOUS
  <2>2. Offset(l, i + 1) \in Nat /\ l[i + 1] \in Nat
    BY <1>2, <2>1
  <2>3. Offset(l, (i + 1) + 1) = Offset(l, i + 1) + l[i + 1]
    BY <2>1, OffsetIs
  <2> QED
    BY <2>2, <2>3
<1> HIDE DEF T
<1>3. Nat \subseteq T
  BY <1>1, <1>2, AllNumbers
<1>4. ASSUME NEW k \in 1 .. Len(l) + 1
      PROVE  Offset(l, k) \in Nat
  <2>1. k - 1 \in Nat /\ (k - 1) + 1 = k
    OBVIOUS
  <2>2. k - 1 \in T
    BY <1>3, <2>1
  <2> QED
    BY <2>1, <2>2 DEF T
<1> QED
  BY <1>4

\* A member comes after those before it.
LEMMA OffsetGrows ==
    ASSUME NEW l \in Seq(Nat), NEW k \in 1 .. Len(l)
    PROVE  \A j \in k + 1 .. Len(l) + 1 : Offset(l, k) + l[k] <= Offset(l, j)
<1> DEFINE m == k + 1
           T == {i \in Nat : m + i \in 1 .. Len(l) + 1 =>
                                 Offset(l, k) + l[k] <= Offset(l, m + i)}
<1>1. Offset(l, k) + l[k] = Offset(l, m) /\ Offset(l, m) \in Nat /\ m \in Nat
  <2>1. m \in 1 .. Len(l) + 1
    OBVIOUS
  <2> QED
    BY <2>1, OffsetIs, OffsetTyped
<1>2. 0 \in T
  <2>1. m + 0 = m
    OBVIOUS
  <2> HIDE DEF m
  <2> QED
    BY <1>1, <2>1
<1>3. ASSUME NEW i \in Nat, i \in T
      PROVE  i + 1 \in T
  <2> DEFINE p == m + i
  <2> SUFFICES ASSUME m + (i + 1) \in 1 .. Len(l) + 1
               PROVE  Offset(l, k) + l[k] <= Offset(l, m + (i + 1))
    OBVIOUS
  <2>1. p \in 1 .. Len(l) /\ p \in 1 .. Len(l) + 1 /\ m + (i + 1) = p + 1
    OBVIOUS
  <2> HIDE DEF m
  <2>2. Offset(l, k) + l[k] <= Offset(l, p)
    BY <1>3, <2>1
  <2>3. Offset(l, p) \in Nat /\ l[p] \in Nat /\ Offset(l, p + 1) = Offset(l, p) + l[p]
    <3> HIDE DEF p
    <3> QED
      BY <2>1, OffsetIs, OffsetTyped
  <2>4. Offset(l, m) \in Nat
    BY <1>1
  <2> HIDE DEF p
  <2> QED
    BY <1>1, <2>1, <2>2, <2>3, <2>4
<1> HIDE DEF T
<1>4. Nat \subseteq T
  BY <1>2, <1>3, AllNumbers
<1>5. ASSUME NEW j \in k + 1 .. Len(l) + 1
      PROVE  Offset(l, k) + l[k] <= Offset(l, j)
  <2>1. j - m \in Nat /\ m + (j - m) = j /\ j \in 1 .. Len(l) + 1
    OBVIOUS
  <2>2. j - m \in T
    BY <1>4, <2>1
  <2> HIDE DEF m
  <2> QED
    BY <2>1, <2>2 DEF T
<1> QED
  BY <1>5

\* The widths of members, and the layouts of fields.
Widths == {1, 2, 4}

Layouts ==
    {<<1>>, <<4>>, <<4, 4, 4, 4>>, <<4, 1>>, <<4, 4>>, <<1, 1, 2>>, <<2, 2>>,
     <<4, 4, 4, 1, 1>>, <<4, 4, 4, 4, 4, 4, 4, 4, 4, 4>>, <<1, 4, 2, 4, 2>>,
     <<4, 4, 1, 4, 4, 2, 1, 1, 1, 4, 4>>}

LEMMA LayoutsAreSequences == \A l \in Layouts : l \in Seq(Widths) /\ l \in Seq(Nat)
<1>1. 1 \in Widths /\ 2 \in Widths /\ 4 \in Widths /\ Widths \subseteq Nat
  BY DEF Widths
<1> HIDE DEF Widths
<1>2. <<1>> \in Seq(Widths) /\ <<4>> \in Seq(Widths)
  BY <1>1
<1>3. <<4, 4, 4, 4>> \in Seq(Widths)
  BY <1>1
<1>4. <<4, 1>> \in Seq(Widths) /\ <<4, 4>> \in Seq(Widths) /\ <<2, 2>> \in Seq(Widths)
  BY <1>1
<1>5. <<1, 1, 2>> \in Seq(Widths)
  BY <1>1
<1>6. <<4, 4, 4, 1, 1>> \in Seq(Widths)
  BY <1>1
<1>7. <<4, 4, 4, 4, 4, 4, 4, 4, 4, 4>> \in Seq(Widths)
  BY <1>1
<1>8. <<1, 4, 2, 4, 2>> \in Seq(Widths)
  BY <1>1
<1>9. <<4, 4, 1, 4, 4, 2, 1, 1, 1, 4, 4>> \in Seq(Widths)
  BY <1>1
<1>10. ASSUME NEW s \in Seq(Widths)
       PROVE  s \in Seq(Nat)
  <2>1. s \in [1 .. Len(s) -> Widths] /\ Len(s) \in Nat
    BY <1>10
  <2>2. s \in [1 .. Len(s) -> Nat]
    BY <1>1, <2>1
  <2> QED
    BY <2>1, <2>2
<1> QED
  BY <1>2, <1>3, <1>4, <1>5, <1>6, <1>7, <1>8, <1>9, <1>10 DEF Layouts

LEMMA LayoutIs == \A f \in Fields \ {"radio"} : Layout[f] \in Layouts
<1> SUFFICES ASSUME NEW f \in DOMAIN Layout PROVE Layout[f] \in Layouts
  BY LayoutAssumption
<1> QED
  BY DEF Layout, Layouts

LEMMA LayoutTyped ==
    ASSUME NEW f \in Fields \ {"radio"}
    PROVE  /\ Layout[f] \in Seq(Nat) /\ DOMAIN Layout[f] = 1 .. Len(Layout[f])
           /\ Len(Layout[f]) \in Nat
           /\ \A k \in DOMAIN Layout[f] : Layout[f][k] \in Widths
  BY LayoutIs, LayoutsAreSequences

LEMMA SizeTyped == \A f \in Fields : Size(f) \in Nat
<1>1. ASSUME NEW f \in Fields \ {"radio"}
      PROVE  Offset(Layout[f], Len(Layout[f]) + 1) \in Nat
  <2>1. Layout[f] \in Seq(Nat)
    BY LayoutTyped
  <2>2. Len(Layout[f]) + 1 \in 1 .. Len(Layout[f]) + 1
    BY <2>1
  <2> QED
    BY <2>1, <2>2, OffsetTyped
<1> QED
  BY <1>1 DEF Size

LEMMA MemberAtIs ==
    ASSUME NEW l \in Seq(Nat), NEW k \in DOMAIN l,
           NEW i \in Offset(l, k) + 1 .. Offset(l, k) + l[k]
    PROVE  MemberAt(l, i) = k
<1>1. ASSUME NEW j \in DOMAIN l, i \in Offset(l, j) + 1 .. Offset(l, j) + l[j]
      PROVE  j = k
  <2>1. ASSUME NEW p \in DOMAIN l, NEW q \in DOMAIN l, p < q
        PROVE  Offset(l, p) + l[p] <= Offset(l, q)
    <3>1. p \in 1 .. Len(l) /\ q \in p + 1 .. Len(l) + 1
      BY <2>1
    <3> QED
      BY <3>1, OffsetGrows
  <2>2. /\ j \in Nat /\ k \in Nat /\ l[j] \in Nat /\ l[k] \in Nat
        /\ Offset(l, j) \in Nat /\ Offset(l, k) \in Nat
    <3>1. \A p \in DOMAIN l : p \in 1 .. Len(l) + 1
      OBVIOUS
    <3> QED
      BY <3>1, OffsetTyped
  <2>3. ~ (j < k)
    <3>1. j < k => Offset(l, j) + l[j] <= Offset(l, k)
      BY <2>1
    <3> QED
      BY <1>1, <2>2, <3>1
  <2>4. ~ (k < j)
    <3>1. k < j => Offset(l, k) + l[k] <= Offset(l, j)
      BY <2>1
    <3> QED
      BY <1>1, <2>2, <3>1
  <2> QED
    BY <2>2, <2>3, <2>4
<1> QED
  BY <1>1 DEF MemberAt

-----------------------------------------------------------------------------
(* Division *)

LEMMA DivMod ==
    ASSUME NEW n \in Nat, NEW k \in Nat \ {0}
    PROVE  /\ n \div k \in Nat
           /\ n % k \in 0 .. k - 1
           /\ n = (n \div k) * k + (n % k)
<1>1. n \div k \in Nat
  BY Z3
<1>2. n % k \in 0 .. k - 1
  BY Z3
<1>3. n = (n \div k) * k + (n % k)
  BY Z3
<1> QED
  BY <1>1, <1>2, <1>3

LEMMA DivModUnique ==
    ASSUME NEW k \in Nat \ {0}, NEW i \in Nat, NEW j \in 0 .. k - 1
    PROVE  /\ (i * k + j) \div k = i
           /\ (i * k + j) % k = j
<1>1. (i * k + j) \div k = i
  BY Z3
<1>2. (i * k + j) % k = j
  BY Z3
<1> QED
  BY <1>1, <1>2

LEMMA DivLess ==
    ASSUME NEW v \in Nat, NEW c \in Nat \ {0}, NEW w \in Nat \ {0}, v < c * w
    PROVE  v \div w \in 0 .. c - 1
<1> DEFINE q == v \div w
<1>1. q \in Nat /\ v % w \in 0 .. w - 1 /\ v = q * w + (v % w)
  BY DivMod
<1> HIDE DEF q
<1>2. q * w <= v
  <2> DEFINE r == v % w
  <2>1. q * w \in Nat /\ r \in Nat /\ v = q * w + r
    BY <1>1
  <2> HIDE DEF r
  <2> QED
    BY <2>1
<1>3. CASE q >= c
  <2>1. q * w >= c * w
    BY <1>1, <1>3, Z3
  <2>2. q * w \in Nat /\ c * w \in Nat
    BY <1>1
  <2> QED
    BY <1>2, <2>1, <2>2
<1>4. CASE ~ (q >= c)
  BY <1>1, <1>4 DEF q
<1> QED
  BY <1>3, <1>4

\* The shift by one more byte.
LEMMA DivDiv ==
    ASSUME NEW v \in Nat, NEW c \in Nat \ {0}, NEW w \in Nat \ {0}
    PROVE  v \div (c * w) = (v \div w) \div c
<1> DEFINE q == v \div w
           r == v % w
           p == q \div c
           s == q % c
<1>1. q \in Nat /\ r \in 0 .. w - 1 /\ v = q * w + r
  BY DivMod
<1>2. p \in Nat /\ s \in 0 .. c - 1 /\ q = p * c + s
  <2> HIDE DEF q
  <2> QED
    BY <1>1, DivMod
<1> HIDE DEF q, r, p, s
<1> DEFINE k == c * w
           j == s * w + r
<1>3. k \in Nat \ {0}
  BY Z3
<1>4. v = p * k + j
  <2>1. q * w = p * (c * w) + s * w
    BY <1>1, <1>2, Z3
  <2>2. q * w \in Nat /\ p * (c * w) \in Nat /\ s * w \in Nat /\ r \in Nat
    <3>1. s \in Nat
      BY <1>2
    <3> QED
      BY <1>1, <1>2, <1>3, <3>1
  <2> HIDE DEF k
  <2>3. q * w = p * k + s * w
    BY <2>1 DEF k
  <2>4. p * k \in Nat
    BY <2>2 DEF k
  <2> QED
    BY <1>1, <2>2, <2>3, <2>4
<1>5. j \in 0 .. k - 1
  <2>1. s * w <= (c - 1) * w /\ s * w \in Nat
    BY <1>2, Z3
  <2>2. (c - 1) * w = c * w - w
    BY Z3
  <2>3. c * w \in Nat
    BY <1>3
  <2> DEFINE sw == s * w
             cw == c * w
  <2>4. sw \in Nat /\ cw \in Nat /\ sw <= cw - w
    BY <2>1, <2>2, <2>3
  <2> HIDE DEF sw, cw
  <2>5. sw + r \in 0 .. cw - 1
    BY <1>1, <2>4
  <2> QED
    BY <2>5 DEF sw, cw
<1> HIDE DEF k, j
<1>6. v \div k = p
  BY <1>2, <1>3, <1>4, <1>5, DivModUnique
<1> QED
  BY <1>6 DEF k, p, q

-----------------------------------------------------------------------------
(* Bytes *)

LEMMA BytesTyped ==
    ASSUME NEW v \in Nat, NEW n \in Widths
    PROVE  /\ ToBytes(v, n) \in Seq(Nat) /\ Len(ToBytes(v, n)) = n
           /\ \A k \in 1 .. n : ToBytes(v, n)[k] \in 0 .. ByteMod - 1
<1>1. n \in Nat /\ n <= 4
  BY DEF Widths
<1>2. ASSUME NEW k \in 1 .. n
      PROVE  (v \div Values[n - k]) % ByteMod \in 0 .. ByteMod - 1
  <2>1. n - k \in 0 .. 4
    BY <1>1
  <2> DEFINE q == v \div Values[n - k]
  <2>2. q \in Nat
    <3>1. Values[n - k] \in Nat \ {0}
      BY <2>1, ValuesTyped
    <3> QED
      BY <3>1, DivMod
  <2> HIDE DEF q
  <2>3. ByteMod \in Nat \ {0}
    BY ByteModAssumption
  <2>4. q % ByteMod \in 0 .. ByteMod - 1
    BY <2>2, <2>3, DivMod
  <2> QED
    BY <2>4 DEF q
<1> DEFINE b(k) == (v \div Values[n - k]) % ByteMod
<1>3. \A k \in 1 .. n : b(k) \in 0 .. ByteMod - 1 /\ b(k) \in Nat
  BY <1>2, ByteModAssumption
<1>4. ToBytes(v, n) = [k \in 1 .. n |-> b(k)]
  BY DEF ToBytes
<1> HIDE DEF b
<1>5. [k \in 1 .. n |-> b(k)] \in Seq(Nat) /\ Len([k \in 1 .. n |-> b(k)]) = n
  BY <1>1, <1>3
<1> QED
  BY <1>3, <1>4, <1>5

Reads(b, g, n) == g = [k \in 0 .. n |-> IF k = 0 THEN 0 ELSE g[k - 1] * ByteMod + b[k]]

LEMMA FromBytesIs ==
    ASSUME NEW b \in Seq(Nat), Len(b) \in Widths
    PROVE  /\ Len(b) = 1 => FromBytes(b) = b[1]
           /\ Len(b) = 2 => FromBytes(b) = b[1] * ByteMod + b[2]
           /\ Len(b) = 4 => FromBytes(b) =
                  ((b[1] * ByteMod + b[2]) * ByteMod + b[3]) * ByteMod + b[4]
<1> DEFINE n == Len(b)
           v1 == b[1]
           v2 == v1 * ByteMod + b[2]
           v3 == v2 * ByteMod + b[3]
           v4 == v3 * ByteMod + b[4]
           g == [k \in 0 .. n |-> IF k = 0 THEN 0 ELSE IF k = 1 THEN v1
                                  ELSE IF k = 2 THEN v2 ELSE IF k = 3 THEN v3 ELSE v4]
<1>1. n \in {1, 2, 4} /\ b[1] \in Nat
  <2>1. Len(b) > 0 => b[1] \in Nat
    OBVIOUS
  <2> QED
    BY <2>1 DEF Widths
<1>2. v1 = 0 * ByteMod + b[1]
  BY <1>1, ByteModAssumption
<1>3. Reads(b, g, n)
  <2> HIDE DEF v1, v2, v3, v4, n
  <2>1. /\ g[0] = 0 /\ g[1] = v1
        /\ n >= 2 => g[2] = v2
        /\ n >= 3 => g[3] = v3
        /\ n >= 4 => g[4] = v4
    BY <1>1
  <2>2. \A k \in 0 .. n : k \in 0 .. 4
    BY <1>1
  <2>3. g = [k \in 0 .. n |-> g[k]]
    OBVIOUS
  <2> HIDE DEF g
  <2>4. ASSUME NEW k \in 0 .. n
        PROVE  g[k] = IF k = 0 THEN 0 ELSE g[k - 1] * ByteMod + b[k]
    <3>1. k = 0 \/ k = 1 \/ k = 2 \/ k = 3 \/ k = 4
      BY <2>2
    <3>2. CASE k = 0
      BY <2>1, <3>2
    <3>3. CASE k = 1
      BY <1>2, <2>1, <3>3
    <3>4. CASE k = 2
      <4>1. n >= 2 /\ k - 1 = 1
        BY <1>1, <3>4
      <4> QED
        BY <2>1, <3>4, <4>1 DEF v2
    <3>5. CASE k = 3
      <4>1. n >= 3 /\ n >= 2 /\ k - 1 = 2
        BY <1>1, <3>5
      <4> QED
        BY <2>1, <3>5, <4>1 DEF v3
    <3>6. CASE k = 4
      <4>1. n >= 4 /\ n >= 3 /\ k - 1 = 3
        BY <1>1, <3>6
      <4> QED
        BY <2>1, <3>6, <4>1 DEF v4
    <3> QED
      BY <3>1, <3>2, <3>3, <3>4, <3>5, <3>6
  <2> QED
    BY <2>3, <2>4 DEF Reads
<1> DEFINE r == CHOOSE h : Reads(b, h, n)
<1>4. Reads(b, r, n)
  <2> HIDE DEF n, g
  <2> QED
    BY <1>3
<1>5. FromBytes(b) = r[n]
  BY ReadOrderAssumption DEF FromBytes, Reads
<1> HIDE DEF r, n, g
<1>6. \A k \in 0 .. n : r[k] = IF k = 0 THEN 0 ELSE r[k - 1] * ByteMod + b[k]
  BY <1>4 DEF Reads
<1>7. r[0] = 0
  BY <1>1, <1>6
<1>8. r[1] = v1
  <2>1. r[1] = r[1 - 1] * ByteMod + b[1]
    BY <1>1, <1>6
  <2> HIDE DEF v1
  <2> QED
    BY <1>2, <1>7, <2>1
<1>9. n >= 2 => r[2] = v2
  <2> HIDE DEF v1
  <2>1. n >= 2 => r[2] = r[2 - 1] * ByteMod + b[2]
    BY <1>1, <1>6
  <2> QED
    BY <1>8, <2>1
<1>10. n = 4 => r[3] = v3
  <2> HIDE DEF v1, v2
  <2>1. n = 4 => r[3] = r[3 - 1] * ByteMod + b[3]
    BY <1>1, <1>6
  <2> QED
    BY <1>9, <2>1
<1>11. n = 4 => r[4] = v4
  <2> HIDE DEF v1, v2, v3
  <2>1. n = 4 => r[4] = r[4 - 1] * ByteMod + b[4]
    BY <1>1, <1>6
  <2> QED
    BY <1>10, <2>1
<1>12. (n = 1 => r[n] = v1) /\ (n = 2 => r[n] = v2) /\ (n = 4 => r[n] = v4)
  <2> HIDE DEF v1, v2, v3, v4
  <2> QED
    BY <1>8, <1>9, <1>11
<1>13. (n = 1 => FromBytes(b) = v1) /\ (n = 2 => FromBytes(b) = v2) /\ (n = 4 => FromBytes(b) = v4)
  <2> HIDE DEF v1, v2, v3, v4
  <2> QED
    BY <1>5, <1>12
<1> QED
  BY <1>13 DEF n

\* What is written to bytes is read back: read_uint32 undoes write_uint32, and
\* the narrower ones alike.
LEMMA ReadUndoesWrite ==
    ASSUME NEW n \in Widths, NEW v \in 0 .. Values[n] - 1
    PROVE  FromBytes(ToBytes(v, n)) = v
<1> DEFINE q(k) == v \div Values[k]
           b == ToBytes(v, n)
<1>1. n \in 0 .. 4 /\ Values[n] \in Nat
  BY ValuesTyped DEF Widths
<1>2. v \in Nat /\ v < Values[n]
  BY <1>1
<1>3. /\ b \in Seq(Nat) /\ Len(b) = n
      /\ \A k \in 1 .. n : b[k] = q(n - k) % ByteMod
  <2>1. b \in Seq(Nat) /\ Len(b) = n
    BY <1>2, BytesTyped
  <2>2. \A k \in 1 .. n : b[k] = q(n - k) % ByteMod
    BY DEF ToBytes
  <2> QED
    BY <2>1, <2>2
<1>4. ByteMod \in Nat \ {0}
  BY ByteModAssumption
<1>5. q(0) = v
  <2>1. Values[0] = 1
    BY ValuesAre
  <2> QED
    BY <1>2, <2>1
<1>6. ASSUME NEW k \in 0 .. 3
      PROVE  q(k) \in Nat /\ q(k) = q(k + 1) * ByteMod + (q(k) % ByteMod)
  <2>1. Values[k] \in Nat \ {0} /\ Values[k + 1] = ByteMod * Values[k]
    BY ValuesTyped, ValuesAre
  <2>2. q(k) \in Nat
    BY <1>2, <2>1, DivMod
  <2>3. q(k + 1) = q(k) \div ByteMod
    BY <1>2, <1>4, <2>1, DivDiv
  <2> HIDE DEF q
  <2> QED
    BY <1>4, <2>2, <2>3, DivMod
<1>7. q(n - 1) = q(n - 1) % ByteMod
  <2>1. n - 1 \in 0 .. 3 /\ (n - 1) + 1 = n
    BY DEF Widths
  <2>2. Values[n - 1] \in Nat \ {0} /\ Values[n] = ByteMod * Values[n - 1]
    <3>1. Values[(n - 1) + 1] = ByteMod * Values[n - 1]
      BY <2>1, ValuesAre
    <3> QED
      BY <2>1, <3>1, ValuesTyped
  <2>3. q(n - 1) \in 0 .. ByteMod - 1
    BY <1>2, <1>4, <2>2, DivLess
  <2> HIDE DEF q
  <2> DEFINE j == q(n - 1)
  <2>4. j \in 0 .. ByteMod - 1
    BY <2>3
  <2> HIDE DEF j
  <2>5. 0 * ByteMod + j = j
    BY <1>4, <2>4
  <2>6. (0 * ByteMod + j) % ByteMod = j
    BY <1>4, <2>4, DivModUnique
  <2>7. j % ByteMod = j
    BY <2>5, <2>6
  <2> QED
    BY <2>7 DEF j
<1> HIDE DEF q, b
<1>8. CASE n = 1
  <2>1. b[1] = q(0)
    <3>1. b[1] = q(n - 1) % ByteMod
      BY <1>3, <1>8
    <3>2. n - 1 = 0
      BY <1>8
    <3> QED
      BY <1>7, <3>1, <3>2
  <2>2. FromBytes(b) = b[1]
    BY <1>3, <1>8, FromBytesIs DEF Widths
  <2> QED
    BY <1>5, <2>1, <2>2 DEF b
<1>9. CASE n = 2
  <2>1. b[1] = q(1) /\ b[2] = q(0) % ByteMod
    <3>1. b[1] = q(n - 1) % ByteMod /\ b[2] = q(n - 2) % ByteMod
      BY <1>3, <1>9
    <3>2. n - 1 = 1 /\ n - 2 = 0
      BY <1>9
    <3> QED
      BY <1>7, <3>1, <3>2
  <2>2. FromBytes(b) = b[1] * ByteMod + b[2]
    BY <1>3, <1>9, FromBytesIs DEF Widths
  <2>3. q(0) = q(1) * ByteMod + (q(0) % ByteMod)
    <3>1. q(0) = q(0 + 1) * ByteMod + (q(0) % ByteMod)
      BY <1>6
    <3> QED
      BY <3>1
  <2> QED
    BY <1>5, <2>1, <2>2, <2>3 DEF b
<1>10. CASE n = 4
  <2>1. b[1] = q(3) /\ b[2] = q(2) % ByteMod /\ b[3] = q(1) % ByteMod /\ b[4] = q(0) % ByteMod
    <3>1. b[1] = q(n - 1) % ByteMod /\ b[2] = q(n - 2) % ByteMod
          /\ b[3] = q(n - 3) % ByteMod /\ b[4] = q(n - 4) % ByteMod
      BY <1>3, <1>10
    <3>2. n - 1 = 3 /\ n - 2 = 2 /\ n - 3 = 1 /\ n - 4 = 0
      BY <1>10
    <3> QED
      BY <1>7, <3>1, <3>2
  <2>2. FromBytes(b) = ((b[1] * ByteMod + b[2]) * ByteMod + b[3]) * ByteMod + b[4]
    BY <1>3, <1>10, FromBytesIs DEF Widths
  <2>3. /\ q(0) = q(1) * ByteMod + (q(0) % ByteMod)
        /\ q(1) = q(2) * ByteMod + (q(1) % ByteMod)
        /\ q(2) = q(3) * ByteMod + (q(2) % ByteMod)
    <3>1. /\ q(0) = q(0 + 1) * ByteMod + (q(0) % ByteMod)
          /\ q(1) = q(1 + 1) * ByteMod + (q(1) % ByteMod)
          /\ q(2) = q(2 + 1) * ByteMod + (q(2) % ByteMod)
      BY <1>6
    <3> QED
      BY <3>1
  <2>4. b[1] * ByteMod + b[2] = q(2)
    BY <2>1, <2>3
  <2>5. q(2) * ByteMod + b[3] = q(1)
    BY <2>1, <2>3
  <2>6. q(1) * ByteMod + b[4] = q(0)
    BY <2>1, <2>3
  <2> QED
    BY <1>5, <2>2, <2>4, <2>5, <2>6 DEF b
<1> QED
  BY <1>8, <1>9, <1>10 DEF Widths

-----------------------------------------------------------------------------
(* Members *)

\* A member keeps its value as an unsigned number of its width, cast back.
LEMMA MemberIs ==
    ASSUME NEW f \in Fields \ {"radio"}, NEW k \in DOMAIN Layout[f],
           NEW i \in Member(f, k)
    PROVE  LET w == Layout[f][k]
               u == i % Values[w]
           IN  /\ u \in 0 .. Values[w] - 1
               /\ (IF <<f, k>> \in SignedMembers THEN Signed(u, w) ELSE u) = i
<1> DEFINE w == Layout[f][k]
           n == Values[w]
<1>1. w \in Widths
  BY LayoutTyped
<1>2. n \in Nat \ {0}
  <2>1. w \in 0 .. 4
    BY <1>1 DEF Widths
  <2> QED
    BY <2>1, ValuesTyped
<1>3. Member(f, k) = IF <<f, k>> \in SignedMembers
                     THEN {j \in Int : -n <= 2 * j /\ 2 * j < n} ELSE 0 .. n - 1
  BY DEF Member
<1>4. \A u : Signed(u, w) = IF 2 * u < n THEN u ELSE u - n
  BY DEF Signed
<1> HIDE DEF n, w
<1>5. CASE <<f, k>> \in SignedMembers
  <2>1. i \in Int /\ -n <= 2 * i /\ 2 * i < n
    BY <1>3, <1>5
  <2>2. CASE i >= 0
    <3>1. i \in 0 .. n - 1 /\ i % n = i
      BY <1>2, <2>1, <2>2
    <3> QED
      BY <1>4, <1>5, <2>1, <3>1 DEF n, w
  <2>3. CASE ~ (i >= 0)
    <3>1. i + n \in 0 .. n - 1
      BY <1>2, <2>1, <2>3
    <3>2. i % n = i + n
      BY <1>2, <2>1, <2>3
    <3>3. ~ (2 * (i + n) < n) /\ (i + n) - n = i
      BY <1>2, <2>1, <2>3
    <3> QED
      BY <1>4, <1>5, <3>1, <3>2, <3>3 DEF n, w
  <2> QED
    BY <2>2, <2>3
<1>6. CASE <<f, k>> \notin SignedMembers
  <2>1. i \in 0 .. n - 1 /\ i % n = i
    BY <1>2, <1>3, <1>6
  <2> QED
    BY <1>6, <2>1 DEF n, w
<1> QED
  BY <1>5, <1>6

\* Every byte of a layout belongs to a member.
LEMMA BytesHaveMembers ==
    ASSUME NEW l \in Seq(Nat), NEW i \in 1 .. Offset(l, Len(l) + 1)
    PROVE  \E k \in DOMAIN l : i \in Offset(l, k) + 1 .. Offset(l, k) + l[k]
<1> DEFINE T == {m \in Nat : m + 1 \in 1 .. Len(l) + 1 /\ i <= Offset(l, m + 1) =>
                    \E k \in 1 .. Len(l) : i \in Offset(l, k) + 1 .. Offset(l, k) + l[k]}
<1>1. 0 \in T
  <2>1. ~ (i <= Offset(l, 0 + 1))
    <3>1. Offset(l, 1) = 0 /\ 0 + 1 = 1
      BY OffsetIs
    <3>2. i \in Nat /\ i > 0
      OBVIOUS
    <3> QED
      BY <3>1, <3>2
  <2> QED
    BY <2>1
<1>2. ASSUME NEW m \in Nat, m \in T
      PROVE  m + 1 \in T
  <2> SUFFICES ASSUME (m + 1) + 1 \in 1 .. Len(l) + 1, i <= Offset(l, (m + 1) + 1)
               PROVE  \E k \in 1 .. Len(l) : i \in Offset(l, k) + 1 .. Offset(l, k) + l[k]
    OBVIOUS
  <2>1. m + 1 \in 1 .. Len(l) /\ m + 1 \in 1 .. Len(l) + 1
    OBVIOUS
  <2> DEFINE p == m + 1
  <2>2. /\ Offset(l, p) \in Nat /\ l[p] \in Nat /\ i \in Nat
        /\ i <= Offset(l, p) + l[p]
    <3>1. p \in 1 .. Len(l) /\ p \in 1 .. Len(l) + 1 /\ i <= Offset(l, p + 1)
      BY <2>1
    <3> HIDE DEF p
    <3>2. i \in Nat
      OBVIOUS
    <3> QED
      BY <3>1, <3>2, OffsetIs, OffsetTyped
  <2>3. CASE i <= Offset(l, m + 1)
    BY <1>2, <2>1, <2>3
  <2>4. CASE ~ (i <= Offset(l, p))
    <3>1. p \in 1 .. Len(l)
      BY <2>1
    <3> HIDE DEF p
    <3>2. i \in Offset(l, p) + 1 .. Offset(l, p) + l[p]
      BY <2>2, <2>4
    <3> QED
      BY <3>1, <3>2
  <2> QED
    BY <2>3, <2>4
<1> HIDE DEF T
<1>3. Nat \subseteq T
  BY <1>1, <1>2, AllNumbers
<1>4. Len(l) \in T /\ Len(l) + 1 \in 1 .. Len(l) + 1
  BY <1>3
<1>5. i <= Offset(l, Len(l) + 1)
  <2>1. Len(l) + 1 \in 1 .. Len(l) + 1
    OBVIOUS
  <2>2. Offset(l, Len(l) + 1) \in Nat
    BY <2>1, OffsetTyped
  <2> QED
    BY <2>2
<1>6. DOMAIN l = 1 .. Len(l)
  OBVIOUS
<1> QED
  BY <1>4, <1>5, <1>6 DEF T

\* What Serialize makes of a value: its members' bytes, one after the other.
LEMMA SerializeIs ==
    ASSUME NEW f \in Fields \ {"radio"}, NEW v, Typed(f, v)
    PROVE  /\ Serialize(f, v) \in Seq(Nat) /\ Len(Serialize(f, v)) = Size(f)
           /\ \A k \in DOMAIN Layout[f] :
                 LET o == Offset(Layout[f], k)
                     w == Layout[f][k]
                 IN  SubSeq(Serialize(f, v), o + 1, o + w) = ToBytes(v[k] % Values[w], w)
<1> DEFINE l == Layout[f]
           s == Serialize(f, v)
           u(k) == v[k] % Values[l[k]]
           e(i) == ToBytes(u(MemberAt(l, i)), l[MemberAt(l, i)])[i - Offset(l, MemberAt(l, i))]
<1>1. /\ l \in Seq(Nat) /\ Len(l) \in Nat /\ DOMAIN l = 1 .. Len(l)
      /\ \A k \in DOMAIN l : l[k] \in Widths
  BY LayoutTyped
<1>2. Size(f) = Offset(l, Len(l) + 1) /\ Size(f) \in Nat
  BY SizeTyped DEF Size
<1>3. s = [i \in 1 .. Size(f) |-> e(i)]
  BY DEF Serialize
<1>4. ASSUME NEW k \in DOMAIN l
      PROVE  /\ u(k) \in Nat
             /\ ToBytes(u(k), l[k]) \in Seq(Nat) /\ Len(ToBytes(u(k), l[k])) = l[k]
             /\ l[k] \in Nat /\ Offset(l, k) \in Nat /\ Offset(l, k) + l[k] <= Size(f)
  <2>1. v[k] \in Member(f, k)
    BY <1>4 DEF Typed
  <2>2. u(k) \in 0 .. Values[l[k]] - 1
    BY <2>1, MemberIs
  <2>3. u(k) \in Nat
    BY <2>2
  <2>4. l[k] \in Widths
    BY <1>1
  <2>5. ToBytes(u(k), l[k]) \in Seq(Nat) /\ Len(ToBytes(u(k), l[k])) = l[k]
    <3> HIDE DEF u, l
    <3> QED
      BY <2>3, <2>4, BytesTyped
  <2>6. k \in 1 .. Len(l) /\ k \in 1 .. Len(l) + 1 /\ Len(l) + 1 \in k + 1 .. Len(l) + 1
    BY <1>1
  <2>7. Offset(l, k) \in Nat /\ Offset(l, k) + l[k] <= Offset(l, Len(l) + 1)
    <3> HIDE DEF l
    <3> QED
      BY <1>1, <2>6, OffsetTyped, OffsetGrows
  <2>8. l[k] \in Nat
    BY <2>4 DEF Widths
  <2> QED
    BY <1>2, <2>3, <2>5, <2>7, <2>8
<1>5. ASSUME NEW k \in DOMAIN l, NEW j \in 1 .. l[k]
      PROVE  /\ Offset(l, k) + j \in 1 .. Size(f)
             /\ e(Offset(l, k) + j) = ToBytes(u(k), l[k])[j]
  <2>1. l[k] \in Nat /\ Offset(l, k) \in Nat /\ Offset(l, k) + l[k] <= Size(f)
    BY <1>4
  <2> HIDE DEF l
  <2>2. /\ Offset(l, k) + j \in Offset(l, k) + 1 .. Offset(l, k) + l[k]
        /\ Offset(l, k) + j \in 1 .. Size(f)
        /\ (Offset(l, k) + j) - Offset(l, k) = j
    BY <1>2, <2>1
  <2>3. MemberAt(l, Offset(l, k) + j) = k
    BY <1>1, <2>2, MemberAtIs
  <2> QED
    BY <2>2, <2>3
<1>6. ASSUME NEW i \in 1 .. Size(f)
      PROVE  e(i) \in Nat
  <2>1. PICK k \in DOMAIN l : i \in Offset(l, k) + 1 .. Offset(l, k) + l[k]
    <3> HIDE DEF l
    <3> QED
      BY <1>1, <1>2, BytesHaveMembers
  <2>2. l[k] \in Nat /\ Offset(l, k) \in Nat
    BY <1>4
  <2> DEFINE j == i - Offset(l, k)
  <2>3. j \in 1 .. l[k] /\ Offset(l, k) + j = i
    <3> HIDE DEF l
    <3> QED
      BY <2>1, <2>2
  <2>4. e(i) = ToBytes(u(k), l[k])[j]
    <3> HIDE DEF j, e, l, u
    <3> QED
      BY <1>5, <2>3
  <2>5. ToBytes(u(k), l[k]) \in Seq(Nat) /\ Len(ToBytes(u(k), l[k])) = l[k]
    BY <1>4
  <2> HIDE DEF j, e, l, u
  <2> QED
    BY <2>3, <2>4, <2>5
<1> HIDE DEF e, s, l, u
<1>7. s \in Seq(Nat) /\ Len(s) = Size(f) /\ \A i \in 1 .. Size(f) : s[i] = e(i)
  BY <1>2, <1>3, <1>6
<1>8. ASSUME NEW k \in DOMAIN l
      PROVE  SubSeq(s, Offset(l, k) + 1, Offset(l, k) + l[k]) = ToBytes(u(k), l[k])
  <2> DEFINE o == Offset(l, k)
             w == l[k]
             t == ToBytes(u(k), l[k])
             r == SubSeq(s, o + 1, o + w)
  <2>1. /\ t \in Seq(Nat) /\ Len(t) = w /\ w \in Nat /\ o \in Nat
        /\ o + w <= Size(f)
    BY <1>4
  <2>2. \A j \in 1 .. w : o + j \in 1 .. Size(f) /\ s[o + j] = t[j]
    <3>1. ASSUME NEW j \in 1 .. w
          PROVE  o + j \in 1 .. Size(f) /\ s[o + j] = t[j]
      <4>1. o + j \in 1 .. Size(f) /\ e(o + j) = t[j]
        BY <1>5
      <4> QED
        BY <1>7, <4>1
    <3> QED
      BY <3>1
  <2> HIDE DEF o, w, t
  <2>3. /\ r \in Seq(Nat) /\ Len(r) = w
        /\ \A j \in 1 .. w : r[j] = s[o + j]
    BY <1>2, <1>7, <2>1
  <2>4. \A j \in 1 .. w : r[j] = t[j]
    BY <2>2, <2>3
  <2> HIDE DEF r
  <2>5. r = t
    BY <2>1, <2>3, <2>4
  <2> QED
    BY <2>5 DEF r, t, o, w
<1> QED
  BY <1>7, <1>8 DEF s, l, u

\* The deserialisers undo the serialisers, for every value of its type.
LEMMA DeserializeUndoesSerialize ==
    ASSUME NEW f \in Fields \ {"radio"}, NEW v, Typed(f, v)
    PROVE  Deserialize(f, Serialize(f, v)) = v
<1> DEFINE l == Layout[f]
           s == Serialize(f, v)
           d == Deserialize(f, s)
<1>1. ASSUME NEW k \in DOMAIN l
      PROVE  d[k] = v[k]
  <2> DEFINE w == l[k]
             o == Offset(l, k)
             u == v[k] % Values[w]
             b == FromBytes(SubSeq(s, o + 1, o + w))
  <2>1. v[k] \in Member(f, k)
    BY <1>1 DEF Typed
  <2>2. /\ u \in 0 .. Values[w] - 1
        /\ (IF <<f, k>> \in SignedMembers THEN Signed(u, w) ELSE u) = v[k]
    BY <2>1, MemberIs
  <2>3. w \in Widths
    BY LayoutTyped
  <2>4. SubSeq(s, o + 1, o + w) = ToBytes(u, w)
    BY SerializeIs
  <2>5. b = u
    <3>1. FromBytes(ToBytes(u, w)) = u
      <4> HIDE DEF u, w
      <4> QED
        BY <2>2, <2>3, ReadUndoesWrite
    <3> HIDE DEF u, w, o, s
    <3> QED
      BY <2>4, <3>1
  <2>6. d[k] = IF <<f, k>> \in SignedMembers THEN Signed(b, w) ELSE b
    BY DEF Deserialize
  <2> HIDE DEF b, u, w, d
  <2> QED
    BY <2>2, <2>5, <2>6
<1>2. d = [k \in DOMAIN l |-> d[k]]
  BY DEF Deserialize
<1>3. v = [k \in DOMAIN l |-> v[k]]
  BY DEF Typed
<1> HIDE DEF d, l
<1>4. [k \in DOMAIN l |-> d[k]] = [k \in DOMAIN l |-> v[k]]
  BY <1>1
<1> QED
  BY <1>2, <1>3, <1>4 DEF d

-----------------------------------------------------------------------------
(* The radio parameters *)

Switches == {"header", "crc", "iq"}

\* What the first two bytes of the radio parameters are made of.
NibblesOf(b, s, c, w) ==
    b \in Nat /\ (b \div 16) = s /\ (b \div 4) % 4 = c /\ b % 4 = w

LEMMA NibblesAre ==
    ASSUME NEW s \in 0 .. 6, NEW c \in 0 .. 3, NEW w \in 0 .. 3,
           NEW b, b = 16 * s + 4 * c + w
    PROVE  NibblesOf(b, s, c, w)
<1> DEFINE p == 4 * c + w
           q == 4 * s + c
<1>1. /\ b = s * 16 + p /\ p \in 0 .. 15 /\ s \in Nat
      /\ b = q * 4 + w /\ q = s * 4 + c /\ q \in Nat
  OBVIOUS
<1> HIDE DEF p, q
<1>2. b \div 16 = s
  BY <1>1, DivModUnique
<1>3. b \div 4 = q /\ b % 4 = w
  BY <1>1, DivModUnique
<1>4. q % 4 = c
  BY <1>1, DivModUnique
<1>5. b \in Nat
  BY <1>1
<1> QED
  BY <1>2, <1>3, <1>4, <1>5 DEF NibblesOf

LEMMA SwitchesAre ==
    ASSUME NEW h \in {0, 1}, NEW c \in {0, 2}, NEW i \in {0, 4}
    PROVE  LET b == h + c + i
           IN  b \in Nat /\ Bit(b, 1) = h /\ Bit(b, 2) = c /\ Bit(b, 4) = i
<1> USE DEF Bit
<1>1. ASSUME NEW b \in 0 .. 7
      PROVE  /\ b = 0 => Bit(b, 1) = 0 /\ Bit(b, 2) = 0 /\ Bit(b, 4) = 0
             /\ b = 1 => Bit(b, 1) = 1 /\ Bit(b, 2) = 0 /\ Bit(b, 4) = 0
             /\ b = 2 => Bit(b, 1) = 0 /\ Bit(b, 2) = 2 /\ Bit(b, 4) = 0
             /\ b = 3 => Bit(b, 1) = 1 /\ Bit(b, 2) = 2 /\ Bit(b, 4) = 0
             /\ b = 4 => Bit(b, 1) = 0 /\ Bit(b, 2) = 0 /\ Bit(b, 4) = 4
             /\ b = 5 => Bit(b, 1) = 1 /\ Bit(b, 2) = 0 /\ Bit(b, 4) = 4
             /\ b = 6 => Bit(b, 1) = 0 /\ Bit(b, 2) = 2 /\ Bit(b, 4) = 4
             /\ b = 7 => Bit(b, 1) = 1 /\ Bit(b, 2) = 2 /\ Bit(b, 4) = 4
  BY <1>1
<1>2. h + c + i \in 0 .. 7
  OBVIOUS
<1> HIDE DEF Bit
<1> QED
  BY <1>1, <1>2

LEMMA SameSequence ==
    ASSUME NEW a \in Seq(Nat), NEW b \in Seq(Nat), Len(a) = Len(b),
           \A k \in 1 .. Len(a) : a[k] = b[k]
    PROVE  a = b
  OBVIOUS

LEMMA Joined ==
    ASSUME NEW a \in Seq(Nat), NEW b \in Seq(Nat)
    PROVE  /\ a \o b \in Seq(Nat) /\ Len(a \o b) = Len(a) + Len(b)
           /\ \A k \in 1 .. Len(a) : (a \o b)[k] = a[k]
           /\ \A k \in 1 .. Len(b) : (a \o b)[Len(a) + k] = b[k]
  OBVIOUS

LEMMA Between ==
    ASSUME NEW s \in Seq(Nat), NEW m \in 1 .. Len(s), NEW n \in m .. Len(s)
    PROVE  /\ SubSeq(s, m, n) \in Seq(Nat) /\ Len(SubSeq(s, m, n)) = n - m + 1
           /\ \A k \in 1 .. n - m + 1 : SubSeq(s, m, n)[k] = s[m + k - 1]
<1>1. Len(s) \in Nat /\ m \in Nat /\ n \in Nat /\ n - m + 1 \in Nat
  OBVIOUS
<1>2. SubSeq(s, m, n) \in Seq(Nat)
  BY <1>1
<1>3. Len(SubSeq(s, m, n)) = n - m + 1
  BY <1>1
<1>4. \A k \in 1 .. n - m + 1 : SubSeq(s, m, n)[k] = s[m + k - 1]
  BY <1>1
<1> QED
  BY <1>2, <1>3, <1>4

\* Two bytes, and those of a 16 and of a 32 bit number.
EightOf(x, y, a, b) == <<x, y>> \o a \o b

TakenApart(s, x, y, a, b) ==
    /\ s \in Seq(Nat) /\ Len(s) = 8 /\ s[1] = x /\ s[2] = y
    /\ SubSeq(s, 3, 4) = a /\ SubSeq(s, 5, 8) = b

LEMMA EightBytes ==
    ASSUME NEW x \in Nat, NEW y \in Nat, NEW a \in Seq(Nat), Len(a) = 2,
           NEW b \in Seq(Nat), Len(b) = 4
    PROVE  TakenApart(EightOf(x, y, a, b), x, y, a, b)
<1> DEFINE h == <<x, y>>
           t == h \o a
           s == t \o b
<1>1. h \in Seq(Nat) /\ Len(h) = 2 /\ h[1] = x /\ h[2] = y
  OBVIOUS
<1> HIDE DEF h
<1>2. /\ t \in Seq(Nat) /\ Len(t) = Len(h) + Len(a)
      /\ \A k \in 1 .. Len(h) : t[k] = h[k]
      /\ \A k \in 1 .. Len(a) : t[Len(h) + k] = a[k]
  BY <1>1, Joined
<1>3. Len(t) = 4
  BY <1>1, <1>2
<1> HIDE DEF t
<1>4. /\ s \in Seq(Nat) /\ Len(s) = Len(t) + Len(b)
      /\ \A k \in 1 .. Len(t) : s[k] = t[k]
      /\ \A k \in 1 .. Len(b) : s[Len(t) + k] = b[k]
  BY <1>2, Joined
<1>5. Len(s) = 8
  BY <1>3, <1>4
<1> HIDE DEF s
<1>6. s[1] = x /\ s[2] = y
  <2>1. 1 \in 1 .. Len(t) /\ 2 \in 1 .. Len(t) /\ 1 \in 1 .. Len(h) /\ 2 \in 1 .. Len(h)
    BY <1>1, <1>3
  <2>2. s[1] = t[1] /\ s[2] = t[2] /\ t[1] = h[1] /\ t[2] = h[2]
    BY <1>2, <1>4, <2>1
  <2> QED
    BY <1>1, <2>2
<1>7. SubSeq(s, 3, 4) = a
  <2> DEFINE r == SubSeq(s, 3, 4)
  <2>1. 3 \in 1 .. Len(s) /\ 4 \in 3 .. Len(s) /\ 4 - 3 + 1 = 2
    BY <1>5
  <2>2. /\ r \in Seq(Nat) /\ Len(r) = 4 - 3 + 1
        /\ \A k \in 1 .. 4 - 3 + 1 : r[k] = s[3 + k - 1]
    BY <1>4, <2>1, Between
  <2> HIDE DEF r
  <2>3. ASSUME NEW k \in 1 .. 2
        PROVE  r[k] = a[k]
    <3>1. 3 + k - 1 = 2 + k /\ 2 + k \in 1 .. Len(t) /\ k \in 1 .. Len(a)
      BY <1>3
    <3>2. r[k] = s[2 + k]
      BY <2>1, <2>2, <3>1
    <3>3. s[2 + k] = t[2 + k]
      BY <1>4, <3>1
    <3>4. t[2 + k] = a[k]
      BY <1>1, <1>2, <3>1
    <3> QED
      BY <3>2, <3>3, <3>4
  <2>4. r = a
    BY <2>1, <2>2, <2>3, SameSequence
  <2> QED
    BY <2>4 DEF r
<1>8. SubSeq(s, 5, 8) = b
  <2> DEFINE r == SubSeq(s, 5, 8)
  <2>1. 5 \in 1 .. Len(s) /\ 8 \in 5 .. Len(s) /\ 8 - 5 + 1 = 4
    BY <1>5
  <2>2. /\ r \in Seq(Nat) /\ Len(r) = 8 - 5 + 1
        /\ \A k \in 1 .. 8 - 5 + 1 : r[k] = s[5 + k - 1]
    BY <1>4, <2>1, Between
  <2> HIDE DEF r
  <2>3. ASSUME NEW k \in 1 .. 4
        PROVE  r[k] = b[k]
    <3>1. 5 + k - 1 = 4 + k /\ k \in 1 .. Len(b)
      OBVIOUS
    <3>2. r[k] = s[4 + k]
      BY <2>1, <2>2, <3>1
    <3>3. s[4 + k] = b[k]
      BY <1>3, <1>4, <3>1
    <3> QED
      BY <3>2, <3>3
  <2>4. r = b
    BY <2>1, <2>2, <2>3, SameSequence
  <2> QED
    BY <2>4 DEF r
<1>9. EightOf(x, y, a, b) = s
  BY DEF EightOf, s, t, h
<1>10. TakenApart(s, x, y, a, b)
  BY <1>4, <1>5, <1>6, <1>7, <1>8 DEF TakenApart
<1> QED
  BY <1>9, <1>10

\* What ll_radio_params_get makes of the bytes of some parameters: a parameter
\* that was not sent reads as its least value.
LEMMA UnpackUndoesPack ==
    ASSUME NEW F \in SUBSET RadioParams, NEW p, RadioTyped(p), RadioAccepts(F, p)
    PROVE  LET b == PackRadio(F, p)
               u == UnpackRadio(b)
               Of(k, v, w) == IF k \in F THEN v ELSE w
           IN  /\ b \in Seq(Nat) /\ Len(b) = 8
               /\ u \in [RadioParams -> Nat]
               /\ u["sf"] = Of("sf", p["sf"], 6) /\ u["cr"] = Of("cr", p["cr"], 1)
               /\ u["bw"] = Of("bw", p["bw"], 0)
               /\ u["header"] = Of("header", Flag(p["header"], 1), 0)
               /\ u["crc"] = Of("crc", Flag(p["crc"], 2), 0)
               /\ u["iq"] = Of("iq", Flag(p["iq"], 4), 0)
               /\ u["preamble"] = Of("preamble", p["preamble"], 0)
               /\ u["freq"] = Of("freq", p["freq"], 0)
<1> DEFINE Of(k, v) == IF k \in F THEN v ELSE 0
           s == Of("sf", (p.sf - 6) % 8)
           c == Of("cr", (p.cr - 1) % 4)
           w == Of("bw", p.bw % 4)
           h == Of("header", Flag(p.header, 1))
           r == Of("crc", Flag(p.crc, 2))
           i == Of("iq", Flag(p.iq, 4))
           m == Of("preamble", p.preamble)
           q == Of("freq", p.freq)
           x == 16 * s + 4 * c + w
           y == h + r + i
           a == ToBytes(m, 2)
           z == ToBytes(q, 4)
           b == EightOf(x, y, a, z)
           u == UnpackRadio(b)
<1>1. /\ "sf" \in RadioParams /\ "cr" \in RadioParams /\ "bw" \in RadioParams
      /\ "preamble" \in RadioParams /\ "freq" \in RadioParams
      /\ p["sf"] \in Nat /\ p["cr"] \in Nat /\ p["bw"] \in Nat
      /\ p["preamble"] \in 0 .. Values[2] - 1 /\ p["freq"] \in 0 .. Values[4] - 1
  <2>1. Values[2] \in Nat /\ Values[4] \in Nat
    BY ValuesTyped
  <2> QED
    BY <2>1 DEF RadioTyped, RadioParams
<1>2. s \in 0 .. 6 /\ s + 6 = IF "sf" \in F THEN p["sf"] ELSE 6
  <2>1. ASSUME NEW n \in 6 .. 12 PROVE (n - 6) % 8 = n - 6
    BY <2>1
  <2> QED
    BY <2>1 DEF RadioAccepts
<1>3. c \in 0 .. 3 /\ c + 1 = IF "cr" \in F THEN p["cr"] ELSE 1
  <2>1. ASSUME NEW n \in 1 .. 4 PROVE (n - 1) % 4 = n - 1
    BY <2>1
  <2> QED
    BY <2>1 DEF RadioAccepts
<1>4. w \in 0 .. 3 /\ w = IF "bw" \in F THEN p["bw"] ELSE 0
  <2>1. ASSUME NEW n \in 0 .. 3 PROVE n % 4 = n
    BY <2>1
  <2> QED
    BY <1>1, <2>1 DEF RadioAccepts
<1>5. h \in {0, 1} /\ r \in {0, 2} /\ i \in {0, 4}
  BY DEF Flag
<1>6. m \in 0 .. Values[2] - 1 /\ q \in 0 .. Values[4] - 1
  BY <1>1, ValuesTyped
<1> HIDE DEF s, c, w, h, r, i, m, q
<1>7. /\ x \in Nat /\ (x \div 16) = s /\ (x \div 4) % 4 = c /\ x % 4 = w
  <2>1. s \in 0 .. 6 /\ c \in 0 .. 3 /\ w \in 0 .. 3
    BY <1>2, <1>3, <1>4
  <2>2. x = 16 * s + 4 * c + w
    OBVIOUS
  <2> HIDE DEF x
  <2>3. NibblesOf(x, s, c, w)
    BY <2>1, <2>2, NibblesAre
  <2> QED
    BY <2>3 DEF NibblesOf
<1>8. y \in Nat /\ Bit(y, 1) = h /\ Bit(y, 2) = r /\ Bit(y, 4) = i
  BY <1>5, SwitchesAre
<1>9. /\ a \in Seq(Nat) /\ Len(a) = 2 /\ FromBytes(a) = m
      /\ z \in Seq(Nat) /\ Len(z) = 4 /\ FromBytes(z) = q
  <2>1. 2 \in Widths /\ 4 \in Widths /\ m \in Nat /\ q \in Nat
    BY <1>6 DEF Widths
  <2> QED
    BY <1>6, <2>1, BytesTyped, ReadUndoesWrite
<1> HIDE DEF x, y, a, z
<1>10. /\ b \in Seq(Nat) /\ Len(b) = 8 /\ b[1] = x /\ b[2] = y
       /\ SubSeq(b, 3, 4) = a /\ SubSeq(b, 5, 8) = z
  <2>1. x \in Nat /\ y \in Nat
    BY <1>7, <1>8
  <2>2. a \in Seq(Nat) /\ Len(a) = 2 /\ z \in Seq(Nat) /\ Len(z) = 4
    BY <1>9
  <2>3. TakenApart(b, x, y, a, z)
    BY <2>1, <2>2, EightBytes
  <2> QED
    BY <2>3 DEF TakenApart
<1> HIDE DEF b
<1>11. /\ u = [sf |-> s + 6, cr |-> c + 1, bw |-> w, header |-> h, crc |-> r,
               iq |-> i, preamble |-> m, freq |-> q]
  BY <1>7, <1>8, <1>9, <1>10 DEF UnpackRadio
<1>12. PackRadio(F, p) = b
  BY DEF PackRadio, EightOf, b, x, y, a, z, s, c, w, h, r, i, m, q
<1>13. s \in Nat /\ c \in Nat /\ w \in Nat /\ h \in Nat /\ r \in Nat /\ i \in Nat
       /\ m \in Nat /\ q \in Nat
  BY <1>2, <1>3, <1>4, <1>5, <1>6
<1>14. u \in [RadioParams -> Nat]
  BY <1>11, <1>13 DEF RadioParams
<1>15. /\ u["sf"] = s + 6 /\ u["cr"] = c + 1 /\ u["bw"] = w /\ u["header"] = h
       /\ u["crc"] = r /\ u["iq"] = i /\ u["preamble"] = m /\ u["freq"] = q
  BY <1>11
<1> HIDE DEF u
<1>16. /\ h = IF "header" \in F THEN Flag(p["header"], 1) ELSE 0
       /\ r = IF "crc" \in F THEN Flag(p["crc"], 2) ELSE 0
       /\ i = IF "iq" \in F THEN Flag(p["iq"], 4) ELSE 0
       /\ m = IF "preamble" \in F THEN p["preamble"] ELSE 0
       /\ q = IF "freq" \in F THEN p["freq"] ELSE 0
  BY DEF h, r, i, m, q
<1> QED
  BY <1>2, <1>3, <1>4, <1>10, <1>12, <1>14, <1>15, <1>16 DEF u

\* Parameters that ll_radio_params_set takes when all of them are set.
Legal(p) == RadioTyped(p) /\ RadioAccepts(RadioParams, p)

LEMMA RadioIs ==
    ASSUME NEW p \in [RadioParams -> Nat], NEW k \in RadioParams
    PROVE  Radio(p)[k] = IF k \in Switches THEN Flag(p[k], 1) ELSE p[k]
<1>1. p["header"] = p.header /\ p["crc"] = p.crc /\ p["iq"] = p.iq
  OBVIOUS
<1> QED
  BY DEF Radio, RadioParams, Switches

\* What was sent is read back, and the rest is legal.
LEMMA RadioReadsBack ==
    ASSUME NEW F \in SUBSET RadioParams, NEW p, RadioTyped(p), RadioAccepts(F, p)
    PROVE  /\ PackRadio(F, p) \in Seq(Nat) /\ Len(PackRadio(F, p)) = 8
           /\ Legal(UnpackRadio(PackRadio(F, p)))
           /\ \A k \in F : Radio(UnpackRadio(PackRadio(F, p)))[k] = Radio(p)[k]
<1> DEFINE b == PackRadio(F, p)
           u == UnpackRadio(b)
           Of(k, v, w) == IF k \in F THEN v ELSE w
<1>1. /\ b \in Seq(Nat) /\ Len(b) = 8
      /\ u \in [RadioParams -> Nat]
      /\ u["sf"] = Of("sf", p["sf"], 6) /\ u["cr"] = Of("cr", p["cr"], 1)
      /\ u["bw"] = Of("bw", p["bw"], 0)
      /\ u["header"] = Of("header", Flag(p["header"], 1), 0)
      /\ u["crc"] = Of("crc", Flag(p["crc"], 2), 0)
      /\ u["iq"] = Of("iq", Flag(p["iq"], 4), 0)
      /\ u["preamble"] = Of("preamble", p["preamble"], 0)
      /\ u["freq"] = Of("freq", p["freq"], 0)
  BY UnpackUndoesPack
<1> HIDE DEF u, b
<1>2. /\ p \in [RadioParams -> Nat] /\ F \subseteq RadioParams
      /\ p["preamble"] < Values[2] /\ p["freq"] < Values[4]
      /\ 0 < Values[2] /\ 0 < Values[4]
  BY ValuesTyped DEF RadioTyped
<1>3. RadioTyped(u)
  <2>1. u["preamble"] < Values[2] /\ u["freq"] < Values[4]
    BY <1>1, <1>2
  <2> QED
    BY <1>1, <2>1 DEF RadioTyped
<1>4. RadioAccepts(RadioParams, u)
  <2>1. u["sf"] \in 6 .. 12 /\ u["cr"] \in 1 .. 4 /\ u["bw"] <= 3
    BY <1>1 DEF RadioAccepts
  <2> QED
    BY <2>1 DEF RadioAccepts
<1>5. ASSUME NEW k \in F
      PROVE  Radio(u)[k] = Radio(p)[k]
  <2>1. k \in RadioParams
    BY <1>2
  <2>2. /\ Radio(u)[k] = IF k \in Switches THEN Flag(u[k], 1) ELSE u[k]
        /\ Radio(p)[k] = IF k \in Switches THEN Flag(p[k], 1) ELSE p[k]
    BY <1>1, <1>2, <2>1, RadioIs
  <2>3. CASE k \in Switches
    <3>1. \/ u[k] = Flag(p[k], 1) \/ u[k] = Flag(p[k], 2) \/ u[k] = Flag(p[k], 4)
      BY <1>1, <2>3 DEF Switches
    <3>2. Flag(u[k], 1) = Flag(p[k], 1)
      BY <3>1 DEF Flag
    <3> QED
      BY <2>2, <2>3, <3>2
  <2>4. CASE k \notin Switches
    <3>1. k \in {"sf", "cr", "bw", "preamble", "freq"}
      BY <2>1, <2>4 DEF RadioParams, Switches
    <3>2. u[k] = p[k]
      BY <1>1, <3>1
    <3> QED
      BY <2>2, <2>4, <3>2
  <2> QED
    BY <2>3, <2>4
<1> QED
  BY <1>1, <1>3, <1>4, <1>5 DEF Legal, u, b

LEMMA MergeIsLegal ==
    ASSUME NEW F \in SUBSET RadioParams, NEW p, Legal(p), NEW q, Legal(q)
    PROVE  /\ Legal(Merge(F, p, q))
           /\ \A k \in RadioParams :
                 Radio(Merge(F, p, q))[k] = IF k \in F THEN Radio(p)[k] ELSE Radio(q)[k]
<1> DEFINE m == Merge(F, p, q)
<1>1. p \in [RadioParams -> Nat] /\ q \in [RadioParams -> Nat]
  BY DEF Legal, RadioTyped
<1>2. /\ m \in [RadioParams -> Nat]
      /\ \A k \in RadioParams : m[k] = IF k \in F THEN p[k] ELSE q[k]
  BY <1>1 DEF Merge
<1> HIDE DEF m
<1>3. RadioTyped(m)
  BY <1>2 DEF Legal, RadioTyped, RadioParams
<1>4. RadioAccepts(RadioParams, m)
  BY <1>2 DEF Legal, RadioAccepts, RadioParams
<1>5. ASSUME NEW k \in RadioParams
      PROVE  Radio(m)[k] = IF k \in F THEN Radio(p)[k] ELSE Radio(q)[k]
  BY <1>1, <1>2, RadioIs
<1> QED
  BY <1>3, <1>4, <1>5 DEF Legal, m

-----------------------------------------------------------------------------
(* Setters and getters *)

\* What a getter makes of the value v of the field f.
AsRead(f, v) == IF f = "radio" THEN Radio(v.params) ELSE v

LEMMA RadioIsDecoded ==
    ASSUME NEW v, Typed("radio", v), Accepts("radio", v), v.flags = RadioParams
    PROVE  Decode("radio", Encode("radio", v)) = Radio(v.params)
<1> DEFINE u == UnpackRadio(PackRadio(RadioParams, v.params))
<1>1. RadioTyped(v.params) /\ RadioAccepts(RadioParams, v.params)
  BY DEF Typed, Accepts
<1>2. Legal(u) /\ \A k \in RadioParams : Radio(u)[k] = Radio(v.params)[k]
  BY <1>1, RadioReadsBack
<1> HIDE DEF u
<1>3. u \in [RadioParams -> Nat] /\ v.params \in [RadioParams -> Nat]
  BY <1>1, <1>2 DEF Legal, RadioTyped
<1>4. ASSUME NEW p \in [RadioParams -> Nat]
      PROVE  Radio(p) = [k \in RadioParams |-> Radio(p)[k]]
  BY DEF Radio
<1>5. Radio(u) = Radio(v.params)
  <2>1. /\ Radio(u) = [k \in RadioParams |-> Radio(u)[k]]
        /\ Radio(v.params) = [k \in RadioParams |-> Radio(v.params)[k]]
    BY <1>3, <1>4
  <2> QED
    BY <1>2, <2>1
<1> QED
  BY <1>5 DEF Decode, Encode, u

\* Every setter sends as many bytes as its field has, and its getter makes the
\* value that was set of them (ll_config_set and _get, ll_radio_params_set and
\* _get, the pairs of ll_ifc_symphony.c and ll_ifc_no_mac.c, the serialisers).
THEOREM GettersUndoSetters ==
    ASSUME NEW f \in Fields, NEW v, Typed(f, v), Accepts(f, v),
           f = "radio" => v.flags = RadioParams
    PROVE  /\ Encode(f, v) \in Seq(Nat) /\ Len(Encode(f, v)) = Size(f)
           /\ Decode(f, Encode(f, v)) = AsRead(f, v)
<1>1. CASE f = "radio"
  <2>1. RadioTyped(v.params) /\ RadioAccepts(RadioParams, v.params)
    BY <1>1 DEF Typed, Accepts
  <2>2. PackRadio(RadioParams, v.params) \in Seq(Nat)
        /\ Len(PackRadio(RadioParams, v.params)) = 8
    BY <2>1, RadioReadsBack
  <2>3. Encode(f, v) = PackRadio(RadioParams, v.params) /\ Size(f) = 8
    BY <1>1 DEF Encode, Size
  <2> QED
    BY <1>1, <2>2, <2>3, RadioIsDecoded DEF AsRead
<1>2. CASE f # "radio"
  BY <1>2, SerializeIs, DeserializeUndoesSerialize DEF Encode, Decode, AsRead
<1> QED
  BY <1>1, <1>2
=============================================================================
