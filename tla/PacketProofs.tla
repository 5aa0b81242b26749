----------------------------- MODULE PacketProofs -----------------------------
(* A packet that leaves a handler verifies against both checksums, and the
   receiving stack gets the packet the sending stack made: for bytes of any
   width, any numbers, options, tokens and padding.

   One's complement sums are arithmetic modulo B - 1 with two zeros.  What a
   fold computes is therefore told by two facts, its residue and whether it is 0;
   no other property of the loops is used.                                    *)
EXTENDS Packet, SequenceTheorems, WellFoundedInduction, TLAPS

-----------------------------------------------------------------------------
(* ARITHMETIC *)

M == B - 1

(* The multiples of B - 1. *)
Mult == {k * M : k \in Int}

LEMMA Sizes ==
    /\ H \in Nat /\ H >= 16 /\ B \in Nat /\ B >= 256 /\ M \in Nat /\ M >= 255 /\ B = M + 1
    /\ OffsetUnit \in Nat /\ B = 16 * OffsetUnit
<1>1. H \in Nat /\ H >= 16 /\ H % 4 = 0
  BY WidthAssumption
<1>2. H * H \in Nat /\ H * H >= 256
  BY <1>1
<1>3. PICK h \in Nat : H = 4 * h
  <2>1. H = 4 * (H \div 4) /\ H \div 4 \in Nat
    BY <1>1
  <2> QED  BY <2>1
<1>4. h * h \in Nat /\ H * H = 16 * (h * h)
  BY <1>3
<1>5. OffsetUnit \in Nat /\ B = 16 * OffsetUnit
  BY <1>4 DEF OffsetUnit, B
<1> QED  BY <1>1, <1>2, <1>5 DEF B, M

LEMMA Division ==
    ASSUME NEW a \in Int, NEW d \in Nat, d > 0
    PROVE  /\ a \div d \in Int /\ a % d \in 0 .. (d - 1)
           /\ a = d * (a \div d) + (a % d)
OBVIOUS

LEMMA Monotone ==
    ASSUME NEW d \in Nat, NEW k \in Int, k >= 1
    PROVE  k * d >= d
OBVIOUS

LEMMA Negative ==
    ASSUME NEW d \in Nat, NEW k \in Int, k <= -1
    PROVE  k * d <= - d
OBVIOUS

LEMMA Distribute ==
    ASSUME NEW d \in Int, NEW k \in Int, NEW l \in Int
    PROVE  k * d + l * d = (k + l) * d /\ k * d - l * d = (k - l) * d /\ k * d \in Int
OBVIOUS

LEMMA MultIn ==
    ASSUME NEW k \in Int
    PROVE  k * M \in Mult
BY Zenon DEF Mult

LEMMA MultFacts ==
    /\ Mult \subseteq Int /\ 0 \in Mult /\ M \in Mult /\ B * B - 1 \in Mult
    /\ \A x, y \in Mult : x + y \in Mult /\ x - y \in Mult
    /\ \A x \in Mult : - x \in Mult
<1>0. M \in Int /\ B \in Int /\ B = M + 1
  BY Sizes
<1>1. Mult \subseteq Int
  BY <1>0 DEF Mult
<1>2. 0 \in Mult
  <2>1. 0 * M = 0
    BY <1>0
  <2> QED  BY <2>1, MultIn
<1>3. M \in Mult
  <2>1. 1 * M = M
    BY <1>0
  <2> QED  BY <2>1, MultIn
<1>4. B * B - 1 \in Mult
  <2>1. B * B - 1 = (M + 2) * M
    BY <1>0
  <2>2. M + 2 \in Int
    BY <1>0
  <2> QED  BY <2>1, <2>2, MultIn
<1>5. ASSUME NEW x \in Mult, NEW y \in Mult
      PROVE  x + y \in Mult /\ x - y \in Mult
  <2>1. PICK k \in Int : x = k * M
    BY Zenon DEF Mult
  <2>2. PICK l \in Int : y = l * M
    BY Zenon DEF Mult
  <2>3. x + y = (k + l) * M /\ x - y = (k - l) * M /\ k + l \in Int /\ k - l \in Int
    BY <1>0, <2>1, <2>2, Distribute
  <2> QED  BY <2>3, MultIn
<1>6. ASSUME NEW x \in Mult PROVE - x \in Mult
  <2>1. 0 - x \in Mult /\ x \in Int
    BY <1>1, <1>2, <1>5
  <2>2. 0 - x = - x
    BY <2>1
  <2> QED  BY <2>1, <2>2
<1> QED  BY <1>1, <1>2, <1>3, <1>4, <1>5, <1>6

(* Between two neighbours there is no multiple. *)
LEMMA MultSmall ==
    ASSUME NEW x \in Mult, - M < x, x < M
    PROVE  x = 0
<1>0. M \in Nat /\ M >= 255
  BY Sizes
<1>1. PICK k \in Int : x = k * M
  BY Zenon DEF Mult
<1>2. ~ (k >= 1)
  BY <1>0, <1>1, Monotone
<1>3. ~ (k <= -1)
  BY <1>0, <1>1, Negative
<1>4. k = 0
  BY <1>2, <1>3
<1> QED  BY <1>0, <1>1, <1>4

-----------------------------------------------------------------------------
(* FOLDING *)

LEMMA Least ==
    ASSUME NEW T, T \subseteq Nat, T # {}
    PROVE  \E x \in T : \A y \in T : ~ (y < x)
<1>1. \E x \in T : \A y \in T : ~ (<<y, x>> \in OpToRel(<, Nat))
  BY NatLessThanWellFounded, WFMin, Zenon
<1>2. \A x, y \in Nat : y < x => <<y, x>> \in OpToRel(<, Nat)
  BY Zenon DEF OpToRel
<1> QED  BY <1>1, <1>2, Zenon

(* r is a folded: the same modulo B - 1, and 0 only for 0. *)
Residue(a, r) == r \in 0 .. M /\ a - r \in Mult /\ (r = 0 <=> a = 0)

LEMMA ResidueExists ==
    ASSUME NEW a \in Nat
    PROVE  \E r \in 0 .. M : Residue(a, r)
<1>0. M \in Nat /\ M >= 255
  BY Sizes
<1>1. CASE a = 0
  <2>1. a - 0 \in Mult /\ 0 \in 0 .. M
    BY <1>0, <1>1, MultFacts
  <2> QED  BY <1>1, <2>1 DEF Residue
<1>2. CASE a # 0
  <2> DEFINE r == ((a - 1) % M) + 1
             k == (a - 1) \div M
  <2>1. k \in Int /\ (a - 1) % M \in 0 .. (M - 1) /\ a - 1 = M * k + ((a - 1) % M)
    BY <1>0, <1>2, Division
  <2>2. r \in 1 .. M
    BY <1>0, <2>1
  <2>3. a - r = k * M
    BY <1>0, <2>1
  <2>4. a - r \in Mult
    BY <2>1, <2>3, MultIn
  <2> HIDE DEF r
  <2> QED  BY <1>0, <1>2, <2>2, <2>4 DEF Residue
<1> QED  BY <1>1, <1>2

LEMMA ResidueUnique ==
    ASSUME NEW a \in Nat, NEW r, NEW s, Residue(a, r), Residue(a, s)
    PROVE  r = s
<1>0. M \in Nat /\ r \in 0 .. M /\ s \in 0 .. M
  BY Sizes DEF Residue
<1>1. (a - r) - (a - s) \in Mult
  BY MultFacts DEF Residue
<1>2. s - r \in Mult
  <2>1. (a - r) - (a - s) = s - r
    BY <1>0
  <2> QED  BY <1>1, <2>1
<1>3. CASE a = 0
  BY <1>3 DEF Residue
<1>4. CASE a # 0
  <2>1. r # 0 /\ s # 0
    BY <1>4 DEF Residue
  <2>2. - M < s - r /\ s - r < M
    BY <1>0, <2>1
  <2>3. s - r = 0
    BY <1>2, <2>2, MultSmall
  <2> QED  BY <1>0, <2>3
<1> QED  BY <1>3, <1>4

(* One turn of the loop keeps the residue and makes the sum smaller. *)
LEMMA FoldTurn ==
    ASSUME NEW a \in Nat, ~ (a < B)
    PROVE  /\ (a % B) + (a \div B) \in Nat
           /\ (a % B) + (a \div B) < a
           /\ \A r : Residue((a % B) + (a \div B), r) => Residue(a, r)
<1>0. B \in Nat /\ B >= 256 /\ M = B - 1 /\ M \in Nat
  BY Sizes
<1> DEFINE m == a % B
           d == a \div B
<1>1. d \in Int /\ m \in 0 .. (B - 1) /\ a = B * d + m
  BY <1>0, Division
<1>2. d >= 1
  <2>1. CASE d <= 0
    <3>1. B * d <= 0
      BY <1>0, <1>1, <2>1
    <3> QED  BY <1>0, <1>1, <3>1
  <2> QED  BY <1>1, <2>1
<1>3. m + d \in Nat /\ m + d # 0
  BY <1>1, <1>2
<1>4. a - (m + d) = d * M
  BY <1>0, <1>1
<1>5. d * M >= M
  BY <1>0, <1>1, <1>2, Monotone
<1>6. m + d < a
  BY <1>0, <1>1, <1>3, <1>4, <1>5
<1>7. a - (m + d) \in Mult
  BY <1>1, <1>4, MultIn
<1> HIDE DEF m, d
<1>8. ASSUME NEW r, Residue(m + d, r)
      PROVE  Residue(a, r)
  <2>1. r \in 0 .. M /\ (m + d) - r \in Mult /\ r # 0
    BY <1>3, <1>8 DEF Residue
  <2>2. (a - (m + d)) + ((m + d) - r) \in Mult
    BY <1>7, <2>1, MultFacts, Zenon
  <2>3. (a - (m + d)) + ((m + d) - r) = a - r
    BY <1>0, <1>3, <2>1
  <2>4. a # 0
    BY <1>0
  <2> QED  BY <2>1, <2>2, <2>3, <2>4 DEF Residue
<1> QED  BY <1>3, <1>6, <1>8 DEF m, d

(* The loop ends: there is a function that satisfies its equation. *)
LEMMA FoldLoop ==
    Fold = [a \in Nat |-> IF a < B THEN a ELSE Fold[(a % B) + (a \div B)]]
<1> DEFINE c(a) == CHOOSE r \in 0 .. M : Residue(a, r)
           g == [a \in Nat |-> c(a)]
<1>0. B \in Nat /\ B = M + 1 /\ M \in Nat
  BY Sizes
<1>1. ASSUME NEW a \in Nat PROVE Residue(a, g[a])
  BY ResidueExists, Zenon
<1> HIDE DEF c, g
<1>2. ASSUME NEW a \in Nat
      PROVE  g[a] = IF a < B THEN a ELSE g[(a % B) + (a \div B)]
  <2>1. CASE a < B
    <3>1. a \in 0 .. M /\ a - a = 0
      BY <1>0, <2>1
    <3>2. Residue(a, a)
      BY <3>1, MultFacts DEF Residue
    <3>3. g[a] = a
      BY <1>1, <3>2, ResidueUnique
    <3> QED  BY <2>1, <3>3
  <2>2. CASE ~ (a < B)
    <3>1. Residue(a, g[(a % B) + (a \div B)])
      BY <2>2, <1>1, FoldTurn
    <3>2. g[a] = g[(a % B) + (a \div B)]
      BY <1>1, <3>1, ResidueUnique
    <3> QED  BY <2>2, <3>2
  <2> QED  BY <2>1, <2>2
<1>3. g = [a \in Nat |-> IF a < B THEN a ELSE g[(a % B) + (a \div B)]]
  <2>1. g = [a \in Nat |-> g[a]]
    BY DEF g
  <2> QED  BY <1>2, <2>1, Zenon
<1>4. \E f : f = [a \in Nat |-> IF a < B THEN a ELSE f[(a % B) + (a \div B)]]
  BY <1>3, Zenon
<1> QED  BY <1>4, Zenon DEF Fold

(* What the loop computes. *)
LEMMA FoldResidue ==
    ASSUME NEW a \in Nat
    PROVE  Residue(a, Fold[a])
<1> DEFINE T == {x \in Nat : ~ Residue(x, Fold[x])}
<1>0. B \in Nat /\ B = M + 1 /\ M \in Nat
  BY Sizes
<1>1. \A x \in Nat : Fold[x] = IF x < B THEN x ELSE Fold[(x % B) + (x \div B)]
  BY FoldLoop, Zenon
<1>2. SUFFICES ASSUME T # {} PROVE FALSE
  BY Zenon
<1>3. PICK x \in T : \A y \in T : ~ (y < x)
  BY <1>2, Least, Zenon
<1>4. x \in Nat /\ ~ Residue(x, Fold[x])
  OBVIOUS
<1>5. CASE x < B
  <2>1. Fold[x] = x /\ x \in 0 .. M /\ x - x = 0
    BY <1>0, <1>1, <1>4, <1>5
  <2>2. Residue(x, x)
    BY <2>1, MultFacts DEF Residue
  <2> QED  BY <1>4, <2>1, <2>2
<1>6. CASE ~ (x < B)
  <2> DEFINE y == (x % B) + (x \div B)
  <2>1. y \in Nat /\ y < x /\ \A r : Residue(y, r) => Residue(x, r)
    BY <1>4, <1>6, FoldTurn, Zenon
  <2>2. Fold[x] = Fold[y]
    BY <1>1, <1>4, <1>6, Zenon
  <2> HIDE DEF y
  <2>3. Residue(y, Fold[y])
    BY <1>3, <2>1, Zenon
  <2> QED  BY <1>4, <2>1, <2>2, <2>3, Zenon
<1> QED  BY <1>5, <1>6

-----------------------------------------------------------------------------
(* SUMS OF BYTES *)

Half(bytes) == (Len(bytes) + 1) \div 2
Total(bytes) == Sums(bytes)[Half(bytes)]

(* A loop over n words ends. *)
LEMMA LoopEnds ==
    ASSUME NEW w, NEW n \in Nat
    PROVE  \E f : f = [i \in 0 .. n |-> IF i = 0 THEN 0 ELSE f[i - 1] + w[i]]
<1> DEFINE P(m) == \E f : f = [i \in 0 .. m |-> IF i = 0 THEN 0 ELSE f[i - 1] + w[i]]
           T == {m \in Nat : ~ P(m)}
<1>1. SUFFICES ASSUME T # {} PROVE FALSE
  BY Zenon
<1>2. PICK m \in T : \A y \in T : ~ (y < m)
  BY <1>1, Least, Zenon
<1>3. m \in Nat /\ ~ P(m)
  BY Zenon
<1>4. CASE m = 0
  <2> DEFINE g == [i \in 0 .. 0 |-> 0]
  <2>1. g = [i \in 0 .. 0 |-> IF i = 0 THEN 0 ELSE g[i - 1] + w[i]]
    OBVIOUS
  <2> QED  BY <1>3, <1>4, <2>1, Zenon
<1>5. CASE m # 0
  <2>1. m - 1 \in Nat /\ m - 1 < m
    BY <1>3, <1>5
  <2>2. P(m - 1)
    BY <1>2, <2>1, Zenon
  <2>3. PICK f : f = [i \in 0 .. (m - 1) |-> IF i = 0 THEN 0 ELSE f[i - 1] + w[i]]
    BY <2>2, Zenon
  <2> DEFINE g == [i \in 0 .. m |-> IF i = 0 THEN 0 ELSE f[i - 1] + w[i]]
  <2>4. \A i \in 0 .. (m - 1) : f[i] = IF i = 0 THEN 0 ELSE f[i - 1] + w[i]
    BY <2>3, Zenon
  <2>5. \A i \in 0 .. (m - 1) : i \in 0 .. m
    BY <1>3
  <2>6. \A i \in 0 .. m : g[i] = IF i = 0 THEN 0 ELSE f[i - 1] + w[i]
    BY Zenon
  <2>7. \A i \in 0 .. (m - 1) : g[i] = f[i]
    BY <2>4, <2>5, <2>6, Zenon
  <2>8. \A i \in 0 .. m : i # 0 => i - 1 \in 0 .. (m - 1)
    BY <1>3
  <2>9. \A i \in 0 .. m : g[i] = IF i = 0 THEN 0 ELSE g[i - 1] + w[i]
    BY <2>6, <2>7, <2>8, Zenon
  <2>10. g = [i \in 0 .. m |-> g[i]]
    BY Zenon
  <2> HIDE DEF g
  <2>11. g = [i \in 0 .. m |-> IF i = 0 THEN 0 ELSE g[i - 1] + w[i]]
    BY <2>9, <2>10, Zenon
  <2> QED  BY <1>3, <2>11, Zenon
<1> QED  BY <1>4, <1>5

LEMMA HalfFacts ==
    ASSUME NEW s \in Seq(Bytes)
    PROVE  /\ Len(s) \in Nat /\ Half(s) \in Nat
           /\ \A i \in 1 .. Half(s) : Word(s, i) \in Nat
<1>0. H \in Nat
  BY Sizes
<1>1. Len(s) \in Nat /\ \A j \in 1 .. Len(s) : s[j] \in Nat
  BY <1>0 DEF Bytes
<1>2. Half(s) \in Nat /\ \A i \in 1 .. Half(s) : 2 * i - 1 \in 1 .. Len(s) /\ 2 * i \in Nat \ {0}
  BY <1>1 DEF Half
<1>3. ASSUME NEW i \in 1 .. Half(s) PROVE Word(s, i) \in Nat
  <2>1. s[2 * i - 1] \in Nat
    BY <1>1, <1>2
  <2>2. s[2 * i - 1] * H \in Nat
    BY <1>0, <2>1
  <2>3. 2 * i <= Len(s) => s[2 * i] \in Nat
    <3>1. 2 * i <= Len(s) => 2 * i \in 1 .. Len(s)
      BY <1>1, <1>2
    <3> QED  BY <1>1, <3>1
  <2> QED  BY <2>2, <2>3 DEF Word
<1> QED  BY <1>1, <1>2, <1>3

LEMMA SumsLoop ==
    ASSUME NEW s \in Seq(Bytes)
    PROVE  /\ Sums(s)[0] = 0
           /\ \A i \in 1 .. Half(s) : Sums(s)[i] = Sums(s)[i - 1] + Word(s, i)
<1>0. Half(s) \in Nat
  BY HalfFacts
<1> DEFINE w == [i \in 1 .. Half(s) |-> Word(s, i)]
           Is(f) == f = [i \in 0 .. Half(s) |-> IF i = 0 THEN 0 ELSE f[i - 1] + Word(s, i)]
<1>1. PICK f : f = [i \in 0 .. Half(s) |-> IF i = 0 THEN 0 ELSE f[i - 1] + w[i]]
  BY <1>0, LoopEnds, Zenon
<1>2. \A i \in 0 .. Half(s) : i # 0 => w[i] = Word(s, i)
  <2>1. \A i \in 0 .. Half(s) : i # 0 => i \in 1 .. Half(s)
    BY <1>0
  <2> QED  BY <2>1, Zenon
<1> HIDE DEF w
<1>3. Is(f)
  BY <1>1, <1>2, Zenon
<1>4. Is(Sums(s))
  BY <1>3, Zenon DEF Sums, Half
<1>5. \A i \in 0 .. Half(s) : Sums(s)[i] = IF i = 0 THEN 0 ELSE Sums(s)[i - 1] + Word(s, i)
  BY <1>4, Zenon
<1>6. 0 \in 0 .. Half(s) /\ \A i \in 1 .. Half(s) : i \in 0 .. Half(s) /\ i # 0
  BY <1>0
<1> QED  BY <1>5, <1>6, Zenon

LEMMA SumsNat ==
    ASSUME NEW s \in Seq(Bytes), NEW i \in 0 .. Half(s)
    PROVE  Sums(s)[i] \in Nat
<1> DEFINE T == {j \in 0 .. Half(s) : Sums(s)[j] \notin Nat}
<1>0. Half(s) \in Nat /\ \A j \in 1 .. Half(s) : Word(s, j) \in Nat
  BY HalfFacts, Zenon
<1>1. SUFFICES ASSUME T # {} PROVE FALSE
  BY Zenon
<1>2. T \subseteq Nat
  BY <1>0
<1>3. PICK j \in T : \A y \in T : ~ (y < j)
  BY <1>1, <1>2, Least, Zenon
<1>4. j \in 0 .. Half(s) /\ Sums(s)[j] \notin Nat
  BY Zenon
<1>5. j # 0
  <2>1. 0 \in Nat
    OBVIOUS
  <2> QED  BY <1>4, <2>1, SumsLoop, Zenon
<1>6. j \in 1 .. Half(s) /\ j - 1 \in 0 .. Half(s) /\ j - 1 < j
  BY <1>0, <1>4, <1>5
<1>7. Sums(s)[j - 1] \in Nat
  BY <1>3, <1>6, Zenon
<1>8. Sums(s)[j] = Sums(s)[j - 1] + Word(s, j) /\ Word(s, j) \in Nat
  BY <1>0, <1>6, SumsLoop, Zenon
<1>9. \A x, y \in Nat : x + y \in Nat
  OBVIOUS
<1> QED  BY <1>4, <1>7, <1>8, <1>9, Zenon

LEMMA TotalNat ==
    ASSUME NEW s \in Seq(Bytes)
    PROVE  Total(s) \in Nat
<1>1. Half(s) \in 0 .. Half(s)
  BY HalfFacts
<1> QED  BY <1>1, SumsNat, Zenon DEF Total

(* Two loops over the same words add the same, wherever they start. *)
LEMMA SumsAgree ==
    ASSUME NEW u \in Seq(Bytes), NEW s \in Seq(Bytes), NEW n \in Nat,
           n + Half(s) <= Half(u),
           \A i \in 1 .. Half(s) : Word(u, n + i) = Word(s, i)
    PROVE  Sums(u)[n + Half(s)] = Sums(u)[n] + Total(s)
<1> DEFINE T == {i \in 0 .. Half(s) : Sums(u)[n + i] # Sums(u)[n] + Sums(s)[i]}
<1>0. /\ Half(s) \in Nat /\ Half(u) \in Nat
      /\ \A i \in 1 .. Half(s) : Word(s, i) \in Nat
  BY HalfFacts, Zenon
<1>1. T = {}
  <2> SUFFICES ASSUME T # {} PROVE FALSE
    OBVIOUS
  <2>1. T \subseteq Nat
    BY <1>0
  <2>2. PICK i \in T : \A y \in T : ~ (y < i)
    BY <2>1, Least, Zenon
  <2>3. i \in 0 .. Half(s) /\ Sums(u)[n + i] # Sums(u)[n] + Sums(s)[i]
    BY Zenon
  <2>4. Sums(u)[n] \in Nat
    <3>1. n \in 0 .. Half(u)
      BY <1>0
    <3> QED  BY <3>1, SumsNat, Zenon
  <2>5. i # 0
    <3>1. Sums(s)[0] = 0
      BY SumsLoop, Zenon
    <3>2. Sums(u)[n + 0] = Sums(u)[n] + 0
      BY <2>4
    <3> QED  BY <2>3, <3>1, <3>2, Zenon
  <2>6. /\ i \in 1 .. Half(s) /\ i - 1 \in 0 .. Half(s) /\ i - 1 < i
        /\ n + i \in 1 .. Half(u) /\ (n + i) - 1 = n + (i - 1)
    BY <1>0, <2>3, <2>5
  <2>7. Sums(u)[n + (i - 1)] = Sums(u)[n] + Sums(s)[i - 1]
    BY <2>2, <2>6, Zenon
  <2>8. Sums(u)[n + i] = Sums(u)[n + (i - 1)] + Word(s, i)
    BY <2>6, SumsLoop, Zenon
  <2>9. Sums(s)[i] = Sums(s)[i - 1] + Word(s, i)
    BY <2>6, SumsLoop, Zenon
  <2>10. Sums(s)[i - 1] \in Nat /\ Word(s, i) \in Nat
    BY <1>0, <2>6, SumsNat, Zenon
  <2>11. (Sums(u)[n] + Sums(s)[i - 1]) + Word(s, i) = Sums(u)[n] + (Sums(s)[i - 1] + Word(s, i))
    BY ONLY <2>4, <2>10
  <2>12. Sums(u)[n + i] = Sums(u)[n] + Sums(s)[i]
    BY ONLY <2>7, <2>8, <2>9, <2>11, Zenon
  <2> QED  BY <2>3, <2>12, Zenon
<1>2. Half(s) \in 0 .. Half(s)
  BY <1>0
<1> QED  BY <1>1, <1>2, Zenon DEF Total

(* The sum of a string that is attached at an even place is added. *)
LEMMA TotalConcat ==
    ASSUME NEW s \in Seq(Bytes), NEW t \in Seq(Bytes), NEW n \in Nat, Len(s) = 2 * n
    PROVE  s \o t \in Seq(Bytes) /\ Total(s \o t) = Total(s) + Total(t)
<1> DEFINE u == s \o t
<1>0. /\ u \in Seq(Bytes) /\ Len(u) = Len(s) + Len(t) /\ Len(s) \in Nat /\ Len(t) \in Nat
      /\ \A j \in 1 .. Len(s) : u[j] = s[j]
      /\ \A j \in 1 .. Len(t) : u[Len(s) + j] = t[j]
  OBVIOUS
<1> HIDE DEF u
<1>1. Half(s) = n /\ Half(u) = n + Half(t) /\ Half(t) \in Nat
  <2>1. \A a \in Nat : (2 * n + a) \div 2 = n + a \div 2 /\ a \div 2 \in Nat
    OBVIOUS
  <2>2. /\ Len(t) + 1 \in Nat /\ 1 \in Nat /\ 1 \div 2 = 0 /\ n + 0 = n
        /\ Len(s) + 1 = 2 * n + 1 /\ Len(u) + 1 = 2 * n + (Len(t) + 1)
    BY <1>0
  <2> QED  BY ONLY <2>1, <2>2, Zenon DEF Half
<1>2. ASSUME NEW i \in 1 .. Half(s)
      PROVE  Word(u, 0 + i) = Word(s, i)
  <2>1. /\ 2 * i - 1 \in 1 .. Len(s) /\ 2 * i \in 1 .. Len(s) /\ 0 + i = i
        /\ 2 * i <= Len(s) /\ 2 * i <= Len(u)
    BY <1>0, <1>1
  <2>2. u[2 * i - 1] = s[2 * i - 1] /\ u[2 * i] = s[2 * i]
    BY <1>0, <2>1, Zenon
  <2> QED  BY <2>1, <2>2, Zenon DEF Word
<1>3. ASSUME NEW i \in 1 .. Half(t)
      PROVE  Word(u, n + i) = Word(t, i)
  <2>1. /\ 2 * (n + i) - 1 = Len(s) + (2 * i - 1) /\ 2 * i - 1 \in 1 .. Len(t)
        /\ 2 * (n + i) = Len(s) + 2 * i
        /\ 2 * i <= Len(t) <=> Len(s) + 2 * i <= Len(u)
        /\ 2 * i <= Len(t) => 2 * i \in 1 .. Len(t)
    <3> DEFINE ls == Len(s)
               lt == Len(t)
               lu == Len(u)
    <3>1. ls \in Nat /\ lt \in Nat /\ lu = ls + lt /\ ls = 2 * n
      BY <1>0, Zenon
    <3> HIDE DEF ls, lt, lu
    <3>2. i \in Nat /\ i >= 1 /\ i <= (lt + 1) \div 2
      <4>1. i \in 1 .. ((lt + 1) \div 2)
        BY Zenon DEF Half, lt
      <4> QED  BY ONLY <3>1, <4>1
    <3>3. 2 * i <= lt + 1
      BY ONLY <3>1, <3>2
    <3>4. /\ 2 * (n + i) - 1 = ls + (2 * i - 1) /\ 2 * i - 1 \in 1 .. lt
          /\ 2 * (n + i) = ls + 2 * i
          /\ 2 * i <= lt <=> ls + 2 * i <= lu
          /\ 2 * i <= lt => 2 * i \in 1 .. lt
      BY ONLY <3>1, <3>2, <3>3, n \in Nat
    <3> QED  BY <3>4, Zenon DEF ls, lt, lu
  <2>2. u[Len(s) + (2 * i - 1)] = t[2 * i - 1]
    BY <1>0, <2>1, Zenon
  <2>3. 2 * i <= Len(t) => u[Len(s) + 2 * i] = t[2 * i]
    BY <1>0, <2>1, Zenon
  <2>4. /\ Word(u, n + i) = u[Len(s) + (2 * i - 1)] * H
              + (IF Len(s) + 2 * i <= Len(u) THEN u[Len(s) + 2 * i] ELSE 0)
        /\ Word(t, i) = t[2 * i - 1] * H + (IF 2 * i <= Len(t) THEN t[2 * i] ELSE 0)
    BY <2>1, Zenon DEF Word
  <2>5. CASE 2 * i <= Len(t)
    BY <2>1, <2>2, <2>3, <2>4, <2>5, Zenon
  <2>6. CASE ~ (2 * i <= Len(t))
    BY <2>1, <2>2, <2>4, <2>6, Zenon
  <2> QED  BY <2>5, <2>6, Zenon
<1>4. Sums(u)[n] = Total(s)
  <2>1. 0 + Half(s) <= Half(u) /\ 0 + Half(s) = n /\ 0 \in Nat
    BY <1>1
  <2>2. Sums(u)[0 + Half(s)] = Sums(u)[0] + Total(s)
    BY <1>0, <1>2, <2>1, SumsAgree, Zenon
  <2>3. Sums(u)[0] = 0 /\ Total(s) \in Nat
    BY <1>0, SumsLoop, TotalNat, Zenon
  <2>4. \A x \in Nat : 0 + x = x
    OBVIOUS
  <2> QED  BY <2>1, <2>2, <2>3, <2>4, Zenon
<1>5. Sums(u)[n + Half(t)] = Sums(u)[n] + Total(t)
  <2>1. n + Half(t) <= Half(u)
    BY <1>1
  <2> QED  BY <1>0, <1>3, <2>1, SumsAgree, Zenon
<1> QED  BY <1>0, <1>1, <1>4, <1>5, Zenon DEF Total, u

-----------------------------------------------------------------------------
(* CONGRUENCE *)

Same(a, b) == a \in Int /\ b \in Int /\ a - b \in Mult

LEMMA SameRefl ==
    ASSUME NEW a \in Int
    PROVE  Same(a, a)
<1>1. a - a = 0
  OBVIOUS
<1> QED  BY <1>1, MultFacts, Zenon DEF Same

LEMMA SameSym ==
    ASSUME NEW a, NEW b, Same(a, b)
    PROVE  Same(b, a)
<1>1. a \in Int /\ b \in Int /\ - (a - b) \in Mult
  BY MultFacts, Zenon DEF Same
<1>2. - (a - b) = b - a
  BY <1>1
<1> QED  BY <1>1, <1>2, Zenon DEF Same

LEMMA SameTrans ==
    ASSUME NEW a, NEW b, NEW c, Same(a, b), Same(b, c)
    PROVE  Same(a, c)
<1>1. a \in Int /\ b \in Int /\ c \in Int /\ (a - b) + (b - c) \in Mult
  BY MultFacts, Zenon DEF Same
<1>2. (a - b) + (b - c) = a - c
  BY <1>1
<1> QED  BY <1>1, <1>2, Zenon DEF Same

LEMMA SameAdd ==
    ASSUME NEW a, NEW b, NEW c, NEW d, Same(a, b), Same(c, d)
    PROVE  Same(a + c, b + d)
<1>1. /\ a \in Int /\ b \in Int /\ c \in Int /\ d \in Int
      /\ (a - b) + (c - d) \in Mult
  BY MultFacts, Zenon DEF Same
<1>2. /\ (a - b) + (c - d) = (a + c) - (b + d)
      /\ a + c \in Int /\ b + d \in Int
  BY <1>1
<1> QED  BY <1>1, <1>2, Zenon DEF Same

LEMMA SameSub ==
    ASSUME NEW a, NEW b, NEW c, NEW d, Same(a, b), Same(c, d)
    PROVE  Same(a - c, b - d)
<1>1. /\ a \in Int /\ b \in Int /\ c \in Int /\ d \in Int
      /\ (a - b) - (c - d) \in Mult
  BY MultFacts, Zenon DEF Same
<1>2. /\ (a - b) - (c - d) = (a - c) - (b - d)
      /\ a - c \in Int /\ b - d \in Int
  BY <1>1
<1> QED  BY <1>1, <1>2, Zenon DEF Same

(* The two zeros. *)
LEMMA SameZero ==
    /\ Same(M, 0) /\ Same(B, 1) /\ Same(B * B - 1, 0)
<1>0. M \in Nat /\ B = M + 1 /\ B \in Nat
  BY Sizes
<1>1. M - 0 = M /\ B - 1 = M /\ (B * B - 1) - 0 = B * B - 1 /\ B * B - 1 \in Int /\ M \in Int /\ B \in Int
      /\ 0 \in Int /\ 1 \in Int
  BY <1>0
<1> QED  BY <1>1, MultFacts, Zenon DEF Same

LEMMA SameUnique ==
    ASSUME NEW a \in 1 .. M, NEW b \in 1 .. M, Same(a, b)
    PROVE  a = b
<1>0. M \in Nat
  BY Sizes
<1>1. - M < a - b /\ a - b < M /\ a \in Int /\ b \in Int
  BY <1>0
<1>2. a - b \in Mult
  BY DEF Same
<1>3. a - b = 0
  BY <1>1, <1>2, MultSmall, Zenon
<1> QED  BY <1>1, <1>3

-----------------------------------------------------------------------------
(* helpers.go *)

LEMMA FoldFacts ==
    ASSUME NEW a \in Nat
    PROVE  /\ Fold[a] \in 0 .. M /\ Same(Fold[a], a)
           /\ a > 0 => Fold[a] \in 1 .. M
<1>0. M \in Nat
  BY Sizes
<1>1. Fold[a] \in 0 .. M /\ a - Fold[a] \in Mult /\ (Fold[a] = 0 <=> a = 0)
  BY FoldResidue, Zenon DEF Residue
<1>2. Fold[a] \in Int /\ a \in Int
  BY <1>0, <1>1
<1>3. Same(a, Fold[a])
  BY <1>1, <1>2, Zenon DEF Same
<1>4. Same(Fold[a], a)
  BY <1>3, SameSym, Zenon
<1>5. a > 0 => Fold[a] \in 1 .. M
  BY <1>0, <1>1
<1> QED  BY <1>1, <1>4, <1>5, Zenon

(* A receiver's sum is all ones when it is a multiple of B - 1 other than 0. *)
LEMMA AllOnes ==
    ASSUME NEW a \in Nat, a > 0
    PROVE  Fold[a] = B - 1 <=> Same(a, 0)
<1>0. M \in Nat /\ M >= 255 /\ B - 1 = M /\ Fold[a] \in 1 .. M /\ Same(Fold[a], a)
  BY Sizes, FoldFacts DEF M
<1>1. ASSUME Fold[a] = M PROVE Same(a, 0)
  <2>1. Same(a, M)
    BY <1>0, <1>1, SameSym, Zenon
  <2> QED  BY <2>1, SameZero, SameTrans, Zenon
<1>2. ASSUME Same(a, 0) PROVE Fold[a] = M
  <2>1. Same(Fold[a], 0)
    BY <1>0, <1>2, SameTrans, Zenon
  <2>2. Same(0, M)
    BY SameZero, SameSym, Zenon
  <2>3. Same(Fold[a], M)
    BY <2>1, <2>2, SameTrans, Zenon
  <2>4. M \in 1 .. M
    BY <1>0
  <2> QED  BY <1>0, <2>3, <2>4, SameUnique, Zenon
<1> QED  BY <1>0, <1>1, <1>2, Zenon

LEMMA NotFacts ==
    ASSUME NEW x \in 0 .. M
    PROVE  Not(x) \in 0 .. M /\ Same(Not(x), - x) /\ Not(Not(x)) = x /\ Not(x) = M - x
<1>0. M \in Nat /\ B = M + 1
  BY Sizes
<1>1. Not(x) = M - x /\ Not(x) \in 0 .. M /\ Not(Not(x)) = x
  BY <1>0 DEF Not
<1>2. Same(M - x, 0 - x)
  <2>1. x \in Int
    BY <1>0
  <2> QED  BY <2>1, SameZero, SameRefl, SameSub, Zenon
<1>3. 0 - x = - x
  BY <1>0
<1> QED  BY <1>1, <1>2, <1>3, Zenon

LEMMA NegFacts ==
    /\ Neg(0) = 0
    /\ \A x \in 1 .. M : Neg(x) = B - x /\ Neg(x) \in 1 .. M
    /\ \A x \in 0 .. M : Neg(x) \in 0 .. M
<1>0. M \in Nat /\ B = M + 1 /\ B \in Nat /\ B >= 256
  BY Sizes
<1>1. Neg(0) = 0
  BY <1>0 DEF Neg
<1>2. ASSUME NEW x \in 1 .. M PROVE Neg(x) = B - x /\ Neg(x) \in 1 .. M
  <2>1. B - x \in 0 .. (B - 1) /\ B - x \in 1 .. M
    BY <1>0
  <2>2. (B - x) % B = B - x
    BY <1>0, <2>1
  <2> QED  BY <2>1, <2>2 DEF Neg
<1>3. \A x \in 0 .. M : x = 0 \/ x \in 1 .. M
  BY <1>0
<1>4. 0 \in 0 .. M /\ \A x \in 1 .. M : x \in 0 .. M
  BY <1>0
<1> QED  BY <1>1, <1>2, <1>3, <1>4, Zenon

LEMMA HalvesFacts ==
    ASSUME NEW x \in 0 .. (B * B - 1)
    PROVE  Halves(x) \in Nat /\ Same(Halves(x), x)
<1>0. M \in Nat /\ B = M + 1 /\ B \in Nat /\ B >= 256 /\ B * B \in Nat
  BY Sizes
<1> DEFINE m == x % B
           d == x \div B
<1>1. d \in Int /\ m \in 0 .. (B - 1) /\ x = B * d + m /\ x \in Nat
  <2>1. x \in Int /\ x \in Nat /\ B > 0
    BY <1>0
  <2> QED  BY <1>0, <2>1, Division, Zenon
<1>2. d >= 0
  <2>1. CASE d <= -1
    <3>1. d * B <= - B
      BY <1>0, <1>1, <2>1, Negative
    <3> QED  BY <1>0, <1>1, <3>1
  <2> QED  BY <1>1, <2>1
<1>3. Halves(x) = m + d
  BY Zenon DEF Halves
<1> HIDE DEF m, d
<1>4. m + d \in Nat /\ m + d \in Int /\ x \in Int
  BY <1>0, <1>1, <1>2
<1>5. (m + d) - x = (- d) * M /\ - d \in Int
  BY <1>0, <1>1
<1>6. (m + d) - x \in Mult
  BY <1>5, MultIn, Zenon
<1> QED  BY <1>3, <1>4, <1>6, Zenon DEF Same

LEMMA DeltaFacts ==
    ASSUME NEW new \in 0 .. (B * B - 1), NEW old \in 0 .. (B * B - 1)
    PROVE  uint32Delta(new, old) \in 0 .. M /\ Same(uint32Delta(new, old), new - old)
<1>0. B * B \in Nat
  BY Sizes
<1>1. B * B - 1 - old \in 0 .. (B * B - 1) /\ old \in Int
  BY <1>0
<1>2. /\ Halves(new) \in Nat /\ Same(Halves(new), new)
      /\ Halves(B * B - 1 - old) \in Nat
      /\ Same(Halves(B * B - 1 - old), B * B - 1 - old)
  BY <1>1, HalvesFacts, Zenon
<1>3. Same(B * B - 1 - old, 0 - old)
  BY <1>1, SameZero, SameRefl, SameSub, Zenon
<1>4. Same(Halves(B * B - 1 - old), 0 - old)
  BY <1>2, <1>3, SameTrans, Zenon
<1>5. Same(Halves(new) + Halves(B * B - 1 - old), new + (0 - old))
  BY <1>2, <1>4, SameAdd, Zenon
<1>6. Halves(new) + Halves(B * B - 1 - old) \in Nat /\ new + (0 - old) = new - old
  <2>1. new \in Int /\ old \in Int
    BY <1>0
  <2> QED  BY <1>2, <2>1
<1>7. /\ uint32Delta(new, old) \in 0 .. M
      /\ Same(uint32Delta(new, old), Halves(new) + Halves(B * B - 1 - old))
  BY <1>6, FoldFacts, Zenon DEF uint32Delta
<1> QED  BY <1>5, <1>6, <1>7, SameTrans, Zenon

(* Moving a number by delta moves the checksum back by delta. *)
LEMMA MovedCsum ==
    ASSUME NEW c \in 1 .. M, NEW delta \in 0 .. M
    PROVE  /\ Neg(Fold[Neg(c) + delta]) \in 1 .. M
           /\ Same(Neg(Fold[Neg(c) + delta]), c - delta)
<1>0. M \in Nat /\ B \in Nat /\ B = M + 1
  BY Sizes
<1>1. Neg(c) = B - c /\ B - c \in 1 .. M
  BY NegFacts, Zenon
<1> DEFINE a == B - c + delta
           f == Fold[a]
<1>2. a \in Nat /\ a > 0 /\ a \in Int /\ c \in Int /\ delta \in Int /\ B \in Int
  BY <1>0, <1>1
<1>3. f \in 1 .. M /\ Same(f, a)
  BY <1>2, FoldFacts, Zenon
<1>4. Neg(f) = B - f /\ Neg(f) \in 1 .. M
  BY <1>3, NegFacts, Zenon
<1>5. Same(B - f, B - a)
  BY <1>2, <1>3, SameRefl, SameSub, Zenon
<1>6. B - a = c - delta
  BY <1>2
<1> QED  BY <1>1, <1>4, <1>5, <1>6, Zenon

(* Whatever is stored, the adjusted checksum is a word. *)
LEMMA MovedWord ==
    ASSUME NEW c \in 0 .. M, NEW delta \in 0 .. M
    PROVE  Neg(Fold[Neg(c) + delta]) \in 0 .. M
<1>0. M \in Nat
  BY Sizes
<1>1. Neg(c) \in 0 .. M
  BY NegFacts, Zenon
<1>2. Neg(c) + delta \in Nat
  BY <1>0, <1>1
<1> QED  BY <1>2, FoldFacts, NegFacts, Zenon

(* The IP checksum follows the length. *)
LEMMA IncFacts ==
    ASSUME NEW start \in 0 .. M, NEW old \in 1 .. M, NEW new \in 1 .. M
    PROVE  /\ incCsum16(start, old, new) \in 0 .. M
           /\ incCsum16(start, old, new) # M
           /\ Same(incCsum16(start, old, new), start + old - new)
<1>0. M \in Nat
  BY Sizes
<1>1. /\ start \in Int /\ old \in Int /\ new \in Int /\ old \in 0 .. M
      /\ Not(start) = M - start /\ Not(old) = M - old
  <2>1. start \in Int /\ old \in Int /\ new \in Int /\ old \in 0 .. M
    BY <1>0
  <2> QED  BY <2>1, NotFacts, Zenon
<1> DEFINE a == (M - start) + (M - old) + new
<1>2. a \in Nat /\ a > 0 /\ a \in Int
  BY <1>0, <1>1
<1>3. Fold[a] \in 1 .. M /\ Same(Fold[a], a)
  BY <1>2, FoldFacts, Zenon
<1>4. incCsum16(start, old, new) = Not(Fold[a])
  BY <1>1, Zenon DEF incCsum16
<1> HIDE DEF a
<1>5. Fold[a] \in 0 .. M /\ Fold[a] # 0
  BY <1>0, <1>3
<1>6. Not(Fold[a]) \in 0 .. M /\ Not(Fold[a]) = M - Fold[a]
  BY <1>5, NotFacts, Zenon
<1>7. Same(M - Fold[a], 0 - a)
  BY <1>3, SameZero, SameSub, Zenon
<1>8. Same((M + M) + (0 - a), (0 + 0) + (0 - a))
  <2>1. 0 - a \in Int
    BY <1>2
  <2>2. Same(M + M, 0 + 0)
    BY SameZero, SameAdd, Zenon
  <2>3. Same(0 - a, 0 - a)
    BY <2>1, SameRefl, Zenon
  <2> QED  BY <2>2, <2>3, SameAdd, Zenon
<1>9. /\ (M + M) + (0 - a) = start + old - new
      /\ (0 + 0) + (0 - a) = 0 - a
  BY <1>0, <1>1 DEF a
<1>10. Same(0 - a, start + old - new)
  BY <1>8, <1>9, SameSym, Zenon
<1>11. M - Fold[a] # M
  BY <1>0, <1>5
<1>12. Same(M - Fold[a], start + old - new)
  BY <1>7, <1>10, SameTrans, Zenon
<1> QED  BY ONLY <1>4, <1>6, <1>11, <1>12, Zenon

(* a + a \div B of a sum of two words is one fold. *)
LEMMA AttachCsum ==
    ASSUME NEW c \in 1 .. M, NEW delta \in 0 .. M
    PROVE  Adjusted(c, delta) \in 1 .. M /\ Same(Adjusted(c, delta), c - delta)
<1>0. M \in Nat /\ B \in Nat /\ B = M + 1 /\ M >= 255
  BY Sizes
<1>1. Neg(c) = B - c /\ B - c \in 1 .. M
  BY NegFacts, Zenon
<1> DEFINE a == B - c + delta
<1>2. a \in 1 .. (2 * M) /\ a \in Int /\ c \in Int /\ delta \in Int /\ B \in Int
  BY <1>0, <1>1
<1>3. B * B \in Nat /\ a < B * B /\ a >= 0
  <2>1. B * B >= 2 * B
    BY <1>0
  <2> QED  BY <1>0, <1>2, <2>1
<1>4. a % (B * B) = a
  BY <1>2, <1>3
<1>5. Adjusted(c, delta) = Neg((a + a \div B) % B)
  BY <1>1, <1>4, Zenon DEF Adjusted
<1>6. B - a = c - delta
  BY <1>2
<1> HIDE DEF a
<1>7. CASE a < B
  <2>1. a \div B = 0 /\ a % B = a /\ a + 0 = a /\ a \in 1 .. M
    BY <1>0, <1>2, <1>7
  <2>2. Adjusted(c, delta) = B - a /\ B - a \in 1 .. M
    BY <1>5, <2>1, NegFacts, Zenon
  <2>3. Same(B - a, c - delta)
    <3>1. B - a \in Int
      BY <1>2
    <3> QED  BY <1>6, <3>1, SameRefl, Zenon
  <2> QED  BY <2>2, <2>3, Zenon
<1>8. CASE a >= B
  <2>1. a \div B = 1 /\ (a + 1) % B = a + 1 - B /\ a + 1 - B \in 1 .. M
    BY <1>0, <1>2, <1>8
  <2>2. Adjusted(c, delta) = B - (a + 1 - B) /\ B - (a + 1 - B) \in 1 .. M
    BY <1>5, <2>1, NegFacts, Zenon
  <2>3. Same((B - a) + M, (B - a) + 0)
    <3>1. B - a \in Int
      BY <1>2
    <3> QED  BY <3>1, SameRefl, SameZero, SameAdd, Zenon
  <2>4. (B - a) + M = B - (a + 1 - B) /\ (B - a) + 0 = c - delta
    BY <1>0, <1>2, <1>6
  <2> QED  BY <2>2, <2>3, <2>4, Zenon
<1> QED  BY <1>2, <1>7, <1>8

LEMMA Quotient ==
    ASSUME NEW d \in Nat, d > 0, NEW k \in Int, NEW r \in 0 .. (d - 1), NEW a, a = d * k + r
    PROVE  a \div d = k /\ a % d = r
<1> DEFINE l == a \div d
           s == a % d
<1>1. a \in Int
  OBVIOUS
<1>2. l \in Int /\ s \in 0 .. (d - 1) /\ a = d * l + s
  BY <1>1, Division, Zenon
<1>3. a = d * k + r
  OBVIOUS
<1> HIDE DEF l, s
<1>4. (k - l) * d = s - r /\ k - l \in Int
  BY <1>2, <1>3
<1>5. ~ (k - l >= 1)
  <2>1. k - l >= 1 => (k - l) * d >= d
    BY <1>4, Monotone, Zenon
  <2> QED  BY <1>2, <1>4, <2>1
<1>6. ~ (k - l <= -1)
  <2>1. k - l <= -1 => (k - l) * d <= - d
    BY <1>4, Negative, Zenon
  <2> QED  BY <1>2, <1>4, <2>1
<1>7. k = l
  BY <1>2, <1>4, <1>5, <1>6
<1>8. s = r
  BY <1>2, <1>3, <1>7
<1> QED  BY <1>7, <1>8, Zenon DEF l, s

LEMMA SmallRest ==
    ASSUME NEW d \in Nat, d > 0, NEW v \in 0 .. (d - 1)
    PROVE  v % d = v /\ v \div d = 0
<1>1. v = d * 0 + v /\ 0 \in Int
  OBVIOUS
<1> QED  BY ONLY <1>1, Quotient, d > 0, d \in Nat, v \in 0 .. (d - 1)

LEMMA NegativeRest ==
    ASSUME NEW d \in Nat, d > 0, NEW v \in Int, - d <= v, v < 0
    PROVE  v % d = v + d
<1>1. v = d * (-1) + (v + d) /\ -1 \in Int /\ v + d \in 0 .. (d - 1)
  OBVIOUS
<1> QED  BY ONLY <1>1, Quotient, d > 0, d \in Nat

(* Taken off again, the sum may come out at the zero that means all ones. *)
LEMMA DetachCsum ==
    ASSUME NEW c \in 1 .. M, NEW delta \in 0 .. M
    PROVE  /\ Adjusted(c, - delta) \in 0 .. M
           /\ Adjusted(c, - delta) # 0 => Same(Adjusted(c, - delta), c + delta)
<1>0. M \in Nat /\ B \in Nat /\ B = M + 1 /\ M >= 255 /\ B > 0
  BY Sizes
<1>1. Neg(c) = B - c /\ B - c \in 1 .. M
  BY NegFacts, Zenon
<1> DEFINE v == (B - c) + (- delta)
           a == v % (B * B)
<1>2. v \in Int /\ v <= M /\ v >= 1 - M /\ c \in Int /\ delta \in Int /\ B \in Int
  BY <1>0, <1>1
<1>3. Adjusted(c, - delta) = Neg((a + a \div B) % B)
  BY <1>1, Zenon DEF Adjusted
<1>4. B - v = c + delta /\ c + delta \in Int
  BY <1>2
<1>5. B * B \in Nat /\ B * B > 0 /\ B * B >= 2 * B
  BY <1>0
<1> HIDE DEF v
<1>6. CASE v >= 0
  <2>1. v \in 0 .. (B * B - 1) /\ v \in 0 .. (B - 1) /\ v \in 0 .. M /\ v + 0 = v
    BY <1>0, <1>2, <1>5, <1>6
  <2>2. a = v
    BY ONLY <1>5, <2>1, SmallRest, Zenon
  <2>3. v \div B = 0 /\ v % B = v
    BY ONLY <1>0, <2>1, SmallRest, Zenon
  <2>5. Adjusted(c, - delta) = Neg(v)
    BY <1>3, <2>1, <2>2, <2>3, Zenon
  <2>6. CASE v = 0
    <3>1. 0 \in 0 .. M
      BY <1>0
    <3> QED  BY <2>5, <2>6, <3>1, NegFacts, Zenon
  <2>7. CASE v # 0
    <3>1. v \in 1 .. M /\ \A x \in 1 .. M : x \in 0 .. M
      BY <1>0, <2>1, <2>7
    <3>2. Adjusted(c, - delta) = c + delta /\ c + delta \in 0 .. M
      BY <1>4, <2>5, <3>1, NegFacts, Zenon
    <3> QED  BY <1>4, <3>2, SameRefl, Zenon
  <2> QED  BY <2>6, <2>7
<1>7. CASE ~ (v >= 0)
  <2>1. - (B * B) <= v /\ v < 0
    BY <1>0, <1>2, <1>5, <1>7
  <2>2. a = v + B * B
    BY ONLY <1>2, <1>5, <2>1, NegativeRest, Zenon
  <2>3. /\ B + v \in 0 .. (B - 1) /\ B - 1 \in Int
        /\ v + B * B = B * (B - 1) + (B + v)
    BY <1>0, <1>2, <1>7
  <2>4. a \div B = B - 1
    BY ONLY <1>0, <2>2, <2>3, Quotient
  <2>5. /\ M + v \in 0 .. (B - 1) /\ M + v \in 1 .. M
        /\ (v + B * B) + (B - 1) = B * B + (M + v)
    BY <1>0, <1>2, <1>7
  <2>6. (a + a \div B) % B = M + v
    BY ONLY <1>0, <2>2, <2>4, <2>5, Quotient
  <2>7. Adjusted(c, - delta) = B - (M + v) /\ B - (M + v) \in 1 .. M
    BY <1>3, <2>5, <2>6, NegFacts, Zenon
  <2>8. Same((B - v) - M, (B - v) - 0)
    BY <1>4, SameRefl, SameZero, SameSub, Zenon
  <2>9. (B - v) - M = B - (M + v) /\ (B - v) - 0 = c + delta
    BY <1>0, <1>2, <1>4
  <2>10. \A x \in 1 .. M : x \in 0 .. M
    BY <1>0
  <2> QED  BY <2>7, <2>8, <2>9, <2>10, Zenon
<1> QED  BY <1>6, <1>7

(* Whatever is stored, the adjusted checksum is a word. *)
LEMMA AdjustedWord ==
    ASSUME NEW c \in 0 .. M, NEW delta \in Int
    PROVE  Adjusted(c, delta) \in 0 .. M
<1>0. M \in Nat /\ B \in Nat /\ B = M + 1 /\ B > 0 /\ B * B \in Nat /\ B * B > 0
  BY Sizes
<1>1. Neg(c) \in Int
  <2>1. Neg(c) \in 0 .. M
    BY NegFacts, Zenon
  <2> QED  BY <1>0, <2>1
<1> DEFINE a == (Neg(c) + delta) % (B * B)
<1>2. a \in Int
  <2>1. Neg(c) + delta \in Int
    BY <1>1
  <2>2. a \in 0 .. (B * B - 1)
    BY <1>0, <2>1, Division, Zenon
  <2> QED  BY <1>0, <2>2
<1>3. Adjusted(c, delta) = Neg((a + a \div B) % B)
  BY Zenon DEF Adjusted
<1> HIDE DEF a
<1>4. a + a \div B \in Int
  <2>1. a \div B \in Int
    BY <1>0, <1>2, Division, Zenon
  <2> QED  BY <1>2, <2>1
<1>5. (a + a \div B) % B \in 0 .. (B - 1) /\ B - 1 = M
  <2>1. B - 1 = M
    BY <1>0
  <2> QED  BY <1>0, <1>4, <2>1, Division, Zenon
<1> QED  BY <1>3, <1>5, NegFacts, Zenon

LEMMA ChecksumDelta ==
    ASSUME NEW s \in Seq(Bytes)
    PROVE  checksumDelta(s) \in 0 .. M /\ Same(checksumDelta(s), Total(s))
BY TotalNat, FoldFacts, Zenon DEF checksumDelta, Total, Half

(* Moved back and forth, a number is where it was, wherever it wraps. *)
LEMMA ThereAndBack ==
    ASSUME NEW d \in Nat, d > 0, NEW x \in 0 .. (d - 1), NEW k \in Int
    PROVE  (x - k) % d \in 0 .. (d - 1) /\ (((x - k) % d) + k) % d = x
<1> DEFINE r == (x - k) % d
           l == (x - k) \div d
<1>1. l \in Int /\ r \in 0 .. (d - 1) /\ x - k = d * l + r
  <2>1. x - k \in Int
    OBVIOUS
  <2> QED  BY <2>1, Division, Zenon
<1> HIDE DEF r, l
<1>2. r + k = d * (- l) + x /\ - l \in Int
  BY <1>1
<1>3. (r + k) % d = x
  BY ONLY <1>2, Quotient, d \in Nat, d > 0, x \in 0 .. (d - 1)
<1> QED  BY <1>1, <1>3, Zenon DEF r

-----------------------------------------------------------------------------
(* PACKETS *)

Numbers32 == 0 .. (B * B - 1)

Packets == [len : 1 .. M, ipCsum : 0 .. M, csum : 0 .. M, seq : Numbers32, ack : Numbers32,
            off : Nat, buf : Seq(Bytes), opts : Seq(Bytes), data : Seq(Bytes)]

LEMMA Fields ==
    ASSUME NEW q \in Packets
    PROVE  /\ q.len \in 1 .. M /\ q.ipCsum \in 0 .. M /\ q.csum \in 0 .. M
           /\ q.seq \in Numbers32 /\ q.ack \in Numbers32 /\ q.off \in Nat
           /\ q.buf \in Seq(Bytes) /\ q.opts \in Seq(Bytes) /\ q.data \in Seq(Bytes)
BY Zenon DEF Packets

LEMMA BytesFacts ==
    ASSUME NEW q \in Packets
    PROVE  /\ GetBytes(q) \in Seq(Bytes)
           /\ Len(GetBytes(q)) = Len(q.buf) + Len(q.opts) + Len(q.data)
           /\ Len(q.buf) \in Nat /\ Len(q.opts) \in Nat /\ Len(q.data) \in Nat
<1>1. q.buf \in Seq(Bytes) /\ q.opts \in Seq(Bytes) /\ q.data \in Seq(Bytes)
  BY Fields, Zenon
<1>2. \A s, t \in Seq(Bytes) : s \o t \in Seq(Bytes) /\ Len(s \o t) = Len(s) + Len(t) /\ Len(s) \in Nat
  OBVIOUS
<1>3. /\ q.buf \o q.opts \in Seq(Bytes) /\ Len(q.buf \o q.opts) = Len(q.buf) + Len(q.opts)
      /\ Len(q.buf) \in Nat /\ Len(q.opts) \in Nat /\ Len(q.data) \in Nat
  BY <1>1, <1>2, Zenon
<1>4. /\ (q.buf \o q.opts) \o q.data \in Seq(Bytes)
      /\ Len((q.buf \o q.opts) \o q.data) = Len(q.buf \o q.opts) + Len(q.data)
  BY <1>1, <1>2, <1>3, Zenon
<1> QED  BY <1>3, <1>4, Zenon DEF GetBytes

(* The words of the TCP header and of the bytes behind it. *)
LEMMA TCPSumFacts ==
    ASSUME NEW q \in Packets, rest \in Nat
    PROVE  /\ TCPSum(q) = rest + Halves(q.seq) + Halves(q.ack) + (q.off % 16) * OffsetUnit
                            + (TCPHeader + Len(GetBytes(q))) + checksumDelta(GetBytes(q))
           /\ TCPSum(q) \in Nat /\ TCPSum(q) > 0
           /\ Halves(q.seq) \in Nat /\ Halves(q.ack) \in Nat
           /\ (q.off % 16) * OffsetUnit \in Nat /\ checksumDelta(GetBytes(q)) \in Nat
<1>0. M \in Nat /\ OffsetUnit \in Nat
  BY Sizes
<1>1. Halves(q.seq) \in Nat /\ Halves(q.ack) \in Nat
  BY Fields, HalvesFacts, Zenon DEF Numbers32
<1>2. (q.off % 16) * OffsetUnit \in Nat
  <2>1. q.off % 16 \in Nat
    BY Fields
  <2>2. \A x, y \in Nat : x * y \in Nat
    OBVIOUS
  <2> QED  BY <1>0, <2>1, <2>2, Zenon
<1>3. checksumDelta(GetBytes(q)) \in Nat
  <2>1. checksumDelta(GetBytes(q)) \in 0 .. M
    BY BytesFacts, ChecksumDelta, Zenon
  <2> QED  BY <1>0, <2>1
<1>4. /\ TCPHeader + Len(q.buf) + Len(q.opts) + Len(q.data) = TCPHeader + Len(GetBytes(q))
      /\ TCPHeader + Len(GetBytes(q)) \in Nat /\ TCPHeader + Len(GetBytes(q)) > 0
  <2> DEFINE a == Len(q.buf)
             b == Len(q.opts)
             c == Len(q.data)
             n == Len(GetBytes(q))
  <2>1. n = a + b + c /\ a \in Nat /\ b \in Nat /\ c \in Nat
    BY BytesFacts, Zenon
  <2> HIDE DEF a, b, c, n
  <2>2. TCPHeader + a + b + c = TCPHeader + n /\ TCPHeader + n \in Nat /\ TCPHeader + n > 0
    BY ONLY <2>1 DEF TCPHeader
  <2> QED  BY ONLY <2>2, Zenon DEF a, b, c, n
<1>5. TCPSum(q) = rest + Halves(q.seq) + Halves(q.ack) + (q.off % 16) * OffsetUnit
                    + (TCPHeader + Len(GetBytes(q))) + checksumDelta(GetBytes(q))
  BY <1>4, Zenon DEF TCPSum, GetBytes
<1>6. TCPSum(q) \in Nat /\ TCPSum(q) > 0
  <2> DEFINE a == Halves(q.seq)
             b == Halves(q.ack)
             c == (q.off % 16) * OffsetUnit
             d == TCPHeader + Len(GetBytes(q))
             e == checksumDelta(GetBytes(q))
  <2>1. a \in Nat /\ b \in Nat /\ c \in Nat /\ d \in Nat /\ d > 0 /\ e \in Nat
    BY <1>1, <1>2, <1>3, <1>4, Zenon
  <2> HIDE DEF a, b, c, d, e
  <2>2. rest + a + b + c + d + e \in Nat /\ rest + a + b + c + d + e > 0
    BY ONLY <2>1, rest \in Nat
  <2> QED  BY ONLY <1>5, <2>2, Zenon DEF a, b, c, d, e
<1> QED  BY <1>1, <1>2, <1>3, <1>5, <1>6, Zenon

(* What a receiver checks, as a congruence. *)
LEMMA TCPVerifiesIff ==
    ASSUME NEW q \in Packets, rest \in Nat
    PROVE  TCPVerifies(q) <=> Same(TCPSum(q) + q.csum, 0)
<1>0. M \in Nat
  BY Sizes
<1>1. q.csum \in Nat
  BY <1>0, Fields
<1>2. TCPSum(q) + q.csum \in Nat /\ TCPSum(q) + q.csum > 0
  <2>1. TCPSum(q) \in Nat /\ TCPSum(q) > 0
    BY TCPSumFacts, Zenon
  <2> QED  BY <1>1, <2>1
<1> QED  BY <1>2, AllOnes, Zenon DEF TCPVerifies

LEMMA IPVerifiesIff ==
    ASSUME NEW q \in Packets, rest \in Nat
    PROVE  IPVerifies(q) <=> Same(IPSum(q) + q.ipCsum, 0)
<1>0. M \in Nat
  BY Sizes
<1>1. q.ipCsum \in Nat /\ q.len \in Nat /\ q.len > 0
  BY <1>0, Fields
<1>2. IPSum(q) + q.ipCsum \in Nat /\ IPSum(q) + q.ipCsum > 0
  BY ONLY <1>1, rest \in Nat DEF IPSum
<1> QED  BY <1>2, AllOnes, Zenon DEF IPVerifies

(* A recomputed checksum verifies. *)
LEMMA Complement ==
    ASSUME NEW a \in Nat
    PROVE  Not(Fold[a]) \in 0 .. M /\ Same(a + Not(Fold[a]), 0)
<1>0. a \in Int
  OBVIOUS
<1>1. Fold[a] \in 0 .. M /\ Same(Fold[a], a) /\ a \in Int
  BY <1>0, FoldFacts, Zenon
<1>2. Not(Fold[a]) = M - Fold[a] /\ Not(Fold[a]) \in 0 .. M
  BY <1>1, NotFacts, Zenon
<1>3. Same(M - Fold[a], 0 - a)
  BY <1>1, SameZero, SameSub, Zenon
<1>4. Same(a + (M - Fold[a]), a + (0 - a))
  BY <1>1, <1>3, SameRefl, SameAdd, Zenon
<1>5. a + (0 - a) = 0
  OBVIOUS
<1> QED  BY <1>2, <1>4, <1>5, Zenon

LEMMA RecomputedVerifies ==
    ASSUME NEW q \in Packets, rest \in Nat
    PROVE  /\ computeTCPChecksum(q) \in 0 .. M
           /\ q.csum = computeTCPChecksum(q) => TCPVerifies(q)
<1>1. TCPSum(q) \in Nat
  BY TCPSumFacts, Zenon
<1>2. Not(Fold[TCPSum(q)]) \in 0 .. M /\ Same(TCPSum(q) + Not(Fold[TCPSum(q)]), 0)
  BY <1>1, Complement, Zenon
<1> QED  BY <1>2, TCPVerifiesIff, Zenon DEF computeTCPChecksum

-----------------------------------------------------------------------------
(* STRINGS OF BYTES *)

LEMMA Concat ==
    ASSUME NEW a \in Seq(Bytes), NEW b \in Seq(Bytes)
    PROVE  /\ a \o b \in Seq(Bytes) /\ Len(a \o b) = Len(a) + Len(b)
           /\ Len(a) \in Nat /\ Len(b) \in Nat
           /\ \A i \in 1 .. Len(a) : (a \o b)[i] = a[i]
           /\ \A i \in 1 .. Len(b) : (a \o b)[Len(a) + i] = b[i]
OBVIOUS

LEMMA Middle ==
    ASSUME NEW a \in Seq(Bytes), NEW b \in Seq(Bytes), NEW c \in Seq(Bytes)
    PROVE  SubSeq(a \o (b \o c), Len(a) + 1, Len(a) + Len(b)) = b
<1> DEFINE u == a \o (b \o c)
           la == Len(a)
           lb == Len(b)
           lc == Len(c)
           x == SubSeq(u, la + 1, la + lb)
<1>1. /\ b \o c \in Seq(Bytes) /\ Len(b \o c) = lb + lc /\ lb \in Nat /\ lc \in Nat
      /\ \A i \in 1 .. lb : (b \o c)[i] = b[i]
  BY Concat, Zenon
<1>2. /\ u \in Seq(Bytes) /\ Len(u) = la + Len(b \o c) /\ la \in Nat
      /\ \A i \in 1 .. Len(b \o c) : u[la + i] = (b \o c)[i]
  BY <1>1, Concat, Zenon
<1>3. \A i \in 1 .. Len(u) : u[i] \in Bytes
  BY <1>2, ElementOfSeq, Zenon
<1>x. x = SubSeq(u, la + 1, la + lb)
  OBVIOUS
<1> HIDE DEF u, la, lb, lc, x
<1>4. /\ Len(u) = la + (lb + lc)
      /\ \A i \in 1 .. lb : i \in 1 .. (lb + lc)
      /\ \A i \in (la + 1) .. (la + lb) : i \in 1 .. (la + (lb + lc))
  BY ONLY <1>1, <1>2
<1>5. la + 1 \in Int /\ la + lb \in Int /\ \A i \in (la + 1) .. (la + lb) : u[i] \in Bytes
  <2>1. la + 1 \in Int /\ la + lb \in Int
    BY ONLY <1>1, <1>2
  <2> QED  BY ONLY <1>3, <1>4, <2>1, Zenon
<1>6. /\ x \in Seq(Bytes)
      /\ Len(x) = IF la + 1 <= la + lb THEN (la + lb) - (la + 1) + 1 ELSE 0
      /\ \A i \in 1 .. ((la + lb) - (la + 1) + 1) : x[i] = u[(la + 1) + i - 1]
  <2> DEFINE m == la + 1
             n == la + lb
  <2>1. m \in Int /\ n \in Int /\ \A i \in m .. n : u[i] \in Bytes
    BY ONLY <1>5, Zenon
  <2> HIDE DEF m, n
  <2>2. /\ SubSeq(u, m, n) \in Seq(Bytes)
        /\ Len(SubSeq(u, m, n)) = IF m <= n THEN n - m + 1 ELSE 0
        /\ \A i \in 1 .. (n - m + 1) : SubSeq(u, m, n)[i] = u[m + i - 1]
    BY ONLY <2>1, SubSeqProperties, SMTT(30)
  <2> QED  BY ONLY <1>x, <2>2, Zenon DEF m, n
<1>7. (la + lb) - (la + 1) + 1 = lb /\ Len(x) = lb
  <2>1. (la + lb) - (la + 1) + 1 = lb /\ (~ (la + 1 <= la + lb) => lb = 0)
    BY ONLY <1>1, <1>2
  <2> QED  BY ONLY <1>6, <2>1, Zenon
<1>8. ASSUME NEW i \in 1 .. lb PROVE x[i] = b[i]
  <2>1. (la + 1) + i - 1 = la + i
    BY ONLY <1>1, <1>2, i \in 1 .. lb
  <2>2. x[i] = u[la + i]
    BY ONLY <1>6, <1>7, <2>1, i \in 1 .. lb, Zenon
  <2>3. u[la + i] = (b \o c)[i]
    BY ONLY <1>1, <1>2, <1>4, i \in 1 .. lb, Zenon
  <2> QED  BY ONLY <1>1, <2>2, <2>3, i \in 1 .. lb, Zenon
<1>9. x = b
  <2>1. lb = Len(b)
    BY Zenon DEF lb
  <2> QED  BY <1>6, <1>7, <1>8, <2>1, SeqEqual, Zenon
<1> QED  BY <1>9, <1>x, Zenon DEF u, la, lb

LEMMA Prefix ==
    ASSUME NEW a \in Seq(Bytes), NEW b \in Seq(Bytes)
    PROVE  SubSeq(a \o b, 1, Len(a)) = a
<1>1. <<>> \in Seq(Bytes) /\ Len(<<>>) = 0
  BY EmptySeq, Zenon
<1>2. SubSeq(<<>> \o (a \o b), Len(<<>>) + 1, Len(<<>>) + Len(a)) = a
  BY <1>1, Middle, Zenon
<1>3. <<>> \o (a \o b) = a \o b /\ Len(a) \in Nat
  BY Concat, ConcatEmptySeq, Zenon
<1>4. 0 + 1 = 1 /\ \A n \in Nat : 0 + n = n
  OBVIOUS
<1> QED  BY <1>1, <1>2, <1>3, <1>4, Zenon

LEMMA Suffix ==
    ASSUME NEW a \in Seq(Bytes), NEW b \in Seq(Bytes)
    PROVE  SubSeq(a \o b, Len(a) + 1, Len(a) + Len(b)) = b
<1>1. <<>> \in Seq(Bytes)
  BY EmptySeq, Zenon
<1>2. b \o <<>> = b
  BY ConcatEmptySeq, Zenon
<1>3. SubSeq(a \o (b \o <<>>), Len(a) + 1, Len(a) + Len(b)) = b
  BY <1>1, Middle, Zenon
<1> QED  BY <1>2, <1>3, Zenon

-----------------------------------------------------------------------------
(* OPERATIONS ON A PACKET *)

LEMMA RecordOfFields ==
    ASSUME NEW S1, NEW S2, NEW S3, NEW S4, NEW S5,
           NEW q \in [len : S1, ipCsum : S2, csum : S2, seq : S3, ack : S3, off : S4,
                      buf : S5, opts : S5, data : S5]
    PROVE  q = [len |-> q.len, ipCsum |-> q.ipCsum, csum |-> q.csum, seq |-> q.seq, ack |-> q.ack,
                off |-> q.off, buf |-> q.buf, opts |-> q.opts, data |-> q.data]
OBVIOUS

LEMMA SamePacket ==
    ASSUME NEW q \in Packets, NEW r \in Packets,
           q.len = r.len, q.ipCsum = r.ipCsum, q.csum = r.csum, q.seq = r.seq, q.ack = r.ack,
           q.off = r.off, q.buf = r.buf, q.opts = r.opts, q.data = r.data
    PROVE  q = r
<1> DEFINE Is(x) == x = [len |-> x.len, ipCsum |-> x.ipCsum, csum |-> x.csum, seq |-> x.seq,
                          ack |-> x.ack, off |-> x.off, buf |-> x.buf, opts |-> x.opts,
                          data |-> x.data]
<1>1. \A x \in Packets : Is(x)
  BY RecordOfFields, Zenon DEF Packets
<1>2. Is(q) /\ Is(r)
  BY <1>1, Zenon
<1> QED  BY <1>2, Zenon

LEMMA SameSum ==
    ASSUME NEW q \in Packets, NEW r \in Packets, rest \in Nat,
           q.seq = r.seq, q.ack = r.ack, q.off % 16 = r.off % 16, GetBytes(q) = GetBytes(r)
    PROVE  TCPSum(q) = TCPSum(r) /\ computeTCPChecksum(q) = computeTCPChecksum(r)
<1>1. TCPSum(q) = TCPSum(r)
  BY TCPSumFacts, Zenon
<1> QED  BY <1>1, Zenon DEF computeTCPChecksum

LEMMA UpdateFacts ==
    ASSUME NEW q \in Packets, rest \in Nat, NEW r, r = UpdateTCPChecksum(q)
    PROVE  /\ r \in Packets /\ r.csum = computeTCPChecksum(r)
           /\ r.len = q.len /\ r.ipCsum = q.ipCsum /\ r.seq = q.seq /\ r.ack = q.ack
           /\ r.off = q.off /\ r.buf = q.buf /\ r.opts = q.opts /\ r.data = q.data
<1> DEFINE c == computeTCPChecksum(q)
<1>1. c \in 0 .. M
  BY RecomputedVerifies, Zenon
<1>2. r = [q EXCEPT !.csum = c]
  BY Zenon DEF UpdateTCPChecksum
<1> HIDE DEF c
<1>3. /\ r \in Packets /\ r.csum = c
      /\ r.len = q.len /\ r.ipCsum = q.ipCsum /\ r.seq = q.seq /\ r.ack = q.ack
      /\ r.off = q.off /\ r.buf = q.buf /\ r.opts = q.opts /\ r.data = q.data
  BY ONLY <1>1, <1>2, q \in Packets, Zenon DEF Packets
<1>4. GetBytes(r) = GetBytes(q)
  BY <1>3, Zenon DEF GetBytes
<1>5. computeTCPChecksum(r) = c
  BY <1>3, <1>4, SameSum, Zenon DEF c
<1> QED  BY <1>3, <1>5, Zenon

LEMMA MoveSeqFacts ==
    ASSUME NEW q \in Packets, NEW by \in Int, NEW r, r = MoveSeq(q, by)
    PROVE  /\ r \in Packets /\ r.seq = (q.seq + by) % (B * B)
           /\ r.len = q.len /\ r.ipCsum = q.ipCsum /\ r.ack = q.ack
           /\ r.off = q.off /\ r.buf = q.buf /\ r.opts = q.opts /\ r.data = q.data
           /\ q.csum # 0 => Same(r.csum, q.csum - (r.seq - q.seq))
<1>0. M \in Nat /\ B \in Nat /\ B > 0 /\ B * B \in Nat /\ B * B > 0
  BY Sizes
<1> DEFINE new == (q.seq + by) % (B * B)
           delta == uint32Delta(new, q.seq)
           c == Neg(Fold[Neg(q.csum) + delta])
<1>1. q.seq \in Numbers32 /\ q.csum \in 0 .. M
  BY Fields, Zenon
<1>2. new \in Numbers32
  <2>1. q.seq + by \in Int
    BY <1>0, <1>1 DEF Numbers32
  <2> QED  BY <1>0, <2>1, Division, Zenon DEF Numbers32
<1>3. delta \in 0 .. M /\ Same(delta, new - q.seq)
  BY <1>1, <1>2, DeltaFacts, Zenon DEF Numbers32
<1>4. c \in 0 .. M
  BY <1>1, <1>3, MovedWord, Zenon
<1>5. q.csum # 0 => Same(c, q.csum - (new - q.seq))
  <2>1. SUFFICES ASSUME q.csum # 0 PROVE Same(c, q.csum - (new - q.seq))
    OBVIOUS
  <2>2. q.csum \in 1 .. M /\ q.csum \in Int
    BY <1>0, <1>1, <2>1
  <2>3. Same(c, q.csum - delta)
    BY <1>3, <2>2, MovedCsum, Zenon
  <2>4. Same(q.csum - delta, q.csum - (new - q.seq))
    BY <1>3, <2>2, SameRefl, SameSub, Zenon
  <2> QED  BY <2>3, <2>4, SameTrans, Zenon
<1>6. r = [[q EXCEPT !.seq = new] EXCEPT !.csum = Neg(Fold[Neg([q EXCEPT !.seq = new].csum) + delta])]
  BY Zenon DEF MoveSeq, FixTCPCsum
<1>7. [q EXCEPT !.seq = new].csum = q.csum
  BY ONLY q \in Packets DEF Packets
<1>8. r = [[q EXCEPT !.seq = new] EXCEPT !.csum = c]
  BY <1>6, <1>7, Zenon
<1> HIDE DEF new, delta, c
<1>9. /\ r \in Packets /\ r.seq = new /\ r.csum = c
      /\ r.len = q.len /\ r.ipCsum = q.ipCsum /\ r.ack = q.ack
      /\ r.off = q.off /\ r.buf = q.buf /\ r.opts = q.opts /\ r.data = q.data
  BY ONLY <1>2, <1>4, <1>8, q \in Packets, Zenon DEF Packets
<1> QED  BY <1>5, <1>9, Zenon DEF new

LEMMA MoveAckFacts ==
    ASSUME NEW q \in Packets, NEW by \in Int, NEW r, r = MoveAck(q, by)
    PROVE  /\ r \in Packets /\ r.ack = (q.ack + by) % (B * B)
           /\ r.len = q.len /\ r.ipCsum = q.ipCsum /\ r.seq = q.seq
           /\ r.off = q.off /\ r.buf = q.buf /\ r.opts = q.opts /\ r.data = q.data
           /\ q.csum # 0 => Same(r.csum, q.csum - (r.ack - q.ack))
<1>0. M \in Nat /\ B \in Nat /\ B > 0 /\ B * B \in Nat /\ B * B > 0
  BY Sizes
<1> DEFINE new == (q.ack + by) % (B * B)
           delta == uint32Delta(new, q.ack)
           c == Neg(Fold[Neg(q.csum) + delta])
<1>1. q.ack \in Numbers32 /\ q.csum \in 0 .. M
  BY Fields, Zenon
<1>2. new \in Numbers32
  <2>1. q.ack + by \in Int
    BY <1>0, <1>1 DEF Numbers32
  <2> QED  BY <1>0, <2>1, Division, Zenon DEF Numbers32
<1>3. delta \in 0 .. M /\ Same(delta, new - q.ack)
  BY <1>1, <1>2, DeltaFacts, Zenon DEF Numbers32
<1>4. c \in 0 .. M
  BY <1>1, <1>3, MovedWord, Zenon
<1>5. q.csum # 0 => Same(c, q.csum - (new - q.ack))
  <2>1. SUFFICES ASSUME q.csum # 0 PROVE Same(c, q.csum - (new - q.ack))
    OBVIOUS
  <2>2. q.csum \in 1 .. M /\ q.csum \in Int
    BY <1>0, <1>1, <2>1
  <2>3. Same(c, q.csum - delta)
    BY <1>3, <2>2, MovedCsum, Zenon
  <2>4. Same(q.csum - delta, q.csum - (new - q.ack))
    BY <1>3, <2>2, SameRefl, SameSub, Zenon
  <2> QED  BY <2>3, <2>4, SameTrans, Zenon
<1>6. r = [[q EXCEPT !.ack = new] EXCEPT !.csum = Neg(Fold[Neg([q EXCEPT !.ack = new].csum) + delta])]
  BY Zenon DEF MoveAck, FixTCPCsum
<1>7. [q EXCEPT !.ack = new].csum = q.csum
  BY ONLY q \in Packets DEF Packets
<1>8. r = [[q EXCEPT !.ack = new] EXCEPT !.csum = c]
  BY <1>6, <1>7, Zenon
<1> HIDE DEF new, delta, c
<1>9. /\ r \in Packets /\ r.ack = new /\ r.csum = c
      /\ r.len = q.len /\ r.ipCsum = q.ipCsum /\ r.seq = q.seq
      /\ r.off = q.off /\ r.buf = q.buf /\ r.opts = q.opts /\ r.data = q.data
  BY ONLY <1>2, <1>4, <1>8, q \in Packets, Zenon DEF Packets
<1> QED  BY <1>5, <1>9, Zenon DEF new

LEMMA ShiftFacts ==
    ASSUME NEW q \in Packets, NEW s \in Int, NEW a \in Int, kind # "SynAck" => a = 0,
           NEW r, r = Shift(q, s, a)
    PROVE  /\ r \in Packets /\ r.seq = (q.seq + s) % (B * B) /\ r.ack = (q.ack + a) % (B * B)
           /\ r.len = q.len /\ r.ipCsum = q.ipCsum
           /\ r.off = q.off /\ r.buf = q.buf /\ r.opts = q.opts /\ r.data = q.data
<1> DEFINE m == MoveSeq(q, s)
<1>0. m = MoveSeq(q, s)
  BY Zenon
<1> HIDE DEF m
<1>1. /\ m \in Packets /\ m.seq = (q.seq + s) % (B * B) /\ m.ack = q.ack
      /\ m.len = q.len /\ m.ipCsum = q.ipCsum
      /\ m.off = q.off /\ m.buf = q.buf /\ m.opts = q.opts /\ m.data = q.data
  BY ONLY <1>0, MoveSeqFacts, q \in Packets, s \in Int, SMT
<1>2. CASE kind = "SynAck"
  <2>1. r = MoveAck(m, a)
    BY <1>0, <1>2, Zenon DEF Shift
  <2>2. /\ r \in Packets /\ r.ack = (m.ack + a) % (B * B) /\ r.seq = m.seq
        /\ r.len = m.len /\ r.ipCsum = m.ipCsum
        /\ r.off = m.off /\ r.buf = m.buf /\ r.opts = m.opts /\ r.data = m.data
    BY ONLY <1>1, <2>1, MoveAckFacts, a \in Int, SMT
  <2> QED  BY <1>1, <2>2, Zenon
<1>3. CASE kind # "SynAck"
  <2>1. r = m /\ a = 0
    BY <1>0, <1>3, Zenon DEF Shift
  <2>2. q.ack \in 0 .. (B * B - 1) /\ B * B \in Nat /\ B * B > 0
    BY Fields, Sizes DEF Numbers32
  <2>3. q.ack + 0 = q.ack
    BY <2>2
  <2>4. q.ack % (B * B) = q.ack
    BY ONLY <2>2, SmallRest, Zenon
  <2> QED  BY <1>1, <2>1, <2>3, <2>4, Zenon
<1> QED  BY <1>2, <1>3

LEMMA OptionFacts ==
    /\ Option \in Seq(Bytes) /\ Len(Option) = 4 /\ Option[1] = H - 1
    /\ Len(Option) \div 4 = 1 /\ BaseLen = 4 /\ BaseLen \div 4 = 1
<1>0. H - 1 \in Bytes /\ BaseLen \in Bytes /\ 0 \in Bytes
  BY Sizes DEF Bytes, BaseLen
<1>1. Option \in Seq(Bytes) /\ Len(Option) = 4 /\ Option[1] = H - 1
  BY <1>0 DEF Option
<1>2. 4 \div 4 = 1
  OBVIOUS
<1> QED  BY <1>1, <1>2, Zenon DEF BaseLen

(* What attaching the token adds to the sum. *)
LEMMA TokenDelta ==
    ASSUME NEW t \in Seq(Bytes), 4 + Len(t) < B
    PROVE  /\ computeTCPChecksumDelta(Option, t) \in 0 .. M
           /\ Same(computeTCPChecksumDelta(Option, t),
                   (Total(Option \o t) + (4 + Len(t))) + OffsetUnit)
<1>0. M \in Nat /\ B \in Nat /\ B = M + 1 /\ M >= 255 /\ OffsetUnit \in Nat
  BY Sizes
<1> DEFINE n == Len(t)
           d1 == checksumDelta(Option \o t)
           x == d1 + 4 + n
           tot == Total(Option \o t)
<1>1. Option \o t \in Seq(Bytes) /\ n \in Nat
  BY OptionFacts, Concat, Zenon
<1>2. d1 \in 0 .. M /\ Same(d1, tot) /\ tot \in Int
  BY <1>1, ChecksumDelta, Zenon DEF Same
<1>3. n < B - 4
  <2>1. 4 + n < B
    OBVIOUS
  <2> HIDE DEF n
  <2> QED  BY ONLY <1>0, <1>1, <2>1
<1>4. computeTCPChecksumDelta(Option, t) = Fold[Halves(x) + 1 * OffsetUnit]
  BY OptionFacts, Zenon DEF computeTCPChecksumDelta
<1> HIDE DEF n, d1, x, tot
<1>5. x = d1 + (4 + n) /\ x \in 0 .. (B * B - 1) /\ 4 + n \in Int /\ OffsetUnit \in Int
      /\ 1 * OffsetUnit = OffsetUnit
  <2>1. x = d1 + (4 + n)
    BY ONLY <1>0, <1>1, <1>2 DEF x
  <2>2. B * B >= 2 * B /\ B * B \in Nat
    BY ONLY <1>0
  <2> QED  BY ONLY <1>0, <1>1, <1>2, <1>3, <2>1, <2>2
<1>6. Halves(x) \in Nat /\ Same(Halves(x), x)
  BY <1>5, HalvesFacts, Zenon
<1>7. Same(d1 + (4 + n), tot + (4 + n))
  BY <1>2, <1>5, SameRefl, SameAdd, Zenon
<1>8. Same(Halves(x), tot + (4 + n))
  BY <1>5, <1>6, <1>7, SameTrans, Zenon
<1>9. Same(Halves(x) + OffsetUnit, (tot + (4 + n)) + OffsetUnit)
  BY <1>5, <1>8, SameRefl, SameAdd, Zenon
<1>10. Halves(x) + OffsetUnit \in Nat
  BY ONLY <1>0, <1>6
<1>11. Fold[Halves(x) + OffsetUnit] \in 0 .. M /\ Same(Fold[Halves(x) + OffsetUnit], Halves(x) + OffsetUnit)
  BY <1>10, FoldFacts, Zenon
<1>12. Same(Fold[Halves(x) + OffsetUnit], (tot + (4 + n)) + OffsetUnit)
  BY <1>9, <1>11, SameTrans, Zenon
<1> QED  BY <1>4, <1>5, <1>11, <1>12, Zenon DEF n, tot

(* IPTotalLength and the IP checksum move together. *)
LEMMA FixupFacts ==
    ASSUME NEW q \in Packets, NEW new \in 1 .. M, NEW r, r = FixupIPHdrOnDataModify(q, new)
    PROVE  /\ r \in Packets /\ r.len = new /\ r.ipCsum = incCsum16(q.ipCsum, q.len, new)
           /\ r.seq = q.seq /\ r.ack = q.ack /\ r.csum = q.csum
           /\ r.off = q.off /\ r.buf = q.buf /\ r.opts = q.opts /\ r.data = q.data
<1> DEFINE c == incCsum16(q.ipCsum, q.len, new)
<1>1. c \in 0 .. M
  BY Fields, IncFacts, Zenon
<1>2. r = [q EXCEPT !.ipCsum = c, !.len = new]
  BY Zenon DEF FixupIPHdrOnDataModify
<1> HIDE DEF c
<1>3. /\ r \in Packets /\ r.len = new /\ r.ipCsum = c
      /\ r.seq = q.seq /\ r.ack = q.ack /\ r.csum = q.csum
      /\ r.off = q.off /\ r.buf = q.buf /\ r.opts = q.opts /\ r.data = q.data
  BY ONLY <1>1, <1>2, q \in Packets, new \in 1 .. M, Zenon DEF Packets
<1> QED  BY <1>3, Zenon DEF c

LEMMA AttachFacts ==
    ASSUME NEW q \in Packets, NEW t \in Seq(Bytes), TCPDataStartBytes(q) = q.len,
           q.off \in 5 .. 15, q.len + 4 + Len(t) \in 1 .. M, 4 + Len(t) < B,
           NEW r, r = TCPDataAttach(q, Option, t)
    PROVE  /\ r \in Packets /\ r.len = q.len + 4 + Len(t)
           /\ r.ipCsum = incCsum16(q.ipCsum, q.len, r.len)
           /\ r.csum = Adjusted(q.csum, computeTCPChecksumDelta(Option, t))
           /\ r.seq = q.seq /\ r.ack = q.ack /\ r.off = q.off + 1
           /\ r.buf = q.buf /\ r.opts = Option /\ r.data = t
<1> DEFINE c == Adjusted(q.csum, computeTCPChecksumDelta(Option, t))
           o == (q.off + 1) % 256
           x == [q EXCEPT !.opts = Option, !.data = t, !.csum = c, !.off = o]
           new == q.len + 4 + Len(t)
<1>1. c \in 0 .. M
  <2>1. computeTCPChecksumDelta(Option, t) \in Int
    BY TokenDelta, Zenon DEF Same
  <2> QED  BY <2>1, Fields, AdjustedWord, Zenon
<1>2. o = q.off + 1 /\ o \in Nat
  <2>1. \A k \in 5 .. 15 : (k + 1) % 256 = k + 1 /\ k + 1 \in Nat
    OBVIOUS
  <2> QED  BY <2>1, ZenonT(30)
<1>3. r = FixupIPHdrOnDataModify(x, new)
  BY OptionFacts, ZenonT(30) DEF TCPDataAttach
<1>4. new \in 1 .. M
  BY Zenon
<1> HIDE DEF c, o, new
<1>5. /\ x \in Packets /\ x.len = q.len /\ x.ipCsum = q.ipCsum /\ x.csum = c
      /\ x.seq = q.seq /\ x.ack = q.ack /\ x.off = o
      /\ x.buf = q.buf /\ x.opts = Option /\ x.data = t
  <2>1. o \in Nat /\ Option \in Seq(Bytes)
    BY <1>2, OptionFacts, Zenon
  <2>2. x \in Packets
    BY ONLY <1>1, <2>1, q \in Packets, t \in Seq(Bytes), Zenon DEF Packets
  <2>3. /\ x.len = q.len /\ x.ipCsum = q.ipCsum /\ x.csum = c
        /\ x.seq = q.seq /\ x.ack = q.ack /\ x.off = o
        /\ x.buf = q.buf /\ x.opts = Option /\ x.data = t
    BY ONLY q \in Packets, Zenon DEF Packets
  <2> QED  BY <2>2, <2>3, Zenon
<1> HIDE DEF x
<1>6. /\ r \in Packets /\ r.len = new /\ r.ipCsum = incCsum16(x.ipCsum, x.len, new)
      /\ r.seq = x.seq /\ r.ack = x.ack /\ r.csum = x.csum
      /\ r.off = x.off /\ r.buf = x.buf /\ r.opts = x.opts /\ r.data = x.data
  <2>1. x \in Packets
    BY <1>5, Zenon
  <2> QED  BY ONLY <1>3, <1>4, <2>1, FixupFacts, SMT
<1> QED  BY <1>2, <1>5, <1>6, Zenon DEF c, new

LEMMA Associate ==
    ASSUME NEW a \in Seq(Bytes), NEW b \in Seq(Bytes), NEW c \in Seq(Bytes)
    PROVE  (a \o b) \o c = a \o (b \o c)
BY ConcatAssociative, SMTT(30)

(* Behind a header of k words with the options b come the option and the token. *)
Shaped(q, b, t, k) ==
    /\ b \in Seq(Bytes) /\ t \in Seq(Bytes) /\ k \in 5 .. 14 /\ 4 + Len(t) < B
    /\ q.off = k + 1 /\ q.buf = b \o (Option \o t)
    /\ Len(b) = k * 4 - TCPHeader /\ q.len = IPHeader + (k + 1) * 4 + Len(t)

(* What the receiver finds in such a packet. *)
LEMMA SliceFacts ==
    ASSUME NEW q, NEW b, NEW t, NEW k, Shaped(q, b, t, k)
    PROVE  /\ Slice(q, IPHeader + TCPHeader, TCPDataStartBytes(q) - BaseLen) = b
           /\ Slice(q, TCPDataStartBytes(q) - BaseLen, TCPDataStartBytes(q)) = Option
           /\ ReadTCPData(q) = t
           /\ q.len - TCPDataStartBytes(q) = Len(t)
           /\ CheckTCPAuthenticationOption(q)
<1> DEFINE lb == Len(b)
           lt == Len(t)
           st == TCPDataStartBytes(q)
           bh == st - BaseLen
           hd == IPHeader + TCPHeader
           ln == q.len
<1>s. /\ b \in Seq(Bytes) /\ t \in Seq(Bytes) /\ k \in 5 .. 14
      /\ q.off = k + 1 /\ q.buf = b \o (Option \o t)
      /\ Len(b) = k * 4 - TCPHeader /\ q.len = IPHeader + (k + 1) * 4 + Len(t)
  BY Zenon DEF Shaped
<1>0. lb \in Nat /\ lt \in Nat /\ Option \in Seq(Bytes) /\ Len(Option) = 4 /\ Option[1] = H - 1
  BY <1>s, OptionFacts, Concat, Zenon
<1>1. /\ lb = k * 4 - TCPHeader /\ ln = IPHeader + (k + 1) * 4 + lt
      /\ st = IPHeader + (k + 1) * 4 /\ bh = st - BaseLen /\ hd = IPHeader + TCPHeader
  BY <1>s, Zenon DEF TCPDataStartBytes
<1> HIDE DEF lb, lt, st, bh, hd, ln
<1>2. /\ hd - hd + 1 = 1 /\ bh - hd = lb
      /\ bh - hd + 1 = lb + 1 /\ st - hd = lb + 4
      /\ st - hd + 1 = (lb + 4) + 1 /\ ln - hd = (lb + 4) + lt
      /\ ln - st = lt /\ lb + 4 \in Nat
  BY ONLY <1>0, <1>1, <1>s DEF IPHeader, TCPHeader, BaseLen
<1>3. Option \o t \in Seq(Bytes) /\ b \o Option \in Seq(Bytes) /\ Len(b \o Option) = lb + 4
  <2>1. Option \o t \in Seq(Bytes)
    BY ONLY <1>0, Concat, <1>s, Zenon
  <2>2. b \o Option \in Seq(Bytes) /\ Len(b \o Option) = Len(b) + Len(Option)
    BY ONLY <1>0, Concat, <1>s, Zenon
  <2> QED  BY <1>0, <2>1, <2>2, Zenon DEF lb
<1>4. Slice(q, hd, bh) = b
  <2>1. SubSeq(q.buf, 1, lb) = b
    BY <1>s, <1>3, Prefix, Zenon DEF lb
  <2> QED  BY <1>2, <2>1, Zenon DEF Slice, hd
<1>5. Slice(q, bh, st) = Option
  <2>1. SubSeq(b \o (Option \o t), Len(b) + 1, Len(b) + Len(Option)) = Option
    BY ONLY <1>0, Middle, <1>s, Zenon
  <2>2. SubSeq(q.buf, lb + 1, lb + 4) = Option
    BY <1>s, <1>0, <2>1, Zenon DEF lb
  <2> QED  BY <1>2, <2>2, Zenon DEF Slice, hd
<1>6. ReadTCPData(q) = t
  <2>1. q.buf = (b \o Option) \o t
    BY <1>s, <1>0, Associate, Zenon
  <2>2. SubSeq(q.buf, (lb + 4) + 1, (lb + 4) + lt) = t
    BY <1>s, <1>3, <2>1, Suffix, Zenon DEF lt
  <2> QED  BY <1>2, <2>2, Zenon DEF ReadTCPData, Slice, hd, st, ln
<1>7. CheckTCPAuthenticationOption(q)
  <2>1. q.off # 5
    BY ONLY <1>s
  <2>2. q.buf[lb + 1] = H - 1
    <3>1. 1 \in 1 .. Len(Option \o t) /\ (Option \o t)[1] = H - 1
      <4>0. /\ Len(Option \o t) = Len(Option) + Len(t)
            /\ \A i \in 1 .. Len(Option) : (Option \o t)[i] = Option[i]
        BY ONLY <1>0, Concat, <1>s, Zenon
      <4>1. Len(Option \o t) = 4 + lt /\ \A i \in 1 .. 4 : (Option \o t)[i] = Option[i]
        BY <1>0, <4>0, Zenon DEF lt
      <4>2. 1 \in 1 .. 4 /\ 1 \in 1 .. (4 + lt)
        BY ONLY <1>0
      <4> QED  BY <1>0, <4>1, <4>2, Zenon
    <3>2. \A i \in 1 .. Len(Option \o t) : (b \o (Option \o t))[Len(b) + i] = (Option \o t)[i]
      BY ONLY <1>3, Concat, <1>s, Zenon
    <3> QED  BY <1>s, <3>1, <3>2, Zenon DEF lb
  <2> QED  BY <1>2, <2>1, <2>2, Zenon DEF CheckTCPAuthenticationOption, bh, st, hd
<1> QED  BY <1>2, <1>4, <1>5, <1>6, <1>7, Zenon DEF lt, st, bh, hd, ln

LEMMA DetachFacts ==
    ASSUME NEW q \in Packets, NEW b, NEW t, NEW k, Shaped(q, b, t, k),
           NEW r, r = DropDetachedBytes(TCPDataDetach(q))
    PROVE  /\ r \in Packets /\ r.len = IPHeader + k * 4
           /\ r.ipCsum = incCsum16(q.ipCsum, q.len, r.len)
           /\ r.csum = Adjusted(q.csum, - computeTCPChecksumDelta(Option, t))
           /\ r.csum = TCPDataDetach(q).csum
           /\ r.seq = q.seq /\ r.ack = q.ack /\ r.off = k
           /\ r.buf = b /\ r.opts = <<>> /\ r.data = <<>>
<1> DEFINE c == Adjusted(q.csum, - computeTCPChecksumDelta(Option, t))
           o == (q.off - 1) % 256
           x == [q EXCEPT !.buf = b, !.opts = Option, !.data = t, !.csum = c, !.off = o]
           new == q.len - (4 + Len(t))
           y == TCPDataDetach(q)
<1>s. /\ b \in Seq(Bytes) /\ t \in Seq(Bytes) /\ k \in 5 .. 14 /\ 4 + Len(t) < B
      /\ q.off = k + 1 /\ q.len = IPHeader + (k + 1) * 4 + Len(t)
  BY Zenon DEF Shaped
<1>0. M \in Nat /\ M >= 255
  BY Sizes
<1>1. c \in 0 .. M
  <2>1. computeTCPChecksumDelta(Option, t) \in Int
    BY <1>s, TokenDelta, Zenon DEF Same
  <2>2. - computeTCPChecksumDelta(Option, t) \in Int
    BY ONLY <2>1
  <2> QED  BY <2>2, Fields, AdjustedWord, Zenon
<1>2. o = k /\ o \in Nat
  BY ONLY <1>s
<1>3. y = FixupIPHdrOnDataModify(x, new)
  <2>1. /\ Slice(q, IPHeader + TCPHeader, TCPDataStartBytes(q) - BaseLen) = b
        /\ Slice(q, TCPDataStartBytes(q) - BaseLen, TCPDataStartBytes(q)) = Option
        /\ ReadTCPData(q) = t
    BY SliceFacts, Zenon
  <2> QED  BY <2>1, OptionFacts, ZenonT(60) DEF TCPDataDetach
<1>4. new = IPHeader + k * 4 /\ new \in 1 .. M
  <2> DEFINE lt == Len(t)
             ln == q.len
  <2>1. lt \in Nat /\ ln = IPHeader + (k + 1) * 4 + lt
    BY <1>s, Concat, Zenon
  <2> HIDE DEF lt, ln
  <2>2. ln - (4 + lt) = IPHeader + k * 4 /\ ln - (4 + lt) \in 1 .. M
    BY ONLY <1>0, <2>1, <1>s DEF IPHeader
  <2> QED  BY <2>2, Zenon DEF lt, ln
<1> HIDE DEF c, o, new, y
<1>5. /\ x \in Packets /\ x.len = q.len /\ x.ipCsum = q.ipCsum /\ x.csum = c
      /\ x.seq = q.seq /\ x.ack = q.ack /\ x.off = o
      /\ x.buf = b /\ x.opts = Option /\ x.data = t
  <2>1. o \in Nat /\ Option \in Seq(Bytes)
    BY <1>2, OptionFacts, Zenon
  <2>2. x \in Packets
    BY ONLY <1>1, <2>1, q \in Packets, <1>s, Zenon DEF Packets
  <2>3. /\ x.len = q.len /\ x.ipCsum = q.ipCsum /\ x.csum = c
        /\ x.seq = q.seq /\ x.ack = q.ack /\ x.off = o
        /\ x.buf = b /\ x.opts = Option /\ x.data = t
    BY ONLY q \in Packets, Zenon DEF Packets
  <2> QED  BY <2>2, <2>3, Zenon
<1> HIDE DEF x
<1>6. /\ y \in Packets /\ y.len = new /\ y.ipCsum = incCsum16(x.ipCsum, x.len, new)
      /\ y.seq = x.seq /\ y.ack = x.ack /\ y.csum = x.csum
      /\ y.off = x.off /\ y.buf = x.buf /\ y.opts = x.opts /\ y.data = x.data
  <2>1. x \in Packets
    BY <1>5, Zenon
  <2> QED  BY ONLY <1>3, <1>4, <2>1, FixupFacts, SMT
<1>7. r = [y EXCEPT !.opts = <<>>, !.data = <<>>] /\ y \in Packets
  BY <1>6, Zenon DEF DropDetachedBytes, y
<1>8. /\ r \in Packets /\ r.len = y.len /\ r.ipCsum = y.ipCsum /\ r.csum = y.csum
      /\ r.seq = y.seq /\ r.ack = y.ack /\ r.off = y.off /\ r.buf = y.buf
      /\ r.opts = <<>> /\ r.data = <<>>
  <2>1. <<>> \in Seq(Bytes)
    BY EmptySeq, Zenon
  <2> QED  BY ONLY <1>7, <2>1, Zenon DEF Packets
<1> QED  BY <1>2, <1>4, <1>5, <1>6, <1>8, Zenon DEF c, y

-----------------------------------------------------------------------------
(* THE INVARIANT: what the packet is, at every place, in terms of the packet the
   sending stack made.                                                        *)

(* No data of its own: the handler can attach the token. *)
Bare == sent.len = TCPDataStartBytes(sent)

Carried == IF Bare THEN Option \o token ELSE <<>>
WireOff == IF Bare THEN sent.off + 1 ELSE sent.off

(* The stack's own options and data. *)
Made(o, d) ==
    /\ Len(o) = sent.off * 4 - TCPHeader
    /\ sent.buf = o \o d
    /\ sent.len = IPHeader + sent.off * 4 + Len(d)

SentOK ==
    /\ sent \in Packets /\ sent.off \in Offsets
    /\ sent.opts = <<>> /\ sent.data = <<>>
    /\ sent.ipCsum = computeIPChecksum(sent)
    /\ sent.csum = computeTCPChecksum(sent)
    /\ \E o \in Seq(Bytes), d \in Payloads : Made(o, d)

Setting == kind \in Kinds /\ rest \in Nat /\ token \in Tokens /\ SentOK

(* Between the two handlers. *)
Rewritten(q) ==
    /\ q \in Packets
    /\ q.len = sent.len + Len(Carried)
    /\ q.ipCsum = IF Bare THEN incCsum16(sent.ipCsum, sent.len, q.len) ELSE sent.ipCsum
    /\ q.seq = (sent.seq - SeqShift(Len(token))) % (B * B)
    /\ q.ack = (sent.ack - AckShift) % (B * B)
    /\ GetBytes(q) = sent.buf \o Carried
    /\ q.csum = computeTCPChecksum(q)

Parsed(q) == Rewritten(q) /\ q.off = WireOff % 16 /\ q.opts = <<>> /\ q.data = <<>>

Inv ==
    /\ Setting
    /\ at \in {"app", "wire", "net", "delivered", "dropped"}
    /\ at \in {"app", "delivered"} => p = sent
    /\ at = "wire" => Rewritten(p) /\ p.off = WireOff
    /\ at \in {"net", "dropped"} => Parsed(p)
    /\ at = "dropped" => ~ Genuine(p)

LEMMA SentFacts ==
    ASSUME Setting
    PROVE  /\ sent \in Packets /\ rest \in Nat /\ sent.buf \in Seq(Bytes) /\ sent.off \in 5 .. 15
           /\ token \in Tokens /\ token \in Seq(Bytes) /\ Len(token) \in Nat /\ 4 + Len(token) < B
           /\ sent.len = IPHeader + TCPHeader + Len(sent.buf)
           /\ sent.len + 4 + Len(token) \in 1 .. M
           /\ Bare => Len(sent.buf) = sent.off * 4 - TCPHeader
           /\ ReadTCPData(sent) \in Payloads
<1>0. /\ sent \in Packets /\ rest \in Nat /\ token \in Tokens /\ sent.off \in Offsets
      /\ \E o \in Seq(Bytes), d \in Payloads : Made(o, d)
  BY Zenon DEF Setting, SentOK
<1>1. PICK o \in Seq(Bytes), d \in Payloads : Made(o, d)
  BY <1>0, Zenon
<1>2. /\ token \in Seq(Bytes) /\ d \in Seq(Bytes) /\ sent.off \in 5 .. 15
      /\ IPHeader + 15 * 4 + BaseLen + Len(d) + Len(token) < B
  <2>1. token \in Payloads \cup Tokens \cup Pads /\ d \in Payloads \cup Tokens \cup Pads
    BY <1>0, Zenon
  <2> QED  BY <1>0, <2>1, InputsAssumption, SizeAssumption, Zenon
<1>3. /\ Len(token) \in Nat /\ Len(d) \in Nat /\ Len(o) \in Nat
      /\ o \o d \in Seq(Bytes) /\ Len(o \o d) = Len(o) + Len(d)
      /\ SubSeq(o \o d, Len(o) + 1, Len(o) + Len(d)) = d
  <2>1. Len(token) \in Nat
    BY ONLY <1>2, Concat, Zenon
  <2>2. /\ Len(d) \in Nat /\ Len(o) \in Nat
        /\ o \o d \in Seq(Bytes) /\ Len(o \o d) = Len(o) + Len(d)
    BY ONLY <1>2, Concat, o \in Seq(Bytes), Zenon
  <2>3. SubSeq(o \o d, Len(o) + 1, Len(o) + Len(d)) = d
    BY ONLY <1>2, Suffix, o \in Seq(Bytes), Zenon
  <2> QED  BY <2>1, <2>2, <2>3, Zenon
<1>4. /\ Len(o) = sent.off * 4 - TCPHeader /\ sent.buf = o \o d
      /\ sent.len = IPHeader + sent.off * 4 + Len(d)
  BY <1>1, Zenon DEF Made
<1> DEFINE lt == Len(token)
           ld == Len(d)
           lo == Len(o)
           lb == Len(sent.buf)
           ln == sent.len
           k == sent.off
           st == TCPDataStartBytes(sent)
<1>5. /\ lt \in Nat /\ ld \in Nat /\ lo \in Nat /\ lb = lo + ld /\ k \in 5 .. 15
      /\ lo = k * 4 - TCPHeader /\ ln = IPHeader + k * 4 + ld /\ st = IPHeader + k * 4
      /\ IPHeader + 15 * 4 + BaseLen + ld + lt < B /\ (Bare <=> ln = st)
  BY <1>2, <1>3, <1>4, Zenon DEF Bare, TCPDataStartBytes
<1> HIDE DEF lt, ld, lo, lb, ln, k, st
<1>6. /\ 4 + lt < B /\ ln = IPHeader + TCPHeader + lb /\ ln + 4 + lt \in 1 .. M
      /\ Bare => lb = k * 4 - TCPHeader
      /\ st - (IPHeader + TCPHeader) + 1 = lo + 1 /\ ln - (IPHeader + TCPHeader) = lo + ld
  <2>1. M \in Nat /\ B = M + 1
    BY Sizes
  <2>2. /\ 4 + lt < B /\ ln = IPHeader + TCPHeader + lb /\ ln + 4 + lt \in 1 .. M
        /\ ln = st => lb = k * 4 - TCPHeader
        /\ st - (IPHeader + TCPHeader) + 1 = lo + 1 /\ ln - (IPHeader + TCPHeader) = lo + ld
    BY ONLY <1>5, <2>1 DEF IPHeader, TCPHeader, BaseLen
  <2> QED  BY <1>5, <2>2, Zenon
<1>7. ReadTCPData(sent) = d
  BY <1>3, <1>4, <1>6, Zenon DEF ReadTCPData, Slice, st, ln, lo, ld
<1> QED  BY <1>0, <1>2, <1>3, <1>4, <1>6, <1>7, Zenon DEF lt, lb, ln, k

LEMMA ShiftInts ==
    ASSUME Setting
    PROVE  /\ SeqShift(Len(token)) \in Int /\ AckShift \in Int
           /\ kind # "SynAck" => AckShift = 0
<1>1. AckSize \in Nat /\ Len(token) \in Nat
  BY InputsAssumption, SentFacts
<1>2. kind \in {"Syn", "SynAck", "Ack"}
  BY Zenon DEF Setting, Kinds
<1> DEFINE n == Len(token)
<1> HIDE DEF n
<1>3. n \in Nat
  BY <1>1, Zenon DEF n
<1>4. SeqShift(n) \in Int
  BY ONLY <1>1, <1>2, <1>3 DEF SeqShift
<1>5. AckShift \in Int /\ (kind # "SynAck" => AckShift = 0)
  BY ONLY <1>1, <1>2 DEF AckShift
<1> QED  BY <1>4, <1>5, Zenon DEF n

LEMMA CarriedFacts ==
    ASSUME Setting
    PROVE  /\ Carried \in Seq(Bytes) /\ Len(Carried) \in Nat
           /\ Bare => Carried = Option \o token /\ Len(Carried) = 4 + Len(token)
           /\ ~ Bare => Carried = <<>> /\ Len(Carried) = 0
           /\ sent.buf \o Carried \in Seq(Bytes)
           /\ Len(sent.buf \o Carried) = Len(sent.buf) + Len(Carried)
<1>1. token \in Seq(Bytes) /\ sent.buf \in Seq(Bytes)
  BY SentFacts, Zenon
<1>2. Option \in Seq(Bytes) /\ Len(Option) = 4
  BY OptionFacts, Zenon
<1>3. Option \o token \in Seq(Bytes) /\ Len(Option \o token) = Len(Option) + Len(token)
  BY ONLY <1>1, <1>2, Concat, Zenon
<1>4. <<>> \in Seq(Bytes) /\ Len(<<>>) = 0
  BY EmptySeq, Zenon
<1>5. /\ Carried \in Seq(Bytes)
      /\ Bare => Carried = Option \o token /\ Len(Carried) = 4 + Len(token)
      /\ ~ Bare => Carried = <<>> /\ Len(Carried) = 0
  BY <1>2, <1>3, <1>4, Zenon DEF Carried
<1>6. /\ sent.buf \o Carried \in Seq(Bytes)
      /\ Len(sent.buf \o Carried) = Len(sent.buf) + Len(Carried) /\ Len(Carried) \in Nat
  BY ONLY <1>1, <1>5, Concat, Zenon
<1> QED  BY <1>5, <1>6, Zenon

-----------------------------------------------------------------------------
(* STEPS *)

LEMMA ApplicationStep ==
    ASSUME Setting, NEW q,
           q = UpdateTCPChecksum(
                 TCPDataAttach(Shift(sent, - SeqShift(Len(token)), - AckShift), Option, token))
    PROVE  Rewritten(q) /\ q.off = WireOff
<1> DEFINE s == SeqShift(Len(token))
           a == AckShift
           m == Shift(sent, - s, - a)
           r == TCPDataAttach(m, Option, token)
<1>0. /\ sent \in Packets /\ rest \in Nat /\ sent.off \in 5 .. 15 /\ token \in Seq(Bytes)
      /\ 4 + Len(token) < B /\ sent.len + 4 + Len(token) \in 1 .. M /\ sent.buf \in Seq(Bytes)
  BY SentFacts, Zenon
<1>1. s \in Int /\ a \in Int /\ (kind # "SynAck" => a = 0)
  BY ShiftInts, Zenon
<1>2. sent.opts = <<>> /\ sent.data = <<>>
  BY Zenon DEF Setting, SentOK
<1>3. m = Shift(sent, - s, - a) /\ r = TCPDataAttach(m, Option, token) /\ q = UpdateTCPChecksum(r)
  BY Zenon
<1> HIDE DEF s, a, m, r
<1>4. /\ m \in Packets /\ m.seq = (sent.seq - s) % (B * B) /\ m.ack = (sent.ack - a) % (B * B)
      /\ m.len = sent.len /\ m.ipCsum = sent.ipCsum
      /\ m.off = sent.off /\ m.buf = sent.buf /\ m.opts = <<>> /\ m.data = <<>>
  <2>1. - s \in Int /\ - a \in Int /\ (kind # "SynAck" => - a = 0)
    BY ONLY <1>1
  <2>2. /\ m \in Packets /\ m.seq = (sent.seq + (- s)) % (B * B)
        /\ m.ack = (sent.ack + (- a)) % (B * B)
        /\ m.len = sent.len /\ m.ipCsum = sent.ipCsum
        /\ m.off = sent.off /\ m.buf = sent.buf /\ m.opts = sent.opts /\ m.data = sent.data
    BY ONLY <1>0, <1>3, <2>1, ShiftFacts, SMTT(30)
  <2>3. sent.seq + (- s) = sent.seq - s /\ sent.ack + (- a) = sent.ack - a
    <3>1. sent.seq \in Int /\ sent.ack \in Int
      <4>1. sent.seq \in Numbers32 /\ sent.ack \in Numbers32
        BY <1>0, Fields, Zenon
      <4>2. \A x, y : x \in 0 .. y => x \in Int
        OBVIOUS
      <4> QED  BY <4>1, <4>2, Zenon DEF Numbers32
    <3> QED  BY ONLY <1>1, <3>1
  <2> QED  BY <1>2, <2>2, <2>3, Zenon
<1>5. ASSUME r \in Packets
      PROVE  /\ q \in Packets /\ q.csum = computeTCPChecksum(q)
             /\ q.len = r.len /\ q.ipCsum = r.ipCsum /\ q.seq = r.seq /\ q.ack = r.ack
             /\ q.off = r.off /\ q.buf = r.buf /\ q.opts = r.opts /\ q.data = r.data
  BY ONLY <1>0, <1>3, <1>5, UpdateFacts, SMTT(30)
<1>6. CASE Bare
  <2>1. TCPDataStartBytes(m) = m.len
    BY <1>4, <1>6, Zenon DEF Bare, TCPDataStartBytes
  <2>2. /\ r \in Packets /\ r.len = m.len + 4 + Len(token)
        /\ r.ipCsum = incCsum16(m.ipCsum, m.len, r.len)
        /\ r.seq = m.seq /\ r.ack = m.ack /\ r.off = m.off + 1
        /\ r.buf = m.buf /\ r.opts = Option /\ r.data = token
    <3>1. m.off \in 5 .. 15 /\ m.len + 4 + Len(token) \in 1 .. M /\ m \in Packets
      BY <1>0, <1>4, Zenon
    <3> QED  BY ONLY <1>0, <1>3, <2>1, <3>1, AttachFacts, SMTT(30)
  <2>3. Carried = Option \o token /\ Len(Carried) = 4 + Len(token)
    BY <1>6, CarriedFacts, Zenon
  <2>4. GetBytes(q) = sent.buf \o Carried
    <3>1. GetBytes(q) = (sent.buf \o Option) \o token
      BY <1>4, <1>5, <2>2, Zenon DEF GetBytes
    <3> QED  BY <1>0, <2>3, <3>1, OptionFacts, Associate, ZenonT(30)
  <2>5. sent.len + 4 + Len(token) = sent.len + (4 + Len(token))
    <3> DEFINE n == Len(token)
               l == sent.len
    <3>1. n \in Nat /\ l \in Int
      BY SentFacts, Fields, Sizes, SMTT(30)
    <3> HIDE DEF n, l
    <3>2. l + 4 + n = l + (4 + n)
      BY ONLY <3>1
    <3> QED  BY <3>2, Zenon DEF n, l
  <2>6. q.len = sent.len + Len(Carried)
    BY <1>4, <1>5, <2>2, <2>3, <2>5, ZenonT(30)
  <2>7. q.ipCsum = incCsum16(sent.ipCsum, sent.len, q.len)
    BY <1>4, <1>5, <2>2, Zenon
  <2> QED  BY <1>4, <1>5, <1>6, <2>2, <2>4, <2>6, <2>7, ZenonT(30) DEF Rewritten, WireOff, s, a
<1>7. CASE ~ Bare
  <2>1. r = m
    <3>1. TCPDataStartBytes(m) # m.len
      BY <1>4, <1>7, Zenon DEF Bare, TCPDataStartBytes
    <3> QED  BY <1>3, <3>1, Zenon DEF TCPDataAttach
  <2>2. Carried = <<>> /\ Len(Carried) = 0
    BY <1>7, CarriedFacts, Zenon
  <2>3. GetBytes(q) = sent.buf \o Carried
    <3>1. GetBytes(q) = (sent.buf \o <<>>) \o <<>>
      BY <1>4, <1>5, <2>1, Zenon DEF GetBytes
    <3>2. sent.buf \o <<>> = sent.buf
      BY <1>0, ConcatEmptySeq, Zenon
    <3> QED  BY <2>2, <3>1, <3>2, Zenon
  <2>4. sent.len + 0 = sent.len
    BY <1>0, Fields, Sizes
  <2>5. q.len = sent.len + Len(Carried)
    BY <1>4, <1>5, <2>1, <2>2, <2>4, Zenon
  <2> QED  BY <1>4, <1>5, <1>7, <2>1, <2>3, <2>5, Zenon DEF Rewritten, WireOff, s, a
<1> QED  BY <1>6, <1>7

(* The rewritten packet states its own length. *)
LEMMA LengthFacts ==
    ASSUME Setting, NEW q, Rewritten(q)
    PROVE  /\ q \in Packets /\ Len(GetBytes(q)) \in Nat /\ GetBytes(q) \in Seq(Bytes)
           /\ q.len = IPHeader + TCPHeader + Len(GetBytes(q))
           /\ q.len - (IPHeader + TCPHeader) = Len(GetBytes(q))
<1> DEFINE lb == Len(sent.buf)
           lc == Len(Carried)
           ln == sent.len
           n == Len(GetBytes(q))
<1>1. q \in Packets /\ q.len = ln + lc /\ GetBytes(q) = sent.buf \o Carried
  BY Zenon DEF Rewritten
<1>2. ln = IPHeader + TCPHeader + lb /\ sent.buf \in Seq(Bytes) /\ lb \in Nat
  <2>1. ln = IPHeader + TCPHeader + lb /\ sent.buf \in Seq(Bytes)
    BY SentFacts, Zenon
  <2> QED  BY <2>1, Concat, Zenon
<1>3. n = lb + lc /\ lc \in Nat /\ GetBytes(q) \in Seq(Bytes)
  BY <1>1, CarriedFacts, Zenon
<1> HIDE DEF lb, lc, ln, n
<1>4. q.len = IPHeader + TCPHeader + n /\ q.len - (IPHeader + TCPHeader) = n /\ n \in Nat
  BY ONLY <1>1, <1>2, <1>3 DEF IPHeader, TCPHeader
<1> QED  BY <1>1, <1>3, <1>4, Zenon DEF n

LEMMA TransferStep ==
    ASSUME Setting, NEW w, Rewritten(w), w.off = WireOff, NEW pad \in Pads, NEW q,
           q = New(w, GetBytes(w) \o pad)
    PROVE  Parsed(q)
<1> DEFINE b == GetBytes(w)
           o == w.off % 16
<1>0. /\ w \in Packets /\ b \in Seq(Bytes) /\ w.len - (IPHeader + TCPHeader) = Len(b)
      /\ rest \in Nat
  BY LengthFacts, SentFacts, Zenon
<1>1. pad \in Seq(Bytes)
  <2>1. pad \in Payloads \cup Tokens \cup Pads
    BY Zenon
  <2> QED  BY <2>1, InputsAssumption, Zenon
<1>2. SubSeq(b \o pad, 1, Len(b)) = b
  BY ONLY <1>0, <1>1, Prefix, Zenon
<1>3. q = [w EXCEPT !.buf = b, !.off = o, !.opts = <<>>, !.data = <<>>]
  BY <1>0, <1>2, Zenon DEF New
<1>4. o \in Nat /\ o % 16 = o /\ <<>> \in Seq(Bytes)
  <2>1. w.off \in Nat
    BY <1>0, Fields, Zenon
  <2>2. o \in Nat /\ o % 16 = o
    BY ONLY <2>1
  <2> QED  BY <2>2, EmptySeq, Zenon
<1>5. b \o <<>> = b
  BY <1>0, ConcatEmptySeq, Zenon
<1>w. b = GetBytes(w) /\ o = w.off % 16
  BY Zenon
<1> HIDE DEF b, o
<1>6. q \in Packets
  BY ONLY <1>0, <1>3, <1>4, Zenon DEF Packets
<1>7. /\ q.len = w.len /\ q.ipCsum = w.ipCsum /\ q.csum = w.csum /\ q.seq = w.seq /\ q.ack = w.ack
      /\ q.off = o /\ q.buf = b /\ q.opts = <<>> /\ q.data = <<>>
  BY ONLY <1>0, <1>3, Zenon DEF Packets
<1>8. GetBytes(q) = b
  BY <1>5, <1>7, Zenon DEF GetBytes
<1>9. computeTCPChecksum(q) = computeTCPChecksum(w)
  <2>1. q.off % 16 = w.off % 16
    BY <1>4, <1>7, <1>w, Zenon
  <2> QED  BY <1>0, <1>6, <1>7, <1>8, <1>w, <2>1, SameSum, Zenon
<1> QED  BY <1>6, <1>7, <1>8, <1>9, <1>w, Zenon DEF Rewritten, Parsed

(* A packet without data arrives with the token behind the stack's header, unless
   that header is 15 words long.                                              *)
LEMMA ParsedBare ==
    ASSUME Setting, NEW w, Parsed(w), Bare, sent.off # 15
    PROVE  /\ w \in Packets /\ Shaped(w, sent.buf, token, sent.off)
           /\ sent.len = IPHeader + sent.off * 4
<1> DEFINE k == sent.off
           n == Len(token)
<1>0. k \in 5 .. 15 /\ k # 15 /\ n \in Nat /\ Len(sent.buf) = k * 4 - TCPHeader
  BY SentFacts, Zenon
<1>1. /\ w \in Packets /\ w.len = sent.len + Len(Carried) /\ GetBytes(w) = sent.buf \o Carried
      /\ w.off = (k + 1) % 16 /\ w.opts = <<>> /\ w.data = <<>>
  BY Zenon DEF Parsed, Rewritten, WireOff
<1>2. Carried = Option \o token /\ Len(Carried) = 4 + n
  BY CarriedFacts, Zenon
<1>3. w.buf = GetBytes(w)
  <2>1. w.buf \in Seq(Bytes)
    BY <1>1, Fields, Zenon
  <2>2. w.buf \o <<>> = w.buf
    BY <2>1, ConcatEmptySeq, Zenon
  <2> QED  BY <1>1, <2>2, Zenon DEF GetBytes
<1>4. sent.len = IPHeader + k * 4
  BY Zenon DEF Bare, TCPDataStartBytes
<1> HIDE DEF k, n
<1>5. k \in 5 .. 14 /\ (k + 1) % 16 = k + 1
  BY ONLY <1>0
<1>6. (IPHeader + k * 4) + (4 + n) = IPHeader + (k + 1) * 4 + n
  BY ONLY <1>0, <1>5 DEF IPHeader
<1>7. w.len = IPHeader + (k + 1) * 4 + n
  BY ONLY <1>1, <1>2, <1>4, <1>6, Zenon
<1>8. sent.buf \in Seq(Bytes) /\ token \in Seq(Bytes) /\ 4 + Len(token) < B
  BY SentFacts, Zenon
<1> QED  BY <1>0, <1>1, <1>2, <1>3, <1>4, <1>5, <1>7, <1>8, ZenonT(30) DEF k, n, Shaped

LEMMA GenuineFacts ==
    ASSUME Setting, NEW w, Parsed(w)
    PROVE  /\ Genuine(w) => Bare /\ sent.off # 15
           /\ Bare /\ sent.off # 15 => Genuine(w)
<1>1. ASSUME Genuine(w), ~ Bare PROVE FALSE
  <2>1. Carried = <<>> /\ Len(Carried) = 0
    BY <1>1, CarriedFacts, Zenon
  <2>2. /\ w \in Packets /\ w.len = sent.len + 0 /\ GetBytes(w) = sent.buf \o <<>>
        /\ w.off = sent.off % 16 /\ w.opts = <<>> /\ w.data = <<>>
    BY <1>1, <2>1, Zenon DEF Parsed, Rewritten, WireOff
  <2>3. sent.len + 0 = sent.len
    BY SentFacts, Fields, Sizes
  <2>4. sent.off % 16 = sent.off
    <3>1. sent.off \in 5 .. 15
      BY SentFacts, Zenon
    <3> QED  BY ONLY <3>1
  <2>5. w.buf = sent.buf
    <3>1. w.buf \in Seq(Bytes) /\ sent.buf \in Seq(Bytes)
      BY <2>2, Fields, SentFacts, Zenon
    <3>2. w.buf \o <<>> = w.buf /\ sent.buf \o <<>> = sent.buf
      BY <3>1, ConcatEmptySeq, Zenon
    <3> QED  BY <2>2, <3>2, Zenon DEF GetBytes
  <2>6. ReadTCPData(w) = ReadTCPData(sent)
    BY <2>2, <2>3, <2>4, <2>5, Zenon DEF ReadTCPData, Slice, TCPDataStartBytes
  <2>7. ReadTCPData(w) = token
    BY <1>1, Zenon DEF Genuine
  <2>8. token \in Payloads /\ token \in Tokens
    BY <2>6, <2>7, SentFacts, Zenon
  <2> QED  BY <2>8, TokenAssumption, Zenon
<1>2. ASSUME Genuine(w), Bare, sent.off = 15 PROVE FALSE
  <2>1. w.off = (15 + 1) % 16 /\ w.off >= 5
    BY <1>2, Zenon DEF Genuine, Parsed, WireOff
  <2> QED  BY ONLY <2>1
<1>3. ASSUME Bare, sent.off # 15 PROVE Genuine(w)
  <2>1. Shaped(w, sent.buf, token, sent.off)
    BY ONLY <1>3, ParsedBare, Setting, Parsed(w), Zenon
  <2>2. sent.off \in 5 .. 14 /\ w.off = sent.off + 1
    BY <2>1, Zenon DEF Shaped
  <2>3. ReadTCPData(w) = token /\ CheckTCPAuthenticationOption(w)
    BY ONLY <2>1, SliceFacts, Zenon
  <2>4. w.off >= 5
    BY ONLY <2>2
  <2> QED  BY <2>3, <2>4, Zenon DEF Genuine
<1> QED  BY <1>1, <1>2, <1>3, Zenon

(* The IP checksum verifies at every length the packet has been given, and
   returns with the length.                                                   *)
LEMMA IPThereAndBack ==
    ASSUME Setting, NEW n \in 1 .. M
    PROVE  LET c == incCsum16(sent.ipCsum, sent.len, n)
           IN  /\ Same((rest + n) + c, 0)
               /\ incCsum16(c, n, sent.len) = sent.ipCsum
<1> DEFINE l == sent.len
           s == sent.ipCsum
           c == incCsum16(s, l, n)
           d == incCsum16(c, n, l)
<1>0. M \in Nat
  BY Sizes
<1>1. l \in 1 .. M /\ s \in 0 .. M /\ rest \in Nat /\ s = Not(Fold[rest + l])
  <2>1. sent \in Packets /\ rest \in Nat
    BY SentFacts, Zenon
  <2> QED  BY <2>1, Fields, Zenon DEF Setting, SentOK, computeIPChecksum, IPSum
<1> HIDE DEF l, s
<1>2. rest + l \in Nat /\ rest + l > 0 /\ l \in Int /\ n \in Int /\ rest \in Int
  BY ONLY <1>0, <1>1, n \in 1 .. M
<1>3. Same((rest + l) + s, 0)
  BY <1>1, <1>2, Complement, Zenon
<1>4. c \in 0 .. M /\ Same(c, s + (l - n))
  BY <1>1, IncFacts, Zenon
<1> HIDE DEF c
<1>5. d \in 0 .. M /\ d # M /\ Same(d, c + (n - l))
  BY <1>1, <1>4, IncFacts, Zenon
<1> HIDE DEF d
<1>6. s \in Int /\ c \in Int /\ d \in Int /\ rest + n \in Int /\ n - l \in Int
  BY ONLY <1>0, <1>1, <1>2, <1>4, <1>5
<1>7. Same((rest + n) + c, 0)
  <2>1. Same((rest + n) + c, (rest + n) + (s + (l - n)))
    BY <1>4, <1>6, SameRefl, SameAdd, Zenon
  <2>2. (rest + n) + (s + (l - n)) = (rest + l) + s
    BY ONLY <1>2, <1>6
  <2> QED  BY <1>3, <2>1, <2>2, SameTrans, Zenon
<1>8. Same(d, s)
  <2>1. Same(c + (n - l), (s + (l - n)) + (n - l))
    BY <1>4, <1>6, SameRefl, SameAdd, Zenon
  <2>2. (s + (l - n)) + (n - l) = s
    BY ONLY <1>2, <1>6
  <2> QED  BY <1>5, <2>1, <2>2, SameTrans, Zenon
<1>9. s # M
  <2>1. Fold[rest + l] \in 1 .. M
    BY <1>2, FoldFacts, Zenon
  <2>2. Fold[rest + l] \in 0 .. M /\ Fold[rest + l] # 0
    BY ONLY <1>0, <2>1
  <2>3. s = M - Fold[rest + l]
    BY <1>1, <2>2, NotFacts, Zenon
  <2> QED  BY ONLY <1>0, <2>2, <2>3
<1>10. Same(d + 1, s + 1)
  <2>1. 1 \in Int
    OBVIOUS
  <2> QED  BY <1>8, <2>1, SameRefl, SameAdd, Zenon
<1>11. d + 1 \in 1 .. M /\ s + 1 \in 1 .. M
  BY ONLY <1>0, <1>1, <1>5, <1>9
<1>12. d + 1 = s + 1
  BY <1>10, <1>11, SameUnique, Zenon
<1>13. d = s
  BY ONLY <1>6, <1>12
<1> QED  BY <1>7, <1>13, Zenon DEF c, d, l, s

LEMMA NetworkStep ==
    ASSUME Setting, NEW w, Parsed(w), Genuine(w), NEW n, n = w.len - TCPDataStartBytes(w), NEW q,
           q = UpdateTCPChecksum(DropDetachedBytes(TCPDataDetach(
                 Shift(w, SeqShift(n), AckShift))))
    PROVE  q = sent
<1> DEFINE k == sent.off
           b == sent.buf
           s == SeqShift(Len(token))
           a == AckShift
           m == Shift(w, s, a)
           r == DropDetachedBytes(TCPDataDetach(m))
<1>0. Bare /\ sent.off # 15
  BY GenuineFacts, Zenon
<1>1. /\ w \in Packets /\ Shaped(w, b, token, k)
      /\ sent.len = IPHeader + k * 4
  BY ONLY <1>0, ParsedBare, Setting, Parsed(w), Zenon
<1>2. /\ sent \in Packets /\ rest \in Nat /\ b \in Seq(Bytes) /\ token \in Seq(Bytes)
      /\ 4 + Len(token) < B
  BY SentFacts, Zenon
<1>3. s \in Int /\ a \in Int /\ (kind # "SynAck" => a = 0)
  BY ShiftInts, Zenon
<1>4. /\ sent.opts = <<>> /\ sent.data = <<>> /\ sent.csum = computeTCPChecksum(sent)
      /\ w.seq = (sent.seq - s) % (B * B) /\ w.ack = (sent.ack - a) % (B * B)
      /\ w.ipCsum = incCsum16(sent.ipCsum, sent.len, w.len)
  BY <1>0, Zenon DEF Setting, SentOK, Parsed, Rewritten
<1> HIDE DEF k, b
<1>5. w.len - TCPDataStartBytes(w) = Len(token)
  BY ONLY <1>1, SliceFacts, Zenon
<1>6. m = Shift(w, s, a) /\ r = DropDetachedBytes(TCPDataDetach(m)) /\ q = UpdateTCPChecksum(r)
  BY <1>5, Zenon
<1> HIDE DEF s, a, m, r
<1>7. /\ m \in Packets /\ m.seq = (w.seq + s) % (B * B) /\ m.ack = (w.ack + a) % (B * B)
      /\ m.len = w.len /\ m.ipCsum = w.ipCsum /\ m.off = w.off /\ m.buf = w.buf
  BY ONLY <1>1, <1>3, <1>6, ShiftFacts, SMTT(60)
<1>8. m.seq = sent.seq /\ m.ack = sent.ack
  <2>1. B * B \in Nat /\ B * B > 0
    BY Sizes
  <2>2. sent.seq \in 0 .. (B * B - 1) /\ sent.ack \in 0 .. (B * B - 1)
    BY <1>2, Fields, Zenon DEF Numbers32
  <2> QED  BY ONLY <1>3, <1>4, <1>7, <2>1, <2>2, ThereAndBack, ZenonT(30)
<1>9. /\ r \in Packets /\ r.len = IPHeader + k * 4
      /\ r.ipCsum = incCsum16(m.ipCsum, m.len, r.len)
      /\ r.seq = m.seq /\ r.ack = m.ack /\ r.off = k
      /\ r.buf = b /\ r.opts = <<>> /\ r.data = <<>>
  <2>1. Shaped(m, b, token, k) /\ m \in Packets
    BY <1>1, <1>7, Zenon DEF Shaped
  <2> QED  BY ONLY <1>6, <2>1, DetachFacts, SMT
<1>10. r.len = sent.len /\ r.ipCsum = sent.ipCsum
  <2>1. w.len \in 1 .. M
    BY <1>1, Fields, Zenon
  <2>2. incCsum16(incCsum16(sent.ipCsum, sent.len, w.len), w.len, sent.len) = sent.ipCsum
    BY <2>1, IPThereAndBack, Zenon
  <2> QED  BY <1>1, <1>4, <1>7, <1>9, <2>2, ZenonT(30)
<1>11. /\ q \in Packets /\ q.csum = computeTCPChecksum(q)
       /\ q.len = r.len /\ q.ipCsum = r.ipCsum /\ q.seq = r.seq /\ q.ack = r.ack
       /\ q.off = r.off /\ q.buf = r.buf /\ q.opts = r.opts /\ q.data = r.data
  <2>1. r \in Packets
    BY <1>9, Zenon
  <2> QED  BY ONLY <1>2, <1>6, <2>1, UpdateFacts, SMTT(30)
<1>12. /\ q.len = sent.len /\ q.ipCsum = sent.ipCsum /\ q.seq = sent.seq /\ q.ack = sent.ack
       /\ q.off = sent.off /\ q.buf = sent.buf /\ q.opts = sent.opts /\ q.data = sent.data
  BY <1>4, <1>8, <1>9, <1>10, <1>11, Zenon DEF k, b
<1>13. q.csum = sent.csum
  <2>1. GetBytes(q) = GetBytes(sent) /\ q.off % 16 = sent.off % 16
    BY <1>12, Zenon DEF GetBytes
  <2>2. computeTCPChecksum(q) = computeTCPChecksum(sent)
    BY ONLY <1>2, <1>11, <1>12, <2>1, SameSum, Zenon
  <2> QED  BY <1>4, <1>11, <2>2, Zenon
<1> QED  BY ONLY <1>2, <1>11, <1>12, <1>13, SamePacket, Zenon

-----------------------------------------------------------------------------
(* THE INVARIANT HOLDS *)

LEMMA InitInv ==
    ASSUME Init
    PROVE  Inv
<1>0. /\ at = "app" /\ kind \in Kinds /\ rest \in Rests /\ token \in Tokens
      /\ sent \in StackPackets /\ p = sent
  BY Zenon DEF Init
<1>1. M \in Nat /\ M >= 255 /\ B = M + 1 /\ H \in Nat /\ H >= 16 /\ B * B \in Nat /\ B * B > 0
  BY Sizes
<1>2. rest \in Nat
  BY <1>0, <1>1, InputsAssumption DEF Words, M
<1>3. PICK n \in Numbers, m \in Numbers, off \in Offsets, data \in Payloads :
          sent = Summed(Raw(n, m, off, data))
  BY <1>0 DEF StackPackets
<1> DEFINE o == [i \in 1 .. (off * 4 - TCPHeader) |-> 1]
           l == IPHeader + off * 4 + Len(data)
           r == [len |-> l, ipCsum |-> 0, csum |-> 0, seq |-> n, ack |-> m, off |-> off,
                 buf |-> o \o data, opts |-> <<>>, data |-> <<>>]
           c == computeIPChecksum(r)
           x == [r EXCEPT !.ipCsum = c]
<1>4. off \in 5 .. 15 /\ off \in Nat
  <2>1. off \in 5 .. 15
    BY InputsAssumption, Zenon
  <2> QED  BY ONLY <2>1
<1>5. n \in Numbers32 /\ m \in Numbers32
  BY InputsAssumption, Zenon DEF Numbers32
<1>6. /\ data \in Seq(Bytes) /\ Len(data) \in Nat /\ token \in Seq(Bytes) /\ Len(token) \in Nat
      /\ IPHeader + 15 * 4 + BaseLen + Len(data) + Len(token) < B
  <2>1. data \in Payloads \cup Tokens \cup Pads /\ token \in Payloads \cup Tokens \cup Pads
    BY <1>0, Zenon
  <2>2. data \in Seq(Bytes) /\ token \in Seq(Bytes)
    BY <2>1, InputsAssumption, Zenon
  <2>3. Len(data) \in Nat /\ Len(token) \in Nat
    BY ONLY <2>2, Concat, Zenon
  <2> QED  BY <1>0, <2>2, <2>3, SizeAssumption, Zenon
<1>7. o \in Seq(Bytes) /\ Len(o) = off * 4 - TCPHeader
  <2>1. off * 4 - TCPHeader \in Nat /\ 1 \in Bytes
    BY ONLY <1>1, <1>4 DEF TCPHeader, Bytes
  <2> DEFINE j == off * 4 - TCPHeader
  <2> HIDE DEF j
  <2>2. j \in Nat
    BY <2>1, Zenon DEF j
  <2>3. [i \in 1 .. j |-> 1] \in Seq(Bytes) /\ Len([i \in 1 .. j |-> 1]) = j
    BY ONLY <2>1, <2>2
  <2> QED  BY <2>3, Zenon DEF j
<1>8. l \in 1 .. M
  <2> DEFINE ld == Len(data)
             lt == Len(token)
  <2>1. ld \in Nat /\ lt \in Nat /\ IPHeader + 15 * 4 + BaseLen + ld + lt < B
    BY <1>6, Zenon
  <2> HIDE DEF ld, lt
  <2>2. IPHeader + off * 4 + ld \in 1 .. M
    BY ONLY <1>1, <1>4, <2>1 DEF IPHeader, BaseLen
  <2> QED  BY <2>2, Zenon DEF ld
<1>9. o \o data \in Seq(Bytes) /\ <<>> \in Seq(Bytes)
  <2>1. o \o data \in Seq(Bytes)
    <3> HIDE DEF o
    <3> QED  BY ONLY <1>6, <1>7, Concat, Zenon
  <2> QED  BY <2>1, EmptySeq, Zenon
<1>10. sent = UpdateTCPChecksum(x)
  BY <1>3, Zenon DEF Raw, Summed
<1>11. c = Not(Fold[rest + l])
  BY Zenon DEF computeIPChecksum, IPSum
<1> DEFINE ob == o \o data
<1>12. ob \in Seq(Bytes) /\ ob = o \o data /\ l = IPHeader + off * 4 + Len(data)
  BY <1>9, Zenon
<1>13. x = [[len |-> l, ipCsum |-> 0, csum |-> 0, seq |-> n, ack |-> m, off |-> off,
             buf |-> ob, opts |-> <<>>, data |-> <<>>] EXCEPT !.ipCsum = c]
  BY Zenon
<1> HIDE DEF o, l, c, r, x, ob
<1>14. c \in 0 .. M
  <2>1. rest + l \in Nat
    BY ONLY <1>1, <1>2, <1>8
  <2> QED  BY <1>11, <2>1, Complement, Zenon
<1>15. x = [len |-> l, ipCsum |-> c, csum |-> 0, seq |-> n, ack |-> m, off |-> off,
            buf |-> ob, opts |-> <<>>, data |-> <<>>]
  BY ONLY <1>13, SMT
<1>16. x \in Packets
  <2>1. 0 \in 0 .. M
    BY <1>1
  <2> QED  BY <1>4, <1>5, <1>8, <1>9, <1>12, <1>14, <1>15, <2>1, ZenonT(30) DEF Packets
<1>17. /\ x.len = l /\ x.ipCsum = c /\ x.seq = n /\ x.ack = m /\ x.off = off /\ x.buf = ob
       /\ x.opts = <<>> /\ x.data = <<>>
  BY ONLY <1>15, Zenon
<1>18. /\ sent \in Packets /\ sent.csum = computeTCPChecksum(sent)
       /\ sent.len = x.len /\ sent.ipCsum = x.ipCsum /\ sent.off = x.off /\ sent.buf = x.buf
       /\ sent.opts = x.opts /\ sent.data = x.data
  BY ONLY <1>2, <1>10, <1>16, UpdateFacts, SMTT(30)
<1>19. sent.ipCsum = computeIPChecksum(sent)
  BY <1>11, <1>17, <1>18, Zenon DEF computeIPChecksum, IPSum
<1>20. Made(o, data)
  BY <1>7, <1>12, <1>17, <1>18, Zenon DEF Made
<1>21. SentOK
  BY <1>7, <1>17, <1>18, <1>19, <1>20, Zenon DEF SentOK
<1>22. Setting
  BY <1>0, <1>2, <1>21, Zenon DEF Setting
<1> QED  BY <1>0, <1>22 DEF Inv

(* The steps change at and p only. *)
LEMMA Frame ==
    ASSUME UNCHANGED <<kind, rest, sent, token>>, Setting
    PROVE  /\ Setting'
           /\ Rewritten(p') => Rewritten(p)'
           /\ Parsed(p') => Parsed(p)'
           /\ Genuine(p)' => Genuine(p')
           /\ WireOff' = WireOff
<1>0. kind' = kind /\ rest' = rest /\ sent' = sent /\ token' = token
  OBVIOUS
<1>1. Setting'
  <2>1. kind \in Kinds /\ rest \in Nat /\ token \in Tokens /\ SentOK
    BY Zenon DEF Setting
  <2>2. SentOK'
    BY <1>0, <2>1, Zenon DEF SentOK, Made, computeIPChecksum, IPSum, computeTCPChecksum, TCPSum
  <2> QED  BY <1>0, <2>1, <2>2, Zenon DEF Setting
<1>2. /\ Bare' = Bare /\ Carried' = Carried /\ WireOff' = WireOff
      /\ SeqShift(Len(token))' = SeqShift(Len(token)) /\ AckShift' = AckShift
      /\ computeTCPChecksum(p)' = computeTCPChecksum(p')
  BY <1>0, Zenon DEF Bare, Carried, WireOff, TCPDataStartBytes, SeqShift, AckShift,
                     computeTCPChecksum, TCPSum
<1>3. Rewritten(p') => Rewritten(p)'
  BY <1>0, <1>2, Zenon DEF Rewritten
<1>4. Parsed(p') => Parsed(p)'
  BY <1>2, <1>3, Zenon DEF Parsed
<1>5. Genuine(p)' => Genuine(p')
  BY <1>0, Zenon DEF Genuine
<1> QED  BY <1>1, <1>2, <1>3, <1>4, <1>5, Zenon

LEMMA NextInv ==
    ASSUME Inv, [Next]_vars
    PROVE  Inv'
<1>0. /\ Setting /\ at \in {"app", "wire", "net", "delivered", "dropped"}
      /\ at \in {"app", "delivered"} => p = sent
      /\ at = "wire" => Rewritten(p) /\ p.off = WireOff
      /\ at \in {"net", "dropped"} => Parsed(p)
      /\ at = "dropped" => ~ Genuine(p)
  BY Zenon DEF Inv
<1>1. CASE ProcessApplication
  <2>1. /\ at = "app" /\ at' = "wire" /\ UNCHANGED <<kind, rest, sent, token>>
        /\ p' = UpdateTCPChecksum(
                  TCPDataAttach(Shift(p, - SeqShift(Len(token)), - AckShift), Option, token))
    BY <1>1, Zenon DEF ProcessApplication
  <2>2. p = sent
    BY <1>0, <2>1, Zenon
  <2>3. Rewritten(p') /\ p'.off = WireOff
    BY <1>0, <2>1, <2>2, ApplicationStep, Zenon
  <2>4. Setting' /\ Rewritten(p)' /\ p'.off = WireOff'
    BY <1>0, <2>1, <2>3, Frame, Zenon
  <2> QED  BY <2>1, <2>4, Zenon DEF Inv
<1>2. CASE Transfer
  <2>1. /\ at = "wire" /\ at' = "net" /\ UNCHANGED <<kind, rest, sent, token>>
        /\ \E pad \in Pads : p' = New(p, GetBytes(p) \o pad)
    BY <1>2, Zenon DEF Transfer
  <2>2. PICK pad \in Pads : p' = New(p, GetBytes(p) \o pad)
    BY <2>1, Zenon
  <2>3. Rewritten(p) /\ p.off = WireOff
    BY <1>0, <2>1, Zenon
  <2>4. Parsed(p')
    BY ONLY <1>0, <2>2, <2>3, TransferStep, pad \in Pads, Zenon
  <2>5. Setting' /\ Parsed(p)'
    BY <1>0, <2>1, <2>4, Frame, Zenon
  <2> QED  BY <2>1, <2>5, Zenon DEF Inv
<1>3. CASE ProcessNetwork
  <2>1. /\ at = "net" /\ at' = "delivered" /\ UNCHANGED <<kind, rest, sent, token>> /\ Genuine(p)
        /\ \E n : /\ n = p.len - TCPDataStartBytes(p)
                  /\ p' = UpdateTCPChecksum(DropDetachedBytes(TCPDataDetach(
                            Shift(p, SeqShift(n), AckShift))))
    BY <1>3, Zenon DEF ProcessNetwork
  <2>2. Parsed(p)
    BY <1>0, <2>1, Zenon
  <2>a. p' = sent
    BY <1>0, <2>1, <2>2, NetworkStep, Zenon
  <2>3. p' = sent /\ sent' = sent
    BY <2>1, <2>a
  <2>4. Setting'
    BY <1>0, <2>1, Frame, Zenon
  <2> QED  BY <2>1, <2>3, <2>4, Zenon DEF Inv
<1>4. CASE DropNetwork
  <2>1. /\ at = "net" /\ at' = "dropped" /\ UNCHANGED <<kind, rest, sent, token>> /\ ~ Genuine(p)
        /\ p' = p
    BY <1>4, Zenon DEF DropNetwork
  <2>2. Parsed(p') /\ ~ Genuine(p')
    BY <1>0, <2>1, Zenon
  <2>3. Setting' /\ Parsed(p)' /\ ~ Genuine(p)'
    BY <1>0, <2>1, <2>2, Frame, Zenon
  <2> QED  BY <2>1, <2>3, Zenon DEF Inv
<1>5. CASE UNCHANGED vars
  <2>1. at' = at /\ p' = p /\ UNCHANGED <<kind, rest, sent, token>> /\ sent' = sent
    BY <1>5, Zenon DEF vars
  <2>2. /\ Setting' /\ WireOff' = WireOff /\ (Rewritten(p) => Rewritten(p)')
        /\ (Parsed(p) => Parsed(p)') /\ (Genuine(p)' => Genuine(p))
    BY <1>0, <2>1, Frame, Zenon
  <2> QED  BY <1>0, <2>1, <2>2, Zenon DEF Inv
<1> QED  BY <1>1, <1>2, <1>3, <1>4, <1>5, Zenon DEF Next

(* At every stage of its way a packet is what the handlers made of the one the
   stack sent: the rewritten, the parsed and the restored packet are related to
   the original field by field. *)
THEOREM PacketInvariant == Spec => []Inv
<1>1. Init => Inv
  BY InitInv
<1>2. Inv /\ [Next]_vars => Inv'
  BY NextInv
<1> QED  BY <1>1, <1>2, PTL DEF Spec

-----------------------------------------------------------------------------
(* PROPERTIES *)

LEMMA SentVerifies ==
    ASSUME Setting
    PROVE  Same((rest + sent.len) + sent.ipCsum, 0) /\ TCPVerifies(sent)
<1>0. sent \in Packets /\ rest \in Nat /\ rest + sent.len \in Nat
  <2>1. sent \in Packets /\ rest \in Nat
    BY SentFacts, Zenon
  <2>2. sent.len \in Nat
    BY <2>1, Fields, Sizes
  <2>3. rest + sent.len \in Nat
    BY ONLY <2>1, <2>2
  <2> QED  BY <2>1, <2>3, Zenon
<1>1. sent.ipCsum = Not(Fold[rest + sent.len]) /\ sent.csum = computeTCPChecksum(sent)
  BY Zenon DEF Setting, SentOK, computeIPChecksum, IPSum
<1>2. Same((rest + sent.len) + sent.ipCsum, 0)
  BY <1>0, <1>1, Complement, Zenon
<1> QED  BY <1>0, <1>1, <1>2, RecomputedVerifies, Zenon

LEMMA RewrittenVerifies ==
    ASSUME Setting, NEW q, Rewritten(q)
    PROVE  Same((rest + q.len) + q.ipCsum, 0) /\ TCPVerifies(q)
<1>0. q \in Packets /\ rest \in Nat /\ q.csum = computeTCPChecksum(q)
  BY SentFacts, Zenon DEF Rewritten
<1>1. TCPVerifies(q)
  BY <1>0, RecomputedVerifies, Zenon
<1>2. CASE Bare
  <2>1. q.ipCsum = incCsum16(sent.ipCsum, sent.len, q.len) /\ q.len \in 1 .. M
    BY <1>0, <1>2, Fields, Zenon DEF Rewritten
  <2> QED  BY <1>1, <2>1, IPThereAndBack, Zenon
<1>3. CASE ~ Bare
  <2>1. q.ipCsum = sent.ipCsum /\ q.len = sent.len + 0
    BY <1>3, CarriedFacts, Zenon DEF Rewritten
  <2>2. sent.len + 0 = sent.len
    BY SentFacts, Fields, Sizes
  <2> QED  BY <1>1, <2>1, <2>2, SentVerifies, Zenon
<1> QED  BY <1>2, <1>3

LEMMA InvWireValid ==
    ASSUME Inv
    PROVE  WireValid
<1>0. Setting /\ (p = sent \/ Rewritten(p))
  BY Zenon DEF Inv, Parsed
<1>1. CASE p = sent
  <2>1. /\ sent \in Packets /\ sent.buf \in Seq(Bytes)
        /\ sent.len = IPHeader + TCPHeader + Len(sent.buf)
    BY <1>0, SentFacts, Zenon
  <2>2. GetBytes(sent) = sent.buf
    <3>1. sent.opts = <<>> /\ sent.data = <<>>
      BY <1>0, Zenon DEF Setting, SentOK
    <3>2. sent.buf \o <<>> = sent.buf
      BY <2>1, ConcatEmptySeq, Zenon
    <3> QED  BY <3>1, <3>2, Zenon DEF GetBytes
  <2>3. IPVerifies(sent) /\ TCPVerifies(sent)
    BY <1>0, <2>1, SentVerifies, SentFacts, IPVerifiesIff, Zenon DEF IPSum
  <2> QED  BY <1>1, <2>1, <2>2, <2>3, Zenon DEF WireValid
<1>2. CASE Rewritten(p)
  <2>1. p \in Packets /\ p.len = IPHeader + TCPHeader + Len(GetBytes(p))
    BY <1>0, <1>2, LengthFacts, Zenon
  <2>2. Same((rest + p.len) + p.ipCsum, 0) /\ TCPVerifies(p) /\ rest \in Nat
    BY <1>0, <1>2, RewrittenVerifies, SentFacts, Zenon
  <2>3. IPVerifies(p)
    BY <2>1, <2>2, IPVerifiesIff, Zenon DEF IPSum
  <2> QED  BY <2>1, <2>2, <2>3, Zenon DEF WireValid
<1> QED  BY <1>0, <1>1, <1>2

(* Every packet that leaves a handler, or a stack, states its own length and
   verifies against both checksums (packet.go:269, helpers.go:131): the IP
   checksum although it is only adjusted, twice, and never recomputed.        *)
THEOREM WireValidAlways == Spec => []WireValid
<1>1. Inv => WireValid
  BY InvWireValid
<1> QED  BY <1>1, PacketInvariant, PTL

(* What the receiving stack gets is the packet the sending stack made, the IP
   checksum included, for every width, every number that wraps, every token and
   padding (datapath_tcp.go:201).                                             *)
THEOREM RoundTripAlways == Spec => []RoundTrip
<1>1. Inv => RoundTrip
  BY Zenon DEF Inv, RoundTrip
<1> QED  BY <1>1, PacketInvariant, PTL

(* The header has room for the option: a data offset of 15 has no successor. *)
RoomForOption == 15 \notin Offsets

(* A packet without data of its own is never dropped for want of its option or
   its token, unless its header is 15 words long (packet.go:381, 395).        *)
THEOREM ArrivesAlways == RoomForOption => (Spec => []Arrives)
<1> SUFFICES ASSUME RoomForOption PROVE Spec => []Arrives
  OBVIOUS
<1>1. ASSUME Inv, at = "dropped" PROVE ~ Bare
  <2>1. Setting /\ Parsed(p) /\ ~ Genuine(p)
    BY <1>1, Zenon DEF Inv
  <2>2. sent.off # 15
    BY <2>1, Zenon DEF Setting, SentOK, RoomForOption
  <2> QED  BY <2>1, <2>2, GenuineFacts, Zenon
<1>2. Inv => Arrives
  BY <1>1, Zenon DEF Arrives, Bare
<1> QED  BY <1>2, PacketInvariant, PTL

-----------------------------------------------------------------------------
(* INCREMENTAL ADJUSTMENTS *)

(* The checksum moves back by what the sum moves forward. *)
LEMMA Balance ==
    ASSUME NEW q \in Packets, NEW r \in Packets, rest \in Nat, TCPVerifies(q), NEW d \in Int,
           Same(TCPSum(r), TCPSum(q) + d), Same(r.csum, q.csum - d)
    PROVE  TCPVerifies(r)
<1>1. Same(TCPSum(q) + q.csum, 0)
  BY TCPVerifiesIff, Zenon
<1>2. TCPSum(q) \in Int /\ q.csum \in Int
  <2>1. TCPSum(q) \in Nat /\ q.csum \in 0 .. M /\ M \in Nat
    BY TCPSumFacts, Fields, Sizes, Zenon
  <2> QED  BY ONLY <2>1
<1>3. Same(TCPSum(r) + r.csum, (TCPSum(q) + d) + (q.csum - d))
  BY SameAdd, Zenon
<1>4. (TCPSum(q) + d) + (q.csum - d) = TCPSum(q) + q.csum
  BY ONLY <1>2, d \in Int
<1>5. Same(TCPSum(r) + r.csum, 0)
  BY <1>1, <1>3, <1>4, SameTrans, Zenon
<1> QED  BY <1>5, TCPVerifiesIff, Zenon

LEMMA MoveSeqVerifies ==
    ASSUME NEW q \in Packets, rest \in Nat, TCPVerifies(q), q.csum # 0, NEW by \in Int
    PROVE  TCPVerifies(MoveSeq(q, by))
<1> DEFINE r == MoveSeq(q, by)
           d == r.seq - q.seq
<1>0. r = MoveSeq(q, by)
  BY Zenon
<1> HIDE DEF r
<1>1. /\ r \in Packets /\ r.ack = q.ack /\ r.off = q.off /\ r.buf = q.buf /\ r.opts = q.opts
      /\ r.data = q.data /\ Same(r.csum, q.csum - d)
  BY ONLY <1>0, MoveSeqFacts, q \in Packets, by \in Int, q.csum # 0, SMTT(30)
<1>2. r.seq \in Numbers32 /\ q.seq \in Numbers32
  BY <1>1, Fields, Zenon
<1>3. /\ Halves(r.seq) \in Nat /\ Same(Halves(r.seq), r.seq)
      /\ Halves(q.seq) \in Nat /\ Same(Halves(q.seq), q.seq)
  BY <1>2, HalvesFacts, Zenon DEF Numbers32
<1>4. Same(Halves(r.seq) - Halves(q.seq), d)
  BY <1>3, SameSub, Zenon
<1>5. d \in Int
  BY <1>4, Zenon DEF Same
<1>6. GetBytes(r) = GetBytes(q)
  BY <1>1, Zenon DEF GetBytes
<1> DEFINE hr == Halves(r.seq)
           hq == Halves(q.seq)
           a == Halves(q.ack)
           u == (q.off % 16) * OffsetUnit
           z == TCPHeader + Len(GetBytes(q))
           c == checksumDelta(GetBytes(q))
           Sr == TCPSum(r)
           Sq == TCPSum(q)
<1>7. /\ Sr = rest + hr + a + u + z + c /\ Sq = rest + hq + a + u + z + c
      /\ a \in Nat /\ u \in Nat /\ c \in Nat /\ Sq \in Nat
  BY <1>1, <1>6, TCPSumFacts, Zenon
<1>8. z \in Nat /\ hr \in Nat /\ hq \in Nat
  <2>1. Len(GetBytes(q)) \in Nat
    <3>1. GetBytes(q) \in Seq(Bytes)
      BY BytesFacts, Zenon
    <3> QED  BY ONLY <3>1, Concat, Zenon
  <2>2. TCPHeader + Len(GetBytes(q)) \in Nat
    BY ONLY <2>1 DEF TCPHeader
  <2> QED  BY <1>3, <2>2, Zenon
<1> HIDE DEF hr, hq, a, u, z, c, Sr, Sq, d
<1>9. Sr = Sq + (hr - hq) /\ Sq \in Int
  BY ONLY <1>7, <1>8, rest \in Nat
<1>10. Same(Sr, Sq + d)
  <2>1. Same(hr - hq, d)
    BY <1>4, Zenon DEF hr, hq
  <2> QED  BY <1>9, <2>1, SameRefl, SameAdd, Zenon
<1>11. TCPVerifies(r)
  <2>1. Same(TCPSum(r), TCPSum(q) + d)
    BY <1>10, Zenon DEF Sr, Sq
  <2>2. r \in Packets /\ Same(r.csum, q.csum - d)
    BY <1>1, Zenon
  <2> QED  BY ONLY <1>5, <2>1, <2>2, Balance, q \in Packets, rest \in Nat, TCPVerifies(q), ZenonT(30)
<1> QED  BY <1>0, <1>11, Zenon

LEMMA MoveAckVerifies ==
    ASSUME NEW q \in Packets, rest \in Nat, TCPVerifies(q), q.csum # 0, NEW by \in Int
    PROVE  TCPVerifies(MoveAck(q, by))
<1> DEFINE r == MoveAck(q, by)
           d == r.ack - q.ack
<1>0. r = MoveAck(q, by)
  BY Zenon
<1> HIDE DEF r
<1>1. /\ r \in Packets /\ r.seq = q.seq /\ r.off = q.off /\ r.buf = q.buf /\ r.opts = q.opts
      /\ r.data = q.data /\ Same(r.csum, q.csum - d)
  BY ONLY <1>0, MoveAckFacts, q \in Packets, by \in Int, q.csum # 0, SMTT(30)
<1>2. r.ack \in Numbers32 /\ q.ack \in Numbers32
  BY <1>1, Fields, Zenon
<1>3. /\ Halves(r.ack) \in Nat /\ Same(Halves(r.ack), r.ack)
      /\ Halves(q.ack) \in Nat /\ Same(Halves(q.ack), q.ack)
  BY <1>2, HalvesFacts, Zenon DEF Numbers32
<1>4. Same(Halves(r.ack) - Halves(q.ack), d)
  BY <1>3, SameSub, Zenon
<1>5. d \in Int
  BY <1>4, Zenon DEF Same
<1>6. GetBytes(r) = GetBytes(q)
  BY <1>1, Zenon DEF GetBytes
<1> DEFINE hr == Halves(r.ack)
           hq == Halves(q.ack)
           a == Halves(q.seq)
           u == (q.off % 16) * OffsetUnit
           z == TCPHeader + Len(GetBytes(q))
           c == checksumDelta(GetBytes(q))
           Sr == TCPSum(r)
           Sq == TCPSum(q)
<1>7. /\ Sr = rest + a + hr + u + z + c /\ Sq = rest + a + hq + u + z + c
      /\ a \in Nat /\ u \in Nat /\ c \in Nat /\ Sq \in Nat
  BY <1>1, <1>6, TCPSumFacts, Zenon
<1>8. z \in Nat /\ hr \in Nat /\ hq \in Nat
  <2>1. Len(GetBytes(q)) \in Nat
    <3>1. GetBytes(q) \in Seq(Bytes)
      BY BytesFacts, Zenon
    <3> QED  BY ONLY <3>1, Concat, Zenon
  <2>2. TCPHeader + Len(GetBytes(q)) \in Nat
    BY ONLY <2>1 DEF TCPHeader
  <2> QED  BY <1>3, <2>2, ZenonT(30)
<1> HIDE DEF hr, hq, a, u, z, c, Sr, Sq, d
<1>9. Sr = Sq + (hr - hq) /\ Sq \in Int
  BY ONLY <1>7, <1>8, rest \in Nat, SMTT(30)
<1>10. Same(Sr, Sq + d)
  <2>1. Same(hr - hq, d)
    BY <1>4, ZenonT(30) DEF hr, hq
  <2> QED  BY <1>9, <2>1, SameRefl, SameAdd, Zenon
<1>11. TCPVerifies(r)
  <2>1. Same(TCPSum(r), TCPSum(q) + d)
    BY <1>10, Zenon DEF Sr, Sq
  <2>2. r \in Packets /\ Same(r.csum, q.csum - d)
    BY <1>1, Zenon
  <2> QED  BY ONLY <1>5, <2>1, <2>2, Balance, q \in Packets, rest \in Nat, TCPVerifies(q), Zenon
<1> QED  BY <1>0, <1>11, Zenon

(* r is q with the option and the token t behind its header of k words. *)
Extended(q, r, t, k) ==
    /\ q \in Packets /\ r \in Packets /\ t \in Seq(Bytes) /\ k \in 5 .. 14
    /\ q.off = k /\ r.off = k + 1 /\ r.seq = q.seq /\ r.ack = q.ack
    /\ Len(GetBytes(q)) = k * 4 - TCPHeader
    /\ GetBytes(r) = GetBytes(q) \o (Option \o t)

TokenSum(t) == (Total(Option \o t) + (4 + Len(t))) + OffsetUnit

(* The token adds its own words, its length and one to the data offset: it
   starts at an even byte.                                                    *)
LEMMA ExtendedSum ==
    ASSUME NEW q, NEW r, NEW t, NEW k, Extended(q, r, t, k), rest \in Nat
    PROVE  Same(TCPSum(r), TCPSum(q) + TokenSum(t)) /\ TokenSum(t) \in Int
<1> DEFINE gq == GetBytes(q)
           gr == GetBytes(r)
           ot == Option \o t
<1>0. /\ q \in Packets /\ r \in Packets /\ t \in Seq(Bytes) /\ k \in 5 .. 14
      /\ q.off = k /\ r.off = k + 1 /\ r.seq = q.seq /\ r.ack = q.ack
      /\ Len(gq) = k * 4 - TCPHeader /\ gr = gq \o ot
  BY Zenon DEF Extended
<1>1. gq \in Seq(Bytes) /\ gr \in Seq(Bytes)
  BY <1>0, BytesFacts, Zenon
<1>2. ot \in Seq(Bytes) /\ Len(ot) = 4 + Len(t) /\ Len(t) \in Nat
  <2>1. Option \in Seq(Bytes) /\ Len(Option) = 4
    BY OptionFacts, Zenon
  <2>2. ot \in Seq(Bytes) /\ Len(ot) = Len(Option) + Len(t) /\ Len(t) \in Nat
    BY ONLY <1>0, <2>1, Concat, Zenon
  <2> QED  BY <2>1, <2>2, Zenon
<1> HIDE DEF ot
<1>3. Len(gr) = Len(gq) + Len(ot)
  <2>1. Len(gq \o ot) = Len(gq) + Len(ot)
    BY ONLY <1>1, <1>2, Concat, Zenon
  <2> QED  BY ONLY <1>0, <2>1, Zenon
<1>4. Total(gr) = Total(gq) + Total(ot)
  <2>1. k * 4 - TCPHeader = 2 * (2 * k - 10) /\ 2 * k - 10 \in Nat
    BY ONLY <1>0 DEF TCPHeader
  <2>2. Len(gq) = 2 * (2 * k - 10)
    BY <1>0, <2>1, Zenon
  <2> QED  BY ONLY <1>0, <1>1, <1>2, <2>1, <2>2, TotalConcat, ZenonT(30)
<1> DEFINE tq == Total(gq)
           tt == Total(ot)
           cq == checksumDelta(gq)
           cr == checksumDelta(gr)
           n == Len(gq)
           lt == Len(t)
           hs == Halves(q.seq)
           ha == Halves(q.ack)
           Sr == TCPSum(r)
           Sq == TCPSum(q)
           d == TokenSum(t)
<1>5. Same(cq, tq) /\ Same(cr, tq + tt) /\ tt \in Nat /\ tq \in Nat
  BY <1>1, <1>2, <1>4, ChecksumDelta, TotalNat, Zenon
<1>6. tt \in Int /\ cq \in Int /\ cr \in Int /\ OffsetUnit \in Nat /\ n \in Nat /\ lt \in Nat
  <2>1. tt \in Int
    BY ONLY <1>5
  <2>2. OffsetUnit \in Nat
    BY Sizes
  <2>3. n \in Nat
    BY ONLY <1>1, Concat, Zenon
  <2> QED  BY <1>2, <1>5, <2>1, <2>2, <2>3, ZenonT(30) DEF Same
<1>7. Same(cr, cq + tt)
  <2>1. Same(cq + tt, tq + tt)
    BY <1>5, <1>6, SameRefl, SameAdd, Zenon
  <2>2. Same(tq + tt, cq + tt)
    BY <2>1, SameSym, Zenon
  <2> QED  BY <1>5, <2>2, SameTrans, Zenon
<1>8. /\ Sq = rest + hs + ha + (q.off % 16) * OffsetUnit + (TCPHeader + n) + cq
      /\ Sr = rest + hs + ha + (r.off % 16) * OffsetUnit + (TCPHeader + Len(gr)) + cr
      /\ hs \in Nat /\ ha \in Nat
  BY <1>0, TCPSumFacts, Zenon
<1>9. q.off % 16 = k /\ r.off % 16 = k + 1
  <2>1. k \in 5 .. 14 /\ q.off = k /\ r.off = k + 1
    BY <1>0, Zenon
  <2> QED  BY ONLY <2>1
<1>10. /\ Sq = rest + hs + ha + k * OffsetUnit + (TCPHeader + n) + cq
       /\ Sr = rest + hs + ha + (k + 1) * OffsetUnit + (TCPHeader + (n + (4 + lt))) + cr
       /\ d = (tt + (4 + lt)) + OffsetUnit
  BY <1>2, <1>3, <1>8, <1>9, Zenon DEF TokenSum, ot
<1> HIDE DEF gq, gr, tq, tt, cq, cr, n, lt, hs, ha, Sr, Sq, d
<1> DEFINE A == rest + hs + ha + (k + 1) * OffsetUnit + (TCPHeader + (n + (4 + lt)))
           U == OffsetUnit
<1>11. k * U \in Int /\ (k + 1) * U = k * U + U /\ U \in Nat
  <2>1. k \in Nat /\ OffsetUnit \in Nat
    BY ONLY <1>0, <1>6
  <2> HIDE DEF U
  <2>2. U \in Nat
    BY <2>1, Zenon DEF U
  <2> QED  BY ONLY <2>1, <2>2
<1>12. A \in Int /\ Sr = A + cr /\ Sq + d = A + (cq + tt) /\ d \in Int
  <2> DEFINE ku == k * U
             k1 == (k + 1) * U
  <2>1. /\ ku \in Int /\ k1 = ku + U /\ U \in Nat /\ A = rest + hs + ha + k1 + (TCPHeader + (n + (4 + lt)))
        /\ Sr = rest + hs + ha + k1 + (TCPHeader + (n + (4 + lt))) + cr
        /\ Sq = rest + hs + ha + ku + (TCPHeader + n) + cq
        /\ d = (tt + (4 + lt)) + U
    BY <1>10, <1>11, Zenon
  <2> HIDE DEF ku, k1, A, U
  <2> QED  BY ONLY <1>6, <1>8, <2>1, rest \in Nat, SMTT(30) DEF TCPHeader
<1> HIDE DEF A
<1>13. Same(A + cr, A + (cq + tt))
  BY <1>7, <1>12, SameRefl, SameAdd, Zenon
<1> QED  BY <1>12, <1>13, Zenon DEF Sr, Sq, d

(* Attaching the token keeps a checksum other than 0 exact. *)
LEMMA AttachVerifies ==
    ASSUME Setting, sent.off # 15, sent.csum # 0
    PROVE  TCPVerifies(TCPDataAttach(sent, Option, token))
<1> DEFINE r == TCPDataAttach(sent, Option, token)
           delta == computeTCPChecksumDelta(Option, token)
           d == TokenSum(token)
<1>0. /\ sent \in Packets /\ rest \in Nat /\ sent.off \in 5 .. 15 /\ token \in Seq(Bytes)
      /\ 4 + Len(token) < B /\ sent.len + 4 + Len(token) \in 1 .. M /\ sent.buf \in Seq(Bytes)
      /\ TCPVerifies(sent)
  BY SentFacts, SentVerifies, Zenon
<1>1. CASE ~ Bare
  <2>1. r = sent
    BY <1>1, Zenon DEF Bare, TCPDataAttach
  <2> QED  BY <1>0, <2>1, Zenon
<1>2. CASE Bare
  <2>0. r = TCPDataAttach(sent, Option, token) /\ TCPDataStartBytes(sent) = sent.len
    BY <1>2, Zenon DEF Bare
  <2> HIDE DEF r, delta, d
  <2>1. /\ r \in Packets /\ r.csum = Adjusted(sent.csum, computeTCPChecksumDelta(Option, token))
        /\ r.seq = sent.seq /\ r.ack = sent.ack /\ r.off = sent.off + 1
        /\ r.buf = sent.buf /\ r.opts = Option /\ r.data = token
    BY ONLY <1>0, <2>0, AttachFacts, SMTT(30)
  <2>2. GetBytes(sent) = sent.buf
    <3>1. sent.opts = <<>> /\ sent.data = <<>>
      BY Zenon DEF Setting, SentOK
    <3>2. sent.buf \o <<>> = sent.buf
      BY <1>0, ConcatEmptySeq, Zenon
    <3> QED  BY <3>1, <3>2, Zenon DEF GetBytes
  <2>3. GetBytes(r) = sent.buf \o (Option \o token)
    <3>1. GetBytes(r) = (sent.buf \o Option) \o token
      BY <2>1, Zenon DEF GetBytes
    <3>2. Option \in Seq(Bytes)
      BY OptionFacts, Zenon
    <3>3. (sent.buf \o Option) \o token = sent.buf \o (Option \o token)
      BY ONLY <1>0, <3>2, Associate, Zenon
    <3> QED  BY <3>1, <3>3, Zenon
  <2>4. sent.off \in 5 .. 14
    BY ONLY <1>0, sent.off # 15
  <2>5. Extended(sent, r, token, sent.off)
    BY <1>0, <1>2, <2>1, <2>2, <2>3, <2>4, SentFacts, ZenonT(30) DEF Extended
  <2>6. Same(TCPSum(r), TCPSum(sent) + d) /\ d \in Int
    BY <1>0, <2>5, ExtendedSum, Zenon DEF d
  <2>7. delta \in 0 .. M /\ Same(delta, d)
    BY <1>0, TokenDelta, Zenon DEF delta, d, TokenSum
  <2>8. sent.csum \in 1 .. M /\ sent.csum \in Int
    <3>1. sent.csum \in 0 .. M /\ M \in Nat
      BY <1>0, Fields, Sizes, Zenon
    <3> QED  BY ONLY <3>1, sent.csum # 0
  <2>9. Same(r.csum, sent.csum - delta)
    BY <2>1, <2>7, <2>8, AttachCsum, Zenon DEF delta
  <2>10. Same(sent.csum - delta, sent.csum - d)
    BY <2>7, <2>8, SameRefl, SameSub, Zenon
  <2>11. Same(r.csum, sent.csum - d)
    BY <2>9, <2>10, SameTrans, Zenon
  <2>12. TCPVerifies(r)
    BY ONLY <1>0, <2>1, <2>6, <2>11, Balance, Zenon
  <2> QED  BY <2>0, <2>12, Zenon
<1> QED  BY <1>1, <1>2

(* So does detaching it, unless the adjustment comes out at 0. *)
LEMMA DetachVerifies ==
    ASSUME Setting, NEW w, Parsed(w), Genuine(w), w.csum # 0, TCPDataDetach(w).csum # 0
    PROVE  TCPVerifies(DropDetachedBytes(TCPDataDetach(w)))
<1> DEFINE r == DropDetachedBytes(TCPDataDetach(w))
           delta == computeTCPChecksumDelta(Option, token)
           d == TokenSum(token)
           k == sent.off
           b == sent.buf
<1>0. Bare /\ sent.off # 15
  BY GenuineFacts, Zenon
<1>1. w \in Packets /\ Shaped(w, b, token, k)
  BY ONLY <1>0, ParsedBare, Setting, Parsed(w), Zenon
<1>2. rest \in Nat /\ TCPVerifies(w) /\ w.opts = <<>> /\ w.data = <<>>
  BY SentFacts, RewrittenVerifies, Zenon DEF Parsed
<1>r. r = DropDetachedBytes(TCPDataDetach(w))
  BY Zenon
<1> HIDE DEF r, delta, d, k, b
<1>3. /\ r \in Packets /\ r.csum = Adjusted(w.csum, - computeTCPChecksumDelta(Option, token))
      /\ r.csum = TCPDataDetach(w).csum
      /\ r.seq = w.seq /\ r.ack = w.ack /\ r.off = k
      /\ r.buf = b /\ r.opts = <<>> /\ r.data = <<>>
  BY ONLY <1>1, <1>r, DetachFacts, SMT
<1>4. /\ b \in Seq(Bytes) /\ token \in Seq(Bytes) /\ k \in 5 .. 14 /\ 4 + Len(token) < B
      /\ w.off = k + 1 /\ w.buf = b \o (Option \o token) /\ Len(b) = k * 4 - TCPHeader
  BY <1>1, Zenon DEF Shaped
<1>5. GetBytes(r) = b /\ GetBytes(w) = w.buf
  <2>1. b \o <<>> = b
    BY <1>4, ConcatEmptySeq, Zenon
  <2>2. w.buf \o <<>> = w.buf
    <3>1. w.buf \in Seq(Bytes)
      BY <1>1, Fields, Zenon
    <3> QED  BY <3>1, ConcatEmptySeq, Zenon
  <2> QED  BY <1>2, <1>3, <2>1, <2>2, Zenon DEF GetBytes
<1>6. Extended(r, w, token, k)
  BY <1>1, <1>3, <1>4, <1>5, Zenon DEF Extended
<1>7. Same(TCPSum(w), TCPSum(r) + d) /\ d \in Int
  BY <1>2, <1>6, ExtendedSum, Zenon DEF d
<1>8. delta \in 0 .. M /\ Same(delta, d)
  BY <1>4, TokenDelta, Zenon DEF delta, d, TokenSum
<1>9. w.csum \in 1 .. M /\ w.csum \in Int /\ TCPSum(r) \in Int /\ - d \in Int
  <2>1. w.csum \in 0 .. M /\ M \in Nat /\ TCPSum(r) \in Nat
    BY <1>1, <1>2, <1>3, Fields, TCPSumFacts, Sizes, ZenonT(30)
  <2> QED  BY ONLY <1>7, <2>1, w.csum # 0
<1>10. Same(r.csum, w.csum + delta)
  BY <1>3, <1>8, <1>9, DetachCsum, Zenon DEF delta
<1>11. Same(w.csum + delta, w.csum + d)
  BY <1>8, <1>9, SameRefl, SameAdd, Zenon
<1>12. Same(r.csum, w.csum + d)
  BY <1>10, <1>11, SameTrans, Zenon
<1>13. w.csum + d = w.csum - (- d) /\ (TCPSum(r) + d) - d = TCPSum(r) /\ TCPSum(w) \in Int
  <2>1. TCPSum(w) \in Int
    BY <1>7, Zenon DEF Same
  <2> QED  BY ONLY <1>7, <1>9, <2>1
<1>14. Same(TCPSum(r), TCPSum(w) + (- d))
  <2>1. Same(TCPSum(w) - d, (TCPSum(r) + d) - d)
    BY <1>7, SameRefl, SameSub, Zenon
  <2>2. TCPSum(w) - d = TCPSum(w) + (- d)
    BY ONLY <1>7, <1>13
  <2> QED  BY <1>13, <2>1, <2>2, SameSym, Zenon
<1>15. TCPVerifies(r)
  <2>1. Same(r.csum, w.csum - (- d))
    BY <1>12, <1>13, Zenon
  <2> QED  BY ONLY <1>1, <1>2, <1>3, <1>9, <1>14, <2>1, Balance, ZenonT(30)
<1> QED  BY <1>15, <1>r, Zenon

(* The incremental adjustments are exact on their own, except from a stored
   checksum of 0 and for a detach that comes out at 0 (packet.go:287, 364, 457),
   wherever the option fits the header.                                       *)
THEOREM IncrementalIsExactAlways == RoomForOption => (Spec => []IncrementalIsExact)
<1> SUFFICES ASSUME RoomForOption PROVE Spec => []IncrementalIsExact
  OBVIOUS
<1>1. ASSUME Inv PROVE IncrementalIsExact
  <2>0. Setting
    BY <1>1, Zenon DEF Inv
  <2>1. sent \in Packets /\ rest \in Nat /\ TCPVerifies(sent) /\ sent.off # 15
    BY <2>0, SentFacts, SentVerifies, Zenon DEF Setting, SentOK, RoomForOption
  <2>2. AckSize \in Int /\ - AckSize \in Int
    BY InputsAssumption
  <2>3. ASSUME at = "app", p.csum # 0
        PROVE  /\ TCPVerifies(MoveSeq(p, - AckSize)) /\ TCPVerifies(MoveAck(p, AckSize))
               /\ TCPVerifies(TCPDataAttach(p, Option, token))
    <3>1. p = sent
      BY <1>1, <2>3, Zenon DEF Inv
    <3>2. sent.csum # 0
      BY <2>3, <3>1, Zenon
    <3>3. TCPVerifies(MoveSeq(sent, - AckSize))
      BY <2>1, <2>2, <3>2, MoveSeqVerifies, Zenon
    <3>4. TCPVerifies(MoveAck(sent, AckSize))
      BY <2>1, <2>2, <3>2, MoveAckVerifies, Zenon
    <3>5. TCPVerifies(TCPDataAttach(sent, Option, token))
      BY <2>0, <2>1, <3>2, AttachVerifies, Zenon
    <3> QED  BY <3>1, <3>3, <3>4, <3>5, Zenon
  <2>4. ASSUME at = "net", Genuine(p), p.csum # 0, TCPDataDetach(p).csum # 0
        PROVE  TCPVerifies(DropDetachedBytes(TCPDataDetach(p)))
    <3>1. Parsed(p)
      BY <1>1, <2>4, Zenon DEF Inv
    <3> QED  BY <2>0, <2>4, <3>1, DetachVerifies, Zenon
  <2> QED  BY <2>3, <2>4, Zenon DEF IncrementalIsExact
<1> QED  BY <1>1, PacketInvariant, PTL
=============================================================================
