--------------------------- MODULE DbcTargetProofs ---------------------------
(***************************************************************************)
(* Theorems about block time and difficulty (DbcTarget), for every base,   *)
(* word length, window and sequence of accepted timestamps.                *)
(***************************************************************************)
EXTENDS DbcTarget, FiniteSetTheorems, TLAPS

\* Induction over the natural numbers, the inductive hypothesis being membership in F.
LEMMA NaturalInduction ==
    ASSUME NEW F, 0 \in F, \A n \in Nat : n \in F => n + 1 \in F
    PROVE  \A n \in Nat : n \in F
<1> DEFINE Bad == {n \in Nat : n \notin F}
           Less == OpToRel(<, Nat)
<1>1. SUFFICES ASSUME Bad # {}
               PROVE  FALSE
  OBVIOUS
<1>2. PICK n \in Bad : \A m \in Bad : ~(<<m, n>> \in Less)
  <2>1. IsWellFoundedOn(Less, Nat) /\ Bad \subseteq Nat
    BY NatLessThanWellFounded, Zenon
  <2> HIDE DEF Bad, Less
  <2> QED
    BY <1>1, <2>1, WFMin
<1>3. n \in Nat \ {0} /\ n - 1 \in Nat /\ n - 1 < n
  OBVIOUS
<1>4. <<n - 1, n>> \in Less
  BY <1>3, Zenon DEF OpToRel
<1>5. n - 1 \in F
  BY <1>2, <1>3, <1>4
<1> QED
  BY <1>3, <1>5

\* The least number of a set.
LEMMA LeastNumber ==
    ASSUME NEW F \in SUBSET Nat, F # {}
    PROVE  \E n \in F : n = 0 \/ n - 1 \notin F
<1>1. SUFFICES ASSUME \A n \in F : n # 0 /\ n - 1 \in F PROVE FALSE
  OBVIOUS
<1> DEFINE G == Nat \ F
<1>2. 0 \in G
  BY <1>1
<1>3. ASSUME NEW n \in Nat, n \in G
      PROVE  n + 1 \in G
  BY <1>1, <1>3
<1>4. \A n \in Nat : n \in G
  <2> HIDE DEF G
  <2> QED
    BY <1>2, <1>3, NaturalInduction
<1> QED
  BY <1>4

-----------------------------------------------------------------------------
(* Powers of the base.                                                     *)

\* g holds the powers up to n.
Powers(g, n) == g = [k \in 0..n |-> IF k = 0 THEN 1 ELSE Base * g[k - 1]]

LEMMA PowersExist == \A n \in Nat : \E g : Powers(g, n)
<1> DEFINE F == {n \in Nat : \E g : Powers(g, n)}
<1>1. 0 \in F
  <2> DEFINE h == [k \in 0..0 |-> 1]
  <2>1. Powers(h, 0)
    BY DEF Powers
  <2> HIDE DEF h
  <2> QED
    BY <2>1
<1>2. ASSUME NEW n \in Nat, n \in F
      PROVE  n + 1 \in F
  <2>1. PICK g : Powers(g, n)
    BY <1>2
  <2> DEFINE m == n + 1
             h == [k \in 0..m |-> IF k < m THEN g[k] ELSE Base * g[n]]
  <2>2. ASSUME NEW k \in 0..m
        PROVE  h[k] = IF k = 0 THEN 1 ELSE Base * h[k - 1]
    <3>1. CASE k = m
      BY <3>1
    <3>2. CASE k # m
      <4>1. k \in 0..n /\ h[k] = g[k] /\ (k # 0 => h[k - 1] = g[k - 1])
        BY <3>2
      <4>2. g[k] = IF k = 0 THEN 1 ELSE Base * g[k - 1]
        BY <2>1, <4>1 DEF Powers
      <4> QED
        BY <4>1, <4>2
    <3> QED
      BY <3>1, <3>2
  <2>3. Powers(h, m)
    <3>1. h = [k \in 0..m |-> h[k]]
      OBVIOUS
    <3> HIDE DEF h, m
    <3> QED
      BY <2>2, <3>1, Zenon DEF Powers
  <2> QED
    BY <2>3
<1>3. \A n \in Nat : n \in F
  <2> HIDE DEF F
  <2> QED
    BY <1>1, <1>2, NaturalInduction
<1> QED
  BY <1>3

LEMMA PowersAgree ==
    ASSUME NEW g, NEW h, NEW m \in Nat, NEW n \in Nat, Powers(g, m), Powers(h, n), n <= m
    PROVE  g[n] = h[n]
<1> DEFINE F == {x \in Nat : x <= n => g[x] = h[x]}
<1>1. \A x \in 0..n : /\ g[x] = IF x = 0 THEN 1 ELSE Base * g[x - 1]
                      /\ h[x] = IF x = 0 THEN 1 ELSE Base * h[x - 1]
  <2>1. \A x \in 0..n : x \in 0..m
    OBVIOUS
  <2> QED
    BY <2>1, Zenon DEF Powers
<1>2. 0 \in F
  BY <1>1
<1>3. ASSUME NEW x \in Nat, x \in F
      PROVE  x + 1 \in F
  <2> DEFINE y == x + 1
  <2>1. y - 1 = x /\ y # 0 /\ y \in Nat /\ (y <= n => y \in 0..n /\ x <= n)
    OBVIOUS
  <2> HIDE DEF y
  <2>2. y \in F
    BY <1>1, <1>3, <2>1
  <2> QED
    BY <2>2 DEF y
<1>4. n \in F
  <2> HIDE DEF F
  <2> QED
    BY <1>2, <1>3, NaturalInduction
<1> QED
  BY <1>4

\* The recursive definition defines a function.
LEMMA PowIsFunction == Pow = [n \in Nat |-> IF n = 0 THEN 1 ELSE Base * Pow[n - 1]]
<1> DEFINE upTo(n) == CHOOSE g : Powers(g, n)
           h == [n \in Nat |-> upTo(n)[n]]
<1>1. \A n \in Nat : Powers(upTo(n), n)
  BY PowersExist
<1>2. ASSUME NEW n \in Nat
      PROVE  h[n] = IF n = 0 THEN 1 ELSE Base * h[n - 1]
  <2>1. h[n] = upTo(n)[n] /\ (n # 0 => n - 1 \in Nat /\ h[n - 1] = upTo(n - 1)[n - 1])
    OBVIOUS
  <2> HIDE DEF upTo, h
  <2>2. upTo(n)[n] = IF n = 0 THEN 1 ELSE Base * upTo(n)[n - 1]
    <3>1. n \in 0..n
      OBVIOUS
    <3>2. Powers(upTo(n), n)
      BY <1>1
    <3> QED
      BY <3>1, <3>2, Zenon DEF Powers
  <2>3. n # 0 => upTo(n)[n - 1] = upTo(n - 1)[n - 1]
    BY <1>1, PowersAgree
  <2> QED
    BY <2>1, <2>2, <2>3
<1>3. h = [n \in Nat |-> IF n = 0 THEN 1 ELSE Base * h[n - 1]]
  <2>1. h = [n \in Nat |-> h[n]]
    OBVIOUS
  <2> HIDE DEF h
  <2> QED
    BY <1>2, <2>1, Zenon
<1> HIDE DEF h
<1> QED
  BY <1>3, Zenon DEF Pow

LEMMA PowNext ==
    /\ Pow[0] = 1
    /\ \A n \in Nat : Pow[n + 1] = Base * Pow[n]
<1>1. ASSUME NEW n \in Nat
      PROVE  Pow[n + 1] = Base * Pow[n]
  <2> DEFINE m == n + 1
  <2>1. m \in Nat /\ m # 0 /\ m - 1 = n
    OBVIOUS
  <2> HIDE DEF m
  <2>2. Pow[m] = Base * Pow[m - 1]
    BY <2>1, PowIsFunction, Zenon
  <2> QED
    BY <2>1, <2>2 DEF m
<1>2. Pow[0] = 1
  <2>1. 0 \in Nat
    OBVIOUS
  <2> QED
    BY <2>1, PowIsFunction, Zenon
<1> QED
  BY <1>1, <1>2

LEMMA Products ==
    /\ \A x, y \in Nat : x * y \in Nat
    /\ \A x, y \in Nat \ {0} : x * y \in Nat \ {0}
    /\ \A x, y, z \in Nat : x <= y => z * x <= z * y /\ x * z <= y * z
    /\ \A x, y, z \in Nat : z # 0 /\ x < y => z * x < z * y /\ x * z < y * z
    /\ \A x, y, z \in Nat : (x * y) * z = x * (y * z)
    /\ \A x, y \in Nat : x * y = y * x
  OBVIOUS

LEMMA PowPositive == \A n \in Nat : Pow[n] \in Nat \ {0}
<1> DEFINE F == {n \in Nat : Pow[n] \in Nat \ {0}}
<1>1. 0 \in F
  BY PowNext
<1>2. ASSUME NEW n \in Nat, n \in F
      PROVE  n + 1 \in F
  <2>1. Base \in Nat \ {0} /\ Pow[n] \in Nat \ {0} /\ Pow[n + 1] = Base * Pow[n]
    BY <1>2, PowNext, TargetAssumption
  <2>2. Pow[n + 1] \in Nat \ {0}
    BY <2>1, Products
  <2> QED
    BY <2>2
<1>3. \A n \in Nat : n \in F
  <2> HIDE DEF F
  <2> QED
    BY <1>1, <1>2, NaturalInduction
<1> QED
  BY <1>3

LEMMA PowAdds == \A m, n \in Nat : Pow[m + n] = Pow[m] * Pow[n]
<1> SUFFICES ASSUME NEW n \in Nat PROVE \A m \in Nat : Pow[m + n] = Pow[m] * Pow[n]
  OBVIOUS
<1> DEFINE F == {m \in Nat : Pow[m + n] = Pow[m] * Pow[n]}
<1>1. 0 \in F
  BY PowNext, PowPositive
<1>2. ASSUME NEW m \in Nat, m \in F
      PROVE  m + 1 \in F
  <2>1. (m + 1) + n = (m + n) + 1 /\ m + n \in Nat
    OBVIOUS
  <2>2. Pow[(m + 1) + n] = Base * Pow[m + n]
    BY <2>1, PowNext
  <2>3. Pow[m + n] = Pow[m] * Pow[n] /\ Pow[m + 1] = Base * Pow[m]
    BY <1>2, PowNext
  <2>4. Base * (Pow[m] * Pow[n]) = (Base * Pow[m]) * Pow[n]
    <3>1. Base \in Nat /\ Pow[m] \in Nat /\ Pow[n] \in Nat
      BY PowPositive, TargetAssumption
    <3> QED
      BY <3>1, Products
  <2> QED
    BY <2>2, <2>3, <2>4
<1>3. \A m \in Nat : m \in F
  <2> HIDE DEF F
  <2> QED
    BY <1>1, <1>2, NaturalInduction
<1> QED
  BY <1>3

LEMMA PowGrows == \A m, n \in Nat : m <= n => Pow[m] <= Pow[n]
<1> SUFFICES ASSUME NEW m \in Nat, NEW n \in Nat, m <= n PROVE Pow[m] <= Pow[n]
  OBVIOUS
<1>1. n - m \in Nat /\ (n - m) + m = n
  OBVIOUS
<1>2. Pow[n] = Pow[n - m] * Pow[m]
  BY <1>1, PowAdds
<1>3. Pow[n - m] \in Nat \ {0} /\ Pow[m] \in Nat
  BY <1>1, PowPositive
<1> QED
  BY <1>2, <1>3

-----------------------------------------------------------------------------
(* Compact targets.                                                        *)

\* There is a number of digits, and CHOOSE finds it.
LEMMA DigitsFound ==
    ASSUME NEW v \in 0..MaxWord
    PROVE  /\ Digits(v) \in 0..Half
           /\ v < Pow[Digits(v)]
           /\ Digits(v) > 0 => v >= Pow[Digits(v) - 1]
<1> DEFINE F == {n \in Nat : v < Pow[n]}
<1>1. Half \in Nat /\ Pow[Half] \in Nat
  BY PowPositive, TargetAssumption
<1>2. Half \in F
  BY <1>1 DEF MaxWord
<1>3. PICK n \in F : n = 0 \/ n - 1 \notin F
  BY <1>2, LeastNumber
<1>4. n \in Nat /\ v < Pow[n] /\ v \in Nat
  BY <1>1, <1>3 DEF MaxWord
<1>5. n > 0 => v >= Pow[n - 1]
  <2>1. SUFFICES ASSUME n > 0 PROVE v >= Pow[n - 1]
    OBVIOUS
  <2>2. n - 1 \in Nat /\ Pow[n - 1] \in Nat
    BY <1>4, <2>1, PowPositive
  <2> QED
    BY <1>3, <1>4, <2>1, <2>2
<1>6. n <= Half
  <2>1. SUFFICES ASSUME Half < n PROVE FALSE
    BY <1>1, <1>4
  <2>2. n - 1 \in Nat /\ Half <= n - 1
    BY <1>1, <1>4, <2>1
  <2>3. Pow[Half] <= Pow[n - 1] /\ Pow[n - 1] \in Nat
    BY <1>1, <2>2, PowGrows, PowPositive
  <2> QED
    BY <1>1, <1>2, <1>4, <1>5, <2>1, <2>3
<1>7. n \in 0..Half /\ v < Pow[n] /\ (n > 0 => v >= Pow[n - 1])
  BY <1>1, <1>4, <1>5, <1>6
<1> QED
  BY <1>7, Zenon DEF Digits

LEMMA QuotientBounds ==
    ASSUME NEW v \in Nat, NEW d \in Nat \ {0}, NEW q \in Nat
    PROVE  /\ v \div d \in Nat
           /\ v < d * q => v \div d < q
           /\ v >= d => v \div d > 0
<1>1. v \div d \in Nat /\ d * (v \div d) <= v /\ v < d * (v \div d) + d
  OBVIOUS
<1> DEFINE k == v \div d
<1> HIDE DEF k
<1>2. k \in Nat /\ d * k <= v /\ v < d * k + d
  BY <1>1 DEF k
<1>3. ASSUME v < d * q PROVE k < q
  <2>1. SUFFICES ASSUME q <= k PROVE FALSE
    BY <1>2
  <2>2. d * q <= d * k /\ d * q \in Nat /\ d * k \in Nat
    BY <1>2, <2>1, Products
  <2> QED
    BY <1>2, <1>3, <2>2
<1>4. ASSUME v >= d PROVE k > 0
  <2>1. SUFFICES ASSUME k = 0 PROVE FALSE
    BY <1>2
  <2> QED
    BY <1>2, <1>4, <2>1
<1> QED
  BY <1>2, <1>3, <1>4 DEF k

\* The compact form of a word: of its type, and never 0 for a word other than 0.
LEMMA CompactOfWord ==
    ASSUME NEW v \in 0..MaxWord
    PROVE  /\ CompactFromWord(v) \in CompactTarget
           /\ v > 0 => CompactFromWord(v).exponent > 0 /\ CompactFromWord(v).mantissa > 0
<1> DEFINE n == Digits(v)
           mantissa == IF n > 3 THEN v \div Pow[n - 3] ELSE v * Pow[3 - n]
<1>1. Half \in Nat /\ n \in 0..Half /\ v \in Nat
  BY DigitsFound, PowPositive, TargetAssumption DEF MaxWord
<1>2. v < Pow[n] /\ (n > 0 => v >= Pow[n - 1])
  BY DigitsFound
<1>3. CompactFromWord(v) = [exponent |-> n, mantissa |-> mantissa]
  BY DEF CompactFromWord
<1>4. Pow[3] \in Nat /\ n \in Nat /\ Pow[n] \in Nat
  BY <1>1, PowPositive
<1>5. v > 0 => n > 0
  BY <1>1, <1>2, PowNext
<1> HIDE DEF n
<1>6. mantissa \in 0..Pow[3] - 1 /\ (v > 0 => mantissa > 0)
  <2>1. CASE n > 3
    <3>1. n - 3 \in Nat /\ n - 1 \in Nat /\ (n - 3) + 3 = n /\ n - 3 <= n - 1
      BY <1>4, <2>1
    <3>2. /\ Pow[n - 3] \in Nat \ {0} /\ Pow[n] = Pow[n - 3] * Pow[3]
          /\ Pow[n - 3] <= Pow[n - 1] /\ Pow[n - 1] \in Nat
      BY <3>1, PowPositive, PowAdds, PowGrows
    <3>3. v < Pow[n - 3] * Pow[3] /\ v >= Pow[n - 3]
      BY <1>1, <1>2, <1>4, <2>1, <3>2
    <3>4. v \div Pow[n - 3] \in Nat /\ v \div Pow[n - 3] < Pow[3] /\ v \div Pow[n - 3] > 0
      BY <1>1, <1>4, <3>2, <3>3, QuotientBounds
    <3> QED
      BY <1>4, <2>1, <3>4
  <2>2. CASE ~(n > 3)
    <3>1. 3 - n \in Nat /\ n + (3 - n) = 3
      BY <1>4, <2>2
    <3>2. Pow[3 - n] \in Nat \ {0} /\ Pow[3] = Pow[n] * Pow[3 - n]
      BY <1>4, <3>1, PowPositive, PowAdds
    <3>3. v * Pow[3 - n] < Pow[3] /\ v * Pow[3 - n] \in Nat
      BY <1>1, <1>2, <1>4, <3>2, Products
    <3>4. v > 0 => v * Pow[3 - n] \in Nat \ {0}
      BY <1>1, <3>2, Products
    <3> QED
      BY <1>4, <2>2, <3>3, <3>4
  <2> QED
    BY <2>1, <2>2
<1>7. n \in 0..2 * Half
  BY <1>1
<1> HIDE DEF mantissa
<1> QED
  BY <1>3, <1>4, <1>5, <1>6, <1>7 DEF CompactTarget

\* What a compact target stands for.
LEMMA ExpandTypes ==
    ASSUME NEW c \in CompactTarget
    PROVE  /\ Expand(c) \in Nat
           /\ Expand(c) > 0 <=> c.exponent > 0 /\ c.mantissa > 0
<1>1. /\ Half \in Nat /\ c.exponent \in 0..2 * Half /\ c.mantissa \in 0..Pow[3] - 1
      /\ Pow[3] \in Nat
  BY PowPositive, TargetAssumption DEF CompactTarget
<1> DEFINE shift == IF c.exponent > 3 THEN c.exponent - 3 ELSE 0
<1>2. c.exponent \in Nat /\ c.mantissa \in Nat /\ shift \in Nat
  BY <1>1
<1> HIDE DEF shift
<1>3. Pow[shift] \in Nat \ {0}
  BY <1>2, PowPositive
<1>4. Expand(c) = IF c.exponent = 0 THEN 0 ELSE c.mantissa * Pow[shift]
  BY DEF Expand, shift
<1>5. /\ c.mantissa * Pow[shift] \in Nat
      /\ c.mantissa # 0 => c.mantissa * Pow[shift] \in Nat \ {0}
      /\ c.mantissa = 0 => c.mantissa * Pow[shift] = 0
  BY <1>2, <1>3, Products
<1> QED
  BY <1>2, <1>4, <1>5

\* A retarget gives a target of its type, and one that some hash is below.
LEMMA AdjustTypes ==
    ASSUME NEW c \in CompactTarget, NEW actual \in Nat, NEW expected \in Nat
    PROVE  /\ Adjust(c, actual, expected) \in CompactTarget
           /\ Expand(c) > 0 => Expand(Adjust(c, actual, expected)) > 0
<1>1. CASE actual = 0 \/ expected = 0
  BY <1>1 DEF Adjust
<1>2. CASE actual # 0 /\ expected # 0
  <2> DEFINE wide == UpperHalf(Expand(c)) * actual
             product == Clamp(wide, 0, MaxWord)
             word == Clamp(product \div expected, 1, MaxWord \div 2)
  <2>1. Pow[Half] \in Nat \ {0} /\ Pow[Half] >= 3
    <3>1. Half \in Nat /\ 1 <= Half /\ 2 <= Half /\ Base \in Nat /\ Base > 1
      BY TargetAssumption
    <3>2. Pow[1] = Base * 1 /\ Pow[2] = Base * Pow[1]
      <4>1. Pow[0 + 1] = Base * Pow[0] /\ Pow[1 + 1] = Base * Pow[1] /\ Pow[0] = 1
        BY PowNext
      <4> QED
        BY <4>1
    <3>3. Base * 2 <= Base * Base
      BY <3>1, Products
    <3>4. Pow[2] <= Pow[Half] /\ Pow[Half] \in Nat \ {0}
      BY <3>1, PowGrows, PowPositive
    <3> QED
      BY <3>1, <3>2, <3>3, <3>4
  <2>2. wide \in Nat
    <3>1. Expand(c) \in Nat
      BY ExpandTypes
    <3>2. UpperHalf(Expand(c)) \in Nat
      BY <2>1, <3>1, QuotientBounds DEF UpperHalf
    <3> QED
      BY <3>2, Products
  <2> HIDE DEF wide
  <2>3. MaxWord \in Nat /\ MaxWord \div 2 \in Nat /\ MaxWord \div 2 >= 1 /\ MaxWord \div 2 <= MaxWord
    <3> DEFINE w == Pow[Half]
    <3>1. w \in Nat /\ w >= 3
      BY <2>1
    <3> HIDE DEF w
    <3>2. w - 1 \in Nat /\ (w - 1) \div 2 \in Nat /\ (w - 1) \div 2 >= 1 /\ (w - 1) \div 2 <= w - 1
      BY <3>1
    <3> QED
      BY <3>2 DEF MaxWord, w
  <2>4. product \in Nat
    BY <2>2, <2>3 DEF Clamp
  <2> HIDE DEF product
  <2>5. product \div expected \in Nat
    BY <1>2, <2>4, QuotientBounds
  <2>6. word \in 0..MaxWord /\ word > 0
    BY <2>3, <2>5 DEF Clamp
  <2>7. Adjust(c, actual, expected) = CompactFromWord(word)
    BY <1>2 DEF Adjust, product, wide
  <2> HIDE DEF word
  <2> QED
    BY <2>6, <2>7, CompactOfWord, ExpandTypes
<1> QED
  BY <1>1, <1>2

-----------------------------------------------------------------------------
(* The windows of recent blocks, and their medians.                        *)

Times == 0..MaxTime + MaxFuture

LEMMA TimesAreNatural == Times \subseteq Nat /\ MaxTime + MaxFuture \in Nat
  BY TargetAssumption DEF Times

LEMMA StampsAreNatural ==
    ASSUME NEW w \in Seq(Times)
    PROVE  /\ Len(w) \in Nat /\ DOMAIN w = 1..Len(w)
           /\ \A i \in 1..Len(w) : w[i] \in Times /\ w[i] \in Nat
<1>1. Len(w) \in Nat /\ DOMAIN w = 1..Len(w) /\ \A i \in 1..Len(w) : w[i] \in Times
  OBVIOUS
<1> QED
  BY <1>1, TimesAreNatural

\* The blocks in a window of at most n.
Size(n) == IF Len(stamps) > n THEN n ELSE Len(stamps)

LEMMA RecentIs ==
    ASSUME TypeOK, NEW n \in Nat \ {0}
    PROVE  /\ Size(n) \in 1..Len(stamps)
           /\ Recent(n) \in Seq(Times)
           /\ Len(Recent(n)) = Size(n)
           /\ \A i \in 1..Size(n) : Recent(n)[i] = stamps[Len(stamps) - Size(n) + i]
<1> DEFINE len == Len(stamps)
           low == IF len > n THEN len - n + 1 ELSE 1
<1>1. stamps \in Seq(Times) /\ len \in Nat /\ len >= 1
  BY DEF TypeOK, Times
<1>2. low \in 1..len /\ len - low + 1 = Size(n) /\ low - 1 = len - Size(n)
  BY <1>1 DEF Size
<1>3. Size(n) \in 1..len
  BY <1>1 DEF Size
<1>4. Recent(n) = SubSeq(stamps, low, len)
  BY DEF Recent
<1> HIDE DEF low
<1>5. \A i \in low..len : stamps[i] \in Times
  BY <1>1, <1>2
<1>6. /\ Recent(n) \in Seq(Times) /\ Len(Recent(n)) = len - low + 1
      /\ \A i \in 1..len - low + 1 : Recent(n)[i] = stamps[low + i - 1]
  BY <1>1, <1>2, <1>4, <1>5
<1>7. ASSUME NEW i \in 1..Size(n)
      PROVE  Recent(n)[i] = stamps[len - Size(n) + i]
  <2>1. low + i - 1 = len - Size(n) + i
    BY <1>1, <1>2, <1>3
  <2>2. Recent(n)[i] = stamps[low + i - 1]
    BY <1>2, <1>6
  <2> QED
    BY <2>1, <2>2
<1> QED
  BY <1>2, <1>3, <1>6, <1>7

Below(w, m) == {i \in DOMAIN w : w[i] < m}
AtMost(w, m) == {i \in DOMAIN w : w[i] <= m}

LEMMA Counts ==
    ASSUME NEW w \in Seq(Times), NEW S \in SUBSET DOMAIN w
    PROVE  /\ IsFiniteSet(S) /\ Cardinality(S) \in Nat
           /\ Cardinality(DOMAIN w) = Len(w) /\ Len(w) \in Nat /\ DOMAIN w = 1..Len(w)
<1>1. Len(w) \in Nat /\ DOMAIN w = 1..Len(w)
  OBVIOUS
<1>2. IsFiniteSet(1..Len(w)) /\ Cardinality(1..Len(w)) = Len(w)
  <2> DEFINE n == Len(w)
  <2>1. n \in Nat /\ n \in Int /\ 1 \in Int
    BY <1>1
  <2> HIDE DEF n
  <2>2. IsFiniteSet(1..n) /\ Cardinality(1..n) = IF 1 > n THEN 0 ELSE n - 1 + 1
    BY <2>1, FS_Interval
  <2> QED
    BY <2>1, <2>2 DEF n
<1> QED
  BY <1>1, <1>2, FS_Subset, FS_CardinalityType

\* The median is a value of the window: at most half of it lies below, more than half
\* does not lie above.
LEMMA MedianFound ==
    ASSUME NEW w \in Seq(Times), Len(w) > 0
    PROVE  /\ MedianOf(w) \in Nat
           /\ Cardinality(Below(w, MedianOf(w))) <= Len(w) \div 2
           /\ Cardinality(AtMost(w, MedianOf(w))) > Len(w) \div 2
<1> DEFINE half == Len(w) \div 2
           F == {m \in Nat : Cardinality(AtMost(w, m)) > half}
           latest == MaxTime + MaxFuture
<1>1. Len(w) \in Nat /\ DOMAIN w = 1..Len(w) /\ \A i \in DOMAIN w : w[i] \in Times /\ w[i] \in Nat
  BY StampsAreNatural
<1>2. half \in Nat /\ half < Len(w)
  BY <1>1
<1>3. \A m : /\ Cardinality(AtMost(w, m)) \in Nat /\ Cardinality(Below(w, m)) \in Nat
  BY Counts DEF AtMost, Below
<1>4. latest \in F
  <2>1. AtMost(w, latest) = DOMAIN w
    BY <1>1 DEF AtMost, Times
  <2>2. Cardinality(DOMAIN w) = Len(w)
    BY Counts
  <2> QED
    BY <1>2, <2>1, <2>2, TimesAreNatural
<1>5. PICK n \in F : n = 0 \/ n - 1 \notin F
  BY <1>4, LeastNumber
<1> HIDE DEF half
<1>6. Cardinality(Below(w, n)) <= half
  <2>1. CASE n = 0
    <3>1. Below(w, n) = {}
      BY <1>1, <2>1 DEF Below
    <3> QED
      BY <1>2, <3>1, FS_EmptySet
  <2>2. CASE n # 0
    <3>1. n - 1 \in Nat /\ Below(w, n) = AtMost(w, n - 1)
      BY <1>1, <1>5, <2>2 DEF Below, AtMost
    <3> QED
      BY <1>2, <1>3, <1>5, <2>2, <3>1
  <2> QED
    BY <2>1, <2>2
<1>7. n \in {w[i] : i \in DOMAIN w}
  <2>1. SUFFICES ASSUME n \notin {w[i] : i \in DOMAIN w} PROVE FALSE
    OBVIOUS
  <2>2. Below(w, n) = AtMost(w, n)
    BY <1>1, <1>5, <2>1 DEF Below, AtMost
  <2> QED
    BY <1>2, <1>3, <1>5, <1>6, <2>2
<1>8. /\ n \in {w[i] : i \in DOMAIN w}
      /\ Cardinality({i \in DOMAIN w : w[i] < n}) <= Len(w) \div 2
      /\ Cardinality({i \in DOMAIN w : w[i] <= n}) > Len(w) \div 2
  BY <1>5, <1>6, <1>7 DEF Below, AtMost, half
<1>9. /\ MedianOf(w) \in {w[i] : i \in DOMAIN w}
      /\ Cardinality({i \in DOMAIN w : w[i] < MedianOf(w)}) <= Len(w) \div 2
      /\ Cardinality({i \in DOMAIN w : w[i] <= MedianOf(w)}) > Len(w) \div 2
  BY <1>8, Zenon DEF MedianOf
<1> QED
  BY <1>1, <1>9 DEF Below, AtMost

-----------------------------------------------------------------------------
(* The invariant: the current target leaves some hash below it, and a      *)
(* block whose timestamp was not ahead of the clock is not ahead of it now.*)

NotAhead ==
    /\ ahead \subseteq 0..Len(stamps) - 1
    /\ \A h \in 0..Len(stamps) - 1 : h \notin ahead => stamps[h + 1] <= now

TargetInv == TypeOK /\ Expand(target) > 0 /\ NotAhead

LEMMA NextTargetTypes ==
    ASSUME TypeOK
    PROVE  /\ NextTarget \in CompactTarget
           /\ Expand(target) > 0 => Expand(NextTarget) > 0
<1>1. Window \in Nat \ {0} /\ Spacing \in Nat /\ Times \subseteq Nat
  BY TargetAssumption, TimesAreNatural
<1>2. Recent(Window) \in Seq(Times) /\ Len(Recent(Window)) = Size(Window) /\ Size(Window) \in 1..Len(stamps)
  BY <1>1, RecentIs
<1>3. Len(Recent(Window)) \in Nat \ {0}
  BY <1>2 DEF TypeOK
<1>4. ActualSecs \in Nat
  <2> DEFINE w == Recent(Window)
  <2>1. w[Len(w)] \in Nat /\ w[1] \in Nat
    BY <1>2, <1>3, StampsAreNatural
  <2> QED
    BY <2>1 DEF ActualSecs
<1>5. ExpectedSecs \in Nat
  <2>1. Len(Recent(Window)) - 1 \in Nat
    BY <1>3
  <2> QED
    BY <1>1, <2>1 DEF ExpectedSecs
<1> QED
  BY <1>4, <1>5, AdjustTypes DEF NextTarget, TypeOK

LEMMA InitTarget == Init => TargetInv
<1> SUFFICES ASSUME Init PROVE TargetInv
  OBVIOUS
<1>1. stamps = <<0>> /\ Len(stamps) = 1 /\ stamps[1] = 0
  BY DEF Init
<1>2. stamps \in Seq(0..MaxTime + MaxFuture)
  BY <1>1, TargetAssumption
<1>3. TypeOK
  BY <1>1, <1>2, TargetAssumption DEF Init, TypeOK
<1>4. NotAhead
  BY <1>1 DEF Init, NotAhead
<1> QED
  BY <1>3, <1>4, GenesisAssumption DEF Init, TargetInv

LEMMA StepTarget == TargetInv /\ [Next]_vars => TargetInv'
<1> SUFFICES ASSUME TargetInv, [Next]_vars PROVE TargetInv'
  OBVIOUS
<1> USE DEF TargetInv
<1>1. ASSUME NEW s \in 0..MaxTime + MaxFuture, AcceptBlock(s)
      PROVE  TargetInv'
  <2> DEFINE len == Len(stamps)
  <2>1. stamps \in Seq(Times) /\ len \in Nat /\ len >= 1 /\ len < MaxBlocks /\ s \in Times
        /\ stamps' = Append(stamps, s)
    BY <1>1 DEF TypeOK, AcceptBlock, NextBlock, Times
  <2>2. /\ stamps' \in Seq(Times) /\ Len(stamps') = len + 1 /\ stamps'[len + 1] = s
        /\ \A i \in 1..len : stamps'[i] = stamps[i]
    BY <2>1
  <2>3. now' = now /\ now \in Nat /\ s \in Nat /\ MaxBlocks \in Nat
    BY <1>1, <2>1, TimesAreNatural, TargetAssumption DEF AcceptBlock, TypeOK
  <2>4. ahead' = IF s > now THEN ahead \cup {len} ELSE ahead
    BY <1>1 DEF AcceptBlock, NextBlock
  <2>5. TypeOK'
    <3>1. ahead' \subseteq 0..MaxBlocks
      <4>1. ahead \subseteq 0..MaxBlocks /\ ahead' \subseteq ahead \cup {len}
        BY <2>4 DEF TypeOK
      <4>2. len \in 0..MaxBlocks
        BY <2>1, <2>3
      <4> QED
        BY <4>1, <4>2
    <3>2. Len(stamps') \in 1..MaxBlocks
      BY <2>1, <2>2, <2>3
    <3> QED
      BY <1>1, <2>2, <2>3, <3>1, <3>2, NextTargetTypes DEF TypeOK, AcceptBlock, Times
  <2>6. Expand(target') > 0
    BY <1>1 DEF AcceptBlock
  <2>7. NotAhead'
    <3>1. ahead' \subseteq 0..Len(stamps') - 1
      <4>1. ahead \subseteq 0..len - 1 /\ ahead' \subseteq ahead \cup {len}
        BY <2>4 DEF NotAhead
      <4>2. Len(stamps') - 1 = len /\ \A h \in (0..len - 1) \cup {len} : h \in 0..len
        BY <2>1, <2>2
      <4> QED
        BY <4>1, <4>2
    <3>2. ASSUME NEW h \in 0..Len(stamps') - 1, h \notin ahead'
          PROVE  stamps'[h + 1] <= now'
      <4>1. CASE h = len
        BY <2>2, <2>3, <2>4, <3>2, <4>1
      <4>2. CASE h # len
        <5>1. h \in 0..len - 1 /\ h + 1 \in 1..len /\ h \notin ahead
          BY <2>1, <2>2, <2>4, <3>2, <4>2
        <5> QED
          BY <2>2, <2>3, <5>1 DEF NotAhead
      <4> QED
        BY <4>1, <4>2
    <3> QED
      BY <3>1, <3>2 DEF NotAhead
  <2> QED
    BY <2>5, <2>6, <2>7
<1>2. CASE Tick
  <2>1. /\ UNCHANGED <<stamps, target, ahead>> /\ now \in Nat /\ now' = now + 1
        /\ now' \in 0..MaxTime
    BY <1>2, TargetAssumption DEF Tick, TypeOK
  <2>2. TypeOK'
    BY <2>1 DEF TypeOK
  <2>3. NotAhead'
    <3>1. ASSUME NEW h \in 0..Len(stamps) - 1, h \notin ahead
          PROVE  stamps[h + 1] <= now'
      <4>1. h + 1 \in 1..Len(stamps) /\ stamps \in Seq(Times)
        BY DEF TypeOK, Times
      <4>2. stamps[h + 1] \in Nat
        BY <4>1, StampsAreNatural
      <4>3. stamps[h + 1] <= now
        BY <3>1 DEF NotAhead
      <4> QED
        BY <2>1, <4>2, <4>3
    <3> QED
      BY <2>1, <3>1 DEF NotAhead
  <2> QED
    BY <2>1, <2>2, <2>3
<1>3. CASE UNCHANGED vars
  BY <1>3 DEF vars, TypeOK, NotAhead
<1> QED
  BY <1>1, <1>2, <1>3 DEF Next

LEMMA TargetInvariant == Spec => []TargetInv
  BY InitTarget, StepTarget, PTL DEF Spec

\* Every variable keeps its type: a retarget's result is a compact target again.
THEOREM TargetTypes == Spec => []TypeOK
<1>1. TargetInv => TypeOK
  BY DEF TargetInv
<1> QED
  BY <1>1, TargetInvariant, PTL

\* Whatever the timestamps, no sequence of retargets leads to a target that no hash is
\* below.
THEOREM TargetStaysMinable == Spec => []StaysMinable
<1>1. TargetInv => StaysMinable
  BY NextTargetTypes DEF TargetInv, StaysMinable
<1> QED
  BY <1>1, TargetInvariant, PTL

-----------------------------------------------------------------------------
(* Median time past.                                                       *)

\* The window of the median, and where the median lies in it.
MedianFacts ==
    LET k == Size(MedianWindow)
        w == Recent(MedianWindow)
    IN  /\ k \in 1..Len(stamps) /\ k \in Nat \ {0}
        /\ w \in Seq(Times) /\ Len(w) = k
        /\ \A i \in 1..k : w[i] = stamps[Len(stamps) - k + i]
        /\ MedianTimePast \in Nat
        /\ Cardinality(Below(w, MedianTimePast)) <= k \div 2
        /\ Cardinality(AtMost(w, MedianTimePast)) > k \div 2

LEMMA MedianOfRecent == TypeOK => MedianFacts
<1> SUFFICES ASSUME TypeOK PROVE MedianFacts
  OBVIOUS
<1>1. MedianWindow \in Nat \ {0} /\ Len(stamps) \in Nat
  BY TargetAssumption DEF TypeOK
<1>2. /\ Size(MedianWindow) \in 1..Len(stamps) /\ Recent(MedianWindow) \in Seq(Times)
      /\ Len(Recent(MedianWindow)) = Size(MedianWindow)
      /\ \A i \in 1..Size(MedianWindow) :
            Recent(MedianWindow)[i] = stamps[Len(stamps) - Size(MedianWindow) + i]
  BY <1>1, RecentIs
<1>3. Size(MedianWindow) \in Nat \ {0} /\ Len(Recent(MedianWindow)) > 0
  BY <1>1, <1>2
<1> QED
  BY <1>2, <1>3, MedianFound DEF MedianTimePast, MedianFacts

\* Counting through a map that shifts indexes.
LEMMA ShiftCount ==
    ASSUME NEW w \in Seq(Times), NEW S \in SUBSET Nat, NEW d \in Int,
           NEW T \in SUBSET DOMAIN w, \A i \in S : i + d \in T
    PROVE  /\ IsFiniteSet(S) /\ Cardinality(S) \in Nat
           /\ Cardinality(T) \in Nat /\ Cardinality(S) <= Cardinality(T)
<1> DEFINE f == [i \in S |-> i + d]
<1>1. IsFiniteSet(T) /\ Cardinality(T) \in Nat
  BY Counts
<1>2. f \in Injection(S, T)
  BY DEF Injection, IsInjective
<1> HIDE DEF f
<1> QED
  BY <1>1, <1>2, FS_Injection, FS_CardinalityType

LEMMA MedianStep ==
    ASSUME TypeOK, TypeOK', NEW s \in 0..MaxTime + MaxFuture, AcceptBlock(s)
    PROVE  MedianTimePast' >= MedianTimePast
<1> DEFINE len == Len(stamps)
           k == Size(MedianWindow)
           l == Size(MedianWindow)'
           w == Recent(MedianWindow)
           v == Recent(MedianWindow)'
           m == MedianTimePast
           n == MedianTimePast'
<1>1. /\ MedianWindow \in Nat \ {0} /\ stamps \in Seq(Times) /\ len \in Nat /\ len >= 1
      /\ s \in Nat /\ s \in Times /\ s >= m /\ stamps' = Append(stamps, s)
  BY TargetAssumption DEF TypeOK, Times, AcceptBlock, ValidTime
<1>2. /\ Len(stamps') = len + 1 /\ stamps'[len + 1] = s
      /\ \A i \in 1..len : stamps'[i] = stamps[i]
  BY <1>1
<1>3. /\ k \in Nat \ {0} /\ Len(w) = k /\ w \in Seq(Times) /\ m \in Nat
      /\ Cardinality(Below(w, m)) <= k \div 2
      /\ \A i \in 1..k : w[i] = stamps[len - k + i]
  BY MedianOfRecent DEF MedianFacts
<1>4. /\ l \in Nat \ {0} /\ Len(v) = l /\ v \in Seq(Times) /\ n \in Nat
      /\ Cardinality(AtMost(v, n)) > l \div 2
      /\ \A i \in 1..l : v[i] = stamps'[Len(stamps') - l + i]
  <2>1. MedianFacts'
    BY MedianOfRecent, PTL
  <2> QED
    BY <2>1 DEF MedianFacts
<1>5. \A i \in 1..k : w[i] = stamps[len - k + i]
  BY <1>3
<1>6. \A i \in 1..l : v[i] = stamps'[(len + 1) - l + i]
  BY <1>2, <1>4
<1>7. k <= len /\ ((l = k /\ k <= len) \/ (l = k + 1 /\ k = len))
  BY <1>1, <1>2 DEF Size
<1>8. SUFFICES ASSUME n < m PROVE FALSE
  BY <1>3, <1>4
<1> HIDE DEF k, l, w, v, m, n, len
<1> DEFINE d == 1 - l + k
<1>9. d \in Int /\ (d = 0 \/ d = 1)
  BY <1>3, <1>4, <1>7
<1>10. ASSUME NEW i \in AtMost(v, n)
       PROVE  i + d \in Below(w, m)
  <2>1. i \in 1..l /\ v[i] <= n /\ v[i] \in Nat
    BY <1>4, StampsAreNatural DEF AtMost
  <2>2. i # l
    <3>1. SUFFICES ASSUME i = l PROVE FALSE
      OBVIOUS
    <3>2. (len + 1) - l + i = len + 1
      BY <1>1, <1>4, <3>1
    <3>3. v[i] = s
      BY <1>2, <1>6, <2>1, <3>2
    <3> QED
      BY <1>1, <1>3, <1>4, <1>8, <2>1, <3>3
  <2>3. i + d \in 1..k /\ (len + 1) - l + i = len - k + (i + d) /\ (len + 1) - l + i \in 1..len
    <3>1. k \in Nat /\ l \in Nat /\ len \in Nat /\ i \in Nat /\ 1 <= i /\ i < l
      BY <1>1, <1>3, <1>4, <2>1, <2>2
    <3> QED
      BY <1>7, <3>1
  <2>4. v[i] = stamps[len - k + (i + d)]
    BY <1>2, <1>6, <2>1, <2>3
  <2>5. w[i + d] = v[i]
    BY <1>5, <2>3, <2>4
  <2>6. i + d \in DOMAIN w
    BY <1>3, <2>3, StampsAreNatural
  <2> QED
    BY <1>3, <1>4, <1>8, <2>1, <2>5, <2>6 DEF Below
<1>11. Below(w, m) \in SUBSET DOMAIN w /\ AtMost(v, n) \in SUBSET Nat
  <2>1. DOMAIN v = 1..l
    BY <1>4, StampsAreNatural
  <2> QED
    BY <2>1 DEF Below, AtMost
<1>12. /\ Cardinality(AtMost(v, n)) \in Nat /\ Cardinality(Below(w, m)) \in Nat
       /\ Cardinality(AtMost(v, n)) <= Cardinality(Below(w, m))
  BY <1>3, <1>9, <1>10, <1>11, ShiftCount
<1>13. k \div 2 \in Nat /\ l \div 2 \in Nat /\ k \div 2 <= l \div 2
  BY <1>3, <1>4, <1>7
<1> QED
  BY <1>3, <1>4, <1>12, <1>13

\* Median time past never moves back, whatever timestamps are accepted.
THEOREM MedianRises == Spec => MedianNeverFalls
<1>1. TypeOK /\ TypeOK' /\ [Next]_vars => [MedianTimePast' >= MedianTimePast]_vars
  <2> SUFFICES ASSUME TypeOK, TypeOK', Next
               PROVE  MedianTimePast' >= MedianTimePast
    OBVIOUS
  <2>1. CASE Tick
    <3>1. MedianTimePast \in Nat
      BY MedianOfRecent DEF MedianFacts
    <3>2. MedianTimePast' = MedianTimePast
      BY <2>1 DEF Tick, MedianTimePast, Recent
    <3> QED
      BY <3>1, <3>2
  <2> QED
    BY <2>1, MedianStep DEF Next
<1> QED
  BY <1>1, TargetTypes, PTL DEF Spec, MedianNeverFalls

\* A miner with the right time is accepted as long as fewer than half of the blocks in
\* the median window were stamped ahead of the clock.
THEOREM HonestMinerAccepted == Spec => []HonestStampAccepted
<1>1. ASSUME TargetInv
      PROVE  HonestStampAccepted
  <2> DEFINE len == Len(stamps)
             k == Size(MedianWindow)
             w == Recent(MedianWindow)
             m == MedianTimePast
             fast == {h \in ahead : h >= len - k}
             late == {i \in DOMAIN w : w[i] > now}
             rest == DOMAIN w \ late
  <2>1. /\ k \in Nat \ {0} /\ Len(w) = k /\ w \in Seq(Times) /\ m \in Nat
        /\ Cardinality(Below(w, m)) <= k \div 2
    BY <1>1, MedianOfRecent DEF TargetInv, MedianFacts
  <2>2. /\ MedianWindow \in Nat \ {0} /\ len \in Nat /\ now \in Nat /\ MaxFuture \in Nat
        /\ MaxBlocks \in Nat
    BY <1>1, TargetAssumption DEF TargetInv, TypeOK
  <2>3. k \in 1..len /\ \A i \in 1..k : w[i] = stamps[len - k + i]
    BY <1>1, <2>2, RecentIs DEF TargetInv
  <2>4. \A h \in 0..len - 1 : h \notin ahead => stamps[h + 1] <= now
    BY <1>1 DEF TargetInv, NotAhead
  <2>5. DOMAIN w = 1..k /\ \A i \in 1..k : w[i] \in Nat
    BY <2>1, StampsAreNatural
  <2>6. IsFiniteSet(fast) /\ Cardinality(fast) \in Nat
    <3>1. fast \subseteq 0..MaxBlocks
      BY <1>1 DEF TargetInv, TypeOK
    <3>2. IsFiniteSet(0..MaxBlocks)
      BY <2>2, FS_Interval
    <3> QED
      BY <3>1, <3>2, FS_Subset, FS_CardinalityType
  <2>7. SUFFICES ASSUME 2 * Cardinality(fast) < k, now < m PROVE FALSE
    BY <2>1, <2>2 DEF HonestStampAccepted, ValidTime, NextBlock
  <2> HIDE DEF k, w, m, len
  <2>8. Cardinality(late) \in Nat /\ Cardinality(late) <= Cardinality(fast)
    <3> DEFINE f == [i \in late |-> len - k + i - 1]
    <3>1. ASSUME NEW i \in late
          PROVE  len - k + i - 1 \in fast
      <4>1. i \in 1..k /\ w[i] > now
        BY <2>5
      <4> DEFINE h == len - k + i - 1
      <4>2. h \in 0..len - 1 /\ h + 1 = len - k + i /\ h >= len - k
        BY <2>2, <2>3, <4>1
      <4>3. w[i] = stamps[h + 1] /\ w[i] \in Nat
        BY <2>3, <2>5, <4>1, <4>2
      <4> HIDE DEF h
      <4>4. h \in ahead
        BY <2>2, <2>4, <4>1, <4>2, <4>3
      <4> QED
        BY <4>2, <4>4 DEF h
    <3>2. late \subseteq Nat /\ len \in Int /\ k \in Int
      BY <2>1, <2>2, <2>5
    <3> HIDE DEF late, fast
    <3>3. f \in Injection(late, fast)
      BY <3>1, <3>2 DEF Injection, IsInjective
    <3> HIDE DEF f
    <3> QED
      BY <2>6, <3>3, FS_Injection, FS_CardinalityType
  <2>9. Cardinality(rest) \in Nat /\ Cardinality(rest) <= Cardinality(Below(w, m))
    <3>1. rest \subseteq Below(w, m) /\ Below(w, m) \in SUBSET DOMAIN w
      BY <2>1, <2>2, <2>5, <2>7 DEF Below
    <3>2. IsFiniteSet(Below(w, m))
      BY <2>1, <3>1, Counts
    <3> HIDE DEF rest
    <3> QED
      BY <3>1, <3>2, FS_Subset, FS_CardinalityType
  <2>10. Cardinality(rest) = k - Cardinality(late)
    <3>1. IsFiniteSet(DOMAIN w) /\ Cardinality(DOMAIN w) = k
      BY <2>1, Counts
    <3>2. Cardinality(rest) = Cardinality(DOMAIN w) - Cardinality(DOMAIN w \cap late)
      <4> HIDE DEF late
      <4> QED
        BY <3>1, FS_Difference
    <3>3. DOMAIN w \cap late = late
      OBVIOUS
    <3> QED
      BY <3>1, <3>2, <3>3
  <2>11. Cardinality(Below(w, m)) \in Nat
    BY <2>1, Counts DEF Below
  <2> HIDE DEF rest, late, fast
  <2> QED
    BY <2>1, <2>6, <2>7, <2>8, <2>9, <2>10, <2>11
<1> QED
  BY <1>1, TargetInvariant, PTL
=============================================================================
