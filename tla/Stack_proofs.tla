---------------------------- MODULE Stack_proofs ----------------------------
(***************************************************************************)
(* Theorems about the instructions of the TR3200, for words of any number  *)
(* of bits that is a multiple of four: arithmetic over several words has   *)
(* no error, what is stored is loaded, and calls, interrupt frames, pushes *)
(* and jumps come back to where they should.                               *)
(***************************************************************************)
EXTENDS Stack, TLAPS, WellFoundedInduction

USE WidthAssumption

-----------------------------------------------------------------------------
(* The powers of two                                                       *)

\* A set of numbers that is not empty has a least one.
LEMMA LeastOf ==
  ASSUME NEW T \in SUBSET Nat, T # {}
  PROVE  \E x \in T : \A y \in T : ~(y < x)
<1> DEFINE R == {ss \in Nat \X Nat : ss[1] < ss[2]}
<1>1. IsWellFoundedOn(R, Nat)
  BY NatLessThanWellFounded DEF OpToRel
<1>2. PICK x \in T : \A y \in T : ~(<<y, x>> \in R)
  BY <1>1, WFMin
<1>3. \A y \in T : ~(y < x)
  BY <1>2
<1> QED
  BY <1>3

\* g doubles up to n.
Doubles(g, n) == g = [i \in 0 .. n |-> IF i = 0 THEN 1 ELSE 2 * g[i - 1]]

\* One more value.
LEMMA DoublesOnce ==
  ASSUME NEW n \in Nat \ {0}, NEW g, Doubles(g, n - 1)
  PROVE  \E h : Doubles(h, n)
<1> DEFINE h == [i \in 0 .. n |-> IF i = n THEN 2 * g[n - 1] ELSE g[i]]
<1>1. g = [i \in 0 .. n - 1 |-> IF i = 0 THEN 1 ELSE 2 * g[i - 1]]
  BY DEF Doubles
<1>2. \A i \in 0 .. n - 1 : g[i] = IF i = 0 THEN 1 ELSE 2 * g[i - 1]
  <2> DEFINE f == [i \in 0 .. n - 1 |-> IF i = 0 THEN 1 ELSE 2 * g[i - 1]]
  <2>1. \A i \in 0 .. n - 1 : f[i] = IF i = 0 THEN 1 ELSE 2 * g[i - 1]
    OBVIOUS
  <2>2. f = g
    BY <1>1
  <2> HIDE DEF f
  <2> QED
    BY <2>1, <2>2
<1>3. \A i \in 0 .. n : h[i] = IF i = 0 THEN 1 ELSE 2 * h[i - 1]
  <2> SUFFICES ASSUME NEW i \in 0 .. n PROVE h[i] = IF i = 0 THEN 1 ELSE 2 * h[i - 1]
    OBVIOUS
  <2>1. CASE i = n
    <3>1. h[i] = 2 * g[n - 1] /\ h[i - 1] = g[n - 1] /\ i # 0
      BY <2>1
    <3> QED
      BY <3>1
  <2>2. CASE i # n
    <3>1. i \in 0 .. n - 1 /\ h[i] = g[i]
      BY <2>2
    <3>2. i # 0 => i - 1 \in 0 .. n /\ i - 1 # n
      BY <3>1
    <3>3. i # 0 => h[i - 1] = g[i - 1]
      BY <3>2
    <3> HIDE DEF h
    <3> QED
      BY <1>2, <3>1, <3>3
  <2> QED
    BY <2>1, <2>2
<1>4. h = [i \in 0 .. n |-> h[i]]
  OBVIOUS
<1> HIDE DEF h
<1>5. h = [i \in 0 .. n |-> IF i = 0 THEN 1 ELSE 2 * h[i - 1]]
  BY <1>3, <1>4
<1> QED
  BY <1>5 DEF Doubles

LEMMA DoublesExist == \A n \in Nat : \E g : Doubles(g, n)
<1> DEFINE T == {n \in Nat : ~ \E g : Doubles(g, n)}
<1> SUFFICES ASSUME T # {} PROVE FALSE
  OBVIOUS
<1>1. PICK x \in T : \A y \in T : ~(y < x)
  BY LeastOf
<1>2. x \in Nat /\ ~ \E g : Doubles(g, x)
  BY <1>1
<1>3. CASE x = 0
  <2> DEFINE one == [i \in 0 .. 0 |-> 1]
  <2>1. Doubles(one, 0)
    BY DEF Doubles
  <2> QED
    BY <1>2, <1>3, <2>1
<1>4. CASE x # 0
  <2>1. x - 1 \in Nat /\ x - 1 < x
    BY <1>2, <1>4
  <2>2. x - 1 \notin T
    BY <1>1, <2>1
  <2>3. PICK g : Doubles(g, x - 1)
    BY <2>1, <2>2
  <2> QED
    BY <1>2, <1>4, <2>3, DoublesOnce
<1> QED
  BY <1>3, <1>4

\* Pow2 is what its definition says.
LEMMA Pow2Doubles ==
  Pow2[0] = 1 /\ \A n \in 1 .. 2 * W : Pow2[n] = 2 * Pow2[n - 1]
<1>1. Doubles(Pow2, 2 * W)
  <2>1. 2 * W \in Nat
    OBVIOUS
  <2>2. \E g : Doubles(g, 2 * W)
    BY <2>1, DoublesExist
  <2>3. Pow2 = CHOOSE g : Doubles(g, 2 * W)
    BY DEF Pow2, Doubles
  <2> QED
    BY <2>2, <2>3
<1>2. Pow2 = [i \in 0 .. 2 * W |-> IF i = 0 THEN 1 ELSE 2 * Pow2[i - 1]]
  BY <1>1 DEF Doubles
<1> DEFINE f == [i \in 0 .. 2 * W |-> IF i = 0 THEN 1 ELSE 2 * Pow2[i - 1]]
<1>3. f[0] = 1 /\ \A n \in 1 .. 2 * W : f[n] = 2 * Pow2[n - 1]
  <2>1. 0 \in 0 .. 2 * W /\ \A n \in 1 .. 2 * W : n \in 0 .. 2 * W /\ n # 0
    OBVIOUS
  <2> QED
    BY <2>1
<1>4. f = Pow2
  BY <1>2
<1> HIDE DEF f
<1> QED
  BY <1>3, <1>4

LEMMA Pow2Positive == \A n \in 0 .. 2 * W : Pow2[n] \in Nat \ {0}
<1> DEFINE T == {n \in 0 .. 2 * W : Pow2[n] \notin Nat \ {0}}
<1> SUFFICES ASSUME T # {} PROVE FALSE
  OBVIOUS
<1>0. T \subseteq Nat
  OBVIOUS
<1>1. PICK x \in T : \A y \in T : ~(y < x)
  BY <1>0, LeastOf
<1>2. x \in 0 .. 2 * W /\ Pow2[x] \notin Nat \ {0}
  BY <1>1
<1>3. CASE x = 0
  BY <1>2, <1>3, Pow2Doubles
<1>4. CASE x # 0
  <2>1. x - 1 \in 0 .. 2 * W /\ x - 1 < x /\ x \in 1 .. 2 * W
    BY <1>2, <1>4
  <2>2. Pow2[x - 1] \in Nat \ {0}
    BY <1>1, <2>1
  <2>3. Pow2[x] = 2 * Pow2[x - 1]
    BY <2>1, Pow2Doubles
  <2> QED
    BY <1>2, <2>2, <2>3
<1> QED
  BY <1>3, <1>4

LEMMA Pow2Sum ==
  ASSUME NEW a \in Nat, NEW b \in Nat, a + b <= 2 * W
  PROVE  Pow2[a + b] = Pow2[a] * Pow2[b]
<1> DEFINE T == {n \in Nat : a + n <= 2 * W /\ Pow2[a + n] # Pow2[a] * Pow2[n]}
<1> SUFFICES ASSUME T # {} PROVE FALSE
  OBVIOUS
<1>1. PICK x \in T : \A y \in T : ~(y < x)
  BY LeastOf
<1>2. x \in Nat /\ a + x <= 2 * W /\ Pow2[a + x] # Pow2[a] * Pow2[x]
  BY <1>1
<1>3. CASE x = 0
  <2>1. a + x = a /\ a \in 0 .. 2 * W
    BY <1>2, <1>3
  <2> QED
    BY <1>2, <1>3, <2>1, Pow2Doubles, Pow2Positive
<1>4. CASE x # 0
  <2>1. /\ x - 1 \in Nat /\ x - 1 < x /\ a + (x - 1) <= 2 * W
        /\ x \in 1 .. 2 * W /\ a + x \in 1 .. 2 * W
        /\ a \in 0 .. 2 * W /\ x - 1 \in 0 .. 2 * W /\ a + (x - 1) = a + x - 1
    BY <1>2, <1>4
  <2>2. Pow2[a + (x - 1)] = Pow2[a] * Pow2[x - 1]
    BY <1>1, <2>1
  <2>3. Pow2[x] = 2 * Pow2[x - 1] /\ Pow2[a + x] = 2 * Pow2[a + (x - 1)]
    BY <2>1, Pow2Doubles
  <2>4. Pow2[a] \in Nat /\ Pow2[x - 1] \in Nat
    BY <2>1, Pow2Positive
  <2>5. \A p, q \in Nat : 2 * (p * q) = p * (2 * q)
    OBVIOUS
  <2> QED
    BY <1>2, <2>2, <2>3, <2>4, <2>5
<1> QED
  BY <1>3, <1>4

-----------------------------------------------------------------------------
(* Quotients and remainders by any number                                  *)

LEMMA DivMod ==
  ASSUME NEW M \in Nat \ {0}, NEW x \in Int
  PROVE  /\ x \div M \in Int /\ x % M \in Nat /\ x % M < M /\ x % M \in 0 .. M - 1
         /\ x = (x \div M) * M + (x % M)
         /\ x >= 0 => x \div M \in Nat
  OBVIOUS

\* A larger quotient is a larger number.
LEMMA DigitBelow ==
  ASSUME NEW M \in Nat, NEW p \in Int, NEW q \in Int, p < q
  PROVE  p * M \in Int /\ q * M \in Int /\ p * M + M <= q * M
<1>1. q - p - 1 \in Nat /\ q = p + 1 + (q - p - 1)
  OBVIOUS
<1>2. (q - p - 1) * M \in Nat /\ p * M \in Int
  BY <1>1
<1>3. q * M = p * M + M + (q - p - 1) * M
  BY <1>1
<1> QED
  BY <1>2, <1>3

\* They are the only ones.
LEMMA DivIs ==
  ASSUME NEW M \in Nat \ {0}, NEW x \in Int, NEW q \in Int, NEW r \in Nat, r < M,
         x = q * M + r
  PROVE  x \div M = q /\ x % M = r
<1> DEFINE p == x \div M
           s == x % M
<1>1. p \in Int /\ s \in Nat /\ s < M /\ x = p * M + s
  BY DivMod
<1> HIDE DEF p, s
<1>2. p * M \in Int /\ q * M \in Int
  BY <1>1
<1>3. ~(p < q)
  BY <1>1, <1>2, DigitBelow
<1>4. ~(q < p)
  BY <1>1, <1>2, DigitBelow
<1>5. p = q
  BY <1>1, <1>3, <1>4
<1>6. s = r
  BY <1>1, <1>2, <1>5
<1> QED
  BY <1>5, <1>6 DEF p, s

\* A number below M is its own remainder.
LEMMA ModSmall ==
  ASSUME NEW M \in Nat \ {0}, NEW r \in 0 .. M - 1
  PROVE  r % M = r /\ r \div M = 0
<1>1. r \in Nat /\ r < M /\ r \in Int /\ r = 0 * M + r /\ 0 \in Int
  OBVIOUS
<1> QED
  BY <1>1, DivIs

\* Multiples of M do not count.
LEMMA ModShift ==
  ASSUME NEW M \in Nat \ {0}, NEW x \in Int, NEW k \in Int
  PROVE  (x + k * M) % M = x % M /\ (x + k * M) \div M = x \div M + k
<1> DEFINE q == x \div M
           r == x % M
<1>1. q \in Int /\ r \in Nat /\ r < M /\ x = q * M + r
  BY DivMod
<1> HIDE DEF q, r
<1>2. q + k \in Int /\ x + k * M \in Int
  BY <1>1
<1>3. (q + k) * M = q * M + k * M
  BY <1>1
<1>4. q * M \in Int /\ k * M \in Int
  BY <1>1
<1>5. x + k * M = (q + k) * M + r
  BY <1>1, <1>3, <1>4
<1>6. (x + k * M) \div M = q + k /\ (x + k * M) % M = r
  BY <1>1, <1>2, <1>5, DivIs
<1> QED
  BY <1>6 DEF q, r

\* Numbers that differ by a multiple of M have the same remainder.
LEMMA ModSame ==
  ASSUME NEW M \in Nat \ {0}, NEW x \in Int, NEW y \in Int, NEW k \in Int, y = x + k * M
  PROVE  y % M = x % M
  BY ModShift

\* Division by A and then by B is division by their product.
LEMMA TwoDivisors ==
  ASSUME NEW A \in Nat \ {0}, NEW B \in Nat \ {0}, NEW x \in Int
  PROVE  /\ A * B \in Nat \ {0}
         /\ (x \div A) \div B = x \div (A * B)
         /\ x % (A * B) = (x % A) + A * ((x \div A) % B)
<1> DEFINE q == x \div A
           r == x % A
           u == q \div B
           v == q % B
           y == v * A + r
<1>1. q \in Int /\ r \in Nat /\ r < A /\ x = q * A + r
  BY DivMod
<1> HIDE DEF q, r
<1>2. u \in Int /\ v \in Nat /\ v < B /\ q = u * B + v
  BY <1>1, DivMod
<1> HIDE DEF u, v
<1>3. v * A \in Nat /\ A * B \in Nat \ {0} /\ B * A = A * B /\ A * v = v * A
  BY <1>2
<1>4. v * A + A <= B * A
  BY <1>2, DigitBelow
<1>5. y \in Nat /\ y < A * B
  BY <1>1, <1>3, <1>4
<1>6. x = u * (A * B) + y
  <2>1. (u * B + v) * A = u * (A * B) + v * A
    BY <1>2
  <2>2. u * (A * B) \in Int
    BY <1>2, <1>3
  <2> QED
    BY <1>1, <1>2, <1>3, <2>1, <2>2
<1>7. y = r + A * v
  BY <1>1, <1>3
<1> HIDE DEF y
<1> DEFINE M == A * B
<1>8. M \in Nat \ {0} /\ y < M /\ x = u * M + y
  BY <1>3, <1>5, <1>6
<1> HIDE DEF M
<1>9. x \div M = u /\ x % M = y
  BY <1>2, <1>5, <1>8, DivIs
<1> QED
  BY <1>3, <1>7, <1>9 DEF M, q, r, u, v

\* The two digits of the remainder by a product.
LEMMA TwoRemainders ==
  ASSUME NEW A \in Nat \ {0}, NEW B \in Nat \ {0}, NEW x \in Int
  PROVE  /\ (x % (A * B)) % A = x % A
         /\ (x % (A * B)) \div A = (x \div A) % B
<1> DEFINE r == x % A
           v == (x \div A) % B
           y == x % (A * B)
<1>1. y = r + A * v
  BY TwoDivisors
<1>2. r \in Nat /\ r < A /\ v \in Nat
  BY DivMod
<1> HIDE DEF r, v, y
<1>3. A * v \in Nat /\ A * v = v * A
  BY <1>2
<1>4. y \in Int /\ y = v * A + r
  BY <1>1, <1>2, <1>3
<1>5. y \div A = v /\ y % A = r
  BY <1>2, <1>4, DivIs
<1> QED
  BY <1>5 DEF y, v, r

\* A common factor.
LEMMA CommonFactor ==
  ASSUME NEW A \in Nat \ {0}, NEW B \in Nat \ {0}, NEW x \in Int
  PROVE  (x * A) % (A * B) = (x % B) * A /\ (x * A) \div (A * B) = x \div B
<1> DEFINE z == x * A
<1>0. z \in Int
  OBVIOUS
<1>1. z = x * A + 0
  OBVIOUS
<1> HIDE DEF z
<1>2. z \div A = x /\ z % A = 0
  BY <1>0, <1>1, DivIs
<1>3. z % (A * B) = 0 + A * (x % B) /\ x \div B = z \div (A * B)
  <2>1. /\ (z \div A) \div B = z \div (A * B)
        /\ z % (A * B) = (z % A) + A * ((z \div A) % B)
    BY <1>0, TwoDivisors, Zenon
  <2> QED
    BY <2>1, <1>2, Zenon
<1>4. x % B \in Nat
  BY DivMod
<1> DEFINE m == x % B
<1>5. m \in Nat
  BY <1>4
<1> HIDE DEF m
<1>6. 0 + A * m = m * A
  BY <1>5
<1> QED
  BY <1>3, <1>6 DEF z, m

-----------------------------------------------------------------------------
(* Words                                                                   *)

LEMMA PowFacts ==
  ASSUME NEW n \in 1 .. W - 1
  PROVE  /\ Pow2[n] \in Nat \ {0} /\ Pow2[n - 1] \in Nat \ {0}
         /\ Pow2[W - n] \in Nat \ {0} /\ Pow2[W - n - 1] \in Nat \ {0}
         /\ Pow2[n] = 2 * Pow2[n - 1] /\ Pow2[W - n] = 2 * Pow2[W - n - 1]
         /\ Size = Pow2[n] * Pow2[W - n] /\ Size = Pow2[W - n] * Pow2[n]
         /\ Pow2[W - 1] = Pow2[n] * Pow2[W - n - 1]
<1>1. /\ n \in Nat /\ W - n \in Nat /\ W - n - 1 \in Nat /\ n + (W - n) = W
      /\ W - n + n = W /\ n + (W - n - 1) = W - 1 /\ W <= 2 * W /\ W - 1 <= 2 * W
      /\ n \in 0 .. 2 * W /\ n - 1 \in 0 .. 2 * W /\ W - n \in 0 .. 2 * W
      /\ W - n - 1 \in 0 .. 2 * W /\ n \in 1 .. 2 * W /\ W - n \in 1 .. 2 * W
  OBVIOUS
<1>2. Pow2[n + (W - n)] = Pow2[n] * Pow2[W - n]
  BY <1>1, Pow2Sum
<1>3. Pow2[W - n + n] = Pow2[W - n] * Pow2[n]
  BY <1>1, Pow2Sum
<1>4. Pow2[n + (W - n - 1)] = Pow2[n] * Pow2[W - n - 1]
  BY <1>1, Pow2Sum
<1>5. Pow2[n] = 2 * Pow2[n - 1] /\ Pow2[W - n] = 2 * Pow2[W - n - 1]
  BY <1>1, Pow2Doubles
<1>6. /\ Pow2[n] \in Nat \ {0} /\ Pow2[n - 1] \in Nat \ {0}
      /\ Pow2[W - n] \in Nat \ {0} /\ Pow2[W - n - 1] \in Nat \ {0}
  BY <1>1, Pow2Positive
<1>7. /\ Size = Pow2[n] * Pow2[W - n] /\ Size = Pow2[W - n] * Pow2[n]
      /\ Pow2[W - 1] = Pow2[n] * Pow2[W - n - 1]
  BY <1>1, <1>2, <1>3, <1>4, Zenon DEF Size
<1> QED
  BY <1>5, <1>6, <1>7

\* The sign bit.
TopBit == Pow2[W - 1]

\* A word has a sign bit, and a double word is two words.
LEMMA WordFacts ==
  /\ TopBit \in Nat \ {0} /\ Size \in Nat \ {0} /\ QSize \in Nat \ {0}
  /\ Size = 2 * TopBit /\ QSize = Size * Size /\ W >= 4
<1>1. /\ W \in 1 .. 2 * W /\ W - 1 \in 0 .. 2 * W /\ W \in Nat /\ W + W <= 2 * W
      /\ W + W = 2 * W /\ W \in 0 .. 2 * W /\ 2 * W \in 0 .. 2 * W
  OBVIOUS
<1>2. Pow2[W] = 2 * Pow2[W - 1]
  BY <1>1, Pow2Doubles
<1>3. Pow2[W + W] = Pow2[W] * Pow2[W]
  BY <1>1, Pow2Sum
<1>4. Pow2[W] \in Nat \ {0} /\ Pow2[W - 1] \in Nat \ {0} /\ Pow2[2 * W] \in Nat \ {0}
  BY <1>1, Pow2Positive
<1>5. W >= 4
  OBVIOUS
<1> QED
  BY <1>1, <1>2, <1>3, <1>4, <1>5 DEF TopBit, Size, QSize

LEMMA SignBits ==
  ASSUME NEW x \in 0 .. 2 * Size - 1
  PROVE  /\ DW_SIGN_BIT(x) \in {0, 1}
         /\ DW_SIGN_BIT(x) = 0 <=> x < TopBit \/ (Size <= x /\ x < Size + TopBit)
<1> DEFINE H == TopBit
<1>0. H \in Nat \ {0} /\ Size = 2 * H /\ x \in Int /\ 0 <= x /\ x < 4 * H
  BY WordFacts
<1> HIDE DEF H
<1>1. CASE x < H
  <2>1. x \in 0 .. H - 1
    BY <1>0, <1>1
  <2>2. x \div H = 0
    BY <2>1, <1>0, ModSmall
  <2> QED
    BY <2>2, <1>0, <1>1 DEF DW_SIGN_BIT, H, TopBit
<1>2. CASE H <= x /\ x < 2 * H
  <2>1. x - H \in Nat /\ x - H < H /\ x = 1 * H + (x - H)
    BY <1>0, <1>2
  <2>2. x \div H = 1
    BY <2>1, <1>0, DivIs
  <2> QED
    BY <2>2, <1>0, <1>2 DEF DW_SIGN_BIT, H, TopBit
<1>3. CASE 2 * H <= x /\ x < 3 * H
  <2>1. x - 2 * H \in Nat /\ x - 2 * H < H /\ x = 2 * H + (x - 2 * H)
    BY <1>0, <1>3
  <2>2. x \div H = 2
    BY <2>1, <1>0, DivIs
  <2> QED
    BY <2>2, <1>0, <1>3 DEF DW_SIGN_BIT, H, TopBit
<1>4. CASE 3 * H <= x
  <2>1. x - 3 * H \in Nat /\ x - 3 * H < H /\ x = 3 * H + (x - 3 * H)
    BY <1>0, <1>4
  <2>2. x \div H = 3
    BY <2>1, <1>0, DivIs
  <2> QED
    BY <2>2, <1>0, <1>4 DEF DW_SIGN_BIT, H, TopBit
<1> QED
  BY <1>0, <1>1, <1>2, <1>3, <1>4

\* Words and signed words are the same numbers.
LEMMA SignedBack ==
  ASSUME NEW y \in -TopBit .. TopBit - 1
  PROVE  y % Size \in DWords /\ Signed(y % Size) = y
<1> DEFINE H == TopBit
<1>0. H \in Nat \ {0} /\ Size = 2 * H /\ Size \in Nat \ {0} /\ y \in Int /\ -H <= y /\ y < H
  BY WordFacts
<1> HIDE DEF H
<1>1. CASE y >= 0
  <2>1. y \in 0 .. Size - 1
    BY <1>0, <1>1
  <2>2. y % Size = y
    BY <2>1, <1>0, ModSmall
  <2> QED
    BY <2>1, <2>2, <1>0 DEF Signed, DWords, H, TopBit
<1>2. CASE y < 0
  <2>1. y + Size \in Nat /\ y + Size < Size /\ y = (-1) * Size + (y + Size) /\ -1 \in Int
    BY <1>0, <1>2
  <2>2. y % Size = y + Size
    BY <2>1, <1>0, DivIs
  <2>3. y + Size >= TopBit /\ y + Size \in DWords /\ y + Size - Size = y
    BY <2>1, <1>0 DEF DWords, H
  <2>4. Signed(y + Size) = y
    BY <1>0, <2>3 DEF Signed, TopBit
  <2> QED
    BY <2>2, <2>3, <2>4
<1> QED
  BY <1>0, <1>1, <1>2

LEMMA SignedRange ==
  ASSUME NEW x \in DWords
  PROVE  /\ Signed(x) \in -TopBit .. TopBit - 1
         /\ Signed(x) = 0 <=> x = 0
         /\ Signed(x) % Size = x
<1>0. TopBit \in Nat \ {0} /\ Size = 2 * TopBit /\ Size \in Nat \ {0} /\ x \in 0 .. Size - 1
  BY WordFacts DEF DWords
<1>1. CASE x < TopBit
  <2>1. Signed(x) = x
    BY <1>0, <1>1 DEF Signed, TopBit
  <2>2. x % Size = x
    BY <1>0, ModSmall
  <2> QED
    BY <1>0, <1>1, <2>1, <2>2
<1>2. CASE x >= TopBit
  <2>1. Signed(x) = x - Size
    BY <1>0, <1>2 DEF Signed, TopBit
  <2>2. x \in Nat /\ x < Size /\ x - Size \in Int /\ x - Size = (-1) * Size + x /\ -1 \in Int
    BY <1>0
  <2>3. (x - Size) % Size = x
    BY <1>0, <2>2, DivIs
  <2> QED
    BY <1>0, <1>2, <2>1, <2>3
<1> QED
  BY <1>0, <1>1, <1>2

-----------------------------------------------------------------------------
(* Sums and differences                                                    *)

LEMMA CarryOf ==
  ASSUME NEW l \in 0 .. 2 * Size - 1
  PROVE  /\ CARRY_BIT(l) \in {0, 1} /\ l = CARRY_BIT(l) * Size + (l % Size)
         /\ l % Size \in DWords
<1>0. Size \in Nat \ {0} /\ l \in Int /\ 0 <= l /\ l < 2 * Size
  BY WordFacts
<1>1. CASE l < Size
  <2>1. l \in 0 .. Size - 1
    BY <1>0, <1>1
  <2>2. l % Size = l /\ l \div Size = 0
    BY <1>0, <2>1, ModSmall
  <2>3. CARRY_BIT(l) = 0
    BY <2>2 DEF CARRY_BIT
  <2> QED
    BY <2>1, <2>2, <2>3, <1>0 DEF DWords
<1>2. CASE l >= Size
  <2>1. l - Size \in Nat /\ l - Size < Size /\ l = 1 * Size + (l - Size)
    BY <1>0, <1>2
  <2>2. l % Size = l - Size /\ l \div Size = 1
    BY <1>0, <2>1, DivIs
  <2>3. CARRY_BIT(l) = 1
    BY <2>2 DEF CARRY_BIT
  <2> QED
    BY <2>1, <2>2, <2>3, <1>0 DEF DWords
<1> QED
  BY <1>0, <1>1, <1>2

\* Addition with carry.
LEMMA AddIs ==
  ASSUME NEW a \in DWords, NEW b \in DWords, NEW cf \in {0, 1}
  PROVE  /\ ADDC(a, b, cf).cf \in {0, 1} /\ ADDC(a, b, cf).rd \in DWords
         /\ ADDC(a, b, cf).rd = (a + b + cf) % Size
         /\ a + b + cf = ADDC(a, b, cf).cf * Size + ADDC(a, b, cf).rd
<1>1. a + b + cf \in 0 .. 2 * Size - 1
  BY WordFacts DEF DWords
<1> DEFINE l == a + b + cf
<1>2. ADDC(a, b, cf).cf = CARRY_BIT(l) /\ ADDC(a, b, cf).rd = l % Size
  BY DEF ADDC
<1> HIDE DEF l
<1>3. /\ CARRY_BIT(l) \in {0, 1} /\ l = CARRY_BIT(l) * Size + (l % Size)
      /\ l % Size \in DWords
  BY <1>1, CarryOf DEF l
<1> QED
  BY <1>2, <1>3 DEF l

LEMMA WideSumsHold == WideSums
<1> SUFFICES ASSUME NEW a \in DWords, NEW b \in DWords, NEW c \in DWords, NEW d \in DWords
             PROVE  LET lo == ADDC(a, c, 0)
                        hi == ADDC(b, d, lo.cf)
                    IN  Wide(lo.rd, hi.rd) + QSize * hi.cf = Wide(a, b) + Wide(c, d)
  BY DEF WideSums
<1> DEFINE lo == ADDC(a, c, 0)
           hi == ADDC(b, d, lo.cf)
<1>1. lo.cf \in {0, 1} /\ lo.rd \in DWords /\ a + c + 0 = lo.cf * Size + lo.rd
  BY AddIs
<1>2. hi.cf \in {0, 1} /\ hi.rd \in DWords /\ b + d + lo.cf = hi.cf * Size + hi.rd
  <2> HIDE DEF lo
  <2> QED
    BY <1>1, AddIs
<1> HIDE DEF lo, hi
<1> DEFINE u == lo.cf
           v == hi.cf
           x == lo.rd
           y == hi.rd
           S == Size
<1> HIDE DEF u, v, x, y, S
<1>3. /\ S \in Nat /\ a \in Nat /\ b \in Nat /\ c \in Nat /\ d \in Nat /\ u \in Nat
      /\ v \in Nat /\ x \in Nat /\ y \in Nat /\ a + c = u * S + x /\ b + d + u = v * S + y
  <2>1. S \in Nat /\ \A w \in DWords : w \in Nat
    BY WordFacts DEF DWords, S
  <2>2. u \in {0, 1} /\ x \in DWords /\ a + c + 0 = u * S + x
    BY <1>1 DEF u, x, S
  <2>3. v \in {0, 1} /\ y \in DWords /\ b + d + u = v * S + y
    BY <1>2 DEF u, v, y, S
  <2> QED
    BY <2>1, <2>2, <2>3
<1>6. QSize = S * S
  BY WordFacts DEF S
<1>4. x + S * y + (S * S) * v = (a + S * b) + (c + S * d)
  <2>1. x = a + c - u * S /\ y = b + d + u - v * S
    BY <1>3
  <2>2. (a + c - u * S) + S * (b + d + u - v * S) + (S * S) * v = (a + S * b) + (c + S * d)
    BY <1>3
  <2> QED
    BY <2>1, <2>2
<1>5. Wide(x, y) + QSize * v = Wide(a, b) + Wide(c, d)
  BY <1>4, <1>6 DEF Wide, S
<1> QED
  BY <1>5 DEF u, v, x, y, lo, hi

\* A difference of words, and the borrow.
LEMMA DifferenceIs ==
  ASSUME NEW x \in DWords, NEW o \in DWords
  PROVE  ((x - o) % QSize) % Size \in DWords
         /\ ((x - o) % QSize) % Size = x - o + (IF x < o THEN 1 ELSE 0) * Size
<1> DEFINE S == Size
<1>0. S \in Nat \ {0} /\ x \in Nat /\ o \in Nat /\ x < S /\ o < S
  BY WordFacts DEF DWords
<1>1. QSize = S * S
  BY WordFacts
<1>2. x - o \in Int
  BY <1>0
<1> HIDE DEF S
<1> DEFINE t == x - o
<1>3. t \in Int
  BY <1>2
<1> HIDE DEF t
<1>4. (t % (S * S)) % S = t % S
  BY <1>0, <1>3, TwoRemainders
<1>5. CASE x < o
  <2>1. t + S \in Nat /\ t + S < S /\ t = (-1) * S + (t + S) /\ -1 \in Int
    BY <1>0, <1>5 DEF t
  <2>2. t % S = t + S
    BY <1>0, <1>3, <2>1, DivIs
  <2>3. t % S \in DWords /\ t % S = t + 1 * S
    BY <1>0, <2>1, <2>2 DEF DWords, S
  <2> QED
    BY <1>1, <1>4, <1>5, <2>3 DEF t, S
<1>6. CASE ~(x < o)
  <2>1. t \in 0 .. S - 1
    BY <1>0, <1>6 DEF t
  <2>2. t % S = t
    BY <1>0, <2>1, ModSmall
  <2>3. t % S \in DWords /\ t % S = t + 0 * S
    BY <1>0, <2>1, <2>2 DEF DWords, S
  <2> QED
    BY <1>1, <1>4, <1>6, <2>3 DEF t, S
<1> QED
  BY <1>5, <1>6

LEMMA WideDifferencesHold == WideDifferences
<1> SUFFICES ASSUME NEW a \in DWords, NEW b \in DWords, NEW c \in DWords, NEW d \in DWords
             PROVE  LET lo == SUBB(a, c, 0)
                        hi == SUBB(b, d, lo.cf)
                    IN  /\ Wide(lo.rd, hi.rd) = (Wide(a, b) - Wide(c, d)) % QSize
                        /\ d + lo.cf < Size => hi.cf = Bit(Wide(a, b) < Wide(c, d))
  BY DEF WideDifferences
<1> DEFINE lo == SUBB(a, c, 0)
           hi == SUBB(b, d, lo.cf)
           u == IF a < c THEN 1 ELSE 0
           o == (d + u) % Size
           k == IF b < o THEN 1 ELSE 0
           w == (d + u) \div Size
           x == lo.rd
           y == hi.rd
           S == Size
<1>0. /\ S \in Nat \ {0} /\ a \in Nat /\ b \in Nat /\ c \in Nat /\ d \in Nat /\ d < S
      /\ a < S /\ b < S /\ c < S /\ u \in {0, 1} /\ k \in {0, 1} /\ d + u \in Int
  BY WordFacts DEF DWords
<1>1. QSize = S * S
  BY WordFacts
<1>2. (c + 0) % Size = c
  BY WordFacts, ModSmall DEF DWords
<1>3. lo.cf = u /\ x = ((a - c) % QSize) % Size
  BY <1>2 DEF SUBB
<1>4. hi.cf = k /\ y = ((b - o) % QSize) % Size
  <2> HIDE DEF lo
  <2> QED
    BY <1>3 DEF SUBB
<1>5. o \in DWords /\ d + u = w * S + o /\ w \in Int
  <2> HIDE DEF u
  <2>1. d + u \in Int /\ S \in Nat \ {0}
    BY <1>0
  <2> QED
    BY <2>1, DivMod DEF DWords
<1> HIDE DEF lo, hi, x, y, o, w
<1>6. x \in DWords /\ x = a - c + u * S
  BY <1>3, DifferenceIs
<1>7. y \in DWords /\ y = b - o + k * S
  BY <1>4, <1>5, DifferenceIs
<1> HIDE DEF u, k, S
<1>8. x \in Nat /\ y \in Nat /\ o \in Nat /\ x < S /\ y < S /\ o < S
  BY <1>0, <1>5, <1>6, <1>7 DEF DWords, S
<1>14. /\ Wide(a, b) = a + S * b /\ Wide(c, d) = c + S * d
       /\ Wide(x, y) = x + S * y
  BY DEF Wide, S
<1>9. Wide(a, b) - Wide(c, d) \in Int /\ Wide(x, y) \in 0 .. QSize - 1
  <2>1. a + S * b - (c + S * d) \in Int
    BY <1>0
  <2>2. y * S + S <= S * S /\ y * S \in Nat /\ S * S \in Nat /\ y * S = S * y
    BY <1>0, <1>8, DigitBelow
  <2>3. x + S * y \in 0 .. S * S - 1
    BY <1>0, <1>8, <2>2
  <2> QED
    BY <1>0, <1>8, <2>1, <2>3, <1>1, <1>14
<1>10. Wide(x, y) = (Wide(a, b) - Wide(c, d)) + (w + k) * QSize
  <2>1. o = d + u - w * S
    BY <1>0, <1>5, <1>8
  <2>2. y = b - (d + u - w * S) + k * S
    BY <1>7, <2>1
  <2>3. x + S * y = (a - c + u * S) + S * (b - (d + u - w * S) + k * S)
    BY <1>6, <2>2
  <2>4. @ = (a + S * b - (c + S * d)) + (w + k) * (S * S)
    BY <1>0, <1>5
  <2> QED
    BY <1>0, <1>8, <1>5, <2>3, <2>4, <1>1, <1>14
<1>11. Wide(x, y) = (Wide(a, b) - Wide(c, d)) % QSize
  <2> DEFINE p == Wide(x, y)
             q == Wide(a, b) - Wide(c, d)
  <2>1. /\ QSize \in Nat \ {0} /\ p \in 0 .. QSize - 1 /\ p \in Int /\ q \in Int
        /\ w + k \in Int /\ p = q + (w + k) * QSize
    BY <1>0, <1>5, <1>9, <1>10, WordFacts
  <2> HIDE DEF p, q
  <2>2. p % QSize = q % QSize
    BY <2>1, ModSame
  <2>3. p % QSize = p
    BY <2>1, ModSmall
  <2> QED
    BY <2>2, <2>3 DEF p, q
<1>12. ASSUME d + u < Size PROVE k = Bit(Wide(a, b) < Wide(c, d))
  <2>1. d + u \in 0 .. Size - 1
    BY <1>0, <1>12 DEF S
  <2>2. o = d + u
    BY <2>1, WordFacts, ModSmall DEF o
  <2>3. S * b \in Int /\ S * d \in Int /\ b * S = S * b /\ d * S = S * d
    BY <1>0
  <2>4. (a + S * b < c + S * d) <=> b < d + u
    <3>1. CASE b < d
      BY <3>1, <2>3, <1>0, DigitBelow
    <3>2. CASE d < b
      BY <3>2, <2>3, <1>0, DigitBelow
    <3>3. CASE b = d
      BY <3>3, <2>3, <1>0 DEF u
    <3> QED
      BY <3>1, <3>2, <3>3, <1>0
  <2> QED
    BY <2>2, <2>4 DEF k, Bit, Wide, S
<1>13. /\ Wide(x, y) = (Wide(a, b) - Wide(c, d)) % QSize
       /\ d + lo.cf < Size => hi.cf = Bit(Wide(a, b) < Wide(c, d))
  BY <1>3, <1>4, <1>11, <1>12
<1> QED
  BY <1>13 DEF x, y, lo, hi

\* The overflow flag.
LEMMA OverflowsHold == Overflows
<1> SUFFICES ASSUME NEW a \in DWords, NEW b \in DWords, NEW cf \in {0, 1}
             PROVE  ADDC(a, b, cf).of =
                      (Signed(a) + Signed(b) + cf \notin -TopBit .. TopBit - 1)
  BY DEF Overflows, TopBit
<1> DEFINE l == a + b + cf
           H == TopBit
<1>0. /\ H \in Nat \ {0} /\ Size = 2 * H /\ a \in Nat /\ b \in Nat /\ cf \in Nat
      /\ a < 2 * H /\ b < 2 * H /\ l \in Nat /\ l <= 4 * H - 1
      /\ cf <= 1
  BY WordFacts DEF DWords
<1> HIDE DEF H
<1>1. /\ a \in 0 .. 2 * Size - 1 /\ b \in 0 .. 2 * Size - 1 /\ l \in 0 .. 2 * Size - 1
  BY <1>0
<1>2. /\ DW_SIGN_BIT(a) \in {0, 1} /\ (DW_SIGN_BIT(a) = 0 <=> a < H)
      /\ DW_SIGN_BIT(b) \in {0, 1} /\ (DW_SIGN_BIT(b) = 0 <=> b < H)
  BY <1>0, <1>1, SignBits DEF H
<1>3. /\ DW_SIGN_BIT(l) \in {0, 1}
      /\ DW_SIGN_BIT(l) = 0 <=> l < H \/ (2 * H <= l /\ l < 3 * H)
  <2> HIDE DEF l
  <2>1. /\ DW_SIGN_BIT(l) \in {0, 1}
        /\ DW_SIGN_BIT(l) = 0 <=> l < H \/ (Size <= l /\ l < Size + H)
    BY <1>1, SignBits DEF H
  <2> QED
    BY <2>1, <1>0
<1>4. /\ a < H => Signed(a) = a
      /\ ~(a < H) => Signed(a) = a - 2 * H
      /\ b < H => Signed(b) = b
      /\ ~(b < H) => Signed(b) = b - 2 * H
  BY <1>0 DEF Signed, H, TopBit
<1>5. Overflow(a, b, l) <=> Signed(a) + Signed(b) + cf \notin -H .. H - 1
  <2>1. CASE a < H /\ b < H
    BY <2>1, <1>0, <1>2, <1>3, <1>4 DEF Overflow
  <2>2. CASE ~(a < H) /\ ~(b < H)
    BY <2>2, <1>0, <1>2, <1>3, <1>4 DEF Overflow
  <2>3. CASE a < H /\ ~(b < H)
    BY <2>3, <1>0, <1>2, <1>4 DEF Overflow
  <2>4. CASE ~(a < H) /\ b < H
    BY <2>4, <1>0, <1>2, <1>4 DEF Overflow
  <2> QED
    BY <2>1, <2>2, <2>3, <2>4
<1>6. ADDC(a, b, cf).of = Overflow(a, b, l)
  BY DEF ADDC
<1>7. Overflow(a, b, l) \in BOOLEAN
  BY DEF Overflow
<1> QED
  BY <1>5, <1>6, <1>7, Zenon DEF H

-----------------------------------------------------------------------------
(* Shifts and rotations                                                    *)

\* A signed word shifted to the right is a signed word.
LEMMA ShiftedRange ==
  ASSUME NEW s \in -TopBit .. TopBit - 1, NEW P \in Nat \ {0}
  PROVE  s \div P \in -TopBit .. TopBit - 1
<1> DEFINE q == s \div P
           r == s % P
           H == TopBit
<1>0. H \in Nat \ {0} /\ s \in Int /\ -H <= s /\ s < H
  BY WordFacts
<1>1. q \in Int /\ r \in Nat /\ r < P /\ s = q * P + r
  BY <1>0, DivMod
<1> HIDE DEF q, r, H
<1>2. s >= 0 => q >= 0
  <2> SUFFICES ASSUME s >= 0, q < 0 PROVE FALSE
    BY <1>1
  <2>1. q * P + P <= 0 * P /\ q * P \in Int
    BY <1>1, DigitBelow
  <2> QED
    BY <1>0, <1>1, <2>1
<1>3. s >= 0 => q <= s
  <2> SUFFICES ASSUME s >= 0 PROVE q <= s
    OBVIOUS
  <2>1. q \in Nat /\ P - 1 \in Nat
    BY <1>1, <1>2
  <2>2. q * (P - 1) \in Nat /\ q * P = q + q * (P - 1)
    BY <2>1
  <2> QED
    BY <1>0, <1>1, <2>1, <2>2
<1>4. s < 0 => q < 0
  <2> SUFFICES ASSUME s < 0, q >= 0 PROVE FALSE
    BY <1>1
  <2>1. q * P \in Nat
    BY <1>1
  <2> QED
    BY <1>0, <1>1, <2>1
<1>5. s < 0 => s <= q
  <2> SUFFICES ASSUME s < 0 PROVE s <= q
    OBVIOUS
  <2>1. -q - 1 \in Nat /\ P - 1 \in Nat
    BY <1>0, <1>1, <1>4
  <2>2. (-q - 1) * (P - 1) \in Nat /\ q * P \in Int
    BY <1>1, <2>1
  <2>3. (-q - 1) * (P - 1) = q + 1 - P - q * P
    BY <1>1
  <2> QED
    BY <1>0, <1>1, <2>2, <2>3
<1>6. q \in -H .. H - 1
  BY <1>0, <1>1, <1>2, <1>3, <1>4, <1>5
<1> QED
  BY <1>6 DEF q, H

LEMMA ShiftsHold == Shifts
<1> SUFFICES ASSUME NEW x \in DWords, NEW n \in 1 .. 2 * W - 1
             PROVE  /\ LLS(x, n).rd = (x * Pow2[n]) % Size
                    /\ n <= W => LLS(x, n).cf = (x \div Pow2[W - n]) % 2
                    /\ RLS(x, n) = [rd |-> x \div Pow2[n], cf |-> (x \div Pow2[n - 1]) % 2]
                    /\ Signed(ARS(x, n).rd) = Signed(x) \div Pow2[n]
                    /\ ARS(x, n).cf = (Signed(x) \div Pow2[n - 1]) % 2
  BY DEF Shifts
<1> DEFINE P == Pow2[n]
           h == Pow2[n - 1]
           s == Signed(x)
<1>1. P \in Nat \ {0} /\ h \in Nat \ {0} /\ P = 2 * h
  <2>1. n \in 1 .. 2 * W /\ n \in 0 .. 2 * W /\ n - 1 \in 0 .. 2 * W
    OBVIOUS
  <2> QED
    BY <2>1, Pow2Doubles, Pow2Positive
<1>2. /\ x \in Nat /\ Size \in Nat \ {0} /\ QSize = Size * Size
      /\ s \in -TopBit .. TopBit - 1 /\ s \in Int /\ TopBit \in Nat \ {0} /\ Size = 2 * TopBit
  BY WordFacts, SignedRange DEF DWords
<1> HIDE DEF P, h, s
<1>3. P = h * 2
  BY <1>1
<1> DEFINE y == x * P
<1>4. y \in Int
  BY <1>1, <1>2
<1>5. LLS(x, n).rd = (y % QSize) % Size /\ LLS(x, n).cf = CARRY_BIT(y % QSize)
  BY DEF LLS, P
<1> HIDE DEF y
<1>6. (y % QSize) % Size = y % Size /\ (y % QSize) \div Size = (y \div Size) % Size
  <2>1. /\ (y % (Size * Size)) % Size = y % Size
        /\ (y % (Size * Size)) \div Size = (y \div Size) % Size
    BY <1>2, <1>4, TwoRemainders
  <2>2. QSize = Size * Size
    BY <1>2
  <2> QED
    BY <2>1, <2>2, Zenon
<1>7. ASSUME n <= W PROVE LLS(x, n).cf = (x \div Pow2[W - n]) % 2
  <2> DEFINE R == Pow2[W - n]
  <2>1. R \in Nat \ {0} /\ Size = P * R
    <3>1. n \in Nat /\ W - n \in Nat /\ n + (W - n) <= 2 * W /\ n + (W - n) = W
            /\ W - n \in 0 .. 2 * W
      BY <1>7
    <3>2. Pow2[n + (W - n)] = Pow2[n] * Pow2[W - n]
      BY <3>1, Pow2Sum
    <3>3. Pow2[W - n] \in Nat \ {0}
      BY <3>1, Pow2Positive
    <3> QED
      BY <3>1, <3>2, <3>3 DEF P, Size
  <2> HIDE DEF R
  <2>2. y \div Size = x \div R
    <3>1. (x * P) \div (P * R) = x \div R
      BY <1>1, <1>2, <2>1, CommonFactor
    <3> QED
      BY <3>1, <2>1 DEF y
  <2> DEFINE z == x \div R
  <2>3. z \in Int
    BY <1>2, <2>1, DivMod
  <2> HIDE DEF z
  <2>4. (z % Size) % 2 = z % 2
    <3>1. 2 \in Nat \ {0} /\ TopBit \in Nat \ {0}
      BY <1>2
    <3>2. (z % (2 * TopBit)) % 2 = z % 2
      BY <2>3, <3>1, TwoRemainders, Zenon
    <3> QED
      BY <1>2, <3>2, Zenon
  <2>5. CARRY_BIT(y % QSize) = (z % Size) % 2
    BY <1>6, <2>2 DEF CARRY_BIT, z
  <2> QED
    BY <1>5, <2>4, <2>5 DEF z, R
<1>8. ASSUME NEW t \in Int
      PROVE  /\ (t * 2) \div P = t \div h
             /\ (t \div h) \div 2 = t \div P
  <2>1. (t * 2) \div (2 * h) = t \div h
    BY <1>1, CommonFactor
  <2>2. (t \div h) \div 2 = t \div (h * 2)
    BY <1>1, TwoDivisors
  <2> QED
    BY <2>1, <2>2, <1>1, <1>3
<1>9. RLS(x, n) = [rd |-> x \div P, cf |-> (x \div h) % 2]
  <2>1. RLS(x, n) = [rd |-> ((x * 2) \div P) \div 2, cf |-> ((x * 2) \div P) % 2]
    BY DEF RLS, P
  <2>2. x \in Int /\ (x * 2) \div P = x \div h /\ (x \div h) \div 2 = x \div P
    BY <1>2, <1>8
  <2> QED
    BY <2>1, <2>2
<1>10. Signed(ARS(x, n).rd) = s \div P /\ ARS(x, n).cf = (s \div h) % 2
  <2>1. ARS(x, n).rd = (((s * 2) \div P) \div 2) % Size /\ ARS(x, n).cf = ((s * 2) \div P) % 2
    BY DEF ARS, P, s
  <2>2. (s * 2) \div P = s \div h /\ (s \div h) \div 2 = s \div P
    BY <1>2, <1>8
  <2>3. Signed((s \div P) % Size) = s \div P
    BY <1>1, <1>2, ShiftedRange, SignedBack
  <2> QED
    BY <2>1, <2>2, <2>3
<1> QED
  BY <1>5, <1>6, <1>7, <1>9, <1>10 DEF P, h, s, y

\* Two digits change places: x = p * A + q becomes q * B + p, where A * B is Size.
LEMMA TurnIs ==
  ASSUME NEW x \in DWords, NEW A \in Nat \ {0}, NEW B \in Nat \ {0}, Size = A * B
  PROVE  /\ x \div A \in Nat /\ x \div A < B /\ x % A \in Nat /\ x % A < A
         /\ x = (x \div A) * A + (x % A)
         /\ ((x * B) % Size) + (x \div A) = (x % A) * B + (x \div A)
         /\ (x % A) * B + (x \div A) \in DWords
<1> DEFINE p == x \div A
           q == x % A
<1>7. x \in Int /\ x >= 0
  BY WordFacts DEF DWords
<1>0. x \in Nat /\ x < A * B /\ B * A = A * B /\ Size \in Nat /\ Size = B * A
  BY WordFacts DEF DWords
<1>1. p \in Nat /\ q \in Nat /\ q < A /\ x = p * A + q
  BY <1>7, DivMod
<1>2. (x * B) % (B * A) = q * B
  BY <1>7, CommonFactor
<1>3. (x * B) % Size = q * B
  BY <1>0, <1>2, Zenon
<1> HIDE DEF p, q
<1>4. p < B
  <2> SUFFICES ASSUME B <= p PROVE FALSE
    BY <1>1
  <2>1. (p - B) \in Nat
    BY <1>1
  <2>2. (p - B) * A \in Nat /\ p * A = B * A + (p - B) * A
    BY <1>1, <2>1
  <2> QED
    BY <1>0, <1>1, <2>2
<1>5. q * B + B <= A * B /\ q * B \in Nat
  BY <1>1, DigitBelow
<1>6. q * B + p \in DWords
  BY <1>0, <1>1, <1>4, <1>5 DEF DWords
<1> QED
  BY <1>1, <1>3, <1>4, <1>6 DEF p, q

\* Rotation to the left by k bits.
LEMMA RotlIs ==
  ASSUME NEW x \in DWords, NEW n \in Nat, NEW k \in 1 .. W - 1, n % W = k
  PROVE  /\ ROTL(x, n) = (x % Pow2[W - k]) * Pow2[k] + (x \div Pow2[W - k])
         /\ ROTL(x, n) \in DWords
<1>1. ROTL(x, n) = ((x * Pow2[k]) % Size) + (x \div Pow2[W - k])
  BY DEF ROTL
<1>2. Pow2[k] \in Nat \ {0} /\ Pow2[W - k] \in Nat \ {0} /\ Size = Pow2[W - k] * Pow2[k]
  BY PowFacts
<1> QED
  BY <1>1, <1>2, TurnIs

\* ... and to the right.
LEMMA RotrIs ==
  ASSUME NEW x \in DWords, NEW n \in Nat, NEW k \in 1 .. W - 1, n % W = k
  PROVE  ROTR(x, n) = (x \div Pow2[k]) + (x % Pow2[k]) * Pow2[W - k]
<1> DEFINE A == Pow2[W - k]
           B == Pow2[k]
<1>1. ROTR(x, n) = (x \div B) + ((x * A) % Size)
  BY DEF ROTR
<1>2. B \in Nat \ {0} /\ A \in Nat \ {0} /\ Size = A * B
  BY PowFacts
<1> HIDE DEF A, B
<1>3. x \in Int
  BY WordFacts DEF DWords
<1>4. (x * A) % (A * B) = (x % B) * A
  BY <1>2, <1>3, CommonFactor
<1>5. ROTR(x, n) = (x \div B) + (x % B) * A
  BY <1>1, <1>2, <1>4, Zenon
<1> QED
  BY <1>5 DEF A, B

LEMMA RotateBack ==
  ASSUME NEW x \in DWords, NEW n \in Nat
  PROVE  ROTR(ROTL(x, n), n) = x
<1>1. CASE n % W = 0
  <2>1. \A y : ROTL(y, n) = y /\ ROTR(y, n) = y
    BY <1>1 DEF ROTL, ROTR
  <2> QED
    BY <2>1
<1>2. CASE n % W # 0
  <2> DEFINE k == n % W
             A == Pow2[W - k]
             B == Pow2[k]
             p == x \div A
             q == x % A
             y == ROTL(x, n)
  <2>1. k \in 1 .. W - 1 /\ n % W = k
    BY <1>2, DivMod
  <2>2. y = q * B + p /\ y \in DWords
    BY <2>1, RotlIs
  <2>3. ROTR(y, n) = (y \div B) + (y % B) * A
    <3> HIDE DEF y, k
    <3> QED
      BY <2>1, <2>2, RotrIs
  <2>4. B \in Nat \ {0} /\ A \in Nat \ {0} /\ Size = A * B
    <3> HIDE DEF k
    <3> QED
      BY <2>1, PowFacts
  <2> HIDE DEF k, A, B, y
  <2>5. p \in Nat /\ p < B /\ q \in Nat /\ x = p * A + q
    BY <2>4, TurnIs
  <2> HIDE DEF p, q
  <2>6. q * B + p \in Int /\ q \in Int
    BY <2>4, <2>5
  <2>7. y \div B = q /\ y % B = p
    <3>1. y \in Int
      BY <2>2, <2>6
    <3> QED
      BY <3>1, <2>2, <2>4, <2>5, <2>6, DivIs
  <2>8. q + p * A = x
    BY <2>4, <2>5
  <2> QED
    BY <2>3, <2>7, <2>8 DEF y
<1> QED
  BY <1>1, <1>2

\* A turn by one bit more.
LEMMA RotateOnce ==
  ASSUME NEW x \in DWords, NEW n \in Nat, NEW k \in 1 .. W - 2, n % W = k, (n + 1) % W = k + 1
  PROVE  ROTL(x, n + 1) = ROTL(ROTL(x, n), 1)
<1> DEFINE A == Pow2[W - k]
           a == Pow2[W - k - 1]
           B == Pow2[k]
           H == Pow2[W - 1]
           y == ROTL(x, n)
<1>1. k \in 1 .. W - 1 /\ k + 1 \in 1 .. W - 1 /\ W - (k + 1) = W - k - 1
        /\ 1 \in 1 .. W - 1 /\ n + 1 \in Nat /\ k + 1 - 1 = k /\ 1 \in Nat
        /\ 1 \in 0 .. W - 1 /\ W \in Nat \ {0}
  BY WordFacts
<1>2. A \in Nat \ {0} /\ a \in Nat \ {0} /\ B \in Nat \ {0} /\ A = 2 * a /\ H = B * a
        /\ Size = A * B
  BY <1>1, PowFacts
<1>3. Pow2[k + 1] = 2 * B /\ Size = a * Pow2[k + 1]
  BY <1>1, PowFacts
<1>4. y = (x % A) * B + (x \div A) /\ y \in DWords
  BY <1>1, RotlIs
<1>5. ROTL(x, n + 1) = (x % a) * Pow2[k + 1] + (x \div a)
  <2>1. ROTL(x, n + 1) = (x % Pow2[W - (k + 1)]) * Pow2[k + 1] + (x \div Pow2[W - (k + 1)])
    BY <1>1, RotlIs
  <2> QED
    BY <2>1, <1>1
<1>6. Pow2[1] = 2
  <2>1. 1 \in 1 .. 2 * W /\ 1 - 1 = 0
    OBVIOUS
  <2> QED
    BY <2>1, Pow2Doubles
<1>7. ROTL(y, 1) = (y % H) * 2 + (y \div H)
  <2> HIDE DEF y
  <2>1. 1 % W = 1
    BY <1>1, ModSmall
  <2> QED
    BY <1>1, <1>4, <1>6, <2>1, RotlIs
<1> HIDE DEF A, a, B, H, y
<1> DEFINE p == x \div A
           t == (x % A) \div a
           q == (x % A) % a
<1>8. x \in Int /\ p \in Nat /\ p < B /\ x % A \in Nat /\ x % A < A /\ x = p * A + (x % A)
  <2>1. x \in Int
    BY WordFacts DEF DWords
  <2> QED
    BY <1>2, <2>1, TurnIs
<1>9. t \in Nat /\ q \in Nat /\ q < a /\ x % A = t * a + q
  <2>1. A \in Nat \ {0} /\ a \in Nat \ {0}
    BY <1>2
  <2> DEFINE z == x % A
  <2>2. z \in Int /\ z >= 0
    BY <1>8
  <2> HIDE DEF z
  <2>3. z \div a \in Nat /\ z % a \in Nat /\ z % a < a /\ z = (z \div a) * a + (z % a)
    BY <2>1, <2>2, DivMod
  <2> QED
    BY <2>3 DEF z
<1> HIDE DEF p, q, t
<1>10. p * A \in Nat /\ t * a \in Nat /\ (p * 2) * a = p * A /\ (p * 2 + t) * a = p * A + t * a
  BY <1>2, <1>8, <1>9
<1>11. x = (p * 2 + t) * a + q
  BY <1>8, <1>9, <1>10
<1>12. x \div a = p * 2 + t /\ x % a = q
  <2>1. p * 2 + t \in Int
    BY <1>8, <1>9
  <2> HIDE DEF p
  <2> QED
    BY <1>2, <1>8, <1>9, <1>11, <2>1, DivIs
<1>13. q * B + p < H /\ q * B + p \in Nat
  <2>1. q * B + B <= a * B /\ q * B \in Nat
    BY <1>2, <1>9, DigitBelow
  <2>2. a * B = H
    BY <1>2
  <2>3. H \in Nat
    BY <1>2, <2>2
  <2> QED
    BY <1>2, <1>9, <2>1, <2>2, <2>3, <1>8
<1>14. y = t * H + (q * B + p)
  <2>1. (t * a + q) * B + p = t * (B * a) + (q * B + p)
    BY <1>2, <1>8, <1>9
  <2> QED
    BY <2>1, <1>2, <1>4, <1>9 DEF p
<1>15. y \div H = t /\ y % H = q * B + p
  <2> DEFINE r == q * B + p
  <2>1. r \in Nat /\ r < H /\ y = t * H + r
    BY <1>13, <1>14
  <2> HIDE DEF r
  <2>2. H \in Nat \ {0} /\ t \in Int
    BY <1>2, <1>9
  <2>3. y \in Int
    BY <1>4, WordFacts DEF DWords
  <2>4. y \div H = t /\ y % H = r
    BY <2>1, <2>2, <2>3, DivIs
  <2> QED
    BY <2>4 DEF r
<1>16. q * (2 * B) + (p * 2 + t) = (q * B + p) * 2 + t
  BY <1>2, <1>8, <1>9
<1> QED
  BY <1>3, <1>5, <1>7, <1>12, <1>15, <1>16 DEF y

LEMMA RotationsHold == Rotations
<1> SUFFICES ASSUME NEW x \in DWords, NEW n \in 0 .. 2 * W
             PROVE  /\ ROTR(ROTL(x, n), n) = x
                    /\ ROTL(x, n + 1) = ROTL(ROTL(x, n), 1)
                    /\ XCHGW(x) = ROTL(x, W \div 2)
  BY DEF Rotations
<1> DEFINE k == n % W
<1>0. /\ W \in Nat \ {0} /\ W >= 4 /\ n \in Nat /\ n + 1 \in Nat /\ 1 \in Nat
      /\ 1 \in 0 .. W - 1 /\ 1 \in 1 .. W - 1 /\ W - 1 \in 1 .. W - 1 /\ W - (W - 1) = 1
  BY WordFacts
<1>1. k \in 0 .. W - 1 /\ n = (n \div W) * W + k /\ n \div W \in Int /\ 1 % W = 1
  <2>1. W \in Nat \ {0} /\ n \in Int /\ 1 \in 0 .. W - 1
    BY <1>0
  <2>2. n % W \in 0 .. W - 1 /\ n = (n \div W) * W + (n % W) /\ n \div W \in Int
    BY <2>1, DivMod
  <2>3. 1 % W = 1
    BY <2>1, ModSmall
  <2> QED
    BY <2>2, <2>3
<1>2. (n + 1) % W = IF k = W - 1 THEN 0 ELSE k + 1
  <2> DEFINE q == n \div W
  <2>1. q \in Int /\ n + 1 = q * W + (k + 1)
    BY <1>0, <1>1
  <2> HIDE DEF k, q
  <2>2. CASE k = W - 1
    <3>1. n + 1 = (q + 1) * W + 0 /\ q + 1 \in Int /\ 0 \in Nat /\ 0 < W
      BY <2>1, <2>2, <1>0
    <3> QED
      BY <3>1, <2>2, <1>0, DivIs
  <2>3. CASE k # W - 1
    <3> DEFINE r == k + 1
               m == n + 1
    <3>1. r \in Nat /\ r < W /\ m \in Int /\ m = q * W + r
      BY <1>0, <1>1, <2>1, <2>3
    <3> HIDE DEF r, m
    <3>2. m % W = r
      BY <3>1, <2>1, <1>0, DivIs
    <3> QED
      BY <3>2, <2>3 DEF r, m
  <2> QED
    BY <2>2, <2>3
<1>3. n % W = k
  OBVIOUS
<1> HIDE DEF k
<1>4. ROTL(x, n + 1) = ROTL(ROTL(x, n), 1)
  <2>1. CASE k = 0
    <3>1. ROTL(x, n) = x
      BY <1>3, <2>1 DEF ROTL
    <3>2. (n + 1) % W = 1 % W
      BY <1>0, <1>1, <1>2, <2>1
    <3>3. ROTL(x, n + 1) = ROTL(x, 1)
      BY <3>2 DEF ROTL
    <3> QED
      BY <3>1, <3>3
  <2>2. CASE k \in 1 .. W - 2
    <3>1. (n + 1) % W = k + 1
      BY <1>0, <1>2, <2>2
    <3> QED
      BY <3>1, <2>2, <1>0, <1>3, RotateOnce
  <2>3. CASE k = W - 1
    <3> DEFINE A == Pow2[1]
               B == Pow2[W - 1]
               p == x \div A
               q == x % A
               y == ROTL(x, n)
    <3>1. k \in 1 .. W - 1
      BY <1>0, <2>3
    <3>2. y = q * B + p /\ y \in DWords
      BY <3>1, <2>3, <1>0, <1>3, RotlIs
    <3>3. /\ A \in Nat \ {0} /\ B \in Nat \ {0} /\ Size = A * B
      BY <1>0, PowFacts
    <3>4. ROTL(y, 1) = (y % B) * A + (y \div B)
      <4> HIDE DEF y
      <4> QED
        BY <1>0, <1>1, <3>2, RotlIs
    <3> HIDE DEF A, B, y
    <3>5. p \in Nat /\ p < B /\ q \in Nat /\ x = p * A + q
      BY <3>3, TurnIs
    <3> HIDE DEF p, q
    <3>6. y \in Int /\ q \in Int
      BY <3>3, <3>2, <3>5
    <3>7. y \div B = q /\ y % B = p
      BY <3>2, <3>3, <3>5, <3>6, DivIs
    <3>8. ROTL(x, n + 1) = x
      BY <1>2, <2>3 DEF ROTL
    <3> QED
      BY <3>4, <3>5, <3>7, <3>8 DEF y
  <2> QED
    BY <1>0, <1>1, <2>1, <2>2, <2>3
<1>5. XCHGW(x) = ROTL(x, W \div 2)
  <2>1. W \div 2 \in 1 .. W - 1 /\ W - (W \div 2) = W \div 2
    BY <1>0
  <2>2. (W \div 2) % W = W \div 2
    <3> DEFINE h == W \div 2
    <3>1. h \in 0 .. W - 1
      BY <2>1
    <3> HIDE DEF h
    <3>2. h % W = h
      BY <3>1, <1>0, ModSmall
    <3> QED
      BY <3>2 DEF h
  <2> QED
    BY <2>1, <2>2 DEF XCHGW, ROTL
<1> QED
  BY <1>0, <1>4, <1>5, RotateBack

-----------------------------------------------------------------------------
(* Products, quotients and literals                                        *)

LEMMA ProductsHold ==
  ASSUME NEW a \in DWords, NEW b \in DWords
  PROVE  /\ Wide(MUL(a, b).rd, MUL(a, b).y) = a * b
         /\ b # 0 => DIV(a, b).y < b /\ a = DIV(a, b).rd * b + DIV(a, b).y
<1>0. a \in Nat /\ b \in Nat /\ Size \in Nat \ {0}
  BY WordFacts DEF DWords
<1>1. Wide(MUL(a, b).rd, MUL(a, b).y) = a * b
  <2> DEFINE x == a * b
             q == x \div Size
             r == x % Size
  <2>1. x \in Int
    BY <1>0
  <2>2. Wide(MUL(a, b).rd, MUL(a, b).y) = r + Size * q
    BY DEF MUL, Wide
  <2> HIDE DEF x
  <2>3. q \in Int /\ r \in Nat /\ x = q * Size + r
    BY <1>0, <2>1, DivMod
  <2> HIDE DEF q, r
  <2>4. r + Size * q = q * Size + r
    BY <1>0, <2>3
  <2> QED
    BY <2>2, <2>3, <2>4 DEF x
<1>2. b # 0 => DIV(a, b).y < b /\ a = DIV(a, b).rd * b + DIV(a, b).y
  <2> SUFFICES ASSUME b # 0
               PROVE  DIV(a, b).y < b /\ a = DIV(a, b).rd * b + DIV(a, b).y
    OBVIOUS
  <2>1. b \in Nat \ {0} /\ a \in Int
    BY <1>0
  <2>2. a % b < b /\ a = (a \div b) * b + (a % b)
    BY <2>1, DivMod
  <2> QED
    BY <2>2 DEF DIV
<1> QED
  BY <1>1, <1>2

\* t is u by v towards zero: q and r are the quotient and the remainder of the absolute
\* values.
Truncates(u, v, q, r, t) ==
  /\ v # 0 /\ r < Abs(v) /\ Abs(u) = q * Abs(v) + r
  /\ t = IF (u < 0) = (v < 0) THEN q ELSE -q

\* What is left over has the sign of u.
LeavesRest(u, v, t, r) ==
  /\ u - v * t \in Int /\ u = t * v + (u - v * t)
  /\ Abs(u - v * t) = r /\ (u - v * t) * u >= 0

LEMMA TowardsZero ==
  ASSUME NEW u \in Int, NEW v \in Int, NEW q \in Nat, NEW r \in Nat, NEW t \in Int,
         Truncates(u, v, q, r, t)
  PROVE  LeavesRest(u, v, t, r)
<1>0. /\ v # 0 /\ r < Abs(v) /\ Abs(u) = q * Abs(v) + r
      /\ t = IF (u < 0) = (v < 0) THEN q ELSE -q
  BY DEF Truncates
<1>1. CASE u >= 0 /\ v > 0
  <2>1. u = q * v + r /\ t = q
    BY <1>0, <1>1 DEF Abs
  <2>2. q * v \in Nat /\ v * q = q * v
    BY <1>1
  <2>3. u - v * t = r /\ u = t * v + r
    BY <2>1, <2>2
  <2>4. r * u >= 0
    BY <1>1
  <2> QED
    BY <2>3, <2>4 DEF Abs, LeavesRest
<1>2. CASE u >= 0 /\ v < 0
  <2>1. u = q * (-v) + r /\ t = -q
    BY <1>0, <1>2 DEF Abs
  <2>2. q * (-v) \in Nat /\ v * (-q) = q * (-v) /\ (-q) * v = q * (-v)
    BY <1>2
  <2>3. u - v * t = r /\ u = t * v + r
    BY <2>1, <2>2
  <2>4. r * u >= 0
    BY <1>2
  <2> QED
    BY <2>3, <2>4 DEF Abs, LeavesRest
<1>3. CASE u < 0 /\ v > 0
  <2>1. -u = q * v + r /\ t = -q
    BY <1>0, <1>3 DEF Abs
  <2>2. q * v \in Nat /\ v * (-q) = -(q * v) /\ (-q) * v = -(q * v)
    BY <1>3
  <2>3. u - v * t = -r /\ u = t * v + (-r)
    BY <2>1, <2>2
  <2>4. (-r) * u >= 0
    BY <1>3
  <2> QED
    BY <2>3, <2>4 DEF Abs, LeavesRest
<1>4. CASE u < 0 /\ v < 0
  <2>1. -u = q * (-v) + r /\ t = q
    BY <1>0, <1>4 DEF Abs
  <2>2. q * (-v) \in Nat /\ v * q = -(q * (-v)) /\ q * v = -(q * (-v))
    BY <1>4
  <2>3. u - v * t = -r /\ u = t * v + (-r)
    BY <2>1, <2>2
  <2>4. (-r) * u >= 0
    BY <1>4
  <2> QED
    BY <2>3, <2>4 DEF Abs, LeavesRest
<1> QED
  BY <1>0, <1>1, <1>2, <1>3, <1>4

\* A quotient is no larger than what is divided, and no larger than half of it by a
\* divisor other than one.
LEMMA SmallerQuotient ==
  ASSUME NEW m \in Nat, NEW p \in Nat \ {0}, NEW q \in Nat, NEW r \in Nat, m = q * p + r
  PROVE  q <= m /\ (q = m => q = 0 \/ p = 1)
<1>1. q * (p - 1) \in Nat /\ q * p = q + q * (p - 1)
  <2>1. p - 1 \in Nat
    OBVIOUS
  <2> QED
    BY <2>1
<1>2. q <= m
  BY <1>1
<1>3. q = m /\ q # 0 => p = 1
  <2> SUFFICES ASSUME q = m, q # 0, p - 1 # 0 PROVE FALSE
    OBVIOUS
  <2>1. q \in Nat \ {0} /\ p - 1 \in Nat \ {0}
    OBVIOUS
  <2>2. q * (p - 1) > 0
    BY <2>1
  <2> QED
    BY <1>1, <2>2
<1> QED
  BY <1>2, <1>3

LEMMA SignedQuotientsHold ==
  ASSUME NEW a \in DWords, NEW b \in DWords, b # 0,
         ~(Signed(a) = -TopBit /\ Signed(b) = -1)
  PROVE  LET q == Signed(SDIV(a, b).rd)
             r == Signed(SDIV(a, b).y)
         IN  Signed(a) = q * Signed(b) + r /\ Abs(r) < Abs(Signed(b)) /\ r * Signed(a) >= 0
<1> DEFINE u == Signed(a)
           v == Signed(b)
           q == Abs(u) \div Abs(v)
           r == Abs(u) % Abs(v)
           t == IF (u < 0) = (v < 0) THEN q ELSE -q
           e == u - v * t
           H == TopBit
<1>0. H \in Nat \ {0} /\ u \in -H .. H - 1 /\ v \in -H .. H - 1 /\ v # 0
  BY WordFacts, SignedRange
<1>1. SDIV(a, b).rd = t % Size /\ SDIV(a, b).y = e % Size
  BY DEF SDIV
<1>2. ~(u = -H /\ v = -1)
  OBVIOUS
<1> HIDE DEF u, v, H
<1>3. /\ u \in Int /\ v \in Int /\ Abs(u) \in Nat /\ Abs(v) \in Nat \ {0}
      /\ Abs(u) <= H /\ Abs(v) <= H
      /\ Abs(u) = H => u = -H
  BY <1>0 DEF Abs
<1>4. q \in Nat /\ r \in Nat /\ r < Abs(v) /\ Abs(u) = q * Abs(v) + r
  <2> DEFINE m == Abs(u)
             p == Abs(v)
  <2>1. m \in Int /\ m >= 0 /\ p \in Nat \ {0}
    BY <1>3
  <2> HIDE DEF m, p
  <2>2. m \div p \in Nat /\ m % p \in Nat /\ m % p < p /\ m = (m \div p) * p + (m % p)
    BY <2>1, DivMod
  <2> QED
    BY <2>2 DEF m, p
<1> HIDE DEF q, r
<1>5. t \in Int
  BY <1>4
<1>6. /\ e \in Int /\ u = t * v + e /\ Abs(e) = r /\ e * u >= 0
  <2>1. Truncates(u, v, q, r, t)
    BY <1>0, <1>4 DEF Truncates
  <2>2. u \in Int /\ v \in Int /\ t \in Int
    BY <1>3, <1>5
  <2> HIDE DEF t
  <2>3. LeavesRest(u, v, t, r)
    BY <1>4, <2>1, <2>2, TowardsZero
  <2> QED
    BY <2>3 DEF LeavesRest
<1>7. t \in -H .. H - 1
  <2>1. q <= Abs(u) /\ (q = Abs(u) => q = 0 \/ Abs(v) = 1)
    BY <1>3, <1>4, SmallerQuotient
  <2>2. q <= H
    BY <1>0, <1>3, <1>4, <2>1
  <2>3. ASSUME t = H PROVE FALSE
    <3>1. q = H /\ (u < 0) = (v < 0)
      BY <1>0, <1>4, <2>2, <2>3
    <3>2. Abs(u) = H /\ q = Abs(u) /\ q # 0
      BY <1>0, <1>3, <2>1, <3>1
    <3>3. u = -H /\ Abs(v) = 1
      BY <1>3, <2>1, <3>2
    <3>4. v = -1
      BY <1>0, <1>3, <3>1, <3>3 DEF Abs
    <3> QED
      BY <1>2, <3>3, <3>4
  <2>4. -H <= t /\ t <= H
    BY <1>0, <1>4, <2>2
  <2> HIDE DEF t
  <2> QED
    BY <1>0, <1>5, <2>3, <2>4
<1> HIDE DEF t, e
<1>8. e \in -H .. H - 1
  BY <1>0, <1>3, <1>4, <1>6 DEF Abs
<1>9. Signed(t % Size) = t /\ Signed(e % Size) = e
  BY <1>7, <1>8, SignedBack DEF H
<1>10. /\ u = Signed(SDIV(a, b).rd) * v + Signed(SDIV(a, b).y)
       /\ Abs(Signed(SDIV(a, b).y)) < Abs(v)
       /\ Signed(SDIV(a, b).y) * u >= 0
  BY <1>1, <1>4, <1>6, <1>9
<1> QED
  BY <1>10 DEF u, v

LEMMA QuotientsHold == Quotients
<1> SUFFICES ASSUME NEW a \in DWords, NEW b \in DWords
             PROVE  /\ Wide(MUL(a, b).rd, MUL(a, b).y) = a * b
                    /\ b # 0 => DIV(a, b).y < b /\ a = DIV(a, b).rd * b + DIV(a, b).y
                    /\ b # 0 /\ ~(Signed(a) = -TopBit /\ Signed(b) = -1) =>
                         LET q == Signed(SDIV(a, b).rd)
                             r == Signed(SDIV(a, b).y)
                         IN  /\ Signed(a) = q * Signed(b) + r
                             /\ Abs(r) < Abs(Signed(b)) /\ r * Signed(a) >= 0
  BY DEF Quotients, TopBit
<1>1. /\ Wide(MUL(a, b).rd, MUL(a, b).y) = a * b
      /\ b # 0 => DIV(a, b).y < b /\ a = DIV(a, b).rd * b + DIV(a, b).y
  BY ProductsHold
<1>2. ASSUME b # 0, ~(Signed(a) = -TopBit /\ Signed(b) = -1)
      PROVE  LET q == Signed(SDIV(a, b).rd)
                 r == Signed(SDIV(a, b).y)
             IN  /\ Signed(a) = q * Signed(b) + r
                 /\ Abs(r) < Abs(Signed(b)) /\ r * Signed(a) >= 0
  BY <1>2, SignedQuotientsHold
<1> QED
  BY <1>1, <1>2

\* A literal has the value of its bits, as a signed number, and the word for it.
LEMMA LiteralIs ==
  ASSUME NEW bits \in 1 .. W - 1, NEW x \in DWords
  PROVE  LET P == Pow2[bits]
             v == x % P
             s == IF v < Pow2[bits - 1] THEN v ELSE v - P
         IN  /\ s \in -TopBit .. TopBit - 1
             /\ Signed(SignExtended(x, bits)) = s
             /\ SignExtended(x, bits) = s % Size
             /\ SignExtended(x, bits) \in DWords
<1> DEFINE P == Pow2[bits]
           h == Pow2[bits - 1]
           v == x % P
           s == IF v < h THEN v ELSE v - P
<1>0. P \in Nat \ {0} /\ h \in Nat \ {0} /\ P = 2 * h
  BY PowFacts
<1>1. TopBit \in Nat \ {0} /\ Size = 2 * TopBit /\ Size \in Nat \ {0}
  BY WordFacts
<1>2. P <= TopBit
  <2> DEFINE R == Pow2[W - bits - 1]
  <2>1. R \in Nat \ {0} /\ P \in Nat \ {0} /\ TopBit = P * R
    BY PowFacts DEF TopBit
  <2> HIDE DEF P, R
  <2>2. R - 1 \in Nat
    BY <2>1
  <2>3. P * (R - 1) \in Nat /\ P * R = P + P * (R - 1)
    BY <2>1, <2>2
  <2> QED
    BY <2>1, <2>3
<1>3. SignExtended(x, bits) = IF v \div h = 1 THEN v + (Size - P) ELSE v
  BY DEF SignExtended
<1> HIDE DEF P, h
<1>4. x \in Int
  BY WordFacts DEF DWords
<1>5. v \in Nat /\ v < P
  BY <1>0, <1>4, DivMod
<1> HIDE DEF v
<1>6. CASE v < h
  <2>1. v \in 0 .. h - 1
    BY <1>0, <1>5, <1>6
  <2>2. v \div h = 0
    BY <1>0, <2>1, ModSmall
  <2>3. SignExtended(x, bits) = v /\ s = v
    BY <1>3, <1>6, <2>2
  <2>4. v < TopBit /\ v \in -TopBit .. TopBit - 1 /\ v \in DWords /\ v \in 0 .. Size - 1
    BY <1>0, <1>1, <1>2, <1>5, <1>6 DEF DWords
  <2>5. v % Size = v
    BY <1>1, <2>4, ModSmall
  <2>6. Signed(v) = v
    BY <1>1, <1>5, <2>4 DEF Signed, TopBit
  <2> QED
    BY <2>3, <2>4, <2>5, <2>6 DEF P, h, v
<1>7. CASE ~(v < h)
  <2>1. v - h \in Nat /\ v - h < h /\ v = 1 * h + (v - h)
    BY <1>0, <1>5, <1>7
  <2>2. v \div h = 1
    BY <1>0, <1>5, <2>1, DivIs
  <2> DEFINE y == v + (Size - P)
  <2>3. SignExtended(x, bits) = y /\ s = v - P
    BY <1>3, <1>7, <2>2
  <2>4. v - P \in -TopBit .. TopBit - 1 /\ v - P \in Int
    BY <1>0, <1>1, <1>2, <1>5, <1>7
  <2>5. y \in Nat /\ y < Size /\ v - P = (-1) * Size + y /\ -1 \in Int
    BY <1>0, <1>1, <1>2, <1>5
  <2> HIDE DEF y
  <2>6. (v - P) % Size = y
    BY <1>1, <2>4, <2>5, DivIs
  <2>7. y \in DWords /\ Signed(y) = v - P
    BY <2>4, <2>6, SignedBack
  <2> QED
    BY <2>3, <2>4, <2>6, <2>7 DEF P, h, v
<1> QED
  BY <1>6, <1>7

LEMMA LiteralsHold == Literals
  BY LiteralIs DEF Literals

\* The arithmetic of the TR3200 is right in every width: several words are added and
\* subtracted as one number, the flags are those of the numbers, rotations lose nothing,
\* products and quotients are exact and literals keep their sign.
THEOREM ArithmeticAgrees == AluAgrees
  BY WideSumsHold, WideDifferencesHold, OverflowsHold, ShiftsHold, RotationsHold,
     QuotientsHold, LiteralsHold DEF AluAgrees

-----------------------------------------------------------------------------
(* ByteValues                                                                   *)

\* A word has four bytes, and at least sixteen values: an address has that many too.
LEMMA ByteFacts ==
  /\ ByteSize \in Nat \ {0} /\ ByteSize >= 2 /\ W \div 4 \in 1 .. W - 1
  /\ W = 4 * (W \div 4) /\ W \div 2 = 2 * (W \div 4) /\ W \div 2 \in 1 .. W - 1
  /\ ByteSize = Pow2[W \div 4] /\ BytePower(2) = Pow2[W \div 2]
  /\ BytePower(0) = 1 /\ BytePower(1) = ByteSize /\ BytePower(2) = ByteSize * ByteSize
  /\ BytePower(3) = BytePower(2) * ByteSize /\ BytePower(4) = BytePower(3) * ByteSize
  /\ BytePower(4) = Size /\ Size = BytePower(2) * BytePower(2)
  /\ \A i \in 0 .. 4 : BytePower(i) \in Nat \ {0}
<1> DEFINE w == W \div 4
<1>1. /\ w \in Nat \ {0} /\ W = 4 * w /\ W \div 2 = 2 * w
      /\ w \in 1 .. W - 1 /\ W \div 2 \in 1 .. W - 1
  BY WordFacts
<1>2. /\ BytePower(0) = Pow2[0 * w] /\ BytePower(1) = Pow2[1 * w]
      /\ BytePower(2) = Pow2[2 * w] /\ BytePower(3) = Pow2[3 * w]
      /\ BytePower(4) = Pow2[4 * w] /\ ByteSize = Pow2[1 * w]
      /\ \A i \in 0 .. 4 : BytePower(i) = Pow2[i * w]
  BY DEF BytePower, ByteSize
<1>7. Pow2[W] = Size
  BY DEF Size
<1> HIDE DEF w
<1>3. /\ 0 * w = 0 /\ 1 * w = w /\ 2 * w = w + w /\ 3 * w = 2 * w + w /\ 4 * w = 3 * w + w
      /\ 4 * w = 2 * w + 2 * w
      /\ w \in Nat /\ 2 * w \in Nat /\ 3 * w \in Nat /\ w \in 1 .. 2 * W
      /\ w + w <= 2 * W /\ 2 * w + w <= 2 * W /\ 3 * w + w <= 2 * W
      /\ 2 * w + 2 * w <= 2 * W
      /\ w - 1 \in 0 .. 2 * W
      /\ \A i \in 0 .. 4 : i * w \in 0 .. 2 * W
  <2>1. \A i \in 0 .. 4 : i = 0 \/ i = 1 \/ i = 2 \/ i = 3 \/ i = 4
    OBVIOUS
  <2>2. \A i \in 0 .. 4 : i * w \in 0 .. 2 * W
    BY <2>1, <1>1
  <2> QED
    BY <1>1, <2>2
<1>4. /\ Pow2[w + w] = Pow2[w] * Pow2[w] /\ Pow2[2 * w + w] = Pow2[2 * w] * Pow2[w]
      /\ Pow2[3 * w + w] = Pow2[3 * w] * Pow2[w]
      /\ Pow2[2 * w + 2 * w] = Pow2[2 * w] * Pow2[2 * w]
  BY <1>3, Pow2Sum
<1>5. Pow2[w] >= 2
  <2>1. Pow2[w] = 2 * Pow2[w - 1] /\ Pow2[w - 1] \in Nat \ {0}
    BY <1>3, Pow2Doubles, Pow2Positive
  <2> QED
    BY <2>1
<1>6. \A i \in 0 .. 4 : BytePower(i) \in Nat \ {0}
  BY <1>2, <1>3, Pow2Positive
<1>8. /\ BytePower(0) = 1 /\ ByteSize = Pow2[w] /\ BytePower(1) = ByteSize
      /\ BytePower(2) = Pow2[W \div 2] /\ BytePower(4) = Size
  BY <1>1, <1>2, <1>3, <1>7, Pow2Doubles
<1>9. /\ BytePower(2) = ByteSize * ByteSize
      /\ BytePower(3) = BytePower(2) * ByteSize /\ BytePower(4) = BytePower(3) * ByteSize
      /\ BytePower(4) = BytePower(2) * BytePower(2)
  BY <1>2, <1>3, <1>4, <1>8, Zenon
<1>10. ByteSize \in Nat \ {0} /\ ByteSize >= 2
  BY <1>5, <1>6, <1>8
<1> QED
  BY <1>1, <1>6, <1>8, <1>9, <1>10 DEF w

\* Four divides the number of addresses, and there are sixteen or more.
LEMMA AddressFacts ==
  /\ Size \in Nat \ {0} /\ Size >= 16
  /\ \E k \in Nat \ {0} : Size = 4 * k
<1> DEFINE B == ByteSize
<1>1. B \in Nat \ {0} /\ B >= 2 /\ BytePower(2) = B * B /\ Size = BytePower(2) * BytePower(2)
        /\ B = Pow2[W \div 4] /\ W \div 4 \in 1 .. W - 1
  BY ByteFacts
<1>2. Pow2[W \div 4] = 2 * Pow2[W \div 4 - 1] /\ Pow2[W \div 4 - 1] \in Nat \ {0}
  BY <1>1, PowFacts
<1> DEFINE h == Pow2[W \div 4 - 1]
<1> HIDE DEF B, h
<1>3. h \in Nat \ {0} /\ B = 2 * h
  BY <1>1, <1>2 DEF h
<1> DEFINE k == h * h
<1>4. B * B = 4 * k /\ k \in Nat \ {0}
  BY <1>3
<1> HIDE DEF k
<1>5. Size = (4 * k) * (4 * k)
  BY <1>1, <1>4, Zenon
<1>6. k * k \in Nat \ {0} /\ (4 * k) * (4 * k) = 16 * (k * k) /\ 4 * (4 * (k * k)) = 16 * (k * k)
        /\ 4 * (k * k) \in Nat \ {0}
  BY <1>4
<1> QED
  BY <1>5, <1>6

\* Byte i of a word.
ByteNo(x, i) == (x \div BytePower(i)) % ByteSize

\* The bytes of a word make it up.
LEMMA BytesMake ==
  ASSUME NEW x \in DWords
  PROVE  /\ \A i \in 0 .. 3 : ByteNo(x, i) \in 0 .. ByteSize - 1
         /\ x % BytePower(1) = ByteNo(x, 0)
         /\ x % BytePower(2) = ByteNo(x, 0) + ByteNo(x, 1) * BytePower(1)
         /\ x % BytePower(4) = ByteNo(x, 0) + ByteNo(x, 1) * BytePower(1)
                                 + ByteNo(x, 2) * BytePower(2) + ByteNo(x, 3) * BytePower(3)
         /\ x % BytePower(4) = x
<1> DEFINE B == ByteSize
<1>1. B \in Nat \ {0} /\ x \in Int /\ x \in 0 .. Size - 1
  BY ByteFacts, WordFacts DEF DWords
<1>2. \A i \in 0 .. 4 : BytePower(i) \in Nat \ {0}
  BY ByteFacts
<1>3. \A i \in 0 .. 3 : x \div BytePower(i) \in Int /\ i \in 0 .. 4
  <2> SUFFICES ASSUME NEW i \in 0 .. 3 PROVE x \div BytePower(i) \in Int
    OBVIOUS
  <2> DEFINE A == BytePower(i)
  <2>1. A \in Nat \ {0}
    BY <1>2
  <2> HIDE DEF A
  <2>2. x \div A \in Int
    BY <1>1, <2>1, DivMod
  <2> QED
    BY <2>2 DEF A
<1>4. \A i \in 0 .. 3 : ByteNo(x, i) \in 0 .. B - 1 /\ ByteNo(x, i) \in Nat
  <2> SUFFICES ASSUME NEW i \in 0 .. 3
               PROVE  ByteNo(x, i) \in 0 .. B - 1 /\ ByteNo(x, i) \in Nat
    OBVIOUS
  <2> DEFINE z == x \div BytePower(i)
  <2>1. z \in Int
    BY <1>3
  <2> HIDE DEF z, B
  <2>2. z % B \in 0 .. B - 1 /\ z % B \in Nat
    BY <1>1, <2>1, DivMod
  <2> QED
    BY <2>2 DEF z, B, ByteNo
<1>5. x % BytePower(1) = ByteNo(x, 0)
  <2>1. x \div BytePower(0) = x
    <3>1. BytePower(0) = 1 /\ x \div 1 = x
      BY ByteFacts, <1>1
    <3> QED
      BY <3>1
  <2> QED
    BY <2>1, ByteFacts DEF ByteNo
<1>6. ASSUME NEW i \in 1 .. 3
      PROVE  x % (BytePower(i) * B) = (x % BytePower(i)) + ByteNo(x, i) * BytePower(i)
  <2> DEFINE A == BytePower(i)
             b == (x \div A) % B
  <2>1. A \in Nat \ {0}
    BY <1>2
  <2>2. b \in Nat
    BY <1>4 DEF ByteNo
  <2> HIDE DEF A, B
  <2>3. x % (A * B) = (x % A) + A * b
    BY <1>1, <2>1, TwoDivisors
  <2> HIDE DEF b
  <2>4. A * b = b * A
    BY <2>1, <2>2
  <2> QED
    BY <2>3, <2>4 DEF A, B, b, ByteNo
<1>7. BytePower(2) = BytePower(1) * B
  BY ByteFacts
<1>8. x % BytePower(2) = ByteNo(x, 0) + ByteNo(x, 1) * BytePower(1)
  BY <1>5, <1>6, <1>7
<1>9. x % BytePower(3) = ByteNo(x, 0) + ByteNo(x, 1) * BytePower(1) + ByteNo(x, 2) * BytePower(2)
  BY <1>6, <1>8, ByteFacts
<1>10. x % BytePower(4) = ByteNo(x, 0) + ByteNo(x, 1) * BytePower(1)
                            + ByteNo(x, 2) * BytePower(2) + ByteNo(x, 3) * BytePower(3)
  BY <1>6, <1>9, ByteFacts
<1>11. x % BytePower(4) = x
  <2>1. x % Size = x
    BY <1>1, WordFacts, ModSmall
  <2> QED
    BY <2>1, ByteFacts
<1> QED
  BY <1>4, <1>5, <1>8, <1>10, <1>11

-----------------------------------------------------------------------------
(* Addresses                                                               *)

\* How far b is from a, and the address n below a.
Offset(a, b) == (b - a) % Size
Lower(a, n) == (a - n) % Size

\* Steps from an address, back and forth.
LEMMA AddressBack ==
  ASSUME NEW a \in DWords, NEW i \in 0 .. 12
  PROVE  /\ Indexed(a, i) \in DWords /\ Lower(a, i) \in DWords
         /\ Offset(a, Indexed(a, i)) = i /\ Offset(Lower(a, i), a) = i
         /\ Indexed(Lower(a, i), i) = a
<1> DEFINE S == Size
           p == (a + i) \div S
           u == (a + i) % S
           q == (a - i) \div S
           v == (a - i) % S
<1>1. S \in Nat \ {0} /\ S >= 16 /\ a \in Int /\ a \in 0 .. S - 1 /\ i \in Int
        /\ i \in 0 .. S - 1 /\ a + i \in Int /\ a - i \in Int
  BY AddressFacts DEF DWords
<1> HIDE DEF S
<1>2. p \in Int /\ u \in 0 .. S - 1 /\ u \in Int /\ a + i = p * S + u
  <2> DEFINE y == a + i
  <2>1. y \in Int
    BY <1>1
  <2> HIDE DEF y
  <2>2. y \div S \in Int /\ y % S \in 0 .. S - 1 /\ y % S \in Nat /\ y = (y \div S) * S + (y % S)
    BY <1>1, <2>1, DivMod
  <2> QED
    BY <2>2 DEF y
<1>3. q \in Int /\ v \in 0 .. S - 1 /\ v \in Int /\ a - i = q * S + v
  <2> DEFINE y == a - i
  <2>1. y \in Int
    BY <1>1
  <2> HIDE DEF y
  <2>2. y \div S \in Int /\ y % S \in 0 .. S - 1 /\ y % S \in Nat /\ y = (y \div S) * S + (y % S)
    BY <1>1, <2>1, DivMod
  <2> QED
    BY <2>2 DEF y
<1> HIDE DEF p, u, q, v
<1>4. a % S = a /\ i % S = i
  BY <1>1, ModSmall
<1>5. (u - a) % S = i
  <2>1. -p \in Int /\ u - a \in Int /\ u - a = i + (-p) * S
    <3>1. p * S \in Int /\ (-p) * S = -(p * S)
      BY <1>1, <1>2
    <3> QED
      BY <1>1, <1>2, <3>1
  <2>2. (u - a) % S = i % S
    BY <1>1, <2>1, ModSame
  <2> QED
    BY <1>4, <2>2
<1>6. (a - v) % S = i
  <2>1. a - v \in Int /\ a - v = i + q * S
    <3>1. q * S \in Int
      BY <1>1, <1>3
    <3> QED
      BY <1>1, <1>3, <3>1
  <2>2. (a - v) % S = i % S
    BY <1>1, <1>3, <2>1, ModSame
  <2> QED
    BY <1>4, <2>2
<1>7. (v + i) % S = a
  <2>1. v + i \in Int /\ -q \in Int /\ v + i = a + (-q) * S
    <3>1. q * S \in Int /\ (-q) * S = -(q * S)
      BY <1>1, <1>3
    <3> QED
      BY <1>1, <1>3, <3>1
  <2>2. (v + i) % S = a % S
    BY <1>1, <1>3, <2>1, ModSame
  <2> QED
    BY <1>4, <2>2
<1>8. u \in DWords /\ v \in DWords
  BY <1>2, <1>3 DEF DWords, S
<1> QED
  BY <1>5, <1>6, <1>7, <1>8, Zenon DEF u, v, S, Offset, Lower, Indexed

\* The distance between two addresses, from the other side and from below.
LEMMA Distance ==
  ASSUME NEW a \in DWords, NEW b \in DWords, NEW n \in 0 .. 12
  PROVE  LET d == Offset(b, a)
         IN  /\ d \in DWords
             /\ Offset(a, b) = IF d = 0 THEN 0 ELSE Size - d
             /\ Offset(b, Lower(a, n)) = IF d >= n THEN d - n ELSE d - n + Size
<1> DEFINE S == Size
           d == (a - b) % S
           q == (a - b) \div S
           v == (a - n) % S
           p == (a - n) \div S
           r == IF d >= n THEN d - n ELSE d - n + S
           t == IF d = 0 THEN 0 ELSE S - d
<1>1. S \in Nat \ {0} /\ S >= 16 /\ a \in Int /\ b \in Int /\ n \in Int
        /\ a - b \in Int /\ a - n \in Int
  BY AddressFacts DEF DWords
<1> HIDE DEF S
<1>2. d \in 0 .. S - 1 /\ d \in Int /\ q \in Int /\ a - b = q * S + d
  <2> DEFINE y == a - b
  <2>1. y \in Int
    BY <1>1
  <2> HIDE DEF y
  <2>2. y \div S \in Int /\ y % S \in 0 .. S - 1 /\ y % S \in Nat /\ y = (y \div S) * S + (y % S)
    BY <1>1, <2>1, DivMod
  <2> QED
    BY <2>2 DEF y
<1>3. v \in Int /\ p \in Int /\ a - n = p * S + v
  <2> DEFINE y == a - n
  <2>1. y \in Int
    BY <1>1
  <2> HIDE DEF y
  <2>2. y \div S \in Int /\ y % S \in Nat /\ y = (y \div S) * S + (y % S)
    BY <1>1, <2>1, DivMod
  <2> QED
    BY <2>2 DEF y
<1> HIDE DEF d, q, v, p
<1>4. r \in 0 .. S - 1 /\ t \in 0 .. S - 1
  BY <1>1, <1>2
<1>5. q * S \in Int /\ p * S \in Int
  BY <1>1, <1>2, <1>3
<1>6. PICK k \in Int : b - a = t + k * S
  <2>1. CASE d = 0
    <3>1. b - a = t + (-q) * S
      BY <2>1, <1>1, <1>2
    <3> QED
      BY <3>1, <1>2
  <2>2. CASE d # 0
    <3>1. (-q - 1) * S = -(q * S) - S
      BY <1>1, <1>2
    <3>2. b - a = t + (-q - 1) * S
      BY <2>2, <3>1, <1>1, <1>2, <1>5
    <3> QED
      BY <3>2, <1>2
  <2> QED
    BY <2>1, <2>2
<1>7. PICK l \in Int : v - b = r + l * S
  <2>1. v - b = (d - n) + (q - p) * S
    <3>1. (q - p) * S = q * S - p * S
      BY <1>1, <1>2, <1>3
    <3> QED
      BY <3>1, <1>1, <1>2, <1>3, <1>5
  <2>2. CASE d >= n
    BY <2>1, <2>2, <1>2, <1>3
  <2>3. CASE ~(d >= n)
    <3>1. (q - p - 1) * S = (q - p) * S - S /\ (q - p) * S \in Int
      BY <1>1, <1>2, <1>3
    <3>2. v - b = r + (q - p - 1) * S
      BY <2>1, <2>3, <3>1, <1>1, <1>2, <1>3
    <3> QED
      BY <3>2, <1>2, <1>3
  <2> QED
    BY <2>2, <2>3
<1>8. r % S = r /\ t % S = t /\ r \in Int /\ t \in Int
  BY <1>1, <1>4, ModSmall
<1> HIDE DEF r, t
<1>9. (b - a) % S = t
  <2>1. b - a \in Int
    BY <1>1
  <2>2. (b - a) % S = t % S
    BY <2>1, <1>1, <1>6, <1>8, ModSame
  <2> QED
    BY <2>2, <1>8
<1>10. (v - b) % S = r
  <2>1. v - b \in Int
    BY <1>1, <1>3
  <2>2. (v - b) % S = r % S
    BY <2>1, <1>1, <1>7, <1>8, ModSame
  <2> QED
    BY <2>2, <1>8
<1>11. d \in DWords
  BY <1>2 DEF DWords, S
<1>12. /\ d \in DWords
       /\ (b - a) % S = IF d = 0 THEN 0 ELSE S - d
       /\ (v - b) % S = IF d >= n THEN d - n ELSE d - n + S
  BY <1>9, <1>10, <1>11 DEF r, t
<1> QED
  BY <1>12, Zenon DEF d, v, S, Offset, Lower

-----------------------------------------------------------------------------
(* RAM                                                                     *)

Memory == [DWords -> 0 .. ByteSize - 1]

\* The byte at an address.
RamAt(mem, b) == mem[b]

\* All but the n bytes from a is the same.
KeptAround(mem, mem1, a, n) ==
  \A b \in DWords : Offset(a, b) >= n => RamAt(mem1, b) = RamAt(mem, b)

\* The bytes of memory after a store.
LEMMA StoredByte ==
  ASSUME NEW mem, NEW a \in DWords, NEW n, NEW x, NEW b \in DWords
  PROVE  /\ Offset(a, b) \in Nat
         /\ RamAt(STORE(mem, a, n, x), b) =
              IF Offset(a, b) < n THEN ByteNo(x, Offset(a, b)) ELSE RamAt(mem, b)
<1>1. Size \in Nat \ {0} /\ b - a \in Int
  BY WordFacts DEF DWords
<1>2. Offset(a, b) \in Nat
  BY <1>1 DEF Offset
<1> QED
  BY <1>2 DEF STORE, ByteNo, Offset, RamAt

LEMMA StoreKeepsType ==
  ASSUME NEW mem \in Memory, NEW a \in DWords, NEW n \in {1, 2, 4}, NEW x \in DWords
  PROVE  STORE(mem, a, n, x) \in Memory
<1>1. \A i \in 0 .. 3 : ByteNo(x, i) \in 0 .. ByteSize - 1
  BY BytesMake
<1>2. ASSUME NEW b \in DWords PROVE RamAt(STORE(mem, a, n, x), b) \in 0 .. ByteSize - 1
  <2>1. RamAt(mem, b) \in 0 .. ByteSize - 1
    BY DEF Memory, RamAt
  <2> QED
    BY <1>1, <2>1, StoredByte
<1>3. STORE(mem, a, n, x) = [b \in DWords |-> RamAt(STORE(mem, a, n, x), b)]
  BY DEF STORE, RamAt
<1> QED
  BY <1>2, <1>3 DEF Memory

LEMMA StorePuts ==
  ASSUME NEW mem, NEW a \in DWords, NEW n \in {1, 2, 4}, NEW x, NEW i \in 0 .. n - 1
  PROVE  RamAt(STORE(mem, a, n, x), Indexed(a, i)) = ByteNo(x, i)
<1>1. i \in 0 .. 12 /\ i < n
  OBVIOUS
<1>2. Indexed(a, i) \in DWords /\ Offset(a, Indexed(a, i)) = i
  BY <1>1, AddressBack
<1> DEFINE b == Indexed(a, i)
<1>3. b \in DWords /\ Offset(a, b) = i
  BY <1>2
<1> HIDE DEF b
<1>4. RamAt(STORE(mem, a, n, x), b) =
        IF Offset(a, b) < n THEN ByteNo(x, Offset(a, b)) ELSE RamAt(mem, b)
  BY <1>3, StoredByte
<1>5. RamAt(STORE(mem, a, n, x), b) = ByteNo(x, i)
  BY <1>1, <1>3, <1>4
<1> QED
  BY <1>5 DEF b

LEMMA StoreSpares ==
  ASSUME NEW mem, NEW a \in DWords, NEW n \in {1, 2, 4}, NEW x
  PROVE  KeptAround(mem, STORE(mem, a, n, x), a, n)
<1> SUFFICES ASSUME NEW b \in DWords, Offset(a, b) >= n
             PROVE  RamAt(STORE(mem, a, n, x), b) = RamAt(mem, b)
  BY DEF KeptAround
<1> QED
  BY StoredByte

\* A load adds up bytes.
LEMMA LoadIs ==
  ASSUME NEW mem \in Memory, NEW a \in DWords
  PROVE  /\ LOAD(mem, a, 1) = RamAt(mem, a)
         /\ Indexed(a, 0) = a
         /\ LOAD(mem, a, 2) = RamAt(mem, Indexed(a, 0)) + RamAt(mem, Indexed(a, 1)) * BytePower(1)
         /\ LOAD(mem, a, 4) = RamAt(mem, Indexed(a, 0)) + RamAt(mem, Indexed(a, 1)) * BytePower(1)
                                + RamAt(mem, Indexed(a, 2)) * BytePower(2)
                                + RamAt(mem, Indexed(a, 3)) * BytePower(3)
<1> DEFINE u(i) == RamAt(mem, Indexed(a, i))
           t(i) == u(i) * BytePower(i)
<1>1. \A i \in 0 .. 3 : u(i) \in Nat /\ BytePower(i) \in Nat /\ t(i) \in Nat
  <2> SUFFICES ASSUME NEW i \in 0 .. 3
               PROVE  u(i) \in Nat /\ BytePower(i) \in Nat /\ t(i) \in Nat
    OBVIOUS
  <2>0. i \in 0 .. 12
    OBVIOUS
  <2>1. Indexed(a, i) \in DWords
    BY <2>0, AddressBack
  <2>2. u(i) \in Nat /\ BytePower(i) \in Nat
    BY <2>1, ByteFacts DEF Memory, RamAt
  <2> HIDE DEF u
  <2> QED
    BY <2>2
<1>2. Indexed(a, 0) = a
  <2>1. a \in 0 .. Size - 1 /\ a + 0 = a
    BY WordFacts DEF DWords
  <2> QED
    BY <2>1, WordFacts, ModSmall DEF Indexed
<1>3. u(0) * BytePower(0) = u(0)
  <2>1. BytePower(0) = 1 /\ u(0) \in Nat
    BY <1>1, ByteFacts
  <2> HIDE DEF u
  <2> QED
    BY <2>1
<1>4. /\ LOAD(mem, a, 1) = t(0) + 0 + 0 + 0
      /\ LOAD(mem, a, 2) = t(0) + t(1) + 0 + 0
      /\ LOAD(mem, a, 4) = t(0) + t(1) + t(2) + t(3)
  BY DEF LOAD, Indexed, RamAt
<1>5. t(0) \in Nat /\ t(1) \in Nat /\ t(2) \in Nat /\ t(3) \in Nat /\ t(0) = u(0)
  BY <1>1, <1>3
<1> HIDE DEF t
<1>6. /\ LOAD(mem, a, 1) = u(0) /\ LOAD(mem, a, 2) = u(0) + t(1)
      /\ LOAD(mem, a, 4) = u(0) + t(1) + t(2) + t(3)
  BY <1>4, <1>5
<1> QED
  BY <1>2, <1>6 DEF t

\* A store of n bytes is loaded again, whole or byte by byte.
LEMMA StoreLoads ==
  ASSUME NEW mem \in Memory, NEW a \in DWords, NEW n \in {1, 2, 4}, NEW x \in DWords
  PROVE  /\ LOAD(STORE(mem, a, n, x), a, n) = x % BytePower(n)
         /\ \A i \in 0 .. n - 1 : LOAD(STORE(mem, a, n, x), Indexed(a, i), 1) = ByteNo(x, i)
<1> DEFINE mem1 == STORE(mem, a, n, x)
<1>1. /\ mem1 \in Memory
      /\ \A i \in 0 .. n - 1 : RamAt(mem1, Indexed(a, i)) = ByteNo(x, i)
  BY StoreKeepsType, StorePuts
<1> HIDE DEF mem1
<1>2. LOAD(mem1, a, n) = x % BytePower(n)
  <2>1. Indexed(a, 0) = a
    BY <1>1, LoadIs
  <2>2. CASE n = 1
    <3>1. LOAD(mem1, a, 1) = RamAt(mem1, a)
      BY <1>1, LoadIs
    <3>2. RamAt(mem1, Indexed(a, 0)) = ByteNo(x, 0)
      <4>1. 0 \in 0 .. n - 1
        BY <2>2
      <4> QED
        BY <1>1, <4>1, Zenon
    <3>3. x % BytePower(1) = ByteNo(x, 0)
      BY BytesMake
    <3> QED
      BY <2>1, <2>2, <3>1, <3>2, <3>3
  <2>3. CASE n = 2
    <3>1. LOAD(mem1, a, 2)
            = RamAt(mem1, Indexed(a, 0)) + RamAt(mem1, Indexed(a, 1)) * BytePower(1)
      BY <1>1, LoadIs
    <3>2. RamAt(mem1, Indexed(a, 0)) = ByteNo(x, 0) /\ RamAt(mem1, Indexed(a, 1)) = ByteNo(x, 1)
      <4>1. 0 \in 0 .. n - 1 /\ 1 \in 0 .. n - 1
        BY <2>3
      <4> QED
        BY <1>1, <4>1, Zenon
    <3>3. x % BytePower(2) = ByteNo(x, 0) + ByteNo(x, 1) * BytePower(1)
      BY BytesMake
    <3> QED
      BY <2>3, <3>1, <3>2, <3>3
  <2>4. CASE n = 4
    <3>1. LOAD(mem1, a, 4) = RamAt(mem1, Indexed(a, 0)) + RamAt(mem1, Indexed(a, 1)) * BytePower(1)
                               + RamAt(mem1, Indexed(a, 2)) * BytePower(2)
                               + RamAt(mem1, Indexed(a, 3)) * BytePower(3)
      BY <1>1, LoadIs
    <3>2. /\ RamAt(mem1, Indexed(a, 0)) = ByteNo(x, 0) /\ RamAt(mem1, Indexed(a, 1)) = ByteNo(x, 1)
          /\ RamAt(mem1, Indexed(a, 2)) = ByteNo(x, 2) /\ RamAt(mem1, Indexed(a, 3)) = ByteNo(x, 3)
      <4>1. 0 \in 0 .. n - 1 /\ 1 \in 0 .. n - 1 /\ 2 \in 0 .. n - 1 /\ 3 \in 0 .. n - 1
        BY <2>4
      <4> QED
        BY <1>1, <4>1, Zenon
    <3>3. x % BytePower(4) = ByteNo(x, 0) + ByteNo(x, 1) * BytePower(1)
                               + ByteNo(x, 2) * BytePower(2) + ByteNo(x, 3) * BytePower(3)
      BY BytesMake
    <3> QED
      BY <2>4, <3>1, <3>2, <3>3
  <2> QED
    BY <2>2, <2>3, <2>4
<1>3. ASSUME NEW i \in 0 .. n - 1
      PROVE  LOAD(mem1, Indexed(a, i), 1) = ByteNo(x, i)
  <2>1. i \in 0 .. 12
    OBVIOUS
  <2>2. Indexed(a, i) \in DWords
    BY <2>1, AddressBack
  <2> QED
    BY <1>1, <2>2, LoadIs
<1> QED
  BY <1>2, <1>3 DEF mem1

\* A word that is stored is loaded.
LEMMA WordLoads ==
  ASSUME NEW mem \in Memory, NEW a \in DWords, NEW x \in DWords
  PROVE  LOAD(STORE(mem, a, 4, x), a, 4) = x
<1>1. LOAD(STORE(mem, a, 4, x), a, 4) = x % BytePower(4)
  BY StoreLoads
<1> QED
  BY <1>1, BytesMake

-----------------------------------------------------------------------------
(* Loads and stores                                                        *)

\* Loads see the bytes that stores wrote, whole or in parts, at any address, and a store
\* touches no other byte (LOAD and STORE in RealStep).
THEOREM StoresLoadHolds == StoresLoad(AllMachines)
<1> SUFFICES ASSUME NEW m \in AllMachines, NEW n \in {1, 2, 4}
             PROVE  LET x == m.r["r1"]
                        a == Indexed(m.r["sp"], m.r["r0"])
                        mem1 == STORE(m.mem, a, n, x)
                    IN  /\ LOAD(mem1, a, n) = x % BytePower(n)
                        /\ \A i \in 0 .. n - 1 :
                             LOAD(mem1, Indexed(a, i), 1) = (x \div BytePower(i)) % ByteSize
                        /\ \A b \in DWords : Offset(a, b) >= n => RamAt(mem1, b) = RamAt(m.mem, b)
  BY DEF StoresLoad, Indexed, Offset, RamAt
<1> DEFINE val == m.r["r1"]
           adr == Indexed(m.r["sp"], m.r["r0"])
<1>2. val \in DWords /\ m.r["sp"] \in DWords /\ m.r["r0"] \in DWords /\ m.mem \in Memory
  BY DEF AllMachines, Register, Memory
<1>3. adr \in DWords
  <2>1. m.r["sp"] + m.r["r0"] \in Int /\ Size \in Nat \ {0}
    BY <1>2, WordFacts DEF DWords
  <2>2. (m.r["sp"] + m.r["r0"]) % Size \in 0 .. Size - 1
    BY <2>1, DivMod
  <2> QED
    BY <2>2 DEF Indexed, DWords
<1> HIDE DEF val, adr
<1> DEFINE mem1 == STORE(m.mem, adr, n, val)
<1>4. /\ LOAD(mem1, adr, n) = val % BytePower(n)
      /\ \A i \in 0 .. n - 1 : LOAD(mem1, Indexed(adr, i), 1) = ByteNo(val, i)
  BY <1>2, <1>3, StoreLoads
<1>5. KeptAround(m.mem, mem1, adr, n)
  BY <1>2, <1>3, StoreSpares
<1> QED
  BY <1>4, <1>5 DEF val, adr, ByteNo, KeptAround

-----------------------------------------------------------------------------
(* Machines                                                                *)

Regs(r0, r1, sp) ==
  [n \in Register |-> CASE n = "r0" -> r0 [] n = "r1" -> r1 [] n = "sp" -> sp]
Box(r0, r1, sp, pc, mem) == [r |-> Regs(r0, r1, sp), pc |-> pc, mem |-> mem]

LEMMA RegsLaws ==
  ASSUME NEW a, NEW b, NEW c, NEW x
  PROVE  /\ Regs(a, b, c)["r0"] = a /\ Regs(a, b, c)["r1"] = b /\ Regs(a, b, c)["sp"] = c
         /\ [Regs(a, b, c) EXCEPT !["r0"] = x] = Regs(x, b, c)
         /\ [Regs(a, b, c) EXCEPT !["r1"] = x] = Regs(a, x, c)
         /\ [Regs(a, b, c) EXCEPT !["sp"] = x] = Regs(a, b, x)
<1>1. "r0" \in Register /\ "r1" \in Register /\ "sp" \in Register
  BY DEF Register
<1>2. Regs(a, b, c)["r0"] = a /\ Regs(a, b, c)["r1"] = b /\ Regs(a, b, c)["sp"] = c
  BY <1>1 DEF Regs
<1>3. [Regs(a, b, c) EXCEPT !["r0"] = x] = Regs(x, b, c)
  BY DEF Regs, Register
<1>4. [Regs(a, b, c) EXCEPT !["r1"] = x] = Regs(a, x, c)
  BY DEF Regs, Register
<1>5. [Regs(a, b, c) EXCEPT !["sp"] = x] = Regs(a, b, x)
  BY DEF Regs, Register
<1> QED
  BY <1>2, <1>3, <1>4, <1>5

\* The parts of a machine, and a machine with one of them changed.
LEMMA PartsAre ==
  ASSUME NEW a, NEW b, NEW c, NEW p, NEW M
  PROVE  /\ Box(a, b, c, p, M).r = Regs(a, b, c)
         /\ Box(a, b, c, p, M).pc = p /\ Box(a, b, c, p, M).mem = M
         /\ Box(a, b, c, p, M).r["r0"] = a /\ Box(a, b, c, p, M).r["r1"] = b
         /\ Box(a, b, c, p, M).r["sp"] = c
<1>1. /\ Box(a, b, c, p, M).r = Regs(a, b, c)
      /\ Box(a, b, c, p, M).pc = p /\ Box(a, b, c, p, M).mem = M
  BY DEF Box
<1>2. /\ Box(a, b, c, p, M).r["r0"] = Regs(a, b, c)["r0"]
      /\ Box(a, b, c, p, M).r["r1"] = Regs(a, b, c)["r1"]
      /\ Box(a, b, c, p, M).r["sp"] = Regs(a, b, c)["sp"]
  BY <1>1
<1> QED
  BY <1>1, <1>2, RegsLaws

LEMMA WithPc ==
  ASSUME NEW a, NEW b, NEW c, NEW p, NEW M, NEW x
  PROVE  [Box(a, b, c, p, M) EXCEPT !.pc = x] = Box(a, b, c, x, M)
BY DEF Box

LEMMA WithMem ==
  ASSUME NEW a, NEW b, NEW c, NEW p, NEW M, NEW x
  PROVE  [Box(a, b, c, p, M) EXCEPT !.mem = x] = Box(a, b, c, p, x)
BY DEF Box

LEMMA WithR0 ==
  ASSUME NEW a, NEW b, NEW c, NEW p, NEW M, NEW x
  PROVE  [Box(a, b, c, p, M) EXCEPT !.r["r0"] = x] = Box(x, b, c, p, M)
<1>1. [Box(a, b, c, p, M) EXCEPT !.r["r0"] = x] =
        [r |-> [Regs(a, b, c) EXCEPT !["r0"] = x], pc |-> p, mem |-> M]
  BY DEF Box
<1>2. [Regs(a, b, c) EXCEPT !["r0"] = x] = Regs(x, b, c)
  BY RegsLaws
<1> QED
  BY <1>1, <1>2, Zenon DEF Box

LEMMA WithR1 ==
  ASSUME NEW a, NEW b, NEW c, NEW p, NEW M, NEW x
  PROVE  [Box(a, b, c, p, M) EXCEPT !.r["r1"] = x] = Box(a, x, c, p, M)
<1>1. [Box(a, b, c, p, M) EXCEPT !.r["r1"] = x] =
        [r |-> [Regs(a, b, c) EXCEPT !["r1"] = x], pc |-> p, mem |-> M]
  BY DEF Box
<1>2. [Regs(a, b, c) EXCEPT !["r1"] = x] = Regs(a, x, c)
  BY RegsLaws
<1> QED
  BY <1>1, <1>2, Zenon DEF Box

LEMMA WithSp ==
  ASSUME NEW a, NEW b, NEW c, NEW p, NEW M, NEW x
  PROVE  [Box(a, b, c, p, M) EXCEPT !.r["sp"] = x] = Box(a, b, x, p, M)
<1>1. [Box(a, b, c, p, M) EXCEPT !.r["sp"] = x] =
        [r |-> [Regs(a, b, c) EXCEPT !["sp"] = x], pc |-> p, mem |-> M]
  BY DEF Box
<1>2. [Regs(a, b, c) EXCEPT !["sp"] = x] = Regs(a, b, x)
  BY RegsLaws
<1> QED
  BY <1>1, <1>2, Zenon DEF Box

\* The instructions, part by part.
LEMMA PushedIs ==
  ASSUME NEW a, NEW b, NEW c, NEW p, NEW M, NEW x
  PROVE  Pushed(Box(a, b, c, p, M), x) = Box(a, b, Lower(c, 4), p, STORE(M, Lower(c, 4), 4, x))
<1> DEFINE s == Lower(c, 4)
           m == Box(a, b, c, p, M)
           N == STORE(M, s, 4, x)
<1>1. m.r["sp"] = c /\ m.mem = M
  BY PartsAre
<1>2. (c - 4) % Size = s
  BY DEF Lower
<1>3. [m EXCEPT !.r["sp"] = s] = Box(a, b, s, p, M)
  BY WithSp
<1> HIDE DEF m, s
<1>4. Pushed(m, x) = [m EXCEPT !.r["sp"] = (m.r["sp"] - 4) % Size,
                               !.mem = STORE(m.mem, (m.r["sp"] - 4) % Size, 4, x)]
  BY DEF Pushed
<1>5. (m.r["sp"] - 4) % Size = s /\ STORE(m.mem, s, 4, x) = N
  BY <1>1, <1>2, Zenon
<1>6. Pushed(m, x) = [m EXCEPT !.r["sp"] = s, !.mem = N]
  BY <1>4, <1>5, Zenon
<1> HIDE DEF N
<1>7. [m EXCEPT !.r["sp"] = s, !.mem = N] = [[m EXCEPT !.r["sp"] = s] EXCEPT !.mem = N]
  OBVIOUS
<1>8. [Box(a, b, s, p, M) EXCEPT !.mem = N] = Box(a, b, s, p, N)
  BY WithMem
<1>9. Pushed(m, x) = Box(a, b, s, p, N)
  BY <1>3, <1>6, <1>7, <1>8, Zenon
<1> QED
  BY <1>9 DEF m, s, N

LEMMA TopIs ==
  ASSUME NEW a, NEW b, NEW c, NEW p, NEW M
  PROVE  Top(Box(a, b, c, p, M)) = LOAD(M, c, 4)
<1>1. Box(a, b, c, p, M).r["sp"] = c /\ Box(a, b, c, p, M).mem = M
  BY PartsAre
<1> QED
  BY <1>1 DEF Top

LEMMA DroppedIs ==
  ASSUME NEW a, NEW b, NEW c, NEW p, NEW M
  PROVE  Dropped(Box(a, b, c, p, M)) = Box(a, b, Indexed(c, 4), p, M)
<1> DEFINE s == Indexed(c, 4)
<1>1. Dropped(Box(a, b, c, p, M))
        = [r |-> [Regs(a, b, c) EXCEPT !["sp"] = (Regs(a, b, c)["sp"] + 4) % Size],
           pc |-> p, mem |-> M]
  BY DEF Dropped, Box
<1>2. Regs(a, b, c)["sp"] = c /\ [Regs(a, b, c) EXCEPT !["sp"] = s] = Regs(a, b, s)
  BY RegsLaws
<1>3. (c + 4) % Size = s
  BY DEF Indexed
<1> HIDE DEF s
<1>4. Dropped(Box(a, b, c, p, M)) = [r |-> Regs(a, b, s), pc |-> p, mem |-> M]
  BY <1>1, <1>2, <1>3, Zenon
<1> QED
  BY <1>4 DEF Box, s

LEMMA JumpIs ==
  ASSUME NEW a, NEW b, NEW c, NEW p, NEW M, NEW x
  PROVE  JumpTo(Box(a, b, c, p, M), x) = Box(a, b, c, Aligned(x % Size), M)
BY DEF JumpTo, Box

-----------------------------------------------------------------------------
(* What is under the stack                                                 *)

\* RAM is the same but for the n bytes under sp.
Beneath(mem, mem1, sp, n) ==
  \A a \in DWords : Offset(a, sp) \notin 1 .. n => RamAt(mem1, a) = RamAt(mem, a)

\* A word that is pushed.
LEMMA PushUnder ==
  ASSUME NEW M \in Memory, NEW c \in DWords, NEW x \in DWords
  PROVE  LET s == Lower(c, 4)
             N == STORE(M, s, 4, x)
         IN  /\ s \in DWords /\ N \in Memory /\ Indexed(s, 4) = c
             /\ LOAD(N, s, 4) = x /\ Beneath(M, N, c, 4)
<1> DEFINE s == Lower(c, 4)
           N == STORE(M, s, 4, x)
<1>1. s \in DWords /\ Indexed(s, 4) = c
  <2>1. 4 \in 0 .. 12
    OBVIOUS
  <2> QED
    BY <2>1, AddressBack
<1> HIDE DEF s
<1>2. N \in Memory /\ LOAD(N, s, 4) = x /\ KeptAround(M, N, s, 4)
  BY <1>1, StoreKeepsType, WordLoads, StoreSpares
<1> HIDE DEF N
<1>3. ASSUME NEW a \in DWords, Offset(a, c) \notin 1 .. 4
      PROVE  RamAt(N, a) = RamAt(M, a)
  <2> DEFINE d == Offset(a, c)
             e == Offset(a, s)
             f == Offset(s, a)
  <2>1. 4 \in 0 .. 12 /\ 0 \in 0 .. 12
    OBVIOUS
  <2>2. d \in DWords /\ e = IF d >= 4 THEN d - 4 ELSE d - 4 + Size
    BY <2>1, Distance DEF s
  <2>3. f = IF e = 0 THEN 0 ELSE Size - e
    BY <1>1, <2>1, Distance
  <2>4. d \notin 1 .. 4
    BY <1>3
  <2> HIDE DEF d, e, f
  <2>5. f >= 4
    BY <2>2, <2>3, <2>4, AddressFacts DEF DWords
  <2>6. Offset(s, a) >= 4
    BY <2>5 DEF f
  <2> QED
    BY <1>2, <2>6 DEF KeptAround
<1>4. Beneath(M, N, c, 4)
  BY <1>3 DEF Beneath
<1> QED
  BY <1>1, <1>2, <1>4 DEF s, N

\* A word, and what comes under it.
LEMMA UnderTwice ==
  ASSUME NEW M1, NEW M2, NEW M3, NEW c \in DWords, NEW k \in {4, 8},
         Beneath(M1, M2, c, 4), Beneath(M2, M3, Lower(c, 4), k)
  PROVE  Beneath(M1, M3, c, k + 4)
<1> SUFFICES ASSUME NEW a \in DWords, Offset(a, c) \notin 1 .. k + 4
             PROVE  RamAt(M3, a) = RamAt(M1, a)
  BY DEF Beneath
<1> DEFINE d == Offset(a, c)
           e == Offset(a, Lower(c, 4))
<1>1. 4 \in 0 .. 12
  OBVIOUS
<1>2. d \in DWords /\ e = IF d >= 4 THEN d - 4 ELSE d - 4 + Size
  BY <1>1, Distance
<1>3. d \notin 1 .. k + 4
  OBVIOUS
<1> HIDE DEF d, e
<1>4. d \notin 1 .. 4 /\ e \notin 1 .. k
  BY <1>2, <1>3, AddressFacts DEF DWords
<1>5. Offset(a, c) \notin 1 .. 4 /\ Offset(a, Lower(c, 4)) \notin 1 .. k
  BY <1>4 DEF d, e
<1>6. RamAt(M2, a) = RamAt(M1, a) /\ RamAt(M3, a) = RamAt(M2, a)
  BY <1>5 DEF Beneath
<1> QED
  BY <1>6

\* The top of the stack is not under it.
LEMMA TopUnder ==
  ASSUME NEW M1 \in Memory, NEW M2 \in Memory, NEW c \in DWords, NEW k \in {4, 8},
         Beneath(M1, M2, c, k)
  PROVE  LOAD(M2, c, 4) = LOAD(M1, c, 4)
<1>1. ASSUME NEW i \in 0 .. 3
      PROVE  RamAt(M2, Indexed(c, i)) = RamAt(M1, Indexed(c, i))
  <2> DEFINE a == Indexed(c, i)
             d == Offset(c, a)
             e == Offset(a, c)
  <2>1. i \in 0 .. 12 /\ 0 \in 0 .. 12
    OBVIOUS
  <2>2. a \in DWords /\ d = i
    BY <2>1, AddressBack
  <2> HIDE DEF a
  <2>3. e = IF d = 0 THEN 0 ELSE Size - d
    BY <2>1, <2>2, Distance
  <2> HIDE DEF d, e
  <2>4. e \notin 1 .. k
    BY <2>2, <2>3, AddressFacts
  <2>5. Offset(a, c) \notin 1 .. k
    BY <2>4 DEF e
  <2>6. RamAt(M2, a) = RamAt(M1, a)
    BY <2>2, <2>5 DEF Beneath
  <2> QED
    BY <2>6 DEF a
<1>2. /\ LOAD(M1, c, 4) = RamAt(M1, Indexed(c, 0)) + RamAt(M1, Indexed(c, 1)) * BytePower(1)
                            + RamAt(M1, Indexed(c, 2)) * BytePower(2)
                            + RamAt(M1, Indexed(c, 3)) * BytePower(3)
      /\ LOAD(M2, c, 4) = RamAt(M2, Indexed(c, 0)) + RamAt(M2, Indexed(c, 1)) * BytePower(1)
                            + RamAt(M2, Indexed(c, 2)) * BytePower(2)
                            + RamAt(M2, Indexed(c, 3)) * BytePower(3)
  BY LoadIs
<1>3. /\ RamAt(M2, Indexed(c, 0)) = RamAt(M1, Indexed(c, 0))
      /\ RamAt(M2, Indexed(c, 1)) = RamAt(M1, Indexed(c, 1))
      /\ RamAt(M2, Indexed(c, 2)) = RamAt(M1, Indexed(c, 2))
      /\ RamAt(M2, Indexed(c, 3)) = RamAt(M1, Indexed(c, 3))
  <2>1. 0 \in 0 .. 3 /\ 1 \in 0 .. 3 /\ 2 \in 0 .. 3 /\ 3 \in 0 .. 3
    OBVIOUS
  <2> QED
    BY <1>1, <2>1, Zenon
<1> QED
  BY <1>2, <1>3, Zenon

LEMMA SameUnder ==
  ASSUME NEW a, NEW b, NEW c, NEW p, NEW M, NEW N, NEW n, Beneath(M, N, c, n)
  PROVE  SameBut(n, Box(a, b, c, p, M), Box(a, b, c, p, N))
<1>1. /\ Box(a, b, c, p, M).r = Regs(a, b, c) /\ Box(a, b, c, p, M).pc = p
      /\ Box(a, b, c, p, M).mem = M /\ Box(a, b, c, p, M).r["sp"] = c
      /\ Box(a, b, c, p, N).r = Regs(a, b, c) /\ Box(a, b, c, p, N).pc = p
      /\ Box(a, b, c, p, N).mem = N
  BY PartsAre
<1>2. \A d \in DWords : (c - d) % Size \notin 1 .. n => N[d] = M[d]
  BY DEF Beneath, Offset, RamAt
<1> QED
  BY <1>1, <1>2, Zenon DEF SameBut

-----------------------------------------------------------------------------
(* Counters                                                                *)

\* The counter is a multiple of four after a jump.
LEMMA AlignedIs ==
  ASSUME NEW x \in Int
  PROVE  /\ Aligned(x % Size) \in DWords /\ Aligned(x % Size) % 4 = 0
         /\ x \in DWords /\ x % 4 = 0 => Aligned(x % Size) = x
<1> DEFINE S == Size
           y == x % S
           q == y \div 4
           r == y % 4
<1>1. S \in Nat \ {0}
  BY AddressFacts
<1> HIDE DEF S
<1>2. y \in 0 .. S - 1 /\ y \in Int
  BY <1>1, DivMod
<1>6. x \in 0 .. S - 1 => y = x
  BY <1>1, ModSmall
<1> HIDE DEF y
<1>3. q \in Int /\ r \in 0 .. 3 /\ y = 4 * q + r
  BY <1>2
<1> HIDE DEF q, r
<1>4. y - r \in 0 .. S - 1 /\ (y - r) % 4 = 0
  <2>1. y - r = 4 * q /\ q >= 0 /\ (4 * q) % 4 = 0
    BY <1>2, <1>3
  <2>2. y - r \in 0 .. S - 1
    BY <1>1, <1>2, <1>3, <2>1
  <2> QED
    BY <2>1, <2>2
<1>5. x \in 0 .. S - 1 /\ x % 4 = 0 => y - r = x
  BY <1>2, <1>6 DEF r
<1> QED
  BY <1>4, <1>5 DEF Aligned, DWords, y, r, S

\* A machine is made of words and bytes, and its counter is a multiple of four.
LEMMA MachineBoxes ==
  ASSUME NEW m \in AllMachines
  PROVE  \E a, b, c, p \in DWords, M \in Memory : m = Box(a, b, c, p, M) /\ p % 4 = 0
<1> DEFINE R == m.r
           a == R["r0"]
           b == R["r1"]
           c == R["sp"]
<1>1. /\ R \in [Register -> DWords] /\ m.pc \in DWords /\ m.pc % 4 = 0 /\ m.mem \in Memory
      /\ m = [r |-> R, pc |-> m.pc, mem |-> m.mem]
  BY DEF AllMachines, Memory
<1> HIDE DEF R
<1>2. R = Regs(a, b, c)
  BY <1>1 DEF Regs, Register
<1>3. a \in DWords /\ b \in DWords /\ c \in DWords
  BY <1>1 DEF Register
<1> HIDE DEF a, b, c
<1>4. m = Box(a, b, c, m.pc, m.mem)
  BY <1>1, <1>2, Zenon DEF Box
<1> QED
  BY <1>1, <1>3, <1>4

\* The machines of the run are some of all.
LEMMA SomeMachines == Machines \subseteq AllMachines
<1> SUFFICES ASSUME NEW m \in Machines PROVE m \in AllMachines
  OBVIOUS
<1>1. PICK r0 \in {0, Size - 1}, r1 \in DWords, sp \in DWords,
           addr \in {a \in DWords : a % 4 = 0}, byte \in {0, ByteSize - 1} :
             m = Machine(r0, r1, sp, addr, byte)
  BY DEF Machines
<1>2. r0 \in DWords /\ byte \in 0 .. ByteSize - 1
  BY WordFacts, ByteFacts DEF DWords
<1> DEFINE R == [n \in Register |-> CASE n = "r0" -> r0 [] n = "r1" -> r1 [] n = "sp" -> sp]
           M == [a \in DWords |-> byte]
<1>3. R \in [Register -> DWords]
  BY <1>2 DEF Register
<1>4. M \in [DWords -> 0 .. ByteSize - 1]
  BY <1>2
<1>5. m = [r |-> R, pc |-> addr, mem |-> M]
  BY <1>1 DEF Machine
<1> HIDE DEF R, M
<1> QED
  BY <1>3, <1>4, <1>5 DEF AllMachines

-----------------------------------------------------------------------------
(* Calls and frames                                                        *)

\* A machine that pushed a word.
LEMMA PushIs ==
  ASSUME NEW a, NEW b, NEW c \in DWords, NEW p, NEW M \in Memory, NEW x \in DWords
  PROVE  \E s \in DWords, N \in Memory :
           /\ Pushed(Box(a, b, c, p, M), x) = Box(a, b, s, p, N)
           /\ s = Lower(c, 4) /\ Indexed(s, 4) = c
           /\ LOAD(N, s, 4) = x /\ Beneath(M, N, c, 4)
<1> DEFINE s == Lower(c, 4)
           N == STORE(M, s, 4, x)
<1>1. s \in DWords /\ N \in Memory /\ Indexed(s, 4) = c /\ LOAD(N, s, 4) = x /\ Beneath(M, N, c, 4)
  BY PushUnder
<1>2. Pushed(Box(a, b, c, p, M), x) = Box(a, b, s, p, N)
  BY PushedIs
<1>3. s = Lower(c, 4)
  OBVIOUS
<1> HIDE DEF s, N
<1> QED
  BY <1>1, <1>2, <1>3

\* A return from a subroutine whose address is on top of the stack.
LEMMA ReturnIs ==
  ASSUME NEW a, NEW b, NEW s, NEW q, NEW N, NEW p \in DWords, p % 4 = 0,
         LOAD(N, s, 4) = p
  PROVE  RET(Box(a, b, s, q, N)) = Box(a, b, Indexed(s, 4), p, N)
<1>1. Top(Box(a, b, s, q, N)) = p
  <2>1. Top(Box(a, b, s, q, N)) = LOAD(N, s, 4)
    BY TopIs
  <2> QED
    BY <2>1
<1>2. Aligned(p % Size) = p
  BY AlignedIs DEF DWords
<1>3. JumpTo(Box(a, b, s, q, N), p) = Box(a, b, s, p, N)
  <2>1. JumpTo(Box(a, b, s, q, N), p) = Box(a, b, s, Aligned(p % Size), N)
    BY JumpIs
  <2> QED
    BY <1>2, <2>1
<1>4. Dropped(Box(a, b, s, p, N)) = Box(a, b, Indexed(s, 4), p, N)
  BY DroppedIs
<1> QED
  BY <1>1, <1>3, <1>4, Zenon DEF RET

\* All calls push the counter and jump.
LEMMA CallBack ==
  ASSUME NEW a, NEW b, NEW c \in DWords, NEW p \in DWords, p % 4 = 0, NEW M \in Memory, NEW x
  PROVE  SameBut(4, Box(a, b, c, p, M), RET(JumpTo(Pushed(Box(a, b, c, p, M), p), x)))
<1>1. PICK s \in DWords, N \in Memory :
        /\ Pushed(Box(a, b, c, p, M), p) = Box(a, b, s, p, N)
        /\ Indexed(s, 4) = c /\ LOAD(N, s, 4) = p /\ Beneath(M, N, c, 4)
  BY PushIs
<1>2. JumpTo(Box(a, b, s, p, N), x) = Box(a, b, s, Aligned(x % Size), N)
  BY JumpIs
<1>3. RET(Box(a, b, s, Aligned(x % Size), N)) = Box(a, b, Indexed(s, 4), p, N)
  BY <1>1, ReturnIs
<1>4. RET(JumpTo(Pushed(Box(a, b, c, p, M), p), x)) = Box(a, b, c, p, N)
  BY <1>1, <1>2, <1>3, Zenon
<1>5. SameBut(4, Box(a, b, c, p, M), Box(a, b, c, p, N))
  BY <1>1, SameUnder
<1> QED
  BY <1>4, <1>5

\* POP of a register other than the pointer.
LEMMA PopIs ==
  ASSUME NEW a, NEW b, NEW s, NEW p, NEW N, NEW x, LOAD(N, s, 4) = x
  PROVE  /\ POP(Box(a, b, s, p, N), "r0") = Box(x, b, Indexed(s, 4), p, N)
         /\ POP(Box(a, b, s, p, N), "r1") = Box(a, x, Indexed(s, 4), p, N)
<1>1. Top(Box(a, b, s, p, N)) = x
  <2>1. Top(Box(a, b, s, p, N)) = LOAD(N, s, 4)
    BY TopIs
  <2> QED
    BY <2>1
<1>2. /\ [Box(a, b, s, p, N) EXCEPT !.r["r0"] = x] = Box(x, b, s, p, N)
      /\ [Box(a, b, s, p, N) EXCEPT !.r["r1"] = x] = Box(a, x, s, p, N)
  BY WithR0, WithR1
<1>3. /\ Dropped(Box(x, b, s, p, N)) = Box(x, b, Indexed(s, 4), p, N)
      /\ Dropped(Box(a, x, s, p, N)) = Box(a, x, Indexed(s, 4), p, N)
  BY DroppedIs
<1> QED
  BY <1>1, <1>2, <1>3, Zenon DEF POP

\* The handler of an interrupt comes back with all registers, and RAM above the stack.
LEMMA FrameBack ==
  ASSUME NEW a \in DWords, NEW b, NEW c \in DWords, NEW p \in DWords, p % 4 = 0,
         NEW M \in Memory, NEW msg, NEW addr
  PROVE  \E N \in Memory : /\ Beneath(M, N, c, 8)
                           /\ RFI(Frame(Box(a, b, c, p, M), msg, addr)) = Box(a, b, c, p, N)
<1>1. PICK s1 \in DWords, N1 \in Memory :
        /\ Pushed(Box(a, b, c, p, M), a) = Box(a, b, s1, p, N1)
        /\ s1 = Lower(c, 4)
        /\ Indexed(s1, 4) = c /\ LOAD(N1, s1, 4) = a /\ Beneath(M, N1, c, 4)
  BY PushIs
<1>2. PICK s2 \in DWords, N2 \in Memory :
        /\ Pushed(Box(a, b, s1, p, N1), p) = Box(a, b, s2, p, N2)
        /\ s2 = Lower(s1, 4)
        /\ Indexed(s2, 4) = s1 /\ LOAD(N2, s2, 4) = p /\ Beneath(N1, N2, s1, 4)
  BY PushIs
<1>3. Beneath(M, N2, c, 8)
  <2>1. Beneath(N1, N2, Lower(c, 4), 4)
    BY <1>1, <1>2
  <2>2. Beneath(M, N2, c, 4 + 4)
    BY <1>1, <2>1, UnderTwice
  <2> QED
    BY <2>2
<1>4. LOAD(N2, s1, 4) = a
  <2>1. LOAD(N2, s1, 4) = LOAD(N1, s1, 4)
    BY <1>2, TopUnder
  <2> QED
    BY <1>1, <2>1
<1>5. Frame(Box(a, b, c, p, M), msg, addr) = Box(msg, b, s2, addr, N2)
  <2> DEFINE m == Box(a, b, c, p, M)
             saved == Box(a, b, s2, p, N2)
  <2>1. m.r["r0"] = a /\ m.pc = p
    BY PartsAre
  <2>2. Pushed(Pushed(m, m.r["r0"]), m.pc) = saved
    BY <1>1, <1>2, <2>1, Zenon
  <2>3. [saved EXCEPT !.r["r0"] = msg] = Box(msg, b, s2, p, N2)
    BY WithR0
  <2>4. [Box(msg, b, s2, p, N2) EXCEPT !.pc = addr] = Box(msg, b, s2, addr, N2)
    BY WithPc
  <2> HIDE DEF m, saved
  <2>5. Frame(m, msg, addr)
          = [Pushed(Pushed(m, m.r["r0"]), m.pc) EXCEPT !.r["r0"] = msg, !.pc = addr]
    BY DEF Frame
  <2>6. Frame(m, msg, addr) = [saved EXCEPT !.r["r0"] = msg, !.pc = addr]
    BY <2>2, <2>5, Zenon
  <2>7. [saved EXCEPT !.r["r0"] = msg, !.pc = addr]
          = [[saved EXCEPT !.r["r0"] = msg] EXCEPT !.pc = addr]
    OBVIOUS
  <2>8. Frame(m, msg, addr) = Box(msg, b, s2, addr, N2)
    BY <2>3, <2>4, <2>6, <2>7, Zenon
  <2> QED
    BY <2>8 DEF m
<1>6. RET(Box(msg, b, s2, addr, N2)) = Box(msg, b, s1, p, N2)
  <2>1. RET(Box(msg, b, s2, addr, N2)) = Box(msg, b, Indexed(s2, 4), p, N2)
    BY <1>2, ReturnIs
  <2> QED
    BY <1>2, <2>1
<1>7. POP(Box(msg, b, s1, p, N2), "r0") = Box(a, b, c, p, N2)
  <2>1. POP(Box(msg, b, s1, p, N2), "r0") = Box(a, b, Indexed(s1, 4), p, N2)
    BY <1>4, PopIs
  <2> QED
    BY <1>1, <2>1
<1>8. RFI(Frame(Box(a, b, c, p, M), msg, addr)) = Box(a, b, c, p, N2)
  BY <1>5, <1>6, <1>7, Zenon DEF RFI
<1> QED
  BY <1>2, <1>3, <1>8

\* An interrupt in a subroutine.
LEMMA NestedBack ==
  ASSUME NEW a \in DWords, NEW b, NEW c \in DWords, NEW p \in DWords, p % 4 = 0,
         NEW M \in Memory, NEW x \in Int, NEW msg, NEW addr
  PROVE  SameBut(12, Box(a, b, c, p, M),
                 RET(RFI(Frame(JumpTo(Pushed(Box(a, b, c, p, M), p), x), msg, addr))))
<1>1. PICK s \in DWords, N1 \in Memory :
        /\ Pushed(Box(a, b, c, p, M), p) = Box(a, b, s, p, N1)
        /\ s = Lower(c, 4)
        /\ Indexed(s, 4) = c /\ LOAD(N1, s, 4) = p /\ Beneath(M, N1, c, 4)
  BY PushIs
<1> DEFINE q == Aligned(x % Size)
<1>2. q \in DWords /\ q % 4 = 0
  BY AlignedIs
<1>3. JumpTo(Box(a, b, s, p, N1), x) = Box(a, b, s, q, N1)
  BY JumpIs
<1> HIDE DEF q
<1>4. PICK N2 \in Memory :
        /\ Beneath(N1, N2, s, 8)
        /\ RFI(Frame(Box(a, b, s, q, N1), msg, addr)) = Box(a, b, s, q, N2)
  BY <1>2, FrameBack
<1>5. LOAD(N2, s, 4) = p
  <2>1. LOAD(N2, s, 4) = LOAD(N1, s, 4)
    BY <1>4, TopUnder
  <2> QED
    BY <1>1, <2>1
<1>6. RET(Box(a, b, s, q, N2)) = Box(a, b, c, p, N2)
  <2>1. RET(Box(a, b, s, q, N2)) = Box(a, b, Indexed(s, 4), p, N2)
    BY <1>5, ReturnIs
  <2> QED
    BY <1>1, <2>1
<1>7. Beneath(M, N2, c, 12)
  <2>1. Beneath(N1, N2, Lower(c, 4), 8)
    BY <1>1, <1>4
  <2>2. Beneath(M, N2, c, 8 + 4)
    BY <1>1, <2>1, UnderTwice
  <2> QED
    BY <2>2
<1>8. RET(RFI(Frame(JumpTo(Pushed(Box(a, b, c, p, M), p), x), msg, addr))) = Box(a, b, c, p, N2)
  BY <1>1, <1>3, <1>4, <1>6, Zenon
<1>9. SameBut(12, Box(a, b, c, p, M), Box(a, b, c, p, N2))
  BY <1>7, SameUnder
<1> QED
  BY <1>8, <1>9

\* CALL, RCALL and CALL2 with RET, and an interrupt frame with RFI, also inside a
\* subroutine, end where they began, with all registers and the stack above unharmed.
THEOREM CallsReturnHolds == CallsReturn(AllMachines)
<1> SUFFICES ASSUME NEW m \in AllMachines
             PROVE  /\ SameBut(4, m, RET(CALL(m, Direct("r1"), m.r["r1"])))
                    /\ SameBut(4, m, RET(RCALL(m, Literal(1), 1)))
                    /\ SameBut(4, m, RET(CALL2(m, Direct("r1"), "r0", m.r["r1"])))
                    /\ SameBut(8, m, RFI(Frame(m, 1, 4)))
                    /\ SameBut(12, m, RET(RFI(Frame(CALL(m, Literal(2), 2), 1, 4))))
  BY DEF CallsReturn
<1>1. PICK a \in DWords, b \in DWords, c \in DWords, p \in DWords, M \in Memory :
        m = Box(a, b, c, p, M) /\ p % 4 = 0
  BY MachineBoxes
<1>2. m.pc = p
  BY <1>1, PartsAre
<1>3. \A x : SameBut(4, m, RET(JumpTo(Pushed(m, m.pc), x)))
  <2> SUFFICES ASSUME NEW x PROVE SameBut(4, m, RET(JumpTo(Pushed(m, m.pc), x)))
    OBVIOUS
  <2>1. SameBut(4, Box(a, b, c, p, M), RET(JumpTo(Pushed(Box(a, b, c, p, M), p), x)))
    BY <1>1, CallBack
  <2> QED
    BY <1>1, <1>2, <2>1, Zenon
<1>4. SameBut(8, m, RFI(Frame(m, 1, 4)))
  <2>1. PICK N \in Memory : /\ Beneath(M, N, c, 8)
                            /\ RFI(Frame(Box(a, b, c, p, M), 1, 4)) = Box(a, b, c, p, N)
    BY <1>1, FrameBack
  <2>2. SameBut(8, Box(a, b, c, p, M), Box(a, b, c, p, N))
    BY <2>1, SameUnder
  <2> QED
    BY <1>1, <2>1, <2>2, Zenon
<1>5. SameBut(12, m, RET(RFI(Frame(CALL(m, Literal(2), 2), 1, 4))))
  <2> DEFINE x == Target(Pushed(m, m.pc), Literal(2), 2)
  <2>1. x \in Int
    BY AddressFacts DEF Target, Literal
  <2>2. CALL(m, Literal(2), 2) = JumpTo(Pushed(m, m.pc), x)
    BY Zenon DEF CALL, JMP
  <2> HIDE DEF x
  <2>3. SameBut(12, Box(a, b, c, p, M),
                RET(RFI(Frame(JumpTo(Pushed(Box(a, b, c, p, M), p), x), 1, 4))))
    BY <1>1, <2>1, NestedBack
  <2> QED
    BY <1>1, <1>2, <2>2, <2>3, Zenon
<1>6. /\ SameBut(4, m, RET(CALL(m, Direct("r1"), m.r["r1"])))
      /\ SameBut(4, m, RET(RCALL(m, Literal(1), 1)))
      /\ SameBut(4, m, RET(CALL2(m, Direct("r1"), "r0", m.r["r1"])))
  BY <1>3, Zenon DEF CALL, JMP, RCALL, RJMP, CALL2, JMP2
<1> QED
  BY <1>4, <1>5, <1>6

\* POP gives what PUSH took, into any register but the stack pointer.
THEOREM PopsPushedHolds == PopsPushed(AllMachines)
<1> SUFFICES ASSUME NEW m \in AllMachines, NEW n \in Register, NEW k \in Register \ {"sp"}
             PROVE  SameBut(4, [m EXCEPT !.r[k] = m.r[n]], POP(PUSH(m, n), k))
  BY DEF PopsPushed
<1>1. PICK a \in DWords, b \in DWords, c \in DWords, p \in DWords, M \in Memory :
        m = Box(a, b, c, p, M)
  BY MachineBoxes
<1> DEFINE x == m.r[n]
<1>2. x \in DWords
  BY <1>1, PartsAre DEF Register
<1>3. PUSH(m, n) = Pushed(Box(a, b, c, p, M), x)
  BY <1>1, Zenon DEF PUSH
<1> HIDE DEF x
<1>4. PICK s \in DWords, N \in Memory :
        /\ Pushed(Box(a, b, c, p, M), x) = Box(a, b, s, p, N)
        /\ Indexed(s, 4) = c /\ LOAD(N, s, 4) = x /\ Beneath(M, N, c, 4)
  BY <1>2, PushIs
<1>5. CASE k = "r0"
  <2>1. POP(Box(a, b, s, p, N), "r0") = Box(x, b, c, p, N)
    BY <1>4, PopIs
  <2>2. [Box(a, b, c, p, M) EXCEPT !.r["r0"] = x] = Box(x, b, c, p, M)
    BY WithR0
  <2>3. SameBut(4, Box(x, b, c, p, M), Box(x, b, c, p, N))
    BY <1>4, SameUnder
  <2>4. POP(PUSH(m, n), k) = Box(x, b, c, p, N)
    BY <1>3, <1>4, <1>5, <2>1, Zenon
  <2>5. [m EXCEPT !.r[k] = x] = Box(x, b, c, p, M)
    BY <1>1, <1>5, <2>2, Zenon
  <2> QED
    BY <2>3, <2>4, <2>5, Zenon DEF x
<1>6. CASE k = "r1"
  <2>1. POP(Box(a, b, s, p, N), "r1") = Box(a, x, c, p, N)
    BY <1>4, PopIs
  <2>2. [Box(a, b, c, p, M) EXCEPT !.r["r1"] = x] = Box(a, x, c, p, M)
    BY WithR1
  <2>3. SameBut(4, Box(a, x, c, p, M), Box(a, x, c, p, N))
    BY <1>4, SameUnder
  <2>4. POP(PUSH(m, n), k) = Box(a, x, c, p, N)
    BY <1>3, <1>4, <1>6, <2>1, Zenon
  <2>5. [m EXCEPT !.r[k] = x] = Box(a, x, c, p, M)
    BY <1>1, <1>6, <2>2, Zenon
  <2> QED
    BY <2>3, <2>4, <2>5, Zenon DEF x
<1> QED
  BY <1>5, <1>6 DEF Register

-----------------------------------------------------------------------------
(* Jumps                                                                   *)

\* A literal of three bits.
LEMMA ShortLiteral ==
  ASSUME NEW v \in 0 .. 7
  PROVE  LET step == IF v < 4 THEN v ELSE v - 8
         IN  v \in DWords /\ SignExtended(v, 3) = step % Size
<1>1. Pow2[2] = 4 /\ Pow2[3] = 8
  <2>1. 1 \in 1 .. 2 * W /\ 2 \in 1 .. 2 * W /\ 3 \in 1 .. 2 * W
    BY WordFacts
  <2>2. Pow2[1] = 2 * Pow2[1 - 1] /\ Pow2[2] = 2 * Pow2[2 - 1] /\ Pow2[3] = 2 * Pow2[3 - 1]
          /\ Pow2[0] = 1
    BY <2>1, Pow2Doubles
  <2>3. 1 - 1 = 0 /\ 2 - 1 = 1 /\ 3 - 1 = 2
    OBVIOUS
  <2> QED
    BY <2>2, <2>3
<1>2. 3 \in 1 .. W - 1 /\ v \in DWords /\ 3 - 1 = 2
  BY AddressFacts, WordFacts DEF DWords
<1>3. v % 8 = v
  OBVIOUS
<1>4. SignExtended(v, 3) = (IF v % Pow2[3] < Pow2[3 - 1] THEN v % Pow2[3]
                             ELSE (v % Pow2[3]) - Pow2[3]) % Size
  BY <1>2, LiteralIs
<1>5. SignExtended(v, 3) = (IF v < 4 THEN v ELSE v - 8) % Size
  BY <1>1, <1>2, <1>3, <1>4, Zenon
<1> QED
  BY <1>2, <1>5

\* Words are four bytes, also in a sum that wraps.
LEMMA JumpsFar ==
  ASSUME NEW p \in DWords, p % 4 = 0, NEW t \in -4 .. 3
  PROVE  Aligned((p + (((t % Size) * 4) % Size)) % Size) = (p + 4 * t) % Size
<1> DEFINE S == Size
           n == t % S
           d == t \div S
           y == (n * 4) % S
           e == (n * 4) \div S
           u == p + 4 * t
           z == u % S
<1>0. S \in Nat \ {0} /\ p \in Int /\ t \in Int
  BY AddressFacts DEF DWords
<1>1. PICK k \in Nat \ {0} : S = 4 * k
  BY AddressFacts
<1> HIDE DEF S
<1>2. n \in Int /\ d \in Int /\ t = d * S + n
  BY <1>0, DivMod
<1> HIDE DEF n, d
<1>3. y \in Int /\ e \in Int /\ n * 4 = e * S + y
  <2>1. n * 4 \in Int
    BY <1>2
  <2> DEFINE x == n * 4
  <2> HIDE DEF x
  <2>2. x \in Int
    BY <2>1 DEF x
  <2>3. x % S \in Int /\ x \div S \in Int /\ x = (x \div S) * S + (x % S)
    BY <1>0, <2>2, DivMod
  <2> QED
    BY <2>3 DEF x
<1> HIDE DEF y, e
<1>4. u \in Int /\ p + y \in Int /\ -(4 * d) - e \in Int /\ p + y = u + (-(4 * d) - e) * S
  <2>1. (-(4 * d) - e) * S = -(4 * (d * S)) - e * S /\ d * S \in Int /\ e * S \in Int
    BY <1>0, <1>2, <1>3
  <2> QED
    BY <1>0, <1>2, <1>3, <2>1
<1>9. u % 4 = 0
  BY <1>0
<1> HIDE DEF u
<1>5. (p + y) % S = z
  BY <1>0, <1>4, ModSame
<1>6. z % 4 = 0
  <2> DEFINE f == 4
  <2>2. f \in Nat \ {0} /\ u \in Int
    BY <1>4
  <2> HIDE DEF f
  <2>3. (u % (f * k)) % f = u % f
    BY <2>2, TwoRemainders
  <2>1. (u % (4 * k)) % 4 = u % 4
    BY <2>3 DEF f
  <2> QED
    BY <1>1, <1>9, <2>1
<1>7. z \in Int
  BY <1>0, <1>4, DivMod
<1> HIDE DEF z
<1>8. Aligned((p + y) % S) = z
  BY <1>5, <1>6, <1>7 DEF Aligned
<1> QED
  BY <1>8 DEF z, u, y, n, S

\* RJMP moves by whole instructions, back too, and a skipped instruction is as long as an
\* executed one.
THEOREM JumpsByWordsHolds == JumpsByWords(AllMachines)
<1> SUFFICES ASSUME NEW m \in AllMachines, NEW v \in 0 .. 7
             PROVE  LET n == FetchOperand(m, Literal(v), 3)
                        step == IF v < 4 THEN v ELSE v - 8
                    IN  /\ RJMP(m, Literal(v), n).pc = (m.pc + 4 * step) % Size
                        /\ \A inst \in {Literal(v), Big, Direct("r1")} :
                             Skipped(m, inst).pc = AfterOperand(m, inst).pc
                        /\ FetchOperand([m EXCEPT !.mem = STORE(@, m.pc, 4, v)], Big, 3) = v
  BY DEF JumpsByWords
<1>1. PICK a \in DWords, b \in DWords, c \in DWords, p \in DWords, M \in Memory :
        m = Box(a, b, c, p, M) /\ p % 4 = 0
  BY MachineBoxes
<1>2. m.pc = p /\ m.mem = M
  BY <1>1, PartsAre
<1> DEFINE n == FetchOperand(m, Literal(v), 3)
           step == IF v < 4 THEN v ELSE v - 8
<1>3. v \in DWords /\ n = step % Size
  <2>1. n = SignExtended(v, 3)
    BY DEF FetchOperand, Literal
  <2> QED
    BY <2>1, ShortLiteral
<1>4. step \in -4 .. 3
  OBVIOUS
<1> HIDE DEF n, step
<1>5. RJMP(m, Literal(v), n).pc = (m.pc + 4 * step) % Size
  <2>1. Target(m, Literal(v), n) = (n * 4) % Size
    BY DEF Target, Literal
  <2>2. RJMP(m, Literal(v), n) = JumpTo(m, p + ((n * 4) % Size))
    BY <1>2, <2>1, Zenon DEF RJMP
  <2>3. JumpTo(Box(a, b, c, p, M), p + ((n * 4) % Size))
          = Box(a, b, c, Aligned((p + ((n * 4) % Size)) % Size), M)
    BY JumpIs
  <2> DEFINE q == Aligned((p + ((n * 4) % Size)) % Size)
  <2>4. q = (p + 4 * step) % Size
    <3>1. Aligned((p + (((step % Size) * 4) % Size)) % Size) = (p + 4 * step) % Size
      BY <1>1, <1>4, JumpsFar
    <3> QED
      BY <1>3, <3>1, Zenon
  <2>5. Box(a, b, c, q, M).pc = q
    BY PartsAre
  <2> HIDE DEF q
  <2> QED
    BY <1>1, <1>2, <2>2, <2>3, <2>4, <2>5, Zenon DEF q
<1>6. \A inst \in {Literal(v), Big, Direct("r1")} : Skipped(m, inst).pc = AfterOperand(m, inst).pc
  <2> SUFFICES ASSUME NEW inst \in {Literal(v), Big, Direct("r1")}
               PROVE  Skipped(m, inst).pc = AfterOperand(m, inst).pc
    OBVIOUS
  <2>1. CASE inst.big
    BY <2>1 DEF Skipped, AfterOperand
  <2>2. CASE ~inst.big
    <3>1. AfterOperand(m, inst) = m /\ Skipped(m, inst) = [m EXCEPT !.pc = m.pc]
      BY <2>2 DEF Skipped, AfterOperand
    <3>2. [m EXCEPT !.pc = m.pc].pc = m.pc
      BY <1>1 DEF Box
    <3> QED
      BY <3>1, <3>2, Zenon
  <2> QED
    BY <2>1, <2>2
<1>7. FetchOperand([m EXCEPT !.mem = STORE(@, m.pc, 4, v)], Big, 3) = v
  <2> DEFINE N == STORE(M, p, 4, v)
  <2>1. [m EXCEPT !.mem = STORE(@, m.pc, 4, v)] = [m EXCEPT !.mem = N]
    BY <1>2, Zenon
  <2>2. [Box(a, b, c, p, M) EXCEPT !.mem = N] = Box(a, b, c, p, N)
    BY WithMem
  <2>3. LOAD(N, p, 4) = v
    BY <1>3, WordLoads
  <2> HIDE DEF N
  <2>4. Box(a, b, c, p, N).pc = p /\ Box(a, b, c, p, N).mem = N
    BY PartsAre
  <2>5. FetchOperand(Box(a, b, c, p, N), Big, 3) = LOAD(N, p, 4)
    BY <2>4, Zenon DEF FetchOperand, Big
  <2> QED
    BY <1>1, <2>1, <2>2, <2>3, <2>5, Zenon
<1> QED
  BY <1>5, <1>6, <1>7 DEF n, step

-----------------------------------------------------------------------------
(* The order of the bytes                                                  *)

ByteValues == 0 .. ByteSize - 1

\* Half a word of two bytes, and a word of four, the lowest first.
Pair(a, b) == a + b * ByteSize
Quad(a, b, c, d) == Pair(a, b) + Pair(c, d) * BytePower(2)

LEMMA PairIs ==
  ASSUME NEW a \in ByteValues, NEW b \in ByteValues
  PROVE  /\ Pair(a, b) \in 0 .. BytePower(2) - 1
         /\ Pair(a, b) % ByteSize = a /\ Pair(a, b) \div ByteSize = b
<1> DEFINE B == ByteSize
<1>1. B \in Nat \ {0} /\ BytePower(2) = B * B
  BY ByteFacts
<1>2. a \in 0 .. B - 1 /\ b \in 0 .. B - 1
  BY DEF ByteValues
<1> HIDE DEF B
<1>3. b * B \in Nat /\ b * B + B <= B * B /\ B * B \in Nat
  BY <1>1, <1>2, DigitBelow
<1> DEFINE y == a + b * B
<1>4. y \in 0 .. (B * B) - 1
  <2> DEFINE u == b * B
             v == B * B
  <2>1. u \in Nat /\ u + B <= v /\ v \in Nat
    BY <1>3
  <2> HIDE DEF u, v
  <2>2. a + u \in 0 .. v - 1
    BY <1>1, <1>2, <2>1
  <2> QED
    BY <2>2 DEF u, v
<1>5. y \in Int /\ y = b * B + a /\ a \in Nat /\ a < B /\ b \in Int
  BY <1>1, <1>2, <1>3
<1> HIDE DEF y
<1>6. y \div B = b /\ y % B = a
  BY <1>1, <1>5, DivIs
<1> QED
  BY <1>1, <1>4, <1>6 DEF y, B, Pair

LEMMA QuadIs ==
  ASSUME NEW a \in ByteValues, NEW b \in ByteValues, NEW c \in ByteValues, NEW d \in ByteValues
  PROVE  /\ Quad(a, b, c, d) \in DWords
         /\ Quad(a, b, c, d) % BytePower(2) = Pair(a, b)
         /\ Quad(a, b, c, d) \div BytePower(2) = Pair(c, d)
<1> DEFINE S == BytePower(2)
           u == Pair(a, b)
           v == Pair(c, d)
           y == u + v * S
<1>1. S \in Nat \ {0} /\ Size = S * S
  BY ByteFacts
<1>2. u \in 0 .. S - 1 /\ v \in 0 .. S - 1
  BY PairIs
<1> HIDE DEF S, u, v
<1>3. v * S \in Nat /\ v * S + S <= S * S /\ S * S \in Nat
  BY <1>1, <1>2, DigitBelow
<1>4. y \in 0 .. (S * S) - 1
  <2> DEFINE e == v * S
             f == S * S
  <2>1. e \in Nat /\ e + S <= f /\ f \in Nat
    BY <1>3
  <2> HIDE DEF e, f
  <2>2. u + e \in 0 .. f - 1
    BY <1>1, <1>2, <2>1
  <2> QED
    BY <2>2 DEF e, f
<1>5. y \in Int /\ y = v * S + u /\ u \in Nat /\ u < S /\ v \in Int
  BY <1>1, <1>2, <1>3
<1> HIDE DEF y
<1>6. y \div S = v /\ y % S = u
  BY <1>1, <1>5, DivIs
<1> QED
  BY <1>1, <1>4, <1>6 DEF y, S, u, v, Quad, DWords

\* The bytes of four bytes.
LEMMA QuadBytes ==
  ASSUME NEW a \in ByteValues, NEW b \in ByteValues, NEW c \in ByteValues, NEW d \in ByteValues
  PROVE  /\ ByteNo(Quad(a, b, c, d), 0) = a /\ ByteNo(Quad(a, b, c, d), 1) = b
         /\ ByteNo(Quad(a, b, c, d), 2) = c /\ ByteNo(Quad(a, b, c, d), 3) = d
<1> DEFINE x == Quad(a, b, c, d)
           B == ByteSize
           u == Pair(a, b)
           v == Pair(c, d)
<1>1. x \in DWords /\ x \in Int /\ x % BytePower(2) = u /\ x \div BytePower(2) = v
  BY QuadIs, WordFacts DEF DWords
<1>2. /\ B \in Nat \ {0} /\ BytePower(1) = B /\ BytePower(2) = B * B
      /\ BytePower(3) = BytePower(2) * B /\ BytePower(2) \in Nat \ {0}
  BY ByteFacts
<1>3. u % B = a /\ u \div B = b /\ v % B = c /\ v \div B = d
  BY PairIs
<1>4. d \in 0 .. B - 1
  BY DEF ByteValues
<1>5. ByteNo(x, 0) = x % BytePower(1)
  BY <1>1, BytesMake
<1> HIDE DEF x, B, u, v
<1>6. (x % (B * B)) % B = x % B /\ (x % (B * B)) \div B = (x \div B) % B
  BY <1>1, <1>2, TwoRemainders
<1>7. ByteNo(x, 0) = a
  BY <1>1, <1>2, <1>3, <1>5, <1>6, Zenon
<1>8. (x \div BytePower(1)) % B = b
  BY <1>1, <1>2, <1>3, <1>6, Zenon
<1>9. (x \div BytePower(2)) % B = c
  BY <1>1, <1>3, Zenon
<1>10. (x \div BytePower(3)) % B = d
  <2> DEFINE A == BytePower(2)
  <2>1. A \in Nat \ {0}
    BY <1>2
  <2> HIDE DEF A
  <2>2. (x \div A) \div B = x \div (A * B)
    BY <1>1, <1>2, <2>1, TwoDivisors
  <2>3. x \div BytePower(3) = d
    BY <1>1, <1>2, <1>3, <2>2, Zenon DEF A
  <2>4. d % B = d
    BY <1>2, <1>4, ModSmall
  <2> QED
    BY <2>3, <2>4, Zenon
<1> QED
  BY <1>7, <1>8, <1>9, <1>10 DEF x, B, ByteNo

\* A word is its bytes.
LEMMA QuadOf ==
  ASSUME NEW x \in DWords
  PROVE  /\ \A i \in 0 .. 3 : ByteNo(x, i) \in ByteValues
         /\ x = Quad(ByteNo(x, 0), ByteNo(x, 1), ByteNo(x, 2), ByteNo(x, 3))
<1>1. \A i \in 0 .. 3 : ByteNo(x, i) \in ByteValues
  BY BytesMake DEF ByteValues
<1> DEFINE a == ByteNo(x, 0)
           b == ByteNo(x, 1)
           c == ByteNo(x, 2)
           d == ByteNo(x, 3)
           B == ByteSize
           S == BytePower(2)
<1>2. x = a + b * BytePower(1) + c * BytePower(2) + d * BytePower(3)
  BY BytesMake
<1>3. a \in Int /\ b \in Int /\ c \in Int /\ d \in Int
  <2>1. 0 \in 0 .. 3 /\ 1 \in 0 .. 3 /\ 2 \in 0 .. 3 /\ 3 \in 0 .. 3 /\ ByteValues \subseteq Int
    BY ByteFacts DEF ByteValues
  <2> QED
    BY <1>1, <2>1
<1>4. B \in Nat \ {0} /\ S \in Nat \ {0} /\ BytePower(1) = B /\ BytePower(3) = S * B
  BY ByteFacts
<1> HIDE DEF a, b, c, d, B, S
<1>5. (c + d * B) * S = c * S + d * (S * B)
  BY <1>3, <1>4
<1>6. b * B \in Int /\ c * S \in Int /\ d * (S * B) \in Int
  BY <1>3, <1>4
<1>7. x = a + b * B + c * S + d * (S * B)
  BY <1>2, <1>4, Zenon DEF S
<1>8. x = (a + b * B) + (c + d * B) * S
  BY <1>3, <1>5, <1>6, <1>7
<1> QED
  BY <1>1, <1>8 DEF a, b, c, d, B, S, Pair, Quad

LEMMA SwapLow ==
  ASSUME NEW a \in ByteValues, NEW b \in ByteValues, NEW c \in ByteValues, NEW d \in ByteValues
  PROVE  XCHGB(Quad(a, b, c, d)) = Quad(b, a, c, d)
<1> DEFINE x == Quad(a, b, c, d)
           low == Pair(a, b)
           B == ByteSize
           e == Pair(c, d) * BytePower(2)
<1>1. x % BytePower(2) = low
  BY QuadIs
<1>2. low % B = a /\ low \div B = b /\ low \in Int
  BY PairIs, ByteFacts
<1>3. e \in Int
  <2>1. Pair(c, d) \in Int /\ BytePower(2) \in Int
    BY PairIs, ByteFacts
  <2> DEFINE f == Pair(c, d)
             g == BytePower(2)
  <2> HIDE DEF f, g
  <2>2. f * g \in Int
    BY <2>1 DEF f, g
  <2> QED
    BY <2>2 DEF f, g
<1>4. x = low + e /\ Quad(b, a, c, d) = (b + a * B) + e
  BY DEF Quad, Pair
<1>5. XCHGB(x) = (x - (x % BytePower(2))) + (((x % BytePower(2)) % B) * B)
                   + ((x % BytePower(2)) \div B)
  BY DEF XCHGB
<1>6. XCHGB(x) = (x - low) + (a * B) + b
  BY <1>1, <1>2, <1>5, Zenon
<1>7. a * B \in Int /\ b \in Int
  BY ByteFacts DEF ByteValues
<1> HIDE DEF x, low, B, e
<1>8. XCHGB(x) = Quad(b, a, c, d)
  BY <1>2, <1>3, <1>4, <1>6, <1>7
<1> QED
  BY <1>8 DEF x

LEMMA SwapHalves ==
  ASSUME NEW a \in ByteValues, NEW b \in ByteValues, NEW c \in ByteValues, NEW d \in ByteValues
  PROVE  XCHGW(Quad(a, b, c, d)) = Quad(c, d, a, b)
<1> DEFINE x == Quad(a, b, c, d)
           S == BytePower(2)
<1>1. x \in DWords /\ x % S = Pair(a, b) /\ x \div S = Pair(c, d)
  BY QuadIs
<1>2. S \in Nat \ {0} /\ Size = S * S /\ Pow2[W \div 2] = S
  BY ByteFacts
<1>3. XCHGW(x) = ((x * S) % Size) + (x \div S)
  BY <1>2, Zenon DEF XCHGW
<1> HIDE DEF x, S
<1>4. ((x * S) % Size) + (x \div S) = (x % S) * S + (x \div S)
  BY <1>1, <1>2, TurnIs
<1>5. XCHGW(x) = Pair(a, b) * S + Pair(c, d)
  BY <1>1, <1>3, <1>4, Zenon
<1>6. Pair(a, b) \in Int /\ Pair(c, d) \in Int
  BY PairIs, ByteFacts
<1> DEFINE u == Pair(a, b)
           v == Pair(c, d)
<1>7. u \in Int /\ v \in Int
  BY <1>6
<1> HIDE DEF u, v
<1>8. u * S + v = v + u * S
  BY <1>2, <1>7
<1> QED
  BY <1>5, <1>8, Zenon DEF u, v, x, S, Quad

\* Three swaps turn a word around.
LEMMA TurnedAround ==
  ASSUME NEW x \in DWords
  PROVE  \A i \in 0 .. 3 : ByteNo(XCHGB(XCHGW(XCHGB(x))), i) = ByteNo(x, 3 - i)
<1> DEFINE a == ByteNo(x, 0)
           b == ByteNo(x, 1)
           c == ByteNo(x, 2)
           d == ByteNo(x, 3)
<1>1. x = Quad(a, b, c, d)
  BY QuadOf
<1>2. a \in ByteValues /\ b \in ByteValues /\ c \in ByteValues /\ d \in ByteValues
  <2>1. 0 \in 0 .. 3 /\ 1 \in 0 .. 3 /\ 2 \in 0 .. 3 /\ 3 \in 0 .. 3
    OBVIOUS
  <2> QED
    BY <2>1, QuadOf
<1> DEFINE y == XCHGB(XCHGW(XCHGB(x)))
<1>3. y = Quad(d, c, b, a)
  <2> HIDE DEF a, b, c, d
  <2>1. XCHGB(Quad(a, b, c, d)) = Quad(b, a, c, d)
    BY <1>2, SwapLow
  <2>2. XCHGW(Quad(b, a, c, d)) = Quad(c, d, b, a)
    BY <1>2, SwapHalves
  <2>3. XCHGB(Quad(c, d, b, a)) = Quad(d, c, b, a)
    BY <1>2, SwapLow
  <2> QED
    BY <1>1, <2>1, <2>2, <2>3, Zenon
<1> HIDE DEF y
<1>4. ByteNo(y, 0) = d /\ ByteNo(y, 1) = c /\ ByteNo(y, 2) = b /\ ByteNo(y, 3) = a
  <2> HIDE DEF a, b, c, d
  <2> QED
    BY <1>2, <1>3, QuadBytes
<1>5. \A i \in 0 .. 3 : i = 0 \/ i = 1 \/ i = 2 \/ i = 3
  OBVIOUS
<1>6. 3 - 0 = 3 /\ 3 - 1 = 2 /\ 3 - 2 = 1 /\ 3 - 3 = 0
  OBVIOUS
<1> SUFFICES ASSUME NEW i \in 0 .. 3 PROVE ByteNo(y, i) = ByteNo(x, 3 - i)
  BY DEF y
<1>7. CASE i = 0
  BY <1>4, <1>6, <1>7
<1>8. CASE i = 1
  BY <1>4, <1>6, <1>8
<1>9. CASE i = 2
  BY <1>4, <1>6, <1>9
<1>10. CASE i = 3
  BY <1>4, <1>6, <1>10
<1> QED
  BY <1>5, <1>7, <1>8, <1>9, <1>10

-----------------------------------------------------------------------------
(* Signs                                                                   *)

LEMMA Negation ==
  ASSUME NEW x \in DWords
  PROVE  (ADDC(NOT(x), 1, 0).rd + x) % Size = 0
<1> DEFINE y == NOT(x)
           r == ADDC(y, 1, 0).rd
           f == ADDC(y, 1, 0).cf
           S == Size
<1>1. S \in Nat \ {0} /\ x \in 0 .. S - 1 /\ y = S - 1 - x /\ y \in DWords /\ 1 \in DWords
  BY AddressFacts DEF DWords, NOT
<1> HIDE DEF y
<1>2. f \in {0, 1} /\ r \in DWords /\ y + 1 + 0 = f * S + r
  BY <1>1, AddIs
<1>3. r \in Int /\ 1 - f \in Int /\ r + x \in Int
  BY <1>1, <1>2 DEF DWords
<1> HIDE DEF f, r, S
<1>4. r + x = 0 + (1 - f) * S
  <2>1. f = 0 \/ f = 1
    BY <1>2
  <2>2. y \in Int /\ x \in Int
    BY <1>1
  <2>3. CASE f = 0
    <3>1. f * S = 0 /\ (1 - f) * S = S
      BY <2>3, <1>1
    <3> QED
      BY <3>1, <1>1, <1>2, <1>3, <2>2
  <2>4. CASE f = 1
    <3>1. f * S = S /\ (1 - f) * S = 0
      BY <2>4, <1>1
    <3> QED
      BY <3>1, <1>1, <1>2, <1>3, <2>2
  <2> QED
    BY <2>1, <2>3, <2>4
<1>5. (r + x) % S = 0 % S
  <2> DEFINE z == r + x
             e == 1 - f
  <2>1. z \in Int /\ e \in Int /\ 0 \in Int /\ z = 0 + e * S
    BY <1>3, <1>4
  <2> HIDE DEF z, e
  <2>2. z % S = 0 % S
    BY <1>1, <2>1, ModSame
  <2> QED
    BY <2>2 DEF z
<1>6. 0 % S = 0
  BY <1>1, ModSmall
<1> QED
  BY <1>5, <1>6 DEF r, S, y

\* A byte with its sign keeps it as half a word, and is the byte it was.
LEMMA ByteSigns ==
  ASSUME NEW x \in DWords
  PROVE  SIGXW(SIGXB(x)) = SIGXB(x) /\ SIGXB(x) % ByteSize = x % ByteSize
<1> DEFINE B == ByteSize
           P == BytePower(2)
           h == Pow2[W \div 4 - 1]
           k == Pow2[W \div 2 - 1]
           v == x % B
           s == IF v < h THEN v ELSE v - B
           y == SIGXB(x)
<1>1. /\ B \in Nat \ {0} /\ P \in Nat \ {0} /\ P = B * B /\ Size = P * P
      /\ W \div 4 \in 1 .. W - 1 /\ W \div 2 \in 1 .. W - 1
      /\ Pow2[W \div 4] = B /\ Pow2[W \div 2] = P
  BY ByteFacts
<1>2. /\ h \in Nat \ {0} /\ B = 2 * h /\ k \in Nat \ {0} /\ P = 2 * k
  BY <1>1, PowFacts
<1>3. y = s % Size /\ y \in DWords
  <2>1. SignExtended(x, W \div 4)
          = (IF x % Pow2[W \div 4] < Pow2[W \div 4 - 1] THEN x % Pow2[W \div 4]
             ELSE (x % Pow2[W \div 4]) - Pow2[W \div 4]) % Size
        /\ SignExtended(x, W \div 4) \in DWords
    BY <1>1, LiteralIs
  <2> QED
    BY <1>1, <2>1, Zenon DEF SIGXB
<1>4. x \in Int /\ y \in Int /\ Size \in Nat \ {0}
  BY <1>3, AddressFacts DEF DWords
<1>5. SIGXW(y) = (IF y % P < k THEN y % P ELSE (y % P) - P) % Size
  <2> HIDE DEF y
  <2>1. SignExtended(y, W \div 2)
          = (IF y % Pow2[W \div 2] < Pow2[W \div 2 - 1] THEN y % Pow2[W \div 2]
             ELSE (y % Pow2[W \div 2]) - Pow2[W \div 2]) % Size
    BY <1>1, <1>3, LiteralIs
  <2> QED
    BY <1>1, <2>1, Zenon DEF SIGXW
<1> HIDE DEF B, P, h, k, y
<1>6. v \in 0 .. B - 1 /\ v \in Int
  BY <1>1, <1>4, DivMod
<1> HIDE DEF v
<1>7. s \in Int /\ -h <= s /\ s < h
  BY <1>1, <1>2, <1>6
<1>8. s % B = v
  <2>1. v % B = v
    BY <1>1, <1>6, ModSmall
  <2>2. \E z \in Int : s = v + z * B
    <3>1. CASE v < h
      <4>1. s = v + 0 * B
        BY <3>1, <1>1, <1>6
      <4> QED
        BY <4>1
    <3>2. CASE ~(v < h)
      <4>1. s = v + (-1) * B
        BY <3>2, <1>1, <1>6
      <4> QED
        BY <4>1
    <3> QED
      BY <3>1, <3>2
  <2> HIDE DEF s
  <2>3. PICK z \in Int : s = v + z * B
    BY <2>2
  <2>4. s % B = v % B
    BY <1>1, <1>6, <1>7, <2>3, ModSame
  <2> QED
    BY <2>1, <2>4
<1> HIDE DEF s
<1>9. y % P = s % P
  <2>1. (s % (P * P)) % P = s % P
    BY <1>1, <1>7, TwoRemainders
  <2> QED
    BY <1>1, <1>3, <2>1, Zenon
<1>10. y % B = v
  <2>1. (y % (B * B)) % B = y % B
    BY <1>1, <1>4, TwoRemainders
  <2>2. (s % (B * B)) % B = s % B
    BY <1>1, <1>7, TwoRemainders
  <2> QED
    BY <1>1, <1>8, <1>9, <2>1, <2>2, Zenon
<1>11. h <= k
  <2>1. B <= B * B
    <3>1. (B - 1) \in Nat
      BY <1>1
    <3>2. B * (B - 1) \in Nat /\ B * B = B + B * (B - 1)
      BY <1>1, <3>1
    <3> QED
      BY <1>1, <3>2
  <2>2. B <= P
    BY <1>1, <2>1, Zenon
  <2> QED
    BY <1>2, <2>2
<1>12. s % P = IF s >= 0 THEN s ELSE s + P
  <2>1. CASE s >= 0
    <3>1. s \in 0 .. P - 1
      BY <2>1, <1>2, <1>7, <1>11
    <3>2. s % P = s
      BY <1>1, <3>1, ModSmall
    <3> QED
      BY <2>1, <3>2
  <2>2. CASE ~(s >= 0)
    <3>1. s + P \in 0 .. P - 1 /\ s + P \in Int /\ s + P = s + 1 * P
      BY <2>2, <1>2, <1>7, <1>11
    <3>2. (s + P) % P = s + P
      BY <1>1, <3>1, ModSmall
    <3>3. (s + P) % P = s % P
      <4> DEFINE z == s + P
      <4>1. z \in Int /\ z = s + 1 * P /\ 1 \in Int
        BY <3>1
      <4> HIDE DEF z
      <4>2. z % P = s % P
        BY <1>1, <1>7, <4>1, ModSame
      <4> QED
        BY <4>2 DEF z
    <3> QED
      BY <2>2, <3>2, <3>3
  <2> QED
    BY <2>1, <2>2
<1>13. (IF y % P < k THEN y % P ELSE (y % P) - P) = s
  <2> DEFINE e == y % P
  <2>1. e = IF s >= 0 THEN s ELSE s + P
    BY <1>9, <1>12
  <2> HIDE DEF e
  <2>2. (IF e < k THEN e ELSE e - P) = s
    BY <1>1, <1>2, <1>7, <1>11, <2>1
  <2> QED
    BY <2>2 DEF e
<1>14. SIGXW(y) = y
  BY <1>3, <1>5, <1>13, Zenon
<1> QED
  BY <1>10, <1>14 DEF y, B, v

\* NOT and ADD 1 negate, SIGXB and SIGXW keep signs, and XCHGB and XCHGW turn the bytes of
\* a word around.
THEOREM SwapsAgreeHolds == SwapsAgree
<1> SUFFICES ASSUME NEW x \in DWords
             PROVE  /\ (ADDC(NOT(x), 1, 0).rd + x) % Size = 0
                    /\ SIGXW(SIGXB(x)) = SIGXB(x)
                    /\ SIGXB(x) % ByteSize = x % ByteSize
                    /\ \A i \in 0 .. 3 :
                         ByteNo(XCHGB(XCHGW(XCHGB(x))), i) = ByteNo(x, 3 - i)
  BY DEF SwapsAgree, ByteNo
<1> QED
  BY Negation, ByteSigns, TurnedAround

\* All that compiled code relies on, for words of any size and every machine.
THEOREM InstructionsHold == MachineAgrees(AllMachines)
BY ArithmeticAgrees, CallsReturnHolds, PopsPushedHolds, StoresLoadHolds, JumpsByWordsHolds,
   SwapsAgreeHolds DEF MachineAgrees

\* ... and so for the machines of the run.
LEMMA InstructionsOfSome == MachineAgrees(Machines)
<1>1. CallsReturn(AllMachines) => CallsReturn(Machines)
  BY SomeMachines DEF CallsReturn
<1>2. PopsPushed(AllMachines) => PopsPushed(Machines)
  BY SomeMachines DEF PopsPushed
<1>3. StoresLoad(AllMachines) => StoresLoad(Machines)
  BY SomeMachines DEF StoresLoad
<1>4. JumpsByWords(AllMachines) => JumpsByWords(Machines)
  BY SomeMachines DEF JumpsByWords
<1> QED
  BY <1>1, <1>2, <1>3, <1>4, InstructionsHold DEF MachineAgrees
=============================================================================
