-------------------------------- MODULE Alu --------------------------------
(***************************************************************************)
(* What the arithmetic instructions of the TR3200 compute (tr3200.cpp), in *)
(* words of W bits: the C++ expressions on unsigned words and double       *)
(* words, and what they mean as numbers.                                   *)
(***************************************************************************)
EXTENDS Integers

CONSTANT W  \* bits of a register (32), four bytes

ASSUME WidthAssumption == W \in Nat \ {0} /\ W % 4 = 0

\* The powers of two, as a function that proofs can take apart.
Pow2[n \in 0 .. 2 * W] == IF n = 0 THEN 1 ELSE 2 * Pow2[n - 1]

Size == Pow2[W]
DWords == 0 .. Size - 1
QSize == Pow2[2 * W]

\* SDWord of a DWord.
Signed(x) == IF x >= Pow2[W - 1] THEN x - Size ELSE x

DW_SIGN_BIT(x) == (x \div Pow2[W - 1]) % 2
CARRY_BIT(x) == (x \div Size) % 2

\* All instructions of this kind test the signs in the same way.
Overflow(rs, rn, ltmp) ==
  DW_SIGN_BIT(rs) = DW_SIGN_BIT(rn) /\ DW_SIGN_BIT(rn) # DW_SIGN_BIT(ltmp)

-----------------------------------------------------------------------------
(* Sums and differences.  ADD, SUB and RSB have no carry: cf is 0.         *)

\* Mutant: the carry is taken from the sum of the operands alone.
ADDC_CarryOfOperands(rs, rn, cf) ==
  LET ltmp == rs + rn + cf
  IN  [rd |-> ltmp % Size, cf |-> CARRY_BIT(rs + rn), of |-> Overflow(rs, rn, ltmp)]

ADDC(rs, rn, cf) ==
  LET ltmp == rs + rn + cf
  IN  [rd |-> ltmp % Size, cf |-> CARRY_BIT(ltmp), of |-> Overflow(rs, rn, ltmp)]

\* rn + CF is a DWord: it is 0 for the largest rn with a borrow.
SUBB(rs, rn, cf) ==
  LET operand == (rn + cf) % Size
      ltmp == (rs - operand) % QSize
  IN  [rd |-> ltmp % Size, cf |-> IF rs < operand THEN 1 ELSE 0,
       of |-> Overflow(rs, rn, ltmp)]

RSBB(rs, rn, cf) == SUBB(rn, rs, cf)

-----------------------------------------------------------------------------
(* Shifts by less than the bits of a double word (others are undefined),   *)
(* and rotations.                                                          *)

LLS(rs, rn) ==
  LET ltmp == (rs * Pow2[rn]) % QSize IN [rd |-> ltmp % Size, cf |-> CARRY_BIT(ltmp)]

RLS(rs, rn) ==
  LET ltmp == (rs * 2) \div Pow2[rn] IN [rd |-> ltmp \div 2, cf |-> ltmp % 2]

ARS(rs, rn) ==
  LET result == (Signed(rs) * 2) \div Pow2[rn]
  IN  [rd |-> (result \div 2) % Size, cf |-> result % 2]

\* The shift by W of a rotation by 0 is undefined, but gives rs or 0, and that is
\* put on top of rs.
ROTL(rs, rn) ==
  LET k == rn % W IN IF k = 0 THEN rs ELSE ((rs * Pow2[k]) % Size) + (rs \div Pow2[W - k])

ROTR(rs, rn) ==
  LET k == rn % W IN IF k = 0 THEN rs ELSE (rs \div Pow2[k]) + ((rs * Pow2[W - k]) % Size)

\* The halves of a register change places.
XCHGW(r) == ((r * Pow2[W \div 2]) % Size) + (r \div Pow2[W \div 2])

-----------------------------------------------------------------------------
(* Products and quotients                                                  *)

MUL(rs, rn) == [y |-> (rs * rn) \div Size, rd |-> (rs * rn) % Size]

\* The cast of rs from DWord to SQWord keeps it positive, and lword *= rn too.
SMUL(rs, rn) == MUL(rs, rn)

DIV(rs, rn) == [rd |-> rs \div rn, y |-> rs % rn]

Abs(x) == IF x < 0 THEN -x ELSE x

\* C++ divides towards zero.  The least number by -1 is undefined.
SDIV(rs, rn) ==
  LET a == Signed(rs)
      b == Signed(rn)
      result == IF (a < 0) = (b < 0) THEN Abs(a) \div Abs(b) ELSE -(Abs(a) \div Abs(b))
  IN  [rd |-> result % Size, y |-> (a - b * result) % Size]

\* A literal of "bits" bits, and SIGXB and SIGXW.
SignExtended(rn, bits) ==
  LET field == rn % Pow2[bits]
  IN  IF field \div Pow2[bits - 1] = 1 THEN field + (Size - Pow2[bits]) ELSE field

-----------------------------------------------------------------------------
(* What they mean                                                          *)

Bit(b) == IF b THEN 1 ELSE 0

\* Numbers of two words, low word first.
Wide(lo, hi) == lo + Size * hi

WideSums ==
  \A a, b, c, d \in DWords :
    LET lo == ADDC(a, c, 0)
        hi == ADDC(b, d, lo.cf)
    IN  Wide(lo.rd, hi.rd) + QSize * hi.cf = Wide(a, b) + Wide(c, d)

\* The borrow of the last word is lost when rn + CF wraps.
WideDifferences ==
  \A a, b, c, d \in DWords :
    LET lo == SUBB(a, c, 0)
        hi == SUBB(b, d, lo.cf)
    IN  /\ Wide(lo.rd, hi.rd) = (Wide(a, b) - Wide(c, d)) % QSize
        /\ d + lo.cf < Size => hi.cf = Bit(Wide(a, b) < Wide(c, d))

Overflows ==
  \A a, b \in DWords, cf \in {0, 1} :
    ADDC(a, b, cf).of =
      (Signed(a) + Signed(b) + cf \notin -(Pow2[W - 1]) .. Pow2[W - 1] - 1)

\* The carry is the last bit shifted out.
Shifts ==
  \A x \in DWords, n \in 1 .. 2 * W - 1 :
    /\ LLS(x, n).rd = (x * Pow2[n]) % Size
    /\ n <= W => LLS(x, n).cf = (x \div Pow2[W - n]) % 2
    /\ RLS(x, n) = [rd |-> x \div Pow2[n], cf |-> (x \div Pow2[n - 1]) % 2]
    /\ Signed(ARS(x, n).rd) = Signed(x) \div Pow2[n]
    /\ ARS(x, n).cf = (Signed(x) \div Pow2[n - 1]) % 2

Rotations ==
  \A x \in DWords, n \in 0 .. 2 * W :
    /\ ROTR(ROTL(x, n), n) = x
    /\ ROTL(x, n + 1) = ROTL(ROTL(x, n), 1)
    /\ XCHGW(x) = ROTL(x, W \div 2)

Quotients ==
  \A a, b \in DWords :
    /\ Wide(MUL(a, b).rd, MUL(a, b).y) = a * b
    /\ b # 0 => DIV(a, b).y < b /\ a = DIV(a, b).rd * b + DIV(a, b).y
    /\ b # 0 /\ ~(Signed(a) = -(Pow2[W - 1]) /\ Signed(b) = -1) =>
         LET q == Signed(SDIV(a, b).rd)
             r == Signed(SDIV(a, b).y)
         IN  Signed(a) = q * Signed(b) + r /\ Abs(r) < Abs(Signed(b)) /\ r * Signed(a) >= 0

Literals ==
  \A bits \in 1 .. W - 1, x \in DWords :
    LET v == x % Pow2[bits]
    IN  Signed(SignExtended(x, bits)) = IF v < Pow2[bits - 1] THEN v ELSE v - Pow2[bits]

\* What a program with numbers of several words relies on: ADDC continues ADD and
\* SUBB continues SUB, the overflow of a sum is that of signed numbers, a carry is
\* the bit shifted out, rotations lose nothing, product and quotients have no error,
\* and short literals keep their sign.
AluAgrees ==
  WideSums /\ WideDifferences /\ Overflows /\ Shifts /\ Rotations /\ Quotients /\ Literals
=============================================================================
