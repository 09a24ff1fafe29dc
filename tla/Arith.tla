------------------------------- MODULE Arith -------------------------------
(***************************************************************************)
(* base_uint<BITS> and arith_uint256 (arith_uint256.h, arith_uint256.cpp): *)
(* unsigned integers of WIDTH limbs, the lowest first, and the compact     *)
(* form of a target.  A limb has LimbBits bits (32 in the code) and a      *)
(* "byte" of the compact form ByteBits (8): the algorithms are the same at *)
(* every width, so TLC runs them at a small one.                           *)
(***************************************************************************)
EXTENDS Integers, SequencesExt

CONSTANTS LimbBits, WIDTH, ByteBits

ASSUME ArithAssumption ==
    /\ LimbBits \in Nat \ {0} /\ ByteBits \in Nat \ {0}
    /\ WIDTH \in Nat /\ WIDTH >= 2 /\ (LimbBits * WIDTH) % ByteBits = 0

Limb == 2 ^ LimbBits
BITS == LimbBits * WIDTH
Modulus == 2 ^ BITS
Pos == 1 .. WIDTH
Up == [i \in Pos |-> i]
Num == [Pos -> 0 .. Limb - 1]

MaxOf(S) == CHOOSE x \in S : \A y \in S : y <= x
MinOf(S) == CHOOSE x \in S : \A y \in S : x <= y

\* Op(x), with x evaluated first (TLC evaluates an argument where it is used).
Strict(Op(_), x) == CHOOSE r \in {Op(v) : v \in {x}} : TRUE

\* A loop over the limbs from the lowest up: Digit(carry, i) is what position i
\* holds before it is cut to a limb.
Ripple(Digit(_, _)) ==
    LET run[i \in 0 .. WIDTH] ==
            IF i = 0 THEN [pn |-> << >>, carry |-> 0]
            ELSE Strict(LAMBDA s : LET n == Digit(s.carry, i)
                                   IN  [pn |-> Append(s.pn, n % Limb), carry |-> n \div Limb],
                        run[i - 1])
    IN  run[WIDTH].pn

\* base_uint(uint64_t).
FromInt(n) == Ripple(LAMBDA c, i : (n \div Limb ^ (i - 1)) % Limb)

\* The number that the limbs stand for (the reference of the checks).
Val(a) == Strict(LAMBDA v : FoldLeft(LAMBDA s, i : s + v[i] * Limb ^ (i - 1), 0, Up), a)

\* operator~, operator++ and operator-- (on to the next limb while the limb
\* wraps), operator-.
Not(a) == Ripple(LAMBDA c, i : Limb - 1 - a[i])
Inc(a) == Ripple(LAMBDA c, i : IF \A j \in 1 .. i - 1 : a[j] = Limb - 1
                               THEN (a[i] + 1) % Limb ELSE a[i])
Dec(a) == Ripple(LAMBDA c, i : IF \A j \in 1 .. i - 1 : a[j] = 0
                               THEN (a[i] + Limb - 1) % Limb ELSE a[i])
Neg(a) == Strict(Inc, Not(a))

\* operator+=, operator-=, operator*=(uint32_t).
Add(a, b) == Ripple(LAMBDA c, i : c + a[i] + b[i])
Sub(a, b) == Strict(LAMBDA n : Add(a, n), Neg(b))
MulWord(a, w) == Ripple(LAMBDA c, i : c + w * a[i])

\* operator*=: row j adds a[j] * b at limb j; what leaves the top is lost.
Mul(a, b) ==
    LET rows[j \in 0 .. WIDTH] ==
            IF j = 0 THEN FromInt(0)
            ELSE Strict(LAMBDA acc :
                            Ripple(LAMBDA c, i : c + acc[i] + (IF i < j THEN 0 ELSE a[j] * b[i - j + 1])),
                        rows[j - 1])
    IN  rows[WIDTH]

\* operator<<=, operator>>=: whole limbs, then the bits that cross a limb.
Shl(a, s) ==
    LET k == s \div LimbBits
        r == s % LimbBits
    IN  Ripple(LAMBDA c, i :
            (IF i > k THEN (a[i - k] * 2 ^ r) % Limb ELSE 0)
            + (IF r # 0 /\ i > k + 1 THEN a[i - k - 1] \div 2 ^ (LimbBits - r) ELSE 0))

Shr(a, s) ==
    LET k == s \div LimbBits
        r == s % LimbBits
    IN  Ripple(LAMBDA c, i :
            (IF i + k <= WIDTH THEN a[i + k] \div 2 ^ r ELSE 0)
            + (IF r # 0 /\ i + k < WIDTH
               THEN (a[i + k + 1] * 2 ^ (LimbBits - r)) % Limb ELSE 0))

\* CompareTo: the highest limb that differs decides.
CompareTo(a, b) ==
    LET D == {i \in Pos : a[i] # b[i]}
    IN  IF D = {} THEN 0 ELSE IF a[MaxOf(D)] < b[MaxOf(D)] THEN -1 ELSE 1

\* bits(): the position of the highest bit set plus one, zero for zero.
Bits(a) ==
    LET S == {i \in Pos : a[i] # 0}
    IN  IF S = {} THEN 0
        ELSE LimbBits * (MaxOf(S) - 1)
             + MaxOf({n \in 1 .. LimbBits : (a[MaxOf(S)] \div 2 ^ (n - 1)) % 2 = 1})

\* operator/= (b # 0): long division, one bit of the quotient a round, from the
\* highest that can be set down.
Round(s, shift) ==
    LET fits == CompareTo(s.num, s.div) >= 0
    IN  [num |-> IF fits THEN Sub(s.num, s.div) ELSE s.num,
         div |-> Shr(s.div, 1),
         quo |-> IF ~fits THEN s.quo
                 ELSE [s.quo EXCEPT ![shift \div LimbBits + 1] = @ + 2 ^ (shift % LimbBits)]]

\* n rounds, the first at this shift (in halves: TLC's evaluation stays shallow).
RECURSIVE Rounds(_, _, _)
Rounds(s, shift, n) ==
    IF n = 1 THEN Round(s, shift)
    ELSE Strict(LAMBDA half : Rounds(half, shift - n \div 2, n - n \div 2),
                Rounds(s, shift, n \div 2))

Div(a, b) ==
    LET top == Bits(a) - Bits(b)
    IN  IF top < 0 THEN FromInt(0)
        ELSE Rounds([num |-> a, div |-> Shl(b, top), quo |-> FromInt(0)], top, top + 1).quo

----------------------------------------------------------------------------
\* The compact form: an exponent of base 2^ByteBits, a sign bit, a mantissa
\* of three bytes less that bit.
Byte == 2 ^ ByteBits
Mantissa == Byte ^ 3
SignBit == Mantissa \div 2
NBytes == BITS \div ByteBits

\* SetCompact(nCompact, pfNegative, pfOverflow).
SetCompact(c) ==
    LET nSize == c \div Mantissa
        word  == c % SignBit
        nWord == IF nSize <= 3 THEN word \div Byte ^ (3 - nSize) ELSE word
    IN  [num      |-> IF nSize <= 3 THEN FromInt(nWord)
                      ELSE Shl(FromInt(nWord), ByteBits * (nSize - 3)),
         negative |-> nWord # 0 /\ (c \div SignBit) % 2 = 1,
         overflow |-> nWord # 0 /\ (\/ nSize > NBytes + 2
                                    \/ nWord > Byte - 1 /\ nSize > NBytes + 1
                                    \/ nWord > Byte ^ 2 - 1 /\ nSize > NBytes)]

\* GetCompact(): rounds down to three bytes; a mantissa that reaches the sign
\* bit moves one byte down.
GetCompact(a) ==
    LET nSize == (Bits(a) + ByteBits - 1) \div ByteBits
        word  == IF nSize <= 3 THEN Val(a) * Byte ^ (3 - nSize)
                 ELSE Val(Shr(a, ByteBits * (nSize - 3)))
    IN  IF word >= SignBit THEN (nSize + 1) * Mantissa + word \div Byte
        ELSE nSize * Mantissa + word

\* GetBlockProof (chain.cpp): 2^BITS / (target + 1) without leaving BITS bits.
GetBlockProof(nBits) ==
    LET t == SetCompact(nBits)
    IN  IF t.negative \/ t.overflow \/ t.num = FromInt(0) THEN FromInt(0)
        ELSE Strict(Inc, Div(Not(t.num), Inc(t.num)))

----------------------------------------------------------------------------
(***************************************************************************)
(* A register machine over the operations: areg holds limbs, anum the      *)
(* number the same operations on numbers modulo 2^BITS give.               *)
(***************************************************************************)
CONSTANT Operands   \* the numbers tried as second operand

VARIABLES areg, anum
arithVars == <<areg, anum>>

ArithInit == areg = FromInt(0) /\ anum = 0

Apply(limbs, number) == areg' = limbs /\ anum' = number % Modulus

AddOp == \E n \in Operands : Apply(Add(areg, FromInt(n)), anum + n)
SubOp == \E n \in Operands : Apply(Sub(areg, FromInt(n)), anum - n)
MulOp == \E n \in Operands : Apply(Mul(areg, FromInt(n)), anum * n)
MulWordOp == \E w \in 0 .. Limb - 1 : Apply(MulWord(areg, w), anum * w)
DivOp == \E n \in Operands \ {0} : Apply(Div(areg, FromInt(n)), anum \div n)
ShlOp == \E s \in 0 .. BITS : Apply(Shl(areg, s), anum * 2 ^ s)
ShrOp == \E s \in 0 .. BITS : Apply(Shr(areg, s), anum \div 2 ^ s)
IncOp == Apply(Inc(areg), anum + 1)
DecOp == Apply(Dec(areg), anum - 1)

ArithNext == \/ AddOp \/ SubOp \/ MulOp \/ MulWordOp \/ DivOp
             \/ ShlOp \/ ShrOp \/ IncOp \/ DecOp

ArithSpec == ArithInit /\ [][ArithNext]_arithVars

\* The limb algorithms of base_uint compute modulo 2^BITS (carries, borrows
\* and the bits that cross a limb included); the compact form of a number is
\* the number with all but its leading bytes cleared and reads back as neither
\* negative nor overflown; and GetBlockProof, which cannot represent 2^BITS,
\* still yields 2^BITS / (target + 1) rounded down.
LimbsAreNumbers ==
    LET back == SetCompact(GetCompact(areg))
        t    == Val(back.num)
    IN  /\ Val(areg) = anum
        /\ ~back.negative /\ ~back.overflow
        /\ t <= anum /\ anum - t < Byte ^ MaxOf({0, (Bits(areg) + ByteBits - 1) \div ByteBits - 2})
        /\ GetCompact(back.num) = GetCompact(areg)
        /\ t # 0 => Val(GetBlockProof(GetCompact(areg))) = Modulus \div (t + 1)
============================================================================
