------------------------------- MODULE Printer -------------------------------
(***************************************************************************)
(* Numbers as text: cores/arduino/Print.cpp, and WString.cpp where it does *)
(* the same by other means.  A text is a sequence of character codes; a    *)
(* double is a whole number of thousandths.                                *)
(***************************************************************************)
EXTENDS Integers, Sequences, SequencesExt

CONSTANTS
    Longs, LongLongs  \* how many values a long has, and a long long: 2^32 and 2^64

ASSUME LongAssumption ==
    /\ Longs \in Nat \ {0} /\ Longs % 2 = 0
    /\ LongLongs \in Nat /\ LongLongs >= Longs

Minus == 45
Point == 46
Character(digit) == IF digit < 10 THEN 48 + digit ELSE 65 + digit - 10

Signed(values) == -(values \div 2) .. values \div 2 - 1
AsUnsigned(v, values) == v % values
AsSigned(v, values) == IF v < values \div 2 THEN v ELSE v - values

(* printNumber(): at least one digit, from the last to the first. *)
printNumber(v, base) ==
    LET Loop[n \in Nat] ==
            (IF n < base THEN << >> ELSE Loop[n \div base])
              \o <<Character(n % base)>>
    IN  Loop[v]

(* print() of an int or a long; the other bases go through long long. *)
print(v, base) ==
    IF base = 10 /\ v < 0 THEN <<Minus>> \o printNumber(-v, base)
    ELSE printNumber(AsUnsigned(v, LongLongs), base)

(* String's concat() of a long, and of an unsigned long by that. *)
concat_KeepsSign(v, base) ==
    (IF v < 0 THEN <<Minus>> ELSE << >>) \o printNumber(AsUnsigned(v, Longs), base)

concat(v, base) ==
    IF base = 10 /\ v < 0 THEN <<Minus>> \o printNumber(AsUnsigned(-v, Longs), base)
    ELSE printNumber(AsUnsigned(v, Longs), base)

concatUnsigned(v, base) == concat(AsSigned(v, Longs), base)

(* printFloat(): the fraction rounded to the precision, carried, padded;   *)
(* without a fraction the whole part alone.                                *)
Unit == 1000
Whole(v) == v \div Unit
Tens[p \in Nat] == IF p = 0 THEN 1 ELSE 10 * Tens[p - 1]
Scaled(v, scale) == (2 * (v % Unit) * scale + Unit) \div (2 * Unit)

Padded(n, p) == [i \in 1 .. p |-> Character((n \div Tens[p - i]) % 10)]

Fixed_NoCarry(v, p) ==
    printNumber(Whole(v), 10)
      \o (IF p = 0 THEN << >> ELSE <<Point>> \o Padded(Scaled(v, Tens[p]), p))

Fixed(v, p) ==
    LET carry == IF Scaled(v, Tens[p]) >= Tens[p] THEN 1 ELSE 0 IN
    printNumber(Whole(v) + carry, 10)
      \o (IF p = 0 THEN << >>
          ELSE <<Point>> \o Padded(Scaled(v, Tens[p]) - carry * Tens[p], p))

Sign(v) == IF v < 0 THEN <<Minus>> ELSE << >>
Abs(v) == IF v < 0 THEN -v ELSE v

printFloat(v, p) ==
    Sign(v) \o (IF p = 0 THEN printNumber(Whole(Abs(v)), 10) ELSE Fixed(Abs(v), p))

(* String's appendFloat(), which rounds without a fraction as well. *)
appendFloat(v, p) == Sign(v) \o Fixed(Abs(v), p)
=============================================================================
