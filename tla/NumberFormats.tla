--------------------------- MODULE NumberFormats ---------------------------
(****************************************************************************)
(* The element types of src/dtype: binary16 (float16.go), bfloat16, the two *)
(* 8-bit floats (fp8.go) and pairs of 4-bit integers (int4.go), each with   *)
(* its widening to float32 and its narrowing from it. A float32 is the      *)
(* record of its three bit fields; the other formats are their bits as a    *)
(* number. Masks and shifts are % and \div by powers of two.                *)
(****************************************************************************)
EXTENDS Integers

Float32(sign, exp, coef) == [sign |-> sign, exp |-> exp, coef |-> coef]
Implicit == 2^23     \* the leading one of a float32 significand
Float32s == [sign : {0, 1}, exp : 0 .. 255, coef : 0 .. Implicit - 1]

IsNaN(x) == x.exp = 255 /\ x.coef # 0
IsInf(x) == x.exp = 255 /\ x.coef = 0

\* The order of the magnitudes.
Below(x, y) == x.exp < y.exp \/ (x.exp = y.exp /\ x.coef < y.coef)

FloatFormats == {"Float16", "BFloat16", "Float8E4M3", "Float8E5M2"}
SignBit(format) == IF format \in {"Float16", "BFloat16"} THEN 2^15 ELSE 2^7
Codes(format) == 0 .. 2 * SignBit(format) - 1
SignOf(format, code) == code \div SignBit(format)
MagnitudeOf(format, code) == code % SignBit(format)

------------------------------------------------------------------------------
\* A subnormal of a format with m mantissa bits is shifted up until its leading
\* one appears; what is left is the mantissa, and each shift costs an exponent.
Shifts(mantissa, m) == CHOOSE s \in 1 .. m : mantissa * 2^s \in 2^m .. 2^(m+1) - 1

\* Fault: subnormals have the exponent that is written, not the least one.
WidenFieldsFromZero(sign, exponent, mantissa, m, bias) ==
  IF exponent = 0 /\ mantissa = 0 THEN Float32(sign, 0, 0)
  ELSE LET s == IF exponent = 0 THEN Shifts(mantissa, m) ELSE 0
       IN  Float32(sign, exponent - s - bias + 127,
                   ((mantissa * 2^s) % 2^m) * 2^(23 - m))

WidenFields(sign, exponent, mantissa, m, bias) ==
  IF exponent = 0 /\ mantissa = 0 THEN Float32(sign, 0, 0)
  ELSE LET s == IF exponent = 0 THEN Shifts(mantissa, m) ELSE 0
           normal == IF exponent = 0 THEN 1 - s ELSE exponent
       IN  Float32(sign, normal - bias + 127, ((mantissa * 2^s) % 2^m) * 2^(23 - m))

WidenFloat16(code) ==
  LET sign == code \div 2^15
      exponent == (code \div 2^10) % 32
      mantissa == code % 2^10
  IN  IF exponent # 31 THEN WidenFields(sign, exponent, mantissa, 10, 15)
      ELSE Float32(sign, 255, IF mantissa = 0 THEN 0
                              ELSE 2^22 + ((mantissa % 2^9) * 2^13))

WidenBFloat16(code) ==
  Float32(code \div 2^15, (code \div 2^7) % 256, (code % 2^7) * 2^16)

WidenFloat8E4M3(code) ==
  IF code % 2^7 = 127 THEN Float32(code \div 2^7, 255, 2^22)
  ELSE WidenFields(code \div 2^7, (code \div 2^3) % 16, code % 2^3, 3, 7)

WidenFloat8E5M2(code) ==
  LET sign == code \div 2^7
      exponent == (code \div 2^2) % 32
      mantissa == code % 2^2
  IN  IF exponent # 31 THEN WidenFields(sign, exponent, mantissa, 2, 15)
      ELSE Float32(sign, 255, IF mantissa = 0 THEN 0
                              ELSE 2^22 + ((mantissa % 2) * 2^21))

Widen(format, code) ==
  CASE format = "Float16" -> WidenFloat16(code)
    [] format = "BFloat16" -> WidenBFloat16(code)
    [] format = "Float8E4M3" -> WidenFloat8E4M3(code)
    [] format = "Float8E5M2" -> WidenFloat8E5M2(code)

------------------------------------------------------------------------------
\* The increment of the rounding at a bit: the bit is set, and so is one below
\* it or the one above it.
RoundsUp(c, roundBit) ==
  /\ (c \div roundBit) % 2 = 1
  /\ c % roundBit # 0 \/ (c \div (2 * roundBit)) % 2 = 1
Increment(c, roundBit) == IF RoundsUp(c, roundBit) THEN 1 ELSE 0

\* f32bitsToF16bits.
NarrowFloat16(x) ==
  LET halfExp == x.exp - 112
      c == x.coef + Implicit
      magnitude ==
        IF x.exp = 255
        THEN 31 * 2^10
               + (IF x.coef # 0 THEN 2^9 + ((x.coef \div 2^13) % 2^9) ELSE 0)
        ELSE IF halfExp >= 31 THEN 31 * 2^10
        ELSE IF halfExp < -10 THEN 0
        ELSE IF halfExp <= 0
        THEN c \div 2^(14 - halfExp) + Increment(c, 2^(13 - halfExp))
        ELSE halfExp * 2^10 + x.coef \div 2^13 + Increment(x.coef, 2^12)
  IN  x.sign * 2^15 + magnitude

\* Fault: halves are rounded up whatever the last bit.
NarrowBFloat16HalfUp(x) ==
  LET high == x.exp * 2^7 + x.coef \div 2^16
      magnitude == IF IsNaN(x) THEN (high \div 2^7) * 2^7 + 2^6 + (high % 2^6)
                   ELSE high + (IF x.coef % 2^16 >= 2^15 THEN 1 ELSE 0)
  IN  x.sign * 2^15 + magnitude

\* Half a unit less one, and the last bit that stays, are added before the cut;
\* a NaN is cut and made quiet.
NarrowBFloat16(x) ==
  LET high == x.exp * 2^7 + x.coef \div 2^16
      carry == ((x.coef % 2^16) + 32767 + (high % 2)) \div 2^16
      magnitude == IF IsNaN(x) THEN (high \div 2^7) * 2^7 + 2^6 + (high % 2^6)
                   ELSE high + carry
  IN  x.sign * 2^15 + magnitude

RoundToNearestEven(truncated, full, shift) ==
  LET dropped == full % 2^shift
      half == 2^(shift - 1)
  IN  IF dropped > half \/ (dropped = half /\ truncated % 2 = 1)
      THEN truncated + 1 ELSE truncated

\* The two 8-bit formats narrow alike but for their widths: m mantissa bits, a
\* bias, the shift of a subnormal with exponent 0, the least exponent that is
\* not flushed, the exponent from which on everything is the top code, the
\* largest value that is not, and the code of NaN.
NarrowFields(x, m, bias, subnormalShift, least, topExponent, max, top) ==
  LET exponent == x.exp - 127 + bias
      full == x.coef + Implicit
      shift == subnormalShift - exponent
      subnormal == RoundToNearestEven(full \div 2^shift, full, shift)
      mantissa == RoundToNearestEven(x.coef \div 2^(23 - m), x.coef, 23 - m)
      magnitude ==
        IF IsNaN(x) THEN 127
        ELSE IF IsInf(x) \/ Below(max, x) THEN top
        ELSE IF x.exp = 0 /\ x.coef = 0 THEN 0
        ELSE IF exponent < least THEN 0
        ELSE IF exponent <= 0 THEN IF subnormal >= 2^m THEN 2^m ELSE subnormal
        ELSE IF exponent >= topExponent THEN top
        ELSE IF mantissa < 2^m THEN exponent * 2^m + mantissa
        ELSE IF exponent + 1 >= topExponent THEN top
        ELSE (exponent + 1) * 2^m
  IN  magnitude + (IF IsNaN(x) THEN 0 ELSE x.sign * 2^7)

MaxE4M3 == Float32(0, 135, 3 * 2^21)   \* 448
MaxE5M2 == Float32(0, 142, 3 * 2^21)   \* 57344

NarrowFloat8E4M3(x) == NarrowFields(x, 3, 7, 20, -3, 15, MaxE4M3, 126)
NarrowFloat8E5M2(x) == NarrowFields(x, 2, 15, 21, -1, 31, MaxE5M2, 124)

Narrow(format, x) ==
  CASE format = "Float16" -> NarrowFloat16(x)
    [] format = "BFloat16" -> NarrowBFloat16(x)
    [] format = "Float8E4M3" -> NarrowFloat8E4M3(x)
    [] format = "Float8E5M2" -> NarrowFloat8E5M2(x)

------------------------------------------------------------------------------
\* Fault: the binade above the largest number counts as in range.
PrecisionOffByOne(x) ==
  LET exp == x.exp - 127
  IN  IF x.exp = 0 /\ x.coef = 0 THEN "exact"
      ELSE IF exp = 128 THEN "exact"
      ELSE IF exp < -24 THEN "underflow"
      ELSE IF exp > 16 THEN "overflow"
      ELSE IF x.coef % 2^13 # 0 THEN "inexact"
      ELSE IF exp < -14 THEN "unknown" ELSE "exact"

\* PrecisionFromfloat32: what to expect of a narrowing to binary16.
Precision(x) ==
  LET exp == x.exp - 127
  IN  IF x.exp = 0 /\ x.coef = 0 THEN "exact"
      ELSE IF exp = 128 THEN "exact"
      ELSE IF exp < -24 THEN "underflow"
      ELSE IF exp > 15 THEN "overflow"
      ELSE IF x.coef % 2^13 # 0 THEN "inexact"
      ELSE IF exp < -14 THEN "unknown" ELSE "exact"

\* Fault: a payload that does not fit leaves an infinity.
NarrowNaNToInfinity(x) == x.sign * 2^15 + 31 * 2^10 + x.coef \div 2^13

\* FromNaN32ps keeps the payload of a NaN and whether it signals.
NarrowNaN(x) ==
  LET payload == x.coef \div 2^13
  IN  x.sign * 2^15 + 31 * 2^10 + (IF payload = 0 THEN 1 ELSE payload)

------------------------------------------------------------------------------
\* Fault: what does not fit is cut instead of clamped.
Int4EncodeWrapped(value) == value % 16

\* A pair of signed nibbles, and the bytes of convert that are read as one.
Int4Encode(value) ==
  (IF value < -8 THEN -8 ELSE IF value > 7 THEN 7 ELSE value) % 16
Int4Decode(nibble) == IF nibble >= 8 THEN nibble - 16 ELSE nibble

Int4Pair(lo, hi) == Int4Encode(lo) + 16 * Int4Encode(hi)
Lo(pair) == Int4Decode(pair % 16)
Hi(pair) == Int4Decode(pair \div 16)
WithLo(pair, value) == (pair \div 16) * 16 + Int4Encode(value)
WithHi(pair, value) == (pair % 16) + 16 * Int4Encode(value)

\* decodeInt4ToFloat64 sign-extends by shifting an int8 up and down.
Int8(byte) == IF byte >= 128 THEN byte - 256 ELSE byte
Int4Elements(byte) == <<Int8((byte * 16) % 256) \div 16, Int8(byte) \div 16>>
=============================================================================
