---------------------------- MODULE NumberCasts ----------------------------
(****************************************************************************)
(* What src/dtype/convert and the session do with the elements of a buffer: *)
(* a stored element is widened to float32, a float32 is narrowed to the     *)
(* element type of a tensor, and so on in any order; a packed pair of       *)
(* integers is read and one of its halves overwritten. Elements do not      *)
(* influence each other, so a buffer is one element, and what an element is *)
(* compared with is the definition of its format: a sign, an exponent with  *)
(* a bias and a significand, rounded to nearest with ties to even.          *)
(****************************************************************************)
EXTENDS NumberFormats

CONSTANTS Numbers,    \* float32 values to begin with
          Stored,     \* <<format, code>> pairs to begin with
          Integers4   \* int8 values written into a pair

ASSUME NumbersAssumption == Numbers \subseteq Float32s
ASSUME StoredAssumption ==
  \A element \in Stored : element[1] \in FloatFormats /\ element[2] \in Codes(element[1])
ASSUME Integers4Assumption == Integers4 \subseteq -128 .. 127

VARIABLES phase,     \* what number and code have to do with each other
          number,    \* a float32
          format,    \* the element type of code
          code,      \* an element
          pair,      \* a byte with two nibbles
          written    \* the values last written to them

castVars == <<phase, number, format, code, pair, written>>

Zero == Float32(0, 0, 0)

CastInit ==
  /\ pair = 0 /\ written = <<0, 0>>
  /\ \/ phase = "number" /\ number \in Numbers /\ format = "Float16" /\ code = 0
     \/ phase = "stored" /\ number = Zero
          /\ \E element \in Stored : format = element[1] /\ code = element[2]
     \/ phase = "pair" /\ number = Zero /\ format = "Int4" /\ code = 0

\* BytesToFloat32, and BytesToFloat64 through it.
WidenElement ==
  /\ phase \in {"stored", "narrowed"}
  /\ number' = Widen(format, code)
  /\ phase' = "widened"
  /\ UNCHANGED <<format, code, pair, written>>

\* BytesToFloat16 and its siblings, Float32AsDTypeBytes, float32VectorBytes.
NarrowElement ==
  /\ phase \in {"number", "widened"}
  /\ format' \in FloatFormats
  /\ code' = Narrow(format', number)
  /\ phase' = "narrowed"
  /\ UNCHANGED <<number, pair, written>>

\* FromNaN32ps.
KeepNaN ==
  /\ phase \in {"number", "widened"} /\ IsNaN(number)
  /\ format' = "Float16"
  /\ code' = NarrowNaN(number)
  /\ phase' = "kept"
  /\ UNCHANGED <<number, pair, written>>

NewInt4Pair ==
  /\ phase = "pair"
  /\ \E lo, hi \in Integers4 : /\ pair' = Int4Pair(lo, hi)
                               /\ written' = <<lo, hi>>
  /\ phase' = "packed"
  /\ UNCHANGED <<number, format, code>>

ReplaceNibble ==
  /\ phase = "packed"
  /\ \E value \in Integers4 :
       \/ pair' = WithLo(pair, value) /\ written' = [written EXCEPT ![1] = value]
       \/ pair' = WithHi(pair, value) /\ written' = [written EXCEPT ![2] = value]
  /\ UNCHANGED <<phase, number, format, code>>

CastNext == \/ WidenElement \/ NarrowElement \/ KeepNaN
            \/ NewInt4Pair \/ ReplaceNibble

CastSpec == CastInit /\ [][CastNext]_castVars

------------------------------------------------------------------------------
MantissaBits(f) == [Float16 |-> 10, BFloat16 |-> 7, Float8E4M3 |-> 3, Float8E5M2 |-> 2][f]
Bias(f) == [Float16 |-> 15, BFloat16 |-> 127, Float8E4M3 |-> 7, Float8E5M2 |-> 15][f]

\* The codes above every finite one; E4M3 has no infinity.
Infinity(f) ==
  [Float16 |-> 31744, BFloat16 |-> 32640, Float8E4M3 |-> 126, Float8E5M2 |-> 124][f]
IsNaNCode(f, c) == MagnitudeOf(f, c) > Infinity(f)

\* Where the leading one of a significand is.
LeadingBit(n) == CHOOSE k \in 0 .. 23 : n \in 2^k .. 2^(k + 1) - 1

\* The float32 with the value significand * 2^power.
FloatOf(sign, significand, power) ==
  IF significand = 0 THEN Float32(sign, 0, 0)
  ELSE LET k == LeadingBit(significand)
       IN  IF power + k >= -126
           THEN Float32(sign, power + k + 127, (significand - 2^k) * 2^(23 - k))
           ELSE Float32(sign, 0, significand * 2^(power + 149))

\* What a code means; for an infinity, where the next value would be.
ValueOf(f, c) ==
  LET m == MantissaBits(f)
      exponent == MagnitudeOf(f, c) \div 2^m
      mantissa == MagnitudeOf(f, c) % 2^m
  IN  IF exponent = 0 THEN FloatOf(SignOf(f, c), mantissa, 1 - Bias(f) - m)
      ELSE FloatOf(SignOf(f, c), mantissa + 2^m, exponent - Bias(f) - m)

\* The magnitude c or c + 1 nearest to a number between the two.
Nearer(f, x, c) ==
  LET below == ValueOf(f, c)
      above == ValueOf(f, c + 1)
      half == [above EXCEPT !.exp = @ - 1]
      next == IF above.exp = below.exp THEN above.coef ELSE Implicit
      Closer == x.coef - below.coef < next - x.coef
      Tie == x.coef - below.coef = next - x.coef
  IN  IF below.exp # x.exp \/ above.exp > x.exp + 1
      THEN IF Below(half, x) THEN c + 1 ELSE c      \* between 0 and the least
      ELSE IF Closer \/ (Tie /\ c % 2 = 0) THEN c ELSE c + 1

IsNearest(f, x, c) ==
  \/ c >= Infinity(f) /\ ~Below(x, ValueOf(f, Infinity(f)))
  \/ \E floor \in {c - 1, c} \cap 0 .. Infinity(f) - 1 :
       /\ ~Below(x, ValueOf(f, floor)) /\ Below(x, ValueOf(f, floor + 1))
       /\ Nearer(f, x, floor) = c

\* Where the 8-bit formats round as documented: from the least normal value up
\* to what still rounds to 240, or up to 57344.
RoundsAsDocumented(f, x) ==
  /\ f = "Float8E4M3" => x.exp >= 121 /\ Below(x, Float32(0, 134, 15 * 2^19))
  /\ f = "Float8E5M2" => x.exp >= 113 /\ ~Below(MaxE5M2, x)

\* Narrowing takes a number to the nearest element, and to the even one of two
\* as near, subnormals and the step to infinity included (float16.go:109-112,
\* bfloat16.go:20-40); the 8-bit formats do so in the range above.
NarrowingIsNearest ==
  phase = "narrowed" /\ ~IsNaN(number) /\ RoundsAsDocumented(format, number)
    => IsNearest(format, number, MagnitudeOf(format, code))

\* Widening is lossless: the float32 has the value the code stands for
\* (float16.go:162-163, bfloat16.go:77-81, fp8.go:35-38).
WideningIsExact ==
  phase = "widened" =>
    IF MagnitudeOf(format, code) < Infinity(format)
       \/ (format = "Float8E4M3" /\ ~IsNaNCode(format, code))
    THEN number = ValueOf(format, code)
    ELSE /\ IsNaN(number) <=> IsNaNCode(format, code)
         /\ number.exp = 255 /\ number.sign = SignOf(format, code)

\* A NaN stays one and nothing else becomes one, whichever way it is narrowed;
\* the sign stays too, except that of a NaN in 8 bits; and where the payload is
\* kept a signalling NaN still signals (float16.go:121-127).
SpecialsSurvive ==
  phase \in {"narrowed", "kept"} =>
    /\ IsNaN(number) <=> IsNaNCode(format, code)
    /\ format \in {"Float16", "BFloat16"} \/ ~IsNaN(number)
         => SignOf(format, code) = number.sign
    /\ IsInf(number) => MagnitudeOf(format, code) = Infinity(format)
    /\ phase = "kept" => (code \div 2^9) % 2 = number.coef \div 2^22

\* The filter that spares a conversion tells the truth: what it calls exact
\* comes back from binary16 as it was, and what it calls inexact, an underflow
\* or an overflow does not (float16.go:20-36).
PrecisionIsHonest ==
  phase = "number" /\ number.exp # 255 =>
    LET back == Widen("Float16", Narrow("Float16", number))
    IN  /\ Precision(number) = "exact" => back = number
        /\ Precision(number) \notin {"exact", "unknown"} => back # number

\* Each half of a pair holds what was last written to it, clamped, whatever is
\* written to the other; the decoder of a buffer reads the same two numbers
\* (int4.go:3-11, decoders.go:223-225).
NibblesAreIndependent ==
  LET Clamped(v) == IF v < -8 THEN -8 ELSE IF v > 7 THEN 7 ELSE v
  IN  /\ <<Lo(pair), Hi(pair)>> = <<Clamped(written[1]), Clamped(written[2])>>
      /\ Int4Elements(pair) = <<Lo(pair), Hi(pair)>>

\* The documentation's promise for the 8-bit formats: round to nearest even,
\* subnormals included, saturating above the largest finite value. A number
\* that the format represents is its own nearest (fp8.go:14-18).
RepresentableNumbersSurvive ==
  [][phase = "widened" /\ phase' = "narrowed" /\ format' = format
       /\ ~IsNaN(number)
     => code' = code]_castVars
=============================================================================
