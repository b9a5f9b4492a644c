---------------------------- MODULE NumberProofs ----------------------------
(****************************************************************************)
(* Proofs about the conversions of elements: packed pairs of 4-bit          *)
(* integers, for every integer that may be written to either half and any   *)
(* order of writes, and the four float formats, for every float32 and every *)
(* code of each, with any conversions one after the other.                  *)
(****************************************************************************)
EXTENDS NumberCasts, TLAPS

Clamp(v) == IF v < -8 THEN -8 ELSE IF v > 7 THEN 7 ELSE v

------------------------------------------------------------------------------
(* A nibble.                                                                *)

\* The two's complement of a clamped integer fits in a nibble and is undone by
\* sign extension.
LEMMA NibbleKeepsClamped ==
  ASSUME NEW v \in Int
  PROVE  /\ Int4Encode(v) \in 0 .. 15
         /\ Int4Decode(Int4Encode(v)) = Clamp(v)
<1>1. Clamp(v) \in -8 .. 7 /\ Int4Encode(v) = Clamp(v) % 16
  BY DEF Clamp, Int4Encode
<1>2. CASE Clamp(v) >= 0
  BY <1>1, <1>2 DEF Int4Decode
<1>3. CASE Clamp(v) < 0
  <2>1. Clamp(v) % 16 = Clamp(v) + 16
    BY <1>1, <1>3
  <2> QED
    BY <1>1, <1>3, <2>1 DEF Int4Decode
<1> QED
  BY <1>1, <1>2, <1>3

\* A byte made of two nibbles comes apart into them.
LEMMA ByteComesApart ==
  ASSUME NEW lo \in 0 .. 15, NEW hi \in 0 .. 15
  PROVE  /\ lo + 16 * hi \in 0 .. 255
         /\ (lo + 16 * hi) % 16 = lo
         /\ (lo + 16 * hi) \div 16 = hi
OBVIOUS

\* The shifts of the buffer decoder sign-extend the same two nibbles.
LEMMA DecodersAgree ==
  ASSUME NEW byte \in 0 .. 255
  PROVE  Int4Elements(byte) = <<Lo(byte), Hi(byte)>>
<1> DEFINE lo == byte % 16
           hi == byte \div 16
<1>1. lo \in 0 .. 15 /\ hi \in 0 .. 15 /\ byte = lo + 16 * hi
  OBVIOUS
<1> HIDE DEF lo, hi
<1>2. (byte * 16) % 256 = 16 * lo
  BY <1>1
<1>3. Int8(16 * lo) \div 16 = Int4Decode(lo)
  BY <1>1 DEF Int8, Int4Decode
<1>4. Int8(byte) \div 16 = Int4Decode(hi)
  <2>1. CASE hi >= 8
    <3>1. Int8(byte) = lo + 16 * (hi - 16)
      BY <1>1, <2>1 DEF Int8
    <3> QED
      BY <1>1, <2>1, <3>1 DEF Int4Decode
  <2>2. CASE hi < 8
    <3>1. Int8(byte) = lo + 16 * hi
      BY <1>1, <2>2 DEF Int8
    <3> QED
      BY <1>1, <2>2, <3>1 DEF Int4Decode
  <2> QED
    BY <1>1, <2>1, <2>2
<1> QED
  BY <1>2, <1>3, <1>4 DEF Int4Elements, Lo, Hi, lo, hi

------------------------------------------------------------------------------
(* The invariant: the byte is made of the two clamped integers.             *)

PairInv ==
  /\ written \in Int \X Int
  /\ pair = Int4Encode(written[1]) + 16 * Int4Encode(written[2])

\* The byte is made of the two clamped integers initially and after every write.
LEMMA PairInvIsInvariant == CastSpec => []PairInv
<1>1. CastInit => PairInv
  <2>1. Int4Encode(0) = 0
    BY DEF Int4Encode
  <2> QED
    BY <2>1 DEF CastInit, PairInv
<1>2. PairInv /\ [CastNext]_castVars => PairInv'
  <2> SUFFICES ASSUME PairInv, [CastNext]_castVars
               PROVE  PairInv'
    OBVIOUS
  <2>1. CASE UNCHANGED <<pair, written>>
    BY <2>1 DEF PairInv
  <2>2. CASE NewInt4Pair
    BY <2>2, Integers4Assumption DEF NewInt4Pair, PairInv, Int4Pair
  <2>3. CASE ReplaceNibble
    <3>1. PICK value \in Integers4 :
            \/ pair' = WithLo(pair, value) /\ written' = [written EXCEPT ![1] = value]
            \/ pair' = WithHi(pair, value) /\ written' = [written EXCEPT ![2] = value]
      BY <2>3 DEF ReplaceNibble
    <3>2. /\ value \in Int /\ written[1] \in Int /\ written[2] \in Int
          /\ Int4Encode(written[1]) \in 0 .. 15 /\ Int4Encode(written[2]) \in 0 .. 15
      BY Integers4Assumption, NibbleKeepsClamped DEF PairInv
    <3>3. /\ pair % 16 = Int4Encode(written[1])
          /\ pair \div 16 = Int4Encode(written[2])
      BY <3>2, ByteComesApart DEF PairInv
    <3>4. WithLo(pair, value) = Int4Encode(value) + 16 * Int4Encode(written[2])
      <4>1. Int4Encode(value) \in 0 .. 15
        BY <3>2, NibbleKeepsClamped
      <4> QED
        BY <3>2, <3>3, <4>1 DEF WithLo
    <3>5. WithHi(pair, value) = Int4Encode(written[1]) + 16 * Int4Encode(value)
      BY <3>3 DEF WithHi
    <3>6. written = <<written[1], written[2]>>
      BY DEF PairInv
    <3>7. CASE pair' = WithLo(pair, value) /\ written' = [written EXCEPT ![1] = value]
      <4>1. written' = <<value, written[2]>>
        BY <3>6, <3>7
      <4> QED
        BY <3>2, <3>4, <3>7, <4>1 DEF PairInv
    <3>8. CASE pair' = WithHi(pair, value) /\ written' = [written EXCEPT ![2] = value]
      <4>1. written' = <<written[1], value>>
        BY <3>6, <3>8
      <4> QED
        BY <3>2, <3>5, <3>8, <4>1 DEF PairInv
    <3> QED
      BY <3>1, <3>7, <3>8
  <2> QED
    BY <2>1, <2>2, <2>3 DEF CastNext, WidenElement, NarrowElement, KeepNaN, castVars
<1> QED
  BY <1>1, <1>2, PTL DEF CastSpec

\* The halves of a pair keep what was last written to each, clamped, and both
\* decoders of the program read the same two integers from the byte.
THEOREM PairsKeepBothHalves == CastSpec => []NibblesAreIndependent
<1>1. PairInv => NibblesAreIndependent
  <2> SUFFICES ASSUME PairInv
               PROVE  NibblesAreIndependent
    OBVIOUS
  <2>1. /\ written[1] \in Int /\ written[2] \in Int
        /\ Int4Encode(written[1]) \in 0 .. 15 /\ Int4Encode(written[2]) \in 0 .. 15
        /\ Int4Decode(Int4Encode(written[1])) = Clamp(written[1])
        /\ Int4Decode(Int4Encode(written[2])) = Clamp(written[2])
    BY NibbleKeepsClamped DEF PairInv
  <2>2. /\ pair \in 0 .. 255
        /\ pair % 16 = Int4Encode(written[1])
        /\ pair \div 16 = Int4Encode(written[2])
    BY <2>1, ByteComesApart DEF PairInv
  <2>3. Lo(pair) = Clamp(written[1]) /\ Hi(pair) = Clamp(written[2])
    BY <2>1, <2>2 DEF Lo, Hi
  <2>4. Int4Elements(pair) = <<Lo(pair), Hi(pair)>>
    BY <2>2, DecodersAgree
  <2> QED
    BY <2>3, <2>4 DEF NibblesAreIndependent, Clamp
<1> QED
  BY <1>1, PairInvIsInvariant, PTL

------------------------------------------------------------------------------
(* Fields, powers of two and divisions.                                     *)

\* Three fields in range make a float32.
LEMMA FieldsMake ==
  ASSUME NEW s \in {0, 1}, NEW e \in Int, 0 <= e, e <= 255, NEW c \in Int, 0 <= c, c < 8388608,
         NEW x, x = Float32(s, e, c)
  PROVE  /\ x \in Float32s
         /\ x.sign = s /\ x.exp = e /\ x.coef = c
<1>1. PICK greatest, last : greatest = 255 /\ last = Implicit - 1
  OBVIOUS
<1>2. last = 8388607
  BY <1>1 DEF Implicit
<1>3. e \in 0 .. greatest /\ c \in 0 .. last
  BY <1>1, <1>2
<1>4. x \in [sign : {0, 1}, exp : 0 .. greatest, coef : 0 .. last]
  BY <1>3 DEF Float32
<1>5. x.sign = s /\ x.exp = e /\ x.coef = c
  BY DEF Float32
<1> QED
  BY <1>1, <1>4, <1>5 DEF Float32s

\* The fields of a float32 are in range.
LEMMA FieldsHave ==
  ASSUME NEW x \in Float32s
  PROVE  /\ x.sign \in {0, 1}
         /\ x.exp \in Int /\ 0 <= x.exp /\ x.exp <= 255
         /\ x.coef \in Int /\ 0 <= x.coef /\ x.coef < 8388608
<1>1. PICK greatest, last : greatest = 255 /\ last = Implicit - 1
  OBVIOUS
<1>2. last = 8388607
  BY <1>1 DEF Implicit
<1>3. x \in [sign : {0, 1}, exp : 0 .. greatest, coef : 0 .. last]
  BY <1>1 DEF Float32s
<1>4. x.sign \in {0, 1} /\ x.exp \in 0 .. greatest /\ x.coef \in 0 .. last
  BY <1>3, Zenon
<1>5. PICK e, c : e = x.exp /\ c = x.coef
  OBVIOUS
<1>6. e \in 0 .. greatest /\ c \in 0 .. last
  BY <1>4, <1>5
<1>7. e \in Int /\ 0 <= e /\ e <= 255 /\ c \in Int /\ 0 <= c /\ c < 8388608
  BY <1>1, <1>2, <1>6
<1> QED
  BY <1>4, <1>5, <1>7

\* The codes of a format are the integers of its width.
LEMMA CodesAre ==
  ASSUME NEW f, NEW n \in Int, n = SignBit(f), NEW c
  PROVE  c \in Codes(f) <=> c \in Int /\ 0 <= c /\ c < 2 * n
BY DEF Codes

\* A power of two, as a name the provers do not look into.
Pow(k) == 2^k

\* The powers of two that the formats use.
LEMMA PowerTable ==
  /\ Pow(0) = 1 /\ Pow(1) = 2 /\ Pow(2) = 4 /\ Pow(3) = 8 /\ Pow(4) = 16
  /\ Pow(5) = 32 /\ Pow(6) = 64 /\ Pow(7) = 128 /\ Pow(8) = 256 /\ Pow(9) = 512
  /\ Pow(10) = 1024 /\ Pow(11) = 2048 /\ Pow(12) = 4096 /\ Pow(13) = 8192
  /\ Pow(14) = 16384 /\ Pow(15) = 32768 /\ Pow(16) = 65536 /\ Pow(17) = 131072
  /\ Pow(18) = 262144 /\ Pow(19) = 524288 /\ Pow(20) = 1048576 /\ Pow(21) = 2097152
  /\ Pow(22) = 4194304 /\ Pow(23) = 8388608 /\ Pow(24) = 16777216
BY DEF Pow

\* The powers are positive, double with each exponent and are monotone.
LEMMA PowersGrow ==
  /\ \A k \in 0 .. 24 : Pow(k) \in Nat /\ Pow(k) >= 1
  /\ \A k \in 0 .. 23 : Pow(k + 1) = 2 * Pow(k)
  /\ \A j \in 0 .. 24 : \A k \in 0 .. 24 : k <= j => Pow(k) <= Pow(j)
<1>1. \A k \in 0 .. 24 : Pow(k) \in Nat /\ Pow(k) >= 1
  BY PowerTable
<1>2. \A k \in 0 .. 23 : Pow(k + 1) = 2 * Pow(k)
  BY PowerTable
<1>3. \A j \in 0 .. 24 : \A k \in 0 .. 24 : k <= j => Pow(k) <= Pow(j)
  BY PowerTable
<1> QED
  BY <1>1, <1>2, <1>3

\* The widths, biases, infinities and sign bits of the four formats.
LEMMA Widths ==
  /\ MantissaBits("Float16") = 10 /\ MantissaBits("BFloat16") = 7
  /\ MantissaBits("Float8E4M3") = 3 /\ MantissaBits("Float8E5M2") = 2
  /\ Bias("Float16") = 15 /\ Bias("BFloat16") = 127
  /\ Bias("Float8E4M3") = 7 /\ Bias("Float8E5M2") = 15
  /\ Infinity("Float16") = 31744 /\ Infinity("BFloat16") = 32640
  /\ Infinity("Float8E4M3") = 126 /\ Infinity("Float8E5M2") = 124
  /\ SignBit("Float16") = 32768 /\ SignBit("BFloat16") = 32768
  /\ SignBit("Float8E4M3") = 128 /\ SignBit("Float8E5M2") = 128
BY DEF MantissaBits, Bias, Infinity, SignBit

\* The leading bit of an integer between two adjacent powers.
LEMMA LeadingBitIs ==
  ASSUME NEW j \in 0 .. 23, NEW n \in Int, Pow(j) <= n, n < Pow(j + 1)
  PROVE  LeadingBit(n) = j
<1>1. \A k \in 0 .. 23 : /\ Pow(k) \in Nat /\ Pow(k + 1) \in Nat
                         /\ (k < j => Pow(k + 1) <= Pow(j)) /\ (j < k => Pow(j + 1) <= Pow(k))
  <2> TAKE k \in 0 .. 23
  <2>1. /\ k \in 0 .. 24 /\ k + 1 \in 0 .. 24 /\ j \in 0 .. 24 /\ j + 1 \in 0 .. 24
        /\ (k < j => k + 1 <= j) /\ (j < k => j + 1 <= k)
    OBVIOUS
  <2> QED
    BY <2>1, PowersGrow
<1>2. n \in Pow(j) .. Pow(j + 1) - 1
  BY <1>1
<1>3. \A k \in 0 .. 23 : n \in Pow(k) .. Pow(k + 1) - 1 => k = j
  <2> SUFFICES ASSUME NEW k \in 0 .. 23, n \in Pow(k) .. Pow(k + 1) - 1
               PROVE  k = j
    OBVIOUS
  <2>1. Pow(k) <= n /\ n < Pow(k + 1)
    BY <1>1
  <2> QED
    BY <1>1, <2>1
<1>4. (CHOOSE k \in 0 .. 23 : n \in Pow(k) .. Pow(k + 1) - 1) = j
  BY <1>2, <1>3
<1> QED
  BY <1>4, Zenon DEF Pow, LeadingBit

\* The float32 of a significand whose leading bit is j.
Scaled(sign, n, j, power) ==
  IF power + j >= -126 THEN Float32(sign, power + j + 127, (n - Pow(j)) * Pow(23 - j))
  ELSE Float32(sign, 0, n * Pow(power + 149))

\* A significand other than zero makes the float32 that its leading bit scales.
LEMMA FloatOfScaled ==
  ASSUME NEW sign, NEW j \in 0 .. 23, NEW n \in Int, Pow(j) <= n, n < Pow(j + 1), NEW power \in Int
  PROVE  FloatOf(sign, n, power) = Scaled(sign, n, j, power)
<1>1. n # 0
  BY PowersGrow
<1>2. LeadingBit(n) = j
  BY LeadingBitIs
<1> QED
  BY <1>1, <1>2 DEF FloatOf, Pow, Scaled

\* Every positive integer lies between two adjacent powers.
LEMMA HasBinade ==
  ASSUME NEW m \in 1 .. 23, NEW n \in Nat, n >= 1, n < Pow(m)
  PROVE  \E j \in 0 .. m - 1 : Pow(j) <= n /\ n < Pow(j + 1)
BY PowerTable

\* The meaning of a code from its exponent and its mantissa.
LEMMA ValueByFields ==
  ASSUME NEW f, NEW c, NEW m \in Nat, m = MantissaBits(f), NEW b, b = Bias(f),
         NEW e, MagnitudeOf(f, c) \div Pow(m) = e, NEW q, MagnitudeOf(f, c) % Pow(m) = q
  PROVE  ValueOf(f, c) = IF e = 0 THEN FloatOf(SignOf(f, c), q, 1 - b - m)
                         ELSE FloatOf(SignOf(f, c), q + Pow(m), e - b - m)
BY DEF ValueOf, Pow

\* The exponent and the mantissa of a code.
LEMMA CodeFields ==
  ASSUME NEW f \in FloatFormats, NEW m, m = MantissaBits(f),
         NEW e \in Nat, NEW q \in Nat, q < Pow(m)
  PROVE  (e * Pow(m) + q) \div Pow(m) = e /\ (e * Pow(m) + q) % Pow(m) = q
<1>1. CASE m = 10
  BY <1>1, PowerTable
<1>2. CASE m = 7
  BY <1>2, PowerTable
<1>3. CASE m = 3
  BY <1>3, PowerTable
<1>4. CASE m = 2
  BY <1>4, PowerTable
<1> QED
  BY <1>1, <1>2, <1>3, <1>4, Widths DEF FloatFormats

\* What a code with an exponent means.
LEMMA NormalValue ==
  ASSUME NEW f \in FloatFormats, NEW m, m = MantissaBits(f), NEW b, b = Bias(f), NEW c,
         NEW e \in Nat, e >= 1, NEW q \in Nat, q < Pow(m), MagnitudeOf(f, c) = e * Pow(m) + q
  PROVE  ValueOf(f, c) = Float32(SignOf(f, c), e - b + 127, q * Pow(23 - m))
<1>1. m \in 0 .. 23 /\ b \in 0 .. 127 /\ Pow(m) \in Nat /\ Pow(m + 1) = 2 * Pow(m)
  BY Widths, PowersGrow DEF FloatFormats
<1>2. ValueOf(f, c) = FloatOf(SignOf(f, c), q + Pow(m), e - b - m)
  <2>1. MagnitudeOf(f, c) \div Pow(m) = e /\ MagnitudeOf(f, c) % Pow(m) = q
    BY CodeFields
  <2> QED
    BY <1>1, <2>1, ValueByFields
<1>n. PICK n, p, s : n = q + Pow(m) /\ p = e - b - m /\ s = SignOf(f, c)
  OBVIOUS
<1>3. n \in Int /\ Pow(m) <= n /\ n < Pow(m + 1) /\ p \in Int /\ p + m >= -126
  BY <1>1, <1>n
<1>4. FloatOf(s, n, p) = Scaled(s, n, m, p)
  <2>1. m \in 0 .. 23
    BY <1>1
  <2> QED
    BY <2>1, <1>3, FloatOfScaled, Zenon
<1>5. p + m + 127 = e - b + 127 /\ n - Pow(m) = q
  BY <1>1, <1>n
<1> QED
  BY <1>2, <1>3, <1>4, <1>5, <1>n DEF Scaled

\* What a code without an exponent means: a shifted significand, but in bfloat16
\* a subnormal float32.
LEMMA SubnormalValue ==
  ASSUME NEW f \in FloatFormats, NEW m, m = MantissaBits(f), NEW b, b = Bias(f), NEW c,
         NEW q \in Nat, MagnitudeOf(f, c) = q, q < Pow(m),
         NEW j \in 0 .. m - 1, Pow(j) <= q, q < Pow(j + 1)
  PROVE  ValueOf(f, c) =
           IF f # "BFloat16" THEN Float32(SignOf(f, c), 128 - b - m + j, (q - Pow(j)) * Pow(23 - j))
           ELSE Float32(SignOf(f, c), 0, q * Pow(16))
<1>1. m \in 2 .. 10 /\ b \in 0 .. 127 /\ j \in 0 .. 23
  BY Widths DEF FloatFormats
<1>2. ValueOf(f, c) = FloatOf(SignOf(f, c), q, 1 - b - m)
  <2>1. q = 0 * Pow(m) + q
    BY <1>1, PowersGrow
  <2>2. MagnitudeOf(f, c) \div Pow(m) = 0 /\ MagnitudeOf(f, c) % Pow(m) = q
    BY <2>1, CodeFields
  <2> QED
    BY <1>1, <2>2, ValueByFields
<1>3. FloatOf(SignOf(f, c), q, 1 - b - m) = Scaled(SignOf(f, c), q, j, 1 - b - m)
  <2>1. j \in 0 .. 23 /\ q \in Int /\ 1 - b - m \in Int
    BY <1>1
  <2> QED
    BY <2>1, FloatOfScaled, Zenon
<1>4. CASE f # "BFloat16"
  <2>1. b <= 15 /\ m <= 10
    BY <1>4, Widths DEF FloatFormats
  <2>2. (1 - b - m) + j >= -126 /\ (1 - b - m) + j + 127 = 128 - b - m + j
    BY <1>1, <2>1
  <2> QED
    BY <1>2, <1>3, <1>4, <2>2 DEF Scaled
<1>5. CASE f = "BFloat16"
  <2>1. b = 127 /\ m = 7
    BY <1>5, Widths
  <2>2. ~((1 - b - m) + j >= -126) /\ (1 - b - m) + 149 = 16
    BY <1>1, <2>1
  <2> QED
    BY <1>2, <1>3, <1>5, <2>2 DEF Scaled
<1> QED
  BY <1>4, <1>5

\* What the least magnitude means.
LEMMA ZeroValue ==
  ASSUME NEW f \in FloatFormats, NEW c, MagnitudeOf(f, c) = 0
  PROVE  ValueOf(f, c) = Float32(SignOf(f, c), 0, 0)
<1> PICK m, b : m = MantissaBits(f) /\ b = Bias(f)
  OBVIOUS
<1>1. m \in 2 .. 10
  BY Widths DEF FloatFormats
<1>2. 0 = 0 * Pow(m) + 0 /\ 0 < Pow(m)
  BY <1>1, PowersGrow
<1>3. MagnitudeOf(f, c) \div Pow(m) = 0 /\ MagnitudeOf(f, c) % Pow(m) = 0
  BY <1>2, CodeFields
<1>4. ValueOf(f, c) = FloatOf(SignOf(f, c), 0, 1 - b - m)
  BY <1>1, <1>3, ValueByFields
<1> QED
  BY <1>4 DEF FloatOf

\* A code with an exponent is widened by placing its fields.
LEMMA WidenNormal ==
  ASSUME NEW m \in {2, 3, 10}, NEW e \in Nat, e >= 1, NEW q \in Nat, q < Pow(m),
         NEW bias \in Int, NEW sign
  PROVE  WidenFields(sign, e, q, m, bias) = Float32(sign, e - bias + 127, q * Pow(23 - m))
<1>1. (q * 2^0) % 2^m = q
  <2>1. CASE m = 2
    BY <2>1, PowerTable
  <2>2. CASE m = 3
    BY <2>2, PowerTable
  <2>3. CASE m = 10
    BY <2>3, PowerTable
  <2> QED
    BY <2>1, <2>2, <2>3
<1> QED
  BY <1>1 DEF WidenFields, Pow

\* The shifting loop brings the leading bit to the top and keeps the rest.
LEMMA ShiftsAre ==
  ASSUME NEW m \in {2, 3, 10}, NEW j \in 0 .. m - 1, NEW q \in Nat, Pow(j) <= q, q < Pow(j + 1)
  PROVE  /\ Shifts(q, m) = m - j
         /\ ((q * Pow(m - j)) % Pow(m)) * Pow(23 - m) = (q - Pow(j)) * Pow(23 - j)
<1>1. \A s \in 1 .. m : q * Pow(s) \in Pow(m) .. Pow(m + 1) - 1 => s = m - j
  <2>1. CASE m = 2
    BY <2>1, PowerTable
  <2>2. CASE m = 3
    BY <2>2, PowerTable
  <2>3. CASE m = 10
    BY <2>3, PowerTable
  <2> QED
    BY <2>1, <2>2, <2>3
<1>2. q * Pow(m - j) \in Pow(m) .. Pow(m + 1) - 1
  <2>1. CASE m = 2
    BY <2>1, PowerTable
  <2>2. CASE m = 3
    BY <2>2, PowerTable
  <2>3. CASE m = 10
    BY <2>3, PowerTable
  <2> QED
    BY <2>1, <2>2, <2>3
<1>3. Shifts(q, m) = m - j
  <2>1. \A s \in 1 .. m : q * 2^s \in 2^m .. 2^(m + 1) - 1 => s = m - j
    BY <1>1 DEF Pow
  <2>2. q * 2^(m - j) \in 2^m .. 2^(m + 1) - 1
    BY <1>2 DEF Pow
  <2>3. m - j \in 1 .. m
    OBVIOUS
  <2> QED
    BY <2>1, <2>2, <2>3 DEF Shifts
<1>4. ((q * Pow(m - j)) % Pow(m)) * Pow(23 - m) = (q - Pow(j)) * Pow(23 - j)
  <2>1. CASE m = 2
    BY <2>1, PowerTable
  <2>2. CASE m = 3
    BY <2>2, PowerTable
  <2>3. CASE m = 10
    BY <2>3, PowerTable
  <2> QED
    BY <2>1, <2>2, <2>3
<1> QED
  BY <1>3, <1>4

------------------------------------------------------------------------------
(* Widening.                                                                *)

\* What the shifting loop of a widening makes of a code is what the code means.
IsWidened(f, c, x) ==
  /\ x = ValueOf(f, c)
  /\ x \in Float32s /\ x.sign = SignOf(f, c) /\ x.exp < 255
  /\ x.coef % 8192 = 0
  /\ x.exp < 103 => x.exp = 0 /\ x.coef = 0

\* The loop gives every finite code of the three narrow formats its meaning, and
\* leaves the low bits of the significand zero.
LEMMA FieldsWiden ==
  ASSUME NEW f \in FloatFormats, f # "BFloat16", NEW m, m = MantissaBits(f), NEW b, b = Bias(f),
         NEW c, SignOf(f, c) \in {0, 1},
         NEW e \in Nat, e <= 30, NEW q \in Nat, q < Pow(m), MagnitudeOf(f, c) = e * Pow(m) + q
  PROVE  IsWidened(f, c, WidenFields(SignOf(f, c), e, q, m, b))
<1>s. PICK s : s = SignOf(f, c)
  OBVIOUS
<1>x. PICK x : x = WidenFields(s, e, q, m, b)
  OBVIOUS
<1>1. m \in {2, 3, 10} /\ b \in {7, 15}
  BY Widths DEF FloatFormats
<1>2. CASE e >= 1
  <2>1. x = Float32(s, e - b + 127, q * Pow(23 - m))
    <3>1. e \in Nat /\ b \in Int
      BY <1>1
    <3> QED
      BY <1>1, <1>2, <1>x, <3>1, WidenNormal
  <2>2. ValueOf(f, c) = Float32(s, e - b + 127, q * Pow(23 - m))
    BY <1>2, <1>s, NormalValue
  <2>3. PICK h, k : h = e - b + 127 /\ k = q * Pow(23 - m)
    OBVIOUS
  <2>4. k \in Int /\ 0 <= k /\ k < 8388608 /\ k % 8192 = 0
    BY <1>1, <2>3, PowerTable
  <2>5. h \in Int /\ 103 <= h /\ h <= 254
    BY <1>1, <1>2, <2>3
  <2>6. x = Float32(s, h, k)
    BY <2>1, <2>3
  <2>7. x \in Float32s /\ x.sign = s /\ x.exp = h /\ x.coef = k
    BY <1>s, <2>4, <2>5, <2>6, FieldsMake
  <2> QED
    BY <1>s, <1>x, <2>1, <2>2, <2>4, <2>5, <2>7 DEF IsWidened
<1>3. CASE e = 0 /\ q >= 1
  <2>1. PICK j \in 0 .. m - 1 : Pow(j) <= q /\ q < Pow(j + 1)
    BY <1>1, <1>3, HasBinade
  <2>2. x = Float32(s, 128 - b - m + j, (q - Pow(j)) * Pow(23 - j))
    <3>1. /\ Shifts(q, m) = m - j
          /\ ((q * Pow(m - j)) % Pow(m)) * Pow(23 - m) = (q - Pow(j)) * Pow(23 - j)
      BY <1>1, <2>1, ShiftsAre
    <3>2. x = Float32(s, 1 - Shifts(q, m) - b + 127,
                      ((q * Pow(Shifts(q, m))) % Pow(m)) * Pow(23 - m))
      BY <1>3, <1>x DEF WidenFields, Pow
    <3>3. 1 - (m - j) - b + 127 = 128 - b - m + j
      BY <1>1
    <3> QED
      BY <3>1, <3>2, <3>3
  <2>3. ValueOf(f, c) = Float32(s, 128 - b - m + j, (q - Pow(j)) * Pow(23 - j))
    <3>1. MagnitudeOf(f, c) = q
      BY <1>1, <1>3, PowersGrow
    <3> QED
      BY <1>s, <2>1, <3>1, SubnormalValue
  <2>4. PICK h, k : h = 128 - b - m + j /\ k = (q - Pow(j)) * Pow(23 - j)
    OBVIOUS
  <2>5. k \in Int /\ 0 <= k /\ k < 8388608 /\ k % 8192 = 0
    <3>1. CASE m = 2
      BY <2>1, <2>4, <3>1, PowerTable
    <3>2. CASE m = 3
      BY <2>1, <2>4, <3>2, PowerTable
    <3>3. CASE m = 10
      BY <2>1, <2>4, <3>3, PowerTable
    <3> QED
      BY <1>1, <3>1, <3>2, <3>3
  <2>6. h \in Int /\ 103 <= h /\ h <= 254
    BY <1>1, <2>1, <2>4, Widths DEF FloatFormats
  <2>7. x = Float32(s, h, k)
    BY <2>2, <2>4
  <2>8. x \in Float32s /\ x.sign = s /\ x.exp = h /\ x.coef = k
    BY <1>s, <2>5, <2>6, <2>7, FieldsMake
  <2> QED
    BY <1>s, <1>x, <2>2, <2>3, <2>5, <2>6, <2>8 DEF IsWidened
<1>4. CASE e = 0 /\ q = 0
  <2>1. x = Float32(s, 0, 0)
    BY <1>4, <1>x DEF WidenFields
  <2>2. MagnitudeOf(f, c) = 0
    BY <1>1, <1>4, PowersGrow
  <2>3. ValueOf(f, c) = Float32(s, 0, 0)
    BY <1>s, <2>2, ZeroValue
  <2>4. x \in Float32s /\ x.sign = s /\ x.exp = 0 /\ x.coef = 0
    BY <1>s, <2>1, FieldsMake
  <2> QED
    BY <1>s, <1>x, <2>1, <2>3, <2>4 DEF IsWidened
<1> QED
  BY <1>2, <1>3, <1>4, <1>s, <1>x

\* What WideningIsExact asks of the float32 made of a code.
IsExact(f, c, x) ==
  IF MagnitudeOf(f, c) < Infinity(f) \/ (f = "Float8E4M3" /\ ~IsNaNCode(f, c))
  THEN x = ValueOf(f, c)
  ELSE (IsNaN(x) <=> IsNaNCode(f, c)) /\ x.exp = 255 /\ x.sign = SignOf(f, c)

\* binary16 is widened exactly, and what comes of it fits in binary16.
LEMMA Float16Widens ==
  ASSUME NEW c \in Codes("Float16"), NEW x, x = WidenFloat16(c)
  PROVE  /\ IsExact("Float16", c, x) /\ x \in Float32s
         /\ x.coef % 8192 = 0 /\ (x.exp < 103 => x.exp = 0 /\ x.coef = 0)
<1> PICK f : f = "Float16"
  OBVIOUS
<1>c. c \in Int /\ 0 <= c /\ c < 65536
  BY Widths, CodesAre
<1>f. PICK s, e, q : s = c \div 32768 /\ e = (c \div 1024) % 32 /\ q = c % 1024
  OBVIOUS
<1>1. /\ s \in {0, 1} /\ e \in Int /\ 0 <= e /\ e <= 31 /\ q \in Int /\ 0 <= q /\ q < 1024
      /\ c % 32768 = e * 1024 + q
  BY <1>c, <1>f
<1>2. SignOf(f, c) = s /\ MagnitudeOf(f, c) = e * 1024 + q /\ Infinity(f) = 31744
  BY <1>f, <1>1, Widths DEF SignOf, MagnitudeOf
<1>3. x = IF e # 31 THEN WidenFields(s, e, q, 10, 15)
          ELSE Float32(s, 255, IF q = 0 THEN 0 ELSE 4194304 + ((q % 512) * 8192))
  BY <1>f DEF WidenFloat16
<1>4. CASE e # 31
  <2>1. IsWidened(f, c, WidenFields(SignOf(f, c), e, q, 10, 15))
    <3>1. 10 = MantissaBits(f) /\ 15 = Bias(f) /\ f \in FloatFormats /\ f # "BFloat16"
      BY Widths DEF FloatFormats
    <3>2. /\ SignOf(f, c) \in {0, 1} /\ e \in Nat /\ e <= 30 /\ q \in Nat /\ q < Pow(10)
          /\ MagnitudeOf(f, c) = e * Pow(10) + q
      BY <1>1, <1>2, <1>4, PowerTable
    <3> QED
      BY <3>1, <3>2, FieldsWiden
  <2>2. IsWidened(f, c, x)
    BY <1>2, <1>3, <1>4, <2>1
  <2>3. MagnitudeOf(f, c) < Infinity(f)
    BY <1>1, <1>2, <1>4
  <2> QED
    BY <2>2, <2>3 DEF IsWidened, IsExact
<1>5. CASE e = 31
  <2>1. x = Float32(s, 255, IF q = 0 THEN 0 ELSE 4194304 + ((q % 512) * 8192))
    BY <1>3, <1>5
  <2>2. PICK k : k = IF q = 0 THEN 0 ELSE 4194304 + ((q % 512) * 8192)
    OBVIOUS
  <2>3. k \in Int /\ 0 <= k /\ k < 8388608 /\ k % 8192 = 0 /\ (k = 0 <=> q = 0)
    BY <1>1, <2>2
  <2>4. x = Float32(s, 255, k)
    BY <2>1, <2>2
  <2>5. x \in Float32s /\ x.exp = 255 /\ x.coef = k /\ x.sign = s
    BY <1>1, <2>3, <2>4, FieldsMake
  <2>6. ~(MagnitudeOf(f, c) < Infinity(f)) /\ (IsNaNCode(f, c) <=> q # 0)
    BY <1>1, <1>2, <1>5 DEF IsNaNCode
  <2>7. IsNaN(x) <=> q # 0
    BY <2>3, <2>5 DEF IsNaN
  <2> QED
    BY <1>2, <2>3, <2>5, <2>6, <2>7 DEF IsExact
<1> QED
  BY <1>4, <1>5, <1>1

\* bfloat16 is widened exactly.
LEMMA BFloat16Widens ==
  ASSUME NEW c \in Codes("BFloat16"), NEW x, x = WidenBFloat16(c)
  PROVE  IsExact("BFloat16", c, x) /\ x \in Float32s
<1> PICK f : f = "BFloat16"
  OBVIOUS
<1>c. c \in Int /\ 0 <= c /\ c < 65536
  BY Widths, CodesAre
<1>f. PICK s, e, q : s = c \div 32768 /\ e = (c \div 128) % 256 /\ q = c % 128
  OBVIOUS
<1>1. /\ s \in {0, 1} /\ e \in Int /\ 0 <= e /\ e <= 255 /\ q \in Int /\ 0 <= q /\ q < 128
      /\ c % 32768 = e * 128 + q
  BY <1>c, <1>f
<1>2. /\ SignOf(f, c) = s /\ MagnitudeOf(f, c) = e * 128 + q /\ Infinity(f) = 32640
      /\ 7 = MantissaBits(f) /\ 127 = Bias(f) /\ f \in FloatFormats
      /\ Pow(7) = 128 /\ Pow(16) = 65536
  BY <1>f, <1>1, Widths, PowerTable DEF SignOf, MagnitudeOf, FloatFormats
<1>3. x = Float32(s, e, q * 65536)
  BY <1>f DEF WidenBFloat16
<1>4. x \in Float32s /\ x.exp = e /\ x.coef = q * 65536 /\ x.sign = s
  <2>1. q * 65536 \in Int /\ 0 <= q * 65536 /\ q * 65536 < 8388608
    BY <1>1
  <2> QED
    BY <1>1, <1>3, <2>1, FieldsMake
<1>5. CASE e # 255
  <2>1. x = ValueOf(f, c)
    <3>1. CASE e >= 1
      <4>1. e \in Nat /\ q \in Nat /\ q < Pow(7) /\ MagnitudeOf(f, c) = e * Pow(7) + q
        BY <1>1, <1>2
      <4>2. ValueOf(f, c) = Float32(SignOf(f, c), e - 127 + 127, q * Pow(23 - 7))
        BY <1>2, <3>1, <4>1, NormalValue
      <4> QED
        BY <1>1, <1>2, <1>3, <4>2
    <3>2. CASE e = 0 /\ q >= 1
      <4>1. PICK j \in 0 .. 7 - 1 : Pow(j) <= q /\ q < Pow(j + 1)
        BY <1>1, <1>2, <3>2, HasBinade
      <4>2. q \in Nat /\ q < Pow(7) /\ MagnitudeOf(f, c) = q
        BY <1>1, <1>2, <3>2
      <4>3. ValueOf(f, c) = Float32(SignOf(f, c), 0, q * Pow(16))
        BY <1>2, <4>1, <4>2, SubnormalValue
      <4> QED
        BY <1>2, <1>3, <3>2, <4>3
    <3>3. CASE e = 0 /\ q = 0
      <4>1. MagnitudeOf(f, c) = 0
        BY <1>2, <3>3
      <4> QED
        BY <1>2, <1>3, <3>3, <4>1, ZeroValue
    <3> QED
      BY <1>1, <3>1, <3>2, <3>3
  <2>2. MagnitudeOf(f, c) < Infinity(f)
    BY <1>1, <1>2, <1>5
  <2> QED
    BY <1>4, <2>1, <2>2 DEF IsExact
<1>6. CASE e = 255
  <2>1. ~(MagnitudeOf(f, c) < Infinity(f)) /\ (IsNaNCode(f, c) <=> q # 0)
    BY <1>1, <1>2, <1>6 DEF IsNaNCode
  <2>2. IsNaN(x) <=> q # 0
    BY <1>1, <1>4, <1>6 DEF IsNaN
  <2> QED
    BY <1>2, <1>4, <1>6, <2>1, <2>2 DEF IsExact
<1> QED
  BY <1>5, <1>6

\* E4M3 is widened exactly.
LEMMA E4M3Widens ==
  ASSUME NEW c \in Codes("Float8E4M3"), NEW x, x = WidenFloat8E4M3(c)
  PROVE  IsExact("Float8E4M3", c, x) /\ x \in Float32s
<1> PICK f : f = "Float8E4M3"
  OBVIOUS
<1>c. c \in Int /\ 0 <= c /\ c < 256
  BY Widths, CodesAre
<1>f. PICK s, e, q : s = c \div 128 /\ e = (c \div 8) % 16 /\ q = c % 8
  OBVIOUS
<1>1. /\ s \in {0, 1} /\ e \in Int /\ 0 <= e /\ e <= 15 /\ q \in Int /\ 0 <= q /\ q < 8
      /\ c % 128 = e * 8 + q
  BY <1>c, <1>f
<1>2. SignOf(f, c) = s /\ MagnitudeOf(f, c) = e * 8 + q /\ Infinity(f) = 126
  BY <1>f, <1>1, Widths DEF SignOf, MagnitudeOf
<1>3. x = IF e * 8 + q = 127 THEN Float32(s, 255, 4194304) ELSE WidenFields(s, e, q, 3, 7)
  BY <1>f, <1>1 DEF WidenFloat8E4M3
<1>4. CASE e * 8 + q # 127
  <2>1. IsWidened(f, c, WidenFields(SignOf(f, c), e, q, 3, 7))
    <3>1. 3 = MantissaBits(f) /\ 7 = Bias(f) /\ f \in FloatFormats /\ f # "BFloat16"
      BY Widths DEF FloatFormats
    <3>2. /\ SignOf(f, c) \in {0, 1} /\ e \in Nat /\ e <= 30 /\ q \in Nat /\ q < Pow(3)
          /\ MagnitudeOf(f, c) = e * Pow(3) + q
      BY <1>1, <1>2, <1>4, PowerTable
    <3> QED
      BY <3>1, <3>2, FieldsWiden
  <2>2. IsWidened(f, c, x)
    BY <1>2, <1>3, <1>4, <2>1
  <2>3. ~IsNaNCode(f, c)
    BY <1>1, <1>2, <1>4 DEF IsNaNCode
  <2> QED
    BY <2>2, <2>3 DEF IsWidened, IsExact
<1>5. CASE e * 8 + q = 127
  <2>1. x \in Float32s /\ x.exp = 255 /\ IsNaN(x) /\ x.sign = s
    BY <1>1, <1>3, <1>5, FieldsMake DEF IsNaN
  <2>2. ~(MagnitudeOf(f, c) < Infinity(f)) /\ IsNaNCode(f, c)
    BY <1>2, <1>5 DEF IsNaNCode
  <2> QED
    BY <1>2, <2>1, <2>2 DEF IsExact
<1> QED
  BY <1>4, <1>5

\* E5M2 is widened exactly.
LEMMA E5M2Widens ==
  ASSUME NEW c \in Codes("Float8E5M2"), NEW x, x = WidenFloat8E5M2(c)
  PROVE  IsExact("Float8E5M2", c, x) /\ x \in Float32s
<1> PICK f : f = "Float8E5M2"
  OBVIOUS
<1>c. c \in Int /\ 0 <= c /\ c < 256
  BY Widths, CodesAre
<1>f. PICK s, e, q : s = c \div 128 /\ e = (c \div 4) % 32 /\ q = c % 4
  OBVIOUS
<1>1. /\ s \in {0, 1} /\ e \in Int /\ 0 <= e /\ e <= 31 /\ q \in Int /\ 0 <= q /\ q < 4
      /\ c % 128 = e * 4 + q
  BY <1>c, <1>f
<1>2. SignOf(f, c) = s /\ MagnitudeOf(f, c) = e * 4 + q /\ Infinity(f) = 124
  BY <1>f, <1>1, Widths DEF SignOf, MagnitudeOf
<1>3. x = IF e # 31 THEN WidenFields(s, e, q, 2, 15)
          ELSE Float32(s, 255, IF q = 0 THEN 0 ELSE 4194304 + ((q % 2) * 2097152))
  BY <1>f DEF WidenFloat8E5M2
<1>4. CASE e # 31
  <2>1. IsWidened(f, c, WidenFields(SignOf(f, c), e, q, 2, 15))
    <3>1. 2 = MantissaBits(f) /\ 15 = Bias(f) /\ f \in FloatFormats /\ f # "BFloat16"
      BY Widths DEF FloatFormats
    <3>2. /\ SignOf(f, c) \in {0, 1} /\ e \in Nat /\ e <= 30 /\ q \in Nat /\ q < Pow(2)
          /\ MagnitudeOf(f, c) = e * Pow(2) + q
      BY <1>1, <1>2, <1>4, PowerTable
    <3> QED
      BY <3>1, <3>2, FieldsWiden
  <2>2. IsWidened(f, c, x)
    BY <1>2, <1>3, <1>4, <2>1
  <2>3. MagnitudeOf(f, c) < Infinity(f)
    BY <1>1, <1>2, <1>4
  <2> QED
    BY <2>2, <2>3 DEF IsWidened, IsExact
<1>5. CASE e = 31
  <2>1. x = Float32(s, 255, IF q = 0 THEN 0 ELSE 4194304 + ((q % 2) * 2097152))
    BY <1>3, <1>5
  <2>2. x \in Float32s /\ x.exp = 255 /\ x.sign = s /\ (IsNaN(x) <=> q # 0)
    <3>1. PICK k : k = IF q = 0 THEN 0 ELSE 4194304 + ((q % 2) * 2097152)
      OBVIOUS
    <3>2. k \in Int /\ 0 <= k /\ k < 8388608 /\ (k = 0 <=> q = 0)
      BY <1>1, <3>1
    <3> QED
      BY <1>1, <2>1, <3>1, <3>2, FieldsMake DEF IsNaN
  <2>3. ~(MagnitudeOf(f, c) < Infinity(f)) /\ (IsNaNCode(f, c) <=> q # 0)
    BY <1>1, <1>2, <1>5 DEF IsNaNCode
  <2> QED
    BY <1>2, <2>2, <2>3 DEF IsExact
<1> QED
  BY <1>4, <1>5

\* A code of any format is widened exactly.
LEMMA WidenIsExact ==
  ASSUME NEW f \in FloatFormats, NEW c \in Codes(f)
  PROVE  IsExact(f, c, Widen(f, c)) /\ Widen(f, c) \in Float32s
<1>1. CASE f = "Float16"
  <2>1. Widen(f, c) = WidenFloat16(c)
    BY <1>1, Zenon DEF Widen
  <2> QED
    BY <1>1, <2>1, Float16Widens
<1>2. CASE f = "BFloat16"
  <2>1. Widen(f, c) = WidenBFloat16(c)
    BY <1>2, Zenon DEF Widen
  <2> QED
    BY <1>2, <2>1, BFloat16Widens
<1>3. CASE f = "Float8E4M3"
  <2>1. Widen(f, c) = WidenFloat8E4M3(c)
    BY <1>3, Zenon DEF Widen
  <2> QED
    BY <1>3, <2>1, E4M3Widens
<1>4. CASE f = "Float8E5M2"
  <2>1. Widen(f, c) = WidenFloat8E5M2(c)
    BY <1>4, Zenon DEF Widen
  <2> QED
    BY <1>4, <2>1, E5M2Widens
<1> QED
  BY <1>1, <1>2, <1>3, <1>4 DEF FloatFormats

------------------------------------------------------------------------------
(* Rounding.                                                                *)

\* Of the two codes at a number, the upper one when the part r of the unit u
\* that is cut off is more than half, or half and the lower code odd.
Rounded(lower, r, u) ==
  IF 2 * r > u \/ (2 * r = u /\ lower % 2 = 1) THEN lower + 1 ELSE lower

\* A division with remainder.
Splits(n, u, q, r) == q \in Nat /\ r \in Nat /\ r < u /\ n = q * u + r

\* Division by a positive integer is one.
LEMMA Division ==
  ASSUME NEW n \in Nat, NEW u \in Nat, u >= 1
  PROVE  Splits(n, u, n \div u, n % u)
BY DEF Splits

\* It is the only one.
LEMMA OneDivision ==
  ASSUME NEW n \in Nat, NEW u \in Nat, u >= 1, NEW q, NEW r, Splits(n, u, q, r)
  PROVE  n \div u = q /\ n % u = r
<1>0. q \in Nat /\ r \in Nat /\ r < u /\ n = q * u + r
  BY DEF Splits
<1>1. PICK p, s : p = n \div u /\ s = n % u
  OBVIOUS
<1>2. p \in Nat /\ s \in Nat /\ s < u /\ n = p * u + s
  BY <1>1, Division DEF Splits
<1>3. CASE p >= q + 1
  <2>1. PICK d \in Nat : p = q + 1 + d
    BY <1>0, <1>2, <1>3
  <2>2. p * u = q * u + u + d * u /\ d * u >= 0
    BY <1>0, <2>1
  <2> QED
    BY <1>0, <1>2, <2>2
<1>4. CASE q >= p + 1
  <2>1. PICK d \in Nat : q = p + 1 + d
    BY <1>0, <1>2, <1>4
  <2>2. q * u = p * u + u + d * u /\ d * u >= 0
    BY <1>0, <1>2, <2>1
  <2> QED
    BY <1>0, <1>2, <2>2
<1>5. CASE p = q
  BY <1>0, <1>1, <1>2, <1>5
<1> QED
  BY <1>0, <1>2, <1>3, <1>4, <1>5

\* The powers whose product is the leading one of a float32.
LEMMA PowersToImplicit ==
  ASSUME NEW j \in 0 .. 11
  PROVE  Pow(j) * Pow(23 - j) = 8388608 /\ Pow(j + 1) * Pow(23 - j) = 16777216
BY PowerTable

\* The test of the three bits at the cut is rounding to nearest, ties to even.
LEMMA RoundsUpIs ==
  ASSUME NEW k \in 12 .. 23, NEW n \in Nat, n < 16777216, NEW u, u = Pow(k + 1)
  PROVE  n \div u + Increment(n, Pow(k)) = Rounded(n \div u, n % u, u)
<1>1. PICK h : h = Pow(k)
  OBVIOUS
<1>2. h \in Nat /\ h >= 1 /\ u = 2 * h
  BY <1>1, PowersGrow
<1>3. PICK q, r : q = n \div u /\ r = n % u
  OBVIOUS
<1>4. q \in Nat /\ r \in Nat /\ r < u /\ n = q * u + r
  <2>1. u \in Nat /\ u >= 1
    BY <1>2
  <2>2. Splits(n, u, n \div u, n % u)
    BY <2>1, Division
  <2>3. Splits(n, u, q, r)
    BY <1>3, <2>2
  <2> QED
    BY <2>3 DEF Splits
<1>5. /\ n \div h = 2 * q + (IF r >= h THEN 1 ELSE 0)
      /\ n % h = IF r >= h THEN r - h ELSE r
  <2>1. CASE r >= h
    <3>1. n = (2 * q + 1) * h + (r - h)
      BY <1>2, <1>4
    <3>2. r - h \in Nat /\ r - h < h /\ 2 * q + 1 \in Nat
      BY <1>2, <1>4, <2>1
    <3>3. Splits(n, h, 2 * q + 1, r - h)
      BY <3>1, <3>2 DEF Splits
    <3>4. n \div h = 2 * q + 1 /\ n % h = r - h
      BY <1>2, <3>3, OneDivision
    <3> QED
      BY <2>1, <3>4
  <2>2. CASE ~(r >= h)
    <3>1. n = (2 * q) * h + r
      BY <1>2, <1>4
    <3>2. r < h /\ 2 * q \in Nat
      BY <1>2, <1>4, <2>2
    <3>3. Splits(n, h, 2 * q, r)
      BY <1>4, <3>1, <3>2 DEF Splits
    <3>4. n \div h = 2 * q /\ n % h = r
      BY <1>2, <3>3, OneDivision
    <3> QED
      BY <1>4, <2>2, <3>4
  <2> QED
    BY <2>1, <2>2
<1>7. RoundsUp(n, h) <=> (r >= h /\ (r - h # 0 \/ q % 2 = 1))
  <2>1. (n \div h) % 2 = 1 <=> r >= h
    BY <1>4, <1>5
  <2>2. n \div (2 * h) = q
    BY <1>2, <1>3
  <2> QED
    BY <1>5, <2>1, <2>2 DEF RoundsUp
<1>8. RoundsUp(n, h) <=> (2 * r > u \/ (2 * r = u /\ q % 2 = 1))
  BY <1>2, <1>4, <1>7
<1> QED
  BY <1>1, <1>3, <1>4, <1>8 DEF Increment, Rounded

\* Between two adjacent codes the nearer one is the one that rounding the cut-off
\* part chooses.
LEMMA NearestIs ==
  ASSUME NEW f, NEW x \in Float32s, NEW c \in Nat, c < Infinity(f), Infinity(f) \in Nat,
         NEW u \in Nat, NEW b \in Nat, b <= x.coef, x.coef < b + u,
         ValueOf(f, c).exp = x.exp, ValueOf(f, c).coef = b,
         \/ ValueOf(f, c + 1).exp = x.exp /\ ValueOf(f, c + 1).coef = b + u
         \/ ValueOf(f, c + 1).exp = x.exp + 1 /\ ValueOf(f, c + 1).coef = 0 /\ b + u = Implicit
  PROVE  IsNearest(f, x, Rounded(c, x.coef - b, u))
<1>v. PICK below, above : below = ValueOf(f, c) /\ above = ValueOf(f, c + 1)
  OBVIOUS
<1>x. PICK h, k : h = x.exp /\ k = x.coef
  OBVIOUS
<1>0. h \in Int /\ k \in Int
  BY <1>x, FieldsHave
<1>1. /\ below.exp = h /\ below.coef = b
      /\ \/ above.exp = h /\ above.coef = b + u
         \/ above.exp = h + 1 /\ above.coef = 0 /\ b + u = Implicit
  BY <1>v, <1>x
<1>2. ~Below(x, below) /\ Below(x, above)
  BY <1>0, <1>1, <1>x DEF Below
<1>3. Nearer(f, x, c) = Rounded(c, k - b, u)
  <2>1. (IF above.exp = below.exp THEN above.coef ELSE Implicit) = b + u
    BY <1>0, <1>1
  <2>2. ~(below.exp # h \/ above.exp > h + 1)
    BY <1>0, <1>1
  <2>3. Nearer(f, x, c) = IF \/ k - b < (b + u) - k
                             \/ (k - b = (b + u) - k /\ c % 2 = 0)
                          THEN c ELSE c + 1
    BY <1>v, <1>x, <1>1, <2>1, <2>2 DEF Nearer
  <2>4. c % 2 = 0 <=> c % 2 # 1
    OBVIOUS
  <2> QED
    BY <1>0, <2>3, <2>4 DEF Rounded
<1>4. PICK d : d = Nearer(f, x, c)
  OBVIOUS
<1>5. d \in {c, c + 1}
  BY <1>3, <1>4 DEF Rounded
<1>6. c \in {d - 1, d} \cap 0 .. Infinity(f) - 1
  BY <1>5
<1>7. IsNearest(f, x, d)
  BY <1>2, <1>4, <1>6, <1>v DEF IsNearest
<1> QED
  BY <1>3, <1>4, <1>7, <1>x

\* A magnitude below the sign bit is a code without a sign.
LEMMA Unsigned ==
  ASSUME NEW f \in FloatFormats, NEW c \in Nat, c <= Infinity(f)
  PROVE  MagnitudeOf(f, c) = c
<1>1. SignBit(f) \in Nat /\ SignBit(f) >= 1 /\ Infinity(f) < SignBit(f) /\ Infinity(f) \in Nat
  BY Widths DEF FloatFormats
<1>2. c < SignBit(f)
  BY <1>1
<1> QED
  BY <1>1, <1>2 DEF MagnitudeOf

\* Numbers in the range of the exponents of a format.
LEMMA NormalIsNearest ==
  ASSUME NEW f \in FloatFormats, NEW m, m = MantissaBits(f), NEW b, b = Bias(f),
         NEW x \in Float32s, NEW e \in Nat, x.exp = e - b + 127, e >= 1,
         NEW u, u = Pow(23 - m), NEW c \in Nat, c = e * Pow(m) + x.coef \div u, c < Infinity(f)
  PROVE  IsNearest(f, x, Rounded(c, x.coef % u, u))
<1>n. PICK n, h, p : n = x.coef /\ h = x.exp /\ p = Pow(m)
  OBVIOUS
<1>q. PICK q, r : q = n \div u /\ r = n % u
  OBVIOUS
<1>0. n \in Nat /\ n < 8388608 /\ h \in Int /\ n < 16777216
  BY <1>n, FieldsHave
<1>1. m \in 2 .. 10 /\ b \in Int /\ Infinity(f) \in Nat
  BY Widths DEF FloatFormats
<1>2. p \in Nat /\ p >= 1 /\ p * u = 8388608 /\ u \in Nat /\ u >= 1
  <2>1. m \in 0 .. 11 /\ m \in 0 .. 24 /\ 23 - m \in 0 .. 24
    BY <1>1
  <2> QED
    BY <1>n, <2>1, PowersToImplicit, PowersGrow
<1>3. q \in Nat /\ r \in Nat /\ r < u /\ n = q * u + r
  <2>1. u \in Nat /\ u >= 1
    BY <1>2
  <2>2. Splits(n, u, n \div u, n % u)
    BY <1>0, <2>1, Division
  <2>3. Splits(n, u, q, r)
    BY <1>q, <2>2
  <2> QED
    BY <2>3 DEF Splits
<1>4. q < p
  <2>1. q * u < p * u
    BY <1>0, <1>2, <1>3
  <2> QED
    BY <1>2, <1>3, <2>1
<1>c. c = e * p + q
  BY <1>n, <1>q
<1>5. MagnitudeOf(f, c) = c /\ MagnitudeOf(f, c + 1) = c + 1
  BY <1>1, Unsigned
<1>6. ValueOf(f, c).exp = h /\ ValueOf(f, c).coef = q * u
  <2>1. q \in Nat /\ q < Pow(m) /\ MagnitudeOf(f, c) = e * Pow(m) + q
    BY <1>3, <1>4, <1>5, <1>c, <1>n
  <2>2. ValueOf(f, c) = Float32(SignOf(f, c), e - b + 127, q * Pow(23 - m))
    BY <2>1, NormalValue
  <2> QED
    BY <1>n, <2>2 DEF Float32
<1>7. q * u \in Nat /\ q * u <= n /\ n < q * u + u /\ n - q * u = r
  BY <1>2, <1>3
<1>8. \/ ValueOf(f, c + 1).exp = h /\ ValueOf(f, c + 1).coef = q * u + u
      \/ ValueOf(f, c + 1).exp = h + 1 /\ ValueOf(f, c + 1).coef = 0 /\ q * u + u = Implicit
  <2>1. CASE q + 1 < p
    <3>1. q + 1 \in Nat /\ q + 1 < Pow(m) /\ MagnitudeOf(f, c + 1) = e * Pow(m) + (q + 1)
      <4>1. c + 1 = e * p + (q + 1)
        <5>1. q \in Nat
          BY <1>3
        <5> QED
          BY <1>2, <1>c, <5>1
      <4> QED
        BY <1>3, <1>5, <1>n, <2>1, <4>1
    <3>2. ValueOf(f, c + 1) = Float32(SignOf(f, c + 1), e - b + 127, (q + 1) * Pow(23 - m))
      BY <3>1, NormalValue
    <3>3. (q + 1) * u = q * u + u
      BY <1>2, <1>3
    <3> QED
      BY <1>n, <3>2, <3>3 DEF Float32
  <2>2. CASE q + 1 = p
    <3>1. c + 1 = (e + 1) * p + 0
      BY <1>2, <1>3, <1>c, <2>2
    <3>2. /\ e + 1 \in Nat /\ e + 1 >= 1 /\ 0 \in Nat /\ 0 < Pow(m)
          /\ MagnitudeOf(f, c + 1) = (e + 1) * Pow(m) + 0
      BY <1>2, <1>5, <1>n, <3>1
    <3>3. ValueOf(f, c + 1) = Float32(SignOf(f, c + 1), (e + 1) - b + 127, 0 * Pow(23 - m))
      BY <3>2, NormalValue
    <3>4. q * u + u = Implicit
      <4>1. q * u + u = p * u
        BY <1>2, <1>3, <2>2
      <4> QED
        BY <1>2, <4>1 DEF Implicit
    <3>5. (e + 1) - b + 127 = h + 1 /\ 0 * Pow(23 - m) = 0
      BY <1>1, <1>2, <1>n
    <3> QED
      BY <3>3, <3>4, <3>5 DEF Float32
  <2> QED
    BY <1>2, <1>3, <1>4, <2>1, <2>2
<1>9. IsNearest(f, x, Rounded(c, n - q * u, u))
  BY <1>1, <1>2, <1>6, <1>7, <1>8, <1>n, NearestIs
<1> QED
  BY <1>7, <1>9, <1>n, <1>q

\* Rounding goes to one of the two codes.
LEMMA RoundedIs ==
  ASSUME NEW lower \in Nat, NEW r, NEW u
  PROVE  Rounded(lower, r, u) \in {lower, lower + 1}
BY DEF Rounded

\* Rounding does not depend on an even offset.
LEMMA RoundedShifts ==
  ASSUME NEW a \in Nat, NEW q \in Nat, a % 2 = 0, NEW r, NEW u
  PROVE  Rounded(a + q, r, u) = a + Rounded(q, r, u)
<1>1. (a + q) % 2 = q % 2
  OBVIOUS
<1> QED
  BY <1>1 DEF Rounded

\* The magnitude of an infinity, or of what overflows to it.
LEMMA InfinityIsNearest ==
  ASSUME NEW f \in FloatFormats, f \in {"Float16", "BFloat16"},
         NEW x \in Float32s, f = "Float16" => x.exp >= 143, f = "BFloat16" => x.exp >= 255
  PROVE  IsNearest(f, x, Infinity(f))
<1>m. PICK m, b, i, e : /\ m = MantissaBits(f) /\ b = Bias(f) /\ i = Infinity(f)
                        /\ e = IF f = "Float16" THEN 31 ELSE 255
  OBVIOUS
<1>1. /\ m \in {7, 10} /\ b \in Nat /\ e \in Nat /\ e >= 1 /\ i \in Nat
      /\ i = e * Pow(m) + 0 /\ 0 < Pow(m)
      /\ e - b + 127 = IF f = "Float16" THEN 143 ELSE 255
  BY <1>m, Widths, PowerTable
<1>2. MagnitudeOf(f, i) = e * Pow(m) + 0
  BY <1>1, <1>m, Unsigned
<1>3. ValueOf(f, i) = Float32(SignOf(f, i), e - b + 127, 0 * Pow(23 - m))
  BY <1>1, <1>2, <1>m, NormalValue
<1>4. 0 * Pow(23 - m) = 0
  BY <1>1, PowerTable
<1>5. ValueOf(f, i).exp = e - b + 127 /\ ValueOf(f, i).coef = 0
  BY <1>3, <1>4 DEF Float32
<1>6. x.exp \in Int /\ x.coef \in Int /\ x.coef >= 0
  BY FieldsHave
<1>7. ~Below(x, ValueOf(f, i))
  BY <1>1, <1>5, <1>6 DEF Below
<1> QED
  BY <1>1, <1>7, <1>m DEF IsNearest

------------------------------------------------------------------------------
(* binary16.                                                                *)

\* Below the least normal value the exponent is the shift of the significand.
LEMMA Float16Subnormals ==
  ASSUME NEW f, f = "Float16", NEW x \in Float32s, NEW k \in 14 .. 23, x.exp = 126 - k,
         NEW n, n = x.coef + 8388608, NEW u, u = Pow(k)
  PROVE  /\ IsNearest(f, x, Rounded(n \div u, n % u, u))
         /\ n \div u \in Nat /\ n \div u < 1024
<1>f. f \in FloatFormats /\ 10 = MantissaBits(f) /\ 15 = Bias(f) /\ Infinity(f) = 31744
  BY Widths DEF FloatFormats
<1>j. PICK j, t, q, r : j = 23 - k /\ t = Pow(j) /\ q = n \div u /\ r = n % u
  OBVIOUS
<1>1. j \in 0 .. 9 /\ j \in 0 .. 23 /\ j \in 0 .. 10 - 1 /\ 23 - j = k
  BY <1>j
<1>2. t \in Nat /\ t >= 1 /\ u \in Nat /\ u >= 1 /\ t * u = 8388608 /\ Pow(j + 1) = 2 * t
  <2>1. j \in 0 .. 11 /\ j \in 0 .. 24 /\ k \in 0 .. 24
    BY <1>1
  <2>2. Pow(j) * Pow(23 - j) = 8388608
    BY <2>1, PowersToImplicit
  <2> QED
    BY <1>1, <1>j, <2>1, <2>2, PowersGrow
<1>3. n \in Nat /\ 8388608 <= n /\ n < 16777216 /\ x.exp \in Int /\ x.coef \in Int
  BY FieldsHave
<1>4. q \in Nat /\ r \in Nat /\ r < u /\ n = q * u + r
  <2>1. u \in Nat /\ u >= 1 /\ n \in Nat
    BY <1>2, <1>3
  <2>2. Splits(n, u, n \div u, n % u)
    BY <2>1, Division
  <2>3. Splits(n, u, q, r)
    BY <1>j, <2>2
  <2> QED
    BY <2>3 DEF Splits
<1>5. t <= q /\ q < 2 * t
  <2>1. q < t => FALSE
    <3> SUFFICES ASSUME q < t PROVE FALSE
      OBVIOUS
    <3>1. PICK d \in Nat : t = q + 1 + d
      BY <1>2, <1>4
    <3>2. t * u = q * u + u + d * u /\ d * u >= 0
      BY <1>2, <1>4, <3>1
    <3> QED
      BY <1>2, <1>3, <1>4, <3>2
  <2>2. q >= 2 * t => FALSE
    <3> SUFFICES ASSUME q >= 2 * t PROVE FALSE
      OBVIOUS
    <3>1. PICK d \in Nat : q = t + t + d
      BY <1>2, <1>4
    <3>2. q * u = t * u + t * u + d * u /\ d * u >= 0
      BY <1>2, <1>4, <3>1
    <3> QED
      BY <1>2, <1>3, <1>4, <3>2
  <2> QED
    BY <1>2, <1>4, <2>1, <2>2
<1>6. 2 * t <= 1024 /\ (j = 9 <=> 2 * t = 1024) /\ Pow(10) = 1024
  BY <1>1, <1>j, PowerTable
<1>d. PICK d : d = q + 1
  OBVIOUS
<1>q. q \in Nat /\ d \in Nat /\ q < 1024 /\ d <= 1024
  <2>1. q \in Nat /\ t \in Nat
    BY <1>2, <1>4
  <2> QED
    BY <1>5, <1>6, <1>d, <2>1
<1>7. MagnitudeOf(f, q) = q /\ MagnitudeOf(f, d) = d
  <2>1. d \in Nat /\ d <= Infinity(f) /\ q <= Infinity(f)
    BY <1>f, <1>q
  <2> QED
    BY <1>f, <1>q, <2>1, Unsigned
<1>8. 128 - 15 - 10 + j = x.exp
  BY <1>1, <1>j
<1>9. ValueOf(f, q).exp = x.exp /\ ValueOf(f, q).coef = (q - t) * u
  <2>1. q < Pow(10) /\ Pow(j) <= q /\ q < Pow(j + 1)
    BY <1>2, <1>5, <1>6, <1>j
  <2>2. ValueOf(f, q) = IF f # "BFloat16"
          THEN Float32(SignOf(f, q), 128 - 15 - 10 + j, (q - Pow(j)) * Pow(23 - j))
          ELSE Float32(SignOf(f, q), 0, q * Pow(16))
    BY <1>1, <1>7, <1>f, <1>q, <2>1, SubnormalValue
  <2> QED
    BY <1>1, <1>8, <1>j, <2>2 DEF Float32
<1>10. \/ ValueOf(f, d).exp = x.exp /\ ValueOf(f, d).coef = (d - t) * u
       \/ ValueOf(f, d).exp = x.exp + 1 /\ ValueOf(f, d).coef = 0 /\ d = 2 * t
  <2>1. CASE d < 2 * t
    <3>1. d \in Nat /\ d < Pow(10) /\ Pow(j) <= d /\ d < Pow(j + 1)
      BY <1>2, <1>5, <1>6, <1>d, <1>j, <1>q, <2>1
    <3>2. ValueOf(f, d) = IF f # "BFloat16"
            THEN Float32(SignOf(f, d), 128 - 15 - 10 + j, (d - Pow(j)) * Pow(23 - j))
            ELSE Float32(SignOf(f, d), 0, d * Pow(16))
      BY <1>1, <1>7, <1>f, <3>1, SubnormalValue
    <3> QED
      BY <1>1, <1>8, <1>j, <3>2 DEF Float32
  <2>2. CASE d = 2 * t /\ j < 9
    <3>1. j + 1 \in 0 .. 10 - 1 /\ j + 1 \in 0 .. 23 /\ d = Pow(j + 1)
      BY <1>1, <1>2, <2>2
    <3>2. d \in Nat /\ d < Pow(10) /\ Pow(j + 1) <= d /\ d < Pow((j + 1) + 1)
      <4>1. Pow((j + 1) + 1) = 2 * Pow(j + 1) /\ Pow(j + 1) >= 1
        BY <1>1, <2>2, PowersGrow
      <4> QED
        BY <1>2, <1>6, <1>q, <2>2, <3>1, <4>1
    <3>3. ValueOf(f, d) = IF f # "BFloat16"
            THEN Float32(SignOf(f, d), 128 - 15 - 10 + (j + 1),
                         (d - Pow(j + 1)) * Pow(23 - (j + 1)))
            ELSE Float32(SignOf(f, d), 0, d * Pow(16))
      BY <1>7, <1>f, <3>1, <3>2, SubnormalValue
    <3>4. Pow(23 - (j + 1)) \in Nat
      <4>1. 23 - (j + 1) \in 0 .. 24
        BY <1>1, <2>2
      <4> QED
        BY <4>1, PowersGrow
    <3>5. (d - Pow(j + 1)) * Pow(23 - (j + 1)) = 0
      BY <1>q, <3>1, <3>2, <3>4
    <3>6. 128 - 15 - 10 + (j + 1) = x.exp + 1
      BY <1>1, <1>8
    <3> QED
      BY <2>2, <3>3, <3>5, <3>6 DEF Float32
  <2>3. CASE d = 2 * t /\ j = 9
    <3>1. 1 \in Nat /\ 1 >= 1 /\ 0 \in Nat /\ 0 < Pow(10) /\ MagnitudeOf(f, d) = 1 * Pow(10) + 0
      BY <1>6, <1>7, <2>3
    <3>2. ValueOf(f, d) = Float32(SignOf(f, d), 1 - 15 + 127, 0 * Pow(23 - 10))
      BY <1>f, <3>1, NormalValue
    <3>3. 0 * Pow(23 - 10) = 0 /\ 1 - 15 + 127 = x.exp + 1
      BY <1>8, <2>3, PowerTable
    <3> QED
      BY <2>3, <3>2, <3>3 DEF Float32
  <2> QED
    BY <1>1, <1>2, <1>5, <1>d, <1>q, <2>1, <2>2, <2>3
<1>11. PICK b : b = (q - t) * u
  OBVIOUS
<1>12. b = q * u - 8388608 /\ (d - t) * u = b + u
  BY <1>2, <1>11, <1>d, <1>q
<1>13. b \in Nat /\ b <= x.coef /\ x.coef < b + u /\ x.coef - b = r
  <2>1. q * u >= t * u
    BY <1>2, <1>4, <1>5
  <2>2. PICK w : w = q * u
    OBVIOUS
  <2>3. w \in Int /\ w >= 8388608 /\ b = w - 8388608 /\ n = w + r /\ u \in Nat
    BY <1>2, <1>4, <1>12, <2>1, <2>2
  <2>4. r \in Nat /\ r < u
    BY <1>4
  <2> QED
    BY <1>3, <2>3, <2>4
<1>14. d = 2 * t => b + u = Implicit
  <2>1. d = 2 * t => (d - t) * u = t * u
    BY <1>2, <1>q
  <2> QED
    BY <1>2, <1>12, <2>1 DEF Implicit
<1>15. IsNearest(f, x, Rounded(q, x.coef - b, u))
  <2>1. q < Infinity(f) /\ Infinity(f) \in Nat
    BY <1>f, <1>q
  <2>2. ValueOf(f, q).exp = x.exp /\ ValueOf(f, q).coef = b
    BY <1>9, <1>11
  <2>3. \/ ValueOf(f, d).exp = x.exp /\ ValueOf(f, d).coef = b + u
        \/ ValueOf(f, d).exp = x.exp + 1 /\ ValueOf(f, d).coef = 0 /\ b + u = Implicit
    BY <1>10, <1>12, <1>14
  <2> QED
    BY <1>2, <1>13, <1>d, <1>q, <2>1, <2>2, <2>3, NearestIs
<1> QED
  BY <1>13, <1>15, <1>j, <1>q

\* Below the least subnormal value there is only zero to round to.
LEMMA Float16Least ==
  ASSUME NEW f, f = "Float16", NEW x \in Float32s, x.exp <= 102
  PROVE  IsNearest(f, x, IF x.exp = 102 /\ x.coef > 0 THEN 1 ELSE 0)
<1>f. f \in FloatFormats /\ 10 = MantissaBits(f) /\ 15 = Bias(f) /\ Infinity(f) = 31744
  BY Widths DEF FloatFormats
<1>0. x.exp \in Int /\ 0 <= x.exp /\ x.coef \in Int /\ 0 <= x.coef
  BY FieldsHave
<1>1. MagnitudeOf(f, 0) = 0 /\ MagnitudeOf(f, 1) = 1
  BY <1>f, Unsigned
<1>v. PICK below, above : below = ValueOf(f, 0) /\ above = ValueOf(f, 0 + 1)
  OBVIOUS
<1>2. below.exp = 0 /\ below.coef = 0
  <2>1. ValueOf(f, 0) = Float32(SignOf(f, 0), 0, 0)
    BY <1>1, <1>f, ZeroValue
  <2> QED
    BY <1>v, <2>1 DEF Float32
<1>3. above = Float32(SignOf(f, 1), 103, 0)
  <2>1. 1 < Pow(10) /\ Pow(0) <= 1 /\ 1 < Pow(0 + 1) /\ Pow(0) = 1
    BY PowerTable
  <2>2. ValueOf(f, 1) = IF f # "BFloat16"
          THEN Float32(SignOf(f, 1), 128 - 15 - 10 + 0, (1 - Pow(0)) * Pow(23 - 0))
          ELSE Float32(SignOf(f, 1), 0, 1 * Pow(16))
    <3>1. 1 \in Nat /\ 0 \in 0 .. 10 - 1
      OBVIOUS
    <3> QED
      BY <1>1, <1>f, <2>1, <3>1, SubnormalValue
  <2>3. (1 - Pow(0)) * Pow(23 - 0) = 0
    BY PowerTable
  <2> QED
    BY <1>v, <2>2, <2>3
<1>4. above.exp = 103 /\ above.coef = 0
  BY <1>3 DEF Float32
<1>5. PICK half : half = Float32(SignOf(f, 1), 102, 0)
  OBVIOUS
<1>6. [above EXCEPT !.exp = @ - 1] = half
  <2>1. [Float32(SignOf(f, 1), 103, 0) EXCEPT !.exp = @ - 1] = Float32(SignOf(f, 1), 103 - 1, 0)
    BY DEF Float32
  <2> QED
    BY <1>3, <1>5, <2>1
<1>7. Below(half, x) <=> x.exp = 102 /\ x.coef > 0
  BY <1>0, <1>5 DEF Below, Float32
<1>8. Nearer(f, x, 0) = IF x.exp = 102 /\ x.coef > 0 THEN 1 ELSE 0
  <2>1. below.exp # x.exp \/ above.exp > x.exp + 1
    BY <1>0, <1>2, <1>4
  <2>2. Nearer(f, x, 0) = IF Below(half, x) THEN 0 + 1 ELSE 0
    BY <1>6, <1>v, <2>1 DEF Nearer
  <2> QED
    BY <1>7, <2>2
<1>9. ~Below(x, below) /\ Below(x, above)
  BY <1>0, <1>2, <1>4 DEF Below
<1>10. PICK d : d = Nearer(f, x, 0)
  OBVIOUS
<1>11. d \in {0, 1}
  BY <1>8, <1>10
<1>12. 0 \in {d - 1, d} \cap 0 .. Infinity(f) - 1
  BY <1>11, <1>f
<1>13. IsNearest(f, x, d)
  BY <1>9, <1>10, <1>12, <1>v DEF IsNearest
<1> QED
  BY <1>8, <1>10, <1>13

\* What the properties ask of the magnitude c that a number is narrowed to.
IsNarrowed(f, x, c) ==
  /\ c \in Nat /\ c < SignBit(f)
  /\ IsNaN(x) => c > Infinity(f)
  /\ ~IsNaN(x) => c <= Infinity(f)
  /\ IsInf(x) => c = Infinity(f)
  /\ ~IsNaN(x) /\ RoundsAsDocumented(f, x) => IsNearest(f, x, c)

HalfMagnitude(h, n) ==
  IF h = 143 THEN 31744 + (IF n # 0 THEN 512 + ((n \div 8192) % 512) ELSE 0)
  ELSE IF h >= 31 THEN 31744
  ELSE IF h < -10 THEN 0
  ELSE IF h <= 0 THEN (n + 8388608) \div Pow(14 - h) + Increment(n + 8388608, Pow(13 - h))
  ELSE h * 1024 + n \div 8192 + Increment(n, Pow(12))

\* The code that f32bitsToF16bits makes.
LEMMA Float16Is ==
  ASSUME NEW x \in Float32s
  PROVE  NarrowFloat16(x) = x.sign * 32768 + HalfMagnitude(x.exp - 112, x.coef)
<1>1. PICK s, e, n : s = x.sign /\ e = x.exp /\ n = x.coef
  OBVIOUS
<1>2. e \in Int /\ n \in Int
  BY <1>1, FieldsHave
<1>3. e = 255 <=> e - 112 = 143
  BY <1>2
<1>4. /\ Implicit = 8388608 /\ 2^10 = 1024 /\ 2^9 = 512 /\ 2^13 = 8192 /\ 2^15 = 32768
      /\ 31 * 1024 = 31744
  BY DEF Implicit
<1> QED
  BY <1>1, <1>3, <1>4 DEF NarrowFloat16, HalfMagnitude, Pow

\* In binary16 every number goes to the nearest code: overflow to infinity, the
\* subnormals with their shifts, and the rest.
LEMMA Float16Narrows ==
  ASSUME NEW f, f = "Float16", NEW x \in Float32s
  PROVE  IsNarrowed(f, x, HalfMagnitude(x.exp - 112, x.coef))
<1>f. /\ f \in FloatFormats /\ 10 = MantissaBits(f) /\ 15 = Bias(f) /\ Infinity(f) = 31744
      /\ SignBit(f) = 32768
  BY Widths DEF FloatFormats
<1>n. PICK h, n, c : h = x.exp - 112 /\ n = x.coef /\ c = HalfMagnitude(h, n)
  OBVIOUS
<1>0. h \in Int /\ x.exp = h + 112 /\ h >= -112 /\ h <= 143 /\ n \in Nat /\ n < 8388608
  BY <1>n, FieldsHave
<1>s. /\ IsNaN(x) <=> h = 143 /\ n # 0
      /\ IsInf(x) <=> h = 143 /\ n = 0
  BY <1>0, <1>n DEF IsNaN, IsInf
<1>1. CASE h = 143 /\ n # 0
  <2>1. c = 31744 + (512 + ((n \div 8192) % 512))
    BY <1>1, <1>n DEF HalfMagnitude
  <2>2. c \in Nat /\ c < 32768 /\ c > 31744
    BY <1>0, <2>1
  <2> QED
    BY <1>1, <1>f, <1>n, <1>s, <2>2 DEF IsNarrowed
<1>2. CASE h >= 31 /\ ~(h = 143 /\ n # 0)
  <2>1. c = 31744
    BY <1>0, <1>2, <1>n DEF HalfMagnitude
  <2>2. IsNearest(f, x, Infinity(f))
    <3>1. x.exp >= 143
      BY <1>0, <1>2
    <3> QED
      BY <1>f, <3>1, InfinityIsNearest
  <2> QED
    BY <1>2, <1>f, <1>n, <1>s, <2>1, <2>2 DEF IsNarrowed
<1>3. CASE h < -10
  <2>1. c = 0
    BY <1>0, <1>3, <1>n DEF HalfMagnitude
  <2>2. IsNearest(f, x, 0)
    <3>1. x.exp <= 102 /\ x.exp # 102
      BY <1>0, <1>3
    <3> QED
      BY <3>1, Float16Least
  <2> QED
    BY <1>3, <1>0, <1>f, <1>n, <1>s, <2>1, <2>2 DEF IsNarrowed
<1>4. CASE h = -10
  <2>1. c = IF n > 0 THEN 1 ELSE 0
    <3>1. 14 - h = 24 /\ 13 - h = 23
      BY <1>4
    <3>2. c = (n + 8388608) \div Pow(24) + Increment(n + 8388608, Pow(23))
      BY <1>4, <1>n, <3>1 DEF HalfMagnitude
    <3>3. c = Rounded((n + 8388608) \div Pow(24), (n + 8388608) % Pow(24), Pow(24))
      <4>1. PICK k, m, u : k = 23 /\ m = n + 8388608 /\ u = Pow(k + 1)
        OBVIOUS
      <4>2. k \in 12 .. 23 /\ m \in Nat /\ m < 16777216
        BY <1>0, <4>1
      <4>3. m \div u + Increment(m, Pow(k)) = Rounded(m \div u, m % u, u)
        BY <4>1, <4>2, RoundsUpIs
      <4> QED
        BY <3>2, <4>1, <4>3
    <3>4. (n + 8388608) \div 16777216 = 0 /\ (n + 8388608) % 16777216 = n + 8388608
      BY <1>0
    <3>5. c = Rounded(0, n + 8388608, 16777216)
      BY <3>3, <3>4, PowerTable
    <3> QED
      BY <1>0, <3>5 DEF Rounded
  <2>2. IsNearest(f, x, c)
    <3>1. x.exp = 102
      BY <1>0, <1>4
    <3> QED
      BY <1>n, <2>1, <3>1, Float16Least
  <2> QED
    BY <1>4, <1>f, <1>n, <1>s, <2>1, <2>2 DEF IsNarrowed
<1>5. CASE -10 < h /\ h <= 0
  <2>1. PICK k, m, u : k = 14 - h /\ m = n + 8388608 /\ u = Pow(k)
    OBVIOUS
  <2>2. k \in 14 .. 23 /\ x.exp = 126 - k /\ m \in Nat /\ m < 16777216
    BY <1>0, <1>5, <2>1
  <2>3. c = m \div u + Increment(m, Pow(k - 1))
    <3>1. 13 - h = k - 1
      BY <1>0, <2>1
    <3>2. c = (n + 8388608) \div Pow(14 - h) + Increment(n + 8388608, Pow(13 - h))
      BY <1>0, <1>5, <1>n DEF HalfMagnitude
    <3> QED
      BY <2>1, <3>1, <3>2
  <2>4. c = Rounded(m \div u, m % u, u)
    <3>1. k - 1 \in 12 .. 23 /\ u = Pow((k - 1) + 1)
      BY <2>1, <2>2
    <3> QED
      BY <2>2, <2>3, <3>1, RoundsUpIs
  <2>5. IsNearest(f, x, c) /\ m \div u \in Nat /\ m \div u < 1024
    <3>1. m = x.coef + 8388608
      BY <1>n, <2>1
    <3> QED
      BY <2>1, <2>2, <2>4, <3>1, Float16Subnormals
  <2>6. c \in {m \div u, m \div u + 1}
    BY <2>4, <2>5, RoundedIs
  <2>7. c \in Nat /\ c <= 1024
    <3>1. PICK q : q = m \div u
      OBVIOUS
    <3> QED
      BY <2>5, <2>6, <3>1
  <2> QED
    BY <1>5, <1>f, <1>n, <1>s, <2>5, <2>7 DEF IsNarrowed
<1>6. CASE 1 <= h /\ h <= 30
  <2>1. PICK a, q, r, u : a = h * 1024 /\ q = n \div u /\ r = n % u /\ u = Pow(13)
    OBVIOUS
  <2>2. u = 8192 /\ Pow(10) = 1024
    BY <2>1, PowerTable
  <2>3. q \in Nat /\ q < 1024 /\ q = n \div 8192
    BY <1>0, <2>1, <2>2
  <2>4. c = a + q + Increment(n, Pow(12))
    BY <1>0, <1>6, <1>n, <2>1, <2>3 DEF HalfMagnitude
  <2>5. q + Increment(n, Pow(12)) = Rounded(q, r, u)
    <3>1. PICK k : k = 12
      OBVIOUS
    <3>2. k \in 12 .. 23 /\ n \in Nat /\ n < 16777216 /\ u = Pow(k + 1)
      BY <1>0, <2>1, <3>1
    <3>3. n \div u + Increment(n, Pow(k)) = Rounded(n \div u, n % u, u)
      BY <3>2, RoundsUpIs
    <3> QED
      BY <2>1, <3>1, <3>3
  <2>6. a \in Nat /\ a % 2 = 0 /\ a <= 30720
    BY <1>0, <1>6, <2>1
  <2>7. c = Rounded(a + q, r, u)
    <3>1. Rounded(a + q, r, u) = a + Rounded(q, r, u)
      BY <2>3, <2>6, RoundedShifts
    <3>2. Increment(n, Pow(12)) \in {0, 1}
      BY DEF Increment
    <3> QED
      BY <2>3, <2>4, <2>5, <2>6, <3>1, <3>2
  <2>8. a + q \in Nat /\ a + q < 31744
    BY <2>3, <2>6
  <2>9. IsNearest(f, x, c)
    <3>1. PICK d, m : d = a + q /\ m = 10
      OBVIOUS
    <3>2. /\ x.exp = h - 15 + 127 /\ h \in Nat /\ h >= 1 /\ u = Pow(23 - m)
          /\ d = h * Pow(m) + x.coef \div u /\ d \in Nat /\ d < Infinity(f)
      BY <1>0, <1>6, <1>f, <1>n, <2>1, <2>2, <2>8, <3>1
    <3>3. IsNearest(f, x, Rounded(d, x.coef % u, u))
      BY <1>f, <3>1, <3>2, NormalIsNearest
    <3> QED
      BY <1>n, <2>1, <2>7, <3>1, <3>3
  <2>10. c \in {a + q, a + q + 1}
    BY <2>7, <2>8, RoundedIs
  <2>11. c \in Nat /\ c <= 31744
    BY <2>8, <2>10
  <2> QED
    BY <1>6, <1>f, <1>n, <1>s, <2>9, <2>11 DEF IsNarrowed
<1>7. \/ h = 143 /\ n # 0
      \/ h >= 31 /\ ~(h = 143 /\ n # 0)
      \/ h < -10 \/ h = -10 \/ (-10 < h /\ h <= 0) \/ (1 <= h /\ h <= 30)
  BY <1>0
<1> QED
  BY <1>1, <1>2, <1>3, <1>4, <1>5, <1>6, <1>7

------------------------------------------------------------------------------
(* bfloat16.                                                                *)

BrainMagnitude(h, n) ==
  IF h = 255 /\ n # 0
  THEN ((h * 128 + n \div 65536) \div 128) * 128 + 64 + ((h * 128 + n \div 65536) % 64)
  ELSE h * 128 + n \div 65536
         + ((n % 65536) + 32767 + ((h * 128 + n \div 65536) % 2)) \div 65536

\* The code that a narrowing to bfloat16 makes.
LEMMA BFloat16Is ==
  ASSUME NEW x \in Float32s
  PROVE  NarrowBFloat16(x) = x.sign * 32768 + BrainMagnitude(x.exp, x.coef)
<1>1. PICK s, e, n : s = x.sign /\ e = x.exp /\ n = x.coef
  OBVIOUS
<1>2. 2^6 = 64 /\ 2^7 = 128 /\ 2^16 = 65536 /\ 2^15 = 32768
  OBVIOUS
<1> QED
  BY <1>1, <1>2 DEF NarrowBFloat16, BrainMagnitude, IsNaN

\* In bfloat16 every number goes to the nearest code, subnormals and the step to
\* infinity included.
LEMMA BFloat16Narrows ==
  ASSUME NEW f, f = "BFloat16", NEW x \in Float32s
  PROVE  IsNarrowed(f, x, BrainMagnitude(x.exp, x.coef))
<1>f. /\ f \in FloatFormats /\ 7 = MantissaBits(f) /\ 127 = Bias(f) /\ Infinity(f) = 32640
      /\ SignBit(f) = 32768
  BY Widths DEF FloatFormats
<1>n. PICK h, n, c : h = x.exp /\ n = x.coef /\ c = BrainMagnitude(h, n)
  OBVIOUS
<1>0. h \in Nat /\ h <= 255 /\ n \in Nat /\ n < 8388608
  BY <1>n, FieldsHave
<1>s. /\ IsNaN(x) <=> h = 255 /\ n # 0
      /\ IsInf(x) <=> h = 255 /\ n = 0
  BY <1>n DEF IsNaN, IsInf
<1>q. PICK u, q, r : u = 65536 /\ q = n \div u /\ r = n % u
  OBVIOUS
<1>d. PICK d : d = h * 128 + q
  OBVIOUS
<1>w. u = 65536
  BY <1>q
<1>u. u = Pow(16) /\ Pow(7) = 128 /\ u \in Nat
  BY <1>q, PowerTable
<1>1. q \in Nat /\ q < 128 /\ r \in Nat /\ r < u /\ n = q * 65536 + r
  BY <1>0, <1>q
<1>2. CASE h = 255 /\ n # 0
  <2>1. c = (d \div 128) * 128 + 64 + (d % 64)
    BY <1>2, <1>d, <1>n, <1>q DEF BrainMagnitude
  <2>2. d \div 128 = 255 /\ d % 64 \in Nat /\ d % 64 < 64
    BY <1>1, <1>2, <1>d
  <2>3. c \in Nat /\ c < 32768 /\ c > 32640
    <3>1. PICK y : y = d % 64
      OBVIOUS
    <3>2. c = 255 * 128 + 64 + y /\ y \in Nat /\ y < 64
      BY <2>1, <2>2, <3>1
    <3> QED
      BY <3>2
  <2> QED
    BY <1>2, <1>f, <1>n, <1>s, <2>3 DEF IsNarrowed
<1>3. CASE ~(h = 255 /\ n # 0)
  <2>1. c = d + ((r + 32767 + (d % 2)) \div 65536)
    BY <1>3, <1>d, <1>n, <1>q DEF BrainMagnitude
  <2>2. c = Rounded(d, r, u) /\ d \in Nat
    <3>1. d \in Nat /\ d % 2 \in {0, 1}
      BY <1>0, <1>1, <1>d
    <3>2. PICK y : y = d % 2
      OBVIOUS
    <3>3. (r + 32767 + y) \div 65536 = IF 2 * r > u \/ (2 * r = u /\ y = 1) THEN 1 ELSE 0
      BY <1>1, <1>w, <3>1, <3>2
    <3> QED
      BY <2>1, <3>1, <3>2, <3>3 DEF Rounded
  <2>3. CASE h = 255
    <3>1. n = 0
      BY <1>3, <2>3
    <3>2. d = 32640 /\ r = 0
      BY <1>0, <1>1, <1>d, <1>w, <2>3, <3>1
    <3>3. c = 32640
      BY <1>w, <2>2, <3>2 DEF Rounded
    <3>4. IsNearest(f, x, Infinity(f))
      <4>1. x.exp >= 255
        BY <1>n, <2>3
      <4> QED
        BY <1>f, <4>1, InfinityIsNearest
    <3> QED
      BY <1>f, <1>n, <1>s, <3>1, <3>3, <3>4 DEF IsNarrowed
  <2>4. CASE h < 255
    <3>1. d < 32640
      BY <1>0, <1>1, <1>d, <2>4
    <3>2. c \in Nat /\ c <= 32640
      <4>1. c \in {d, d + 1}
        BY <2>2, RoundedIs
      <4> QED
        BY <2>2, <3>1, <4>1
    <3>3. IsNearest(f, x, c)
      <4>1. CASE h >= 1
        <5>1. PICK m : m = 7
          OBVIOUS
        <5>2. /\ x.exp = h - 127 + 127 /\ u = Pow(23 - m)
              /\ d = h * Pow(m) + x.coef \div u /\ d < Infinity(f)
          BY <1>0, <1>d, <1>f, <1>n, <1>q, <1>u, <3>1, <5>1
        <5>3. IsNearest(f, x, Rounded(d, x.coef % u, u))
          BY <1>0, <1>f, <2>2, <4>1, <5>1, <5>2, NormalIsNearest
        <5> QED
          BY <1>n, <1>q, <2>2, <5>3
      <4>2. CASE h = 0
        <5>1. d = q
          BY <1>1, <1>d, <4>2
        <5>2. \A k \in Nat : k < 128 =>
                ValueOf(f, k).exp = 0 /\ ValueOf(f, k).coef = k * u
          <6> SUFFICES ASSUME NEW k \in Nat, k < 128
                       PROVE  ValueOf(f, k).exp = 0 /\ ValueOf(f, k).coef = k * u
            OBVIOUS
          <6>1. MagnitudeOf(f, k) = k
            BY <1>f, Unsigned
          <6>2. CASE k = 0
            <7>1. ValueOf(f, k) = Float32(SignOf(f, k), 0, 0)
              BY <1>f, <6>1, <6>2, ZeroValue
            <7>2. k * u = 0
              BY <1>u, <6>2
            <7> QED
              BY <7>1, <7>2 DEF Float32
          <6>3. CASE k >= 1
            <7>1. PICK j \in 0 .. 7 - 1 : Pow(j) <= k /\ k < Pow(j + 1)
              BY <1>u, <6>3, HasBinade
            <7>2. ValueOf(f, k) = IF f # "BFloat16"
                    THEN Float32(SignOf(f, k), 128 - 127 - 7 + j, (k - Pow(j)) * Pow(23 - j))
                    ELSE Float32(SignOf(f, k), 0, k * Pow(16))
              BY <1>f, <1>u, <6>1, <7>1, SubnormalValue
            <7> QED
              BY <1>u, <7>2 DEF Float32
          <6> QED
            BY <6>2, <6>3
        <5>3. PICK b, e : b = q * u /\ e = q + 1
          OBVIOUS
        <5>4. b \in Nat /\ b <= n /\ n < b + u /\ n - b = r /\ e * u = b + u
          <6>1. b = q * 65536 /\ u = 65536
            BY <1>w, <5>3
          <6> QED
            BY <1>0, <1>1, <5>3, <6>1
        <5>5. \/ ValueOf(f, e).exp = h /\ ValueOf(f, e).coef = b + u
              \/ ValueOf(f, e).exp = h + 1 /\ ValueOf(f, e).coef = 0 /\ b + u = Implicit
          <6>1. CASE e < 128
            <7>1. e \in Nat
              BY <1>1, <5>3
            <7> QED
              BY <4>2, <5>2, <5>4, <6>1, <7>1
          <6>2. CASE e = 128
            <7>1. MagnitudeOf(f, e) = 1 * Pow(7) + 0
              <8>1. MagnitudeOf(f, e) = e
                BY <1>f, <6>2, Unsigned
              <8> QED
                BY <1>u, <6>2, <8>1
            <7>2. ValueOf(f, e) = Float32(SignOf(f, e), 1 - 127 + 127, 0 * Pow(23 - 7))
              BY <1>f, <1>u, <7>1, NormalValue
            <7>3. 0 * Pow(23 - 7) = 0
              BY PowerTable
            <7>4. b + u = Implicit
              BY <1>1, <1>w, <5>3, <6>2 DEF Implicit
            <7> QED
              BY <4>2, <7>2, <7>3, <7>4 DEF Float32
          <6> QED
            BY <1>1, <5>3, <6>1, <6>2
        <5>6. ValueOf(f, q).exp = x.exp /\ ValueOf(f, q).coef = b
          BY <1>1, <1>n, <4>2, <5>2, <5>3
        <5>7. q \in Nat /\ q < Infinity(f) /\ Infinity(f) \in Nat
          BY <1>1, <1>f
        <5>8. IsNearest(f, x, Rounded(q, x.coef - b, u))
          BY <1>n, <1>u, <5>3, <5>4, <5>5, <5>6, <5>7, NearestIs
        <5> QED
          BY <1>n, <2>2, <5>1, <5>4, <5>8
      <4> QED
        BY <1>0, <4>1, <4>2
    <3> QED
      BY <1>f, <1>n, <1>s, <2>4, <3>2, <3>3 DEF IsNarrowed
  <2> QED
    BY <1>0, <2>3, <2>4
<1> QED
  BY <1>2, <1>3

------------------------------------------------------------------------------
(* The 8-bit formats.                                                       *)

\* The two constants that saturate, the largest value of each format and what
\* the documentation of each promises to round.
LEMMA SaturationIs ==
  ASSUME NEW x
  PROVE  /\ Below(MaxE5M2, x) <=> 142 < x.exp \/ (142 = x.exp /\ 6291456 < x.coef)
         /\ Below(MaxE4M3, x) <=> 135 < x.exp \/ (135 = x.exp /\ 6291456 < x.coef)
         /\ Below(x, Float32(0, 134, 15 * 2^19))
              <=> x.exp < 134 \/ (x.exp = 134 /\ x.coef < 7864320)
<1>1. MaxE5M2.exp = 142 /\ MaxE5M2.coef = 6291456
  BY DEF MaxE5M2, Float32
<1>2. MaxE4M3.exp = 135 /\ MaxE4M3.coef = 6291456
  BY DEF MaxE4M3, Float32
<1>3. Float32(0, 134, 15 * 2^19).exp = 134 /\ Float32(0, 134, 15 * 2^19).coef = 7864320
  BY DEF Float32
<1> QED
  BY <1>1, <1>2, <1>3 DEF Below

\* roundToNearestEven rounds to nearest.
LEMMA RoundedBy ==
  ASSUME NEW k \in 1 .. 24, NEW n \in Nat, NEW q \in Nat
  PROVE  RoundToNearestEven(q, n, k) = Rounded(q, n % Pow(k), Pow(k))
<1>1. PICK u, h, r : u = Pow(k) /\ h = Pow(k - 1) /\ r = n % u
  OBVIOUS
<1>2. h \in Nat /\ h >= 1 /\ u = 2 * h
  <2>1. k - 1 \in 0 .. 23 /\ k - 1 \in 0 .. 24 /\ (k - 1) + 1 = k
    OBVIOUS
  <2> QED
    BY <1>1, <2>1, PowersGrow
<1>3. r \in Nat
  <2>1. u \in Nat /\ u >= 1
    BY <1>2
  <2>2. Splits(n, u, n \div u, n % u)
    BY <2>1, Division
  <2> QED
    BY <1>1, <2>2 DEF Splits
<1>4. RoundToNearestEven(q, n, k) = IF r > h \/ (r = h /\ q % 2 = 1) THEN q + 1 ELSE q
  BY <1>1 DEF RoundToNearestEven, Pow
<1>5. Rounded(q, r, u) = IF 2 * r > u \/ (2 * r = u /\ q % 2 = 1) THEN q + 1 ELSE q
  BY DEF Rounded
<1>6. (2 * r > u <=> r > h) /\ (2 * r = u <=> r = h)
  BY <1>2, <1>3
<1>7. RoundToNearestEven(q, n, k) = Rounded(q, r, u)
  BY <1>4, <1>5, <1>6
<1> QED
  BY <1>1, <1>7

\* The magnitude that NarrowFields computes.
FieldsMagnitude(x, m, bias, subnormalShift, least, topExponent, max, top) ==
  LET exponent == x.exp - 127 + bias
      full == x.coef + Implicit
      shift == subnormalShift - exponent
      subnormal == RoundToNearestEven(full \div Pow(shift), full, shift)
      mantissa == RoundToNearestEven(x.coef \div Pow(23 - m), x.coef, 23 - m)
  IN  IF IsNaN(x) THEN 127
      ELSE IF IsInf(x) \/ Below(max, x) THEN top
      ELSE IF x.exp = 0 /\ x.coef = 0 THEN 0
      ELSE IF exponent < least THEN 0
      ELSE IF exponent <= 0 THEN IF subnormal >= Pow(m) THEN Pow(m) ELSE subnormal
      ELSE IF exponent >= topExponent THEN top
      ELSE IF mantissa < Pow(m) THEN exponent * Pow(m) + mantissa
      ELSE IF exponent + 1 >= topExponent THEN top
      ELSE (exponent + 1) * Pow(m)

\* The code of an 8-bit format is its magnitude and a sign bit, which a NaN loses.
LEMMA FieldsAre ==
  ASSUME NEW x, NEW m, NEW bias, NEW subnormalShift, NEW least, NEW topExponent, NEW max, NEW top
  PROVE  NarrowFields(x, m, bias, subnormalShift, least, topExponent, max, top)
           = FieldsMagnitude(x, m, bias, subnormalShift, least, topExponent, max, top)
               + (IF IsNaN(x) THEN 0 ELSE x.sign * 128)
<1>1. 2^7 = 128
  OBVIOUS
<1> QED
  BY <1>1 DEF NarrowFields, FieldsMagnitude, Pow

\* The arguments the two formats narrow with.
IsEightBit(f, m, bias, shift, least, topExponent, max, top) ==
  \/ /\ f = "Float8E4M3" /\ m = 3 /\ bias = 7 /\ shift = 20 /\ least = -3
     /\ topExponent = 15 /\ max = MaxE4M3 /\ top = 126
  \/ /\ f = "Float8E5M2" /\ m = 2 /\ bias = 15 /\ shift = 21 /\ least = -1
     /\ topExponent = 31 /\ max = MaxE5M2 /\ top = 124

\* In the 8-bit formats the magnitude stays in range, and from the least normal
\* value up to where the documentation saturates it is the nearest.
LEMMA EightBitsNarrow ==
  ASSUME NEW f, NEW m, NEW bias, NEW shift, NEW least, NEW topExponent, NEW max, NEW top,
         IsEightBit(f, m, bias, shift, least, topExponent, max, top), NEW x \in Float32s
  PROVE  IsNarrowed(f, x, FieldsMagnitude(x, m, bias, shift, least, topExponent, max, top))
<1>n. PICK h, n, e, c :
        /\ h = x.exp /\ n = x.coef /\ e = h - 127 + bias
        /\ c = FieldsMagnitude(x, m, bias, shift, least, topExponent, max, top)
  OBVIOUS
<1>0. h \in Nat /\ h <= 255 /\ n \in Nat /\ n < 8388608
  BY <1>n, FieldsHave
<1>i. /\ m \in {2, 3} /\ bias \in {7, 15} /\ shift \in {20, 21} /\ least \in {-3, -1}
      /\ topExponent \in {15, 31} /\ top \in {124, 126} /\ shift + (0 - least) <= 23
      /\ bias = 7 <=> m = 3
  BY DEF IsEightBit
<1>f. /\ f \in FloatFormats /\ Infinity(f) = top /\ SignBit(f) = 128
      /\ m = MantissaBits(f) /\ bias = Bias(f)
  BY Widths DEF IsEightBit, FloatFormats
<1>e. e \in Int /\ h = e - bias + 127
  BY <1>0, <1>i, <1>n
<1>s. /\ IsNaN(x) <=> h = 255 /\ n # 0
      /\ IsInf(x) <=> h = 255 /\ n = 0
  BY <1>n DEF IsNaN, IsInf
<1>p. Pow(m) \in Nat /\ Pow(m) >= 1 /\ Pow(m) <= 8 /\ Pow(m) <= top
  BY <1>i, PowerTable
<1>r. ~IsNaN(x) /\ RoundsAsDocumented(f, x)
        => /\ ~(IsInf(x) \/ Below(max, x)) /\ 1 <= e /\ e < topExponent
           /\ e * Pow(m) + n \div Pow(23 - m) < top
           /\ e + 1 >= topExponent => \/ m = 3 /\ n < 7864320
                                      \/ m = 2
  <2> SUFFICES ASSUME ~IsNaN(x), RoundsAsDocumented(f, x)
               PROVE  /\ ~(IsInf(x) \/ Below(max, x)) /\ 1 <= e /\ e < topExponent
                      /\ e * Pow(m) + n \div Pow(23 - m) < top
                      /\ e + 1 >= topExponent => \/ m = 3 /\ n < 7864320
                                                 \/ m = 2
    OBVIOUS
  <2>1. CASE m = 3
    <3>1. /\ f = "Float8E4M3" /\ bias = 7 /\ max = MaxE4M3 /\ topExponent = 15 /\ top = 126
      BY <2>1 DEF IsEightBit
    <3>2. h >= 121 /\ (h < 134 \/ (h = 134 /\ n < 7864320))
      BY <1>n, <3>1, SaturationIs DEF RoundsAsDocumented
    <3>3. ~IsInf(x) /\ ~Below(max, x)
      BY <1>0, <1>n, <1>s, <3>1, <3>2, SaturationIs
    <3>4. e = h - 120 /\ 1 <= e /\ e <= 14 /\ (e + 1 >= 15 => n < 7864320)
      BY <1>0, <1>n, <3>1, <3>2
    <3>5. e * Pow(m) + n \div Pow(23 - m) < 126
      <4>1. Pow(m) = 8 /\ Pow(23 - m) = 1048576
        BY <2>1, PowerTable
      <4>2. n \div 1048576 <= 7
        BY <1>0
      <4> QED
        BY <1>0, <1>e, <3>4, <4>1, <4>2
    <3> QED
      BY <2>1, <3>1, <3>3, <3>4, <3>5
  <2>2. CASE m = 2
    <3>1. /\ f = "Float8E5M2" /\ bias = 15 /\ max = MaxE5M2 /\ topExponent = 31 /\ top = 124
      BY <2>2 DEF IsEightBit
    <3>2. h >= 113 /\ ~Below(max, x) /\ h <= 142
      BY <1>0, <1>n, <3>1, SaturationIs DEF RoundsAsDocumented
    <3>3. ~IsInf(x)
      BY <1>0, <1>s, <3>2
    <3>4. e = h - 112 /\ 1 <= e /\ e <= 30
      BY <1>0, <1>n, <3>1, <3>2
    <3>5. e * Pow(m) + n \div Pow(23 - m) < 124
      <4>1. Pow(m) = 4 /\ Pow(23 - m) = 2097152
        BY <2>2, PowerTable
      <4>2. n \div 2097152 <= 3
        BY <1>0
      <4> QED
        BY <1>0, <1>e, <3>4, <4>1, <4>2
    <3> QED
      BY <2>2, <3>1, <3>2, <3>3, <3>4, <3>5
  <2> QED
    BY <1>i, <2>1, <2>2
<1>1. CASE IsNaN(x)
  <2>1. c = 127
    BY <1>1, <1>n DEF FieldsMagnitude
  <2>2. ~IsInf(x)
    BY <1>1, <1>s
  <2> QED
    BY <1>1, <1>f, <1>i, <1>n, <2>1, <2>2 DEF IsNarrowed
<1>2. CASE ~IsNaN(x) /\ (IsInf(x) \/ Below(max, x))
  <2>1. c = top
    BY <1>2, <1>n DEF FieldsMagnitude
  <2> QED
    BY <1>2, <1>f, <1>i, <1>n, <1>r, <2>1 DEF IsNarrowed
<1>3. CASE ~IsNaN(x) /\ ~(IsInf(x) \/ Below(max, x)) /\ e <= 0
  <2>1. c \in Nat /\ c <= top
    <3>1. CASE (h = 0 /\ n = 0) \/ e < least
      <4>1. c = 0
        BY <1>3, <1>n, <3>1 DEF FieldsMagnitude
      <4> QED
        BY <1>i, <4>1
    <3>2. CASE ~(h = 0 /\ n = 0) /\ ~(e < least)
      <4>1. PICK v, k, w : /\ v = n + Implicit /\ k = shift - e
                           /\ w = RoundToNearestEven(v \div Pow(k), v, k)
        OBVIOUS
      <4>2. c = IF w >= Pow(m) THEN Pow(m) ELSE w
        BY <1>3, <1>n, <3>2, <4>1 DEF FieldsMagnitude
      <4>3. v \in Nat /\ k \in 1 .. 24
        BY <1>0, <1>3, <1>e, <1>i, <3>2, <4>1 DEF Implicit
      <4>4. v \div Pow(k) \in Nat
        <5>1. Pow(k) \in Nat /\ Pow(k) >= 1
          BY <4>3, PowersGrow
        <5>2. Splits(v, Pow(k), v \div Pow(k), v % Pow(k))
          BY <4>3, <5>1, Division
        <5> QED
          BY <5>2 DEF Splits
      <4>5. w \in Nat
        <5>1. w = Rounded(v \div Pow(k), v % Pow(k), Pow(k))
          BY <4>1, <4>3, <4>4, RoundedBy
        <5>2. w \in {v \div Pow(k), v \div Pow(k) + 1}
          BY <4>4, <5>1, RoundedIs
        <5> QED
          BY <4>4, <5>2
      <4> QED
        BY <1>i, <1>p, <4>2, <4>5
    <3> QED
      BY <3>1, <3>2
  <2> QED
    BY <1>3, <1>e, <1>f, <1>i, <1>n, <1>r, <2>1 DEF IsNarrowed
<1>4. CASE ~IsNaN(x) /\ ~(IsInf(x) \/ Below(max, x)) /\ e >= topExponent
  <2>1. c = top
    <3>1. ~(h = 0 /\ n = 0) /\ ~(e < least) /\ ~(e <= 0)
      BY <1>4, <1>e, <1>i
    <3> QED
      BY <1>4, <1>n, <3>1 DEF FieldsMagnitude
  <2> QED
    BY <1>4, <1>e, <1>f, <1>i, <1>n, <1>r, <2>1 DEF IsNarrowed
<1>5. CASE ~IsNaN(x) /\ ~(IsInf(x) \/ Below(max, x)) /\ 0 < e /\ e < topExponent
  <2>1. PICK u, p, q, w :
          u = Pow(23 - m) /\ p = Pow(m) /\ q = n \div u /\ w = RoundToNearestEven(q, n, 23 - m)
    OBVIOUS
  <2>2. c = IF w < p THEN e * p + w ELSE IF e + 1 >= topExponent THEN top ELSE (e + 1) * p
    <3>1. ~(h = 0 /\ n = 0) /\ ~(e < least) /\ ~(e <= 0) /\ ~(e >= topExponent)
      BY <1>5, <1>e, <1>i, <1>n
    <3> QED
      BY <1>5, <1>n, <2>1, <3>1 DEF FieldsMagnitude
  <2>3. q \in Nat /\ q < p /\ p \in {4, 8}
    <3>1. CASE m = 3
      BY <1>0, <2>1, <3>1, PowerTable
    <3>2. CASE m = 2
      BY <1>0, <2>1, <3>2, PowerTable
    <3> QED
      BY <1>i, <3>1, <3>2
  <2>4. w = Rounded(q, n % u, u) /\ w \in {q, q + 1}
    <3>1. 23 - m \in 1 .. 24
      BY <1>i
    <3> QED
      BY <1>0, <2>1, <2>3, <3>1, RoundedBy, RoundedIs
  <2>5. CASE w < p \/ e + 1 < topExponent
    <3>1. c = e * p + w
      BY <1>5, <1>e, <1>i, <2>2, <2>3, <2>4, <2>5
    <3>2. c \in Nat /\ c <= top
      <4>1. e * p + w <= (e + 1) * p /\ (e + 1 < topExponent => (e + 1) * p <= top)
        BY <1>5, <1>e, <2>1, <2>3, <2>4, PowerTable DEF IsEightBit
      <4>2. w < p => e * p + w <= top
        BY <1>5, <1>e, <2>1, <2>3, <2>4, PowerTable DEF IsEightBit
      <4>3. e * p \in Nat /\ w \in Nat
        BY <1>5, <1>e, <2>3, <2>4
      <4> QED
        BY <1>5, <1>e, <1>i, <2>3, <2>5, <3>1, <4>1, <4>2, <4>3
    <3>3. RoundsAsDocumented(f, x) => IsNearest(f, x, c)
      <4> SUFFICES ASSUME RoundsAsDocumented(f, x) PROVE IsNearest(f, x, c)
        OBVIOUS
      <4>1. PICK d, a : d = e * p + q /\ a = e * p
        OBVIOUS
      <4>2. a \in Nat /\ a % 2 = 0
        <5>1. CASE p = 4
          BY <1>5, <1>e, <4>1, <5>1
        <5>2. CASE p = 8
          BY <1>5, <1>e, <4>1, <5>2
        <5> QED
          BY <2>3, <5>1, <5>2
      <4>3. c = Rounded(d, n % u, u)
        BY <2>3, <2>4, <3>1, <4>1, <4>2, RoundedShifts
      <4>4. d \in Nat /\ d < Infinity(f)
        <5>1. d < top
          BY <1>5, <1>r, <2>1, <4>1
        <5> QED
          BY <1>f, <2>3, <4>1, <4>2, <5>1
      <4>5. e \in Nat /\ e >= 1 /\ x.exp = e - bias + 127
        BY <1>5, <1>e, <1>n
      <4>6. d = e * Pow(m) + x.coef \div u
        BY <1>n, <2>1, <4>1
      <4>7. IsNearest(f, x, Rounded(d, x.coef % u, u))
        BY <1>f, <2>1, <4>4, <4>5, <4>6, NormalIsNearest
      <4> QED
        BY <1>n, <4>3, <4>7
    <3> QED
      BY <1>5, <1>f, <1>i, <1>n, <3>2, <3>3 DEF IsNarrowed
  <2>6. CASE ~(w < p) /\ e + 1 >= topExponent
    <3>1. c = top
      BY <2>2, <2>6
    <3>2. RoundsAsDocumented(f, x) => IsNearest(f, x, c)
      <4> SUFFICES ASSUME RoundsAsDocumented(f, x) PROVE IsNearest(f, x, c)
        OBVIOUS
      <4>1. m = 2
        <5> SUFFICES ASSUME m = 3 PROVE FALSE
          BY <1>i
        <5>1. n < 7864320 /\ u = 1048576 /\ p = 8
          BY <1>5, <1>r, <2>1, <2>6, PowerTable
        <5>2. w = 8 /\ q = 7
          BY <2>3, <2>4, <2>6, <5>1
        <5>3. n \div 1048576 = 7 /\ 2 * (n % 1048576) < 1048576
          BY <1>0, <2>1, <5>1, <5>2
        <5>4. w = q
          BY <1>0, <2>4, <5>1, <5>3 DEF Rounded
        <5> QED
          BY <5>2, <5>4
      <4>2. e = 30 /\ p = 4 /\ top = 124 /\ q = 3 /\ w = 4
        <5>1. p = 4
          BY <2>1, <4>1, PowerTable
        <5>2. topExponent = 31 /\ top = 124
          BY <4>1 DEF IsEightBit
        <5> QED
          BY <1>5, <1>e, <2>3, <2>4, <2>6, <5>1, <5>2
      <4>3. PICK d : d = 123
        OBVIOUS
      <4>4. c = Rounded(d, n % u, u)
        <5>1. Rounded(120 + 3, n % u, u) = 120 + Rounded(3, n % u, u)
          <6>1. 120 \in Nat /\ 3 \in Nat /\ 120 % 2 = 0
            OBVIOUS
          <6> QED
            BY <6>1, RoundedShifts
        <5> QED
          BY <2>4, <3>1, <4>2, <4>3, <5>1
      <4>5. d \in Nat /\ d < Infinity(f) /\ e \in Nat /\ e >= 1 /\ x.exp = e - bias + 127
        <5>1. Infinity(f) = 124 /\ x.exp = e - bias + 127
          BY <1>e, <1>f, <1>n, <4>2
        <5> QED
          BY <4>2, <4>3, <5>1
      <4>6. d = e * Pow(m) + x.coef \div u
        BY <1>n, <2>1, <4>2, <4>3
      <4>7. IsNearest(f, x, Rounded(d, x.coef % u, u))
        BY <1>f, <2>1, <4>5, <4>6, NormalIsNearest
      <4> QED
        BY <1>n, <4>4, <4>7
    <3> QED
      BY <1>5, <1>f, <1>i, <1>n, <3>1, <3>2 DEF IsNarrowed
  <2> QED
    BY <1>e, <1>i, <2>5, <2>6
<1> QED
  BY <1>1, <1>2, <1>3, <1>4, <1>5, <1>e, <1>i

------------------------------------------------------------------------------
(* Any format.                                                              *)

\* A number narrowed to any format, and the sign it is given.
LEMMA NarrowIs ==
  ASSUME NEW f \in FloatFormats, NEW x \in Float32s
  PROVE  \E c, s : /\ Narrow(f, x) = s * SignBit(f) + c /\ s \in {0, 1} /\ IsNarrowed(f, x, c)
                   /\ f \in {"Float16", "BFloat16"} \/ ~IsNaN(x) => s = x.sign
<1>0. x.sign \in {0, 1}
  BY FieldsHave
<1>1. CASE f = "Float16"
  <2>1. Narrow(f, x) = NarrowFloat16(x)
    BY <1>1, Zenon DEF Narrow
  <2>2. PICK c : c = HalfMagnitude(x.exp - 112, x.coef)
    OBVIOUS
  <2>3. Narrow(f, x) = x.sign * SignBit(f) + c
    BY <1>1, <2>1, <2>2, Float16Is, Widths
  <2>4. IsNarrowed(f, x, c)
    BY <1>1, <2>2, Float16Narrows
  <2> QED
    BY <1>0, <2>3, <2>4
<1>2. CASE f = "BFloat16"
  <2>1. Narrow(f, x) = NarrowBFloat16(x)
    BY <1>2, Zenon DEF Narrow
  <2>2. PICK c : c = BrainMagnitude(x.exp, x.coef)
    OBVIOUS
  <2>3. Narrow(f, x) = x.sign * SignBit(f) + c
    BY <1>2, <2>1, <2>2, BFloat16Is, Widths
  <2>4. IsNarrowed(f, x, c)
    BY <1>2, <2>2, BFloat16Narrows
  <2> QED
    BY <1>0, <2>3, <2>4
<1>3. ASSUME NEW m, NEW bias, NEW shift, NEW least, NEW topExponent, NEW max, NEW top,
             IsEightBit(f, m, bias, shift, least, topExponent, max, top),
             Narrow(f, x) = NarrowFields(x, m, bias, shift, least, topExponent, max, top)
      PROVE  \E c, s : /\ Narrow(f, x) = s * SignBit(f) + c /\ s \in {0, 1} /\ IsNarrowed(f, x, c)
                       /\ f \in {"Float16", "BFloat16"} \/ ~IsNaN(x) => s = x.sign
  <2>1. f \notin {"Float16", "BFloat16"} /\ SignBit(f) = 128
    BY <1>3, Widths DEF IsEightBit
  <2>2. PICK c : c = FieldsMagnitude(x, m, bias, shift, least, topExponent, max, top)
    OBVIOUS
  <2>3. IsNarrowed(f, x, c)
    BY <1>3, <2>2, EightBitsNarrow
  <2>4. PICK s : s = IF IsNaN(x) THEN 0 ELSE x.sign
    OBVIOUS
  <2>5. Narrow(f, x) = c + (IF IsNaN(x) THEN 0 ELSE x.sign * 128)
    BY <1>3, <2>2, FieldsAre
  <2>6. s \in {0, 1} /\ (~IsNaN(x) => s = x.sign)
    BY <1>0, <2>4
  <2>7. Narrow(f, x) = s * SignBit(f) + c
    <3>1. c \in Nat
      BY <2>3 DEF IsNarrowed
    <3> QED
      BY <1>0, <2>1, <2>4, <2>5, <3>1
  <2> QED
    BY <2>1, <2>3, <2>6, <2>7
<1>4. CASE f = "Float8E4M3"
  <2>1. Narrow(f, x) = NarrowFields(x, 3, 7, 20, -3, 15, MaxE4M3, 126)
    <3>1. Narrow(f, x) = NarrowFloat8E4M3(x)
      BY <1>4, Zenon DEF Narrow
    <3> QED
      BY <3>1 DEF NarrowFloat8E4M3
  <2>2. IsEightBit(f, 3, 7, 20, -3, 15, MaxE4M3, 126)
    BY <1>4 DEF IsEightBit
  <2> QED
    BY <1>3, <2>1, <2>2
<1>5. CASE f = "Float8E5M2"
  <2>1. Narrow(f, x) = NarrowFields(x, 2, 15, 21, -1, 31, MaxE5M2, 124)
    <3>1. Narrow(f, x) = NarrowFloat8E5M2(x)
      BY <1>5, Zenon DEF Narrow
    <3> QED
      BY <3>1 DEF NarrowFloat8E5M2
  <2>2. IsEightBit(f, 2, 15, 21, -1, 31, MaxE5M2, 124)
    BY <1>5 DEF IsEightBit
  <2> QED
    BY <1>3, <2>1, <2>2
<1> QED
  BY <1>1, <1>2, <1>4, <1>5 DEF FloatFormats

\* The sign and the magnitude of a code put together from them.
LEMMA SignAndMagnitude ==
  ASSUME NEW f \in FloatFormats, NEW s \in {0, 1}, NEW c \in Nat, c < SignBit(f),
         NEW bits, bits = s * SignBit(f) + c
  PROVE  bits \in Codes(f) /\ SignOf(f, bits) = s /\ MagnitudeOf(f, bits) = c
<1>1. PICK u : u = SignBit(f)
  OBVIOUS
<1>2. u \in Nat /\ u >= 1
  BY <1>1, Widths DEF FloatFormats
<1>3. bits \in Nat /\ bits < 2 * u /\ bits = s * u + c
  BY <1>1, <1>2
<1>4. Splits(bits, u, s, c)
  BY <1>1, <1>3 DEF Splits
<1>5. bits \div u = s /\ bits % u = c
  BY <1>2, <1>3, <1>4, OneDivision
<1>6. bits \in Codes(f)
  BY <1>1, <1>2, <1>3, CodesAre
<1> QED
  BY <1>1, <1>5, <1>6 DEF SignOf, MagnitudeOf

\* The narrowing that keeps the payload of a NaN.
LEMMA NaNKeeps ==
  ASSUME NEW x \in Float32s, IsNaN(x), NEW bits, bits = NarrowNaN(x)
  PROVE  /\ bits \in Codes("Float16") /\ SignOf("Float16", bits) = x.sign
         /\ MagnitudeOf("Float16", bits) > 31744
         /\ (bits \div 2^9) % 2 = x.coef \div 2^22
<1>1. PICK s, n, p : s = x.sign /\ n = x.coef /\ p = IF n \div 8192 = 0 THEN 1 ELSE n \div 8192
  OBVIOUS
<1>2. s \in {0, 1} /\ n \in Nat /\ n < 8388608
  BY <1>1, FieldsHave
<1>3. p \in Nat /\ p >= 1 /\ p < 1024
  BY <1>1, <1>2
<1>4. bits = s * 32768 + 31744 + p
  <2>1. 2^15 = 32768 /\ 31 * 2^10 = 31744 /\ 2^13 = 8192
    OBVIOUS
  <2> QED
    BY <1>1, <2>1 DEF NarrowNaN
<1>5. PICK f, c : f = "Float16" /\ c = 31744 + p
  OBVIOUS
<1>6. bits \in Codes(f) /\ SignOf(f, bits) = s /\ MagnitudeOf(f, bits) = c
  <2>1. f \in FloatFormats /\ SignBit(f) = 32768
    BY <1>5, Widths DEF FloatFormats
  <2>2. c \in Nat /\ c < SignBit(f) /\ bits = s * SignBit(f) + c
    BY <1>2, <1>3, <1>4, <1>5, <2>1
  <2> QED
    BY <1>2, <2>1, <2>2, SignAndMagnitude
<1>7. (bits \div 2^9) % 2 = n \div 2^22
  <2>1. 2^9 = 512 /\ 2^22 = 4194304
    OBVIOUS
  <2>2. p \div 512 = n \div 4194304 /\ n \div 4194304 \in {0, 1}
    BY <1>1, <1>2
  <2>3. (bits \div 512) % 2 = p \div 512
    BY <1>2, <1>3, <1>4
  <2> QED
    BY <2>1, <2>2, <2>3
<1> QED
  BY <1>1, <1>3, <1>5, <1>6, <1>7

------------------------------------------------------------------------------
(* The filter.                                                              *)

PrecisionTold(x) ==
  LET back == Widen("Float16", Narrow("Float16", x))
  IN  /\ Precision(x) = "exact" => back = x
      /\ Precision(x) \notin {"exact", "unknown"} => back # x

\* PrecisionFromfloat32 tells the truth about every finite number.
LEMMA PrecisionIs ==
  ASSUME NEW x \in Float32s, x.exp # 255
  PROVE  PrecisionTold(x)
<1> PICK f : f = "Float16"
  OBVIOUS
<1>n. PICK h, n, c, bits :
        /\ h = x.exp /\ n = x.coef /\ c = HalfMagnitude(h - 112, n) /\ bits = Narrow("Float16", x)
  OBVIOUS
<1>b. PICK back : back = WidenFloat16(bits)
  OBVIOUS
<1>0. x.sign \in {0, 1} /\ h \in Nat /\ h < 255 /\ n \in Nat /\ n < 8388608
  BY <1>n, FieldsHave
<1>1. Widen("Float16", Narrow("Float16", x)) = back
  BY <1>b, <1>n DEF Widen
<1>2. IsNarrowed("Float16", x, c) /\ bits = x.sign * 32768 + c
  <2>1. Narrow("Float16", x) = NarrowFloat16(x)
    BY Zenon DEF Narrow
  <2> QED
    BY <1>n, <2>1, Float16Is, Float16Narrows
<1>3. /\ bits \in Codes("Float16") /\ MagnitudeOf("Float16", bits) = c
      /\ SignOf("Float16", bits) = x.sign
  <2>1. c \in Nat /\ c < SignBit("Float16") /\ "Float16" \in FloatFormats
    BY <1>2 DEF IsNarrowed, FloatFormats
  <2>2. bits = x.sign * SignBit("Float16") + c
    BY <1>2, Widths
  <2> QED
    BY <1>0, <2>1, <2>2, SignAndMagnitude
<1>4. /\ IsExact("Float16", bits, back)
      /\ back.coef % 8192 = 0 /\ (back.exp < 103 => back.exp = 0 /\ back.coef = 0)
  BY <1>b, <1>3, Float16Widens
<1>5. Precision(x) = IF h = 0 /\ n = 0 THEN "exact" ELSE IF h < 103 THEN "underflow"
                     ELSE IF h > 142 THEN "overflow" ELSE IF n % 8192 # 0 THEN "inexact"
                     ELSE IF h < 113 THEN "unknown" ELSE "exact"
  BY <1>0, <1>n DEF Precision
<1>6. CASE h = 0 /\ n = 0
  <2>1. c = 0
    BY <1>6, <1>n DEF HalfMagnitude
  <2>2. back = Float32(x.sign, 0, 0)
    <3>1. bits \div 32768 = x.sign /\ (bits \div 1024) % 32 = 0 /\ bits % 1024 = 0
      BY <1>0, <1>2, <2>1
    <3> QED
      BY <1>b, <3>1 DEF WidenFloat16, WidenFields
  <2>3. x = Float32(x.sign, 0, 0)
    BY <1>6, <1>n DEF Float32s, Float32
  <2> QED
    BY <1>1, <1>5, <1>6, <2>2, <2>3 DEF PrecisionTold
<1>7. CASE ~(h = 0 /\ n = 0) /\ h < 103
  <2>1. back # x
    BY <1>4, <1>7, <1>n
  <2> QED
    BY <1>1, <1>5, <1>7, <2>1 DEF PrecisionTold
<1>8. CASE h > 142
  <2>1. c = 31744
    BY <1>0, <1>8, <1>n DEF HalfMagnitude
  <2>2. ~(MagnitudeOf("Float16", bits) < Infinity("Float16"))
    BY <1>3, <2>1, Widths
  <2>3. back.exp = 255
    BY <1>4, <2>2 DEF IsExact
  <2>4. back # x
    BY <1>0, <1>n, <2>3
  <2> QED
    BY <1>0, <1>1, <1>5, <1>8, <2>4 DEF PrecisionTold
<1>9. CASE h >= 103 /\ h <= 142 /\ n % 8192 # 0
  <2>1. back # x
    BY <1>4, <1>9, <1>n
  <2> QED
    BY <1>0, <1>1, <1>5, <1>9, <2>1 DEF PrecisionTold
<1>10. CASE h >= 103 /\ h < 113 /\ n % 8192 = 0
  BY <1>0, <1>5, <1>10 DEF PrecisionTold
<1>11. CASE h >= 113 /\ h <= 142 /\ n % 8192 = 0
  <2>1. PICK e, q : e = h - 112 /\ q = n \div 8192
    OBVIOUS
  <2>2. e \in Nat /\ e >= 1 /\ e <= 30 /\ q \in Nat /\ q < 1024 /\ n = q * 8192
    BY <1>0, <1>11, <2>1
  <2>3. Increment(n, 4096) = 0
    <3>1. (n \div 4096) % 2 = 0
      BY <2>2
    <3> QED
      BY <3>1 DEF Increment, RoundsUp
  <2>4. c = e * 1024 + q
    BY <1>n, <2>1, <2>2, <2>3, PowerTable DEF HalfMagnitude
  <2>5. bits \div 32768 = x.sign /\ (bits \div 1024) % 32 = e /\ bits % 1024 = q
    <3>1. PICK s : s = x.sign
      OBVIOUS
    <3>2. bits = s * 32768 + e * 1024 + q
      BY <1>0, <1>2, <2>2, <2>4, <3>1
    <3>3. CASE s = 0
      BY <2>2, <3>1, <3>2, <3>3
    <3>4. CASE s = 1
      BY <2>2, <3>1, <3>2, <3>4
    <3> QED
      BY <1>0, <3>1, <3>3, <3>4
  <2>6. back = WidenFields(x.sign, e, q, 10, 15)
    <3>1. e # 31 /\ 2^15 = 32768 /\ 2^10 = 1024
      BY <2>2
    <3> QED
      BY <1>b, <2>5, <3>1 DEF WidenFloat16
  <2>7. back = Float32(x.sign, e - 15 + 127, q * Pow(23 - 10))
    <3>1. q < Pow(10) /\ 15 \in Int
      BY <2>2, PowerTable
    <3> QED
      BY <2>2, <2>6, <3>1, WidenNormal
  <2>8. e - 15 + 127 = h /\ q * Pow(23 - 10) = n
    BY <1>0, <2>1, <2>2, PowerTable
  <2>9. x = Float32(x.sign, h, n)
    BY <1>n DEF Float32s, Float32
  <2>10. back = x
    BY <2>7, <2>8, <2>9
  <2> QED
    BY <1>0, <1>1, <1>5, <1>11, <2>10 DEF PrecisionTold
<1> QED
  BY <1>0, <1>6, <1>7, <1>8, <1>9, <1>10, <1>11

------------------------------------------------------------------------------
(* The invariant: a number is the exact value of the code it was read from, *)
(* and a code what narrowing made of the number beside it.                  *)

NumberInv ==
  /\ number \in Float32s /\ format \in FloatFormats \cup {"Int4"}
  /\ phase \in {"number", "stored", "widened", "narrowed", "kept", "pair", "packed"}
  /\ phase \in {"stored", "widened", "narrowed"}
       => format \in FloatFormats /\ code \in Codes(format)
  /\ phase = "widened" => IsExact(format, code, number)
  /\ phase = "narrowed" => code = Narrow(format, number)
  /\ phase = "kept" => format = "Float16" /\ IsNaN(number) /\ code = NarrowNaN(number)

\* Narrowing makes a code of the format.
LEMMA NarrowedCode ==
  ASSUME NEW f \in FloatFormats, NEW x \in Float32s
  PROVE  Narrow(f, x) \in Codes(f)
<1>1. PICK c, s : Narrow(f, x) = s * SignBit(f) + c /\ s \in {0, 1} /\ IsNarrowed(f, x, c)
  BY NarrowIs
<1>2. c \in Nat /\ c < SignBit(f)
  BY <1>1 DEF IsNarrowed
<1> QED
  BY <1>1, <1>2, SignAndMagnitude

\* The invariant holds initially and every conversion keeps it.
LEMMA NumberInvIsInvariant == CastSpec => []NumberInv
<1>1. CastInit => NumberInv
  <2> SUFFICES ASSUME CastInit PROVE NumberInv
    OBVIOUS
  <2>1. Zero \in Float32s
    BY FieldsMake DEF Zero
  <2>2. CASE phase = "number" /\ number \in Numbers /\ format = "Float16" /\ code = 0
    BY <2>2, NumbersAssumption DEF NumberInv, FloatFormats
  <2>3. CASE /\ phase = "stored" /\ number = Zero
             /\ \E element \in Stored : format = element[1] /\ code = element[2]
    BY <2>1, <2>3, StoredAssumption DEF NumberInv
  <2>4. CASE phase = "pair" /\ number = Zero /\ format = "Int4" /\ code = 0
    BY <2>1, <2>4 DEF NumberInv
  <2> QED
    BY <2>2, <2>3, <2>4 DEF CastInit
<1>2. NumberInv /\ [CastNext]_castVars => NumberInv'
  <2> SUFFICES ASSUME NumberInv, [CastNext]_castVars
               PROVE  NumberInv'
    OBVIOUS
  <2>1. CASE UNCHANGED castVars
    BY <2>1 DEF NumberInv, castVars
  <2>2. CASE WidenElement
    <3>1. format \in FloatFormats /\ code \in Codes(format)
      BY <2>2 DEF NumberInv, WidenElement
    <3>2. IsExact(format, code, number') /\ number' \in Float32s
      BY <2>2, <3>1, WidenIsExact DEF WidenElement
    <3> QED
      BY <2>2, <3>1, <3>2 DEF NumberInv, WidenElement
  <2>3. CASE NarrowElement
    <3>1. format' \in FloatFormats /\ code' = Narrow(format', number) /\ number' = number
          /\ phase' = "narrowed"
      BY <2>3 DEF NarrowElement
    <3>2. code' \in Codes(format')
      BY <3>1, NarrowedCode DEF NumberInv
    <3> QED
      BY <3>1, <3>2 DEF NumberInv
  <2>4. CASE KeepNaN
    BY <2>4 DEF NumberInv, KeepNaN, FloatFormats
  <2>5. CASE NewInt4Pair
    BY <2>5 DEF NumberInv, NewInt4Pair
  <2>6. CASE ReplaceNibble
    BY <2>6 DEF NumberInv, ReplaceNibble
  <2> QED
    BY <2>1, <2>2, <2>3, <2>4, <2>5, <2>6 DEF CastNext
<1> QED
  BY <1>1, <1>2, PTL DEF CastSpec

\* Every code of every format is widened to the float32 it stands for, whatever
\* conversions came before (float16.go:162-163, bfloat16.go:77-81, fp8.go:35-38).
THEOREM CodesWidenExactly == CastSpec => []WideningIsExact
<1>1. NumberInv => WideningIsExact
  BY DEF NumberInv, WideningIsExact, IsExact
<1> QED
  BY <1>1, NumberInvIsInvariant, PTL

\* Every float32 is narrowed to the nearest element, ties to the even one: to
\* binary16 and bfloat16 all of them, to the 8-bit formats those in the range of
\* their normal values (float16.go:109-112, bfloat16.go:20-40).
THEOREM NumbersNarrowToNearest == CastSpec => []NarrowingIsNearest
<1>1. NumberInv => NarrowingIsNearest
  <2> SUFFICES ASSUME NumberInv, phase = "narrowed", ~IsNaN(number),
                      RoundsAsDocumented(format, number)
               PROVE  IsNearest(format, number, MagnitudeOf(format, code))
    BY DEF NarrowingIsNearest
  <2>1. format \in FloatFormats /\ number \in Float32s /\ code = Narrow(format, number)
    BY DEF NumberInv
  <2>2. PICK c, s : code = s * SignBit(format) + c /\ s \in {0, 1} /\ IsNarrowed(format, number, c)
    BY <2>1, NarrowIs
  <2>3. c \in Nat /\ c < SignBit(format) /\ IsNearest(format, number, c)
    BY <2>2 DEF IsNarrowed
  <2>4. MagnitudeOf(format, code) = c
    BY <2>1, <2>2, <2>3, SignAndMagnitude
  <2> QED
    BY <2>3, <2>4
<1> QED
  BY <1>1, NumberInvIsInvariant, PTL

\* For every float32 a NaN stays one and nothing else becomes one, infinity stays
\* the infinity of the format, the sign is kept, and so is a signalling payload
\* where the payload is kept (float16.go:121-127).
THEOREM SpecialsStaySpecial == CastSpec => []SpecialsSurvive
<1>1. NumberInv => SpecialsSurvive
  <2> SUFFICES ASSUME NumberInv, phase \in {"narrowed", "kept"}
               PROVE  /\ IsNaN(number) <=> IsNaNCode(format, code)
                      /\ format \in {"Float16", "BFloat16"} \/ ~IsNaN(number)
                           => SignOf(format, code) = number.sign
                      /\ IsInf(number) => MagnitudeOf(format, code) = Infinity(format)
                      /\ phase = "kept" => (code \div 2^9) % 2 = number.coef \div 2^22
    BY DEF SpecialsSurvive
  <2>1. CASE phase = "narrowed"
    <3>1. format \in FloatFormats /\ number \in Float32s /\ code = Narrow(format, number)
      BY <2>1 DEF NumberInv
    <3>2. PICK c, s :
            /\ code = s * SignBit(format) + c /\ s \in {0, 1} /\ IsNarrowed(format, number, c)
            /\ format \in {"Float16", "BFloat16"} \/ ~IsNaN(number) => s = number.sign
      BY <3>1, NarrowIs
    <3>3. /\ c \in Nat /\ c < SignBit(format)
          /\ IsNaN(number) => c > Infinity(format)
          /\ ~IsNaN(number) => c <= Infinity(format)
          /\ IsInf(number) => c = Infinity(format)
      BY <3>2 DEF IsNarrowed
    <3>4. MagnitudeOf(format, code) = c /\ SignOf(format, code) = s
      BY <3>1, <3>2, <3>3, SignAndMagnitude
    <3>5. Infinity(format) \in Nat
      BY <3>1, Widths DEF FloatFormats
    <3>6. IsNaN(number) <=> IsNaNCode(format, code)
      BY <3>3, <3>4, <3>5 DEF IsNaNCode
    <3> QED
      BY <2>1, <3>2, <3>3, <3>4, <3>6
  <2>2. CASE phase = "kept"
    <3>1. number \in Float32s /\ IsNaN(number) /\ format = "Float16" /\ code = NarrowNaN(number)
      BY <2>2 DEF NumberInv
    <3>2. /\ SignOf(format, code) = number.sign /\ MagnitudeOf(format, code) > Infinity(format)
          /\ (code \div 2^9) % 2 = number.coef \div 2^22
      BY <3>1, NaNKeeps, Widths
    <3>3. ~IsInf(number) /\ IsNaNCode(format, code)
      BY <3>1, <3>2 DEF IsNaN, IsInf, IsNaNCode
    <3> QED
      BY <3>1, <3>2, <3>3
  <2> QED
    BY <2>1, <2>2
<1> QED
  BY <1>1, NumberInvIsInvariant, PTL

\* For every finite float32 the filter of binary16 is right: what it calls exact
\* comes back unchanged, and what it calls inexact, an underflow or an overflow
\* does not (float16.go:20-36).
THEOREM FilterTellsTheTruth == CastSpec => []PrecisionIsHonest
<1>1. NumberInv => PrecisionIsHonest
  <2> SUFFICES ASSUME NumberInv, phase = "number", number.exp # 255
               PROVE  PrecisionTold(number)
    BY DEF PrecisionIsHonest, PrecisionTold
  <2>1. number \in Float32s
    BY DEF NumberInv
  <2> QED
    BY <2>1, PrecisionIs
<1> QED
  BY <1>1, NumberInvIsInvariant, PTL
==============================================================================
