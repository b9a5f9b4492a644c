--------------------------- MODULE MCNumberCasts ---------------------------
(****************************************************************************)
(* Elements and numbers for TLC: every element of the 8-bit formats, the    *)
(* 16-bit ones at the ends and in the middle of binades, and around each of *)
(* them the numbers that lie on it, next to it, on the way to the next one  *)
(* and next to that.                                                        *)
(****************************************************************************)
EXTENDS NumberCasts

Magnitudes(f) ==
  CASE f = "Float16" -> {e * 1024 + m : e \in 0 .. 30,
                                        m \in {0, 1, 2, 3, 511, 512, 1022, 1023}}
    [] f = "BFloat16" -> {e * 128 + m : e \in {0, 1, 2, 126, 127, 253, 254},
                                        m \in {0, 1, 2, 3, 63, 64, 126, 127}}
    [] f = "Float8E4M3" -> 0 .. 126
    [] f = "Float8E5M2" -> 0 .. 123
NaNCodes(f) ==
  CASE f = "Float16" -> {31744 + p : p \in {1, 511, 512, 513, 1023}}
    [] f = "BFloat16" -> {32640 + p : p \in {1, 63, 64, 65, 127}}
    [] f = "Float8E4M3" -> {127}
    [] f = "Float8E5M2" -> {125, 126, 127}

Around(f, c) ==
  LET x == ValueOf(f, c)
      above == ValueOf(f, c + 1)
      next == IF above.exp = x.exp THEN above.coef ELSE Implicit
      half == (next - x.coef) \div 2
      steps == {0, 1, half - 1, half, half + 1, 2 * half - 1}
  IN  IF c = 0 /\ above.exp > 1
      THEN {Float32(0, above.exp - 1, 0), Float32(0, above.exp - 1, 1),
            Float32(0, above.exp - 2, Implicit - 1)}
      ELSE {Float32(0, x.exp, x.coef + step) : step \in steps}

Signed(numbers) == numbers \cup {[x EXCEPT !.sign = 1] : x \in numbers}

MCNumbers ==
  Signed(UNION {Around(f, c) : <<f, c>> \in
                  UNION {{f} \X Magnitudes(f) : f \in FloatFormats}}
         \cup {Float32(0, exp, coef) : exp \in 0 .. 254,
                                       coef \in {0, 1, 2^13, Implicit - 1}}
         \cup {Float32(0, 255, coef) :
                 coef \in {0, 1, 2^13, 2^22, 2^22 + 1, 3 * 2^21, Implicit - 1}})
MCStored ==
  UNION {{f} \X {c + sign * SignBit(f) : c \in Magnitudes(f) \cup NaNCodes(f)
                                               \cup {Infinity(f)},
                                         sign \in {0, 1}} : f \in FloatFormats}
MCIntegers4 == {-128, -9, -8, -7, -1, 0, 1, 6, 7, 8, 127}

\* The elements of one 8-bit format.
MCStoredE4M3 == {"Float8E4M3"} \X (0 .. 255)
=============================================================================
