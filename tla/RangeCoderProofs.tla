--------------------------- MODULE RangeCoderProofs ---------------------------
(***************************************************************************)
(* What the operators of RangeCoder7.tla and RangeCoder8.tla do, for       *)
(* digits of any size, any frequencies and any input.                      *)
(*                                                                         *)
(* Of each coder: an encoder within its limits (Kept7, Kept8) stays within *)
(* them whatever it codes (IntervalStays, BitsStay); a decoder in step     *)
(* with it (InStep7, InStep8) stays in step whatever it reads              *)
(* (DecoderFollows, BitsFollow7); and an input that stands at some place   *)
(* of the encoder's interval (At7, At8) after a symbol stood in that       *)
(* symbol's part before it, so that the decoder finds the symbol           *)
(* (SymbolComesBack, BitComesBack, from BeginningComesBack to FlushTells). *)
(*                                                                         *)
(* The hypotheses are CodersAssumption of Codec.tla: Digital and Bottom    *)
(* are parts of it, and a total is at most as large as the coder allows.   *)
(***************************************************************************)
EXTENDS Integers, Sequences, TLAPS

CONSTANTS Base, kBot, BitTotal

R7 == INSTANCE RangeCoder7
R8 == INSTANCE RangeCoder8

\* There are at least two digits.
Digital == Base \in Nat /\ Base > 1

\* Digits have 8 bits in the code.
Digits == 0..(Base - 1)

-------------------------------------------------------------------------------
(***************************************************************************)
(* Of numbers.                                                             *)
(***************************************************************************)

\* Quotient and remainder.
LEMMA DivMod ==
    ASSUME NEW a \in Nat, NEW n \in Nat \ {0}
    PROVE  /\ a \div n \in Nat /\ a % n \in Nat /\ a % n < n
           /\ a = n * (a \div n) + (a % n)
<1>1. a \in Int /\ n \in Int /\ n > 0
  OBVIOUS
<1>2. a = n * (a \div n) + (a % n)
  BY <1>1, Z3
<1>3. a \div n \in Nat
  OBVIOUS
<1>4. a % n \in Nat /\ a % n < n
  OBVIOUS
<1> QED BY <1>2, <1>3, <1>4

\* A product with a larger factor is larger.
LEMMA Times ==
    ASSUME NEW a \in Nat, NEW b \in Nat, NEW c \in Nat, a <= b
    PROVE  a * c <= b * c /\ c * a <= c * b /\ c * a \in Nat
  OBVIOUS

\* There is one quotient and one remainder.
LEMMA DivModIs ==
    ASSUME NEW a \in Nat, NEW n \in Nat \ {0}, NEW q \in Nat, NEW r \in Nat,
           r < n, a = n * q + r
    PROVE  a \div n = q /\ a % n = r
<1>1. a \div n \in Nat /\ a % n \in Nat /\ a % n < n /\ a = n * (a \div n) + (a % n)
  BY DivMod
<1> DEFINE p == a \div n
           s == a % n
<1> HIDE DEF p, s
<1>2. p \in Nat /\ s \in Nat /\ s < n /\ n * p + s = n * q + r
  BY <1>1 DEF p, s
<1>3. ASSUME p < q PROVE FALSE
  <2>1. n * (p + 1) <= n * q
    BY <1>2, <1>3, Times
  <2>2. n * (p + 1) = n * p + n
    BY <1>2
  <2> QED BY <1>2, <2>1, <2>2
<1>4. ASSUME q < p PROVE FALSE
  <2>1. n * (q + 1) <= n * p
    BY <1>2, <1>4, Times
  <2>2. n * (q + 1) = n * q + n
    BY <1>2
  <2> QED BY <1>2, <2>1, <2>2
<1>5. p = q /\ s = r
  BY <1>2, <1>3, <1>4
<1> QED BY <1>5 DEF p, s

\* The sizes both coders are made of: 2^16, kTopValue and 2^32.
LEMMA Sizes ==
    ASSUME Digital
    PROVE  /\ R7!Top \in Nat \ {0} /\ R7!Full \in Nat /\ R7!Full = Base * R7!Top
           /\ R7!LastDigit \in Nat \ {0} /\ Base = R7!LastDigit + 1
           /\ R7!Full = R7!LastDigit * R7!Top + R7!Top
           /\ R7!Top = Base * (Base * Base) /\ Base * Base \in Nat \ {0}
           /\ Base <= Base * Base /\ Base * Base <= R7!Top /\ 2 * R7!Top <= R7!Full
<1> DEFINE two == Base * Base
           three == Base * two
<1>1. Base \in Nat /\ Base > 1
  BY DEF Digital
<1>2. two \in Nat /\ Base <= two
  BY <1>1
<1>3. three \in Nat /\ two <= three
  <2> HIDE DEF two
  <2> QED BY <1>1, <1>2
<1>4. R7!Top = three
  BY <1>1 DEF R7!Top
<1> HIDE DEF two, three
<1>5. three # 0 /\ two # 0
  BY <1>1, <1>2, <1>3
<1>6. Base * three = (Base - 1) * three + three /\ 2 * three <= Base * three /\ Base * three \in Nat
  BY <1>1, <1>3
<1>7. R7!Full = Base * three
  BY <1>4 DEF R7!Full
<1>8. R7!LastDigit = Base - 1
  BY DEF R7!LastDigit
<1> QED BY <1>1, <1>2, <1>3, <1>4, <1>5, <1>6, <1>7, <1>8 DEF two, three

\* The two coders have the same ones.
LEMMA Sizes8 ==
    ASSUME Digital
    PROVE  R8!Top = R7!Top /\ R8!Full = R7!Full
  BY DEF R8!Top, R8!Full, R7!Top, R7!Full

\* A digit times the weight of the top digit, and a rest below that weight, are
\* less than 2^32.
LEMMA TopAndRest ==
    ASSUME Digital, NEW d \in Digits, NEW v \in Nat, v < R7!Top
    PROVE  d * R7!Top + v \in Nat /\ d * R7!Top + v < R7!Full
<1>1. R7!Top \in Nat \ {0} /\ R7!LastDigit \in Nat /\ Base = R7!LastDigit + 1
      /\ R7!Full = R7!LastDigit * R7!Top + R7!Top /\ R7!Full \in Nat
  BY Sizes
<1>2. d \in Nat /\ d <= R7!LastDigit
  BY <1>1 DEF Digits
<1>3. d * R7!Top <= R7!LastDigit * R7!Top /\ d * R7!Top \in Nat
  BY <1>1, <1>2, Times
<1> DEFINE a == d * R7!Top
           b == R7!LastDigit * R7!Top
<1> HIDE DEF a, b
<1>4. a \in Nat /\ a <= b /\ R7!Full = b + R7!Top /\ b \in Nat
  <2>1. b \in Nat
    BY <1>1 DEF b
  <2> QED BY <1>1, <1>3, <2>1 DEF a, b
<1>5. a + v \in Nat /\ a + v < R7!Full
  BY <1>1, <1>4
<1> QED BY <1>5 DEF a

\* A number below 2 * 2^32 has a carry, a top digit and a rest.
LEMMA LowParts ==
    ASSUME Digital, NEW low \in Nat, low < 2 * R7!Full
    PROVE  \E q \in {0, 1}, d \in Digits, t \in Nat :
               /\ t < R7!Top /\ low = q * R7!Full + (d * R7!Top + t)
               /\ low \div R7!Full = q /\ low % R7!Full = d * R7!Top + t
               /\ (low % R7!Full) \div R7!Top = d /\ low % R7!Top = t
<1> DEFINE T == R7!Top
           F == R7!Full
           q == low \div F
           m == low % F
           d == m \div T
           t == m % T
<1>1. T \in Nat \ {0} /\ F \in Nat \ {0} /\ F = Base * T /\ Base \in Nat /\ Base > 1
  BY Sizes DEF Digital
<1>2. q \in Nat /\ m \in Nat /\ m < F /\ low = F * q + m
  BY <1>1, DivMod
<1>3. d \in Nat /\ t \in Nat /\ t < T /\ m = T * d + t
  BY <1>1, <1>2, DivMod
<1>4. q \in {0, 1}
  <2> HIDE DEF F, q, m
  <2>1. ASSUME q >= 2 PROVE FALSE
    <3>1. F * 2 <= F * q
      BY <1>1, <1>2, <2>1, Times
    <3>2. low < 2 * F
      BY DEF F
    <3> QED BY <1>1, <1>2, <3>1, <3>2
  <2> QED BY <1>2, <2>1
<1>5. d \in Digits
  <2> HIDE DEF F, T, m, d, t
  <2>1. ASSUME d >= Base PROVE FALSE
    <3>1. T * Base <= T * d
      BY <1>1, <1>3, <2>1, Times
    <3> QED BY <1>1, <1>2, <1>3, <3>1
  <2> QED BY <1>1, <1>3, <2>1 DEF Digits
<1>6. low % T = t
  <2> HIDE DEF F, T, q, m, d, t
  <2>1. F * q = T * (Base * q)
    BY <1>1, <1>2
  <2>2. Base * q \in Nat
    BY <1>1, <1>2
  <2> DEFINE p == Base * q
  <2> HIDE DEF p
  <2>3. low = T * (p + d) + t
    <3>1. T * (p + d) = T * p + T * d
      BY <1>1, <1>3, <2>2 DEF p
    <3>2. low = T * p + (T * d + t)
      BY <1>2, <1>3, <2>1 DEF p
    <3>3. T * p \in Nat /\ T * d \in Nat
      BY <1>1, <1>3, <2>2 DEF p
    <3> QED BY <1>3, <3>1, <3>2, <3>3
  <2>4. p + d \in Nat
    BY <1>3, <2>2 DEF p
  <2> QED BY <1>1, <1>3, <2>3, <2>4, DivModIs
<1>7. low = q * F + (d * T + t) /\ m = d * T + t
  <2> HIDE DEF F, T, q, m, d, t
  <2> QED BY <1>1, <1>2, <1>3
<1> QED BY <1>3, <1>4, <1>5, <1>6, <1>7

-------------------------------------------------------------------------------
(***************************************************************************)
(* The encoder of PPMd7.                                                   *)
(***************************************************************************)

\* The states of the encoder.
Counts == Nat \ {0}
Outs == Seq(Digits)
Encoders7 == [Low : Nat, Range : Nat, Cache : Digits, CacheSize : Counts, out : Outs]

\* The fields of an encoder, and an encoder of such fields.
LEMMA Fields7 ==
    ASSUME NEW rc \in Encoders7
    PROVE  /\ rc.Low \in Nat /\ rc.Range \in Nat /\ rc.Cache \in Digits
           /\ rc.CacheSize \in Nat \ {0} /\ rc.out \in Seq(Digits)
           /\ rc = [Low |-> rc.Low, Range |-> rc.Range, Cache |-> rc.Cache,
                    CacheSize |-> rc.CacheSize, out |-> rc.out]
<1>1. /\ rc.Low \in Nat /\ rc.Range \in Nat /\ rc.Cache \in Digits
      /\ rc.CacheSize \in Counts /\ rc.out \in Outs
      /\ rc = [Low |-> rc.Low, Range |-> rc.Range, Cache |-> rc.Cache,
               CacheSize |-> rc.CacheSize, out |-> rc.out]
  BY DEF Encoders7
<1> QED BY <1>1 DEF Counts, Outs

\* An interval low .. low + h that leaves room for its carry: one carry at most, and
\* none when the digit held back is the largest.
Open7(low, h, cache) ==
    /\ low \in Nat /\ h \in Nat \ {0} /\ low + h < 2 * R7!Full
    /\ cache = R7!LastDigit => low + h <= R7!Full

\* The encoder between two symbols: Range is at least 2^24 and below 2^32.
Kept7(rc) ==
    /\ rc \in Encoders7
    /\ Open7(rc.Low, rc.Range, rc.Cache)
    /\ R7!Top <= rc.Range /\ rc.Range < R7!Full

\* A narrower interval has room for its carry too.
LEMMA Narrower ==
    ASSUME Digital, NEW low \in Nat, NEW h \in Nat, NEW cache, Open7(low, h, cache),
           NEW low2 \in Nat, NEW h2 \in Nat \ {0}, low2 + h2 <= low + h
    PROVE  Open7(low2, h2, cache)
<1>1. R7!Full \in Nat
  BY Sizes
<1>2. low2 + h2 < 2 * R7!Full
  BY <1>1 DEF Open7
<1>3. cache = R7!LastDigit => low2 + h2 <= R7!Full
  BY <1>1 DEF Open7
<1> QED BY <1>2, <1>3 DEF Open7

\* The carry that ShiftLow adds to Cache leaves it a digit: `Cache + carry` does not
\* overflow its 8 bits.
THEOREM CarryFits ==
    ASSUME Digital, NEW rc \in Encoders7, Open7(rc.Low, rc.Range, rc.Cache)
    PROVE  R7!Carry(rc) \in {0, 1} /\ rc.Cache + R7!Carry(rc) \in Digits
<1> DEFINE low == rc.Low
           h == rc.Range
           cache == rc.Cache
           F == R7!Full
<1>1. low \in Nat /\ h \in Nat \ {0} /\ low + h < 2 * F
      /\ (cache = R7!LastDigit => low + h <= F)
  BY DEF Open7, Encoders7
<1>2. cache \in Digits
  BY DEF Encoders7
<1>3. R7!LastDigit \in Nat /\ Base = R7!LastDigit + 1 /\ F \in Nat
  BY Sizes
<1>4. PICK q \in {0, 1}, d \in Digits, t \in Nat :
          low = q * F + (d * R7!Top + t) /\ low \div F = q /\ t < R7!Top
  <2>1. low < 2 * F
    BY <1>1, <1>3
  <2> QED BY <1>1, <2>1, LowParts
<1>5. R7!Carry(rc) = q
  BY <1>4 DEF R7!Carry
<1>6. d * R7!Top + t \in Nat
  BY <1>4, TopAndRest
<1> HIDE DEF low, h, cache, F
<1>7. q = 1 => cache # R7!LastDigit
  BY <1>1, <1>3, <1>4, <1>6
<1>8. cache + q \in Digits
  BY <1>2, <1>3, <1>7 DEF Digits
<1> QED BY <1>5, <1>8 DEF cache

\* One shift moves the interval up by one digit, and the room for its carry with it:
\* the cached digit is a new one, or the same when the top digit of Low waits behind it.
LEMMA ShiftNumbers ==
    ASSUME Digital, NEW low \in Nat, NEW h \in Nat, NEW cache \in Digits,
           Open7(low, h, cache), h < R7!Top,
           NEW q \in {0, 1}, NEW d \in Digits, NEW t \in Nat, t < R7!Top,
           low = q * R7!Full + (d * R7!Top + t)
    PROVE  /\ t * Base \in Nat /\ h * Base \in Nat \ {0} /\ h * Base < R7!Full
           /\ d < R7!LastDigit \/ q = 1 => Open7(t * Base, h * Base, d)
           /\ ~(d < R7!LastDigit \/ q = 1) =>
                  d = R7!LastDigit /\ q = 0 /\ Open7(t * Base, h * Base, cache)
<1> DEFINE T == R7!Top
           F == R7!Full
           L == R7!LastDigit
           x == t * Base
           y == h * Base
<1>1. T \in Nat \ {0} /\ F \in Nat /\ F = Base * T /\ L \in Nat \ {0} /\ Base = L + 1
      /\ F = L * T + T /\ Base \in Nat /\ Base > 1
  BY Sizes DEF Digital
<1>2. h # 0 /\ low + h < 2 * F /\ (cache = L => low + h <= F)
  BY DEF Open7
<1>3. d \in Nat /\ d <= L
  BY <1>1 DEF Digits
<1>4. x \in Nat /\ y \in Nat /\ y # 0
  BY <1>1, <1>2
<1>5. x + y = (t + h) * Base
  BY <1>1
<1>6. ASSUME NEW n \in Nat, n <= T PROVE n * Base <= F
  BY <1>1, <1>6, Times
<1>7. ASSUME NEW n \in Nat, n < T PROVE n * Base < F
  <2>1. (n + 1) * Base <= F
    BY <1>6, <1>7, <1>1
  <2>2. (n + 1) * Base = n * Base + Base /\ n * Base \in Nat
    BY <1>1
  <2> QED BY <1>1, <2>1, <2>2
<1>8. y < F /\ x < F
  BY <1>7
<1> HIDE DEF x, y, F, T, L
<1>9. x + y < 2 * F
  BY <1>1, <1>4, <1>8
<1>10. ASSUME t + h <= T PROVE x + y <= F
  <2>1. t + h \in Nat
    OBVIOUS
  <2> QED BY <1>5, <1>6, <1>10, <2>1
<1>11. ASSUME d = L, q * F + (L * T + t) + h <= q * F + F PROVE t + h <= T
  <2> DEFINE a == q * F
             b == L * T
  <2>1. a \in Nat /\ b \in Nat
    BY <1>1
  <2> HIDE DEF a, b
  <2>2. F = b + T
    BY <1>1 DEF b
  <2>3. a + (b + t) + h <= a + F
    BY <1>11 DEF a, b
  <2> QED BY <1>1, <2>1, <2>2, <2>3
<1>12. low = q * F + (d * T + t)
  BY DEF F, T
<1>13. ASSUME d = L, q = 1 PROVE x + y <= F
  <2>1. 1 * F = F
    BY <1>1
  <2>2. q * F + (L * T + t) + h <= q * F + F
    BY <1>1, <1>2, <1>12, <1>13, <2>1
  <2> QED BY <1>10, <1>11, <1>13, <2>2
<1>14. ASSUME q = 0, d = L, cache = L PROVE x + y <= F
  <2>1. 0 * F = 0
    BY <1>1
  <2>2. q * F + (L * T + t) + h <= q * F + F
    BY <1>1, <1>2, <1>12, <1>14, <2>1
  <2> QED BY <1>10, <1>11, <1>14, <2>2
<1>15. d < L \/ q = 1 => Open7(x, y, d)
  <2>1. d < L \/ q = 1 => (d = L => x + y <= F)
    BY <1>1, <1>3, <1>13
  <2>2. x \in Nat /\ y \in Nat \ {0} /\ x + y < 2 * F
    BY <1>4, <1>9
  <2> QED BY <2>1, <2>2 DEF Open7, F, L
<1>16. ~(d < L \/ q = 1) => d = L /\ q = 0
  BY <1>1, <1>3
<1>17. ~(d < L \/ q = 1) => Open7(x, y, cache)
  <2>1. ~(d < L \/ q = 1) => (cache = L => x + y <= F)
    BY <1>14, <1>16
  <2>2. x \in Nat /\ y \in Nat \ {0} /\ x + y < 2 * F
    BY <1>4, <1>9
  <2> QED BY <2>1, <2>2 DEF Open7, F, L
<1> QED BY <1>4, <1>8, <1>15, <1>16, <1>17 DEF x, y, F, L

\* What is written at once: the cached digit and those behind it, as digits.
LEMMA EmittedIs ==
    ASSUME Digital, NEW rc \in Encoders7, R7!Carry(rc) \in {0, 1}
    PROVE  /\ R7!Emitted(rc) \in Seq(Digits) /\ Len(R7!Emitted(rc)) = rc.CacheSize
           /\ \A i \in 1..rc.CacheSize : R7!Emitted(rc)[i] =
                  ((IF i = 1 THEN rc.Cache ELSE R7!LastDigit) + R7!Carry(rc)) % Base
<1> DEFINE n == rc.CacheSize
           c == R7!Carry(rc)
           e(i) == ((IF i = 1 THEN rc.Cache ELSE R7!LastDigit) + c) % Base
<1>1. n \in Nat /\ c \in Nat /\ rc.Cache \in Nat /\ R7!LastDigit \in Nat
      /\ Base \in Nat \ {0}
  <2>1. rc.Cache \in Digits /\ n \in Nat
    BY Fields7
  <2> QED BY <2>1, Sizes DEF Digits, Digital
<1>2. R7!Emitted(rc) = [i \in 1..n |-> e(i)]
  BY DEF R7!Emitted
<1>3. ASSUME NEW i \in 1..n PROVE e(i) \in Digits
  <2> DEFINE a == (IF i = 1 THEN rc.Cache ELSE R7!LastDigit) + c
  <2>1. a \in Nat
    BY <1>1
  <2> HIDE DEF a, c
  <2>2. a % Base \in Nat /\ a % Base < Base
    BY <1>1, <2>1, DivMod
  <2> QED BY <1>1, <2>2 DEF Digits, a
<1> HIDE DEF e, n
<1> DEFINE s == [i \in 1..n |-> e(i)]
<1>4. s \in Seq(Digits) /\ Len(s) = n /\ \A i \in 1..n : s[i] = e(i)
  BY <1>1, <1>3
<1> QED BY <1>2, <1>4 DEF e, n

\* The two things ShiftLow does to the fields: the digits e are written and d is held
\* back, or one more digit is.
Writes(rc, x, e, n, d) == [rc EXCEPT !.Low = x, !.out = e, !.CacheSize = n, !.Cache = d]
Waits(rc, x, n) == [rc EXCEPT !.Low = x, !.CacheSize = n]

\* The fields after digits were written.
LEMMA WritesIs ==
    ASSUME NEW rc \in Encoders7, NEW x \in Nat, NEW e \in Outs, NEW n \in Counts,
           NEW d \in Digits
    PROVE  LET s == Writes(rc, x, e, n, d) IN
           /\ s \in Encoders7 /\ s.Low = x /\ s.Range = rc.Range /\ s.Cache = d
           /\ s.CacheSize = n /\ s.out = e
<1> DEFINE s == Writes(rc, x, e, n, d)
           r1 == [rc EXCEPT !.Low = x]
           r2 == [r1 EXCEPT !.out = e]
           r3 == [r2 EXCEPT !.CacheSize = n]
           r4 == [r3 EXCEPT !.Cache = d]
<1>1. r1 \in Encoders7
  BY DEF Encoders7
<1>2. s = r4
  BY DEF Writes
<1> HIDE DEF r1
<1>3. r2 \in Encoders7
  BY <1>1 DEF Encoders7
<1> HIDE DEF r2
<1>4. r3 \in Encoders7
  BY <1>3 DEF Encoders7
<1> HIDE DEF r3
<1>5. r4 \in Encoders7
  BY <1>4 DEF Encoders7
<1>6. /\ s.Low = x /\ s.Range = rc.Range /\ s.Cache = d /\ s.CacheSize = n /\ s.out = e
  BY DEF Encoders7, Writes
<1> QED BY <1>2, <1>5, <1>6

\* The fields after one more digit was held back.
LEMMA WaitsIs ==
    ASSUME NEW rc \in Encoders7, NEW x \in Nat, NEW n \in Counts
    PROVE  LET s == Waits(rc, x, n) IN
           /\ s \in Encoders7 /\ s.Low = x /\ s.Range = rc.Range /\ s.Cache = rc.Cache
           /\ s.CacheSize = n /\ s.out = rc.out
<1> DEFINE s == Waits(rc, x, n)
           r1 == [rc EXCEPT !.Low = x]
           r2 == [r1 EXCEPT !.CacheSize = n]
<1>1. r1 \in Encoders7
  BY DEF Encoders7
<1>2. s = r2
  BY DEF Waits
<1> HIDE DEF r1
<1>3. r2 \in Encoders7
  BY <1>1 DEF Encoders7
<1>4. s.Low = x /\ s.Range = rc.Range /\ s.Cache = rc.Cache /\ s.CacheSize = n
      /\ s.out = rc.out
  BY DEF Encoders7, Waits
<1> QED BY <1>2, <1>3, <1>4

\* Whether the top digit of Low is settled, by the parts of Low.
LEMMA SettledIs ==
    ASSUME Digital, NEW rc, NEW q \in {0, 1}, NEW d \in Digits, NEW t \in Nat,
           t < R7!Top, rc.Low \div R7!Full = q, rc.Low % R7!Full = d * R7!Top + t
    PROVE  R7!Settled(rc) <=> d < R7!LastDigit \/ q = 1
<1> DEFINE a == d * R7!Top
           b == R7!LastDigit * R7!Top
<1>1. R7!Top \in Nat \ {0} /\ R7!LastDigit \in Nat /\ Base = R7!LastDigit + 1
  BY Sizes
<1>2. d \in Nat /\ d <= R7!LastDigit
  BY <1>1 DEF Digits
<1>3. d < R7!LastDigit => a + R7!Top <= b
  <2>1. ASSUME d < R7!LastDigit PROVE (d + 1) * R7!Top <= R7!LastDigit * R7!Top
    BY <1>1, <1>2, <2>1, Times
  <2>2. (d + 1) * R7!Top = d * R7!Top + R7!Top
    BY <1>1, <1>2
  <2> QED BY <2>1, <2>2
<1>4. ~(d < R7!LastDigit) => a = b
  BY <1>1, <1>2
<1>5. a \in Nat /\ b \in Nat
  BY <1>1, <1>2
<1>6. R7!Settled(rc) <=> a + t < b \/ q # 0
  BY DEF R7!Settled, R7!Carry
<1> HIDE DEF a, b
<1>7. a + t < b <=> d < R7!LastDigit
  BY <1>1, <1>3, <1>4, <1>5
<1> QED BY <1>6, <1>7

\* RangeEnc_ShiftLow by the parts of Low: either the digits held back are written, and
\* the top digit of Low takes their place, or it is counted behind them.
LEMMA ShiftIs ==
    ASSUME Digital, NEW rc \in Encoders7,
           NEW q \in {0, 1}, NEW d \in Digits, NEW t \in Nat, t < R7!Top,
           rc.Low \div R7!Full = q, rc.Low % R7!Full = d * R7!Top + t,
           (rc.Low % R7!Full) \div R7!Top = d, rc.Low % R7!Top = t,
           NEW s, s = R7!RangeEnc_ShiftLow(rc)
    PROVE  /\ s \in Encoders7 /\ s.Low = t * Base /\ s.Range = rc.Range
           /\ R7!Carry(rc) = q
           /\ d < R7!LastDigit \/ q = 1 =>
                  s.Cache = d /\ s.CacheSize = 1 /\ s.out = rc.out \o R7!Emitted(rc)
           /\ ~(d < R7!LastDigit \/ q = 1) =>
                  s.Cache = rc.Cache /\ s.CacheSize = rc.CacheSize + 1 /\ s.out = rc.out
<1> DEFINE low == (rc.Low % R7!Top) * Base
           e == rc.out \o R7!Emitted(rc)
           more == rc.CacheSize + 1
           d2 == (rc.Low % R7!Full) \div R7!Top
           S == d < R7!LastDigit \/ q = 1
<1>1. R7!Carry(rc) = q
  BY DEF R7!Carry
<1>2. R7!Settled(rc) <=> S
  BY SettledIs
<1>3. low = t * Base /\ d2 = d
  OBVIOUS
<1>4. s = IF R7!Settled(rc)
          THEN Writes(rc, low, e, 1, d2)
          ELSE Waits(rc, low, more)
  BY DEF R7!RangeEnc_ShiftLow, Writes, Waits
<1>5. low \in Nat
  <2>1. Base \in Nat
    BY DEF Digital
  <2>2. t * Base \in Nat
    BY <2>1
  <2> QED BY <1>3, <2>2
<1>6. e \in Outs /\ more \in Counts /\ 1 \in Counts
  <2>1. rc.out \in Seq(Digits) /\ rc.CacheSize \in Nat
    BY Fields7
  <2>2. R7!Emitted(rc) \in Seq(Digits)
    BY <1>1, EmittedIs
  <2>3. e \in Seq(Digits)
    BY <2>1, <2>2
  <2>4. more \in Nat \ {0} /\ 1 \in Nat \ {0}
    BY <2>1
  <2> QED BY <2>3, <2>4 DEF Outs, Counts
<1>7. d2 \in Digits
  BY <1>3
<1> HIDE DEF low, e, more, d2, S
<1>8. CASE S
  <2>1. s = Writes(rc, low, e, 1, d2)
    BY <1>2, <1>4, <1>8
  <2>2. /\ s \in Encoders7 /\ s.Low = low /\ s.Range = rc.Range /\ s.Cache = d2
        /\ s.CacheSize = 1 /\ s.out = e
    BY <1>5, <1>6, <1>7, <2>1, WritesIs
  <2> QED BY <1>1, <1>3, <1>8, <2>2 DEF e, S
<1>9. CASE ~S
  <2>1. s = Waits(rc, low, more)
    BY <1>2, <1>4, <1>9
  <2> DEFINE w == Waits(rc, low, more)
  <2>3. /\ w \in Encoders7 /\ w.Low = low /\ w.Range = rc.Range /\ w.Cache = rc.Cache
        /\ w.CacheSize = more /\ w.out = rc.out
    <3>1. low \in Nat /\ more \in Counts
      BY <1>5, <1>6
    <3> QED BY <3>1, WaitsIs
  <2>2. /\ s \in Encoders7 /\ s.Low = low /\ s.Range = rc.Range /\ s.Cache = rc.Cache
        /\ s.CacheSize = more /\ s.out = rc.out
    BY <2>1, <2>3
  <2> QED BY <1>1, <1>3, <1>9, <2>2 DEF more, S
<1> QED BY <1>8, <1>9

\* The digits written and those held back.
Sent(rc) == Len(rc.out) + rc.CacheSize

\* One shift leaves room for the carry of the interval it widens, and one digit more is
\* written or held back.
LEMMA ShiftKeeps ==
    ASSUME Digital, NEW rc \in Encoders7, NEW h \in Nat, h < R7!Top,
           Open7(rc.Low, h, rc.Cache), NEW s, s = R7!RangeEnc_ShiftLow(rc)
    PROVE  /\ s \in Encoders7 /\ s.Range = rc.Range /\ Open7(s.Low, h * Base, s.Cache)
           /\ h * Base \in Nat \ {0} /\ h * Base < R7!Full /\ Sent(s) = Sent(rc) + 1
           /\ s.Low = (rc.Low % R7!Top) * Base
<1>1. /\ rc.Low \in Nat /\ rc.Cache \in Digits
      /\ rc.CacheSize \in Nat \ {0} /\ rc.out \in Seq(Digits)
  BY Fields7
<1>2. rc.Low < 2 * R7!Full
  <2>1. R7!Full \in Nat
    BY Sizes
  <2> QED BY <1>1, <2>1 DEF Open7
<1>3. PICK q \in {0, 1}, d \in Digits, t \in Nat :
         /\ t < R7!Top /\ rc.Low = q * R7!Full + (d * R7!Top + t)
         /\ rc.Low \div R7!Full = q /\ rc.Low % R7!Full = d * R7!Top + t
         /\ (rc.Low % R7!Full) \div R7!Top = d /\ rc.Low % R7!Top = t
  BY <1>1, <1>2, LowParts
<1> DEFINE S == d < R7!LastDigit \/ q = 1
<1>4. /\ s \in Encoders7 /\ s.Low = t * Base /\ s.Range = rc.Range
      /\ R7!Carry(rc) = q
      /\ S => s.Cache = d /\ s.CacheSize = 1 /\ s.out = rc.out \o R7!Emitted(rc)
      /\ ~S => s.Cache = rc.Cache /\ s.CacheSize = rc.CacheSize + 1 /\ s.out = rc.out
  BY <1>3, ShiftIs
<1>5. /\ h * Base \in Nat \ {0} /\ h * Base < R7!Full
      /\ S => Open7(t * Base, h * Base, d)
      /\ ~S => Open7(t * Base, h * Base, rc.Cache)
  BY <1>1, <1>3, ShiftNumbers
<1>6. R7!Emitted(rc) \in Seq(Digits) /\ Len(R7!Emitted(rc)) = rc.CacheSize
  BY <1>4, EmittedIs
<1>7. Len(rc.out \o R7!Emitted(rc)) = Len(rc.out) + rc.CacheSize
  BY <1>1, <1>6
<1>8. CASE S
  <2>1. Open7(s.Low, h * Base, s.Cache)
    BY <1>4, <1>5, <1>8
  <2>2. Sent(s) = Sent(rc) + 1
    BY <1>4, <1>7, <1>8 DEF Sent
  <2> QED BY <1>3, <1>4, <1>5, <2>1, <2>2
<1>9. CASE ~S
  <2>1. Open7(s.Low, h * Base, s.Cache)
    BY <1>4, <1>5, <1>9
  <2>2. Sent(s) = Sent(rc) + 1
    <3>1. s.CacheSize = rc.CacheSize + 1 /\ s.out = rc.out
      BY <1>4, <1>9
    <3>2. Len(rc.out) \in Nat
      BY <1>1
    <3> QED BY <1>1, <3>1, <3>2 DEF Sent
  <2> QED BY <1>3, <1>4, <1>5, <2>1, <2>2
<1> QED BY <1>8, <1>9

\* The encoder while it codes a symbol: Range may be too small.
Half7(rc) ==
    rc \in Encoders7 /\ Open7(rc.Low, rc.Range, rc.Cache) /\ rc.Range < R7!Full

\* Range after one turn of a loop that widens it.
Wider(r) == IF r < R7!Top THEN r * Base ELSE r

\* A turn of the encoder's loop keeps the interval open, and counts its digit.
LEMMA EncShiftKeeps ==
    ASSUME Digital, NEW rc, Half7(rc)
    PROVE  LET s == R7!EncShift(rc) IN
           /\ Half7(s) /\ s.Range = Wider(rc.Range)
           /\ Sent(s) = Sent(rc) + (IF rc.Range < R7!Top THEN 1 ELSE 0)
<1> DEFINE s == R7!EncShift(rc)
           h == rc.Range
           w == [rc EXCEPT !.Range = rc.Range * Base]
<1>1. rc \in Encoders7 /\ Open7(rc.Low, h, rc.Cache) /\ h \in Nat /\ rc.Range < R7!Full
      /\ rc.CacheSize \in Nat /\ rc.out \in Seq(Digits)
  BY Fields7 DEF Half7
<1>2. Len(rc.out) \in Nat
  BY <1>1
<1>3. CASE rc.Range < R7!Top
  <2>1. s = R7!RangeEnc_ShiftLow(w)
    BY <1>3 DEF R7!EncShift
  <2>2. w \in Encoders7 /\ w.Low = rc.Low /\ w.Cache = rc.Cache /\ w.Range = h * Base
        /\ w.CacheSize = rc.CacheSize /\ w.out = rc.out
    <3>1. Base \in Nat
      BY DEF Digital
    <3>2. h * Base \in Nat
      BY <1>1, <3>1
    <3> QED BY <1>1, <3>2 DEF Encoders7
  <2> HIDE DEF w, s
  <2>3. Open7(w.Low, h, w.Cache)
    BY <1>1, <2>2
  <2>4. /\ s \in Encoders7 /\ s.Range = w.Range /\ Open7(s.Low, h * Base, s.Cache)
        /\ h * Base < R7!Full /\ Sent(s) = Sent(w) + 1
    BY <1>1, <1>3, <2>1, <2>2, <2>3, ShiftKeeps
  <2>5. Sent(w) = Sent(rc)
    BY <2>2 DEF Sent
  <2>6. Half7(s)
    BY <2>2, <2>4 DEF Half7
  <2>7. s.Range = Wider(rc.Range)
    BY <1>3, <2>2, <2>4 DEF Wider
  <2>8. Sent(s) = Sent(rc) + (IF rc.Range < R7!Top THEN 1 ELSE 0)
    BY <1>3, <2>4, <2>5
  <2> QED BY <2>6, <2>7, <2>8 DEF s
<1>4. CASE ~(rc.Range < R7!Top)
  <2>1. s = rc
    BY <1>4 DEF R7!EncShift
  <2> HIDE DEF s
  <2>2. Sent(rc) \in Nat
    BY <1>1, <1>2 DEF Sent
  <2>3. Sent(s) = Sent(rc) + (IF rc.Range < R7!Top THEN 1 ELSE 0)
    BY <1>4, <2>1, <2>2
  <2>4. s.Range = Wider(rc.Range)
    BY <1>4, <2>1 DEF Wider
  <2> QED BY <2>1, <2>3, <2>4 DEF s
<1> QED BY <1>3, <1>4

\* Two turns make a Range of at least 2^8 as large as 2^24, three a Range of at least 1.
LEMMA WideAfter ==
    ASSUME Digital, NEW r \in Nat \ {0}
    PROVE  /\ Wider(r) \in Nat \ {0} /\ Wider(Wider(Wider(r))) >= R7!Top
           /\ r >= Base => Wider(Wider(r)) >= R7!Top
           /\ r >= R7!Top => Wider(r) = r
<1> DEFINE two == Base * Base
<1>1. /\ R7!Top = Base * two /\ two \in Nat /\ Base \in Nat /\ Base > 1
      /\ Base <= two /\ two <= R7!Top /\ R7!Top \in Nat
  BY Sizes DEF Digital
<1> HIDE DEF two
<1>2. ASSUME NEW n \in Nat \ {0} PROVE Wider(n) \in Nat \ {0} /\ Wider(n) >= n
  <2>1. n * Base \in Nat \ {0} /\ n * Base >= n
    BY <1>1
  <2> QED BY <2>1 DEF Wider
<1>3. Wider(r) \in Nat \ {0}
  BY <1>2
<1>4. ASSUME NEW n \in Nat \ {0} PROVE Wider(n) >= Base \/ Wider(n) >= R7!Top
  <2>1. n * Base >= Base
    BY <1>1
  <2> QED BY <1>1, <2>1 DEF Wider
<1>5. ASSUME NEW n \in Nat \ {0}, n >= Base PROVE Wider(n) >= two
  <2>1. n * Base >= Base * Base
    BY <1>1, <1>5, Times
  <2>2. n * Base >= two
    BY <2>1 DEF two
  <2>3. n * Base \in Nat
    BY <1>1
  <2> QED BY <1>1, <2>2, <2>3 DEF Wider
<1>6. ASSUME NEW n \in Nat \ {0}, n >= two PROVE Wider(n) >= R7!Top
  <2>1. n * Base >= two * Base
    BY <1>1, <1>6, Times
  <2>2. two * Base = R7!Top
    BY <1>1
  <2>3. n * Base \in Nat
    BY <1>1
  <2> QED BY <1>1, <2>1, <2>2, <2>3 DEF Wider
<1>7. ASSUME NEW n \in Nat \ {0}, n >= Base PROVE Wider(Wider(n)) >= R7!Top
  <2>1. Wider(n) \in Nat \ {0} /\ Wider(n) >= two
    BY <1>2, <1>5, <1>7
  <2> QED BY <1>6, <2>1
<1>8. Wider(Wider(Wider(r))) >= R7!Top
  <2>1. Wider(r) \in Nat \ {0} /\ Wider(r) >= Base
    BY <1>1, <1>2, <1>4
  <2> QED BY <1>7, <2>1
<1>9. r >= R7!Top => Wider(r) = r
  BY <1>1 DEF Wider
<1> QED BY <1>3, <1>7, <1>8, <1>9

\* Three turns of the loop end it: the encoder is between two symbols again.
LEMMA NormalizeKeeps ==
    ASSUME Digital, NEW rc, Half7(rc)
    PROVE  Kept7(R7!EncNormalize(rc))
<1> DEFINE a == R7!EncShift(rc)
           b == R7!EncShift(a)
           c == R7!EncShift(b)
<1>1. R7!EncNormalize(rc) = c
  BY DEF R7!EncNormalize
<1>2. Half7(a) /\ a.Range = Wider(rc.Range)
  BY EncShiftKeeps
<1> HIDE DEF a
<1>3. Half7(b) /\ b.Range = Wider(a.Range)
  BY <1>2, EncShiftKeeps
<1> HIDE DEF b
<1>4. Half7(c) /\ c.Range = Wider(b.Range)
  BY <1>3, EncShiftKeeps
<1> HIDE DEF c
<1>5. rc.Range \in Nat \ {0}
  BY DEF Half7, Open7
<1>6. c.Range >= R7!Top
  BY <1>2, <1>3, <1>4, <1>5, WideAfter
<1> QED BY <1>1, <1>4, <1>6 DEF Half7, Kept7

\* What a symbol is coded with: the frequencies below it, its own, and all of them.
Interval(start, size, total) ==
    start \in Nat /\ size \in Nat \ {0} /\ total \in Nat /\ start + size <= total

\* A bit's probability is neither nothing nor all of BitTotal, which is 2^14.
Probability(size0) ==
    BitTotal \in Nat /\ size0 \in Nat /\ 0 < size0 /\ size0 < BitTotal

\* A symbol's share of the interval is not empty, and lies in it.
LEMMA ShareIn ==
    ASSUME NEW range \in Nat, NEW start, NEW size, NEW total,
           Interval(start, size, total), total <= range
    PROVE  /\ range \div total \in Nat \ {0}
           /\ start * (range \div total) \in Nat
           /\ size * (range \div total) \in Nat \ {0}
           /\ (range \div total) * size = size * (range \div total)
           /\ start * (range \div total) + size * (range \div total) <= range
<1> DEFINE r == range \div total
<1>1. start \in Nat /\ size \in Nat \ {0} /\ total \in Nat \ {0} /\ start + size <= total
  BY DEF Interval
<1>2. r \in Nat /\ range % total \in Nat /\ range % total < total
      /\ range = total * r + (range % total)
  BY <1>1, DivMod
<1> DEFINE m == range % total
<1> HIDE DEF r, m
<1>3. r \in Nat /\ m \in Nat /\ m < total /\ range = total * r + m
  BY <1>2 DEF m
<1>4. r # 0
  BY <1>1, <1>3
<1>5. start * r \in Nat /\ size * r \in Nat /\ size * r # 0 /\ r * size = size * r
  BY <1>1, <1>3, <1>4
<1>6. (start + size) * r <= total * r
  BY <1>1, <1>3, Times
<1>7. (start + size) * r = start * r + size * r /\ total * r \in Nat
  BY <1>1, <1>3
<1>8. start * r + size * r <= range
  BY <1>3, <1>5, <1>6, <1>7
<1> QED BY <1>3, <1>4, <1>5, <1>8 DEF r

\* An encoder that codes a part of its interval.
LEMMA PartKept ==
    ASSUME Digital, NEW rc, Kept7(rc), NEW low \in Nat, NEW range \in Nat \ {0},
           rc.Low <= low, low + range <= rc.Low + rc.Range,
           NEW s, s \in Encoders7, s.Low = low, s.Range = range, s.Cache = rc.Cache
    PROVE  Half7(s)
<1>1. R7!Full \in Nat /\ rc.Low \in Nat /\ rc.Range \in Nat /\ rc.Range < R7!Full
      /\ Open7(rc.Low, rc.Range, rc.Cache)
  BY Sizes, Fields7 DEF Kept7
<1>2. Open7(low, range, rc.Cache)
  BY <1>1, Narrower
<1>3. range < R7!Full
  BY <1>1
<1> QED BY <1>2, <1>3 DEF Half7

\* An encoder with another interval.
Over(rc, low, range) == [rc EXCEPT !.Low = low, !.Range = range]

\* Its fields.
LEMMA OverIs ==
    ASSUME NEW rc \in Encoders7, NEW x \in Nat, NEW y \in Nat
    PROVE  LET s == Over(rc, x, y) IN
           /\ s \in Encoders7 /\ s.Low = x /\ s.Range = y /\ s.Cache = rc.Cache
           /\ s.CacheSize = rc.CacheSize /\ s.out = rc.out
<1> DEFINE s == Over(rc, x, y)
           r1 == [rc EXCEPT !.Low = x]
           r2 == [r1 EXCEPT !.Range = y]
<1>1. r1 \in Encoders7
  BY DEF Encoders7
<1>2. s = r2
  BY DEF Over
<1> HIDE DEF r1
<1>3. r2 \in Encoders7
  BY <1>1 DEF Encoders7
<1>4. s.Low = x /\ s.Range = y /\ s.Cache = rc.Cache /\ s.CacheSize = rc.CacheSize
      /\ s.out = rc.out
  BY DEF Encoders7, Over
<1> QED BY <1>2, <1>3, <1>4

\* RangeEnc_Encode before its loop.
Narrowed7(rc, start, size, total) ==
    Over(rc, rc.Low + start * (rc.Range \div total), (rc.Range \div total) * size)

\* The interval of a symbol, before the loop.
LEMMA NarrowedIs ==
    ASSUME Digital, NEW rc, Kept7(rc), NEW start, NEW size, NEW total,
           Interval(start, size, total), total <= R7!Top
    PROVE  LET s == Narrowed7(rc, start, size, total)
               r == rc.Range \div total IN
           /\ Half7(s) /\ s.Low = rc.Low + start * r /\ s.Range = size * r
           /\ s.Cache = rc.Cache /\ s.CacheSize = rc.CacheSize /\ s.out = rc.out
           /\ r \in Nat \ {0} /\ start * r \in Nat
           /\ start * r + size * r <= rc.Range
           /\ R7!RangeEnc_Encode(rc, start, size, total) = R7!EncNormalize(s)
<1> DEFINE s == Narrowed7(rc, start, size, total)
           r == rc.Range \div total
<1>1. rc \in Encoders7 /\ rc.Low \in Nat /\ rc.Range \in Nat /\ R7!Top <= rc.Range
      /\ R7!Top \in Nat
  BY Sizes, Fields7 DEF Kept7
<1>2. total \in Nat /\ total <= rc.Range
  BY <1>1 DEF Interval
<1>3. /\ r \in Nat \ {0} /\ start * r \in Nat /\ size * r \in Nat \ {0} /\ r * size = size * r
      /\ start * r + size * r <= rc.Range
  BY <1>1, <1>2, ShareIn
<1>4. R7!RangeEnc_Encode(rc, start, size, total) = R7!EncNormalize(s)
  BY DEF R7!RangeEnc_Encode, Narrowed7, Over
<1> DEFINE low == rc.Low + start * r
           range == r * size
<1>5. s = Over(rc, low, range)
  BY DEF Narrowed7
<1> DEFINE a == start * r
           b == size * r
<1> HIDE DEF a, b, r
<1>6. low = rc.Low + a /\ range = b /\ a \in Nat /\ b \in Nat \ {0} /\ a + b <= rc.Range
  BY <1>3 DEF a, b
<1>7. low \in Nat /\ range \in Nat \ {0} /\ rc.Low <= low /\ low + range <= rc.Low + rc.Range
  <2> HIDE DEF low, range
  <2> QED BY <1>1, <1>6
<1> HIDE DEF low, range, s
<1> DEFINE w == Over(rc, low, range)
<1>8. /\ w \in Encoders7 /\ w.Low = low /\ w.Range = range /\ w.Cache = rc.Cache
      /\ w.CacheSize = rc.CacheSize /\ w.out = rc.out
  <2>1. low \in Nat /\ range \in Nat /\ rc \in Encoders7
    BY <1>1, <1>7
  <2> QED BY <2>1, OverIs
<1>9. /\ s \in Encoders7 /\ s.Low = low /\ s.Range = range /\ s.Cache = rc.Cache
      /\ s.CacheSize = rc.CacheSize /\ s.out = rc.out
  BY <1>5, <1>8
<1>10. Half7(s)
  BY <1>7, <1>9, PartKept
<1> QED BY <1>3, <1>4, <1>6, <1>9, <1>10 DEF s, r, a, b, low, range

\* RangeEnc_Encode keeps the interval inside 32 bits, wide enough for the next symbol, and
\* with room for its carry in the digit held back, whatever the frequencies of the symbol.
THEOREM IntervalStays7 ==
    ASSUME Digital, NEW rc, Kept7(rc), NEW start, NEW size, NEW total,
           Interval(start, size, total), total <= R7!Top
    PROVE  Kept7(R7!RangeEnc_Encode(rc, start, size, total))
<1> DEFINE s == Narrowed7(rc, start, size, total)
<1>1. Half7(s) /\ R7!RangeEnc_Encode(rc, start, size, total) = R7!EncNormalize(s)
  BY NarrowedIs
<1> HIDE DEF s
<1> QED BY <1>1, NormalizeKeeps

\* The interval of a bit, before the loop.
BitNarrowed7(rc, size0, bit) ==
    LET bound == (rc.Range \div BitTotal) * size0 IN
    IF bit = 0 THEN Over(rc, rc.Low, bound) ELSE Over(rc, rc.Low + bound, rc.Range - bound)

\* Either encoder of a bit.
EncodeBit7(rc, size0, bit) ==
    IF bit = 0 THEN R7!RangeEnc_EncodeBit_0(rc, size0) ELSE R7!RangeEnc_EncodeBit_1(rc, size0)

\* Both encoders of a bit narrow the interval and run the loop.
LEMMA EncodeBitIs ==
    ASSUME NEW rc \in Encoders7, NEW size0, NEW bit \in {0, 1}
    PROVE  EncodeBit7(rc, size0, bit) = R7!EncNormalize(BitNarrowed7(rc, size0, bit))
<1> DEFINE bound == (rc.Range \div BitTotal) * size0
           r1 == [rc EXCEPT !.Low = rc.Low]
<1>1. r1 = rc
  BY DEF Encoders7
<1>2. Over(rc, rc.Low, bound) = [r1 EXCEPT !.Range = bound]
  BY DEF Over
<1>3. Over(rc, rc.Low, bound) = [rc EXCEPT !.Range = bound]
  <2> HIDE DEF r1, bound
  <2> QED BY <1>1, <1>2
<1>4. R7!RangeEnc_EncodeBit_0(rc, size0) = R7!EncNormalize([rc EXCEPT !.Range = bound])
  BY DEF R7!RangeEnc_EncodeBit_0
<1>5. R7!RangeEnc_EncodeBit_1(rc, size0) =
          R7!EncNormalize(Over(rc, rc.Low + bound, rc.Range - bound))
  BY DEF R7!RangeEnc_EncodeBit_1, Over
<1> HIDE DEF r1
<1>6. CASE bit = 0
  BY <1>3, <1>4, <1>6 DEF EncodeBit7, BitNarrowed7
<1>7. CASE bit = 1
  BY <1>5, <1>7 DEF EncodeBit7, BitNarrowed7
<1> QED BY <1>6, <1>7

\* A bit's share of the interval: below the bound, or from the bound to the end.
LEMMA BoundIn ==
    ASSUME NEW range \in Nat, NEW size0, Probability(size0), BitTotal <= range
    PROVE  LET bound == (range \div BitTotal) * size0 IN
           /\ bound \in Nat \ {0} /\ bound < range /\ range - bound \in Nat \ {0}
           /\ range \div BitTotal \in Nat \ {0} /\ bound >= range \div BitTotal
           /\ range - bound >= range \div BitTotal
           /\ bound = size0 * (range \div BitTotal)
<1> DEFINE r == range \div BitTotal
           rest == BitTotal - size0
           bound == r * size0
<1>1. BitTotal \in Nat /\ size0 \in Nat /\ 0 < size0 /\ size0 < BitTotal
  BY DEF Probability
<1>2. Interval(size0, rest, BitTotal) /\ rest \in Nat \ {0} /\ size0 \in Nat \ {0}
  BY <1>1 DEF Interval
<1>3. r \in Nat \ {0} /\ size0 * r + rest * r <= range
  BY <1>2, ShareIn
<1> HIDE DEF r, rest
<1>4. bound = size0 * r /\ bound \in Nat /\ bound >= r
  BY <1>1, <1>2, <1>3
<1>5. rest * r \in Nat /\ rest * r >= r
  BY <1>2, <1>3
<1> DEFINE x == rest * r
<1> HIDE DEF x, bound
<1>6. x \in Nat /\ x >= r /\ bound + x <= range
  BY <1>3, <1>4, <1>5 DEF x
<1>7. /\ bound \in Nat \ {0} /\ bound < range /\ range - bound \in Nat \ {0}
      /\ range - bound >= r
  BY <1>3, <1>4, <1>6
<1> QED BY <1>3, <1>4, <1>7 DEF r, bound

\* The interval of a bit is part of the one before.
LEMMA BitNarrowedIs ==
    ASSUME Digital, NEW rc, Kept7(rc), NEW size0, Probability(size0), BitTotal <= R7!Top,
           NEW bit \in {0, 1}
    PROVE  LET s == BitNarrowed7(rc, size0, bit)
               bound == (rc.Range \div BitTotal) * size0 IN
           /\ Half7(s) /\ s.Cache = rc.Cache /\ s.CacheSize = rc.CacheSize /\ s.out = rc.out
           /\ s.Low = IF bit = 0 THEN rc.Low ELSE rc.Low + bound
           /\ s.Range = IF bit = 0 THEN bound ELSE rc.Range - bound
           /\ s.Range >= rc.Range \div BitTotal
           /\ bound \in Nat \ {0} /\ bound < rc.Range
<1> DEFINE s == BitNarrowed7(rc, size0, bit)
           bound == (rc.Range \div BitTotal) * size0
           r == rc.Range \div BitTotal
           x == IF bit = 0 THEN rc.Low ELSE rc.Low + bound
           y == IF bit = 0 THEN bound ELSE rc.Range - bound
<1>1. rc \in Encoders7 /\ rc.Low \in Nat /\ rc.Range \in Nat /\ R7!Top <= rc.Range
      /\ R7!Top \in Nat
  BY Sizes, Fields7 DEF Kept7
<1>2. BitTotal <= rc.Range
  BY <1>1 DEF Probability
<1>3. /\ bound \in Nat \ {0} /\ bound < rc.Range /\ rc.Range - bound \in Nat \ {0}
      /\ r \in Nat /\ bound >= r /\ rc.Range - bound >= r
  BY <1>1, <1>2, BoundIn
<1>4. s = Over(rc, x, y)
  BY DEF BitNarrowed7
<1> HIDE DEF bound, s, r
<1>5. x \in Nat /\ y \in Nat \ {0} /\ rc.Low <= x /\ x + y <= rc.Low + rc.Range /\ y >= r
  BY <1>1, <1>3
<1> DEFINE w == Over(rc, x, y)
<1>6. /\ w \in Encoders7 /\ w.Low = x /\ w.Range = y /\ w.Cache = rc.Cache
      /\ w.CacheSize = rc.CacheSize /\ w.out = rc.out
  <2>1. x \in Nat /\ y \in Nat /\ rc \in Encoders7
    BY <1>1, <1>5
  <2> HIDE DEF x, y
  <2> QED BY <2>1, OverIs
<1> HIDE DEF x, y
<1>7. /\ s \in Encoders7 /\ s.Low = x /\ s.Range = y /\ s.Cache = rc.Cache
      /\ s.CacheSize = rc.CacheSize /\ s.out = rc.out
  BY <1>4, <1>6
<1>8. Half7(s)
  BY <1>5, <1>7, PartKept
<1> QED BY <1>3, <1>5, <1>7, <1>8 DEF s, r, x, y, bound

\* RangeEnc_EncodeBit_0 and RangeEnc_EncodeBit_1 keep the interval as RangeEnc_Encode does,
\* whatever the probability of the bit.
THEOREM BitsStay7 ==
    ASSUME Digital, NEW rc, Kept7(rc), NEW size0, Probability(size0), BitTotal <= R7!Top
    PROVE  /\ Kept7(R7!RangeEnc_EncodeBit_0(rc, size0))
           /\ Kept7(R7!RangeEnc_EncodeBit_1(rc, size0))
<1>1. ASSUME NEW bit \in {0, 1} PROVE Kept7(EncodeBit7(rc, size0, bit))
  <2> DEFINE s == BitNarrowed7(rc, size0, bit)
  <2>1. Half7(s)
    BY BitNarrowedIs
  <2>2. EncodeBit7(rc, size0, bit) = R7!EncNormalize(s)
    BY EncodeBitIs DEF Kept7
  <2> HIDE DEF s
  <2> QED BY <2>1, <2>2, NormalizeKeeps
<1>2. Kept7(EncodeBit7(rc, size0, 0)) /\ Kept7(EncodeBit7(rc, size0, 1))
  BY <1>1
<1>3. /\ EncodeBit7(rc, size0, 0) = R7!RangeEnc_EncodeBit_0(rc, size0)
      /\ EncodeBit7(rc, size0, 1) = R7!RangeEnc_EncodeBit_1(rc, size0)
  BY DEF EncodeBit7
<1> QED BY <1>2, <1>3

-------------------------------------------------------------------------------
(***************************************************************************)
(* The decoder of PPMd7.                                                   *)
(***************************************************************************)

\* The states of the decoder.
Decoders7 == [Range : Nat, Code : Nat, pos : Nat]

\* The decoder has the encoder's Range, its Code lies in it, and it has read the digits
\* the encoder has sent and four more.
InStep7(rc, rd) ==
    rd \in Decoders7 /\ rd.Range = rc.Range /\ rd.Code < rd.Range /\ rd.pos = Sent(rc) + 4

\* What is read is a digit; past the end it is 0.
LEMMA DigitIs ==
    ASSUME Digital, NEW input \in Seq(Digits), NEW i \in Nat \ {0}
    PROVE  R7!Digit(input, i) \in Digits /\ R7!Digit(input, i) \in Nat
<1>1. Base \in Nat /\ 0 \in Digits
  BY DEF Digits, Digital
<1>2. CASE i <= Len(input)
  <2>1. input[i] \in Digits
    BY <1>2
  <2> QED BY <1>1, <1>2, <2>1 DEF R7!Digit, Digits
<1>3. CASE ~(i <= Len(input))
  BY <1>1, <1>3 DEF R7!Digit
<1> QED BY <1>2, <1>3

\* A turn of Range_Normalize keeps Code in the interval, so that nothing is lost from it,
\* and the decoder in step.
LEMMA DecShiftKeeps ==
    ASSUME Digital, NEW input \in Seq(Digits), NEW rc, Half7(rc), NEW rd, InStep7(rc, rd)
    PROVE  LET s == R7!DecShift(rd, input) IN
           /\ InStep7(R7!EncShift(rc), s)
           /\ s.Code = IF rc.Range < R7!Top
                       THEN rd.Code * Base + R7!Digit(input, Sent(rc) + 5) ELSE rd.Code
<1> DEFINE s == R7!DecShift(rd, input)
           e == R7!EncShift(rc)
           x == R7!Digit(input, rd.pos + 1)
           code == rd.Code * Base + x
<1>1. rd \in Decoders7 /\ rd.Range = rc.Range /\ rd.Code < rd.Range /\ rd.pos = Sent(rc) + 4
  BY DEF InStep7
<1>2. rd.Range \in Nat /\ rd.Code \in Nat /\ rd.pos \in Nat
  BY <1>1 DEF Decoders7
<1>3. /\ Half7(e) /\ e.Range = Wider(rc.Range)
      /\ Sent(e) = Sent(rc) + (IF rc.Range < R7!Top THEN 1 ELSE 0)
  BY EncShiftKeeps
<1>4. Sent(rc) \in Nat
  <2>1. rc.out \in Seq(Digits) /\ rc.CacheSize \in Nat
    BY Fields7 DEF Half7
  <2>2. Len(rc.out) \in Nat
    BY <2>1
  <2> QED BY <2>1, <2>2 DEF Sent
<1>5. x \in Digits /\ x \in Nat
  BY <1>2, DigitIs
<1>6. Base \in Nat /\ Base > 1 /\ R7!Full \in Nat /\ R7!Full = Base * R7!Top /\ R7!Top \in Nat
  BY Sizes DEF Digital
<1> HIDE DEF e
<1>7. CASE rc.Range < R7!Top
  <2> HIDE DEF x
  <2>1. s = [Range |-> rd.Range * Base, pos |-> rd.pos + 1, Code |-> code % R7!Full]
    BY <1>1, <1>7 DEF R7!DecShift, x
  <2>2. code \in Nat /\ code < rd.Range * Base
    <3>1. (rd.Code + 1) * Base <= rd.Range * Base
      <4>1. rd.Code + 1 \in Nat /\ rd.Code + 1 <= rd.Range /\ Base \in Nat
        BY <1>1, <1>2, <1>6
      <4> QED BY <1>2, <4>1, Times
    <3>2. (rd.Code + 1) * Base = rd.Code * Base + Base /\ rd.Code * Base \in Nat
          /\ rd.Range * Base \in Nat
      BY <1>2, <1>6
    <3>3. x < Base
      BY <1>5, <1>6 DEF Digits
    <3> QED BY <1>5, <1>6, <3>1, <3>2, <3>3
  <2>3. rd.Range * Base < R7!Full /\ rd.Range * Base \in Nat
    <3>1. e.Range < R7!Full /\ e.Range = rd.Range * Base
      BY <1>1, <1>3, <1>7 DEF Half7, Wider
    <3> QED BY <1>2, <1>6, <3>1
  <2> HIDE DEF code, s
  <2>4. code % R7!Full = code
    <3>1. code < R7!Full /\ code \in Nat /\ R7!Full \in Nat \ {0}
      BY <1>6, <2>2, <2>3
    <3>2. code = R7!Full * 0 + code
      BY <3>1
    <3>3. 0 \in Nat
      OBVIOUS
    <3> QED BY <3>1, <3>2, <3>3, DivModIs
  <2>5. s.Range = rd.Range * Base /\ s.pos = rd.pos + 1 /\ s.Code = code
    BY <2>1, <2>4
  <2>6. s \in Decoders7
    <3>1. rd.pos + 1 \in Nat
      BY <1>2
    <3> QED BY <2>1, <2>2, <2>3, <2>4, <3>1 DEF Decoders7
  <2>7. s.Range = e.Range
    BY <1>1, <1>3, <1>7, <2>5 DEF Wider
  <2>8. s.pos = Sent(e) + 4
    BY <1>1, <1>3, <1>4, <1>7, <2>5
  <2>9. s.Code < s.Range
    BY <2>2, <2>5
  <2>10. InStep7(e, s)
    BY <2>6, <2>7, <2>8, <2>9 DEF InStep7
  <2>11. rd.pos + 1 = Sent(rc) + 5
    BY <1>1, <1>4
  <2>12. s.Code = rd.Code * Base + R7!Digit(input, Sent(rc) + 5)
    BY <2>5, <2>11 DEF code, x
  <2> QED BY <1>7, <2>10, <2>12 DEF s, e
<1>8. CASE ~(rc.Range < R7!Top)
  <2>1. s = rd
    BY <1>1, <1>8 DEF R7!DecShift
  <2>2. e = rc
    BY <1>8 DEF R7!EncShift, e
  <2> QED BY <1>8, <2>1, <2>2 DEF s, e
<1> QED BY <1>7, <1>8

\* Where Range is at least 2^8 the two turns of Range_Normalize do what the encoder's
\* loop does: the decoder need not loop.
LEMMA NormalizeTogether ==
    ASSUME Digital, NEW input \in Seq(Digits), NEW rc, Half7(rc), NEW rd, InStep7(rc, rd),
           rc.Range >= Base
    PROVE  /\ Kept7(R7!EncNormalize(rc))
           /\ InStep7(R7!EncNormalize(rc), R7!Range_Normalize(rd, input))
           /\ R7!EncNormalize(rc) = R7!EncShift(R7!EncShift(rc))
<1> DEFINE a == R7!EncShift(rc)
           b == R7!EncShift(a)
           c == R7!EncShift(b)
           p == R7!DecShift(rd, input)
           s == R7!DecShift(p, input)
<1>1. R7!EncNormalize(rc) = c
  BY DEF R7!EncNormalize
<1>2. R7!Range_Normalize(rd, input) = s
  BY DEF R7!Range_Normalize
<1>3. Half7(a) /\ a.Range = Wider(rc.Range) /\ InStep7(a, p)
  BY EncShiftKeeps, DecShiftKeeps
<1> HIDE DEF a, p
<1>4. Half7(b) /\ b.Range = Wider(a.Range) /\ InStep7(b, s)
  BY <1>3, EncShiftKeeps, DecShiftKeeps
<1> HIDE DEF b, s
<1>5. rc.Range \in Nat \ {0}
  BY DEF Half7, Open7
<1>6. b.Range >= R7!Top
  BY <1>3, <1>4, <1>5, WideAfter
<1>7. c = b
  <2>1. b.Range \in Nat /\ R7!Top \in Nat
    BY <1>4, Sizes, Fields7 DEF Half7
  <2>2. ~(b.Range < R7!Top)
    BY <1>6, <2>1
  <2> QED BY <2>2 DEF R7!EncShift
<1>8. Kept7(R7!EncNormalize(rc))
  BY NormalizeKeeps
<1> QED BY <1>1, <1>2, <1>4, <1>7, <1>8 DEF a, b

\* A decoder with another interval.
OverD(rd, code, range) == [rd EXCEPT !.Code = code, !.Range = range]

\* Its fields.
LEMMA OverDIs ==
    ASSUME NEW rd \in Decoders7, NEW x \in Nat, NEW y \in Nat
    PROVE  LET s == OverD(rd, x, y) IN
           s \in Decoders7 /\ s.Code = x /\ s.Range = y /\ s.pos = rd.pos
<1> DEFINE s == OverD(rd, x, y)
           r1 == [rd EXCEPT !.Code = x]
           r2 == [r1 EXCEPT !.Range = y]
<1>1. r1 \in Decoders7
  BY DEF Decoders7
<1>2. s = r2
  BY DEF OverD
<1> HIDE DEF r1
<1>3. r2 \in Decoders7
  BY <1>1 DEF Decoders7
<1>4. s.Code = x /\ s.Range = y /\ s.pos = rd.pos
  BY DEF Decoders7, OverD
<1> QED BY <1>2, <1>3, <1>4

\* What Range_GetThreshold returns is in the part of the symbol if and only if Code is.
LEMMA ThresholdIs ==
    ASSUME NEW code \in Nat, NEW r \in Nat \ {0}, NEW start \in Nat, NEW size \in Nat
    PROVE  start <= code \div r /\ code \div r < start + size <=>
           start * r <= code /\ code < start * r + size * r
<1> DEFINE q == code \div r
           m == code % r
<1>1. q \in Nat /\ m \in Nat /\ m < r /\ code = r * q + m
  BY DivMod
<1> HIDE DEF q, m
<1> DEFINE a == start * r
           b == size * r
           n == r * q
<1>2. a \in Nat /\ b \in Nat /\ n \in Nat /\ code = n + m
  BY <1>1
<1>3. start <= q => a <= n
  <2>1. ASSUME start <= q PROVE start * r <= q * r
    BY <1>1, <2>1, Times
  <2>2. q * r = r * q
    BY <1>1
  <2> QED BY <2>1, <2>2
<1>4. ~(start <= q) => n + r <= a
  <2>1. ASSUME ~(start <= q) PROVE (q + 1) * r <= start * r
    BY <1>1, <2>1, Times
  <2>2. (q + 1) * r = r * q + r
    BY <1>1
  <2> QED BY <2>1, <2>2
<1>5. (start + size) * r = a + b
  OBVIOUS
<1>6. q < start + size => n + r <= a + b
  <2>1. ASSUME q < start + size PROVE (q + 1) * r <= (start + size) * r
    BY <1>1, <2>1, Times
  <2>2. (q + 1) * r = r * q + r
    BY <1>1
  <2> QED BY <1>5, <2>1, <2>2
<1>7. ~(q < start + size) => a + b <= n
  <2>1. ASSUME ~(q < start + size) PROVE (start + size) * r <= q * r
    BY <1>1, <2>1, Times
  <2>2. q * r = r * q
    BY <1>1
  <2> QED BY <1>5, <2>1, <2>2
<1> HIDE DEF a, b, n
<1>8. start <= q /\ q < start + size <=> a <= code /\ code < a + b
  BY <1>1, <1>2, <1>3, <1>4, <1>6, <1>7
<1> QED BY <1>8 DEF q, a, b

\* A symbol's share of a wide interval is at least 2^8.
LEMMA ShareWide ==
    ASSUME Digital, NEW range \in Nat, NEW total \in Nat, R7!Top <= range,
           0 < total, total <= Base * Base
    PROVE  range \div total \in Nat /\ range \div total >= Base
<1> DEFINE two == Base * Base
           r == range \div total
           m == range % total
<1>1. R7!Top = Base * two /\ two \in Nat /\ Base \in Nat
  BY Sizes DEF Digital
<1>2. r \in Nat /\ m \in Nat /\ m < total /\ range = total * r + m
  BY DivMod
<1> HIDE DEF r, m, two
<1>3. ASSUME r < Base PROVE FALSE
  <2>1. (r + 1) * total <= Base * total
    BY <1>1, <1>2, <1>3, Times
  <2>2. Base * total <= Base * two
    BY <1>1, Times DEF two
  <2>3. (r + 1) * total = total * r + total /\ total * r \in Nat /\ Base * total \in Nat
        /\ Base * two \in Nat
    BY <1>1, <1>2
  <2> QED BY <1>1, <1>2, <2>1, <2>2, <2>3
<1> QED BY <1>1, <1>2, <1>3 DEF r

\* Range_Decode follows RangeEnc_Encode: if Range_GetThreshold fell into the part of a
\* symbol, on any input, then what the decoder does with the symbol's frequencies leaves it
\* with the Range the encoder has after coding the symbol, with Code inside it, and with as
\* many digits read.
THEOREM DecoderFollows7 ==
    ASSUME Digital, NEW input \in Seq(Digits), NEW rc, Kept7(rc), NEW rd, InStep7(rc, rd),
           NEW start, NEW size, NEW total, Interval(start, size, total),
           total <= Base * Base,
           start <= R7!Range_GetThreshold(rd, total),
           R7!Range_GetThreshold(rd, total) < start + size
    PROVE  InStep7(R7!RangeEnc_Encode(rc, start, size, total),
                   R7!Range_Decode(rd, input, start, size, total))
<1> DEFINE s == Narrowed7(rc, start, size, total)
           r == rc.Range \div total
           a == start * r
           b == size * r
           d == OverD(rd, rd.Code - a, r * size)
<1>1. /\ rd \in Decoders7 /\ rd.Range = rc.Range /\ rd.Code < rd.Range
      /\ rd.pos = Sent(rc) + 4 /\ rd.Code \in Nat
  BY DEF InStep7, Decoders7
<1>2. /\ rc.Range \in Nat /\ R7!Top <= rc.Range /\ R7!Top \in Nat /\ Base * Base <= R7!Top
      /\ Base * Base \in Nat
  BY Sizes, Fields7 DEF Kept7
<1>3. start \in Nat /\ size \in Nat \ {0} /\ total \in Nat /\ 0 < total
  BY DEF Interval
<1>4. total <= R7!Top
  <2> DEFINE two == Base * Base
  <2>1. two \in Nat /\ total <= two /\ two <= R7!Top
    BY <1>2
  <2> HIDE DEF two
  <2> QED BY <1>2, <1>3, <2>1
<1>5. /\ Half7(s) /\ s.Range = size * r /\ s.CacheSize = rc.CacheSize /\ s.out = rc.out
      /\ r \in Nat \ {0} /\ start * r \in Nat
      /\ R7!RangeEnc_Encode(rc, start, size, total) = R7!EncNormalize(s)
  BY <1>4, NarrowedIs
<1>6. r \in Nat /\ r >= Base
  BY <1>2, <1>3, ShareWide
<1>7. R7!Range_GetThreshold(rd, total) = rd.Code \div r
  BY <1>1 DEF R7!Range_GetThreshold
<1>8. R7!Range_Decode(rd, input, start, size, total) = R7!Range_Normalize(d, input)
  BY <1>1 DEF R7!Range_Decode, OverD
<1> HIDE DEF r, s
<1>9. a <= rd.Code /\ rd.Code < a + b
  <2>1. start <= rd.Code \div r /\ rd.Code \div r < start + size
    BY <1>7
  <2>2. size \in Nat
    BY <1>3
  <2> QED BY <1>1, <1>3, <1>5, <2>1, <2>2, ThresholdIs
<1>10. b >= Base /\ b \in Nat /\ r * size = b /\ a \in Nat
  <2>1. Base \in Nat
    BY DEF Digital
  <2>2. b \in Nat /\ b >= r /\ r * size = b /\ a \in Nat
    BY <1>3, <1>6
  <2> HIDE DEF a, b
  <2> QED BY <1>6, <2>1, <2>2
<1> HIDE DEF a, b
<1>11. rd.Code - a \in Nat /\ rd.Code - a < b
  BY <1>1, <1>9, <1>10
<1>12. d \in Decoders7 /\ d.Code = rd.Code - a /\ d.Range = b /\ d.pos = rd.pos
  <2> DEFINE x == rd.Code - a
             y == r * size
  <2>1. x \in Nat /\ y \in Nat /\ rd \in Decoders7 /\ y = b
    BY <1>1, <1>10, <1>11
  <2> HIDE DEF x, y
  <2>2. OverD(rd, x, y) \in Decoders7 /\ OverD(rd, x, y).Code = x
        /\ OverD(rd, x, y).Range = y /\ OverD(rd, x, y).pos = rd.pos
    BY <2>1, OverDIs
  <2> QED BY <2>1, <2>2 DEF x, y
<1> HIDE DEF d
<1>13. s.Range = b
  BY <1>5 DEF b
<1>14. Sent(s) = Sent(rc)
  BY <1>5 DEF Sent
<1>15. InStep7(s, d)
  BY <1>1, <1>11, <1>12, <1>13, <1>14 DEF InStep7
<1>16. s.Range >= Base
  BY <1>10, <1>13
<1> QED BY <1>5, <1>8, <1>15, <1>16, NormalizeTogether

\* Range_DecodeBit before Range_Normalize.
BitDecoded7(rd, size0) ==
    LET bound == R7!BitBound(rd, size0) IN
    IF R7!DecodedBit(rd, size0) = 0
    THEN OverD(rd, rd.Code, bound)
    ELSE OverD(rd, rd.Code - bound, rd.Range - bound)

\* Range_DecodeBit is that, and Range_Normalize.
LEMMA DecodeBitIs ==
    ASSUME NEW rd \in Decoders7, NEW input, NEW size0
    PROVE  R7!Range_DecodeBit(rd, input, size0) =
           R7!Range_Normalize(BitDecoded7(rd, size0), input)
<1> DEFINE bound == R7!BitBound(rd, size0)
           r1 == [rd EXCEPT !.Code = rd.Code]
<1>1. r1 = rd
  BY DEF Decoders7
<1>2. OverD(rd, rd.Code, bound) = [r1 EXCEPT !.Range = bound]
  BY DEF OverD
<1>3. OverD(rd, rd.Code, bound) = [rd EXCEPT !.Range = bound]
  <2> HIDE DEF r1, bound
  <2> QED BY <1>1, <1>2
<1>4. R7!Range_DecodeBit(rd, input, size0) = R7!Range_Normalize(
          IF R7!DecodedBit(rd, size0) = 0 THEN [rd EXCEPT !.Range = bound]
          ELSE OverD(rd, rd.Code - bound, rd.Range - bound), input)
  BY DEF R7!Range_DecodeBit, OverD
<1> HIDE DEF r1
<1> QED BY <1>3, <1>4 DEF BitDecoded7

\* Range_DecodeBit follows the encoder of the bit it finds: on any input it ends with the
\* Range the encoder has after coding that bit, with Code inside it, and with as many
\* digits read.
THEOREM BitsFollow7 ==
    ASSUME Digital, NEW input \in Seq(Digits), NEW rc, Kept7(rc), NEW rd, InStep7(rc, rd),
           NEW size0, Probability(size0), BitTotal <= Base * Base
    PROVE  InStep7(EncodeBit7(rc, size0, R7!DecodedBit(rd, size0)),
                   R7!Range_DecodeBit(rd, input, size0))
<1> DEFINE bit == R7!DecodedBit(rd, size0)
           s == BitNarrowed7(rc, size0, bit)
           r == rc.Range \div BitTotal
           bound == r * size0
           d == BitDecoded7(rd, size0)
<1>1. /\ rd \in Decoders7 /\ rd.Range = rc.Range /\ rd.Code < rd.Range
      /\ rd.pos = Sent(rc) + 4 /\ rd.Code \in Nat
  BY DEF InStep7, Decoders7
<1>2. /\ rc.Range \in Nat /\ R7!Top <= rc.Range /\ R7!Top \in Nat /\ Base * Base <= R7!Top
      /\ Base * Base \in Nat /\ rc \in Encoders7
  BY Sizes, Fields7 DEF Kept7
<1>3. BitTotal \in Nat /\ 0 < BitTotal /\ size0 \in Nat
  BY DEF Probability
<1>4. BitTotal <= R7!Top
  <2> DEFINE two == Base * Base
  <2>1. two \in Nat /\ BitTotal <= two /\ two <= R7!Top
    BY <1>2
  <2> HIDE DEF two
  <2> QED BY <1>2, <1>3, <2>1
<1>5. bit \in {0, 1} /\ (bit = 0 <=> rd.Code < bound) /\ R7!BitBound(rd, size0) = bound
  BY <1>1 DEF R7!DecodedBit, R7!BitBound
<1> HIDE DEF bit
<1>6. /\ Half7(s) /\ s.CacheSize = rc.CacheSize /\ s.out = rc.out
      /\ s.Range = IF bit = 0 THEN bound ELSE rc.Range - bound
      /\ s.Range >= r
      /\ bound \in Nat \ {0} /\ bound < rc.Range
  BY <1>4, <1>5, BitNarrowedIs
<1>7. r \in Nat /\ r >= Base
  BY <1>2, <1>3, ShareWide
<1>8. EncodeBit7(rc, size0, bit) = R7!EncNormalize(s)
  BY <1>2, <1>5, EncodeBitIs
<1>9. R7!Range_DecodeBit(rd, input, size0) = R7!Range_Normalize(d, input)
  BY <1>1, DecodeBitIs
<1>10. d = IF bit = 0 THEN OverD(rd, rd.Code, bound)
           ELSE OverD(rd, rd.Code - bound, rd.Range - bound)
  BY <1>5 DEF BitDecoded7, bit
<1> HIDE DEF r, s, d, bound
<1>11. s.Range >= Base
  <2>1. s.Range \in Nat /\ Base \in Nat
    BY <1>6, Fields7 DEF Half7, Digital
  <2> QED BY <1>6, <1>7, <2>1
<1>12. Sent(s) = Sent(rc)
  BY <1>6 DEF Sent
<1>13. InStep7(s, d)
  <2> DEFINE x == IF bit = 0 THEN rd.Code ELSE rd.Code - bound
             y == IF bit = 0 THEN bound ELSE rd.Range - bound
  <2>1. x \in Nat /\ y \in Nat /\ x < y /\ y = s.Range
    BY <1>1, <1>2, <1>5, <1>6
  <2>2. d = OverD(rd, x, y)
    BY <1>10
  <2> HIDE DEF x, y
  <2>3. OverD(rd, x, y) \in Decoders7 /\ OverD(rd, x, y).Code = x
        /\ OverD(rd, x, y).Range = y /\ OverD(rd, x, y).pos = rd.pos
    <3>1. rd \in Decoders7 /\ x \in Nat /\ y \in Nat
      BY <1>1, <2>1
    <3> QED BY <3>1, OverDIs
  <2>4. d \in Decoders7 /\ d.Code = x /\ d.Range = y /\ d.pos = rd.pos
    BY <2>2, <2>3
  <2> QED BY <1>1, <1>12, <2>1, <2>4 DEF InStep7
<1>14. InStep7(R7!EncNormalize(s), R7!Range_Normalize(d, input))
  BY <1>6, <1>11, <1>13, NormalizeTogether
<1>15. InStep7(EncodeBit7(rc, size0, bit), R7!Range_DecodeBit(rd, input, size0))
  BY <1>8, <1>9, <1>14
<1> QED BY <1>15 DEF bit

\* An encoder that has coded nothing.
LEMMA Begins ==
    ASSUME Digital
    PROVE  /\ Kept7(R7!RangeEnc_Init) /\ R7!RangeEnc_Init.Low = 0
           /\ R7!RangeEnc_Init.Range = R7!Full - 1 /\ R7!RangeEnc_Init.Cache = 0
           /\ R7!RangeEnc_Init.CacheSize = 1 /\ R7!RangeEnc_Init.out = << >>
<1> DEFINE range == R7!Full - 1
           rc == [Low |-> 0, Range |-> range, Cache |-> 0, CacheSize |-> 1, out |-> << >>]
<1>1. R7!RangeEnc_Init = rc
  BY DEF R7!RangeEnc_Init
<1>2. /\ R7!Full \in Nat /\ R7!Top \in Nat \ {0} /\ 2 * R7!Top <= R7!Full
      /\ R7!LastDigit \in Nat \ {0}
  BY Sizes
<1>3. range \in Nat \ {0} /\ R7!Top <= range /\ range < R7!Full
  BY <1>2
<1>4. Open7(0, range, 0)
  BY <1>2, <1>3 DEF Open7
<1> HIDE DEF range
<1>5. rc \in Encoders7
  <2>1. << >> \in Outs /\ 1 \in Counts /\ 0 \in Digits /\ 0 \in Nat /\ range \in Nat
    <3>1. << >> \in Seq(Digits)
      OBVIOUS
    <3>2. 0 \in Digits
      BY DEF Digits, Digital
    <3> QED BY <1>3, <3>1, <3>2 DEF Outs, Counts
  <2> DEFINE e == << >>
             one == 1
  <2>2. e \in Outs /\ one \in Counts
    BY <2>1
  <2> HIDE DEF e, one
  <2>3. [Low |-> 0, Range |-> range, Cache |-> 0, CacheSize |-> one, out |-> e] \in Encoders7
    BY <2>1, <2>2 DEF Encoders7
  <2> QED BY <2>3 DEF e, one
<1>6. rc.Low = 0 /\ rc.Range = range /\ rc.Cache = 0 /\ rc.CacheSize = 1 /\ rc.out = << >>
  OBVIOUS
<1>7. Kept7(rc)
  BY <1>3, <1>4, <1>5, <1>6 DEF Kept7
<1> QED BY <1>1, <1>6, <1>7 DEF range

\* Four digits of the input behind the first n of them.
Window(input, n) ==
    LET D(i) == R7!Digit(input, i)
    IN  ((D(n + 1) * Base + D(n + 2)) * Base + D(n + 3)) * Base + D(n + 4)

\* Four digits are a number.
LEMMA WindowIsNat ==
    ASSUME Digital, NEW x \in Nat, NEW y \in Nat, NEW z \in Nat, NEW w \in Nat
    PROVE  /\ ((x * Base + y) * Base + z) * Base + w \in Nat
           /\ ((x * Base + y) * Base + z) * Base + w =
                  x * R7!Top + ((y * Base + z) * Base + w)
           /\ (y * Base + z) * Base + w \in Nat
<1>1. Base \in Nat /\ R7!Top = Base * (Base * Base)
  BY Sizes DEF Digital
<1>2. x * Base \in Nat /\ x * Base + y \in Nat /\ y * Base \in Nat /\ y * Base + z \in Nat
  BY <1>1
<1> DEFINE a == x * Base + y
           b == y * Base + z
<1> HIDE DEF a, b
<1>3. a * Base \in Nat /\ a * Base + z \in Nat /\ b * Base \in Nat /\ b * Base + w \in Nat
  BY <1>1, <1>2 DEF a, b
<1> DEFINE c == a * Base + z
<1> HIDE DEF c
<1>4. c * Base \in Nat /\ c * Base + w \in Nat
  BY <1>1, <1>3 DEF c
<1>5. ((x * Base + y) * Base + z) * Base = x * (Base * (Base * Base)) + (y * Base + z) * Base
  BY <1>1
<1>6. x * (Base * (Base * Base)) \in Nat
  BY <1>1
<1>7. c * Base + w = x * R7!Top + (b * Base + w)
  <2> DEFINE e == x * (Base * (Base * Base))
             f == b * Base
  <2>1. c * Base = e + f
    BY <1>5 DEF a, b, c
  <2>2. e \in Nat /\ f \in Nat
    BY <1>3, <1>6
  <2>3. e = x * R7!Top
    BY <1>1
  <2> HIDE DEF e, f
  <2>4. c * Base + w = e + (f + w)
    BY <1>4, <2>1, <2>2
  <2> QED BY <2>3, <2>4 DEF f
<1> QED BY <1>3, <1>4, <1>7 DEF a, b, c

\* Three digits are less than 2^24.
LEMMA ThreeDigits ==
    ASSUME Digital, NEW y \in Digits, NEW z \in Digits, NEW w \in Digits
    PROVE  (y * Base + z) * Base + w < R7!Top
<1>1. Base \in Nat /\ Base > 1 /\ R7!Top = Base * (Base * Base)
  BY Sizes DEF Digital
<1>2. y \in Nat /\ z \in Nat /\ w \in Nat /\ y + 1 <= Base /\ z + 1 <= Base /\ w + 1 <= Base
  BY <1>1 DEF Digits
<1>3. (y + 1) * Base <= Base * Base /\ (y + 1) * Base = y * Base + Base
  BY <1>1, <1>2, Times
<1> DEFINE two == Base * Base
           b == y * Base + z
<1>4. b \in Nat /\ two \in Nat /\ b + 1 <= two
  BY <1>1, <1>2, <1>3
<1> HIDE DEF two, b
<1>5. (b + 1) * Base <= two * Base /\ (b + 1) * Base = b * Base + Base
  BY <1>1, <1>4, Times
<1>6. two * Base = R7!Top
  BY <1>1, <1>4 DEF two
<1>7. b * Base \in Nat /\ R7!Top \in Nat
  BY <1>1, <1>4, <1>6
<1>8. b * Base + w < R7!Top
  BY <1>1, <1>2, <1>5, <1>6, <1>7
<1> QED BY <1>8 DEF b

\* The next four digits: the first falls out and another comes in.
LEMMA WindowMoves ==
    ASSUME Digital, NEW input \in Seq(Digits), NEW n \in Nat
    PROVE  \E v \in Nat :
               /\ v < R7!Top /\ Window(input, n) = R7!Digit(input, n + 1) * R7!Top + v
               /\ Window(input, n + 1) = v * Base + R7!Digit(input, n + 5)
<1> DEFINE D(i) == R7!Digit(input, i)
           v == (D(n + 2) * Base + D(n + 3)) * Base + D(n + 4)
<1>1. /\ D(n + 1) \in Digits /\ D(n + 2) \in Digits /\ D(n + 3) \in Digits
      /\ D(n + 4) \in Digits
      /\ D(n + 1) \in Nat /\ D(n + 2) \in Nat /\ D(n + 3) \in Nat
      /\ D(n + 4) \in Nat
  BY DigitIs
<1>2. Window(input, n) =
         ((D(n + 1) * Base + D(n + 2)) * Base + D(n + 3)) * Base + D(n + 4)
  BY DEF Window
<1>3. Window(input, n + 1) = v * Base + D(n + 5)
  <2>1. /\ (n + 1) + 1 = n + 2 /\ (n + 1) + 2 = n + 3 /\ (n + 1) + 3 = n + 4
        /\ (n + 1) + 4 = n + 5
    OBVIOUS
  <2>2. Window(input, n + 1) = ((D((n + 1) + 1) * Base + D((n + 1) + 2)) * Base
                                 + D((n + 1) + 3)) * Base + D((n + 1) + 4)
    BY DEF Window
  <2> HIDE DEF D
  <2> QED BY <2>1, <2>2
<1> HIDE DEF D
<1>4. v \in Nat /\ Window(input, n) = D(n + 1) * R7!Top + v
  <2> DEFINE x == D(n + 1)
             y == D(n + 2)
             z == D(n + 3)
             w == D(n + 4)
  <2>1. x \in Nat /\ y \in Nat /\ z \in Nat /\ w \in Nat
    BY <1>1
  <2>2. v = (y * Base + z) * Base + w
    OBVIOUS
  <2>3. Window(input, n) = ((x * Base + y) * Base + z) * Base + w
    BY <1>2
  <2> HIDE DEF x, y, z, w, v
  <2>4. /\ ((x * Base + y) * Base + z) * Base + w \in Nat
        /\ ((x * Base + y) * Base + z) * Base + w = x * R7!Top + ((y * Base + z) * Base + w)
        /\ (y * Base + z) * Base + w \in Nat
    BY <2>1, WindowIsNat, Zenon
  <2>5. v \in Nat
    BY <2>2, <2>4
  <2> DEFINE p == (y * Base + z) * Base + w
             u == ((x * Base + y) * Base + z) * Base + w
  <2>6. u = x * R7!Top + p /\ v = p /\ Window(input, n) = u
    BY <2>2, <2>3, <2>4
  <2> HIDE DEF p, u
  <2>7. Window(input, n) = x * R7!Top + v
    BY <2>6
  <2> QED BY <2>5, <2>7 DEF x
<1>5. v < R7!Top
  BY <1>1, ThreeDigits
<1> HIDE DEF v
<1> QED BY <1>3, <1>4, <1>5 DEF D

\* They are a number.
LEMMA WindowNat ==
    ASSUME Digital, NEW input \in Seq(Digits), NEW n \in Nat
    PROVE  Window(input, n) \in Nat
<1> DEFINE x == R7!Digit(input, n + 1)
<1>1. PICK v \in Nat : Window(input, n) = x * R7!Top + v
  BY WindowMoves
<1>2. x \in Nat
  BY DigitIs
<1>3. R7!Top \in Nat
  BY Sizes
<1> HIDE DEF x
<1>4. x * R7!Top \in Nat
  BY <1>2, <1>3
<1> QED BY <1>1, <1>4

\* What the four digits are above Low, before a shift and after it.
LEMMA BackNumbers ==
    ASSUME Digital, NEW t \in Nat, NEW h \in Nat, NEW v \in Nat, NEW last \in Digits,
           NEW c \in {0, 1}, NEW o2 \in Nat, o2 < h * Base,
           c * R7!Full + (v * Base + last) = t * Base + o2
    PROVE  \E o \in Nat : o < h /\ o2 = o * Base + last /\ c * R7!Top + v = t + o
<1> DEFINE w == c * R7!Top + v
           T == R7!Top
<1>1. Base \in Nat /\ Base > 1 /\ T \in Nat /\ R7!Full = Base * T
      /\ last \in Nat /\ last < Base
  BY Sizes DEF Digital, Digits
<1> HIDE DEF T
<1>2. w = c * T + v /\ w \in Nat
  BY <1>1 DEF T
<1>3. c * R7!Full + (v * Base + last) = w * Base + last
  <2>1. CASE c = 0
    <3>1. 0 * R7!Full = 0 /\ 0 * T = 0
      BY <1>1
    <3>2. w = v
      BY <1>2, <2>1, <3>1
    <3>3. v * Base \in Nat
      BY <1>1
    <3> HIDE DEF w
    <3> QED BY <1>1, <2>1, <3>1, <3>2, <3>3
  <2>2. CASE c = 1
    <3>1. w = T + v
      BY <1>1, <1>2, <2>2
    <3>2. (T + v) * Base = Base * T + v * Base /\ Base * T \in Nat /\ v * Base \in Nat
      BY <1>1
    <3>3. 1 * R7!Full = Base * T
      BY <1>1, <3>2
    <3> HIDE DEF w
    <3> QED BY <1>1, <2>2, <3>1, <3>2, <3>3
  <2> QED BY <2>1, <2>2
<1>4. w * Base + last = t * Base + o2
  BY <1>3
<1> HIDE DEF w
<1>5. w >= t
  <2>1. ASSUME w < t PROVE FALSE
    <3>1. (w + 1) * Base <= t * Base
      BY <1>1, <1>2, <2>1, Times
    <3>2. (w + 1) * Base = w * Base + Base /\ w * Base \in Nat /\ t * Base \in Nat
      BY <1>1, <1>2
    <3> QED BY <1>1, <1>4, <3>1, <3>2
  <2> QED BY <1>2, <2>1
<1> DEFINE o == w - t
<1>6. o \in Nat /\ w = t + o
  BY <1>2, <1>5
<1> HIDE DEF o
<1>7. o2 = o * Base + last
  <2>1. (t + o) * Base = t * Base + o * Base /\ t * Base \in Nat /\ o * Base \in Nat
    BY <1>1, <1>6
  <2> QED BY <1>1, <1>4, <1>6, <2>1
<1>8. o < h
  <2>1. ASSUME h <= o PROVE FALSE
    <3>1. h * Base <= o * Base
      BY <1>1, <1>6, <2>1, Times
    <3>2. o * Base \in Nat /\ h * Base \in Nat
      BY <1>1, <1>6
    <3> QED BY <1>1, <1>7, <3>1, <3>2
  <2> QED BY <1>6, <2>1
<1> QED BY <1>6, <1>7, <1>8 DEF w, T

-------------------------------------------------------------------------------
(***************************************************************************)
(* What the encoder writes tells the decoder its symbols.                  *)
(***************************************************************************)

\* The digits held back, in their order, with a carry c that is still to come.
Held(rc, c, i) == ((IF i = 1 THEN rc.Cache ELSE R7!LastDigit) + c) % Base

\* The input begins with what the encoder has written and holds back, with or without a
\* carry, and its next four digits, with that carry before them, are o above Low.
Prefix(rc, input) == \A i \in 1..Len(rc.out) : R7!Digit(input, i) = rc.out[i]
Pending7(rc, input, c) ==
    \A i \in 1..rc.CacheSize : R7!Digit(input, Len(rc.out) + i) = Held(rc, c, i)
At7(rc, input, o) ==
    /\ Prefix(rc, input)
    /\ \E c \in {0, 1} :
           /\ Pending7(rc, input, c)
           /\ c * R7!Full + Window(input, Sent(rc)) = rc.Low + o

\* The first digit held back, with its carry, is a digit itself.
LEMMA HeldFirst ==
    ASSUME Digital, NEW rc, NEW c \in {0, 1}, NEW d \in Digits, rc.Cache = d,
           c = 1 => d # R7!LastDigit
    PROVE  Held(rc, c, 1) = d + c
<1>1. Base \in Nat \ {0} /\ Base = R7!LastDigit + 1 /\ R7!LastDigit \in Nat
  BY Sizes DEF Digital
<1>2. d + c \in Nat /\ d + c < Base
  BY <1>1 DEF Digits
<1> DEFINE x == d + c
<1> HIDE DEF x
<1>3. x % Base = x
  <2>1. x = Base * 0 + x /\ 0 \in Nat
    BY <1>1, <1>2 DEF x
  <2> QED BY <1>1, <1>2, <2>1, DivModIs DEF x
<1>4. Held(rc, c, 1) = x % Base
  BY DEF Held, x
<1> QED BY <1>3, <1>4 DEF x

\* The others are the largest digit, or 0 with a carry.
LEMMA HeldOther ==
    ASSUME Digital, NEW rc, NEW c \in {0, 1}, NEW i \in Nat, i > 1
    PROVE  Held(rc, c, i) = IF c = 0 THEN R7!LastDigit ELSE 0
<1>1. Base \in Nat \ {0} /\ Base = R7!LastDigit + 1 /\ R7!LastDigit \in Nat
  BY Sizes DEF Digital
<1>2. Held(rc, c, i) = (R7!LastDigit + c) % Base
  BY DEF Held
<1> DEFINE L == R7!LastDigit
           x == L + c
<1>3. CASE c = 0
  <2>1. x = L /\ L < Base /\ L = Base * 0 + L /\ 0 \in Nat /\ L \in Nat
    BY <1>1, <1>3
  <2>2. L % Base = L
    BY <1>1, <2>1, DivModIs
  <2> QED BY <1>2, <1>3, <2>1, <2>2
<1>4. CASE c = 1
  <2>1. x = Base /\ Base = Base * 1 + 0 /\ 0 \in Nat /\ 1 \in Nat /\ 0 < Base
    BY <1>1, <1>4
  <2>2. Base % Base = 0
    <3>1. Base \in Nat
      BY <1>1
    <3> QED BY <1>1, <2>1, <3>1, DivModIs
  <2> QED BY <1>2, <1>4, <2>1, <2>2
<1> QED BY <1>3, <1>4

\* One sequence behind another.
LEMMA LenCat ==
    ASSUME NEW S, NEW s \in Seq(S), NEW t \in Seq(S)
    PROVE  Len(s \o t) = Len(s) + Len(t)
  OBVIOUS

\* One place further.
LEMMA OneMore == \A a, b \in Nat : a + (b + 1) = (a + b) + 1
  OBVIOUS

\* What is known after a shift was known before it.
LEMMA ShiftBack ==
    ASSUME Digital, NEW input \in Seq(Digits), NEW rc \in Encoders7,
           NEW h \in Nat, h < R7!Top, Open7(rc.Low, h, rc.Cache),
           NEW s, s = R7!RangeEnc_ShiftLow(rc),
           NEW o2 \in Nat, o2 < h * Base, At7(s, input, o2)
    PROVE  \E o \in Nat : /\ o < h /\ At7(rc, input, o)
                          /\ o2 = o * Base + R7!Digit(input, Sent(rc) + 5)
<1> DEFINE n == Sent(rc)
           k == Len(rc.out)
           m == rc.CacheSize
           last == R7!Digit(input, n + 5)
           x == R7!Digit(input, n + 1)
<1>1. /\ rc.Low \in Nat /\ rc.Cache \in Digits
      /\ m \in Nat \ {0} /\ rc.out \in Seq(Digits)
  BY Fields7
<1>2. rc.Low < 2 * R7!Full
  <2>1. R7!Full \in Nat
    BY Sizes
  <2> QED BY <1>1, <2>1 DEF Open7
<1>3. PICK q \in {0, 1}, d \in Digits, t \in Nat :
         /\ t < R7!Top /\ rc.Low = q * R7!Full + (d * R7!Top + t)
         /\ rc.Low \div R7!Full = q /\ rc.Low % R7!Full = d * R7!Top + t
         /\ (rc.Low % R7!Full) \div R7!Top = d /\ rc.Low % R7!Top = t
  BY <1>1, <1>2, LowParts
<1> DEFINE S == d < R7!LastDigit \/ q = 1
<1>4. /\ s \in Encoders7 /\ s.Low = t * Base /\ s.Range = rc.Range
      /\ R7!Carry(rc) = q
      /\ S => s.Cache = d /\ s.CacheSize = 1 /\ s.out = rc.out \o R7!Emitted(rc)
      /\ ~S => s.Cache = rc.Cache /\ s.CacheSize = m + 1 /\ s.out = rc.out
  <2>1. s = R7!RangeEnc_ShiftLow(rc) /\ rc \in Encoders7
    OBVIOUS
  <2> QED BY <1>3, <2>1, ShiftIs, SMTT(20)
<1>5. /\ S => Open7(t * Base, h * Base, d)
      /\ ~S => d = R7!LastDigit /\ q = 0
  BY <1>1, <1>3, ShiftNumbers
<1>6. /\ R7!Emitted(rc) \in Seq(Digits) /\ Len(R7!Emitted(rc)) = m
      /\ \A i \in 1..m : R7!Emitted(rc)[i] = Held(rc, q, i)
  BY <1>4, EmittedIs DEF Held
<1>7. k \in Nat /\ n = k + m /\ n \in Nat /\ Sent(s) = n + 1
  <2>1. k \in Nat
    BY <1>1
  <2>2. n = k + m
    BY DEF Sent
  <2>3. Sent(s) = n + 1
    BY ShiftKeeps
  <2> QED BY <1>1, <2>1, <2>2, <2>3
<1>8. PICK c2 \in {0, 1} :
         Pending7(s, input, c2) /\ c2 * R7!Full + Window(input, n + 1) = t * Base + o2
  BY <1>4, <1>7 DEF At7
<1>9. Prefix(s, input)
  BY DEF At7
<1> HIDE DEF n
<1>10. PICK v \in Nat : /\ v < R7!Top /\ Window(input, n) = x * R7!Top + v
                        /\ Window(input, n + 1) = v * Base + last
  BY <1>7, WindowMoves
<1>11. last \in Digits /\ x \in Nat
  BY <1>7, DigitIs
<1> HIDE DEF x, last, S
<1>12. PICK o \in Nat : o < h /\ o2 = o * Base + last /\ c2 * R7!Top + v = t + o
  <2>1. c2 * R7!Full + (v * Base + last) = t * Base + o2
    BY <1>8, <1>10
  <2> QED BY <1>11, <2>1, BackNumbers
<1>13. R7!Top \in Nat /\ R7!Full \in Nat /\ R7!Full = R7!LastDigit * R7!Top + R7!Top
       /\ R7!LastDigit \in Nat
  BY Sizes
<1>14. CASE S
  <2>1. s.Cache = d /\ s.CacheSize = 1 /\ s.out = rc.out \o R7!Emitted(rc)
    BY <1>4, <1>14
  <2>2. Len(s.out) = n
    <3>1. R7!Emitted(rc) \in Seq(Digits) /\ Len(R7!Emitted(rc)) = m
      BY <1>6
    <3>2. rc.out \in Seq(Digits)
      BY <1>1
    <3>3. Len(rc.out \o R7!Emitted(rc)) = k + m
      BY <3>1, <3>2, LenCat
    <3> QED BY <1>7, <2>1, <3>3
  <2>3. c2 = 1 => d # R7!LastDigit
    <3>1. SUFFICES ASSUME c2 = 1, d = R7!LastDigit PROVE FALSE
      OBVIOUS
    <3>2. t * Base + h * Base <= R7!Full
      BY <1>5, <1>14, <3>1 DEF Open7
    <3>3. Window(input, n + 1) \in Nat
      <4>1. v * Base \in Nat /\ last \in Nat
        BY <1>11 DEF Digital, Digits
      <4> QED BY <1>10, <4>1
    <3>4. 1 * R7!Full + Window(input, n + 1) = t * Base + o2
      BY <1>8, <3>1
    <3>5. t * Base \in Nat /\ h * Base \in Nat
      BY DEF Digital
    <3> QED BY <1>13, <3>2, <3>3, <3>4, <3>5
  <2>4. x = d + c2
    <3>1. x = Held(s, c2, 1)
      <4>1. 1 \in 1..s.CacheSize
        BY <2>1
      <4>2. R7!Digit(input, Len(s.out) + 1) = Held(s, c2, 1)
        BY <1>8, <4>1 DEF Pending7
      <4> QED BY <2>2, <4>2 DEF x
    <3>2. Held(s, c2, 1) = d + c2
      BY <2>1, <2>3, HeldFirst
    <3> QED BY <3>1, <3>2
  <2>5. q * R7!Full + Window(input, n) = rc.Low + o
    <3> DEFINE a == d * R7!Top
               f == q * R7!Full
    <3>1. a \in Nat /\ f \in Nat /\ d \in Nat
      BY <1>13 DEF Digits
    <3>2. (d + c2) * R7!Top = a + c2 * R7!Top /\ c2 * R7!Top \in Nat
      BY <1>13, <3>1
    <3> DEFINE e == c2 * R7!Top
    <3>3. Window(input, n) = (a + e) + v
      BY <1>10, <2>4, <3>2
    <3>4. rc.Low = f + (a + t) /\ e + v = t + o /\ e \in Nat
      BY <1>3, <1>12, <3>2
    <3> HIDE DEF a, e, f
    <3>5. f + ((a + e) + v) = (f + (a + t)) + o
      BY <3>1, <3>4
    <3>6. f + Window(input, n) = rc.Low + o
      BY <3>3, <3>4, <3>5
    <3> QED BY <3>6 DEF f
  <2>6. Prefix(rc, input)
    <3>1. ASSUME NEW i \in 1..k PROVE R7!Digit(input, i) = rc.out[i]
      <4>1. i \in 1..Len(s.out)
        BY <1>1, <1>7, <2>2
      <4>2. R7!Digit(input, i) = s.out[i]
        BY <1>9, <4>1 DEF Prefix
      <4>3. s.out[i] = rc.out[i]
        BY <1>1, <1>6, <2>1
      <4> QED BY <4>2, <4>3
    <3> QED BY <3>1 DEF Prefix
  <2>7. Pending7(rc, input, q)
    <3>1. ASSUME NEW i \in 1..m PROVE R7!Digit(input, k + i) = Held(rc, q, i)
      <4>1. k + i \in 1..Len(s.out)
        BY <1>1, <1>7, <2>2
      <4>2. R7!Digit(input, k + i) = s.out[k + i]
        BY <1>9, <4>1 DEF Prefix
      <4>3. s.out[k + i] = R7!Emitted(rc)[i]
        BY <1>1, <1>6, <1>7, <2>1, SMTT(20)
      <4> QED BY <1>6, <4>2, <4>3
    <3> QED BY <3>1 DEF Pending7
  <2>8. At7(rc, input, o)
    BY <2>5, <2>6, <2>7 DEF At7, n
  <2> QED BY <1>12, <2>8 DEF last, n
<1>15. CASE ~S
  <2>1. /\ s.Cache = rc.Cache /\ s.CacheSize = m + 1 /\ s.out = rc.out
        /\ d = R7!LastDigit /\ q = 0
    BY <1>4, <1>5, <1>15
  <2>2. x = IF c2 = 0 THEN R7!LastDigit ELSE 0
    <3>1. x = Held(s, c2, m + 1)
      <4>1. m + 1 \in 1..s.CacheSize
        BY <1>1, <2>1
      <4>2. R7!Digit(input, k + (m + 1)) = Held(s, c2, m + 1)
        BY <1>8, <2>1, <4>1 DEF Pending7
      <4>3. k + (m + 1) = n + 1
        <5>1. k \in Nat /\ m \in Nat /\ n = k + m
          BY <1>1, <1>7
        <5> QED BY <5>1, OneMore, Zenon
      <4> QED BY <4>2, <4>3 DEF x
    <3>2. m + 1 \in Nat /\ m + 1 > 1
      BY <1>1
    <3> QED BY <3>1, <3>2, HeldOther
  <2>3. c2 * R7!Full + Window(input, n) = rc.Low + o
    <3> DEFINE a == R7!LastDigit * R7!Top
    <3>1. rc.Low = a + t /\ a \in Nat /\ R7!Full = a + R7!Top
      <4>1. a \in Nat
        BY <1>13
      <4>2. 0 * R7!Full = 0
        BY <1>13
      <4>3. rc.Low = 0 * R7!Full + (a + t)
        BY <1>3, <2>1
      <4> HIDE DEF a
      <4>4. rc.Low = a + t
        BY <4>1, <4>2, <4>3
      <4> QED BY <1>13, <4>1, <4>4 DEF a
    <3>2. CASE c2 = 0
      <4>1. Window(input, n) = a + v /\ 0 * R7!Top + v = t + o
        BY <1>10, <1>12, <2>2, <3>2
      <4>2. 0 * R7!Top = 0 /\ 0 * R7!Full = 0
        BY <1>13
      <4> HIDE DEF a
      <4>3. v = t + o
        BY <4>1, <4>2
      <4>4. a + (t + o) = (a + t) + o
        BY <3>1
      <4>5. 0 + (a + v) = rc.Low + o
        BY <3>1, <4>3, <4>4
      <4> QED BY <3>2, <4>1, <4>2, <4>5
    <3>3. CASE c2 = 1
      <4>1. Window(input, n) = 0 * R7!Top + v /\ 1 * R7!Top + v = t + o
        BY <1>10, <1>12, <2>2, <3>3
      <4>2. 0 * R7!Top = 0 /\ 1 * R7!Full = R7!Full /\ 1 * R7!Top = R7!Top
        BY <1>13
      <4> HIDE DEF a
      <4>3. Window(input, n) = v /\ R7!Top + v = t + o
        BY <4>1, <4>2
      <4>4. (a + R7!Top) + v = (a + t) + o
        BY <1>13, <3>1, <4>3
      <4>5. R7!Full + v = rc.Low + o
        BY <3>1, <4>4
      <4> QED BY <3>3, <4>2, <4>3, <4>5
    <3> QED BY <3>2, <3>3
  <2>4. Prefix(rc, input)
    BY <1>9, <2>1 DEF Prefix
  <2>5. Pending7(rc, input, c2)
    <3>1. ASSUME NEW i \in 1..m PROVE R7!Digit(input, k + i) = Held(rc, c2, i)
      <4>1. i \in 1..s.CacheSize
        BY <1>1, <2>1
      <4>2. R7!Digit(input, k + i) = Held(s, c2, i)
        BY <1>8, <2>1, <4>1 DEF Pending7
      <4>3. Held(s, c2, i) = Held(rc, c2, i)
        BY <2>1 DEF Held
      <4> QED BY <4>2, <4>3
    <3> QED BY <3>1 DEF Pending7
  <2>6. At7(rc, input, o)
    BY <2>3, <2>4, <2>5 DEF At7, n
  <2> QED BY <1>12, <2>6 DEF last, n
<1> QED BY <1>14, <1>15

\* What is a above the Low of a part is as much more above the Low before.
LEMMA PartBack ==
    ASSUME Digital, NEW input \in Seq(Digits), NEW rc \in Encoders7, NEW s,
           s.Cache = rc.Cache, s.CacheSize = rc.CacheSize, s.out = rc.out,
           NEW a \in Nat, s.Low = rc.Low + a, NEW o \in Nat, At7(s, input, o)
    PROVE  At7(rc, input, o + a)
<1>1. Prefix(rc, input)
  BY DEF At7, Prefix
<1>2. PICK c \in {0, 1} :
         Pending7(s, input, c) /\ c * R7!Full + Window(input, Sent(s)) = s.Low + o
  BY DEF At7
<1>3. Pending7(rc, input, c)
  BY <1>2 DEF Pending7, Held
<1>4. Sent(s) = Sent(rc)
  BY DEF Sent
<1>5. rc.Low \in Nat
  BY Fields7
<1>6. (rc.Low + a) + o = rc.Low + (o + a)
  BY <1>5
<1>7. c * R7!Full + Window(input, Sent(rc)) = rc.Low + (o + a)
  BY <1>2, <1>4, <1>6
<1> QED BY <1>1, <1>3, <1>7 DEF At7

\* What is known after a turn of the encoder's loop was known before it.
LEMMA EncShiftBack ==
    ASSUME Digital, NEW input \in Seq(Digits), NEW rc, Half7(rc), NEW o2 \in Nat,
           o2 < R7!EncShift(rc).Range, At7(R7!EncShift(rc), input, o2)
    PROVE  \E o \in Nat :
               /\ o < rc.Range /\ At7(rc, input, o)
               /\ o2 = IF rc.Range < R7!Top
                       THEN o * Base + R7!Digit(input, Sent(rc) + 5) ELSE o
<1> DEFINE s == R7!EncShift(rc)
           h == rc.Range
           w == [rc EXCEPT !.Range = rc.Range * Base]
<1>1. rc \in Encoders7 /\ Open7(rc.Low, h, rc.Cache) /\ h \in Nat /\ rc.Low \in Nat
  BY Fields7 DEF Half7
<1>2. CASE rc.Range < R7!Top
  <2>1. s = R7!RangeEnc_ShiftLow(w)
    BY <1>2 DEF R7!EncShift
  <2>2. w \in Encoders7 /\ w.Low = rc.Low /\ w.Cache = rc.Cache /\ w.Range = h * Base
        /\ w.CacheSize = rc.CacheSize /\ w.out = rc.out
    <3>1. Base \in Nat
      BY DEF Digital
    <3>2. h * Base \in Nat
      BY <1>1, <3>1
    <3> QED BY <1>1, <3>2 DEF Encoders7
  <2>3. o2 < s.Range /\ At7(s, input, o2)
    OBVIOUS
  <2> HIDE DEF w, s
  <2>4. Open7(w.Low, h, w.Cache)
    BY <1>1, <2>2
  <2>5. s.Range = h * Base
    <3>1. s.Range = w.Range
      BY <1>1, <1>2, <2>1, <2>2, <2>4, ShiftKeeps
    <3> QED BY <2>2, <3>1
  <2>6. PICK o \in Nat : /\ o < h /\ At7(w, input, o)
                         /\ o2 = o * Base + R7!Digit(input, Sent(w) + 5)
    <3>1. o2 < h * Base
      BY <2>3, <2>5
    <3> QED BY <1>1, <1>2, <2>1, <2>2, <2>3, <2>4, <3>1, ShiftBack
  <2>7. Sent(w) = Sent(rc)
    BY <2>2 DEF Sent
  <2>8. At7(rc, input, o)
    <3>1. w.Low = rc.Low + 0 /\ 0 \in Nat
      BY <1>1, <2>2
    <3>2. At7(rc, input, o + 0)
      BY <1>1, <2>2, <2>6, <3>1, PartBack
    <3>3. o + 0 = o
      OBVIOUS
    <3> QED BY <3>2, <3>3
  <2> QED BY <1>2, <2>6, <2>7, <2>8
<1>3. CASE ~(rc.Range < R7!Top)
  <2>1. s = rc
    BY <1>3 DEF R7!EncShift
  <2> QED BY <1>3, <2>1
<1> QED BY <1>2, <1>3

\* What is known after the loop was known before it, and Range_Normalize takes the decoder's
\* Code from there to what it has to be.
LEMMA NormalizeBack ==
    ASSUME Digital, NEW input \in Seq(Digits), NEW rc, Half7(rc), rc.Range >= Base,
           NEW o2 \in Nat, o2 < R7!EncNormalize(rc).Range,
           At7(R7!EncNormalize(rc), input, o2)
    PROVE  \E o \in Nat :
               /\ o < rc.Range /\ At7(rc, input, o)
               /\ \A rd : InStep7(rc, rd) /\ rd.Code = o =>
                      R7!Range_Normalize(rd, input).Code = o2
<1> DEFINE a == R7!EncShift(rc)
           b == R7!EncShift(a)
           c == R7!EncShift(b)
           D(n) == R7!Digit(input, n)
<1>1. R7!EncNormalize(rc) = c
  BY DEF R7!EncNormalize
<1>2. Half7(a) /\ a.Range = Wider(rc.Range)
  BY EncShiftKeeps
<1> HIDE DEF a
<1>3. Half7(b) /\ b.Range = Wider(a.Range)
  BY <1>2, EncShiftKeeps
<1> HIDE DEF b
<1>4. c = b
  <2>1. rc.Range \in Nat \ {0}
    BY DEF Half7, Open7
  <2>2. b.Range >= R7!Top
    BY <1>2, <1>3, <2>1, WideAfter
  <2>3. b.Range \in Nat /\ R7!Top \in Nat
    BY <1>3, Sizes, Fields7 DEF Half7
  <2>4. ~(b.Range < R7!Top)
    BY <2>2, <2>3
  <2> QED BY <2>4 DEF R7!EncShift
<1>5. At7(b, input, o2) /\ o2 < b.Range
  BY <1>1, <1>4
<1>6. PICK o1 \in Nat :
         /\ o1 < a.Range /\ At7(a, input, o1)
         /\ o2 = IF a.Range < R7!Top THEN o1 * Base + D(Sent(a) + 5) ELSE o1
  BY <1>2, <1>5, EncShiftBack DEF b
<1>7. PICK o \in Nat :
         /\ o < rc.Range /\ At7(rc, input, o)
         /\ o1 = IF rc.Range < R7!Top THEN o * Base + D(Sent(rc) + 5) ELSE o
  BY <1>6, EncShiftBack DEF a
<1>8. ASSUME NEW rd, InStep7(rc, rd), rd.Code = o
      PROVE  R7!Range_Normalize(rd, input).Code = o2
  <2> DEFINE p == R7!DecShift(rd, input)
             s == R7!DecShift(p, input)
  <2>1. R7!Range_Normalize(rd, input) = s
    BY DEF R7!Range_Normalize
  <2>2. /\ InStep7(a, p)
        /\ p.Code = IF rc.Range < R7!Top THEN rd.Code * Base + D(Sent(rc) + 5) ELSE rd.Code
    BY <1>8, DecShiftKeeps DEF a
  <2>3. p.Code = o1
    BY <1>7, <1>8, <2>2
  <2> HIDE DEF p
  <2>4. s.Code = IF a.Range < R7!Top THEN p.Code * Base + D(Sent(a) + 5) ELSE p.Code
    BY <1>2, <2>2, DecShiftKeeps
  <2> HIDE DEF s
  <2>5. s.Code = o2
    BY <1>6, <2>3, <2>4
  <2> QED BY <2>1, <2>5
<1> QED BY <1>7, <1>8

\* If the input holds what the encoder has after coding a symbol, then it holds what the
\* encoder had before, and the decoder that stands there finds the symbol: what
\* Range_GetThreshold returns lies in the symbol's part, and Range_Decode leads to where the
\* input stands after it.  A symbol is decoded as it was encoded, carries included.
THEOREM SymbolComesBack7 ==
    ASSUME Digital, NEW input \in Seq(Digits), NEW rc, Kept7(rc),
           NEW start, NEW size, NEW total, Interval(start, size, total),
           total <= Base * Base,
           NEW o2 \in Nat, o2 < R7!RangeEnc_Encode(rc, start, size, total).Range,
           At7(R7!RangeEnc_Encode(rc, start, size, total), input, o2)
    PROVE  \E o \in Nat :
               /\ o < rc.Range /\ At7(rc, input, o)
               /\ \A rd : InStep7(rc, rd) /\ rd.Code = o =>
                      /\ start <= R7!Range_GetThreshold(rd, total)
                      /\ R7!Range_GetThreshold(rd, total) < start + size
                      /\ R7!Range_Decode(rd, input, start, size, total).Code = o2
<1> DEFINE s == Narrowed7(rc, start, size, total)
           r == rc.Range \div total
           a == start * r
           b == size * r
<1>1. /\ rc.Range \in Nat /\ R7!Top <= rc.Range /\ R7!Top \in Nat /\ Base * Base <= R7!Top
      /\ Base * Base \in Nat /\ rc \in Encoders7
  BY Sizes, Fields7 DEF Kept7
<1>2. start \in Nat /\ size \in Nat \ {0} /\ total \in Nat /\ 0 < total
  BY DEF Interval
<1>3. total <= R7!Top
  <2> DEFINE two == Base * Base
  <2>1. two \in Nat /\ total <= two /\ two <= R7!Top
    BY <1>1
  <2> HIDE DEF two
  <2> QED BY <1>1, <1>2, <2>1
<1>4. /\ Half7(s) /\ s.Range = size * r /\ s.CacheSize = rc.CacheSize /\ s.out = rc.out
      /\ s.Cache = rc.Cache /\ s.Low = rc.Low + start * r
      /\ r \in Nat \ {0} /\ start * r \in Nat /\ start * r + size * r <= rc.Range
      /\ R7!RangeEnc_Encode(rc, start, size, total) = R7!EncNormalize(s)
  BY <1>3, NarrowedIs
<1>5. r \in Nat /\ r >= Base
  BY <1>1, <1>2, ShareWide
<1> HIDE DEF r, s
<1>6. b >= Base /\ b \in Nat /\ r * size = b /\ a \in Nat
  <2>1. Base \in Nat
    BY DEF Digital
  <2>2. b \in Nat /\ b >= r /\ r * size = b /\ a \in Nat
    BY <1>2, <1>5
  <2> HIDE DEF a, b
  <2> QED BY <1>5, <2>1, <2>2
<1>7. s.Range = b /\ s.Low = rc.Low + a /\ a + b <= rc.Range
  BY <1>4
<1> HIDE DEF a, b
<1>8. PICK o1 \in Nat :
         /\ o1 < s.Range /\ At7(s, input, o1)
         /\ \A rd : InStep7(s, rd) /\ rd.Code = o1 =>
                R7!Range_Normalize(rd, input).Code = o2
  <2>1. s.Range >= Base
    BY <1>6, <1>7
  <2>2. o2 < R7!EncNormalize(s).Range /\ At7(R7!EncNormalize(s), input, o2)
    BY <1>4
  <2> QED BY <1>4, <2>1, <2>2, NormalizeBack
<1>9. At7(rc, input, o1 + a)
  BY <1>1, <1>4, <1>6, <1>7, <1>8, PartBack
<1>10. o1 + a \in Nat /\ o1 + a < rc.Range
  BY <1>1, <1>6, <1>7, <1>8
<1>11. ASSUME NEW rd, InStep7(rc, rd), rd.Code = o1 + a
       PROVE  /\ start <= R7!Range_GetThreshold(rd, total)
              /\ R7!Range_GetThreshold(rd, total) < start + size
              /\ R7!Range_Decode(rd, input, start, size, total).Code = o2
  <2> DEFINE d == OverD(rd, rd.Code - a, r * size)
  <2>1. /\ rd \in Decoders7 /\ rd.Range = rc.Range /\ rd.Code < rd.Range
        /\ rd.pos = Sent(rc) + 4 /\ rd.Code \in Nat
    BY <1>11 DEF InStep7, Decoders7
  <2>2. R7!Range_GetThreshold(rd, total) = rd.Code \div r
    BY <2>1 DEF R7!Range_GetThreshold, r
  <2>3. a <= rd.Code /\ rd.Code < a + b
    BY <1>6, <1>7, <1>8, <1>11
  <2>4. start <= rd.Code \div r /\ rd.Code \div r < start + size
    <3>1. start * r <= rd.Code /\ rd.Code < start * r + size * r
      BY <2>3 DEF a, b
    <3>2. size \in Nat /\ start \in Nat /\ r \in Nat \ {0} /\ rd.Code \in Nat
      BY <1>2, <1>4, <2>1
    <3> QED BY <3>1, <3>2, ThresholdIs
  <2>5. R7!Range_Decode(rd, input, start, size, total) = R7!Range_Normalize(d, input)
    BY <2>1 DEF R7!Range_Decode, OverD, a, r
  <2>6. d \in Decoders7 /\ d.Code = o1 /\ d.Range = b /\ d.pos = rd.pos
    <3> DEFINE x == rd.Code - a
               y == r * size
    <3>1. x = o1 /\ x \in Nat /\ y \in Nat /\ y = b
      BY <1>6, <1>11
    <3>4. d = OverD(rd, x, y)
      OBVIOUS
    <3> HIDE DEF x, y, d
    <3>2. rd \in Decoders7 /\ x \in Nat /\ y \in Nat
      BY <2>1, <3>1
    <3>5. \A n \in Nat, m \in Nat :
             OverD(rd, n, m) \in Decoders7 /\ OverD(rd, n, m).Code = n
             /\ OverD(rd, n, m).Range = m /\ OverD(rd, n, m).pos = rd.pos
      BY <3>2, OverDIs
    <3>3. OverD(rd, x, y) \in Decoders7 /\ OverD(rd, x, y).Code = x
          /\ OverD(rd, x, y).Range = y /\ OverD(rd, x, y).pos = rd.pos
      BY <3>2, <3>5
    <3> QED BY <3>1, <3>3, <3>4
  <2> HIDE DEF d
  <2>7. Sent(s) = Sent(rc)
    BY <1>4 DEF Sent
  <2>8. InStep7(s, d)
    BY <1>7, <1>8, <2>1, <2>6, <2>7 DEF InStep7
  <2>9. R7!Range_Normalize(d, input).Code = o2
    BY <1>8, <2>6, <2>8
  <2> QED BY <2>2, <2>4, <2>5, <2>9
<1> QED BY <1>9, <1>10, <1>11

\* The same for a bit: if the input holds what the encoder has after coding it, then
\* Range_DecodeBit finds the bit.
THEOREM BitComesBack7 ==
    ASSUME Digital, NEW input \in Seq(Digits), NEW rc, Kept7(rc),
           NEW size0, Probability(size0), BitTotal <= Base * Base, NEW bit \in {0, 1},
           NEW o2 \in Nat, o2 < EncodeBit7(rc, size0, bit).Range,
           At7(EncodeBit7(rc, size0, bit), input, o2)
    PROVE  \E o \in Nat :
               /\ o < rc.Range /\ At7(rc, input, o)
               /\ \A rd : InStep7(rc, rd) /\ rd.Code = o =>
                      /\ R7!DecodedBit(rd, size0) = bit
                      /\ R7!Range_DecodeBit(rd, input, size0).Code = o2
<1> DEFINE s == BitNarrowed7(rc, size0, bit)
           r == rc.Range \div BitTotal
           bound == r * size0
           a == IF bit = 0 THEN 0 ELSE bound
           b == IF bit = 0 THEN bound ELSE rc.Range - bound
<1>1. /\ rc.Range \in Nat /\ R7!Top <= rc.Range /\ R7!Top \in Nat /\ Base * Base <= R7!Top
      /\ Base * Base \in Nat /\ rc \in Encoders7 /\ rc.Low \in Nat
  BY Sizes, Fields7 DEF Kept7
<1>2. BitTotal \in Nat /\ 0 < BitTotal /\ size0 \in Nat
  BY DEF Probability
<1>3. BitTotal <= R7!Top
  <2> DEFINE two == Base * Base
  <2>1. two \in Nat /\ BitTotal <= two /\ two <= R7!Top
    BY <1>1
  <2> HIDE DEF two
  <2> QED BY <1>1, <1>2, <2>1
<1>4. /\ Half7(s) /\ s.Cache = rc.Cache /\ s.CacheSize = rc.CacheSize /\ s.out = rc.out
      /\ s.Low = IF bit = 0 THEN rc.Low ELSE rc.Low + bound
      /\ s.Range = IF bit = 0 THEN bound ELSE rc.Range - bound
      /\ s.Range >= r
      /\ bound \in Nat \ {0} /\ bound < rc.Range
  BY <1>3, BitNarrowedIs
<1>5. r \in Nat /\ r >= Base
  BY <1>1, <1>2, ShareWide
<1>6. EncodeBit7(rc, size0, bit) = R7!EncNormalize(s)
  BY <1>1, EncodeBitIs
<1> HIDE DEF r, s, bound
<1>7. s.Range = b /\ s.Low = rc.Low + a /\ a + b <= rc.Range /\ a \in Nat /\ b \in Nat
  BY <1>1, <1>4
<1>8. s.Range >= Base
  <2>1. Base \in Nat
    BY DEF Digital
  <2> QED BY <1>4, <1>5, <1>7, <2>1
<1>9. PICK o1 \in Nat :
         /\ o1 < s.Range /\ At7(s, input, o1)
         /\ \A rd : InStep7(s, rd) /\ rd.Code = o1 =>
                R7!Range_Normalize(rd, input).Code = o2
  <2>1. o2 < R7!EncNormalize(s).Range /\ At7(R7!EncNormalize(s), input, o2)
    BY <1>6
  <2> QED BY <1>4, <1>8, <2>1, NormalizeBack
<1> HIDE DEF a, b
<1>10. At7(rc, input, o1 + a)
  BY <1>1, <1>4, <1>7, <1>9, PartBack
<1>11. o1 + a \in Nat /\ o1 + a < rc.Range
  BY <1>1, <1>7, <1>9
<1>12. ASSUME NEW rd, InStep7(rc, rd), rd.Code = o1 + a
       PROVE  /\ R7!DecodedBit(rd, size0) = bit
              /\ R7!Range_DecodeBit(rd, input, size0).Code = o2
  <2> DEFINE d == BitDecoded7(rd, size0)
  <2>1. /\ rd \in Decoders7 /\ rd.Range = rc.Range /\ rd.Code < rd.Range
        /\ rd.pos = Sent(rc) + 4 /\ rd.Code \in Nat
    BY <1>12 DEF InStep7, Decoders7
  <2>2. R7!BitBound(rd, size0) = bound
    BY <2>1 DEF R7!BitBound, bound, r
  <2>3. rd.Code < bound <=> bit = 0
    BY <1>4, <1>7, <1>9, <1>12 DEF a, b
  <2>4. R7!DecodedBit(rd, size0) = bit
    BY <2>2, <2>3 DEF R7!DecodedBit
  <2>5. R7!Range_DecodeBit(rd, input, size0) = R7!Range_Normalize(d, input)
    BY <2>1, DecodeBitIs
  <2>6. d \in Decoders7 /\ d.Code = o1 /\ d.Range = b /\ d.pos = rd.pos
    <3>1. d = OverD(rd, o1, b)
      <4>1. CASE bit = 0
        <5>1. d = OverD(rd, rd.Code, bound)
          BY <2>2, <2>4, <4>1 DEF BitDecoded7
        <5>2. rd.Code = o1 /\ bound = b
          BY <1>12, <4>1 DEF a, b
        <5> QED BY <5>1, <5>2
      <4>2. CASE bit = 1
        <5>1. d = OverD(rd, rd.Code - bound, rd.Range - bound)
          BY <2>2, <2>4, <4>2 DEF BitDecoded7
        <5>2. rd.Code - bound = o1 /\ rd.Range - bound = b
          BY <1>4, <1>12, <2>1, <4>2 DEF a, b
        <5> QED BY <5>1, <5>2
      <4> QED BY <4>1, <4>2
    <3> HIDE DEF d
    <3>2. rd \in Decoders7 /\ o1 \in Nat /\ b \in Nat
      BY <1>7, <2>1
    <3>3. \A n \in Nat, m \in Nat :
             OverD(rd, n, m) \in Decoders7 /\ OverD(rd, n, m).Code = n
             /\ OverD(rd, n, m).Range = m /\ OverD(rd, n, m).pos = rd.pos
      BY <3>2, OverDIs
    <3> QED BY <3>1, <3>2, <3>3
  <2> HIDE DEF d
  <2>7. Sent(s) = Sent(rc)
    BY <1>4 DEF Sent
  <2>8. InStep7(s, d)
    BY <1>7, <1>9, <2>1, <2>6, <2>7 DEF InStep7
  <2>9. R7!Range_Normalize(d, input).Code = o2
    BY <1>9, <2>6, <2>8
  <2> QED BY <2>4, <2>5, <2>9
<1> QED BY <1>10, <1>11, <1>12

\* RangeDec_Init takes its Code from the second digit on.
LEMMA InitIs ==
    ASSUME NEW input
    PROVE  R7!RangeDec_Init(input) =
           IF R7!Digit(input, 1) = 0 /\ Window(input, 1) < R7!Full - 1
           THEN [Range |-> R7!Full - 1, Code |-> Window(input, 1), pos |-> 5]
           ELSE R7!None
<1> DEFINE D(i) == R7!Digit(input, i)
           range == R7!Full - 1
           four == ((D(2) * Base + D(3)) * Base + D(4)) * Base + D(5)
<1>1. /\ 1 + 1 = 2 /\ 1 + 2 = 3 /\ 1 + 3 = 4 /\ 1 + 4 = 5
  OBVIOUS
<1>2. R7!RangeDec_Init(input) =
         IF D(1) = 0 /\ four < range
         THEN [Range |-> range, Code |-> four, pos |-> 5] ELSE R7!None
  BY DEF R7!RangeDec_Init
<1>3. Window(input, 1) = ((D(1 + 1) * Base + D(1 + 2)) * Base + D(1 + 3)) * Base + D(1 + 4)
  BY DEF Window
<1> HIDE DEF D
<1>4. four = Window(input, 1)
  BY <1>1, <1>3
<1> HIDE DEF four, range
<1>5. R7!RangeDec_Init(input) =
         IF D(1) = 0 /\ Window(input, 1) < range
         THEN [Range |-> range, Code |-> Window(input, 1), pos |-> 5] ELSE R7!None
  BY <1>2, <1>4
<1> QED BY <1>5 DEF D, range

\* RangeDec_Init, on any input that it accepts, starts in step with an encoder that has
\* coded nothing.
THEOREM Begins7 ==
    ASSUME Digital, NEW input \in Seq(Digits), R7!RangeDec_Init(input) # R7!None
    PROVE  /\ Kept7(R7!RangeEnc_Init)
           /\ InStep7(R7!RangeEnc_Init, R7!RangeDec_Init(input))
           /\ R7!RangeDec_Init(input).Code = Window(input, 1)
<1> DEFINE code == Window(input, 1)
           range == R7!Full - 1
           rd == [Range |-> range, Code |-> code, pos |-> 5]
           rc == R7!RangeEnc_Init
<1>1. /\ Kept7(rc) /\ rc.Range = range /\ rc.CacheSize = 1 /\ rc.out = << >>
  BY Begins
<1>2. R7!RangeDec_Init(input) =
         IF R7!Digit(input, 1) = 0 /\ code < range THEN rd ELSE R7!None
  BY InitIs
<1> HIDE DEF rc
<1>3. R7!RangeDec_Init(input) = rd /\ code < range
  <2> HIDE DEF rd
  <2> QED BY <1>2
<1>4. code \in Nat /\ range \in Nat
  <2>1. R7!Full \in Nat /\ R7!Full > 0
    <3>1. R7!Top \in Nat \ {0} /\ R7!Full \in Nat /\ 2 * R7!Top <= R7!Full
      BY Sizes, Zenon
    <3> QED BY <3>1
  <2> QED BY <2>1, WindowNat
<1> HIDE DEF code, range
<1>5. rd \in Decoders7 /\ rd.Range = range /\ rd.Code = code /\ rd.pos = 5
  BY <1>4 DEF Decoders7
<1>6. Sent(rc) = 1
  <2>1. Len(<< >>) = 0
    OBVIOUS
  <2> QED BY <1>1, <2>1 DEF Sent
<1> HIDE DEF rd
<1>7. InStep7(rc, rd)
  BY <1>1, <1>3, <1>5, <1>6 DEF InStep7
<1> QED BY <1>1, <1>3, <1>5, <1>7 DEF rc, code

\* RangeDec_Init accepts an input on which an encoder that has coded nothing stands, and
\* gives Code the place where it stands.
THEOREM BeginningComesBack7 ==
    ASSUME Digital, NEW input \in Seq(Digits),
           NEW o \in Nat, o < R7!RangeEnc_Init.Range, At7(R7!RangeEnc_Init, input, o)
    PROVE  R7!RangeDec_Init(input) # R7!None /\ R7!RangeDec_Init(input).Code = o
<1> DEFINE rc == R7!RangeEnc_Init
           code == Window(input, 1)
<1>1. /\ rc.Low = 0 /\ rc.Range = R7!Full - 1 /\ rc.Cache = 0 /\ rc.CacheSize = 1
      /\ rc.out = << >>
  BY Begins
<1>2. PICK c \in {0, 1} :
         Pending7(rc, input, c) /\ c * R7!Full + Window(input, Sent(rc)) = rc.Low + o
  BY DEF At7
<1>3. o < rc.Range
  OBVIOUS
<1> HIDE DEF rc
<1>4. Sent(rc) = 1
  <2>1. Len(<< >>) = 0
    OBVIOUS
  <2> QED BY <1>1, <2>1 DEF Sent
<1>5. R7!Full \in Nat /\ R7!Full > 1 /\ R7!LastDigit \in Nat \ {0}
  <2>1. /\ R7!Top \in Nat \ {0} /\ R7!Full \in Nat /\ 2 * R7!Top <= R7!Full
        /\ R7!LastDigit \in Nat \ {0}
    BY Sizes, Zenon
  <2> QED BY <2>1
<1>6. code \in Nat
  BY WindowNat
<1>7. c * R7!Full + code = o
  <2>1. 0 + o = o
    OBVIOUS
  <2> QED BY <1>1, <1>2, <1>4, <2>1
<1> HIDE DEF code
<1>8. c = 0 /\ code = o
  BY <1>1, <1>3, <1>5, <1>6, <1>7
<1>9. R7!Digit(input, 1) = 0
  <2>1. R7!Digit(input, Len(rc.out) + 1) = Held(rc, 0, 1)
    BY <1>1, <1>2, <1>8 DEF Pending7
  <2>2. Len(rc.out) + 1 = 1
    BY <1>1
  <2>3. 0 \in Digits /\ 0 + 0 = 0
    BY DEF Digits, Digital
  <2>4. Held(rc, 0, 1) = 0 + 0
    BY <1>1, <2>3, HeldFirst
  <2> QED BY <2>1, <2>2, <2>3, <2>4
<1>10. code < R7!Full - 1
  BY <1>1, <1>3, <1>8
<1> DEFINE range == R7!Full - 1
           rd == [Range |-> range, Code |-> code, pos |-> 5]
<1>11. R7!RangeDec_Init(input) = rd
  BY <1>9, <1>10, InitIs DEF code
<1>12. rd # R7!None
  <2>1. rd.pos = 5
    OBVIOUS
  <2>2. R7!None.pos = 0
    BY DEF R7!None
  <2> HIDE DEF rd
  <2> QED BY <2>1, <2>2
<1> QED BY <1>8, <1>11, <1>12

\* What one digit's shift does to Low.
LowAfter(n) == (n % R7!Top) * Base

\* A remainder of multiples.
LEMMA ModScaled ==
    ASSUME NEW k \in Nat \ {0}, NEW m \in Nat \ {0}, NEW u \in Nat
    PROVE  (k * u) % (k * m) = k * (u % m) /\ u % m \in Nat
<1> DEFINE q == u \div m
           r == u % m
<1>1. q \in Nat /\ r \in Nat /\ r < m /\ u = m * q + r
  BY DivMod
<1> HIDE DEF q, r
<1>2. k * u = (k * m) * q + k * r
  BY <1>1
<1>3. k * m \in Nat /\ k * m # 0 /\ k * r \in Nat /\ k * u \in Nat
  BY <1>1
<1>4. k * r < k * m
  <2>1. k * (r + 1) <= k * m
    BY <1>1, Times
  <2>2. k * (r + 1) = k * r + k
    BY <1>1
  <2> QED BY <1>3, <2>1, <2>2
<1> DEFINE a == k * u
           n == k * m
           b == k * r
<1> HIDE DEF a, n, b
<1>5. a \in Nat /\ n \in Nat \ {0} /\ b \in Nat /\ b < n /\ a = n * q + b
  BY <1>2, <1>3, <1>4 DEF a, n, b
<1>6. a % n = b
  BY <1>1, <1>5, DivModIs
<1> QED BY <1>1, <1>6 DEF a, n, b, r

\* Four shifts push all of Low out.
LEMMA LowVanishes ==
    ASSUME Digital, NEW n \in Nat
    PROVE  LowAfter(LowAfter(LowAfter(LowAfter(n)))) = 0
<1> DEFINE two == Base * Base
           T == R7!Top
           u1 == n % T
           u2 == u1 % two
           u3 == u2 % Base
<1>1. /\ Base \in Nat \ {0} /\ two \in Nat \ {0} /\ T \in Nat \ {0}
      /\ T = Base * two /\ T = two * Base
  <2>1. /\ Base \in Nat /\ Base # 0 /\ two \in Nat /\ two # 0 /\ T \in Nat /\ T # 0
        /\ T = Base * two
    BY Sizes DEF Digital
  <2> HIDE DEF two, T
  <2>2. Base * two = two * Base
    BY <2>1
  <2> QED BY <2>1, <2>2
<1> HIDE DEF T
<1>2. u1 \in Nat
  BY <1>1, DivMod
<1> HIDE DEF u1
<1>3. u2 \in Nat
  <2> HIDE DEF two
  <2> QED BY <1>1, <1>2, DivMod
<1> HIDE DEF u2
<1>4. u3 \in Nat
  BY <1>1, <1>3, DivMod
<1> HIDE DEF u3
<1>5. LowAfter(n) = Base * u1
  <2>1. LowAfter(n) = u1 * Base
    BY DEF LowAfter, u1, T
  <2> QED BY <1>1, <1>2, <2>1
<1>6. LowAfter(Base * u1) = two * u2
  <2>1. (Base * u1) % T = Base * u2
    <3> HIDE DEF two
    <3>1. (Base * u1) % (Base * two) = Base * (u1 % two)
      BY <1>1, <1>2, ModScaled
    <3> QED BY <1>1, <3>1 DEF u2
  <2>2. LowAfter(Base * u1) = (Base * u2) * Base
    BY <2>1 DEF LowAfter, T
  <2> QED BY <1>1, <1>3, <2>2
<1> HIDE DEF two
<1>7. LowAfter(two * u2) = T * u3
  <2>1. (two * u2) % T = two * u3
    <3>1. (two * u2) % (two * Base) = two * (u2 % Base)
      BY <1>1, <1>3, ModScaled
    <3> QED BY <1>1, <3>1 DEF u3
  <2>2. LowAfter(two * u2) = (two * u3) * Base
    BY <2>1 DEF LowAfter, T
  <2>3. (two * u3) * Base = (two * Base) * u3
    BY <1>1, <1>4
  <2> QED BY <1>1, <2>2, <2>3
<1>8. LowAfter(T * u3) = 0
  <2> DEFINE a == T * u3
  <2>1. a \in Nat /\ a = T * u3 + 0 /\ 0 \in Nat /\ 0 < T
    BY <1>1, <1>4
  <2> HIDE DEF a
  <2>2. a % T = 0
    BY <1>1, <1>4, <2>1, DivModIs
  <2>3. LowAfter(a) = 0 * Base
    BY <2>2 DEF LowAfter, T
  <2>4. 0 * Base = 0
    BY <1>1
  <2> QED BY <2>3, <2>4 DEF a
<1> QED BY <1>5, <1>6, <1>7, <1>8

\* A shift of Low alone, as FlushData makes it.
Tip7(rc) == rc \in Encoders7 /\ Open7(rc.Low, 1, rc.Cache)

\* It writes or holds back a digit, and what stands on Low stood there before.
LEMMA FlushShift ==
    ASSUME Digital, NEW rc, Tip7(rc), NEW s, s = R7!RangeEnc_ShiftLow(rc)
    PROVE  /\ Tip7(s) /\ s.Low = LowAfter(rc.Low) /\ Sent(s) = Sent(rc) + 1
           /\ \A input \in Seq(Digits) : At7(s, input, 0) => At7(rc, input, 0)
<1>1. R7!Top \in Nat /\ Base \in Nat /\ Base > 1 /\ R7!Top > 1
  <2> DEFINE two == Base * Base
  <2>1. R7!Top \in Nat /\ two \in Nat /\ Base <= two /\ two <= R7!Top
    BY Sizes
  <2> HIDE DEF two
  <2>2. Base \in Nat /\ Base > 1
    BY DEF Digital
  <2> QED BY <2>1, <2>2
<1>2. rc \in Encoders7 /\ Open7(rc.Low, 1, rc.Cache) /\ 1 \in Nat /\ 1 < R7!Top
  BY <1>1 DEF Tip7
<1>3. /\ s \in Encoders7 /\ Open7(s.Low, 1 * Base, s.Cache) /\ Sent(s) = Sent(rc) + 1
      /\ s.Low = (rc.Low % R7!Top) * Base
  BY <1>2, ShiftKeeps
<1>4. s.Low \in Nat
  BY <1>3, Fields7
<1>5. Open7(s.Low, 1, s.Cache)
  <2>1. s.Low + 1 <= s.Low + 1 * Base /\ 1 * Base \in Nat /\ 1 \in Nat \ {0}
    BY <1>1, <1>4
  <2> QED BY <1>3, <1>4, <2>1, Narrower
<1>6. ASSUME NEW input \in Seq(Digits), At7(s, input, 0) PROVE At7(rc, input, 0)
  <2>1. 0 < 1 * Base /\ 0 \in Nat
    BY <1>1
  <2>2. PICK o \in Nat : o < 1 /\ At7(rc, input, o)
    BY <1>2, <1>6, <2>1, ShiftBack
  <2>3. o = 0
    BY <2>2
  <2> QED BY <2>2, <2>3
<1> QED BY <1>3, <1>5, <1>6 DEF Tip7, LowAfter

\* The fifth shift, of a Low of 0, writes all that was held back.
LEMMA LastShift ==
    ASSUME Digital, NEW rc \in Encoders7, rc.Low = 0, NEW s, s = R7!RangeEnc_ShiftLow(rc)
    PROVE  s \in Encoders7 /\ s.Low = 0 /\ s.Cache = 0 /\ s.CacheSize = 1
<1>1. /\ R7!Top \in Nat \ {0} /\ R7!Full \in Nat \ {0} /\ R7!LastDigit \in Nat \ {0}
      /\ Base \in Nat
  <2>1. /\ R7!Top \in Nat \ {0} /\ R7!Full \in Nat /\ 2 * R7!Top <= R7!Full
        /\ R7!LastDigit \in Nat \ {0}
    BY Sizes
  <2> QED BY <2>1 DEF Digital
<1>2. 0 \in {0, 1} /\ 0 \in Digits /\ 0 \in Nat /\ 0 < R7!Top /\ 0 < R7!LastDigit
  BY <1>1 DEF Digits, Digital
<1>3. 0 * R7!Top + 0 = 0 /\ 0 * Base = 0
  BY <1>1
<1>4. ASSUME NEW n \in Nat \ {0} PROVE 0 \div n = 0 /\ 0 % n = 0
  <2>1. 0 = n * 0 + 0 /\ 0 < n
    OBVIOUS
  <2> QED BY <2>1, DivModIs
<1>5. /\ rc.Low \div R7!Full = 0 /\ rc.Low % R7!Full = 0 /\ rc.Low % R7!Top = 0
      /\ 0 \div R7!Top = 0
  BY <1>1, <1>4
<1> DEFINE zero == 0
<1>6. /\ zero \in {0, 1} /\ zero \in Digits /\ zero \in Nat /\ zero < R7!Top
      /\ rc.Low \div R7!Full = zero /\ rc.Low % R7!Full = zero * R7!Top + zero
      /\ (rc.Low % R7!Full) \div R7!Top = zero /\ rc.Low % R7!Top = zero
      /\ zero < R7!LastDigit /\ zero * Base = 0
  BY <1>2, <1>3, <1>5
<1>7. zero = 0
  OBVIOUS
<1> HIDE DEF zero
<1>8. /\ s \in Encoders7 /\ s.Low = zero * Base
      /\ zero < R7!LastDigit \/ zero = 1 => s.Cache = zero /\ s.CacheSize = 1
  BY <1>6, ShiftIs
<1> QED BY <1>6, <1>7, <1>8

\* FlushData leaves nothing held back: what is written is all the digits, as many as the
\* decoder has read when it has decoded the last symbol, and they stand on the encoder's
\* Low, inside its interval.
THEOREM FlushTells7 ==
    ASSUME Digital, NEW rc, Kept7(rc)
    PROVE  LET bytes == R7!RangeEnc_FlushData(rc).out IN
           /\ bytes \in Seq(Digits) /\ Len(bytes) = Sent(rc) + 4
           /\ At7(rc, bytes, 0) /\ 0 < rc.Range
<1> DEFINE S(x) == R7!RangeEnc_ShiftLow(x)
           f1 == S(rc)
           f2 == S(f1)
           f3 == S(f2)
           f4 == S(f3)
           f5 == S(f4)
           bytes == f5.out
<1>1. R7!RangeEnc_FlushData(rc) = f5
  BY DEF R7!RangeEnc_FlushData
<1>2. rc \in Encoders7 /\ rc.Low \in Nat /\ rc.Range \in Nat \ {0}
      /\ Open7(rc.Low, rc.Range, rc.Cache)
  BY Fields7 DEF Kept7, Open7
<1>3. Tip7(rc)
  <2>1. rc.Low + 1 <= rc.Low + rc.Range /\ 1 \in Nat \ {0} /\ rc.Range \in Nat
    BY <1>2
  <2> QED BY <1>2, <2>1, Narrower DEF Tip7
<1> DEFINE Back(p, s) == \A input \in Seq(Digits) : At7(s, input, 0) => At7(p, input, 0)
<1>4. Tip7(f1) /\ f1.Low = LowAfter(rc.Low) /\ Sent(f1) = Sent(rc) + 1 /\ Back(rc, f1)
  BY <1>3, FlushShift
<1> HIDE DEF f1
<1>5. Tip7(f2) /\ f2.Low = LowAfter(f1.Low) /\ Sent(f2) = Sent(f1) + 1 /\ Back(f1, f2)
  BY <1>4, FlushShift
<1> HIDE DEF f2
<1>6. Tip7(f3) /\ f3.Low = LowAfter(f2.Low) /\ Sent(f3) = Sent(f2) + 1 /\ Back(f2, f3)
  BY <1>5, FlushShift
<1> HIDE DEF f3
<1>7. Tip7(f4) /\ f4.Low = LowAfter(f3.Low) /\ Sent(f4) = Sent(f3) + 1 /\ Back(f3, f4)
  BY <1>6, FlushShift
<1> HIDE DEF f4
<1>8. Tip7(f5) /\ Sent(f5) = Sent(f4) + 1 /\ Back(f4, f5)
  BY <1>7, FlushShift
<1>9. f4.Low = 0
  <2>1. f4.Low = LowAfter(LowAfter(LowAfter(LowAfter(rc.Low))))
    BY <1>4, <1>5, <1>6, <1>7
  <2> QED BY <1>2, <2>1, LowVanishes
<1>10. f5 \in Encoders7 /\ f5.Low = 0 /\ f5.Cache = 0 /\ f5.CacheSize = 1
  <2>1. f4 \in Encoders7
    BY <1>7 DEF Tip7
  <2> QED BY <1>9, <2>1, LastShift
<1> HIDE DEF f5
<1>11. bytes \in Seq(Digits) /\ Len(bytes) \in Nat
  <2>1. bytes \in Seq(Digits)
    BY <1>10, Fields7
  <2> QED BY <2>1
<1>12. Sent(f5) = Len(bytes) + 1
  BY <1>10 DEF Sent
<1>13. Len(bytes) = Sent(rc) + 4
  <2>1. Sent(rc) \in Nat
    <3>1. rc.out \in Seq(Digits) /\ rc.CacheSize \in Nat
      BY <1>2, Fields7
    <3>2. Len(rc.out) \in Nat
      BY <3>1
    <3> QED BY <3>1, <3>2 DEF Sent
  <2> HIDE DEF bytes
  <2> QED BY <1>4, <1>5, <1>6, <1>7, <1>8, <1>11, <1>12, <2>1
<1>14. ASSUME NEW i \in Nat, i > Len(bytes) PROVE R7!Digit(bytes, i) = 0
  <2>1. ~(i <= Len(bytes))
    BY <1>11, <1>14
  <2> QED BY <2>1 DEF R7!Digit
<1>15. At7(f5, bytes, 0)
  <2>1. Prefix(f5, bytes)
    BY DEF Prefix, R7!Digit
  <2>2. Pending7(f5, bytes, 0)
    <3>1. R7!Digit(bytes, Len(bytes) + 1) = 0
      BY <1>11, <1>14
    <3>2. Held(f5, 0, 1) = 0 + 0
      <4>1. 0 \in Digits /\ 0 \in {0, 1}
        BY DEF Digits, Digital
      <4> QED BY <1>10, <4>1, HeldFirst
    <3>3. 1..f5.CacheSize = {1}
      BY <1>10
    <3> QED BY <3>1, <3>2, <3>3 DEF Pending7
  <2>3. Window(bytes, Len(bytes) + 1) = 0
    <3> DEFINE n == Len(bytes) + 1
    <3>1. n \in Nat /\ n > Len(bytes)
      BY <1>11
    <3> HIDE DEF n
    <3>2. /\ R7!Digit(bytes, n + 1) = 0 /\ R7!Digit(bytes, n + 2) = 0
          /\ R7!Digit(bytes, n + 3) = 0 /\ R7!Digit(bytes, n + 4) = 0
      BY <1>11, <1>14, <3>1
    <3>3. Window(bytes, n) = ((0 * Base + 0) * Base + 0) * Base + 0
      BY <3>2 DEF Window
    <3>4. ((0 * Base + 0) * Base + 0) * Base + 0 = 0
      BY DEF Digital
    <3> QED BY <3>3, <3>4 DEF n
  <2>4. 0 * R7!Full + Window(bytes, Sent(f5)) = f5.Low + 0
    <3>1. R7!Full \in Nat
      BY Sizes
    <3> QED BY <1>10, <1>12, <2>3, <3>1
  <2> QED BY <2>1, <2>2, <2>4 DEF At7
<1>16. At7(rc, bytes, 0)
  <2> HIDE DEF bytes
  <2> QED BY <1>4, <1>5, <1>6, <1>7, <1>8, <1>11, <1>15
<1>17. 0 < rc.Range
  BY <1>2
<1> QED BY <1>1, <1>11, <1>13, <1>16, <1>17

-------------------------------------------------------------------------------
(***************************************************************************)
(* The encoder of PPMd8: numbers.                                          *)
(***************************************************************************)

\* kBot divides 2^24, and a Range below it has a digit to spare.  It is 2^15.
Bottom ==
    /\ kBot \in Nat \ {0} /\ R8!Top % kBot = 0
    /\ kBot * Base <= R8!Top

\* An interval low .. low + h that ends at 2^32 at the latest: there is no carry, and one
\* that ends there lies in the last 2^24.
Open8(low, h) ==
    /\ low \in Nat /\ h \in Nat \ {0} /\ low + h <= R8!Full
    /\ low + h = R8!Full => R8!Full <= low + R8!Top

\* Low and Low + Range have the same top digit, as SameTop compares them.
Same8(low, h) == low \div R8!Top = ((low + h) % R8!Full) \div R8!Top

\* The condition of the loop.
Goes8(low, h) == Same8(low, h) \/ h < kBot

\* The Range that a turn of the loop leaves.
Rest8(low, h) == IF Same8(low, h) THEN h ELSE (0 - low) % kBot

\* There is one remainder of a negative number, too.
LEMMA ModIs ==
    ASSUME NEW a \in Int, NEW n \in Nat \ {0}, NEW q \in Int, NEW r \in Nat,
           r < n, a = n * q + r
    PROVE  a % n = r
<1> DEFINE p == a \div n
           s == a % n
<1>1. n \in Int /\ n > 0
  OBVIOUS
<1>2. p \in Int /\ s \in Nat /\ s < n
  BY <1>1
<1>3. a = n * p + s
  BY <1>1, Z3
<1> HIDE DEF p, s
<1>4. n * (p - q) = r - s
  BY <1>2, <1>3
<1> DEFINE e == p - q
<1>5. e \in Int /\ n * e = r - s
  BY <1>2, <1>4
<1> HIDE DEF e
<1>6. ASSUME e >= 1 PROVE FALSE
  <2>1. n * 1 <= n * e
    <3>1. e \in Nat /\ 1 \in Nat /\ n \in Nat
      BY <1>5, <1>6
    <3> QED BY <1>6, <3>1, Times
  <2> QED BY <1>2, <1>5, <2>1
<1>7. ASSUME e <= -1 PROVE FALSE
  <2> DEFINE f == 0 - e
  <2>1. f \in Nat /\ 1 <= f
    BY <1>5, <1>7
  <2>2. n * f = s - r
    BY <1>2, <1>5
  <2> HIDE DEF f
  <2>3. n * 1 <= n * f
    BY <2>1, Times
  <2> QED BY <1>2, <2>2, <2>3
<1>8. e = 0
  BY <1>5, <1>6, <1>7
<1>9. n * 0 = 0
  OBVIOUS
<1>10. s = r
  BY <1>2, <1>5, <1>8, <1>9
<1> QED BY <1>10 DEF s

\* kBot is at most 2^16, and 2^24 a multiple of it.
LEMMA BottomIs ==
    ASSUME Digital, Bottom
    PROVE  /\ kBot \in Nat \ {0} /\ kBot <= Base * Base /\ kBot * Base <= R7!Top
           /\ \E k \in Nat : R7!Top = kBot * k
<1> DEFINE two == Base * Base
<1>1. Base \in Nat /\ Base > 1 /\ R7!Top = Base * two /\ two \in Nat /\ R7!Top \in Nat
  BY Sizes DEF Digital
<1>2. kBot \in Nat \ {0} /\ R7!Top % kBot = 0 /\ kBot * Base <= R7!Top
  BY Sizes8 DEF Bottom
<1> HIDE DEF two
<1>3. ASSUME two < kBot PROVE FALSE
  <2>1. Base * (two + 1) <= Base * kBot
    BY <1>1, <1>2, <1>3, Times
  <2>2. Base * (two + 1) = Base * two + Base /\ Base * kBot = kBot * Base
        /\ Base * two \in Nat /\ kBot * Base \in Nat
    BY <1>1, <1>2
  <2> QED BY <1>1, <1>2, <2>1, <2>2
<1>4. kBot <= two
  BY <1>1, <1>2, <1>3
<1>5. R7!Top = kBot * (R7!Top \div kBot) /\ R7!Top \div kBot \in Nat
  <2> DEFINE k == R7!Top \div kBot
  <2>1. k \in Nat /\ R7!Top = kBot * k + (R7!Top % kBot)
    BY <1>1, <1>2, DivMod
  <2> HIDE DEF k
  <2>2. kBot * k \in Nat
    BY <1>2, <2>1
  <2>3. R7!Top = kBot * k
    BY <1>2, <2>1, <2>2
  <2> QED BY <2>1, <2>3 DEF k
<1> QED BY <1>2, <1>4, <1>5 DEF two

\* The top digit of Low, and what is below it.
LEMMA LowDigit ==
    ASSUME Digital, NEW low, NEW h, Open8(low, h)
    PROVE  \E d \in Digits, t \in Nat :
               /\ t < R7!Top /\ low = d * R7!Top + t /\ d \in Nat /\ d < Base
               /\ low \div R7!Top = d /\ low % R7!Top = t
<1> DEFINE T == R7!Top
           d == low \div T
           t == low % T
<1>1. T \in Nat \ {0} /\ R7!Full = Base * T /\ Base \in Nat /\ Base * T \in Nat
      /\ R7!Full \in Nat
  BY Sizes DEF Digital
<1>2. low \in Nat /\ low < R7!Full
  BY <1>1, Sizes8 DEF Open8
<1>3. d \in Nat /\ t \in Nat /\ t < T /\ low = T * d + t
  BY <1>1, <1>2, DivMod
<1> HIDE DEF T, d, t
<1>4. ASSUME Base <= d PROVE FALSE
  <2>1. T * Base <= T * d
    BY <1>1, <1>3, <1>4, Times
  <2>2. T * Base = Base * T /\ T * d \in Nat
    BY <1>1, <1>3
  <2> QED BY <1>1, <1>2, <1>3, <2>1, <2>2
<1>5. d < Base /\ d \in Digits
  BY <1>1, <1>3, <1>4 DEF Digits
<1>6. T * d = d * T
  BY <1>1, <1>3
<1> QED BY <1>3, <1>5, <1>6 DEF T, d, t

\* The top digits agree if and only if Low + Range does not reach the next multiple of 2^24.
LEMMA SameIs ==
    ASSUME Digital, NEW low, NEW h, Open8(low, h)
    PROVE  Same8(low, h) <=> (low % R7!Top) + h < R7!Top
<1> DEFINE T == R7!Top
           F == R7!Full
           m == (low + h) % F
           e == m \div T
<1>1. T \in Nat \ {0} /\ F \in Nat \ {0} /\ F = Base * T /\ Base \in Nat /\ Base > 1
      /\ F = R7!LastDigit * T + T /\ Base = R7!LastDigit + 1 /\ R7!LastDigit \in Nat
  BY Sizes DEF Digital
<1>2. /\ low \in Nat /\ h \in Nat /\ h # 0 /\ low + h <= F
      /\ low + h = F => F <= low + T
  BY Sizes8 DEF Open8
<1>3. PICK d \in Digits, t \in Nat :
         t < T /\ low = d * T + t /\ d \in Nat /\ low \div T = d /\ low % T = t
  BY LowDigit
<1>4. Same8(low, h) <=> d = e
  BY <1>3, Sizes8 DEF Same8
<1> HIDE DEF T, F, e, m
<1>5. d * T \in Nat /\ T * d = d * T
  BY <1>1, <1>3
<1>6. CASE low + h = F
  <2>1. F = F * 1 + 0 /\ 0 \in Nat /\ 1 \in Nat /\ 0 < F
    BY <1>1
  <2>2. F % F = 0
    BY <1>1, <2>1, DivModIs
  <2>3. m = 0
    BY <1>6, <2>2 DEF m
  <2>4. 0 = T * 0 + 0 /\ 0 < T
    BY <1>1
  <2>5. 0 \div T = 0
    BY <1>1, <2>1, <2>4, DivModIs
  <2>6. e = 0
    BY <2>3, <2>5 DEF e
  <2>7. d # 0
    <3>1. ASSUME d = 0 PROVE FALSE
      <4>1. low = t
        BY <1>1, <1>3, <3>1
      <4>2. F <= low + T /\ low < T
        BY <1>2, <1>3, <1>6, <4>1
      <4>3. 2 * T <= F
        BY Sizes DEF T, F
      <4> QED BY <1>1, <1>2, <4>2, <4>3
    <3> QED BY <3>1
  <2>8. ~(t + h < T)
    <3> DEFINE L == R7!LastDigit
    <3>1. d <= L
      BY <1>1, <1>3 DEF Digits
    <3>2. d * T <= L * T /\ L * T \in Nat
      BY <1>1, <1>3, <3>1, Times
    <3> HIDE DEF L
    <3>3. F = L * T + T
      BY <1>1 DEF L
    <3> DEFINE a == d * T
               b == L * T
    <3> HIDE DEF a, b
    <3>4. a \in Nat /\ b \in Nat /\ a <= b /\ F = b + T /\ low = a + t
      BY <1>3, <1>5, <3>2, <3>3 DEF a, b
    <3> QED BY <1>1, <1>2, <1>3, <1>6, <3>4
  <2> QED BY <1>3, <1>4, <2>6, <2>7, <2>8 DEF T
<1>7. CASE low + h # F
  <2>1. low + h \in Nat /\ low + h < F
    BY <1>1, <1>2, <1>7
  <2>2. low + h = F * 0 + (low + h) /\ 0 \in Nat
    BY <1>1, <2>1
  <2>3. m = low + h
    BY <1>1, <2>1, <2>2, DivModIs DEF m
  <2>4. e \in Nat /\ (low + h) % T \in Nat /\ (low + h) % T < T
        /\ low + h = T * e + ((low + h) % T)
    BY <1>1, <2>1, <2>3, DivMod DEF e
  <2>5. ASSUME t + h < T PROVE d = e
    <3>1. low + h = T * d + (t + h) /\ t + h \in Nat
      BY <1>2, <1>3, <1>5
    <3>2. (low + h) \div T = d
      BY <1>1, <1>3, <2>1, <2>5, <3>1, DivModIs
    <3> QED BY <2>3, <3>2 DEF e
  <2>6. ASSUME d = e PROVE t + h < T
    <3> DEFINE s == (low + h) % T
               a == T * d
    <3> HIDE DEF s, a
    <3>1. s \in Nat /\ s < T /\ low + h = a + s /\ low = a + t /\ a \in Nat
      BY <1>3, <1>5, <2>4, <2>6 DEF s, a
    <3> QED BY <1>1, <1>2, <1>3, <3>1
  <2> QED BY <1>3, <1>4, <2>5, <2>6 DEF T
<1> QED BY <1>6, <1>7

\* What a turn leaves of the interval reaches the next multiple of 2^24 at most, and that
\* one if the top digits differ.  It is not empty.
LEMMA RestIs ==
    ASSUME Digital, Bottom, NEW low, NEW h, Open8(low, h), Goes8(low, h)
    PROVE  /\ Rest8(low, h) \in Nat \ {0} /\ Rest8(low, h) <= h
           /\ (low % R7!Top) + Rest8(low, h) <= R7!Top
           /\ Same8(low, h) => Rest8(low, h) = h /\ (low % R7!Top) + h < R7!Top
           /\ ~Same8(low, h) =>
                  (low % R7!Top) + Rest8(low, h) = R7!Top /\ Rest8(low, h) < kBot
<1> DEFINE T == R7!Top
           c == Rest8(low, h)
<1>1. /\ low \in Nat /\ h \in Nat /\ h # 0
  BY DEF Open8
<1>2. PICK d \in Digits, t \in Nat :
         t < T /\ low = d * T + t /\ d \in Nat /\ low \div T = d /\ low % T = t
  BY LowDigit
<1>3. T \in Nat \ {0}
  BY Sizes
<1>4. Same8(low, h) <=> t + h < T
  BY <1>2, SameIs
<1>5. CASE Same8(low, h)
  <2>1. c = h
    BY <1>5 DEF Rest8
  <2> HIDE DEF T, c
  <2> QED BY <1>1, <1>2, <1>3, <1>4, <1>5, <2>1 DEF T, c
<1>6. CASE ~Same8(low, h)
  <2> DEFINE r == T - t
  <2>1. h < kBot
    BY <1>6 DEF Goes8
  <2>2. PICK k \in Nat : T = kBot * k
    BY BottomIs
  <2>3. kBot \in Nat \ {0}
    BY BottomIs
  <2> HIDE DEF T
  <2>4. r \in Nat /\ r # 0 /\ r <= h /\ r < kBot
    BY <1>1, <1>2, <1>3, <1>4, <1>6, <2>1, <2>3
  <2> DEFINE q == 0 - (k * (d + 1))
  <2>5. k * (d + 1) \in Nat /\ q \in Int
    BY <1>2
  <2>6. 0 - low = kBot * q + r
    <3>1. kBot * q = 0 - (kBot * (k * (d + 1)))
      <4> DEFINE x == k * (d + 1)
      <4>1. x \in Nat /\ q = 0 - x
        BY <2>5
      <4> HIDE DEF x, q
      <4>2. kBot * (0 - x) = 0 - (kBot * x)
        BY <2>3, <4>1
      <4> QED BY <4>1, <4>2 DEF x
    <3>2. kBot * (k * (d + 1)) = T * (d + 1)
      <4>1. kBot * (k * (d + 1)) = (kBot * k) * (d + 1)
        BY <1>2, <2>3
      <4> QED BY <2>2, <4>1
    <3>3. T * (d + 1) = d * T + T /\ d * T \in Nat
      BY <1>2, <1>3
    <3> DEFINE a == d * T
    <3> HIDE DEF a, q
    <3>4. kBot * q = 0 - (a + T) /\ low = a + t /\ a \in Nat
      BY <1>2, <3>1, <3>2, <3>3 DEF a
    <3> QED BY <1>2, <1>3, <3>4
  <2>7. c = (0 - low) % kBot
    BY <1>6 DEF Rest8
  <2>8. c = r
    <3> HIDE DEF c, r, q
    <3>1. 0 - low \in Int /\ r \in Nat
      BY <1>1, <2>4
    <3>2. (0 - low) % kBot = r
      BY <2>3, <2>4, <2>5, <2>6, <3>1, ModIs
    <3> QED BY <2>7, <3>2
  <2> HIDE DEF c
  <2>9. t + c = T
    BY <1>2, <1>3, <2>8
  <2>10. c \in Nat \ {0} /\ c <= h /\ c < kBot
    BY <2>4, <2>8
  <2> QED BY <1>2, <1>3, <1>6, <2>9, <2>10 DEF T, c
<1> QED BY <1>5, <1>6

\* One digit goes out, and the next interval is the part that was left, a digit wider.
LEMMA TurnNumbers ==
    ASSUME Digital, Bottom, NEW low, NEW h, Open8(low, h), Goes8(low, h)
    PROVE  LET x == (low % R7!Top) * Base
               y == Rest8(low, h) * Base IN
           /\ (low * Base) % R8!Full = x /\ (Rest8(low, h) * Base) % R8!Full = y
           /\ x \in Nat /\ y \in Nat \ {0} /\ Open8(x, y)
           /\ ~Same8(low, h) => x + y = R8!Full
<1> DEFINE T == R7!Top
           F == R7!Full
           c == Rest8(low, h)
           t == low % T
           x == t * Base
           y == c * Base
<1>1. T \in Nat \ {0} /\ F \in Nat \ {0} /\ F = Base * T /\ Base \in Nat \ {0} /\ Base > 1
  BY Sizes DEF Digital
<1>2. low \in Nat
  BY DEF Open8
<1>3. /\ c \in Nat \ {0} /\ t + c <= T
      /\ Same8(low, h) => t + c < T
      /\ ~Same8(low, h) => t + c = T /\ c < kBot
  BY RestIs
<1>4. t \in Nat /\ t < T
  BY <1>1, <1>2, DivMod
<1>5. kBot \in Nat \ {0} /\ kBot * Base <= T
  BY BottomIs
<1>6. (low * Base) % F = x
  <2>1. (Base * low) % (Base * T) = Base * (low % T)
    BY <1>1, <1>2, ModScaled
  <2>2. Base * low = low * Base /\ Base * t = t * Base
    BY <1>1, <1>2, <1>4
  <2> QED BY <1>1, <2>1, <2>2
<1> HIDE DEF T, F, c, t
<1>7. x \in Nat /\ y \in Nat /\ y # 0 /\ x + y = (t + c) * Base
  BY <1>1, <1>3, <1>4
<1>8. c < T /\ (~Same8(low, h) => y <= T)
  <2>1. CASE Same8(low, h)
    BY <1>1, <1>3, <1>4, <2>1
  <2>2. CASE ~Same8(low, h)
    <3>1. c <= kBot
      BY <1>3, <1>5, <2>2
    <3>2. y <= kBot * Base /\ kBot * Base \in Nat
      BY <1>1, <1>3, <1>5, <3>1, Times
    <3> HIDE DEF y
    <3>3. y <= T
      BY <1>1, <1>5, <1>7, <3>2
    <3>4. c < y
      <4>1. c * 2 <= c * Base
        BY <1>1, <1>3, Times
      <4> QED BY <1>3, <1>7, <4>1 DEF y
    <3> QED BY <1>1, <1>3, <1>7, <3>3, <3>4
  <2> QED BY <2>1, <2>2
<1>9. ASSUME NEW n \in Nat, n < T PROVE n * Base < F /\ n * Base \in Nat
  <2>1. (n + 1) * Base <= T * Base
    BY <1>1, <1>9, Times
  <2>2. (n + 1) * Base = n * Base + Base /\ n * Base \in Nat /\ T * Base = F
    BY <1>1
  <2> QED BY <1>1, <2>1, <2>2
<1>10. y % F = y
  <2>1. y < F
    BY <1>3, <1>8, <1>9
  <2> HIDE DEF y
  <2>2. y = F * 0 + y /\ 0 \in Nat
    BY <1>1, <1>7
  <2> QED BY <1>1, <1>7, <2>1, <2>2, DivModIs
<1> DEFINE w == t + c
<1>11. w \in Nat
  BY <1>3, <1>4
<1>12. ~Same8(low, h) => x + y = F
  <2>1. T * Base = F
    BY <1>1
  <2>2. ~Same8(low, h) => w = T
    BY <1>3
  <2>3. x + y = w * Base
    BY <1>7
  <2> HIDE DEF x, y, w
  <2> QED BY <2>1, <2>2, <2>3
<1>13. Same8(low, h) => x + y < F
  <2>1. Same8(low, h) => w < T
    BY <1>3
  <2>2. x + y = w * Base
    BY <1>7
  <2> HIDE DEF x, y, w
  <2> QED BY <1>9, <1>11, <2>1, <2>2
<1>14. Open8(x, y)
  <2> HIDE DEF x, y
  <2>1. x + y <= F /\ (x + y = F => F <= x + T)
    <3>1. CASE Same8(low, h)
      BY <1>1, <1>7, <1>13, <3>1
    <3>2. CASE ~Same8(low, h)
      BY <1>1, <1>7, <1>8, <1>12, <3>2
    <3> QED BY <3>1, <3>2
  <2>2. R8!Full = F /\ R8!Top = T
    BY Sizes8 DEF T, F
  <2> QED BY <1>7, <2>1, <2>2 DEF Open8
<1>15. R8!Full = F
  BY Sizes8 DEF F
<1> QED BY <1>6, <1>7, <1>10, <1>12, <1>14, <1>15 DEF T, F, c, t, x, y

\* How far the loop has come: Range is w digits' worth of a digit, or the interval ends at
\* 2^32 and is w wide.
Stage(w, low, h) == h >= w * Base \/ (low + h = R8!Full /\ h >= w)

\* A turn takes the interval a stage further.
LEMMA StageUp ==
    ASSUME Digital, Bottom, NEW low, NEW h, Open8(low, h), Goes8(low, h),
           NEW w \in {1, Base}, Stage(w, low, h)
    PROVE  Stage(w * Base, (low % R7!Top) * Base, Rest8(low, h) * Base)
<1> DEFINE c == Rest8(low, h)
           x == (low % R7!Top) * Base
           y == c * Base
<1>1. Base \in Nat /\ Base > 1 /\ w \in Nat /\ w # 0 /\ w * Base \in Nat
  BY DEF Digital
<1>2. /\ c \in Nat \ {0}
      /\ Same8(low, h) => c = h
      /\ ~Same8(low, h) => (low % R7!Top) + c = R7!Top /\ c < kBot
  BY RestIs
<1>3. /\ low \in Nat /\ h \in Nat /\ R7!Top \in Nat
  BY Sizes DEF Open8
<1>4. ~Same8(low, h) => x + y = R8!Full
  BY TurnNumbers
<1> HIDE DEF c, x
<1>5. CASE h >= w * Base /\ Same8(low, h)
  <2> DEFINE v == w * Base
  <2>1. v * Base <= c * Base
    BY <1>1, <1>2, <1>3, <1>5, Times
  <2> QED BY <2>1 DEF Stage, c
<1>6. CASE h >= w * Base /\ ~Same8(low, h)
  <2>1. h < kBot /\ kBot \in Nat /\ kBot <= Base * Base
    BY <1>6, BottomIs DEF Goes8
  <2>2. w = 1
    <3>1. ASSUME w = Base PROVE FALSE
      <4> DEFINE two == Base * Base
      <4>1. h >= two /\ two \in Nat
        BY <1>1, <1>6, <3>1
      <4> HIDE DEF two
      <4>2. kBot <= two
        BY <2>1 DEF two
      <4> QED BY <1>3, <2>1, <4>1, <4>2
    <3> QED BY <3>1
  <2>3. 1 * Base <= c * Base /\ w * Base = Base
    BY <1>1, <1>2, <2>2, Times
  <2>4. y >= w * Base
    BY <1>1, <2>2, <2>3
  <2> HIDE DEF y
  <2>5. x + y = R8!Full
    BY <1>4, <1>6
  <2>6. Stage(w * Base, x, y)
    BY <2>4, <2>5 DEF Stage
  <2> QED BY <2>6 DEF x, y, c
<1>7. CASE ~(h >= w * Base) /\ low + h = R8!Full /\ h >= w
  <2>1. PICK d \in Digits, t \in Nat :
           t < R7!Top /\ low = d * R7!Top + t /\ d \in Nat /\ d < Base /\ low % R7!Top = t
    BY LowDigit
  <2>2. ~Same8(low, h) /\ t + h >= R7!Top
    <3>1. ~Same8(low, h)
      <4> DEFINE T == R7!Top
                 F == R7!Full
                 L == R7!LastDigit
                 a == d * T
                 b == L * T
      <4>1. F = L * T + T /\ Base = L + 1 /\ L \in Nat /\ T \in Nat
        BY Sizes
      <4>2. d <= L
        BY <1>1, <2>1, <4>1
      <4>3. d * T <= L * T /\ L * T \in Nat /\ d * T \in Nat
        BY <2>1, <4>1, <4>2, Times
      <4>4. low + h = F
        BY <1>7, Sizes8
      <4> HIDE DEF T, F, L, a, b
      <4>5. F = b + T /\ a <= b /\ a \in Nat /\ b \in Nat /\ low = a + t
        BY <2>1, <4>1, <4>3 DEF a, b, T
      <4>6. ~(t + h < T)
        BY <1>3, <2>1, <4>1, <4>4, <4>5
      <4>7. Same8(low, h) <=> t + h < T
        BY <2>1, SameIs DEF T
      <4> QED BY <4>6, <4>7
    <3>2. ~(t + h < R7!Top)
      BY <2>1, <3>1, SameIs
    <3> QED BY <1>3, <2>1, <3>1, <3>2
  <2>3. c = h
    <3> DEFINE T == R7!Top
               F == R7!Full
    <3>1. t + c = T /\ c <= h
      BY <1>2, <2>1, <2>2, RestIs DEF c
    <3>2. F <= low + T /\ low + h = F
      BY <1>7, Sizes8 DEF Open8
    <3>3. d = R7!LastDigit /\ low = (F - T) + t
      <4> DEFINE L == R7!LastDigit
      <4>1. F = L * T + T /\ Base = L + 1 /\ L \in Nat /\ T \in Nat
        BY Sizes
      <4>2. d <= L
        BY <1>1, <2>1, <4>1
      <4>3. ASSUME d < L PROVE FALSE
        <5>1. (d + 1) * T <= L * T
          BY <2>1, <4>1, <4>3, Times
        <5>2. (d + 1) * T = d * T + T /\ d * T \in Nat /\ L * T \in Nat
          BY <2>1, <4>1
        <5> DEFINE a == d * T
                   b == L * T
        <5>3. low = a + t /\ F = b + T
          BY <2>1, <4>1
        <5> HIDE DEF a, b, T, F
        <5>4. a + T <= b /\ a \in Nat /\ b \in Nat
          BY <5>1, <5>2 DEF a, b
        <5> QED BY <2>1, <3>2, <4>1, <5>3, <5>4 DEF T
      <4>4. d = L
        BY <2>1, <4>1, <4>2, <4>3
      <4>5. low = L * T + t /\ L * T \in Nat
        BY <2>1, <4>1, <4>4
      <4> DEFINE b == L * T
      <4> HIDE DEF b, F, T
      <4>6. low = b + t /\ b \in Nat /\ F = b + T
        BY <4>1, <4>5 DEF b
      <4>7. low = (F - T) + t
        BY <2>1, <4>1, <4>6
      <4> QED BY <4>4, <4>7
    <3>4. F \in Nat /\ T \in Nat
      BY Sizes
    <3> HIDE DEF F, T
    <3> QED BY <1>2, <1>3, <2>1, <3>1, <3>2, <3>3, <3>4
  <2>4. w * Base <= c * Base
    BY <1>1, <1>2, <1>3, <1>7, <2>3, Times
  <2> HIDE DEF y
  <2>5. y >= w * Base
    BY <2>4 DEF y
  <2>6. x + y = R8!Full
    BY <1>4, <2>2
  <2>7. Stage(w * Base, x, y)
    BY <2>5, <2>6 DEF Stage
  <2> QED BY <2>7 DEF x, y, c
<1> QED BY <1>5, <1>6, <1>7 DEF Stage

\* Any turn brings it to the first stage.
LEMMA StageOne ==
    ASSUME Digital, Bottom, NEW low, NEW h, Open8(low, h), Goes8(low, h)
    PROVE  Stage(1, (low % R7!Top) * Base, Rest8(low, h) * Base)
<1> DEFINE c == Rest8(low, h)
<1>1. c \in Nat \ {0}
  BY RestIs
<1> HIDE DEF c
<1>2. 1 * Base <= c * Base /\ Base \in Nat
  BY <1>1, Times DEF Digital
<1> QED BY <1>2 DEF Stage, c

\* At the third stage the loop is over.
LEMMA StageLast ==
    ASSUME Digital, Bottom, NEW low, NEW h, Open8(low, h), Stage(Base * Base, low, h)
    PROVE  ~Goes8(low, h) /\ h >= kBot
<1> DEFINE two == Base * Base
           T == R7!Top
<1>1. kBot \in Nat /\ kBot <= two /\ two \in Nat /\ Base \in Nat /\ T = two * Base
      /\ two <= T /\ T \in Nat
  <2>1. Base \in Nat /\ Base * Base \in Nat /\ T = Base * (Base * Base) /\ Base * Base <= T
        /\ T \in Nat
    BY Sizes DEF Digital
  <2>2. T = (Base * Base) * Base
    BY <2>1
  <2> QED BY <2>1, <2>2, BottomIs
<1>2. low \in Nat /\ h \in Nat
  BY DEF Open8
<1>3. low % T \in Nat
  <2>1. T \in Nat \ {0}
    BY Sizes
  <2> QED BY <1>2, <2>1, DivMod
<1>4. Same8(low, h) <=> (low % T) + h < T
  BY SameIs
<1> DEFINE t == low % T
<1> HIDE DEF two, T, t
<1>5. CASE h >= two * Base
  BY <1>1, <1>2, <1>3, <1>4, <1>5 DEF Goes8, t
<1>6. CASE low + h = R8!Full /\ h >= two
  <2>1. ~Same8(low, h)
    <3>1. ASSUME Same8(low, h) PROVE FALSE
      <4>1. PICK d \in Digits, u \in Nat :
               low = d * R7!Top + u /\ d \in Nat /\ d < Base /\ low % R7!Top = u
        BY LowDigit
      <4>2. u + h < R7!Top
        BY <3>1, <4>1, SameIs
      <4>3. u + h \in Nat
        BY <1>2, <4>1
      <4>4. d * R7!Top + (u + h) < R7!Full
        BY <4>2, <4>3, TopAndRest
      <4> DEFINE a == d * R7!Top
      <4>5. a \in Nat
        <5>1. R7!Top \in Nat
          BY Sizes
        <5> QED BY <4>1, <5>1
      <4> HIDE DEF a
      <4>6. low + h = a + (u + h)
        BY <1>2, <4>1, <4>5 DEF a
      <4>7. low + h < R7!Full
        BY <4>4, <4>6 DEF a
      <4>8. R7!Full \in Nat /\ R8!Full = R7!Full
        BY Sizes, Sizes8
      <4> QED BY <1>2, <1>6, <4>7, <4>8
    <3> QED BY <3>1
  <2> QED BY <1>1, <1>2, <1>6, <2>1 DEF Goes8
<1> QED BY <1>5, <1>6 DEF Stage, two

-------------------------------------------------------------------------------
(***************************************************************************)
(* The encoder of PPMd8.                                                   *)
(***************************************************************************)

\* The states of the encoder.
Encoders8 == [Low : Nat, Range : Nat, out : Outs]

\* The encoder within the loop, and between two symbols: the loop has nothing to do.
Half8(rc) == rc \in Encoders8 /\ Open8(rc.Low, rc.Range)
Kept8(rc) == Half8(rc) /\ ~Goes8(rc.Low, rc.Range)

\* The fields of an encoder.
LEMMA Fields8 ==
    ASSUME NEW rc \in Encoders8
    PROVE  rc.Low \in Nat /\ rc.Range \in Nat /\ rc.out \in Seq(Digits)
<1>1. rc.Low \in Nat /\ rc.Range \in Nat /\ rc.out \in Outs
  BY DEF Encoders8
<1> QED BY <1>1 DEF Outs

\* The interval of an encoder, changed in one order or the other.
Over8(rc, y, x) == [rc EXCEPT !.Range = y, !.Low = x]

\* The fields of an encoder with another interval.
LEMMA Over8Is ==
    ASSUME NEW rc \in Encoders8, NEW x \in Nat, NEW y \in Nat
    PROVE  /\ LET s == Over(rc, x, y) IN
              s \in Encoders8 /\ s.Low = x /\ s.Range = y /\ s.out = rc.out
           /\ LET s == Over8(rc, y, x) IN
              s \in Encoders8 /\ s.Low = x /\ s.Range = y /\ s.out = rc.out
<1>1. LET s == Over(rc, x, y) IN
      s \in Encoders8 /\ s.Low = x /\ s.Range = y /\ s.out = rc.out
  <2> DEFINE s == Over(rc, x, y)
             r1 == [rc EXCEPT !.Low = x]
             r2 == [r1 EXCEPT !.Range = y]
  <2>1. r1 \in Encoders8
    BY DEF Encoders8
  <2>2. s = r2
    BY DEF Over
  <2> HIDE DEF r1
  <2>3. r2 \in Encoders8
    BY <2>1 DEF Encoders8
  <2>4. s.Low = x /\ s.Range = y /\ s.out = rc.out
    BY DEF Encoders8, Over
  <2> QED BY <2>2, <2>3, <2>4
<1>2. LET s == Over8(rc, y, x) IN
      s \in Encoders8 /\ s.Low = x /\ s.Range = y /\ s.out = rc.out
  <2> DEFINE s == Over8(rc, y, x)
             r1 == [rc EXCEPT !.Range = y]
             r2 == [r1 EXCEPT !.Low = x]
  <2>1. r1 \in Encoders8
    BY DEF Encoders8
  <2>2. s = r2
    BY DEF Over8
  <2> HIDE DEF r1
  <2>3. r2 \in Encoders8
    BY <2>1 DEF Encoders8
  <2>4. s.Low = x /\ s.Range = y /\ s.out = rc.out
    BY DEF Encoders8, Over8
  <2> QED BY <2>2, <2>3, <2>4
<1> QED BY <1>1, <1>2

\* One more digit.
LEMMA AppendOut ==
    ASSUME NEW s \in Seq(Digits), NEW d \in Digits
    PROVE  /\ Append(s, d) \in Seq(Digits) /\ Len(Append(s, d)) = Len(s) + 1
           /\ Append(s, d)[Len(s) + 1] = d /\ Len(s) \in Nat
           /\ \A i \in 1..Len(s) : Append(s, d)[i] = s[i]
  OBVIOUS

\* A turn of the loop: the top digit is written, and the interval is the part that was
\* left, a digit wider.
LEMMA EncTurnIs ==
    ASSUME Digital, Bottom, NEW rc, Half8(rc)
    PROVE  LET s == R8!EncTurn(rc) IN
           /\ Half8(s)
           /\ rc.Low \div R7!Top \in Digits
           /\ Goes8(rc.Low, rc.Range) =>
                  /\ s.Low = (rc.Low % R7!Top) * Base
                  /\ s.Range = Rest8(rc.Low, rc.Range) * Base
                  /\ s.out = Append(rc.out, rc.Low \div R7!Top)
           /\ ~Goes8(rc.Low, rc.Range) => s = rc
<1> DEFINE low == rc.Low
           h == rc.Range
           s == R8!EncTurn(rc)
           d == low \div R7!Top
           rest == Rest8(low, h)
           x == (low % R7!Top) * Base
           y == rest * Base
<1>1. rc \in Encoders8 /\ low \in Nat /\ h \in Nat /\ rc.out \in Seq(Digits) /\ Open8(low, h)
  BY Fields8 DEF Half8
<1>2. d \in Digits
  BY <1>1, LowDigit
<1>3. /\ R8!SameTop(rc) <=> Same8(low, h)
      /\ R8!Narrow(rc) <=> h < kBot
  BY DEF R8!SameTop, R8!Narrow, Same8
<1>4. R8!Top = R7!Top
  BY Sizes8
<1>5. CASE ~Goes8(low, h)
  <2>1. s = rc
    BY <1>3, <1>5 DEF R8!EncTurn, Goes8
  <2> QED BY <1>2, <1>5, <2>1
<1>6. CASE Goes8(low, h)
  <2> DEFINE c == R8!Cut(rc)
             a == R8!ShiftOut(c)
             e == Append(rc.out, d)
  <2>1. s = [a EXCEPT !.out = Append(a.out, d)]
    <3>1. s = [R8!ShiftOut(R8!Cut(rc)) EXCEPT
                  !.out = Append(R8!ShiftOut(R8!Cut(rc)).out, low \div R8!Top)]
      BY <1>3, <1>6 DEF R8!EncTurn, Goes8
    <3> QED BY <1>4, <3>1
  <2>2. rest \in Nat /\ (low * Base) % R8!Full = x /\ (rest * Base) % R8!Full = y
        /\ x \in Nat /\ y \in Nat /\ Open8(x, y)
    BY <1>1, <1>6, RestIs, TurnNumbers
  <2> HIDE DEF s
  <2>3. c \in Encoders8 /\ c.Low = low /\ c.Range = rest /\ c.out = rc.out
    <3>1. CASE Same8(low, h)
      <4>1. c = rc
        BY <1>3, <3>1 DEF R8!Cut
      <4>2. rest = h
        BY <3>1 DEF Rest8
      <4> QED BY <1>1, <4>1, <4>2
    <3>2. CASE ~Same8(low, h)
      <4>1. c = [rc EXCEPT !.Range = (0 - low) % kBot]
        BY <1>3, <3>2 DEF R8!Cut
      <4>2. rest = (0 - low) % kBot
        BY <3>2 DEF Rest8
      <4> DEFINE z == (0 - low) % kBot
      <4>3. z \in Nat /\ z = rest
        BY <2>2, <4>2
      <4> HIDE DEF z, c, rest
      <4>4. c = [rc EXCEPT !.Range = z]
        BY <4>1 DEF z
      <4> QED BY <1>1, <4>3, <4>4 DEF Encoders8
    <3> QED BY <3>1, <3>2
  <2>4. a = Over8(c, (c.Range * Base) % R8!Full, (c.Low * Base) % R8!Full)
    BY DEF R8!ShiftOut, Over8
  <2> HIDE DEF a, c
  <2>5. a = Over8(c, y, x)
    BY <2>2, <2>3, <2>4
  <2> HIDE DEF x, y, rest
  <2>6. a \in Encoders8 /\ a.Low = x /\ a.Range = y /\ a.out = rc.out
    <3>1. c \in Encoders8 /\ x \in Nat /\ y \in Nat
      BY <2>2, <2>3
    <3>2. /\ Over8(c, y, x) \in Encoders8 /\ Over8(c, y, x).Low = x
          /\ Over8(c, y, x).Range = y /\ Over8(c, y, x).out = c.out
      BY <3>1, Over8Is
    <3> QED BY <2>3, <2>5, <3>2
  <2>7. e \in Outs
    <3>1. e \in Seq(Digits)
      BY <1>1, <1>2, AppendOut
    <3> QED BY <3>1 DEF Outs
  <2>8. s = [a EXCEPT !.out = e]
    BY <2>1, <2>6
  <2> HIDE DEF e
  <2>9. s \in Encoders8 /\ s.Low = x /\ s.Range = y /\ s.out = e
    BY <2>6, <2>7, <2>8 DEF Encoders8
  <2>10. Half8(s)
    BY <2>2, <2>9 DEF Half8
  <2> QED BY <1>2, <1>6, <2>9, <2>10 DEF s, x, y, e, rest
<1> QED BY <1>5, <1>6

\* The loop ends after three turns at the most.
LEMMA NormalizeIs8 ==
    ASSUME Digital, Bottom, NEW rc, Half8(rc)
    PROVE  LET a == R8!EncTurn(rc)
               b == R8!EncTurn(a)
               c == R8!EncTurn(b) IN
           /\ Half8(a) /\ Half8(b) /\ Kept8(c) /\ R8!RangeEnc_Normalize(rc) = c
<1> DEFINE T(x) == R8!EncTurn(x)
           G(x) == Goes8(x.Low, x.Range)
           St(w, x) == Stage(w, x.Low, x.Range)
           a == T(rc)
           b == T(a)
           c == T(b)
<1>1. ASSUME NEW x, Half8(x) PROVE Half8(T(x)) /\ (~G(x) => T(x) = x)
  BY <1>1, EncTurnIs
<1>2. ASSUME NEW x, Half8(x), G(x) PROVE St(1, T(x))
  <2>1. Stage(1, (x.Low % R7!Top) * Base, Rest8(x.Low, x.Range) * Base)
    BY <1>2, StageOne DEF Half8
  <2>2. T(x).Low = (x.Low % R7!Top) * Base /\ T(x).Range = Rest8(x.Low, x.Range) * Base
    BY <1>2, EncTurnIs
  <2> HIDE DEF T
  <2> QED BY <2>1, <2>2
<1>3. ASSUME NEW x, Half8(x), G(x), NEW w \in {1, Base}, St(w, x)
      PROVE  St(w * Base, T(x))
  <2>1. Stage(w * Base, (x.Low % R7!Top) * Base, Rest8(x.Low, x.Range) * Base)
    BY <1>3, StageUp DEF Half8
  <2>2. T(x).Low = (x.Low % R7!Top) * Base /\ T(x).Range = Rest8(x.Low, x.Range) * Base
    BY <1>3, EncTurnIs
  <2> HIDE DEF T
  <2> QED BY <2>1, <2>2
<1>4. ASSUME NEW x, Half8(x), St(Base * Base, x) PROVE ~G(x)
  BY <1>4, StageLast DEF Half8
<1>5. 1 * Base = Base
  BY DEF Digital
<1>6. R8!RangeEnc_Normalize(rc) = T(T(T(T(T(rc)))))
  BY DEF R8!RangeEnc_Normalize
<1> HIDE DEF T, G, St
<1>7. Half8(a) /\ Half8(b) /\ Half8(c)
  BY <1>1
<1>8. ~G(a) \/ St(1, a)
  <2>1. CASE G(rc)
    BY <1>2, <2>1
  <2>2. CASE ~G(rc)
    BY <1>1, <2>2
  <2> QED BY <2>1, <2>2
<1>9. ~G(b) \/ St(Base, b)
  <2>1. CASE G(a)
    <3>1. St(1 * Base, b)
      BY <1>3, <1>7, <1>8, <2>1
    <3> QED BY <1>5, <3>1
  <2>2. CASE ~G(a)
    BY <1>1, <1>7, <2>2
  <2> QED BY <2>1, <2>2
<1>10. ~G(c)
  <2>1. CASE G(b)
    <3>1. St(Base * Base, c)
      BY <1>3, <1>7, <1>9, <2>1
    <3> QED BY <1>4, <1>7, <3>1
  <2>2. CASE ~G(b)
    <3>1. c = b
      BY <1>1, <1>7, <2>2
    <3> QED BY <2>2, <3>1
  <2> QED BY <2>1, <2>2
<1>11. T(c) = c
  BY <1>1, <1>7, <1>10
<1>12. R8!RangeEnc_Normalize(rc) = c
  BY <1>6, <1>11
<1>13. Kept8(c)
  BY <1>7, <1>10 DEF Kept8, G
<1> QED BY <1>7, <1>12, <1>13 DEF T

\* The part of a symbol, before the loop, lies in the interval, and no carry comes of it.
LEMMA PartIs8 ==
    ASSUME Digital, Bottom, NEW rc, Kept8(rc), NEW start, NEW size, NEW total,
           Interval(start, size, total), total <= kBot
    PROVE  LET s == R8!Part(rc, start, size, total)
               r == rc.Range \div total IN
           /\ Half8(s) /\ s.Low = rc.Low + start * r /\ s.Range = r * size
           /\ s.out = rc.out
           /\ r \in Nat \ {0} /\ start * r \in Nat /\ size * r \in Nat \ {0}
           /\ r * size = size * r /\ start * r + size * r <= rc.Range
           /\ (rc.Low + start * r) % R8!Full = rc.Low + start * r
<1> DEFINE s == R8!Part(rc, start, size, total)
           r == rc.Range \div total
           a == start * r
           b == size * r
           x == rc.Low + a
           y == r * size
           F == R8!Full
<1>1. rc \in Encoders8 /\ Open8(rc.Low, rc.Range) /\ ~Goes8(rc.Low, rc.Range)
      /\ rc.Low \in Nat /\ rc.Range \in Nat
  BY Fields8 DEF Kept8, Half8
<1>2. total <= rc.Range
  <2>1. kBot \in Nat /\ total \in Nat
    BY BottomIs DEF Interval
  <2> QED BY <1>1, <2>1 DEF Goes8
<1>3. /\ r \in Nat \ {0} /\ a \in Nat /\ b \in Nat \ {0} /\ y = b /\ a + b <= rc.Range
  BY <1>1, <1>2, ShareIn
<1>4. F \in Nat \ {0} /\ R8!Top \in Nat
  <2>1. R7!Full \in Nat /\ R7!Top \in Nat \ {0} /\ 2 * R7!Top <= R7!Full
    BY Sizes
  <2> QED BY <2>1, Sizes8
<1>5. s = Over(rc, (rc.Low + start * r) % F, y)
  BY DEF R8!Part, Over
<1>6. rc.Low + rc.Range <= F /\ (rc.Low + rc.Range = F => F <= rc.Low + R8!Top)
  BY <1>1 DEF Open8
<1> HIDE DEF s, r, a, b, y, F
<1>7. x \in Nat /\ x < F /\ x + b <= rc.Low + rc.Range /\ rc.Low <= x
  BY <1>1, <1>3, <1>4, <1>6
<1>8. x % F = x
  <2> HIDE DEF x
  <2>1. x = F * 0 + x /\ 0 \in Nat
    BY <1>4, <1>7
  <2> QED BY <1>4, <1>7, <2>1, DivModIs
<1>9. s = Over(rc, x, b)
  BY <1>3, <1>5, <1>8 DEF a
<1>10. Open8(x, b)
  <2>1. x + b <= F /\ (x + b = F => F <= x + R8!Top)
    BY <1>1, <1>3, <1>4, <1>6, <1>7
  <2> QED BY <1>3, <1>7, <2>1 DEF Open8, F
<1> HIDE DEF x
<1>11. s \in Encoders8 /\ s.Low = x /\ s.Range = b /\ s.out = rc.out
  <2>1. rc \in Encoders8 /\ x \in Nat /\ b \in Nat
    BY <1>1, <1>3, <1>7
  <2>2. /\ Over(rc, x, b) \in Encoders8 /\ Over(rc, x, b).Low = x
        /\ Over(rc, x, b).Range = b /\ Over(rc, x, b).out = rc.out
    BY <2>1, Over8Is
  <2> QED BY <1>9, <2>2
<1>12. Half8(s)
  BY <1>10, <1>11 DEF Half8
<1> QED BY <1>3, <1>8, <1>11, <1>12 DEF s, r, a, b, x, y, F

\* RangeEnc_Encode of PPMd8 keeps the interval below 2^32, so that no digit that was
\* written has to change, and leaves it at least kBot wide with two top digits; its loop
\* ends after three turns.
THEOREM IntervalStays8 ==
    ASSUME Digital, Bottom, NEW rc, Kept8(rc), NEW start, NEW size, NEW total,
           Interval(start, size, total), total <= kBot
    PROVE  /\ Kept8(R8!RangeEnc_Encode(rc, start, size, total))
           /\ R8!RangeEnc_Encode(rc, start, size, total) =
                  R8!EncTurn(R8!EncTurn(R8!EncTurn(R8!Part(rc, start, size, total))))
<1> DEFINE s == R8!Part(rc, start, size, total)
<1>1. Half8(s) /\ R8!RangeEnc_Encode(rc, start, size, total) = R8!RangeEnc_Normalize(s)
  BY PartIs8 DEF R8!RangeEnc_Encode
<1> HIDE DEF s
<1>2. Kept8(R8!RangeEnc_Normalize(s))
      /\ R8!RangeEnc_Normalize(s) = R8!EncTurn(R8!EncTurn(R8!EncTurn(s)))
  BY <1>1, NormalizeIs8
<1> QED BY <1>1, <1>2 DEF s

\* A bit is coded as a symbol.
EncodeBit8(rc, size0, bit) ==
    IF bit = 0 THEN R8!RangeEnc_EncodeBit_0(rc, size0) ELSE R8!RangeEnc_EncodeBit_1(rc, size0)

\* The symbol that a bit is.
LEMMA EncodeBit8Is ==
    ASSUME NEW size0, Probability(size0), NEW bit \in {0, 1}
    PROVE  LET size == IF bit = 0 THEN size0 ELSE BitTotal - size0 IN
           /\ Interval(bit * size0, size, BitTotal)
           /\ \A rc : EncodeBit8(rc, size0, bit) =
                          R8!RangeEnc_Encode(rc, bit * size0, size, BitTotal)
<1> DEFINE size == IF bit = 0 THEN size0 ELSE BitTotal - size0
<1>1. BitTotal \in Nat /\ size0 \in Nat /\ 0 < size0 /\ size0 < BitTotal
  BY DEF Probability
<1>2. 0 * size0 = 0 /\ 1 * size0 = size0
  BY <1>1
<1>3. CASE bit = 0
  BY <1>1, <1>2, <1>3 DEF Interval, EncodeBit8, R8!RangeEnc_EncodeBit_0
<1>4. CASE bit = 1
  BY <1>1, <1>2, <1>4 DEF Interval, EncodeBit8, R8!RangeEnc_EncodeBit_1
<1> QED BY <1>3, <1>4

\* The bit encoders of PPMd8 keep the interval as RangeEnc_Encode does.
THEOREM BitsStay8 ==
    ASSUME Digital, Bottom, NEW rc, Kept8(rc), NEW size0, Probability(size0),
           BitTotal <= kBot
    PROVE  /\ Kept8(R8!RangeEnc_EncodeBit_0(rc, size0))
           /\ Kept8(R8!RangeEnc_EncodeBit_1(rc, size0))
<1>1. ASSUME NEW bit \in {0, 1} PROVE Kept8(EncodeBit8(rc, size0, bit))
  <2> DEFINE size == IF bit = 0 THEN size0 ELSE BitTotal - size0
             start == bit * size0
  <2>1. Interval(start, size, BitTotal)
        /\ EncodeBit8(rc, size0, bit) = R8!RangeEnc_Encode(rc, start, size, BitTotal)
    BY EncodeBit8Is
  <2> HIDE DEF size, start
  <2> QED BY <2>1, IntervalStays8
<1>2. Kept8(EncodeBit8(rc, size0, 0)) /\ Kept8(EncodeBit8(rc, size0, 1))
  BY <1>1
<1> QED BY <1>2 DEF EncodeBit8

-------------------------------------------------------------------------------
(***************************************************************************)
(* The decoder of PPMd8.                                                   *)
(***************************************************************************)

\* The states of the decoder.
Decoders8 == [Low : Nat, Range : Nat, Code : Int, pos : Nat]

\* The decoder has the encoder's interval, and has read the digits the encoder has written
\* and four more.
InStep8(rc, rd) ==
    /\ rd \in Decoders8 /\ rd.Low = rc.Low /\ rd.Range = rc.Range
    /\ rd.pos = Len(rc.out) + 4

\* A decoder with another place in the input.
Moved(rd, pos, code) == [rd EXCEPT !.pos = pos, !.Code = code]

\* A turn of the decoder's loop whose condition fails changes nothing,
LEMMA DecTurnStays ==
    ASSUME NEW rd, NEW input, ~R8!SameTop(rd), ~R8!Narrow(rd)
    PROVE  R8!DecTurn(rd, input) = rd
  BY DEF R8!DecTurn

\* and any other takes a digit in behind the ones shifted out.
LEMMA DecTurnTakes ==
    ASSUME NEW rd, NEW input, R8!SameTop(rd) \/ R8!Narrow(rd)
    PROVE  LET a == R8!ShiftOut(R8!Cut(rd)) IN
           R8!DecTurn(rd, input)
               = Moved(a, a.pos + 1,
                       (a.Code * Base + R8!Digit(input, rd.pos + 1)) % R8!Full)
  BY DEF R8!DecTurn, Moved

\* The fields of a changed decoder.
LEMMA DecoderFields ==
    ASSUME NEW rd \in Decoders8, NEW x \in Nat, NEW y \in Nat, NEW z \in Int, NEW n \in Nat
    PROVE  /\ LET s == Over(rd, x, y) IN
              /\ s \in Decoders8 /\ s.Low = x /\ s.Range = y
              /\ s.Code = rd.Code /\ s.pos = rd.pos
           /\ LET s == Over8(rd, y, x) IN
              /\ s \in Decoders8 /\ s.Low = x /\ s.Range = y
              /\ s.Code = rd.Code /\ s.pos = rd.pos
           /\ LET s == Moved(rd, n, z) IN
              /\ s \in Decoders8 /\ s.Low = rd.Low /\ s.Range = rd.Range
              /\ s.Code = z /\ s.pos = n
<1>1. LET s == Over(rd, x, y) IN
      /\ s \in Decoders8 /\ s.Low = x /\ s.Range = y /\ s.Code = rd.Code /\ s.pos = rd.pos
  <2> DEFINE s == Over(rd, x, y)
             r1 == [rd EXCEPT !.Low = x]
             r2 == [r1 EXCEPT !.Range = y]
  <2>1. r1 \in Decoders8
    BY DEF Decoders8
  <2>2. s = r2
    BY DEF Over
  <2> HIDE DEF r1
  <2>3. r2 \in Decoders8
    BY <2>1 DEF Decoders8
  <2>4. s.Low = x /\ s.Range = y /\ s.Code = rd.Code /\ s.pos = rd.pos
    BY DEF Decoders8, Over
  <2> QED BY <2>2, <2>3, <2>4
<1>2. LET s == Over8(rd, y, x) IN
      /\ s \in Decoders8 /\ s.Low = x /\ s.Range = y /\ s.Code = rd.Code /\ s.pos = rd.pos
  <2> DEFINE s == Over8(rd, y, x)
             r1 == [rd EXCEPT !.Range = y]
             r2 == [r1 EXCEPT !.Low = x]
  <2>1. r1 \in Decoders8
    BY DEF Decoders8
  <2>2. s = r2
    BY DEF Over8
  <2> HIDE DEF r1
  <2>3. r2 \in Decoders8
    BY <2>1 DEF Decoders8
  <2>4. s.Low = x /\ s.Range = y /\ s.Code = rd.Code /\ s.pos = rd.pos
    BY DEF Decoders8, Over8
  <2> QED BY <2>2, <2>3, <2>4
<1>3. LET s == Moved(rd, n, z) IN
      /\ s \in Decoders8 /\ s.Low = rd.Low /\ s.Range = rd.Range /\ s.Code = z /\ s.pos = n
  <2> DEFINE s == Moved(rd, n, z)
             r1 == [rd EXCEPT !.pos = n]
             r2 == [r1 EXCEPT !.Code = z]
  <2>1. r1 \in Decoders8
    BY DEF Decoders8
  <2>2. s = r2
    BY DEF Moved
  <2> HIDE DEF r1
  <2>3. r2 \in Decoders8
    BY <2>1 DEF Decoders8
  <2>4. s.Low = rd.Low /\ s.Range = rd.Range /\ s.Code = z /\ s.pos = n
    BY DEF Decoders8, Moved
  <2> QED BY <2>2, <2>3, <2>4
<1> QED BY <1>1, <1>2, <1>3

\* A turn of the decoder's loop goes with one of the encoder's, whatever it reads.
LEMMA TurnsTogether ==
    ASSUME Digital, Bottom, NEW input \in Seq(Digits), NEW rc, Half8(rc),
           NEW rd, InStep8(rc, rd)
    PROVE  LET s == R8!DecTurn(rd, input) IN
           /\ InStep8(R8!EncTurn(rc), s)
           /\ s.Code = IF Goes8(rc.Low, rc.Range)
                       THEN (rd.Code * Base + R7!Digit(input, Len(rc.out) + 5)) % R8!Full
                       ELSE rd.Code
<1> DEFINE low == rc.Low
           h == rc.Range
           e == R8!EncTurn(rc)
           s == R8!DecTurn(rd, input)
           rest == Rest8(low, h)
           x == (low % R7!Top) * Base
           y == rest * Base
           k == Len(rc.out)
           code == (rd.Code * Base + R7!Digit(input, k + 5)) % R8!Full
<1>1. rc \in Encoders8 /\ low \in Nat /\ h \in Nat /\ rc.out \in Seq(Digits) /\ Open8(low, h)
  BY Fields8 DEF Half8
<1>2. k \in Nat
  BY <1>1
<1>3. /\ rd \in Decoders8 /\ rd.Low = low /\ rd.Range = h /\ rd.pos = k + 4
      /\ rd.Code \in Int
  BY DEF InStep8, Decoders8
<1>4. /\ R8!SameTop(rd) <=> Same8(low, h)
      /\ R8!Narrow(rd) <=> h < kBot
  BY <1>3 DEF R8!SameTop, R8!Narrow, Same8
<1>5. CASE ~Goes8(low, h)
  <2>1. e = rc
    BY <1>5, EncTurnIs
  <2>2. ~R8!SameTop(rd) /\ ~R8!Narrow(rd)
    BY <1>4, <1>5 DEF Goes8
  <2>3. s = rd
    BY <2>2, DecTurnStays
  <2> QED BY <1>5, <2>1, <2>3
<1>6. CASE Goes8(low, h)
  <2> DEFINE c == R8!Cut(rd)
             a == R8!ShiftOut(c)
             D(i) == R7!Digit(input, i)
  <2>1. e.Low = x /\ e.Range = y /\ e.out = Append(rc.out, low \div R7!Top)
        /\ low \div R7!Top \in Digits
    BY <1>6, EncTurnIs
  <2>2. Len(e.out) = k + 1
    <3> DEFINE d == low \div R7!Top
    <3>1. d \in Digits /\ e.out = Append(rc.out, d) /\ rc.out \in Seq(Digits)
      BY <1>1, <2>1
    <3> HIDE DEF d, e
    <3> QED BY <3>1, AppendOut
  <2>3. s = Moved(a, a.pos + 1, (a.Code * Base + R8!Digit(input, rd.pos + 1)) % R8!Full)
    <3>1. R8!SameTop(rd) \/ R8!Narrow(rd)
      BY <1>4, <1>6 DEF Goes8
    <3> QED BY <3>1, DecTurnTakes
  <2>4. R8!Digit(input, rd.pos + 1) = D(k + 5)
    <3>1. rd.pos + 1 = k + 5
      BY <1>2, <1>3
    <3> QED BY <3>1 DEF R8!Digit, R7!Digit
  <2>5. rest \in Nat /\ (low * Base) % R8!Full = x /\ (rest * Base) % R8!Full = y
        /\ x \in Nat /\ y \in Nat
    BY <1>1, <1>6, RestIs, TurnNumbers
  <2> HIDE DEF s, e, D
  <2>6. c \in Decoders8 /\ c.Low = low /\ c.Range = rest /\ c.Code = rd.Code
        /\ c.pos = rd.pos
    <3>1. CASE Same8(low, h)
      <4>1. c = rd
        BY <1>4, <3>1 DEF R8!Cut
      <4>2. rest = h
        BY <3>1 DEF Rest8
      <4> QED BY <1>3, <4>1, <4>2
    <3>2. CASE ~Same8(low, h)
      <4> DEFINE z == (0 - low) % kBot
      <4>1. c = [rd EXCEPT !.Range = z]
        BY <1>3, <1>4, <3>2 DEF R8!Cut
      <4>2. rest = z
        BY <3>2 DEF Rest8
      <4> HIDE DEF z, c, rest
      <4>3. z \in Nat
        BY <2>5, <4>2
      <4> QED BY <1>3, <4>1, <4>2, <4>3 DEF Decoders8
    <3> QED BY <3>1, <3>2
  <2>7. a = Over8(c, (c.Range * Base) % R8!Full, (c.Low * Base) % R8!Full)
    BY DEF R8!ShiftOut, Over8
  <2> HIDE DEF a, c
  <2>8. a = Over8(c, y, x)
    BY <2>5, <2>6, <2>7
  <2> HIDE DEF x, y, rest
  <2>9. a \in Decoders8 /\ a.Low = x /\ a.Range = y /\ a.Code = rd.Code /\ a.pos = rd.pos
    <3>1. c \in Decoders8 /\ x \in Nat /\ y \in Nat /\ 0 \in Int /\ 0 \in Nat
      BY <2>5, <2>6
    <3>2. /\ Over8(c, y, x) \in Decoders8 /\ Over8(c, y, x).Low = x
          /\ Over8(c, y, x).Range = y /\ Over8(c, y, x).Code = c.Code
          /\ Over8(c, y, x).pos = c.pos
      BY <3>1, DecoderFields
    <3> QED BY <2>6, <2>8, <3>2
  <2>10. s = Moved(a, k + 5, code)
    <3>1. a.pos + 1 = k + 5
      BY <1>2, <1>3, <2>9
    <3> QED BY <2>3, <2>4, <2>9, <3>1 DEF D
  <2>11. code \in Int
    <3>1. R7!Digit(input, k + 5) \in Nat
      <4>1. k + 5 \in Nat \ {0}
        BY <1>2
      <4> QED BY <4>1, DigitIs
    <3>2. R8!Full \in Nat \ {0} /\ Base \in Nat
      <4>1. R7!Full \in Nat /\ R7!Top \in Nat \ {0} /\ 2 * R7!Top <= R7!Full
        BY Sizes
      <4> QED BY <4>1, Sizes8 DEF Digital
    <3> DEFINE g == rd.Code * Base + R7!Digit(input, k + 5)
    <3>3. g \in Int
      BY <1>3, <3>1, <3>2
    <3> HIDE DEF g
    <3>4. g % R8!Full \in Int
      BY <3>2, <3>3
    <3> QED BY <3>4 DEF g
  <2> HIDE DEF code
  <2>12. s \in Decoders8 /\ s.Low = x /\ s.Range = y /\ s.Code = code /\ s.pos = k + 5
    <3> DEFINE p == k + 5
    <3>1. a \in Decoders8 /\ p \in Nat /\ code \in Int /\ 0 \in Nat
      BY <1>2, <2>9, <2>11
    <3> HIDE DEF p
    <3>2. /\ Moved(a, p, code) \in Decoders8 /\ Moved(a, p, code).Low = a.Low
          /\ Moved(a, p, code).Range = a.Range /\ Moved(a, p, code).Code = code
          /\ Moved(a, p, code).pos = p
      BY <3>1, DecoderFields
    <3> QED BY <2>9, <2>10, <3>2 DEF p
  <2>13. (k + 1) + 4 = k + 5
    BY <1>2
  <2>14. InStep8(e, s)
    BY <2>1, <2>2, <2>12, <2>13 DEF InStep8, x, y, rest
  <2> QED BY <1>6, <2>12, <2>14 DEF s, e, code
<1> QED BY <1>5, <1>6

\* RangeDec_Decode before its loop.
Decoded8(rd, start, size, total) ==
    [R8!Part(rd, start, size, total) EXCEPT !.Code = @ - start * (rd.Range \div total)]

\* It narrows the decoder's interval as RangeEnc_Encode does the encoder's.
LEMMA PartsTogether ==
    ASSUME Digital, Bottom, NEW rc, Kept8(rc), NEW rd, InStep8(rc, rd),
           NEW start, NEW size, NEW total, Interval(start, size, total), total <= kBot
    PROVE  /\ InStep8(R8!Part(rc, start, size, total), Decoded8(rd, start, size, total))
           /\ Decoded8(rd, start, size, total).Code =
                  rd.Code - start * (rc.Range \div total)
<1> DEFINE s == R8!Part(rc, start, size, total)
           p == R8!Part(rd, start, size, total)
           d == Decoded8(rd, start, size, total)
           r == rc.Range \div total
           x == (rc.Low + start * r) % R8!Full
           y == r * size
           z == rd.Code - start * r
<1>1. /\ Half8(s) /\ s.Low = rc.Low + start * r /\ s.Range = r * size /\ s.out = rc.out
      /\ start * r \in Nat /\ x = rc.Low + start * r
  BY PartIs8
<1>2. /\ rd \in Decoders8 /\ rd.Low = rc.Low /\ rd.Range = rc.Range
      /\ rd.pos = Len(rc.out) + 4 /\ rd.Code \in Int
  BY DEF InStep8, Decoders8
<1>3. p = Over(rd, x, y)
  BY <1>2 DEF R8!Part, Over
<1>4. d = [p EXCEPT !.Code = p.Code - start * r]
  BY <1>2 DEF Decoded8
<1>5. x = s.Low /\ y = s.Range /\ x \in Nat /\ y \in Nat
  <2>1. s.Low \in Nat /\ s.Range \in Nat
    BY <1>1, Fields8 DEF Half8
  <2> QED BY <1>1, <2>1
<1> HIDE DEF s, p, d, x, y
<1>6. p \in Decoders8 /\ p.Low = x /\ p.Range = y /\ p.Code = rd.Code /\ p.pos = rd.pos
  <2>1. rd \in Decoders8 /\ x \in Nat /\ y \in Nat /\ 0 \in Int /\ 0 \in Nat
    BY <1>2, <1>5
  <2>2. /\ Over(rd, x, y) \in Decoders8 /\ Over(rd, x, y).Low = x
        /\ Over(rd, x, y).Range = y /\ Over(rd, x, y).Code = rd.Code
        /\ Over(rd, x, y).pos = rd.pos
    BY <2>1, DecoderFields
  <2> QED BY <1>3, <2>2
<1>7. z \in Int
  BY <1>1, <1>2
<1>8. d = [p EXCEPT !.Code = z]
  BY <1>4, <1>6
<1> HIDE DEF z
<1>9. d \in Decoders8 /\ d.Low = x /\ d.Range = y /\ d.Code = z /\ d.pos = rd.pos
  BY <1>6, <1>7, <1>8 DEF Decoders8
<1>10. InStep8(s, d)
  BY <1>1, <1>2, <1>5, <1>9 DEF InStep8
<1> QED BY <1>9, <1>10 DEF s, d, z, r

\* RangeDec_Decode follows RangeEnc_Encode on any input: after a symbol of the same
\* frequencies both have the same interval, and the decoder has read four digits more than
\* the encoder has written.
THEOREM DecoderFollows8 ==
    ASSUME Digital, Bottom, NEW input \in Seq(Digits), NEW rc, Kept8(rc),
           NEW rd, InStep8(rc, rd),
           NEW start, NEW size, NEW total, Interval(start, size, total), total <= kBot
    PROVE  InStep8(R8!RangeEnc_Encode(rc, start, size, total),
                   R8!RangeDec_Decode(rd, input, start, size, total))
<1> DEFINE T(e) == R8!EncTurn(e)
           U(c) == R8!DecTurn(c, input)
           s == R8!Part(rc, start, size, total)
           d == Decoded8(rd, start, size, total)
<1>1. R8!RangeEnc_Encode(rc, start, size, total) = T(T(T(T(T(s)))))
  BY DEF R8!RangeEnc_Encode, R8!RangeEnc_Normalize
<1>2. R8!RangeDec_Decode(rd, input, start, size, total) = U(U(U(U(U(d)))))
  BY DEF R8!RangeDec_Decode, Decoded8
<1>3. Half8(s) /\ InStep8(s, d)
  BY PartIs8, PartsTogether
<1>4. ASSUME NEW e, NEW c, Half8(e), InStep8(e, c) PROVE Half8(T(e)) /\ InStep8(T(e), U(c))
  BY <1>4, EncTurnIs, TurnsTogether
<1> HIDE DEF T, U, s, d
<1>5. Half8(T(s)) /\ InStep8(T(s), U(d))
  BY <1>3, <1>4
<1>6. Half8(T(T(s))) /\ InStep8(T(T(s)), U(U(d)))
  BY <1>4, <1>5
<1>7. Half8(T(T(T(s)))) /\ InStep8(T(T(T(s))), U(U(U(d))))
  BY <1>4, <1>6
<1>8. Half8(T(T(T(T(s))))) /\ InStep8(T(T(T(T(s)))), U(U(U(U(d)))))
  BY <1>4, <1>7
<1>9. InStep8(T(T(T(T(T(s))))), U(U(U(U(U(d))))))
  BY <1>4, <1>8
<1> QED BY <1>1, <1>2, <1>9

-------------------------------------------------------------------------------
(***************************************************************************)
(* What the encoder of PPMd8 writes tells the decoder its symbols.         *)
(***************************************************************************)

\* The input begins with what the encoder has written, and its next four digits are o
\* above Low.
At8(rc, input, o) == Prefix(rc, input) /\ Window(input, Len(rc.out)) = rc.Low + o

\* What is known after a turn of the loop was known before it: the input stands in the
\* part that was left, and the decoder's turn takes its Code from there to what it has to be.
LEMMA TurnBack8 ==
    ASSUME Digital, Bottom, NEW input \in Seq(Digits), NEW rc, Half8(rc), NEW o2 \in Nat,
           o2 < R8!EncTurn(rc).Range, At8(R8!EncTurn(rc), input, o2)
    PROVE  \E o \in Nat :
               /\ o < rc.Range /\ At8(rc, input, o)
               /\ \A rd : InStep8(rc, rd) /\ rd.Code = o =>
                      R8!DecTurn(rd, input).Code = o2
<1> DEFINE e == R8!EncTurn(rc)
           low == rc.Low
           h == rc.Range
           n == Len(rc.out)
           last == R7!Digit(input, n + 5)
           x == R7!Digit(input, n + 1)
           rest == Rest8(low, h)
<1>1. rc \in Encoders8 /\ low \in Nat /\ h \in Nat /\ rc.out \in Seq(Digits) /\ Open8(low, h)
  BY Fields8 DEF Half8
<1>2. n \in Nat
  BY <1>1
<1>3. CASE ~Goes8(low, h)
  <2>1. e = rc
    BY <1>3, EncTurnIs
  <2>2. ASSUME NEW rd, InStep8(rc, rd), rd.Code = o2
        PROVE  R8!DecTurn(rd, input).Code = o2
    BY <1>3, <2>2, TurnsTogether
  <2> QED BY <2>1, <2>2
<1>4. CASE Goes8(low, h)
  <2>1. PICK d \in Digits, t \in Nat :
           /\ t < R7!Top /\ low = d * R7!Top + t /\ d \in Nat
           /\ low \div R7!Top = d /\ low % R7!Top = t
    BY <1>1, LowDigit
  <2>2. e.Low = t * Base /\ e.Range = rest * Base /\ e.out = Append(rc.out, d)
    BY <1>4, <2>1, EncTurnIs
  <2>3. rest \in Nat /\ rest <= h
    BY <1>1, <1>4, RestIs
  <2>4. Half8(e)
    BY EncTurnIs
  <2>5. o2 < e.Range /\ Prefix(e, input) /\ Window(input, Len(e.out)) = e.Low + o2
    BY DEF At8
  <2> HIDE DEF e, rest
  <2>6. Len(e.out) = n + 1 /\ e.out[n + 1] = d /\ \A i \in 1..n : e.out[i] = rc.out[i]
    BY <1>1, <2>2, AppendOut
  <2> HIDE DEF n
  <2>7. PICK v \in Nat : /\ v < R7!Top /\ Window(input, n) = x * R7!Top + v
                         /\ Window(input, n + 1) = v * Base + last
    BY <1>2, WindowMoves
  <2>8. last \in Digits /\ last \in Nat /\ n + 5 \in Nat \ {0}
    <3>1. n + 5 \in Nat \ {0}
      BY <1>2
    <3> QED BY <3>1, DigitIs
  <2>9. x = d
    <3>1. n + 1 \in 1..Len(e.out)
      BY <1>2, <2>6
    <3>2. R7!Digit(input, n + 1) = e.out[n + 1]
      BY <2>5, <3>1 DEF Prefix
    <3> QED BY <2>6, <3>2
  <2> HIDE DEF x, last
  <2>10. PICK o \in Nat : o < rest /\ o2 = o * Base + last /\ 0 * R7!Top + v = t + o
    <3>1. 0 * R7!Full = 0
      <4>1. R7!Full \in Nat
        BY Sizes
      <4> QED BY <4>1
    <3>2. v * Base + last = t * Base + o2
      BY <2>2, <2>5, <2>6, <2>7
    <3>3. v * Base + last \in Nat
      BY <2>8 DEF Digital
    <3>4. 0 * R7!Full + (v * Base + last) = t * Base + o2
      BY <3>1, <3>2, <3>3
    <3>5. o2 < rest * Base
      BY <2>2, <2>5
    <3>6. 0 \in {0, 1}
      OBVIOUS
    <3>7. ASSUME NEW c \in {0, 1}, c = 0
          PROVE  \E o \in Nat :
                     o < rest /\ o2 = o * Base + last /\ c * R7!Top + v = t + o
      <4>1. c * R7!Full + (v * Base + last) = t * Base + o2
        BY <3>4, <3>7
      <4>2. rest \in Nat /\ v \in Nat /\ t \in Nat /\ last \in Digits /\ o2 \in Nat
        BY <2>3, <2>8
      <4> QED BY <3>5, <4>1, <4>2, BackNumbers
    <3> QED BY <3>6, <3>7
  <2>11. v = t + o
    <3>1. R7!Top \in Nat
      BY Sizes
    <3>2. 0 * R7!Top = 0
      BY <3>1
    <3> QED BY <2>10, <3>2
  <2>12. Window(input, n) = low + o
    <3> DEFINE a == d * R7!Top
    <3>1. a \in Nat
      <4>1. R7!Top \in Nat
        BY Sizes
      <4> QED BY <2>1, <4>1
    <3>2. Window(input, n) = a + v /\ low = a + t
      BY <2>1, <2>7, <2>9
    <3> HIDE DEF a
    <3> QED BY <2>1, <2>11, <3>1, <3>2
  <2>13. Prefix(rc, input)
    <3>1. ASSUME NEW i \in 1..n PROVE R7!Digit(input, i) = rc.out[i]
      <4>1. i \in 1..Len(e.out)
        BY <1>2, <2>6
      <4>2. R7!Digit(input, i) = e.out[i]
        BY <2>5, <4>1 DEF Prefix
      <4> QED BY <2>6, <4>2
    <3> QED BY <3>1 DEF Prefix, n
  <2>14. o < h
    BY <1>1, <2>3, <2>10
  <2>15. o2 % R8!Full = o2
    <3>1. R8!Full \in Nat \ {0}
      <4>1. R7!Full \in Nat /\ R7!Top \in Nat \ {0} /\ 2 * R7!Top <= R7!Full
        BY Sizes
      <4> QED BY <4>1, Sizes8
    <3>2. e.Low \in Nat /\ e.Range \in Nat /\ e.Low + e.Range <= R8!Full
      BY <2>4, Fields8 DEF Half8, Open8
    <3>3. o2 < R8!Full
      BY <2>5, <3>1, <3>2
    <3>4. o2 = R8!Full * 0 + o2 /\ 0 \in Nat
      BY <3>1
    <3> QED BY <3>1, <3>3, <3>4, DivModIs
  <2>16. ASSUME NEW rd, InStep8(rc, rd), rd.Code = o
         PROVE  R8!DecTurn(rd, input).Code = o2
    <3>1. R8!DecTurn(rd, input).Code = (rd.Code * Base + last) % R8!Full
      BY <1>4, <2>16, TurnsTogether DEF last, n
    <3> QED BY <2>10, <2>15, <2>16, <3>1
  <2>17. At8(rc, input, o)
    BY <2>12, <2>13 DEF At8, n
  <2> QED BY <2>14, <2>16, <2>17
<1> QED BY <1>3, <1>4

\* The same for the five turns of the loop.
LEMMA NormalizeBack8 ==
    ASSUME Digital, Bottom, NEW input \in Seq(Digits), NEW rc, Half8(rc), NEW o2 \in Nat,
           o2 < R8!RangeEnc_Normalize(rc).Range,
           At8(R8!RangeEnc_Normalize(rc), input, o2)
    PROVE  LET U(c) == R8!DecTurn(c, input) IN
           \E o \in Nat :
               /\ o < rc.Range /\ At8(rc, input, o)
               /\ \A rd : InStep8(rc, rd) /\ rd.Code = o =>
                      U(U(U(U(U(rd))))).Code = o2
<1> DEFINE T(e) == R8!EncTurn(e)
           U(c) == R8!DecTurn(c, input)
           Stands(e, o) == o \in Nat /\ o < e.Range /\ At8(e, input, o)
           Reads(e, c, o) == InStep8(e, c) /\ c.Code = o
<1>1. R8!RangeEnc_Normalize(rc) = T(T(T(T(T(rc)))))
  BY DEF R8!RangeEnc_Normalize
<1>2. ASSUME NEW e, Half8(e), NEW p, Stands(T(e), p)
      PROVE  \E o \in Nat :
                 /\ Stands(e, o)
                 /\ \A c : Reads(e, c, o) => Reads(T(e), U(c), p)
  <2>1. p \in Nat /\ p < R8!EncTurn(e).Range /\ At8(R8!EncTurn(e), input, p)
    BY <1>2
  <2>2. PICK o \in Nat :
           /\ o < e.Range /\ At8(e, input, o)
           /\ \A c : InStep8(e, c) /\ c.Code = o => R8!DecTurn(c, input).Code = p
    BY <1>2, <2>1, TurnBack8
  <2>3. ASSUME NEW c, InStep8(e, c) PROVE InStep8(R8!EncTurn(e), R8!DecTurn(c, input))
    BY <1>2, <2>3, TurnsTogether
  <2> QED BY <2>2, <2>3
<1>3. ASSUME NEW e, Half8(e) PROVE Half8(T(e))
  BY <1>3, EncTurnIs
<1>4. Stands(R8!RangeEnc_Normalize(rc), o2)
  OBVIOUS
<1> DEFINE a == T(rc)
           b == T(a)
           c4 == T(b)
           d == T(c4)
           e5 == T(d)
<1>5. Stands(e5, o2)
  BY <1>1, <1>4
<1> HIDE DEF T, U, Stands, Reads
<1>6. Half8(a) /\ Half8(b) /\ Half8(c4) /\ Half8(d)
  BY <1>3
<1>7. PICK p4 \in Nat : Stands(d, p4) /\ \A c : Reads(d, c, p4) => Reads(e5, U(c), o2)
  BY <1>2, <1>5, <1>6
<1>8. PICK p3 \in Nat : Stands(c4, p3) /\ \A c : Reads(c4, c, p3) => Reads(d, U(c), p4)
  BY <1>2, <1>6, <1>7
<1>9. PICK p2 \in Nat : Stands(b, p2) /\ \A c : Reads(b, c, p2) => Reads(c4, U(c), p3)
  BY <1>2, <1>6, <1>8
<1>10. PICK p1 \in Nat : Stands(a, p1) /\ \A c : Reads(a, c, p1) => Reads(b, U(c), p2)
  BY <1>2, <1>6, <1>9
<1>11. PICK p0 \in Nat : Stands(rc, p0) /\ \A c : Reads(rc, c, p0) => Reads(a, U(c), p1)
  BY <1>2, <1>10
<1>12. ASSUME NEW rd, Reads(rc, rd, p0) PROVE Reads(e5, U(U(U(U(U(rd))))), o2)
  <2>1. Reads(b, U(U(rd)), p2)
    BY <1>10, <1>11, <1>12
  <2>2. Reads(c4, U(U(U(rd))), p3)
    BY <1>9, <2>1
  <2>3. Reads(d, U(U(U(U(rd)))), p4)
    BY <1>8, <2>2
  <2> QED BY <1>7, <2>3
<1> QED BY <1>11, <1>12 DEF Stands, Reads, U

\* If the input holds what the encoder has after coding a symbol, then it holds what the
\* encoder had before, and the decoder that stands there finds the symbol: what
\* RangeDec_GetThreshold returns lies in the symbol's part, and RangeDec_Decode leads to
\* where the input stands after it, even when the loop gave up a part of the interval.
THEOREM SymbolComesBack8 ==
    ASSUME Digital, Bottom, NEW input \in Seq(Digits), NEW rc, Kept8(rc),
           NEW start, NEW size, NEW total, Interval(start, size, total), total <= kBot,
           NEW o2 \in Nat, o2 < R8!RangeEnc_Encode(rc, start, size, total).Range,
           At8(R8!RangeEnc_Encode(rc, start, size, total), input, o2)
    PROVE  \E o \in Nat :
               /\ o < rc.Range /\ At8(rc, input, o)
               /\ \A rd : InStep8(rc, rd) /\ rd.Code = o =>
                      /\ start <= R8!RangeDec_GetThreshold(rd, total)
                      /\ R8!RangeDec_GetThreshold(rd, total) < start + size
                      /\ R8!RangeDec_Decode(rd, input, start, size, total).Code = o2
<1> DEFINE s == R8!Part(rc, start, size, total)
           r == rc.Range \div total
           a == start * r
           b == size * r
           U(c) == R8!DecTurn(c, input)
<1>1. /\ Half8(s) /\ s.Low = rc.Low + a /\ s.Range = r * size /\ s.out = rc.out
      /\ r \in Nat \ {0} /\ a \in Nat /\ b \in Nat \ {0}
      /\ r * size = b /\ a + b <= rc.Range
  BY PartIs8
<1>2. rc.Low \in Nat /\ rc.Range \in Nat
  BY Fields8 DEF Kept8, Half8
<1>3. PICK o1 \in Nat :
         /\ o1 < s.Range /\ At8(s, input, o1)
         /\ \A rd : InStep8(s, rd) /\ rd.Code = o1 => U(U(U(U(U(rd))))).Code = o2
  <2>1. o2 < R8!RangeEnc_Normalize(s).Range /\ At8(R8!RangeEnc_Normalize(s), input, o2)
    BY DEF R8!RangeEnc_Encode
  <2> HIDE DEF s
  <2> QED BY <1>1, <2>1, NormalizeBack8
<1> HIDE DEF s, U
<1>4. At8(rc, input, o1 + a)
  <2>1. (rc.Low + a) + o1 = rc.Low + (o1 + a)
    <3> HIDE DEF a
    <3> QED BY <1>1, <1>2
  <2> QED BY <1>1, <1>3, <2>1 DEF At8, Prefix
<1> HIDE DEF r
<1>5. start \in Nat /\ size \in Nat
  BY DEF Interval
<1> HIDE DEF a, b
<1>6. o1 + a \in Nat /\ o1 + a < rc.Range /\ o1 < b
  BY <1>1, <1>2, <1>3
<1>7. ASSUME NEW rd, InStep8(rc, rd), rd.Code = o1 + a
      PROVE  /\ start <= R8!RangeDec_GetThreshold(rd, total)
             /\ R8!RangeDec_GetThreshold(rd, total) < start + size
             /\ R8!RangeDec_Decode(rd, input, start, size, total).Code = o2
  <2> DEFINE d == Decoded8(rd, start, size, total)
             code == rd.Code
  <2>1. rd.Range = rc.Range
    BY <1>7 DEF InStep8
  <2>2. R8!RangeDec_GetThreshold(rd, total) = code \div r
    BY <2>1 DEF R8!RangeDec_GetThreshold, r
  <2>3. code \in Nat /\ a <= code /\ code < a + b
    BY <1>1, <1>6, <1>7
  <2> HIDE DEF code
  <2>4. start <= code \div r /\ code \div r < start + size
    <3>1. start * r <= code /\ code < start * r + size * r
      BY <2>3 DEF a, b
    <3> QED BY <1>1, <1>5, <2>3, <3>1, ThresholdIs
  <2>5. InStep8(s, d) /\ d.Code = o1
    <3>1. InStep8(s, d) /\ d.Code = rd.Code - start * (rc.Range \div total)
      BY <1>7, PartsTogether DEF s
    <3>2. rd.Code - a = o1
      BY <1>1, <1>7
    <3> QED BY <3>1, <3>2 DEF a, r
  <2>6. R8!RangeDec_Decode(rd, input, start, size, total) = U(U(U(U(U(d)))))
    BY DEF R8!RangeDec_Decode, Decoded8, U
  <2> HIDE DEF d
  <2>7. U(U(U(U(U(d))))).Code = o2
    BY <1>3, <2>5
  <2> QED BY <2>2, <2>4, <2>6, <2>7
<1> QED BY <1>4, <1>6, <1>7

\* The same for a bit: Range_DecodeBit of PPMd8 finds the bit that was encoded.
THEOREM BitComesBack8 ==
    ASSUME Digital, Bottom, NEW input \in Seq(Digits), NEW rc, Kept8(rc),
           NEW size0, Probability(size0), BitTotal <= kBot, NEW bit \in {0, 1},
           NEW o2 \in Nat, o2 < EncodeBit8(rc, size0, bit).Range,
           At8(EncodeBit8(rc, size0, bit), input, o2)
    PROVE  \E o \in Nat :
               /\ o < rc.Range /\ At8(rc, input, o)
               /\ \A rd : InStep8(rc, rd) /\ rd.Code = o =>
                      /\ R8!DecodedBit(rd, size0) = bit
                      /\ R8!Range_DecodeBit(rd, input, size0).Code = o2
<1> DEFINE size == IF bit = 0 THEN size0 ELSE BitTotal - size0
           start == bit * size0
           Th(rd) == R8!RangeDec_GetThreshold(rd, BitTotal)
<1>1. Interval(start, size, BitTotal)
      /\ EncodeBit8(rc, size0, bit) = R8!RangeEnc_Encode(rc, start, size, BitTotal)
  BY EncodeBit8Is
<1>2. BitTotal \in Nat /\ size0 \in Nat /\ 0 < size0 /\ size0 < BitTotal
      /\ 0 * size0 = 0 /\ 1 * size0 = size0
  BY DEF Probability
<1>3. /\ bit = 0 => start = 0 /\ size = size0
      /\ bit = 1 => start = size0 /\ size = BitTotal - size0
  BY <1>2
<1> HIDE DEF size, start
<1>4. PICK o \in Nat :
         /\ o < rc.Range /\ At8(rc, input, o)
         /\ \A rd : InStep8(rc, rd) /\ rd.Code = o =>
                /\ start <= Th(rd) /\ Th(rd) < start + size
                /\ R8!RangeDec_Decode(rd, input, start, size, BitTotal).Code = o2
  BY <1>1, SymbolComesBack8
<1>5. ASSUME NEW rd, InStep8(rc, rd), rd.Code = o
      PROVE  /\ R8!DecodedBit(rd, size0) = bit
             /\ R8!Range_DecodeBit(rd, input, size0).Code = o2
  <2>1. /\ start <= Th(rd) /\ Th(rd) < start + size
        /\ R8!RangeDec_Decode(rd, input, start, size, BitTotal).Code = o2
    BY <1>4, <1>5
  <2>2. Th(rd) \in Int
    <3> DEFINE r == rc.Range \div BitTotal
    <3>1. rd.Code \in Nat /\ rd.Range = rc.Range
      BY <1>5 DEF InStep8
    <3>2. r \in Nat \ {0}
      <4>1. rc.Range \in Nat /\ ~(rc.Range < kBot) /\ kBot \in Nat
        BY Fields8, BottomIs DEF Kept8, Half8, Goes8
      <4>2. BitTotal <= rc.Range
        BY <1>2, <4>1
      <4> QED BY <1>1, <4>1, <4>2, ShareIn
    <3>3. Th(rd) = rd.Code \div r
      BY <3>1 DEF R8!RangeDec_GetThreshold
    <3> HIDE DEF Th, r
    <3>4. rd.Code \div r \in Nat
      BY <3>1, <3>2, DivMod
    <3> QED BY <3>3, <3>4
  <2>3. R8!DecodedBit(rd, size0) = IF Th(rd) < size0 THEN 0 ELSE 1
    BY DEF R8!DecodedBit
  <2>4. R8!DecodedBit(rd, size0) = bit
    <3> HIDE DEF Th
    <3>1. CASE bit = 0
      BY <1>2, <1>3, <2>1, <2>2, <2>3, <3>1
    <3>2. CASE bit = 1
      BY <1>2, <1>3, <2>1, <2>2, <2>3, <3>2
    <3> QED BY <3>1, <3>2
  <2>5. R8!Range_DecodeBit(rd, input, size0) =
           R8!RangeDec_Decode(rd, input, start, size, BitTotal)
    BY <2>4 DEF R8!Range_DecodeBit, start, size
  <2> QED BY <2>1, <2>4, <2>5
<1> QED BY <1>4, <1>5

\* An encoder of PPMd8 that has coded nothing.
LEMMA StartIs8 ==
    ASSUME Digital, Bottom
    PROVE  /\ Kept8(R8!RangeEnc_Init) /\ R8!RangeEnc_Init.Low = 0
           /\ R8!RangeEnc_Init.Range = R8!Full - 1 /\ R8!RangeEnc_Init.out = << >>
           /\ R8!Full - 1 \in Nat
<1> DEFINE range == R8!Full - 1
           rc == [Low |-> 0, Range |-> range, out |-> << >>]
<1>1. R8!RangeEnc_Init = rc
  BY DEF R8!RangeEnc_Init
<1>2. /\ R8!Full \in Nat /\ R8!Top \in Nat \ {0} /\ 2 * R8!Top <= R8!Full
      /\ R8!Top = R7!Top
  BY Sizes, Sizes8
<1>3. range \in Nat \ {0} /\ R8!Top <= range /\ range + 1 = R8!Full
  BY <1>2
<1> HIDE DEF range
<1>4. Open8(0, range)
  BY <1>2, <1>3 DEF Open8
<1>5. ~Goes8(0, range)
  <2>1. 0 % R7!Top = 0
    <3>1. 0 = R7!Top * 0 + 0 /\ R7!Top \in Nat \ {0} /\ 0 \in Nat
      BY <1>2
    <3>2. 0 < R7!Top
      BY <3>1
    <3> QED BY <3>1, <3>2, DivModIs
  <2>2. ~Same8(0, range)
    <3>1. Same8(0, range) <=> (0 % R7!Top) + range < R7!Top
      BY <1>4, SameIs
    <3>2. Same8(0, range) <=> 0 + range < R7!Top
      BY <2>1, <3>1
    <3> QED BY <1>2, <1>3, <3>2
  <2>3. kBot \in Nat /\ kBot <= R7!Top
    <3>1. kBot \in Nat /\ kBot <= Base * Base
      BY BottomIs
    <3>2. Base * Base <= R7!Top /\ Base * Base \in Nat
      BY Sizes
    <3> DEFINE two == Base * Base
    <3> HIDE DEF two
    <3>3. kBot <= two /\ two <= R7!Top /\ two \in Nat
      BY <3>1, <3>2 DEF two
    <3> QED BY <1>2, <3>1, <3>3
  <2> QED BY <1>2, <1>3, <2>2, <2>3 DEF Goes8
<1>6. rc \in Encoders8
  <2> DEFINE e == << >>
  <2>1. e \in Outs
    <3>1. << >> \in Seq(Digits)
      OBVIOUS
    <3> QED BY <3>1 DEF Outs
  <2> HIDE DEF e
  <2>2. [Low |-> 0, Range |-> range, out |-> e] \in Encoders8
    BY <1>3, <2>1 DEF Encoders8
  <2> QED BY <2>2 DEF e
<1>7. rc.Low = 0 /\ rc.Range = range /\ rc.out = << >>
  OBVIOUS
<1>8. Kept8(rc)
  BY <1>4, <1>5, <1>6, <1>7 DEF Kept8, Half8
<1> QED BY <1>1, <1>3, <1>7, <1>8 DEF range

\* RangeDec_Init of PPMd8 takes its Code from the first digit on.
LEMMA InitIs8 ==
    ASSUME NEW input
    PROVE  R8!RangeDec_Init(input) =
           IF Window(input, 0) < R8!Full - 1
           THEN [Low |-> 0, Range |-> R8!Full - 1, Code |-> Window(input, 0), pos |-> 4]
           ELSE R8!None
<1> DEFINE D(i) == R8!Digit(input, i)
           E(i) == R7!Digit(input, i)
           range == R8!Full - 1
           four == ((D(1) * Base + D(2)) * Base + D(3)) * Base + D(4)
<1>1. /\ 0 + 1 = 1 /\ 0 + 2 = 2 /\ 0 + 3 = 3 /\ 0 + 4 = 4
  OBVIOUS
<1>2. R8!RangeDec_Init(input) =
         IF four < range
         THEN [Low |-> 0, Range |-> range, Code |-> four, pos |-> 4] ELSE R8!None
  BY DEF R8!RangeDec_Init
<1>3. Window(input, 0) = ((E(0 + 1) * Base + E(0 + 2)) * Base + E(0 + 3)) * Base + E(0 + 4)
  BY DEF Window
<1>4. ASSUME NEW i PROVE D(i) = E(i)
  BY DEF R8!Digit, R7!Digit
<1> HIDE DEF D, E
<1>5. four = Window(input, 0)
  BY <1>1, <1>3, <1>4
<1> HIDE DEF four, range
<1>6. R8!RangeDec_Init(input) =
         IF Window(input, 0) < range
         THEN [Low |-> 0, Range |-> range, Code |-> Window(input, 0), pos |-> 4] ELSE R8!None
  BY <1>2, <1>5
<1> QED BY <1>6 DEF range

\* RangeDec_Init of PPMd8, on any input that it accepts, starts in step with an encoder
\* that has coded nothing, and with Code inside the interval.
THEOREM Begins8 ==
    ASSUME Digital, Bottom, NEW input \in Seq(Digits), R8!RangeDec_Init(input) # R8!None
    PROVE  /\ Kept8(R8!RangeEnc_Init)
           /\ InStep8(R8!RangeEnc_Init, R8!RangeDec_Init(input))
           /\ R8!RangeDec_Init(input).Code = Window(input, 0)
           /\ Window(input, 0) < R8!RangeEnc_Init.Range
<1> DEFINE code == Window(input, 0)
           range == R8!Full - 1
           rd == [Low |-> 0, Range |-> range, Code |-> code, pos |-> 4]
           rc == R8!RangeEnc_Init
<1>1. /\ Kept8(rc) /\ rc.Low = 0 /\ rc.Range = range /\ rc.out = << >> /\ range \in Nat
  BY StartIs8
<1>2. R8!RangeDec_Init(input) = IF code < range THEN rd ELSE R8!None
  BY InitIs8
<1> HIDE DEF rc
<1>3. R8!RangeDec_Init(input) = rd /\ code < range
  <2> HIDE DEF rd
  <2> QED BY <1>2
<1>4. code \in Int
  <2>1. code \in Nat
    BY WindowNat
  <2> QED BY <2>1
<1> HIDE DEF code, range
<1>5. rd \in Decoders8 /\ rd.Low = 0 /\ rd.Range = range /\ rd.Code = code /\ rd.pos = 4
  BY <1>1, <1>4 DEF Decoders8
<1>6. Len(rc.out) + 4 = 4
  <2>1. Len(<< >>) = 0
    OBVIOUS
  <2> QED BY <1>1, <2>1
<1> HIDE DEF rd
<1>7. InStep8(rc, rd)
  BY <1>1, <1>5, <1>6 DEF InStep8
<1> QED BY <1>1, <1>3, <1>5, <1>7 DEF rc, code

\* RangeDec_Init of PPMd8 accepts an input on which an encoder that has coded nothing
\* stands, and gives Code the place where it stands.
THEOREM BeginningComesBack8 ==
    ASSUME Digital, Bottom, NEW input \in Seq(Digits),
           NEW o \in Nat, o < R8!RangeEnc_Init.Range, At8(R8!RangeEnc_Init, input, o)
    PROVE  R8!RangeDec_Init(input) # R8!None /\ R8!RangeDec_Init(input).Code = o
<1> DEFINE rc == R8!RangeEnc_Init
           code == Window(input, 0)
           range == R8!Full - 1
           rd == [Low |-> 0, Range |-> range, Code |-> code, pos |-> 4]
<1>1. rc.Low = 0 /\ rc.Range = range /\ rc.out = << >>
  BY StartIs8
<1>2. o < rc.Range /\ Window(input, Len(rc.out)) = rc.Low + o
  BY DEF At8
<1> HIDE DEF rc
<1>3. code = o
  <2>1. Len(<< >>) = 0 /\ 0 + o = o
    OBVIOUS
  <2> QED BY <1>1, <1>2, <2>1
<1>4. R8!RangeDec_Init(input) = IF code < range THEN rd ELSE R8!None
  BY InitIs8
<1>5. code < range
  BY <1>1, <1>2, <1>3
<1>6. rd.Code = code /\ rd.pos = 4
  OBVIOUS
<1> HIDE DEF rd
<1>7. R8!RangeDec_Init(input) = rd
  BY <1>4, <1>5
<1>8. R8!None.pos = 0
  BY DEF R8!None
<1>9. rd # R8!None
  BY <1>6, <1>8
<1> QED BY <1>3, <1>6, <1>7, <1>9

\* The digits of Low, from the top one to the last.
LEMMA DigitsOfLow ==
    ASSUME Digital, NEW low \in Nat, low < R7!Full
    PROVE  LET a == low \div R7!Top
               b == (low \div (Base * Base)) % Base
               c == (low \div Base) % Base
               d == low % Base IN
           /\ a \in Digits /\ b \in Digits /\ c \in Digits /\ d \in Digits
           /\ low = ((a * Base + b) * Base + c) * Base + d
<1> DEFINE two == Base * Base
           T == R7!Top
           q1 == low \div Base
           d == low % Base
           q2 == q1 \div Base
           c == q1 % Base
           q3 == q2 \div Base
           b == q2 % Base
<1>1. /\ Base \in Nat \ {0} /\ Base > 1 /\ two \in Nat \ {0} /\ T \in Nat \ {0}
      /\ T = Base * two /\ R7!Full = Base * T
  BY Sizes DEF Digital
<1>2. q1 \in Nat /\ d \in Nat /\ d < Base /\ low = Base * q1 + d
  BY <1>1, DivMod
<1> HIDE DEF q1, d
<1>3. q2 \in Nat /\ c \in Nat /\ c < Base /\ q1 = Base * q2 + c
  BY <1>1, <1>2, DivMod
<1> HIDE DEF q2, c
<1>4. q3 \in Nat /\ b \in Nat /\ b < Base /\ q2 = Base * q3 + b
  BY <1>1, <1>3, DivMod
<1> HIDE DEF q3, b, T
<1>5. low \div two = q2
  <2> DEFINE r == c * Base + d
  <2>1. low = two * q2 + r
    <3>1. Base * q1 = Base * (Base * q2) + Base * c
      BY <1>1, <1>2, <1>3
    <3>2. Base * (Base * q2) = two * q2 /\ Base * c = c * Base
      BY <1>1, <1>3
    <3>3. two * q2 \in Nat /\ c * Base \in Nat
      BY <1>1, <1>3
    <3> HIDE DEF two
    <3> QED BY <1>2, <3>1, <3>2, <3>3
  <2>2. r \in Nat /\ r < two
    <3>1. (c + 1) * Base <= Base * Base
      BY <1>1, <1>3, Times
    <3>2. (c + 1) * Base = c * Base + Base /\ c * Base \in Nat
      BY <1>1, <1>3
    <3> QED BY <1>1, <1>2, <3>1, <3>2
  <2> HIDE DEF two, r
  <2> QED BY <1>1, <1>3, <2>1, <2>2, DivModIs
<1>6. low = ((q3 * Base + b) * Base + c) * Base + d
  <2>1. q3 * Base + b = q2
    BY <1>1, <1>4
  <2>2. q2 * Base + c = q1
    BY <1>1, <1>3
  <2>3. q1 * Base + d = low
    BY <1>1, <1>2
  <2> QED BY <2>1, <2>2, <2>3
<1>7. b \in Digits /\ c \in Digits /\ d \in Digits
  BY <1>1, <1>2, <1>3, <1>4 DEF Digits
<1> DEFINE r == (b * Base + c) * Base + d
<1>8. r \in Nat /\ r < T /\ low = q3 * T + r
  <2>1. /\ ((q3 * Base + b) * Base + c) * Base + d = q3 * T + r
        /\ (b * Base + c) * Base + d \in Nat
    BY <1>2, <1>3, <1>4, WindowIsNat DEF T
  <2>2. r < T
    BY <1>7, ThreeDigits DEF T
  <2> HIDE DEF r
  <2>3. low = q3 * T + r
    BY <1>6, <2>1 DEF r
  <2>4. r \in Nat
    BY <2>1 DEF r
  <2> QED BY <2>2, <2>3, <2>4
<1> HIDE DEF r
<1>9. q3 * T = T * q3 /\ q3 * T \in Nat
  BY <1>1, <1>4
<1>10. low \div T = q3
  <2>1. low = T * q3 + r
    BY <1>8, <1>9
  <2> QED BY <1>1, <1>4, <1>8, <2>1, DivModIs
<1>11. q3 \in Digits
  <2>1. ASSUME Base <= q3 PROVE FALSE
    <3>1. Base * T <= q3 * T /\ Base * T \in Nat
      BY <1>1, <1>4, <2>1, Times
    <3> DEFINE x == q3 * T
               y == Base * T
    <3>2. x \in Nat /\ y \in Nat /\ y <= x /\ low = x + r /\ low < y
      BY <1>1, <1>8, <1>9, <3>1
    <3> HIDE DEF x, y
    <3> QED BY <1>8, <3>2
  <2> QED BY <1>1, <1>4, <2>1 DEF Digits
<1>12. /\ low \div R7!Top = q3 /\ (low \div (Base * Base)) % Base = b
       /\ (low \div Base) % Base = c /\ low % Base = d
  BY <1>5, <1>10 DEF T, b, c, d, q1
<1> QED BY <1>6, <1>7, <1>11, <1>12

\* What stands behind a sequence.
LEMMA BehindCat ==
    ASSUME NEW S, NEW s \in Seq(S), NEW t \in Seq(S), NEW i \in 1..Len(t)
    PROVE  (s \o t)[Len(s) + i] = t[i]
  OBVIOUS

\* Four more digits.
LEMMA FourMore ==
    ASSUME NEW s \in Seq(Digits),
           NEW a \in Digits, NEW b \in Digits, NEW c \in Digits, NEW d \in Digits
    PROVE  LET t == s \o <<a, b, c, d>>
               n == Len(s) IN
           /\ t \in Seq(Digits) /\ Len(t) = n + 4 /\ n \in Nat
           /\ t[n + 1] = a /\ t[n + 2] = b /\ t[n + 3] = c /\ t[n + 4] = d
           /\ \A i \in 1..n : t[i] = s[i]
<1> DEFINE four == <<a, b, c, d>>
           t == s \o four
           n == Len(s)
<1>1. /\ four \in Seq(Digits) /\ Len(four) = 4 /\ four[1] = a /\ four[2] = b
      /\ four[3] = c /\ four[4] = d
  OBVIOUS
<1> HIDE DEF four
<1>2. t \in Seq(Digits) /\ n \in Nat
  BY <1>1
<1>3. Len(t) = n + 4
  BY <1>1, LenCat
<1>4. \A i \in 1..n : t[i] = s[i]
  BY <1>1
<1>5. ASSUME NEW i \in 1..4 PROVE t[n + i] = four[i]
  <2>1. i \in 1..Len(four)
    BY <1>1
  <2>2. four \in Seq(Digits)
    BY <1>1
  <2>3. \A j \in 1..Len(four) : (s \o four)[Len(s) + j] = four[j]
    BY <2>2, BehindCat, Zenon
  <2>4. (s \o four)[Len(s) + i] = four[i]
    BY <2>1, <2>3, Zenon
  <2> QED BY <2>4
<1>6. 1 \in 1..4 /\ 2 \in 1..4 /\ 3 \in 1..4 /\ 4 \in 1..4
  OBVIOUS
<1>7. t[n + 1] = a /\ t[n + 2] = b /\ t[n + 3] = c /\ t[n + 4] = d
  BY <1>1, <1>5, <1>6
<1> QED BY <1>2, <1>3, <1>4, <1>7 DEF four

\* FlushData of PPMd8 writes the four digits of Low: what is written is as many digits as
\* the decoder has read when it has decoded the last symbol, and they stand on the
\* encoder's Low, inside its interval.
THEOREM FlushTells8 ==
    ASSUME Digital, Bottom, NEW rc, Kept8(rc)
    PROVE  LET bytes == R8!RangeEnc_FlushData(rc).out IN
           /\ bytes \in Seq(Digits) /\ Len(bytes) = Len(rc.out) + 4
           /\ At8(rc, bytes, 0) /\ 0 < rc.Range
<1> DEFINE low == rc.Low
           a == low \div R7!Top
           b == (low \div (Base * Base)) % Base
           c == (low \div Base) % Base
           d == low % Base
           n == Len(rc.out)
           e == rc.out \o <<a, b, c, d>>
           bytes == R8!RangeEnc_FlushData(rc).out
<1>1. /\ rc \in Encoders8 /\ low \in Nat /\ rc.Range \in Nat /\ rc.out \in Seq(Digits)
      /\ rc.Range # 0 /\ low + rc.Range <= R8!Full
  BY Fields8 DEF Kept8, Half8, Open8
<1>2. low < R7!Full
  <2>1. R7!Full \in Nat /\ R8!Full = R7!Full
    BY Sizes, Sizes8
  <2> QED BY <1>1, <2>1
<1>3. /\ a \in Digits /\ b \in Digits /\ c \in Digits /\ d \in Digits
      /\ low = ((a * Base + b) * Base + c) * Base + d
  BY <1>1, <1>2, DigitsOfLow
<1>4. bytes = e
  <2>1. R8!RangeEnc_FlushData(rc) = [rc EXCEPT !.out = e]
    BY Sizes8 DEF R8!RangeEnc_FlushData
  <2> HIDE DEF e
  <2> QED BY <1>1, <2>1 DEF Encoders8
<1> HIDE DEF a, b, c, d, bytes, low
<1>5. /\ e \in Seq(Digits) /\ Len(e) = n + 4 /\ n \in Nat
      /\ e[n + 1] = a /\ e[n + 2] = b /\ e[n + 3] = c /\ e[n + 4] = d
      /\ \A i \in 1..n : e[i] = rc.out[i]
  BY <1>1, <1>3, FourMore
<1> HIDE DEF e, n
<1>6. ASSUME NEW i \in 1..(n + 4) PROVE R7!Digit(e, i) = e[i]
  <2>1. i <= Len(e)
    BY <1>5, <1>6
  <2> QED BY <2>1 DEF R7!Digit
<1>7. Window(e, n) = low
  <2>1. n + 1 \in 1..(n + 4) /\ n + 2 \in 1..(n + 4) /\ n + 3 \in 1..(n + 4)
        /\ n + 4 \in 1..(n + 4)
    BY <1>5
  <2>2. /\ R7!Digit(e, n + 1) = a /\ R7!Digit(e, n + 2) = b
        /\ R7!Digit(e, n + 3) = c /\ R7!Digit(e, n + 4) = d
    BY <1>5, <1>6, <2>1
  <2>3. Window(e, n) = ((a * Base + b) * Base + c) * Base + d
    BY <2>2 DEF Window
  <2> QED BY <1>3, <2>3
<1>8. Prefix(rc, e)
  <2>1. ASSUME NEW i \in 1..n PROVE R7!Digit(e, i) = rc.out[i]
    <3>1. i \in 1..(n + 4)
      BY <1>5
    <3> QED BY <1>5, <1>6, <3>1
  <2> QED BY <2>1 DEF Prefix, n
<1>9. At8(rc, e, 0)
  <2>1. Window(e, Len(rc.out)) = rc.Low + 0
    BY <1>1, <1>7 DEF n, low
  <2> QED BY <1>8, <2>1 DEF At8
<1>10. 0 < rc.Range
  BY <1>1
<1> QED BY <1>4, <1>5, <1>9, <1>10 DEF bytes, n

===============================================================================
