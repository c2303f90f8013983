--------------------------- MODULE AudioCodecProofs ---------------------------
(***************************************************************************)
(* Proofs about AudioCodec, for blocks of any even length and whatever is  *)
(* captured: no code takes the prediction farther from the sample it       *)
(* stands for; the decoder makes of any block what the encoder predicted,  *)
(* in whatever order the blocks come; and the tables of u-law give back    *)
(* silence exactly and a tone within a twelfth; and in half a block of 160 *)
(* samples or more the prediction settles on a steady sample.              *)
(***************************************************************************)
EXTENDS AudioCodec, SequenceTheorems, FiniteSetTheorems, TLAPS

--------------------------------------------------------------------------------
(* Sixteen bits.                                                            *)

LEMMA ShortRange ==
    ASSUME NEW x
    PROVE  x \in Shorts <=> x \in Int /\ -32768 <= x /\ x <= 32767
<1>1. SHRT_MIN = -32768 /\ SHRT_MAX = 32767
  BY DEF SHRT_MIN, SHRT_MAX
<1>2. SHRT_MIN \in Int /\ SHRT_MAX \in Int
  BY <1>1
<1>3. x \in Shorts <=> x \in Int /\ SHRT_MIN <= x /\ x <= SHRT_MAX
  BY <1>2 DEF Shorts
<1> QED
  BY <1>1, <1>3

(* Cutting a number to a short changes it by a multiple of 2 ^ 16, and not  *)
(* at all if it is one.                                                     *)
LEMMA WrapShort ==
    ASSUME NEW x \in Int
    PROVE  /\ Wrap16(x) \in Shorts
           /\ x \in Shorts => Wrap16(x) = x
           /\ \E k \in Int : Wrap16(x) = x + 65536 * k
<1> DEFINE y == (x + 32768) % 65536
<1>1. /\ y \in Int /\ 0 <= y /\ y < 65536
      /\ -32768 <= x /\ x <= 32767 => y = x + 32768
      /\ y = x + 32768 - 65536 * ((x + 32768) \div 65536)
  OBVIOUS
<1>2. Wrap16(x) = y - 32768
  BY DEF Wrap16
<1>3. PICK k \in Int : k = - ((x + 32768) \div 65536)
  OBVIOUS
<1>4. y = x + 32768 + 65536 * k
  BY <1>1, <1>3
<1> HIDE DEF y
<1>5. Wrap16(x) \in Shorts
  BY <1>1, <1>2, ShortRange
<1>6. x \in Shorts => Wrap16(x) = x
  BY <1>1, <1>2, ShortRange
<1>7. Wrap16(x) = x + 65536 * k
  BY <1>1, <1>2, <1>4
<1> QED
  BY <1>5, <1>6, <1>7

(* On the circle of 16 bits a number is no longer than on the line.         *)
LEMMA WrapShorter ==
    ASSUME NEW x \in Int
    PROVE  /\ Abs(x) \in Nat
           /\ Abs(Wrap16(x)) \in Nat
           /\ Abs(Wrap16(x)) <= 32768
           /\ Abs(Wrap16(x)) <= Abs(x)
<1>1. PICK w : w = Wrap16(x)
  OBVIOUS
<1>2. /\ w \in Int /\ -32768 <= w /\ w <= 32767
      /\ -32768 <= x /\ x <= 32767 => w = x
  BY <1>1, WrapShort, ShortRange
<1>3. Abs(x) \in Nat /\ Abs(w) \in Nat /\ Abs(w) <= 32768 /\ Abs(w) <= Abs(x)
  BY <1>2 DEF Abs
<1> QED
  BY <1>1, <1>3

(* A move of the prediction, in quarters, that goes toward a sample at the  *)
(* distance d and not beyond it, takes the prediction no farther from it,   *)
(* although roundOff adds to it and the cast cuts toward zero.              *)
LEMMA MoveToward ==
    ASSUME NEW p \in Int, NEW d \in Int, NEW move \in Int,
           d >= 0 => 0 <= move /\ move <= 4 * d,
           d < 0 => 4 * d <= move /\ move <= 0,
           NEW quarters, quarters = 4 * p + move + IF move > 0 THEN 4 ELSE 0,
           NEW new, new = IF quarters < 0 THEN - ((- quarters) \div 4) ELSE quarters \div 4
    PROVE  new \in Int /\ Abs(d - (new - p)) <= Abs(d)
<1>1. CASE move > 0
  <2>1. quarters = 4 * p + move + 4 /\ d >= 1
    BY <1>1
  <2>2. new \in Int /\ new - p >= 1 /\ new - p <= d + 1
    BY <1>1, <2>1
  <2> QED
    BY <2>1, <2>2 DEF Abs
<1>2. CASE move <= 0
  <2>1. quarters = 4 * p + move
    BY <1>2
  <2>2. new \in Int /\ new - p <= 0 /\ 4 * (new - p) >= move - 3 /\ (d < 0 => new - p >= d)
        /\ (d >= 0 => new = p)
    BY <1>2, <2>1
  <2> QED
    BY <2>2 DEF Abs
<1> QED
  BY <1>1, <1>2

--------------------------------------------------------------------------------
(* Codes.                                                                   *)

(* A set of codes has a least one.                                          *)
LEMMA LeastCode ==
    ASSUME NEW S \in SUBSET (0 .. 6), S # {}
    PROVE  Min(S) \in S
<1>1. \E x \in S : \A y \in S : x <= y
  <2>1. \A y \in S : y = 0 \/ y = 1 \/ y = 2 \/ y = 3 \/ y = 4 \/ y = 5 \/ y = 6
    OBVIOUS
  <2>2. CASE 0 \in S
    BY <2>1, <2>2
  <2>3. CASE 0 \notin S /\ 1 \in S
    BY <2>1, <2>3
  <2>4. CASE 0 \notin S /\ 1 \notin S /\ 2 \in S
    BY <2>1, <2>4
  <2>5. CASE 0 \notin S /\ 1 \notin S /\ 2 \notin S /\ 3 \in S
    BY <2>1, <2>5
  <2>6. CASE 0 \notin S /\ 1 \notin S /\ 2 \notin S /\ 3 \notin S /\ 4 \in S
    BY <2>1, <2>6
  <2>7. CASE 0 \notin S /\ 1 \notin S /\ 2 \notin S /\ 3 \notin S /\ 4 \notin S /\ 5 \in S
    BY <2>1, <2>7
  <2>8. CASE 0 \notin S /\ 1 \notin S /\ 2 \notin S /\ 3 \notin S /\ 4 \notin S /\ 5 \notin S
    <3>1. \A y \in S : y = 6
      BY <2>1, <2>8
    <3>2. PICK x : x \in S
      OBVIOUS
    <3>3. \A y \in S : x <= y
      BY <3>1, <3>2
    <3> QED
      BY <3>2, <3>3
  <2> QED
    BY <2>2, <2>3, <2>4, <2>5, <2>6, <2>7, <2>8
<1> QED
  BY <1>1 DEF Min

(* quantize never says more quarters than fit.                              *)
LEMMA QuartersFit ==
    ASSUME NEW delta \in Int, NEW step \in Nat, step > 0
    PROVE  /\ quantize(delta, step) \in 0 .. 7
           /\ delta >= 0 => quantize(delta, step) * step <= 4 * delta
<1> DEFINE fit == {q \in 0 .. 6 : q * step <= 4 * delta /\ 4 * delta < (q + 1) * step}
<1>1. quantize(delta, step) = IF fit = {} THEN 7 ELSE Min(fit)
  BY DEF quantize
<1>2. CASE fit # {}
  <2>1. Min(fit) \in fit
    BY <1>2, LeastCode
  <2> QED
    BY <1>1, <1>2, <2>1
<1>3. CASE fit = {}
  <2>1. \A q \in 0 .. 6 : ~ (q * step <= 4 * delta /\ 4 * delta < (q + 1) * step)
    BY <1>3
  <2>2. delta >= 0 => 7 * step <= 4 * delta
    <3> SUFFICES ASSUME delta >= 0 PROVE 7 * step <= 4 * delta
      OBVIOUS
    <3>0. 0 + 1 = 1 /\ 1 + 1 = 2 /\ 2 + 1 = 3 /\ 3 + 1 = 4 /\ 4 + 1 = 5 /\ 5 + 1 = 6 /\ 6 + 1 = 7
      OBVIOUS
    <3>1. /\ ~ (0 * step <= 4 * delta /\ 4 * delta < 1 * step)
          /\ ~ (1 * step <= 4 * delta /\ 4 * delta < 2 * step)
          /\ ~ (2 * step <= 4 * delta /\ 4 * delta < 3 * step)
          /\ ~ (3 * step <= 4 * delta /\ 4 * delta < 4 * step)
          /\ ~ (4 * step <= 4 * delta /\ 4 * delta < 5 * step)
          /\ ~ (5 * step <= 4 * delta /\ 4 * delta < 6 * step)
          /\ ~ (6 * step <= 4 * delta /\ 4 * delta < 7 * step)
      BY <2>1, <3>0
    <3> QED
      BY <3>1
  <2> QED
    BY <1>1, <1>3, <2>2
<1> QED
  BY <1>2, <1>3

(* The table of steps.                                                      *)
LEMMA Steps == \A i \in 0 .. 88 : stepsize[i + 1] \in Nat /\ stepsize[i + 1] > 0
BY DEF stepsize

(* The less and the greater of two numbers.                                 *)
LEMMA LeastOfTwo ==
    ASSUME NEW i \in Int, NEW j \in Int
    PROVE  Min({i, j}) = IF i <= j THEN i ELSE j
<1>1. CASE i <= j
  <2>1. \A x \in {i, j} : (\A y \in {i, j} : x <= y) => x = i
    BY <1>1
  <2>2. i \in {i, j} /\ \A y \in {i, j} : i <= y
    BY <1>1
  <2> QED
    BY <1>1, <2>1, <2>2 DEF Min
<1>2. CASE ~ (i <= j)
  <2>1. \A x \in {i, j} : (\A y \in {i, j} : x <= y) => x = j
    BY <1>2
  <2>2. j \in {i, j} /\ \A y \in {i, j} : j <= y
    BY <1>2
  <2> QED
    BY <1>2, <2>1, <2>2 DEF Min
<1> QED
  BY <1>1, <1>2

LEMMA GreatestOfTwo ==
    ASSUME NEW i \in Int, NEW j \in Int
    PROVE  Max({i, j}) = IF i <= j THEN j ELSE i
<1>1. CASE i <= j
  <2>1. \A x \in {i, j} : (\A y \in {i, j} : x >= y) => x = j
    BY <1>1
  <2>2. j \in {i, j} /\ \A y \in {i, j} : j >= y
    BY <1>1
  <2> QED
    BY <1>1, <2>1, <2>2 DEF Max
<1>2. CASE ~ (i <= j)
  <2>1. \A x \in {i, j} : (\A y \in {i, j} : x >= y) => x = i
    BY <1>2
  <2>2. i \in {i, j} /\ \A y \in {i, j} : i >= y
    BY <1>2
  <2> QED
    BY <1>2, <2>1, <2>2 DEF Max
<1> QED
  BY <1>1, <1>2

(* The next predictor is one again.                                         *)
LEMMA NextPredictor ==
    ASSUME NEW state \in Predictor, NEW code \in Code
    PROVE  Next4(state, code) \in Predictor
<1>1. state.previous \in Int /\ state.index \in 0 .. 88
  <2>1. state.previous \in Shorts /\ state.index \in 0 .. 88
    BY DEF Predictor
  <2> QED
    BY <2>1, ShortRange
<1>2. PICK q \in 0 .. 7 : q = code % 8
  BY DEF Code
<1>3. PICK sign \in {-1, 1} : sign = IF code > 7 THEN -1 ELSE 1
  BY DEF Code
<1>4. PICK step \in Nat : step = stepsize[state.index + 1]
  BY <1>1, Steps
<1>5. Predict(state.previous, sign, step, q) \in Shorts
  <2>1. PICK move \in Int : move = sign * step * q
    OBVIOUS
  <2>2. PICK quarters \in Int : quarters = 4 * state.previous + move + IF move > 0 THEN 4 ELSE 0
    BY <1>1
  <2>3. PICK new \in Int : new = IF quarters < 0 THEN - ((- quarters) \div 4) ELSE quarters \div 4
    OBVIOUS
  <2>4. Predict(state.previous, sign, step, q) = Wrap16(new)
    BY <2>1, <2>2, <2>3 DEF Predict
  <2> QED
    BY <2>4, WrapShort
<1>6. Adjust(state.index, q) \in 0 .. 88
  <2>1. indexadjust[q + 1] \in -1 .. 8
    BY DEF indexadjust
  <2>2. PICK x \in Int : x = state.index + indexadjust[q + 1]
    BY <1>1, <2>1
  <2>3. Min({88, x}) = IF 88 <= x THEN 88 ELSE x
    BY LeastOfTwo
  <2>4. PICK y \in Int : y = Min({88, x}) /\ y <= 88
    BY <2>3
  <2>5. Max({0, y}) = IF 0 <= y THEN y ELSE 0
    BY GreatestOfTwo
  <2>6. Max({0, y}) \in 0 .. 88
    BY <2>4, <2>5
  <2> QED
    BY <2>2, <2>4, <2>6 DEF Adjust
<1>7. Next4(state, code) = [previous |-> Predict(state.previous, sign, step, q),
                             index |-> Adjust(state.index, q)]
  BY <1>2, <1>3, <1>4 DEF Next4
<1> QED
  BY <1>5, <1>6, <1>7 DEF Predictor

(* A code is one of four bits, with the sign of the distance in front.      *)
LEMMA CodeParts ==
    ASSUME NEW state \in Predictor, NEW sample \in Shorts
    PROVE  LET d == Wrap16(sample - state.previous)
               q == quantize(Wrap16(Abs(d)), stepsize[state.index + 1])
           IN  /\ Code4(state, sample) \in Code
               /\ Code4(state, sample) % 8 = q
               /\ Code4(state, sample) > 7 <=> d < 0
<1>1. sample - state.previous \in Int
  <2>1. state.previous \in Int /\ sample \in Int
    BY ShortRange DEF Predictor
  <2> QED
    BY <2>1
<1>2. PICK d \in Int : d = Wrap16(sample - state.previous)
  BY <1>1, WrapShort, ShortRange
<1>3. Wrap16(Abs(d)) \in Int
  BY <1>2, WrapShorter, WrapShort, ShortRange
<1>4. stepsize[state.index + 1] \in Nat /\ stepsize[state.index + 1] > 0
  BY Steps DEF Predictor
<1>5. PICK q \in 0 .. 7 : q = quantize(Wrap16(Abs(d)), stepsize[state.index + 1])
  BY <1>3, <1>4, QuartersFit
<1>6. Code4(state, sample) = q + IF d < 0 THEN 8 ELSE 0
  BY <1>2, <1>5 DEF Code4
<1>7. PICK c : c = Code4(state, sample)
  OBVIOUS
<1>8. c \in 0 .. 15 /\ c % 8 = q /\ (c > 7 <=> d < 0)
  BY <1>6, <1>7
<1> QED
  BY <1>2, <1>5, <1>7, <1>8 DEF Code

(* The code of a sample takes the prediction no farther from it.            *)
LEMMA CodeToward ==
    ASSUME NEW state \in Predictor, NEW sample \in Shorts
    PROVE  Abs(Wrap16(sample - Next4(state, Code4(state, sample)).previous))
               <= Abs(Wrap16(sample - state.previous))
<1>1. PICK p \in Int : p = state.previous
  BY ShortRange DEF Predictor
<1>2. PICK s \in Int : s = sample
  BY ShortRange
<1>3. PICK d \in Int : d = Wrap16(s - p) /\ -32768 <= d /\ d <= 32767
  BY WrapShort, ShortRange
<1>4. PICK step \in Nat : step = stepsize[state.index + 1] /\ step > 0
  BY Steps DEF Predictor
<1>5. PICK q : q = quantize(Wrap16(Abs(d)), step)
  OBVIOUS
<1>6. PICK sign \in {-1, 1} : sign = IF d < 0 THEN -1 ELSE 1
  OBVIOUS
<1>7. Next4(state, Code4(state, sample)).previous = Predict(p, sign, step, q)
  <2>1. /\ Code4(state, sample) % 8 = q
        /\ Code4(state, sample) > 7 <=> d < 0
    BY <1>1, <1>2, <1>3, <1>4, <1>5, CodeParts
  <2> QED
    BY <1>1, <1>4, <1>6, <2>1 DEF Next4
<1>8. Wrap16(Abs(d)) \in Int /\ (d # -32768 => Wrap16(Abs(d)) = Abs(d) /\ Abs(d) >= 0)
      /\ (d = -32768 => Abs(d) = 32768)
  <2>1. PICK a \in Int : a = Abs(d)
    BY WrapShorter
  <2>2. a >= 0 /\ (d # -32768 => a <= 32767) /\ (d = -32768 => a = 32768)
    BY <1>3, <2>1 DEF Abs
  <2>3. Wrap16(a) \in Int /\ (d # -32768 => Wrap16(a) = a)
    BY <2>2, WrapShort, ShortRange
  <2> QED
    BY <2>1, <2>2, <2>3
<1>9. q \in 0 .. 7 /\ (d # -32768 => q * step <= 4 * Abs(d))
  BY <1>4, <1>5, <1>8, QuartersFit
<1>10. PICK move \in Int : move = sign * step * q
  BY <1>9
<1>11. PICK quarters \in Int : quarters = 4 * p + move + IF move > 0 THEN 4 ELSE 0
  OBVIOUS
<1>12. PICK new \in Int : new = IF quarters < 0 THEN - ((- quarters) \div 4) ELSE quarters \div 4
  OBVIOUS
<1>13. Predict(p, sign, step, q) = Wrap16(new)
  BY <1>10, <1>11, <1>12 DEF Predict
<1>14. Wrap16(s - Wrap16(new)) = Wrap16(d - (new - p))
  <2>1. PICK k \in Int : Wrap16(new) = new + 65536 * k
    BY WrapShort
  <2>2. PICK j \in Int : d = s - p + 65536 * j
    BY <1>3, WrapShort
  <2>3. PICK rest \in Int : rest = d - (new - p)
    OBVIOUS
  <2>4. PICK i \in Int : i = - (j + k)
    OBVIOUS
  <2>5. s - Wrap16(new) = rest + 65536 * i
    BY <2>1, <2>2, <2>3, <2>4
  <2>6. Wrap16(rest + 65536 * i) = Wrap16(rest)
    BY DEF Wrap16
  <2> QED
    BY <2>3, <2>5, <2>6
<1>15. Abs(Wrap16(d - (new - p))) <= Abs(d)
  <2>1. CASE d = -32768
    BY <1>8, <2>1, WrapShorter
  <2>2. CASE d # -32768
    <3>1. 0 <= q * step /\ q * step <= 4 * Abs(d)
      BY <1>9, <2>2
    <3>2. (d >= 0 => 0 <= move /\ move <= 4 * d) /\ (d < 0 => 4 * d <= move /\ move <= 0)
      <4>1. PICK m \in Int : m = q * step
        BY <1>9
      <4>2. (d >= 0 => move = m) /\ (d < 0 => move = - m)
        BY <1>6, <1>9, <1>10, <4>1
      <4> QED
        BY <3>1, <4>1, <4>2 DEF Abs
    <3>3. Abs(d - (new - p)) <= Abs(d)
      BY <1>11, <1>12, <3>2, MoveToward
    <3>4. /\ Abs(Wrap16(d - (new - p))) \in Nat /\ Abs(d - (new - p)) \in Nat /\ Abs(d) \in Nat
          /\ Abs(Wrap16(d - (new - p))) <= Abs(d - (new - p))
      BY WrapShorter
    <3> QED
      BY <3>3, <3>4
  <2> QED
    BY <2>1, <2>2
<1> QED
  BY <1>1, <1>2, <1>3, <1>7, <1>13, <1>14, <1>15

--------------------------------------------------------------------------------
(* Bytes.                                                                   *)

(* What the table u2s holds is a short.                                     *)
LEMMA LinearShort ==
    ASSUME NEW b \in Bytes
    PROVE  u2s(b) \in Shorts
<1>1. ASSUME NEW k \in 0 .. 127 PROVE Level(k) \in Int /\ 0 <= Level(k) /\ Level(k) <= 8031
  <2>1. PICK place \in 0 .. 15 : place = k % 16
    OBVIOUS
  <2>2. PICK n \in 0 .. 7 : n = k \div 16
    OBVIOUS
  <2>3. PICK size : size = Segment[n + 1]
    OBVIOUS
  <2>4. \/ size = 1 \/ size = 2 \/ size = 4 \/ size = 8
        \/ size = 16 \/ size = 32 \/ size = 64 \/ size = 128
    BY <2>3 DEF Segment
  <2>5. Level(k) = (2 * place + 33) * size - 33
    BY <2>1, <2>2, <2>3 DEF Level
  <2> QED
    BY <2>4, <2>5
<1>2. ASSUME NEW level \in Int, 0 <= level, level <= 8031
      PROVE  /\ (32767 * level) \div 8158 \in Int
             /\ 0 <= (32767 * level) \div 8158 /\ (32767 * level) \div 8158 <= 32767
  BY <1>2
<1>3. CASE b > 127
  <2>1. 255 - b \in 0 .. 127 /\ b \in Int
    BY <1>3 DEF Bytes
  <2>2. PICK level \in Int : level = Level(255 - b) /\ 0 <= level /\ level <= 8031
    BY <1>1, <2>1
  <2>3. u2s(b) = (32767 * level) \div 8158
    BY <1>3, <2>2 DEF u2s
  <2> QED
    BY <1>2, <2>2, <2>3, ShortRange
<1>4. CASE ~ (b > 127)
  <2>1. 127 - b \in 0 .. 127 /\ b \in Int
    BY <1>4 DEF Bytes
  <2>2. PICK level \in Int : level = Level(127 - b) /\ 0 <= level /\ level <= 8031
    BY <1>1, <2>1
  <2>3. u2s(b) = - ((32767 * level) \div 8158)
    BY <1>4, <2>2 DEF u2s
  <2> QED
    BY <1>2, <2>2, <2>3, ShortRange
<1> QED
  BY <1>3, <1>4

(* A number of codes, signed, is a byte.                                    *)
LEMMA SignedByte ==
    ASSUME NEW S \in SUBSET (1 .. MaxCode), NEW positive
    PROVE  Signed(Cardinality(S), positive) \in Bytes
<1>0. MaxCode = 127
  BY DEF MaxCode
<1>1. IsFiniteSet(1 .. MaxCode) /\ Cardinality(1 .. MaxCode) = 127
  <2>1. MaxCode \in Int
    BY <1>0
  <2>2. IsFiniteSet(1 .. MaxCode)
        /\ Cardinality(1 .. MaxCode) = IF 1 > MaxCode THEN 0 ELSE MaxCode - 1 + 1
    BY <2>1, FS_Interval
  <2> QED
    BY <1>0, <2>2
<1>2. Cardinality(S) \in Nat /\ Cardinality(S) <= 127
  BY <1>1, FS_Subset, FS_CardinalityType
<1> QED
  BY <1>2 DEF Signed, Bytes

LEMMA HeardByte ==
    ASSUME NEW x
    PROVE  s2u(x) \in Bytes
<1>1. PICK centre : centre = 8 * (x \div 8) + 3
  OBVIOUS
<1> DEFINE S == {k \in 1 .. MaxCode : 32767 * Decision(k) <= 8158 * Abs(centre)}
<1>2. S \in SUBSET (1 .. MaxCode)
  OBVIOUS
<1>3. s2u(x) = Signed(Cardinality(S), centre > 0)
  BY <1>1 DEF s2u
<1> HIDE DEF S
<1> QED
  BY <1>2, <1>3, SignedByte

LEMMA ToneByte ==
    ASSUME NEW x
    PROVE  linear2ulaw(x) \in Bytes
<1> DEFINE magnitude == IF Abs(x) > CLIP THEN CLIP ELSE Abs(x)
           S == {k \in 1 .. MaxCode : 4 * Decision(k) <= magnitude}
           code == Signed(Cardinality(S), x >= 0)
<1>1. S \in SUBSET (1 .. MaxCode)
  OBVIOUS
<1>2. linear2ulaw(x) = IF code = 0 THEN 2 ELSE code
  BY DEF linear2ulaw
<1> HIDE DEF S
<1>3. code \in Bytes
  BY <1>1, SignedByte
<1> HIDE DEF code
<1>4. 2 \in Bytes
  BY DEF Bytes
<1> QED
  BY <1>2, <1>3, <1>4

(* A block's bytes hold its codes.                                          *)
LEMMA PackedCodes ==
    ASSUME NEW codes \in Seq(Code), Len(codes) = BlockLen
    PROVE  /\ Pack(codes) \in [1 .. BlockLen \div 2 -> Bytes]
           /\ \A n \in 1 .. BlockLen : CodeAt(Pack(codes), n) = codes[n]
<1>1. BlockLen \in Nat /\ BlockLen % 2 = 0
  BY BlockAssumption
<1>2. \A n \in 1 .. BlockLen : codes[n] \in Code
  BY ElementOfSeq
<1>3. \A i \in 1 .. BlockLen \div 2 : 2 * i - 1 \in 1 .. BlockLen /\ 2 * i \in 1 .. BlockLen
  BY <1>1
<1>4. Pack(codes) = [i \in 1 .. BlockLen \div 2 |-> 16 * codes[2 * i - 1] + codes[2 * i]]
  BY DEF Pack
<1>5. \A c, e \in Code : /\ 16 * c + e \in Bytes
                         /\ (16 * c + e) \div 16 = c /\ (16 * c + e) % 16 = e
  <2>1. SUFFICES ASSUME NEW c \in Code, NEW e \in Code
                 PROVE  /\ 16 * c + e \in Bytes
                        /\ (16 * c + e) \div 16 = c /\ (16 * c + e) % 16 = e
    OBVIOUS
  <2>2. c \in Int /\ 0 <= c /\ c <= 15 /\ e \in Int /\ 0 <= e /\ e <= 15
    BY DEF Code
  <2>3. 16 * c + e \in Bytes
    BY <2>2 DEF Bytes
  <2>4. (16 * c + e) \div 16 = c /\ (16 * c + e) % 16 = e
    BY <2>2
  <2> QED
    BY <2>3, <2>4
<1>6. Pack(codes) \in [1 .. BlockLen \div 2 -> Bytes]
  BY <1>2, <1>3, <1>4, <1>5
<1>7. ASSUME NEW n \in 1 .. BlockLen PROVE CodeAt(Pack(codes), n) = codes[n]
  <2>1. CASE n % 2 = 1
    <3>1. PICK i \in 1 .. BlockLen \div 2 : i = (n + 1) \div 2 /\ n = 2 * i - 1
      BY <1>1, <2>1
    <3>2. Pack(codes)[i] = 16 * codes[n] + codes[2 * i]
      BY <1>4, <3>1
    <3>3. Pack(codes)[i] \div 16 = codes[n]
      BY <1>2, <1>3, <1>5, <3>2
    <3> QED
      BY <2>1, <3>1, <3>3 DEF CodeAt
  <2>2. CASE n % 2 # 1
    <3>1. PICK i \in 1 .. BlockLen \div 2 : i = n \div 2 /\ n = 2 * i
      BY <1>1, <2>2
    <3>2. Pack(codes)[i] = 16 * codes[2 * i - 1] + codes[n]
      BY <1>4, <3>1
    <3>3. Pack(codes)[i] % 16 = codes[n]
      BY <1>2, <1>3, <1>5, <3>2
    <3> QED
      BY <2>2, <3>1, <3>3 DEF CodeAt
  <2> QED
    BY <2>1, <2>2
<1> QED
  BY <1>6, <1>7

--------------------------------------------------------------------------------
(* The tables of u-law.                                                     *)

(* Eight segments, each twice as coarse as the one before.                  *)
IsSize(size) ==
    \/ size = 1 \/ size = 2 \/ size = 4 \/ size = 8
    \/ size = 16 \/ size = 32 \/ size = 64 \/ size = 128

(* Where a code stands: its segment, its place in it, and the next code.    *)
LEMMA PlaceOf ==
    ASSUME NEW k \in 0 .. MaxCode
    PROVE  \E p \in 0 .. 15, n \in 0 .. 7, size \in Int :
               /\ k = 16 * n + p /\ size = Segment[n + 1] /\ IsSize(size)
               /\ Level(k) = (2 * p + 33) * size - 33
               /\ Decision(k) = (2 * p + 32) * size - 33
               /\ k # MaxCode => Decision(k + 1) = (2 * p + 34) * size - 33
<1>0. k \in Int /\ 0 <= k /\ k <= 127 /\ (k # MaxCode => k # 127)
  BY DEF MaxCode
<1>1. PICK p \in 0 .. 15, n \in 0 .. 7 : p = k % 16 /\ n = k \div 16 /\ k = 16 * n + p
  BY <1>0
<1>2. PICK size \in Int : size = Segment[n + 1] /\ IsSize(size)
  BY DEF Segment, IsSize
<1>3. Level(k) = (2 * p + 33) * size - 33 /\ Decision(k) = (2 * p + 32) * size - 33
  BY <1>1, <1>2 DEF Level, Decision
<1>4. ASSUME k # MaxCode PROVE Decision(k + 1) = (2 * p + 34) * size - 33
  <2>1. CASE p # 15
    <3>1. (k + 1) % 16 = p + 1 /\ (k + 1) \div 16 = n
      BY <1>0, <1>1, <2>1
    <3>2. Decision(k + 1) = (2 * (p + 1) + 32) * size - 33
      BY <1>2, <3>1 DEF Decision
    <3> QED
      BY <3>2
  <2>2. CASE p = 15
    <3>1. (k + 1) % 16 = 0 /\ (k + 1) \div 16 = n + 1 /\ n + 1 \in 1 .. 7
      BY <1>0, <1>1, <1>4, <2>2
    <3>2. Segment[n + 2] = 2 * size
      BY <1>2, <3>1 DEF Segment
    <3>3. Decision(k + 1) = (2 * 0 + 32) * (2 * size) - 33
      BY <3>1, <3>2 DEF Decision
    <3> QED
      BY <2>2, <3>3
  <2> QED
    BY <2>1, <2>2
<1> QED
  BY <1>1, <1>2, <1>3, <1>4

(* The greater the code, the greater the magnitudes it stands for.          *)
LEMMA DecisionGrows ==
    ASSUME NEW j \in 0 .. MaxCode, NEW k \in 0 .. MaxCode, j <= k
    PROVE  Decision(j) \in Int /\ Decision(k) \in Int /\ Decision(j) <= Decision(k)
<1>1. PICK p \in 0 .. 15, n \in 0 .. 7, size \in Int :
          /\ j = 16 * n + p /\ size = Segment[n + 1] /\ IsSize(size)
          /\ Decision(j) = (2 * p + 32) * size - 33
  BY PlaceOf
<1>2. PICK q \in 0 .. 15, m \in 0 .. 7, wide \in Int :
          /\ k = 16 * m + q /\ wide = Segment[m + 1] /\ IsSize(wide)
          /\ Decision(k) = (2 * q + 32) * wide - 33
  BY PlaceOf
<1>3. Decision(j) \in Int /\ Decision(k) \in Int
  BY <1>1, <1>2
<1>4. n < m \/ (n = m /\ p <= q)
  <2>1. 16 * n + p <= 16 * m + q
    BY <1>1, <1>2
  <2> QED
    BY <2>1
<1>5. CASE n = m /\ p <= q
  <2>1. wide = size
    BY <1>1, <1>2, <1>5
  <2> QED
    BY <1>1, <1>2, <1>3, <1>5, <2>1 DEF IsSize
<1>6. CASE n < m
  <2>1. wide >= 2 * size
    BY <1>1, <1>2, <1>6 DEF Segment
  <2>2. (2 * p + 32) * size <= 64 * size
    BY <1>1 DEF IsSize
  <2>3. (2 * q + 32) * wide >= 32 * wide
    BY <1>2 DEF IsSize
  <2> QED
    BY <1>1, <1>2, <1>3, <2>1, <2>2, <2>3
<1> QED
  BY <1>3, <1>4, <1>5, <1>6

(* How many codes begin at a magnitude or below it, on either scale.        *)
Start(scale, k) == scale * Decision(k)
CodesUpTo(scale, v) == {k \in 1 .. MaxCode : Start(scale, k) <= v}

LEMMA TimesGrows ==
    ASSUME NEW scale \in Nat, NEW a \in Int, NEW b \in Int, a <= b
    PROVE  scale * a \in Int /\ scale * b \in Int /\ scale * a <= scale * b
<1>1. PICK d \in Nat : d = b - a
  OBVIOUS
<1>2. scale * d \in Nat /\ scale * b = scale * a + scale * d
  BY <1>1
<1> QED
  BY <1>2

LEMMA CodesBelow ==
    ASSUME NEW scale \in Nat, NEW v \in Int, NEW k \in 0 .. MaxCode,
           k # 0 => Start(scale, k) <= v,
           k # MaxCode => v < Start(scale, k + 1)
    PROVE  Cardinality(CodesUpTo(scale, v)) = k
<1> DEFINE S == CodesUpTo(scale, v)
<1>0. S \subseteq 1 .. MaxCode /\ \A j \in 1 .. MaxCode : j \in S <=> Start(scale, j) <= v
  BY DEF CodesUpTo
<1> HIDE DEF S
<1>1. MaxCode \in Nat
  BY DEF MaxCode
<1>2. ASSUME NEW j \in 1 .. MaxCode, j <= k PROVE j \in S
  <2>1. PICK a \in Int, b \in Int : a = Decision(j) /\ b = Decision(k) /\ a <= b
    <3>1. j \in 0 .. MaxCode
      BY <1>1
    <3> QED
      BY <1>2, <3>1, DecisionGrows
  <2>2. scale * a <= scale * b
    BY <2>1, TimesGrows
  <2>3. k # 0
    BY <1>1, <1>2
  <2>4. scale * a <= v
    BY <2>1, <2>2, <2>3 DEF Start
  <2> QED
    BY <1>0, <1>1, <2>1, <2>4 DEF Start
<1>3. ASSUME NEW j \in 1 .. MaxCode, ~ (j <= k) PROVE j \notin S
  <2>1. k # MaxCode /\ k + 1 \in 0 .. MaxCode /\ k + 1 <= j
    BY <1>1, <1>3
  <2>2. PICK a \in Int, b \in Int : a = Decision(j) /\ b = Decision(k + 1) /\ b <= a
    <3>1. j \in 0 .. MaxCode
      BY <1>1
    <3> QED
      BY <2>1, <3>1, DecisionGrows
  <2>3. scale * a \in Int /\ scale * b \in Int /\ scale * b <= scale * a
    BY <2>2, TimesGrows
  <2>4. v < scale * b
    BY <2>1, <2>2 DEF Start
  <2>5. ~ (scale * a <= v)
    BY <2>3, <2>4
  <2> QED
    BY <1>0, <1>1, <2>2, <2>5 DEF Start
<1>4. S = 1 .. k
  <2>1. \A j \in 1 .. MaxCode : j \in S <=> j <= k
    BY <1>2, <1>3
  <2>2. \A j : j \in S => j \in 1 .. MaxCode
    BY <1>0
  <2>3. \A j : j \in 1 .. k <=> j \in 1 .. MaxCode /\ j <= k
    BY <1>1
  <2>4. S \subseteq 1 .. k /\ 1 .. k \subseteq S
    BY <2>1, <2>2, <2>3
  <2> QED
    BY <2>4
<1>5. Cardinality(1 .. k) = IF 1 > k THEN 0 ELSE k - 1 + 1
  BY FS_Interval
<1> QED
  BY <1>1, <1>4, <1>5 DEF S

(* What the table s2u has for a sample: the code of its eight's centre.     *)
Centre(x) == 8 * (x \div 8) + 3
Stretched(x) == 8158 * Abs(Centre(x))

LEMMA CodeOfSample ==
    ASSUME NEW x \in Int, NEW k \in 0 .. MaxCode,
           k # 0 => Start(32767, k) <= Stretched(x),
           k # MaxCode => Stretched(x) < Start(32767, k + 1)
    PROVE  s2u(x) = Signed(k, Centre(x) > 0)
<1>1. PICK v \in Int : v = Stretched(x)
  BY DEF Stretched, Centre, Abs
<1>2. PICK scale \in Nat : scale = 32767
  OBVIOUS
<1> DEFINE C == {j \in 1 .. MaxCode : 32767 * Decision(j) <= 8158 * Abs(Centre(x))}
<1>3. s2u(x) = Signed(Cardinality(C), Centre(x) > 0)
  BY DEF s2u, Centre
<1>4. C = CodesUpTo(scale, v)
  BY <1>1, <1>2 DEF CodesUpTo, Start, Stretched
<1> HIDE DEF C
<1>5. (k # 0 => Start(scale, k) <= v) /\ (k # MaxCode => v < Start(scale, k + 1))
  BY <1>1, <1>2
<1>6. Cardinality(CodesUpTo(scale, v)) = k
  BY <1>5, CodesBelow
<1>7. Cardinality(C) = k
  BY <1>4, <1>6
<1> QED
  BY <1>3, <1>7

(* The table s2u reads what the table u2s says: the centre is in the code   *)
(* the sample stands for.                                                   *)
Sample(p, size, sign) == sign * ((32767 * ((2 * p + 33) * size - 33)) \div 8158)
Begins(p, size) == 32767 * ((2 * p + 32) * size - 33)
Ends(p, size) == 32767 * ((2 * p + 34) * size - 33)

LEMMA NearLevel ==
    ASSUME NEW p \in 0 .. 15, NEW size \in Int, IsSize(size), size # 1 \/ p # 0,
           NEW sign \in {-1, 1}
    PROVE  /\ Sample(p, size, sign) \in Int
           /\ Centre(Sample(p, size, sign)) > 0 <=> sign = 1
           /\ Begins(p, size) <= Stretched(Sample(p, size, sign))
           /\ Stretched(Sample(p, size, sign)) < Ends(p, size)
<1>1. PICK y \in Int : y = (32767 * ((2 * p + 33) * size - 33)) \div 8158
  OBVIOUS
<1>2. PICK c \in Int : c = 8 * (y \div 8) + 3
  BY <1>1
<1>3. PICK d \in Int : d = - (8 * ((- y) \div 8) + 3)
  BY <1>1
<1> DEFINE Within(e) ==
             /\ e > 0
             /\ 32767 * ((2 * p + 32) * size - 33) <= 8158 * e
             /\ 8158 * e < 32767 * ((2 * p + 34) * size - 33)
<1>4. Within(c) /\ Within(d)
  <2>1. CASE size = 1
    BY <1>1, <1>2, <1>3, <2>1
  <2>2. CASE size = 2
    BY <1>1, <1>2, <1>3, <2>2
  <2>3. CASE size = 4
    BY <1>1, <1>2, <1>3, <2>3
  <2>4. CASE size = 8
    BY <1>1, <1>2, <1>3, <2>4
  <2>5. CASE size = 16
    BY <1>1, <1>2, <1>3, <2>5
  <2>6. CASE size = 32
    BY <1>1, <1>2, <1>3, <2>6
  <2>7. CASE size = 64
    BY <1>1, <1>2, <1>3, <2>7
  <2>8. CASE size = 128
    BY <1>1, <1>2, <1>3, <2>8
  <2> HIDE DEF Within
  <2> QED
    BY <2>1, <2>2, <2>3, <2>4, <2>5, <2>6, <2>7, <2>8 DEF IsSize
<1>5. PICK x \in Int : x = Sample(p, size, sign) /\ x = sign * y
  BY <1>1 DEF Sample
<1>6. CASE sign = 1
  <2>1. Centre(x) = c
    BY <1>2, <1>5, <1>6 DEF Centre
  <2>2. Stretched(x) = 8158 * c
    BY <1>4, <2>1 DEF Stretched, Abs
  <2> QED
    BY <1>4, <1>5, <1>6, <2>1, <2>2 DEF Begins, Ends
<1>7. CASE sign = -1
  <2>1. Centre(x) = 0 - d
    BY <1>3, <1>5, <1>7 DEF Centre
  <2>2. Stretched(x) = 8158 * d
    BY <1>4, <2>1 DEF Stretched, Abs
  <2> QED
    BY <1>4, <1>5, <1>7, <2>1, <2>2 DEF Begins, Ends
<1> QED
  BY <1>6, <1>7

(* u2s and s2u give back the byte, but the second zero as the first.        *)
LEMMA ByteKept ==
    ASSUME NEW b \in Bytes
    PROVE  s2u(u2s(b)) = IF b = 127 THEN 255 ELSE b
<1>1. b \in Int /\ 0 <= b /\ b <= 255
  BY DEF Bytes
<1>2. PICK k \in 0 .. MaxCode, sign \in {-1, 1} :
          /\ k \in Int
          /\ sign = 1 => b > 127 /\ b = 255 - k /\ k = 255 - b
          /\ sign = -1 => ~ (b > 127) /\ b = 127 - k /\ k = 127 - b
  <2>1. CASE b > 127
    <3>1. PICK k \in 0 .. MaxCode : k \in Int /\ k = 255 - b /\ b = 255 - k
      BY <1>1, <2>1 DEF MaxCode
    <3> QED
      BY <2>1, <3>1
  <2>2. CASE ~ (b > 127)
    <3>1. PICK k \in 0 .. MaxCode : k \in Int /\ k = 127 - b /\ b = 127 - k
      BY <1>1, <2>2 DEF MaxCode
    <3> QED
      BY <2>2, <3>1
  <2> QED
    BY <2>1, <2>2
<1>3. k = 0 => k # MaxCode
  BY DEF MaxCode
<1>4. PICK p \in 0 .. 15, n \in 0 .. 7, size \in Int :
          /\ k = 16 * n + p /\ size = Segment[n + 1] /\ IsSize(size)
          /\ Level(k) = (2 * p + 33) * size - 33
          /\ Decision(k) = (2 * p + 32) * size - 33
          /\ k # MaxCode => Decision(k + 1) = (2 * p + 34) * size - 33
  BY PlaceOf
<1>5. Start(32767, k) = Begins(p, size) /\ (k # MaxCode => Start(32767, k + 1) = Ends(p, size))
  BY <1>4 DEF Start, Begins, Ends
<1>6. PICK x \in Int : x = u2s(b) /\ x = Sample(p, size, sign)
  <2>1. PICK y \in Int : y = (32767 * Level(k)) \div 8158
    BY <1>4
  <2>2. u2s(b) = sign * y
    <3>1. CASE sign = 1
      <4>1. u2s(b) = (32767 * Level(255 - b)) \div 8158
        BY <1>2, <3>1 DEF u2s
      <4>2. u2s(b) = y
        BY <1>2, <2>1, <3>1, <4>1
      <4> QED
        BY <3>1, <4>2
    <3>2. CASE sign = -1
      <4>1. u2s(b) = - ((32767 * Level(127 - b)) \div 8158)
        BY <1>2, <3>2 DEF u2s
      <4>2. u2s(b) = - y
        BY <1>2, <2>1, <3>2, <4>1
      <4> QED
        BY <3>2, <4>2
    <3> QED
      BY <3>1, <3>2
  <2>3. Sample(p, size, sign) = sign * y
    BY <1>4, <2>1 DEF Sample
  <2> QED
    BY <2>2, <2>3
<1>7. CASE k = 0
  <2>1. size = 1 /\ p = 0
    <3>1. n = 0 /\ p = 0
      BY <1>4, <1>7
    <3> QED
      BY <1>4, <3>1 DEF Segment
  <2>2. x = 0
    <3>1. (2 * p + 33) * size - 33 = 0
      BY <2>1
    <3>2. (32767 * ((2 * p + 33) * size - 33)) \div 8158 = 0
      BY <3>1
    <3> QED
      BY <1>6, <3>2 DEF Sample
  <2>3. Centre(x) = 3 /\ Stretched(x) = 24474
    BY <2>2 DEF Centre, Stretched, Abs
  <2>4. Start(32767, k + 1) = 32767
    <3>1. Start(32767, k + 1) = Ends(p, size)
      BY <1>3, <1>5, <1>7
    <3>2. (2 * p + 34) * size - 33 = 1
      BY <2>1
    <3> QED
      BY <3>1, <3>2 DEF Ends
  <2>5. s2u(x) = Signed(k, Centre(x) > 0)
    BY <1>7, <2>3, <2>4, CodeOfSample
  <2>6. s2u(x) = 255
    BY <1>7, <2>3, <2>5 DEF Signed
  <2>7. b = 255 \/ b = 127
    <3>1. b = 255 - k \/ b = 127 - k
      BY <1>2
    <3> QED
      BY <1>7, <3>1
  <2> QED
    BY <1>6, <2>6, <2>7
<1>8. CASE k # 0
  <2>1. size # 1 \/ p # 0
    <3>1. n \in 1 .. 7 \/ p # 0
      BY <1>4, <1>8
    <3>2. \A i \in 1 .. 7 : Segment[i + 1] # 1
      BY DEF Segment
    <3> QED
      BY <1>4, <3>1, <3>2
  <2>2. /\ Centre(x) > 0 <=> sign = 1
        /\ Begins(p, size) <= Stretched(x) /\ Stretched(x) < Ends(p, size)
    BY <1>4, <1>6, <2>1, NearLevel
  <2>3. s2u(x) = Signed(k, Centre(x) > 0)
    <3>1. Start(32767, k) <= Stretched(x) /\ (k # MaxCode => Stretched(x) < Start(32767, k + 1))
      BY <1>5, <2>2
    <3> QED
      BY <3>1, CodeOfSample
  <2>4. s2u(x) = IF sign = 1 THEN 255 - k ELSE 127 - k
    BY <2>2, <2>3 DEF Signed
  <2>5. s2u(x) = b /\ b # 127
    <3>1. b = s2u(x)
      BY <1>2, <2>4
    <3>2. b # 127
      BY <1>2, <1>8
    <3> QED
      BY <3>1, <3>2
  <2> QED
    BY <1>6, <2>5
<1> QED
  BY <1>7, <1>8

(* The code of a tone's magnitude, and what u2s makes of it.                *)
HasTone(m) ==
    \E p \in 0 .. 15, n \in 0 .. 7, size \in Int :
        /\ size = Segment[n + 1] /\ IsSize(size)
        /\ 4 * ((2 * p + 32) * size - 33) <= m /\ m < 4 * ((2 * p + 34) * size - 33)

LEMMA TonePlace ==
    ASSUME NEW m \in Int, 0 <= m, m <= 32635
    PROVE  HasTone(m)
<1>1. \E n \in 0 .. 7, size \in Int :
          /\ size = Segment[n + 1] /\ IsSize(size)
          /\ 128 * size <= m + 132 /\ m + 132 < 256 * size
  <2>1. \E size \in Int : /\ IsSize(size)
                          /\ 128 * size <= m + 132 /\ m + 132 < 256 * size
    <3>1. CASE m + 132 < 256
      BY <3>1 DEF IsSize
    <3>2. CASE 256 <= m + 132 /\ m + 132 < 512
      BY <3>2 DEF IsSize
    <3>3. CASE 512 <= m + 132 /\ m + 132 < 1024
      BY <3>3 DEF IsSize
    <3>4. CASE 1024 <= m + 132 /\ m + 132 < 2048
      BY <3>4 DEF IsSize
    <3>5. CASE 2048 <= m + 132 /\ m + 132 < 4096
      BY <3>5 DEF IsSize
    <3>6. CASE 4096 <= m + 132 /\ m + 132 < 8192
      BY <3>6 DEF IsSize
    <3>7. CASE 8192 <= m + 132 /\ m + 132 < 16384
      BY <3>7 DEF IsSize
    <3>8. CASE 16384 <= m + 132
      BY <3>8 DEF IsSize
    <3> QED
      BY <3>1, <3>2, <3>3, <3>4, <3>5, <3>6, <3>7, <3>8
  <2>2. ASSUME NEW size \in Int, IsSize(size) PROVE \E n \in 0 .. 7 : size = Segment[n + 1]
    <3>1. /\ Segment[0 + 1] = 1 /\ Segment[1 + 1] = 2 /\ Segment[2 + 1] = 4 /\ Segment[3 + 1] = 8
          /\ Segment[4 + 1] = 16 /\ Segment[5 + 1] = 32 /\ Segment[6 + 1] = 64
          /\ Segment[7 + 1] = 128
      BY DEF Segment
    <3> QED
      BY <2>2, <3>1 DEF IsSize
  <2> QED
    BY <2>1, <2>2
<1>2. PICK n \in 0 .. 7, size \in Int :
          /\ size = Segment[n + 1] /\ IsSize(size)
          /\ 128 * size <= m + 132 /\ m + 132 < 256 * size
  BY <1>1
<1>3. \E p \in 0 .. 15 :
          4 * ((2 * p + 32) * size - 33) <= m /\ m < 4 * ((2 * p + 34) * size - 33)
  <2>1. CASE size = 1
    <3>1. (m + 132) \div 8 - 16 \in 0 .. 15
      BY <1>2, <2>1
    <3> QED
      BY <1>2, <2>1, <3>1
  <2>2. CASE size = 2
    <3>1. (m + 132) \div 16 - 16 \in 0 .. 15
      BY <1>2, <2>2
    <3> QED
      BY <1>2, <2>2, <3>1
  <2>3. CASE size = 4
    <3>1. (m + 132) \div 32 - 16 \in 0 .. 15
      BY <1>2, <2>3
    <3> QED
      BY <1>2, <2>3, <3>1
  <2>4. CASE size = 8
    <3>1. (m + 132) \div 64 - 16 \in 0 .. 15
      BY <1>2, <2>4
    <3> QED
      BY <1>2, <2>4, <3>1
  <2>5. CASE size = 16
    <3>1. (m + 132) \div 128 - 16 \in 0 .. 15
      BY <1>2, <2>5
    <3> QED
      BY <1>2, <2>5, <3>1
  <2>6. CASE size = 32
    <3>1. (m + 132) \div 256 - 16 \in 0 .. 15
      BY <1>2, <2>6
    <3> QED
      BY <1>2, <2>6, <3>1
  <2>7. CASE size = 64
    <3>1. (m + 132) \div 512 - 16 \in 0 .. 15
      BY <1>2, <2>7
    <3> QED
      BY <1>2, <2>7, <3>1
  <2>8. CASE size = 128
    <3>1. (m + 132) \div 1024 - 16 \in 0 .. 15
      BY <1>2, <2>8
    <3> QED
      BY <1>2, <2>8, <3>1
  <2> QED
    BY <1>2, <2>1, <2>2, <2>3, <2>4, <2>5, <2>6, <2>7, <2>8 DEF IsSize
<1> QED
  BY <1>2, <1>3 DEF HasTone

(* The byte trapped stands for less than the one it replaces, but not by    *)
(* too much.                                                                *)
LEMMA ToneWithin ==
    ASSUME NEW a \in Int, 0 <= a, a <= 32768,
           NEW m \in Int, m = IF a > 32635 THEN 32635 ELSE a,
           NEW p \in 0 .. 15, NEW size \in Int, IsSize(size),
           4 * ((2 * p + 32) * size - 33) <= m, m < 4 * ((2 * p + 34) * size - 33),
           NEW y \in Int, y = (32767 * ((2 * p + 33) * size - 33)) \div 8158
    PROVE  y - a <= 4 + a \div 12 /\ a - y <= 4 + a \div 12
<1>1. CASE size = 1
  BY <1>1
<1>2. CASE size = 2
  BY <1>2
<1>3. CASE size = 4
  BY <1>3
<1>4. CASE size = 8
  BY <1>4
<1>5. CASE size = 16
  BY <1>5
<1>6. CASE size = 32
  BY <1>6
<1>7. CASE size = 64
  BY <1>7
<1>8. CASE size = 128
  BY <1>8
<1> QED
  BY <1>1, <1>2, <1>3, <1>4, <1>5, <1>6, <1>7, <1>8 DEF IsSize

(* What linear2ulaw makes of a sample, before the trap.                     *)
Magnitude(x) == IF Abs(x) > CLIP THEN CLIP ELSE Abs(x)

LEMMA CodeOfTone ==
    ASSUME NEW x \in Int, NEW k \in 0 .. MaxCode,
           k # 0 => Start(4, k) <= Magnitude(x),
           k # MaxCode => Magnitude(x) < Start(4, k + 1)
    PROVE  linear2ulaw(x) = IF Signed(k, x >= 0) = 0 THEN 2 ELSE Signed(k, x >= 0)
<1>0. PICK m \in Int : m = Magnitude(x)
  BY DEF Magnitude, Abs, CLIP
<1>1. PICK scale \in Nat : scale = 4
  OBVIOUS
<1> DEFINE C == {j \in 1 .. MaxCode : 4 * Decision(j) <= Magnitude(x)}
<1>2. linear2ulaw(x) = IF Signed(Cardinality(C), x >= 0) = 0 THEN 2
                       ELSE Signed(Cardinality(C), x >= 0)
  BY DEF linear2ulaw, Magnitude
<1>3. C = CodesUpTo(scale, m)
  BY <1>0, <1>1 DEF CodesUpTo, Start
<1> HIDE DEF C
<1>4. (k # 0 => Start(scale, k) <= m) /\ (k # MaxCode => m < Start(scale, k + 1))
  BY <1>0, <1>1
<1>5. Cardinality(CodesUpTo(scale, m)) = k
  BY <1>4, CodesBelow
<1>6. Cardinality(C) = k
  BY <1>3, <1>5
<1> QED
  BY <1>2, <1>6

(* Read with the table u2s, the byte of a sample is near it.                *)
LEMMA ToneNear ==
    ASSUME NEW x \in Shorts
    PROVE  Abs(u2s(linear2ulaw(x)) - x) <= 4 + Abs(x) \div 12
<1>1. x \in Int /\ -32768 <= x /\ x <= 32767
  BY ShortRange
<1>2. PICK a \in Int : /\ a = Abs(x) /\ 0 <= a /\ a <= 32768
                       /\ x >= 0 => a = x
                       /\ x < 0 => x + a = 0
  BY <1>1 DEF Abs
<1>3. PICK m \in Int : /\ m = Magnitude(x) /\ m = IF a > 32635 THEN 32635 ELSE a
                       /\ 0 <= m /\ m <= 32635
  BY <1>2 DEF Magnitude, CLIP
<1>4. PICK p \in 0 .. 15, n \in 0 .. 7, size \in Int :
          /\ size = Segment[n + 1] /\ IsSize(size)
          /\ 4 * ((2 * p + 32) * size - 33) <= m /\ m < 4 * ((2 * p + 34) * size - 33)
  <2>1. 0 <= m /\ m <= 32635
    BY <1>3
  <2>2. HasTone(m)
    BY <2>1, TonePlace
  <2> QED
    BY <2>2 DEF HasTone
<1>5. PICK k \in 0 .. MaxCode : k \in Int /\ k = 16 * n + p /\ k <= 127
  BY DEF MaxCode
<1>6. /\ Level(k) = (2 * p + 33) * size - 33
      /\ Decision(k) = (2 * p + 32) * size - 33
      /\ k # MaxCode => Decision(k + 1) = (2 * p + 34) * size - 33
  <2>1. PICK q \in 0 .. 15, o \in 0 .. 7, wide \in Int :
          /\ k = 16 * o + q /\ wide = Segment[o + 1] /\ IsSize(wide)
          /\ Level(k) = (2 * q + 33) * wide - 33
          /\ Decision(k) = (2 * q + 32) * wide - 33
          /\ k # MaxCode => Decision(k + 1) = (2 * q + 34) * wide - 33
    BY PlaceOf
  <2>2. q = p /\ o = n
    BY <1>5, <2>1
  <2> QED
    BY <1>4, <2>1, <2>2
<1>7. PICK y \in Int : /\ y = (32767 * Level(k)) \div 8158
                       /\ y - a <= 4 + a \div 12 /\ a - y <= 4 + a \div 12
  <2>1. PICK y \in Int : y = (32767 * ((2 * p + 33) * size - 33)) \div 8158
    BY <1>4
  <2>2. y - a <= 4 + a \div 12 /\ a - y <= 4 + a \div 12
    BY <1>2, <1>3, <1>4, <2>1, ToneWithin
  <2> QED
    BY <1>6, <2>1, <2>2
<1>8. PICK code : code = Signed(k, x >= 0)
  OBVIOUS
<1>9. linear2ulaw(x) = IF code = 0 THEN 2 ELSE code
  <2>1. Start(4, k) <= Magnitude(x) /\ (k # MaxCode => Magnitude(x) < Start(4, k + 1))
    BY <1>3, <1>4, <1>6 DEF Start
  <2>2. linear2ulaw(x) = IF Signed(k, x >= 0) = 0 THEN 2 ELSE Signed(k, x >= 0)
    BY <1>1, <2>1, CodeOfTone
  <2> QED
    BY <1>8, <2>2
<1>10. CASE x >= 0
  <2>1. code = 255 - k /\ code > 127 /\ 255 - code = k
    BY <1>5, <1>8, <1>10 DEF Signed
  <2>2. linear2ulaw(x) = code
    BY <1>5, <1>9, <2>1
  <2>3. u2s(code) = (32767 * Level(255 - code)) \div 8158
    BY <2>1 DEF u2s
  <2>4. u2s(code) = y
    BY <1>7, <2>1, <2>3
  <2>5. Abs(y - x) <= 4 + a \div 12
    BY <1>2, <1>7, <1>10 DEF Abs
  <2> QED
    BY <1>2, <2>2, <2>4, <2>5
<1>11. CASE x < 0
  <2>1. code = 127 - k /\ ~ (code > 127) /\ 127 - code = k
    BY <1>1, <1>5, <1>8, <1>11 DEF Signed
  <2>2. CASE code # 0
    <3>1. linear2ulaw(x) = code
      BY <1>9, <2>2
    <3>2. u2s(code) = - ((32767 * Level(127 - code)) \div 8158)
      BY <2>1 DEF u2s
    <3>3. PICK z \in Int : z = u2s(code) /\ z = - y
      BY <1>7, <2>1, <3>2
    <3>4. z - x = a - y
      BY <1>1, <1>2, <1>7, <1>11, <3>3
    <3>5. Abs(z - x) <= 4 + a \div 12
      BY <1>1, <1>2, <1>7, <3>3, <3>4 DEF Abs
    <3> QED
      BY <1>2, <3>1, <3>3, <3>5
  <2>3. CASE code = 0
    <3>1. k = 127
      BY <1>5, <2>1, <2>3
    <3>2. p = 15 /\ n = 7
      BY <1>5, <3>1
    <3>3. size = 128
      BY <1>4, <3>2 DEF Segment
    <3>4. a >= 4 * ((2 * 15 + 32) * 128 - 33)
      BY <1>3, <1>4, <3>2, <3>3
    <3>5. Level(127 - 2) = 7519
      <4>1. (127 - 2) % 16 = 13 /\ (127 - 2) \div 16 = 7
        OBVIOUS
      <4> QED
        BY <4>1 DEF Level, Segment
    <3>6. PICK z \in Int : z = u2s(2) /\ z = -30200
      BY <3>5 DEF u2s
    <3>7. linear2ulaw(x) = 2
      BY <1>9, <2>3
    <3>8. z - x = a - 30200
      BY <1>1, <1>2, <1>11, <3>6
    <3>9. Abs(z - x) <= 4 + a \div 12
      BY <1>1, <1>2, <3>4, <3>6, <3>8 DEF Abs
    <3> QED
      BY <1>2, <3>6, <3>7, <3>9
  <2> QED
    BY <2>2, <2>3
<1> QED
  BY <1>1, <1>10, <1>11

--------------------------------------------------------------------------------
(* The invariant.                                                           *)

(* The predictor after n codes of a block.                                  *)
StateAt(first, states, n) == IF n = 0 THEN adpcm_set(first, 0) ELSE states[n]

(* The encoder has made so far from each sample a code, and from the code   *)
(* a predictor.                                                             *)
CodingInv ==
    Coding =>
        /\ Len(coding.codes) <= BlockLen
        /\ Len(coding.states) = Len(coding.codes)
        /\ stateEnc = StateAt(coding.samples[1], coding.states, Len(coding.codes))
        /\ \A n \in 1 .. Len(coding.codes) :
               LET before == StateAt(coding.samples[1], coding.states, n - 1)
               IN  /\ coding.codes[n] = Code4(before, coding.samples[n + 1])
                   /\ coding.states[n] = Next4(before, coding.codes[n])

(* A block's predictors follow from what is sent of it.                     *)
BlockInv(block) ==
    /\ block.stepsizeIndex = 0
    /\ \A n \in 1 .. BlockLen :
           block.states[n] =
               Next4(StateAt(block.first, block.states, n - 1), CodeAt(block.data, n))

(* The decoder is where the encoder was after as many codes.                *)
HeardInv(block) ==
    /\ Len(heard.samples) \in 1 .. BlockLen + 1
    /\ stateDec = StateAt(block.first, block.states, Len(heard.samples) - 1)
    /\ \A n \in 1 .. Len(heard.samples) :
           heard.samples[n] = StateAt(block.first, block.states, n - 1).previous
    /\ heard.bytes = <<>> \/ Len(heard.samples) = BlockLen + 1

CodecInv ==
    /\ CodecTypeOK
    /\ CodingInv
    /\ \A block \in blocks : BlockInv(block)
    /\ \A block \in heard.block : heard.block = {block} /\ HeardInv(block)
    /\ heard.block = {} => heard.samples = <<>>
    /\ heard.bytes = <<>> \/ Len(heard.bytes) = Len(heard.samples)

--------------------------------------------------------------------------------
(* Each step keeps the invariant.                                           *)

(* Sequences of sounds.                                                     *)
LEMMA LinearBlock ==
    ASSUME NEW bytes \in Sound(Bytes)
    PROVE  /\ Linear(bytes) \in Sound(Shorts)
           /\ Linear(bytes)[1] \in Shorts
<1>1. BlockLen \in Nat /\ BlockLen + 1 \in Nat
  BY BlockAssumption
<1>2. bytes \in Seq(Bytes) /\ Len(bytes) = BlockLen + 1
  BY <1>1 DEF Sound
<1>3. Linear(bytes) = [i \in 1 .. BlockLen + 1 |-> u2s(bytes[i])]
  BY <1>2 DEF Linear
<1>4. \A i \in 1 .. BlockLen + 1 : u2s(bytes[i]) \in Shorts
  BY LinearShort DEF Sound
<1>5. 1 \in 1 .. BlockLen + 1
  BY <1>1
<1> QED
  BY <1>3, <1>4, <1>5 DEF Sound

LEMMA ToneBlock ==
    ASSUME NEW tone \in Sound(Shorts)
    PROVE  [i \in 1 .. Len(tone) |-> linear2ulaw(tone[i])] \in Sound(Bytes)
<1>1. BlockLen + 1 \in Nat
  BY BlockAssumption
<1>2. tone \in Seq(Shorts) /\ Len(tone) = BlockLen + 1
  BY <1>1 DEF Sound
<1>3. \A i \in 1 .. BlockLen + 1 : linear2ulaw(tone[i]) \in Bytes
  BY ToneByte
<1> QED
  BY <1>2, <1>3 DEF Sound

LEMMA FirstPredictor ==
    ASSUME NEW first \in Shorts
    PROVE  adpcm_set(first, 0) \in Predictor
<1>1. 0 \in 0 .. 88
  OBVIOUS
<1> QED
  BY <1>1 DEF adpcm_set, Predictor

LEMMA StartSound == CodecInit => CodecInv
<1> SUFFICES ASSUME CodecInit PROVE CodecInv
  OBVIOUS
<1> USE DEF CodecInit
<1>1. 0 \in Shorts
  BY ShortRange
<1>2. ~ Coding
  BY DEF Coding
<1>3. CodecTypeOK
  <2>1. stateEnc \in Predictor /\ stateDec \in Predictor
    BY <1>1, FirstPredictor
  <2>2. heard \in [block : SUBSET blocks, samples : Seq(Shorts), bytes : Seq(Bytes)]
    <3>1. <<>> \in Seq(Shorts) /\ <<>> \in Seq(Bytes)
      BY EmptySeq
    <3> QED
      BY <3>1 DEF Silent
  <2> QED
    BY <2>1, <2>2 DEF CodecTypeOK
<1>4. CodingInv
  BY <1>2 DEF CodingInv
<1>5. heard.block = {} /\ heard.samples = <<>> /\ heard.bytes = <<>> /\ blocks = {}
  BY DEF Silent
<1> QED
  BY <1>3, <1>4, <1>5 DEF CodecInv

(* What an encoder step leaves as it is.                                    *)
LEMMA HeardStays ==
    ASSUME CodecInv, heard' = heard, stateDec' = stateDec,
           \A block \in blocks' : BlockInv(block), CodecTypeOK', CodingInv'
    PROVE  CodecInv'
<1>1. ASSUME NEW block \in heard.block PROVE heard.block = {block} /\ HeardInv(block)'
  <2>1. heard.block = {block} /\ HeardInv(block)
    BY <1>1 DEF CodecInv
  <2> QED
    BY <2>1 DEF HeardInv
<1> QED
  BY <1>1 DEF CodecInv

(* A new block.                                                             *)
LEMMA EncodeKeeps ==
    ASSUME CodecInv, NEW bytes \in Sound(Bytes), NEW tone \in {<<>>} \cup Sound(Shorts),
           Encode(bytes, tone)
    PROVE  CodecInv'
<1>1. PICK samples \in Sound(Shorts) : samples = Linear(bytes)
  BY LinearBlock
<1>2. samples[1] \in Shorts
  BY <1>1, LinearBlock
<1>3. coding' = [bytes |-> bytes, tone |-> tone, samples |-> samples,
                 codes |-> <<>>, states |-> <<>>]
  BY <1>1 DEF Encode, NoBlock
<1>4. stateEnc' = adpcm_set(samples[1], 0) /\ stateEnc' \in Predictor
  BY <1>1, <1>2, FirstPredictor DEF Encode
<1>5. heard' = [block |-> {}, samples |-> <<>>, bytes |-> <<>>]
  BY DEF Encode, Silent
<1>6. CodecTypeOK'
  <2>1. left' \in 0 .. MaxBlocks
    BY BlockAssumption DEF Encode, CodecInv, CodecTypeOK
  <2>2. stateEnc' \in Predictor /\ stateDec' \in Predictor /\ (blocks \subseteq Blocks)'
    BY <1>4 DEF Encode, CodecInv, CodecTypeOK
  <2>3. coding' \in Drafts
    <3>1. <<>> \in Seq(Code) /\ <<>> \in Seq(Predictor)
      BY EmptySeq
    <3> QED
      BY <1>3, <3>1 DEF Drafts
  <2>4. heard' \in [block : SUBSET blocks', samples : Seq(Shorts), bytes : Seq(Bytes)]
    <3>1. <<>> \in Seq(Shorts) /\ <<>> \in Seq(Bytes)
      BY EmptySeq
    <3> QED
      BY <1>5, <3>1
  <2> QED
    BY <2>1, <2>2, <2>3, <2>4 DEF CodecTypeOK
<1>7. CodingInv'
  <2>1. Len(coding'.codes) = 0 /\ Len(coding'.states) = 0
    BY <1>3
  <2>3. 1 .. 0 = {} /\ 0 <= BlockLen
    BY BlockAssumption
  <2>2. stateEnc' = StateAt(coding'.samples[1], coding'.states, 0)
    BY <1>3, <1>4 DEF StateAt
  <2> QED
    BY <2>1, <2>2, <2>3 DEF CodingInv
<1>8. (\A block \in blocks : BlockInv(block))'
  BY DEF Encode, CodecInv
<1>9. heard'.block = {} /\ heard'.samples = <<>> /\ heard'.bytes = <<>>
  BY <1>5
<1> QED
  BY <1>6, <1>7, <1>8, <1>9 DEF CodecInv

(* A sample.                                                                *)
LEMMA SampleKeeps ==
    ASSUME CodecInv, EncodeSample
    PROVE  CodecInv'
<1> DEFINE N == Len(coding.codes)
           first == coding.samples[1]
<1>1. /\ Coding /\ N < BlockLen /\ N \in Nat /\ BlockLen \in Nat
      /\ coding \in Drafts
  BY BlockAssumption DEF EncodeSample, CodecInv, CodecTypeOK, Coding, Drafts
<1>2. /\ coding.codes \in Seq(Code) /\ coding.states \in Seq(Predictor)
      /\ coding.samples \in Sound(Shorts)
  BY <1>1 DEF Drafts
<1>3. /\ Len(coding.states) = N /\ stateEnc \in Predictor
      /\ stateEnc = StateAt(first, coding.states, N)
  BY <1>1 DEF CodecInv, CodecTypeOK, CodingInv
<1>4. coding.samples[N + 2] \in Shorts
  BY <1>1, <1>2 DEF Sound
<1>5. PICK code \in Code : code = Code4(stateEnc, coding.samples[N + 2])
  BY <1>3, <1>4, CodeParts
<1>6. PICK next \in Predictor : next = Next4(stateEnc, code)
  BY <1>3, NextPredictor
<1>7. stateEnc' = next
  BY <1>5, <1>6 DEF EncodeSample
<1>8. PICK codes \in Seq(Code) : codes = Append(coding.codes, code)
  BY <1>2, AppendProperties
<1>9. PICK states \in Seq(Predictor) : states = Append(coding.states, next)
  BY <1>2, AppendProperties
<1>10. coding' = [coding EXCEPT !.codes = codes, !.states = states]
  BY <1>5, <1>7, <1>8, <1>9 DEF EncodeSample
<1>11. /\ Len(codes) = N + 1 /\ Len(states) = N + 1
       /\ codes[N + 1] = code /\ states[N + 1] = next
       /\ \A n \in 1 .. N : codes[n] = coding.codes[n] /\ states[n] = coding.states[n]
  BY <1>2, <1>3, <1>8, <1>9, AppendProperties
<1>12. /\ coding' \in Drafts /\ coding'.codes = codes /\ coding'.states = states
       /\ coding'.samples = coding.samples
  BY <1>1, <1>10 DEF Drafts
<1>13. CodecTypeOK'
  <2>1. stateEnc' \in Predictor
    BY <1>7
  <2>2. left' \in 0 .. MaxBlocks /\ stateDec' \in Predictor /\ (blocks \subseteq Blocks)'
    BY DEF EncodeSample, CodecInv, CodecTypeOK
  <2>3. heard' \in [block : SUBSET blocks', samples : Seq(Shorts), bytes : Seq(Bytes)]
    BY DEF EncodeSample, CodecInv, CodecTypeOK
  <2> QED
    BY <1>12, <2>1, <2>2, <2>3 DEF CodecTypeOK
<1>14. CodingInv'
  <2>1. Len(coding'.codes) = N + 1 /\ Len(coding'.states) = N + 1 /\ N + 1 <= BlockLen
    BY <1>1, <1>11, <1>12
  <2>2. stateEnc' = StateAt(first, states, N + 1)
    BY <1>1, <1>7, <1>11 DEF StateAt
  <2>3. ASSUME NEW n \in 1 .. N + 1
        PROVE  /\ codes[n] = Code4(StateAt(first, states, n - 1), coding.samples[n + 1])
               /\ states[n] = Next4(StateAt(first, states, n - 1), codes[n])
    <3>1. StateAt(first, states, n - 1) = StateAt(first, coding.states, n - 1)
      BY <1>1, <1>11 DEF StateAt
    <3>2. CASE n = N + 1
      <4>1. n - 1 = N /\ n + 1 = N + 2
        BY <1>1, <3>2
      <4> QED
        BY <1>3, <1>5, <1>6, <1>11, <3>1, <3>2, <4>1
    <3>3. CASE n # N + 1
      <4>1. n \in 1 .. N
        BY <1>1, <3>3
      <4>2. /\ coding.codes[n] = Code4(StateAt(first, coding.states, n - 1), coding.samples[n + 1])
            /\ coding.states[n] = Next4(StateAt(first, coding.states, n - 1), coding.codes[n])
        BY <1>1, <4>1 DEF CodecInv, CodingInv
      <4> QED
        BY <1>11, <3>1, <4>1, <4>2
    <3> QED
      BY <3>2, <3>3
  <2> QED
    BY <1>12, <2>1, <2>2, <2>3 DEF CodingInv
<1>15. /\ heard' = heard /\ stateDec' = stateDec /\ \A block \in blocks' : BlockInv(block)
  BY DEF EncodeSample, CodecInv
<1> QED
  BY <1>13, <1>14, <1>15, HeardStays

(* The block is complete.                                                   *)
LEMMA SentKeeps ==
    ASSUME CodecInv, EncodeEnds
    PROVE  CodecInv'
<1> DEFINE first == coding.samples[1]
<1>1. /\ Coding /\ Len(coding.codes) = BlockLen /\ Len(coding.states) = BlockLen
      /\ coding \in Drafts /\ BlockLen \in Nat
  BY BlockAssumption DEF EncodeEnds, CodecInv, CodecTypeOK, CodingInv, Coding
<1>2. /\ coding.codes \in Seq(Code) /\ coding.states \in Seq(Predictor)
      /\ coding.samples \in Sound(Shorts) /\ coding.bytes \in Sound(Bytes)
  BY <1>1 DEF Drafts
<1>3. PICK data \in [1 .. BlockLen \div 2 -> Bytes] : data = Pack(coding.codes)
  BY <1>1, <1>2, PackedCodes
<1>4. \A n \in 1 .. BlockLen : CodeAt(data, n) = coding.codes[n]
  BY <1>1, <1>2, <1>3, PackedCodes
<1>5. PICK sent : sent = [first |-> first, stepsizeIndex |-> 0, data |-> data,
                          bytes |-> coding.bytes, states |-> coding.states]
  OBVIOUS
<1>6. blocks' = blocks \cup {sent}
  BY <1>3, <1>5 DEF EncodeEnds
<1>7. sent \in Blocks
  <2>1. first \in Shorts
    BY <1>1, <1>2 DEF Sound
  <2>2. coding.states \in [1 .. BlockLen -> Predictor]
    BY <1>1, <1>2
  <2>3. 0 \in 0 .. 88
    OBVIOUS
  <2> QED
    BY <1>2, <1>5, <2>1, <2>2, <2>3 DEF Blocks
<1>8. BlockInv(sent)
  <2>1. \A n \in 1 .. BlockLen :
           coding.states[n] = Next4(StateAt(first, coding.states, n - 1), coding.codes[n])
    BY <1>1 DEF CodecInv, CodingInv
  <2>2. /\ sent.states = coding.states /\ sent.first = first /\ sent.data = data
        /\ sent.stepsizeIndex = 0
    BY <1>5
  <2> QED
    BY <1>4, <2>1, <2>2 DEF BlockInv
<1>9. \A block \in blocks' : BlockInv(block)
  BY <1>6, <1>8 DEF CodecInv
<1>10. CodecTypeOK'
  <2>1. coding' = NoBlock /\ left' \in 0 .. MaxBlocks /\ stateEnc' \in Predictor
        /\ stateDec' \in Predictor
    BY DEF EncodeEnds, CodecInv, CodecTypeOK
  <2>2. (blocks \subseteq Blocks)'
    BY <1>6, <1>7 DEF CodecInv, CodecTypeOK
  <2>3. heard' \in [block : SUBSET blocks', samples : Seq(Shorts), bytes : Seq(Bytes)]
    <3>1. heard \in [block : SUBSET blocks, samples : Seq(Shorts), bytes : Seq(Bytes)]
      BY DEF CodecInv, CodecTypeOK
    <3>2. heard' = heard
      BY DEF EncodeEnds
    <3> QED
      BY <1>6, <3>1, <3>2
  <2> QED
    BY <2>1, <2>2, <2>3 DEF CodecTypeOK
<1>11. CodingInv'
  BY DEF EncodeEnds, CodingInv, Coding
<1>12. heard' = heard /\ stateDec' = stateDec
  BY DEF EncodeEnds
<1> QED
  BY <1>9, <1>10, <1>11, <1>12, HeardStays

(* What a decoder step leaves as it is.                                     *)
LEMMA CodingStays ==
    ASSUME CodecInv, UNCHANGED <<left, stateEnc, coding, blocks>>, stateDec' \in Predictor,
           heard' \in [block : SUBSET blocks, samples : Seq(Shorts), bytes : Seq(Bytes)]
    PROVE  CodecTypeOK' /\ CodingInv' /\ (\A block \in blocks' : BlockInv(block))
<1>1. CodecTypeOK'
  BY DEF CodecInv, CodecTypeOK
<1>2. CodingInv'
  BY DEF CodecInv, CodingInv, Coding
<1> QED
  BY <1>1, <1>2 DEF CodecInv

(* A code of four bits is read.                                             *)
LEMMA ReadCode ==
    ASSUME NEW block \in Blocks, NEW n \in 1 .. BlockLen
    PROVE  CodeAt(block.data, n) \in Code
<1>1. BlockLen \in Nat /\ BlockLen % 2 = 0
  BY BlockAssumption
<1>2. \A i \in 1 .. BlockLen \div 2 : block.data[i] \in Bytes
  BY DEF Blocks
<1>3. \A b \in Bytes : b \div 16 \in Code /\ b % 16 \in Code
  BY DEF Bytes, Code
<1>4. CASE n % 2 = 1
  <2>1. (n + 1) \div 2 \in 1 .. BlockLen \div 2
    BY <1>1, <1>4
  <2> QED
    BY <1>2, <1>3, <1>4, <2>1 DEF CodeAt
<1>5. CASE n % 2 # 1
  <2>1. n \div 2 \in 1 .. BlockLen \div 2
    BY <1>1, <1>5
  <2> QED
    BY <1>2, <1>3, <1>5, <2>1 DEF CodeAt
<1> QED
  BY <1>4, <1>5

(* One sample, and many.                                                    *)
LEMMA OneSample ==
    ASSUME NEW first \in Shorts
    PROVE  <<first>> \in Seq(Shorts) /\ Len(<<first>>) = 1 /\ <<first>>[1] = first
OBVIOUS

LEMMA PlayedBytes ==
    ASSUME NEW samples \in Seq(Shorts)
    PROVE  \E bytes \in Seq(Bytes) :
              /\ bytes = [i \in 1 .. Len(samples) |-> s2u(samples[i])]
              /\ Len(bytes) = Len(samples)
<1>1. PICK N \in Nat : N = Len(samples)
  OBVIOUS
<1>2. \A i \in 1 .. N : s2u(samples[i]) \in Bytes
  BY HeardByte
<1>3. PICK bytes \in [1 .. N -> Bytes] : bytes = [i \in 1 .. N |-> s2u(samples[i])]
  BY <1>2
<1>4. bytes \in Seq(Bytes) /\ Len(bytes) = N
  BY <1>3
<1> QED
  BY <1>1, <1>3, <1>4

(* A block arrives.                                                         *)
LEMMA DecodeKeeps ==
    ASSUME CodecInv, NEW block \in blocks, Decode(block)
    PROVE  CodecInv'
<1>1. block \in Blocks /\ block.stepsizeIndex = 0
  BY DEF CodecInv, CodecTypeOK, BlockInv
<1>2. block.first \in Shorts
  BY <1>1 DEF Blocks
<1>3. stateDec' = adpcm_set(block.first, 0) /\ stateDec' \in Predictor
  BY <1>1, <1>2, FirstPredictor DEF Decode
<1>4. PICK samples \in Seq(Shorts) : samples = <<block.first>>
  BY <1>2, OneSample
<1>5. Len(samples) = 1 /\ samples[1] = block.first
  BY <1>2, <1>4, OneSample
<1>6. heard' = [block |-> {block}, samples |-> samples, bytes |-> <<>>]
  BY <1>4 DEF Decode
<1>7. heard' \in [block : SUBSET blocks, samples : Seq(Shorts), bytes : Seq(Bytes)]
  <2>1. <<>> \in Seq(Bytes)
    BY EmptySeq
  <2> QED
    BY <1>6, <2>1
<1>8. CodecTypeOK' /\ CodingInv' /\ (\A b \in blocks' : BlockInv(b))
  BY <1>3, <1>7, CodingStays DEF Decode
<1>9. heard'.block = {block} /\ heard'.samples = samples /\ heard'.bytes = <<>>
  BY <1>6
<1>10. HeardInv(block)'
  <2>1. Len(heard'.samples) \in 1 .. BlockLen + 1 /\ Len(heard'.samples) = 1
    <3>1. 1 \in 1 .. BlockLen + 1
      BY BlockAssumption
    <3> QED
      BY <1>5, <1>9, <3>1
  <2>2. stateDec' = StateAt(block.first, block.states, 0)
    BY <1>3 DEF StateAt
  <2>3. heard'.samples[1] = StateAt(block.first, block.states, 0).previous
    BY <1>5, <1>9 DEF StateAt, adpcm_set
  <2> QED
    BY <1>9, <2>1, <2>2, <2>3 DEF HeardInv
<1> QED
  BY <1>8, <1>9, <1>10 DEF CodecInv

(* A code of it.                                                            *)
LEMMA CodeKeeps ==
    ASSUME CodecInv, NEW block \in heard.block, DecodeCode(block)
    PROVE  CodecInv'
<1> DEFINE N == Len(heard.samples)
<1>1. /\ block \in Blocks /\ BlockInv(block) /\ HeardInv(block) /\ heard.block = {block}
      /\ heard \in [block : SUBSET blocks, samples : Seq(Shorts), bytes : Seq(Bytes)]
      /\ stateDec \in Predictor
  BY DEF CodecInv, CodecTypeOK
<1>2. heard.bytes = <<>> /\ heard.samples \in Seq(Shorts)
  BY <1>1 DEF DecodeCode, Decoding, CodecInv
<1>3. BlockLen \in Nat /\ BlockLen % 2 = 0 /\ N \in 1 .. BlockLen
  <2>1. Len(block.data) = BlockLen \div 2 /\ BlockLen \in Nat /\ BlockLen % 2 = 0
    <3>1. BlockLen \div 2 \in Nat
      BY BlockAssumption
    <3> QED
      BY <1>1, <3>1, BlockAssumption DEF Blocks
  <2>2. N \in 1 .. BlockLen + 1 /\ N <= 2 * Len(block.data)
    BY <1>1 DEF DecodeCode, HeardInv
  <2> QED
    BY <2>1, <2>2
<1>4. PICK code \in Code : code = CodeAt(block.data, N)
  BY <1>1, <1>3, ReadCode
<1>5. stateDec = StateAt(block.first, block.states, N - 1)
  BY <1>1 DEF HeardInv
<1>6. stateDec' = block.states[N] /\ stateDec' \in Predictor
  <2>1. stateDec' = Next4(stateDec, code)
    BY <1>4 DEF DecodeCode
  <2>2. block.states[N] = Next4(stateDec, code)
    BY <1>1, <1>3, <1>4, <1>5 DEF BlockInv
  <2>3. Next4(stateDec, code) \in Predictor
    BY <1>1, NextPredictor
  <2> QED
    BY <2>1, <2>2, <2>3
<1>7. PICK sample \in Shorts : sample = stateDec'.previous
  BY <1>6 DEF Predictor
<1>8. PICK samples \in Seq(Shorts) : samples = Append(heard.samples, sample)
  BY <1>2, <1>7, AppendProperties
<1>9. Len(samples) = N + 1 /\ samples[N + 1] = sample
      /\ \A n \in 1 .. N : samples[n] = heard.samples[n]
  BY <1>2, <1>8, AppendProperties
<1>10. heard' = [heard EXCEPT !.samples = samples]
  BY <1>7, <1>8 DEF DecodeCode
<1>11. /\ heard'.block = {block} /\ heard'.samples = samples /\ heard'.bytes = <<>>
       /\ heard' \in [block : SUBSET blocks, samples : Seq(Shorts), bytes : Seq(Bytes)]
  BY <1>1, <1>2, <1>10
<1>12. CodecTypeOK' /\ CodingInv' /\ (\A b \in blocks' : BlockInv(b))
  BY <1>6, <1>11, CodingStays DEF DecodeCode
<1>13. HeardInv(block)'
  <2>1. Len(heard'.samples) \in 1 .. BlockLen + 1 /\ Len(heard'.samples) = N + 1
    BY <1>3, <1>9, <1>11
  <2>2. stateDec' = StateAt(block.first, block.states, N)
    BY <1>3, <1>6 DEF StateAt
  <2>3. ASSUME NEW n \in 1 .. N + 1
        PROVE  samples[n] = StateAt(block.first, block.states, n - 1).previous
    <3>1. CASE n = N + 1
      BY <1>3, <1>7, <1>9, <2>2, <3>1
    <3>2. CASE n \in 1 .. N
      BY <1>1, <1>9, <3>2 DEF HeardInv
    <3> QED
      BY <1>3, <3>1, <3>2
  <2>4. N + 1 - 1 = N
    BY <1>3
  <2> QED
    BY <1>11, <2>1, <2>2, <2>3, <2>4 DEF HeardInv
<1> QED
  BY <1>11, <1>12, <1>13 DEF CodecInv

(* It is played.                                                            *)
LEMMA PlayKeeps ==
    ASSUME CodecInv, NEW block \in heard.block, DecodeEnds(block)
    PROVE  CodecInv'
<1> DEFINE N == Len(heard.samples)
<1>1. /\ block \in Blocks /\ HeardInv(block) /\ heard.block = {block}
      /\ heard \in [block : SUBSET blocks, samples : Seq(Shorts), bytes : Seq(Bytes)]
      /\ stateDec \in Predictor
  BY DEF CodecInv, CodecTypeOK
<1>2. heard.samples \in Seq(Shorts) /\ N \in Nat
  BY <1>1
<1>3. N = BlockLen + 1
  <2>1. Len(block.data) = BlockLen \div 2 /\ BlockLen \in Nat /\ BlockLen % 2 = 0
    <3>1. BlockLen \div 2 \in Nat
      BY BlockAssumption
    <3> QED
      BY <1>1, <3>1, BlockAssumption DEF Blocks
  <2>2. N \in 1 .. BlockLen + 1 /\ N > 2 * Len(block.data)
    BY <1>1 DEF DecodeEnds, HeardInv
  <2> QED
    BY <2>1, <2>2
<1>4. PICK bytes \in Seq(Bytes) :
          bytes = [i \in 1 .. N |-> s2u(heard.samples[i])] /\ Len(bytes) = N
  BY <1>2, PlayedBytes
<1>5. heard' = [heard EXCEPT !.bytes = bytes]
  BY <1>4 DEF DecodeEnds
<1>6. /\ heard'.block = {block} /\ heard'.samples = heard.samples /\ heard'.bytes = bytes
      /\ heard' \in [block : SUBSET blocks, samples : Seq(Shorts), bytes : Seq(Bytes)]
  BY <1>1, <1>5
<1>7. stateDec' = stateDec
  BY DEF DecodeEnds
<1>8. CodecTypeOK' /\ CodingInv' /\ (\A b \in blocks' : BlockInv(b))
  BY <1>1, <1>6, <1>7, CodingStays DEF DecodeEnds
<1>9. HeardInv(block)'
  BY <1>1, <1>3, <1>6, <1>7 DEF HeardInv
<1>10. Len(heard'.bytes) = Len(heard'.samples)
  BY <1>4, <1>6
<1> QED
  BY <1>6, <1>8, <1>9, <1>10 DEF CodecInv

(* Every step.                                                              *)
LEMMA StepKeeps ==
    ASSUME CodecInv, [CodecNext]_codecVars
    PROVE  CodecInv'
<1>1. ASSUME NEW bytes \in Captures, Encode(bytes, <<>>) PROVE CodecInv'
  BY <1>1, EncodeKeeps, SoundAssumption
<1>2. ASSUME NEW tone \in Tones, Encode([i \in 1 .. Len(tone) |-> linear2ulaw(tone[i])], tone)
      PROVE  CodecInv'
  <2>1. tone \in Sound(Shorts)
    BY SoundAssumption
  <2>2. PICK bytes \in Sound(Bytes) : bytes = [i \in 1 .. Len(tone) |-> linear2ulaw(tone[i])]
    BY <2>1, ToneBlock
  <2> QED
    BY <1>2, <2>1, <2>2, EncodeKeeps
<1>3. CASE EncodeSample
  BY <1>3, SampleKeeps
<1>4. CASE EncodeEnds
  BY <1>4, SentKeeps
<1>5. ASSUME NEW block \in blocks, Decode(block) PROVE CodecInv'
  BY <1>5, DecodeKeeps
<1>6. ASSUME NEW block \in heard.block, DecodeCode(block) PROVE CodecInv'
  BY <1>6, CodeKeeps
<1>7. ASSUME NEW block \in heard.block, DecodeEnds(block) PROVE CodecInv'
  BY <1>7, PlayKeeps
<1>8. CASE UNCHANGED codecVars
  <2>1. CodecTypeOK'
    BY <1>8 DEF CodecInv, CodecTypeOK, codecVars
  <2>2. CodingInv'
    BY <1>8 DEF CodecInv, CodingInv, Coding, codecVars
  <2>3. heard' = heard /\ stateDec' = stateDec /\ \A block \in blocks' : BlockInv(block)
    BY <1>8 DEF CodecInv, codecVars
  <2> QED
    BY <2>1, <2>2, <2>3, HeardStays
<1> QED
  BY <1>1, <1>2, <1>3, <1>4, <1>5, <1>6, <1>7, <1>8 DEF CodecNext

--------------------------------------------------------------------------------
(* The invariant holds in every state.                                      *)
LEMMA Invariance == CodecSpec => []CodecInv
<1>1. CodecInit => CodecInv
  BY StartSound
<1>2. CodecInv /\ [CodecNext]_codecVars => CodecInv'
  BY StepKeeps
<1> QED
  BY <1>1, <1>2, PTL DEF CodecSpec

(* No predictor of encoder or decoder leaves 16 bits or the table of steps, *)
(* and every block sent and byte played has the form it must have.          *)
THEOREM TypeCorrect == CodecSpec => []CodecTypeOK
<1>1. CodecInv => CodecTypeOK
  BY DEF CodecInv
<1> QED
  BY <1>1, Invariance, PTL

(* Whatever blocks were lost, late or repeated before, the decoder makes of *)
(* a block what the encoder predicted when it made it.                      *)
THEOREM InStep == CodecSpec => []DecoderInStep
<1>1. CodecInv => DecoderInStep
  <2> SUFFICES ASSUME CodecInv, NEW block \in heard.block
               PROVE  /\ \A n \in 1 .. Len(heard.samples) :
                             heard.samples[n] =
                                 IF n = 1 THEN block.first ELSE block.states[n - 1].previous
                      /\ ~ Decoding => Len(heard.samples) = BlockLen + 1
    BY DEF DecoderInStep
  <2>1. HeardInv(block) /\ heard.samples \in Seq(Shorts)
    BY DEF CodecInv, CodecTypeOK
  <2>2. ASSUME NEW n \in 1 .. Len(heard.samples)
        PROVE  heard.samples[n] = IF n = 1 THEN block.first ELSE block.states[n - 1].previous
    <3>1. heard.samples[n] = StateAt(block.first, block.states, n - 1).previous
      BY <2>1 DEF HeardInv
    <3>2. n - 1 = 0 <=> n = 1
      BY <2>1
    <3> QED
      BY <3>1, <3>2 DEF StateAt, adpcm_set
  <2>3. ASSUME ~ Decoding PROVE Len(heard.samples) = BlockLen + 1
    <3>1. Len(heard.bytes) = Len(heard.samples)
      BY <2>3 DEF Decoding
    <3>2. Len(heard.samples) >= 1 /\ Len(heard.samples) \in Nat
      BY <2>1, BlockAssumption DEF HeardInv
    <3>3. heard.bytes # <<>>
      BY <3>1, <3>2
    <3> QED
      BY <2>1, <3>3 DEF HeardInv
  <2> QED
    BY <2>2, <2>3
<1> QED
  BY <1>1, Invariance, PTL

(* In every block, of whatever sounds, no code takes the prediction farther *)
(* from its sample: CodeToward, at every code of the block.                 *)
THEOREM Approaching == CodecSpec => []NeverFarther
<1>1. CodecInv => NeverFarther
  <2> SUFFICES ASSUME CodecInv, NEW n \in 1 .. Len(coding.states)
               PROVE  Apart(n + 1, n) <= Apart(n + 1, n - 1)
    BY DEF NeverFarther
  <2>1. Coding
    BY DEF Coding, NoBlock
  <2>2. /\ coding \in Drafts /\ Len(coding.states) = Len(coding.codes)
        /\ Len(coding.codes) <= BlockLen
    BY <2>1 DEF Coding, CodecInv, CodecTypeOK, CodingInv
  <2>3. /\ coding.states \in Seq(Predictor) /\ coding.codes \in Seq(Code)
        /\ coding.samples \in Sound(Shorts) /\ n \in 1 .. BlockLen /\ BlockLen \in Nat
    BY <2>2, BlockAssumption DEF Drafts
  <2>4. PICK before : before = StateAt(coding.samples[1], coding.states, n - 1)
    OBVIOUS
  <2>5. coding.samples[1] \in Shorts /\ coding.samples[n + 1] \in Shorts
    BY <2>3 DEF Sound
  <2>6. before \in Predictor
    <3>1. CASE n = 1
      BY <2>4, <2>5, <3>1, FirstPredictor DEF StateAt
    <3>2. CASE n # 1
      <4>1. n - 1 \in 1 .. Len(coding.states) /\ n - 1 # 0
        BY <2>3, <3>2
      <4> QED
        BY <2>3, <2>4, <4>1, ElementOfSeq DEF StateAt
    <3> QED
      BY <3>1, <3>2
  <2>7. coding.states[n] = Next4(before, Code4(before, coding.samples[n + 1]))
    BY <2>1, <2>2, <2>4 DEF CodecInv, CodingInv
  <2>8. Predicted(n) = coding.states[n].previous /\ Predicted(n - 1) = before.previous
    BY <2>3, <2>4 DEF Predicted, StateAt, adpcm_set
  <2>9. Abs(Wrap16(coding.samples[n + 1] - coding.states[n].previous))
            <= Abs(Wrap16(coding.samples[n + 1] - before.previous))
    BY <2>5, <2>6, <2>7, CodeToward
  <2> QED
    BY <2>8, <2>9 DEF Apart
<1> QED
  BY <1>1, Invariance, PTL

--------------------------------------------------------------------------------
(* What a block was made from.                                              *)

(* A sample that is where the prediction is leaves it there.                *)
LEMMA SteadyCode ==
    ASSUME NEW state \in Predictor, NEW sample \in Shorts, sample = state.previous
    PROVE  Next4(state, Code4(state, sample)).previous = sample
<1>1. PICK p \in Int : p = sample
  BY ShortRange
<1>2. PICK step \in Nat : step = stepsize[state.index + 1] /\ step > 0
  BY Steps DEF Predictor
<1>3. Wrap16(sample - state.previous) = 0 /\ Wrap16(Abs(0)) = 0
  <2>1. Wrap16(0) = 0 /\ Abs(0) = 0
    BY DEF Wrap16, Abs
  <2>2. sample - state.previous = 0
    BY <1>1
  <2> QED
    BY <2>1, <2>2
<1>4. quantize(0, step) = 0
  <2>1. PICK q \in 0 .. 7 : q = quantize(0, step) /\ q * step <= 0
    BY <1>2, QuartersFit
  <2>2. CASE q = 0
    BY <2>1, <2>2
  <2>3. CASE q >= 1
    <3>1. q * step >= 1 * step
      BY <1>2, <2>3
    <3> QED
      BY <1>2, <2>1, <3>1
  <2> QED
    BY <2>2, <2>3
<1>5. Code4(state, sample) % 8 = 0 /\ ~ (Code4(state, sample) > 7)
  <2>1. quantize(Wrap16(Abs(Wrap16(sample - state.previous))), stepsize[state.index + 1]) = 0
    BY <1>2, <1>3, <1>4
  <2>2. ~ (Wrap16(sample - state.previous) < 0)
    BY <1>3
  <2> QED
    BY <2>1, <2>2, CodeParts
<1>6. Next4(state, Code4(state, sample)).previous = Predict(p, 1, step, 0)
  BY <1>1, <1>2, <1>5 DEF Next4
<1>7. Predict(p, 1, step, 0) = Wrap16(p)
  <2>1. 1 * step * 0 = 0
    BY <1>2
  <2>2. (IF 4 * p < 0 THEN - ((- (4 * p)) \div 4) ELSE (4 * p) \div 4) = p
    BY <1>1
  <2>3. 4 * p + 0 + (IF 0 > 0 THEN 4 ELSE 0) = 4 * p
    BY <1>1
  <2> QED
    BY <2>1, <2>2, <2>3 DEF Predict
<1>8. Wrap16(p) = p
  BY <1>1, WrapShort
<1> QED
  BY <1>1, <1>6, <1>7, <1>8

Steady(bytes) == \A i \in 1 .. BlockLen + 1 : bytes[i] = bytes[1]
Stays(first, states) == \A n \in 1 .. Len(states) : states[n].previous = first

(* The samples are those of the bytes, and the bytes those of the tone; the *)
(* prediction of a steady block stays where it is.                          *)
CodingSound ==
    Coding =>
        /\ coding.samples = Linear(coding.bytes)
        /\ coding.tone # <<>> =>
               coding.bytes = [i \in 1 .. Len(coding.tone) |-> linear2ulaw(coding.tone[i])]
        /\ Steady(coding.bytes) => Stays(coding.samples[1], coding.states)

BlockSound(block) ==
    /\ block.first = u2s(block.bytes[1])
    /\ Steady(block.bytes) => Stays(block.first, block.states)

PlayedSound == \A i \in 1 .. Len(heard.bytes) : heard.bytes[i] = s2u(heard.samples[i])

SoundInv ==
    /\ CodecInv
    /\ CodingSound
    /\ \A block \in blocks : BlockSound(block)
    /\ PlayedSound

(* The first sample of a block, and all of a steady one.                    *)
LEMMA LinearSteady ==
    ASSUME NEW bytes \in Sound(Bytes)
    PROVE  /\ \A i \in 1 .. BlockLen + 1 : Linear(bytes)[i] = u2s(bytes[i])
           /\ Linear(bytes)[1] = u2s(bytes[1])
           /\ Steady(bytes) =>
                  \A i \in 1 .. BlockLen + 1 : Linear(bytes)[i] = Linear(bytes)[1]
<1>1. BlockLen + 1 \in Nat /\ 1 \in 1 .. BlockLen + 1
  BY BlockAssumption
<1>2. bytes \in Seq(Bytes) /\ Len(bytes) = BlockLen + 1
  BY <1>1 DEF Sound
<1>3. Linear(bytes) = [i \in 1 .. BlockLen + 1 |-> u2s(bytes[i])]
  BY <1>2 DEF Linear
<1>4. \A i \in 1 .. BlockLen + 1 : Linear(bytes)[i] = u2s(bytes[i])
  BY <1>3
<1>5. Linear(bytes)[1] = u2s(bytes[1])
  BY <1>1, <1>4
<1>6. ASSUME Steady(bytes), NEW i \in 1 .. BlockLen + 1
      PROVE  Linear(bytes)[i] = Linear(bytes)[1]
  <2>1. bytes[i] = bytes[1]
    BY <1>6 DEF Steady
  <2> QED
    BY <1>4, <1>5, <2>1
<1> QED
  BY <1>4, <1>5, <1>6

LEMMA StartSounds == CodecInit => SoundInv
<1> SUFFICES ASSUME CodecInit PROVE SoundInv
  OBVIOUS
<1>1. ~ Coding /\ blocks = {} /\ heard.bytes = <<>>
  BY DEF CodecInit, Coding, Silent
<1>2. PlayedSound
  BY <1>1 DEF PlayedSound
<1> QED
  BY <1>1, <1>2, StartSound DEF SoundInv, CodingSound

(* A new block: of these bytes, and of this tone if it is one.              *)
LEMMA EncodeSounds ==
    ASSUME SoundInv, NEW bytes \in Sound(Bytes), NEW tone,
           tone # <<>> => bytes = [i \in 1 .. Len(tone) |-> linear2ulaw(tone[i])],
           Encode(bytes, tone), CodecInv'
    PROVE  SoundInv'
<1>1. PICK samples : samples = Linear(bytes)
  OBVIOUS
<1>2. coding' = [bytes |-> bytes, tone |-> tone, samples |-> samples,
                 codes |-> <<>>, states |-> <<>>]
  BY <1>1 DEF Encode, NoBlock
<1>3. CodingSound'
  <2>1. /\ coding'.bytes = bytes /\ coding'.tone = tone /\ coding'.samples = samples
        /\ coding'.states = <<>>
    BY <1>2
  <2>2. Stays(coding'.samples[1], coding'.states)
    BY <2>1 DEF Stays
  <2> QED
    BY <1>1, <2>1, <2>2 DEF CodingSound
<1>4. (\A block \in blocks : BlockSound(block))'
  BY DEF Encode, SoundInv
<1>5. heard'.bytes = <<>>
  BY DEF Encode, Silent
<1>6. PlayedSound'
  BY <1>5 DEF PlayedSound
<1> QED
  BY <1>3, <1>4, <1>6 DEF SoundInv

(* A sample: one that stays where the prediction is.                        *)
LEMMA SampleSounds ==
    ASSUME SoundInv, EncodeSample, CodecInv'
    PROVE  SoundInv'
<1> DEFINE N == Len(coding.codes)
           first == coding.samples[1]
<1>1. /\ Coding /\ N < BlockLen /\ N \in Nat /\ BlockLen \in Nat /\ coding \in Drafts
      /\ CodecInv
  BY BlockAssumption DEF EncodeSample, SoundInv, CodecInv, CodecTypeOK, Coding, Drafts
<1>2. /\ coding.states \in Seq(Predictor) /\ coding.samples \in Sound(Shorts)
      /\ coding.bytes \in Sound(Bytes)
  BY <1>1 DEF Drafts
<1>3. /\ Len(coding.states) = N /\ stateEnc \in Predictor
      /\ stateEnc = StateAt(first, coding.states, N)
  BY <1>1 DEF CodecInv, CodecTypeOK, CodingInv
<1>4. PICK next : next = Next4(stateEnc, Code4(stateEnc, coding.samples[N + 2]))
  OBVIOUS
<1>5. stateEnc' = next
  BY <1>4 DEF EncodeSample
<1>6. PICK states : states = Append(coding.states, next)
  OBVIOUS
<1>7. PICK codes : coding' = [coding EXCEPT !.codes = codes, !.states = states]
  BY <1>5, <1>6 DEF EncodeSample
<1>8. /\ coding'.bytes = coding.bytes /\ coding'.tone = coding.tone
      /\ coding'.samples = coding.samples /\ coding'.states = states
  BY <1>1, <1>7 DEF Drafts
<1>9. next \in Predictor
  <2>1. coding.samples[N + 2] \in Shorts
    BY <1>1, <1>2 DEF Sound
  <2> QED
    BY <1>3, <1>4, <2>1, CodeParts, NextPredictor
<1>10. /\ Len(states) = N + 1 /\ states[N + 1] = next
       /\ \A n \in 1 .. N : states[n] = coding.states[n]
  BY <1>2, <1>3, <1>6, <1>9, AppendProperties
<1>11. ASSUME Steady(coding.bytes) PROVE Stays(first, states)
  <2>1. Stays(first, coding.states) /\ coding.samples = Linear(coding.bytes)
    BY <1>1, <1>11 DEF SoundInv, CodingSound
  <2>2. coding.samples[N + 2] = first /\ first \in Shorts
    <3>1. N + 2 \in 1 .. BlockLen + 1 /\ 1 \in 1 .. BlockLen + 1
      BY <1>1
    <3>2. coding.samples[N + 2] = first
      BY <1>2, <1>11, <2>1, <3>1, LinearSteady
    <3>3. first \in Shorts
      BY <1>2, <3>1 DEF Sound
    <3> QED
      BY <3>2, <3>3
  <2>3. stateEnc.previous = first
    <3>1. CASE N = 0
      BY <1>3, <3>1 DEF StateAt, adpcm_set
    <3>2. CASE N # 0
      <4>1. N \in 1 .. N
        BY <1>1, <3>2
      <4> QED
        BY <1>3, <2>1, <3>2, <4>1 DEF StateAt, Stays
    <3> QED
      BY <3>1, <3>2
  <2>4. next.previous = first
    BY <1>3, <1>4, <2>2, <2>3, SteadyCode
  <2>5. ASSUME NEW n \in 1 .. N + 1 PROVE states[n].previous = first
    <3>1. CASE n = N + 1
      BY <1>10, <2>4, <3>1
    <3>2. CASE n \in 1 .. N
      BY <1>3, <1>10, <2>1, <3>2 DEF Stays
    <3> QED
      BY <1>1, <3>1, <3>2
  <2> QED
    BY <1>10, <2>5 DEF Stays
<1>12. CodingSound'
  <2>1. /\ coding.samples = Linear(coding.bytes)
        /\ coding.tone # <<>> =>
               coding.bytes = [i \in 1 .. Len(coding.tone) |-> linear2ulaw(coding.tone[i])]
    BY <1>1 DEF SoundInv, CodingSound
  <2> QED
    BY <1>8, <1>11, <2>1 DEF CodingSound
<1>13. (\A block \in blocks : BlockSound(block))' /\ PlayedSound'
  BY DEF EncodeSample, SoundInv, PlayedSound
<1> QED
  BY <1>12, <1>13 DEF SoundInv

(* The block is complete.                                                   *)
LEMMA SentSounds ==
    ASSUME SoundInv, EncodeEnds, CodecInv'
    PROVE  SoundInv'
<1>1. Coding /\ coding \in Drafts
  BY DEF EncodeEnds, SoundInv, CodecInv, CodecTypeOK, Coding
<1>2. coding.bytes \in Sound(Bytes)
  BY <1>1 DEF Drafts
<1>3. PICK sent :
          /\ blocks' = blocks \cup {sent}
          /\ sent.first = coding.samples[1] /\ sent.bytes = coding.bytes
          /\ sent.states = coding.states
  <2>1. PICK sent : sent = [first |-> coding.samples[1], stepsizeIndex |-> 0,
                            data |-> Pack(coding.codes), bytes |-> coding.bytes,
                            states |-> coding.states]
    OBVIOUS
  <2>2. blocks' = blocks \cup {sent}
    BY <2>1 DEF EncodeEnds
  <2>3. /\ sent.first = coding.samples[1] /\ sent.bytes = coding.bytes
        /\ sent.states = coding.states
    BY <2>1
  <2> QED
    BY <2>2, <2>3
<1>4. BlockSound(sent)
  <2>1. /\ coding.samples = Linear(coding.bytes)
        /\ Steady(coding.bytes) => Stays(coding.samples[1], coding.states)
    BY <1>1 DEF SoundInv, CodingSound
  <2>2. coding.samples[1] = u2s(coding.bytes[1])
    BY <1>2, <2>1, LinearSteady
  <2> QED
    BY <1>3, <2>1, <2>2 DEF BlockSound
<1>5. (\A block \in blocks : BlockSound(block))'
  BY <1>3, <1>4 DEF SoundInv
<1>6. CodingSound' /\ PlayedSound'
  BY DEF EncodeEnds, CodingSound, Coding, SoundInv, PlayedSound
<1> QED
  BY <1>5, <1>6 DEF SoundInv

(* A step of the decoder.                                                   *)
LEMMA DecoderSounds ==
    ASSUME SoundInv, UNCHANGED <<coding, blocks>>, PlayedSound', CodecInv'
    PROVE  SoundInv'
<1>1. CodingSound' /\ (\A block \in blocks : BlockSound(block))'
  BY DEF SoundInv, CodingSound, Coding
<1> QED
  BY <1>1 DEF SoundInv

LEMMA SoundSteps ==
    ASSUME SoundInv, [CodecNext]_codecVars
    PROVE  SoundInv'
<1>0. CodecInv /\ CodecInv'
  BY StepKeeps DEF SoundInv
<1>1. ASSUME NEW bytes \in Captures, Encode(bytes, <<>>) PROVE SoundInv'
  BY <1>0, <1>1, EncodeSounds, SoundAssumption
<1>2. ASSUME NEW tone \in Tones, Encode([i \in 1 .. Len(tone) |-> linear2ulaw(tone[i])], tone)
      PROVE  SoundInv'
  <2>1. tone \in Sound(Shorts)
    BY SoundAssumption
  <2>2. PICK bytes \in Sound(Bytes) : bytes = [i \in 1 .. Len(tone) |-> linear2ulaw(tone[i])]
    BY <2>1, ToneBlock
  <2> QED
    BY <1>0, <1>2, <2>2, EncodeSounds
<1>3. CASE EncodeSample
  BY <1>0, <1>3, SampleSounds
<1>4. CASE EncodeEnds
  BY <1>0, <1>4, SentSounds
<1>5. ASSUME NEW block \in blocks, Decode(block) PROVE SoundInv'
  <2>1. heard'.bytes = <<>> /\ UNCHANGED <<coding, blocks>>
    BY <1>5 DEF Decode
  <2>2. PlayedSound'
    BY <2>1 DEF PlayedSound
  <2> QED
    BY <1>0, <2>1, <2>2, DecoderSounds
<1>6. ASSUME NEW block \in heard.block, DecodeCode(block) PROVE SoundInv'
  <2>1. heard.bytes = <<>>
    BY <1>0, <1>6 DEF DecodeCode, Decoding, CodecInv
  <2>2. PICK samples : heard' = [heard EXCEPT !.samples = samples]
    BY <1>6 DEF DecodeCode
  <2>3. heard'.bytes = <<>>
    BY <1>0, <2>1, <2>2 DEF CodecInv, CodecTypeOK
  <2>4. PlayedSound' /\ UNCHANGED <<coding, blocks>>
    BY <1>6, <2>3 DEF PlayedSound, DecodeCode
  <2> QED
    BY <1>0, <2>4, DecoderSounds
<1>7. ASSUME NEW block \in heard.block, DecodeEnds(block) PROVE SoundInv'
  <2>1. heard.samples \in Seq(Shorts)
    BY <1>0 DEF CodecInv, CodecTypeOK
  <2>2. PICK bytes : /\ bytes = [i \in 1 .. Len(heard.samples) |-> s2u(heard.samples[i])]
                     /\ Len(bytes) = Len(heard.samples)
    BY <2>1, PlayedBytes
  <2>3. heard' = [heard EXCEPT !.bytes = bytes] /\ UNCHANGED <<coding, blocks>>
    BY <1>7, <2>2 DEF DecodeEnds
  <2>4. heard'.bytes = bytes /\ heard'.samples = heard.samples
    BY <1>0, <2>3 DEF CodecInv, CodecTypeOK
  <2>5. PlayedSound'
    BY <2>2, <2>4 DEF PlayedSound
  <2> QED
    BY <1>0, <2>3, <2>5, DecoderSounds
<1>8. CASE UNCHANGED codecVars
  <2>1. UNCHANGED <<coding, blocks>> /\ PlayedSound'
    BY <1>8 DEF codecVars, SoundInv, PlayedSound
  <2> QED
    BY <1>0, <2>1, DecoderSounds
<1> QED
  BY <1>1, <1>2, <1>3, <1>4, <1>5, <1>6, <1>7, <1>8 DEF CodecNext

LEMMA SoundInvariance == CodecSpec => []SoundInv
<1>1. CodecInit => SoundInv
  BY StartSounds
<1>2. SoundInv /\ [CodecNext]_codecVars => SoundInv'
  BY SoundSteps
<1> QED
  BY <1>1, <1>2, PTL DEF CodecSpec

(* A block of one and the same byte, silence for one, is heard as it was    *)
(* captured, whatever block came before; but the second zero as the first.  *)
THEOREM SteadyHeard == CodecSpec => []SteadyKept
<1>1. SoundInv => SteadyKept
  <2> SUFFICES ASSUME SoundInv, NEW block \in heard.block, NEW byte \in Bytes,
                      \A i \in 1 .. BlockLen + 1 : block.bytes[i] = byte,
                      NEW i \in 1 .. Len(heard.bytes)
               PROVE  heard.bytes[i] = IF byte = 127 THEN 255 ELSE byte
    BY DEF SteadyKept
  <2>1. /\ HeardInv(block) /\ BlockSound(block) /\ block \in Blocks
        /\ heard.samples \in Seq(Shorts) /\ heard.bytes \in Seq(Bytes)
        /\ heard.bytes = <<>> \/ Len(heard.bytes) = Len(heard.samples)
    BY DEF SoundInv, CodecInv, CodecTypeOK
  <2>2. BlockLen \in Nat /\ 1 \in 1 .. BlockLen + 1
    BY BlockAssumption
  <2>3. /\ i \in 1 .. Len(heard.samples) /\ Len(heard.samples) \in 1 .. BlockLen + 1
        /\ i - 1 \in 0 .. BlockLen
    <3>1. Len(heard.bytes) = Len(heard.samples)
      BY <2>1
    <3>2. Len(heard.samples) \in 1 .. BlockLen + 1
      BY <2>1 DEF HeardInv
    <3> QED
      BY <2>2, <3>1, <3>2
  <2>4. block.first = u2s(byte) /\ Stays(block.first, block.states)
    <3>1. block.bytes[1] = byte
      BY <2>2
    <3>2. Steady(block.bytes)
      BY <3>1 DEF Steady
    <3> QED
      BY <2>1, <3>1, <3>2 DEF BlockSound
  <2>5. heard.samples[i] = StateAt(block.first, block.states, i - 1).previous
    BY <2>1, <2>3 DEF HeardInv
  <2>6. heard.samples[i] = block.first
    <3>1. CASE i - 1 = 0
      BY <2>5, <3>1 DEF StateAt, adpcm_set
    <3>2. CASE i - 1 # 0
      <4>1. Len(block.states) = BlockLen
        BY <2>1, <2>2 DEF Blocks
      <4>2. i - 1 \in 1 .. Len(block.states)
        BY <2>3, <3>2, <4>1
      <4> QED
        BY <2>4, <2>5, <3>2, <4>2 DEF StateAt, Stays
    <3> QED
      BY <3>1, <3>2
  <2>7. heard.bytes[i] = s2u(heard.samples[i])
    BY DEF SoundInv, PlayedSound
  <2> QED
    BY <2>4, <2>6, <2>7, ByteKept
<1> QED
  BY <1>1, SoundInvariance, PTL

(* What the bytes of any test tone mean, read with the table u2s, is within *)
(* a twelfth of the tone: ToneNear, at every sample of a block.             *)
THEOREM ToneHeard == CodecSpec => []ToneKept
<1>1. SoundInv => ToneKept
  <2> SUFFICES ASSUME SoundInv, NEW i \in 1 .. Len(coding.tone)
               PROVE  Abs(coding.samples[i] - coding.tone[i]) <= 4 + Abs(coding.tone[i]) \div 12
    BY DEF ToneKept
  <2>1. Coding
    BY DEF Coding, NoBlock
  <2>2. coding \in Drafts
    BY <2>1 DEF Coding, SoundInv, CodecInv, CodecTypeOK
  <2>3. coding.tone # <<>>
    OBVIOUS
  <2>4. coding.tone \in Sound(Shorts) /\ coding.bytes \in Sound(Bytes)
    BY <2>2, <2>3 DEF Drafts
  <2>5. BlockLen + 1 \in Nat
    BY BlockAssumption
  <2>6. Len(coding.tone) = BlockLen + 1
    BY <2>4, <2>5 DEF Sound
  <2>7. i \in 1 .. BlockLen + 1 /\ coding.tone[i] \in Shorts
    BY <2>4, <2>6 DEF Sound
  <2>8. /\ coding.samples = Linear(coding.bytes)
        /\ coding.bytes = [j \in 1 .. Len(coding.tone) |-> linear2ulaw(coding.tone[j])]
    BY <2>1, <2>3 DEF SoundInv, CodingSound
  <2>9. coding.samples[i] = u2s(coding.bytes[i])
    BY <2>4, <2>7, <2>8, LinearSteady
  <2>10. coding.bytes[i] = linear2ulaw(coding.tone[i])
    BY <2>8
  <2> QED
    BY <2>7, <2>9, <2>10, ToneNear
<1> QED
  BY <1>1, SoundInvariance, PTL

--------------------------------------------------------------------------------
(* How the step size grows and shrinks.                                     *)

(* The step size at an index, of which there are 89.                        *)
StepAt(i) == IF i > 88 THEN 32767 ELSE stepsize[i + 1]

(* What is used of the table of steps: how fast it grows.                   *)
LEMMA StepsGrow ==
    ASSUME NEW i \in 0 .. 88
    PROVE  /\ StepAt(i) \in Nat /\ 7 <= StepAt(i) /\ StepAt(i) <= 32767
           /\ StepAt(i + 1) \in Nat /\ StepAt(i + 3) \in Nat /\ StepAt(i + 5) \in Nat
           /\ StepAt(i + 7) \in Nat /\ StepAt(i + 8) \in Nat
           /\ StepAt(i + 1) + 2 < 4 * StepAt(i)
           /\ StepAt(i) <= StepAt(i + 3)
           /\ StepAt(i) <= StepAt(i + 5)
           /\ StepAt(i) <= StepAt(i + 7)
           /\ 7 * StepAt(i + 8) <= 16 * StepAt(i)
<1>1. StepAt(i) \in Nat /\ 7 <= StepAt(i) /\ StepAt(i) <= 32767
  <2>1. stepsize[i + 1] \in Nat
    BY Steps
  <2>2. 7 <= stepsize[i + 1] /\ stepsize[i + 1] <= 32767
    BY DEF stepsize
  <2> QED
    BY <2>1, <2>2 DEF StepAt
<1>2. \A j \in Nat : StepAt(j) \in Nat
  <2>1. \A j \in Nat : j <= 88 => j \in 0 .. 88
    OBVIOUS
  <2> QED
    BY <2>1, Steps DEF StepAt
<1>3. i + 1 \in Nat /\ i + 3 \in Nat /\ i + 5 \in Nat /\ i + 7 \in Nat /\ i + 8 \in Nat
  OBVIOUS
<1>4. StepAt(i + 1) + 2 < 4 * StepAt(i)
  BY DEF stepsize, StepAt
<1>5. StepAt(i) <= StepAt(i + 3)
  BY DEF stepsize, StepAt
<1>6. StepAt(i) <= StepAt(i + 5)
  BY DEF stepsize, StepAt
<1>7. StepAt(i) <= StepAt(i + 7)
  BY DEF stepsize, StepAt
<1>8. 7 * StepAt(i + 8) <= 16 * StepAt(i)
  BY DEF stepsize, StepAt
<1> QED
  BY <1>1, <1>2, <1>3, <1>4, <1>5, <1>6, <1>7, <1>8

LEMMA StepPlaces ==
    ASSUME NEW i \in 0 .. 88
    PROVE  /\ i <= 15 => StepAt(i) <= 31
           /\ i >= 8 => StepAt(i) > i
           /\ i >= 77 => StepAt(i) >= 11487
           /\ i >= 79 => StepAt(i) >= 13899
           /\ i >= 80 => StepAt(i) >= 15289
           /\ i >= 81 => StepAt(i) >= 16818
<1>1. i <= 15 => StepAt(i) <= 31
  BY DEF stepsize, StepAt
<1>2. i >= 8 => StepAt(i) > i
  BY DEF stepsize, StepAt
<1>3. i >= 77 => StepAt(i) >= 11487
  BY DEF stepsize, StepAt
<1>4. i >= 79 => StepAt(i) >= 13899
  BY DEF stepsize, StepAt
<1>5. i >= 80 => StepAt(i) >= 15289
  BY DEF stepsize, StepAt
<1>6. i >= 81 => StepAt(i) >= 16818
  BY DEF stepsize, StepAt
<1> QED
  BY <1>1, <1>2, <1>3, <1>4, <1>5, <1>6

--------------------------------------------------------------------------------
(* What a code leaves of the distance to its sample.                        *)

(* quantize says all the quarters that fit, unless 7 do; of a negative      *)
(* distance, which only -32768 leaves, it says 7.                           *)
LEMMA QuartersAll ==
    ASSUME NEW delta \in Int, NEW step \in Nat, step > 0
    PROVE  /\ delta < 0 => quantize(delta, step) = 7
           /\ quantize(delta, step) < 7 => 4 * delta < quantize(delta, step) * step + step
<1> DEFINE fit == {q \in 0 .. 6 : q * step <= 4 * delta /\ 4 * delta < (q + 1) * step}
<1>1. quantize(delta, step) = IF fit = {} THEN 7 ELSE Min(fit)
  BY DEF quantize
<1>2. CASE fit # {}
  <2>1. PICK q \in 0 .. 6 : /\ q = quantize(delta, step)
                            /\ q * step <= 4 * delta /\ 4 * delta < (q + 1) * step
    BY <1>1, <1>2, LeastCode
  <2>2. PICK m \in Nat : m = q * step
    OBVIOUS
  <2>3. (q + 1) * step = m + step
    BY <2>2
  <2> QED
    BY <2>1, <2>2, <2>3
<1>3. CASE fit = {}
  BY <1>1, <1>3
<1> QED
  BY <1>2, <1>3

(* roundOff and the cast change a move of the prediction by less than two.  *)
LEMMA MoveRounded ==
    ASSUME NEW p \in Int, NEW move \in Int,
           NEW quarters, quarters = 4 * p + move + IF move > 0 THEN 4 ELSE 0,
           NEW new, new = IF quarters < 0 THEN - ((- quarters) \div 4) ELSE quarters \div 4
    PROVE  /\ new \in Int
           /\ move > 0 => move + 1 <= 4 * (new - p) /\ 4 * (new - p) <= move + 7
           /\ move <= 0 => move - 3 <= 4 * (new - p) /\ 4 * (new - p) <= move + 3
<1>1. quarters \in Int
  OBVIOUS
<1>2. new \in Int /\ quarters - 3 <= 4 * new /\ 4 * new <= quarters + 3
  BY <1>1
<1>3. CASE move > 0
  <2>1. quarters = 4 * p + move + 4
    BY <1>3
  <2> QED
    BY <1>2, <1>3, <2>1
<1>4. CASE move <= 0
  <2>1. quarters = 4 * p + move
    BY <1>4
  <2> QED
    BY <1>2, <1>4, <2>1
<1> QED
  BY <1>3, <1>4

(* How far the prediction is from a sample.                                 *)
Distance(state, sample) == Abs(Wrap16(sample - state.previous))

(* What a code of seven quarters leaves of the distance e: what it is short *)
(* of it.  It is made only if they fit, or half the circle away.            *)
SevenLeave(e, s, f) ==
    /\ e = 32768 \/ 7 * s <= 4 * e
    /\ \/ 4 * f <= 7
       \/ 4 * f <= 4 * e - 7 * s + 3
       \/ e = 32768 /\ 4 * f <= 7 * s - 4 * e + 3

(* What any other code leaves is less than a quarter of the step.           *)
LEMMA CodeLeaves ==
    ASSUME NEW state \in Predictor, NEW sample \in Shorts,
           NEW s \in Nat, s = StepAt(state.index),
           NEW e \in Nat, e = Distance(state, sample),
           NEW next, next = Next4(state, Code4(state, sample)),
           NEW f \in Nat, f = Distance(next, sample)
    PROVE  \E q \in 0 .. 7 :
               /\ next.index = Adjust(state.index, q)
               /\ q < 7 => q * s <= 4 * e /\ 4 * f <= s + 2
               /\ q = 7 => SevenLeave(e, s, f)
<1>1. PICK p \in Int : p = state.previous
  BY ShortRange DEF Predictor
<1>2. PICK x \in Int : x = sample
  BY ShortRange
<1>3. PICK d \in Int : d = Wrap16(x - p) /\ -32768 <= d /\ d <= 32767
  BY WrapShort, ShortRange
<1>4. s = stepsize[state.index + 1] /\ s > 0 /\ s >= 7 /\ s <= 32767
  <2>1. PICK i \in 0 .. 88 : i = state.index
    BY DEF Predictor
  <2>2. s = StepAt(i) /\ StepAt(i) = stepsize[i + 1]
    BY <2>1 DEF StepAt
  <2>3. 7 <= StepAt(i) /\ StepAt(i) <= 32767
    BY StepsGrow
  <2> QED
    BY <2>1, <2>2, <2>3
<1>5. e = Abs(d) /\ (d >= 0 => e = d) /\ (d < 0 => e = - d)
  BY <1>1, <1>2, <1>3 DEF Distance, Abs
<1>6. PICK delta \in Int : /\ delta = Wrap16(Abs(d))
                           /\ d # -32768 => delta = e
                           /\ d = -32768 => delta < 0
  <2>1. Wrap16(e) \in Int /\ (e <= 32767 => Wrap16(e) = e)
    BY WrapShort, ShortRange
  <2>2. Wrap16(32768) = -32768
    BY DEF Wrap16
  <2> QED
    BY <1>3, <1>5, <2>1, <2>2
<1>7. PICK q \in 0 .. 7 : q = quantize(delta, s)
  BY <1>4, <1>6, QuartersFit
<1>8. /\ d # -32768 => q * s <= 4 * e
      /\ q < 7 => d # -32768 /\ 4 * e < q * s + s
  BY <1>4, <1>6, <1>7, QuartersFit, QuartersAll
<1>9. PICK sign \in {-1, 1} : sign = IF d < 0 THEN -1 ELSE 1
  OBVIOUS
<1>10. next.previous = Predict(p, sign, s, q) /\ next.index = Adjust(state.index, q)
  <2>1. /\ Code4(state, sample) % 8 = q
        /\ Code4(state, sample) > 7 <=> d < 0
    BY <1>1, <1>2, <1>3, <1>4, <1>6, <1>7, CodeParts
  <2> QED
    BY <1>1, <1>4, <1>9, <2>1 DEF Next4
<1>11. PICK m \in Nat : m = q * s
  OBVIOUS
<1>12. PICK move \in Int : /\ move = sign * s * q
                           /\ d >= 0 => move = m
                           /\ d < 0 => move = - m
  BY <1>9, <1>11
<1>13. PICK quarters \in Int : quarters = 4 * p + move + IF move > 0 THEN 4 ELSE 0
  OBVIOUS
<1>14. PICK new \in Int : new = IF quarters < 0 THEN - ((- quarters) \div 4) ELSE quarters \div 4
  OBVIOUS
<1>15. PICK g \in Int : g = d - (new - p)
  OBVIOUS
<1>16. f <= Abs(g)
  <2>1. next.previous = Wrap16(new)
    BY <1>10, <1>12, <1>13, <1>14 DEF Predict
  <2>2. PICK k \in Int : Wrap16(new) = new + 65536 * k
    BY WrapShort
  <2>3. PICK j \in Int : d = x - p + 65536 * j
    BY <1>3, WrapShort
  <2>4. PICK i \in Int : i = - (j + k)
    OBVIOUS
  <2>5. x - Wrap16(new) = g + 65536 * i
    BY <1>15, <2>2, <2>3, <2>4
  <2>6. Wrap16(g + 65536 * i) = Wrap16(g)
    BY DEF Wrap16
  <2>7. f = Abs(Wrap16(g))
    BY <1>2, <2>1, <2>5, <2>6 DEF Distance
  <2> QED
    BY <2>7, WrapShorter
<1>17. /\ move > 0 => move + 1 <= 4 * (new - p) /\ 4 * (new - p) <= move + 7
       /\ move <= 0 => move - 3 <= 4 * (new - p) /\ 4 * (new - p) <= move + 3
  BY <1>13, <1>14, MoveRounded
<1>18. Abs(g) = IF g < 0 THEN - g ELSE g
  BY DEF Abs
<1>19. /\ d >= 0 => 4 * g <= 4 * e - m + 3 /\ 4 * g >= 4 * e - m - 7
       /\ d < 0 => 4 * g >= m - 4 * e - 3 /\ 4 * g <= m - 4 * e + 3
       /\ d >= 0 /\ m > 0 => 4 * g <= 4 * e - m - 1
  BY <1>5, <1>12, <1>15, <1>17
<1>20. CASE q < 7
  <2>1. m <= 4 * e /\ 4 * e < m + s
    BY <1>8, <1>11, <1>20
  <2>2. 4 * f <= s + 2
    BY <1>4, <1>16, <1>18, <1>19, <2>1
  <2> QED
    BY <1>10, <1>11, <1>20, <2>1, <2>2
<1>21. CASE q = 7
  <2>1. m = 7 * s
    BY <1>11, <1>21
  <2>2. d # -32768 => m <= 4 * e
    BY <1>8, <1>11
  <2>3. d = -32768 => e = 32768
    BY <1>5
  <2>4. \/ 4 * f <= 7
        \/ 4 * f <= 4 * e - m + 3
        \/ e = 32768 /\ 4 * f <= m - 4 * e + 3
    <3>1. CASE d # -32768
      BY <1>16, <1>18, <1>19, <2>2, <3>1
    <3>2. CASE d = -32768
      BY <1>16, <1>18, <1>19, <2>3, <3>2
    <3> QED
      BY <3>1, <3>2
  <2> QED
    BY <1>10, <1>21, <2>1, <2>2, <2>3, <2>4 DEF SevenLeave
<1> QED
  BY <1>20, <1>21

--------------------------------------------------------------------------------
(* Many codes toward one sample.                                            *)

(* Where the index goes.                                                    *)
LEMMA IndexGoes ==
    ASSUME NEW i \in 0 .. 88, NEW q \in 0 .. 7
    PROVE  /\ q <= 3 => Adjust(i, q) = IF i = 0 THEN 0 ELSE i - 1
           /\ q = 4 => Adjust(i, q) = IF i + 2 > 88 THEN 88 ELSE i + 2
           /\ q = 5 => Adjust(i, q) = IF i + 4 > 88 THEN 88 ELSE i + 4
           /\ q = 6 => Adjust(i, q) = IF i + 6 > 88 THEN 88 ELSE i + 6
           /\ q = 7 => Adjust(i, q) = IF i + 8 > 88 THEN 88 ELSE i + 8
<1>1. PICK a \in Int : a = indexadjust[q + 1]
  BY DEF indexadjust
<1>2. /\ q <= 3 => a = -1
      /\ q = 4 => a = 2
      /\ q = 5 => a = 4
      /\ q = 6 => a = 6
      /\ q = 7 => a = 8
  BY <1>1 DEF indexadjust
<1>3. PICK x \in Int : x = i + a
  OBVIOUS
<1>4. PICK y \in Int : y = Min({88, x}) /\ y = IF 88 <= x THEN 88 ELSE x
  BY LeastOfTwo
<1>5. PICK z \in Int : z = Max({0, y}) /\ z = IF 0 <= y THEN y ELSE 0
  BY GreatestOfTwo
<1>6. Adjust(i, q) = z
  BY <1>1, <1>3, <1>4, <1>5 DEF Adjust
<1> QED
  BY <1>2, <1>3, <1>4, <1>5, <1>6

(* After k codes toward one sample either the step size has grown at every  *)
(* code, and the steps made up to now are a share, in hundredths, of the    *)
(* next one; or it has shrunk since it was larger than the distance, and    *)
(* has done so for all but a few of the codes.                              *)
Share(k) == IF k = 0 THEN 0 ELSE IF k = 1 THEN 25 ELSE IF k = 2 THEN 87
                            ELSE IF k = 3 THEN 114 ELSE 126

Growing(k, i, e) ==
    /\ 8 * k <= i
    /\ k >= 5 => i <= 84
    /\ 100 * e + Share(k) * StepAt(i) <= 100 * (32768 + k)

Shrinking(k, i, e) ==
    /\ 4 * e <= StepAt(i + 1) + 2
    /\ i <= 14 \/ i + k <= 94

OnTheWay(k, i, e) == Growing(k, i, e) \/ Shrinking(k, i, e)

(* The index at which a step was as large as the distance.                  *)
LEMMA Turns ==
    ASSUME NEW k \in Nat, NEW i \in 0 .. 88, NEW e \in Nat, OnTheWay(k, i, e),
           NEW q \in 0 .. 6, q * StepAt(i) <= 4 * e,
           NEW f \in Nat, 4 * f <= StepAt(i) + 2
    PROVE  Shrinking(k + 1, Adjust(i, q), f)
<1>1. PICK s \in Nat : s = StepAt(i) /\ 7 <= s /\ s <= 32767
  BY StepsGrow
<1>2. PICK j \in Int : j = Adjust(i, q)
  BY IndexGoes
<1>3. CASE q <= 3
  <2>1. j = IF i = 0 THEN 0 ELSE i - 1
    BY <1>2, <1>3, IndexGoes
  <2>2. 4 * f <= StepAt(j + 1) + 2
    <3>1. CASE i = 0
      <4>1. j + 1 = 1 /\ StepAt(0) = 7 /\ StepAt(1) = 8
        BY <2>1, <3>1 DEF StepAt, stepsize
      <4> QED
        BY <3>1, <4>1
    <3>2. CASE i # 0
      <4>1. j + 1 = i
        BY <2>1, <3>2
      <4> QED
        BY <4>1
    <3> QED
      BY <3>1, <3>2
  <2>3. j <= 14 \/ j + (k + 1) <= 94
    BY <2>1 DEF OnTheWay, Growing, Shrinking
  <2> QED
    BY <1>2, <2>2, <2>3 DEF Shrinking
<1>4. CASE q >= 4
  <2>1. 4 * s <= 4 * e /\ (q >= 5 => 5 * s <= 4 * e)
    <3>1. q = 4 \/ q = 5 \/ q = 6
      BY <1>4
    <3> QED
      BY <1>1, <3>1
  <2>2. Growing(k, i, e)
    <3>1. StepAt(i + 1) + 2 < 4 * StepAt(i) /\ StepAt(i + 1) \in Nat
      BY StepsGrow
    <3> QED
      BY <1>1, <2>1, <3>1 DEF OnTheWay, Shrinking
  <2>3. /\ j <= 88 /\ j <= i + 6 /\ (q = 4 => j <= i + 2)
        /\ j = 88 \/ j = i + 2 \/ j = i + 4 \/ j = i + 6
    BY <1>2, <1>4, IndexGoes
  <2>4. 4 * f <= StepAt(j + 1) + 2
    <3>1. /\ StepAt(i) <= StepAt(i + 3) /\ StepAt(i) <= StepAt(i + 5)
          /\ StepAt(i) <= StepAt(i + 7)
          /\ StepAt(89) = 32767
      BY StepsGrow DEF StepAt
    <3>2. j + 1 = 89 \/ j + 1 = i + 3 \/ j + 1 = i + 5 \/ j + 1 = i + 7
      BY <2>3
    <3>3. StepAt(i + 3) \in Nat /\ StepAt(i + 5) \in Nat /\ StepAt(i + 7) \in Nat
      BY StepsGrow
    <3> QED
      BY <1>1, <3>1, <3>2, <3>3
  <2>5. j + (k + 1) <= 94
    <3>1. CASE k <= 5
      BY <2>3, <3>1
    <3>2. CASE k >= 6
      <4>1. /\ 8 * k <= i /\ i <= 84
            /\ 100 * e + 126 * s <= 100 * (32768 + k)
        BY <1>1, <2>2, <3>2 DEF Growing, Share
      <4>2. i <= 79 /\ (q >= 5 => i <= 78)
        BY <1>1, <2>1, <4>1, StepPlaces
      <4> QED
        BY <1>4, <2>3, <4>1, <4>2
    <3> QED
      BY <3>1, <3>2
  <2> QED
    BY <1>2, <2>4, <2>5 DEF Shrinking
<1> QED
  BY <1>3, <1>4

(* The step grows, and so does what has been made of the distance.          *)
LEMMA Grows ==
    ASSUME NEW k \in Nat, NEW i \in 0 .. 88, NEW e \in Nat, OnTheWay(k, i, e),
           NEW f \in Nat, SevenLeave(e, StepAt(i), f)
    PROVE  Growing(k + 1, Adjust(i, 7), f)
<1>1. PICK s \in Nat : s = StepAt(i) /\ 7 <= s /\ s <= 32767
  BY StepsGrow
<1>2. PICK j \in 0 .. 88 : j = Adjust(i, 7) /\ j = IF i + 8 > 88 THEN 88 ELSE i + 8
  BY IndexGoes
<1>3. PICK t \in Nat : t = StepAt(j) /\ 7 * t <= 16 * s /\ t <= 32767
  <2>1. StepAt(j) \in Nat /\ StepAt(j) <= 32767 /\ 7 * StepAt(i + 8) <= 16 * StepAt(i)
    BY StepsGrow
  <2>2. StepAt(j) = StepAt(i + 8)
    <3>1. i + 8 > 88 => StepAt(i + 8) = 32767
      BY DEF StepAt
    <3>2. StepAt(88) = 32767
      BY DEF StepAt, stepsize
    <3> QED
      BY <1>2, <3>1, <3>2
  <2> QED
    BY <1>1, <2>1, <2>2
<1>4. /\ e = 32768 \/ 7 * s <= 4 * e
      /\ \/ 4 * f <= 7
         \/ 4 * f <= 4 * e - 7 * s + 3
         \/ e = 32768 /\ 4 * f <= 7 * s - 4 * e + 3
  BY <1>1 DEF SevenLeave
<1>5. Growing(k, i, e)
  <2>1. StepAt(i + 1) + 2 < 4 * StepAt(i) /\ StepAt(i + 1) \in Nat
    BY StepsGrow
  <2> QED
    BY <1>1, <1>4, <2>1 DEF OnTheWay, Shrinking
<1>6. CASE k = 0
  <2>1. 100 * e <= 100 * 32768
    BY <1>1, <1>5, <1>6 DEF Growing, Share
  <2>2. 100 * f + 25 * t <= 100 * (32768 + 1)
    BY <1>1, <1>3, <1>4, <2>1
  <2> QED
    BY <1>2, <1>3, <1>6, <2>2 DEF Growing, Share
<1>7. CASE k >= 1
  <2>1. /\ e < 32768 /\ 7 * s <= 4 * e
        /\ 4 * f <= 7 \/ 4 * f <= 4 * e - 7 * s + 3
    <3>1. 100 * e + 25 * s <= 100 * (32768 + k) /\ 8 * k <= i
      BY <1>1, <1>5, <1>7 DEF Growing, Share
    <3>2. s > i
      BY <1>1, <1>7, <3>1, StepPlaces
    <3> QED
      BY <1>1, <1>4, <1>7, <3>1, <3>2
  <2>2. 4 * f <= 4 * e - 7 * s + 7
    BY <2>1
  <2>3. i <= 80 /\ (k >= 4 => i <= 76) /\ 8 * k <= i
    <3>1. 8 * k <= i /\ 100 * e + 25 * s <= 100 * (32768 + k)
      BY <1>1, <1>5, <1>7 DEF Growing, Share
    <3>2. k >= 4 => 100 * e + 126 * s <= 100 * (32768 + k)
      BY <1>1, <1>5 DEF Growing, Share
    <3>3. (i >= 77 => s >= 11487) /\ (i >= 81 => s >= 16818)
      BY <1>1, StepPlaces
    <3> QED
      BY <1>1, <2>1, <3>1, <3>2, <3>3
  <2>4. j = i + 8
    BY <1>2, <2>3
  <2>5. 100 * f + Share(k + 1) * t <= 100 * (32768 + (k + 1))
    <3>1. CASE k = 1
      BY <1>1, <1>3, <1>5, <2>1, <2>2, <3>1 DEF Growing, Share
    <3>2. CASE k = 2
      BY <1>1, <1>3, <1>5, <2>1, <2>2, <3>2 DEF Growing, Share
    <3>3. CASE k = 3
      BY <1>1, <1>3, <1>5, <2>1, <2>2, <3>3 DEF Growing, Share
    <3>4. CASE k >= 4
      BY <1>1, <1>3, <1>5, <2>1, <2>2, <3>4 DEF Growing, Share
    <3> QED
      BY <1>7, <3>1, <3>2, <3>3, <3>4
  <2> QED
    BY <1>2, <1>3, <2>3, <2>4, <2>5 DEF Growing
<1> QED
  BY <1>6, <1>7

(* One more code toward the sample.                                         *)
LEMMA CodeOnTheWay ==
    ASSUME NEW state \in Predictor, NEW sample \in Shorts, NEW k \in Nat,
           OnTheWay(k, state.index, Distance(state, sample)),
           NEW next \in Predictor, next = Next4(state, Code4(state, sample))
    PROVE  OnTheWay(k + 1, next.index, Distance(next, sample))
<1>1. PICK i \in 0 .. 88 : i = state.index
  BY DEF Predictor
<1>2. \A x \in Predictor : Distance(x, sample) \in Nat /\ Distance(x, sample) <= 32768
  <2> SUFFICES ASSUME NEW x \in Predictor
               PROVE  Distance(x, sample) \in Nat /\ Distance(x, sample) <= 32768
    OBVIOUS
  <2>1. sample - x.previous \in Int
    BY ShortRange DEF Predictor
  <2> QED
    BY <2>1, WrapShorter DEF Distance
<1>3. PICK e \in Nat : e = Distance(state, sample) /\ e <= 32768
  BY <1>2
<1>4. PICK f \in Nat : f = Distance(next, sample)
  BY <1>2
<1>5. PICK s \in Nat : s = StepAt(i)
  BY StepsGrow
<1>6. PICK q \in 0 .. 7 :
          /\ next.index = Adjust(i, q)
          /\ q < 7 => q * s <= 4 * e /\ 4 * f <= s + 2
          /\ q = 7 => SevenLeave(e, s, f)
  BY <1>1, <1>3, <1>4, <1>5, CodeLeaves
<1>7. OnTheWay(k, i, e)
  BY <1>1, <1>3
<1>8. CASE q < 7
  <2>1. q \in 0 .. 6 /\ q * StepAt(i) <= 4 * e /\ 4 * f <= StepAt(i) + 2
    BY <1>5, <1>6, <1>8
  <2>2. Shrinking(k + 1, Adjust(i, q), f)
    BY <1>7, <2>1, Turns
  <2> QED
    BY <1>4, <1>6, <2>2 DEF OnTheWay
<1>9. CASE q = 7
  <2>1. SevenLeave(e, StepAt(i), f)
    BY <1>5, <1>6, <1>9
  <2>2. Growing(k + 1, Adjust(i, 7), f)
    BY <1>7, <2>1, Grows
  <2> QED
    BY <1>4, <1>6, <1>9, <2>2 DEF OnTheWay
<1> QED
  BY <1>8, <1>9

(* No code has been made toward the sample.                                 *)
LEMMA SetsOut ==
    ASSUME NEW state \in Predictor, NEW sample \in Shorts
    PROVE  OnTheWay(0, state.index, Distance(state, sample))
<1>1. PICK i \in 0 .. 88 : i = state.index
  BY DEF Predictor
<1>2. sample - state.previous \in Int
  BY ShortRange DEF Predictor
<1>3. PICK e \in Nat : e = Distance(state, sample) /\ e <= 32768
  BY <1>2, WrapShorter DEF Distance
<1>4. StepAt(i) \in Nat
  BY StepsGrow
<1>5. Growing(0, i, e)
  BY <1>3, <1>4 DEF Growing, Share
<1> QED
  BY <1>1, <1>3, <1>5 DEF OnTheWay

(* After 80 codes the step size has shrunk to 31 and the distance to 8.     *)
LEMMA Arrived ==
    ASSUME NEW k \in Nat, k >= 80, NEW i \in 0 .. 88, NEW e \in Nat, OnTheWay(k, i, e)
    PROVE  e <= 8
<1>1. i <= 14 /\ 4 * e <= StepAt(i + 1) + 2
  BY DEF OnTheWay, Growing, Shrinking
<1>2. PICK j \in 0 .. 88 : j = i + 1 /\ j <= 15
  BY <1>1
<1>3. StepAt(j) \in Nat /\ (j <= 15 => StepAt(j) <= 31)
  BY StepsGrow, StepPlaces
<1> QED
  BY <1>1, <1>2, <1>3

--------------------------------------------------------------------------------
(* The same of a block that is encoded.                                     *)

(* The next sample, if the last k codes were made toward its value.         *)
SameSince(samples, n, k) == \A i \in n + 2 - k .. n : samples[i] = samples[n + 1]

SettlingInv ==
    Coding =>
        LET n == Len(coding.codes)
        IN  \A k \in 0 .. n :
                SameSince(coding.samples, n, k) =>
                    OnTheWay(k, stateEnc.index, Distance(stateEnc, coding.samples[n + 1]))

LEMMA StartSettles == CodecInit => SettlingInv
BY DEF CodecInit, SettlingInv, Coding

LEMMA EncodeSettles ==
    ASSUME CodecInv, NEW bytes \in Sound(Bytes), NEW tone \in {<<>>} \cup Sound(Shorts),
           Encode(bytes, tone)
    PROVE  SettlingInv'
<1>1. CodecInv'
  BY EncodeKeeps
<1>2. Len(coding'.codes) = 0 /\ coding'.samples[1] \in Shorts
  BY LinearBlock DEF Encode, NoBlock
<1>3. stateEnc' \in Predictor
  BY <1>1 DEF CodecInv, CodecTypeOK
<1>4. OnTheWay(0, stateEnc'.index, Distance(stateEnc', coding'.samples[1]))
  BY <1>2, <1>3, SetsOut
<1>5. \A k \in 0 .. 0 : k = 0
  OBVIOUS
<1> QED
  BY <1>2, <1>4, <1>5 DEF SettlingInv

LEMMA SampleSettles ==
    ASSUME CodecInv, SettlingInv, EncodeSample
    PROVE  SettlingInv'
<1> DEFINE N == Len(coding.codes)
<1>1. /\ Coding /\ N < BlockLen /\ N \in Nat /\ BlockLen \in Nat
      /\ coding \in Drafts /\ stateEnc \in Predictor
  BY BlockAssumption DEF EncodeSample, CodecInv, CodecTypeOK, Coding, Drafts
<1>2. coding.codes \in Seq(Code) /\ coding.samples \in Sound(Shorts)
  BY <1>1 DEF Drafts
<1>3. PICK sample \in Shorts : sample = coding.samples[N + 2]
  BY <1>1, <1>2 DEF Sound
<1>4. PICK code \in Code : code = Code4(stateEnc, sample)
  BY <1>1, CodeParts
<1>5. PICK next \in Predictor : next = Next4(stateEnc, code)
  BY <1>1, NextPredictor
<1>6. /\ stateEnc' = next /\ Len(coding'.codes) = N + 1 /\ coding'.samples = coding.samples
  <2>1. Len(Append(coding.codes, code)) = N + 1
    BY <1>2, AppendProperties
  <2> QED
    BY <1>1, <1>3, <1>4, <1>5, <2>1 DEF EncodeSample, Drafts
<1>7. ASSUME NEW k \in 0 .. N + 1, SameSince(coding.samples, N + 1, k)
      PROVE  OnTheWay(k, next.index, Distance(next, sample))
  <2>1. CASE k = 0
    BY <2>1, SetsOut
  <2>2. CASE k # 0
    <3>1. PICK j \in 0 .. N : k = j + 1
      <4>1. k - 1 \in 0 .. N /\ k = (k - 1) + 1
        BY <1>1, <2>2
      <4> QED
        BY <4>1
    <3>2. OnTheWay(j, stateEnc.index, Distance(stateEnc, sample))
      <4>1. CASE j = 0
        BY <1>1, <4>1, SetsOut
      <4>2. CASE j # 0
        <5>1. \A i \in N + 2 - j .. N + 1 : coding.samples[i] = sample
          <6>1. (N + 1) + 2 - k = N + 2 - j /\ (N + 1) + 1 = N + 2
            BY <1>1, <3>1
          <6> QED
            BY <1>3, <1>7, <6>1 DEF SameSince
        <5>2. coding.samples[N + 1] = sample
          <6>1. N + 1 \in N + 2 - j .. N + 1
            BY <1>1, <4>2
          <6> QED
            BY <5>1, <6>1
        <5>3. SameSince(coding.samples, N, j)
          <6>1. \A i \in N + 2 - j .. N : i \in N + 2 - j .. N + 1
            BY <1>1
          <6> QED
            BY <5>1, <5>2, <6>1 DEF SameSince
        <5> QED
          BY <1>1, <5>2, <5>3 DEF SettlingInv
      <4> QED
        BY <4>1, <4>2
    <3> QED
      BY <1>1, <1>4, <1>5, <3>1, <3>2, CodeOnTheWay
  <2> QED
    BY <2>1, <2>2
<1>8. (N + 1) + 1 = N + 2
  BY <1>1
<1> QED
  BY <1>3, <1>6, <1>7, <1>8 DEF SettlingInv

LEMMA StepSettles ==
    ASSUME CodecInv, SettlingInv, [CodecNext]_codecVars
    PROVE  SettlingInv'
<1>1. ASSUME NEW bytes \in Captures, Encode(bytes, <<>>) PROVE SettlingInv'
  BY <1>1, EncodeSettles, SoundAssumption
<1>2. ASSUME NEW tone \in Tones, Encode([i \in 1 .. Len(tone) |-> linear2ulaw(tone[i])], tone)
      PROVE  SettlingInv'
  <2>1. tone \in Sound(Shorts)
    BY SoundAssumption
  <2>2. PICK bytes \in Sound(Bytes) : bytes = [i \in 1 .. Len(tone) |-> linear2ulaw(tone[i])]
    BY <2>1, ToneBlock
  <2> QED
    BY <1>2, <2>1, <2>2, EncodeSettles
<1>3. CASE EncodeSample
  BY <1>3, SampleSettles
<1>4. CASE EncodeEnds
  BY <1>4 DEF EncodeEnds, SettlingInv, Coding
<1>5. ASSUME UNCHANGED <<coding, stateEnc>> PROVE SettlingInv'
  BY <1>5 DEF SettlingInv, Coding
<1>6. ASSUME NEW block \in blocks, Decode(block) PROVE SettlingInv'
  BY <1>5, <1>6 DEF Decode
<1>7. ASSUME NEW block \in heard.block, DecodeCode(block) \/ DecodeEnds(block)
      PROVE  SettlingInv'
  BY <1>5, <1>7 DEF DecodeCode, DecodeEnds
<1>8. CASE UNCHANGED codecVars
  BY <1>5, <1>8 DEF codecVars
<1> QED
  BY <1>1, <1>2, <1>3, <1>4, <1>6, <1>7, <1>8 DEF CodecNext

LEMMA SettlingInvariance == CodecSpec => []SettlingInv
<1>1. CodecInit => SettlingInv
  BY StartSettles
<1>2. CodecInv /\ SettlingInv /\ [CodecNext]_codecVars => SettlingInv'
  BY StepSettles
<1> QED
  BY <1>1, <1>2, Invariance, PTL DEF CodecSpec

(* In a block of the program's length or a longer one, whatever it holds,   *)
(* the prediction comes within 8 of a steady sample in half a block after   *)
(* any jump, and stays there: the step size has grown to the distance, and  *)
(* shrunk again, in at most 80 codes (adpcm_encode).                        *)
THEOREM SettlesInHalfABlock == BlockLen >= 160 => (CodecSpec => []Settles)
<1> SUFFICES ASSUME BlockLen >= 160 PROVE CodecSpec => []Settles
  OBVIOUS
<1>1. CodecInv /\ SettlingInv => Settles
  <2> DEFINE n == Len(coding.states)
             half == BlockLen \div 2
  <2> SUFFICES ASSUME CodecInv, SettlingInv, n >= half,
                      \A i \in n + 2 - half .. n : coding.samples[i] = coding.samples[n + 1]
               PROVE  Apart(n + 1, n) <= 8
    BY DEF Settles
  <2>1. half \in Nat /\ half >= 80 /\ BlockLen \in Nat
    BY BlockAssumption
  <2>2. Coding
    <3>1. n # 0
      BY <2>1
    <3> QED
      BY <3>1 DEF Coding, NoBlock
  <2>3. /\ coding \in Drafts /\ n = Len(coding.codes) /\ n <= BlockLen
        /\ stateEnc = StateAt(coding.samples[1], coding.states, n) /\ stateEnc \in Predictor
    BY <2>2 DEF Coding, CodecInv, CodecTypeOK, CodingInv
  <2>4. n \in Nat /\ coding.samples[n + 1] \in Shorts
    <3>1. n \in Nat /\ coding.samples \in Sound(Shorts)
      BY <2>3 DEF Drafts
    <3> QED
      BY <2>1, <2>3, <3>1 DEF Sound
  <2>5. PICK i \in 0 .. 88 : i = stateEnc.index
    BY <2>3 DEF Predictor
  <2>6. PICK e \in Nat : e = Distance(stateEnc, coding.samples[n + 1])
    <3>1. coding.samples[n + 1] - stateEnc.previous \in Int
      BY <2>3, <2>4, ShortRange DEF Predictor
    <3> QED
      BY <3>1, WrapShorter DEF Distance
  <2>7. OnTheWay(half, i, e)
    <3>1. half \in 0 .. n
      BY <2>1, <2>4
    <3>2. SameSince(coding.samples, n, half)
      BY DEF SameSince
    <3> QED
      BY <2>2, <2>3, <2>5, <2>6, <3>1, <3>2 DEF SettlingInv
  <2>8. e <= 8
    BY <2>1, <2>7, Arrived
  <2>9. Apart(n + 1, n) = e
    <3>1. Predicted(n) = stateEnc.previous
      BY <2>1, <2>3, <2>4 DEF Predicted, StateAt
    <3> QED
      BY <2>6, <3>1 DEF Apart, Distance
  <2> QED
    BY <2>8, <2>9
<1> QED
  BY <1>1, Invariance, SettlingInvariance, PTL
================================================================================
