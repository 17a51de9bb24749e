------------------------- MODULE TimestampMathProofs -------------------------
(***************************************************************************)
(* The long division, the conversions built on it and the time of a sample *)
(* inside a block are exact for every word width.                          *)
(*                                                                         *)
(* The argument.  Write P for the power of two of the bits to come.  Then  *)
(*   (quotient * divisor + remainder) * P + value * rest                   *)
(*      = value * multiplier                                               *)
(* holds at every iteration: doubling moves a factor of two from P to the  *)
(* bracket, and a bit of the multiplier moves from rest to the bracket.    *)
(* The remainder stays below the divisor and the quotient below the        *)
(* multiplier, so that no intermediate wraps.  A conversion has whole      *)
(* seconds and a division under way that together stand for its argument   *)
(* (ConversionInv).                                                        *)
(***************************************************************************)
EXTENDS TimestampMath, TLAPS

USE DEF vars, division

Dividing == pc \in {"fraction", "phase", "carry"}

DivisionInv ==
  /\ value \in Nat /\ multiplier \in Nat /\ divisor \in Nat /\ bits \in 0..Width
  /\ rest \in Nat /\ quotient \in Nat /\ remainder \in Nat
  /\ Dividing =>
       /\ value < divisor /\ remainder < divisor /\ divisor < Word
       /\ 0 < multiplier /\ multiplier < Word /\ rest < Pow[bits]
       /\ (quotient * divisor + remainder) * Pow[bits] + value * rest
            = value * multiplier

-----------------------------------------------------------------------------
LEMMA WordTyped == Word \in Nat \ {0}
BY TimestampAssumption DEF Word

LEMMA ModSmall == ASSUME NEW x \in Nat, NEW w \in Nat, w > 0, x < w PROVE x % w = x
BY SMTT(30)

LEMMA WrapSmall == ASSUME NEW x \in Nat, x < Word PROVE Wrap(x) = x
<1> HIDE DEF Word
<1> QED  BY WordTyped, ModSmall DEF Wrap

LEMMA ProductTyped == ASSUME NEW x \in Nat, NEW y \in Nat PROVE x * y \in Nat
OBVIOUS

\* Adding modulo the divisor never leaves the word.
LEMMA PlusExact ==
  ASSUME NEW r \in Nat, NEW a \in Nat, divisor \in Nat, divisor < Word,
         r < divisor, a < divisor
  PROVE  /\ Plus(r, a) \in Nat /\ Plus(r, a) < divisor
         /\ Carry(r, a) \in {0, 1}
         /\ Plus(r, a) = r + a - Carry(r, a) * divisor
<1> HIDE DEF Word
<1>1. Wrap(divisor - a) = divisor - a
  <2>1. divisor - a \in Nat /\ divisor - a < Word  BY WordTyped
  <2> QED  BY <2>1, WrapSmall
<1>2. CASE r >= divisor - a
  <2>1. r - (divisor - a) \in Nat /\ r - (divisor - a) < Word  BY <1>2, WordTyped
  <2>2. Wrap(r - (divisor - a)) = r - (divisor - a)  BY <2>1, WrapSmall
  <2>3. Carries(r, a)  BY <1>1, <1>2 DEF Carries
  <2>4. Carry(r, a) = 1 /\ Plus(r, a) = r - (divisor - a)
    BY <1>1, <2>2, <2>3 DEF Plus, Carry
  <2> QED  BY <1>2, <2>4
<1>3. CASE ~(r >= divisor - a)
  <2>1. r + a \in Nat /\ r + a < Word  BY <1>3, WordTyped
  <2>2. Wrap(r + a) = r + a  BY <2>1, WrapSmall
  <2>3. ~Carries(r, a)  BY <1>1, <1>3 DEF Carries
  <2>4. Carry(r, a) = 0 /\ Plus(r, a) = r + a  BY <2>2, <2>3 DEF Plus, Carry
  <2> QED  BY <1>3, <2>4
<1> QED  BY <1>2, <1>3

LEMMA ProductMonotone ==
  ASSUME NEW x \in Nat, NEW y \in Nat, NEW z \in Nat, x <= y
  PROVE  x * z <= y * z
<1>1. PICK k \in Nat : y = x + k
  <2>1. y - x \in Nat /\ y = x + (y - x)  OBVIOUS
  <2> QED  BY <2>1
<1>2. y * z = x * z + k * z  BY <1>1
<1>3. k * z >= 0  OBVIOUS
<1>4. x * z \in Nat /\ y * z \in Nat /\ k * z \in Nat  OBVIOUS
<1> QED  BY <1>2, <1>3, <1>4

LEMMA ScaledUp ==
  ASSUME NEW q \in Nat, NEW d \in Nat, NEW r \in Nat, NEW P \in Nat \ {0}
  PROVE  (q * d + r) * P \in Nat /\ q * d <= (q * d + r) * P
<1>1. q * d \in Nat  OBVIOUS
<1> DEFINE s == q * d + r
<1>2. s \in Nat /\ q * d <= s  BY <1>1
<1> HIDE DEF s
<1>3. s <= s * P
  <2>1. 1 * s <= P * s  BY <1>2, ProductMonotone
  <2>2. P * s = s * P /\ 1 * s = s  BY <1>2
  <2> QED  BY <2>1, <2>2
<1>4. s * P \in Nat  BY <1>2
<1>5. s * P \in Nat /\ q * d <= s * P  BY <1>1, <1>2, <1>3, <1>4
<1> QED  BY <1>5 DEF s

LEMMA StrictProduct ==
  ASSUME NEW v \in Nat, NEW d \in Nat, NEW m \in Nat, v < d, 0 < m
  PROVE  v * m < d * m
<1>1. (v + 1) * m <= d * m  BY ProductMonotone
<1>2. (v + 1) * m = v * m + m  OBVIOUS
<1>3. v * m \in Nat /\ d * m \in Nat  BY ProductTyped
<1> QED  BY <1>1, <1>2, <1>3

LEMMA Bracketed ==
  ASSUME NEW x \in Nat, NEW y \in Nat, NEW z \in Nat, x + y = z
  PROVE  x <= z
OBVIOUS

\* A quotient that the invariant admits is below the multiplier.
LEMMA QuotientSmall ==
  ASSUME NEW q \in Nat, NEW r \in Nat, NEW d \in Nat, NEW v \in Nat, NEW m \in Nat,
         NEW P \in Nat \ {0}, NEW t \in Nat, v < d, 0 < m
  PROVE  (q * d + r) * P + v * t = v * m => q < m
<1> DEFINE s == (q * d + r) * P
           qd == q * d
           vm == v * m
           dm == d * m
           vt == v * t
<1>1. s \in Nat /\ qd <= s  BY ScaledUp
<1>2. qd \in Nat /\ vm \in Nat /\ dm \in Nat /\ vt \in Nat  BY ProductTyped
<1>3. vm < dm  BY StrictProduct
<1>4. m <= q => dm <= qd
  <2>1. m <= q => m * d <= q * d  BY ProductMonotone
  <2>2. m * d = d * m  OBVIOUS
  <2> QED  BY <2>1, <2>2
<1> HIDE DEF s, qd, vm, dm, vt
<1>5. s + vt = vm => q < m  BY <1>1, <1>2, <1>3, <1>4
<1> QED  BY <1>5 DEF s, vt, vm

-----------------------------------------------------------------------------
\* The algebra of one iteration: c1 and c2 are the carries, b the bit.
LEMMA BracketStep ==
  ASSUME NEW q \in Nat, NEW r \in Nat, NEW d \in Nat, NEW v \in Nat, NEW H \in Nat,
         NEW t \in Nat, NEW c1 \in {0, 1}, NEW c2 \in {0, 1}, NEW b \in {0, 1}
  PROVE  ((2 * q + c1 + c2) * d + (2 * r - c1 * d + b * v - c2 * d)) * H + v * (t - b * H)
           = (q * d + r) * (2 * H) + v * t
<1>1. (2 * q + c1 + c2) * d + (2 * r - c1 * d + b * v - c2 * d) = 2 * (q * d + r) + b * v
  OBVIOUS
<1> DEFINE s == q * d + r
<1>2. s \in Int  OBVIOUS
<1> HIDE DEF s
<1>3. (2 * s + b * v) * H + v * (t - b * H) = s * (2 * H) + v * t
  <2>1. CASE b = 0  BY <1>2, <2>1
  <2>2. CASE b = 1  BY <1>2, <2>2
  <2> QED  BY <2>1, <2>2
<1> QED  BY <1>1, <1>3 DEF s

LEMMA HalfPower ==
  ASSUME NEW n \in 1..Width
  PROVE  /\ n - 1 \in 0..Width /\ Pow[n - 1] \in Nat \ {0} /\ Pow[n] \in Nat \ {0}
         /\ Pow[n] = 2 * Pow[n - 1]
<1>1. Width \in Nat /\ Pow \in [0..Width -> Nat \ {0}]
  BY TimestampAssumption
<1>2. n - 1 \in 0..Width /\ n \in 0..Width  BY <1>1
<1>3. Pow[n] = 2 * Pow[n - 1]  BY TimestampAssumption
<1> QED  BY <1>1, <1>2, <1>3

LEMMA StepKeeps == DivisionInv /\ DivideStep => DivisionInv'
<1> SUFFICES ASSUME DivisionInv, DivideStep PROVE DivisionInv'  OBVIOUS
<1> HIDE DEF Word
<1> DEFINE H == Pow[bits - 1]
           b == IF rest >= H THEN 1 ELSE 0
           doubled == Plus(remainder, remainder)
           c1 == Carry(remainder, remainder)
           c2 == IF rest >= H THEN Carry(doubled, value) ELSE 0
           q2 == 2 * quotient + c1 + c2
           r2 == 2 * remainder - c1 * divisor + b * value - c2 * divisor
           t2 == rest - b * H
<1>1. /\ Dividing /\ bits \in 1..Width /\ bits' = bits - 1
      /\ UNCHANGED <<pc, value, multiplier, divisor>>
  BY DEF DivideStep, DivisionInv, Dividing
<1>2. /\ value \in Nat /\ multiplier \in Nat /\ divisor \in Nat
      /\ rest \in Nat /\ quotient \in Nat /\ remainder \in Nat
      /\ value < divisor /\ remainder < divisor /\ divisor < Word
      /\ 0 < multiplier /\ multiplier < Word /\ rest < Pow[bits]
      /\ (quotient * divisor + remainder) * Pow[bits] + value * rest
           = value * multiplier
  BY <1>1 DEF DivisionInv
<1>3. H \in Nat \ {0} /\ Pow[bits] = 2 * H /\ bits' \in 0..Width /\ Pow[bits'] = H
  BY <1>1, HalfPower
<1>4. /\ doubled \in Nat /\ doubled < divisor /\ c1 \in {0, 1}
      /\ doubled = remainder + remainder - c1 * divisor
  BY <1>2, PlusExact
<1>5. /\ rest >= H => /\ Plus(doubled, value) \in Nat /\ Plus(doubled, value) < divisor
                      /\ Plus(doubled, value) = doubled + value - c2 * divisor
      /\ c2 \in {0, 1}
  <2> HIDE DEF doubled
  <2>1. /\ Plus(doubled, value) \in Nat /\ Plus(doubled, value) < divisor
        /\ Carry(doubled, value) \in {0, 1}
        /\ Plus(doubled, value) = doubled + value - Carry(doubled, value) * divisor
    BY <1>2, <1>4, PlusExact
  <2> QED  BY <2>1
<1>6. b \in {0, 1} /\ t2 \in Nat /\ t2 < H /\ rest' = t2
  <2>1. rest' = IF rest >= H THEN rest - H ELSE rest  BY DEF DivideStep
  <2> HIDE DEF H
  <2> QED  BY <1>2, <1>3, <2>1
<1>7. remainder' = r2 /\ r2 \in Nat /\ r2 < divisor
  <2>1. remainder' = IF rest >= H THEN Plus(doubled, value) ELSE doubled
    BY DEF DivideStep
  <2>2. CASE rest >= H
    <3> HIDE DEF H, doubled, c1, c2
    <3>1. r2 = doubled + value - c2 * divisor
      <4>1. 1 * value = value  BY <1>2
      <4> QED  BY <1>2, <1>4, <1>5, <2>2, <4>1
    <3> QED  BY <2>1, <2>2, <3>1, <1>5
  <2>3. CASE ~(rest >= H)
    <3>1. c2 = 0 /\ b = 0  BY <2>3
    <3> HIDE DEF H, doubled, c1, c2, b
    <3>2. 0 * value = 0 /\ 0 * divisor = 0  BY <1>2
    <3>3. r2 = doubled  BY <1>2, <1>4, <3>1, <3>2
    <3> QED  BY <2>1, <2>3, <3>3, <1>4
  <2> QED  BY <2>2, <2>3
<1>8. (q2 * divisor + r2) * H + value * t2 = value * multiplier
  <2> HIDE DEF H, c1, c2, b
  <2>1. (q2 * divisor + r2) * H + value * t2
          = (quotient * divisor + remainder) * (2 * H) + value * rest
    BY <1>2, <1>3, <1>4, <1>5, <1>6, BracketStep
  <2> QED  BY <2>1, <1>2, <1>3
<1>9. q2 \in Nat /\ q2 < multiplier
  <2> HIDE DEF H, c1, c2, b
  <2>1. q2 \in Nat  BY <1>2, <1>4, <1>5
  <2> HIDE DEF q2, r2, t2
  <2> QED  BY <2>1, <1>2, <1>3, <1>6, <1>7, <1>8, QuotientSmall
<1>10. quotient' = q2
  <2> DEFINE once == Wrap(2 * quotient + c1)
  <2>1. quotient' = IF rest >= H THEN Wrap(once + Carry(doubled, value)) ELSE once
    BY DEF DivideStep
  <2>2. once = 2 * quotient + c1
    <3> HIDE DEF H, c1, c2
    <3>1. 2 * quotient + c1 \in Nat /\ 2 * quotient + c1 < Word
      BY <1>2, <1>4, <1>5, <1>9, WordTyped
    <3> QED  BY <3>1, WrapSmall
  <2>3. q2 < Word  BY <1>2, <1>9, WordTyped
  <2>4. CASE rest >= H
    <3>1. once + Carry(doubled, value) = q2  BY <2>2, <2>4
    <3>2. Wrap(q2) = q2  BY <1>9, <2>3, WrapSmall
    <3> QED  BY <2>1, <2>4, <3>1, <3>2
  <2>5. CASE ~(rest >= H)
    <3> HIDE DEF once
    <3>1. quotient' = once  BY <2>1, <2>5
    <3>2. c2 = 0  BY <2>5
    <3> HIDE DEF c1, c2
    <3> QED  BY <3>1, <3>2, <2>2, <1>2, <1>4
  <2> QED  BY <2>4, <2>5
<1> HIDE DEF H, b, doubled, c1, c2, q2, r2, t2
<1>11. /\ value' \in Nat /\ multiplier' \in Nat /\ divisor' \in Nat /\ bits' \in 0..Width
       /\ rest' \in Nat /\ quotient' \in Nat /\ remainder' \in Nat
  BY <1>1, <1>2, <1>3, <1>6, <1>7, <1>9, <1>10
<1>12. /\ value' < divisor' /\ remainder' < divisor' /\ divisor' < Word
       /\ 0 < multiplier' /\ multiplier' < Word /\ rest' < Pow[bits']
  BY <1>1, <1>2, <1>3, <1>6, <1>7
<1>13. (quotient' * divisor' + remainder') * Pow[bits'] + value' * rest'
         = value' * multiplier'
  BY <1>1, <1>3, <1>6, <1>7, <1>8, <1>10
<1>14. Word' = Word  BY DEF Word
<1> QED  BY <1>11, <1>12, <1>13, <1>14 DEF DivisionInv

LEMMA ModTyped == ASSUME NEW x \in Nat, NEW w \in Nat \ {0}
                  PROVE  x % w \in Nat /\ x % w < w
BY SMTT(30)

\* A division that begins satisfies the invariant: nothing is in the bracket.
LEMMA BeginKeeps ==
  ASSUME NEW v \in Nat, NEW m \in Nat, NEW d \in Nat, NEW n \in 0..Width,
         v < d, d < Word, 0 < m, m < Word, m < Pow[n], Divide(v, m, d, n)
  PROVE  DivisionInv'
<1> HIDE DEF Word
<1>1. /\ value' = v /\ multiplier' = m /\ divisor' = d /\ bits' = n /\ rest' = m
      /\ quotient' = 0 /\ remainder' = 0
  BY DEF Divide
<1>2. Pow[n] \in Nat /\ 0 < d  BY TimestampAssumption
<1>3. (0 * d + 0) * Pow[n] + v * m = v * m  BY <1>2
<1>4. Word' = Word  BY DEF Word
<1> QED  BY <1>1, <1>2, <1>3, <1>4 DEF DivisionInv

LEMMA AnswerKeeps ==
  ASSUME DivisionInv, NEW r, Answer(r)
  PROVE  DivisionInv'
BY DEF DivisionInv, Answer, Dividing

LEMMA BillionTyped == /\ Billion \in Nat /\ 0 < Billion /\ Billion < Word
                      /\ Billion < Pow[BillionBits] /\ BillionBits \in 0..Width
                      /\ Width \in 0..Width /\ Word = Pow[Width]
<1>1. /\ Billion \in Nat \ {0} /\ Billion * Billion < Word /\ Width \in Nat
      /\ Billion < Pow[BillionBits] /\ BillionBits \in 1..Width
  BY TimestampAssumption DEF Word
<1>2. Word \in Nat  BY WordTyped
<1>3. 1 * Billion <= Billion * Billion  BY <1>1, ProductMonotone
<1>4. 1 * Billion = Billion /\ Billion * Billion \in Nat  BY <1>1
<1> QED  BY <1>1, <1>2, <1>3, <1>4 DEF Word

LEMMA ConvertKeeps ==
  ASSUME DivisionInv, NEW t \in Words, NEW r \in Rates, Convert(t, r)
  PROVE  DivisionInv'
<1>1. /\ t \in Nat /\ r.num \in Nat \ {0} /\ r.num < Word
      /\ r.den \in Nat \ {0} /\ r.den < Word
  <2>1. Word \in Nat \ {0}  BY WordTyped
  <2>2. r.num \in Words \ {0} /\ r.den \in Words  BY DEF Rates
  <2>3. r.den # 0
    <3>1. PICK i \in 0..Width : r.den = Pow[i]  BY DEF Rates
    <3> QED  BY <3>1, TimestampAssumption
  <2> QED  BY <2>1, <2>2, <2>3 DEF Words
<1>2. CASE t \div r.num > SecondsLimit \div r.den
  <2>1. Answer(Overflow)  BY <1>2 DEF Convert
  <2> QED  BY <2>1, AnswerKeeps
<1>3. CASE ~(t \div r.num > SecondsLimit \div r.den)
  <2>1. Divide(t % r.num, r.den, r.num, Width)  BY <1>3 DEF Convert
  <2>2. t % r.num \in Nat /\ t % r.num < r.num  BY <1>1, ModTyped
  <2>3. Width \in 0..Width /\ r.den < Pow[Width]  BY <1>1, BillionTyped
  <2> QED  BY <1>1, <2>1, <2>2, <2>3, BeginKeeps
<1> QED  BY <1>2, <1>3

LEMMA AddFractionKeeps == DivisionInv /\ AddFraction => DivisionInv'
<1> SUFFICES ASSUME DivisionInv, AddFraction PROVE DivisionInv'  OBVIOUS
<1>1. CASE SecondsFit
  <2>1. Divide(remainder, Billion, divisor, Width)  BY <1>1 DEF AddFraction
  <2>2. /\ remainder \in Nat /\ divisor \in Nat
        /\ remainder < divisor /\ divisor < Word
    BY DEF AddFraction, DivisionInv, Dividing
  <2>3. /\ Billion \in Nat /\ 0 < Billion /\ Billion < Word
        /\ Width \in 0..Width /\ Billion < Pow[Width]
    BY BillionTyped
  <2> QED  BY <2>1, <2>2, <2>3, BeginKeeps
<1>2. CASE ~SecondsFit
  <2>1. Answer(Overflow)  BY <1>2 DEF AddFraction
  <2> QED  BY <2>1, AnswerKeeps
<1> QED  BY <1>1, <1>2

LEMMA TicksKeeps ==
  ASSUME DivisionInv, NEW t \in Words, NEW f \in Words \ {0}, TicksToNanoseconds(t, f)
  PROVE  DivisionInv'
<1>1. t \in Nat /\ f \in Nat \ {0} /\ f < Word  BY WordTyped DEF Words
<1>2. CASE t \div f > Maximum \div Billion
  <2>1. Answer(Overflow)  BY <1>2 DEF TicksToNanoseconds
  <2> QED  BY <2>1, AnswerKeeps
<1>3. CASE ~(t \div f > Maximum \div Billion)
  <2>1. Divide(t % f, Billion, f, FirstBit)  BY <1>3 DEF TicksToNanoseconds
  <2>2. t % f \in Nat /\ t % f < f  BY <1>1, ModTyped
  <2>3. /\ Billion \in Nat /\ 0 < Billion /\ Billion < Word
        /\ FirstBit \in 0..Width /\ Billion < Pow[FirstBit]
    BY BillionTyped DEF FirstBit
  <2> QED  BY <1>1, <2>1, <2>2, <2>3, BeginKeeps
<1> QED  BY <1>2, <1>3

LEMMA DivMod ==
  ASSUME NEW x \in Nat, NEW w \in Nat \ {0}
  PROVE  /\ x \div w \in Nat /\ x % w \in Nat /\ x % w < w
         /\ x = (x \div w) * w + (x % w)
BY SMTT(30)

LEMMA BlockRateTyped ==
  ASSUME NEW r \in BlockRates
  PROVE  /\ r.num \in Nat \ {0} /\ r.num < Word /\ r.den \in Nat \ {0}
<1>1. r.num \in 1..(Word - 1) /\ r.den \in 1..(Word - 1)
  BY BlockAssumption DEF Word
<1> QED  BY <1>1, WordTyped

\* What convert answers, in the terms of the division.
At(p, q) == Exactly(p, q, Maximum, TRUE)

LEMMA ConvertAnswers ==
  ASSUME NEW p \in Nat, NEW q \in Nat \ {0}
  PROVE  /\ At(p, q).ok \in BOOLEAN
         /\ At(p, q).ok <=> ~(p \div q > Maximum)
         /\ At(p, q).ok => At(p, q).number = p \div q /\ At(p, q).fraction = p % q
BY DEF At, Exactly, Overflow, Returned

LEMMA BlockTimeKeeps ==
  ASSUME DivisionInv, NEW t \in Words, NEW r \in BlockRates, NEW k \in Offsets,
         NEW s \in BlockRates, BlockTime(t, r, k, s)
  PROVE  DivisionInv'
<1> DEFINE q == k * s.den * Billion
           at == At(t * r.den * Billion, r.num)
           past == At(q, s.num)
           fits == past.ok /\ at.number <= Maximum - past.number
           carrying == at.fraction # 0 /\ past.fraction # 0
<1>1. /\ r.num \in Nat \ {0} /\ r.num < Word
      /\ s.num \in Nat \ {0} /\ s.num < Word /\ s.den \in Nat \ {0}
  BY BlockRateTyped
<1>2. q \in Nat
  <2>1. k \in Nat
    <3>1. k \in 0..(Word - 1)  BY BlockAssumption DEF Word
    <3> QED  BY <3>1, WordTyped
  <2>2. k * s.den \in Nat  BY <1>1, <2>1, ProductTyped
  <2> QED  BY <2>2, BillionTyped, ProductTyped
<1>3. CASE fits /\ carrying
  <2>1. Divide(s.num - past.fraction, r.num, s.num, Width)
    BY <1>3 DEF BlockTime, At
  <2> HIDE DEF q
  <2>2. past.fraction = q % s.num /\ past.fraction # 0
    BY <1>1, <1>2, <1>3, ConvertAnswers
  <2>3. q % s.num \in Nat /\ q % s.num < s.num  BY <1>1, <1>2, DivMod
  <2> HIDE DEF past
  <2>4. s.num - past.fraction \in Nat /\ s.num - past.fraction < s.num
    BY <1>1, <2>2, <2>3
  <2>5. Width \in 0..Width /\ r.num < Pow[Width]  BY <1>1, BillionTyped
  <2> QED  BY <1>1, <2>1, <2>4, <2>5, BeginKeeps
<1>4. CASE ~(fits /\ carrying)
  <2>1. Answer(IF fits THEN Returned(at.number + past.number, 0) ELSE Overflow)
    BY <1>4 DEF BlockTime, At
  <2> QED  BY <2>1, AnswerKeeps
<1> QED  BY <1>3, <1>4

LEMMA ReturnKeeps == Return => DivisionInv'
<1> SUFFICES ASSUME Return PROVE DivisionInv'  OBVIOUS
<1>1. pc' = "idle" /\ Clear  BY DEF Return
<1>2. ~Dividing'  BY <1>1 DEF Dividing
<1>3. Width \in Nat  BY TimestampAssumption
<1> QED  BY <1>1, <1>2, <1>3 DEF DivisionInv, Clear

LEMMA InitDivision == Init => DivisionInv
<1>1. Width \in Nat  BY TimestampAssumption
<1> QED  BY <1>1 DEF Init, DivisionInv, Dividing

LEMMA DivisionStep == DivisionInv /\ [Next]_vars => DivisionInv'
<1> SUFFICES ASSUME DivisionInv, [Next]_vars PROVE DivisionInv'  OBVIOUS
<1>1. CASE Call
  <2>1. CASE \E t \in Words, r \in Rates : Convert(t, r)  BY <2>1, ConvertKeeps
  <2>2. CASE \E t \in Words, f \in Words \ {0} : TicksToNanoseconds(t, f)
    BY <2>2, TicksKeeps
  <2>3. CASE \E n \in 0..Maximum, f \in Words \ {0} : NanosecondsToTicks(n, f)
    <3>1. PICK n \in 0..Maximum, f \in Words \ {0} : NanosecondsToTicks(n, f)
      BY <2>3
    <3>2. \E r : Answer(r)  BY <3>1 DEF NanosecondsToTicks
    <3> QED  BY <3>2, AnswerKeeps
  <2>4. CASE \E t \in Words, r \in BlockRates, k \in Offsets, s \in BlockRates :
               BlockTime(t, r, k, s)
    BY <2>4, BlockTimeKeeps
  <2> QED  BY <1>1, <2>1, <2>2, <2>3, <2>4 DEF Call
<1>2. CASE DivideStep  BY <1>2, StepKeeps
<1>3. CASE AddFraction  BY <1>3, AddFractionKeeps
<1>4. CASE AddNanoseconds
  <2>1. \E r : Answer(r)  BY <1>4 DEF AddNanoseconds
  <2> QED  BY <2>1, AnswerKeeps
<1>5. CASE CarryNanosecond
  <2>1. \E r : Answer(r)  BY <1>5 DEF CarryNanosecond
  <2> QED  BY <2>1, AnswerKeeps
<1>6. CASE Return  BY <1>6, ReturnKeeps
<1>7. CASE UNCHANGED vars  BY <1>7 DEF DivisionInv, Dividing
<1> QED  BY <1>1, <1>2, <1>3, <1>4, <1>5, <1>6, <1>7 DEF Next

LEMMA DivisionEnds == DivisionInv => DivisionExact
<1> SUFFICES ASSUME DivisionInv, Dividing, bits = 0
             PROVE  quotient * divisor + remainder = value * multiplier
                    /\ remainder < divisor
  BY DEF DivisionExact, Dividing
<1>1. Pow[0] = 1  BY TimestampAssumption
<1>2. /\ rest \in Nat /\ rest < 1 /\ quotient \in Nat /\ divisor \in Nat
      /\ remainder \in Nat /\ value \in Nat /\ multiplier \in Nat /\ remainder < divisor
      /\ (quotient * divisor + remainder) * 1 + value * rest = value * multiplier
  BY <1>1 DEF DivisionInv
<1>3. rest = 0 /\ value * 0 = 0  BY <1>2
<1> QED  BY <1>2, <1>3

\* The portable long division yields the quotient and the remainder of the exact
\* product, for every width and all arguments (TimestampRate.hpp:36-57,
\* TimestampConversion.hpp:60-87).
THEOREM LongDivisionExact == Spec => []DivisionExact
BY InitDivision, DivisionStep, DivisionEnds, PTL DEF Spec

-----------------------------------------------------------------------------
(* The time of a sample inside a block: two truncated quotients and the carry *)
(* of their phases are the truncated quotient of the sum.                     *)

LEMMA DivUnique ==
  ASSUME NEW p \in Nat, NEW d \in Nat \ {0}, NEW q \in Nat, NEW r \in Nat,
         p = q * d + r, r < d
  PROVE  p \div d = q
<1> DEFINE e == p \div d
           m == p % d
<1>1. e \in Nat /\ m \in Nat /\ m < d /\ p = e * d + m  BY DivMod
<1> HIDE DEF e, m
<1>2. e * d \in Nat /\ q * d \in Nat  BY <1>1, ProductTyped
<1>3. ~(e < q)
  <2> SUFFICES ASSUME e < q PROVE FALSE  OBVIOUS
  <2>1. (e + 1) * d <= q * d  BY <1>1, ProductMonotone
  <2>2. (e + 1) * d = e * d + d  BY <1>1
  <2> QED  BY <1>1, <1>2, <2>1, <2>2
<1>4. ~(q < e)
  <2> SUFFICES ASSUME q < e PROVE FALSE  OBVIOUS
  <2>1. (q + 1) * d <= e * d  BY <1>1, ProductMonotone
  <2>2. (q + 1) * d = q * d + d  BY <1>1
  <2> QED  BY <1>1, <1>2, <2>1, <2>2
<1>5. e = q  BY <1>1, <1>3, <1>4
<1> QED  BY <1>5 DEF e

LEMMA SumOfQuotients ==
  ASSUME NEW A \in Nat, NEW B \in Nat, NEW d1 \in Nat \ {0}, NEW d2 \in Nat \ {0},
         NEW a \in Nat, NEW b \in Nat, NEW r1 \in Nat, NEW r2 \in Nat,
         A = a * d1 + r1, r1 < d1, B = b * d2 + r2, r2 < d2
  PROVE  /\ r1 * d2 + r2 * d1 < d1 * d2 => (A * d2 + B * d1) \div (d1 * d2) = a + b
         /\ r1 * d2 + r2 * d1 >= d1 * d2 => (A * d2 + B * d1) \div (d1 * d2) = a + b + 1
<1> DEFINE D == d1 * d2
           N == A * d2 + B * d1
           x == r1 * d2
           y == r2 * d1
<1>1. D \in Nat \ {0}
  <2>1. D \in Nat  BY ProductTyped
  <2>2. 1 * d2 <= d1 * d2  BY ProductMonotone
  <2> QED  BY <2>1, <2>2
<1>2. N \in Nat /\ x \in Nat /\ y \in Nat
  <2>1. A * d2 \in Nat /\ B * d1 \in Nat  BY ProductTyped
  <2> QED  BY <2>1, ProductTyped
<1>3. N = (a + b) * D + (x + y)
  <2>1. A * d2 = a * (d1 * d2) + r1 * d2  OBVIOUS
  <2>2. B * d1 = b * (d1 * d2) + r2 * d1  OBVIOUS
  <2>3. (a + b) * D = a * (d1 * d2) + b * (d1 * d2)  OBVIOUS
  <2>4. a * (d1 * d2) \in Nat /\ b * (d1 * d2) \in Nat  BY <1>1, ProductTyped
  <2> QED  BY <1>2, <2>1, <2>2, <2>3, <2>4
<1>4. x < D /\ y < D
  <2>1. r1 * d2 < d1 * d2  BY StrictProduct
  <2>2. r2 * d1 < d2 * d1  BY StrictProduct
  <2>3. d2 * d1 = d1 * d2  OBVIOUS
  <2> QED  BY <2>1, <2>2, <2>3
<1> HIDE DEF D, N, x, y
<1>5. x + y < D => N \div D = a + b  BY <1>1, <1>2, <1>3, DivUnique
<1>6. x + y >= D => N \div D = a + b + 1
  <2> SUFFICES ASSUME x + y >= D PROVE N \div D = a + b + 1  OBVIOUS
  <2>1. x + y - D \in Nat /\ x + y - D < D  BY <1>1, <1>2, <1>4
  <2>2. (a + b + 1) * D = (a + b) * D + D  BY <1>1
  <2>3. (a + b) * D \in Nat /\ (a + b + 1) * D \in Nat  BY <1>1, ProductTyped
  <2>4. N = (a + b + 1) * D + (x + y - D)  BY <1>1, <1>2, <1>3, <2>2, <2>3
  <2> QED  BY <1>1, <1>2, <2>1, <2>4, DivUnique
<1> QED  BY <1>5, <1>6 DEF D, N, x, y

\* The threshold that blockTime compares with, a quotient rounded up.
LEMMA ThresholdExact ==
  ASSUME NEW d1 \in Nat, NEW d2 \in Nat \ {0}, NEW r1 \in Nat, NEW r2 \in Nat,
         NEW q \in Nat, NEW m \in Nat, r2 < d2, m < d2, q * d2 + m = (d2 - r2) * d1
  PROVE  r1 >= q + (IF m # 0 THEN 1 ELSE 0) <=> r1 * d2 + r2 * d1 >= d1 * d2
<1> DEFINE x == r1 * d2
           y == r2 * d1
           z == q * d2
           D == d1 * d2
<1>1. x \in Nat /\ y \in Nat /\ z \in Nat /\ D \in Nat  BY ProductTyped
<1>2. (d2 - r2) * d1 = D - y  OBVIOUS
<1>3. z + m = D - y  BY <1>2
<1>4. r1 >= q => x >= z  BY ProductMonotone
<1>5. r1 <= q => x <= z  BY ProductMonotone
<1>6. r1 < q => x + d2 <= z
  <2> SUFFICES ASSUME r1 < q PROVE x + d2 <= z  OBVIOUS
  <2>1. (r1 + 1) * d2 <= q * d2  BY ProductMonotone
  <2>2. (r1 + 1) * d2 = r1 * d2 + d2  OBVIOUS
  <2> QED  BY <2>1, <2>2
<1>7. r1 > q => x >= z + d2
  <2> SUFFICES ASSUME r1 > q PROVE x >= z + d2  OBVIOUS
  <2>1. (q + 1) * d2 <= r1 * d2  BY ProductMonotone
  <2>2. (q + 1) * d2 = q * d2 + d2  OBVIOUS
  <2> QED  BY <2>1, <2>2
<1> HIDE DEF x, y, z, D
<1>8. r1 >= q + (IF m # 0 THEN 1 ELSE 0) <=> x + y >= D
  <2>1. CASE m = 0  BY <1>1, <1>3, <1>4, <1>6, <2>1
  <2>2. CASE m # 0  BY <1>1, <1>3, <1>5, <1>7, <2>2
  <2> QED  BY <2>1, <2>2
<1> QED  BY <1>8 DEF x, y, D


\* The exact quotient of the sum of two fractions.
SumQuotient(T, P, c, n) == (T * n + P * c) \div (c * n)

\* The sum of the truncated quotients is at most one too small, and exact when a
\* phase is zero.
LEMMA SumBounds ==
  ASSUME NEW T \in Nat, NEW P \in Nat, NEW c \in Nat \ {0}, NEW n \in Nat \ {0}
  PROVE  LET a == T \div c
             b == P \div n
             r == T % c
             s == P % n
             q == SumQuotient(T, P, c, n)
         IN /\ a \in Nat /\ b \in Nat /\ r \in Nat /\ s \in Nat /\ r < c /\ s < n
            /\ q \in {a + b, a + b + 1}
            /\ q = a + b + 1 <=> r * n + s * c >= c * n
<1> DEFINE a == T \div c
           b == P \div n
           r == T % c
           s == P % n
           q == SumQuotient(T, P, c, n)
<1>1. /\ a \in Nat /\ b \in Nat /\ r \in Nat /\ s \in Nat /\ r < c /\ s < n
      /\ T = a * c + r /\ P = b * n + s
  BY DivMod
<1>2. q = (T * n + P * c) \div (c * n)  BY DEF SumQuotient
<1> HIDE DEF a, b, r, s, q
<1>3. /\ r * n + s * c < c * n => q = a + b
      /\ r * n + s * c >= c * n => q = a + b + 1
  BY <1>1, <1>2, SumOfQuotients
<1>4. r * n \in Nat /\ s * c \in Nat /\ c * n \in Nat  BY <1>1, ProductTyped
<1>5. /\ q \in {a + b, a + b + 1}
      /\ q = a + b + 1 <=> r * n + s * c >= c * n
  <2>1. r * n + s * c < c * n \/ r * n + s * c >= c * n  BY <1>4
  <2> QED  BY <1>1, <1>3, <1>4, <2>1
<1> QED  BY <1>1, <1>5 DEF a, b, r, s, q

\* The answer for a sample, of a timestamp i at rate c / d and k samples at n / e.
SampleTime(i, d, c, k, e, n) ==
  Exactly((i * d * n + k * e * c) * Billion, c * n, Maximum, FALSE)

\* The nanoseconds of n samples, before the division by the rate's numerator.
Numerator(n, d) == n * d * Billion

LEMMA SampleTimeIs ==
  ASSUME NEW i \in Nat, NEW d \in Nat, NEW c \in Nat \ {0},
         NEW k \in Nat, NEW e \in Nat, NEW n \in Nat \ {0}
  PROVE  LET T == Numerator(i, d)
             P == Numerator(k, e)
             q == SumQuotient(T, P, c, n)
         IN /\ T \in Nat /\ P \in Nat
            /\ SampleTime(i, d, c, k, e, n)
                 = IF q > Maximum THEN Overflow ELSE Returned(q, 0)
<1> DEFINE u == i * d
           w == k * e
           T == u * Billion
           P == w * Billion
<1>1. u \in Nat /\ w \in Nat /\ Billion \in Nat  BY ProductTyped, BillionTyped
<1>2. SampleTime(i, d, c, k, e, n)
        = Exactly((u * n + w * c) * Billion, c * n, Maximum, FALSE)
  BY DEF SampleTime
<1> HIDE DEF u, w
<1>3. T \in Nat /\ P \in Nat  BY <1>1, ProductTyped
<1>4. (u * n + w * c) * Billion = T * n + P * c  BY <1>1
<1> HIDE DEF T, P
<1>5. SampleTime(i, d, c, k, e, n)
        = IF SumQuotient(T, P, c, n) > Maximum THEN Overflow
          ELSE Returned(SumQuotient(T, P, c, n), 0)
  BY <1>2, <1>4 DEF Exactly, SumQuotient
<1> QED  BY <1>3, <1>5 DEF u, w, T, P, Numerator

LEMMA MaximumTyped == Maximum \in Int
<1>1. Width \in Nat \ {0} /\ Pow \in [0..Width -> Nat \ {0}]  BY TimestampAssumption
<1>2. Pow[Width - 1] \in Nat  BY <1>1
<1> QED  BY <1>2 DEF Maximum

\* The carry in progress: both quotients are in block.time, and the division under
\* way is that of the threshold.
CarryInv ==
  LET T == Numerator(call.input, call.den)
      P == Numerator(block.offset, block.den)
  IN /\ call.input \in Nat /\ call.den \in Nat /\ call.num \in Nat \ {0}
     /\ block.offset \in Nat /\ block.den \in Nat /\ block.num \in Nat \ {0}
     /\ multiplier = call.num /\ divisor = block.num /\ value = block.num - block.past
     /\ block.phase = T % call.num /\ block.past = P % block.num
     /\ block.time = (T \div call.num) + (P \div block.num)
     /\ block.time <= Maximum

BlockInv ==
  /\ pc \in {"fraction", "phase"} => call.fn # "block"
  /\ pc = "carry" => call.fn = "block" /\ CarryInv
  /\ BlockTimeExact

LEMMA CarryAnswers ==
  ASSUME DivisionInv, BlockInv, CarryNanosecond
  PROVE  BlockInv'
<1> DEFINE i == call.input
           d == call.den
           c == call.num
           k == block.offset
           e == block.den
           n == block.num
           T == Numerator(i, d)
           P == Numerator(k, e)
           q == SumQuotient(T, P, c, n)
           r == T % c
           s == P % n
<1>1. pc = "carry" /\ bits = 0 /\ call.fn = "block" /\ CarryInv  BY DEF CarryNanosecond, BlockInv
<1>2. /\ i \in Nat /\ d \in Nat /\ c \in Nat \ {0}
      /\ k \in Nat /\ e \in Nat /\ n \in Nat \ {0}
      /\ multiplier = c /\ divisor = n /\ value = n - s
      /\ block.phase = r /\ block.time = (T \div c) + (P \div n) /\ block.time <= Maximum
  BY <1>1 DEF CarryInv
<1> HIDE DEF i, d, c, k, e, n
<1>3. /\ T \in Nat /\ P \in Nat
      /\ SampleTime(i, d, c, k, e, n)
           = IF q > Maximum THEN Overflow ELSE Returned(q, 0)
  BY <1>2, SampleTimeIs
<1> HIDE DEF T, P
<1>4. /\ T \div c \in Nat /\ P \div n \in Nat /\ r \in Nat /\ s \in Nat /\ s < n
      /\ q \in {(T \div c) + (P \div n), (T \div c) + (P \div n) + 1}
      /\ q = (T \div c) + (P \div n) + 1 <=> r * n + s * c >= c * n
  BY <1>2, <1>3, SumBounds
<1> HIDE DEF q, r, s
<1>5. /\ quotient \in Nat /\ remainder \in Nat /\ remainder < n
      /\ quotient * n + remainder = (n - s) * c
  <2>1. DivisionExact  BY DivisionEnds
  <2>2. quotient \in Nat /\ remainder \in Nat  BY DEF DivisionInv
  <2> QED  BY <1>1, <1>2, <2>1, <2>2 DEF DivisionExact
<1>6. MinimumPhase = quotient + (IF remainder # 0 THEN 1 ELSE 0)
  <2>1. n - s < n \/ n - s = n  BY <1>2, <1>4
  <2>2. /\ value < divisor /\ 0 < multiplier /\ multiplier < Word /\ value \in Nat
    BY <1>1 DEF DivisionInv, Dividing
  <2>3. quotient < c
    <3>1. (quotient * n + remainder) * 1 + (n - s) * 0 = (n - s) * c
      BY <1>2, <1>4, <1>5
    <3>2. n - s \in Nat /\ n - s < n /\ 0 < c /\ c \in Nat  BY <1>2, <2>2
    <3> HIDE DEF CarryInv
    <3> QED  BY <1>2, <1>5, <3>1, <3>2, QuotientSmall
  <2> DEFINE up == quotient + (IF remainder # 0 THEN 1 ELSE 0)
  <2>4. up \in Nat /\ up < Word  BY <1>2, <1>5, <2>2, <2>3, WordTyped
  <2> QED  BY <2>4, WrapSmall DEF MinimumPhase
<1>7. block.phase >= MinimumPhase <=> r * n + s * c >= c * n
  BY <1>2, <1>4, <1>5, <1>6, ThresholdExact
<1>8. MinimumPhase \in Nat  BY <1>5, <1>6
<1>9. result' = SampleTime(i, d, c, k, e, n)
  <2>1. CASE block.phase < MinimumPhase
    <3>1. ~(block.phase >= MinimumPhase)  BY <1>2, <1>4, <1>8, <2>1
    <3>2. q # (T \div c) + (P \div n) + 1  BY <1>4, <1>7, <3>1
    <3>3. q = block.time  BY <1>2, <1>4, <3>2
    <3>4. result' = Returned(block.time, 0)  BY <2>1, <3>1 DEF CarryNanosecond, Answer
    <3> QED  BY <1>2, <1>3, <1>4, <3>3, <3>4, MaximumTyped
  <2>2. CASE block.phase >= MinimumPhase /\ block.time < Maximum
    <3>1. q = block.time + 1  BY <1>2, <1>4, <1>7, <1>8, <2>2
    <3>2. result' = Returned(block.time + 1, 0)
      <4>1. ~(block.phase < MinimumPhase)  BY <1>2, <1>4, <1>8, <2>2
      <4> QED  BY <2>2, <4>1 DEF CarryNanosecond, Answer
    <3> QED  BY <1>2, <1>3, <1>4, <2>2, <3>1, <3>2, MaximumTyped
  <2>3. CASE block.phase >= MinimumPhase /\ ~(block.time < Maximum)
    <3>1. q = block.time + 1  BY <1>2, <1>4, <1>7, <1>8, <2>3
    <3>2. result' = Overflow
      <4>1. ~(block.phase < MinimumPhase)  BY <1>2, <1>4, <1>8, <2>3
      <4> QED  BY <2>3, <4>1 DEF CarryNanosecond, Answer
    <3>3. q > Maximum  BY <1>2, <1>4, <2>3, <3>1, MaximumTyped
    <3> QED  BY <1>3, <3>2, <3>3
  <2> QED  BY <1>2, <1>4, <1>8, <2>1, <2>2, <2>3
<1>10. UNCHANGED <<call, block>> /\ pc' = "done"  BY DEF CarryNanosecond, Answer
<1>11. BlockTimeExact'
  BY <1>9, <1>10 DEF BlockTimeExact, SampleTime, i, d, c, k, e, n
<1> QED  BY <1>10, <1>11 DEF BlockInv


LEMMA SumExact ==
  ASSUME NEW T \in Nat, NEW P \in Nat, NEW c \in Nat \ {0}, NEW n \in Nat \ {0},
         T % c = 0 \/ P % n = 0
  PROVE  SumQuotient(T, P, c, n) = (T \div c) + (P \div n)
<1> DEFINE a == T \div c
           b == P \div n
           r == T % c
           s == P % n
           q == SumQuotient(T, P, c, n)
<1>1. /\ a \in Nat /\ b \in Nat /\ r \in Nat /\ s \in Nat /\ r < c /\ s < n
      /\ q \in {a + b, a + b + 1}
      /\ q = a + b + 1 <=> r * n + s * c >= c * n
  BY SumBounds
<1> HIDE DEF a, b, q
<1>2. r = 0 \/ s = 0  OBVIOUS
<1> HIDE DEF r, s
<1>3. r * n \in Nat /\ s * c \in Nat /\ c * n \in Nat  BY <1>1, ProductTyped
<1>4. r * n < c * n /\ s * c < n * c  BY <1>1, StrictProduct
<1>5. n * c = c * n /\ 0 * n = 0 /\ 0 * c = 0  OBVIOUS
<1>6. r * n + s * c < c * n  BY <1>2, <1>3, <1>4, <1>5
<1>7. q = a + b  BY <1>1, <1>3, <1>6
<1> QED  BY <1>7 DEF a, b, q

LEMMA BlockTimeAnswers ==
  ASSUME NEW t \in Words, NEW r \in BlockRates, NEW k \in Offsets,
         NEW s \in BlockRates, BlockTime(t, r, k, s)
  PROVE  BlockInv'
<1> DEFINE i == t
           d == r.den
           c == r.num
           o == k
           e == s.den
           n == s.num
           T == Numerator(i, d)
           P == Numerator(o, e)
           q == SumQuotient(T, P, c, n)
           at == At(T, c)
           past == At(P, n)
           fits == past.ok /\ at.number <= Maximum - past.number
           carrying == at.fraction # 0 /\ past.fraction # 0
<1>1. /\ i \in Nat /\ d \in Nat /\ c \in Nat \ {0}
      /\ o \in Nat /\ e \in Nat /\ n \in Nat \ {0}
  <2>1. t \in 0..(Word - 1) /\ k \in 0..(Word - 1)
    BY BlockAssumption DEF Words, Word
  <2> QED  BY <2>1, BlockRateTyped, WordTyped
<1>2. /\ at.ok /\ call' = [fn |-> "block", input |-> i, num |-> c, den |-> d]
      /\ block' = [offset |-> o, num |-> n, den |-> e,
                   time |-> IF fits THEN at.number + past.number ELSE 0,
                   phase |-> at.fraction, past |-> past.fraction]
      /\ fits /\ carrying => Divide(n - past.fraction, c, n, Width) /\ pc' = "carry"
      /\ ~(fits /\ carrying) =>
           Answer(IF fits THEN Returned(at.number + past.number, 0) ELSE Overflow)
  BY DEF BlockTime, At, Numerator
<1> HIDE DEF i, d, c, o, e, n
<1>3. /\ T \in Nat /\ P \in Nat
      /\ SampleTime(i, d, c, o, e, n)
           = IF q > Maximum THEN Overflow ELSE Returned(q, 0)
  <2>1. T \in Nat /\ P \in Nat  BY <1>1, SampleTimeIs
  <2>2. SampleTime(i, d, c, o, e, n)
           = IF q > Maximum THEN Overflow ELSE Returned(q, 0)
    <3> HIDE DEF fits, carrying, at, past
    <3> QED  BY <1>1, SampleTimeIs
  <2> QED  BY <2>1, <2>2
<1> HIDE DEF T, P
<1>4. /\ T \div c \in Nat /\ P \div n \in Nat /\ T % c \in Nat /\ P % n \in Nat
      /\ q \in {(T \div c) + (P \div n), (T \div c) + (P \div n) + 1}
      /\ T % c = 0 \/ P % n = 0 => q = (T \div c) + (P \div n)
  <2>1. /\ T \div c \in Nat /\ P \div n \in Nat /\ T % c \in Nat /\ P % n \in Nat
    BY <1>1, <1>3, SumBounds
  <2>2. q \in {(T \div c) + (P \div n), (T \div c) + (P \div n) + 1}
    BY <1>1, <1>3, SumBounds
  <2>3. T % c = 0 \/ P % n = 0 => q = (T \div c) + (P \div n)
    <3>1. SUFFICES ASSUME T % c = 0 \/ P % n = 0
                   PROVE  SumQuotient(T, P, c, n) = (T \div c) + (P \div n)
      OBVIOUS
    <3>2. /\ T \in Nat /\ P \in Nat /\ c \in Nat \ {0} /\ n \in Nat \ {0}
      BY <1>1, <1>3
    <3> QED  BY <3>1, <3>2, SumExact, Zenon
  <2> QED  BY <2>1, <2>2, <2>3
<1>5. /\ at.number = T \div c /\ at.fraction = T % c
      /\ past.ok <=> ~(P \div n > Maximum)
      /\ past.ok => past.number = P \div n /\ past.fraction = P % n
  BY <1>1, <1>2, <1>3, ConvertAnswers
<1> HIDE DEF q, at, past
<1>6. fits <=> (T \div c) + (P \div n) <= Maximum
  BY <1>4, <1>5, MaximumTyped
<1>7. CASE fits /\ carrying
  <2>1. Divide(n - past.fraction, c, n, Width) /\ pc' = "carry"  BY <1>2, <1>7
  <2>2. /\ multiplier' = c /\ divisor' = n /\ value' = n - past.fraction
    BY <2>1 DEF Divide
  <2>3. CarryInv'
    BY <1>1, <1>2, <1>5, <1>6, <1>7, <2>2 DEF CarryInv, T, P
  <2> QED  BY <1>2, <2>1, <2>3 DEF BlockInv, BlockTimeExact
<1>8. CASE ~(fits /\ carrying)
  <2>1. /\ pc' = "done"
        /\ result' = IF fits THEN Returned(at.number + past.number, 0) ELSE Overflow
    BY <1>2, <1>8 DEF Answer
  <2>2. result' = SampleTime(i, d, c, o, e, n)
    <3>1. CASE fits
      <4>1. q = (T \div c) + (P \div n)  BY <1>4, <1>5, <1>8, <3>1
      <4>2. ~(q > Maximum) /\ q = at.number + past.number
        BY <1>4, <1>5, <1>6, <3>1, <4>1, MaximumTyped
      <4> QED  BY <1>3, <2>1, <3>1, <4>2
    <3>2. CASE ~fits
      <4>1. q > Maximum  BY <1>4, <1>6, <3>2, MaximumTyped
      <4> QED  BY <1>3, <2>1, <3>2, <4>1
    <3> QED  BY <3>1, <3>2
  <2>3. /\ call'.input = i /\ call'.den = d /\ call'.num = c
        /\ block'.offset = o /\ block'.den = e /\ block'.num = n
    BY <1>2
  <2>4. BlockTimeExact'
    BY <2>2, <2>3 DEF BlockTimeExact, SampleTime
  <2> QED  BY <2>1, <2>4 DEF BlockInv
<1> QED  BY <1>7, <1>8

LEMMA BlockStep == DivisionInv /\ BlockInv /\ [Next]_vars => BlockInv'
<1> SUFFICES ASSUME DivisionInv, BlockInv, [Next]_vars PROVE BlockInv'  OBVIOUS
<1>1. CASE Call
  <2>1. CASE \E t \in Words, r \in Rates : Convert(t, r)
    <3>1. PICK t \in Words, r \in Rates : Convert(t, r)  BY <2>1
    <3>2. call'.fn = "convert" /\ pc' \in {"done", "fraction"}
      BY <3>1 DEF Convert, Answer
    <3> QED  BY <3>2 DEF BlockInv, BlockTimeExact
  <2>2. CASE \E t \in Words, f \in Words \ {0} : TicksToNanoseconds(t, f)
    <3>1. PICK t \in Words, f \in Words \ {0} : TicksToNanoseconds(t, f)  BY <2>2
    <3>2. call'.fn = "ticks" /\ pc' \in {"done", "phase"}
      BY <3>1 DEF TicksToNanoseconds, Answer
    <3> QED  BY <3>2 DEF BlockInv, BlockTimeExact
  <2>3. CASE \E n \in 0..Maximum, f \in Words \ {0} : NanosecondsToTicks(n, f)
    <3>1. PICK n \in 0..Maximum, f \in Words \ {0} : NanosecondsToTicks(n, f)
      BY <2>3
    <3>2. call'.fn = "nanoseconds" /\ pc' = "done"
      BY <3>1 DEF NanosecondsToTicks, Answer
    <3> QED  BY <3>2 DEF BlockInv, BlockTimeExact
  <2>4. CASE \E t \in Words, r \in BlockRates, k \in Offsets, s \in BlockRates :
               BlockTime(t, r, k, s)
    BY <2>4, BlockTimeAnswers
  <2> QED  BY <1>1, <2>1, <2>2, <2>3, <2>4 DEF Call
<1>2. CASE DivideStep
  <2>1. UNCHANGED <<call, pc, value, multiplier, divisor, seconds, block, result>>
    BY <1>2 DEF DivideStep
  <2>2. pc \in {"fraction", "phase", "carry"}  BY <1>2 DEF DivideStep
  <2>3. CarryInv => CarryInv'  BY <2>1 DEF CarryInv
  <2> QED  BY <2>1, <2>2, <2>3 DEF BlockInv, BlockTimeExact
<1>3. CASE AddFraction
  <2>1. call' = call /\ pc = "fraction" /\ pc' \in {"phase", "done"}
    BY <1>3 DEF AddFraction, Answer
  <2> QED  BY <2>1 DEF BlockInv, BlockTimeExact
<1>4. CASE AddNanoseconds
  <2>1. call' = call /\ pc = "phase" /\ pc' = "done"
    BY <1>4 DEF AddNanoseconds, Answer
  <2> QED  BY <2>1 DEF BlockInv, BlockTimeExact
<1>5. CASE CarryNanosecond  BY <1>5, CarryAnswers
<1>6. CASE Return
  <2>1. pc' = "idle"  BY <1>6 DEF Return
  <2> QED  BY <2>1 DEF BlockInv, BlockTimeExact
<1>7. CASE UNCHANGED vars
  <2>1. CarryInv => CarryInv'  BY <1>7 DEF CarryInv
  <2> QED  BY <1>7, <2>1 DEF BlockInv, BlockTimeExact
<1> QED  BY <1>1, <1>2, <1>3, <1>4, <1>5, <1>6, <1>7 DEF Next

\* A read that starts inside a block has the exact time of its first sample,
\* truncated once, for every word width and all rates: the portable carry of
\* blockTime is the one that 128-bit arithmetic would find
\* (RxSampleQueue.cpp:147-173).
THEOREM SampleTimesExact == Spec => []BlockTimeExact
<1>1. Init => BlockInv  BY DEF Init, BlockInv, BlockTimeExact
<1>2. BlockInv => BlockTimeExact  BY DEF BlockInv
<1> QED  BY <1>1, <1>2, InitDivision, DivisionStep, BlockStep, PTL DEF Spec

-----------------------------------------------------------------------------
(* The complete conversions: whole seconds and a division of what is left, or *)
(* both factors split at Billion.                                             *)

LEMMA QuotientIs ==
  ASSUME NEW p \in Nat, NEW d \in Nat \ {0}, NEW q \in Nat, NEW r \in Nat,
         p = q * d + r, r < d
  PROVE  p \div d = q /\ p % d = r
<1>1. p \div d = q  BY DivUnique
<1> DEFINE m == p % d
           e == p \div d
<1>2. m \in Nat /\ p = e * d + m  BY DivMod
<1>3. e = q  BY <1>1
<1> HIDE DEF e, m
<1>4. q * d \in Nat  BY ProductTyped
<1>5. m = r  BY <1>2, <1>3, <1>4
<1> QED  BY <1>1, <1>5 DEF m

\* A limit compared before the product is formed.
LEMMA AboveQuotient ==
  ASSUME NEW x \in Nat, NEW L \in Nat, NEW d \in Nat \ {0}
  PROVE  x > L \div d <=> x * d > L
<1> DEFINE a == L \div d
           m == L % d
<1>1. a \in Nat /\ m \in Nat /\ m < d /\ L = a * d + m  BY DivMod
<1> HIDE DEF a, m
<1>2. x * d \in Nat /\ a * d \in Nat  BY <1>1, ProductTyped
<1>3. x > a => x * d > L
  <2>1. x > a => (a + 1) * d <= x * d  BY <1>1, ProductMonotone
  <2>2. (a + 1) * d = a * d + d  BY <1>1
  <2> QED  BY <1>1, <1>2, <2>1, <2>2
<1>4. ~(x > a) => ~(x * d > L)
  <2>1. ~(x > a) => x * d <= a * d  BY <1>1, ProductMonotone
  <2> QED  BY <1>1, <1>2, <2>1
<1>5. x > a <=> x * d > L  BY <1>3, <1>4
<1> QED  BY <1>5 DEF a

LEMMA LimitsTyped ==
  /\ Maximum \in Nat /\ Maximum < Word /\ SecondsLimit \in Nat /\ SecondsLimit < Word
  /\ \A x \in Nat : x > SecondsLimit <=> x * Billion > Maximum
<1>1. Width \in 1..Width /\ Billion \in Nat \ {0}  BY TimestampAssumption
<1>2. Pow[Width - 1] \in Nat \ {0} /\ Pow[Width] = 2 * Pow[Width - 1]
  BY <1>1, HalfPower
<1>3. Maximum \in Nat /\ Maximum < Word  BY <1>2 DEF Maximum, Word
<1> HIDE DEF Maximum, Word
<1>4. \A x \in Nat : x > SecondsLimit <=> x * Billion > Maximum
  BY <1>1, <1>3, AboveQuotient DEF SecondsLimit
<1>5. SecondsLimit \in Nat  BY <1>1, <1>3, DivMod DEF SecondsLimit
<1>6. SecondsLimit <= Maximum
  <2>1. ~(SecondsLimit * Billion > Maximum)  BY <1>4, <1>5
  <2>2. 1 * SecondsLimit <= Billion * SecondsLimit  BY <1>1, <1>5, ProductMonotone
  <2>3. Billion * SecondsLimit = SecondsLimit * Billion /\ 1 * SecondsLimit = SecondsLimit
    BY <1>1, <1>5
  <2>4. SecondsLimit * Billion \in Nat  BY <1>1, <1>5, ProductTyped
  <2> QED  BY <1>3, <1>5, <2>1, <2>2, <2>3, <2>4
<1> QED  BY <1>3, <1>4, <1>5, <1>6, WordTyped

\* More whole seconds than the limit are more nanoseconds than the maximum.
LEMMA TooManySeconds ==
  ASSUME NEW N \in Nat, NEW c \in Nat \ {0}, NEW S \in Nat, NEW v \in Nat,
         S * c + v = N, S > SecondsLimit
  PROVE  (N * Billion) \div c > Maximum
<1> DEFINE q == (v * Billion) \div c
           r == (v * Billion) % c
<1>1. v * Billion \in Nat /\ S * Billion \in Nat  BY BillionTyped, ProductTyped
<1>2. q \in Nat /\ r \in Nat /\ r < c /\ v * Billion = q * c + r  BY <1>1, DivMod
<1> HIDE DEF q, r
<1> DEFINE w == S * Billion
<1>3. (N * Billion) \div c = w + q
  <2>1. (S * c + v) * Billion = w * c + v * Billion  BY BillionTyped
  <2>2. N * Billion \in Nat /\ w + q \in Nat  BY <1>1, <1>2, BillionTyped, ProductTyped
  <2> HIDE DEF w
  <2>3. (w + q) * c + r = w * c + (q * c + r)  BY <1>1, <1>2 DEF w
  <2>4. N * Billion = (w + q) * c + r  BY <1>2, <2>1, <2>3
  <2> QED  BY <1>2, <2>2, <2>4, QuotientIs
<1>4. S * Billion > Maximum  BY LimitsTyped
<1> QED  BY <1>1, <1>2, <1>3, <1>4, LimitsTyped

\* What a conversion to nanoseconds has to answer.
Promised(fn, i, d, c) ==
  IF fn = "convert" THEN Exactly(i * d * Billion, c, Maximum, TRUE)
  ELSE Exactly(i * Billion, c, Maximum, FALSE)

Arguments ==
  /\ call.input \in Nat /\ call.den \in Nat \ {0}
  /\ call.num \in Nat \ {0} /\ call.num < Word
  /\ call.fn = "ticks" => call.den = 1

ConversionInv ==
  /\ pc = "fraction" =>
       /\ call.fn = "convert" /\ Arguments
       /\ divisor = call.num /\ multiplier = call.den
       /\ value = call.input % call.num
       /\ seconds = (call.input \div call.num) * call.den
       /\ seconds <= SecondsLimit
  /\ pc = "phase" =>
       /\ call.fn \in {"convert", "ticks"} /\ Arguments
       /\ divisor = call.num /\ multiplier = Billion
       /\ seconds \in Nat /\ seconds <= SecondsLimit
       /\ seconds * call.num + value = call.input * call.den
  /\ pc = "carry" => call.fn = "block"
  /\ ExactOrRefused

LEMMA ExactlyIs ==
  ASSUME NEW fn \in {"convert", "ticks"}, NEW i \in Nat, NEW d \in Nat, NEW c \in Nat \ {0},
         fn = "ticks" => d = 1
  PROVE  LET N == i * d
         IN Promised(fn, i, d, c)
              = IF (N * Billion) \div c > Maximum THEN Overflow
                ELSE Returned((N * Billion) \div c,
                              IF fn = "convert" THEN (N * Billion) % c ELSE 0)
<1>1. CASE fn = "convert"  BY <1>1 DEF Promised, Exactly
<1>2. CASE fn = "ticks"
  <2>1. i * d = i  BY <1>2
  <2> QED  BY <1>2, <2>1 DEF Promised, Exactly
<1> QED  BY <1>1, <1>2

LEMMA ConvertPromise ==
  ASSUME NEW t \in Words, NEW r \in Rates, Convert(t, r)
  PROVE  ConversionInv'
<1> DEFINE d == r.den
           c == r.num
           whole == t \div c
           f == t % c
           S == whole * d
<1>1. t \in Nat /\ c \in Nat \ {0} /\ c < Word /\ d \in Nat \ {0}
  <2>1. r.num \in Words \ {0} /\ r.den \in Words  BY DEF Rates
  <2>2. r.den # 0
    <3>1. PICK i \in 0..Width : r.den = Pow[i]  BY DEF Rates
    <3> QED  BY <3>1, TimestampAssumption
  <2> QED  BY <2>1, <2>2, WordTyped DEF Words
<1>2. call' = [fn |-> "convert", input |-> t, num |-> c, den |-> d]
  BY DEF Convert
<1>3. /\ whole > SecondsLimit \div d => Answer(Overflow)
      /\ ~(whole > SecondsLimit \div d) =>
           seconds' = Wrap(S) /\ Divide(f, d, c, Width) /\ pc' = "fraction"
  BY DEF Convert
<1> HIDE DEF c, d
<1>4. whole \in Nat /\ f \in Nat /\ f < c /\ t = whole * c + f  BY <1>1, DivMod
<1>5. Arguments'  BY <1>1, <1>2, WordTyped DEF Arguments, Word
<1> HIDE DEF whole, f
<1>6. S \in Nat /\ (whole > SecondsLimit \div d <=> S > SecondsLimit)
  BY <1>1, <1>4, LimitsTyped, AboveQuotient, ProductTyped
<1>7. CASE S > SecondsLimit
  <2> DEFINE p == f * d
             q == p \div c
             m == p % c
             N == t * d
  <2>1. p \in Nat /\ N \in Nat  BY <1>1, <1>4, ProductTyped
  <2>2. N = S * c + p  BY <1>1, <1>4
  <2> HIDE DEF p, N, S
  <2>3. q \in Nat /\ m \in Nat /\ m < c /\ p = q * c + m  BY <1>1, <2>1, DivMod
  <2> HIDE DEF q, m
  <2>4. (S + q) * c + m = N  BY <1>1, <1>6, <2>2, <2>3
  <2>5. S + q \in Nat /\ S + q > SecondsLimit  BY <1>6, <1>7, <2>3, LimitsTyped
  <2>6. (N * Billion) \div c > Maximum
    BY <1>1, <2>1, <2>3, <2>4, <2>5, TooManySeconds
  <2>7. Promised("convert", t, d, c) = Overflow
    BY <1>1, <2>6, ExactlyIs DEF N
  <2>8. pc' = "done" /\ result' = Overflow  BY <1>3, <1>6, <1>7 DEF Answer
  <2> QED  BY <1>2, <2>7, <2>8 DEF ConversionInv, ExactOrRefused, Promised
<1>8. CASE ~(S > SecondsLimit)
  <2>1. seconds' = Wrap(S) /\ Divide(f, d, c, Width) /\ pc' = "fraction"
    BY <1>3, <1>6, <1>8
  <2>2. S <= SecondsLimit /\ Wrap(S) = S  BY <1>6, <1>8, LimitsTyped, WordTyped, WrapSmall
  <2>3. divisor' = c /\ multiplier' = d /\ value' = f  BY <2>1 DEF Divide
  <2> QED  BY <1>2, <1>5, <2>1, <2>2, <2>3 DEF ConversionInv, ExactOrRefused, whole, f
<1> QED  BY <1>7, <1>8

LEMMA TicksPromise ==
  ASSUME NEW t \in Words, NEW f \in Words \ {0}, TicksToNanoseconds(t, f)
  PROVE  ConversionInv'
<1> DEFINE whole == t \div f
           v == t % f
<1>1. t \in Nat /\ f \in Nat \ {0} /\ f < Word  BY WordTyped DEF Words
<1>2. call' = [fn |-> "ticks", input |-> t, num |-> f, den |-> 1]
  BY DEF TicksToNanoseconds
<1>3. /\ whole > SecondsLimit => Answer(Overflow)
      /\ ~(whole > SecondsLimit) =>
           seconds' = whole /\ Divide(v, Billion, f, FirstBit) /\ pc' = "phase"
  BY DEF TicksToNanoseconds, SecondsLimit
<1>4. whole \in Nat /\ v \in Nat /\ v < f /\ t = whole * f + v  BY <1>1, DivMod
<1>5. Arguments'  BY <1>1, <1>2, WordTyped DEF Arguments, Word
<1> HIDE DEF whole, v
<1>6. CASE whole > SecondsLimit
  <2>1. (t * Billion) \div f > Maximum  BY <1>1, <1>4, <1>6, TooManySeconds
  <2>2. pc' = "done" /\ result' = Overflow  BY <1>3, <1>6 DEF Answer
  <2> QED  BY <1>2, <2>1, <2>2 DEF ConversionInv, ExactOrRefused, Exactly
<1>7. CASE ~(whole > SecondsLimit)
  <2>1. seconds' = whole /\ Divide(v, Billion, f, FirstBit) /\ pc' = "phase"
    BY <1>3, <1>7
  <2>2. divisor' = f /\ multiplier' = Billion /\ value' = v  BY <2>1 DEF Divide
  <2>3. whole <= SecondsLimit  BY <1>4, <1>7, LimitsTyped
  <2>4. whole * f + v = t * 1  BY <1>1, <1>4
  <2> QED  BY <1>2, <1>4, <1>5, <2>1, <2>2, <2>3, <2>4 DEF ConversionInv, ExactOrRefused
<1> QED  BY <1>6, <1>7

LEMMA FractionPromise ==
  ASSUME DivisionInv, ConversionInv, AddFraction
  PROVE  ConversionInv'
<1> DEFINE t == call.input
           d == call.den
           c == call.num
           whole == t \div c
           f == t % c
           N == t * d
           S == whole * d
<1>1. /\ pc = "fraction" /\ bits = 0 /\ Arguments /\ call.fn = "convert"
      /\ divisor = c /\ multiplier = d /\ value = f
      /\ seconds = S /\ seconds <= SecondsLimit
  BY DEF AddFraction, ConversionInv
<1>2. t \in Nat /\ d \in Nat \ {0} /\ c \in Nat \ {0}  BY <1>1 DEF Arguments
<1>3. whole \in Nat /\ f \in Nat /\ t = whole * c + f  BY <1>2, DivMod
<1>4. /\ quotient \in Nat /\ remainder \in Nat /\ remainder < c
      /\ quotient * c + remainder = f * d
  BY <1>1, DivisionEnds DEF DivisionExact, DivisionInv
<1>5. S \in Nat /\ N \in Nat /\ f * d \in Nat  BY <1>2, <1>3, ProductTyped
<1>6. (seconds + quotient) * c + remainder = N
  <2>1. N = S * c + f * d  BY <1>2, <1>3
  <2> HIDE DEF t, d, c, whole, f, N, S
  <2>2. (S + quotient) * c + remainder = S * c + (quotient * c + remainder)
    BY <1>2, <1>4, <1>5
  <2> QED  BY <1>1, <1>4, <2>1, <2>2
<1> HIDE DEF t, d, c, whole, f, S
<1>7. seconds \in Nat /\ seconds + quotient \in Nat  BY <1>1, <1>4, <1>5
<1>8. SecondsFit <=> seconds + quotient <= SecondsLimit
  <2>1. SecondsLimit - seconds \in Nat /\ SecondsLimit - seconds < Word
    BY <1>1, <1>7, LimitsTyped, WordTyped
  <2>2. Wrap(SecondsLimit - seconds) = SecondsLimit - seconds  BY <2>1, WrapSmall
  <2> QED  BY <1>4, <1>7, <2>2, LimitsTyped DEF SecondsFit
<1>9. CASE SecondsFit
  <2>1. /\ seconds' = Wrap(seconds + quotient) /\ pc' = "phase" /\ call' = call
        /\ Divide(remainder, Billion, divisor, Width)
    BY <1>9 DEF AddFraction
  <2>2. Wrap(seconds + quotient) = seconds + quotient
    BY <1>7, <1>8, <1>9, LimitsTyped, WordTyped, WrapSmall
  <2>3. divisor' = c /\ multiplier' = Billion /\ value' = remainder
    BY <1>1, <2>1 DEF Divide
  <2>4. Arguments'  BY <1>1, <2>1 DEF Arguments, Word
  <2>5. seconds' * c + value' = N /\ seconds' \in Nat /\ seconds' <= SecondsLimit
    BY <1>6, <1>7, <1>8, <1>9, <2>1, <2>2, <2>3
  <2> QED
    BY <1>1, <2>1, <2>3, <2>4, <2>5 DEF ConversionInv, ExactOrRefused, t, d, c
<1>10. CASE ~SecondsFit
  <2>1. pc' = "done" /\ result' = Overflow /\ call' = call
    BY <1>10 DEF AddFraction, Answer
  <2>2. (N * Billion) \div c > Maximum
    <3>1. seconds + quotient > SecondsLimit  BY <1>7, <1>8, <1>10, LimitsTyped
    <3> HIDE DEF N
    <3> QED  BY <1>2, <1>4, <1>5, <1>6, <1>7, <3>1, TooManySeconds
  <2>3. Promised("convert", t, d, c) = Overflow  BY <1>2, <2>2, ExactlyIs
  <2> QED
    BY <1>1, <2>1, <2>3 DEF ConversionInv, ExactOrRefused, Promised, t, d, c
<1> QED  BY <1>9, <1>10

LEMMA NanosecondsPromise ==
  ASSUME DivisionInv, ConversionInv, AddNanoseconds
  PROVE  ConversionInv'
<1> DEFINE t == call.input
           d == call.den
           c == call.num
           N == t * d
           w == seconds * Billion
<1>1. /\ pc = "phase" /\ bits = 0 /\ Arguments /\ call.fn \in {"convert", "ticks"}
      /\ divisor = c /\ multiplier = Billion
      /\ seconds \in Nat /\ seconds <= SecondsLimit /\ seconds * c + value = N
  BY DEF AddNanoseconds, ConversionInv
<1>2. t \in Nat /\ d \in Nat \ {0} /\ c \in Nat \ {0} /\ (call.fn = "ticks" => d = 1)
  BY <1>1 DEF Arguments
<1>3. /\ quotient \in Nat /\ remainder \in Nat /\ remainder < c /\ value \in Nat
      /\ quotient * c + remainder = value * Billion
  BY <1>1, DivisionEnds DEF DivisionExact, DivisionInv
<1>4. N \in Nat /\ w \in Nat /\ Billion \in Nat  BY <1>1, <1>2, BillionTyped, ProductTyped
<1>5. (N * Billion) \div c = w + quotient /\ (N * Billion) % c = remainder
  <2> HIDE DEF N, c
  <2>1. (seconds * c + value) * Billion = w * c + value * Billion
    BY <1>1, <1>2, <1>3, <1>4
  <2>2. N * Billion \in Nat /\ w + quotient \in Nat  BY <1>3, <1>4, ProductTyped
  <2> HIDE DEF w
  <2>3. (w + quotient) * c + remainder = w * c + (quotient * c + remainder)
    BY <1>2, <1>3, <1>4
  <2>4. N * Billion = (w + quotient) * c + remainder  BY <1>1, <1>3, <2>1, <2>3
  <2> QED  BY <1>2, <1>3, <2>2, <2>4, QuotientIs
<1>6. w <= Maximum  BY <1>1, <1>4, LimitsTyped
<1>7. Wrap(w) = w  BY <1>4, <1>6, LimitsTyped, WordTyped, WrapSmall
<1> HIDE DEF w
<1>8. Wrap(Maximum - w) = Maximum - w
  <2>1. Maximum - w \in Nat /\ Maximum - w < Word  BY <1>4, <1>6, LimitsTyped, WordTyped
  <2> QED  BY <2>1, WrapSmall
<1>9. /\ pc' = "done" /\ call' = call
      /\ result' = IF w + quotient > Maximum THEN Overflow
                   ELSE Returned(w + quotient, IF call.fn = "convert" THEN remainder ELSE 0)
  <2>1. /\ pc' = "done" /\ call' = call
        /\ result' = IF quotient > Wrap(Maximum - Wrap(w)) THEN Overflow
                     ELSE Returned(Wrap(w) + quotient,
                                   IF call.fn = "convert" THEN remainder ELSE 0)
    BY DEF AddNanoseconds, Answer, w
  <2>2. quotient > Wrap(Maximum - Wrap(w)) <=> w + quotient > Maximum
    BY <1>3, <1>4, <1>7, <1>8, LimitsTyped
  <2> QED  BY <1>7, <2>1, <2>2
<1>10. result' = Promised(call.fn, t, d, c)
  <2> HIDE DEF t, d, c
  <2>1. Promised(call.fn, t, d, c)
          = IF (N * Billion) \div c > Maximum THEN Overflow
            ELSE Returned((N * Billion) \div c,
                          IF call.fn = "convert" THEN (N * Billion) % c ELSE 0)
    <3> DEFINE fn == call.fn
    <3>1. fn \in {"convert", "ticks"} /\ (fn = "ticks" => d = 1)  BY <1>1, <1>2
    <3> HIDE DEF fn
    <3>2. Promised(fn, t, d, c)
            = IF (N * Billion) \div c > Maximum THEN Overflow
              ELSE Returned((N * Billion) \div c,
                            IF fn = "convert" THEN (N * Billion) % c ELSE 0)
      BY <1>2, <3>1, ExactlyIs
    <3> QED  BY <3>2 DEF fn
  <2> HIDE DEF N
  <2> QED  BY <1>5, <1>9, <2>1
<1> QED
  BY <1>1, <1>9, <1>10 DEF ConversionInv, ExactOrRefused, Promised, t, d, c

\* Both factors split at Billion: no product of the parts leaves the word.
LEMMA TicksPromised ==
  ASSUME NEW n \in 0..Maximum, NEW f \in Words \ {0}, NanosecondsToTicks(n, f)
  PROVE  ConversionInv'
<1> DEFINE B == Billion
           sec == n \div B
           sub == n % B
           fq == f \div B
           fr == f % B
           g == (fr * sub) \div B
           h == (fr * sub) % B
           x == sec * f
           y == fq * sub
<1>1. /\ n \in Nat /\ f \in Nat \ {0} /\ f < Word /\ Word \in Nat \ {0}
      /\ B \in Nat \ {0} /\ B * B < Word
  BY LimitsTyped, WordTyped, TimestampAssumption DEF Words, Word
<1>2. /\ call' = [fn |-> "nanoseconds", input |-> n, num |-> f, den |-> 1]
      /\ pc' = "done"
      /\ result' = IF \/ sec > (Word - 1) \div f
                      \/ Wrap(Wrap(y) + Wrap(fr * sub) \div B) > Wrap((Word - 1) - Wrap(x))
                   THEN Overflow
                   ELSE Returned(Wrap(Wrap(x) + Wrap(Wrap(y) + Wrap(fr * sub) \div B)), 0)
  BY DEF NanosecondsToTicks, Answer
<1> HIDE DEF B, Word
<1>3. /\ sec \in Nat /\ sub \in Nat /\ sub < B /\ n = sec * B + sub
      /\ fq \in Nat /\ fr \in Nat /\ fr < B /\ f = fq * B + fr
  BY <1>1, DivMod
<1> HIDE DEF sec, sub, fq, fr
<1>4. x \in Nat /\ y \in Nat /\ fr * sub \in Nat  BY <1>1, <1>3, ProductTyped
<1>5. g \in Nat /\ h \in Nat /\ h < B /\ fr * sub = g * B + h  BY <1>1, <1>4, DivMod
<1>6. sec > (Word - 1) \div f <=> x > Word - 1
  <2>1. Word - 1 \in Nat  BY <1>1
  <2> QED  BY <1>1, <1>3, <2>1, AboveQuotient
<1>7. Wrap(fr * sub) = fr * sub
  <2>1. fr * sub <= B * sub  BY <1>1, <1>3, ProductMonotone
  <2>2. sub * B <= B * B  BY <1>1, <1>3, ProductMonotone
  <2>3. B * sub = sub * B /\ B * sub \in Nat /\ B * B \in Nat  BY <1>1, <1>3, ProductTyped
  <2>4. fr * sub < Word  BY <1>1, <1>4, <2>1, <2>2, <2>3
  <2> QED  BY <1>4, <2>4, WrapSmall
<1> HIDE DEF g, h
<1>8. sub * f = (y + g) * B + h
  <2>1. sub * f = (fq * sub) * B + fr * sub  BY <1>1, <1>3
  <2> HIDE DEF y
  <2>2. (y + g) * B + h = y * B + (g * B + h)  BY <1>1, <1>4, <1>5
  <2> QED  BY <1>5, <2>1, <2>2 DEF y
<1>9. y + g \in Nat /\ y + g <= f
  <2>1. y + g \in Nat  BY <1>4, <1>5
  <2> HIDE DEF y
  <2>2. sub * f <= B * f  BY <1>1, <1>3, ProductMonotone
  <2>3. B * f = f * B  BY <1>1
  <2>4. f * B \in Nat /\ (y + g) * B \in Nat  BY <1>1, <2>1, ProductTyped
  <2>5. (y + g) * B <= f * B  BY <1>1, <1>5, <1>8, <2>2, <2>3, <2>4
  <2>6. y + g > f => (f + 1) * B <= (y + g) * B  BY <1>1, <2>1, ProductMonotone
  <2>7. (f + 1) * B = f * B + B  BY <1>1
  <2> QED  BY <1>1, <2>1, <2>4, <2>5, <2>6, <2>7
<1> HIDE DEF y
<1>10. Wrap(y) = y /\ Wrap(y + g) = y + g
  <2>1. y < Word /\ y + g < Word  BY <1>1, <1>4, <1>5, <1>9
  <2> QED  BY <1>4, <1>9, <2>1, WrapSmall
<1>11. Wrap(Wrap(y) + Wrap(fr * sub) \div B) = y + g  BY <1>7, <1>10 DEF g
<1>12. (n * f) \div B = x + (y + g)
  <2>1. n * f = (sec * f) * B + sub * f  BY <1>1, <1>3
  <2> HIDE DEF x
  <2>2. (x + (y + g)) * B + h = x * B + ((y + g) * B + h)  BY <1>1, <1>4, <1>5, <1>9
  <2>3. n * f = (x + (y + g)) * B + h  BY <1>8, <2>1, <2>2 DEF x
  <2>4. n * f \in Nat /\ x + (y + g) \in Nat  BY <1>1, <1>4, <1>9, ProductTyped
  <2> QED  BY <1>1, <1>5, <2>3, <2>4, QuotientIs
<1> HIDE DEF x
<1>13. result' = Exactly(n * f, B, Word - 1, FALSE)
  <2> DEFINE z == y + g
  <2>1. Exactly(n * f, B, Word - 1, FALSE)
          = IF x + z > Word - 1 THEN Overflow ELSE Returned(x + z, 0)
    BY <1>12 DEF Exactly
  <2>2. result' = IF x > Word - 1 \/ z > Wrap((Word - 1) - Wrap(x)) THEN Overflow
                  ELSE Returned(Wrap(Wrap(x) + z), 0)
    BY <1>2, <1>6, <1>11
  <2>3. z \in Nat  BY <1>9
  <2> HIDE DEF z
  <2>4. CASE x > Word - 1
    <3>1. x + z > Word - 1  BY <1>1, <1>4, <2>3, <2>4
    <3>2. result' = Overflow  BY <2>2, <2>4
    <3> QED  BY <2>1, <3>1, <3>2
  <2>5. CASE ~(x > Word - 1)
    <3>1. Wrap(x) = x  BY <1>1, <1>4, <2>5, WrapSmall
    <3>2. Wrap((Word - 1) - x) = (Word - 1) - x
      <4>1. (Word - 1) - x \in Nat /\ (Word - 1) - x < Word  BY <1>1, <1>4, <2>5
      <4> QED  BY <4>1, WrapSmall
    <3>3. z > (Word - 1) - x <=> x + z > Word - 1  BY <1>1, <1>4, <2>3
    <3>4. ~(x + z > Word - 1) => Wrap(x + z) = x + z
      BY <1>1, <1>4, <2>3, WrapSmall
    <3> QED  BY <2>1, <2>2, <2>5, <3>1, <3>2, <3>3, <3>4
  <2> QED  BY <2>4, <2>5
<1> QED
  BY <1>2, <1>13 DEF ConversionInv, ExactOrRefused, B, Word

LEMMA ConversionStep == DivisionInv /\ ConversionInv /\ [Next]_vars => ConversionInv'
<1> SUFFICES ASSUME DivisionInv, ConversionInv, [Next]_vars PROVE ConversionInv'  OBVIOUS
<1>1. CASE Call
  <2>1. CASE \E t \in Words, r \in Rates : Convert(t, r)  BY <2>1, ConvertPromise
  <2>2. CASE \E t \in Words, f \in Words \ {0} : TicksToNanoseconds(t, f)
    BY <2>2, TicksPromise
  <2>3. CASE \E n \in 0..Maximum, f \in Words \ {0} : NanosecondsToTicks(n, f)
    BY <2>3, TicksPromised
  <2>4. CASE \E t \in Words, r \in BlockRates, k \in Offsets, s \in BlockRates :
               BlockTime(t, r, k, s)
    <3>1. PICK t \in Words, r \in BlockRates, k \in Offsets, s \in BlockRates :
                 BlockTime(t, r, k, s)
      BY <2>4
    <3>2. call'.fn = "block" /\ pc' \in {"carry", "done"}
      <4>1. call' = [fn |-> "block", input |-> t, num |-> r.num, den |-> r.den]
        BY <3>1 DEF BlockTime
      <4>2. pc' = "carry" \/ \E a : Answer(a)  BY <3>1 DEF BlockTime
      <4> QED  BY <4>1, <4>2 DEF Answer
    <3> QED  BY <3>2 DEF ConversionInv, ExactOrRefused
  <2> QED  BY <1>1, <2>1, <2>2, <2>3, <2>4 DEF Call
<1>2. CASE DivideStep
  <2>1. UNCHANGED <<call, pc, value, multiplier, divisor, seconds, result>> /\ pc # "done"
    BY <1>2 DEF DivideStep
  <2>2. Arguments => Arguments'  BY <2>1 DEF Arguments, Word
  <2> QED  BY <2>1, <2>2 DEF ConversionInv, ExactOrRefused, SecondsLimit, Maximum
<1>3. CASE AddFraction  BY <1>3, FractionPromise
<1>4. CASE AddNanoseconds  BY <1>4, NanosecondsPromise
<1>5. CASE CarryNanosecond
  <2>1. call' = call /\ pc = "carry" /\ pc' = "done"
    BY <1>5 DEF CarryNanosecond, Answer
  <2> QED  BY <2>1 DEF ConversionInv, ExactOrRefused
<1>6. CASE Return
  <2>1. pc' = "idle"  BY <1>6 DEF Return
  <2> QED  BY <2>1 DEF ConversionInv, ExactOrRefused
<1>7. CASE UNCHANGED vars
  <2>1. Arguments => Arguments'  BY <1>7 DEF Arguments, Word
  <2> QED
    BY <1>7, <2>1 DEF ConversionInv, ExactOrRefused, SecondsLimit, Maximum
<1> QED  BY <1>1, <1>2, <1>3, <1>4, <1>5, <1>6, <1>7 DEF Next

\* The three conversions return the exact value truncated, with the exact phase for
\* a rate, and refuse exactly what their result type cannot hold, for every word
\* width and all arguments: the portable build and the 128-bit build agree, and no
\* representable time is refused (TimestampRate.hpp:119-140,
\* TimestampConversion.hpp:28-95, 131-150).
THEOREM ConversionsExact == Spec => []ExactOrRefused
<1>1. Init => ConversionInv  BY DEF Init, ConversionInv, ExactOrRefused
<1>2. ConversionInv => ExactOrRefused  BY DEF ConversionInv
<1> QED  BY <1>1, <1>2, InitDivision, DivisionStep, ConversionStep, PTL DEF Spec


-----------------------------------------------------------------------------
(* Every variable stays one word wide.                                        *)

OneWord(x) == x \in Nat /\ x < Word

DivisionWords ==
  /\ OneWord(value) /\ OneWord(multiplier) /\ OneWord(divisor)
  /\ OneWord(quotient) /\ OneWord(remainder)
  /\ bits \in 0..Width /\ rest \in Nat /\ rest < Pow[bits]

AnswerWords ==
  /\ OneWord(seconds) /\ OneWord(result.number)
  /\ block.time \in 0..Maximum
  /\ OneWord(block.offset) /\ OneWord(block.phase) /\ OneWord(block.past)

WordInv ==
  /\ pc \in {"idle", "fraction", "phase", "carry", "done"}
  /\ DivisionWords /\ AnswerWords

ArithmeticInv == DivisionInv /\ ConversionInv /\ BlockInv /\ WordInv

LEMMA WrapTyped == ASSUME NEW x \in Nat PROVE OneWord(Wrap(x))
BY WordTyped, ModTyped DEF OneWord, Wrap

LEMMA ExactlyTyped ==
  ASSUME NEW p \in Nat, NEW q \in Nat \ {0}, NEW limit, OneWord(limit), NEW phase \in BOOLEAN
  PROVE  OneWord(Exactly(p, q, limit, phase).number)
<1> DEFINE w == p \div q
<1>1. w \in Nat  BY DivMod
<1>2. Exactly(p, q, limit, phase).number = IF w > limit THEN 0 ELSE w
  BY DEF Exactly, Overflow, Returned
<1> HIDE DEF w
<1> QED  BY <1>1, <1>2, WordTyped DEF OneWord

LEMMA ConstantWords == Word' = Word /\ Maximum' = Maximum
BY DEF Word, Maximum

LEMMA DivideWords ==
  ASSUME NEW v, NEW m, NEW d, NEW n \in 0..Width,
         OneWord(v), OneWord(m), OneWord(d), m < Pow[n], Divide(v, m, d, n)
  PROVE  DivisionWords'
BY WordTyped, ConstantWords DEF Divide, DivisionWords, OneWord

LEMMA AnswerKept ==
  ASSUME WordInv, NEW r, Answer(r), OneWord(r.number)
  PROVE  DivisionWords' /\ OneWord(seconds)' /\ OneWord(result.number)' /\ pc' = "done"
BY ConstantWords DEF Answer, WordInv, DivisionWords, AnswerWords, OneWord

LEMMA OverflowWord == OneWord(Overflow.number)
BY WordTyped DEF Overflow, OneWord

LEMMA BlockKept ==
  ASSUME WordInv, block' = block
  PROVE  /\ (block.time \in 0..Maximum)'
         /\ OneWord(block.offset)' /\ OneWord(block.phase)' /\ OneWord(block.past)'
BY ConstantWords DEF WordInv, AnswerWords, OneWord

LEMMA StepWords == ASSUME ArithmeticInv, DivisionInv', DivideStep PROVE WordInv'
<1> HIDE DEF Word
<1>1. /\ pc \in {"fraction", "phase", "carry"} /\ pc' = pc /\ block' = block
      /\ seconds' = seconds /\ result' = result
  BY DEF DivideStep
<1>2. /\ value' \in Nat /\ multiplier' \in Nat /\ divisor' \in Nat /\ bits' \in 0..Width
      /\ rest' \in Nat /\ quotient' \in Nat /\ remainder' \in Nat
      /\ value' < divisor' /\ remainder' < divisor' /\ divisor' < Word
      /\ multiplier' < Word /\ rest' < Pow[bits']
  BY <1>1, ConstantWords DEF DivisionInv, Dividing
<1>3. Word \in Nat  BY WordTyped
<1>4. quotient' < Word
  <2>1. \A r, a : Carry(r, a) \in Nat  BY DEF Carry
  <2>2. quotient \in Nat  BY DEF ArithmeticInv, DivisionInv
  <2> DEFINE doubled == Plus(remainder, remainder)
             once == Wrap(2 * quotient + Carry(remainder, remainder))
  <2>3. OneWord(once)  BY <2>1, <2>2, WrapTyped
  <2>4. \/ quotient' = once
        \/ quotient' = Wrap(once + Carry(doubled, value))
    BY DEF DivideStep
  <2> HIDE DEF once, doubled
  <2>5. OneWord(Wrap(once + Carry(doubled, value)))
    <3>1. once \in Nat /\ Carry(doubled, value) \in Nat  BY <2>1, <2>3 DEF OneWord
    <3>2. once + Carry(doubled, value) \in Nat  BY <3>1
    <3> QED  BY <3>2, WrapTyped
  <2> QED  BY <2>3, <2>4, <2>5 DEF OneWord
<1>5. DivisionWords'
  BY <1>2, <1>3, <1>4, ConstantWords DEF DivisionWords, OneWord
<1>6. AnswerWords'
  BY <1>1, ConstantWords DEF ArithmeticInv, WordInv, AnswerWords, OneWord
<1> QED  BY <1>1, <1>5, <1>6 DEF WordInv

LEMMA ConvertWords ==
  ASSUME WordInv, NEW t \in Words, NEW r \in Rates, Convert(t, r)
  PROVE  WordInv'
<1>1. /\ OneWord(t) /\ OneWord(r.num) /\ OneWord(r.den) /\ r.num # 0
  <2>1. r.num \in Words \ {0} /\ r.den \in Words  BY DEF Rates
  <2> QED  BY <2>1, WordTyped DEF Words, OneWord
<1> DEFINE whole == t \div r.num
<1>2. block' = block  BY DEF Convert
<1>3. whole \in Nat /\ OneWord(t % r.num)
  BY <1>1, DivMod, WordTyped DEF OneWord
<1>4. CASE whole > SecondsLimit \div r.den
  <2>1. Answer(Overflow)  BY <1>4 DEF Convert
  <2> QED  BY <1>2, <2>1, AnswerKept, OverflowWord, BlockKept DEF WordInv, AnswerWords
<1>5. CASE ~(whole > SecondsLimit \div r.den)
  <2>1. /\ seconds' = Wrap(whole * r.den) /\ Divide(t % r.num, r.den, r.num, Width)
        /\ pc' = "fraction" /\ result' = result
    BY <1>5 DEF Convert
  <2> HIDE DEF whole
  <2>2. OneWord(seconds)'
    <3>1. whole * r.den \in Nat  BY <1>1, <1>3, ProductTyped DEF OneWord
    <3>2. OneWord(Wrap(whole * r.den))  BY <3>1, WrapTyped
    <3> QED  BY <2>1, <3>2, ConstantWords DEF OneWord
  <2>3. DivisionWords'
    <3>1. Width \in 0..Width /\ r.den < Pow[Width]  BY <1>1, BillionTyped DEF OneWord
    <3> QED  BY <1>1, <1>3, <2>1, <3>1, DivideWords
  <2>4. OneWord(result.number)'
    BY <2>1, ConstantWords DEF WordInv, AnswerWords, OneWord
  <2> QED  BY <1>2, <2>1, <2>2, <2>3, <2>4, BlockKept DEF WordInv, AnswerWords
<1> QED  BY <1>4, <1>5

LEMMA TicksWords ==
  ASSUME WordInv, NEW t \in Words, NEW f \in Words \ {0}, TicksToNanoseconds(t, f)
  PROVE  WordInv'
<1>1. OneWord(t) /\ OneWord(f) /\ f # 0  BY WordTyped DEF Words, OneWord
<1> DEFINE whole == t \div f
<1>2. block' = block  BY DEF TicksToNanoseconds
<1>3. whole \in Nat /\ OneWord(t % f)
  BY <1>1, DivMod, WordTyped DEF OneWord
<1>4. CASE whole > SecondsLimit
  <2>1. Answer(Overflow)  BY <1>4 DEF TicksToNanoseconds, SecondsLimit
  <2> QED  BY <1>2, <2>1, AnswerKept, OverflowWord, BlockKept DEF WordInv, AnswerWords
<1>5. CASE ~(whole > SecondsLimit)
  <2>1. /\ seconds' = whole /\ Divide(t % f, Billion, f, FirstBit)
        /\ pc' = "phase" /\ result' = result
    BY <1>5 DEF TicksToNanoseconds, SecondsLimit
  <2> HIDE DEF whole
  <2>2. OneWord(seconds)'
    BY <1>3, <1>5, <2>1, LimitsTyped, WordTyped, ConstantWords DEF OneWord
  <2>3. DivisionWords'
    <3>1. FirstBit \in 0..Width /\ Billion < Pow[FirstBit] /\ OneWord(Billion)
      BY BillionTyped DEF FirstBit, OneWord
    <3> QED  BY <1>1, <1>3, <2>1, <3>1, DivideWords
  <2>4. OneWord(result.number)'
    BY <2>1, ConstantWords DEF WordInv, AnswerWords, OneWord
  <2> QED  BY <1>2, <2>1, <2>2, <2>3, <2>4, BlockKept DEF WordInv, AnswerWords
<1> QED  BY <1>4, <1>5

LEMMA FractionWords ==
  ASSUME ArithmeticInv, AddFraction
  PROVE  WordInv'
<1>1. /\ pc = "fraction" /\ block' = block /\ WordInv
      /\ OneWord(quotient) /\ OneWord(remainder) /\ OneWord(divisor) /\ OneWord(seconds)
  BY DEF AddFraction, ArithmeticInv, WordInv, DivisionWords, AnswerWords
<1>2. CASE SecondsFit
  <2>1. /\ seconds' = Wrap(seconds + quotient) /\ Divide(remainder, Billion, divisor, Width)
        /\ pc' = "phase" /\ result' = result
    BY <1>2 DEF AddFraction
  <2>2. OneWord(seconds)'
    <3>1. seconds + quotient \in Nat  BY <1>1 DEF OneWord
    <3>2. OneWord(Wrap(seconds + quotient))  BY <3>1, WrapTyped
    <3> QED  BY <2>1, <3>2, ConstantWords DEF OneWord
  <2>3. DivisionWords'
    <3>1. Width \in 0..Width /\ Billion < Pow[Width] /\ OneWord(Billion)
      BY BillionTyped DEF OneWord
    <3> QED  BY <1>1, <2>1, <3>1, DivideWords
  <2>4. OneWord(result.number)'
    BY <1>1, <2>1, ConstantWords DEF WordInv, AnswerWords, OneWord
  <2> QED  BY <1>1, <2>1, <2>2, <2>3, <2>4, BlockKept DEF WordInv, AnswerWords
<1>3. CASE ~SecondsFit
  <2>1. Answer(Overflow)  BY <1>3 DEF AddFraction
  <2> QED  BY <1>1, <2>1, AnswerKept, OverflowWord, BlockKept DEF WordInv, AnswerWords
<1> QED  BY <1>2, <1>3

LEMMA NanosecondsWords ==
  ASSUME ArithmeticInv, ConversionInv', AddNanoseconds
  PROVE  WordInv'
<1>1. /\ pc = "phase" /\ Arguments /\ call.fn \in {"convert", "ticks"}
      /\ block' = block /\ call' = call /\ WordInv
  BY DEF AddNanoseconds, ArithmeticInv, ConversionInv
<1>2. PICK r : Answer(r)  BY DEF AddNanoseconds
<1>3. pc' = "done" /\ result' = r  BY <1>2 DEF Answer
<1>4. OneWord(result'.number)
  <2>1. OneWord(Maximum) /\ Maximum' = Maximum
    BY LimitsTyped, ConstantWords DEF OneWord
  <2>2. /\ call.input * call.den * Billion \in Nat /\ call.input * Billion \in Nat
        /\ call.num \in Nat \ {0}
    BY <1>1, BillionTyped, ProductTyped DEF Arguments
  <2>3. \/ result' = Exactly(call.input * call.den * Billion, call.num, Maximum, TRUE)
        \/ result' = Exactly(call.input * Billion, call.num, Maximum, FALSE)
    BY <1>1, <1>3, <2>1 DEF ConversionInv, ExactOrRefused
  <2> QED  BY <2>1, <2>2, <2>3, ExactlyTyped
<1> QED
  BY <1>1, <1>2, <1>3, <1>4, AnswerKept, BlockKept DEF WordInv, AnswerWords

LEMMA CarryWords ==
  ASSUME ArithmeticInv, CarryNanosecond
  PROVE  WordInv'
<1>1. block' = block /\ WordInv /\ block.time \in 0..Maximum
  BY DEF CarryNanosecond, ArithmeticInv, WordInv, AnswerWords
<1>2. PICK r : Answer(r) /\ OneWord(r.number)
  <2>1. OneWord(Returned(block.time, 0).number)
    BY <1>1, LimitsTyped, WordTyped DEF Returned, OneWord
  <2>2. block.time < Maximum => OneWord(Returned(block.time + 1, 0).number)
    BY <1>1, LimitsTyped, WordTyped DEF Returned, OneWord
  <2> QED  BY <2>1, <2>2, OverflowWord DEF CarryNanosecond
<1> QED  BY <1>1, <1>2, AnswerKept, BlockKept DEF WordInv, AnswerWords

LEMMA TicksReturned ==
  ASSUME WordInv, ConversionInv', NEW n \in 0..Maximum, NEW f \in Words \ {0},
         NanosecondsToTicks(n, f)
  PROVE  WordInv'
<1>1. /\ n \in Nat /\ f \in Nat \ {0}
      /\ call' = [fn |-> "nanoseconds", input |-> n, num |-> f, den |-> 1]
      /\ block' = block
  BY LimitsTyped, WordTyped DEF NanosecondsToTicks, Words
<1>2. PICK r : Answer(r)  BY DEF NanosecondsToTicks
<1>3. pc' = "done" /\ result' = r  BY <1>2 DEF Answer
<1>4. OneWord(result'.number)
  <2>1. result' = Exactly(n * f, Billion, Word - 1, FALSE)
    BY <1>1, <1>3, ConstantWords DEF ConversionInv, ExactOrRefused
  <2>2. n * f \in Nat /\ Billion \in Nat \ {0} /\ OneWord(Word - 1)
    BY <1>1, ProductTyped, WordTyped, TimestampAssumption DEF OneWord
  <2> QED  BY <2>1, <2>2, ExactlyTyped
<1> QED  BY <1>1, <1>2, <1>3, <1>4, AnswerKept, BlockKept DEF WordInv, AnswerWords

\* A block's time and the phase of its division.
LEMMA PhaseTyped ==
  ASSUME NEW p \in Nat, NEW q \in Nat \ {0}
  PROVE  /\ At(p, q).number \in Nat /\ At(p, q).fraction \in Nat /\ At(p, q).fraction < q
BY DivMod DEF At, Exactly, Overflow, Returned

LEMMA BlockWords ==
  ASSUME WordInv, NEW t \in Words, NEW r \in BlockRates, NEW k \in Offsets,
         NEW s \in BlockRates, BlockTime(t, r, k, s)
  PROVE  WordInv'
<1> DEFINE p == t * r.den * Billion
           q == k * s.den * Billion
           at == At(p, r.num)
           past == At(q, s.num)
           fits == past.ok /\ at.number <= Maximum - past.number
           carrying == at.fraction # 0 /\ past.fraction # 0
           time == IF fits THEN at.number + past.number ELSE 0
<1>1. /\ r.num \in Nat \ {0} /\ r.num < Word /\ r.den \in Nat \ {0}
      /\ s.num \in Nat \ {0} /\ s.num < Word /\ s.den \in Nat \ {0}
  BY BlockRateTyped
<1>2. t \in Nat /\ OneWord(k)
  <2>1. t \in 0..(Word - 1) /\ k \in 0..(Word - 1)
    BY BlockAssumption DEF Words, Word
  <2> QED  BY <2>1, WordTyped DEF OneWord
<1>3. p \in Nat /\ q \in Nat
  BY <1>1, <1>2, BillionTyped, ProductTyped DEF OneWord
<1>4. /\ at.ok /\ block' = [offset |-> k, num |-> s.num, den |-> s.den, time |-> time,
                            phase |-> at.fraction, past |-> past.fraction]
      /\ IF fits /\ carrying
         THEN /\ Divide(s.num - past.fraction, r.num, s.num, Width)
              /\ pc' = "carry" /\ UNCHANGED <<seconds, result>>
         ELSE Answer(IF fits THEN Returned(at.number + past.number, 0) ELSE Overflow)
  BY DEF BlockTime, At
<1> HIDE DEF p, q
<1>5. /\ at.number \in Nat /\ at.fraction \in Nat /\ at.fraction < r.num
      /\ past.number \in Nat /\ past.fraction \in Nat /\ past.fraction < s.num
  BY <1>1, <1>3, PhaseTyped
<1> HIDE DEF at, past
<1>6. time \in 0..Maximum
  BY <1>5, LimitsTyped
<1>7. OneWord(at.fraction) /\ OneWord(past.fraction) /\ OneWord(time)
  BY <1>1, <1>5, <1>6, LimitsTyped, WordTyped DEF OneWord
<1>8. /\ (block.time \in 0..Maximum)'
      /\ OneWord(block.offset)' /\ OneWord(block.phase)' /\ OneWord(block.past)'
  BY <1>2, <1>4, <1>6, <1>7, ConstantWords DEF OneWord
<1>9. CASE fits /\ carrying
  <2>1. /\ Divide(s.num - past.fraction, r.num, s.num, Width)
        /\ pc' = "carry" /\ seconds' = seconds /\ result' = result
    BY <1>4, <1>9
  <2>2. OneWord(s.num - past.fraction) /\ OneWord(r.num) /\ OneWord(s.num)
    BY <1>1, <1>5, WordTyped DEF OneWord
  <2>3. Width \in 0..Width /\ r.num < Pow[Width]
    BY <1>1, BillionTyped
  <2>4. DivisionWords'  BY <2>1, <2>2, <2>3, DivideWords
  <2>5. OneWord(seconds)' /\ OneWord(result.number)'
    BY <2>1, ConstantWords DEF WordInv, AnswerWords, OneWord
  <2> QED  BY <1>8, <2>1, <2>4, <2>5 DEF WordInv, AnswerWords
<1>10. CASE ~(fits /\ carrying)
  <2>1. Answer(IF fits THEN Returned(at.number + past.number, 0) ELSE Overflow)
    BY <1>4, <1>10
  <2>2. OneWord((IF fits THEN Returned(at.number + past.number, 0) ELSE Overflow).number)
    BY <1>7, OverflowWord DEF Returned
  <2> QED  BY <1>8, <2>1, <2>2, AnswerKept DEF WordInv, AnswerWords
<1> QED  BY <1>9, <1>10

LEMMA WordsInit == Init => WordInv
<1>1. 0 < Word /\ 1 < Word /\ Maximum \in Nat
  BY BillionTyped, LimitsTyped, WordTyped
<1>2. Pow[0] = 1 /\ Width \in Nat  BY TimestampAssumption
<1> QED
  BY <1>1, <1>2 DEF Init, WordInv, DivisionWords, AnswerWords, OneWord, Overflow, NoBlock

LEMMA WordsStep ==
  ASSUME ArithmeticInv, DivisionInv', ConversionInv', [Next]_vars
  PROVE  WordInv'
<1>0. WordInv  BY DEF ArithmeticInv
<1>1. CASE Call
  BY <1>0, <1>1, ConvertWords, TicksWords, TicksReturned, BlockWords DEF Call
<1>2. CASE DivideStep  BY <1>2, StepWords
<1>3. CASE AddFraction  BY <1>3, FractionWords
<1>4. CASE AddNanoseconds  BY <1>4, NanosecondsWords
<1>5. CASE CarryNanosecond  BY <1>5, CarryWords
<1>6. CASE Return
  <2>1. 0 < Word /\ 1 < Word /\ Maximum \in Nat
    BY BillionTyped, LimitsTyped, WordTyped
  <2>2. Pow[0] = 1 /\ Width \in Nat  BY TimestampAssumption
  <2> QED
    BY <1>6, <2>1, <2>2, ConstantWords
      DEF Return, Clear, WordInv, DivisionWords, AnswerWords, OneWord, Overflow, NoBlock
<1>7. CASE UNCHANGED vars
  BY <1>0, <1>7, ConstantWords DEF WordInv, DivisionWords, AnswerWords, OneWord
<1> QED  BY <1>1, <1>2, <1>3, <1>4, <1>5, <1>6, <1>7 DEF Next

\* Every operand, remainder, quotient and answer of the portable arithmetic is one
\* word, and the time of a block is an int64_t, for every word width and all
\* arguments (TimestampRate.hpp:36-57, 119-140, TimestampConversion.hpp:28-95).
THEOREM WordsTyped == Spec => []TypeOK
<1>1. Init => ArithmeticInv
  <2>1. Init => ConversionInv  BY DEF Init, ConversionInv, ExactOrRefused
  <2>2. Init => BlockInv  BY DEF Init, BlockInv, BlockTimeExact
  <2> QED  BY <2>1, <2>2, InitDivision, WordsInit DEF ArithmeticInv
<1>2. ArithmeticInv /\ [Next]_vars => ArithmeticInv'
  BY DivisionStep, ConversionStep, BlockStep, WordsStep DEF ArithmeticInv
<1>3. ASSUME ArithmeticInv PROVE TypeOK
  <2>1. \A x : OneWord(x) => x \in Words  BY WordTyped DEF OneWord, Words
  <2>2. rest \in 0..(Pow[bits] - 1)
    <3>1. /\ bits \in 0..Width /\ rest \in Nat /\ rest < Pow[bits]
      BY <1>3 DEF ArithmeticInv, WordInv, DivisionWords
    <3>2. Pow[bits] \in Nat  BY <3>1, TimestampAssumption
    <3> QED  BY <3>1, <3>2
  <2> QED
    BY <1>3, <2>1, <2>2 DEF ArithmeticInv, WordInv, DivisionWords, AnswerWords, TypeOK
<1> QED  BY <1>1, <1>2, <1>3, PTL DEF Spec
=============================================================================
