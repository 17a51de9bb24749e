---------------------------- MODULE TimestampMath ----------------------------
(***************************************************************************)
(* The portable timestamp arithmetic of TimestampRate.hpp and              *)
(* TimestampConversion.hpp: what the build without 128-bit integers does,  *)
(* with words of Width bits that wrap, against exact division, which is    *)
(* what the build with 128-bit integers does.  A step is an iteration of   *)
(* the long division or the code between two divisions.  Width, Billion    *)
(* and BillionBits are 64, 10^9 and 30 in the source.                      *)
(* blockTime (RxSampleQueue.cpp) adds two conversions and their phases: it *)
(* takes both from what convert promises and carries with a division.      *)
(***************************************************************************)
EXTENDS Integers

CONSTANTS
  Width,        \* bits of an unsigned word
  Billion,      \* nanoseconds per second
  BillionBits,  \* iterations of the loop whose first bit is 1U << 29
  Pow,          \* the powers of two
  Offsets,      \* bound: samples of a block read before
  BlockRates    \* bound: timestamp and sample rates of a block

ASSUME TimestampAssumption ==
  /\ Width \in Nat \ {0} /\ Billion \in Nat \ {0} /\ BillionBits \in 1..Width
  /\ Pow \in [0..Width -> Nat \ {0}]
  /\ Pow[0] = 1
  /\ \A i \in 1..Width : Pow[i] = 2 * Pow[i - 1]
  \* "Each product is bounded: remainder < 1e9 and frequency % 1e9 < 1e9"
  /\ Billion < Pow[BillionBits] /\ Billion * Billion < Pow[Width]

ASSUME BlockAssumption ==
  /\ Offsets \subseteq 0..(Pow[Width] - 1)
  /\ \A r \in BlockRates :
       /\ r = [num |-> r.num, den |-> r.den]
       /\ r.num \in 1..(Pow[Width] - 1) /\ r.den \in 1..(Pow[Width] - 1)

VARIABLES
  call,        \* the function called and its arguments
  pc,          \* "idle", "fraction", "phase", "carry", "done"
  value, multiplier, divisor,   \* multiplyDivide's arguments
  bits,        \* bits of the multiplier still to come
  rest,        \* the multiplier below the last bit examined
  quotient, remainder,          \* ProductDivision
  seconds,     \* whole seconds so far
  block,       \* the block whose next sample is asked for, and the sum so far
  result       \* the value returned, or ok = FALSE for overflow_error

vars == <<call, pc, value, multiplier, divisor, bits, rest, quotient, remainder,
          seconds, block, result>>
division == <<value, multiplier, divisor, bits, rest, quotient, remainder>>

Word == Pow[Width]
Maximum == Pow[Width - 1] - 1          \* the largest int64_t
SecondsLimit == Maximum \div Billion
Wrap(x) == x % Word

Words == 0..(Word - 1)
Rates == {r \in [num : Words \ {0}, den : Words \cap {Pow[i] : i \in 0..Width}] :
            r.num >= r.den /\ (r.den = 1 \/ r.num % 2 = 1)}

Returned(n, f) == [ok |-> TRUE, number |-> n, fraction |-> f]
Overflow == [ok |-> FALSE, number |-> 0, fraction |-> 0]
NoCall == [fn |-> "none", input |-> 0, num |-> 1, den |-> 1]
NoBlock == [offset |-> 0, num |-> 1, den |-> 1, time |-> 0, phase |-> 0, past |-> 0]

\* What the exact quotient p / q is, unless it is above the limit.
Exactly(p, q, limit, phase) ==
  IF p \div q > limit THEN Overflow ELSE Returned(p \div q, IF phase THEN p % q ELSE 0)

TypeOK ==
  /\ pc \in {"idle", "fraction", "phase", "carry", "done"}
  /\ {value, multiplier, divisor, quotient, remainder, seconds} \subseteq Words
  /\ bits \in 0..Width /\ rest \in 0..(Pow[bits] - 1)
  /\ result.number \in Words
  /\ block.time \in 0..Maximum /\ {block.offset, block.phase, block.past} \subseteq Words

Clear ==
  /\ value' = 0 /\ multiplier' = 0 /\ divisor' = 1 /\ bits' = 0 /\ rest' = 0
  /\ quotient' = 0 /\ remainder' = 0

Init ==
  /\ call = NoCall /\ pc = "idle"
  /\ value = 0 /\ multiplier = 0 /\ divisor = 1 /\ bits = 0 /\ rest = 0
  /\ quotient = 0 /\ remainder = 0 /\ seconds = 0 /\ result = Overflow
  /\ block = NoBlock

-----------------------------------------------------------------------------
\* multiplyDivide: the quotient and remainder of value * multiplier / divisor,
\* one bit of the multiplier after the other, highest first.
Divide(v, m, d, n) ==
  /\ value' = v /\ multiplier' = m /\ divisor' = d /\ bits' = n /\ rest' = m
  /\ quotient' = 0 /\ remainder' = 0

\* mutated: the sum is formed before it is compared, and may wrap
CarriesLate(r, a) == Wrap(r + a) >= divisor

\* Does r + a reach the divisor?  Compared without forming the sum.
Carries(r, a) == r >= Wrap(divisor - a)

Plus(r, a) == IF Carries(r, a) THEN Wrap(r - Wrap(divisor - a)) ELSE Wrap(r + a)
Carry(r, a) == IF Carries(r, a) THEN 1 ELSE 0

DivideStep ==
  /\ pc \in {"fraction", "phase", "carry"} /\ bits > 0
  /\ LET set == rest >= Pow[bits - 1]
         doubled == Plus(remainder, remainder)
         once == Wrap(2 * quotient + Carry(remainder, remainder))
     IN IF set
        THEN /\ remainder' = Plus(doubled, value)
             /\ quotient' = Wrap(once + Carry(doubled, value))
             /\ rest' = rest - Pow[bits - 1]
        ELSE remainder' = doubled /\ quotient' = once /\ rest' = rest
  /\ bits' = bits - 1
  /\ UNCHANGED <<call, pc, value, multiplier, divisor, seconds, block, result>>

-----------------------------------------------------------------------------
Answer(r) == pc' = "done" /\ result' = r /\ UNCHANGED <<division, seconds>>

\* TimestampRate::convert: whole seconds of whole periods first.
Convert(ticks, rate) ==
  /\ call' = [fn |-> "convert", input |-> ticks, num |-> rate.num, den |-> rate.den]
  /\ LET whole == ticks \div rate.num IN
       IF whole > SecondsLimit \div rate.den
       THEN Answer(Overflow)
       ELSE /\ seconds' = Wrap(whole * rate.den)
            /\ Divide(ticks % rate.num, rate.den, rate.num, Width)
            /\ pc' = "fraction" /\ UNCHANGED result
  /\ UNCHANGED block

\* mutated: the whole seconds are not counted against the limit
SecondsFitAlone == quotient <= SecondsLimit

SecondsFit == quotient <= Wrap(SecondsLimit - seconds)

\* The seconds in the broken period, then the nanoseconds of what is left.
AddFraction ==
  /\ pc = "fraction" /\ bits = 0
  /\ IF SecondsFit
     THEN /\ seconds' = Wrap(seconds + quotient)
          /\ Divide(remainder, Billion, divisor, Width)
          /\ pc' = "phase" /\ UNCHANGED result
     ELSE Answer(Overflow)
  /\ UNCHANGED <<call, block>>

\* mutated: the loop starts one bit too low
FirstBitTooLow == BillionBits - 1
FirstBit == BillionBits

\* ticksToNanoseconds, with its own copy of the loop.
TicksToNanoseconds(ticks, frequency) ==
  /\ call' = [fn |-> "ticks", input |-> ticks, num |-> frequency, den |-> 1]
  /\ LET whole == ticks \div frequency IN
       IF whole > Maximum \div Billion
       THEN Answer(Overflow)
       ELSE /\ seconds' = whole
            /\ Divide(ticks % frequency, Billion, frequency, FirstBit)
            /\ pc' = "phase" /\ UNCHANGED result
  /\ UNCHANGED block

\* The end of both conversions to nanoseconds; convert returns the phase too.
AddNanoseconds ==
  /\ pc = "phase" /\ bits = 0
  /\ LET whole == Wrap(seconds * Billion) IN
       IF quotient > Wrap(Maximum - whole)
       THEN Answer(Overflow)
       ELSE Answer(Returned(whole + quotient,
                            IF call.fn = "convert" THEN remainder ELSE 0))
  /\ UNCHANGED <<call, block>>

\* nanosecondsToTicks splits both factors so that no product wraps.
NanosecondsToTicks(nanoseconds, frequency) ==
  /\ call' = [fn |-> "nanoseconds", input |-> nanoseconds, num |-> frequency, den |-> 1]
  /\ LET sec == nanoseconds \div Billion
         sub == nanoseconds % Billion
         whole == Wrap(sec * frequency)
         part == Wrap(Wrap((frequency \div Billion) * sub)
                        + Wrap((frequency % Billion) * sub) \div Billion)
     IN IF sec > (Word - 1) \div frequency \/ part > Wrap((Word - 1) - whole)
        THEN Answer(Overflow)
        ELSE Answer(Returned(Wrap(whole + part), 0))
  /\ UNCHANGED block

\* pushTicks converts a block's timestamp, and blocks whose time does not fit are
\* never queued; blockTime adds the samples read since, at the sample rate.
BlockTime(ticks, rate, offset, sample) ==
  LET at == Exactly(ticks * rate.den * Billion, rate.num, Maximum, TRUE)
      past == Exactly(offset * sample.den * Billion, sample.num, Maximum, TRUE)
      fits == past.ok /\ at.number <= Maximum - past.number
      carrying == at.fraction # 0 /\ past.fraction # 0
  IN /\ at.ok
     /\ call' = [fn |-> "block", input |-> ticks, num |-> rate.num, den |-> rate.den]
     /\ block' = [offset |-> offset, num |-> sample.num, den |-> sample.den,
                  time |-> IF fits THEN at.number + past.number ELSE 0,
                  phase |-> at.fraction, past |-> past.fraction]
     /\ IF fits /\ carrying
        THEN /\ Divide(sample.num - past.fraction, rate.num, sample.num, Width)
             /\ pc' = "carry" /\ UNCHANGED <<seconds, result>>
        ELSE Answer(IF fits THEN Returned(at.number + past.number, 0) ELSE Overflow)

\* mutated: the threshold is rounded down
MinimumPhaseBelow == quotient

MinimumPhase == Wrap(quotient + (IF remainder # 0 THEN 1 ELSE 0))

\* One more nanosecond when the two phases together reach one.
CarryNanosecond ==
  /\ pc = "carry" /\ bits = 0
  /\ Answer(CASE block.phase < MinimumPhase -> Returned(block.time, 0)
              [] block.phase >= MinimumPhase /\ block.time < Maximum ->
                   Returned(block.time + 1, 0)
              [] OTHER -> Overflow)
  /\ UNCHANGED <<call, block>>

Return ==
  /\ pc = "done"
  /\ pc' = "idle" /\ call' = NoCall /\ seconds' = 0 /\ result' = Overflow
  /\ block' = NoBlock
  /\ Clear

Call ==
  /\ pc = "idle"
  /\ \/ \E t \in Words, r \in Rates : Convert(t, r)
     \/ \E t \in Words, f \in Words \ {0} : TicksToNanoseconds(t, f)
     \/ \E n \in 0..Maximum, f \in Words \ {0} : NanosecondsToTicks(n, f)
     \/ \E t \in Words, r \in BlockRates, k \in Offsets, s \in BlockRates :
          BlockTime(t, r, k, s)

Next ==
  \/ Call
  \/ DivideStep \/ AddFraction \/ AddNanoseconds \/ CarryNanosecond \/ Return

Spec == Init /\ [][Next]_vars

-----------------------------------------------------------------------------
\* The long division is exact although every intermediate is one word: with the
\* last bit it has the quotient and the remainder of the full product
\* (TimestampRate.hpp:33-55, TimestampConversion.hpp:58-86).
DivisionExact ==
  pc \in {"fraction", "phase", "carry"} /\ bits = 0 =>
    quotient * divisor + remainder = value * multiplier /\ remainder < divisor

\* Every conversion returns the exact value truncated, with the exact phase for a
\* rate, and refuses exactly the values its result type cannot hold: the portable
\* build and the 128-bit build agree (TimestampRate.hpp:119-140,
\* TimestampConversion.hpp:28-95, 131-150).
ExactOrRefused ==
  pc = "done" /\ call.fn # "block" =>
    result =
      CASE call.fn = "convert" ->
             Exactly(call.input * call.den * Billion, call.num, Maximum, TRUE)
        [] call.fn = "ticks" -> Exactly(call.input * Billion, call.num, Maximum, FALSE)
        [] call.fn = "nanoseconds" ->
             Exactly(call.input * call.num, Billion, Word - 1, FALSE)

\* The time of a read that starts inside a block is the exact time of its first
\* sample, truncated once: block time and offset lose nothing to their separate
\* truncations, at any two rates, and only a time that does not fit is refused
\* (RxSampleQueue.cpp:93-101, 147-173).
BlockTimeExact ==
  pc = "done" /\ call.fn = "block" =>
    result = Exactly((call.input * call.den * block.num + block.offset * block.den * call.num)
                       * Billion, call.num * block.num, Maximum, FALSE)
=============================================================================
