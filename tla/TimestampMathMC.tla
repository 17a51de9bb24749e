--------------------------- MODULE TimestampMathMC ---------------------------
\* Seven-bit words: the square of the scaled billion (10) still fits, every word is
\* an input, and most conversions are near a limit.
EXTENDS TimestampMath

PowersOfTwo == [i \in 0..Width |-> 2 ^ i]

\* Rates whose phases differ, above and below the scaled billion and near the word.
SomeRates == {[num |-> n, den |-> 1] : n \in {3, 10, 64, 126}}
               \cup {[num |-> 7, den |-> 4], [num |-> 127, den |-> 2]}
SomeOffsets == {0, 1, 2, 5, 127}
=============================================================================
