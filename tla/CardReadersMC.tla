---------------------------- MODULE CardReadersMC ----------------------------
EXTENDS CardReaders, TLC

CONSTANTS c1, c2, o1, o2

\* Two threads that use setters, two that read, two rates.
TwoCallers == {c1, c2}
TwoObservers == {o1, o2}
\* The threads of a kind are interchangeable.
ThreadSymmetry == Permutations(TwoCallers) \cup Permutations(TwoObservers)
TwoRates == {1, 2}
=============================================================================
