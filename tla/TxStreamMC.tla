----------------------------- MODULE TxStreamMC -----------------------------
(* The TX path for TLC: model values and the bounds of each run's cfg. *)
EXTENDS TxStream, TLC

CONSTANTS p1, p2

TwoPollers == {p1, p2}
OnePoller  == {p1}
NoPollers  == {}

\* The pollers run the same code and no property singles one out.
PollerSymmetry == Permutations(TwoPollers)
=============================================================================
