---------------------------- MODULE RxSessionMC ----------------------------
(* The RX path for TLC: model values and the bounds of each run's cfg. *)
EXTENDS RxSession, TLC

CONSTANTS r1, r2

OneReader  == {r1}
TwoReaders == {r1, r2}

OneTiming  == {0}
TwoTimings == {0, 1}

OneSample  == {1}
OneToThree == {1, 2, 3}
=============================================================================
