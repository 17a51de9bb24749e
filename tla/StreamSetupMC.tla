---------------------------- MODULE StreamSetupMC ----------------------------
EXTENDS StreamSetup, TLC

CONSTANTS t1, t2, t3

\* Both directions open and a token that belongs to no open stream.
ThreeTokens == {t1, t2, t3}
TwoPayloads == {1018, 2042}
\* No property singles out an address.
TokenSymmetry == Permutations(ThreeTokens)
=============================================================================
