----------------------------- MODULE DiscoveryMC -----------------------------
EXTENDS Discovery

CONSTANTS k1, k2, k3, s1, s2, s3

\* Three cards; the filters can name one card and the serial of another.
ThreeCards == {k1, k2, k3}
ThreeSerials == [c \in ThreeCards |-> CASE c = k1 -> s1 [] c = k2 -> s2 [] c = k3 -> s3]
=============================================================================
