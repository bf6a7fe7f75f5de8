--------------------------- MODULE MCNestMetadata ---------------------------
EXTENDS NestMetadata, TLC

CONSTANTS b1, b2, b3, p1, p2

\* The second Proxy knows a Burrow more than the first.
BothConfigured == p1 :> {b1, b2} @@ p2 :> {b1, b2, b3}
OneConfigured == p1 :> {b1, b2}
=============================================================================
