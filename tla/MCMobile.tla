------------------------------- MODULE MCMobile -------------------------------
\* Constant values for MobileRpc.
EXTENDS MobileRpc

TwoStreams == 1..2
TwoSockets == 1..2

\* The user opens a page, and then the same one or another.
SameOrOther == <<{"P1"}, {"P1", "P2"}>>
=============================================================================
