--------------------------- MODULE MC_RateLimiter ---------------------------
\* Small instances of RateLimiter for TLC.
EXTENDS RateLimiter

OneEach == [general |-> 1, search |-> 1]
TwoAndOne == [general |-> 2, search |-> 1]
=============================================================================
