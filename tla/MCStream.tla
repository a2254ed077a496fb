------------------------------- MODULE MCStream -------------------------------
EXTENDS StreamRelay

\* One conversation's cost; every field differs, so that none can stand in.
MCUsages == {[input |-> 10, output |-> 4, cacheRead |-> 2, cacheWrite |-> 1]}
=============================================================================
