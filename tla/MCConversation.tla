---------------------------- MODULE MCConversation ----------------------------
EXTENDS Conversation

\* What conversations cost; every field differs, so that none can stand in.
\* The prompt of the other came from the cache, all of it.
MCUsages == {[input |-> 10, output |-> 4, cacheRead |-> 2, cacheWrite |-> 1],
             [input |-> 3, output |-> 4, cacheRead |-> 2, cacheWrite |-> 1]}
=============================================================================
