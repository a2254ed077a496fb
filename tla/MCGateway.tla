----------------------------- MODULE MCGateway -----------------------------
(***************************************************************************)
(* Two requests and two accounts.  Snapshot Routed fails over from a       *)
(* rotating provider to a pinned account reached by conversion, and its    *)
(* third candidate lies beyond max_failover_attempts; Stranded, published  *)
(* or replaced at any moment, has a route whose provider lost its          *)
(* accounts; Unrouted resolves nothing.                                    *)
(***************************************************************************)
EXTENDS Gateway, TLC

CONSTANTS r1, r2

Rotating == 1 :> 1 @@ 2 :> 0
Empty == <<>>

MCProviders == {Rotating, Empty}

Candidate(accounts, pin, cross, embeds) ==
    [accounts |-> accounts, pin |-> pin, cross |-> cross, embeds |-> embeds]

Routed ==
    [failover |-> 2, cands |-> <<Candidate(Rotating, 0, FALSE, FALSE),
                                 Candidate(Rotating, 2, TRUE, TRUE),
                                 Candidate(Empty, 0, FALSE, FALSE)>>]
Stranded == [failover |-> 0, cands |-> <<Candidate(Empty, 0, FALSE, FALSE), Candidate(Rotating, 0, FALSE, TRUE)>>]
Unrouted == [failover |-> 3, cands |-> <<>>]

Call(kind, stream, decodable) == [kind |-> kind, stream |-> stream, decodable |-> decodable]

MCRequests == {r1, r2}
ChatSnapshots == {Routed, Stranded}
ChatCalls == {Call("chat", TRUE, TRUE), Call("chat", FALSE, FALSE)}

AllSnapshots == {Routed, Unrouted}
AllCalls == {Call("chat", TRUE, TRUE), Call("embed", FALSE, TRUE), Call("count", FALSE, TRUE)}

Interchangeable == Permutations(MCRequests)
=============================================================================
