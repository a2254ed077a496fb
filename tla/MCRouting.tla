----------------------------- MODULE MCRouting -----------------------------
(***************************************************************************)
(* Two providers, up to three channels, two admins and a handful of        *)
(* requests on the tables of a small installation.                         *)
(***************************************************************************)
EXTENDS RouteStore, TLC

x  == Plain("x")
cx == Claude(x)

T(p, c, acc) == [provider |-> p, channel |-> c, account |-> acc,
                 upstream |-> "up"]

\* The orders of handler.go:48-57, without the protocol that is not used.
MCSurfaces == {<<"openai", "anthropic">>, <<"anthropic", "openai">>}

MCRouteOrder == <<cx, x>>
MCRowNames   == {x, cx}
MCNameLists  == {<<>>, <<cx>>}
MCProviderLists == {<<2, 1>>}

MCChains == {<<T(1, 1, 0)>>, <<T(1, 0, 1), T(2, 0, 0)>>,
             <<T(1, 2, 0), T(1, 0, 0)>>, <<T(0, 2, 0), T(2, 3, 0)>>}

Endpoint(p, r) == [provider |-> p, protocol |-> r, enabled |-> TRUE,
                   url |-> TRUE]
Row(w) == [enabled |-> TRUE, window |-> w]

\* A provider with both protocols and a route of an older version, which
\* names no provider; a second one with one endpoint.
Settled ==
    [providers |-> 1 :> TRUE @@ 2 :> TRUE,
     channels  |-> 1 :> Endpoint(1, "openai") @@ 2 :> Endpoint(1, "anthropic")
                   @@ 3 :> Endpoint(2, "anthropic"),
     accounts  |-> 1 :> [provider |-> 1, enabled |-> TRUE],
     models    |-> <<1, x>> :> Row(0) @@ <<2, x>> :> Row(2),
     routes    |-> cx :> <<T(0, 2, 0), T(1, 0, 0), T(1, 1, 1)>>]

\* A fresh installation with one provider.
Fresh ==
    [providers |-> 1 :> TRUE, channels |-> <<>>, accounts |-> <<>>,
     models |-> <<>>, routes |-> <<>>]

\* A name that is served by nothing but a route with a pinned account.
Pinned ==
    [providers |-> 1 :> TRUE, channels |-> 1 :> Endpoint(1, "anthropic"),
     accounts |-> 1 :> [provider |-> 1, enabled |-> TRUE],
     models |-> <<>>, routes |-> x :> <<T(1, 0, 1)>>]

MCDatabases == {Settled, Fresh, Pinned}

Symmetry == Permutations(Admins)
=============================================================================
