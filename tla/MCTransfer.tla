----------------------------- MODULE MCTransfer -----------------------------
(***************************************************************************)
(* Two installations that exchange documents.  They have the same two      *)
(* providers under different ids, or one is empty; accounts share labels   *)
(* and keys; one route pins an account that is gone; one installation has  *)
(* extra headers that are no JSON.                                         *)
(***************************************************************************)
EXTENDS ConfigTransfer, TLC

x  == [base |-> "x", claude |-> FALSE, mark |-> FALSE]
cx == [base |-> "x", claude |-> TRUE, mark |-> FALSE]
xm == [base |-> "x", claude |-> FALSE, mark |-> TRUE]

MCSurfaces == {<<"openai", "anthropic">>, <<"anthropic", "openai">>}

T(p, c, acc) == [provider |-> p, channel |-> c, account |-> acc,
                 upstream |-> "up"]
Provider(name)   == [name |-> name, enabled |-> TRUE]
Account(p, l, k) == [provider |-> p, label |-> l, key |-> k, enabled |-> TRUE]
Channel(p, r)    == [provider |-> p, protocol |-> r, enabled |-> TRUE,
                     url |-> TRUE, headers |-> TRUE]
Row(w)           == [enabled |-> TRUE, window |-> w]
Hash(d, upper)   == [digest |-> d, upper |-> upper]

Home ==
    [providers |-> 1 :> Provider(1) @@ 2 :> Provider(2),
     channels  |-> 1 :> Channel(2, "openai") @@ 2 :> Channel(1, "openai")
                   @@ 3 :> Channel(1, "anthropic"),
     accounts  |-> 1 :> Account(1, "main", "k1") @@ 2 :> Account(1, "main", "k2")
                   @@ 3 :> [Account(2, "", "k1") EXCEPT !.enabled = FALSE]
                   @@ 4 :> [Account(1, "spare", "k1") EXCEPT !.enabled = FALSE]
                   @@ 5 :> Account(1, "main", "k1"),
     models    |-> <<1, x>> :> Row(0) @@ <<2, x>> :> Row(2),
     routes    |-> cx :> <<T(1, 3, 1), T(2, 0, 0), T(2, 1, 3)>>,
     clients   |-> Hash("d1", FALSE) :> TRUE,
     settings  |-> "days" :> "seven" @@ "seeded" :> "yes"]

Away ==
    [providers |-> 1 :> Provider(2) @@ 2 :> Provider(1),
     channels  |-> 1 :> Channel(1, "openai") @@ 2 :> Channel(2, "anthropic"),
     accounts  |-> 1 :> Account(2, "main", "k2"),
     models    |-> <<2, cx>> :> Row(1),
     routes    |-> x :> <<T(2, 0, 0), T(1, 1, 2)>>,
     clients   |-> <<>>,
     settings  |-> "seeded" :> "yes"]

Marred ==
    [Empty EXCEPT
        !.providers = 1 :> Provider(1),
        !.channels  = 1 :> [Channel(1, "openai") EXCEPT !.headers = FALSE],
        !.accounts  = 1 :> Account(1, "main", "k1"),
        !.routes    = x :> <<T(1, 0, 0)>>,
        !.clients   = Hash("d2", FALSE) :> TRUE]

MCDatabases == {Home, Away, Marred, Empty}

Entry(l, k) == [label |-> l, key |-> k, enabled |-> TRUE]
Endpoint(r) == [protocol |-> r, enabled |-> TRUE, url |-> TRUE, headers |-> TRUE]
Named(n)    == [name |-> n, enabled |-> FALSE, window |-> 1]
Unit(name, accounts, channels, models) ==
    [name |-> name, enabled |-> TRUE, accounts |-> accounts,
     channels |-> channels, models |-> models]
Target(name, r, l) == [provider |-> name, protocol |-> r, label |-> l,
                       upstream |-> "up"]

\* A rotated key, another one moved to a new label, an account without a key
\* and one without a label, as an edited backup has them.  Mixed confuses them.
Rotated == [NoDocument EXCEPT !.providers =
    <<Unit(1, <<Entry("main", "k3"), Entry("spare", "k2"), Entry("", "k1"),
                Entry("new", "")>>,
           <<Endpoint("anthropic")>>, <<Named(x)>>)>>]
Mixed == [NoDocument EXCEPT !.providers =
    <<Unit(1, <<Entry("main", ""), Entry("main", "k3"), Entry("spare", "k3"),
                Entry("main", "")>>, <<>>, <<>>)>>]

\* Routes alone: a pin that finds no channel, a provider nobody knows, a
\* reserved name; and the hashes of two client keys in capitals, whose twins in
\* lower case are at Home and at Marred.
RoutesOnly == [NoDocument EXCEPT
    !.routes = <<[name |-> x, targets |-> <<Target(2, "anthropic", "main"),
                                            Target(2, "", "main")>>],
                 [name |-> cx, targets |-> <<Target(3, "openai", NoLabel)>>],
                 [name |-> xm, targets |-> <<Target(1, "", NoLabel)>>]>>,
    !.clients = <<[hash |-> Hash("d1", TRUE), enabled |-> TRUE],
                  [hash |-> Hash("d2", TRUE), enabled |-> TRUE]>>]

\* A model twice, and a setting of the wrong kind.
Twice == [NoDocument EXCEPT !.providers =
    <<Unit(2, <<Entry("main", "k1")>>, <<>>, <<Named(cx), Named(cx)>>)>>]
Wrong == [NoDocument EXCEPT !.settings = "days" :> "many" @@ "seeded" :> "no"]

MCHandmade == {Rotated, Mixed, RoutesOnly, Twice, Wrong}

MCSelections == {AllSections, {"model_routes"}}

Symmetry == Permutations(Sites)
=============================================================================
