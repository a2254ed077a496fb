------------------------------ MODULE Routing ------------------------------
(***************************************************************************)
(* What the routing tables mean: buildSnapshot and Resolve of              *)
(* engine/snapshot.go, and the listing of GET /v1/models, as operators on  *)
(* the current tables.  Each table is a function from the keys of the      *)
(* rows it holds.                                                          *)
(*                                                                         *)
(* A list of candidates is a set: the position of a candidate is its       *)
(* place ("at") and, within one place, the id of its channel, which is     *)
(* the order the code sorts by, and no channel appears twice in a place.   *)
(* A name is its base with the two decorations the code knows: the prefix  *)
(* "claude-" and the suffix "[1m]".                                        *)
(***************************************************************************)
EXTENDS Naturals, Sequences, FiniteSetsExt

CONSTANTS ProviderIds, ChannelIds, AccountIds,  \* the row ids in use
          Protocols,    \* the protocols of channels
          Upstreams,    \* the upstream models of route targets
          Bases,        \* the names without decorations, and without
                        \* "claude" or "anthropic" in them
          Surfaces      \* the protocol preferences of the client surfaces

ASSUME IdsArePositive ==
    ProviderIds \cup ChannelIds \cup AccountIds \subseteq Nat \ {0}

ASSUME SurfacesArePreferences == Surfaces \subseteq Seq(Protocols)

VARIABLES providers, channels, accounts, models, routes

tables == <<providers, channels, accounts, models, routes>>

-----------------------------------------------------------------------------
(* Names *)

Name == [base : Bases, claude : BOOLEAN, mark : BOOLEAN]

Plain(b)   == [base |-> b, claude |-> FALSE, mark |-> FALSE]
Mark(n)    == [n EXCEPT !.mark = TRUE]
Unmark(n)  == [n EXCEPT !.mark = FALSE]
Claude(n)  == [n EXCEPT !.claude = TRUE]
Bare(n)    == [n EXCEPT !.claude = FALSE]

-----------------------------------------------------------------------------
(* Rows: 0 is the absent reference of a route target, and window 0 an      *)
(* unknown context window, 1 a known one below a million, 2 one above.     *)

Target == [provider : ProviderIds \cup {0}, channel : ChannelIds \cup {0},
           account : AccountIds \cup {0}, upstream : Upstreams]

Channel == [provider : ProviderIds, protocol : Protocols,
            enabled : BOOLEAN, url : BOOLEAN]

Account == [provider : ProviderIds, enabled : BOOLEAN]

Model == [enabled : BOOLEAN, window : 0..2]

TablesTyped(ps, cs, as, ms, rs) ==
    /\ DOMAIN ps \subseteq ProviderIds
    /\ \A p \in DOMAIN ps : ps[p] \in BOOLEAN
    /\ DOMAIN cs \subseteq ChannelIds
    /\ \A c \in DOMAIN cs : cs[c] \in Channel
    /\ DOMAIN as \subseteq AccountIds
    /\ \A a \in DOMAIN as : as[a] \in Account
    /\ DOMAIN ms \subseteq ProviderIds \X Name
    /\ \A k \in DOMAIN ms : ms[k] \in Model
    /\ DOMAIN rs \subseteq Name
    /\ \A n \in DOMAIN rs : rs[n] \in Seq(Target) /\ rs[n] # <<>>

TablesOK == TablesTyped(providers, channels, accounts, models, routes)

-----------------------------------------------------------------------------
(* What is live *)

LiveProviders == {p \in DOMAIN providers : providers[p]}

LiveChannels ==
    {c \in DOMAIN channels : channels[c].enabled
                             /\ channels[c].provider \in LiveProviders}

LiveOf(p) == {c \in LiveChannels : channels[c].provider = p}

\* The accounts of a provider in the snapshot: none when it is disabled.
Pool(p) == {a \in DOMAIN accounts : /\ accounts[a].provider = p
                                    /\ accounts[a].enabled
                                    /\ p \in LiveProviders}

\* Channels of live providers that have an enabled row for the name.
Serving(n) ==
    {c \in LiveChannels : LET k == <<channels[c].provider, n>>
                          IN  k \in DOMAIN models /\ models[k].enabled}

-----------------------------------------------------------------------------
(* Resolving a name *)

\* Mutant: only the most preferred protocol is looked for.
OnlyFavourite(cs, prefer) == {c \in cs : channels[c].protocol = Head(prefer)}

\* preferProtocols: the channels of the first preferred protocol that has
\* any, and all of them when none has.
PreferProtocols(cs, prefer) ==
    LET hits == {i \in DOMAIN prefer :
                    \E c \in cs : channels[c].protocol = prefer[i]}
    IN  IF hits = {} THEN cs
        ELSE {c \in cs : channels[c].protocol = prefer[Min(hits)]}

\* orderProtocols: the place of a channel among the candidates of a row.
Rank(c, prefer) ==
    LET at == {i \in DOMAIN prefer : prefer[i] = channels[c].protocol}
    IN  IF at = {} THEN Len(prefer) + 1 ELSE Min(at)

\* Mutant: a pinned account is taken at its word.
SegmentOfAnyAccount(tgt, prefer) ==
    IF tgt.channel # 0 THEN {tgt.channel} \cap LiveChannels
    ELSE PreferProtocols(LiveOf(tgt.provider), prefer)

\* The channels one route target expands to.
Segment(tgt, prefer) ==
    LET cs == IF tgt.channel # 0 THEN {tgt.channel} \cap LiveChannels
              ELSE PreferProtocols(LiveOf(tgt.provider), prefer)
    IN  {c \in cs : tgt.account = 0
                    \/ tgt.account \in Pool(channels[c].provider)}

RouteChain(chain, prefer) ==
    UNION {{[at |-> i, channel |-> c, account |-> chain[i].account] :
                c \in Segment(chain[i], prefer)} : i \in DOMAIN chain}

RowChain(n, prefer) ==
    {[at |-> Rank(c, prefer), channel |-> c, account |-> 0] : c \in Serving(n)}

\* A route wins over the rows of its name while one of its targets is live.
Direct(n, prefer) ==
    LET chain == IF n \in DOMAIN routes THEN RouteChain(routes[n], prefer)
                 ELSE {}
    IN  IF chain # {} THEN chain ELSE RowChain(n, prefer)

\* The name a request is served under, or nothing: the requested one without
\* its mark, then the one without "claude-".
Matched(requested, prefer) ==
    LET n == Unmark(requested)
    IN  IF Direct(n, prefer) # {} THEN {n}
        ELSE {m \in {Bare(n)} : n.claude /\ Direct(m, prefer) # {}}

Resolve(requested, prefer) ==
    UNION {Direct(n, prefer) : n \in Matched(requested, prefer)}

-----------------------------------------------------------------------------
(* The listing of GET /v1/models *)

\* Rows of a name on providers with a live channel.
ListedRows(n) ==
    {p \in ProviderIds : /\ <<p, n>> \in DOMAIN models
                         /\ models[<<p, n>>].enabled
                         /\ LiveOf(p) # {}}

Listed == {k[2] : k \in {j \in DOMAIN models : j[1] \in ListedRows(j[2])}}
          \cup DOMAIN routes

\* The rows of a name merge in provider order; a later one fills a blank.
Window(n) ==
    LET known == {p \in ListedRows(n) : models[<<p, n>>].window # 0}
    IN  IF known = {} THEN 0 ELSE models[<<Min(known), n>>].window

AnthropicServed(n) ==
    LET expand(tgt) == IF tgt.channel # 0 THEN {tgt.channel} \cap LiveChannels
                       ELSE LiveOf(tgt.provider)
        routed == IF n \in DOMAIN routes
                  THEN UNION {expand(routes[n][i]) : i \in DOMAIN routes[n]}
                  ELSE {}
    IN  \E c \in Serving(n) \cup routed : channels[c].protocol = "anthropic"

ContextVariants ==
    LET base == Listed
    IN  {Mark(n) : n \in {m \in base : /\ Window(m) = 2
                                       /\ AnthropicServed(m)
                                       /\ ~m.mark}} \ base

\* Mutant: a mirror is listed although its name is taken.
MirrorsOfAll ==
    {Claude(n) : n \in {m \in Listed \cup ContextVariants :
                            AnthropicServed(Unmark(m)) /\ ~m.claude}}

DiscoveryVariants ==
    LET base == Listed \cup ContextVariants
    IN  {Claude(n) : n \in {m \in base : /\ AnthropicServed(Unmark(m))
                                         /\ ~m.claude}} \ base

\* The listing Claude Code sees: each name only in its discoverable form.
AnthropicListing ==
    LET variants    == ContextVariants
        mirrors     == DiscoveryVariants
        marked(n)   == Mark(n) \in variants /\ ~n.mark
        mirrored(n) == ~n.claude /\ Claude(n) \in mirrors
    IN       {n \in Listed : ~marked(n) /\ ~mirrored(n)}
        \cup {n \in variants : ~mirrored(n)}
        \cup {n \in mirrors : n.mark \/ ~marked(Bare(n))}

-----------------------------------------------------------------------------
(* What the tables promise, on every surface *)

\* Whatever rows the routes still name, a candidate is a live channel of a
\* live provider, and the candidate of a target that pins an account has that
\* account, enabled and of the same provider ("never silently rotate onto
\* accounts the admin excluded", snapshot.go:235-236).
PinsAreHonoured ==
    \A n \in Name, prefer \in Surfaces :
        \A m \in Matched(n, prefer) : \A k \in Resolve(n, prefer) :
            /\ k.channel \in LiveChannels
            /\ k.account # 0 =>
                  k.account \in Pool(channels[k.channel].provider)
            /\ (m \in DOMAIN routes /\ RouteChain(routes[m], prefer) # {}) =>
                  k.account = routes[m][k.at].account

\* A preference orders and filters candidates, it never takes the last one:
\* a name is served under the same name on every surface.
SurfacesAgree ==
    \A n \in Name : \A p \in Surfaces, q \in Surfaces :
        Matched(n, p) = Matched(n, q)

\* A name the code lists but cannot serve, or serves as another: a row whose
\* own name ends in the mark, a route without a live target, and a name whose
\* marked mirror is the mark of a listed claude- name.
Misleading(n) ==
    \/ n.mark
    \/ \A prefer \in Surfaces : Direct(n, prefer) = {}
    \/ Window(n) = 2 /\ Claude(n) \in Listed

\* The Anthropic listing leads to every model: each name has a listed form
\* that is served under that name, and each listed form is served, whatever
\* decorations and collisions there are (handler.go:609-618).  A route whose
\* targets are all dead is listed all the same, and mirrored as well when one
\* of them still names a live channel but pins an account that is gone:
\* anthropicServed (snapshot.go:170-191) does not look at the pins.
ListingLeadsHome ==
    LET listing == AnthropicListing IN
    \A prefer \in Surfaces :
        /\ \A n \in Listed : ~Misleading(n) =>
              \E form \in listing : Matched(form, prefer) = {n}
        /\ \A form \in listing :
              Matched(form, prefer) = {} =>
                  \E n \in Listed : Misleading(n) /\ form \in {n, Claude(n)}

\* A channel has an address as long as it is a candidate.  (Creating one
\* requires it, and an update says "Merge onto the current row so partial
\* updates are possible", channels_handlers.go:85.)
CandidatesHaveURL ==
    \A n \in Name, prefer \in Surfaces :
        \A k \in Resolve(n, prefer) : channels[k.channel].url
=============================================================================
