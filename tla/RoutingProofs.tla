--------------------------- MODULE RoutingProofs ---------------------------
(***************************************************************************)
(* What the routing tables promise, proved for every database, any number  *)
(* of admins and every interleaving of their handlers.  Two promises of    *)
(* Resolve need no invariant: routeChain checks each reference of a route  *)
(* against the live rows when it is used.  The listing needs the tables to *)
(* have their types.  That the references hold is an invariant of the      *)
(* handlers, with what each of them has established in the middle of it.   *)
(***************************************************************************)
EXTENDS RouteStore, SequenceTheorems, FiniteSetTheorems, WellFoundedInduction, TLAPS

\* Every nonempty set of natural numbers has a least element.
LEMMA LeastOf ==
    ASSUME NEW S \in SUBSET Nat, S # {}
    PROVE  \E i \in S : \A j \in S : i =< j
<1>1. PICK i \in S : \A j \in S : <<j, i>> \notin OpToRel(<, Nat)
    BY NatLessThanWellFounded, WFMin, Zenon
<1>2. \A j \in S : ~(j < i)
    BY <1>1 DEF OpToRel
<1>3. QED
    BY <1>2

\* A preference takes some of the channels, and not none of some.
LEMMA PreferKeepsOne ==
    ASSUME NEW cs, NEW prefer \in Seq(Protocols)
    PROVE  /\ PreferProtocols(cs, prefer) \subseteq cs
           /\ cs # {} => PreferProtocols(cs, prefer) # {}
<1> DEFINE hits == {i \in DOMAIN prefer :
                       \E c \in cs : channels[c].protocol = prefer[i]}
<1>1. CASE hits = {}
    BY <1>1 DEF PreferProtocols
<1>2. CASE hits # {}
  <2>1. hits \in SUBSET Nat
      OBVIOUS
  <2>2. \E i \in hits : \A j \in hits : i =< j
      BY <1>2, <2>1, LeastOf
  <2>3. Min(hits) \in hits
      BY <2>2 DEF Min
  <2>4. PreferProtocols(cs, prefer)
        = {c \in cs : channels[c].protocol = prefer[Min(hits)]}
      BY <1>2 DEF PreferProtocols
  <2>5. QED
      BY <2>3, <2>4
<1>3. QED
    BY <1>1, <1>2

\* Every channel of a segment is live and has the account its target pins.
LEMMA SegmentIsLive ==
    ASSUME NEW tgt, NEW prefer \in Seq(Protocols),
           NEW c \in Segment(tgt, prefer)
    PROVE  /\ c \in LiveChannels
           /\ tgt.account # 0 => tgt.account \in Pool(channels[c].provider)
<1>1. CASE tgt.channel # 0
    BY <1>1 DEF Segment
<1>2. CASE tgt.channel = 0
  <2>1. c \in PreferProtocols(LiveOf(tgt.provider), prefer)
      BY <1>2 DEF Segment
  <2>2. c \in LiveOf(tgt.provider)
      BY <2>1, PreferKeepsOne
  <2>3. QED
      BY <2>2 DEF Segment, LiveOf
<1>3. QED
    BY <1>1, <1>2

\* Whether a target has a segment does not depend on the preference: the
\* account it pins is live for all channels of the provider or for none.
LEMMA SegmentOnEverySurface ==
    ASSUME NEW tgt, NEW p \in Seq(Protocols), NEW q \in Seq(Protocols),
           Segment(tgt, p) # {}
    PROVE  Segment(tgt, q) # {}
<1>1. CASE tgt.channel # 0
    BY <1>1 DEF Segment
<1>2. CASE tgt.channel = 0
  <2>1. PICK c \in Segment(tgt, p) : TRUE
      OBVIOUS
  <2>2. c \in PreferProtocols(LiveOf(tgt.provider), p)
        /\ (tgt.account = 0 \/ tgt.account \in Pool(channels[c].provider))
      BY <1>2, <2>1 DEF Segment
  <2>3. c \in LiveOf(tgt.provider)
      BY <2>2, PreferKeepsOne
  <2>4. PICK d \in PreferProtocols(LiveOf(tgt.provider), q) : TRUE
      BY <2>3, PreferKeepsOne
  <2>5. d \in LiveOf(tgt.provider)
      BY <2>4, PreferKeepsOne
  <2>6. channels[d].provider = channels[c].provider
      BY <2>3, <2>5 DEF LiveOf
  <2>7. d \in Segment(tgt, q)
      BY <1>2, <2>2, <2>4, <2>6 DEF Segment
  <2>8. QED
      BY <2>7
<1>3. QED
    BY <1>1, <1>2

\* A route that is served on one surface is served on every surface.
LEMMA ChainOnEverySurface ==
    ASSUME NEW chain, NEW p \in Seq(Protocols), NEW q \in Seq(Protocols),
           RouteChain(chain, p) # {}
    PROVE  RouteChain(chain, q) # {}
<1>1. PICK i \in DOMAIN chain : Segment(chain[i], p) # {}
    BY DEF RouteChain
<1>2. PICK c \in Segment(chain[i], q) : TRUE
    BY <1>1, SegmentOnEverySurface
<1>3. [at |-> i, channel |-> c, account |-> chain[i].account]
      \in RouteChain(chain, q)
    BY <1>2 DEF RouteChain
<1>4. QED
    BY <1>3

\* So is a name, through its route or its rows.
LEMMA DirectOnEverySurface ==
    ASSUME NEW n, NEW p \in Seq(Protocols), NEW q \in Seq(Protocols)
    PROVE  Direct(n, p) = {} <=> Direct(n, q) = {}
<1>1. RowChain(n, p) = {} <=> RowChain(n, q) = {}
    BY DEF RowChain
<1>2. n \in DOMAIN routes =>
        (RouteChain(routes[n], p) = {} <=> RouteChain(routes[n], q) = {})
    BY ChainOnEverySurface
<1>3. QED
    BY <1>1, <1>2 DEF Direct

\* What a name resolves to by itself: live channels, with the account that
\* the target at that place pins.
LEMMA DirectIsLive ==
    ASSUME NEW n, NEW prefer \in Seq(Protocols), NEW k \in Direct(n, prefer)
    PROVE  /\ k.channel \in LiveChannels
           /\ k.account # 0 => k.account \in Pool(channels[k.channel].provider)
           /\ (n \in DOMAIN routes /\ RouteChain(routes[n], prefer) # {}) =>
                 k.account = routes[n][k.at].account
<1>1. CASE n \in DOMAIN routes /\ RouteChain(routes[n], prefer) # {}
  <2>1. k \in RouteChain(routes[n], prefer)
      BY <1>1 DEF Direct
  <2>2. PICK i \in DOMAIN routes[n] : \E c \in Segment(routes[n][i], prefer) :
            k = [at |-> i, channel |-> c, account |-> routes[n][i].account]
      BY <2>1 DEF RouteChain
  <2>3. PICK c \in Segment(routes[n][i], prefer) :
            k = [at |-> i, channel |-> c, account |-> routes[n][i].account]
      BY <2>2
  <2>4. c \in LiveChannels
        /\ (routes[n][i].account # 0 =>
              routes[n][i].account \in Pool(channels[c].provider))
      BY SegmentIsLive
  <2>5. k.at = i /\ k.channel = c /\ k.account = routes[n][i].account
      BY <2>3
  <2>6. QED
      BY <2>4, <2>5
<1>2. CASE ~(n \in DOMAIN routes /\ RouteChain(routes[n], prefer) # {})
  <2>1. k \in RowChain(n, prefer)
      BY <1>2 DEF Direct
  <2>2. PICK c \in Serving(n) :
            k = [at |-> Rank(c, prefer), channel |-> c, account |-> 0]
      BY <2>1 DEF RowChain
  <2>3. QED
      BY <1>2, <2>2 DEF Serving
<1>3. QED
    BY <1>1, <1>2

\* In every state, whatever the routes still name, the candidates of every
\* name are live and have exactly the account their target pins.
THEOREM PinsHonouredAlways == Spec => []PinsAreHonoured
<1>1. PinsAreHonoured
  <2>1. SUFFICES ASSUME NEW n \in Name, NEW prefer \in Surfaces,
                        NEW m \in Matched(n, prefer),
                        NEW k \in Resolve(n, prefer)
                 PROVE  /\ k.channel \in LiveChannels
                        /\ k.account # 0 =>
                              k.account \in Pool(channels[k.channel].provider)
                        /\ (m \in DOMAIN routes
                            /\ RouteChain(routes[m], prefer) # {}) =>
                              k.account = routes[m][k.at].account
      BY DEF PinsAreHonoured
  <2>2. prefer \in Seq(Protocols)
      BY SurfacesArePreferences
  <2>3. \A l \in Matched(n, prefer) : l = m
      BY DEF Matched
  <2>4. k \in Direct(m, prefer)
      BY <2>3 DEF Resolve
  <2>5. QED
      BY <2>2, <2>4, DirectIsLive
<1>2. QED
    BY <1>1, PTL

\* In every state every client surface serves a name under the same name, or
\* none does: a preference never makes a model unroutable.
THEOREM SurfacesAgreeAlways == Spec => []SurfacesAgree
<1>1. SurfacesAgree
  <2>1. SUFFICES ASSUME NEW n \in Name, NEW p \in Surfaces, NEW q \in Surfaces
                 PROVE  Matched(n, p) = Matched(n, q)
      BY DEF SurfacesAgree
  <2>2. p \in Seq(Protocols) /\ q \in Seq(Protocols)
      BY SurfacesArePreferences
  <2>3. Direct(Unmark(n), p) = {} <=> Direct(Unmark(n), q) = {}
      BY <2>2, DirectOnEverySurface
  <2>4. Direct(Bare(Unmark(n)), p) = {} <=> Direct(Bare(Unmark(n)), q) = {}
      BY <2>2, DirectOnEverySurface
  <2>5. QED
      BY <2>3, <2>4 DEF Matched
<1>2. QED
    BY <1>1, PTL

-----------------------------------------------------------------------------
(* Sequences and numbers *)

\* The equations of the function in Keep, up to a length.
IsKept(g, seq, S, n) ==
    \A i \in 0..n : g[i] = IF i = 0 THEN <<>>
                          ELSE IF i \in S THEN Append(g[i - 1], seq[i]) ELSE g[i - 1]

\* The recursive function of Keep exists.
LEMMA KeepExists ==
    ASSUME NEW T, NEW seq \in Seq(T), NEW S, NEW n \in 0..Len(seq)
    PROVE  \E g \in [0..n -> Seq(T)] : IsKept(g, seq, S, n)
<1> DEFINE Rec(g, m) == IsKept(g, seq, S, m)
           bad == {m \in 0..Len(seq) : ~ \E g \in [0..m -> Seq(T)] : Rec(g, m)}
<1>1. bad \in SUBSET Nat
    OBVIOUS
<1>2. SUFFICES ASSUME bad # {} PROVE FALSE
    OBVIOUS
<1>3. PICK m \in bad : \A j \in bad : m =< j
  <2> HIDE DEF bad
  <2>1. QED
      BY <1>1, <1>2, LeastOf
<1>4. m # 0
  <2> DEFINE g == [i \in 0..0 |-> <<>>]
  <2>1. g \in [0..0 -> Seq(T)] /\ Rec(g, 0)
    <3>1. \A i \in 0..0 : i = 0
        OBVIOUS
    <3>2. QED
        BY <3>1 DEF IsKept
  <2>2. QED
      BY <2>1
<1>5. /\ m \in Nat /\ m - 1 \in Nat /\ m - 1 \in 0..Len(seq) /\ m \in 1..Len(seq)
      /\ m - 1 \notin bad
  <2>1. m \in 0..Len(seq)
      BY <1>3
  <2>2. m \in Nat /\ m - 1 \in Nat /\ m - 1 \in 0..Len(seq) /\ m \in 1..Len(seq)
      BY <1>4, <2>1
  <2> HIDE DEF bad
  <2>3. QED
      BY <1>3, <2>2
<1>6. PICK g \in [0..(m - 1) -> Seq(T)] : Rec(g, m - 1)
    BY <1>5
<1> DEFINE last == IF m \in S THEN Append(g[m - 1], seq[m]) ELSE g[m - 1]
           h == [i \in 0..m |-> IF i = m THEN last ELSE g[i]]
<1>7. ASSUME NEW i \in 0..m
      PROVE  h[i] = IF i = 0 THEN <<>> ELSE IF i \in S THEN Append(h[i - 1], seq[i]) ELSE h[i - 1]
  <2>1. CASE i = m
    <3>1. h[i] = last /\ i # 0 /\ m - 1 \in 0..m /\ m - 1 # m
        BY <1>4, <1>5, <2>1
    <3>2. h[m - 1] = g[m - 1]
        BY <3>1
    <3>3. QED
        BY <2>1, <3>1, <3>2
  <2>2. CASE i # m
    <3>1. i \in 0..(m - 1) /\ h[i] = g[i]
        BY <1>5, <2>2
    <3>2. g[i] = IF i = 0 THEN <<>> ELSE IF i \in S THEN Append(g[i - 1], seq[i]) ELSE g[i - 1]
        BY <1>6, <3>1 DEF IsKept
    <3>3. i # 0 => h[i - 1] = g[i - 1]
        BY <1>5, <3>1
    <3>4. QED
        BY <3>1, <3>2, <3>3
  <2>3. QED
      BY <2>1, <2>2
<1>8. last \in Seq(T)
  <2>1. g[m - 1] \in Seq(T) /\ seq[m] \in T
      BY <1>5
  <2>2. QED
      BY <2>1
<1>9. h \in [0..m -> Seq(T)]
  <2> HIDE DEF last
  <2>1. \A i \in 0..m : i # m => i \in 0..(m - 1)
      BY <1>5
  <2>2. QED
      BY <1>8, <2>1
<1>10. Rec(h, m)
  <2> HIDE DEF h
  <2>1. QED
      BY <1>7 DEF IsKept
<1>11. QED
    BY <1>3, <1>9, <1>10

\* What Keep returns: elements at the positions of the set, all of them, each
\* as often as before.
LEMMA KeepFacts ==
    ASSUME NEW T, NEW seq \in Seq(T), NEW S
    PROVE  /\ Keep(seq, S) \in Seq(T)
           /\ \A k \in 1..Len(Keep(seq, S)) : \E j \in S : j \in DOMAIN seq /\ Keep(seq, S)[k] = seq[j]
           /\ \A j \in S : j \in DOMAIN seq => \E k \in 1..Len(Keep(seq, S)) : Keep(seq, S)[k] = seq[j]
           /\ IsInjective(seq) => IsInjective(Keep(seq, S))
<1> DEFINE n == Len(seq)
           f == CHOOSE g : g = [i \in 0..n |-> IF i = 0 THEN <<>>
                                   ELSE IF i \in S THEN Append(g[i - 1], seq[i]) ELSE g[i - 1]]
<1>1. n \in Nat /\ DOMAIN seq = 1..n
    OBVIOUS
<1>2. Keep(seq, S) = f[n]
    BY Zenon DEF Keep
<1>3. f = [i \in 0..n |-> IF i = 0 THEN <<>>
                          ELSE IF i \in S THEN Append(f[i - 1], seq[i]) ELSE f[i - 1]]
  <2>1. n \in 0..Len(seq)
      BY <1>1
  <2>2. PICK g \in [0..n -> Seq(T)] : IsKept(g, seq, S, n)
    <3> HIDE DEF n
    <3>1. QED
        BY <2>1, KeepExists
  <2> HIDE DEF n
  <2>3. g = [i \in 0..n |-> IF i = 0 THEN <<>>
                            ELSE IF i \in S THEN Append(g[i - 1], seq[i]) ELSE g[i - 1]]
      BY <2>2 DEF IsKept
  <2>4. QED
      BY <2>3, Zenon
<1> HIDE DEF f
<1> DEFINE Good(i) ==
        /\ f[i] \in Seq(T)
        /\ \A k \in 1..Len(f[i]) : \E j \in S : j \in 1..i /\ f[i][k] = seq[j]
        /\ \A j \in S : j \in 1..i => \E k \in 1..Len(f[i]) : f[i][k] = seq[j]
        /\ IsInjective(seq) => IsInjective(f[i])
<1>4. Good(0)
  <2>1. f[0] = <<>>
      BY <1>1, <1>3
  <2>2. QED
      BY <2>1 DEF IsInjective
<1>5. ASSUME NEW i \in 0..n, i # 0, Good(i - 1) PROVE Good(i)
  <2> DEFINE s == f[i - 1]
  <2>1. /\ s \in Seq(T)
        /\ \A k \in 1..Len(s) : \E j \in S : j \in 1..(i - 1) /\ s[k] = seq[j]
        /\ \A j \in S : j \in 1..(i - 1) => \E k \in 1..Len(s) : s[k] = seq[j]
        /\ IsInjective(seq) => IsInjective(s)
      BY <1>5
  <2>2. i \in Nat /\ i \in 1..n /\ seq[i] \in T /\ Len(s) \in Nat
      BY <1>1, <1>5, <2>1
  <2>3. f[i] = IF i \in S THEN Append(s, seq[i]) ELSE s
      BY <1>3, <1>5
  <2> HIDE DEF s, n
  <2>4. CASE i \notin S
    <3>1. f[i] = s
        BY <2>3, <2>4
    <3>2. \A j \in S : j \in 1..i <=> j \in 1..(i - 1)
        BY <2>2, <2>4
    <3>3. QED
        BY <2>1, <3>1, <3>2
  <2>5. CASE i \in S
    <3> DEFINE t == Append(s, seq[i])
    <3>1. f[i] = t
        BY <2>3, <2>5
    <3>2. /\ t \in Seq(T) /\ Len(t) = Len(s) + 1 /\ t[Len(s) + 1] = seq[i]
          /\ \A k \in 1..Len(s) : t[k] = s[k]
        BY <2>1, <2>2
    <3> HIDE DEF t
    <3>3. ASSUME NEW k \in 1..Len(t) PROVE \E j \in S : j \in 1..i /\ t[k] = seq[j]
      <4>1. CASE k = Len(s) + 1
          BY <2>2, <2>5, <3>2, <4>1
      <4>2. CASE k # Len(s) + 1
        <5>1. k \in 1..Len(s) /\ t[k] = s[k]
            BY <2>2, <3>2, <4>2
        <5>2. PICK j \in S : j \in 1..(i - 1) /\ s[k] = seq[j]
            BY <2>1, <5>1
        <5>3. j \in 1..i
            BY <2>2, <5>2
        <5>4. QED
            BY <5>1, <5>2, <5>3
      <4>3. QED
          BY <4>1, <4>2
    <3>4. ASSUME NEW j \in S, j \in 1..i PROVE \E k \in 1..Len(t) : t[k] = seq[j]
      <4>1. CASE j = i
        <5>1. Len(s) + 1 \in 1..Len(t)
            BY <2>2, <3>2
        <5>2. QED
            BY <3>2, <4>1, <5>1
      <4>2. CASE j # i
        <5>1. j \in 1..(i - 1)
            BY <2>2, <3>4, <4>2
        <5>2. PICK k \in 1..Len(s) : s[k] = seq[j]
            BY <2>1, <5>1
        <5>3. k \in 1..Len(t) /\ t[k] = s[k]
            BY <2>2, <3>2
        <5>4. QED
            BY <5>2, <5>3
      <4>3. QED
          BY <4>1, <4>2
    <3>5. ASSUME IsInjective(seq) PROVE IsInjective(t)
      <4>1. \A k \in 1..Len(s) : s[k] # seq[i]
        <5>1. SUFFICES ASSUME NEW k \in 1..Len(s), s[k] = seq[i] PROVE FALSE
            OBVIOUS
        <5>2. PICK j \in S : j \in 1..(i - 1) /\ s[k] = seq[j]
            BY <2>1
        <5>3. j \in 1..n /\ j # i
            BY <1>1, <2>2, <5>2
        <5>4. QED
            BY <1>1, <2>2, <3>5, <5>1, <5>2, <5>3 DEF IsInjective
      <4>2. \A k, l \in 1..Len(s) : s[k] = s[l] => k = l
          BY <2>1, <3>5 DEF IsInjective
      <4>3. \A k \in 1..Len(t) : k = Len(s) + 1 \/ k \in 1..Len(s)
          BY <2>2, <3>2
      <4>4. \A k, l \in 1..Len(t) : t[k] = t[l] => k = l
          BY <3>2, <4>1, <4>2, <4>3
      <4>5. DOMAIN t = 1..Len(t)
          BY <3>2
      <4>6. QED
          BY <4>4, <4>5 DEF IsInjective
    <3>6. QED
        BY <3>1, <3>2, <3>3, <3>4, <3>5
  <2>6. QED
      BY <2>4, <2>5
<1>6. \A i \in 0..n : Good(i)
  <2> DEFINE bad == {i \in 0..n : ~Good(i)}
  <2>1. bad \in SUBSET Nat
      BY <1>1
  <2>2. SUFFICES ASSUME bad # {} PROVE FALSE
      OBVIOUS
  <2>3. PICK i \in bad : \A j \in bad : i =< j
    <3> HIDE DEF bad
    <3>1. QED
        BY <2>1, <2>2, LeastOf
  <2>4. i # 0 /\ i \in 0..n /\ ~Good(i)
      BY <1>4, <2>3
  <2>5. i - 1 \in 0..n /\ i - 1 \notin bad
      BY <1>1, <2>3, <2>4
  <2>6. Good(i - 1)
      BY <2>5
  <2> HIDE DEF Good
  <2>7. QED
      BY <1>5, <2>4, <2>6
<1>7. Good(n)
  <2> HIDE DEF Good
  <2>1. n \in 0..n
      BY <1>1
  <2>2. QED
      BY <1>6, <2>1
<1>8. QED
    BY <1>1, <1>2, <1>7

-----------------------------------------------------------------------------
(* What RouteStore keeps.  Its types need what a job carries in the middle  *)
(* of a handler (Steady); its references need, besides, the rows that the   *)
(* schema ties together (Tied), and, for as long as handlers run one after  *)
(* another and to their end, what each of them has established (Undisturbed). *)

Whole(chain) == \A i \in DOMAIN chain : Refers(chain[i])

RoutesWhole == \A n \in DOMAIN routes : Whole(routes[n])

\* A handler with rows or routes to write has one, the route it writes has a
\* target, and its name is one that List gives.
Steady(job) ==
    /\ job.op = "check" => job.at \in 1..Len(job.chain)
    /\ job.op \in {"check", "put"} => /\ job.chain # <<>>
                                      /\ job.name \in Range(RouteOrder)
    /\ job.op \in {"rows", "rewrite"} => job.todo # <<>>
    /\ job.op = "rewrite" =>
          \A i \in DOMAIN job.todo : job.todo[i].name \in Range(RouteOrder)

\* The schema deletes the channels of a provider with it.
Tied == /\ \A c \in DOMAIN channels : channels[c].provider \in DOMAIN providers
        /\ DOMAIN routes \subseteq Range(RouteOrder)

\* A target that the handler's clean-up is there for.
Touched(job, t) ==
    IF job.what = "provider"
    THEN t.provider = job.provider \/ t.channel \in job.gone
    ELSE t.channel \in job.gone /\ t.provider \in {0, job.provider}

\* What a handler knows that ran alone so far.
Established(job) ==
    /\ job.op = "check" => \A i \in 1..(job.at - 1) : Refers(job.chain[i])
    /\ job.op = "put" => Whole(job.chain)
    /\ job.op \in {"erase", "list"} /\ job.what = "channel" =>
          /\ job.provider \in DOMAIN providers
          /\ \E c \in ChannelIds : job.gone = {c}
    /\ job.op = "erase" =>
          /\ job.provider \in DOMAIN providers
          /\ \A c \in job.gone : /\ c \in DOMAIN channels
                                 /\ channels[c].provider = job.provider
          /\ job.what = "provider" =>
                \A c \in DOMAIN channels :
                    channels[c].provider = job.provider => c \in job.gone
    /\ job.op = "list" =>
          \A n \in DOMAIN routes : \A i \in DOMAIN routes[n] :
              Refers(routes[n][i]) \/ Touched(job, routes[n][i])
    /\ job.op = "rewrite" =>
          /\ \A i \in DOMAIN job.todo : /\ Whole(job.todo[i].chain)
                                        /\ job.todo[i].name \in DOMAIN routes
          /\ \A i, j \in DOMAIN job.todo : job.todo[i].name = job.todo[j].name => i = j
          /\ \A n \in DOMAIN routes :
                Whole(routes[n]) \/ \E i \in DOMAIN job.todo : job.todo[i].name = n

Undisturbed ==
    ~disturbed =>
        /\ \A a, b \in Admins : admin[a] # Idle /\ admin[b] # Idle => a = b
        /\ (\A a \in Admins : admin[a].op \notin {"list", "rewrite"}) => RoutesWhole
        /\ \A a \in Admins : Established(admin[a])

StoreInv == /\ TypeOK
            /\ \A a \in Admins : Steady(admin[a])

ReferInv == StoreInv /\ Tied /\ Undisturbed

-----------------------------------------------------------------------------
(* Types *)

Write == [write : {"create", "ensure", "delete"}, provider : ProviderIds,
          name : Name, window : 0..2]

\* A function on an initial segment is a sequence.
LEMMA ListOf ==
    ASSUME NEW T, NEW n \in Nat, NEW f \in [1..n -> T]
    PROVE  f \in Seq(T) /\ Len(f) = n
    OBVIOUS

\* A job of one kind has the fields of its kind.
LEMMA Kinds ==
    ASSUME NEW job \in Job
    PROVE  /\ job.op \in {"check", "put"} =>
                job \in [op : {"check", "put"}, name : Name,
                         chain : Seq(Target), at : Nat]
           /\ job.op \in {"erase", "list"} =>
                job \in [op : {"erase", "list"}, what : {"channel", "provider"},
                         provider : ProviderIds, gone : SUBSET ChannelIds]
           /\ job.op = "rows" =>
                job \in [op : {"rows"}, strict : BOOLEAN, todo : Seq(Write)]
           /\ job.op = "rewrite" =>
                job \in [op : {"rewrite"}, todo : Seq([name : Name, chain : Seq(Target)])]
           /\ job # Idle => job.op \in {"check", "put", "erase", "list", "rows", "rewrite"}
    BY DEF Job, Idle, Write

\* What the rest of a job has to be for a step that sets it.
LEMMA StepsJob ==
    ASSUME StoreInv, NEW a \in Admins, NEW job \in Job, Steady(job),
           admin' = [admin EXCEPT ![a] = job]
    PROVE  /\ admin' \in [Admins -> Job]
           /\ \A b \in Admins : Steady(admin'[b])
<1>1. admin \in [Admins -> Job] /\ \A b \in Admins : Steady(admin[b])
    BY DEF StoreInv, TypeOK
<1>2. \A b \in Admins : admin'[b] = IF b = a THEN job ELSE admin[b]
    BY <1>1
<1>3. QED
    BY <1>1, <1>2

\* An idle admin has a job, if of nothing to do.
LEMMA IdleIsAJob == Idle \in Job /\ Steady(Idle)
    BY DEF Idle, Job, Steady

\* So is the job of an admin with rows to write, or with none left.
LEMMA RowsAreAJob ==
    ASSUME NEW todo \in Seq(Write), NEW strict \in BOOLEAN
    PROVE  Rows(todo, strict) \in Job /\ Steady(Rows(todo, strict))
<1>1. CASE todo = <<>>
    BY <1>1, IdleIsAJob DEF Rows
<1>2. CASE todo # <<>>
  <2> DEFINE j == [op |-> "rows", todo |-> todo, strict |-> strict]
  <2>1. Rows(todo, strict) = j
      BY <1>2 DEF Rows
  <2>2. j \in Job
      BY DEF Job, Write
  <2>3. Steady(j)
      BY <1>2 DEF Steady
  <2>4. QED
      BY <2>1, <2>2, <2>3
<1>3. QED
    BY <1>1, <1>2

\* What registerModels leaves to write.
LEMMA RegisteredIsAJob ==
    ASSUME NEW p \in ProviderIds, NEW ns \in NameLists
    PROVE  Registered(p, ns) \in Job /\ Steady(Registered(p, ns))
<1> DEFINE todo == [i \in DOMAIN ns |-> RowWrite("ensure", p, ns[i], 0)]
<1>1. ns \in Seq(Name)
    BY StoreAssumption
<1>2. todo \in Seq(Write)
  <2>1. Len(ns) \in Nat /\ DOMAIN ns = 1..Len(ns) /\ \A i \in 1..Len(ns) : ns[i] \in Name
      BY <1>1
  <2>2. \A i \in 1..Len(ns) : RowWrite("ensure", p, ns[i], 0) \in Write
      BY <2>1 DEF RowWrite, Write
  <2>3. todo \in [1..Len(ns) -> Write]
      BY <2>1, <2>2
  <2>4. QED
      BY <2>1, <2>3, ListOf
<1>3. Registered(p, ns) = Rows(todo, FALSE)
    BY DEF Registered
<1> HIDE DEF todo
<1>4. QED
    BY <1>2, <1>3, RowsAreAJob

\* The requests and the two flags.
LEMMA RequestTyped ==
    ASSUME StoreInv, NEW a, Request(a)
    PROVE  requests' \in 0..MaxRequests /\ disturbed' \in BOOLEAN
    BY StoreAssumption DEF StoreInv, TypeOK, Request, Beside

\* A step of a handler, and a request of one statement.
LEMMA ContinueTyped ==
    ASSUME StoreInv, NEW a \in Admins, NEW job \in Job, Steady(job), Continue(a, job)
    PROVE  /\ admin' \in [Admins -> Job]
           /\ \A b \in Admins : Steady(admin'[b])
           /\ requests' \in 0..MaxRequests /\ disturbed' \in BOOLEAN
<1>1. admin' = [admin EXCEPT ![a] = job]
    BY DEF Continue
<1>2. QED
    BY <1>1, StepsJob DEF StoreInv, TypeOK, Continue, Beside

\* A request of one statement begins no job.
LEMMA SimpleTyped ==
    ASSUME StoreInv, NEW a, Simple(a)
    PROVE  /\ admin' \in [Admins -> Job]
           /\ \A b \in Admins : Steady(admin'[b])
           /\ requests' \in 0..MaxRequests /\ disturbed' \in BOOLEAN
    BY RequestTyped DEF Simple, StoreInv, TypeOK

\* A request that begins a job.
LEMMA BeginsTyped ==
    ASSUME StoreInv, NEW a \in Admins, NEW job \in Job, Steady(job), Request(a),
           admin' = [admin EXCEPT ![a] = job]
    PROVE  /\ admin' \in [Admins -> Job]
           /\ \A b \in Admins : Steady(admin'[b])
           /\ requests' \in 0..MaxRequests /\ disturbed' \in BOOLEAN
    BY StepsJob, RequestTyped

\* The handlers that write providers, accounts and model rows keep the types.
LEMMA RegistryTyped ==
    ASSUME StoreInv, NEW a \in Admins, Registry(a)
    PROVE  StoreInv'
<1> USE DEF StoreInv, TypeOK
<1>0. TablesTyped(providers, channels, accounts, models, routes)
    BY DEF TablesOK
<1>1. ASSUME NEW ns \in NameLists, CreateProvider(a, ns) PROVE StoreInv'
  <2>1. TablesOK'
      BY <1>0, <1>1 DEF CreateProvider, TablesOK, TablesTyped, Put
  <2>2. NewId(providers) \in ProviderIds /\ Request(a)
        /\ admin' = [admin EXCEPT ![a] = Registered(NewId(providers), ns)]
      BY <1>1 DEF CreateProvider
  <2>3. Registered(NewId(providers), ns) \in Job /\ Steady(Registered(NewId(providers), ns))
      BY <2>2, RegisteredIsAJob
  <2>4. QED
      BY <2>1, <2>2, <2>3, BeginsTyped
<1>2. ASSUME NEW p \in ProviderIds, NEW e \in BOOLEAN, NEW ns \in NameLists,
             UpdateProvider(a, p, e, ns)
      PROVE  StoreInv'
  <2>1. TablesOK'
      BY <1>0, <1>2 DEF UpdateProvider, TablesOK, TablesTyped, Put
  <2>2. Request(a) /\ admin' = [admin EXCEPT ![a] = Registered(p, ns)]
      BY <1>2 DEF UpdateProvider
  <2>3. QED
      BY <2>1, <2>2, RegisteredIsAJob, BeginsTyped
<1>3. ASSUME NEW p \in ProviderIds, CreateAccount(a, p) PROVE StoreInv'
  <2>1. TablesOK'
      BY <1>0, <1>3 DEF CreateAccount, TablesOK, TablesTyped, Put, Account
  <2>2. QED
      BY <1>3, <2>1, SimpleTyped DEF CreateAccount
<1>4. ASSUME NEW p \in ProviderIds, NEW r \in Protocols, CreateChannel(a, p, r) PROVE StoreInv'
  <2>1. TablesOK'
      BY <1>0, <1>4 DEF CreateChannel, TablesOK, TablesTyped, Put, Channel
  <2>2. QED
      BY <1>4, <2>1, SimpleTyped DEF CreateChannel
<1>5. ASSUME NEW acc \in AccountIds, NEW e \in BOOLEAN, UpdateAccount(a, acc, e) PROVE StoreInv'
  <2>1. TablesOK'
      BY <1>0, <1>5 DEF UpdateAccount, TablesOK, TablesTyped, Account
  <2>2. QED
      BY <1>5, <2>1, SimpleTyped DEF UpdateAccount
<1>6. ASSUME NEW acc \in AccountIds, DeleteAccount(a, acc) PROVE StoreInv'
  <2>1. TablesOK'
      BY <1>0, <1>6 DEF DeleteAccount, TablesOK, TablesTyped, Drop
  <2>2. QED
      BY <1>6, <2>1, SimpleTyped DEF DeleteAccount
<1>7. ASSUME NEW c \in ChannelIds, NEW body \in ChannelBodies, UpdateChannel(a, c, body)
      PROVE  StoreInv'
  <2> DEFINE row == channels[c]
             protocol == IF body.protocol = "" THEN row.protocol ELSE body.protocol
             new == [provider |-> row.provider, protocol |-> protocol,
                     enabled |-> body.enabled, url |-> body.url]
  <2>1. c \in DOMAIN channels /\ row \in Channel
      BY <1>0, <1>7 DEF UpdateChannel, TablesTyped
  <2>2. /\ body.enabled \in BOOLEAN /\ body.url \in BOOLEAN
        /\ body.protocol = "" \/ body.protocol \in Protocols
      BY DEF ChannelBodies
  <2>3. new \in Channel
      BY <2>1, <2>2 DEF Channel
  <2>4. /\ channels' = [channels EXCEPT ![c] = new]
        /\ UNCHANGED <<providers, accounts, models, routes>>
      BY <1>7 DEF UpdateChannel
  <2> HIDE DEF new
  <2>5. TablesOK'
      BY <1>0, <2>1, <2>3, <2>4 DEF TablesOK, TablesTyped
  <2>6. QED
      BY <1>7, <2>5, SimpleTyped DEF UpdateChannel
<1>8. ASSUME NEW p \in ProviderIds, NEW n \in RowNames, NEW e \in BOOLEAN, NEW w \in Windows,
             UpdateModel(a, p, n, e, w)
      PROVE  StoreInv'
  <2> DEFINE old == models[<<p, n>>]
             new == [enabled |-> e, window |-> IF w = 0 THEN old.window ELSE w]
  <2>1. <<p, n>> \in DOMAIN models /\ models' = [models EXCEPT ![<<p, n>>] = new]
        /\ UNCHANGED <<providers, channels, accounts, routes>>
      BY <1>8 DEF UpdateModel
  <2>2. old \in Model
      BY <1>0, <2>1 DEF TablesTyped
  <2>3. new \in Model
      BY <2>2, StoreAssumption DEF Model
  <2> HIDE DEF new
  <2>4. TablesOK'
      BY <1>0, <2>1, <2>3 DEF TablesOK, TablesTyped
  <2>5. QED
      BY <1>8, <2>4, SimpleTyped DEF UpdateModel
<1>9. ASSUME NEW p \in ProviderIds, NEW n \in RowNames, DeleteModel(a, p, n) PROVE StoreInv'
  <2>1. TablesOK'
      BY <1>0, <1>9 DEF DeleteModel, TablesOK, TablesTyped, Drop
  <2>2. QED
      BY <1>9, <2>1, SimpleTyped DEF DeleteModel
<1>10. ASSUME NEW ps \in ProviderLists, NEW n \in RowNames, NEW w \in Windows,
              CreateModels(a, ps, n, w)
       PROVE  StoreInv'
  <2> DEFINE todo == [i \in DOMAIN ps |-> RowWrite("create", ps[i], n, w)]
  <2>1. /\ Request(a) /\ admin' = [admin EXCEPT ![a] = Rows(todo, TRUE)]
        /\ UNCHANGED tables
      BY <1>10 DEF CreateModels
  <2>2. todo \in Seq(Write)
    <3>1. /\ Len(ps) \in Nat /\ DOMAIN ps = 1..Len(ps)
          /\ \A i \in 1..Len(ps) : ps[i] \in ProviderIds
        BY StoreAssumption
    <3>2. todo \in [1..Len(ps) -> Write]
        BY <3>1, StoreAssumption DEF RowWrite, Write
    <3>3. QED
        BY <3>1, <3>2, ListOf
  <2> HIDE DEF todo
  <2>3. TablesOK'
      BY <1>0, <2>1 DEF TablesOK, TablesTyped, tables
  <2>4. QED
      BY <2>1, <2>2, <2>3, RowsAreAJob, BeginsTyped
<1>11. ASSUME NEW p \in ProviderIds, NEW l \in NameLists, NEW m \in NameLists, NEW w \in Windows,
              SyncModels(a, p, l, m, w)
       PROVE  StoreInv'
  <2> DEFINE first == [i \in DOMAIN l |-> RowWrite("ensure", p, l[i], w)]
             last  == [i \in DOMAIN m |-> RowWrite("delete", p, m[i], 0)]
  <2>1. /\ Request(a) /\ admin' = [admin EXCEPT ![a] = Rows(first \o last, TRUE)]
        /\ UNCHANGED tables
      BY <1>11 DEF SyncModels
  <2>2. first \in Seq(Write)
    <3>1. Len(l) \in Nat /\ DOMAIN l = 1..Len(l) /\ \A i \in 1..Len(l) : l[i] \in Name
        BY StoreAssumption
    <3>2. first \in [1..Len(l) -> Write]
        BY <3>1, StoreAssumption DEF RowWrite, Write
    <3>3. QED
        BY <3>1, <3>2, ListOf
  <2>3. last \in Seq(Write)
    <3>1. Len(m) \in Nat /\ DOMAIN m = 1..Len(m) /\ \A i \in 1..Len(m) : m[i] \in Name
        BY StoreAssumption
    <3>2. last \in [1..Len(m) -> Write]
        BY <3>1, StoreAssumption DEF RowWrite, Write
    <3>3. QED
        BY <3>1, <3>2, ListOf
  <2> HIDE DEF first, last
  <2>4. first \o last \in Seq(Write)
      BY <2>2, <2>3
  <2>5. TablesOK'
      BY <1>0, <2>1 DEF TablesOK, TablesTyped, tables
  <2>6. QED
      BY <2>1, <2>4, <2>5, RowsAreAJob, BeginsTyped
<1>12. ASSUME WriteRow(a) PROVE StoreInv'
  <2> DEFINE job   == admin[a]
             it    == Head(job.todo)
             k     == <<it.provider, it.name>>
             fails == \/ it.provider \notin DOMAIN providers
                      \/ it.write = "create" /\ k \in DOMAIN models
                      \/ it.write = "delete" /\ k \notin DOMAIN models
             row   == IF k \notin DOMAIN models
                      THEN [enabled |-> TRUE, window |-> it.window]
                      ELSE [models[k] EXCEPT !.window = IF @ = 0 THEN it.window ELSE @]
             rest  == IF fails /\ job.strict THEN Idle ELSE Rows(Tail(job.todo), job.strict)
  <2>1. job.op = "rows" /\ Continue(a, rest) /\ UNCHANGED <<providers, channels, accounts, routes>>
      BY <1>12 DEF WriteRow
  <2>2. \/ models' = models
        \/ models' = Drop(models, {k})
        \/ models' = Put(models, k, row)
      BY <1>12 DEF WriteRow
  <2>3. job \in Job /\ Steady(job)
      OBVIOUS
  <2>4. job.strict \in BOOLEAN /\ job.todo \in Seq(Write) /\ job.todo # <<>>
      BY <2>1, <2>3, Kinds DEF Steady
  <2>5. it \in Write /\ Tail(job.todo) \in Seq(Write)
      BY <2>4
  <2>6. rest \in Job /\ Steady(rest)
      BY <2>4, <2>5, RowsAreAJob, IdleIsAJob
  <2>7. k \in ProviderIds \X Name /\ row \in Model
    <3>1. it.provider \in ProviderIds /\ it.name \in Name /\ it.window \in 0..2
        BY <2>5 DEF Write
    <3>2. k \in DOMAIN models => models[k] \in Model
        BY <1>0 DEF TablesTyped
    <3>3. QED
        BY <3>1, <3>2 DEF Model
  <2> HIDE DEF rest, row, k, job
  <2>8. TablesOK'
      BY <1>0, <2>1, <2>2, <2>7 DEF TablesOK, TablesTyped, Put, Drop
  <2>9. QED
      BY <2>1, <2>6, <2>8, ContinueTyped
<1>13. QED
    BY <1>1, <1>2, <1>3, <1>4, <1>5, <1>6, <1>7, <1>8, <1>9, <1>10, <1>11, <1>12 DEF Registry

Check == [op : {"check", "put"}, name : Name, chain : Seq(Target), at : Nat]

\* The job that is left when a target was looked up.
LEMMA CheckedJob ==
    ASSUME NEW job \in Check, NEW t, job.at \in 1..Len(job.chain)
    PROVE  [job EXCEPT !.chain[job.at] = t, !.at = @ + 1,
                       !.op = IF job.at = Len(job.chain) THEN "put" ELSE "check"]
           = [op |-> IF job.at = Len(job.chain) THEN "put" ELSE "check",
              name |-> job.name, chain |-> [job.chain EXCEPT ![job.at] = t],
              at |-> job.at + 1]
<1> DEFINE d == [job EXCEPT !.chain[job.at] = t, !.at = @ + 1,
                            !.op = IF job.at = Len(job.chain) THEN "put" ELSE "check"]
<1> USE DEF Check
<1>1. d.at = job.at + 1
    OBVIOUS
<1>2. d.chain = [job.chain EXCEPT ![job.at] = t]
    OBVIOUS
<1>3. d.name = job.name
    OBVIOUS
<1>4. d.op = IF job.at = Len(job.chain) THEN "put" ELSE "check"
    OBVIOUS
<1>5. d = [f \in DOMAIN job |-> d[f]]
    OBVIOUS
<1> HIDE DEF d
<1>6. DOMAIN job = {"op", "name", "chain", "at"}
    OBVIOUS
<1>7. QED
    BY <1>1, <1>2, <1>3, <1>4, <1>5, <1>6

\* So do the handlers that write a route.
LEMMA RouteEditTyped ==
    ASSUME StoreInv, NEW a \in Admins, RouteEdit(a)
    PROVE  StoreInv'
<1> USE DEF StoreInv, TypeOK
<1>0. TablesTyped(providers, channels, accounts, models, routes)
    BY DEF TablesOK
<1>1. ASSUME NEW n \in Range(RouteOrder), NEW chain \in Chains, PutRoute(a, n, chain)
      PROVE  StoreInv'
  <2> DEFINE j == [op |-> "check", name |-> n, chain |-> chain, at |-> 1]
  <2>1. /\ Request(a) /\ chain # <<>>
        /\ admin' = [admin EXCEPT ![a] = j]
        /\ UNCHANGED tables
      BY <1>1 DEF PutRoute
  <2>2. n \in Name /\ chain \in Seq(Target)
      BY StoreAssumption DEF Range
  <2>3. j \in Job
      BY <2>2 DEF Job
  <2>4. Steady(j)
      BY <2>1, <2>2 DEF Steady
  <2> HIDE DEF j
  <2>5. TablesOK'
      BY <1>0, <2>1 DEF TablesOK, TablesTyped, tables
  <2>6. QED
      BY <2>1, <2>3, <2>4, <2>5, BeginsTyped
<1>2. ASSUME NEW n \in Range(RouteOrder), DeleteRoute(a, n) PROVE StoreInv'
  <2>1. TablesOK'
      BY <1>0, <1>2 DEF DeleteRoute, TablesOK, TablesTyped, Drop
  <2>2. QED
      BY <1>2, <2>1, SimpleTyped DEF DeleteRoute
<1>3. ASSUME CheckTarget(a) PROVE StoreInv'
  <2> DEFINE job  == admin[a]
             t    == Backfilled(job.chain[job.at])
             done == [job EXCEPT !.chain[job.at] = t, !.at = @ + 1,
                                 !.op = IF job.at = Len(job.chain) THEN "put" ELSE "check"]
             rest == IF ~Acceptable(t) THEN Idle ELSE done
  <2>1. job.op = "check" /\ Continue(a, rest) /\ UNCHANGED tables
      BY <1>3 DEF CheckTarget
  <2>2. job \in Job /\ Steady(job)
      OBVIOUS
  <2>3. /\ job \in [op : {"check", "put"}, name : Name, chain : Seq(Target), at : Nat]
        /\ job.at \in 1..Len(job.chain) /\ job.chain # <<>> /\ job.name \in Range(RouteOrder)
      BY <2>1, <2>2, Kinds DEF Steady
  <2>4. t \in Target
    <3>1. job.chain[job.at] \in Target
        BY <2>3
    <3>2. \A c \in DOMAIN channels : channels[c].provider \in ProviderIds
        BY <1>0 DEF TablesTyped, Channel
    <3>3. QED
        BY <3>1, <3>2 DEF Backfilled, Target
  <2> HIDE DEF t, job
  <2>5. [job.chain EXCEPT ![job.at] = t] \in Seq(Target)
        /\ Len([job.chain EXCEPT ![job.at] = t]) = Len(job.chain)
      BY <2>3, <2>4
  <2>6. /\ done.op = IF job.at = Len(job.chain) THEN "put" ELSE "check"
        /\ done.name = job.name /\ done.at = job.at + 1
        /\ done.chain = [job.chain EXCEPT ![job.at] = t]
    <3>1. job \in Check
        BY <2>3 DEF Check
    <3>2. done = [op |-> IF job.at = Len(job.chain) THEN "put" ELSE "check",
                  name |-> job.name, chain |-> [job.chain EXCEPT ![job.at] = t],
                  at |-> job.at + 1]
        BY <2>3, <3>1, CheckedJob
    <3> HIDE DEF done
    <3>3. QED
        BY <3>2
  <2>7. done \in [op : {"check", "put"}, name : Name, chain : Seq(Target), at : Nat]
    <3>1. job \in Check
        BY <2>3 DEF Check
    <3>2. done = [op |-> IF job.at = Len(job.chain) THEN "put" ELSE "check",
                  name |-> job.name, chain |-> [job.chain EXCEPT ![job.at] = t],
                  at |-> job.at + 1]
        BY <2>3, <3>1, CheckedJob
    <3> HIDE DEF done
    <3>3. QED
        BY <2>3, <2>5, <3>2
  <2> HIDE DEF done
  <2>8. done \in Job
      BY <2>7 DEF Job
  <2>9. Steady(done)
    <3>1. done.op = "check" => done.at \in 1..Len(done.chain)
        BY <2>3, <2>5, <2>6
    <3>2. done.chain # <<>>
        BY <2>3, <2>5, <2>6
    <3>3. QED
        BY <2>3, <2>6, <3>1, <3>2 DEF Steady
  <2>10. rest \in Job /\ Steady(rest)
      BY <2>8, <2>9, IdleIsAJob
  <2> HIDE DEF rest
  <2>11. TablesOK'
      BY <1>0, <2>1 DEF TablesOK, TablesTyped, tables
  <2>12. QED
      BY <2>1, <2>10, <2>11, ContinueTyped
<1>4. ASSUME WriteRoute(a) PROVE StoreInv'
  <2>1. /\ admin[a].op = "put" /\ Continue(a, Idle)
        /\ routes' = Put(routes, admin[a].name, admin[a].chain)
        /\ UNCHANGED <<providers, channels, accounts, models>>
      BY <1>4 DEF WriteRoute
  <2>2. admin[a] \in Job /\ Steady(admin[a])
      OBVIOUS
  <2>3. admin[a].name \in Name /\ admin[a].chain \in Seq(Target) /\ admin[a].chain # <<>>
      BY <2>1, <2>2, Kinds DEF Steady
  <2>4. TablesOK'
      BY <1>0, <2>1, <2>3 DEF TablesOK, TablesTyped, Put
  <2>5. QED
      BY <2>1, <2>4, IdleIsAJob, ContinueTyped
<1>5. QED
    BY <1>1, <1>2, <1>3, <1>4 DEF RouteEdit

\* A cleaned chain is a chain.
LEMMA CleanedTyped ==
    ASSUME NEW job, job \in Job, job.op = "list", NEW chain \in Seq(Target)
    PROVE  Cleaned(job, chain) \in Seq(Target)
<1>1. /\ job.provider \in ProviderIds
      /\ job.what \in {"channel", "provider"}
    BY Kinds
<1>2. CASE job.what = "provider"
    BY <1>2, KeepFacts DEF Cleaned, Stripped
<1>3. CASE job.what = "channel"
  <2> DEFINE c == Max(job.gone)
             degrade(t) == IF t.channel # c THEN t
                           ELSE [t EXCEPT !.channel = 0,
                                          !.provider = IF @ = 0 THEN job.provider ELSE @]
             new == [i \in DOMAIN chain |-> degrade(chain[i])]
  <2>1. Cleaned(job, chain) = IF \E i \in DOMAIN chain : chain[i].channel = c
                              THEN Deduped(new) ELSE chain
      BY <1>3 DEF Cleaned, Degraded
  <2> HIDE DEF c
  <2>2. \A t \in Target : degrade(t) \in Target
      BY <1>1 DEF Target
  <2>3. Len(chain) \in Nat /\ DOMAIN chain = 1..Len(chain)
        /\ \A i \in 1..Len(chain) : chain[i] \in Target
      OBVIOUS
  <2> HIDE DEF degrade
  <2>4. new \in [1..Len(chain) -> Target]
      BY <2>2, <2>3
  <2>5. new \in Seq(Target)
      BY <2>3, <2>4, ListOf
  <2> HIDE DEF new
  <2>6. Deduped(new) \in Seq(Target)
      BY <2>5, KeepFacts DEF Deduped
  <2>7. QED
      BY <2>1, <2>6
<1>4. QED
    BY <1>1, <1>2, <1>3

\* What List finds to write: every route that the clean-up changes, once.
LEMMA RewritesFacts ==
    ASSUME TablesOK, NEW job, job \in Job, job.op = "list"
    PROVE  /\ Rewrites(job) \in Seq([name : Name, chain : Seq(Target)])
           /\ \A i \in DOMAIN Rewrites(job) :
                 /\ Rewrites(job)[i].name \in Range(RouteOrder)
                 /\ Rewrites(job)[i].name \in DOMAIN routes
                 /\ Rewrites(job)[i].chain = Cleaned(job, routes[Rewrites(job)[i].name])
           /\ \A i, j \in DOMAIN Rewrites(job) :
                 Rewrites(job)[i].name = Rewrites(job)[j].name => i = j
           /\ \A n \in DOMAIN routes \cap Range(RouteOrder) :
                 \/ Cleaned(job, routes[n]) = routes[n]
                 \/ \E i \in DOMAIN Rewrites(job) : Rewrites(job)[i].name = n
<1> DEFINE changed(n) == n \in DOMAIN routes /\ Cleaned(job, routes[n]) # routes[n]
           at    == {i \in DOMAIN RouteOrder : changed(RouteOrder[i])}
           names == Keep(RouteOrder, at)
           todo  == [i \in DOMAIN names |->
                        [name |-> names[i], chain |-> Cleaned(job, routes[names[i]])]]
<1>1. Rewrites(job) = todo
    BY DEF Rewrites
<1>2. RouteOrder \in Seq(Name) /\ IsInjective(RouteOrder)
    BY StoreAssumption
<1>3. /\ names \in Seq(Name)
      /\ \A k \in 1..Len(names) : \E j \in at : names[k] = RouteOrder[j]
      /\ \A j \in at : \E k \in 1..Len(names) : names[k] = RouteOrder[j]
      /\ IsInjective(names)
  <2>1. \A j \in at : j \in DOMAIN RouteOrder
      OBVIOUS
  <2> HIDE DEF at
  <2>2. /\ names \in Seq(Name)
        /\ \A k \in 1..Len(names) : \E j \in at : j \in DOMAIN RouteOrder /\ names[k] = RouteOrder[j]
        /\ \A j \in at : j \in DOMAIN RouteOrder => \E k \in 1..Len(names) : names[k] = RouteOrder[j]
        /\ IsInjective(RouteOrder) => IsInjective(names)
      BY <1>2, KeepFacts
  <2> HIDE DEF names
  <2>3. QED
      BY <1>2, <2>1, <2>2
<1>4. Len(names) \in Nat /\ DOMAIN names = 1..Len(names)
    BY <1>3
<1>5. \A k \in 1..Len(names) : /\ names[k] \in DOMAIN routes
                               /\ names[k] \in Range(RouteOrder)
  <2>1. \A j \in at : RouteOrder[j] \in DOMAIN routes /\ RouteOrder[j] \in Range(RouteOrder)
      BY DEF Range
  <2>2. QED
      BY <1>3, <2>1
<1>6. \A n \in DOMAIN routes : routes[n] \in Seq(Target)
    BY DEF TablesOK, TablesTyped
<1>7. \A k \in 1..Len(names) : Cleaned(job, routes[names[k]]) \in Seq(Target)
  <2> HIDE DEF names
  <2>1. QED
      BY <1>5, <1>6, CleanedTyped
<1>8. \A n \in DOMAIN routes \cap Range(RouteOrder) :
         Cleaned(job, routes[n]) = routes[n] \/ \E k \in 1..Len(names) : names[k] = n
  <2>1. SUFFICES ASSUME NEW n \in DOMAIN routes, n \in Range(RouteOrder),
                        Cleaned(job, routes[n]) # routes[n]
                 PROVE  \E k \in 1..Len(names) : names[k] = n
      OBVIOUS
  <2>2. PICK j \in DOMAIN RouteOrder : RouteOrder[j] = n
      BY <2>1 DEF Range
  <2>3. j \in at
      BY <2>1, <2>2
  <2> HIDE DEF names, at
  <2>4. QED
      BY <1>3, <2>2, <2>3
<1>9. \A i, j \in 1..Len(names) : names[i] = names[j] => i = j
    BY <1>3, <1>4 DEF IsInjective
<1> HIDE DEF names
<1>10. /\ DOMAIN todo = 1..Len(names)
       /\ \A i \in 1..Len(names) : /\ todo[i].name = names[i]
                                   /\ todo[i].chain = Cleaned(job, routes[names[i]])
    BY <1>4
<1>11. todo \in [1..Len(names) -> [name : Name, chain : Seq(Target)]]
    BY <1>3, <1>4, <1>7
<1>12. todo \in Seq([name : Name, chain : Seq(Target)])
    BY <1>4, <1>11, ListOf
<1> HIDE DEF todo
<1>13. /\ todo \in Seq([name : Name, chain : Seq(Target)])
       /\ \A i \in DOMAIN todo : /\ todo[i].name \in Range(RouteOrder)
                                /\ todo[i].name \in DOMAIN routes
                                /\ todo[i].chain = Cleaned(job, routes[todo[i].name])
       /\ \A i, j \in DOMAIN todo : todo[i].name = todo[j].name => i = j
    BY <1>5, <1>9, <1>10, <1>12
<1>14. \A n \in DOMAIN routes \cap Range(RouteOrder) :
          Cleaned(job, routes[n]) = routes[n] \/ \E i \in DOMAIN todo : todo[i].name = n
    BY <1>8, <1>10
<1>15. QED
    BY <1>1, <1>13, <1>14, Zenon

\* So do the handlers that delete a channel or a provider.
LEMMA ErasureTyped ==
    ASSUME StoreInv, NEW a \in Admins, Erasure(a)
    PROVE  StoreInv'
<1> USE DEF StoreInv, TypeOK
<1>0. TablesTyped(providers, channels, accounts, models, routes)
    BY DEF TablesOK
<1>1. ASSUME NEW what \in {"channel", "provider"}, NEW p \in ProviderIds,
             NEW cs \in SUBSET ChannelIds
      PROVE  Erase(what, p, cs) \in Job /\ Steady(Erase(what, p, cs))
    BY DEF Erase, Job, Steady
<1>2. ASSUME NEW c \in ChannelIds, DeleteChannel(a, c) PROVE StoreInv'
  <2>1. /\ Request(a) /\ c \in DOMAIN channels /\ UNCHANGED tables
        /\ admin' = [admin EXCEPT ![a] = Erase("channel", channels[c].provider, {c})]
      BY <1>2 DEF DeleteChannel
  <2>2. channels[c].provider \in ProviderIds
      BY <1>0, <2>1 DEF TablesTyped, Channel
  <2>3. TablesOK'
      BY <1>0, <2>1 DEF TablesOK, TablesTyped, tables
  <2>4. QED
      BY <1>1, <2>1, <2>2, <2>3, BeginsTyped
<1>3. ASSUME NEW p \in ProviderIds, DeleteProvider(a, p) PROVE StoreInv'
  <2> DEFINE cs == {c \in DOMAIN channels : channels[c].provider = p}
  <2>1. /\ Request(a) /\ UNCHANGED tables
        /\ admin' = [admin EXCEPT ![a] = Erase("provider", p, cs)]
      BY <1>3 DEF DeleteProvider
  <2>2. cs \in SUBSET ChannelIds
      BY <1>0 DEF TablesTyped
  <2> HIDE DEF cs
  <2>3. TablesOK'
      BY <1>0, <2>1 DEF TablesOK, TablesTyped, tables
  <2>4. QED
      BY <1>1, <2>1, <2>2, <2>3, BeginsTyped
<1>4. ASSUME EraseRow(a) PROVE StoreInv'
  <2> DEFINE job  == admin[a]
             next == [job EXCEPT !.op = "list"]
  <2>1. job.op = "erase" /\ job \in Job
      BY <1>4 DEF EraseRow
  <2>2. next \in Job /\ Steady(next)
    <3>1. job \in [op : {"erase", "list"}, what : {"channel", "provider"},
                   provider : ProviderIds, gone : SUBSET ChannelIds]
        BY <2>1, Kinds
    <3>2. next.op = "list"
        BY <3>1
    <3>3. next \in [op : {"erase", "list"}, what : {"channel", "provider"},
                    provider : ProviderIds, gone : SUBSET ChannelIds]
        BY <3>1
    <3> HIDE DEF next
    <3>4. QED
        BY <3>2, <3>3 DEF Job, Steady
  <2>3. /\ \/ channels' = Drop(channels, job.gone)
              /\ UNCHANGED <<providers, accounts, models>>
           \/ /\ providers' = Drop(providers, {job.provider})
              /\ channels' = Drop(channels, {x \in DOMAIN channels : channels[x].provider = job.provider})
              /\ accounts' = Drop(accounts, {x \in DOMAIN accounts : accounts[x].provider = job.provider})
              /\ models' = Drop(models, {k \in DOMAIN models : k[1] = job.provider})
        /\ UNCHANGED routes
      BY <1>4 DEF EraseRow
  <2>4. TablesOK'
      BY <1>0, <2>3 DEF TablesOK, TablesTyped, Drop
  <2>5. \E rest \in {next, Idle} : Continue(a, rest)
      BY <1>4 DEF EraseRow
  <2> HIDE DEF next
  <2>6. QED
      BY <2>2, <2>4, <2>5, IdleIsAJob, ContinueTyped
<1>5. ASSUME ListRoutes(a) PROVE StoreInv'
  <2> DEFINE todo == Rewrites(admin[a])
             rest == IF todo = <<>> THEN Idle ELSE [op |-> "rewrite", todo |-> todo]
  <2>1. admin[a].op = "list" /\ admin[a] \in Job /\ Continue(a, rest) /\ UNCHANGED tables
      BY <1>5 DEF ListRoutes
  <2>2. /\ todo \in Seq([name : Name, chain : Seq(Target)])
        /\ \A i \in DOMAIN todo : todo[i].name \in Range(RouteOrder)
      BY <2>1, RewritesFacts
  <2> HIDE DEF todo
  <2>3. rest \in Job /\ Steady(rest)
    <3>1. CASE todo = <<>>
        BY <3>1, IdleIsAJob
    <3>2. CASE todo # <<>>
      <4>1. rest \in Job
          BY <2>2, <3>2 DEF Job
      <4>2. Steady(rest)
          BY <2>2, <3>2 DEF Steady
      <4>3. QED
          BY <4>1, <4>2
    <3>3. QED
        BY <3>1, <3>2
  <2> HIDE DEF rest
  <2>4. TablesOK'
      BY <1>0, <2>1 DEF TablesOK, TablesTyped, tables
  <2>5. QED
      BY <2>1, <2>3, <2>4, ContinueTyped
<1>6. ASSUME RewriteRoute(a) PROVE StoreInv'
  <2> DEFINE job  == admin[a]
             todo == job.todo
             it   == Head(todo)
             lost == it.chain = <<>> /\ it.name \notin DOMAIN routes
             rest == IF lost \/ Len(todo) = 1 THEN Idle ELSE [job EXCEPT !.todo = Tail(todo)]
  <2>1. /\ job.op = "rewrite" /\ Continue(a, rest)
        /\ routes' = IF it.chain = <<>> THEN Drop(routes, {it.name})
                     ELSE Put(routes, it.name, it.chain)
        /\ UNCHANGED <<providers, channels, accounts, models>>
      BY <1>6 DEF RewriteRoute
  <2>2. job \in Job /\ Steady(job)
      OBVIOUS
  <2>3. /\ todo \in Seq([name : Name, chain : Seq(Target)]) /\ todo # <<>>
        /\ \A i \in DOMAIN todo : todo[i].name \in Range(RouteOrder)
        /\ job = [op |-> "rewrite", todo |-> todo]
      BY <2>1, <2>2, Kinds DEF Steady
  <2> HIDE DEF todo, job
  <2>4. it.name \in Name /\ it.chain \in Seq(Target)
    <3>1. it \in [name : Name, chain : Seq(Target)]
        BY <2>3, HeadTailProperties
    <3>2. QED
        BY <3>1
  <2>5. TablesOK'
      BY <1>0, <2>1, <2>4 DEF TablesOK, TablesTyped, Put, Drop
  <2>6. rest \in Job /\ Steady(rest)
    <3>1. CASE Len(todo) = 1 \/ lost
        BY <3>1, IdleIsAJob
    <3>2. CASE ~(Len(todo) = 1 \/ lost)
      <4>1. rest = [op |-> "rewrite", todo |-> Tail(todo)]
          BY <2>3, <3>2
      <4>2. /\ Tail(todo) \in Seq([name : Name, chain : Seq(Target)])
            /\ Tail(todo) # <<>>
            /\ \A i \in DOMAIN Tail(todo) : Tail(todo)[i].name \in Range(RouteOrder)
        <5>1. /\ Len(todo) \in Nat /\ Len(todo) > 1
              /\ Len(Tail(todo)) = Len(todo) - 1
              /\ DOMAIN Tail(todo) = 1..Len(Tail(todo))
              /\ \A i \in 1..Len(Tail(todo)) : Tail(todo)[i] = todo[i + 1]
          <6>1. Len(todo) \in Nat /\ Len(todo) # 0 /\ Len(todo) # 1
              BY <2>3, <3>2
          <6>2. /\ Tail(todo) \in Seq([name : Name, chain : Seq(Target)])
                /\ Len(Tail(todo)) = Len(todo) - 1
                /\ \A i \in 1..Len(Tail(todo)) : Tail(todo)[i] = todo[i + 1]
              BY <2>3, HeadTailProperties
          <6>3. DOMAIN Tail(todo) = 1..Len(Tail(todo))
              BY <6>2
          <6>4. Len(todo) > 1
            <7> DEFINE k == Len(todo)
            <7>1. k \in Nat /\ k # 0 /\ k # 1
                BY <6>1
            <7> HIDE DEF k
            <7>2. k > 1
                BY <7>1
            <7>3. QED
                BY <7>2 DEF k
          <6>5. QED
              BY <6>1, <6>2, <6>3, <6>4
        <5>2. \A i \in 1..Len(Tail(todo)) : i + 1 \in DOMAIN todo
            BY <2>3, <5>1
        <5>3. Tail(todo) \in Seq([name : Name, chain : Seq(Target)])
            BY <2>3, HeadTailProperties
        <5>4. Tail(todo) # <<>>
          <6>1. 1 \in DOMAIN Tail(todo)
              BY <5>1
          <6>2. DOMAIN <<>> = {}
              OBVIOUS
          <6>3. QED
              BY <6>1, <6>2
        <5>5. QED
            BY <2>3, <5>1, <5>2, <5>3, <5>4
      <4> HIDE DEF rest
      <4>3. rest \in Job
          BY <4>1, <4>2 DEF Job
      <4>4. Steady(rest)
          BY <4>1, <4>2 DEF Steady
      <4>5. QED
          BY <4>3, <4>4
    <3>3. QED
        BY <3>1, <3>2
  <2> HIDE DEF rest
  <2>7. QED
      BY <2>1, <2>5, <2>6, ContinueTyped
<1>7. QED
    BY <1>2, <1>3, <1>4, <1>5, <1>6 DEF Erasure

\* And so does the end of a handler before its next statement.
LEMMA AbortTyped ==
    ASSUME StoreInv, NEW a \in Admins, Abort(a)
    PROVE  StoreInv'
<1>1. TablesOK'
    BY DEF Abort, StoreInv, TypeOK, TablesOK, TablesTyped, tables
<1>2. admin' = [admin EXCEPT ![a] = Idle]
    BY DEF Abort
<1>3. requests' \in 0..MaxRequests /\ disturbed' \in BOOLEAN
    BY DEF Abort, StoreInv, TypeOK
<1>4. QED
    BY <1>1, <1>2, <1>3, StepsJob, IdleIsAJob DEF StoreInv, TypeOK

\* The types hold at first and every step keeps them.
LEMMA StoreInvStep == StoreInv /\ [Next]_vars => StoreInv'
<1>1. SUFFICES ASSUME StoreInv, [Next]_vars PROVE StoreInv'
    OBVIOUS
<1>2. CASE Next
    BY <1>1, <1>2, RegistryTyped, RouteEditTyped, ErasureTyped, AbortTyped DEF Next
<1>3. CASE UNCHANGED vars
    BY <1>1, <1>3 DEF vars, tables, StoreInv, TypeOK, TablesOK, TablesTyped
<1>4. QED
    BY <1>1, <1>2, <1>3

\* A run starts from a typed database and nobody at work.
LEMMA StoreInvInit == Init => StoreInv
<1>1. SUFFICES ASSUME Init PROVE StoreInv
    OBVIOUS
<1>2. PICK d \in Databases : /\ providers = d.providers
                             /\ channels = d.channels
                             /\ accounts = d.accounts
                             /\ models = d.models
                             /\ routes = d.routes
    BY <1>1 DEF Init
<1>3. TablesOK
    BY <1>2, DatabasesAssumption DEF TablesOK
<1>4. \A a \in Admins : admin[a] = Idle
    BY <1>1 DEF Init
<1>5. admin \in [Admins -> Job] /\ \A a \in Admins : Steady(admin[a])
    BY <1>1, <1>4, IdleIsAJob DEF Init
<1>6. requests \in 0..MaxRequests /\ disturbed \in BOOLEAN
  <2>1. requests = 0 /\ disturbed = FALSE
      BY <1>1 DEF Init
  <2>2. MaxRequests \in Nat
      BY StoreAssumption
  <2>3. 0 \in 0..MaxRequests
      BY <2>2
  <2>4. QED
      BY <2>1, <2>3
<1>7. QED
    BY <1>3, <1>5, <1>6 DEF StoreInv, TypeOK

\* Every table and every job of the admin API has its type, whatever the
\* admins do and however many there are: in particular no handler reaches the
\* end of a chain or of a list it still means to work on.
THEOREM TypeCorrect == Spec => []TypeOK
<1>1. Spec => []StoreInv
    BY StoreInvInit, StoreInvStep, PTL DEF Spec
<1>2. StoreInv => TypeOK
    BY DEF StoreInv
<1>3. QED
    BY <1>1, <1>2, PTL

-----------------------------------------------------------------------------
(* References *)

\* A finite set of numbers has a greatest element.
LEMMA HasMax ==
    ASSUME NEW S \in SUBSET Nat, IsFiniteSet(S), S # {}
    PROVE  Max(S) \in S /\ \A n \in S : n =< Max(S)
<1> DEFINE Top(T) == \E m \in T : \A n \in T : n =< m
           bad == {T \in SUBSET S : T # {} /\ ~Top(T)}
<1>1. bad \in SUBSET (SUBSET S) /\ bad \subseteq FiniteSubsetsOf(S)
    BY FS_FiniteSubsetsOfFinite
<1>2. bad = {}
  <2>1. SUFFICES ASSUME bad # {} PROVE FALSE
      OBVIOUS
  <2>2. PICK T \in bad : \A U \in bad : <<U, T>> \notin StrictSubsetOrdering(S)
    <3> HIDE DEF bad
    <3>1. QED
        BY <1>1, <2>1, FS_StrictSubsetOrderingWellFounded, WFMin, Zenon
  <2>3. T \in SUBSET S /\ T # {} /\ ~Top(T)
      BY <2>2
  <2>4. PICK x \in T : TRUE
      BY <2>3
  <2> DEFINE U == T \ {x}
  <2>5. U \in SUBSET S /\ U \subseteq T /\ U # T
      BY <2>3, <2>4
  <2>6. U \notin bad
    <3> HIDE DEF bad, U
    <3>1. QED
        BY <2>2, <2>3, <2>5 DEF StrictSubsetOrdering
  <2>7. U = {} \/ Top(U)
      BY <2>5, <2>6
  <2>8. CASE U = {}
      BY <2>3, <2>4, <2>8
  <2>9. CASE Top(U)
    <3>1. PICK m \in U : \A n \in U : n =< m
        BY <2>9
    <3>2. m \in Nat /\ x \in Nat /\ T \subseteq Nat
        BY <2>3, <2>4
    <3>3. CASE x =< m
      <4>1. \A n \in T : n =< m
          BY <3>1, <3>3
      <4>2. QED
          BY <2>3, <3>1, <4>1
    <3>4. CASE ~(x =< m)
      <4>1. \A n \in T : n =< x
          BY <3>1, <3>2, <3>4
      <4>2. QED
          BY <2>3, <2>4, <4>1
    <3>5. QED
        BY <3>3, <3>4
  <2>10. QED
      BY <2>7, <2>8, <2>9
<1>3. Top(S)
    BY <1>2
<1>4. PICK m \in S : \A n \in S : n =< m
    BY <1>3
<1>5. \A n \in S : m >= n
    BY <1>4
<1> HIDE DEF bad
<1>6. Max(S) \in S /\ \A n \in S : Max(S) >= n
    BY <1>4, <1>5 DEF Max
<1>7. QED
    BY <1>6

\* A new channel takes an id that no channel has.
LEMMA NewChannelId ==
    ASSUME TablesOK
    PROVE  NewId(channels) \notin DOMAIN channels
<1>1. CASE DOMAIN channels = {}
    BY <1>1
<1>2. CASE DOMAIN channels # {}
  <2>1. DOMAIN channels \in SUBSET Nat
      BY IdsArePositive DEF TablesOK, TablesTyped
  <2>2. IsFiniteSet(DOMAIN channels)
      BY StoreAssumption, FS_Subset DEF TablesOK, TablesTyped
  <2> DEFINE m == Max(DOMAIN channels)
  <2>3. m \in Nat /\ \A n \in DOMAIN channels : n =< m
      BY <1>2, <2>1, <2>2, HasMax
  <2> HIDE DEF m
  <2>4. m + 1 \notin DOMAIN channels
      BY <2>1, <2>3
  <2>5. QED
      BY <1>2, <2>4 DEF NewId, m
<1>3. QED
    BY <1>1, <1>2

\* No provider goes, and no channel, nor does one change its provider.
Grown == /\ DOMAIN providers \subseteq DOMAIN providers'
         /\ \A c \in DOMAIN channels : /\ c \in DOMAIN channels'
                                       /\ channels'[c].provider = channels[c].provider

\* Such a step leaves the references of a chain in order.
LEMMA WholeKept ==
    ASSUME Grown, NEW chain, Whole(chain)
    PROVE  Whole(chain)'
    BY DEF Grown, Whole, Refers, RefersTo

\* And those of every route, as the routes are untouched.
LEMMA RoutesWholeKept ==
    ASSUME Grown, UNCHANGED routes, RoutesWhole
    PROVE  RoutesWhole'
    BY WholeKept DEF RoutesWhole

\* A handler that takes a step undisturbed is the only one at work.
LEMMA AloneBefore ==
    ASSUME ReferInv, NEW a \in Admins, Beside(a), ~disturbed'
    PROVE  /\ ~disturbed
           /\ \A b \in Admins : b # a => admin[b] = Idle
           /\ Established(admin[a])
           /\ admin[a].op \notin {"list", "rewrite"} => RoutesWhole
<1>1. ~disturbed /\ \A b \in Admins : b # a => admin[b] = Idle
    BY DEF Beside
<1>2. \A b \in Admins : b # a => admin[b].op \notin {"list", "rewrite"}
    BY <1>1 DEF Idle
<1>3. QED
    BY <1>1, <1>2 DEF ReferInv, Undisturbed

\* The step sets what its handler has left to do.
Sets(a, job) == admin' = [admin EXCEPT ![a] = job]

\* Such a step leaves what a handler alone leaves.
LEMMA AloneAfter ==
    ASSUME ReferInv, NEW a \in Admins, Beside(a), NEW job, Sets(a, job),
           ~disturbed' => /\ Established(job)'
                          /\ job.op \notin {"list", "rewrite"} => RoutesWhole'
    PROVE  Undisturbed'
<1>1. SUFFICES ASSUME ~disturbed'
               PROVE  /\ \A b, c \in Admins : admin'[b] # Idle /\ admin'[c] # Idle => b = c
                      /\ (\A b \in Admins : admin'[b].op \notin {"list", "rewrite"}) => RoutesWhole'
                      /\ \A b \in Admins : Established(admin[b])'
    BY Zenon DEF Undisturbed, Idle
<1>2. admin \in [Admins -> Job]
    BY DEF ReferInv, StoreInv, TypeOK
<1>3. admin'[a] = job /\ \A b \in Admins : b # a => admin'[b] = Idle
    BY <1>1, <1>2, AloneBefore DEF Sets
<1>4. \A b, c \in Admins : admin'[b] # Idle /\ admin'[c] # Idle => b = c
    BY <1>3
<1>5. (\A b \in Admins : admin'[b].op \notin {"list", "rewrite"}) => RoutesWhole'
    BY <1>1, <1>3
<1>6. ASSUME NEW b \in Admins PROVE Established(admin[b])'
  <2>1. CASE b = a
      BY <1>1, <1>3, <2>1 DEF Established
  <2>2. CASE b # a
    <3>1. admin'[b].op = "idle"
        BY <1>3, <2>2 DEF Idle
    <3>2. QED
        BY <3>1 DEF Established
  <2>3. QED
      BY <2>1, <2>2
<1>7. QED
    BY <1>4, <1>5, <1>6

\* A handler that has nothing to do, or only rows to write, knows nothing.
LEMMA NothingEstablished ==
    ASSUME NEW job, job.op \in {"idle", "rows"}
    PROVE  Established(job) /\ Established(job)'
    BY DEF Established

\* The steps that only add to what routes may name.
LEMMA GrownKeeps ==
    ASSUME ReferInv, NEW a \in Admins, Beside(a), Grown, UNCHANGED routes,
           NEW job, job.op \in {"idle", "rows"}, Sets(a, job),
           admin[a].op \in {"idle", "rows"}
    PROVE  Undisturbed'
<1>1. ASSUME ~disturbed' PROVE RoutesWhole'
    BY <1>1, AloneBefore, RoutesWholeKept
<1>2. Established(job)'
    BY NothingEstablished
<1>3. ~disturbed' => /\ Established(job)'
                     /\ job.op \notin {"list", "rewrite"} => RoutesWhole'
    BY <1>1, <1>2
<1>4. QED
    BY <1>3, AloneAfter

\* The references and every kind of step: providers, accounts and rows ...
LEMMA RegistryRefers ==
    ASSUME ReferInv, NEW a \in Admins, Registry(a)
    PROVE  Tied' /\ Undisturbed'
<1>0. /\ admin \in [Admins -> Job]
      /\ TablesTyped(providers, channels, accounts, models, routes)
    BY DEF ReferInv, StoreInv, TypeOK, TablesOK
<1>1. \A p \in ProviderIds, ns \in NameLists : Registered(p, ns).op \in {"idle", "rows"}
    BY DEF Registered, Rows, Idle
<1>2. \A todo, strict : Rows(todo, strict).op \in {"idle", "rows"}
    BY DEF Rows, Idle
<1>3. ASSUME Grown, UNCHANGED routes, Beside(a), admin[a].op \in {"idle", "rows"},
             NEW job, job.op \in {"idle", "rows"}, Sets(a, job),
             \A c \in DOMAIN channels' : channels'[c].provider \in DOMAIN providers'
      PROVE  Tied' /\ Undisturbed'
  <2>1. Tied'
      BY <1>3 DEF ReferInv, Tied
  <2>2. Undisturbed'
      BY <1>3, GrownKeeps
  <2>3. QED
      BY <2>1, <2>2
<1>4. ASSUME Simple(a)
      PROVE  /\ Beside(a) /\ admin[a].op \in {"idle", "rows"}
             /\ Sets(a, admin[a])
  <2>1. admin[a].op \in {"idle", "rows"}
      BY <1>4 DEF Simple, Request, Idle
  <2>2. Sets(a, admin[a])
      BY <1>0, <1>4 DEF Simple, Sets
  <2>3. QED
      BY <1>4, <2>1, <2>2 DEF Simple, Request
<1>5. ASSUME Request(a) PROVE Beside(a) /\ admin[a].op \in {"idle", "rows"}
    BY <1>5 DEF Request, Idle
<1>6. ASSUME UNCHANGED <<providers, channels>>
      PROVE  Grown /\ \A c \in DOMAIN channels' : channels'[c].provider \in DOMAIN providers'
    BY <1>6 DEF Grown, ReferInv, Tied
<1>7. ASSUME NEW p, NEW row, providers' = Put(providers, p, row), UNCHANGED channels
      PROVE  Grown /\ \A c \in DOMAIN channels' : channels'[c].provider \in DOMAIN providers'
    BY <1>7 DEF Grown, ReferInv, Tied, Put
<1>8. ASSUME NEW ns \in NameLists, CreateProvider(a, ns) PROVE Tied' /\ Undisturbed'
  <2>0. PICK j : j = Registered(NewId(providers), ns)
      OBVIOUS
  <2>1. /\ Request(a) /\ UNCHANGED channels /\ UNCHANGED routes
        /\ providers' = Put(providers, NewId(providers), TRUE)
        /\ j.op \in {"idle", "rows"} /\ Sets(a, j)
      BY <1>1, <1>8, <2>0 DEF CreateProvider, Sets
  <2>2. Grown /\ \A c \in DOMAIN channels' : channels'[c].provider \in DOMAIN providers'
      BY <1>7, <2>1
  <2>3. Beside(a) /\ admin[a].op \in {"idle", "rows"}
      BY <1>5, <2>1
  <2>4. UNCHANGED routes /\ j.op \in {"idle", "rows"} /\ Sets(a, j)
      BY <2>1
  <2>5. QED
      BY <1>3, <2>2, <2>3, <2>4
<1>9. ASSUME NEW p \in ProviderIds, NEW e \in BOOLEAN, NEW ns \in NameLists,
             UpdateProvider(a, p, e, ns)
      PROVE  Tied' /\ Undisturbed'
  <2>1. /\ Request(a) /\ UNCHANGED channels /\ UNCHANGED routes
        /\ providers' = Put(providers, p, e)
        /\ Registered(p, ns).op \in {"idle", "rows"}
        /\ Sets(a, Registered(p, ns))
      BY <1>1, <1>9 DEF UpdateProvider, Sets
  <2>2. QED
      BY <1>3, <1>5, <1>7, <2>1
<1>10. ASSUME NEW p \in ProviderIds, NEW r \in Protocols, CreateChannel(a, p, r)
       PROVE  Tied' /\ Undisturbed'
  <2> DEFINE new == [provider |-> p, protocol |-> r, enabled |-> TRUE, url |-> TRUE]
             id  == NewId(channels)
  <2>1. /\ Simple(a) /\ UNCHANGED routes /\ UNCHANGED providers /\ p \in DOMAIN providers
        /\ channels' = Put(channels, id, new)
      BY <1>10 DEF CreateChannel
  <2>2. id \notin DOMAIN channels
      BY NewChannelId DEF ReferInv, StoreInv, TypeOK
  <2>3. new.provider = p
      OBVIOUS
  <2> HIDE DEF id, new
  <2>4. Grown /\ \A c \in DOMAIN channels' : channels'[c].provider \in DOMAIN providers'
      BY <2>1, <2>2, <2>3 DEF Grown, ReferInv, Tied, Put
  <2>5. QED
      BY <1>3, <1>4, <2>1, <2>4
<1>11. ASSUME NEW c \in ChannelIds, NEW body \in ChannelBodies, UpdateChannel(a, c, body)
       PROVE  Tied' /\ Undisturbed'
  <2>1. PICK protocol : channels' = [channels EXCEPT ![c] =
            [provider |-> channels[c].provider, protocol |-> protocol,
             enabled |-> body.enabled, url |-> body.url]]
      BY <1>11 DEF UpdateChannel
  <2>2. Simple(a) /\ c \in DOMAIN channels /\ UNCHANGED routes /\ UNCHANGED providers
      BY <1>11 DEF UpdateChannel
  <2>3. Grown /\ \A d \in DOMAIN channels' : channels'[d].provider \in DOMAIN providers'
      BY <2>1, <2>2 DEF Grown, ReferInv, Tied
  <2>4. QED
      BY <1>3, <1>4, <2>2, <2>3
<1>12. ASSUME Simple(a), UNCHANGED <<providers, channels, routes>>
       PROVE  Tied' /\ Undisturbed'
    BY <1>3, <1>4, <1>6, <1>12
<1>13. ASSUME NEW todo, NEW strict, Request(a), UNCHANGED tables,
              Sets(a, Rows(todo, strict))
       PROVE  Tied' /\ Undisturbed'
  <2>1. UNCHANGED <<providers, channels>> /\ UNCHANGED routes
      BY <1>13 DEF tables
  <2>2. QED
      BY <1>2, <1>3, <1>5, <1>6, <1>13, <2>1
<1>14. ASSUME WriteRow(a) PROVE Tied' /\ Undisturbed'
  <2>1. /\ admin[a].op = "rows" /\ UNCHANGED <<providers, channels>> /\ UNCHANGED routes
        /\ Beside(a)
      BY <1>14 DEF WriteRow, Continue, Sets
  <2>2. Idle.op \in {"idle", "rows"}
      BY DEF Idle
  <2>3. \/ Sets(a, Idle)
        \/ Sets(a, Rows(Tail(admin[a].todo), admin[a].strict))
      BY <1>14 DEF WriteRow, Continue, Sets
  <2>4. Rows(Tail(admin[a].todo), admin[a].strict).op \in {"idle", "rows"}
      BY <1>2
  <2>5. CASE Sets(a, Idle)
      BY <1>3, <1>6, <2>1, <2>2, <2>5
  <2>6. CASE Sets(a, Rows(Tail(admin[a].todo), admin[a].strict))
      BY <1>3, <1>6, <2>1, <2>4, <2>6
  <2>7. QED
      BY <2>3, <2>5, <2>6
<1>15. \A p \in ProviderIds :
          /\ CreateAccount(a, p) => Tied' /\ Undisturbed'
          /\ \A n \in RowNames : DeleteModel(a, p, n) => Tied' /\ Undisturbed'
          /\ \A n \in RowNames, e \in BOOLEAN, w \in Windows :
                UpdateModel(a, p, n, e, w) => Tied' /\ Undisturbed'
    BY <1>12 DEF CreateAccount, DeleteModel, UpdateModel
<1>16. \A acc \in AccountIds :
          /\ DeleteAccount(a, acc) => Tied' /\ Undisturbed'
          /\ \A e \in BOOLEAN : UpdateAccount(a, acc, e) => Tied' /\ Undisturbed'
    BY <1>12 DEF DeleteAccount, UpdateAccount
<1>17. \A ps \in ProviderLists, n \in RowNames, w \in Windows :
          CreateModels(a, ps, n, w) => Tied' /\ Undisturbed'
    BY <1>13 DEF CreateModels, Sets
<1>18. \A p \in ProviderIds, l \in NameLists, m \in NameLists, w \in Windows :
          SyncModels(a, p, l, m, w) => Tied' /\ Undisturbed'
    BY <1>13 DEF SyncModels, Sets
<1>19. QED
    BY <1>8, <1>9, <1>10, <1>11, <1>14, <1>15, <1>16, <1>17, <1>18 DEF Registry

\* ... the writing of a route, which is looked up target by target ...
LEMMA RouteEditRefers ==
    ASSUME ReferInv, NEW a \in Admins, RouteEdit(a)
    PROVE  Tied' /\ Undisturbed'
<1>0. /\ admin \in [Admins -> Job] /\ admin[a] \in Job /\ Steady(admin[a]) /\ Tied
      /\ TablesTyped(providers, channels, accounts, models, routes)
    BY DEF ReferInv, StoreInv, TypeOK, TablesOK
<1>1. ASSUME NEW n \in Range(RouteOrder), NEW chain \in Chains, PutRoute(a, n, chain)
      PROVE  Tied' /\ Undisturbed'
  <2>1. PICK j : j = [op |-> "check", name |-> n, chain |-> chain, at |-> 1]
      OBVIOUS
  <2>2. /\ Request(a) /\ UNCHANGED tables /\ Sets(a, j)
      BY <1>1, <2>1 DEF PutRoute, Sets
  <2>3. Grown /\ UNCHANGED routes /\ Tied'
      BY <1>0, <2>2 DEF Grown, Tied, tables
  <2>4. Beside(a) /\ admin[a].op = "idle"
      BY <2>2 DEF Request, Idle
  <2>5. Established(j)'
      BY <2>1 DEF Established
  <2>6. ~disturbed' => RoutesWhole'
      BY <2>3, <2>4, AloneBefore, RoutesWholeKept
  <2>7. ~disturbed' => /\ Established(j)'
                       /\ j.op \notin {"list", "rewrite"} => RoutesWhole'
      BY <2>5, <2>6
  <2>8. QED
      BY <2>2, <2>3, <2>4, <2>7, AloneAfter
<1>2. ASSUME NEW n \in Range(RouteOrder), DeleteRoute(a, n) PROVE Tied' /\ Undisturbed'
  <2>1. /\ Simple(a) /\ routes' = Drop(routes, {n}) /\ UNCHANGED <<providers, channels>>
      BY <1>2 DEF DeleteRoute
  <2>2. Grown /\ Tied'
      BY <1>0, <2>1 DEF Grown, Tied, Drop
  <2>3. /\ Beside(a) /\ admin[a].op = "idle"
        /\ Sets(a, admin[a])
      BY <1>0, <2>1 DEF Simple, Request, Idle, Sets
  <2>4. PICK j : j = admin[a]
      OBVIOUS
  <2>5. Established(j)'
      BY <2>3, <2>4, NothingEstablished
  <2>6. ASSUME ~disturbed' PROVE RoutesWhole'
    <3>1. RoutesWhole
        BY <2>3, <2>6, AloneBefore
    <3>2. QED
        BY <2>1, <2>2, <3>1, WholeKept DEF RoutesWhole, Drop
  <2>7. ~disturbed' => /\ Established(j)'
                       /\ j.op \notin {"list", "rewrite"} => RoutesWhole'
      BY <2>5, <2>6
  <2>8. QED
      BY <2>2, <2>3, <2>4, <2>7, AloneAfter
<1>3. ASSUME CheckTarget(a) PROVE Tied' /\ Undisturbed'
  <2>1. PICK job : job = admin[a]
      OBVIOUS
  <2>2. PICK t : t = Backfilled(job.chain[job.at])
      OBVIOUS
  <2> DEFINE done == [job EXCEPT !.chain[job.at] = t, !.at = @ + 1,
                                 !.op = IF job.at = Len(job.chain) THEN "put" ELSE "check"]
  <2>3. PICK j : j = IF ~Acceptable(t) THEN Idle ELSE done
      OBVIOUS
  <2>4. job.op = "check" /\ Beside(a) /\ UNCHANGED tables /\ Sets(a, j)
      BY <1>3, <2>1, <2>2, <2>3 DEF CheckTarget, Continue, Sets
  <2>5. Grown /\ UNCHANGED routes /\ Tied'
      BY <1>0, <2>4 DEF Grown, Tied, tables
  <2>6. /\ job \in Check /\ job.at \in 1..Len(job.chain)
      BY <1>0, <2>1, <2>4, Kinds DEF Steady, Check
  <2>7. Acceptable(t) => Refers(t)
      BY DEF Acceptable, Refers, RefersTo
  <2>8. ASSUME ~disturbed' PROVE Established(j)'
    <3>1. CASE ~Acceptable(t)
        BY <2>3, <3>1 DEF Established, Idle
    <3>2. CASE Acceptable(t)
      <4>1. j = [op |-> IF job.at = Len(job.chain) THEN "put" ELSE "check",
                 name |-> job.name, chain |-> [job.chain EXCEPT ![job.at] = t],
                 at |-> job.at + 1]
        <5>1. done = [op |-> IF job.at = Len(job.chain) THEN "put" ELSE "check",
                      name |-> job.name, chain |-> [job.chain EXCEPT ![job.at] = t],
                      at |-> job.at + 1]
            BY <2>6, CheckedJob
        <5>2. j = done
            BY <2>3, <3>2
        <5> HIDE DEF done
        <5>3. QED
            BY <5>1, <5>2
      <4>2. \A i \in 1..(job.at - 1) : Refers(job.chain[i])
          BY <2>1, <2>4, <2>8, AloneBefore DEF Established
      <4>3. /\ job.chain \in Seq(Target) /\ job.at \in Nat /\ Len(job.chain) \in Nat
            /\ DOMAIN job.chain = 1..Len(job.chain)
          BY <2>6 DEF Check
      <4>4. \A i \in 1..job.at : Refers(j.chain[i])
        <5>1. SUFFICES ASSUME NEW i \in 1..job.at PROVE Refers(j.chain[i])
            OBVIOUS
        <5>2. j.chain = [job.chain EXCEPT ![job.at] = t]
            BY <4>1
        <5>3. CASE i = job.at
            BY <2>6, <2>7, <3>2, <4>3, <5>2, <5>3
        <5>4. CASE i # job.at
          <6>1. i \in 1..(job.at - 1) /\ i \in DOMAIN job.chain
              BY <2>6, <4>3, <5>4
          <6>2. j.chain[i] = job.chain[i]
              BY <5>2, <5>4, <6>1
          <6>3. QED
              BY <4>2, <6>1, <6>2
        <5>5. QED
            BY <5>3, <5>4
      <4>5. \A i \in 1..job.at : Refers(j.chain[i])'
          BY <2>4, <4>4 DEF Refers, tables
      <4>6. j.at - 1 = job.at
          BY <4>1, <4>3
      <4>7. CASE job.at = Len(job.chain)
        <5>1. j.op = "put" /\ DOMAIN j.chain = 1..job.at
            BY <4>1, <4>3, <4>7
        <5>2. QED
            BY <4>5, <5>1 DEF Established, Whole
      <4>8. CASE job.at # Len(job.chain)
        <5>1. j.op = "check"
            BY <4>1, <4>8
        <5>2. QED
            BY <4>5, <4>6, <5>1 DEF Established
      <4>9. QED
          BY <4>7, <4>8
    <3>3. QED
        BY <3>1, <3>2
  <2>9. ~disturbed' => RoutesWhole'
      BY <2>1, <2>4, <2>5, AloneBefore, RoutesWholeKept
  <2>10. ~disturbed' => /\ Established(j)'
                        /\ j.op \notin {"list", "rewrite"} => RoutesWhole'
      BY <2>8, <2>9
  <2>11. QED
      BY <2>4, <2>5, <2>10, AloneAfter
<1>4. ASSUME WriteRoute(a) PROVE Tied' /\ Undisturbed'
  <2>1. PICK job : job = admin[a]
      OBVIOUS
  <2>2. PICK j : j = Idle
      OBVIOUS
  <2>3. /\ job.op = "put" /\ Beside(a) /\ Sets(a, j)
        /\ routes' = Put(routes, job.name, job.chain)
        /\ UNCHANGED <<providers, channels>>
      BY <1>4, <2>1, <2>2 DEF WriteRoute, Continue, Sets
  <2>4. job.name \in Range(RouteOrder)
      BY <1>0, <2>1, <2>3 DEF Steady
  <2>5. Grown /\ Tied'
      BY <1>0, <2>3, <2>4 DEF Grown, Tied, Put
  <2>6. Established(j)'
      BY <2>2 DEF Established, Idle
  <2>7. ASSUME ~disturbed' PROVE RoutesWhole'
    <3>1. RoutesWhole /\ Whole(job.chain)
        BY <2>1, <2>3, <2>7, AloneBefore DEF Established
    <3>2. \A n \in DOMAIN routes' : routes'[n] = job.chain \/ (n \in DOMAIN routes /\ routes'[n] = routes[n])
        BY <2>3 DEF Put
    <3>3. \A n \in DOMAIN routes' : Whole(routes'[n])
        BY <3>1, <3>2 DEF RoutesWhole
    <3>4. QED
        BY <2>3, <3>3 DEF RoutesWhole, Whole, Refers
  <2>8. ~disturbed' => /\ Established(j)'
                       /\ j.op \notin {"list", "rewrite"} => RoutesWhole'
      BY <2>6, <2>7
  <2>9. QED
      BY <2>3, <2>5, <2>8, AloneAfter
<1>5. QED
    BY <1>1, <1>2, <1>3, <1>4 DEF RouteEdit

\* The clean-up of a chain leaves it whole.
LEMMA CleanedWhole ==
    ASSUME NEW job, job \in Job, job.op = "list", Established(job),
           NEW chain \in Seq(Target),
           \A i \in DOMAIN chain : Refers(chain[i]) \/ Touched(job, chain[i])
    PROVE  Whole(Cleaned(job, chain))
<1>1. /\ job.provider \in ProviderIds /\ job.what \in {"channel", "provider"}
      /\ job.gone \subseteq ChannelIds
    BY Kinds
<1>2. Len(chain) \in Nat /\ DOMAIN chain = 1..Len(chain)
      /\ \A i \in 1..Len(chain) : chain[i] \in Target
    OBVIOUS
<1>3. CASE job.what = "provider"
  <2> DEFINE S == {i \in DOMAIN chain : chain[i].provider # job.provider
                                        /\ chain[i].channel \notin job.gone}
             kept == Keep(chain, S)
  <2>1. Cleaned(job, chain) = kept
      BY <1>3 DEF Cleaned, Stripped
  <2>2. \A i \in S : Refers(chain[i])
      BY <1>3 DEF Touched
  <2> HIDE DEF S
  <2>3. /\ kept \in Seq(Target)
        /\ \A k \in 1..Len(kept) : \E j \in S : j \in DOMAIN chain /\ kept[k] = chain[j]
      BY KeepFacts
  <2> HIDE DEF kept
  <2>4. DOMAIN kept = 1..Len(kept)
      BY <2>3
  <2>5. QED
      BY <2>1, <2>2, <2>3, <2>4 DEF Whole
<1>4. CASE job.what = "channel"
  <2>1. PICK c \in ChannelIds : job.gone = {c}
      BY <1>4 DEF Established
  <2>2. Max(job.gone) = c
    <3>1. c \in Nat /\ \A x \in {c} : x >= c
        BY IdsArePositive
    <3>2. Max({c}) \in {c}
        BY <3>1 DEF Max
    <3>3. QED
        BY <2>1, <3>2
  <2> DEFINE degrade(t) == IF t.channel # c THEN t
                           ELSE [t EXCEPT !.channel = 0,
                                          !.provider = IF @ = 0 THEN job.provider ELSE @]
             new == [i \in DOMAIN chain |-> degrade(chain[i])]
  <2>3. Cleaned(job, chain) = IF \E i \in DOMAIN chain : chain[i].channel = c
                              THEN Deduped(new) ELSE chain
      BY <1>4, <2>2 DEF Cleaned, Degraded
  <2>4. job.provider \in DOMAIN providers
      BY <1>4 DEF Established
  <2>5. \A t \in Target : Refers(t) \/ Touched(job, t) => Refers(degrade(t)) /\ degrade(t) \in Target
    <3>1. SUFFICES ASSUME NEW t \in Target, Refers(t) \/ Touched(job, t)
                   PROVE  Refers(degrade(t)) /\ degrade(t) \in Target
        OBVIOUS
    <3>2. CASE t.channel # c
        BY <1>4, <2>1, <3>1, <3>2 DEF Touched
    <3>3. CASE t.channel = c
      <4>1. /\ degrade(t).channel = 0
            /\ degrade(t).provider = IF t.provider = 0 THEN job.provider ELSE t.provider
            /\ degrade(t) \in Target
          BY <1>1, <3>3 DEF Target
      <4>2. t.provider = 0 \/ t.provider \in DOMAIN providers
          BY <1>4, <2>4, <3>1 DEF Touched, Refers, RefersTo
      <4> HIDE DEF degrade
      <4>3. QED
          BY <2>4, <4>1, <4>2 DEF Refers, RefersTo
    <3>4. QED
        BY <3>2, <3>3
  <2> HIDE DEF degrade
  <2>6. /\ new \in [1..Len(chain) -> Target]
        /\ \A i \in 1..Len(chain) : Refers(new[i])
      BY <1>2, <2>5
  <2>7. new \in Seq(Target) /\ DOMAIN new = 1..Len(chain)
      BY <1>2, <2>6, ListOf
  <2>8. CASE \E i \in DOMAIN chain : chain[i].channel = c
    <3> DEFINE S == {i \in DOMAIN new : \A j \in 1..(i - 1) : new[j] # new[i]}
               kept == Keep(new, S)
    <3> HIDE DEF new
    <3>1. Cleaned(job, chain) = kept
        BY <2>3, <2>8 DEF Deduped
    <3>2. \A i \in S : i \in 1..Len(chain)
        BY <2>7
    <3> HIDE DEF S
    <3>3. /\ kept \in Seq(Target)
          /\ \A k \in 1..Len(kept) : \E j \in S : j \in DOMAIN new /\ kept[k] = new[j]
      <4>1. new \in Seq(Target)
          BY <2>7
      <4>2. QED
          BY <4>1, KeepFacts
    <3> HIDE DEF kept
    <3>4. DOMAIN kept = 1..Len(kept)
        BY <3>3
    <3>5. QED
        BY <2>6, <3>1, <3>2, <3>3, <3>4 DEF Whole
  <2>9. CASE ~ \E i \in DOMAIN chain : chain[i].channel = c
    <3>1. Cleaned(job, chain) = chain
        BY <2>3, <2>9
    <3>2. \A i \in DOMAIN chain : Refers(chain[i])
        BY <1>4, <2>1, <2>9 DEF Touched
    <3>3. QED
        BY <3>1, <3>2 DEF Whole
  <2>10. QED
      BY <2>8, <2>9
<1>5. QED
    BY <1>1, <1>3, <1>4

\* ... a deletion, which the clean-up of the routes follows ...
LEMMA ErasureRefers ==
    ASSUME ReferInv, NEW a \in Admins, Erasure(a)
    PROVE  Tied' /\ Undisturbed'
<1>0. /\ admin \in [Admins -> Job] /\ admin[a] \in Job /\ Steady(admin[a]) /\ Tied
      /\ TablesOK /\ TablesTyped(providers, channels, accounts, models, routes)
    BY DEF ReferInv, StoreInv, TypeOK, TablesOK
<1>1. ASSUME NEW j, Request(a), UNCHANGED tables, Sets(a, j), j.op = "erase",
             Established(j)'
      PROVE  Tied' /\ Undisturbed'
  <2>1. Grown /\ UNCHANGED routes /\ Tied'
      BY <1>0, <1>1 DEF Grown, Tied, tables
  <2>2. Beside(a) /\ admin[a].op = "idle"
      BY <1>1 DEF Request, Idle
  <2>3. ~disturbed' => RoutesWhole'
      BY <2>1, <2>2, AloneBefore, RoutesWholeKept
  <2>4. ~disturbed' => /\ Established(j)'
                       /\ j.op \notin {"list", "rewrite"} => RoutesWhole'
      BY <1>1, <2>3
  <2>5. QED
      BY <1>1, <2>1, <2>2, <2>4, AloneAfter
<1>2. ASSUME NEW c \in ChannelIds, DeleteChannel(a, c) PROVE Tied' /\ Undisturbed'
  <2>1. PICK j : j = Erase("channel", channels[c].provider, {c})
      OBVIOUS
  <2>2. Request(a) /\ UNCHANGED tables /\ Sets(a, j) /\ c \in DOMAIN channels
      BY <1>2, <2>1 DEF DeleteChannel, Sets
  <2>3. j.op = "erase" /\ j.what = "channel" /\ j.provider = channels[c].provider /\ j.gone = {c}
      BY <2>1 DEF Erase
  <2>4. j.provider \in DOMAIN providers
      BY <1>0, <2>2, <2>3 DEF Tied
  <2>5. channels' = channels /\ providers' = providers
      BY <2>2 DEF tables
  <2>6. Established(j)'
      BY <2>2, <2>3, <2>4, <2>5 DEF Established
  <2>7. QED
      BY <1>1, <2>2, <2>3, <2>6
<1>3. ASSUME NEW p \in ProviderIds, DeleteProvider(a, p) PROVE Tied' /\ Undisturbed'
  <2>1. PICK j : j = Erase("provider", p, {c \in DOMAIN channels : channels[c].provider = p})
      OBVIOUS
  <2>2. Request(a) /\ UNCHANGED tables /\ Sets(a, j) /\ p \in DOMAIN providers
      BY <1>3, <2>1 DEF DeleteProvider, Sets
  <2>3. /\ j.op = "erase" /\ j.what = "provider" /\ j.provider = p
        /\ j.gone = {c \in DOMAIN channels : channels[c].provider = p}
      BY <2>1 DEF Erase
  <2>4. channels' = channels /\ providers' = providers
      BY <2>2 DEF tables
  <2>5. Established(j)'
      BY <2>2, <2>3, <2>4 DEF Established
  <2>6. QED
      BY <1>1, <2>2, <2>3, <2>5
<1>4. ASSUME EraseRow(a) PROVE Tied' /\ Undisturbed'
  <2>1. PICK job : job = admin[a]
      OBVIOUS
  <2>2. PICK next : next = [job EXCEPT !.op = "list"]
      OBVIOUS
  <2>3. /\ job.op = "erase" /\ Beside(a) /\ UNCHANGED routes
        /\ \/ /\ job.what = "channel"
              /\ channels' = Drop(channels, job.gone) /\ UNCHANGED providers
              /\ IF job.gone \subseteq DOMAIN channels THEN Sets(a, next) ELSE Sets(a, Idle)
           \/ /\ job.what = "provider"
              /\ providers' = Drop(providers, {job.provider})
              /\ channels' = Drop(channels, {x \in DOMAIN channels :
                                                channels[x].provider = job.provider})
              /\ IF job.provider \in DOMAIN providers THEN Sets(a, next) ELSE Sets(a, Idle)
      BY <1>4, <2>1, <2>2 DEF EraseRow, Continue, Sets
  <2>4. /\ job \in [op : {"erase", "list"}, what : {"channel", "provider"},
                    provider : ProviderIds, gone : SUBSET ChannelIds]
      BY <1>0, <2>1, <2>3, Kinds
  <2>5. /\ next.op = "list" /\ next.what = job.what
        /\ next.provider = job.provider /\ next.gone = job.gone
      BY <2>2, <2>4
  <2>6. Tied'
    <3>1. CASE job.what = "channel"
        BY <1>0, <2>3, <3>1 DEF Tied, Drop
    <3>2. CASE job.what = "provider"
        BY <1>0, <2>3, <3>2 DEF Tied, Drop
    <3>3. QED
        BY <2>3, <3>1, <3>2
  <2>7. ASSUME ~disturbed' PROVE Sets(a, next) /\ Established(next)'
    <3>1. Established(job) /\ RoutesWhole
        BY <2>1, <2>3, <2>7, AloneBefore
    <3>2. \A n \in DOMAIN routes : /\ DOMAIN routes[n] \subseteq Nat
                                   /\ \A i \in DOMAIN routes[n] : Refers(routes[n][i])
        BY <1>0, <3>1 DEF RoutesWhole, Whole, TablesTyped
    <3>3. CASE job.what = "channel"
      <4>1. /\ job.provider \in DOMAIN providers
            /\ \E c \in ChannelIds : job.gone = {c}
            /\ \A c \in job.gone : c \in DOMAIN channels /\ channels[c].provider = job.provider
          BY <2>3, <3>1, <3>3 DEF Established
      <4>2. Sets(a, next)
          BY <2>3, <3>3, <4>1
      <4>3. channels' = Drop(channels, job.gone) /\ providers' = providers
          BY <2>3, <3>3
      <4>4. ASSUME NEW t, Refers(t) PROVE Refers(t)' \/ Touched(next, t)
        <5>1. CASE t.channel \in job.gone
          <6>1. t.channel # 0
              BY <4>1, <5>1, IdsArePositive
          <6>2. QED
              BY <2>5, <3>3, <4>1, <4>4, <5>1, <6>1 DEF Refers, RefersTo, Touched
        <5>2. CASE t.channel \notin job.gone
            BY <4>3, <4>4, <5>2 DEF Refers, RefersTo, Drop
        <5>3. QED
            BY <5>1, <5>2
      <4>5. \A n \in DOMAIN routes' : \A i \in DOMAIN routes'[n] :
                Refers(routes[n][i])' \/ Touched(next, routes'[n][i])
          BY <2>3, <3>2, <4>4
      <4>6. QED
          BY <2>5, <3>3, <4>1, <4>2, <4>3, <4>5 DEF Established, Touched
    <3>4. CASE job.what = "provider"
      <4>1. /\ job.provider \in DOMAIN providers
            /\ \A c \in DOMAIN channels : channels[c].provider = job.provider => c \in job.gone
          BY <2>3, <3>1, <3>4 DEF Established
      <4>2. Sets(a, next)
          BY <2>3, <3>4, <4>1
      <4>3. /\ providers' = Drop(providers, {job.provider})
            /\ channels' = Drop(channels, {x \in DOMAIN channels :
                                              channels[x].provider = job.provider})
          BY <2>3, <3>4
      <4>4. ASSUME NEW t, Refers(t) PROVE Refers(t)' \/ Touched(next, t)
        <5>1. CASE t.provider = job.provider \/ t.channel \in job.gone
            BY <2>5, <3>4, <5>1 DEF Touched
        <5>2. CASE ~(t.provider = job.provider \/ t.channel \in job.gone)
          <6>1. t.provider = 0 \/ t.provider \in DOMAIN providers'
              BY <4>3, <4>4, <5>2 DEF Refers, RefersTo, Drop
          <6>2. ASSUME t.channel # 0
                PROVE  /\ t.channel \in DOMAIN channels'
                       /\ t.provider \in {0, channels'[t.channel].provider}
            <7>1. /\ t.channel \in DOMAIN channels
                  /\ t.provider \in {0, channels[t.channel].provider}
                BY <4>4, <6>2 DEF Refers, RefersTo
            <7>2. channels[t.channel].provider # job.provider
                BY <4>1, <5>2, <7>1
            <7>3. QED
                BY <4>3, <7>1, <7>2 DEF Drop
          <6>3. QED
              BY <6>1, <6>2 DEF Refers, RefersTo
        <5>3. QED
            BY <5>1, <5>2
      <4>5. \A n \in DOMAIN routes' : \A i \in DOMAIN routes'[n] :
                Refers(routes[n][i])' \/ Touched(next, routes'[n][i])
          BY <2>3, <3>2, <4>4
      <4>6. QED
          BY <2>5, <3>4, <4>2, <4>5 DEF Established, Touched
    <3>5. QED
        BY <2>4, <3>3, <3>4
  <2>8. CASE disturbed'
      BY <2>6, <2>8 DEF Undisturbed
  <2>9. CASE ~disturbed'
    <3>1. ~disturbed' => /\ Established(next)'
                         /\ next.op \notin {"list", "rewrite"} => RoutesWhole'
        BY <2>5, <2>7
    <3>2. QED
        BY <2>3, <2>6, <2>7, <2>9, <3>1, AloneAfter
  <2>10. QED
      BY <2>8, <2>9
<1>5. ASSUME ListRoutes(a) PROVE Tied' /\ Undisturbed'
  <2>1. PICK job : job = admin[a]
      OBVIOUS
  <2>2. PICK todo : todo = Rewrites(job)
      OBVIOUS
  <2>3. PICK j : j = IF todo = <<>> THEN Idle ELSE [op |-> "rewrite", todo |-> todo]
      OBVIOUS
  <2>4. job.op = "list" /\ job \in Job /\ Beside(a) /\ UNCHANGED tables /\ Sets(a, j)
      BY <1>0, <1>5, <2>1, <2>2, <2>3 DEF ListRoutes, Continue, Sets
  <2>5. Tied'
      BY <1>0, <2>4 DEF Tied, tables
  <2>6. /\ todo \in Seq([name : Name, chain : Seq(Target)])
        /\ \A i \in DOMAIN todo : /\ todo[i].name \in DOMAIN routes
                                  /\ todo[i].chain = Cleaned(job, routes[todo[i].name])
        /\ \A i, k \in DOMAIN todo : todo[i].name = todo[k].name => i = k
        /\ \A n \in DOMAIN routes : \/ Cleaned(job, routes[n]) = routes[n]
                                    \/ \E i \in DOMAIN todo : todo[i].name = n
    <3>1. /\ Rewrites(job) \in Seq([name : Name, chain : Seq(Target)])
          /\ \A i \in DOMAIN Rewrites(job) :
                /\ Rewrites(job)[i].name \in Range(RouteOrder)
                /\ Rewrites(job)[i].name \in DOMAIN routes
                /\ Rewrites(job)[i].chain = Cleaned(job, routes[Rewrites(job)[i].name])
          /\ \A i, k \in DOMAIN Rewrites(job) :
                Rewrites(job)[i].name = Rewrites(job)[k].name => i = k
          /\ \A n \in DOMAIN routes \cap Range(RouteOrder) :
                \/ Cleaned(job, routes[n]) = routes[n]
                \/ \E i \in DOMAIN Rewrites(job) : Rewrites(job)[i].name = n
        BY <1>0, <2>4, RewritesFacts, Zenon
    <3>2. \A n \in DOMAIN routes : n \in Range(RouteOrder)
        BY <1>0 DEF Tied
    <3>3. QED
        BY <2>2, <3>1, <3>2, Zenon
  <2>7. ASSUME ~disturbed'
        PROVE  Established(j)' /\ (j.op \notin {"list", "rewrite"} => RoutesWhole')
    <3>1. Established(job)
        BY <2>1, <2>4, <2>7, AloneBefore
    <3>2. \A n \in DOMAIN routes : Whole(Cleaned(job, routes[n]))
      <4>1. \A n \in DOMAIN routes : routes[n] \in Seq(Target)
          BY <1>0 DEF TablesTyped
      <4>2. \A n \in DOMAIN routes : \A i \in DOMAIN routes[n] :
                Refers(routes[n][i]) \/ Touched(job, routes[n][i])
          BY <2>4, <3>1 DEF Established
      <4>3. QED
          BY <2>4, <3>1, <4>1, <4>2, CleanedWhole
    <3>3. Grown /\ routes' = routes
        BY <2>4 DEF Grown, tables
    <3>4. CASE todo = <<>>
      <4>1. DOMAIN todo = {}
          BY <3>4
      <4>2. RoutesWhole
          BY <2>6, <3>2, <4>1 DEF RoutesWhole
      <4>3. j.op = "idle"
          BY <2>3, <3>4 DEF Idle
      <4>4. RoutesWhole'
          BY <3>3, <4>2, RoutesWholeKept
      <4>5. QED
          BY <4>3, <4>4, NothingEstablished
    <3>5. CASE todo # <<>>
      <4>1. j.op = "rewrite" /\ j.todo = todo
          BY <2>3, <3>5
      <4>2. \A i \in DOMAIN todo : Whole(todo[i].chain)
          BY <2>6, <3>2
      <4>3. \A i \in DOMAIN todo : Whole(todo[i].chain)'
          BY <3>3, <4>2, WholeKept
      <4>4. \A n \in DOMAIN routes : Whole(routes[n]) \/ \E i \in DOMAIN todo : todo[i].name = n
          BY <2>6, <3>2
      <4>5. \A n \in DOMAIN routes : Whole(routes[n])' \/ \E i \in DOMAIN todo : todo[i].name = n
          BY <2>4, <4>4 DEF Whole, Refers, tables
      <4>6. QED
          BY <2>6, <3>3, <4>1, <4>3, <4>5 DEF Established
    <3>6. QED
        BY <3>4, <3>5
  <2>8. QED
      BY <2>4, <2>5, <2>7, AloneAfter
<1>6. ASSUME RewriteRoute(a) PROVE Tied' /\ Undisturbed'
  <2>1. PICK job : job = admin[a]
      OBVIOUS
  <2>2. PICK todo : todo = job.todo
      OBVIOUS
  <2>3. PICK it : it = Head(todo)
      OBVIOUS
  <2>4. PICK j : j = IF (it.chain = <<>> /\ it.name \notin DOMAIN routes) \/ Len(todo) = 1
                     THEN Idle ELSE [job EXCEPT !.todo = Tail(todo)]
      OBVIOUS
  <2>5. /\ job.op = "rewrite" /\ Beside(a) /\ Sets(a, j)
        /\ routes' = IF it.chain = <<>> THEN Drop(routes, {it.name})
                     ELSE Put(routes, it.name, it.chain)
        /\ UNCHANGED <<providers, channels>>
      BY <1>6, <2>1, <2>2, <2>3, <2>4 DEF RewriteRoute, Continue, Sets
  <2>6. /\ todo \in Seq([name : Name, chain : Seq(Target)]) /\ todo # <<>>
        /\ \A i \in DOMAIN todo : todo[i].name \in Range(RouteOrder)
        /\ job = [op |-> "rewrite", todo |-> todo]
      BY <1>0, <2>1, <2>2, <2>5, Kinds DEF Steady
  <2>7. /\ Len(todo) \in Nat /\ DOMAIN todo = 1..Len(todo)
        /\ 1 \in DOMAIN todo /\ it = todo[1]
      BY <2>3, <2>6
  <2>8. Tied' /\ Grown
    <3>1. it.name \in Range(RouteOrder)
        BY <2>6, <2>7
    <3>2. QED
        BY <1>0, <2>5, <3>1 DEF Tied, Grown, Put, Drop
  <2>9. ASSUME ~disturbed'
        PROVE  Established(j)' /\ (j.op \notin {"list", "rewrite"} => RoutesWhole')
    <3>1. /\ \A i \in DOMAIN todo : Whole(todo[i].chain) /\ todo[i].name \in DOMAIN routes
          /\ \A i, k \in DOMAIN todo : todo[i].name = todo[k].name => i = k
          /\ \A n \in DOMAIN routes :
                Whole(routes[n]) \/ \E i \in DOMAIN todo : todo[i].name = n
        BY <2>1, <2>2, <2>5, <2>9, AloneBefore DEF Established
    <3>2. \A n \in DOMAIN routes' :
              \/ n = it.name /\ routes'[n] = it.chain
              \/ n # it.name /\ n \in DOMAIN routes /\ routes'[n] = routes[n]
        BY <2>5 DEF Put, Drop
    <3>3. ASSUME NEW n \in DOMAIN routes'
          PROVE  \/ Whole(routes'[n])
                 \/ \E i \in DOMAIN todo : i # 1 /\ todo[i].name = n
      <4>1. CASE n = it.name
          BY <2>7, <3>1, <3>2, <4>1
      <4>2. CASE n # it.name
          BY <2>7, <3>1, <3>2, <4>2
      <4>3. QED
          BY <4>1, <4>2
    <3>4. \A n \in DOMAIN routes' :
              \/ Whole(routes[n])'
              \/ \E i \in DOMAIN todo : i # 1 /\ todo[i].name = n
        BY <2>5, <3>3 DEF Whole, Refers
    <3>5. CASE Len(todo) = 1
      <4>1. \A i \in DOMAIN todo : i = 1
          BY <2>7, <3>5
      <4>2. RoutesWhole'
          BY <3>4, <4>1 DEF RoutesWhole
      <4>3. j.op = "idle"
          BY <2>4, <3>5 DEF Idle
      <4>4. QED
          BY <4>2, <4>3, NothingEstablished
    <3>6. CASE Len(todo) # 1
      <4>1. j = [op |-> "rewrite", todo |-> Tail(todo)]
          BY <2>4, <2>6, <2>7, <3>1, <3>6
      <4>2. PICK rest : rest = Tail(todo)
          OBVIOUS
      <4>3. /\ rest \in Seq([name : Name, chain : Seq(Target)])
            /\ Len(rest) = Len(todo) - 1
            /\ \A i \in 1..Len(rest) : rest[i] = todo[i + 1]
          BY <2>6, <4>2, HeadTailProperties
      <4>4. DOMAIN rest = 1..Len(rest) /\ Len(rest) \in Nat
          BY <4>3
      <4>5. \A i \in DOMAIN rest : /\ i + 1 \in DOMAIN todo /\ i + 1 # 1
                                   /\ rest[i] = todo[i + 1]
          BY <2>7, <4>3, <4>4
      <4>6. \A i \in DOMAIN todo : i # 1 => i - 1 \in DOMAIN rest /\ rest[i - 1] = todo[i]
        <5>1. SUFFICES ASSUME NEW i \in DOMAIN todo, i # 1
                       PROVE  i - 1 \in DOMAIN rest /\ rest[i - 1] = todo[i]
            OBVIOUS
        <5>2. i \in 1..Len(todo) /\ i - 1 \in 1..Len(rest)
            BY <2>7, <4>3, <4>4, <5>1
        <5>3. (i - 1) + 1 = i
            BY <5>2
        <5>4. QED
            BY <4>3, <4>4, <5>2, <5>3
      <4>7. \A i \in DOMAIN rest : Whole(rest[i].chain)
          BY <3>1, <4>5
      <4>8. \A i \in DOMAIN rest : Whole(rest[i].chain)'
          BY <2>8, <4>7, WholeKept
      <4>9. \A i \in DOMAIN rest : rest[i].name \in DOMAIN routes'
        <5>1. \A i \in DOMAIN rest : rest[i].name \in DOMAIN routes /\ rest[i].name # it.name
            BY <2>7, <3>1, <4>5
        <5>2. QED
            BY <2>5, <5>1 DEF Put, Drop
      <4>10. \A i, k \in DOMAIN rest : rest[i].name = rest[k].name => i = k
        <5>1. SUFFICES ASSUME NEW i \in DOMAIN rest, NEW k \in DOMAIN rest,
                              rest[i].name = rest[k].name
                       PROVE  i = k
            OBVIOUS
        <5>2. i + 1 = k + 1
            BY <3>1, <4>5, <5>1
        <5>3. i \in Nat /\ k \in Nat
            BY <4>4
        <5>4. QED
            BY <5>2, <5>3
      <4>11. \A n \in DOMAIN routes' :
                Whole(routes[n])' \/ \E i \in DOMAIN rest : rest[i].name = n
          BY <3>4, <4>6
      <4>12. j.op = "rewrite" /\ j.todo = rest
          BY <4>1, <4>2
      <4>13. QED
          BY <4>8, <4>9, <4>10, <4>11, <4>12 DEF Established
    <3>7. QED
        BY <3>5, <3>6
  <2>10. QED
      BY <2>5, <2>8, <2>9, AloneAfter
<1>7. QED
    BY <1>2, <1>3, <1>4, <1>5, <1>6 DEF Erasure

\* ... and the end of a handler, which disturbs once its row is gone.
LEMMA AbortRefers ==
    ASSUME ReferInv, NEW a \in Admins, Abort(a)
    PROVE  Tied' /\ Undisturbed'
<1>1. /\ admin \in [Admins -> Job] /\ admin[a] # Idle /\ admin' = [admin EXCEPT ![a] = Idle]
      /\ disturbed' = (disturbed \/ admin[a].op \in {"list", "rewrite"})
      /\ UNCHANGED tables
    BY DEF ReferInv, StoreInv, TypeOK, Abort
<1>2. Tied' /\ Grown /\ UNCHANGED routes
    BY <1>1 DEF ReferInv, Tied, Grown, tables
<1>3. ASSUME ~disturbed'
      PROVE  /\ \A b, c \in Admins : admin'[b] # Idle /\ admin'[c] # Idle => b = c
             /\ (\A b \in Admins : admin'[b].op \notin {"list", "rewrite"}) => RoutesWhole'
             /\ \A b \in Admins : Established(admin[b])'
  <2>1. /\ \A b \in Admins : b # a => admin[b] = Idle
        /\ admin[a].op \notin {"list", "rewrite"}
        /\ ~disturbed
      BY <1>1, <1>3 DEF ReferInv, Undisturbed
  <2>2. \A b \in Admins : admin[b].op \notin {"list", "rewrite"}
      BY <2>1 DEF Idle
  <2>3. RoutesWhole'
      BY <1>2, <2>1, <2>2, RoutesWholeKept DEF ReferInv, Undisturbed
  <2>4. \A b \in Admins : admin'[b] = Idle
      BY <1>1, <2>1
  <2>5. \A b \in Admins : Established(admin[b])'
      BY <2>4 DEF Established, Idle
  <2>6. QED
      BY <2>3, <2>4, <2>5
<1>4. Undisturbed'
    BY <1>3, Zenon DEF Undisturbed, Idle
<1>5. QED
    BY <1>2, <1>4

\* The references hold at first and every step keeps them.
LEMMA ReferInvStep == ReferInv /\ [Next]_vars => ReferInv'
<1>1. SUFFICES ASSUME ReferInv, [Next]_vars PROVE ReferInv'
    OBVIOUS
<1>2. StoreInv'
    BY <1>1, StoreInvStep DEF ReferInv
<1>3. ASSUME Next PROVE Tied' /\ Undisturbed'
    BY <1>1, <1>3, RegistryRefers, RouteEditRefers, ErasureRefers, AbortRefers DEF Next
<1>4. ASSUME UNCHANGED vars PROVE Tied' /\ Undisturbed'
  <2>1. Tied'
      BY <1>1, <1>4 DEF vars, tables, ReferInv, Tied
  <2>2. /\ providers' = providers /\ channels' = channels /\ routes' = routes
        /\ admin' = admin /\ disturbed' = disturbed
      BY <1>4 DEF vars, tables
  <2>3. RoutesWhole => RoutesWhole'
      BY <2>2 DEF RoutesWhole, Whole, Refers
  <2>4. \A b \in Admins : Established(admin[b]) => Established(admin[b])'
      BY <2>2 DEF Established, Whole, Refers
  <2>5. QED
      BY <1>1, <2>1, <2>2, <2>3, <2>4 DEF ReferInv, Undisturbed, Idle
<1>5. QED
    BY <1>1, <1>2, <1>3, <1>4 DEF ReferInv

\* The references of the database a run starts from hold.
LEMMA ReferInvInit == Init => ReferInv
<1>1. SUFFICES ASSUME Init PROVE ReferInv
    OBVIOUS
<1>2. PICK d \in Databases : /\ providers = d.providers
                             /\ channels = d.channels
                             /\ accounts = d.accounts
                             /\ models = d.models
                             /\ routes = d.routes
    BY <1>1 DEF Init
<1>3. /\ \A c \in DOMAIN channels : channels[c].provider \in DOMAIN providers
      /\ \A n \in DOMAIN routes :
            /\ n \in Range(RouteOrder)
            /\ \A i \in DOMAIN routes[n] : RefersTo(routes[n][i], providers, channels)
    BY <1>2, DatabasesAssumption
<1>4. Tied /\ RoutesWhole
    BY <1>3 DEF Tied, RoutesWhole, Whole, Refers
<1>5. \A a \in Admins : admin[a] = Idle
    BY <1>1 DEF Init
<1>6. \A a \in Admins : Established(admin[a])
    BY <1>5 DEF Established, Idle
<1>7. QED
    BY <1>1, <1>4, <1>5, <1>6, StoreInvInit DEF ReferInv, Undisturbed

\* However many admins change the tables, and in whatever order: as long as
\* none of their handlers ran beside another and none ended half way, every
\* target of every route names rows that are there whenever none is at work.
THEOREM RoutesReferAlways == Spec => []RoutesRefer
<1>1. Spec => []ReferInv
    BY ReferInvInit, ReferInvStep, PTL DEF Spec
<1>2. ReferInv => RoutesRefer
  <2>1. SUFFICES ASSUME ReferInv, ~disturbed, \A a \in Admins : admin[a] = Idle
                 PROVE  \A n \in DOMAIN routes : \A i \in DOMAIN routes[n] :
                            Refers(routes[n][i])
      BY DEF RoutesRefer
  <2>2. \A a \in Admins : admin[a].op \notin {"list", "rewrite"}
      BY <2>1 DEF Idle
  <2>3. RoutesWhole
      BY <2>1, <2>2 DEF ReferInv, Undisturbed
  <2>4. QED
      BY <2>3 DEF RoutesWhole, Whole
<1>3. QED
    BY <1>1, <1>2, PTL

-----------------------------------------------------------------------------
(* The Anthropic listing *)

\* Names with the same parts are the same.
LEMMA SameName ==
    ASSUME NEW m \in Name, NEW n \in Name,
           m.base = n.base, m.claude = n.claude, m.mark = n.mark
    PROVE  m = n
    BY DEF Name

\* How the decorations of a name go together.
LEMMA Decorations ==
    ASSUME NEW n \in Name
    PROVE  /\ Mark(n) \in Name /\ Unmark(n) \in Name /\ Claude(n) \in Name
           /\ Mark(n).mark /\ Mark(n).claude = n.claude
           /\ Claude(n).claude /\ Claude(n).mark = n.mark
           /\ ~Unmark(n).mark /\ Unmark(n).claude = n.claude
           /\ ~n.mark => Unmark(n) = n /\ Unmark(Mark(n)) = n
           /\ ~n.claude => Bare(Claude(n)) = n
           /\ Unmark(Claude(n)) = Claude(Unmark(n))
<1>1. ASSUME NEW m \in Name
      PROVE  /\ Mark(m) \in Name /\ Unmark(m) \in Name
             /\ Claude(m) \in Name /\ Bare(m) \in Name
    BY DEF Mark, Unmark, Claude, Bare, Name
<1>2. ASSUME NEW m \in Name
      PROVE  /\ Mark(m).base = m.base /\ Mark(m).claude = m.claude /\ Mark(m).mark = TRUE
             /\ Unmark(m).base = m.base /\ Unmark(m).claude = m.claude /\ Unmark(m).mark = FALSE
             /\ Claude(m).base = m.base /\ Claude(m).claude = TRUE /\ Claude(m).mark = m.mark
             /\ Bare(m).base = m.base /\ Bare(m).claude = FALSE /\ Bare(m).mark = m.mark
    BY DEF Mark, Unmark, Claude, Bare, Name
<1>3. \A m \in Name : m.claude \in BOOLEAN /\ m.mark \in BOOLEAN
    BY DEF Name
<1>4. ASSUME ~n.mark PROVE Unmark(n) = n /\ Unmark(Mark(n)) = n
  <2>1. /\ Unmark(n) \in Name /\ Unmark(n).base = n.base
        /\ Unmark(n).claude = n.claude /\ Unmark(n).mark = n.mark
      BY <1>1, <1>2, <1>3, <1>4
  <2> DEFINE x == Mark(n)
  <2>2. x \in Name /\ x.base = n.base /\ x.claude = n.claude
      BY <1>1, <1>2
  <2> HIDE DEF x
  <2>3. /\ Unmark(x) \in Name /\ Unmark(x).base = x.base
        /\ Unmark(x).claude = x.claude /\ Unmark(x).mark = FALSE
      BY <1>1, <1>2, <2>2
  <2>4. n.mark = FALSE
      BY <1>3, <1>4
  <2>5. Unmark(x) = n
      BY <2>2, <2>3, <2>4, SameName
  <2>6. QED
      BY <2>1, <2>5, SameName DEF x
<1>5. ASSUME ~n.claude PROVE Bare(Claude(n)) = n
  <2> DEFINE x == Claude(n)
  <2>1. x \in Name /\ x.base = n.base /\ x.mark = n.mark
      BY <1>1, <1>2
  <2> HIDE DEF x
  <2>2. /\ Bare(x) \in Name /\ Bare(x).base = x.base
        /\ Bare(x).claude = FALSE /\ Bare(x).mark = x.mark
      BY <1>1, <1>2, <2>1
  <2>3. n.claude = FALSE
      BY <1>3, <1>5
  <2>4. Bare(x) = n
      BY <2>1, <2>2, <2>3, SameName
  <2>5. QED
      BY <2>4 DEF x
<1>6. Unmark(Claude(n)) = Claude(Unmark(n))
  <2> DEFINE x == Claude(n)
             y == Unmark(n)
             u == Unmark(x)
             v == Claude(y)
  <2>1. x \in Name /\ x.base = n.base /\ x.claude = TRUE
      BY <1>1, <1>2
  <2>2. y \in Name /\ y.base = n.base /\ y.mark = FALSE
      BY <1>1, <1>2
  <2> HIDE DEF x, y
  <2>3. /\ u \in Name /\ u.base = n.base /\ u.claude = TRUE /\ u.mark = FALSE
      BY <1>1, <1>2, <2>1
  <2>4. /\ v \in Name /\ v.base = n.base /\ v.claude = TRUE /\ v.mark = FALSE
      BY <1>1, <1>2, <2>2
  <2> HIDE DEF u, v
  <2>5. u = v
      BY <2>3, <2>4, SameName
  <2>6. QED
      BY <2>5 DEF u, v, x, y
<1>7. QED
    BY <1>1, <1>2, <1>4, <1>5, <1>6

\* What is served is listed, and listed names are names.
LEMMA ServedIsListed ==
    ASSUME TablesOK
    PROVE  /\ Listed \subseteq Name
           /\ \A n, prefer : Direct(n, prefer) # {} => n \in Listed
<1>1. Listed \subseteq Name
    BY DEF TablesOK, TablesTyped, Listed
<1>2. ASSUME NEW n, NEW prefer, Direct(n, prefer) # {}, n \notin DOMAIN routes
      PROVE  n \in Listed
  <2>1. RowChain(n, prefer) # {}
      BY <1>2 DEF Direct
  <2>2. PICK c \in Serving(n) : TRUE
      BY <2>1 DEF RowChain
  <2> DEFINE k == <<channels[c].provider, n>>
  <2>3. /\ c \in LiveChannels /\ c \in DOMAIN channels
        /\ k \in DOMAIN models /\ models[k].enabled
      BY <2>2 DEF Serving, LiveChannels
  <2>4. channels[c].provider \in ProviderIds
      BY <2>3 DEF TablesOK, TablesTyped, Channel
  <2>5. c \in LiveOf(channels[c].provider)
      BY <2>3 DEF LiveOf
  <2>6. channels[c].provider \in ListedRows(n)
      BY <2>3, <2>4, <2>5 DEF ListedRows
  <2>7. k[1] = channels[c].provider /\ k[2] = n
      OBVIOUS
  <2>8. k \in {j \in DOMAIN models : j[1] \in ListedRows(j[2])}
    <3> HIDE DEF k
    <3>1. QED
        BY <2>3, <2>6, <2>7
  <2> HIDE DEF k
  <2>9. QED
      BY <2>7, <2>8 DEF Listed
<1>3. ASSUME NEW n, n \in DOMAIN routes PROVE n \in Listed
    BY <1>3 DEF Listed
<1>4. QED
    BY <1>1, <1>2, <1>3

\* A name whose rows tell a window is served by them.
LEMMA WindowIsServed ==
    ASSUME TablesOK, NEW n, NEW prefer, Window(n) = 2
    PROVE  Direct(n, prefer) # {}
<1>1. PICK p \in ListedRows(n) : TRUE
    BY DEF Window
<1>2. <<p, n>> \in DOMAIN models /\ models[<<p, n>>].enabled /\ LiveOf(p) # {}
    BY <1>1 DEF ListedRows
<1>3. PICK c \in LiveChannels : channels[c].provider = p
    BY <1>2 DEF LiveOf
<1>4. c \in Serving(n)
    BY <1>2, <1>3 DEF Serving
<1>5. RowChain(n, prefer) # {}
    BY <1>4 DEF RowChain
<1>6. QED
    BY <1>5 DEF Direct

\* The marked mirror of a listed name stands for a name with a window.
LEMMA ContextVariant ==
    ASSUME TablesOK, NEW v \in ContextVariants
    PROVE  /\ v \in Name /\ v.mark
           /\ Unmark(v) \in Listed /\ Window(Unmark(v)) = 2
<1>1. PICK m \in Listed : Window(m) = 2 /\ ~m.mark /\ v = Mark(m)
    BY DEF ContextVariants
<1>2. m \in Name
    BY ServedIsListed
<1>3. QED
    BY <1>1, <1>2, Decorations

\* A claude- mirror takes a name that is free.
LEMMA DiscoveryVariant ==
    ASSUME NEW d \in DiscoveryVariants
    PROVE  /\ d \notin Listed \cup ContextVariants
           /\ \E m \in Listed \cup ContextVariants : ~m.claude /\ d = Claude(m)
    BY DEF DiscoveryVariants

\* First half: a listed form for every listed name.
LEMMA ListedLeadsHome ==
    ASSUME TablesOK, NEW prefer \in Surfaces, NEW n \in Listed, ~Misleading(n)
    PROVE  \E form \in AnthropicListing : Matched(form, prefer) = {n}
<1>1. n \in Name
    BY ServedIsListed
<1>2. ~n.mark /\ Direct(n, prefer) # {} /\ (Window(n) = 2 => Claude(n) \notin Listed)
  <2>1. PICK p \in Surfaces : Direct(n, p) # {}
      BY DEF Misleading
  <2>2. QED
      BY <2>1, DirectOnEverySurface, SurfacesArePreferences DEF Misleading
<1>3. Unmark(n) = n /\ Unmark(Mark(n)) = n
    BY <1>1, <1>2, Decorations
<1>4. ASSUME ~n.claude, Claude(n) \notin Listed, NEW form, Unmark(form) = Claude(n)
      PROVE  Matched(form, prefer) = {n}
  <2>1. Direct(Claude(n), prefer) = {}
      BY <1>4, ServedIsListed
  <2>2. Claude(n).claude /\ Bare(Claude(n)) = n
      BY <1>1, <1>4, Decorations
  <2>3. QED
      BY <1>2, <1>4, <2>1, <2>2 DEF Matched
<1>5. ASSUME NEW form, Unmark(form) = n PROVE Matched(form, prefer) = {n}
    BY <1>2, <1>5 DEF Matched
<1>6. CASE Mark(n) \in ContextVariants
  <2>1. Window(n) = 2
      BY <1>3, <1>6, ContextVariant
  <2>2. Mark(n) \in Name /\ Mark(n).claude = n.claude /\ Mark(n).mark
      BY <1>1, Decorations
  <2>3. CASE ~n.claude /\ Claude(Mark(n)) \in DiscoveryVariants
    <3>1. Claude(Mark(n)).mark
        BY <2>2, Decorations
    <3>2. Unmark(Claude(Mark(n))) = Claude(n)
        BY <1>3, <2>2, Decorations
    <3>3. Matched(Claude(Mark(n)), prefer) = {n}
        BY <1>2, <1>4, <2>1, <2>3, <3>2
    <3>4. Claude(Mark(n)) \in AnthropicListing
        BY <2>3, <3>1 DEF AnthropicListing
    <3>5. QED
        BY <3>3, <3>4
  <2>4. CASE ~(~n.claude /\ Claude(Mark(n)) \in DiscoveryVariants)
    <3>1. Mark(n) \in AnthropicListing
        BY <1>6, <2>2, <2>4 DEF AnthropicListing
    <3>2. QED
        BY <1>3, <1>5, <3>1
  <2>5. QED
      BY <2>3, <2>4
<1>7. CASE Mark(n) \notin ContextVariants
  <2>1. CASE ~n.claude /\ Claude(n) \in DiscoveryVariants
    <3>1. Claude(n) \notin Listed
        BY <2>1, DiscoveryVariant
    <3>2. Bare(Claude(n)) = n /\ Unmark(Claude(n)) = Claude(n)
        BY <1>1, <1>3, <2>1, Decorations
    <3>3. Matched(Claude(n), prefer) = {n}
        BY <1>4, <2>1, <3>1, <3>2
    <3>4. Claude(n) \in AnthropicListing
        BY <1>7, <2>1, <3>2 DEF AnthropicListing
    <3>5. QED
        BY <3>3, <3>4
  <2>2. CASE ~(~n.claude /\ Claude(n) \in DiscoveryVariants)
    <3>1. n \in AnthropicListing
        BY <1>7, <2>2 DEF AnthropicListing
    <3>2. QED
        BY <1>3, <1>5, <3>1
  <2>3. QED
      BY <2>1, <2>2
<1>8. QED
    BY <1>6, <1>7

\* Second half: a listed form that leads nowhere is the form of a dead route.
LEMMA FormLeadsHome ==
    ASSUME TablesOK, NEW prefer \in Surfaces, NEW form \in AnthropicListing,
           Matched(form, prefer) = {}
    PROVE  \E n \in Listed : Misleading(n) /\ form \in {n, Claude(n)}
<1>1. form \in Listed \/ form \in ContextVariants \/ form \in DiscoveryVariants
    BY DEF AnthropicListing
<1>2. Direct(Unmark(form), prefer) = {}
    BY DEF Matched
<1>3. ASSUME NEW n \in Listed, n.mark \/ Direct(n, prefer) = {}
      PROVE  Misleading(n)
    BY <1>3, DirectOnEverySurface, SurfacesArePreferences DEF Misleading
<1>4. \A v \in ContextVariants : Direct(Unmark(v), prefer) # {}
    BY ContextVariant, WindowIsServed
<1>5. \A n \in Listed : n \in Name /\ (n.mark \/ Unmark(n) = n)
    BY ServedIsListed, Decorations
<1>6. CASE form \in Listed
    BY <1>2, <1>3, <1>5, <1>6
<1>7. CASE form \in ContextVariants
    BY <1>2, <1>4, <1>7
<1>8. CASE form \in DiscoveryVariants
  <2>1. PICK m \in Listed \cup ContextVariants : ~m.claude /\ form = Claude(m)
      BY <1>8, DiscoveryVariant
  <2>2. m \in Name
      BY ContextVariant, ServedIsListed
  <2>3. /\ Unmark(m) \in Name /\ ~Unmark(m).claude
        /\ Unmark(form) = Claude(Unmark(m))
      BY <2>1, <2>2, Decorations
  <2>4. Claude(Unmark(m)).claude /\ Bare(Claude(Unmark(m))) = Unmark(m)
      BY <2>3, Decorations
  <2>5. Direct(Unmark(m), prefer) = {}
      BY <1>2, <2>3, <2>4 DEF Matched
  <2>6. m \in Listed
      BY <1>4, <2>1, <2>5
  <2>7. Misleading(m)
      BY <1>3, <1>5, <2>5, <2>6
  <2>8. QED
      BY <2>1, <2>6, <2>7
<1>9. QED
    BY <1>1, <1>6, <1>7, <1>8

\* GET /v1/models for Claude Code leads to every model that can be reached
\* under its own name, and to nothing else, on every content of the tables
\* that the admin API can make.
THEOREM ListingLeadsHomeAlways == Spec => []ListingLeadsHome
<1>1. TablesOK => ListingLeadsHome
    BY ListedLeadsHome, FormLeadsHome DEF ListingLeadsHome
<1>2. TypeOK => ListingLeadsHome
    BY <1>1 DEF TypeOK
<1>3. QED
    BY <1>2, TypeCorrect, PTL
=============================================================================
