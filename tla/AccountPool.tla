---------------------------- MODULE AccountPool ----------------------------
(***************************************************************************)
(* The account pool of the data plane, internal/gateway/accountpool.go:    *)
(* smooth weighted round-robin over the accounts of a provider, skipping   *)
(* the accounts that are cooling down after a failed attempt.              *)
(*                                                                         *)
(* Every operation of the pool runs under one mutex, so each is one step.  *)
(* The pool outlives routing snapshots: a caller passes the account table  *)
(* of the snapshot it pinned, and callers that pinned different snapshots  *)
(* share the state of the accounts both know.                              *)
(*                                                                         *)
(* Time is counted in ticks.  An account's cooldownDone is kept as the     *)
(* number of ticks until it is reached, so a zero time.Time and a deadline *)
(* in the past are both 0, and the states need no clock.                   *)
(***************************************************************************)
EXTENDS Integers, FiniteSetsExt

CONSTANTS
    Accounts,        \* account ids; the map of states is total, absent = zero
    Providers,       \* account tables a snapshot may hold: id -> weight
    BaseBackoff,     \* 30s, the first cooldown after a 429 without Retry-After
    MaxBackoff,      \* 5min, the cap of every rate-limit cooldown
    AuthPenalty,     \* 10s
    ServerPenalty,   \* 2s
    RetryAfters      \* values of the Retry-After header; 0 = absent or unusable

VARIABLES
    current,         \* accountState.current
    cooldown,        \* accountState.cooldownDone, as ticks from now
    backoff          \* accountState.cooldownBase

poolVars == <<current, cooldown, backoff>>

Outcomes == {"OK", "RateLimited", "AuthError", "ServerError"}

\* A row of the accounts table may hold any weight; Pick reads 1 for less.
EffWeight(w) == IF w < 1 THEN 1 ELSE w

TotalWeight(p, R) == MapThenSumSet(LAMBDA a : EffWeight(p[a]), R)

\* An account id is an int64 that the accounts table hands out.
ASSUME AccountsAssumption ==
    /\ Accounts \subseteq Nat /\ IsFiniteSet(Accounts)
    /\ \A p \in Providers : DOMAIN p \subseteq Accounts /\ \A a \in DOMAIN p : p[a] \in Int

ASSUME DurationsAssumption ==
    /\ BaseBackoff \in Nat \ {0}
    /\ MaxBackoff \in Nat
    /\ ServerPenalty \in Nat \ {0}
    /\ AuthPenalty \in Nat
    /\ RetryAfters \subseteq Nat /\ 0 \in RetryAfters
    /\ BaseBackoff <= MaxBackoff
    /\ ServerPenalty <= AuthPenalty
    /\ AuthPenalty <= MaxBackoff
-----------------------------------------------------------------------------
PoolInit ==
    /\ current = [a \in Accounts |-> 0]
    /\ cooldown = [a \in Accounts |-> 0]
    /\ backoff = [a \in Accounts |-> 0]

Cooling(a) == cooldown[a] > 0

Ready(p) == {a \in DOMAIN p : ~Cooling(a)}

\* Mutant: cooling accounts are credited with the rest.
CreditedAll(p) ==
    [a \in Accounts |-> IF a \in DOMAIN p THEN current[a] + EffWeight(p[a]) ELSE current[a]]

\* The loop that credits every ready account its weight.
Credited(p) ==
    [a \in Accounts |-> IF a \in Ready(p) THEN current[a] + EffWeight(p[a]) ELSE current[a]]

\* Mutant: the weights are compared instead of the credits.
FavouredHeaviest(p, a) ==
    /\ a \in Ready(p)
    /\ \A b \in Ready(p) : \/ EffWeight(p[b]) < EffWeight(p[a])
                           \/ EffWeight(p[b]) = EffWeight(p[a]) /\ a <= b

\* Strictly greater replaces the best so far, so the lowest id wins a tie.
Favoured(p, a) ==
    /\ a \in Ready(p)
    /\ \A b \in Ready(p) : \/ Credited(p)[b] < Credited(p)[a]
                           \/ Credited(p)[b] = Credited(p)[a] /\ a <= b

\* Mutant: the account picked pays its own weight.
RotateCheaply(p, a) ==
    /\ Favoured(p, a)
    /\ current' = [Credited(p) EXCEPT ![a] = @ - EffWeight(p[a])]
    /\ UNCHANGED <<cooldown, backoff>>

Rotate(p, a) ==
    /\ Favoured(p, a)
    /\ current' = [Credited(p) EXCEPT ![a] = @ - TotalWeight(p, Ready(p))]
    /\ UNCHANGED <<cooldown, backoff>>

\* Every account cools: the one that recovers first, and no rotation.
Fallback(p, a) ==
    /\ Ready(p) = {}
    /\ a \in DOMAIN p
    /\ \A b \in DOMAIN p : \/ cooldown[a] < cooldown[b]
                           \/ cooldown[a] = cooldown[b] /\ a <= b
    /\ UNCHANGED poolVars

\* Pick(provider) returns account a; a provider with no accounts returns none.
Pick(p, a) == Rotate(p, a) \/ Fallback(p, a)
-----------------------------------------------------------------------------
Lesser(m, n) == IF m <= n THEN m ELSE n

BackoffBase(a) == IF backoff[a] = 0 THEN BaseBackoff ELSE backoff[a]

\* Mutant: neither the cooldown nor the base is capped.
RateLimitedUncapped(a, retryAfter) ==
    /\ cooldown' = [cooldown EXCEPT ![a] = IF retryAfter > 0 THEN retryAfter ELSE BackoffBase(a)]
    /\ backoff' = IF retryAfter > 0 THEN backoff ELSE [backoff EXCEPT ![a] = 2 * BackoffBase(a)]

\* A usable Retry-After is taken as it is; otherwise the account's own base,
\* which doubles for the next time.
RateLimited(a, retryAfter) ==
    /\ cooldown' = [cooldown EXCEPT ![a] =
           Lesser(IF retryAfter > 0 THEN retryAfter ELSE BackoffBase(a), MaxBackoff)]
    /\ backoff' = IF retryAfter > 0 THEN backoff
                  ELSE [backoff EXCEPT ![a] = Lesser(2 * BackoffBase(a), MaxBackoff)]

Penalise(a, d) ==
    /\ cooldown' = [cooldown EXCEPT ![a] = d]
    /\ UNCHANGED backoff

Recovered(a) ==
    /\ cooldown' = [cooldown EXCEPT ![a] = 0]
    /\ backoff' = [backoff EXCEPT ![a] = 0]

Report(a, outcome, retryAfter) ==
    /\ \/ outcome = "RateLimited" /\ RateLimited(a, retryAfter)
       \/ outcome = "AuthError" /\ Penalise(a, AuthPenalty)
       \/ outcome = "ServerError" /\ Penalise(a, ServerPenalty)
       \/ outcome = "OK" /\ Recovered(a)
    /\ UNCHANGED current

Tick ==
    /\ \E a \in Accounts : Cooling(a)
    /\ cooldown' = [a \in Accounts |-> IF Cooling(a) THEN cooldown[a] - 1 ELSE 0]
    /\ UNCHANGED <<current, backoff>>
-----------------------------------------------------------------------------
(***************************************************************************)
(* The pool under arbitrary callers: any snapshot's table on each Pick, a  *)
(* report on any account at any time (attempts end in any order).          *)
(***************************************************************************)
PoolNext ==
    \/ \E p \in Providers : \E a \in DOMAIN p : Pick(p, a)
    \/ \E a \in Accounts, o \in Outcomes, d \in RetryAfters : Report(a, o, d)
    \/ Tick

PoolSpec == PoolInit /\ [][PoolNext]_poolVars
-----------------------------------------------------------------------------
PoolTypeOK ==
    /\ current \in [Accounts -> Int]
    /\ cooldown \in [Accounts -> 0..MaxBackoff]
    /\ backoff \in [Accounts -> {0} \cup BaseBackoff..MaxBackoff]

\* The smooth rotation moves credit between accounts and never creates or
\* loses any, across every table, cooldown and report (Pick's += and -=).
CreditConserved == MapThenSumSet(LAMBDA a : current[a], Accounts) = 0
=============================================================================
