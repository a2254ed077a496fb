----------------------------- MODULE RouteStore -----------------------------
(***************************************************************************)
(* The admin handlers that change the routing tables.  No transaction      *)
(* spans two tables or two rows: a handler that writes several rows, or    *)
(* looks up other rows before it writes, is one action per row, and the    *)
(* admins interleave.  Reading a row and writing it back is one action.  A *)
(* handler may end after any action: the client hangs up and its context   *)
(* cancels the next statement, one fails, or the process dies.             *)
(***************************************************************************)
EXTENDS Routing, Tables

CONSTANTS Admins,
          RouteOrder,   \* the names of routes, in the order List gives them
          Chains,       \* the chains an admin may ask for
          RowNames,     \* the names of model rows
          NameLists,    \* the lists of them an admin may send
          ProviderLists,  \* the lists of providers an admin may send
          Windows,      \* the context windows a body may give, 0 for none
          Databases,    \* the tables a run starts from
          MaxRequests   \* a bound on the requests of a run

ASSUME StoreAssumption ==
    /\ IsFiniteSet(ChannelIds)
    /\ RouteOrder \in Seq(Name) /\ IsInjective(RouteOrder)
    /\ Chains \subseteq Seq(Target)
    /\ RowNames \subseteq Name /\ NameLists \subseteq Seq(Name)
    /\ ProviderLists \subseteq Seq(ProviderIds)
    /\ Windows \subseteq 0..2
    /\ MaxRequests \in Nat

\* A target names a provider that exists, and a channel of that provider.
RefersTo(t, ps, cs) ==
    /\ t.provider = 0 \/ t.provider \in DOMAIN ps
    /\ t.channel # 0 =>
          /\ t.channel \in DOMAIN cs
          /\ t.provider \in {0, cs[t.channel].provider}

\* A run starts from tables whose references hold.
ASSUME DatabasesAssumption == \A d \in Databases :
    /\ TablesTyped(d.providers, d.channels, d.accounts, d.models, d.routes)
    /\ \A c \in DOMAIN d.channels : d.channels[c].provider \in DOMAIN d.providers
    /\ \A n \in DOMAIN d.routes :
          /\ n \in Range(RouteOrder)
          /\ \A i \in DOMAIN d.routes[n] : RefersTo(d.routes[n][i], d.providers, d.channels)

VARIABLES admin,        \* what each admin's handler has left to do
          requests,     \* how many requests were made
          disturbed     \* some handler ended early, or ran beside another

vars == <<tables, admin, requests, disturbed>>

Idle == [op |-> "idle"]

-----------------------------------------------------------------------------
(* What the clean-up makes of a chain *)

\* RemoveChannel: pins on the channel become provider-scoped; a legacy target
\* learns its provider; a rewritten chain loses its duplicates.
Degraded(chain, c, p) ==
    LET degrade(t) == IF t.channel # c THEN t
                      ELSE [t EXCEPT !.channel = 0,
                                     !.provider = IF @ = 0 THEN p ELSE @]
    IN  IF \E i \in DOMAIN chain : chain[i].channel = c
        THEN Deduped([i \in DOMAIN chain |-> degrade(chain[i])])
        ELSE chain

\* Mutant: only the targets that name the provider go.
StrippedByName(chain, p, cs) ==
    Keep(chain, {i \in DOMAIN chain : chain[i].provider # p})

\* RemoveProvider: its targets go, and the pins on its channels.
Stripped(chain, p, cs) ==
    Keep(chain, {i \in DOMAIN chain : chain[i].provider # p /\ chain[i].channel \notin cs})

Cleaned(job, chain) ==
    IF job.what = "provider" THEN Stripped(chain, job.provider, job.gone)
    ELSE Degraded(chain, Max(job.gone), job.provider)

\* The writes that List leaves to do, in the order of the names.
Rewrites(job) ==
    LET changed(n) == n \in DOMAIN routes /\ Cleaned(job, routes[n]) # routes[n]
        names == Keep(RouteOrder, {i \in DOMAIN RouteOrder : changed(RouteOrder[i])})
    IN  [i \in DOMAIN names |->
            [name |-> names[i], chain |-> Cleaned(job, routes[names[i]])]]

-----------------------------------------------------------------------------
(* The admin API takes one request at a time from each admin.              *)

\* A step of an admin while another is in the middle of a handler.
Beside(a) == disturbed' = (disturbed \/ \E b \in Admins \ {a} : admin[b] # Idle)

Request(a) == /\ admin[a] = Idle
              /\ requests < MaxRequests
              /\ requests' = requests + 1
              /\ Beside(a)

\* A request that is one statement: it leaves nothing to do.
Simple(a) == Request(a) /\ UNCHANGED admin

Continue(a, rest) == /\ admin' = [admin EXCEPT ![a] = rest]
                     /\ Beside(a)
                     /\ UNCHANGED requests

-----------------------------------------------------------------------------
(* Providers, accounts and model rows *)

RowWrite(write, p, n, window) ==
    [write |-> write, provider |-> p, name |-> n, window |-> window]

\* A handler with rows to write, one statement each.
Rows(todo, strict) ==
    IF todo = <<>> THEN Idle
    ELSE [op |-> "rows", todo |-> todo, strict |-> strict]

\* registerModels: identity rows for the names, errors only logged.
Registered(p, ns) ==
    Rows([i \in DOMAIN ns |-> RowWrite("ensure", p, ns[i], 0)], FALSE)

\* The row goes in, and then, for what it is worth, the models.
CreateProvider(a, ns) ==
    /\ Request(a)
    /\ NewId(providers) \in ProviderIds
    /\ providers' = Put(providers, NewId(providers), TRUE)
    /\ admin' = [admin EXCEPT ![a] = Registered(NewId(providers), ns)]
    /\ UNCHANGED <<channels, accounts, models, routes>>

UpdateProvider(a, p, enabled, ns) ==
    /\ Request(a)
    /\ p \in DOMAIN providers
    /\ providers' = Put(providers, p, enabled)
    /\ admin' = [admin EXCEPT ![a] = Registered(p, ns)]
    /\ UNCHANGED <<channels, accounts, models, routes>>

CreateAccount(a, p) ==
    /\ Simple(a)
    /\ p \in DOMAIN providers
    /\ NewId(accounts) \in AccountIds
    /\ accounts' = Put(accounts, NewId(accounts),
                       [provider |-> p, enabled |-> TRUE])
    /\ UNCHANGED <<providers, channels, models, routes>>

UpdateAccount(a, acc, enabled) ==
    /\ Simple(a)
    /\ acc \in DOMAIN accounts
    /\ accounts' = [accounts EXCEPT ![acc].enabled = enabled]
    /\ UNCHANGED <<providers, channels, models, routes>>

\* Routes that pin the account keep the pin.
DeleteAccount(a, acc) ==
    /\ Simple(a)
    /\ acc \in DOMAIN accounts
    /\ accounts' = Drop(accounts, {acc})
    /\ UNCHANGED <<providers, channels, models, routes>>

\* One name on several providers, all of which are looked up first.
CreateModels(a, ps, n, window) ==
    /\ Request(a)
    /\ Range(ps) \subseteq DOMAIN providers
    /\ admin' = [admin EXCEPT ![a] =
                    Rows([i \in DOMAIN ps |-> RowWrite("create", ps[i], n, window)],
                         TRUE)]
    /\ UNCHANGED tables

\* The names to register go first, then the ones to remove.
SyncModels(a, p, register, remove, window) ==
    /\ Request(a)
    /\ p \in DOMAIN providers
    /\ admin' = [admin EXCEPT ![a] =
                    Rows([i \in DOMAIN register |->
                              RowWrite("ensure", p, register[i], window)]
                         \o [i \in DOMAIN remove |->
                              RowWrite("delete", p, remove[i], 0)],
                         TRUE)]
    /\ UNCHANGED tables

\* One row: creating refuses one that exists, ensuring fills in the context
\* window it lacks, deleting wants one.  A failed write ends a strict handler.
WriteRow(a) ==
    /\ admin[a].op = "rows"
    /\ LET job   == admin[a]
           it    == Head(job.todo)
           k     == <<it.provider, it.name>>
           fails == \/ it.provider \notin DOMAIN providers
                    \/ it.write = "create" /\ k \in DOMAIN models
                    \/ it.write = "delete" /\ k \notin DOMAIN models
           row   == IF k \notin DOMAIN models
                    THEN [enabled |-> TRUE, window |-> it.window]
                    ELSE [models[k] EXCEPT
                            !.window = IF @ = 0 THEN it.window ELSE @]
       IN  /\ models' = CASE fails -> models
                          [] ~fails /\ it.write = "delete" -> Drop(models, {k})
                          [] OTHER -> Put(models, k, row)
           /\ Continue(a, IF fails /\ job.strict THEN Idle
                          ELSE Rows(Tail(job.todo), job.strict))
    /\ UNCHANGED <<providers, channels, accounts, routes>>

\* A body sets the window or leaves it out, which keeps it.
UpdateModel(a, p, n, enabled, window) ==
    /\ Simple(a)
    /\ <<p, n>> \in DOMAIN models
    /\ models' = [models EXCEPT ![<<p, n>>] =
           [enabled |-> enabled,
            window  |-> IF window = 0 THEN @.window ELSE window]]
    /\ UNCHANGED <<providers, channels, accounts, routes>>

DeleteModel(a, p, n) ==
    /\ Simple(a)
    /\ <<p, n>> \in DOMAIN models
    /\ models' = Drop(models, {<<p, n>>})
    /\ UNCHANGED <<providers, channels, accounts, routes>>

-----------------------------------------------------------------------------
(* Channels: one per protocol and provider *)

ProtocolFree(p, protocol) ==
    \A c \in DOMAIN channels :
        ~(channels[c].provider = p /\ channels[c].protocol = protocol)

CreateChannel(a, p, protocol) ==
    /\ Simple(a)
    /\ p \in DOMAIN providers /\ ProtocolFree(p, protocol)
    /\ NewId(channels) \in ChannelIds
    /\ channels' = Put(channels, NewId(channels),
                       [provider |-> p, protocol |-> protocol,
                        enabled |-> TRUE, url |-> TRUE])
    /\ UNCHANGED <<providers, accounts, models, routes>>

\* The row is replaced by the body; of what a body omits only the provider
\* and the protocol are taken from the row.
UpdateChannel(a, c, body) ==
    /\ Simple(a)
    /\ c \in DOMAIN channels
    /\ LET row == channels[c]
           protocol == IF body.protocol = "" THEN row.protocol
                       ELSE body.protocol
       IN  /\ protocol = row.protocol \/ ProtocolFree(row.provider, protocol)
           /\ channels' = [channels EXCEPT ![c] =
                  [provider |-> row.provider, protocol |-> protocol,
                   enabled |-> body.enabled, url |-> body.url]]
    /\ UNCHANGED <<providers, accounts, models, routes>>

\* What the web UI sends: its switch, and its form.
ChannelBodies ==
    [protocol : {""}, enabled : BOOLEAN, url : {FALSE}]
    \cup [protocol : Protocols, enabled : BOOLEAN, url : {TRUE}]

-----------------------------------------------------------------------------
(* Putting a route: every target is looked up, then the row is written.    *)

PutRoute(a, n, chain) ==
    /\ Request(a)
    /\ ~n.mark /\ chain # <<>>
    /\ admin' = [admin EXCEPT ![a] =
                    [op |-> "check", name |-> n, chain |-> chain, at |-> 1]]
    /\ UNCHANGED tables

\* The target as it is stored: a legacy one learns its provider.
Backfilled(t) ==
    IF t.provider = 0 /\ t.channel \in DOMAIN channels
    THEN [t EXCEPT !.provider = channels[t.channel].provider] ELSE t

Acceptable(t) ==
    /\ t.provider \in DOMAIN providers
    /\ t.channel # 0 => /\ t.channel \in DOMAIN channels
                        /\ channels[t.channel].provider = t.provider
    /\ t.account # 0 => /\ t.account \in DOMAIN accounts
                        /\ accounts[t.account].provider = t.provider

\* The lookups of one target are one step: a row that goes between two of
\* them goes before the write as well.
CheckTarget(a) ==
    /\ admin[a].op = "check"
    /\ LET job == admin[a]
           t   == Backfilled(job.chain[job.at])
       IN  Continue(a,
             IF ~Acceptable(t) THEN Idle
             ELSE [job EXCEPT !.chain[job.at] = t,
                              !.at = @ + 1,
                              !.op = IF job.at = Len(job.chain)
                                     THEN "put" ELSE "check"])
    /\ UNCHANGED tables

WriteRoute(a) ==
    /\ admin[a].op = "put"
    /\ routes' = Put(routes, admin[a].name, admin[a].chain)
    /\ Continue(a, Idle)
    /\ UNCHANGED <<providers, channels, accounts, models>>

DeleteRoute(a, n) ==
    /\ Simple(a)
    /\ n \in DOMAIN routes
    /\ routes' = Drop(routes, {n})
    /\ UNCHANGED <<providers, channels, accounts, models>>

-----------------------------------------------------------------------------
(* Deleting a channel or a provider: what it was is read, the row goes,    *)
(* the routes are listed, and those that named it are written back.        *)

Erase(what, p, cs) == [op |-> "erase", what |-> what, provider |-> p,
                       gone |-> cs]

DeleteChannel(a, c) ==
    /\ Request(a)
    /\ c \in DOMAIN channels
    /\ admin' = [admin EXCEPT ![a] =
                    Erase("channel", channels[c].provider, {c})]
    /\ UNCHANGED tables

DeleteProvider(a, p) ==
    /\ Request(a)
    /\ p \in DOMAIN providers
    /\ admin' = [admin EXCEPT ![a] =
                    Erase("provider", p,
                          {c \in DOMAIN channels : channels[c].provider = p})]
    /\ UNCHANGED tables

\* The row goes, with the rows that reference it; a row that is already gone
\* ends the handler.
EraseRow(a) ==
    /\ admin[a].op = "erase"
    /\ LET job == admin[a]
           p   == job.provider
           of(f) == {x \in DOMAIN f : f[x].provider = p}
           next == [job EXCEPT !.op = "list"]
       IN  \/ /\ job.what = "channel"
              /\ channels' = Drop(channels, job.gone)
              /\ Continue(a, IF job.gone \subseteq DOMAIN channels
                             THEN next ELSE Idle)
              /\ UNCHANGED <<providers, accounts, models>>
           \/ /\ job.what = "provider"
              /\ providers' = Drop(providers, {p})
              /\ channels' = Drop(channels, of(channels))
              /\ accounts' = Drop(accounts, of(accounts))
              /\ models' = Drop(models, {k \in DOMAIN models : k[1] = p})
              /\ Continue(a, IF p \in DOMAIN providers THEN next ELSE Idle)
    /\ UNCHANGED routes

ListRoutes(a) ==
    /\ admin[a].op = "list"
    /\ LET todo == Rewrites(admin[a])
       IN  Continue(a, IF todo = <<>> THEN Idle
                       ELSE [op |-> "rewrite", todo |-> todo])
    /\ UNCHANGED tables

\* Mutant: a route that is left without targets is written back.
RewriteEveryRoute(a) ==
    /\ admin[a].op = "rewrite"
    /\ LET todo == admin[a].todo
       IN  /\ routes' = Put(routes, Head(todo).name, Head(todo).chain)
           /\ Continue(a, IF Len(todo) = 1 THEN Idle
                          ELSE [admin[a] EXCEPT !.todo = Tail(todo)])
    /\ UNCHANGED <<providers, channels, accounts, models>>

\* One route is written back as it was listed, cleaned; one that is left
\* without targets is deleted, and the handler ends if it is already gone.
RewriteRoute(a) ==
    /\ admin[a].op = "rewrite"
    /\ LET todo == admin[a].todo
           it   == Head(todo)
           lost == it.chain = <<>> /\ it.name \notin DOMAIN routes
       IN  /\ routes' = IF it.chain = <<>> THEN Drop(routes, {it.name})
                        ELSE Put(routes, it.name, it.chain)
           /\ Continue(a, IF lost \/ Len(todo) = 1 THEN Idle
                          ELSE [admin[a] EXCEPT !.todo = Tail(todo)])
    /\ UNCHANGED <<providers, channels, accounts, models>>

-----------------------------------------------------------------------------

\* The handler ends with an error before its next statement; that leaves
\* something half done once the row is gone.
Abort(a) ==
    /\ admin[a] # Idle
    /\ admin' = [admin EXCEPT ![a] = Idle]
    /\ disturbed' = (disturbed \/ admin[a].op \in {"list", "rewrite"})
    /\ UNCHANGED <<tables, requests>>

Init ==
    /\ \E d \in Databases : /\ providers = d.providers
                            /\ channels = d.channels
                            /\ accounts = d.accounts
                            /\ models = d.models
                            /\ routes = d.routes
    /\ admin = [a \in Admins |-> Idle]
    /\ requests = 0
    /\ disturbed = FALSE

Registry(a) ==
    \/ \E ns \in NameLists :
          \/ CreateProvider(a, ns)
          \/ \E p \in ProviderIds, e \in BOOLEAN : UpdateProvider(a, p, e, ns)
    \/ \E p \in ProviderIds : \/ CreateAccount(a, p)
                              \/ \E r \in Protocols : CreateChannel(a, p, r)
    \/ \E acc \in AccountIds : \/ \E e \in BOOLEAN : UpdateAccount(a, acc, e)
                               \/ DeleteAccount(a, acc)
    \/ \E c \in ChannelIds, body \in ChannelBodies : UpdateChannel(a, c, body)
    \/ \E p \in ProviderIds, n \in RowNames :
          \/ \E e \in BOOLEAN, w \in Windows : UpdateModel(a, p, n, e, w)
          \/ DeleteModel(a, p, n)
    \/ \E ps \in ProviderLists, n \in RowNames, w \in Windows :
          CreateModels(a, ps, n, w)
    \/ \E p \in ProviderIds, l \in NameLists, m \in NameLists, w \in Windows :
          SyncModels(a, p, l, m, w)
    \/ WriteRow(a)

RouteEdit(a) ==
    \/ \E n \in Range(RouteOrder) :
          \/ \E chain \in Chains : PutRoute(a, n, chain)
          \/ DeleteRoute(a, n)
    \/ CheckTarget(a)
    \/ WriteRoute(a)

Erasure(a) ==
    \/ \E c \in ChannelIds : DeleteChannel(a, c)
    \/ \E p \in ProviderIds : DeleteProvider(a, p)
    \/ EraseRow(a)
    \/ ListRoutes(a)
    \/ RewriteRoute(a)

Next == \E a \in Admins :
            Registry(a) \/ RouteEdit(a) \/ Erasure(a) \/ Abort(a)

Spec == Init /\ [][Next]_vars

-----------------------------------------------------------------------------
(* Properties *)

Job ==
    {Idle}
    \cup [op : {"check", "put"}, name : Name, chain : Seq(Target), at : Nat]
    \cup [op : {"erase", "list"}, what : {"channel", "provider"},
          provider : ProviderIds, gone : SUBSET ChannelIds]
    \cup [op : {"rows"}, strict : BOOLEAN,
          todo : Seq([write : {"create", "ensure", "delete"},
                      provider : ProviderIds, name : Name, window : 0..2])]
    \cup [op : {"rewrite"},
          todo : Seq([name : Name, chain : Seq(Target)])]

\* Every table and every job has its type.
TypeOK == /\ TablesOK
          /\ admin \in [Admins -> Job]
          /\ requests \in 0..MaxRequests
          /\ disturbed \in BOOLEAN

Refers(t) == RefersTo(t, providers, channels)

\* Routes are cleaned by the handlers, not by the schema (store.go:46-50):
\* when no handler is at work, none ran beside another and none ended half
\* way, every target names a provider that exists, and a pin names a channel
\* of that provider.  Reused ids make a forgotten target name another row.
RoutesRefer ==
    (~disturbed /\ \A a \in Admins : admin[a] = Idle) =>
        \A n \in DOMAIN routes : \A i \in DOMAIN routes[n] :
            Refers(routes[n][i])
=============================================================================
