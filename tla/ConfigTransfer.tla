--------------------------- MODULE ConfigTransfer ---------------------------
(***************************************************************************)
(* Export and import of the configuration (store/config_transfer.go).  An  *)
(* export reads the tables one after another, outside a transaction, while *)
(* imports, each one transaction, may land between two reads.  A document  *)
(* holds no ids: providers go by name, channels by protocol, accounts by   *)
(* label or key, and an import finds the ids of its own installation.      *)
(*                                                                         *)
(* Provider names are numbers in the order of the names.  A client key's   *)
(* hash is a digest and the case of its hex digits.  Of the extra headers  *)
(* of a channel there is whether they are a JSON object, which the channel *)
(* API does not ask of a string that begins with a brace.  Columns that    *)
(* travel verbatim (addresses of channels, weights, probes, limits of      *)
(* keys) are left out, and so is white space around names.                 *)
(***************************************************************************)
EXTENDS Tables

CONSTANTS Sites,         \* the installations
          Databases,     \* the tables a run starts from
          Handmade,      \* documents that were not just exported
          Selections,    \* the sets of sections an admin exports
          ProviderNames, Labels, Secrets, Digests,
          SettingKeys, AdminSettings,  \* all keys, those on the allowlist
          SettingValues, BadValues,    \* all values, those of a wrong kind
          MaxRequests,   \* a bound on the requests of a run
          ProviderIds, ChannelIds, AccountIds, Protocols, Upstreams,
          Bases, Surfaces

AllSections == {"providers", "model_routes", "api_keys", "settings"}

ASSUME SelectionsAssumption == Selections \subseteq (SUBSET AllSections) \ {{}}
ASSUME NamesAssumption == ProviderNames \subseteq Nat \ {0}
ASSUME AllowlistAssumption == /\ AdminSettings \subseteq SettingKeys
                              /\ BadValues \subseteq SettingValues

VARIABLES dbs,      \* the tables of each installation
          export,   \* the export under way, if any
          doc,      \* the document exported last, if any
          requests  \* how many exports and imports were asked for

vars == <<dbs, export, doc, requests>>

\* What a request resolves to over the tables of db.
Routes(db) == INSTANCE Routing WITH
    providers <- [p \in DOMAIN db.providers |-> db.providers[p].enabled],
    accounts <- [a \in DOMAIN db.accounts |->
                    [provider |-> db.accounts[a].provider,
                     enabled  |-> db.accounts[a].enabled]],
    channels <- [c \in DOMAIN db.channels |->
                    [provider |-> db.channels[c].provider,
                     protocol |-> db.channels[c].protocol,
                     enabled  |-> db.channels[c].enabled,
                     url      |-> db.channels[c].url]],
    models <- db.models, routes <- db.routes

NoProvider == 0
NoProtocol == ""
NoLabel    == "(none)"  \* no pin; "" is the label of an unlabelled account
NoSecret   == ""

Lowest(ids)   == IF ids = {} THEN 0 ELSE Min(ids)
Ascending(ids) == SetToSortSeq(ids, <)

\* No two entries have the same value of the field.
Distinct(entries, field) ==
    \A i, j \in DOMAIN entries : entries[i][field] = entries[j][field] => i = j

-----------------------------------------------------------------------------
(* Export *)

\* Providers that some route target names.
Targeted(db) == {p \in DOMAIN db.providers :
                    \E n \in DOMAIN db.routes : \E i \in DOMAIN db.routes[n] :
                        db.routes[n][i].provider = p}

ExportedProvider(db, p, keys) ==
    LET of(f)  == Ascending({x \in DOMAIN f : f[x].provider = p})
        named  == SetToSeq({k[2] : k \in {j \in DOMAIN db.models : j[1] = p}})
        entry(a) == [label   |-> db.accounts[a].label,
                     enabled |-> db.accounts[a].enabled,
                     key     |-> IF keys THEN db.accounts[a].key ELSE NoSecret]
        endpoint(c) == [protocol |-> db.channels[c].protocol,
                        enabled  |-> db.channels[c].enabled,
                        url      |-> db.channels[c].url,
                        headers  |-> db.channels[c].headers]
        model(n) == [name |-> n, enabled |-> db.models[<<p, n>>].enabled,
                     window |-> db.models[<<p, n>>].window]
    IN  [name     |-> db.providers[p].name,
         enabled  |-> db.providers[p].enabled,
         accounts |-> [i \in DOMAIN of(db.accounts) |-> entry(of(db.accounts)[i])],
         channels |-> [i \in DOMAIN of(db.channels) |->
                          endpoint(of(db.channels)[i])],
         models   |-> [i \in DOMAIN named |-> model(named[i])]]

\* A reference whose row is gone has no name: it is left out.
ExportedTarget(db, t) ==
    [provider |-> IF t.provider \in DOMAIN db.providers
                  THEN db.providers[t.provider].name ELSE NoProvider,
     protocol |-> IF t.channel \in DOMAIN db.channels
                  THEN db.channels[t.channel].protocol ELSE NoProtocol,
     label    |-> IF t.account \in DOMAIN db.accounts
                  THEN db.accounts[t.account].label ELSE NoLabel,
     upstream |-> t.upstream]

\* Mutant: a provider is written once for each route that names it.
ProvidersPerRoute(db, sections) ==
    LET named == SetToSeq({<<n, p>> \in (DOMAIN db.routes) \X (DOMAIN db.providers) :
                              \E i \in DOMAIN db.routes[n] :
                                  db.routes[n][i].provider = p})
    IN  IF "model_routes" \in sections
        THEN [i \in DOMAIN named |-> named[i][2]]
        ELSE Ascending(DOMAIN db.providers)

\* The routes bring the providers they name with them.
ChosenProviders(db, sections) ==
    LET byName(p, q) == db.providers[p].name < db.providers[q].name
    IN  SetToSortSeq(
            (IF "providers" \in sections THEN DOMAIN db.providers ELSE {})
            \cup (IF "model_routes" \in sections THEN Targeted(db) ELSE {}),
            byName)

Document(db, sections, keys) ==
    LET ps      == ChosenProviders(db, sections)
        names   == SetToSeq(DOMAIN db.routes)
        hashes  == SetToSeq(DOMAIN db.clients)
        route(n) == [name    |-> n,
                     targets |-> [i \in DOMAIN db.routes[n] |->
                                     ExportedTarget(db, db.routes[n][i])]]
    IN  [providers |-> [i \in DOMAIN ps |-> ExportedProvider(db, ps[i], keys)],
         routes    |-> IF "model_routes" \notin sections THEN <<>>
                       ELSE [i \in DOMAIN names |-> route(names[i])],
         clients   |-> IF "api_keys" \notin sections THEN <<>>
                       ELSE [i \in DOMAIN hashes |->
                                [hash |-> hashes[i], enabled |-> db.clients[hashes[i]]]],
         settings  |-> IF "settings" \notin sections THEN <<>>
                       ELSE Restrict(db.settings,
                                     AdminSettings \cap DOMAIN db.settings)]

-----------------------------------------------------------------------------
(* What an import makes of a document before it opens its transaction *)

ValidSettings(d) == Restrict(d.settings, AdminSettings \cap DOMAIN d.settings)

\* Routes with a reserved name and targets without a provider are dropped.
ValidRoutes(d) ==
    LET named(t) == t.provider # NoProvider
        whole(r) == ~r.name.mark /\ SelectSeq(r.targets, named) # <<>>
        kept     == SelectSeq(d.routes, whole)
    IN  [i \in DOMAIN kept |->
            [kept[i] EXCEPT !.targets = SelectSeq(@, named)]]

\* The same hash twice, in whatever case: the comparison is in lower case.
HashTwins(d) == ~Distinct([i \in DOMAIN d.clients |-> d.clients[i].hash], "digest")

\* Extra headers that are no JSON object.
BrokenHeaders(d) ==
    \E i \in DOMAIN d.providers : \E j \in DOMAIN d.providers[i].channels :
        ~d.providers[i].channels[j].headers

WellFormed(d) ==
    /\ Distinct(d.providers, "name")
    /\ \A i \in DOMAIN d.providers : Distinct(d.providers[i].channels, "protocol")
    /\ ~BrokenHeaders(d) /\ ~HashTwins(d)
    /\ \A k \in DOMAIN ValidSettings(d) : d.settings[k] \notin BadValues
    /\ \/ d.providers # <<>> \/ ValidRoutes(d) # <<>> \/ d.clients # <<>>
       \/ DOMAIN ValidSettings(d) # {}

-----------------------------------------------------------------------------
(* The transaction.  Each step takes the tables and returns them.          *)

\* Mutant: an entry may take a row that another entry took.
MatchUsed(rows, free, e) ==
    LET existing == DOMAIN rows
        byKey    == {a \in existing : e.key # NoSecret /\ rows[a].key = e.key}
        byLabel  == {a \in existing : e.label # "" /\ rows[a].label = e.label}
    IN  IF byKey # {} THEN Min(byKey) ELSE Lowest(byLabel)

\* The row an entry is for, among the free ones: by key, then by label.
MatchOf(rows, free, e) ==
    LET byKey   == {a \in free : e.key # NoSecret /\ rows[a].key = e.key}
        byLabel == {a \in free : e.label # "" /\ rows[a].label = e.label}
    IN  IF byKey # {} THEN Min(byKey) ELSE Lowest(byLabel)

\* Mutant: an account without a key is inserted, to be completed later.
AnyEntry(e) == TRUE

\* An account without a key cannot be inserted.
Insertable(e) == e.key # NoSecret

\* Mutant: the document's key is taken, even when it has none.
DocumentKey(e, row) == e.key

\* A stored key is never overwritten by an absent one.
KeyFor(e, row) == IF e.key = NoSecret THEN row.key ELSE e.key

\* Existing accounts are listed once; an entry without a key keeps the key of
\* the row it is for, and is skipped when there is none.
WithAccounts(db, p, entries) ==
    LET existing == {a \in DOMAIN db.accounts : db.accounts[a].provider = p}
        row(e, k) == [provider |-> p, label |-> e.label,
                      enabled |-> e.enabled, key |-> k]
        add(acc, e) ==
            LET a == MatchOf(db.accounts, existing \ acc.used, e)
            IN  IF a # 0
                THEN [rows |-> [acc.rows EXCEPT ![a] =
                                  row(e, KeyFor(e, @))],
                      used |-> acc.used \cup {a}]
                ELSE IF ~Insertable(e) THEN acc
                ELSE [acc EXCEPT !.rows = Put(@, NewId(@), row(e, e.key))]
    IN  [db EXCEPT !.accounts =
            FoldLeft(add, [rows |-> @, used |-> {}], entries).rows]

ChannelOf(db, p, protocol) ==
    Lowest({c \in DOMAIN db.channels : /\ db.channels[c].provider = p
                                       /\ db.channels[c].protocol = protocol})

WithChannels(db, p, entries) ==
    LET add(rows, e) ==
            LET c == ChannelOf(db, p, e.protocol)
            IN  Put(rows, IF c = 0 THEN NewId(rows) ELSE c,
                    [provider |-> p, protocol |-> e.protocol,
                     enabled |-> e.enabled, url |-> e.url,
                     headers |-> e.headers])
    IN  [db EXCEPT !.channels = FoldLeft(add, @, entries)]

WithModels(db, p, entries) ==
    LET add(rows, e) == Put(rows, <<p, e.name>>,
                            [enabled |-> e.enabled, window |-> e.window])
    IN  [db EXCEPT !.models = FoldLeft(add, @, entries)]

\* A name that is new to the provider and comes twice breaks the primary key.
ModelsFit(db, p, entries) ==
    \A i, j \in DOMAIN entries :
        (entries[i].name = entries[j].name /\ i # j) =>
            <<p, entries[i].name>> \in DOMAIN db.models

ProviderNamed(db, name) ==
    Lowest({p \in DOMAIN db.providers : db.providers[p].name = name})

AddProvider(acc, e) ==
    LET known == ProviderNamed(acc.db, e.name)
        p     == IF known = 0 THEN NewId(acc.db.providers) ELSE known
        db    == [acc.db EXCEPT !.providers =
                     Put(@, p, [name |-> e.name, enabled |-> e.enabled])]
    IN  [ok |-> acc.ok /\ ModelsFit(db, p, e.models),
         db |-> WithModels(WithChannels(WithAccounts(db, p, e.accounts),
                                        p, e.channels),
                           p, e.models)]

\* Mutant: the protocol alone finds the pinned channel.
ResolvedByProtocol(db, t) ==
    LET p == ProviderNamed(db, t.provider)
    IN  [provider |-> p,
         channel  |-> Lowest({c \in DOMAIN db.channels :
                                 db.channels[c].protocol = t.protocol}),
         account  |-> Lowest({a \in DOMAIN db.accounts :
                                 /\ db.accounts[a].provider = p
                                 /\ db.accounts[a].label = t.label}),
         upstream |-> t.upstream]

\* A pin that finds no row is dropped.
ResolvedTarget(db, t) ==
    LET p == ProviderNamed(db, t.provider)
    IN  [provider |-> p,
         channel  |-> ChannelOf(db, p, t.protocol),
         account  |-> Lowest({a \in DOMAIN db.accounts :
                                 /\ db.accounts[a].provider = p
                                 /\ db.accounts[a].label = t.label}),
         upstream |-> t.upstream]

ResolvedChain(db, r) ==
    LET known(t) == ProviderNamed(db, t.provider) # 0
        found    == SelectSeq(r.targets, known)
    IN  Deduped([i \in DOMAIN found |-> ResolvedTarget(db, found[i])])

\* Mutant: a route none of whose providers is known is stored, empty.
AddAnyRoute(db, r) ==
    [db EXCEPT !.routes = Put(@, r.name, ResolvedChain(db, r))]

\* A route keeps the targets whose provider exists, and is skipped without.
AddRoute(db, r) ==
    LET chain == ResolvedChain(db, r)
    IN  IF chain = <<>> THEN db
        ELSE [db EXCEPT !.routes = Put(@, r.name, chain)]

\* The hash is looked up and stored as the document has it: the lower case it
\* was compared in is not kept.
AddClient(db, k) == [db EXCEPT !.clients = Put(@, k.hash, k.enabled)]

\* All sections, or nothing.
Imported(db, d) ==
    LET filled == FoldLeft(AddProvider, [ok |-> TRUE, db |-> db], d.providers)
        routed == FoldLeft(AddRoute, filled.db, ValidRoutes(d))
        keyed  == FoldLeft(AddClient, routed, d.clients)
        new    == ValidSettings(d)
    IN  IF WellFormed(d) /\ filled.ok
        THEN [ok |-> TRUE,
              db |-> [keyed EXCEPT !.settings =
                         [k \in DOMAIN @ \cup DOMAIN new |->
                             IF k \in DOMAIN new THEN new[k] ELSE @[k]]]]
        ELSE [ok |-> FALSE, db |-> db]

-----------------------------------------------------------------------------
(* The admins of the installations *)

\* The tables in the order an export reads them.
Reads == <<"providers", "channels", "models", "routes", "settings",
           "accounts", "clients">>

NoDocument == [providers |-> <<>>, routes |-> <<>>, clients |-> <<>>,
               settings |-> <<>>]

Idle == [next |-> 0]

StartExport(s, sections, keys) ==
    /\ export = Idle
    /\ requests < MaxRequests
    /\ requests' = requests + 1
    /\ export' = [next |-> 1, site |-> s, sections |-> sections, keys |-> keys,
                  read |-> [t \in Range(Reads) |-> <<>>]]
    /\ UNCHANGED <<dbs, doc>>

\* One list of rows; after the last one the document is assembled.
ReadTable ==
    /\ export # Idle
    /\ LET t    == Reads[export.next]
           read == [export.read EXCEPT ![t] = dbs[export.site][t]]
       IN  IF export.next < Len(Reads)
           THEN /\ export' = [export EXCEPT !.read = read, !.next = @ + 1]
                /\ UNCHANGED doc
           ELSE /\ doc' = Document(read, export.sections, export.keys)
                /\ export' = Idle
    /\ UNCHANGED <<dbs, requests>>

Documents == {doc} \cup Handmade

\* An import that ends before its commit, or whose document is refused,
\* leaves the tables alone; so does a dry run.
Import(s, d) ==
    /\ requests < MaxRequests
    /\ requests' = requests + 1
    /\ dbs' = [dbs EXCEPT ![s] = Imported(@, d).db]
    /\ UNCHANGED <<export, doc>>

Init ==
    /\ dbs \in [Sites -> Databases]
    /\ export = Idle
    /\ doc = NoDocument
    /\ requests = 0

Next ==
    \/ \E s \in Sites, sections \in Selections, keys \in BOOLEAN :
          StartExport(s, sections, keys)
    \/ ReadTable
    \/ \E s \in Sites, d \in Documents : Import(s, d)

Spec == Init /\ [][Next]_vars

-----------------------------------------------------------------------------
(* Properties *)

DatabaseOK(db) ==
    /\ Routes(db)!TablesOK
    /\ \A p \in DOMAIN db.providers : db.providers[p].name \in ProviderNames
    /\ \A c \in DOMAIN db.channels : db.channels[c].headers \in BOOLEAN
    /\ \A a \in DOMAIN db.accounts : /\ db.accounts[a].label \in Labels
                                     /\ db.accounts[a].key \in Secrets
    /\ db.clients \in [DOMAIN db.clients -> BOOLEAN]
    /\ DOMAIN db.clients \subseteq [digest : Digests, upper : BOOLEAN]
    /\ DOMAIN db.settings \subseteq SettingKeys

\* The tables of every installation keep their types: an import never stores
\* an empty route or an account without a key, whatever the document.
TypeOK == /\ \A s \in Sites : DatabaseOK(dbs[s])
          /\ export = Idle \/ export.next \in DOMAIN Reads
          /\ requests \in 0..MaxRequests

\* Documents that tell the accounts of a provider apart: no key twice, and no
\* entry without a key beside one with a key under the same label.
Unambiguous(d) ==
    \A i \in DOMAIN d.providers :
        LET as == d.providers[i].accounts
        IN  \A j, k \in DOMAIN as :
              j # k => /\ as[j].key = as[k].key => as[j].key = NoSecret
                       /\ (as[j].key = NoSecret /\ as[k].key # NoSecret)
                             => as[j].label # as[k].label

\* Importing a document again changes nothing more: the retry of an import
\* whose answer was lost creates no second account, channel or key.  This needs
\* a document that tells its accounts apart: the second import of another may
\* match its entries to other rows than the first.
ReimportChangesNothing ==
    \A s \in Sites, d \in Documents :
        LET once == Imported(dbs[s], d).db
        IN  Unambiguous(d) => Imported(once, d).db = once

\* A document that an export produced is accepted by every installation, even
\* when imports changed the tables while it was read, but for two contents of
\* the tables that are exported as they are and that an import refuses: a key
\* hash in capitals beside the same in lower case, which an import stored
\* (config_transfer.go:848-866; the validation at 372-376 says "lowercase
\* hashes" and lower-cases a copy), and extra headers that the channel API took
\* for their first brace (channels_handlers.go:170).
ExportsAreAccepted ==
    \A s \in Sites : doc.providers # <<>> =>
        (Imported(dbs[s], doc).ok <=> ~HashTwins(doc) /\ ~BrokenHeaders(doc))

\* Routes the document can describe: no pin on a row that is gone or belongs
\* to another provider, no target twice, and no pin on one of two accounts
\* with the same label.
Describable(db) ==
    \A n \in DOMAIN db.routes :
        /\ Deduped(db.routes[n]) = db.routes[n]
        /\ \A i \in DOMAIN db.routes[n] :
              LET t == db.routes[n][i]
              IN  /\ t.provider \in DOMAIN db.providers
                  /\ t.channel # 0 =>
                        /\ t.channel \in DOMAIN db.channels
                        /\ db.channels[t.channel].provider = t.provider
                  /\ t.account # 0 =>
                        t.account = Lowest({a \in DOMAIN db.accounts :
                            /\ db.accounts[a].provider = t.provider
                            /\ t.account \in DOMAIN db.accounts
                            /\ db.accounts[a].label
                                 = db.accounts[t.account].label})

Empty == [t \in Range(Reads) |-> <<>>]

\* What serves a name: places, and rows by what they are called.
Served(db, n, prefer) ==
    {<<k.at, db.providers[db.channels[k.channel].provider].name,
       db.channels[k.channel].protocol,
       IF k.account = 0 THEN NoLabel ELSE db.accounts[k.account].label>> :
         k \in Routes(db)!Resolve(n, prefer)}

\* A complete document restored on an empty installation serves every name
\* from the same providers, protocols and accounts in the same places, unless
\* it has one of the two contents above and the restore is refused.  (Among
\* candidates of one place the order is by channel id, and ids do change.)
RestoreServesTheSame ==
    \A s \in Sites :
        LET d    == Document(dbs[s], AllSections, TRUE)
            copy == Imported(Empty, d).db
        IN  Describable(dbs[s]) /\ ~HashTwins(d) /\ ~BrokenHeaders(d) =>
            \A n \in [base : Bases, claude : BOOLEAN, mark : {FALSE}],
               prefer \in Surfaces :
                  Served(copy, n, prefer) = Served(dbs[s], n, prefer)

\* A document imported where it came from changes nothing, with and without
\* the account keys, though accounts may share labels or keys.
RestoreInPlaceChangesNothing ==
    \A s \in Sites, keys \in BOOLEAN : Describable(dbs[s]) =>
        LET d == Document(dbs[s], AllSections, keys)
        IN  WellFormed(d) => Imported(dbs[s], d).db = dbs[s]

\* No entry is lost and no key is lost: after an import there is a row for
\* each account entry with a key, equal entries counted, and an account has
\* the key it had unless an entry of its label brought it another.
AccountsMerge ==
    \A s \in Sites, d \in Documents :
        LET before == dbs[s].accounts
            new    == Imported(dbs[s], d)
            after  == new.db.accounts
        IN  new.ok => \A i \in DOMAIN d.providers :
              LET p == ProviderNamed(new.db, d.providers[i].name)
                  entries == d.providers[i].accounts
                  brings(j, l, k) == entries[j].label = l /\ entries[j].key = k
              IN  /\ \A l \in Labels, k \in Secrets :
                        Cardinality({j \in DOMAIN entries : brings(j, l, k)})
                          <= Cardinality({a \in DOMAIN after :
                                 after[a].provider = p /\ after[a].label = l
                                 /\ after[a].key = k})
                  /\ \A a \in DOMAIN before : before[a].provider = p =>
                        \/ after[a].key = before[a].key
                        \/ /\ after[a].key # NoSecret
                           /\ \E j \in DOMAIN entries :
                                 brings(j, before[a].label, after[a].key)
=============================================================================
