------------------------------ MODULE Servers ------------------------------
(***************************************************************************)
(* Selection of a server: internal/api/servers.go, the server predicates   *)
(* of internal/api/types.go, and the three places of the daemon that       *)
(* select one (cmdConnect, doAutoConnect, cmdServers).                     *)
(*                                                                         *)
(* A server is a record of what the selection looks at.  A name or a       *)
(* country is a string; upper and lower case are one (EqualFold).  The     *)
(* name, city and country search of a filter is used by no caller and left *)
(* out, and so are the tier bounds and feature masks of ServerFilter.      *)
(***************************************************************************)
EXTENDS Integers, Sequences, FiniteSetsExt, Functions

CONSTANTS
    Catalogue,     \* the daemon's serverList
    MaxTier        \* the account's tier, vpnInfo.VPN.MaxTier

Features == {"Tor", "Streaming", "SecureCore", "P2P"}

Tiers == 0..3

ServerRec == [name: STRING, country: STRING, online: BOOLEAN, tier: Tiers,
              load: Nat, score: Nat, features: SUBSET Features]

NoServer == [name |-> "", country |-> "", online |-> FALSE, tier |-> 0,
             load |-> 0, score |-> 0, features |-> {}]

\* Servers are named and no two have one name; each is in a country.
ASSUME CatalogueAssumption ==
    /\ Catalogue \in Seq(ServerRec)
    /\ MaxTier \in Tiers
    /\ \A i, j \in DOMAIN Catalogue :
          i # j => Catalogue[i].name # Catalogue[j].name
    /\ \A i \in DOMAIN Catalogue : Catalogue[i].name # "" /\ Catalogue[i].country # ""

-----------------------------------------------------------------------------
\* The legacy tier Basic counts as Plus.
EffectiveTier(s) == IF s.tier = 1 THEN 2 ELSE s.tier

\* "" is no country and no name.
Filter(country, features, exclude) ==
    [country |-> country, features |-> features, exclude |-> exclude]

Everything == Filter("", {}, "")

\* Every caller sets OnlineOnly.
Matches(s, f, tier) ==
    /\ EffectiveTier(s) <= tier
    /\ s.online
    /\ f.exclude # "" => s.name # f.exclude
    /\ f.country # "" => s.country = f.country
    /\ f.features \subseteq s.features

Before(s, t) ==
    \/ s.score < t.score
    \/ s.score = t.score /\ s.load < t.load

\* sort.Slice may leave equals in any order; here they keep theirs.
Ahead(list, i, j) ==
    Before(list[i], list[j]) \/ (i < j /\ ~Before(list[j], list[i]))

\* Some entries of a list, each moved to its place.
Placed(list, place) ==
    LET moved == {<<place[i], list[i]>> : i \in DOMAIN place}
    IN  [k \in 1 .. Cardinality(DOMAIN place) |-> (CHOOSE p \in moved : p[1] = k)[2]]

FilterServers(servers, f, tier) ==
    LET at == {i \in DOMAIN servers : Matches(servers[i], f, tier)}
    IN  Placed(servers, [i \in at |-> 1 + Cardinality({j \in at : Ahead(servers, j, i)})])

FindFastestServer(servers, f, tier) ==
    LET found == FilterServers(servers, f, tier)
    IN  IF found = <<>> THEN NoServer ELSE found[1]

\* By name alone: neither its state nor its tier is looked at.
FindServerByName(servers, name) ==
    LET at == {i \in DOMAIN servers : servers[i].name = name}
    IN  IF at = {} THEN NoServer ELSE servers[Min(at)]

-----------------------------------------------------------------------------
(* The daemon *)

\* cmdServers: what a client gets has no score.
ServerList ==
    LET entries == FilterServers(Catalogue, Everything, MaxTier)
    IN  [i \in DOMAIN entries |-> [entries[i] EXCEPT !.score = 0]]

\* cmdConnect: p is "fastest", a name or a country.
Requested(p) ==
    IF p \in {"fastest", ""} THEN FindFastestServer(Catalogue, Everything, MaxTier)
    ELSE LET named == FindServerByName(Catalogue, p)
         IN  IF named # NoServer THEN named
             ELSE FindFastestServer(Catalogue, Filter(p, {}, ""), MaxTier)

\* doAutoConnect with the filters kept when the country is given up.
AutoConnectServer_Mutant(lastCountry, filters) ==
    LET tries == << Filter(lastCountry, filters, ""), Filter("", filters, ""), Everything >>
        found == [i \in 1..3 |-> FindFastestServer(Catalogue, tries[i], MaxTier)]
        at    == {i \in 1..3 : found[i] # NoServer}
    IN  IF at = {} THEN NoServer ELSE found[Min(at)]

\* doAutoConnect: the saved country and filters, then the country alone, then
\* anything.
AutoConnectServer(lastCountry, filters) ==
    LET tries == << Filter(lastCountry, filters, ""), Filter(lastCountry, {}, ""), Everything >>
        found == [i \in 1..3 |-> FindFastestServer(Catalogue, tries[i], MaxTier)]
        at    == {i \in 1..3 : found[i] # NoServer}
    IN  IF at = {} THEN NoServer ELSE found[Min(at)]

=============================================================================
