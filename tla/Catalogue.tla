------------------------------ MODULE Catalogue ------------------------------
(***************************************************************************)
(* What a client can browse: countries, their cities and the cities'       *)
(* servers.  The countries are inserted when the program starts for the    *)
(* first time (core/db.go); the sync finds or creates the city that a node *)
(* reports, in its country, and writes location, protocols and load into   *)
(* the node's row (jobs/sync_nodes_with_sentinel.go), over which the other *)
(* jobs write older copies; three queries join the tables again            *)
(* (controllers/vpn.go), and a server that cannot be put into JSON breaks  *)
(* the answer it is in (models/server.go).  Which rows are active, on the  *)
(* plan and not banned is NodePlan's matter and anything here.             *)
(***************************************************************************)
EXTENDS Integers, FiniteSets

CONSTANTS
  Nodes,
  Countries,      \* the names in countries.csv that have a code
  Unlisted,       \* names that nodes report and the file does not have
  CityNames,
  CityIds,        \* bound: primary keys of the table cities
  NodeTypes       \* types that nodes report

ASSUME CityIdsAreNumbers == CityIds \subseteq Nat \ {0} /\ IsFiniteSet(CityIds)
ASSUME NamesDiffer == Countries \cap Unlisted = {}
ASSUME TypesAreNumbers == NodeTypes \subseteq Nat

VARIABLES
  process, countries,    \* the process; table countries
  interrupted,           \* history: a first start ended with part of the file inserted
  cities,                \* table cities: name and country of each id in use
  server,                \* table servers, of the nodes that have a row
  syncPc, syncNode, syncStatus, syncCity,   \* the node the sync is at
  copies,                \* rows the link and unlink jobs hold
  odd                    \* history: nodes that reported no protocol, or no load

sync == <<syncPc, syncNode, syncStatus, syncCity>>
vars == <<process, countries, interrupted, cities, server, syncPc, syncNode,
          syncStatus, syncCity, copies, odd>>

City == [name: CityNames, country: Countries]

\* "listed": active, on the plan, not banned; "unplanned": active and not
\* banned, but not on the plan; "hidden": inactive or banned.
Shown == {"listed", "unplanned", "hidden"}
Loads == {"number", "NaN"}
Row == [country: Countries, city: CityIds, shown: Shown,
        protocols: SUBSET {"WIREGUARD", "V2RAY"}, load: Loads]

\* A node's answer about itself.
Status == [country: Countries \cup Unlisted, city: CityNames, type: NodeTypes,
           peers: 0..1, maxPeers: 0..1]
\* What the sync makes of it.
Parsed == [country: Countries \cup Unlisted, city: CityNames,
           protocols: SUBSET {"WIREGUARD", "V2RAY"}, load: Loads]

IsTable(t, Keys, Values) == DOMAIN t \subseteq Keys /\ t \in [DOMAIN t -> Values]
Empty == [i \in {} |-> 0]
With(t, k, v) == [i \in DOMAIN t \cup {k} |-> IF i = k THEN v ELSE t[i]]

TypeOK ==
  /\ process \in {"down", "populating", "serving"}
  /\ countries \subseteq Countries /\ interrupted \in BOOLEAN
  /\ IsTable(cities, CityIds, City)
  /\ IsTable(server, Nodes, Row) /\ IsTable(copies, Nodes, Row)
  /\ syncPc \in {"idle", "country", "city", "save"}
  /\ syncPc # "idle" => syncNode \in Nodes /\ syncStatus \in Parsed
  /\ syncPc = "save" => syncCity \in CityIds
  /\ odd \in [{"protocol", "load"} -> SUBSET Nodes]

Init ==
  /\ process = "down" /\ countries = {} /\ interrupted = FALSE
  /\ cities = Empty /\ server = Empty /\ copies = Empty
  /\ syncPc = "idle" /\ syncNode = 0 /\ syncStatus = 0 /\ syncCity = 0
  /\ odd = [what \in {"protocol", "load"} |-> {}]

-----------------------------------------------------------------------------
(* The queries *)

\* Protocol "ALL" is no condition.  A node has one protocol at most, so its
\* first, which two of the queries look at, is any, which the third looks for.
Speaks(n, protocol) == protocol = "ALL" \/ protocol \in server[n].protocols

\* The joins' condition on servers.
Offered(n, protocol) ==
  n \in DOMAIN server /\ server[n].shown = "listed" /\ Speaks(n, protocol)

\* The servers each row of an answer counts; a row without any is left out.
CountryServers(c, protocol) == {n \in Nodes : Offered(n, protocol) /\ server[n].country = c}
GetCountries(protocol) == {c \in countries : CountryServers(c, protocol) # {}}

\* Faulty: the city's servers counted whether on the plan or not.
CityServersActive(i, protocol) ==
  {n \in DOMAIN server : server[n].city = i /\ server[n].shown # "hidden"}

CityServers(i, protocol) == {n \in Nodes : Offered(n, protocol) /\ server[n].city = i}
GetCities(c, protocol) ==
  {i \in DOMAIN cities : cities[i].country = c /\ CityServers(i, protocol) # {}}

\* The first of no protocols panics, and NaN has no JSON.
MarshalJSON(n) == server[n].protocols # {} /\ server[n].load # "NaN"

\* Not restricted to the plan's servers.  The column compared with the protocol
\* is created as jsonb, whatever the model's tag says, so the comparison works.
CityRows(c, i, protocol) ==
  {n \in DOMAIN server :
     /\ server[n].country = c /\ server[n].city = i /\ server[n].shown # "hidden"
     /\ Speaks(n, protocol)}

\* One server that has no JSON makes the whole answer an error.
GetServers(c, i, protocol) ==
  IF \A n \in CityRows(c, i, protocol) : MarshalJSON(n)
  THEN [ok |-> TRUE, servers |-> CityRows(c, i, protocol)]
  ELSE [ok |-> FALSE, servers |-> {}]

-----------------------------------------------------------------------------
(* Helpers *)

Protocols == {"ALL", "WIREGUARD", "V2RAY"}

SyncIdle == syncPc' = "idle" /\ syncNode' = 0 /\ syncStatus' = 0 /\ syncCity' = 0

\* Faulty: the infinite load not cut down.
parseCurrentLoadUncut(status) == IF status.maxPeers = 0 THEN "NaN" ELSE "number"

\* Peers over the maximum, at most 1.  Some peers over none is infinite, hence
\* 1; none over none stays "NaN".
parseCurrentLoad(status) == IF status.peers = 0 /\ status.maxPeers = 0 THEN "NaN" ELSE "number"

\* WireGuard, V2Ray, or none at all.
parseNodeProtocols(status) ==
  (IF status.type = 1 THEN {"WIREGUARD"} ELSE {}) \cup (IF status.type = 2 THEN {"V2RAY"} ELSE {})

\* Faulty: the city looked up by its name alone.
CityIdsNamed(status) == {i \in DOMAIN cities : cities[i].name = status.city}

\* The ids that parseCityId finds.
CityIdsOf(status) ==
  {i \in DOMAIN cities : cities[i].name = status.city /\ cities[i].country = status.country}

-----------------------------------------------------------------------------
(* Faulty variants, each a bug the code could have; they are used only to    *)
(* see that the properties notice.                                           *)

\* Any error of the city's query taken for its absence.
parseCityIdAnyError ==
  /\ syncPc = "city"
  /\ \/ \E i \in CityIdsOf(syncStatus) :
          /\ syncPc' = "save" /\ syncCity' = i /\ UNCHANGED <<cities, syncNode, syncStatus>>
     \/ \E i \in CityIds \ DOMAIN cities :
          /\ cities' = With(cities, i, [name |-> syncStatus.city, country |-> syncStatus.country])
          /\ syncPc' = "save" /\ syncCity' = i /\ UNCHANGED <<syncNode, syncStatus>>
     \/ SyncIdle /\ UNCHANGED cities
  /\ UNCHANGED <<process, countries, interrupted, server, copies, odd>>

\* A country that cannot be inserted is passed over.
PopulateFailGoesOn ==
  /\ process = "populating" /\ process' = "serving"
  /\ UNCHANGED <<countries, interrupted, cities, server, sync, copies, odd>>

-----------------------------------------------------------------------------
(* The start of the program *)

\* InitDB, and the look whether there are countries; either may fail, and the
\* process then ends.
Start ==
  /\ process = "down"
  /\ process' = IF countries = {} THEN "populating" ELSE "serving"
  /\ UNCHANGED <<countries, interrupted, cities, server, sync, copies, odd>>

\* One row of the file.
PopulateInsert(c) ==
  /\ process = "populating" /\ c \notin countries
  /\ countries' = countries \cup {c}
  /\ UNCHANGED <<process, interrupted, cities, server, sync, copies, odd>>

\* The end of the file; an error in reading it counts as its end.
PopulateEnd ==
  /\ process = "populating" /\ process' = "serving"
  /\ interrupted' = (interrupted \/ countries # Countries)
  /\ UNCHANGED <<countries, cities, server, sync, copies, odd>>

\* An insert fails: PopulateDB returns the error and main panics.
PopulateFail ==
  /\ process = "populating" /\ process' = "down"
  /\ interrupted' = (interrupted \/ countries # {})
  /\ UNCHANGED <<countries, cities, server, sync, copies, odd>>

-----------------------------------------------------------------------------
(* The sync, node by node *)

\* An answer, whatever the node says, and what can be parsed of it without the
\* database.
SyncStatus(n) ==
  /\ process = "serving" /\ syncPc = "idle"
  /\ syncPc' = "country" /\ syncNode' = n
  /\ \E status \in Status :
       /\ syncStatus' = [country |-> status.country, city |-> status.city,
                         protocols |-> parseNodeProtocols(status), load |-> parseCurrentLoad(status)]
       /\ odd' = [odd EXCEPT
            !["protocol"] = IF status.type \in {1, 2} THEN @ ELSE @ \cup {n},
            !["load"] = IF status.peers = 0 /\ status.maxPeers = 0 THEN @ \cup {n} ELSE @]
  /\ UNCHANGED <<process, countries, interrupted, cities, server, syncCity, copies>>

\* The country by its name: a node in a country that the table does not have,
\* or a failing query, is passed over.
parseCountryId ==
  /\ syncPc = "country"
  /\ \/ /\ syncStatus.country \in countries /\ syncPc' = "city"
        /\ UNCHANGED <<syncNode, syncStatus, syncCity>>
     \/ SyncIdle
  /\ UNCHANGED <<process, countries, interrupted, cities, server, copies, odd>>

\* The city of that name in that country, created if there is none.
parseCityId ==
  /\ syncPc = "city"
  /\ \/ \E i \in CityIdsOf(syncStatus) :
          /\ syncPc' = "save" /\ syncCity' = i /\ UNCHANGED <<cities, syncNode, syncStatus>>
     \/ \E i \in CityIds \ DOMAIN cities :
          /\ CityIdsOf(syncStatus) = {} /\ \A j \in CityIds \ DOMAIN cities : i <= j
          /\ cities' = With(cities, i, [name |-> syncStatus.city, country |-> syncStatus.country])
          /\ \/ syncPc' = "save" /\ syncCity' = i /\ UNCHANGED <<syncNode, syncStatus>>
             \/ SyncIdle
     \/ SyncIdle /\ UNCHANGED cities
  /\ UNCHANGED <<process, countries, interrupted, server, copies, odd>>

\* Saves the node's row, or creates it.
SyncSave ==
  /\ syncPc = "save"
  /\ \/ \E s \in Shown :
          server' = With(server, syncNode,
            [country |-> syncStatus.country, city |-> syncCity, shown |-> s,
             protocols |-> syncStatus.protocols, load |-> syncStatus.load])
     \/ UNCHANGED server
  /\ SyncIdle
  /\ UNCHANGED <<process, countries, interrupted, cities, copies, odd>>

\* Rows become inactive after the sync, are banned.
Hide(n) ==
  /\ n \in DOMAIN server /\ server' = [server EXCEPT ![n].shown = "hidden"]
  /\ UNCHANGED <<process, countries, interrupted, cities, sync, copies, odd>>

\* The link and unlink jobs read rows and save them whole, later: with whatever
\* flags, so those that were read do not matter.
PlanLoad(n) ==
  /\ process = "serving" /\ copies = Empty
  /\ n \in DOMAIN server /\ copies' = With(Empty, n, [server[n] EXCEPT !.shown = "hidden"])
  /\ UNCHANGED <<process, countries, interrupted, cities, server, sync, odd>>

PlanSave(n) ==
  /\ n \in DOMAIN copies
  /\ \E s \in Shown : server' = With(server, n, [copies[n] EXCEPT !.shown = s])
  /\ copies' = Empty
  /\ UNCHANGED <<process, countries, interrupted, cities, sync, odd>>

\* The process dies.
Crash ==
  /\ process' = "down" /\ SyncIdle /\ copies' = Empty
  /\ interrupted' = (interrupted \/ (process = "populating" /\ countries # {}))
  /\ UNCHANGED <<countries, cities, server, odd>>

Next ==
  \/ Start \/ (\E c \in Countries : PopulateInsert(c)) \/ PopulateEnd \/ PopulateFail
  \/ (\E n \in Nodes : SyncStatus(n)) \/ parseCountryId \/ parseCityId \/ SyncSave
  \/ \E n \in Nodes : Hide(n) \/ PlanLoad(n) \/ PlanSave(n)
  \/ Crash

Spec == Init /\ [][Next]_vars

-----------------------------------------------------------------------------
(* Properties *)

\* Every server that requests may be sent to is on the way from the list of
\* countries to a country's cities, with any protocol it has: its row names a
\* city of its country, although the three are read and written apart.
Browsable ==
  \A n \in Nodes, p \in Protocols : Offered(n, p) =>
    server[n].country \in GetCountries(p) /\ server[n].city \in GetCities(server[n].country, p)

\* What a city's count promises, its list has: every server counted for a city
\* of the country browsed is in the answer.  That one fails as a whole only if
\* a node of the city has reported neither peers nor a maximum of them or, when
\* no protocol is asked for, a type of neither protocol; stale rows, peers over
\* no maximum and the nodes of other cities do not break it.
ListedAsCounted ==
  \A p \in Protocols : \A c \in GetCountries(p) : \A i \in GetCities(c, p) :
    \/ GetServers(c, i, p).ok /\ CityServers(i, p) \subseteq GetServers(c, i, p).servers
    \/ \E m \in CityRows(c, i, p) : m \in odd["load"] \/ (p = "ALL" /\ m \in odd["protocol"])

\* The count shown for a country is the sum of those shown for its cities: each
\* server counted for the one is counted for just one of the others.
CountsAgree ==
  \A c \in countries, p \in Protocols :
    CountryServers(c, p) = UNION {CityServers(i, p) : i \in GetCities(c, p)}

\* A city has one row, whatever nodes report it, queries fail and writes are
\* cut off between its creation and the server's: browsing shows it once, with
\* all its servers.
CitiesDistinct ==
  \A i, j \in DOMAIN cities :
    cities[i].name = cities[j].name /\ cities[i].country = cities[j].country => i = j

\* A program that serves has every country of the file unless a start that was
\* to insert them was cut short, by a failing insert, a file that cannot be read
\* or the end of the process: none of the later starts, which only look whether
\* the table is empty, makes it serve with a part.
CountriesComplete == process = "serving" /\ ~interrupted => countries = Countries
=============================================================================
