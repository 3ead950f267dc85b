--------------------------- MODULE CatalogueProofs ---------------------------
(***************************************************************************)
(* Proofs about Catalogue, for any nodes, countries, cities and types:     *)
(* what requests may be sent to can be browsed, and the counts agree,      *)
(* because no row, and no copy of a row, ever names a city of another      *)
(* country; and what is counted is listed, because a row lacks only what   *)
(* its node did.                                                           *)
(***************************************************************************)
EXTENDS Catalogue, TLAPS

-----------------------------------------------------------------------------
(* Tables *)

LEMMA WithFacts ==
  ASSUME NEW K, NEW V, NEW t, IsTable(t, K, V), NEW k \in K, NEW v \in V
  PROVE  /\ IsTable(With(t, k, v), K, V)
         /\ DOMAIN With(t, k, v) = DOMAIN t \cup {k}
         /\ With(t, k, v)[k] = v
         /\ \A j \in DOMAIN t : j # k => With(t, k, v)[j] = t[j]
BY DEF IsTable, With

LEMMA EmptyIsTable ==
  ASSUME NEW K, NEW V
  PROVE  IsTable(Empty, K, V) /\ DOMAIN Empty = {}
BY DEF IsTable, Empty

\* Only the flag of a row changes with its flag.
LEMMA ShownFacts ==
  ASSUME NEW row \in Row, NEW s \in Shown
  PROVE  /\ [row EXCEPT !.shown = s] \in Row
         /\ [row EXCEPT !.shown = s].country = row.country
         /\ [row EXCEPT !.shown = s].city = row.city
         /\ [row EXCEPT !.shown = s].protocols = row.protocols
         /\ [row EXCEPT !.shown = s].load = row.load
BY DEF Row

-----------------------------------------------------------------------------
(* The invariant *)

\* A location: a city of the table, in the country named, which is one of the
\* table's as well.
InPlace(country, city) ==
  country \in countries /\ city \in DOMAIN cities /\ cities[city].country = country

\* So is that of every row and every copy of a row.
RowsInPlace ==
  /\ \A n \in DOMAIN server : InPlace(server[n].country, server[n].city)
  /\ \A n \in DOMAIN copies : InPlace(copies[n].country, copies[n].city)

\* And that of the row the sync is about to write.
SyncInPlace ==
  /\ syncPc \in {"city", "save"} => syncStatus.country \in countries
  /\ syncPc = "save" => InPlace(syncStatus.country, syncCity)

\* Between two lives of the process the table is empty or complete, but for an
\* interrupted start.
StartsComplete ==
  /\ CountriesComplete
  /\ process = "down" /\ ~interrupted => countries \in {{}, Countries}

IInv == TypeOK /\ RowsInPlace /\ SyncInPlace /\ StartsComplete

LEMMA InitIInv == Init => IInv
BY EmptyIsTable DEF Init, IInv, TypeOK, RowsInPlace, SyncInPlace, StartsComplete, CountriesComplete

\* Places are not lost: countries and cities are only added.
LEMMA PlacesStay ==
  ASSUME countries \subseteq countries',
         \A i \in DOMAIN cities : i \in DOMAIN cities' /\ cities'[i] = cities[i],
         NEW country, NEW city, InPlace(country, city)
  PROVE  InPlace(country, city)'
BY DEF InPlace

-----------------------------------------------------------------------------
(* The start of the program *)

LEMMA StartIInv == IInv /\ Start => IInv'
BY DEF Start, sync, IInv, TypeOK, RowsInPlace, SyncInPlace, InPlace, StartsComplete, CountriesComplete

LEMMA PopulateIInv ==
  ASSUME IInv, (\E c \in Countries : PopulateInsert(c)) \/ PopulateEnd \/ PopulateFail
  PROVE  IInv'
<1> USE DEF IInv, TypeOK, RowsInPlace, SyncInPlace, InPlace, StartsComplete, CountriesComplete, sync
<1>1. ASSUME NEW c \in Countries, PopulateInsert(c) PROVE IInv'
  BY <1>1 DEF PopulateInsert
<1>2. CASE PopulateEnd
  BY <1>2 DEF PopulateEnd
<1>3. CASE PopulateFail
  BY <1>3 DEF PopulateFail
<1> QED BY <1>1, <1>2, <1>3

LEMMA CrashIInv == ASSUME IInv, Crash PROVE IInv'
<1>1. TypeOK'
  BY EmptyIsTable DEF Crash, SyncIdle, IInv, TypeOK
<1>2. RowsInPlace' /\ SyncInPlace'
  BY EmptyIsTable DEF Crash, SyncIdle, IInv, RowsInPlace, SyncInPlace, InPlace
<1>3. StartsComplete'
  BY DEF Crash, IInv, TypeOK, StartsComplete, CountriesComplete
<1> QED BY <1>1, <1>2, <1>3 DEF IInv

-----------------------------------------------------------------------------
(* The sync *)

LEMMA SyncStatusIInv == ASSUME IInv, NEW n \in Nodes, SyncStatus(n) PROVE IInv'
<1>1. PICK status \in Status :
        syncStatus' = [country |-> status.country, city |-> status.city,
                       protocols |-> parseNodeProtocols(status), load |-> parseCurrentLoad(status)]
  BY DEF SyncStatus
<1>2. parseNodeProtocols(status) \in SUBSET {"WIREGUARD", "V2RAY"} /\ parseCurrentLoad(status) \in Loads
  BY DEF parseNodeProtocols, parseCurrentLoad, Loads
<1>3. syncStatus' \in Parsed
  BY <1>1, <1>2 DEF Status, Parsed
<1>4. odd' \in [{"protocol", "load"} -> SUBSET Nodes]
  BY DEF SyncStatus, IInv, TypeOK
<1> QED BY <1>3, <1>4 DEF SyncStatus, IInv, TypeOK, RowsInPlace, SyncInPlace, InPlace, StartsComplete,
                          CountriesComplete

LEMMA ParseCountryIInv == IInv /\ parseCountryId => IInv'
BY DEF parseCountryId, SyncIdle, IInv, TypeOK, RowsInPlace, SyncInPlace, InPlace, StartsComplete,
       CountriesComplete

\* The city found, or created, is of that name in that country.
LEMMA ParseCityIInv == ASSUME IInv, parseCityId PROVE IInv'
<1> USE DEF IInv, TypeOK, StartsComplete, CountriesComplete
<1>1. /\ UNCHANGED <<process, countries, interrupted, server, copies, odd>>
      /\ syncStatus \in Parsed /\ syncStatus.country \in countries /\ syncPc = "city"
  BY DEF parseCityId, SyncInPlace
<1>2. ASSUME NEW i \in CityIdsOf(syncStatus), syncPc' = "save", syncCity' = i,
             UNCHANGED <<cities, syncNode, syncStatus>>
      PROVE  IInv'
  <2>1. i \in CityIds /\ InPlace(syncStatus.country, i)
    BY <1>1, <1>2 DEF CityIdsOf, InPlace, IsTable
  <2> QED BY <1>1, <1>2, <2>1 DEF RowsInPlace, SyncInPlace, InPlace
<1>3. CASE SyncIdle /\ UNCHANGED cities
  BY <1>1, <1>3 DEF SyncIdle, RowsInPlace, SyncInPlace, InPlace
<1>4. ASSUME NEW i \in CityIds \ DOMAIN cities,
             cities' = With(cities, i, [name |-> syncStatus.city, country |-> syncStatus.country]),
             \/ syncPc' = "save" /\ syncCity' = i /\ UNCHANGED <<syncNode, syncStatus>>
             \/ SyncIdle
      PROVE  IInv'
  <2> DEFINE city == [name |-> syncStatus.city, country |-> syncStatus.country]
  <2>1. city \in City /\ city.country = syncStatus.country
    BY <1>1 DEF Parsed, City
  <2>2. /\ IsTable(cities', CityIds, City) /\ DOMAIN cities' = DOMAIN cities \cup {i}
        /\ cities'[i] = city /\ \A j \in DOMAIN cities : j # i => cities'[j] = cities[j]
    <3>1. cities' = With(cities, i, city) /\ i \in CityIds /\ IsTable(cities, CityIds, City)
      BY <1>4
    <3> HIDE DEF city, IInv
    <3> QED BY <2>1, <3>1 DEF With, IsTable
  <2>3. \A j \in DOMAIN cities : j \in DOMAIN cities' /\ cities'[j] = cities[j]
    BY <1>4, <2>2
  <2>4. RowsInPlace'
    <3>1. \A n \in DOMAIN server : InPlace(server[n].country, server[n].city)'
      BY <1>1, <2>3, PlacesStay DEF RowsInPlace, InPlace
    <3>2. \A n \in DOMAIN copies : InPlace(copies[n].country, copies[n].city)'
      BY <1>1, <2>3, PlacesStay DEF RowsInPlace, InPlace
    <3> QED BY <1>1, <3>1, <3>2 DEF RowsInPlace, InPlace
  <2>5. SyncInPlace'
    BY <1>1, <1>4, <2>1, <2>2 DEF SyncInPlace, InPlace, SyncIdle
  <2> QED BY <1>1, <1>4, <2>2, <2>4, <2>5 DEF SyncIdle
<1> QED BY <1>2, <1>3, <1>4 DEF parseCityId

LEMMA SyncSaveIInv == ASSUME IInv, SyncSave PROVE IInv'
<1> USE DEF IInv, TypeOK, StartsComplete, CountriesComplete, SyncIdle
<1>1. CASE UNCHANGED server
  BY <1>1 DEF SyncSave, RowsInPlace, SyncInPlace, InPlace
<1>2. ASSUME NEW s \in Shown,
             server' = With(server, syncNode,
               [country |-> syncStatus.country, city |-> syncCity, shown |-> s,
                protocols |-> syncStatus.protocols, load |-> syncStatus.load])
      PROVE  IInv'
  <2> DEFINE row == [country |-> syncStatus.country, city |-> syncCity, shown |-> s,
                     protocols |-> syncStatus.protocols, load |-> syncStatus.load]
  <2>1. syncNode \in Nodes /\ syncStatus \in Parsed /\ syncCity \in CityIds
        /\ InPlace(syncStatus.country, syncCity)
    BY DEF SyncSave, SyncInPlace
  <2>2. row \in Row /\ InPlace(row.country, row.city)
    BY <2>1 DEF Row, Parsed, InPlace
  <2>3. /\ IsTable(server', Nodes, Row) /\ DOMAIN server' = DOMAIN server \cup {syncNode}
        /\ server'[syncNode] = row
        /\ \A n \in DOMAIN server : n # syncNode => server'[n] = server[n]
    <3>1. server' = With(server, syncNode, row) /\ IsTable(server, Nodes, Row)
      BY <1>2
    <3>2. syncNode \in Nodes /\ row \in Row
      BY <2>1, <2>2
    <3> HIDE DEF row, IInv, TypeOK
    <3> QED BY <3>1, <3>2, WithFacts
  <2>4. \A n \in DOMAIN server' : InPlace(server'[n].country, server'[n].city)
    <3> HIDE DEF row
    <3> QED BY <2>2, <2>3 DEF RowsInPlace
  <2> QED BY <2>3, <2>4 DEF SyncSave, RowsInPlace, SyncInPlace, InPlace
<1> QED BY <1>1, <1>2 DEF SyncSave

-----------------------------------------------------------------------------
(* The other jobs *)

LEMMA HideIInv == ASSUME IInv, NEW n \in Nodes, Hide(n) PROVE IInv'
<1> USE DEF IInv, TypeOK, StartsComplete, CountriesComplete, sync
<1> DEFINE row == [server[n] EXCEPT !.shown = "hidden"]
<1>1. n \in DOMAIN server /\ server' = [server EXCEPT ![n] = row] /\ server[n] \in Row
  BY DEF Hide, IsTable
<1>2. row \in Row /\ row.country = server[n].country /\ row.city = server[n].city
  BY <1>1, ShownFacts DEF Shown
<1>3. IsTable(server', Nodes, Row)
  <2> HIDE DEF row
  <2> QED BY <1>1, <1>2 DEF IsTable
<1>4. \A m \in DOMAIN server' : InPlace(server'[m].country, server'[m].city)
  <2> HIDE DEF row
  <2>1. DOMAIN server' = DOMAIN server /\ \A m \in DOMAIN server : server'[m] = IF m = n THEN row ELSE server[m]
    BY <1>1
  <2> QED BY <1>2, <2>1 DEF RowsInPlace
<1> QED BY <1>3, <1>4 DEF Hide, RowsInPlace, SyncInPlace, InPlace

LEMMA PlanLoadIInv == ASSUME IInv, NEW n \in Nodes, PlanLoad(n) PROVE IInv'
<1> USE DEF IInv, TypeOK, StartsComplete, CountriesComplete, sync
<1> DEFINE row == [server[n] EXCEPT !.shown = "hidden"]
<1>1. n \in DOMAIN server /\ server[n] \in Row /\ copies' = With(Empty, n, row)
  BY DEF PlanLoad, IsTable
<1>2. row \in Row /\ row.country = server[n].country /\ row.city = server[n].city
  BY <1>1, ShownFacts DEF Shown
<1>3. IsTable(copies', Nodes, Row) /\ DOMAIN copies' = {n} /\ copies'[n] = row
  <2> HIDE DEF row, IInv
  <2> QED BY <1>1, <1>2 DEF With, Empty, IsTable
<1>4. InPlace(row.country, row.city)
  BY <1>1, <1>2 DEF RowsInPlace
<1> HIDE DEF row
<1> QED BY <1>3, <1>4 DEF PlanLoad, RowsInPlace, SyncInPlace, InPlace

\* The copy's location is as old as the copy and still one.
LEMMA PlanSaveIInv == ASSUME IInv, NEW n \in Nodes, PlanSave(n) PROVE IInv'
<1> USE DEF IInv, TypeOK, StartsComplete, CountriesComplete, sync
<1>1. PICK s \in Shown : server' = With(server, n, [copies[n] EXCEPT !.shown = s])
  BY DEF PlanSave
<1> DEFINE row == [copies[n] EXCEPT !.shown = s]
<1>2. copies[n] \in Row /\ InPlace(copies[n].country, copies[n].city)
  BY DEF PlanSave, IsTable, RowsInPlace
<1>3. row \in Row /\ InPlace(row.country, row.city)
  BY <1>2, ShownFacts
<1>4. /\ IsTable(server', Nodes, Row) /\ DOMAIN server' = DOMAIN server \cup {n}
      /\ server'[n] = row
      /\ \A m \in DOMAIN server : m # n => server'[m] = server[m]
  <2>1. server' = With(server, n, row) /\ row \in Row /\ IsTable(server, Nodes, Row)
    BY <1>1, <1>3
  <2> HIDE DEF row, IInv
  <2> QED BY <2>1, WithFacts
<1>5. \A m \in DOMAIN server' : InPlace(server'[m].country, server'[m].city)
  <2> HIDE DEF row
  <2> QED BY <1>3, <1>4 DEF RowsInPlace
<1> QED BY <1>4, <1>5, EmptyIsTable DEF PlanSave, RowsInPlace, SyncInPlace, InPlace

-----------------------------------------------------------------------------
(* The theorems *)

LEMMA NextIInv == IInv /\ [Next]_vars => IInv'
<1> SUFFICES ASSUME IInv, [Next]_vars PROVE IInv'
  OBVIOUS
<1>1. CASE UNCHANGED vars
  BY <1>1 DEF vars, IInv, TypeOK, RowsInPlace, SyncInPlace, InPlace, StartsComplete, CountriesComplete
<1> QED
  BY <1>1, StartIInv, PopulateIInv, CrashIInv, SyncStatusIInv, ParseCountryIInv, ParseCityIInv,
     SyncSaveIInv, HideIInv, PlanLoadIInv, PlanSaveIInv
  DEF Next

LEMMA SpecIInv == Spec => []IInv
BY InitIInv, NextIInv, PTL DEF Spec

\* The tables hold what they are meant to, the sync's variables as well.
THEOREM CatalogueTypeOK == Spec => []TypeOK
<1>1. IInv => TypeOK
  BY DEF IInv
<1> QED BY <1>1, SpecIInv, PTL

\* Every server that requests may be sent to is on the way from the countries
\* to their cities, whatever stale rows are written back.
THEOREM CatalogueBrowsable == Spec => []Browsable
<1>1. IInv => Browsable
  <2> SUFFICES ASSUME IInv, NEW n \in Nodes, NEW p \in Protocols, Offered(n, p)
               PROVE  server[n].country \in GetCountries(p)
                      /\ server[n].city \in GetCities(server[n].country, p)
    BY DEF Browsable
  <2>1. InPlace(server[n].country, server[n].city)
    BY DEF Offered, IInv, RowsInPlace
  <2>2. n \in CountryServers(server[n].country, p) /\ n \in CityServers(server[n].city, p)
    BY DEF CountryServers, CityServers
  <2> QED BY <2>1, <2>2 DEF InPlace, GetCountries, GetCities
<1> QED BY <1>1, SpecIInv, PTL

-----------------------------------------------------------------------------
(* Lists that fail *)

\* What a row lacks, its node has once failed to report.
Reported(row, n) ==
  /\ row.protocols = {} => n \in odd["protocol"]
  /\ row.load = "NaN" => n \in odd["load"]

\* So it is with every row, every copy of one, and what the sync has parsed.
LacksReported ==
  /\ \A n \in DOMAIN server : Reported(server[n], n)
  /\ \A n \in DOMAIN copies : Reported(copies[n], n)
  /\ syncPc # "idle" => Reported(syncStatus, syncNode)

\* What has been reported is not forgotten.
LEMMA OddGrows ==
  ASSUME IInv, [Next]_vars
  PROVE  odd["protocol"] \subseteq odd'["protocol"] /\ odd["load"] \subseteq odd'["load"]
<1>1. ASSUME NEW n \in Nodes, SyncStatus(n)
      PROVE  odd["protocol"] \subseteq odd'["protocol"] /\ odd["load"] \subseteq odd'["load"]
  BY <1>1 DEF SyncStatus, IInv, TypeOK
<1>2. (\E n \in Nodes : SyncStatus(n)) \/ UNCHANGED odd
  BY DEF Next, vars, Start, PopulateInsert, PopulateEnd, PopulateFail, parseCountryId, parseCityId, SyncSave,
     Hide, PlanLoad, PlanSave, Crash
<1> QED BY <1>1, <1>2

\* An answer lacks what its node is then known to have failed to report.
LEMMA StatusReported ==
  ASSUME IInv, NEW n \in Nodes, SyncStatus(n)
  PROVE  Reported(syncStatus, n)' /\ syncNode' = n
<1>1. PICK status \in Status :
        /\ syncStatus' = [country |-> status.country, city |-> status.city,
                          protocols |-> parseNodeProtocols(status), load |-> parseCurrentLoad(status)]
        /\ odd' = [odd EXCEPT
             !["protocol"] = IF status.type \in {1, 2} THEN @ ELSE @ \cup {n},
             !["load"] = IF status.peers = 0 /\ status.maxPeers = 0 THEN @ \cup {n} ELSE @]
  BY DEF SyncStatus
<1>2. parseNodeProtocols(status) = {} => status.type \notin {1, 2}
  BY DEF parseNodeProtocols
<1>3. parseCurrentLoad(status) = "NaN" => status.peers = 0 /\ status.maxPeers = 0
  BY DEF parseCurrentLoad
<1>4. odd \in [{"protocol", "load"} -> SUBSET Nodes]
  BY DEF IInv, TypeOK
<1>5. /\ status.type \notin {1, 2} => n \in odd'["protocol"]
      /\ status.peers = 0 /\ status.maxPeers = 0 => n \in odd'["load"]
  BY <1>1, <1>4
<1>6. syncStatus'.protocols = parseNodeProtocols(status) /\ syncStatus'.load = parseCurrentLoad(status)
  BY <1>1
<1> QED BY <1>2, <1>3, <1>5, <1>6 DEF SyncStatus, Reported

LEMMA LacksReportedStep == ASSUME IInv, LacksReported, [Next]_vars PROVE LacksReported'
<1>0. \A row, n : Reported(row, n) =>
        /\ row.protocols = {} => n \in odd'["protocol"]
        /\ row.load = "NaN" => n \in odd'["load"]
  BY OddGrows DEF Reported
<1>1. ASSUME NEW n \in Nodes, SyncStatus(n) PROVE LacksReported'
  BY <1>0, <1>1, StatusReported DEF SyncStatus, LacksReported, Reported
<1>2. CASE SyncSave
  <2>1. CASE UNCHANGED server
    BY <1>0, <1>2, <2>1 DEF SyncSave, SyncIdle, LacksReported, Reported
  <2>2. ASSUME NEW s \in Shown,
               server' = With(server, syncNode,
                 [country |-> syncStatus.country, city |-> syncCity, shown |-> s,
                  protocols |-> syncStatus.protocols, load |-> syncStatus.load])
        PROVE  LacksReported'
    <3> DEFINE row == [country |-> syncStatus.country, city |-> syncCity, shown |-> s,
                       protocols |-> syncStatus.protocols, load |-> syncStatus.load]
    <3>1. row.protocols = syncStatus.protocols /\ row.load = syncStatus.load /\ server' = With(server, syncNode, row)
      BY <2>2
    <3> HIDE DEF row
    <3>2. \A n \in DOMAIN server' : server'[n] = IF n = syncNode THEN row ELSE server[n]
      BY <3>1 DEF With
    <3>3. DOMAIN server' = DOMAIN server \cup {syncNode}
      BY <3>1 DEF With
    <3>4. Reported(row, syncNode)
      BY <1>2, <3>1 DEF SyncSave, LacksReported, Reported
    <3> QED BY <1>0, <1>2, <3>2, <3>3, <3>4 DEF SyncSave, SyncIdle, LacksReported, Reported
  <2> QED BY <1>2, <2>1, <2>2 DEF SyncSave
<1>3. ASSUME NEW n \in Nodes, Hide(n) PROVE LacksReported'
  <2>1. DOMAIN server' = DOMAIN server
        /\ \A m \in DOMAIN server : server'[m].protocols = server[m].protocols /\ server'[m].load = server[m].load
    <3> DEFINE row == [server[n] EXCEPT !.shown = "hidden"]
    <3>1. row.protocols = server[n].protocols /\ row.load = server[n].load
      BY <1>3, ShownFacts DEF Hide, IInv, TypeOK, IsTable, Shown
    <3>2. server' = [server EXCEPT ![n] = row]
      BY <1>3 DEF Hide
    <3> HIDE DEF row
    <3> QED BY <3>1, <3>2
  <2> QED BY <1>0, <1>3, <2>1 DEF Hide, sync, LacksReported, Reported
<1>4. ASSUME NEW n \in Nodes, PlanLoad(n) PROVE LacksReported'
  <2> DEFINE row == [server[n] EXCEPT !.shown = "hidden"]
  <2>1. row.protocols = server[n].protocols /\ row.load = server[n].load /\ copies' = With(Empty, n, row)
    BY <1>4, ShownFacts DEF PlanLoad, IInv, TypeOK, IsTable, Shown
  <2> HIDE DEF row
  <2>2. DOMAIN copies' = {n} /\ copies'[n] = row
    BY <2>1 DEF With, Empty
  <2>3. Reported(row, n)
    BY <1>4, <2>1 DEF PlanLoad, LacksReported, Reported
  <2> QED BY <1>0, <1>4, <2>2, <2>3 DEF PlanLoad, sync, LacksReported, Reported
<1>5. ASSUME NEW n \in Nodes, PlanSave(n) PROVE LacksReported'
  <2>1. PICK s \in Shown : server' = With(server, n, [copies[n] EXCEPT !.shown = s])
    BY <1>5 DEF PlanSave
  <2> DEFINE row == [copies[n] EXCEPT !.shown = s]
  <2>2. row.protocols = copies[n].protocols /\ row.load = copies[n].load /\ server' = With(server, n, row)
    BY <1>5, <2>1, ShownFacts DEF PlanSave, IInv, TypeOK, IsTable
  <2> HIDE DEF row
  <2>3. DOMAIN server' = DOMAIN server \cup {n}
        /\ \A m \in DOMAIN server' : server'[m] = IF m = n THEN row ELSE server[m]
    BY <2>2 DEF With
  <2>4. Reported(row, n)
    BY <1>5, <2>2 DEF PlanSave, LacksReported, Reported
  <2> QED BY <1>0, <1>5, <2>3, <2>4, EmptyIsTable DEF PlanSave, sync, LacksReported, Reported
<1>6. CASE Crash
  BY <1>0, <1>6, EmptyIsTable DEF Crash, SyncIdle, LacksReported, Reported
<1>7. CASE parseCountryId \/ parseCityId
  BY <1>0, <1>7 DEF parseCountryId, parseCityId, SyncIdle, LacksReported, Reported
<1>8. CASE \/ Start \/ (\E c \in Countries : PopulateInsert(c)) \/ PopulateEnd \/ PopulateFail
           \/ UNCHANGED vars
  BY <1>0, <1>8 DEF Start, PopulateInsert, PopulateEnd, PopulateFail, vars, sync, LacksReported, Reported
<1> QED BY <1>1, <1>2, <1>3, <1>4, <1>5, <1>6, <1>7, <1>8 DEF Next

\* What a city's count promises its list has, and it fails only where a node
\* has reported what cannot be listed.
THEOREM CatalogueListedAsCounted == Spec => []ListedAsCounted
<1>1. Init => LacksReported
  BY EmptyIsTable DEF Init, LacksReported
<1>2. IInv /\ LacksReported => ListedAsCounted
  <2> SUFFICES ASSUME IInv, LacksReported,
                      NEW p \in Protocols, NEW c \in GetCountries(p), NEW i \in GetCities(c, p)
               PROVE  \/ GetServers(c, i, p).ok /\ CityServers(i, p) \subseteq GetServers(c, i, p).servers
                      \/ \E m \in CityRows(c, i, p) :
                           m \in odd["load"] \/ (p = "ALL" /\ m \in odd["protocol"])
    BY DEF ListedAsCounted
  <2>1. CityServers(i, p) \subseteq CityRows(c, i, p)
    BY DEF CityServers, CityRows, Offered, GetCities, IInv, RowsInPlace, InPlace
  <2>2. CASE \A n \in CityRows(c, i, p) : MarshalJSON(n)
    BY <2>1, <2>2 DEF GetServers
  <2>3. ASSUME NEW m \in CityRows(c, i, p), ~MarshalJSON(m)
        PROVE  m \in odd["load"] \/ (p = "ALL" /\ m \in odd["protocol"])
    BY <2>3 DEF MarshalJSON, CityRows, Speaks, LacksReported, Reported
  <2> QED BY <2>2, <2>3
<1>3. IInv /\ LacksReported /\ [Next]_vars => LacksReported'
  BY LacksReportedStep
<1> QED BY <1>1, <1>2, <1>3, SpecIInv, PTL DEF Spec

-----------------------------------------------------------------------------
(* Counts, countries and cities *)

\* What a country counts, its cities count, and nothing else.
THEOREM CatalogueCountsAgree == Spec => []CountsAgree
<1>1. IInv => CountsAgree
  <2> SUFFICES ASSUME IInv, NEW c \in countries, NEW p \in Protocols
               PROVE  CountryServers(c, p) = UNION {CityServers(i, p) : i \in GetCities(c, p)}
    BY DEF CountsAgree
  <2>1. ASSUME NEW n \in CountryServers(c, p)
        PROVE  \E i \in GetCities(c, p) : n \in CityServers(i, p)
    BY <2>1 DEF CountryServers, CityServers, GetCities, Offered, IInv, RowsInPlace, InPlace
  <2>2. ASSUME NEW i \in GetCities(c, p), NEW n \in CityServers(i, p)
        PROVE  n \in CountryServers(c, p)
    BY <2>2 DEF CountryServers, CityServers, GetCities, Offered, IInv, RowsInPlace, InPlace
  <2> QED BY <2>1, <2>2
<1> QED BY <1>1, SpecIInv, PTL

\* A program that serves lacks a country only if its first start was cut short.
THEOREM CatalogueCountriesComplete == Spec => []CountriesComplete
<1>1. IInv => CountriesComplete
  BY DEF IInv, StartsComplete
<1> QED BY <1>1, SpecIInv, PTL

\* A step that touches the cities creates one that was not there.
LEMMA CityCreated ==
  ASSUME IInv, [Next]_vars
  PROVE  \/ UNCHANGED cities
         \/ \E i \in CityIds, city \in City :
              /\ cities' = With(cities, i, city)
              /\ \A j \in DOMAIN cities : cities[j].name # city.name \/ cities[j].country # city.country
<1>1. CASE parseCityId /\ ~UNCHANGED cities
  <2>1. syncStatus.city \in CityNames /\ syncStatus.country \in Countries
    BY <1>1 DEF parseCityId, IInv, TypeOK, SyncInPlace, Parsed
  <2>2. PICK i \in CityIds :
          /\ cities' = With(cities, i, [name |-> syncStatus.city, country |-> syncStatus.country])
          /\ CityIdsOf(syncStatus) = {}
    BY <1>1 DEF parseCityId
  <2> DEFINE city == [name |-> syncStatus.city, country |-> syncStatus.country]
  <2>3. city \in City /\ city.name = syncStatus.city /\ city.country = syncStatus.country
    BY <2>1 DEF City
  <2> QED BY <2>2, <2>3 DEF CityIdsOf
<1>2. parseCityId \/ UNCHANGED cities
  BY DEF Next, vars, Start, PopulateInsert, PopulateEnd, PopulateFail, SyncStatus, parseCountryId, SyncSave,
     Hide, PlanLoad, PlanSave, Crash
<1> QED BY <1>1, <1>2

\* Each city has one row, through failing queries and ends of the process.
THEOREM CatalogueCitiesDistinct == Spec => []CitiesDistinct
<1>1. Init => CitiesDistinct
  BY EmptyIsTable DEF Init, CitiesDistinct
<1>2. CitiesDistinct /\ IInv /\ [Next]_vars => CitiesDistinct'
  <2> SUFFICES ASSUME CitiesDistinct, IInv, [Next]_vars PROVE CitiesDistinct'
    OBVIOUS
  <2>1. CASE UNCHANGED cities
    BY <2>1 DEF CitiesDistinct
  <2>2. ASSUME NEW i \in CityIds, NEW city \in City, cities' = With(cities, i, city),
               \A j \in DOMAIN cities : cities[j].name # city.name \/ cities[j].country # city.country
        PROVE  CitiesDistinct'
    <3>1. /\ DOMAIN cities' = DOMAIN cities \cup {i} /\ cities'[i] = city
          /\ \A j \in DOMAIN cities : j # i => cities'[j] = cities[j]
      BY <2>2 DEF With
    <3> QED BY <2>2, <3>1 DEF CitiesDistinct
  <2> QED BY <2>1, <2>2, CityCreated
<1> QED BY <1>1, <1>2, SpecIInv, PTL DEF Spec
=============================================================================
