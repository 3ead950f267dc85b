# A specification of the Sentinel dVPN apps API

The service lets mobile and desktop apps use the nodes of the Sentinel dVPN
network without a wallet or tokens of their own. It gives every device a wallet,
pays its fees, lends it a place in a subscription to the provider's *plan*,
decides which nodes are on that plan, and brokers credentials for them. What is
true is on the blockchain, behind an HTTP API; what the service goes by is in
PostgreSQL; background jobs and request handlers keep the two together, without
locks or transactions, by reading rows, making API calls that take seconds, and
writing the rows back whole. The modules here describe that, and check and prove
what it still guarantees.

Paths are relative to the repository's root (`src/` here). `vendor/` and the
repository's Go modules are third-party code.

## Inventory

| Component | State | Operations | Interacts with |
|---|---|---|---|
| Wallet onboarding: `controllers/devices.go`, `jobs/grant_fee_to_wallets.go`, `jobs/enroll_wallets.go` | tables `devices`, `sentinel_plan_subscriptions`; on the chain: fee allowances, plan subscriptions, allocations | POST /devices; grant a batch of 5 every second; enroll a batch of 15 every second, buying a plan subscription when none has a day left | both jobs write the same rows; the gateway and authentication read them |
| Node plan: `jobs/sync_nodes_with_sentinel.go`, `jobs/link_nodes_with_plan.go`, `jobs/unlink_nodes_from_plan.go` | table `servers`, `servers_available` of `cities` and `countries`; on the chain: the plan's nodes | sync every hour; link then unlink a batch of 5 each, every 5 seconds | all three write the same rows; gateway and catalogue read them |
| Gateway: `controllers/vpn.go` (connect, createCredentials) | table `sentinel_node_subscriptions`; on the chain: node subscriptions, sessions | pick a server, find or buy the node's subscription, ask for credentials | reads rows of devices and servers that jobs rewrite |
| Catalogue: `controllers/vpn.go` (countries, cities, servers, own address), `models/server.go` | tables `countries`, `cities`, locations in `servers` | queries; countries inserted at the first start, cities found or created by the sync | rows written by the node-plan jobs |
| Authentication: `middleware/auth.go` | none | token to device, refusal of banned devices | `devices` |
| Sentinel API client: `internal/sentinel/sentinel.go` | none | one function for each endpoint, no retry, no time-out except 4 s for a node's own status | everything above |
| Scheduling: `cmd/api/main.go`, vendored gocron | four schedulers, queues of runs | starts jobs; runs of one scheduler exclude each other, those of different ones do not | the jobs, whose loops decide when a run ends |
| Set-up, routes, logging, health: `core/`, `routers/`, `controllers/health.go` | empty tables and the list of countries | at start | - |

What is hard about it:

* **Stale writes.** `DB.Save` updates every column. A job that holds a row for
  the length of an API call writes back the columns that others own as they were
  when it read them: the subscription, the fee flag, a ban, a sync's findings.
* **Two stores.** A transaction on the chain and the row that records it are two
  steps. A lost answer, a failed write, a panic or a restart comes between.
* **Batches.** Each query takes the first 5 or 15 rows of an order. Rows that
  cannot make progress may hide those that could.
* **Succession.** A plan subscription ends; all devices move to its successor in
  batches while copies of their rows still name the old one.
* **Check, then act.** Concurrent requests look for a node's subscription and buy
  one if they find none.
* **Calls that hang** and runs that pile up behind them.

What makes each component correct:

* Onboarding: the database never claims an allowance or an allocation that the
  chain does not hold; an enrolment that no job holds an older copy of is not
  undone, nor is a ban; a subscription is bought only when needed, and one paid
  for is lost only to a fault; subscriptions succeed one another, and devices follow
  them; all end up enrolled in the current one, and stay.
* Node plan: a banned node leaves the plan and does not come back; the flag of a
  node on the plan is not dropped but by a sync that could not know better, nor that of
  one off the plan raised without such a cause; once the world is quiet, the jobs come to rest: plan, flags and counts settle at what nodes and operator ask
  for.
* Gateway: a session is asked for only with a wallet that the chain backs, whatever
  has happened since the row was read, and of a node with a recorded subscription; concurrent requests for a node buy no more
  subscriptions than there are requests; nothing is paid for and lost but to a fault;
  once the jobs have come to rest, requests get what they ask for.
* Authentication: a banned device stays out, in spite of stale writes, once nothing
  older is held.
* Catalogue: every server that requests may be sent to is on the way from the countries to
  the cities; what a city's count promises its list has; the count of
  a country is that of its cities; a city has one row; the table of countries is complete.
* API client: a list fetched page by page is the list of one moment.
* Scheduling: runs of a scheduler exclude each other, none is lost and none is stuck.

## Modules

| Module | What it is |
|---|---|
| `LedgerMirror` | abstract: facts are established, and recorded as claims only while they stand |
| `Onboarding` | the device rows, the chain's part in them, both jobs, the handler, failures; its properties |
| `OnboardingProofs` | its types, invariants and action properties, proved |
| `NodePlan` | the server rows, the plan, the three jobs, failures; its properties |
| `NodePlanProofs` | its types, the permanence of bans and of rest, the flag's falls and rises, proved |
| `Gateway` | requests from token to credentials, in any environment; its properties |
| `GatewayProofs` | its safety and the refinement of `LedgerMirror`, proved |
| `Service` | `Onboarding` and `Gateway` in one process, over one table of devices |
| `ServiceProofs` | that it implements `Gateway` and keeps banned devices out, proved |
| `Listing` | `NodePlan` and `Gateway` in one process, over one table of servers |
| `ListingProofs` | that the gateway's safety holds there, banned nodes stay out, and rest is enough, proved |
| `AtomicRead` | abstract: a list read as it was at one moment, or an error |
| `Paging` | the loop that fetches a list page by page |
| `PagingProofs` | that it implements `AtomicRead`, and its completeness, proved |
| `Catalogue` | countries, cities, the locations of servers, and the queries over them |
| `CatalogueProofs` | its invariants, proved |
| `Scheduler` | timer, channel, queue and runners of a scheduler |
| `Fetching` | `Scheduler` and `Paging` in one process: the runs of a job that fetches a list |
| `SchedulerProofs` | that runs exclude each other, are not lost and not stuck, and that `Fetching` implements both its parts, proved |
| `MCOnboarding`, `MCNodePlan`, `MCGateway`, `MCService`, `MCListing`, `MCFetching`, `MCCatalogue`, `MCScheduler` | instances for TLC |

### Onboarding

`device` is the table `devices`, one record of the columns that matter for each
id; `registered` says which ids are in the table. `allowances`, `allocations` and
`lifetime` are the chain. A job is a program counter, the rows it holds
(`grantRows`, `enrollRows`, functions on the ids of the batch that shrink as rows
are saved) and what else is local to a run. Every database statement and every API
call is one action, named after the function or the place in `Run`:

    grant    GrantLoad  GrantFetch  GrantMark*  GrantSubmit  GrantSave*
    enroll   EnrollSelect  [EnrollCreate  FindSubscriptionByID  EnrollRecord]
             EnrollLoad  EnrollSubmit  EnrollSave*

An API call (`Call`) succeeds, fails without effect, or fails although its
transaction went through; the chain may also refuse an allowance that exists.
`Save` writes the row held, with the job's own column changed, or fails and is
skipped, as in the code. `Crash` drops what the jobs hold and keeps both stores; it
stands for a restart, a panic of a job (which gocron does not recover) and a
`Run` that ends in a nil dereference. `Ban` is an operator's update: no code sets
`is_banned`. `Age` brings a subscription within the 24 hours in which
`EnrollSelect` no longer takes it; before that, time does not matter.

Ids are drawn by the database before a row becomes visible, and creation times by
the process, so rows may appear in any order of either.

Two things learned while modelling. An enrolment *can* be undone: the grant job
may write back `subscription_id` as nil, the enroll job `is_fee_granted` as false.
`Settled` is what the code does guarantee, and `Convergence` says the device gets
there; `AtHome` adds the subscription the job selects, and no device leaves it while it lives. And a plan subscription can be orphaned only between the purchase and its
record; `EnrollCreate` never leaves one otherwise.

### NodePlan

`cond` is a node as the world sees it: affordable, too expensive, or down (which
covers missing from the chain's list, unhealthy, and not answering). `server` is
the table, `createdAt` its order, `counted` the set behind `servers_available`, and
`plan` the nodes on the provider's plan. Of `revision` the model keeps whether it is
that of the latest sync (`fresh`): drawing a new one makes every row, and every copy
a job holds, an old one.

    sync   SyncFetch  SyncFetchPlan  (SyncSkip | SyncRead SyncSave)*  SyncDeactivate
    plan   LinkLoad  [LinkSubmit  LinkSave*  Count]
           UnlinkLoad  (UnlinkSubmit UnlinkSave)*  Count

Health and status are looked at in `SyncFetch` and `SyncSkip`; the order in which
a sync visits nodes is the API's, hence any. A price that is not given in the
service's denomination, or does not parse, is zero, so such a node counts as
affordable. The two `UPDATE`s of cities and countries are one step: they are the
same query over the same rows, and nothing reads both.

`NodePlan` takes the fetched lists for atomic reads; `Paging` says when they are.
Locations, protocols and load are `Catalogue`'s.

### Gateway

`pc`, `caller`, `held`, `target` and `lease` are what each of several requests is at
and holds: the device it is from, the row it read, the server it chose, the node
subscription it is buying. `nodeSubs` is the table
`sentinel_node_subscriptions`; `leased` and `ended` are the chain's part. Every database
statement and every API call is one action:

    RequireAuth  CurrentDevice  (ConnectToCity | ConnectToServer)
    CreateCredentialsLookup  [CreateNodeSubscription  FindSubscriptionByID
    RecordNodeSubscription]  CreateCredentials  RespondCredentials

The row is read twice, and only the first read looks at the ban. What comes after goes on
with the second row, however long the purchase takes. A handler that panics (a nil
subscription, a success without credentials, a server without protocols) is
recovered by gin and answers 500, which here is the answer "error". `answer` is
that of the last request in the slot.

Everything else is the environment: rows written with any claims that the chain backs,
allowances, allocations, plan subscriptions that come and go, servers listed
or not, node subscriptions that end. It assumes next to nothing, so that the two
compositions can put the jobs in its place:

* `Service` has the rows written by `Onboarding`. That its jobs, with stale writes and
  lost answers, are such an environment is checked and proved (`GatewaySpec`).
  `running` is there the subscriptions with a day left.
* `Listing` has `listed` be `Listed` of `NodePlan`'s rows, and devices all enrolled.

### Paging

The sync's two loops and the grant job's are copies of each other. `list` changes between
pages as it likes; `emptyLists` says how the API answers for a page past the end, which decides
whether the loop ends. The histories `begun`, `appended` and `fits` record what the list did
meanwhile. The code's pages hold a million items (`Limit`). `AtomicRead` is what its
callers take the loop for: the refinement holds as long as the list stays within a page,
and promises nothing after that ("torn"). The page after the last is asked for always, so
even a short list takes two calls between which it may change.

### Catalogue

`countries`, `cities` and `server` are the tables, of which a row's state is only whether
it is listed, off the plan or hidden; how it gets there is `NodePlan`'s matter. The first start
inserts the file's countries one by one (`PopulateInsert`, `PopulateEnd`, `PopulateFail`),
later ones look only whether there are any. The sync goes through a node in
`SyncStatus`, `parseCountryId`, `parseCityId` and `SyncSave`, while `PlanLoad` and `PlanSave`
write older copies back. `GetCountries`, `GetCities` and `GetServers` are the queries, each with
its filter on a protocol (`Speaks`); `MarshalJSON` says whether a server can be in an answer: one
that has no protocol panics, one whose load is not a number has no JSON, and either takes the
whole answer with it. `GetServers` lists servers off the plan too, unlike the counts, so a node
that nobody may connect to can break a city's list. The history `odd` records which nodes ever
reported no protocol, or no load: `ListedAsCounted` says that nothing else, no stale
copy and no infinite load, keeps a counted server from being listed.

The model's tag on `protocols` says `json`, a type for which PostgreSQL has no `@>`. The
column is `jsonb` all the same: the program creates its tables (`cmd/api/main.go:27`), and gorm
asks the field's Go type before the tag (`gorm/migrator/migrator.go:66-74`,
`datatypes/json_type.go:68-76`). So the filter of `GetServers` works.

### Scheduler

The vendored gocron as the program sets it up: `runContinuous` is the timer, `run` the
executor, which has a goroutine (`enqueue`) put the run into the queue from which
`limitModeRunner` takes it; `runJob` is the end of a run. The comment on
`RescheduleMode` (`executor.go:12`) says that a run is skipped when the limit is reached;
the count this is decided by, `limitModeRunningJobs`, is never incremented (`executor.go:225`), so runs
queue up instead, which is a finding (`SkipsAtLimit`). What the code does is stated beside it:
`RunsExclude`, `NoneLost` (an occurrence is in one place from the timer to the end of its run),
`EveryRunHappens`. The properties assume nothing of the time between two runs of one scheduler.

### Fetching

How long a run takes is not the scheduler's to say. `Fetching` puts `Paging` into the runs of
`Scheduler`: a run begins with its loop, unless an earlier query fails (`StartRun`), and ends
after it (`EndRun`), while the list changes and occurrences pile up. A job whose API answers
a page past the end with an empty list never ends its run, and no other begins; with any
other answer every occurrence gets its run.

## Runs

| Run | Instance | Question |
|---|---|---|
| `onboarding` | 2 devices with ids against creation order, 2 subscriptions, batches of 2 and 1, all failures until they stop | all safety and action properties, `Convergence` |
| `nodeplan_safety` | 2 nodes, batch 2, all failures, sync at any moment, 1 change | `BanHolds`, `FlagDropsOnlyToStaleSync`, `FlagRisesWithCause` |
| `nodeplan_races` | 2 nodes, batch 2, no failures, 2 changes | `ComesToRest`, `RestIsKept`; with them `PlanSettles` and `CountsSettle` |
| `nodeplan_window` | 2 nodes, batch 1, no failures | `WindowSettles` |
| `nodeplan_marked` | 2 nodes, no failures | finding: `MarkedWereAdded` is violated |
| `nodeplan_inactive` | 2 nodes, no failures | finding: `InactiveAfterSync` is violated |
| `gateway` | 3 requests, 2 nodes, 3 purchases, all failures; or one request and a free environment | `CredentialsBacked`, `SessionsOnLeases`, `OneLeasePerRequest`, `WasteOnlyFromFaults`, `LeaseMirrorSpec` |
| `service` | 1 device, 2 plan subscriptions, 1 request, all failures until they stop | `GatewaySpec`, `BarredForEver`, `ServedEventually` |
| `listing` | 1 node, 1 request, all failures until they stop, 1 change | `ShunnedForEver`, `ComesToRest`; with it `ServedFromPlan` |
| `fetching` | 1 runner, a queue of 1, 4 occurrences; pages of 1, lists of up to 2 of 3 items, any change, any failure | `RunsExclude`, `NoneLost`, `EveryRunHappens`; `AtomicSpec`, `CompleteIfAppended`, `Terminates` |
| `catalogue` | 2 nodes, 2 countries and one not in the file, one city name, 2 city ids, node types 1 and 3 | `Browsable`, `ListedAsCounted`, `CountsAgree`, `CitiesDistinct`, `CountriesComplete` |
| `scheduler_skips` | 1 runner, a queue of 2, 8 occurrences | finding: `SkipsAtLimit` is violated |

Bounds. Two devices are enough for a batch with more than one row, a partly saved
batch, and a row behind the batch limit; rows never interact other than through
batches. With two subscriptions devices move once from an ending subscription to
its successor; after the last id purchases fail, and `Age` is cut off so that a live
subscription can be there to stay. Two nodes give one that a job holds and one that
a sync works on, and a batch of which a part is affordable. `MaxChanges` bounds how
often nodes change and operators ban: what matters is a change in the middle of a
run, and a second one on top. `nodeplan_safety` leaves `counted` out of what tells
states apart (`SafetyView`): nothing it checks depends on it.

Three requests with three purchases let one buy while a second is on its way and a third
comes when the first purchase has ended. `MCGateway` has two kinds of behaviour: the environment at rest and
requests beside each other, or the environment free and one request at a time; requests
touch each other only through the table and the chain's node subscriptions, which the first kind covers, and the
second is about one row held against a moving environment. The proofs
have no such division. One device is enough for `Service`: the batches are
`onboarding`'s matter. `Listing` has one node, whose flag, plan membership and row go wrong in every way that
failures allow; two of them are in `nodeplan_races`. Lists of two with pages of one are the
least that fit a page at one call and not at the next; pages are full or empty there, and of any
length in the proofs. Two nodes in one city of
two, with one name in two countries, show every way in which
names and ids could be confused. With a queue for one, four occurrences are one that runs, one in the queue, one whose
goroutine finds it full, and one in the channel.

Deadlock is checked in every run but `scheduler_skips`, which would stop when the bound on
occurrences is reached; in `fetching` the list at the API can always change, so that nobody
waits on everybody is said by `EveryRunHappens` there and `NeverStuck` in the proofs. Each
property of a passing run has a faulty variant of one operation beside the model (an unchecked answer, a partial
row, a missing guard) under which it fails.

Fairness. `Convergence`, `ComesToRest`, `PlanSettles` and the like assume weak fairness of each job
as a whole (the schedulers start every job for ever and a run goes on) and speak
of behaviours in which failures stop (`Stabilize`): with calls failing for ever
nothing is ever settled. That calls end is an assumption, as the default HTTP client
has no time-out: a call that hangs stops its job until the process is restarted.
`ServedEventually` and `ServedFromPlan` assume the same of the jobs and nothing of the requests:
nobody has to make one, and they speak of those that are made. `Terminates` assumes that
pages are answered, `EveryRunHappens` that goroutines are scheduled besides, and both that an empty page has no result.

`SyncRest` is a timing assumption. The sync is started every hour, the plan job every 5
seconds, so that many passes of the plan job fall between two syncs; the settling
runs assume two. It is needed: with syncs back to back the plan
does not settle, because a link job's stale write during a sync sets a row's revision
back, the sync then deactivates a healthy node's row, the unlink job takes the
node off the plan, the next sync activates it, and so on. The safety run assumes
nothing (`SyncRest = 0`); `nodeplan_races`, `nodeplan_window` and `listing` assume two passes.

What does not hold, and is stated in a weaker form: concurrent requests for one node
buy a subscription each, so `OneLeasePerRequest` bounds them by the requests; with fewer rows in a batch than
there are servers `PlanSettles` is false, because the link job always looks at the
five oldest rows and never past those that are too expensive; `WindowSettles` says what
settles then. A node that went down after the flag of its row was cleared
stays on the plan, as nothing looks for it: the settled states are claimed for
nodes that can be reached.

## Findings

* `nodeplan_marked`: `jobs/link_nodes_with_plan.go` marks all selected rows as
  included once the transaction for the affordable ones succeeds, and logs of each
  that it "was added to the plan" (line 59).
* `nodeplan_inactive`: `jobs/sync_nodes_with_sentinel.go` says of an unhealthy node
  "It will be marked inactive after sync." (line 65); a link job holding the row
  makes it active again, until the next sync.
* `scheduler_skips`: `executor.go:12` promises of `RescheduleMode` that "if a limit on maximum
  concurrent jobs is set and the limit is reached, a job will skip it's run and try again on the
  next occurrence in the schedule". The occurrence is queued: after a grant run of a minute come
  sixty without the second between them.

## Proofs

All theorems hold for any sets of devices, subscriptions, nodes, requests and items and any
bounds, from the assumptions named next to the constants: ids are numbers other than the one
for nil, limits are positive, the sets of nodes and requests and the ids of node
subscriptions and cities are finite.

`OnboardingProofs`. `FeeFlagBacked` is not inductive: a grant job that has its answer writes
the flag later, and the enroll job may write a flag it read earlier. `IInv` adds what the
jobs hold: the copies in `grantRows` and `enrollRows` claim only what the chain holds
(`GrantRowsBacked`, `EnrollRowsBacked`), and after an acknowledged transaction all the batch
is in the chain's set (`GrantAcknowledged`, `EnrollAcknowledged`). The chain's sets only
grow (`ChainGrows`), which keeps every copy sound however old; so each `Save` writes a sound
row (`SaveBacked`). `TypeCorrect`, `FeeFlagAlwaysBacked` and `SubscriptionAlwaysBacked`
follow; step by step, `EnrolmentIsForEver` and `BanIsForEver`.

The plan subscriptions have an invariant of their own. `Succession` (only the newest
recorded one has a day left) holds because a purchase follows a query that found none, steps
earlier. So `SuccessionInv` carries along what that query found (`NoneLiveWhenBuying`), that
the chain's ids ascend (`BoughtInOrder`), and that what a run is buying or enrolling in is
newer than all on record (`PurchaseIsNewest`, `SelectedIsNewest`). From it:

* `SubscriptionsSucceedOneAnother` and `PurchasesAreNeeded`.
* `EnrolmentIsRecorded`, with the jobs' copies included (`RowsInRecorded`), and from that
  `DevicesMoveForward`: what the enroll job writes is never older than what it writes over.
* `HomeIsForEver`. One subscription is live at most (`OneLive`); while there is one no other
  becomes live (`LiveStays`), and it is the one any run enrolls in. This is the half of
  `Convergence` that says devices stay; that they arrive is TLC's.

`LostOnlyToFaults` counts: what is bought stays finite (`BoughtFinite`), a subscription
becomes an orphan only by one of four steps, each of which a fault takes, and each adds one
at most.

`NodePlanProofs`. `TypeCorrect`, and `BanIsForEver`, whose inductive part is that rows under
way to being linked were read as not banned (`LinkRowsNotBanned`).
`FlagsDropOnlyToStaleSync` needs that the row the unlink job writes is that of the node it
has just removed. The code goes through the rows by age, so no two rows may be of one age
(`Numbered`), and after an acknowledged removal the oldest row held is of a node off the
plan (`Removed`). `FlagsRiseWithCause` needs the converse for the link job: as long as it
writes, what it offered is on the plan (`Linked`).

Settling has a safety half, which is proved. `AtRest` says what the jobs settle in: every
node in order, counted, and as a sync would leave it; a sync under way that goes by what is
so; and a plan job that adds none and holds no row of a node that is up. The last two make
it inductive: plan, flags and counts alone can be right while a job still holds what will
spoil them. `RestIsForEver` says that no step leaves it, in any interleaving of the two
jobs. So `RestIsSettled` (`PlanSettles` and `CountsSettle`) and, in the composition,
`RestServesFromPlan` follow from `ComesToRest`, that rest is reached once, which TLC checks.

`GatewayProofs`. `CredentialsBacked` becomes inductive with `HeldBacked` (the row a request
holds claims only what the chain backs, and an enrolment once the lookup is passed) and
`Leases` (what the table and a request know of a node subscription is what was bought). From
`IInv`:

* `GatewaySessionsOnLeases`. A request connects after it found or recorded a subscription to
  its node, and rows of the table stay.
* `GatewayOneLeasePerRequest`. For a node, take the live rows of the table and the requests
  buying. A step either shrinks both, or starts a purchase where no row is live (so that
  only requests are counted, at most all of them), or moves one request out of the one set
  as one row enters the other.
* `GatewayWasteOnlyFromFaults`. Without a fault, a purchase is in the hands of its request
  until it is in the table.
* `GatewayLeaseMirror`. No step changes both stores (`OneStore`), and rows are written from
  what was bought (`LeasesStand`).

`ServiceProofs`. A step of the service is a step of the onboarding jobs or leaves their
state alone (`ServiceIsOnboarding`), so every theorem about `Onboarding` holds in it.
`ServiceImplementsGateway`: with the invariant of `OnboardingProofs`, every step of the jobs
leaves the gateway's variables alone, writes one row whose claims are backed, grants,
allocates, or changes which subscriptions have a day left (`WorkIsEnvironment`). So the
gateway's safety holds of the two together (`ServiceKeepsGatewaySafe`,
`ServiceKeepsGatewayFrugal`). `BannedForGood` takes the permanence of the ban in the table
from the one part, and from the other that a request is admitted only by a row that is not
banned.

`ListingProofs`. In the same way for `NodePlan` and `Gateway`: `ShunnedForGood`, the
gateway's safety (`ListingKeepsGatewaySafe`, `ListingKeepsGatewayFrugal`), and
`RestServesFromPlan`.

`PagingProofs`. `PagingIsAtomic`: while the list stays within a page, the first page is all
of it, every later one is empty, and the first call is the moment of the read.
`PagingIsComplete`: the items up to the offset are those fetched, and they are a prefix of
the list for as long as it only grows at its end.

`CatalogueProofs`. `Browsable` and `CountsAgree` rest on one fact that is not theirs: no
row, and no copy of a row, names a city of another country (`RowsInPlace`, `SyncInPlace`);
old copies stay sound as places are only added. `CatalogueListedAsCounted` adds that a row, or
copy of a row, lacks a protocol or a load only if its node has reported none (`LacksReported`),
which old copies keep too, as what was reported is not forgotten. `CatalogueCitiesDistinct`: a city is created
under a new id by the one job that creates any, in the step that did not find it.
`CatalogueCountriesComplete` adds that between two lives of the process the table is empty
or complete.

`SchedulerProofs`. `SchedulerRunsExclude`: runners are never more than the limit and only
they run. `SchedulerNoneLost`: every occurrence is at one place. `SchedulerNeverStuck` needs that the executor
starts all runners with the first occurrence (`RunnersStarted`): a full queue without a
runner would hold everything. `FetchingIsScheduled` and `FetchingIsPaging`: every step of
`Fetching` is one of its parts' or leaves it alone, so all this, and what `PagingProofs` says of the
loop, holds of the two together.

Only model-checked: liveness, which is out of the prover's reach (`Convergence`,
`ComesToRest`, `WindowSettles`, `ServedEventually`, `Terminates`, `EveryRunHappens`). The
runs check `ComesToRest` and the theorems derive `PlanSettles`, `CountsSettle` and
`ServedFromPlan` from it, so no run repeats those. Only proved are the types of `Gateway` and
`Catalogue`, and `NeverStuck`. That the composition `Listing` implements `Gateway` as a whole
is not claimed: its devices are enrolled from the start, so it is the gateway's safety that
is carried over.

## Not modelled

* `FetchBalance`, `FetchSessions`, `FetchSubscriptions`, `FindSubscriptionForNode`,
  `FetchAllocationsForSubscription` and `ProxyManualCredentialsRequest` of the API client: nothing calls them.
* `GetIPAddress`, which looks an address up at a third party, the logger, the health endpoint and the table of routes
  have no state.
* Wallets, keys and tokens, formats of requests and answers, and prices as numbers:
  data on which no modelled decision depends, other than the price limit.
* Sorting and windows of `GetServers`: a client that asks for a part of a list gets that part.
* The load under which `ConnectToCity` takes a server: it may find none.
* The message of `GetCities` when its query fails, taken from an error that is nil
  (`vpn.go:150`): the answer is 500 as it would be.
* Calls that hang: the liveness properties assume that calls end.
* The end of an allocation with its subscription, and the revocation of an allowance:
  nothing in the code does the latter, and the former comes a day after devices began to move.
* A node whose status names an address other than the chain's list does. The code finds the row by the
  one and the plan membership by the other; the model has one identity for each node.
* Failing queries where a run has done nothing yet (they end it as an empty
  result would), and environment variables that do not parse, which stop a job from the start.

The plan this project was built along (the onboarding jobs, the node plan, the gateway and its compositions with
both, paging, catalogue and scheduler, and the proofs of their safety, alone and composed) is
done: every invariant and action property that a run checks is proved, but for the three that the findings refute.
What could still be proved is the safety half of `WindowSettles`, as `RestIsForEver` is that of `PlanSettles`.
