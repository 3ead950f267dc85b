------------------------------ MODULE NodePlan ------------------------------
(***************************************************************************)
(* Which VPN nodes the service lists.  Two schedulers write the table      *)
(* servers without any lock between them:                                  *)
(*                                                                         *)
(*   hourly    jobs/sync_nodes_with_sentinel.go  copies the nodes' state   *)
(*             from the chain, the health API and the nodes themselves,    *)
(*             and deactivates what it did not see;                        *)
(*   every 5s  jobs/link_nodes_with_plan.go, then                          *)
(*             jobs/unlink_nodes_from_plan.go: put affordable nodes on the *)
(*             provider's plan and take the others off.                    *)
(*                                                                         *)
(* All three hold rows across API calls and write them back whole.         *)
(***************************************************************************)
EXTENDS Integers, FiniteSets, Functions

CONSTANTS
  Nodes,   \* dVPN nodes
  Limit,   \* rows a link or unlink run looks at (5 in the code)
  Faults,  \* whether calls may fail and the process may crash before Stabilize
  SyncRest,    \* passes the plan job completes between two runs of the sync:
               \* the sync is started every hour, the plan job every 5 seconds
  MaxChanges   \* bound: changes of nodes and bans in a behaviour

ASSUME NodesAreFinite == IsFiniteSet(Nodes)
ASSUME LimitIsPositive == Limit \in Nat \ {0}
ASSUME FaultsIsBoolean == Faults \in BOOLEAN
ASSUME BoundsAreNat == SyncRest \in Nat /\ MaxChanges \in Nat

VARIABLES
  cond,       \* the node itself: "good", "pricey" or "down" (not in the list,
              \* not healthy, or not answering)
  changes,    \* how many such changes and bans there have been
  plan,       \* chain: nodes linked to the provider's plan
  server,     \* the rows; see Row
  createdAt,  \* order in which the rows were created, 0 for no row yet
  counted,    \* servers counted in servers_available of cities and countries
  syncPc, syncSeen, syncPlan, syncRows,   \* the sync job's run; syncSeen has
              \* the healthy nodes not processed yet, with what the list said
  planPc, planRows,   \* the plan job's run
  passes,     \* passes of the plan job since the last sync, up to SyncRest
  stable      \* from some moment on nothing fails and no node changes

world == <<cond, changes, plan>>
db    == <<server, createdAt, counted>>
sync  == <<syncPc, syncSeen, syncPlan, syncRows>>
job   == <<planPc, planRows, passes>>
vars  == <<cond, changes, plan, server, createdAt, counted,
           syncPc, syncSeen, syncPlan, syncRows, planPc, planRows, passes, stable>>

Conditions == {"good", "pricey", "down"}

\* fresh stands for the column revision: whether it is that of the latest sync.
Row == [active: BOOLEAN, included: BOOLEAN, banned: BOOLEAN, pricey: BOOLEAN, fresh: BOOLEAN]
NoRow == [active |-> FALSE, included |-> FALSE, banned |-> FALSE, pricey |-> FALSE, fresh |-> FALSE]
NoRows == [n \in {} |-> NoRow]

IsSnapshot(rows) == DOMAIN rows \subseteq Nodes /\ rows \in [DOMAIN rows -> Row]

TypeOK ==
  /\ cond \in [Nodes -> Conditions]
  /\ changes \in 0..MaxChanges
  /\ plan \subseteq Nodes
  /\ server \in [Nodes -> Row]
  /\ createdAt \in [Nodes -> Nat]
  /\ counted \subseteq Nodes
  /\ syncPc \in {"idle", "plan", "node"}
  /\ DOMAIN syncSeen \subseteq Nodes /\ syncSeen \in [DOMAIN syncSeen -> Conditions \ {"down"}]
  /\ syncPlan \subseteq Nodes
  /\ IsSnapshot(syncRows) /\ DOMAIN syncRows \subseteq DOMAIN syncSeen
  /\ syncPc # "node" => DOMAIN syncRows = {}
  /\ planPc \in {"link", "add", "added", "linkCount", "unlink", "remove", "removed"}
  /\ IsSnapshot(planRows)
  /\ planPc \in {"add", "added", "removed"} => DOMAIN planRows # {}
  /\ passes \in 0..SyncRest
  /\ stable \in BOOLEAN

Init ==
  /\ cond \in [Nodes -> Conditions] /\ changes = 0
  /\ plan = {} /\ server = [n \in Nodes |-> NoRow] /\ createdAt = [n \in Nodes |-> 0]
  /\ counted = {}
  /\ syncPc = "idle" /\ syncSeen = NoRows /\ syncPlan = {} /\ syncRows = NoRows
  /\ planPc = "link" /\ planRows = NoRows /\ passes = SyncRest
  /\ stable = FALSE

-----------------------------------------------------------------------------
(* Helpers *)

Faulty == Faults /\ ~stable
Known == {n \in Nodes : createdAt[n] > 0}

\* ORDER BY created_at LIMIT Limit.
Oldest(S) == {n \in S : Cardinality({m \in S : createdAt[m] < createdAt[n]}) < Limit}
IsOldest(n, S) == n \in S /\ \A m \in S : createdAt[n] <= createdAt[m]

\* Faulty: a Linkable and a Listed that forget the ban, an Unlisted the price.
LinkableOrBanned == {n \in Known : server[n].active /\ ~server[n].included}
ListedOrBanned == {n \in Known : server[n].active /\ server[n].included}
UnlistedWhateverPrice(row) == ~row.active \/ row.banned

\* What the link job selects, what it then offers to the plan, and what the
\* unlink job throws out.
Linkable == {n \in Known : server[n].active /\ ~server[n].included /\ ~server[n].banned}
Affordable(rows) == {n \in DOMAIN rows : ~rows[n].pricey}
Included == {n \in Known : server[n].included}
Unlisted(row) == row.pricey \/ ~row.active \/ row.banned

\* What the catalogue offers, and servers_available counts.
Listed == {n \in Known : server[n].active /\ server[n].included /\ ~server[n].banned}

Save(n, row) == server' = [server EXCEPT ![n] = row] \/ (Faulty /\ UNCHANGED server)

\* A blockchain call: success, an error without effect (also when the chain
\* rejects the request), or an error after the transaction went through.
Call(reply, mayReject, planAfter) ==
  \/ reply = "ok" /\ plan' = planAfter
  \/ reply = "lost" /\ Faulty /\ plan' = planAfter
  \/ reply = "error" /\ (Faulty \/ mayReject) /\ UNCHANGED plan

SyncEnd ==
  /\ syncPc' = "idle" /\ syncSeen' = NoRows /\ syncPlan' = {} /\ syncRows' = NoRows

\* A pass of the plan job, counted while no sync runs.
PlanEnd ==
  /\ planPc' = "link"
  /\ passes' = IF syncPc = "idle" /\ passes < SyncRest THEN passes + 1 ELSE passes

\* Going on with the next node.
SyncNext(n) ==
  syncRows' = NoRows /\ syncSeen' = Restrict(syncSeen, DOMAIN syncSeen \ {n})

-----------------------------------------------------------------------------
(* Faulty variants of operations below, each a bug the code could have; they *)
(* are used only to see that the properties notice.                          *)

\* No early return when no row is affordable.
LinkLoadAnyway ==
  /\ planPc = "link" /\ planPc' = "add" /\ planRows' = Restrict(server, Oldest(Linkable))
  /\ UNCHANGED <<world, db, sync, passes, stable>>

\* The answer's success field not looked at.
RemoveNodeFromPlanUnchecked(reply, n) == plan' \in {plan, plan \ {n}}
AddNodeToPlanUnchecked(reply, batch) == plan' \in {plan, plan \cup batch}

\* Membership kept from the row instead of taken from the plan.
RefreshedKeepingFlag(n) ==
  [syncRows[n] EXCEPT !.active = TRUE, !.pricey = (syncSeen[n] = "pricey"), !.fresh = TRUE]

\* Counting only after nodes were linked.
CountAfterLink ==
  /\ \/ /\ planPc = "linkCount" /\ planPc' = "unlink" /\ UNCHANGED passes
        /\ counted' = Listed
     \/ planPc = "remove" /\ DOMAIN planRows = {} /\ PlanEnd /\ UNCHANGED counted
  /\ UNCHANGED <<world, server, createdAt, sync, planRows, stable>>

-----------------------------------------------------------------------------
(* Nodes and the operator *)

\* A node goes up or down or changes its price.
NodeChanges(n) ==
  /\ ~stable /\ changes < MaxChanges /\ changes' = changes + 1
  /\ \E c \in Conditions \ {cond[n]} : cond' = [cond EXCEPT ![n] = c]
  /\ UNCHANGED <<plan, db, sync, job, stable>>

\* External: nothing in the code sets is_banned, an operator does.
Ban(n) ==
  /\ ~stable /\ changes < MaxChanges /\ changes' = changes + 1
  /\ n \in Known /\ ~server[n].banned
  /\ server' = [server EXCEPT ![n].banned = TRUE]
  /\ UNCHANGED <<cond, plan, createdAt, counted, sync, job, stable>>

-----------------------------------------------------------------------------
(* The sync job *)

\* The nodes active on the chain with their prices, in pages of a million until
\* one is empty; and the nodes with three clean health checks.  A node missing
\* from either is "down".
FetchNodes == cond
FetchHealthChecks == {n \in Nodes : cond[n] # "down"}

\* Both lists; unhealthy nodes will be passed over.
SyncFetch ==
  /\ syncPc = "idle" /\ passes = SyncRest
  /\ syncPc' = "plan" /\ syncSeen' = Restrict(FetchNodes, FetchHealthChecks)
  /\ UNCHANGED <<syncPlan, syncRows, world, db, job, stable>>

\* The plan's nodes on the chain, in pages again.
FetchPlanNodes == plan

\* The nodes on the plan; then processNodes draws a new revision, which makes
\* every row's, and every copy's, an old one.
SyncFetchPlan ==
  /\ syncPc = "plan"
  /\ \/ /\ syncPc' = "node" /\ syncPlan' = FetchPlanNodes
        /\ server' = [n \in Nodes |-> [server[n] EXCEPT !.fresh = FALSE]]
        /\ planRows' = [n \in DOMAIN planRows |-> [planRows[n] EXCEPT !.fresh = FALSE]]
        /\ UNCHANGED <<syncSeen, syncRows, passes>>
     \/ Faulty /\ SyncEnd /\ passes' = 0 /\ UNCHANGED <<server, planRows>>
  /\ UNCHANGED <<world, createdAt, counted, planPc, stable>>

\* GET of a node's own status, with a time-out of four seconds.
FetchNodeStatus(n) == cond[n] # "down"

\* No answer from the node, or an error on the way to its row.
SyncSkip(n) ==
  /\ syncPc = "node" /\ syncRows = NoRows /\ n \in DOMAIN syncSeen
  /\ ~FetchNodeStatus(n) \/ Faulty
  /\ SyncNext(n)
  /\ UNCHANGED <<syncPc, syncPlan, world, db, job, stable>>

SyncRead(n) ==
  /\ syncPc = "node" /\ syncRows = NoRows /\ n \in DOMAIN syncSeen
  /\ FetchNodeStatus(n)
  /\ syncRows' = Restrict(server, {n})
  /\ UNCHANGED <<syncPc, syncSeen, syncPlan, world, db, job, stable>>

\* The price from the list; a node that names none in the service's currency,
\* or one that does not parse, counts as free, hence as "good".
parseNodePrices(n) == syncSeen[n]
checkIfIncludedInPlan(n) == n \in syncPlan

\* The row as the sync leaves it; is_banned stays as read.
Refreshed(n) ==
  [syncRows[n] EXCEPT !.active = TRUE, !.included = checkIfIncludedInPlan(n),
                      !.pricey = (parseNodePrices(n) = "pricey"), !.fresh = TRUE]

\* Saves the row read, or creates it.
SyncSave(n) ==
  /\ n \in DOMAIN syncRows
  /\ \/ /\ server' = [server EXCEPT ![n] = Refreshed(n)]
        /\ createdAt' = [createdAt EXCEPT ![n] = IF @ > 0 THEN @ ELSE Cardinality(Known) + 1]
     \/ Faulty /\ UNCHANGED <<server, createdAt>>
  /\ SyncNext(n)
  /\ UNCHANGED <<syncPc, syncPlan, world, counted, job, stable>>

\* One UPDATE: rows that do not carry this run's revision become inactive.
SyncDeactivate ==
  /\ syncPc = "node" /\ DOMAIN syncSeen = {}
  /\ \/ server' = [n \in Nodes |-> [server[n] EXCEPT !.active = @ /\ server[n].fresh]]
     \/ Faulty /\ UNCHANGED server
  /\ SyncEnd /\ passes' = 0
  /\ UNCHANGED <<world, createdAt, counted, planPc, planRows, stable>>

SyncStep ==
  \/ SyncFetch \/ SyncFetchPlan \/ SyncDeactivate
  \/ \E n \in Nodes : SyncSkip(n) \/ SyncRead(n) \/ SyncSave(n)

-----------------------------------------------------------------------------
(* The plan job: link, then unlink *)

\* Without an affordable row among those selected the run returns at once, and
\* so it does when the query fails.
LinkLoad ==
  /\ planPc = "link"
  /\ LET rows == Restrict(server, Oldest(Linkable)) IN
       \/ Affordable(rows) # {} /\ planPc' = "add" /\ planRows' = rows
       \/ (Affordable(rows) = {} \/ Faulty) /\ planPc' = "unlink" /\ UNCHANGED planRows
  /\ UNCHANGED <<world, db, sync, passes, stable>>

\* One transaction for a batch of nodes; the chain may refuse it if one of them
\* is on the plan already.
AddNodeToPlan(reply, batch) == Call(reply, batch \cap plan # {}, plan \cup batch)

LinkSubmit ==
  /\ planPc = "add"
  /\ \E reply \in {"ok", "lost", "error"} :
       /\ AddNodeToPlan(reply, Affordable(planRows))
       /\ IF reply = "ok" THEN planPc' = "added" /\ UNCHANGED planRows
                          ELSE planPc' = "unlink" /\ planRows' = NoRows
  /\ UNCHANGED <<cond, changes, db, sync, passes, stable>>

\* Every selected row is marked, the affordable and the others.
LinkSave(n) ==
  /\ planPc = "added" /\ IsOldest(n, DOMAIN planRows)
  /\ Save(n, [planRows[n] EXCEPT !.included = TRUE])
  /\ planRows' = Restrict(planRows, DOMAIN planRows \ {n})
  /\ planPc' = IF DOMAIN planRows = {n} THEN "linkCount" ELSE "added"
  /\ UNCHANGED <<world, createdAt, counted, sync, passes, stable>>

UnlinkLoad ==
  /\ planPc = "unlink"
  /\ \/ /\ planRows' = Restrict(server, {n \in Oldest(Included) : Unlisted(server[n])})
        /\ planPc' = "remove" /\ UNCHANGED passes
     \/ Faulty /\ PlanEnd /\ UNCHANGED planRows
  /\ UNCHANGED <<world, db, sync, stable>>

\* One transaction for one node; the chain may refuse if it is not on the plan.
RemoveNodeFromPlan(reply, n) == Call(reply, n \notin plan, plan \ {n})

\* One for each row; after an error the run goes on to the next.
UnlinkSubmit(n) ==
  /\ planPc = "remove" /\ IsOldest(n, DOMAIN planRows)
  /\ \E reply \in {"ok", "lost", "error"} :
       /\ RemoveNodeFromPlan(reply, n)
       /\ IF reply = "ok" THEN planPc' = "removed" /\ UNCHANGED planRows
                          ELSE /\ planRows' = Restrict(planRows, DOMAIN planRows \ {n})
                               /\ UNCHANGED planPc
  /\ UNCHANGED <<cond, changes, db, sync, passes, stable>>

UnlinkSave(n) ==
  /\ planPc = "removed" /\ IsOldest(n, DOMAIN planRows)
  /\ Save(n, [planRows[n] EXCEPT !.included = FALSE])
  /\ planRows' = Restrict(planRows, DOMAIN planRows \ {n})
  /\ planPc' = "remove"
  /\ UNCHANGED <<world, createdAt, counted, sync, passes, stable>>

\* The two UPDATEs of servers_available at the end of a run.
Count ==
  /\ \/ planPc = "linkCount" /\ planPc' = "unlink" /\ UNCHANGED passes
     \/ planPc = "remove" /\ DOMAIN planRows = {} /\ PlanEnd
  /\ counted' = Listed \/ (Faulty /\ UNCHANGED counted)
  /\ UNCHANGED <<world, server, createdAt, sync, planRows, stable>>

PlanStep ==
  \/ LinkLoad \/ LinkSubmit \/ UnlinkLoad \/ Count
  \/ \E n \in Nodes : LinkSave(n) \/ UnlinkSubmit(n) \/ UnlinkSave(n)

-----------------------------------------------------------------------------
(* The process *)

Crash ==
  /\ Faulty
  /\ SyncEnd /\ planPc' = "link" /\ planRows' = NoRows /\ passes' = SyncRest
  /\ UNCHANGED <<world, db, stable>>

Stabilize ==
  /\ ~stable /\ stable' = TRUE
  /\ UNCHANGED <<world, db, sync, job>>

\* All but the process's death, in which the requests die as well (Listing).
Work ==
  \/ \E n \in Nodes : NodeChanges(n) \/ Ban(n)
  \/ SyncStep \/ PlanStep
  \/ Stabilize

Next == Work \/ Crash

Spec == Init /\ [][Next]_vars

\* Both schedulers keep starting their jobs, and a run keeps going.
FairSpec == Spec /\ WF_vars(SyncStep) /\ WF_vars(PlanStep)

-----------------------------------------------------------------------------
(* Properties *)

\* Banned, and no job holds a copy of the row from before the ban.
BanDrained(n) ==
  /\ n \in Known /\ server[n].banned
  /\ n \in DOMAIN syncRows => syncRows[n].banned
  /\ n \in DOMAIN planRows => planRows[n].banned

\* The operator's ban can be lost only to a copy of the row read before it.
\* Once none is held the ban stays for ever, and the node never gets on the
\* plan again, whatever fails.
BanHolds ==
  [][\A n \in Nodes : BanDrained(n) => BanDrained(n)' /\ (n \in plan' => n \in plan)]_vars

\* is_included_in_plan goes from true to false for a node that is on the plan
\* only by a sync that fetched the plan before the node was linked; never by
\* the unlink job, whose write follows its own transaction.
FlagDropsOnlyToStaleSync ==
  [][\A n \in Nodes : server[n].included /\ ~server'[n].included /\ n \in plan' =>
       n \in DOMAIN syncRows /\ n \notin syncPlan]_vars

\* It goes from false to true for a node that is not on the plan, and which the
\* catalogue then offers in vain, only by a sync that fetched the plan while the
\* node was there, or because the link job marks the rows it found too expensive
\* along with those it linked; whatever fails, and however old the copy written.
FlagRisesWithCause ==
  [][\A n \in Nodes : ~server[n].included /\ server'[n].included /\ n \notin plan' =>
       \/ n \in DOMAIN syncRows /\ n \in syncPlan
       \/ planPc = "added" /\ n \in DOMAIN planRows /\ planRows[n].pricey]_vars

\* Nodes that a sync reaches.
Up == {n \in Known : cond[n] # "down"}

\* A node that can be reached is on the plan and marked so if it is affordable
\* and not banned, and otherwise neither.
Wanted(n) == cond[n] = "good" /\ ~server[n].banned
InOrder(n) == (n \in plan <=> Wanted(n)) /\ (server[n].included <=> Wanted(n))

\* Once failures and changes stop, that is so for good: the two jobs' stale
\* writes are repaired, not repeated for ever.
PlanSettles == <>[]stable => <>[](\A n \in Up : InOrder(n))

\* With fewer rows looked at than there are servers less is true: what settles
\* is the window of oldest rows each query selects.  Those offered to the plan
\* end up all too expensive, and then hide the affordable ones behind them;
\* those on the plan end up all fit to be there.
WindowSettles ==
  <>[]stable =>
    <>[](/\ \A n \in Oldest(Linkable) : cond[n] = "pricey"
         /\ \A n \in Oldest(Included) \cap Up : cond[n] = "good" /\ ~server[n].banned)

\* ... and what the catalogue counts is what it offers.
CountsSettle == <>[]stable => <>[](counted = Listed)

\* What the jobs settle in: every node in order, and as the sync would leave it;
NodesAtRest ==
  \A n \in Nodes :
    IF cond[n] = "down" THEN ~server[n].active
    ELSE n \in Known /\ server[n].active /\ (server[n].pricey <=> cond[n] = "pricey") /\ InOrder(n)

\* a sync that goes by what is so, and has yet to come to a node or refreshed it;
SyncAtRest ==
  /\ \A n \in DOMAIN syncSeen : syncSeen[n] = cond[n]
  /\ \A n \in DOMAIN syncRows : syncRows[n].banned = server[n].banned
  /\ \A n \in Nodes : cond[n] # "down" =>
       /\ syncPc = "plan" => n \in DOMAIN syncSeen
       /\ syncPc = "node" =>
            (n \in syncPlan <=> n \in plan) /\ (n \in DOMAIN syncSeen \/ server[n].fresh)

\* a plan job that adds none, and holds rows only of nodes that are down.
PlanJobAtRest ==
  /\ planPc \notin {"add", "added"}
  /\ \A n \in DOMAIN planRows : cond[n] = "down" /\ ~planRows[n].active

AtRest == stable /\ counted = Listed /\ NodesAtRest /\ SyncAtRest /\ PlanJobAtRest

\* The two halves of settling. Nothing that the jobs do at rest, with a sync
\* beside a pass of the plan job and each going by what it read before, makes
\* them leave it; and once failures and changes stop, they come to it.
RestIsKept == [][AtRest => AtRest']_vars
ComesToRest == <>[]stable => <>AtRest

\* log, jobs/link_nodes_with_plan.go:59: "Sentinel node %s was added to the
\* plan.", of every row the link job marks.
MarkedWereAdded ==
  [][\A n \in Nodes : LinkSave(n) /\ server'[n].included => n \in plan]_vars

\* log, jobs/sync_nodes_with_sentinel.go:65: "It will be marked inactive after
\* sync.": between syncs no row the last sync did not refresh is active.
InactiveAfterSync ==
  syncPc = "idle" => \A n \in Known : server[n].active => server[n].fresh
=============================================================================
