--------------------------- MODULE NodePlanProofs ---------------------------
(***************************************************************************)
(* Types of NodePlan, the permanence of a node's ban, what may drop or     *)
(* raise a node's flag, and the permanence of the state that the jobs      *)
(* settle in, for any finite set of nodes and any bounds.                  *)
(***************************************************************************)
EXTENDS NodePlan, FiniteSetTheorems, TLAPS

(* Lemmas about rows and snapshots *)

LEMMA RowUpdates ==
  ASSUME NEW r \in Row
  PROVE  /\ [r EXCEPT !.banned = TRUE] \in Row
         /\ [r EXCEPT !.banned = TRUE].banned
         /\ [r EXCEPT !.fresh = FALSE] \in Row
         /\ [r EXCEPT !.fresh = FALSE].banned = r.banned
         /\ [r EXCEPT !.fresh = FALSE].pricey = r.pricey
         /\ [r EXCEPT !.active = @ /\ r.fresh] \in Row
         /\ [r EXCEPT !.active = @ /\ r.fresh].banned = r.banned
         /\ [r EXCEPT !.included = TRUE] \in Row
         /\ [r EXCEPT !.included = TRUE].banned = r.banned
         /\ [r EXCEPT !.included = FALSE] \in Row
         /\ [r EXCEPT !.included = FALSE].banned = r.banned
BY DEF Row

\* What a sync writes over a row it read.
LEMMA RowRefresh ==
  ASSUME NEW r \in Row, NEW b \in BOOLEAN, NEW c \in BOOLEAN
  PROVE  /\ [r EXCEPT !.active = TRUE, !.included = b, !.pricey = c, !.fresh = TRUE] \in Row
         /\ [r EXCEPT !.active = TRUE, !.included = b, !.pricey = c, !.fresh = TRUE].banned = r.banned
BY DEF Row

LEMMA NoRowIsRow == NoRow \in Row
BY DEF NoRow, Row

LEMMA NoRowsIsSnapshot == IsSnapshot(NoRows) /\ DOMAIN NoRows = {}
BY NoRowIsRow DEF IsSnapshot, NoRows

\* A function on nothing has any range.
LEMMA NoRowsIsEmpty ==
  ASSUME NEW S
  PROVE  DOMAIN NoRows = {} /\ NoRows \in [DOMAIN NoRows -> S]
<1>1. DOMAIN NoRows = {} /\ NoRows = [n \in DOMAIN NoRows |-> NoRows[n]]
  BY DEF NoRows
<1> QED BY <1>1

LEMMA RestrictIsSnapshot ==
  ASSUME server \in [Nodes -> Row], NEW B, B \subseteq Nodes
  PROVE  /\ IsSnapshot(Restrict(server, B))
         /\ DOMAIN Restrict(server, B) = B
         /\ \A n \in B : Restrict(server, B)[n] = server[n]
BY DEF IsSnapshot, Restrict

LEMMA RestrictSnapshot ==
  ASSUME NEW rows, IsSnapshot(rows), NEW B, B \subseteq DOMAIN rows
  PROVE  /\ IsSnapshot(Restrict(rows, B))
         /\ DOMAIN Restrict(rows, B) = B
         /\ \A n \in B : Restrict(rows, B)[n] = rows[n]
BY DEF IsSnapshot, Restrict

\* Every copy of a row turns old, and is otherwise what it was.
LEMMA AgedSnapshot ==
  ASSUME NEW rows, IsSnapshot(rows),
         NEW aged, aged = [n \in DOMAIN rows |-> [rows[n] EXCEPT !.fresh = FALSE]]
  PROVE  /\ IsSnapshot(aged)
         /\ DOMAIN aged = DOMAIN rows
         /\ \A n \in DOMAIN rows : aged[n].banned = rows[n].banned /\ aged[n].pricey = rows[n].pricey
BY RowUpdates DEF IsSnapshot

LEMMA SaveEffect ==
  ASSUME server \in [Nodes -> Row], NEW n \in Nodes, NEW row \in Row, Save(n, row)
  PROVE  /\ server' \in [Nodes -> Row]
         /\ server'[n] = server[n] \/ server'[n] = row
         /\ \A m \in Nodes : m # n => server'[m] = server[m]
BY DEF Save

LEMMA OldestIsSubset == ASSUME NEW S PROVE Oldest(S) \subseteq S
BY DEF Oldest

LEMMA KnownIsFinite == Cardinality(Known) \in Nat
<1>1. IsFiniteSet(Known)
  BY NodesAreFinite, FS_Subset DEF Known
<1> QED BY <1>1, FS_CardinalityType

\* What the sync writes is a row, with the ban as it was read.
LEMMA RefreshedRow ==
  ASSUME TypeOK, NEW n \in DOMAIN syncRows
  PROVE  Refreshed(n) \in Row /\ Refreshed(n).banned = syncRows[n].banned
<1>1. syncRows[n] \in Row
  BY DEF TypeOK, IsSnapshot
<1>2. (n \in syncPlan) \in BOOLEAN /\ (syncSeen[n] = "pricey") \in BOOLEAN
  OBVIOUS
<1> QED BY <1>1, <1>2, RowRefresh DEF Refreshed, checkIfIncludedInPlan, parseNodePrices

\* A row created by the sync gets a number for its place in the order.
LEMMA CreatedAtSaved ==
  ASSUME createdAt \in [Nodes -> Nat], NEW n \in Nodes, SyncSave(n)
  PROVE  createdAt' \in [Nodes -> Nat]
<1> DEFINE place == IF createdAt[n] > 0 THEN createdAt[n] ELSE Cardinality(Known) + 1
<1>1. place \in Nat
  BY KnownIsFinite
<1>2. createdAt' = [createdAt EXCEPT ![n] = place] \/ UNCHANGED createdAt
  BY DEF SyncSave
<1> HIDE DEF place
<1> QED BY <1>1, <1>2

-----------------------------------------------------------------------------
(* Type correctness *)

LEMMA InitTypeOK == Init => TypeOK
<1> SUFFICES ASSUME Init PROVE TypeOK
  OBVIOUS
<1>1. DOMAIN NoRows = {} /\ NoRows \in [DOMAIN NoRows -> Conditions \ {"down"}]
  BY NoRowsIsEmpty
<1>2. server \in [Nodes -> Row] /\ createdAt \in [Nodes -> Nat] /\ cond \in [Nodes -> Conditions]
  BY NoRowIsRow DEF Init
<1>3. IsSnapshot(syncRows) /\ DOMAIN syncRows = {} /\ IsSnapshot(planRows)
  BY NoRowsIsSnapshot DEF Init
<1>4. DOMAIN syncSeen \subseteq Nodes /\ syncSeen \in [DOMAIN syncSeen -> Conditions \ {"down"}]
  BY <1>1 DEF Init
<1>5. changes \in 0..MaxChanges /\ passes \in 0..SyncRest
  BY BoundsAreNat DEF Init
<1> QED BY <1>2, <1>3, <1>4, <1>5 DEF Init, TypeOK

LEMMA NextTypeOK == TypeOK /\ [Next]_vars => TypeOK'
<1> SUFFICES ASSUME TypeOK, [Next]_vars PROVE TypeOK'
  OBVIOUS
<1> USE DEF TypeOK, world, db, sync, job
<1>0. DOMAIN NoRows = {} /\ NoRows \in [DOMAIN NoRows -> Conditions \ {"down"}]
  BY NoRowsIsEmpty
<1>1. ASSUME NEW n \in Nodes, NodeChanges(n) PROVE TypeOK'
  BY <1>1, BoundsAreNat DEF NodeChanges, IsSnapshot
<1>2. ASSUME NEW n \in Nodes, Ban(n) PROVE TypeOK'
  <2>1. [server[n] EXCEPT !.banned = TRUE] \in Row
    BY RowUpdates
  <2>2. server' \in [Nodes -> Row]
    BY <1>2, <2>1 DEF Ban
  <2> QED BY <1>2, <2>2, BoundsAreNat DEF Ban, IsSnapshot
<1>3. ASSUME SyncStep PROVE TypeOK'
  <2>1. CASE SyncFetch
    <3>1. /\ syncSeen' = [n \in FetchHealthChecks |-> cond[n]]
          /\ syncPc' = "plan"
          /\ UNCHANGED <<syncPlan, syncRows, world, db, job, stable>>
      BY <2>1 DEF SyncFetch, FetchNodes, FetchHealthChecks, Restrict
    <3>2. \A n \in FetchHealthChecks : n \in Nodes /\ cond[n] \in Conditions \ {"down"}
      BY DEF FetchHealthChecks
    <3>3. DOMAIN syncSeen' \subseteq Nodes /\ syncSeen' \in [DOMAIN syncSeen' -> Conditions \ {"down"}]
      BY <3>1, <3>2
    <3> QED BY <2>1, <3>1, <3>3 DEF SyncFetch, IsSnapshot
  <2>2. CASE SyncFetchPlan
    <3>1. CASE SyncEnd
      BY <2>2, <3>1, <1>0, NoRowsIsSnapshot, BoundsAreNat DEF SyncFetchPlan, SyncEnd, IsSnapshot, FetchPlanNodes
    <3>2. CASE ~SyncEnd
      <4>0. \A n \in Nodes : [server[n] EXCEPT !.fresh = FALSE] \in Row
        BY RowUpdates
      <4>1. server' \in [Nodes -> Row]
        BY <2>2, <3>2, <4>0 DEF SyncFetchPlan
      <4>2. IsSnapshot(planRows') /\ DOMAIN planRows' = DOMAIN planRows
        BY <2>2, <3>2, AgedSnapshot DEF SyncFetchPlan
      <4> QED BY <2>2, <3>2, <4>1, <4>2 DEF SyncFetchPlan, FetchPlanNodes
    <3> QED BY <3>1, <3>2
  <2>3. CASE SyncDeactivate
    <3>0. \A n \in Nodes : [server[n] EXCEPT !.active = @ /\ server[n].fresh] \in Row
      <4> SUFFICES ASSUME NEW n \in Nodes
                   PROVE  [server[n] EXCEPT !.active = @ /\ server[n].fresh] \in Row
        OBVIOUS
      <4>1. server[n] \in Row
        OBVIOUS
      <4> QED BY <4>1, RowUpdates
    <3>1. server' \in [Nodes -> Row]
      BY <2>3, <3>0 DEF SyncDeactivate
    <3> QED BY <2>3, <3>1, <1>0, NoRowsIsSnapshot, BoundsAreNat DEF SyncDeactivate, SyncEnd, IsSnapshot
  <2>4. ASSUME NEW n \in Nodes, SyncSkip(n) PROVE TypeOK'
    BY <2>4, <1>0, NoRowsIsSnapshot DEF SyncSkip, SyncNext, Restrict, IsSnapshot
  <2>5. ASSUME NEW n \in Nodes, SyncRead(n) PROVE TypeOK'
    BY <2>5, RestrictIsSnapshot DEF SyncRead
  <2>6. ASSUME NEW n \in Nodes, SyncSave(n) PROVE TypeOK'
    <3>1. server' \in [Nodes -> Row]
      BY <2>6, RefreshedRow DEF SyncSave
    <3>2. createdAt' \in [Nodes -> Nat]
      BY <2>6, CreatedAtSaved DEF TypeOK
    <3>3. syncRows' = NoRows /\ DOMAIN syncSeen' \subseteq Nodes
          /\ syncSeen' \in [DOMAIN syncSeen' -> Conditions \ {"down"}]
      BY <2>6 DEF SyncSave, SyncNext, Restrict
    <3> QED BY <2>6, <3>1, <3>2, <3>3, NoRowsIsSnapshot DEF SyncSave
  <2> QED BY <1>3, <2>1, <2>2, <2>3, <2>4, <2>5, <2>6 DEF SyncStep
<1>4. ASSUME PlanStep PROVE TypeOK'
  <2>0. Oldest(Linkable) \subseteq Nodes /\ Oldest(Included) \subseteq Nodes
    BY OldestIsSubset DEF Linkable, Included, Known
  <2>1. CASE LinkLoad
    <3> DEFINE rows == Restrict(server, Oldest(Linkable))
    <3>1. IsSnapshot(rows) /\ (Affordable(rows) # {} => DOMAIN rows # {})
      BY <2>0, RestrictIsSnapshot DEF Affordable
    <3>2. \/ planPc' = "unlink" /\ UNCHANGED planRows
          \/ planPc' = "add" /\ planRows' = rows /\ Affordable(rows) # {}
      BY <2>1 DEF LinkLoad
    <3> HIDE DEF rows
    <3> QED BY <2>1, <3>1, <3>2 DEF LinkLoad
  <2>2. CASE LinkSubmit
    <3>1. plan' \subseteq Nodes
      BY <2>2 DEF LinkSubmit, AddNodeToPlan, Call, Affordable, IsSnapshot
    <3>2. planPc' = "added" => DOMAIN planRows # {} /\ UNCHANGED planRows
      BY <2>2 DEF LinkSubmit
    <3>3. IsSnapshot(planRows')
      BY <2>2, NoRowsIsSnapshot DEF LinkSubmit
    <3> QED BY <2>2, <3>1, <3>2, <3>3 DEF LinkSubmit
  <2>3. CASE UnlinkLoad
    BY <2>0, <2>3, RestrictIsSnapshot, BoundsAreNat DEF UnlinkLoad, PlanEnd
  <2>4. CASE Count
    BY <2>4, BoundsAreNat DEF Count, PlanEnd, Listed, Known
  <2>5. ASSUME NEW n \in Nodes, LinkSave(n) PROVE TypeOK'
    <3>1. n \in DOMAIN planRows /\ planRows[n] \in Row
      BY <2>5 DEF LinkSave, IsOldest, IsSnapshot
    <3>2. server' \in [Nodes -> Row]
      <4>1. [planRows[n] EXCEPT !.included = TRUE] \in Row
        BY ONLY <3>1, RowUpdates
      <4> QED BY <2>5, <4>1, SaveEffect DEF LinkSave
    <3>3. IsSnapshot(planRows') /\ DOMAIN planRows' = DOMAIN planRows \ {n}
      BY <2>5, RestrictSnapshot DEF LinkSave
    <3>4. planPc' = "added" => DOMAIN planRows' # {}
      <4>1. planPc' = "added" => DOMAIN planRows # {n}
        BY <2>5 DEF LinkSave
      <4> QED BY ONLY <3>1, <3>3, <4>1
    <3>5. planPc' \in {"added", "linkCount"}
      BY <2>5 DEF LinkSave
    <3> QED BY <2>5, <3>2, <3>3, <3>4, <3>5 DEF LinkSave
  <2>6. ASSUME NEW n \in Nodes, UnlinkSubmit(n) PROVE TypeOK'
    <3>1. n \in DOMAIN planRows
      BY <2>6 DEF UnlinkSubmit, IsOldest
    <3>2. plan' \subseteq Nodes
      BY <2>6 DEF UnlinkSubmit, RemoveNodeFromPlan, Call
    <3>3. IsSnapshot(planRows')
      BY <2>6, RestrictSnapshot DEF UnlinkSubmit
    <3> QED BY <2>6, <3>1, <3>2, <3>3 DEF UnlinkSubmit
  <2>7. ASSUME NEW n \in Nodes, UnlinkSave(n) PROVE TypeOK'
    <3>1. n \in DOMAIN planRows /\ planRows[n] \in Row
      BY <2>7 DEF UnlinkSave, IsOldest, IsSnapshot
    <3>2. server' \in [Nodes -> Row]
      BY <2>7, <3>1, RowUpdates, SaveEffect DEF UnlinkSave
    <3>3. IsSnapshot(planRows')
      BY <2>7, RestrictSnapshot DEF UnlinkSave
    <3> QED BY <2>7, <3>2, <3>3 DEF UnlinkSave
  <2> QED BY <1>4, <2>1, <2>2, <2>3, <2>4, <2>5, <2>6, <2>7 DEF PlanStep
<1>5. CASE Crash
  BY <1>5, <1>0, NoRowsIsSnapshot, BoundsAreNat DEF Crash, SyncEnd
<1>6. CASE Stabilize
  BY <1>6 DEF Stabilize
<1>7. CASE UNCHANGED vars
  BY <1>7 DEF vars, IsSnapshot
<1> QED BY <1>1, <1>2, <1>3, <1>4, <1>5, <1>6, <1>7 DEF Next, Work

\* Rows, copies and control states of both jobs keep their types.
THEOREM TypeCorrect == Spec => []TypeOK
BY InitTypeOK, NextTypeOK, PTL DEF Spec

-----------------------------------------------------------------------------
(* The ban *)

\* The link job is about to link, or has just linked, only rows it read as not
\* banned.
LinkRowsNotBanned == planPc \in {"add", "added"} => \A n \in DOMAIN planRows : ~planRows[n].banned

BanInv == TypeOK /\ LinkRowsNotBanned

LEMMA InitBanInv == Init => BanInv
BY InitTypeOK, NoRowsIsSnapshot DEF BanInv, LinkRowsNotBanned, Init

LEMMA NextBanInv == BanInv /\ [Next]_vars => BanInv'
<1> SUFFICES ASSUME BanInv, [Next]_vars PROVE LinkRowsNotBanned'
  BY NextTypeOK DEF BanInv
<1>0. TypeOK /\ LinkRowsNotBanned
  BY DEF BanInv
<1> USE DEF LinkRowsNotBanned
<1>1. CASE UNCHANGED <<planPc, planRows>>
  BY <1>0, <1>1
<1>2. CASE SyncFetchPlan
  <2>1. UNCHANGED planPc
    BY <1>2 DEF SyncFetchPlan
  <2>2. \/ UNCHANGED planRows
        \/ planRows' = [n \in DOMAIN planRows |-> [planRows[n] EXCEPT !.fresh = FALSE]]
    BY <1>2 DEF SyncFetchPlan
  <2>3. IsSnapshot(planRows)
    BY <1>0 DEF TypeOK
  <2> QED BY <1>0, <2>1, <2>2, <2>3, AgedSnapshot
<1>3. CASE LinkLoad
  <2> DEFINE rows == Restrict(server, Oldest(Linkable))
  <2>1. Oldest(Linkable) \subseteq Linkable /\ Linkable \subseteq Nodes
    BY OldestIsSubset DEF Linkable, Known
  <2>2. DOMAIN rows = Oldest(Linkable) /\ \A n \in Oldest(Linkable) : rows[n] = server[n]
    BY <1>0, <2>1, RestrictIsSnapshot DEF TypeOK
  <2>3. \A n \in DOMAIN rows : ~rows[n].banned
    BY <2>1, <2>2 DEF Linkable
  <2>4. planPc' = "unlink" \/ planRows' = rows
    BY <1>3 DEF LinkLoad
  <2> QED BY <2>3, <2>4
<1>4. CASE LinkSubmit
  <2>1. planPc = "add" /\ (planPc' = "unlink" \/ UNCHANGED planRows)
    BY <1>4 DEF LinkSubmit
  <2> QED BY <1>0, <2>1
<1>5. ASSUME NEW n \in Nodes, LinkSave(n) PROVE LinkRowsNotBanned'
  <2>1. IsSnapshot(planRows) /\ planPc = "added"
    BY <1>0, <1>5 DEF TypeOK, LinkSave
  <2>2. planRows' = Restrict(planRows, DOMAIN planRows \ {n})
    BY <1>5 DEF LinkSave
  <2> QED BY <1>0, <2>1, <2>2, RestrictSnapshot
<1>6. CASE planPc' \in {"link", "unlink", "remove", "removed"}
  BY <1>6
<1>7. ASSUME NEW n \in Nodes, UnlinkSubmit(n) PROVE planPc' \in {"remove", "removed"}
  BY <1>7 DEF UnlinkSubmit
<1>8. CASE SyncStep
  BY <1>1, <1>2, <1>8 DEF SyncStep, SyncFetch, SyncDeactivate, SyncSkip, SyncRead, SyncSave, job
<1>9. CASE PlanStep
  BY <1>3, <1>4, <1>5, <1>6, <1>7, <1>9 DEF PlanStep, UnlinkLoad, Count, PlanEnd, UnlinkSave
<1> QED BY <1>1, <1>6, <1>8, <1>9 DEF Next, Work, NodeChanges, Ban, Crash, Stabilize, job, vars

\* Each step keeps a drained ban, and does not link the node.
LEMMA NextBanHolds ==
  ASSUME BanInv, [Next]_vars, NEW n \in Nodes, BanDrained(n)
  PROVE  BanDrained(n)' /\ (n \in plan' => n \in plan)
<1>0. TypeOK /\ LinkRowsNotBanned /\ IsSnapshot(planRows) /\ IsSnapshot(syncRows)
  BY DEF BanInv, TypeOK
<1>1. /\ n \in Known /\ server[n].banned
      /\ n \in DOMAIN syncRows => syncRows[n].banned
      /\ n \in DOMAIN planRows => planRows[n].banned
  BY DEF BanDrained
\* What a step leaves alone, it keeps; the rest is for the step to show.
<1>2. ASSUME createdAt'[n] > 0, server'[n].banned,
             n \in DOMAIN syncRows' => syncRows'[n].banned,
             n \in DOMAIN planRows' => planRows'[n].banned
      PROVE  BanDrained(n)'
  BY <1>2 DEF BanDrained, Known
<1>3. createdAt[n] > 0
  BY <1>1 DEF Known
<1>4. DOMAIN NoRows = {}
  BY NoRowsIsSnapshot
<1> USE DEF world, db, sync, job
<1>5. ASSUME NEW m \in Nodes, NodeChanges(m) PROVE BanDrained(n)' /\ UNCHANGED plan
  BY <1>1, <1>2, <1>3, <1>5 DEF NodeChanges
<1>6. ASSUME NEW m \in Nodes, Ban(m) PROVE BanDrained(n)' /\ UNCHANGED plan
  <2>1. server'[n].banned
    BY <1>0, <1>1, <1>6, RowUpdates DEF Ban, TypeOK
  <2> QED BY <1>1, <1>2, <1>3, <1>6, <2>1 DEF Ban
<1>7. CASE SyncFetch
  BY <1>1, <1>2, <1>3, <1>7 DEF SyncFetch
<1>8. CASE SyncFetchPlan
  <2>0. server[n] \in Row
    BY <1>0 DEF TypeOK
  <2>1. server'[n].banned
    <3>1. [server[n] EXCEPT !.fresh = FALSE].banned
      BY <1>1, <2>0, RowUpdates
    <3> QED BY <1>1, <1>8, <3>1 DEF SyncFetchPlan
  <2>2. n \in DOMAIN planRows' => planRows'[n].banned
    BY <1>0, <1>1, <1>8, AgedSnapshot DEF SyncFetchPlan
  <2>3. n \in DOMAIN syncRows' => syncRows'[n].banned
    BY <1>1, <1>4, <1>8 DEF SyncFetchPlan, SyncEnd
  <2> QED BY <1>2, <1>3, <1>8, <2>1, <2>2, <2>3 DEF SyncFetchPlan
<1>9. CASE SyncDeactivate
  <2>1. server[n] \in Row
    BY <1>0 DEF TypeOK
  <2>2. server'[n].banned
    BY <1>0, <1>1, <1>9, <2>1, RowUpdates DEF SyncDeactivate, TypeOK
  <2> QED BY <1>1, <1>2, <1>3, <1>4, <1>9, <2>2 DEF SyncDeactivate, SyncEnd
<1>10. ASSUME NEW m \in Nodes, SyncSkip(m) PROVE BanDrained(n)' /\ UNCHANGED plan
  BY <1>1, <1>2, <1>3, <1>4, <1>10 DEF SyncSkip, SyncNext
<1>11. ASSUME NEW m \in Nodes, SyncRead(m) PROVE BanDrained(n)' /\ UNCHANGED plan
  <2>1. DOMAIN syncRows' = {m} /\ syncRows'[m] = server[m]
    BY <1>0, <1>11, RestrictIsSnapshot DEF SyncRead, TypeOK
  <2> QED BY <1>1, <1>2, <1>3, <1>11, <2>1 DEF SyncRead
<1>12. ASSUME NEW m \in Nodes, SyncSave(m) PROVE BanDrained(n)' /\ UNCHANGED plan
  <2>1. server'[n].banned
    BY <1>0, <1>1, <1>12, RefreshedRow DEF SyncSave, TypeOK
  <2>2. createdAt'[n] > 0
    BY <1>0, <1>3, <1>12 DEF SyncSave, TypeOK
  <2> QED BY <1>1, <1>2, <1>4, <1>12, <2>1, <2>2 DEF SyncSave, SyncNext
<1>13. CASE LinkLoad
  <2>1. n \in DOMAIN planRows' => planRows'[n].banned
    <3>1. Oldest(Linkable) \subseteq Nodes
      BY OldestIsSubset DEF Linkable, Known
    <3> DEFINE rows == Restrict(server, Oldest(Linkable))
    <3>2. n \in DOMAIN rows => rows[n].banned
      BY <1>0, <1>1, <3>1, RestrictIsSnapshot DEF TypeOK
    <3>3. UNCHANGED planRows \/ planRows' = rows
      BY <1>13 DEF LinkLoad
    <3> QED BY <1>1, <3>2, <3>3
  <2> QED BY <1>1, <1>2, <1>3, <1>13, <2>1 DEF LinkLoad
<1>14. CASE LinkSubmit
  <2>1. n \notin Affordable(planRows)
    BY <1>0, <1>1, <1>14 DEF LinkRowsNotBanned, LinkSubmit, Affordable
  <2>2. n \in plan' => n \in plan
    BY <1>14, <2>1 DEF LinkSubmit, AddNodeToPlan, Call
  <2>3. n \in DOMAIN planRows' => planRows'[n].banned
    BY <1>1, <1>4, <1>14 DEF LinkSubmit
  <2> QED BY <1>1, <1>2, <1>3, <1>14, <2>2, <2>3 DEF LinkSubmit
<1>15. CASE UnlinkLoad
  <2>1. n \in DOMAIN planRows' => planRows'[n].banned
    <3>1. {m \in Oldest(Included) : Unlisted(server[m])} \subseteq Nodes
      BY OldestIsSubset DEF Included, Known
    <3> QED BY <1>0, <1>1, <1>15, <3>1, RestrictIsSnapshot DEF UnlinkLoad, TypeOK
  <2> QED BY <1>1, <1>2, <1>3, <1>15, <2>1 DEF UnlinkLoad
<1>16. CASE Count
  BY <1>1, <1>2, <1>3, <1>16 DEF Count
\* A row saved and dropped from the copies held.
<1>17. ASSUME NEW m \in Nodes, NEW b \in BOOLEAN, m \in DOMAIN planRows,
              Save(m, [planRows[m] EXCEPT !.included = b]),
              planRows' = Restrict(planRows, DOMAIN planRows \ {m}),
              UNCHANGED <<world, createdAt, sync>>
       PROVE  BanDrained(n)' /\ UNCHANGED plan
  <2>1. planRows[m] \in Row
    BY <1>0, <1>17 DEF IsSnapshot
  <2>2. /\ [planRows[m] EXCEPT !.included = b] \in Row
        /\ [planRows[m] EXCEPT !.included = b].banned = planRows[m].banned
    BY <2>1, RowUpdates
  <2>3. server'[n].banned
    BY <1>0, <1>1, <1>17, <2>2, SaveEffect DEF TypeOK
  <2>4. n \in DOMAIN planRows' => planRows'[n].banned
    BY <1>0, <1>1, <1>17, RestrictSnapshot
  <2> QED BY <1>1, <1>2, <1>3, <1>17, <2>3, <2>4
<1>18. ASSUME NEW m \in Nodes, LinkSave(m) PROVE BanDrained(n)' /\ UNCHANGED plan
  BY <1>17, <1>18 DEF LinkSave, IsOldest
<1>19. ASSUME NEW m \in Nodes, UnlinkSubmit(m) PROVE BanDrained(n)' /\ (n \in plan' => n \in plan)
  <2>1. n \in plan' => n \in plan
    BY <1>19 DEF UnlinkSubmit, RemoveNodeFromPlan, Call
  <2>2. n \in DOMAIN planRows' => planRows'[n].banned
    BY <1>0, <1>1, <1>19, RestrictSnapshot DEF UnlinkSubmit
  <2> QED BY <1>1, <1>2, <1>3, <1>19, <2>1, <2>2 DEF UnlinkSubmit
<1>20. ASSUME NEW m \in Nodes, UnlinkSave(m) PROVE BanDrained(n)' /\ UNCHANGED plan
  BY <1>17, <1>20 DEF UnlinkSave, IsOldest
<1>21. CASE Crash
  BY <1>1, <1>2, <1>3, <1>4, <1>21 DEF Crash, SyncEnd
<1>22. CASE Stabilize
  BY <1>1, <1>2, <1>3, <1>22 DEF Stabilize
<1>23. CASE UNCHANGED vars
  BY <1>1, <1>2, <1>3, <1>23 DEF vars
<1>24. CASE SyncStep
  BY <1>7, <1>8, <1>9, <1>10, <1>11, <1>12, <1>24 DEF SyncStep, SyncFetch, SyncFetchPlan, SyncDeactivate
<1>25. CASE PlanStep
  BY <1>13, <1>14, <1>15, <1>16, <1>18, <1>19, <1>20, <1>25
  DEF PlanStep, LinkLoad, LinkSubmit, UnlinkLoad, Count
<1> QED BY <1>5, <1>6, <1>21, <1>22, <1>23, <1>24, <1>25 DEF Next, Work, Crash, Stabilize, vars

\* Once no job holds a copy of a node's row from before its ban, the ban stays
\* and the node is never linked to the plan again, whatever fails.
THEOREM BanIsForEver == Spec => BanHolds
<1>1. BanInv /\ [Next]_vars =>
        [\A n \in Nodes : BanDrained(n) => BanDrained(n)' /\ (n \in plan' => n \in plan)]_vars
  BY NextBanHolds
<1> QED BY <1>1, InitBanInv, NextBanInv, PTL DEF Spec, BanHolds
-----------------------------------------------------------------------------
(* The flag *)

\* Rows are numbered as they are created, so no two are of one age.
Numbered ==
  /\ \A n \in Nodes : createdAt[n] <= Cardinality(Known)
  /\ \A m, n \in Known : createdAt[m] = createdAt[n] => m = n

\* The plan job holds rows of the table, and after an acknowledged removal the
\* one it is to write next is of a node off the plan.
Removed ==
  /\ DOMAIN planRows \subseteq Known
  /\ planPc = "removed" => \A n \in Nodes : IsOldest(n, DOMAIN planRows) => n \notin plan

FlagInv == TypeOK /\ Numbered /\ Removed

LEMMA KnownFinite == IsFiniteSet(Known)
BY NodesAreFinite, FS_Subset DEF Known

LEMMA NumberedStep ==
  ASSUME TypeOK, Numbered, [Next]_vars
  PROVE  Numbered' /\ \A n \in Known : n \in Known' /\ createdAt'[n] = createdAt[n]
<1> USE DEF world, db, sync, job
<1>1. CASE UNCHANGED createdAt
  BY <1>1 DEF Numbered, Known
<1>2. ASSUME NEW n \in Nodes,
             createdAt' = [createdAt EXCEPT ![n] = IF @ > 0 THEN @ ELSE Cardinality(Known) + 1]
      PROVE  Numbered' /\ \A m \in Known : m \in Known' /\ createdAt'[m] = createdAt[m]
  <2>0. createdAt \in [Nodes -> Nat] /\ Cardinality(Known) \in Nat
    BY KnownIsFinite DEF TypeOK
  <2>1. CASE n \in Known
    <3>1. createdAt' = createdAt
      BY <1>2, <2>0, <2>1 DEF Known
    <3> QED BY <1>1, <3>1
  <2>2. CASE n \notin Known
    <3>1. /\ createdAt'[n] = Cardinality(Known) + 1
          /\ \A m \in Nodes : m # n => createdAt'[m] = createdAt[m]
      BY <1>2, <2>0, <2>2 DEF Known
    <3>2. Known' = Known \cup {n}
      BY <2>0, <3>1 DEF Known
    <3>3. Cardinality(Known') = Cardinality(Known) + 1
      BY <2>2, <3>2, KnownFinite, FS_AddElement
    <3>4. \A m \in Nodes : createdAt'[m] <= Cardinality(Known')
      BY <2>0, <3>1, <3>3 DEF Numbered
    <3>5. \A l, m \in Known' : createdAt'[l] = createdAt'[m] => l = m
      <4>1. \A m \in Known : m \in Nodes /\ m # n /\ createdAt[m] <= Cardinality(Known)
        BY <2>2 DEF Known, Numbered
      <4> QED BY <2>0, <3>1, <3>2, <4>1 DEF Numbered
    <3> QED BY <2>2, <3>1, <3>2, <3>4, <3>5 DEF Numbered, Known
  <2> QED BY <2>1, <2>2
<1> QED BY <1>1, <1>2 DEF Next, Work, vars, NodeChanges, Ban, Crash, Stabilize,
       SyncStep, SyncFetch, SyncFetchPlan, SyncDeactivate, SyncSkip, SyncRead, SyncSave,
       PlanStep, LinkLoad, LinkSubmit, LinkSave, UnlinkLoad, UnlinkSubmit, UnlinkSave, Count

LEMMA InitFlagInv == Init => FlagInv
<1> SUFFICES ASSUME Init PROVE Numbered /\ Removed
  BY InitTypeOK DEF FlagInv
<1>1. Known = {} /\ DOMAIN planRows = {} /\ planPc = "link"
  BY NoRowsIsSnapshot DEF Init, Known
<1>2. Cardinality(Known) = 0 /\ \A n \in Nodes : createdAt[n] = 0
  BY <1>1, FS_EmptySet DEF Init
<1> QED BY <1>1, <1>2 DEF Numbered, Removed

LEMMA NextFlagInv == FlagInv /\ [Next]_vars => FlagInv'
<1> SUFFICES ASSUME FlagInv, [Next]_vars PROVE Removed'
  BY NextTypeOK, NumberedStep DEF FlagInv
<1>0. TypeOK /\ Numbered /\ Removed /\ IsSnapshot(planRows)
  BY DEF FlagInv, TypeOK
<1>1. \A n \in Known : n \in Known' /\ createdAt'[n] = createdAt[n]
  BY <1>0, NumberedStep
<1>2. DOMAIN NoRows = {}
  BY NoRowsIsSnapshot
\* The same rows, or fewer and none removed.
<1>3. ASSUME DOMAIN planRows' = DOMAIN planRows, planPc' = planPc, plan' = plan
      PROVE  Removed'
  <2>1. \A n \in DOMAIN planRows : createdAt'[n] = createdAt[n] /\ n \in Known'
    BY <1>0, <1>1 DEF Removed
  <2>2. \A n \in Nodes : IsOldest(n, DOMAIN planRows)' => IsOldest(n, DOMAIN planRows)
    BY <1>3, <2>1 DEF IsOldest
  <2> QED BY <1>0, <1>3, <2>1, <2>2 DEF Removed
<1>4. ASSUME DOMAIN planRows' \subseteq Known, planPc' # "removed"
      PROVE  Removed'
  BY <1>1, <1>4 DEF Removed
<1> USE DEF world, db, sync, job
<1>5. CASE SyncStep
  <2>1. CASE SyncFetchPlan
    <3>1. DOMAIN planRows' = DOMAIN planRows
      BY <1>0, <2>1, AgedSnapshot DEF SyncFetchPlan
    <3> QED BY <1>3, <2>1, <3>1 DEF SyncFetchPlan
  <2> QED BY <1>3, <1>5, <2>1 DEF SyncStep, SyncFetch, SyncDeactivate, SyncSkip, SyncRead, SyncSave
<1>6. CASE PlanStep
  <2>0. /\ Oldest(Linkable) \subseteq Known
        /\ {n \in Oldest(Included) : Unlisted(server[n])} \subseteq Known
        /\ Known \subseteq Nodes
    BY OldestIsSubset DEF Linkable, Included, Known
  <2>1. CASE LinkLoad
    <3>1. DOMAIN planRows' \subseteq Known
      BY <1>0, <2>0, <2>1, RestrictIsSnapshot DEF LinkLoad, Removed, TypeOK
    <3> QED BY <1>4, <2>1, <3>1 DEF LinkLoad
  <2>2. CASE LinkSubmit
    BY <1>0, <1>2, <1>4, <2>2 DEF LinkSubmit, Removed
  <2>3. ASSUME NEW n \in Nodes, LinkSave(n) PROVE Removed'
    <3>1. DOMAIN planRows' \subseteq Known
      BY <1>0, <2>3, RestrictSnapshot DEF LinkSave, Removed
    <3> QED BY <1>4, <2>3, <3>1 DEF LinkSave
  <2>4. CASE UnlinkLoad
    <3>1. DOMAIN planRows' \subseteq Known
      BY <1>0, <2>0, <2>4, RestrictIsSnapshot DEF UnlinkLoad, Removed, TypeOK
    <3> QED BY <1>4, <2>4, <3>1 DEF UnlinkLoad, PlanEnd
  <2>5. CASE Count
    BY <1>0, <1>4, <2>5 DEF Count, PlanEnd, Removed
  <2>6. ASSUME NEW n \in Nodes, UnlinkSubmit(n) PROVE Removed'
    <3>1. CASE planPc' = "removed"
      <4>1. /\ UNCHANGED <<planRows, createdAt>> /\ plan' = plan \ {n}
            /\ IsOldest(n, DOMAIN planRows) /\ planPc = "remove"
        BY <2>6, <3>1 DEF UnlinkSubmit, RemoveNodeFromPlan, Call
      <4>2. ASSUME NEW m \in Nodes, IsOldest(m, DOMAIN planRows) PROVE m = n
        <5>1. m \in Known /\ n \in Known
          BY <1>0, <4>1, <4>2 DEF IsOldest, Removed
        <5>2. createdAt[m] = createdAt[n]
          BY <1>0, <4>1, <4>2 DEF IsOldest, TypeOK
        <5> QED BY <1>0, <5>1, <5>2 DEF Numbered
      <4>3. DOMAIN planRows' \subseteq Known'
        BY <1>0, <1>1, <4>1 DEF Removed
      <4>4. \A m \in Nodes : IsOldest(m, DOMAIN planRows)' => m \notin plan'
        BY <4>1, <4>2 DEF IsOldest
      <4> QED BY <4>3, <4>4 DEF Removed
    <3>2. CASE planPc' # "removed"
      <4>1. DOMAIN planRows' \subseteq Known
        BY <1>0, <2>6, <3>2, RestrictSnapshot DEF UnlinkSubmit, Removed
      <4> QED BY <1>4, <3>2, <4>1
    <3> QED BY <3>1, <3>2
  <2>7. ASSUME NEW n \in Nodes, UnlinkSave(n) PROVE Removed'
    <3>1. DOMAIN planRows' \subseteq Known
      BY <1>0, <2>7, RestrictSnapshot DEF UnlinkSave, Removed
    <3> QED BY <1>4, <2>7, <3>1 DEF UnlinkSave
  <2> QED BY <1>6, <2>1, <2>2, <2>3, <2>4, <2>5, <2>6, <2>7 DEF PlanStep
<1>7. CASE Crash
  BY <1>2, <1>4, <1>7 DEF Crash
<1> QED BY <1>3, <1>5, <1>6, <1>7 DEF Next, Work, NodeChanges, Ban, Stabilize, vars

\* One step drops the flag of a node on the plan only if it is the save of a
\* sync that did not see the node there.
LEMMA NextFlagDrops ==
  ASSUME FlagInv, [Next]_vars, NEW n \in Nodes,
         server[n].included, ~server'[n].included, n \in plan'
  PROVE  n \in DOMAIN syncRows /\ n \notin syncPlan
<1>0. TypeOK /\ Removed /\ IsSnapshot(planRows) /\ server \in [Nodes -> Row] /\ server[n] \in Row
  BY DEF FlagInv, TypeOK
<1> USE DEF world, db, sync, job
<1>1. server' # server
  OBVIOUS
<1>2. ~ \E m \in Nodes : Ban(m)
  BY <1>0 DEF Ban, Row
<1>3. ~ SyncFetchPlan /\ ~ SyncDeactivate
  BY <1>0 DEF SyncFetchPlan, SyncDeactivate, Row
<1>4. ASSUME NEW m \in Nodes, LinkSave(m) PROVE FALSE
  <2>1. planRows[m] \in Row /\ Save(m, [planRows[m] EXCEPT !.included = TRUE])
    BY <1>0, <1>4 DEF LinkSave, IsOldest, IsSnapshot
  <2>2. [planRows[m] EXCEPT !.included = TRUE].included
    BY <2>1 DEF Row
  <2> QED BY <1>0, <2>1, <2>2 DEF Save
<1>5. ASSUME NEW m \in Nodes, UnlinkSave(m) PROVE FALSE
  <2>1. m \notin plan /\ plan' = plan
    BY <1>0, <1>5 DEF UnlinkSave, Removed
  <2>2. server'[n] = server[n]
    BY <1>0, <1>5, <2>1 DEF UnlinkSave, Save
  <2> QED BY <2>2
<1>6. ASSUME NEW m \in Nodes, SyncSave(m) PROVE n \in DOMAIN syncRows /\ n \notin syncPlan
  <2>1. m = n /\ server'[n] = Refreshed(n) /\ n \in DOMAIN syncRows
    BY <1>0, <1>6 DEF SyncSave
  <2>2. syncRows[n] \in Row
    BY <1>0, <2>1 DEF TypeOK, IsSnapshot
  <2>3. Refreshed(n).included = (n \in syncPlan)
    BY <2>2 DEF Refreshed, checkIfIncludedInPlan, Row
  <2> QED BY <2>1, <2>3
<1> QED BY <1>1, <1>2, <1>3, <1>4, <1>5, <1>6 DEF Next, Work, vars, NodeChanges, Crash, Stabilize,
       SyncStep, SyncFetch, SyncSkip, SyncRead,
       PlanStep, LinkLoad, LinkSubmit, UnlinkLoad, UnlinkSubmit, Count

\* The flag of a node on the plan is dropped only by a sync that fetched the
\* plan before the node was linked: the unlink job's write, the only other one,
\* follows its own transaction, and nothing links a node in between.
THEOREM FlagsDropOnlyToStaleSync == Spec => FlagDropsOnlyToStaleSync
<1>1. FlagInv /\ [Next]_vars =>
        [\A n \in Nodes : server[n].included /\ ~server'[n].included /\ n \in plan' =>
           n \in DOMAIN syncRows /\ n \notin syncPlan]_vars
  BY NextFlagDrops
<1> QED BY <1>1, InitFlagInv, NextFlagInv, PTL DEF Spec, FlagDropsOnlyToStaleSync

\* Between the link job's transaction and the last of its writes, what it
\* offered is on the plan: only the same job takes nodes off, and later.
Linked == planPc = "added" => Affordable(planRows) \subseteq plan

LEMMA NextLinked ==
  ASSUME TypeOK, Linked, [Next]_vars
  PROVE  Linked'
<1> USE DEF world, db, sync, job
<1>0. IsSnapshot(planRows)
  BY DEF TypeOK
<1>1. CASE UNCHANGED <<planPc, planRows, plan>>
  BY <1>1 DEF Linked, Affordable
<1>2. CASE planPc' # "added"
  BY <1>2 DEF Linked
<1>3. CASE SyncFetchPlan
  <2>1. UNCHANGED <<planPc, plan>>
    BY <1>3 DEF SyncFetchPlan
  <2>2. Affordable(planRows') = Affordable(planRows)
    BY <1>0, <1>3, AgedSnapshot DEF SyncFetchPlan, Affordable
  <2> QED BY <2>1, <2>2 DEF Linked
<1>4. CASE LinkSubmit
  <2>1. planPc' = "added" => planRows' = planRows /\ plan' = plan \cup Affordable(planRows)
    BY <1>4 DEF LinkSubmit, AddNodeToPlan, Call
  <2> QED BY <2>1 DEF Linked
<1>5. ASSUME NEW n \in Nodes, LinkSave(n) PROVE Linked'
  <2>1. Affordable(planRows') \subseteq Affordable(planRows)
    BY <1>0, <1>5, RestrictSnapshot DEF LinkSave, Affordable
  <2> QED BY <1>5, <2>1 DEF LinkSave, Linked
<1>6. CASE SyncStep
  BY <1>1, <1>3, <1>6 DEF SyncStep, SyncFetch, SyncDeactivate, SyncSkip, SyncRead, SyncSave
<1>7. CASE PlanStep
  BY <1>2, <1>4, <1>5, <1>7 DEF PlanStep, LinkLoad, UnlinkLoad, Count, PlanEnd, UnlinkSubmit, UnlinkSave
<1> QED BY <1>1, <1>2, <1>6, <1>7 DEF Next, Work, vars, NodeChanges, Ban, Crash, Stabilize

LEMMA LinkedInductive == Spec => []Linked
<1>1. Init => Linked
  BY DEF Init, Linked
<1>2. TypeOK /\ Linked /\ [Next]_vars => Linked'
  BY NextLinked
<1> QED BY <1>1, <1>2, TypeCorrect, PTL DEF Spec

LEMMA NextFlagRises ==
  ASSUME TypeOK, Linked, [Next]_vars, NEW n \in Nodes,
         ~server[n].included, server'[n].included, n \notin plan'
  PROVE  \/ n \in DOMAIN syncRows /\ n \in syncPlan
         \/ planPc = "added" /\ n \in DOMAIN planRows /\ planRows[n].pricey
<1>0. IsSnapshot(planRows) /\ server \in [Nodes -> Row] /\ server[n] \in Row
  BY DEF TypeOK
<1> USE DEF world, db, sync, job
<1>1. server' # server
  OBVIOUS
<1>2. ~ \E m \in Nodes : Ban(m)
  BY <1>0 DEF Ban, Row
<1>3. ~ SyncFetchPlan /\ ~ SyncDeactivate
  BY <1>0 DEF SyncFetchPlan, SyncDeactivate, Row
<1>4. ASSUME NEW m \in Nodes, LinkSave(m)
      PROVE  planPc = "added" /\ n \in DOMAIN planRows /\ planRows[n].pricey
  <2>1. m = n /\ n \in DOMAIN planRows /\ planPc = "added" /\ plan' = plan
    BY <1>0, <1>1, <1>4 DEF LinkSave, IsOldest, Save
  <2>2. n \notin Affordable(planRows)
    BY <2>1 DEF Linked
  <2> QED BY <2>1, <2>2 DEF Affordable
<1>5. ASSUME NEW m \in Nodes, UnlinkSave(m) PROVE FALSE
  <2>1. planRows[m] \in Row /\ Save(m, [planRows[m] EXCEPT !.included = FALSE])
    BY <1>0, <1>5 DEF UnlinkSave, IsOldest, IsSnapshot
  <2>2. ~[planRows[m] EXCEPT !.included = FALSE].included
    BY <2>1 DEF Row
  <2> QED BY <1>0, <2>1, <2>2 DEF Save
<1>6. ASSUME NEW m \in Nodes, SyncSave(m) PROVE n \in DOMAIN syncRows /\ n \in syncPlan
  <2>1. m = n /\ server'[n] = Refreshed(n) /\ n \in DOMAIN syncRows
    BY <1>0, <1>6 DEF SyncSave
  <2>2. syncRows[n] \in Row
    BY <2>1 DEF TypeOK, IsSnapshot
  <2>3. Refreshed(n).included = (n \in syncPlan)
    BY <2>2 DEF Refreshed, checkIfIncludedInPlan, Row
  <2> QED BY <2>1, <2>3
<1> QED BY <1>1, <1>2, <1>3, <1>4, <1>5, <1>6 DEF Next, Work, vars, NodeChanges, Crash, Stabilize,
       SyncStep, SyncFetch, SyncSkip, SyncRead,
       PlanStep, LinkLoad, LinkSubmit, UnlinkLoad, UnlinkSubmit, Count

\* A node off the plan is marked as on it only from a list fetched earlier, or
\* along with the affordable rows of the same batch.
THEOREM FlagsRiseWithCause == Spec => FlagRisesWithCause
<1>1. TypeOK /\ Linked /\ [Next]_vars =>
        [\A n \in Nodes : ~server[n].included /\ server'[n].included /\ n \notin plan' =>
           \/ n \in DOMAIN syncRows /\ n \in syncPlan
           \/ planPc = "added" /\ n \in DOMAIN planRows /\ planRows[n].pricey]_vars
  BY NextFlagRises
<1> QED BY <1>1, TypeCorrect, LinkedInductive, PTL DEF Spec, FlagRisesWithCause

-----------------------------------------------------------------------------
(* Rest *)

\* What the jobs' writes leave as it was.
LEMMA RowKeeps ==
  ASSUME NEW r \in Row
  PROVE  /\ LET a == [r EXCEPT !.fresh = FALSE] IN
              a.active = r.active /\ a.included = r.included /\ a.banned = r.banned /\ a.pricey = r.pricey
         /\ LET a == [r EXCEPT !.active = @ /\ r.fresh] IN
              /\ a.active = (r.active /\ r.fresh) /\ a.included = r.included /\ a.banned = r.banned
              /\ a.pricey = r.pricey
         /\ [r EXCEPT !.included = FALSE].active = r.active
BY DEF Row

\* What a sync writes at rest.
LEMMA RefreshedAtRest ==
  ASSUME TypeOK, NEW n \in DOMAIN syncRows
  PROVE  /\ Refreshed(n).active = TRUE /\ Refreshed(n).included = (n \in syncPlan)
         /\ Refreshed(n).banned = syncRows[n].banned /\ Refreshed(n).pricey = (syncSeen[n] = "pricey")
         /\ Refreshed(n).fresh = TRUE
<1>1. syncRows[n] \in Row
  BY DEF TypeOK, IsSnapshot
<1> QED BY <1>1 DEF Refreshed, checkIfIncludedInPlan, parseNodePrices, Row

\* Of the nodes in order those are offered that should be.
LEMMA ListedAtRest == TypeOK /\ NodesAtRest => Listed = {n \in Nodes : Wanted(n)}
BY DEF TypeOK, NodesAtRest, InOrder, Wanted, Listed, Known, Conditions

\* So the count stays right while nodes stay in order, in the conditions and
\* with the bans that there are.
LEMMA CountAtRest ==
  ASSUME TypeOK, TypeOK', NodesAtRest, NodesAtRest', cond' = cond,
         \A n \in Nodes : cond[n] # "down" => server'[n].banned = server[n].banned
  PROVE  Listed' = Listed
<1>1. Listed = {n \in Nodes : Wanted(n)}
  BY ListedAtRest
<1>2. Listed' = {n \in Nodes : Wanted(n)'}
  BY DEF TypeOK, NodesAtRest, InOrder, Wanted, Listed, Known, Conditions
<1>3. \A n \in Nodes : Wanted(n)' = Wanted(n)
  BY DEF Wanted
<1> QED BY <1>1, <1>2, <1>3

\* A row that a step leaves alone, or whose age alone it changes, of a node that
\* stays where it is with the plan.
LEMMA NodesStayAtRest ==
  ASSUME TypeOK, NodesAtRest, cond' = cond, createdAt' = createdAt,
         \A n \in Nodes : cond[n] # "down" =>
           /\ n \in plan' <=> n \in plan
           /\ server'[n].active <=> server[n].active
           /\ server'[n].included <=> server[n].included
           /\ server'[n].banned <=> server[n].banned
           /\ server'[n].pricey <=> server[n].pricey,
         \A n \in Nodes : cond[n] = "down" => ~server'[n].active
  PROVE  NodesAtRest'
BY DEF NodesAtRest, InOrder, Wanted, Known

\* The plan job finds nothing to add, as who is not on the plan is too expensive.
LEMMA NoneAffordable ==
  ASSUME TypeOK, NodesAtRest PROVE Affordable(Restrict(server, Oldest(Linkable))) = {}
<1>1. \A n \in Linkable : server[n].pricey
  BY DEF Linkable, Known, NodesAtRest, InOrder, Wanted, TypeOK, Conditions
<1>2. Oldest(Linkable) \subseteq Linkable
  BY OldestIsSubset
<1>3. /\ DOMAIN Restrict(server, Oldest(Linkable)) = Oldest(Linkable)
      /\ \A n \in Oldest(Linkable) : Restrict(server, Oldest(Linkable))[n] = server[n]
  BY <1>2, RestrictIsSnapshot DEF TypeOK, Linkable, Known
<1> QED BY <1>1, <1>2, <1>3 DEF Affordable

\* And of what is marked, nothing to remove but nodes that are down.
LEMMA RemovedAreDown ==
  ASSUME TypeOK, NodesAtRest, NEW n \in Oldest(Included), Unlisted(server[n])
  PROVE  n \in Nodes /\ cond[n] = "down" /\ ~server[n].active
<1>1. n \in Included
  BY OldestIsSubset
<1> QED BY <1>1 DEF Included, Known, Unlisted, NodesAtRest, InOrder, Wanted, TypeOK, Row

LEMMA SyncKeepsRest ==
  ASSUME TypeOK, TypeOK', AtRest, SyncStep PROVE AtRest'
<1> USE DEF AtRest, SyncAtRest, PlanJobAtRest, world, db, job
<1>0. ~Faulty /\ stable
  BY DEF Faulty
<1>1. CASE SyncFetch
  <2>1. /\ syncPc' = "plan" /\ UNCHANGED <<syncPlan, syncRows, world, db, job, stable>>
        /\ syncSeen' = [n \in FetchHealthChecks |-> cond[n]]
    BY <1>1 DEF SyncFetch, FetchNodes, FetchHealthChecks, Restrict
  <2>2. NodesAtRest' /\ counted' = Listed'
    BY <2>1 DEF NodesAtRest, InOrder, Wanted, Listed, Known
  <2> QED BY <2>1, <2>2 DEF FetchHealthChecks
<1>2. CASE SyncFetchPlan
  <2>1. /\ syncPc' = "node" /\ syncPlan' = plan /\ syncPc = "plan"
        /\ server' = [n \in Nodes |-> [server[n] EXCEPT !.fresh = FALSE]]
        /\ planRows' = [n \in DOMAIN planRows |-> [planRows[n] EXCEPT !.fresh = FALSE]]
        /\ UNCHANGED <<syncSeen, syncRows, world, createdAt, counted, planPc, stable>>
    BY <1>0, <1>2 DEF SyncFetchPlan, FetchPlanNodes
  <2>2. \A n \in Nodes : /\ server'[n].active = server[n].active /\ server'[n].included = server[n].included
                         /\ server'[n].banned = server[n].banned /\ server'[n].pricey = server[n].pricey
    BY <2>1, RowKeeps DEF TypeOK
  <2>3. \A n \in DOMAIN planRows : n \in DOMAIN planRows' /\ planRows'[n].active = planRows[n].active
    BY <2>1, RowKeeps DEF TypeOK, IsSnapshot
  <2>4. NodesAtRest'
    BY <2>1, <2>2, NodesStayAtRest DEF NodesAtRest
  <2>5. Listed' = Listed
    BY <2>1, <2>2, <2>4, CountAtRest
  <2>6. SyncAtRest'
    BY <2>1, <2>2 DEF TypeOK, IsSnapshot
  <2>7. PlanJobAtRest'
    BY <2>1, <2>3
  <2> QED BY <2>1, <2>4, <2>5, <2>6, <2>7
<1>3. CASE SyncDeactivate
  <2>1. /\ syncPc = "node" /\ DOMAIN syncSeen = {}
        /\ server' = [n \in Nodes |-> [server[n] EXCEPT !.active = @ /\ server[n].fresh]]
        /\ syncPc' = "idle" /\ syncSeen' = NoRows /\ syncRows' = NoRows
        /\ UNCHANGED <<world, createdAt, counted, planPc, planRows, stable>>
    BY <1>0, <1>3 DEF SyncDeactivate, SyncEnd
  <2>2. \A n \in Nodes : /\ server'[n].active = (server[n].active /\ server[n].fresh)
                         /\ server'[n].included = server[n].included
                         /\ server'[n].banned = server[n].banned /\ server'[n].pricey = server[n].pricey
    <3> SUFFICES ASSUME NEW n \in Nodes
                 PROVE  /\ server'[n].active = (server[n].active /\ server[n].fresh)
                        /\ server'[n].included = server[n].included
                        /\ server'[n].banned = server[n].banned /\ server'[n].pricey = server[n].pricey
      OBVIOUS
    <3>1. server[n] \in Row
      BY DEF TypeOK
    <3>2. server'[n] = [server[n] EXCEPT !.active = @ /\ server[n].fresh]
      BY <2>1
    <3> HIDE DEF AtRest, NodesAtRest, SyncAtRest, PlanJobAtRest
    <3> QED BY <3>1, <3>2, RowKeeps
  <2>3. \A n \in Nodes : cond[n] # "down" => server[n].fresh /\ server[n].active
    BY <2>1 DEF NodesAtRest
  <2>4. NodesAtRest'
    <3>1. \A n \in Nodes : cond[n] = "down" => ~server'[n].active
      BY <2>2 DEF NodesAtRest
    <3>2. \A n \in Nodes : cond[n] # "down" =>
            /\ server'[n].active <=> server[n].active
            /\ server'[n].included <=> server[n].included
            /\ server'[n].banned <=> server[n].banned
            /\ server'[n].pricey <=> server[n].pricey
      BY <2>2, <2>3
    <3>3. cond' = cond /\ createdAt' = createdAt /\ plan' = plan
      BY <2>1
    <3> HIDE DEF AtRest
    <3> QED BY <3>1, <3>2, <3>3, NodesStayAtRest DEF AtRest
  <2>5. Listed' = Listed
    BY <2>1, <2>2, <2>4, CountAtRest
  <2> QED BY <2>1, <2>4, <2>5, NoRowsIsSnapshot
<1>4. ASSUME NEW n \in Nodes, SyncSkip(n) PROVE FALSE
  BY <1>0, <1>4 DEF SyncSkip, FetchNodeStatus, TypeOK
<1>5. ASSUME NEW n \in Nodes, SyncRead(n) PROVE AtRest'
  <2>1. /\ UNCHANGED <<syncPc, syncSeen, syncPlan, world, db, job, stable>>
        /\ DOMAIN syncRows' = {n} /\ syncRows'[n] = server[n]
    BY <1>5, RestrictIsSnapshot DEF SyncRead, TypeOK
  <2>2. NodesAtRest' /\ counted' = Listed'
    BY <2>1 DEF NodesAtRest, InOrder, Wanted, Listed, Known
  <2> QED BY <2>1, <2>2
<1>6. ASSUME NEW n \in Nodes, SyncSave(n) PROVE AtRest'
  <2>1. /\ n \in DOMAIN syncRows /\ n \in DOMAIN syncSeen /\ cond[n] # "down" /\ syncPc = "node"
        /\ createdAt[n] > 0
    BY <1>6 DEF SyncSave, TypeOK, NodesAtRest, Known
  <2>2. /\ server' = [server EXCEPT ![n] = Refreshed(n)]
        /\ createdAt' = [createdAt EXCEPT ![n] = createdAt[n]]
        /\ UNCHANGED <<syncPc, syncPlan, world, counted, job, stable>>
    BY <1>0, <1>6, <2>1 DEF SyncSave
  <2>3. /\ syncRows' = NoRows /\ DOMAIN syncSeen' = DOMAIN syncSeen \ {n}
        /\ \A m \in DOMAIN syncSeen' : syncSeen'[m] = syncSeen[m]
    BY <1>6 DEF SyncSave, SyncNext, Restrict
  <2>4. /\ server'[n].active <=> server[n].active
        /\ server'[n].included <=> server[n].included
        /\ server'[n].banned = server[n].banned
        /\ server'[n].pricey <=> server[n].pricey
        /\ server'[n].fresh
    <3>1. server'[n] = Refreshed(n)
      BY <2>2 DEF TypeOK
    <3>2. server[n] \in Row
      BY DEF TypeOK
    <3>3. server[n].active /\ (server[n].pricey <=> cond[n] = "pricey") /\ InOrder(n)
      BY <2>1 DEF NodesAtRest
    <3>4. (n \in syncPlan <=> n \in plan) /\ syncSeen[n] = cond[n] /\ syncRows[n].banned = server[n].banned
      BY <2>1
    <3>5. /\ Refreshed(n).active = TRUE /\ Refreshed(n).included = (n \in syncPlan)
          /\ Refreshed(n).banned = syncRows[n].banned /\ Refreshed(n).pricey = (syncSeen[n] = "pricey")
          /\ Refreshed(n).fresh = TRUE
      BY ONLY TypeOK, <2>1, RefreshedAtRest
    <3>6. server[n].included <=> n \in plan
      BY <3>3 DEF InOrder
    <3> QED BY ONLY <3>1, <3>2, <3>3, <3>4, <3>5, <3>6 DEF Row
  <2>5. \A m \in Nodes : m # n => server'[m] = server[m]
    BY <2>2 DEF TypeOK
  <2>6. createdAt' = createdAt
    BY <2>2 DEF TypeOK
  <2>7. NodesAtRest'
    BY <2>1, <2>2, <2>4, <2>5, <2>6, NodesStayAtRest DEF NodesAtRest
  <2>8. Listed' = Listed
    BY <2>2, <2>4, <2>5, <2>7, CountAtRest
  <2>9. SyncAtRest'
    BY <2>1, <2>2, <2>3, <2>4, <2>5, NoRowsIsSnapshot
  <2> QED BY <2>2, <2>7, <2>8, <2>9
<1> QED BY <1>1, <1>2, <1>3, <1>4, <1>5, <1>6 DEF SyncStep

LEMMA PlanKeepsRest ==
  ASSUME TypeOK, TypeOK', AtRest, PlanStep PROVE AtRest'
<1> USE DEF AtRest, SyncAtRest, PlanJobAtRest, world, db, sync
<1>0. ~Faulty
  BY DEF Faulty
<1>1. ASSUME UNCHANGED <<world, server, createdAt, sync, stable>> PROVE NodesAtRest' /\ SyncAtRest' /\ Listed' = Listed
  BY <1>1 DEF NodesAtRest, InOrder, Wanted, Listed, Known
<1>2. CASE LinkLoad
  <2>1. planPc' = "unlink" /\ UNCHANGED planRows
    BY <1>2, NoneAffordable DEF LinkLoad
  <2>2. UNCHANGED <<world, db, sync, stable>>
    BY <1>2 DEF LinkLoad
  <2> QED BY <1>1, <2>1, <2>2
<1>3. CASE UnlinkLoad
  <2> DEFINE gone == {n \in Oldest(Included) : Unlisted(server[n])}
  <2>1. planRows' = Restrict(server, gone) /\ planPc' = "remove" /\ UNCHANGED <<world, db, sync, stable>>
    BY <1>0, <1>3 DEF UnlinkLoad
  <2>2. \A n \in gone : n \in Nodes /\ cond[n] = "down" /\ ~server[n].active
    BY RemovedAreDown
  <2>3. DOMAIN planRows' = gone /\ \A n \in gone : planRows'[n] = server[n]
    BY <2>1, <2>2, RestrictIsSnapshot DEF TypeOK
  <2> HIDE DEF gone
  <2> QED BY <1>1, <2>1, <2>2, <2>3
<1>4. CASE Count
  <2>1. counted' = Listed /\ UNCHANGED <<world, server, createdAt, sync, planRows, stable>>
    BY <1>0, <1>4 DEF Count
  <2>2. planPc' \in {"unlink", "link"}
    BY <1>4 DEF Count, PlanEnd
  <2> QED BY <1>1, <2>1, <2>2
<1>5. ASSUME NEW n \in Nodes, UnlinkSubmit(n) PROVE AtRest'
  <2>1. /\ n \in DOMAIN planRows /\ plan' \in {plan, plan \ {n}} /\ planPc' \in {"remove", "removed"}
        /\ planRows' \in {planRows, Restrict(planRows, DOMAIN planRows \ {n})}
        /\ UNCHANGED <<cond, changes, db, sync, stable>>
    BY <1>5 DEF UnlinkSubmit, RemoveNodeFromPlan, Call, IsOldest
  <2>2. cond[n] = "down" /\ \A m \in Nodes : cond[m] # "down" => (m \in plan' <=> m \in plan)
    BY <2>1
  <2>3. NodesAtRest' /\ Listed' = Listed
    BY <2>1, <2>2, NodesStayAtRest DEF NodesAtRest, Listed, Known
  <2>4. SyncAtRest'
    BY <2>1, <2>2
  <2>5. \A m \in DOMAIN planRows' : m \in DOMAIN planRows /\ planRows'[m] = planRows[m]
    BY <2>1 DEF Restrict
  <2> QED BY <2>1, <2>3, <2>4, <2>5
<1>6. ASSUME NEW n \in Nodes, UnlinkSave(n) PROVE AtRest'
  <2>1. /\ n \in DOMAIN planRows /\ server' = [server EXCEPT ![n] = [planRows[n] EXCEPT !.included = FALSE]]
        /\ planRows' = Restrict(planRows, DOMAIN planRows \ {n}) /\ planPc' = "remove"
        /\ UNCHANGED <<world, createdAt, counted, sync, stable>>
    BY <1>0, <1>6 DEF UnlinkSave, Save, IsOldest
  <2>2. cond[n] = "down" /\ ~server'[n].active /\ \A m \in Nodes : m # n => server'[m] = server[m]
    BY <2>1, RowKeeps DEF TypeOK, IsSnapshot
  <2>3. NodesAtRest'
    BY <2>1, <2>2, NodesStayAtRest DEF NodesAtRest
  <2>4. Listed' = Listed
    BY <2>1, <2>2, <2>3, CountAtRest
  <2>5. SyncAtRest'
    BY <2>1, <2>2 DEF TypeOK
  <2>6. \A m \in DOMAIN planRows' : m \in DOMAIN planRows /\ planRows'[m] = planRows[m]
    BY <2>1 DEF Restrict
  <2> QED BY <2>1, <2>3, <2>4, <2>5, <2>6
<1>7. ASSUME LinkSubmit \/ \E n \in Nodes : LinkSave(n) PROVE FALSE
  BY <1>7 DEF LinkSubmit, LinkSave
<1> QED BY <1>2, <1>3, <1>4, <1>5, <1>6, <1>7 DEF PlanStep

LEMMA NextKeepsRest == TypeOK /\ TypeOK' /\ [Next]_vars /\ AtRest => AtRest'
<1> SUFFICES ASSUME TypeOK, TypeOK', [Next]_vars, AtRest PROVE AtRest'
  OBVIOUS
<1>1. CASE UNCHANGED vars
  BY <1>1 DEF vars, AtRest, NodesAtRest, InOrder, Wanted, SyncAtRest, PlanJobAtRest, Listed, Known
<1>2. stable
  BY DEF AtRest
<1> QED BY <1>1, <1>2, SyncKeepsRest, PlanKeepsRest DEF Next, Work, NodeChanges, Ban, Stabilize, Crash, Faulty

\* Once the nodes are in order, counted, and nothing older is held, no step of
\* the sync and the plan job, however they interleave, changes that.
THEOREM RestIsForEver == Spec => RestIsKept
BY NextKeepsRest, TypeCorrect, PTL DEF Spec, RestIsKept

\* So all that settling asks is that rest is reached once: then plan, flags and
\* counts are right for ever.
THEOREM RestIsSettled == Spec /\ ComesToRest => PlanSettles /\ CountsSettle
<1>1. AtRest => counted = Listed /\ \A n \in Up : InOrder(n)
  BY DEF AtRest, NodesAtRest, Up, Known
<1> QED BY <1>1, NextKeepsRest, TypeCorrect, PTL DEF Spec, ComesToRest, PlanSettles, CountsSettle
=============================================================================
