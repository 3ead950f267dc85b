----------------------------- MODULE ListingProofs -----------------------------
(***************************************************************************)
(* For any nodes, devices, requests and bounds: a banned node gets no more *)
(* requests, from the permanence of the ban in the table (NodePlan) and    *)
(* what a request may choose from (Gateway); and the jobs are part of the  *)
(* gateway's environment, so that its safety holds beside them.            *)
(***************************************************************************)
EXTENDS Listing, NodePlanProofs

\* Every step of the listing is a step of the jobs or leaves their state alone,
\* so whatever is proved of NodePlan holds beside the requests as well.
LEMMA ListingStep == [ListingNext]_listingVars => [Next]_vars
BY DEF ListingNext, listingVars, Next

LEMMA ListingIsNodePlan == ListingSpec => Spec
<1>1. ListingInit => Init
  BY DEF ListingInit
<1> QED BY <1>1, ListingStep, PTL DEF ListingSpec, Spec

LEMMA ListingBanInv == ListingSpec => []BanInv
<1>1. BanInv /\ [Next]_vars => BanInv'
  BY NextBanInv
<1> QED BY <1>1, InitBanInv, ListingIsNodePlan, PTL DEF Spec

-----------------------------------------------------------------------------
(* Targets *)

TargetsKnown == target \in [Requests -> Nodes \cup {G!NoNode}]

\* What a step of a request may do to its target: choose a node that the table
\* offers, or let it go.
LEMMA RequestTarget ==
  ASSUME TargetsKnown, NEW r \in Requests,
         G!RequestStep(r) \/ \E d \in DeviceIds : G!RequireAuth(r, d)
  PROVE  \E n \in Nodes \cup {G!NoNode} :
           /\ target' = [target EXCEPT ![r] = n]
           /\ n \in {G!NoNode, target[r]} \cup Listed
<1>0. target[r] \in Nodes \cup {G!NoNode} /\ target = [target EXCEPT ![r] = target[r]]
  BY DEF TargetsKnown
<1>1. CASE target' = target
  BY <1>0, <1>1
<1>2. CASE target' = [target EXCEPT ![r] = G!NoNode]
  BY <1>2
<1>3. ASSUME NEW n \in Listed, G!Choose(r, n)
      PROVE  n \in Nodes /\ target' = [target EXCEPT ![r] = n]
  BY <1>3 DEF G!Choose, Listed, Known
<1>4. CASE G!RequestStep(r)
  <2>1. CASE G!ConnectToCity(r) \/ \E n \in Nodes : G!ConnectToServer(r, n)
    BY <1>2, <1>3, <2>1 DEF G!ConnectToCity, G!ConnectToServer, G!Respond
  <2> QED BY <1>1, <1>2, <1>4, <2>1
        DEF G!RequestStep, G!CurrentDevice, G!CreateCredentialsLookup, G!CreateNodeSubscription,
            G!FindSubscriptionByID, G!RecordNodeSubscription, G!CreateCredentials, G!RespondCredentials,
            G!Respond, G!Proceed
<1>5. CASE \E d \in DeviceIds : G!RequireAuth(r, d)
  BY <1>1, <1>2, <1>5 DEF G!RequireAuth, G!Respond
<1> QED BY <1>4, <1>5

\* A step moves at most one target, or drops them all.
LEMMA TargetStep ==
  ASSUME TargetsKnown, [ListingNext]_listingVars
  PROVE  \/ target' = target
         \/ target' = [r \in Requests |-> G!NoNode]
         \/ \E r \in Requests, n \in Nodes \cup {G!NoNode} :
              /\ target' = [target EXCEPT ![r] = n]
              /\ n \in {G!NoNode, target[r]} \cup Listed
<1>1. CASE UNCHANGED gateway
  BY <1>1 DEF gateway
<1>2. CASE GatewayStep
  <2>1. CASE \E i \in NodeSubIds : G!Expire(i)
    BY <2>1 DEF G!Expire, G!requests
  <2> QED BY <1>2, <2>1, RequestTarget DEF GatewayStep
<1>3. CASE G!DropRequests
  BY <1>3 DEF G!DropRequests
<1> QED BY <1>1, <1>2, <1>3 DEF ListingNext, listingVars

LEMMA TargetsAreKnown == ListingSpec => []TargetsKnown
<1>1. ListingInit => TargetsKnown
  BY DEF ListingInit, G!InitGateway, TargetsKnown
<1>2. TargetsKnown /\ [ListingNext]_listingVars => TargetsKnown'
  <2> SUFFICES ASSUME TargetsKnown, [ListingNext]_listingVars
               PROVE  target' \in [Requests -> Nodes \cup {G!NoNode}]
    BY DEF TargetsKnown
  <2>1. target \in [Requests -> Nodes \cup {G!NoNode}]
    BY DEF TargetsKnown
  <2> QED BY <2>1, TargetStep
<1> QED BY <1>1, <1>2, PTL DEF ListingSpec

-----------------------------------------------------------------------------
(* The ban and the requests *)

\* Once a node's ban is in the table, no job holds a copy of the row from before
\* it and no request under way has chosen the node, none ever does again.
THEOREM ShunnedForGood == ListingSpec => ShunnedForEver
<1>1. ASSUME BanInv, TargetsKnown, [ListingNext]_listingVars, NEW n \in Nodes, Shunned(n)
      PROVE  Shunned(n)'
  <2>1. BanDrained(n)'
    BY <1>1, ListingStep, NextBanHolds DEF Shunned
  <2>2. n \notin Listed /\ n # G!NoNode
    BY <1>1, GatewayConstants DEF Shunned, BanDrained, Listed
  <2>3. \A r \in Requests : target'[r] # n
    BY <1>1, <2>2, TargetStep DEF Shunned, TargetsKnown
  <2> QED BY <2>1, <2>3 DEF Shunned
<1>2. BanInv /\ TargetsKnown /\ [ListingNext]_listingVars =>
        [\A n \in Nodes : Shunned(n) => Shunned(n)']_listingVars
  BY <1>1
<1> QED BY <1>2, ListingBanInv, TargetsAreKnown, PTL DEF ListingSpec, ShunnedForEver

-----------------------------------------------------------------------------
(* Rest *)

\* Once the jobs have come to rest, requests are only sent to nodes that the plan
\* covers and the provider can afford.
THEOREM RestServesFromPlan == ListingSpec /\ ComesToRest => ServedFromPlan
<1> DEFINE Served == \A r \in Requests, n \in Nodes :
                       target[r] # n /\ target'[r] = n => n \in plan /\ cond[n] # "pricey"
<1>1. ASSUME TypeOK, AtRest, TargetsKnown, [ListingNext]_listingVars PROVE Served
  <2> SUFFICES ASSUME NEW r \in Requests, NEW n \in Nodes, target[r] # n, target'[r] = n
               PROVE  n \in plan /\ cond[n] # "pricey"
    OBVIOUS
  <2>1. n # G!NoNode
    BY GatewayConstants
  <2>2. n \in Listed
    BY <1>1, <2>1, TargetStep DEF TargetsKnown
  <2>3. n \in {m \in Nodes : Wanted(m)}
    BY <1>1, <2>2, ListedAtRest DEF AtRest
  <2> QED BY <1>1, <2>3 DEF Wanted, AtRest, NodesAtRest, InOrder
<1>2. TypeOK /\ AtRest /\ TargetsKnown /\ [ListingNext]_listingVars => [Served]_listingVars
  BY <1>1
<1>3. TypeOK /\ TypeOK' /\ [ListingNext]_listingVars /\ AtRest => AtRest'
  BY ListingStep, NextKeepsRest
<1>4. ListingSpec => []TypeOK
  BY ListingIsNodePlan, TypeCorrect, PTL
<1> QED BY <1>2, <1>3, <1>4, TargetsAreKnown, PTL DEF ListingSpec, ComesToRest, ServedFromPlan

-----------------------------------------------------------------------------
(* What is proved of Gateway, carried over *)

Enrolled == [feeGranted |-> TRUE, subscriptionId |-> Sub, banned |-> FALSE]

GP == INSTANCE GatewayProofs WITH
  registered <- DeviceIds,
  device <- [d \in DeviceIds |-> Enrolled],
  allowances <- DeviceIds,
  allocations <- [s \in SubIds |-> DeviceIds],
  running <- SubIds,
  listed <- Listed

\* The gateway's proofs assume no more of the constants than the listing does.
LEMMA GatewayAssumptions ==
  GP!GatewayIds /\ GP!NodeSubIdsAreNumbers /\ GP!RequestsAreFinite /\ GP!NodesAreNamed
BY GatewayConstants
   DEF GP!GatewayIds, GP!NodeSubIdsAreNumbers, GP!RequestsAreFinite, GP!NodesAreNamed,
       G!NoSub, GP!NoSub, G!NoNode, GP!NoNode, IsFiniteSet, GP!IsFiniteSet

\* GatewayProofs speaks of the module that Listing instantiates.
LEMMA SameGateway ==
  /\ \A r \in Requests : G!RequestStep(r) <=> GP!RequestStep(r)
  /\ \A r \in Requests, d \in DeviceIds : G!RequireAuth(r, d) <=> GP!RequireAuth(r, d)
  /\ \A i \in NodeSubIds : G!Expire(i) <=> GP!Expire(i)
  /\ G!InitGateway <=> GP!InitGateway
  /\ G!CredentialsBacked <=> GP!CredentialsBacked
  /\ G!OneLeasePerRequest <=> GP!OneLeasePerRequest
  /\ G!SessionsOnLeases <=> GP!SessionsOnLeases
<1> USE DEF G!NoSub, GP!NoSub, G!Nobody, GP!Nobody, G!NoNode, GP!NoNode, G!NoRow, GP!NoRow,
      G!leases, GP!leases, G!requests, GP!requests, G!LiveLeases, GP!LiveLeases, G!Unbought, GP!Unbought,
      G!SameEnvironment, GP!SameEnvironment, Enrolled
<1>1. \A r \in Requests : G!RequestStep(r) <=> GP!RequestStep(r)
  BY DEF G!RequestStep, GP!RequestStep, G!CurrentDevice, GP!CurrentDevice, G!ConnectToCity, GP!ConnectToCity,
     G!ConnectToServer, GP!ConnectToServer, G!Choose, GP!Choose,
     G!CreateCredentialsLookup, GP!CreateCredentialsLookup,
     G!CreateNodeSubscription, GP!CreateNodeSubscription, G!FindSubscriptionByID, GP!FindSubscriptionByID,
     G!RecordNodeSubscription, GP!RecordNodeSubscription, G!CreateCredentials, GP!CreateCredentials,
     G!RespondCredentials, GP!RespondCredentials, G!Respond, GP!Respond, G!Proceed, GP!Proceed
<1>2. \A r \in Requests, d \in DeviceIds : G!RequireAuth(r, d) <=> GP!RequireAuth(r, d)
  BY DEF G!RequireAuth, GP!RequireAuth, G!Respond, GP!Respond
<1>3. \A i \in NodeSubIds : G!Expire(i) <=> GP!Expire(i)
  BY DEF G!Expire, GP!Expire
<1>4. G!InitGateway <=> GP!InitGateway
  BY DEF G!InitGateway, GP!InitGateway
<1>5. G!CredentialsBacked <=> GP!CredentialsBacked
  BY DEF G!CredentialsBacked, GP!CredentialsBacked
<1>6. G!OneLeasePerRequest <=> GP!OneLeasePerRequest
  BY DEF G!OneLeasePerRequest, GP!OneLeasePerRequest, G!Buying, GP!Buying, G!Cardinality, GP!Cardinality
<1>7. G!SessionsOnLeases <=> GP!SessionsOnLeases
  BY DEF G!SessionsOnLeases, GP!SessionsOnLeases
<1> QED BY <1>1, <1>2, <1>3, <1>4, <1>5, <1>6, <1>7

\* A step of the jobs changes at most which servers are listed; so every step is
\* one of the gateway in its environment.
LEMMA ListingIsGatewayStep == [ListingNext]_listingVars => [GP!Next]_(GP!vars)
<1> SUFFICES ASSUME [ListingNext]_listingVars PROVE GP!Next \/ UNCHANGED GP!vars
  OBVIOUS
<1> USE DEF GP!rows, GP!chain, GP!leases, GP!requests, GP!SameEnvironment
<1>1. Listed' \in SUBSET Nodes
  BY DEF Listed, Known
<1>2. CASE UNCHANGED listingVars
  BY <1>2 DEF listingVars, vars, gateway, GP!vars, Listed, Known
<1>3. CASE Work /\ UNCHANGED gateway /\ UNCHANGED stable
  BY <1>1, <1>3 DEF gateway, GP!ServersChange, GP!Environment, GP!Next
<1>4. CASE Stabilize /\ UNCHANGED gateway
  BY <1>4 DEF Stabilize, gateway, db, Listed, Known, GP!Stabilize, GP!Next
<1>5. Work => UNCHANGED stable \/ Stabilize
  BY DEF Work, NodeChanges, Ban, SyncStep, SyncFetch, SyncFetchPlan, SyncDeactivate, SyncSkip, SyncRead,
     SyncSave, PlanStep, LinkLoad, LinkSubmit, UnlinkLoad, Count, LinkSave, UnlinkSubmit, UnlinkSave
<1>6. CASE Crash /\ G!DropRequests /\ UNCHANGED <<leased, ended, nodeSubs>>
  BY <1>6 DEF Crash, Faulty, db, Listed, Known, G!DropRequests, G!NoRow, G!NoSub, G!Nobody, G!NoNode,
     GP!DropRequests, GP!NoRow, GP!NoSub, GP!Nobody, GP!NoNode, GP!Crash, GP!Next
<1>7. CASE UNCHANGED vars /\ GatewayStep
  BY <1>7, SameGateway DEF GatewayStep, GP!Environment, GP!Next
<1> QED BY <1>2, <1>3, <1>4, <1>5, <1>6, <1>7 DEF ListingNext

\* With every device enrolled and no request under way, the gateway's invariant
\* holds.
LEMMA ListingInitIInv == ListingInit => GP!IInv /\ GP!OneLeasePerRequest /\ GP!SessionsOnLeases
<1> SUFFICES ASSUME ListingInit PROVE GP!IInv /\ GP!OneLeasePerRequest /\ GP!SessionsOnLeases
  OBVIOUS
<1>0. GP!InitGateway /\ stable = FALSE
  BY SameGateway DEF ListingInit, Init
<1>1. Sub \in SubIds /\ Enrolled \in GP!Row /\ GP!NoRow \in GP!Row
  BY GatewayConstants DEF Sub, Enrolled, GP!Row, GP!NoRow
<1>2. Listed \subseteq Nodes
  BY DEF Listed, Known
<1>3. GP!TypeOK
  BY <1>0, <1>1, <1>2 DEF GP!InitGateway, GP!TypeOK, GP!NoSub, GP!Nobody, GP!NoNode, GP!Steps
<1>4. GP!Leases /\ GP!SessionsOnLeases
  BY <1>0 DEF GP!InitGateway, GP!Leases, GP!SessionsOnLeases
<1>5. GP!HeldBacked
  BY <1>0, <1>1 DEF GP!InitGateway, GP!HeldBacked, GP!Backed, Enrolled
<1>6. GP!OneLeasePerRequest
  BY <1>0, GatewayAssumptions, GP!InitOneLease
<1> QED BY <1>3, <1>4, <1>5, <1>6 DEF GP!IInv

\* With the sync, link and unlink jobs at work beside the requests: a session is
\* asked for only with a wallet the chain lets in, and of a node with a
\* subscription bought and recorded, and never are more of those live for a node
\* than requests run at one time, however the jobs change what may be chosen.
THEOREM ListingKeepsGatewaySafe ==
  ListingSpec => [](G!CredentialsBacked /\ G!OneLeasePerRequest /\ G!SessionsOnLeases)
<1> DEFINE Safe == GP!IInv /\ GP!OneLeasePerRequest /\ GP!SessionsOnLeases
<1>1. GP!IInv /\ [GP!Next]_(GP!vars) => GP!IInv'
  BY GatewayAssumptions, GP!NextIInv
<1>2. GP!OneLeasePerRequest /\ GP!IInv /\ [GP!Next]_(GP!vars) => GP!OneLeasePerRequest'
  BY GatewayAssumptions, GP!NextOneLease
<1>3. GP!SessionsOnLeases /\ GP!IInv /\ [GP!Next]_(GP!vars) => GP!SessionsOnLeases'
  BY GatewayAssumptions, GP!NextSessionsOnLeases
<1>4. Safe /\ [ListingNext]_listingVars => Safe'
  BY <1>1, <1>2, <1>3, ListingIsGatewayStep
<1>5. Safe => G!CredentialsBacked /\ G!OneLeasePerRequest /\ G!SessionsOnLeases
  <2>1. GP!IInv => GP!CredentialsBacked
    BY GatewayAssumptions, GP!IInvBacks
  <2> QED BY <2>1, SameGateway
<1> QED BY <1>4, <1>5, ListingInitIInv, PTL DEF ListingSpec

\* And nothing is paid for and lost, nor a session kept from its device, but to
\* a fault.
THEOREM ListingKeepsGatewayFrugal == ListingSpec => G!WasteOnlyFromFaults
<1> DEFINE Frugal ==
      stable =>
        /\ G!Orphans' \subseteq G!Orphans
        /\ \A r \in Requests : pc[r] = "answer" /\ pc'[r] # "answer" =>
             answer'[r] = "ok" \/ target[r] \in NoProtocols
<1>1. GP!IInv /\ [GP!Next]_(GP!vars) => GP!IInv'
  BY GatewayAssumptions, GP!NextIInv
<1>2. GP!IInv /\ [GP!Next]_(GP!vars) => [GP!Frugal]_(GP!vars)
  BY GatewayAssumptions, GP!NextFrugal
<1>3. UNCHANGED GP!vars => UNCHANGED G!vars
  BY DEF G!vars, GP!vars, Enrolled
<1>4. GP!Frugal => Frugal
  BY DEF GP!Frugal, G!Orphans, GP!Orphans, G!NoNode, GP!NoNode
<1>5. GP!IInv /\ [ListingNext]_listingVars => [Frugal]_(G!vars)
  BY <1>2, <1>3, <1>4, ListingIsGatewayStep
<1>6. GP!IInv /\ [ListingNext]_listingVars => GP!IInv'
  BY <1>1, ListingIsGatewayStep
<1> QED BY <1>5, <1>6, ListingInitIInv, PTL DEF ListingSpec, G!WasteOnlyFromFaults
=============================================================================
