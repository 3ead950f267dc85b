----------------------------- MODULE ServiceProofs -----------------------------
(***************************************************************************)
(* The service implements the specifications of its two parts, for any     *)
(* devices, subscriptions, nodes, requests and batch limits: what Gateway  *)
(* leaves to its environment, the onboarding jobs, the handlers and the    *)
(* operator do.  So what is proved of the parts holds of the whole, and    *)
(* beyond it that a banned device is kept out for good.                    *)
(***************************************************************************)
EXTENDS Service, OnboardingProofs

\* Every step of the service is a step of the jobs or leaves their state alone,
\* so whatever is proved of Onboarding holds in the service, its invariant too.
LEMMA ServiceIsOnboarding == ServiceSpec => Spec
<1>1. ServiceInit => Init
  BY DEF ServiceInit
<1>2. [ServiceNext]_serviceVars => [Next]_vars
  BY DEF ServiceNext, serviceVars, Next
<1> QED BY <1>1, <1>2, PTL DEF ServiceSpec, Spec

LEMMA ServiceIInv == ServiceSpec => []IInv
BY ServiceIsOnboarding, Inductive, PTL

\* How a step of the jobs looks to the gateway.
Quiet  == UNCHANGED <<registered, device, allowances, allocations, lifetime, stable>>
Writes == \E d \in DeviceIds, row \in Row :
  /\ registered' = registered \cup {d} /\ device' = [device EXCEPT ![d] = row]
  /\ UNCHANGED <<allowances, allocations, lifetime, stable>>
Grants == \E D \in SUBSET DeviceIds :
  allowances' = allowances \cup D /\ UNCHANGED <<registered, device, allocations, lifetime, stable>>
Allocates == \E s \in SubIds, D \in SUBSET DeviceIds :
  /\ allocations' = [allocations EXCEPT ![s] = @ \cup D]
  /\ UNCHANGED <<registered, device, allowances, lifetime, stable>>
Ages == \E s \in SubIds, a \in {"long", "short"} :
  lifetime' = [lifetime EXCEPT ![s] = a] /\ UNCHANGED <<registered, device, allowances, allocations, stable>>

LEMMA SaveIsWrite ==
  ASSUME IInv, NEW d \in registered, NEW row \in Row, Save(d, row),
         UNCHANGED <<registered, allowances, allocations, lifetime, stable>>
  PROVE  Quiet \/ Writes
BY DEF Save, Quiet, Writes, IInv, TypeOK

LEMMA WorkIsEnvironment == ASSUME IInv, Work PROVE Quiet \/ Writes \/ Grants \/ Allocates \/ Ages \/ Stabilize
<1> USE DEF db, chain, grant, enroll
<1>sub. /\ registered \subseteq DeviceIds /\ device \in [DeviceIds -> Row]
        /\ DOMAIN grantRows \subseteq registered /\ DOMAIN enrollRows \subseteq registered
        /\ grantListed \subseteq DOMAIN grantRows
        /\ \A d \in DOMAIN grantRows : grantRows[d] \in Row
        /\ \A d \in DOMAIN enrollRows : enrollRows[d] \in Row
        /\ enrollPc \notin {"idle", "create"} => enrollSub \in SubIds
  BY DEF IInv, TypeOK, IsSnapshot, GrantRowsBacked, EnrollRowsBacked
<1>1. ASSUME NEW d \in DeviceIds, CreateDevice(d) PROVE Writes
  BY <1>1, NewRowIsRow DEF CreateDevice, Writes
<1>2. ASSUME NEW d \in DeviceIds, Ban(d) PROVE Writes
  <2> DEFINE row == [device[d] EXCEPT !.banned = TRUE]
  <2>1. row \in Row
    BY <1>sub DEF Row
  <2>2. device' = [device EXCEPT ![d] = row] /\ registered' = registered \cup {d}
        /\ UNCHANGED <<allowances, allocations, lifetime, stable>>
    BY <1>2 DEF Ban
  <2> QED BY <2>1, <2>2 DEF Writes
<1>3. ASSUME NEW s \in SubIds, Age(s) PROVE Ages
  BY <1>3 DEF Age, Ages
<1>4. CASE GrantLoad \/ GrantFetch
  BY <1>4 DEF GrantLoad, GrantFetch, Quiet
<1>5. ASSUME NEW d \in DeviceIds, GrantMark(d) PROVE Quiet \/ Writes
  <2>1. d \in registered /\ [grantRows[d] EXCEPT !.feeGranted = TRUE] \in Row
    BY <1>5, <1>sub, RowUpdates DEF GrantMark
  <2> QED BY <1>5, <2>1, SaveIsWrite DEF GrantMark
<1>6. CASE GrantSubmit
  <2>1. DOMAIN grantRows \in SUBSET DeviceIds
    BY <1>sub
  <2> QED BY <1>6, <2>1 DEF GrantSubmit, GrantFeeToWallet, Call, Quiet, Grants
<1>7. ASSUME NEW d \in DeviceIds, GrantSave(d) PROVE Quiet \/ Writes
  <2>1. d \in registered /\ [grantRows[d] EXCEPT !.feeGranted = TRUE] \in Row
    BY <1>7, <1>sub, RowUpdates DEF GrantSave
  <2> QED BY <1>7, <2>1, SaveIsWrite DEF GrantSave
<1>8. CASE EnrollSelect \/ FindSubscriptionByID \/ EnrollRecord \/ EnrollLoad
  BY <1>8 DEF EnrollSelect, FindSubscriptionByID, EnrollRecord, EnrollLoad, Quiet
<1>9. CASE EnrollCreate
  BY <1>9 DEF EnrollCreate, CreatePlanSubscription, Call, Unbought, Quiet, Ages
<1>10. CASE EnrollSubmit
  <2>1. DOMAIN enrollRows \in SUBSET DeviceIds /\ enrollSub \in SubIds
    BY <1>10, <1>sub DEF EnrollSubmit
  <2> QED BY <1>10, <2>1 DEF EnrollSubmit, EnrollWalletToSubscription, Call, Quiet, Allocates
<1>11. ASSUME NEW d \in DeviceIds, EnrollSave(d) PROVE Quiet \/ Writes
  <2>1. d \in registered /\ [enrollRows[d] EXCEPT !.subscriptionId = enrollSub] \in Row
    BY <1>11, <1>sub, RowUpdates DEF EnrollSave
  <2> QED BY <1>11, <2>1, SaveIsWrite DEF EnrollSave
<1> QED BY <1>1, <1>2, <1>3, <1>4, <1>5, <1>6, <1>7, <1>8, <1>9, <1>10, <1>11
        DEF Work, GrantStep, EnrollStep

\* A step of the jobs is a step of the gateway's environment, or none: the rows
\* it writes claim what the chain backs, by the invariant of the jobs.
LEMMA WorkStep ==
  ASSUME IInv, IInv', Work, UNCHANGED gateway PROVE G!Next \/ UNCHANGED G!vars
<1> DEFINE long == {s \in SubIds : lifetime[s] = "long"}
<1> USE DEF gateway, G!rows, G!chain, G!leases, G!requests
<1>1. CASE Quiet
  BY <1>1 DEF Quiet, G!vars
<1>2. CASE Writes
  <2>1. PICK d \in DeviceIds, row \in Row :
          /\ registered' = registered \cup {d} /\ device' = [device EXCEPT ![d] = row]
          /\ UNCHANGED <<allowances, allocations, lifetime, stable>>
    BY <1>2 DEF Writes
  <2>2. d \in registered' /\ device'[d] = row
    BY <2>1 DEF IInv, TypeOK
  <2>3. /\ row.feeGranted => d \in allowances
        /\ row.subscriptionId # NoSub => d \in allocations[row.subscriptionId]
    BY <2>1, <2>2 DEF IInv, FeeFlagBacked, SubscriptionBacked
  <2>4. row \in G!Row /\ G!Backed(d, row)
    BY <2>3 DEF G!Backed, G!Row, Row, NoSub, G!NoSub
  <2>5. G!WriteRow(d)
    BY <2>1, <2>4 DEF G!WriteRow
  <2> QED BY <2>5 DEF G!Next, G!Environment
<1>3. CASE Grants
  <2>1. PICK D \in SUBSET DeviceIds : G!Grant(D)
    BY <1>3 DEF Grants, G!Grant
  <2> QED BY <2>1 DEF G!Next, G!Environment
<1>4. CASE Allocates
  <2>1. PICK s \in SubIds, D \in SUBSET DeviceIds : G!Allocate(s, D)
    BY <1>4 DEF Allocates, G!Allocate
  <2> QED BY <2>1 DEF G!Next, G!Environment
<1>5. CASE Ages
  <2>1. PICK s \in SubIds, a \in {"long", "short"} :
          lifetime' = [lifetime EXCEPT ![s] = a] /\ UNCHANGED <<registered, device, allowances, allocations, stable>>
    BY <1>5 DEF Ages
  <2>2. \A t \in SubIds : lifetime'[t] = IF t = s THEN a ELSE lifetime[t]
    BY <2>1 DEF IInv, TypeOK
  <2>3. long' \in {long \cup {s}, long \ {s}}
    BY <2>2
  <2>4. G!SubscriptionChanges(s)
    BY <2>1, <2>3 DEF G!SubscriptionChanges
  <2> QED BY <2>4 DEF G!Next, G!Environment
<1>6. CASE Stabilize
  BY <1>6 DEF Stabilize, db, chain, G!Next, G!Stabilize, G!SameEnvironment
<1> QED BY <1>1, <1>2, <1>3, <1>4, <1>5, <1>6, WorkIsEnvironment

\* The jobs and handlers, with all their failures and stale writes, are an
\* environment as the gateway assumes it, so what is proved of Gateway holds
\* in the service.
THEOREM ServiceImplementsGateway == ServiceSpec => GatewaySpec
<1>1. ServiceInit => G!Init
  BY DEF ServiceInit
<1>2. IInv /\ IInv' /\ [ServiceNext]_serviceVars => [G!Next]_(G!vars)
  <2> SUFFICES ASSUME IInv, IInv', [ServiceNext]_serviceVars PROVE G!Next \/ UNCHANGED G!vars
    OBVIOUS
  <2>1. CASE UNCHANGED serviceVars
    BY <2>1 DEF serviceVars, vars, gateway, G!vars
  <2>2. CASE Work /\ UNCHANGED gateway
    BY <2>2, WorkStep
  <2>3. CASE GatewayStep
    BY <2>3 DEF GatewayStep, G!Next, G!Environment
  <2>4. CASE Crash /\ G!DropRequests /\ UNCHANGED <<listed, leased, ended, nodeSubs>>
    BY <2>4 DEF Crash, db, chain, G!Next, G!Crash, G!SameEnvironment, G!leases
  <2> QED BY <2>1, <2>2, <2>3, <2>4 DEF ServiceNext
<1> QED BY <1>1, <1>2, ServiceIInv, PTL DEF ServiceSpec, GatewaySpec, G!Spec

-----------------------------------------------------------------------------
(* What is proved of Gateway, carried over *)

GP == INSTANCE GatewayProofs WITH
  running <- {s \in SubIds : lifetime[s] = "long"}

\* GatewayProofs speaks of the module that Service instantiates.
LEMMA SameGateway ==
  /\ G!Init <=> GP!Init
  /\ [G!Next]_(G!vars) <=> [GP!Next]_(GP!vars)
  /\ G!CredentialsBacked <=> GP!CredentialsBacked
  /\ G!OneLeasePerRequest <=> GP!OneLeasePerRequest
  /\ G!SessionsOnLeases <=> GP!SessionsOnLeases
<1> USE DEF G!NoSub, GP!NoSub, G!Nobody, GP!Nobody, G!NoNode, GP!NoNode, G!NoRow, GP!NoRow, G!Row, GP!Row,
      G!rows, GP!rows, G!chain, GP!chain, G!leases, GP!leases, G!requests, GP!requests,
      G!vars, GP!vars, G!LiveLeases, GP!LiveLeases, G!Unbought, GP!Unbought
<1>1. G!Init <=> GP!Init
  BY DEF G!Init, GP!Init, G!InitGateway, GP!InitGateway
<1>2. G!Environment <=> GP!Environment
  BY DEF G!Environment, GP!Environment, G!WriteRow, GP!WriteRow, G!Backed, GP!Backed, G!Grant, GP!Grant,
     G!Allocate, GP!Allocate, G!SubscriptionChanges, GP!SubscriptionChanges,
     G!ServersChange, GP!ServersChange, G!Expire, GP!Expire, G!SameEnvironment, GP!SameEnvironment
<1>3. \A r \in Requests : G!RequestStep(r) <=> GP!RequestStep(r)
  BY DEF G!RequestStep, GP!RequestStep, G!CurrentDevice, GP!CurrentDevice, G!ConnectToCity, GP!ConnectToCity,
     G!ConnectToServer, GP!ConnectToServer, G!Choose, GP!Choose,
     G!CreateCredentialsLookup, GP!CreateCredentialsLookup,
     G!CreateNodeSubscription, GP!CreateNodeSubscription, G!FindSubscriptionByID, GP!FindSubscriptionByID,
     G!RecordNodeSubscription, GP!RecordNodeSubscription, G!CreateCredentials, GP!CreateCredentials,
     G!RespondCredentials, GP!RespondCredentials, G!Respond, GP!Respond, G!Proceed, GP!Proceed,
     G!SameEnvironment, GP!SameEnvironment
<1>4. \A r \in Requests, d \in DeviceIds : G!RequireAuth(r, d) <=> GP!RequireAuth(r, d)
  BY DEF G!RequireAuth, GP!RequireAuth, G!Respond, GP!Respond, G!SameEnvironment, GP!SameEnvironment
<1>5. (G!Crash <=> GP!Crash) /\ (G!Stabilize <=> GP!Stabilize)
  BY DEF G!Crash, GP!Crash, G!DropRequests, GP!DropRequests, G!Stabilize, GP!Stabilize,
     G!SameEnvironment, GP!SameEnvironment
<1>6. [G!Next]_(G!vars) <=> [GP!Next]_(GP!vars)
  BY <1>2, <1>3, <1>4, <1>5 DEF G!Next, GP!Next
<1>7. G!CredentialsBacked <=> GP!CredentialsBacked
  BY DEF G!CredentialsBacked, GP!CredentialsBacked
<1>8. G!OneLeasePerRequest <=> GP!OneLeasePerRequest
  BY DEF G!OneLeasePerRequest, GP!OneLeasePerRequest, G!Buying, GP!Buying,
     G!Cardinality, GP!Cardinality
<1>9. G!SessionsOnLeases <=> GP!SessionsOnLeases
  BY DEF G!SessionsOnLeases, GP!SessionsOnLeases
<1> QED BY <1>1, <1>6, <1>7, <1>8, <1>9

\* The gateway's proofs assume no more of the constants than the service does.
LEMMA GatewayAssumptions ==
  GP!GatewayIds /\ GP!NodeSubIdsAreNumbers /\ GP!RequestsAreFinite /\ GP!NodesAreNamed
BY IdsAreNumbers, GatewayConstants
   DEF NoSub, GP!NoSub, G!NoNode, GP!NoNode, IsFiniteSet, GP!IsFiniteSet

LEMMA ServiceIsGateway == ServiceSpec => GP!Spec
BY ServiceImplementsGateway, SameGateway, PTL DEF GatewaySpec, G!Spec, GP!Spec

\* With the jobs at work beside the requests, their failures and stale writes
\* included: a session is asked for only with a wallet the chain lets in, and of
\* a node with a subscription bought and recorded, and never are more of those
\* live for a node than requests run at one time.
THEOREM ServiceKeepsGatewaySafe ==
  ServiceSpec => [](G!CredentialsBacked /\ G!OneLeasePerRequest /\ G!SessionsOnLeases)
<1>1. GP!Spec => []GP!CredentialsBacked
  BY GatewayAssumptions, GP!GatewayCredentialsBacked
<1>2. GP!Spec => []GP!OneLeasePerRequest
  BY GatewayAssumptions, GP!GatewayOneLeasePerRequest
<1>3. GP!Spec => []GP!SessionsOnLeases
  BY GatewayAssumptions, GP!GatewaySessionsOnLeases
<1> QED BY <1>1, <1>2, <1>3, ServiceIsGateway, SameGateway, PTL

\* Nor, but to a fault, is anything paid for and lost, or a session kept from its
\* device.
THEOREM ServiceKeepsGatewayFrugal == ServiceSpec => G!WasteOnlyFromFaults
<1> DEFINE Frugal ==
      stable =>
        /\ G!Orphans' \subseteq G!Orphans
        /\ \A r \in Requests : pc[r] = "answer" /\ pc'[r] # "answer" =>
             answer'[r] = "ok" \/ target[r] \in NoProtocols
<1>1. GP!Spec => [][GP!Frugal]_(GP!vars)
  <2>1. GP!IInv /\ [GP!Next]_(GP!vars) => [GP!Frugal]_(GP!vars)
    BY GatewayAssumptions, GP!NextFrugal
  <2>2. GP!Spec => []GP!IInv
    BY GatewayAssumptions, GP!SpecIInv
  <2> QED BY <2>1, <2>2, PTL DEF GP!Spec
<1>2. [GP!Frugal]_(GP!vars) => [Frugal]_(G!vars)
  <2>1. UNCHANGED GP!vars => UNCHANGED G!vars
    BY DEF G!vars, GP!vars
  <2>2. GP!Frugal => Frugal
    BY DEF GP!Frugal, G!Orphans, GP!Orphans, G!NoNode, GP!NoNode
  <2> QED BY <2>1, <2>2
<1> QED BY <1>1, <1>2, ServiceIsGateway, PTL DEF G!WasteOnlyFromFaults

-----------------------------------------------------------------------------
(* Banned for good *)

\* The callers are known devices, or nobody.
CallersKnown == caller \in [Requests -> DeviceIds \cup {G!Nobody}]

\* What a step of a request may do to its caller: let a device in that is not
\* banned, or let it go.
LEMMA RequestCaller ==
  ASSUME CallersKnown, NEW r \in Requests,
         G!RequestStep(r) \/ \E d \in DeviceIds : G!RequireAuth(r, d)
  PROVE  \E c \in DeviceIds \cup {G!Nobody} :
           /\ caller' = [caller EXCEPT ![r] = c]
           /\ c \in {G!Nobody, caller[r]} \/ ~device[c].banned
<1>1. caller[r] \in DeviceIds \cup {G!Nobody} /\ caller = [caller EXCEPT ![r] = caller[r]]
  BY DEF CallersKnown
<1>2. CASE caller' = [caller EXCEPT ![r] = G!Nobody]
  BY <1>2
<1>3. CASE caller' = caller
  BY <1>1, <1>3
<1>4. CASE G!RequestStep(r)
  BY <1>2, <1>3, <1>4
     DEF G!RequestStep, G!CurrentDevice, G!ConnectToCity, G!ConnectToServer, G!CreateCredentialsLookup,
         G!CreateNodeSubscription, G!FindSubscriptionByID, G!RecordNodeSubscription, G!CreateCredentials,
         G!RespondCredentials, G!Respond, G!Proceed, G!Choose
<1>5. CASE \E d \in DeviceIds : G!RequireAuth(r, d)
  BY <1>2, <1>5 DEF G!RequireAuth, G!Respond
<1> QED BY <1>4, <1>5

\* A step of the service moves at most one caller, or drops them all.
LEMMA CallerStep ==
  ASSUME CallersKnown, [ServiceNext]_serviceVars
  PROVE  \/ caller' = caller
         \/ caller' = [r \in Requests |-> G!Nobody]
         \/ \E r \in Requests, c \in DeviceIds \cup {G!Nobody} :
              /\ caller' = [caller EXCEPT ![r] = c]
              /\ c \in {G!Nobody, caller[r]} \/ ~device[c].banned
<1>1. CASE UNCHANGED gateway
  BY <1>1 DEF gateway
<1>2. ASSUME NEW r \in Requests, G!RequestStep(r) \/ \E d \in DeviceIds : G!RequireAuth(r, d)
      PROVE  \E c \in DeviceIds \cup {G!Nobody} :
              /\ caller' = [caller EXCEPT ![r] = c]
              /\ c \in {G!Nobody, caller[r]} \/ ~device[c].banned
  BY <1>2, RequestCaller
<1>3. CASE GatewayStep
  <2>1. CASE (\E i \in NodeSubIds : G!Expire(i)) \/ G!ServersChange
    BY <2>1 DEF G!Expire, G!ServersChange, G!requests
  <2> QED BY <1>2, <1>3, <2>1 DEF GatewayStep
<1>4. CASE G!DropRequests
  BY <1>4 DEF G!DropRequests
<1> QED BY <1>1, <1>3, <1>4 DEF ServiceNext, serviceVars

LEMMA CallersAreKnown == ServiceSpec => []CallersKnown
<1>1. ServiceInit => CallersKnown
  BY DEF ServiceInit, G!Init, G!InitGateway, CallersKnown
<1>2. CallersKnown /\ [ServiceNext]_serviceVars => CallersKnown'
  <2> SUFFICES ASSUME CallersKnown, [ServiceNext]_serviceVars
               PROVE  caller' \in [Requests -> DeviceIds \cup {G!Nobody}]
    BY DEF CallersKnown
  <2>1. caller \in [Requests -> DeviceIds \cup {G!Nobody}]
    BY DEF CallersKnown
  <2> QED BY <2>1, CallerStep
<1> QED BY <1>1, <1>2, PTL DEF ServiceSpec

\* Once a ban is in the table, no job holds a copy from before it and the
\* device's requests have ended, no job, handler or crash lets it in again.
THEOREM BannedForGood == ServiceSpec => BarredForEver
<1>1. ASSUME IInv, CallersKnown, [ServiceNext]_serviceVars, NEW d \in DeviceIds, Barred(d)
      PROVE  Barred(d)'
  <2>1. [Next]_vars /\ TypeOK
    BY <1>1 DEF ServiceNext, serviceVars, Next, IInv
  <2>2. BanDrained(d)'
    BY <1>1, <2>1, BanDrainedStep DEF Barred
  <2>3. device[d].banned /\ d # G!Nobody
    BY <1>1, IdsAreNumbers DEF Barred, BanDrained, G!Nobody
  <2>4. \A r \in Requests : caller'[r] # d
    BY <1>1, <2>3, CallerStep DEF Barred, CallersKnown
  <2> QED BY <2>2, <2>4 DEF Barred
<1>2. IInv /\ CallersKnown /\ [ServiceNext]_serviceVars =>
        [\A d \in DeviceIds : Barred(d) => Barred(d)']_serviceVars
  BY <1>1
<1> QED BY <1>2, ServiceIInv, CallersAreKnown, PTL DEF ServiceSpec, BarredForEver
=============================================================================
