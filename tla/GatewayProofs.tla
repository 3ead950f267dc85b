---------------------------- MODULE GatewayProofs ----------------------------
(***************************************************************************)
(* Proofs about Gateway, for any requests, devices, nodes and ids, and for *)
(* every environment that only claims what the chain backs.                *)
(***************************************************************************)
EXTENDS Gateway, FiniteSetTheorems, TLAPS

USE GatewayIds, NodeSubIdsAreNumbers, NodesAreNamed

-----------------------------------------------------------------------------
(* The invariant *)

\* What the table and a request under way know of a subscription is what was
\* bought.
Leases ==
  /\ \A p \in nodeSubs : leased[p[1]] = p[2]
  /\ \A r \in Requests : pc[r] \in {"find", "record"} => leased[lease[r]] = target[r]

\* Rows claim only what the chain backs, and so do the rows that requests hold;
\* behind the lookup those claim an enrolment.
HeldBacked ==
  /\ \A d \in DeviceIds : Backed(d, device[d])
  /\ \A r \in Requests : pc[r] \notin {"idle", "device"} => Backed(caller[r], held[r])
  /\ \A r \in Requests : pc[r] \in {"buy", "find", "record", "connect", "answer"} =>
       held[r].feeGranted /\ held[r].subscriptionId # NoSub

IInv == TypeOK /\ Leases /\ HeldBacked

LEMMA NoRowFacts == NoRow \in Row /\ NoRow.subscriptionId = NoSub /\ ~NoRow.feeGranted
BY DEF NoRow, Row

LEMMA InitIInv == Init => IInv
<1> SUFFICES ASSUME Init PROVE IInv
  OBVIOUS
<1> USE NoRowFacts DEF Init, InitGateway
<1>1. TypeOK
  BY DEF TypeOK, NoSub, Nobody, NoNode, Steps
<1>2. Leases
  BY DEF Leases
<1>3. HeldBacked
  BY DEF HeldBacked, Backed
<1> QED BY <1>1, <1>2, <1>3 DEF IInv

-----------------------------------------------------------------------------
(* The environment *)

LEMMA EnvironmentIInv == IInv /\ Environment => IInv'
<1> SUFFICES ASSUME IInv, Environment PROVE IInv'
  OBVIOUS
<1> USE DEF IInv, TypeOK, Leases, HeldBacked, rows, chain, leases, requests, SameEnvironment
<1>1. ASSUME NEW d \in DeviceIds, WriteRow(d) PROVE IInv'
  <2>1. PICK row \in Row : Backed(d, row) /\ device' = [device EXCEPT ![d] = row]
    BY <1>1 DEF WriteRow
  <2>2. /\ device' \in [DeviceIds -> Row]
        /\ \A e \in DeviceIds : device'[e] = device[e] \/ (e = d /\ device'[e] = row)
    BY <2>1
  <2>3. TypeOK' /\ Leases'
    BY <1>1, <2>2 DEF WriteRow
  <2>4. HeldBacked'
    BY <1>1, <2>1, <2>2 DEF WriteRow, Backed
  <2> QED BY <2>3, <2>4
<1>2. ASSUME NEW D \in SUBSET DeviceIds, Grant(D) PROVE IInv'
  BY <1>2 DEF Grant, Backed
<1>3. ASSUME NEW D \in SUBSET DeviceIds, NEW s \in SubIds, Allocate(s, D) PROVE IInv'
  <2>1. /\ allocations' \in [SubIds -> SUBSET DeviceIds]
        /\ \A t \in SubIds : allocations[t] \subseteq allocations'[t]
    BY <1>3 DEF Allocate
  <2>2. \A d \in DeviceIds, row \in Row : Backed(d, row) => Backed(d, row)'
    BY <1>3, <2>1 DEF Allocate, Backed, Row
  <2>3. TypeOK' /\ Leases'
    BY <1>3, <2>1 DEF Allocate
  <2>4. HeldBacked'
    <3> HIDE DEF IInv
    <3>1. \A d \in DeviceIds : device[d] \in Row /\ Backed(d, device[d])
      BY DEF IInv
    <3>2. \A r \in Requests : pc[r] \notin {"idle", "device"} =>
            caller[r] \in DeviceIds /\ held[r] \in Row /\ Backed(caller[r], held[r])
      BY DEF IInv
    <3> QED BY <1>3, <2>2, <3>1, <3>2 DEF Allocate, IInv
  <2> QED BY <2>3, <2>4
<1>4. ASSUME NEW s \in SubIds, SubscriptionChanges(s) PROVE IInv'
  BY <1>4 DEF SubscriptionChanges, Backed
<1>5. CASE ServersChange
  BY <1>5 DEF ServersChange, Backed
<1>6. ASSUME NEW i \in NodeSubIds, Expire(i) PROVE IInv'
  BY <1>6 DEF Expire, Backed
<1> QED BY <1>1, <1>2, <1>3, <1>4, <1>5, <1>6 DEF Environment

-----------------------------------------------------------------------------
(* A request *)

\* A request may end at any point.
LEMMA RespondIInv ==
  ASSUME IInv, NEW r \in Requests, NEW code \in {"ok", "error"}, Respond(r, code), SameEnvironment,
         leased' \in [NodeSubIds -> Nodes \cup {NoNode}], ended' \subseteq NodeSubIds,
         \A i \in NodeSubIds : leased[i] # NoNode => leased'[i] = leased[i],
         nodeSubs' \subseteq NodeSubIds \X Nodes, \A p \in nodeSubs' : leased'[p[1]] = p[2],
         UNCHANGED stable
  PROVE  IInv'
<1> USE DEF IInv
<1>1. TypeOK'
  <2>1. /\ registered' \subseteq DeviceIds /\ device' \in [DeviceIds -> Row]
        /\ allowances' \subseteq DeviceIds /\ allocations' \in [SubIds -> SUBSET DeviceIds]
        /\ running' \subseteq SubIds /\ listed' \subseteq Nodes /\ stable' \in BOOLEAN
    BY DEF TypeOK, SameEnvironment
  <2>2. /\ pc' \in [Requests -> Steps] /\ caller' \in [Requests -> DeviceIds \cup {Nobody}]
        /\ held' \in [Requests -> Row] /\ target' \in [Requests -> Nodes \cup {NoNode}]
        /\ lease' \in [Requests -> NodeSubIds \cup {NoSub}]
        /\ answer' \in [Requests -> {"none", "ok", "error"}]
    BY NoRowFacts DEF TypeOK, Respond, Steps
  <2>3. \A q \in Requests :
          /\ pc'[q] = IF q = r THEN "idle" ELSE pc[q]
          /\ caller'[q] = IF q = r THEN Nobody ELSE caller[q]
          /\ target'[q] = IF q = r THEN NoNode ELSE target[q]
          /\ lease'[q] = IF q = r THEN NoSub ELSE lease[q]
    BY DEF TypeOK, Respond
  <2>4. \A q \in Requests :
          /\ pc'[q] # "idle" <=> caller'[q] # Nobody
          /\ pc'[q] \in {"find", "record"} <=> lease'[q] # NoSub
          /\ pc'[q] \notin {"idle", "device", "server"} <=> target'[q] # NoNode
    BY <2>3 DEF TypeOK
  <2> HIDE DEF IInv
  <2> QED BY <2>1, <2>2, <2>4 DEF TypeOK
<1>2. Leases'
  <2>1. \A q \in Requests : pc'[q] \in {"find", "record"} =>
          /\ q # r /\ pc'[q] = pc[q] /\ lease'[q] = lease[q] /\ target'[q] = target[q]
          /\ lease[q] \in NodeSubIds /\ target[q] # NoNode /\ leased[lease[q]] = target[q]
    BY DEF TypeOK, Respond, Leases
  <2>2. \A q \in Requests : pc'[q] \in {"find", "record"} => leased'[lease'[q]] = target'[q]
    <3> SUFFICES ASSUME NEW q \in Requests, pc'[q] \in {"find", "record"}
                 PROVE  leased'[lease'[q]] = target'[q]
      OBVIOUS
    <3>1. leased'[lease[q]] = leased[lease[q]]
      BY <2>1
    <3> QED BY <2>1, <3>1
  <2> QED BY <2>2 DEF Leases
<1>3. HeldBacked'
  <2>1. \A q \in Requests : pc'[q] # "idle" => q # r /\ pc'[q] = pc[q] /\ caller'[q] = caller[q] /\ held'[q] = held[q]
    BY DEF TypeOK, Respond
  <2> QED BY <2>1 DEF HeldBacked, SameEnvironment, Backed
<1> QED BY <1>1, <1>2, <1>3

\* A request goes on, past the lookup only with a row that claims an enrolment.
LEMMA ProceedIInv ==
  ASSUME IInv, NEW r \in Requests, NEW step \in Steps, Proceed(r, step), SameEnvironment,
         UNCHANGED <<leases, stable>>,
         pc[r] \notin {"idle", "device", "server"}, step \notin {"idle", "device", "server"},
         pc[r] \in {"find", "record"} <=> step \in {"find", "record"},
         held[r].feeGranted /\ held[r].subscriptionId # NoSub
  PROVE  IInv'
<1> USE DEF IInv, leases
<1>1. TypeOK'
  BY DEF TypeOK, Proceed, SameEnvironment, NoSub, Nobody, NoNode
<1>2. Leases'
  BY DEF TypeOK, Leases, Proceed, SameEnvironment
<1>3. HeldBacked'
  BY DEF TypeOK, HeldBacked, Proceed, SameEnvironment, Backed
<1> QED BY <1>1, <1>2, <1>3

\* Errors that leave the chain and the table as they are.
LEMMA ErrorIInv ==
  ASSUME IInv, NEW r \in Requests, NEW code \in {"ok", "error"}, Respond(r, code), SameEnvironment,
         UNCHANGED <<leases, stable>>
  PROVE  IInv'
<1>1. /\ leased' = leased /\ ended' = ended /\ nodeSubs' = nodeSubs /\ stable' = stable
      /\ leased \in [NodeSubIds -> Nodes \cup {NoNode}] /\ ended \subseteq NodeSubIds
      /\ nodeSubs \subseteq NodeSubIds \X Nodes /\ \A p \in nodeSubs : leased[p[1]] = p[2]
  BY DEF leases, IInv, TypeOK, Leases
<1> QED BY <1>1, RespondIInv

LEMMA RequireAuthIInv == ASSUME IInv, NEW r \in Requests, NEW d \in DeviceIds, RequireAuth(r, d) PROVE IInv'
<1>1. CASE Respond(r, "error")
  BY <1>1, ErrorIInv DEF RequireAuth
<1>2. CASE /\ pc' = [pc EXCEPT ![r] = "device"] /\ caller' = [caller EXCEPT ![r] = d]
           /\ answer' = [answer EXCEPT ![r] = "none"]
           /\ UNCHANGED <<held, target, lease>>
  <2> USE <1>2 DEF RequireAuth, SameEnvironment, leases, IInv, TypeOK
  <2>1. TypeOK'
    <3>1. \A q \in Requests : /\ pc'[q] = IF q = r THEN "device" ELSE pc[q]
                              /\ caller'[q] = IF q = r THEN d ELSE caller[q]
      OBVIOUS
    <3>2. pc' \in [Requests -> Steps] /\ caller' \in [Requests -> DeviceIds \cup {Nobody}]
          /\ answer' \in [Requests -> {"none", "ok", "error"}]
      BY DEF Steps
    <3>3. d # Nobody
      BY DEF Nobody
    <3> QED BY <3>1, <3>2, <3>3
  <2>2. Leases'
    BY DEF Leases
  <2>3. HeldBacked'
    BY DEF HeldBacked, Backed
  <2> QED BY <2>1, <2>2, <2>3
<1> QED BY <1>1, <1>2 DEF RequireAuth

LEMMA CurrentDeviceIInv == ASSUME IInv, NEW r \in Requests, CurrentDevice(r) PROVE IInv'
<1>1. CASE Respond(r, "error")
  BY <1>1, ErrorIInv DEF CurrentDevice
<1>2. CASE /\ pc' = [pc EXCEPT ![r] = "server"] /\ held' = [held EXCEPT ![r] = device[caller[r]]]
           /\ UNCHANGED <<caller, target, lease, answer>>
  <2>1. caller[r] \in DeviceIds /\ device[caller[r]] \in Row
    BY DEF CurrentDevice, IInv, TypeOK
  <2> USE <1>2, <2>1 DEF CurrentDevice, SameEnvironment, leases, IInv, TypeOK
  <2>2. TypeOK'
    BY DEF Steps, NoSub, Nobody, NoNode
  <2>3. Leases'
    BY DEF Leases
  <2>4. HeldBacked'
    BY DEF HeldBacked, Backed
  <2> QED BY <2>2, <2>3, <2>4
<1> QED BY <1>1, <1>2 DEF CurrentDevice

LEMMA ChooseIInv ==
  ASSUME IInv, NEW r \in Requests, NEW n \in listed, pc[r] = "server", Choose(r, n), SameEnvironment,
         UNCHANGED <<leases, stable>>
  PROVE  IInv'
<1> USE DEF Choose, SameEnvironment, leases, IInv, TypeOK
<1>1. TypeOK'
  BY DEF Steps, NoSub, Nobody, NoNode
<1>2. Leases'
  BY DEF Leases
<1>3. HeldBacked'
  BY DEF HeldBacked, Backed
<1> QED BY <1>1, <1>2, <1>3

LEMMA ConnectIInv ==
  ASSUME IInv, NEW r \in Requests, ConnectToCity(r) \/ \E n \in Nodes : ConnectToServer(r, n)
  PROVE  IInv'
<1>1. CASE Respond(r, "error")
  BY <1>1, ErrorIInv DEF ConnectToCity, ConnectToServer
<1>2. ASSUME NEW n \in listed, Choose(r, n) PROVE IInv'
  BY <1>2, ChooseIInv DEF ConnectToCity, ConnectToServer
<1> QED BY <1>1, <1>2 DEF ConnectToCity, ConnectToServer

LEMMA LookupIInv == ASSUME IInv, NEW r \in Requests, CreateCredentialsLookup(r) PROVE IInv'
<1>1. CASE Respond(r, "error")
  BY <1>1, ErrorIInv DEF CreateCredentialsLookup
<1>2. ASSUME NEW step \in {"connect", "buy"}, Proceed(r, step),
             held[r].subscriptionId # NoSub /\ held[r].feeGranted
      PROVE  IInv'
  BY <1>2, ProceedIInv DEF CreateCredentialsLookup, Steps
<1> QED BY <1>1, <1>2 DEF CreateCredentialsLookup

\* A new id, for the request's node.
LEMMA BuyIInv == ASSUME IInv, NEW r \in Requests, CreateNodeSubscription(r) PROVE IInv'
<1> USE DEF IInv
<1>1. /\ pc[r] = "buy" /\ target[r] \in Nodes /\ SameEnvironment
      /\ UNCHANGED <<ended, nodeSubs, stable>>
  BY DEF CreateNodeSubscription, TypeOK
<1>2. CASE Respond(r, "error") /\ UNCHANGED leased
  BY <1>1, <1>2, ErrorIInv DEF leases
<1>3. ASSUME NEW i \in Unbought, leased' = [leased EXCEPT ![i] = target[r]]
      PROVE  /\ leased' \in [NodeSubIds -> Nodes \cup {NoNode}] /\ leased'[i] = target[r]
             /\ i \in NodeSubIds /\ i # NoSub
             /\ \A j \in NodeSubIds : leased[j] # NoNode => leased'[j] = leased[j]
             /\ \A p \in nodeSubs' : leased'[p[1]] = p[2]
  BY <1>1, <1>3 DEF TypeOK, Leases, Unbought
<1>4. ASSUME NEW i \in Unbought, leased' = [leased EXCEPT ![i] = target[r]], Respond(r, "error")
      PROVE  IInv'
  BY <1>1, <1>3, <1>4, RespondIInv DEF TypeOK
<1>5. ASSUME NEW i \in Unbought, leased' = [leased EXCEPT ![i] = target[r]],
             pc' = [pc EXCEPT ![r] = "find"], lease' = [lease EXCEPT ![r] = i],
             UNCHANGED <<caller, held, target, answer>>
      PROVE  IInv'
  <2>1. /\ i \in NodeSubIds /\ i # NoSub /\ leased'[i] = target[r] /\ target' = target
        /\ leased' \in [NodeSubIds -> Nodes \cup {NoNode}]
        /\ \A j \in NodeSubIds : leased[j] # NoNode => leased'[j] = leased[j]
        /\ \A p \in nodeSubs' : leased'[p[1]] = p[2]
    BY <1>3, <1>5
  <2>2. /\ pc' \in [Requests -> Steps] /\ lease' \in [Requests -> NodeSubIds \cup {NoSub}]
        /\ \A q \in Requests : /\ pc'[q] = IF q = r THEN "find" ELSE pc[q]
                               /\ lease'[q] = IF q = r THEN i ELSE lease[q]
    BY <1>5, <2>1 DEF TypeOK, Steps
  <2>3. TypeOK'
    <3>1. \A q \in Requests : /\ pc'[q] \in {"find", "record"} <=> lease'[q] # NoSub
                              /\ pc'[q] # "idle" <=> caller'[q] # Nobody
                              /\ pc'[q] \notin {"idle", "device", "server"} <=> target'[q] # NoNode
      BY <1>1, <1>5, <2>1, <2>2 DEF TypeOK
    <3> QED BY <1>1, <1>5, <2>1, <2>2, <3>1 DEF TypeOK, SameEnvironment
  <2>4. Leases'
    <3>1. \A q \in Requests : pc[q] \in {"find", "record"} =>
            leased[lease[q]] = target[q] /\ lease[q] \in NodeSubIds /\ target[q] # NoNode
      BY DEF TypeOK, Leases
    <3>2. \A q \in Requests : pc'[q] \in {"find", "record"} => leased'[lease'[q]] = target'[q]
      <4> HIDE DEF IInv
      <4>1. pc'[r] = "find" => leased'[lease'[r]] = target'[r]
        BY <1>1, <2>1, <2>2
      <4>2. ASSUME NEW q \in Requests \ {r}, pc'[q] \in {"find", "record"}
            PROVE  leased'[lease'[q]] = target'[q]
        <5>1. pc'[q] = pc[q] /\ lease'[q] = lease[q] /\ target'[q] = target[q]
          BY <4>2, <2>1, <2>2
        <5>2. leased[lease[q]] = target[q] /\ lease[q] \in NodeSubIds /\ leased[lease[q]] # NoNode
          BY <4>2, <5>1, <3>1
        <5> QED BY <5>1, <5>2, <2>1
      <4> QED BY <4>1, <4>2, <2>2
    <3> QED BY <2>1, <3>2 DEF Leases
  <2>5. HeldBacked'
    BY <1>1, <1>5 DEF TypeOK, HeldBacked, SameEnvironment, Backed
  <2> QED BY <2>3, <2>4, <2>5
<1> QED BY <1>2, <1>4, <1>5 DEF CreateNodeSubscription

LEMMA FindIInv == ASSUME IInv, NEW r \in Requests, FindSubscriptionByID(r) PROVE IInv'
<1>1. CASE Respond(r, "error")
  BY <1>1, ErrorIInv DEF FindSubscriptionByID
<1>2. CASE Proceed(r, "record")
  BY <1>2, ProceedIInv DEF FindSubscriptionByID, IInv, HeldBacked, Steps
<1> QED BY <1>1, <1>2 DEF FindSubscriptionByID

\* The row is of the subscription bought.
LEMMA RecordIInv == ASSUME IInv, NEW r \in Requests, RecordNodeSubscription(r) PROVE IInv'
<1> USE DEF IInv
<1> DEFINE row == <<lease[r], leased[lease[r]]>>
<1>1. /\ pc[r] = "record" /\ lease[r] \in NodeSubIds /\ leased[lease[r]] = target[r]
      /\ target[r] \in Nodes /\ row \in NodeSubIds \X Nodes /\ SameEnvironment
      /\ UNCHANGED <<leased, ended, stable>>
  BY DEF RecordNodeSubscription, TypeOK, Leases
<1>2. ASSUME nodeSubs' \in {nodeSubs, nodeSubs \cup {row}}
      PROVE  nodeSubs' \subseteq NodeSubIds \X Nodes /\ \A p \in nodeSubs' : leased'[p[1]] = p[2]
  BY <1>1, <1>2 DEF TypeOK, Leases
<1>3. ASSUME nodeSubs' \in {nodeSubs, nodeSubs \cup {row}}, Respond(r, "error") PROVE IInv'
  BY <1>1, <1>2, <1>3, RespondIInv DEF TypeOK
<1>4. ASSUME nodeSubs' = nodeSubs \cup {row}, pc' = [pc EXCEPT ![r] = "connect"],
             lease' = [lease EXCEPT ![r] = NoSub], UNCHANGED <<caller, held, target, answer>>
      PROVE  IInv'
  <2>1. TypeOK'
    BY <1>1, <1>2, <1>4 DEF TypeOK, SameEnvironment, Steps, NoSub
  <2>2. Leases'
    BY <1>1, <1>2, <1>4 DEF TypeOK, Leases
  <2>3. HeldBacked'
    BY <1>1, <1>4 DEF TypeOK, HeldBacked, SameEnvironment, Backed
  <2> QED BY <2>1, <2>2, <2>3
<1> QED BY <1>3, <1>4 DEF RecordNodeSubscription

LEMMA ConnectedIInv ==
  ASSUME IInv, NEW r \in Requests, CreateCredentials(r) \/ RespondCredentials(r) PROVE IInv'
<1>1. ASSUME NEW code \in {"ok", "error"}, Respond(r, code) PROVE IInv'
  BY <1>1, ErrorIInv DEF CreateCredentials, RespondCredentials
<1>2. CASE Proceed(r, "answer") /\ CreateCredentials(r)
  BY <1>2, ProceedIInv DEF CreateCredentials, IInv, HeldBacked, Steps
<1> QED BY <1>1, <1>2 DEF CreateCredentials, RespondCredentials

-----------------------------------------------------------------------------
(* The process *)

LEMMA CrashIInv == IInv /\ Crash => IInv'
<1> SUFFICES ASSUME IInv, Crash PROVE IInv'
  OBVIOUS
<1> USE NoRowFacts DEF Crash, DropRequests, SameEnvironment, leases, IInv, TypeOK
<1>1. TypeOK'
  BY DEF Steps, NoSub, Nobody, NoNode
<1>2. Leases'
  BY DEF Leases
<1>3. HeldBacked'
  BY DEF HeldBacked, Backed
<1> QED BY <1>1, <1>2, <1>3

LEMMA StabilizeIInv == IInv /\ Stabilize => IInv'
BY DEF Stabilize, SameEnvironment, leases, requests, IInv, TypeOK, Leases, HeldBacked, Backed

LEMMA NextIInv == IInv /\ [Next]_vars => IInv'
<1> SUFFICES ASSUME IInv, [Next]_vars PROVE IInv'
  OBVIOUS
<1>1. CASE UNCHANGED vars
  BY <1>1 DEF vars, IInv, TypeOK, Leases, HeldBacked, Backed
<1>2. ASSUME NEW r \in Requests, RequestStep(r) PROVE IInv'
  BY <1>2, CurrentDeviceIInv, ConnectIInv, LookupIInv, BuyIInv, FindIInv, RecordIInv, ConnectedIInv
     DEF RequestStep
<1> QED BY <1>1, <1>2, EnvironmentIInv, RequireAuthIInv, CrashIInv, StabilizeIInv DEF Next

LEMMA SpecIInv == Spec => []IInv
BY InitIInv, NextIInv, PTL DEF Spec

-----------------------------------------------------------------------------
(* The theorems *)

\* The tables, the chain and the requests hold what they are meant to.
THEOREM GatewayTypeOK == Spec => []TypeOK
<1>1. IInv => TypeOK
  BY DEF IInv
<1> QED BY <1>1, SpecIInv, PTL

LEMMA IInvBacks == IInv => CredentialsBacked
BY DEF IInv, TypeOK, HeldBacked, CredentialsBacked, Backed, Row

\* Sessions are asked for only with what the chain backs, however old the row.
THEOREM GatewayCredentialsBacked == Spec => []CredentialsBacked
BY IInvBacks, SpecIInv, PTL

-----------------------------------------------------------------------------
(* Subscriptions to one node *)

LEMMA LeasesAreFinite ==
  ASSUME IInv, NEW n \in Nodes
  PROVE  IsFiniteSet(LiveLeases(n)) /\ IsFiniteSet(Buying(n)) /\ Buying(n) \subseteq Requests
<1>1. IsFiniteSet(NodeSubIds \X {n})
  BY FS_Product, FS_Singleton
<1>2. LiveLeases(n) \subseteq NodeSubIds \X {n}
  BY DEF LiveLeases, IInv, TypeOK
<1>3. Buying(n) \subseteq Requests
  BY DEF Buying
<1> QED BY <1>1, <1>2, <1>3, FS_Subset, RequestsAreFinite

\* A step leaves both sets within what they were; or buys, where nothing is
\* live; or moves the one request from buying to a row.
Shrinks(n) == LiveLeases(n)' \subseteq LiveLeases(n) /\ Buying(n)' \subseteq Buying(n)
Starts(n)  == LiveLeases(n)' = {}
Records(n) == \E r \in Buying(n), row \in NodeSubIds \X Nodes :
  LiveLeases(n)' \subseteq LiveLeases(n) \cup {row} /\ Buying(n)' \subseteq Buying(n) \ {r}

LEMMA BoundKept ==
  ASSUME IInv, IInv', NEW n \in Nodes, Shrinks(n) \/ Starts(n) \/ Records(n),
         Cardinality(LiveLeases(n)) + Cardinality(Buying(n)) <= Cardinality(Requests)
  PROVE  (Cardinality(LiveLeases(n)) + Cardinality(Buying(n)) <= Cardinality(Requests))'
<1> DEFINE L == LiveLeases(n)  B == Buying(n)  K == LiveLeases(n)'  C == Buying(n)'
<1>1. IsFiniteSet(L) /\ IsFiniteSet(B) /\ IsFiniteSet(K) /\ IsFiniteSet(C) /\ C \subseteq Requests
  <2>1. K \subseteq NodeSubIds \X {n} /\ C \subseteq Requests
    BY DEF LiveLeases, Buying, IInv, TypeOK
  <2>2. IsFiniteSet(NodeSubIds \X {n})
    BY FS_Product, FS_Singleton
  <2> HIDE DEF L, B, K, C
  <2>3. IsFiniteSet(K) /\ IsFiniteSet(C)
    BY <2>1, <2>2, FS_Subset, RequestsAreFinite
  <2>4. IsFiniteSet(L) /\ IsFiniteSet(B)
    BY LeasesAreFinite DEF L, B
  <2> QED BY <2>1, <2>3, <2>4
<1>2. /\ Cardinality(L) \in Nat /\ Cardinality(B) \in Nat /\ Cardinality(K) \in Nat
      /\ Cardinality(C) \in Nat /\ Cardinality(Requests) \in Nat
  BY <1>1, FS_CardinalityType, RequestsAreFinite
<1>3. Cardinality(L) + Cardinality(B) <= Cardinality(Requests)
  OBVIOUS
<1> SUFFICES Cardinality(K) + Cardinality(C) <= Cardinality(Requests)
  OBVIOUS
<1>4. CASE Shrinks(n)
  <2>1. K \subseteq L /\ C \subseteq B
    BY <1>4 DEF Shrinks
  <2> HIDE DEF L, B, K, C
  <2>2. Cardinality(K) <= Cardinality(L) /\ Cardinality(C) <= Cardinality(B)
    BY <1>1, <2>1, FS_Subset
  <2> QED BY <1>2, <1>3, <2>2
<1>5. CASE Starts(n)
  <2>1. K = {}
    BY <1>5 DEF Starts
  <2> HIDE DEF L, B, K, C
  <2>2. Cardinality(K) = 0
    BY <2>1, FS_EmptySet
  <2>3. Cardinality(C) <= Cardinality(Requests)
    BY <1>1, FS_Subset, RequestsAreFinite
  <2> QED BY <1>2, <2>2, <2>3
<1>6. CASE Records(n)
  <2>1. PICK r \in B, row \in NodeSubIds \X Nodes : K \subseteq L \cup {row} /\ C \subseteq B \ {r}
    BY <1>6 DEF Records
  <2> HIDE DEF L, B, K, C
  <2>2. IsFiniteSet(L \cup {row}) /\ Cardinality(L \cup {row}) <= Cardinality(L) + 1
    <3>1. /\ IsFiniteSet(L \cup {row})
          /\ Cardinality(L \cup {row}) = IF row \in L THEN Cardinality(L) ELSE Cardinality(L) + 1
      BY <1>1, FS_AddElement
    <3> QED BY <1>2, <3>1
  <2>3. IsFiniteSet(B \ {r}) /\ Cardinality(B \ {r}) = Cardinality(B) - 1
    BY <1>1, <2>1, FS_RemoveElement
  <2>4. Cardinality(K) <= Cardinality(L) + 1
    <3>1. Cardinality(K) <= Cardinality(L \cup {row})
      BY <2>1, <2>2, FS_Subset
    <3>2. Cardinality(L \cup {row}) \in Nat
      BY <2>2, FS_CardinalityType
    <3> QED BY <1>2, <2>2, <3>1, <3>2
  <2>5. Cardinality(C) <= Cardinality(B) - 1
    BY <2>1, <2>3, FS_Subset
  <2> QED BY <1>2, <1>3, <2>4, <2>5
<1> QED BY <1>4, <1>5, <1>6

LEMMA StepShrinks ==
  ASSUME IInv, [Next]_vars, NEW n \in Nodes PROVE Shrinks(n) \/ Starts(n) \/ Records(n)
<1> USE DEF Shrinks, LiveLeases, Buying
<1>1. ASSUME SameEnvironment \/ UNCHANGED requests, UNCHANGED requests, nodeSubs' = nodeSubs, ended \subseteq ended'
      PROVE  Shrinks(n)
  BY <1>1 DEF requests
<1>2. CASE UNCHANGED vars \/ Environment \/ Stabilize
  BY <1>1, <1>2 DEF vars, Environment, WriteRow, Grant, Allocate, SubscriptionChanges, ServersChange,
     Expire, Stabilize, leases, requests
<1>3. ASSUME NEW r \in Requests, NEW code \in {"ok", "error"}, Respond(r, code),
             nodeSubs' = nodeSubs, ended' = ended
      PROVE  Shrinks(n)
  BY <1>3 DEF Respond, IInv, TypeOK
<1>4. ASSUME NEW r \in Requests, NEW step \in Steps, pc' = [pc EXCEPT ![r] = step],
             step \in {"buy", "find", "record"} => pc[r] \in {"buy", "find", "record"},
             target' = target, nodeSubs' = nodeSubs, ended' = ended
      PROVE  Shrinks(n)
  BY <1>4 DEF IInv, TypeOK
<1>5. CASE Crash
  BY <1>5 DEF Crash, DropRequests, leases
<1>6. ASSUME NEW r \in Requests, NEW d \in DeviceIds, RequireAuth(r, d) PROVE Shrinks(n)
  BY <1>3, <1>4, <1>6 DEF RequireAuth, leases, Steps
<1>7. ASSUME NEW r \in Requests, CurrentDevice(r) PROVE Shrinks(n)
  BY <1>3, <1>4, <1>7 DEF CurrentDevice, leases, Steps
<1>8. ASSUME NEW r \in Requests, NEW m \in Nodes, Choose(r, m), nodeSubs' = nodeSubs, ended' = ended
      PROVE  Shrinks(n)
  BY <1>8 DEF Choose, IInv, TypeOK
<1>9. ASSUME NEW r \in Requests, ConnectToCity(r) \/ \E m \in Nodes : ConnectToServer(r, m) PROVE Shrinks(n)
  BY <1>3, <1>8, <1>9 DEF ConnectToCity, ConnectToServer, leases, IInv, TypeOK
<1>10. ASSUME NEW r \in Requests, CreateCredentialsLookup(r) PROVE Shrinks(n) \/ Starts(n)
  <2>1. nodeSubs' = nodeSubs /\ ended' = ended /\ target[r] \in Nodes
    BY <1>10 DEF CreateCredentialsLookup, leases, IInv, TypeOK
  <2>2. CASE Respond(r, "error")
    BY <1>3, <2>1, <2>2
  <2>3. CASE Proceed(r, "connect")
    BY <1>4, <2>1, <2>3 DEF Proceed, Steps
  <2>4. CASE LiveLeases(target[r]) = {} /\ Proceed(r, "buy") /\ target[r] = n
    BY <2>1, <2>4 DEF Starts
  <2>5. CASE Proceed(r, "buy") /\ target[r] # n
    BY <2>1, <2>5 DEF Proceed, IInv, TypeOK
  <2> QED BY <1>10, <2>2, <2>3, <2>4, <2>5 DEF CreateCredentialsLookup
<1>11. ASSUME NEW r \in Requests, CreateNodeSubscription(r) PROVE Shrinks(n)
  BY <1>3, <1>4, <1>11 DEF CreateNodeSubscription, Steps
<1>12. ASSUME NEW r \in Requests, FindSubscriptionByID(r) PROVE Shrinks(n)
  BY <1>3, <1>4, <1>12 DEF FindSubscriptionByID, Proceed, leases, Steps
<1>13. ASSUME NEW r \in Requests, RecordNodeSubscription(r) PROVE Shrinks(n) \/ Records(n)
  <2> DEFINE row == <<lease[r], leased[lease[r]]>>
  <2>1. /\ pc[r] = "record" /\ row \in NodeSubIds \X Nodes /\ row[2] = target[r]
        /\ ended' = ended /\ nodeSubs' \subseteq nodeSubs \cup {row}
    BY <1>13 DEF RecordNodeSubscription, IInv, TypeOK, Leases
  <2>2. Buying(n)' \subseteq Buying(n) \ {r}
    BY <1>13 DEF RecordNodeSubscription, Respond, IInv, TypeOK
  <2>3. LiveLeases(n)' \subseteq IF target[r] = n THEN LiveLeases(n) \cup {row} ELSE LiveLeases(n)
    BY <2>1
  <2>4. CASE target[r] = n
    <3>1. r \in Buying(n)
      BY <2>1, <2>4
    <3> QED BY <2>1, <2>2, <2>3, <2>4, <3>1 DEF Records
  <2>5. CASE target[r] # n
    BY <2>2, <2>3, <2>5
  <2> QED BY <2>4, <2>5
<1>14. ASSUME NEW r \in Requests, CreateCredentials(r) \/ RespondCredentials(r) PROVE Shrinks(n)
  BY <1>3, <1>4, <1>14 DEF CreateCredentials, RespondCredentials, Proceed, leases, Steps
<1> QED BY <1>2, <1>5, <1>6, <1>7, <1>9, <1>10, <1>11, <1>12, <1>13, <1>14 DEF Next, RequestStep

LEMMA InitOneLease == InitGateway => OneLeasePerRequest
<1> SUFFICES ASSUME InitGateway, NEW n \in Nodes
             PROVE  Cardinality(LiveLeases(n)) + Cardinality(Buying(n)) <= Cardinality(Requests)
  BY DEF OneLeasePerRequest
<1>1. LiveLeases(n) = {} /\ Buying(n) = {}
  BY DEF InitGateway, LiveLeases, Buying
<1>2. Cardinality(LiveLeases(n)) = 0 /\ Cardinality(Buying(n)) = 0
  BY <1>1, FS_EmptySet
<1> QED BY <1>2, FS_CardinalityType, RequestsAreFinite

LEMMA NextOneLease == OneLeasePerRequest /\ IInv /\ [Next]_vars => OneLeasePerRequest'
<1> SUFFICES ASSUME OneLeasePerRequest, IInv, [Next]_vars, NEW n \in Nodes
             PROVE  (Cardinality(LiveLeases(n)) + Cardinality(Buying(n)) <= Cardinality(Requests))'
  BY DEF OneLeasePerRequest
<1>1. IInv' /\ (Shrinks(n) \/ Starts(n) \/ Records(n))
  BY NextIInv, StepShrinks
<1> QED BY <1>1, BoundKept DEF OneLeasePerRequest

\* Never more subscriptions to a node are live, or on their way into the table,
\* than requests run at one time.
THEOREM GatewayOneLeasePerRequest == Spec => []OneLeasePerRequest
<1>1. Init => OneLeasePerRequest
  BY InitOneLease DEF Init
<1> QED BY <1>1, NextOneLease, SpecIInv, PTL DEF Spec

-----------------------------------------------------------------------------
(* What a session rests on *)

\* What one step may do to a request that asks for a session: keep its node, or
\* bring it there with a subscription in the table.
LEMMA ReachesConnect ==
  ASSUME IInv, [Next]_vars, NEW r \in Requests, pc'[r] \in {"connect", "answer"}
  PROVE  \/ pc[r] \in {"connect", "answer"} /\ target'[r] = target[r]
         \/ \E p \in nodeSubs' : p[2] = target'[r]
<1> USE DEF IInv, TypeOK
<1> DEFINE Goal == \/ pc[r] \in {"connect", "answer"} /\ target'[r] = target[r]
                   \/ \E p \in nodeSubs' : p[2] = target'[r]
<1>1. CASE UNCHANGED <<pc, target>>
  BY <1>1
<1>2. ASSUME NEW q \in Requests, NEW code \in {"ok", "error"}, Respond(q, code) PROVE Goal
  BY <1>2 DEF Respond
<1>3. ASSUME NEW q \in Requests, NEW step \in Steps \ {"connect", "answer"},
             pc' = [pc EXCEPT ![q] = step], UNCHANGED target
      PROVE  Goal
  BY <1>3
<1>4. ASSUME NEW q \in Requests, NEW d \in DeviceIds, RequireAuth(q, d) PROVE Goal
  BY <1>2, <1>3, <1>4 DEF RequireAuth, Steps
<1>5. ASSUME NEW q \in Requests, CurrentDevice(q) PROVE Goal
  BY <1>2, <1>3, <1>5 DEF CurrentDevice, Steps
<1>6. ASSUME NEW q \in Requests, ConnectToCity(q) \/ \E n \in Nodes : ConnectToServer(q, n) PROVE Goal
  <2>1. ASSUME NEW n, Choose(q, n) PROVE Goal
    BY <2>1 DEF Choose
  <2> QED BY <1>2, <1>6, <2>1 DEF ConnectToCity, ConnectToServer
<1>7. ASSUME NEW q \in Requests, CreateCredentialsLookup(q) PROVE Goal
  <2>1. CASE Proceed(q, "connect") /\ LiveLeases(target[q]) # {}
    BY <1>7, <2>1 DEF CreateCredentialsLookup, Proceed, LiveLeases, leases
  <2>2. CASE Proceed(q, "buy")
    BY <1>3, <2>2 DEF Proceed, Steps
  <2> QED BY <1>2, <1>7, <2>1, <2>2 DEF CreateCredentialsLookup
<1>8. ASSUME NEW q \in Requests, CreateNodeSubscription(q) \/ FindSubscriptionByID(q) PROVE Goal
  BY <1>2, <1>3, <1>8 DEF CreateNodeSubscription, FindSubscriptionByID, Proceed, Steps
<1>9. ASSUME NEW q \in Requests, RecordNodeSubscription(q) PROVE Goal
  <2>1. CASE /\ nodeSubs' = nodeSubs \cup {<<lease[q], leased[lease[q]]>>}
             /\ pc' = [pc EXCEPT ![q] = "connect"] /\ target' = target
    <3>1. leased[lease[q]] = target[q]
      BY <1>9 DEF RecordNodeSubscription, Leases
    <3>2. CASE q = r
      <4>1. <<lease[q], target[r]>> \in nodeSubs' /\ target'[r] = target[r]
        BY <2>1, <3>1, <3>2
      <4> QED BY <4>1
    <3>3. CASE q # r
      BY <2>1, <3>3
    <3> QED BY <3>2, <3>3
  <2> QED BY <1>2, <1>9, <2>1 DEF RecordNodeSubscription
<1>10. ASSUME NEW q \in Requests, CreateCredentials(q) PROVE Goal
  BY <1>2, <1>10 DEF CreateCredentials, Proceed
<1>11. ASSUME NEW q \in Requests, RespondCredentials(q) PROVE Goal
  BY <1>2, <1>11 DEF RespondCredentials
<1>12. CASE Crash
  BY <1>12 DEF Crash, DropRequests
<1>13. CASE UNCHANGED vars \/ Environment \/ Stabilize
  BY <1>1, <1>13 DEF vars, Environment, WriteRow, Grant, Allocate, SubscriptionChanges, ServersChange,
     Expire, Stabilize, requests
<1> QED BY <1>4, <1>5, <1>6, <1>7, <1>8, <1>9, <1>10, <1>11, <1>12, <1>13 DEF Next, RequestStep

\* No step takes a recorded subscription away.
LEMMA RecordsStay == ASSUME [Next]_vars PROVE nodeSubs \subseteq nodeSubs'
BY DEF Next, vars, Environment, WriteRow, Grant, Allocate, SubscriptionChanges, ServersChange, Expire,
   RequestStep, RequireAuth, CurrentDevice, ConnectToCity, ConnectToServer, CreateCredentialsLookup,
   CreateNodeSubscription, FindSubscriptionByID, RecordNodeSubscription, CreateCredentials,
   RespondCredentials, Crash, Stabilize, leases

LEMMA NextSessionsOnLeases == SessionsOnLeases /\ IInv /\ [Next]_vars => SessionsOnLeases'
<1> SUFFICES ASSUME SessionsOnLeases, IInv, [Next]_vars,
                    NEW r \in Requests, pc'[r] \in {"connect", "answer"}
             PROVE  \E p \in nodeSubs' : p[2] = target'[r] /\ leased'[p[1]] = target'[r]
  BY DEF SessionsOnLeases
<1>1. \E p \in nodeSubs' : p[2] = target'[r]
  BY ReachesConnect, RecordsStay DEF SessionsOnLeases
<1>2. IInv'
  BY NextIInv
<1> QED BY <1>1, <1>2 DEF IInv, Leases

\* Every session is asked for of a node with a subscription that was bought for
\* it and recorded.
THEOREM GatewaySessionsOnLeases == Spec => []SessionsOnLeases
<1>1. Init => SessionsOnLeases
  BY DEF Init, InitGateway, SessionsOnLeases
<1> QED BY <1>1, NextSessionsOnLeases, SpecIInv, PTL DEF Spec

-----------------------------------------------------------------------------
(* The table as a mirror of the chain *)

\* What is bought stays so, and no step changes both the chain's subscriptions
\* and the table.
LEMMA LeasesStand ==
  ASSUME IInv, [Next]_vars PROVE \A i \in NodeSubIds : leased[i] # NoNode => leased'[i] = leased[i]
<1>1. ASSUME NEW r \in Requests, CreateNodeSubscription(r)
      PROVE  \A i \in NodeSubIds : leased[i] # NoNode => leased'[i] = leased[i]
  BY <1>1 DEF CreateNodeSubscription, Unbought, IInv, TypeOK
<1>2. CASE leased' = leased
  BY <1>2
<1>3. leased' = leased \/ \E r \in Requests : CreateNodeSubscription(r)
  BY DEF Next, vars, Environment, WriteRow, Grant, Allocate, SubscriptionChanges, ServersChange, Expire,
     RequestStep, RequireAuth, CurrentDevice, ConnectToCity, ConnectToServer, CreateCredentialsLookup,
     FindSubscriptionByID, RecordNodeSubscription, CreateCredentials, RespondCredentials, Crash, Stabilize, leases
<1> QED BY <1>1, <1>2, <1>3

LEMMA OneStore == ASSUME [Next]_vars PROVE leased' = leased \/ nodeSubs' = nodeSubs
BY DEF Next, vars, Environment, WriteRow, Grant, Allocate, SubscriptionChanges, ServersChange, Expire,
   RequestStep, RequireAuth, CurrentDevice, ConnectToCity, ConnectToServer, CreateCredentialsLookup,
   CreateNodeSubscription, FindSubscriptionByID, RecordNodeSubscription, CreateCredentials,
   RespondCredentials, Crash, Stabilize, leases

\* Every step changes the table of node subscriptions as a mirror of what was
\* bought may be changed.
THEOREM GatewayLeaseMirror == Spec => LeaseMirrorSpec
<1> DEFINE bought == {p \in NodeSubIds \X Nodes : leased[p[1]] = p[2]}
<1>1. Init => LeaseMirror!Init
  BY DEF Init, InitGateway, LeaseMirror!Init
<1>2. IInv /\ IInv' /\ [Next]_vars => [LeaseMirror!Next]_(LeaseMirror!mirrorVars)
  <2> SUFFICES ASSUME IInv, IInv', [Next]_vars
               PROVE  [LeaseMirror!Next]_(LeaseMirror!mirrorVars)
    OBVIOUS
  <2>1. \A i \in NodeSubIds : leased[i] # NoNode => leased'[i] = leased[i]
    BY LeasesStand
  <2>2. bought \subseteq bought'
    BY <2>1
  <2>3. nodeSubs \subseteq bought
    BY DEF IInv, TypeOK, Leases
  <2>4. nodeSubs' \subseteq bought'
    BY DEF IInv, TypeOK, Leases
  <2>5. leased' = leased \/ nodeSubs' = nodeSubs
    BY OneStore
  <2>6. CASE nodeSubs' = nodeSubs
    BY <2>2, <2>3, <2>4, <2>6 DEF LeaseMirror!Next, LeaseMirror!Transact
  <2>7. CASE leased' = leased
    BY <2>2, <2>3, <2>4, <2>7 DEF LeaseMirror!Next, LeaseMirror!Record
  <2> QED BY <2>5, <2>6, <2>7
<1> QED BY <1>1, <1>2, SpecIInv, PTL DEF Spec, LeaseMirrorSpec, LeaseMirror!Spec

-----------------------------------------------------------------------------
(* Waste *)

\* A step makes no orphan if what it buys a request holds, and what a request
\* lets go of is in the table.
LEMMA NoOrphan ==
  ASSUME IInv, nodeSubs \subseteq nodeSubs',
         \A i \in NodeSubIds : leased'[i] # NoNode => leased[i] # NoNode \/ \E q \in Requests : lease'[q] = i,
         \A q \in Requests : lease[q] # NoSub =>
           lease'[q] = lease[q] \/ \E p \in nodeSubs' : p[1] = lease[q]
  PROVE  Orphans' \subseteq Orphans
<1> SUFFICES ASSUME NEW i \in NodeSubIds, leased'[i] # NoNode, i \notin {p[1] : p \in nodeSubs'},
                    i \notin {lease'[q] : q \in Requests}
             PROVE  i \in Orphans
  BY DEF Orphans
<1>1. leased[i] # NoNode /\ i \notin {p[1] : p \in nodeSubs}
  OBVIOUS
<1>2. i # NoSub
  OBVIOUS
<1>3. \A q \in Requests : lease[q] # i
  BY <1>2
<1> QED BY <1>1, <1>3 DEF Orphans

LEMMA NoNewOrphan == ASSUME IInv, [Next]_vars, stable PROVE Orphans' \subseteq Orphans
<1>1. ASSUME leased' = leased, nodeSubs' = nodeSubs, lease' = lease PROVE Orphans' \subseteq Orphans
  BY <1>1 DEF Orphans
<1>2. CASE UNCHANGED vars \/ Environment \/ Stabilize
  BY <1>1, <1>2 DEF vars, Environment, WriteRow, Grant, Allocate, SubscriptionChanges, ServersChange,
     Expire, Stabilize, leases, requests
<1>3. ASSUME NEW r \in Requests, NEW code \in {"ok", "error"}, Respond(r, code),
             leased' = leased, nodeSubs' = nodeSubs, pc[r] \notin {"find", "record"}
      PROVE  Orphans' \subseteq Orphans
  <2>1. lease' = lease
    BY <1>3 DEF Respond, IInv, TypeOK
  <2> QED BY <1>1, <1>3, <2>1
<1>4. ASSUME NEW r \in Requests, NEW d \in DeviceIds, RequireAuth(r, d) PROVE Orphans' \subseteq Orphans
  BY <1>1, <1>3, <1>4 DEF RequireAuth, leases
<1>5. ASSUME NEW r \in Requests, CurrentDevice(r) PROVE Orphans' \subseteq Orphans
  BY <1>1, <1>3, <1>5 DEF CurrentDevice, leases
<1>6. ASSUME NEW r \in Requests, ConnectToCity(r) \/ \E m \in Nodes : ConnectToServer(r, m)
      PROVE  Orphans' \subseteq Orphans
  BY <1>1, <1>3, <1>6 DEF ConnectToCity, ConnectToServer, Choose, leases
<1>7. ASSUME NEW r \in Requests, CreateCredentialsLookup(r) PROVE Orphans' \subseteq Orphans
  BY <1>1, <1>3, <1>7 DEF CreateCredentialsLookup, Proceed, leases
<1>8. ASSUME NEW r \in Requests, CreateNodeSubscription(r) PROVE Orphans' \subseteq Orphans
  <2>1. CASE Respond(r, "error") /\ UNCHANGED leased
    BY <1>3, <1>8, <2>1 DEF CreateNodeSubscription
  <2>2. ASSUME NEW i \in Unbought, leased' = [leased EXCEPT ![i] = target[r]],
               lease' = [lease EXCEPT ![r] = i], pc[r] = "buy", nodeSubs' = nodeSubs
        PROVE  Orphans' \subseteq Orphans
    <3>1. lease[r] = NoSub /\ lease'[r] = i /\ \A q \in Requests : q # r => lease'[q] = lease[q]
      BY <2>2 DEF IInv, TypeOK
    <3>2. \A j \in NodeSubIds : leased'[j] # NoNode => leased[j] # NoNode \/ j = i
      BY <2>2 DEF IInv, TypeOK
    <3> QED BY <2>2, <3>1, <3>2, NoOrphan
  <2> QED BY <1>8, <2>1, <2>2 DEF CreateNodeSubscription
<1>9. ASSUME NEW r \in Requests, FindSubscriptionByID(r) PROVE Orphans' \subseteq Orphans
  BY <1>1, <1>9 DEF FindSubscriptionByID, Proceed, leases
<1>10. ASSUME NEW r \in Requests, RecordNodeSubscription(r) PROVE Orphans' \subseteq Orphans
  <2> DEFINE row == <<lease[r], leased[lease[r]]>>
  <2>1. /\ nodeSubs' = nodeSubs \cup {row} /\ lease' = [lease EXCEPT ![r] = NoSub] /\ leased' = leased
    BY <1>10 DEF RecordNodeSubscription
  <2>2. \A q \in Requests : q # r => lease'[q] = lease[q]
    BY <2>1 DEF IInv, TypeOK
  <2>3. row \in nodeSubs' /\ row[1] = lease[r]
    BY <2>1
  <2>4. \A q \in Requests : lease[q] # NoSub =>
          lease'[q] = lease[q] \/ \E p \in nodeSubs' : p[1] = lease[q]
    BY <2>2, <2>3
  <2> QED BY <2>1, <2>4, NoOrphan
<1>11. ASSUME NEW r \in Requests, CreateCredentials(r) \/ RespondCredentials(r) PROVE Orphans' \subseteq Orphans
  BY <1>1, <1>3, <1>11 DEF CreateCredentials, RespondCredentials, Proceed, leases
<1> QED BY <1>2, <1>4, <1>5, <1>6, <1>7, <1>8, <1>9, <1>10, <1>11 DEF Next, RequestStep, Crash

LEMMA AnswerReaches ==
  ASSUME IInv, [Next]_vars, stable, NEW r \in Requests, pc[r] = "answer", pc'[r] # "answer"
  PROVE  answer'[r] = "ok" \/ target[r] \in NoProtocols
<1>1. RespondCredentials(r) => answer'[r] = "ok" \/ target[r] \in NoProtocols
  BY DEF RespondCredentials, Respond, IInv, TypeOK
<1>2. ~UNCHANGED pc
  OBVIOUS
<1>3. ~(UNCHANGED vars \/ Environment \/ Stabilize \/ Crash)
  BY <1>2 DEF vars, Environment, WriteRow, Grant, Allocate, SubscriptionChanges, ServersChange,
     Expire, Stabilize, Crash, requests
<1>4. ASSUME NEW q \in Requests, q # r,
             (\E code \in {"ok", "error"} : Respond(q, code)) \/ (\E step : pc' = [pc EXCEPT ![q] = step])
      PROVE  FALSE
  BY <1>4 DEF Respond, IInv, TypeOK
<1>5. ASSUME NEW q \in Requests, NEW d \in DeviceIds, RequireAuth(q, d) PROVE FALSE
  BY <1>4, <1>5 DEF RequireAuth
<1>6. ASSUME NEW q \in Requests, RequestStep(q) PROVE RespondCredentials(r)
  <2>1. CASE q = r
    BY <1>6, <2>1 DEF RequestStep, CurrentDevice, ConnectToCity, ConnectToServer, CreateCredentialsLookup,
       CreateNodeSubscription, FindSubscriptionByID, RecordNodeSubscription, CreateCredentials
  <2>2. CASE q # r
    BY <1>4, <1>6, <2>2 DEF RequestStep, CurrentDevice, ConnectToCity, ConnectToServer, Choose, Proceed,
       CreateCredentialsLookup, CreateNodeSubscription, FindSubscriptionByID, RecordNodeSubscription,
       CreateCredentials, RespondCredentials
  <2> QED BY <2>1, <2>2
<1> QED BY <1>1, <1>3, <1>5, <1>6 DEF Next

\* What a step may do without a fault.
Frugal ==
  stable =>
    /\ Orphans' \subseteq Orphans
    /\ \A r \in Requests : pc[r] = "answer" /\ pc'[r] # "answer" =>
         answer'[r] = "ok" \/ target[r] \in NoProtocols

LEMMA NextFrugal == IInv /\ [Next]_vars => [Frugal]_vars
BY NoNewOrphan, AnswerReaches DEF Frugal

\* Without a fault nothing that was paid for goes unrecorded, and every session
\* made reaches its device, unless the node has no protocol to name.
THEOREM GatewayWasteOnlyFromFaults == Spec => WasteOnlyFromFaults
BY NextFrugal, SpecIInv, PTL DEF Spec, WasteOnlyFromFaults, Frugal
=============================================================================
