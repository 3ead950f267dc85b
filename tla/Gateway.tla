------------------------------- MODULE Gateway -------------------------------
(***************************************************************************)
(* How a device gets credentials for a node.  A request is admitted by its *)
(* token (middleware/auth.go), reads the device's row once more, picks a   *)
(* server, makes sure that the service has a subscription to the server's  *)
(* node (looking it up, or buying and recording one) and creates a session *)
(* with the device's own wallet and plan subscription (controllers/vpn.go).*)
(* Requests run beside each other and beside the jobs without locks, each  *)
(* going on with the rows it read.  What the jobs, the operator and the    *)
(* chain do meanwhile is the environment, as little assumed of it as the   *)
(* properties need; the modules Service and Listing put the jobs there.    *)
(***************************************************************************)
EXTENDS Integers, FiniteSets

CONSTANTS
  Requests,     \* bound: requests under way at one time
  DeviceIds,    \* primary keys of the table devices
  SubIds,       \* ids of plan subscriptions
  Nodes,        \* dVPN nodes, one server row for each
  NodeSubIds,   \* bound: ids the chain may give to node subscriptions
  NoProtocols   \* nodes whose status has a type other than 1 and 2

NoSub == 0       \* no subscription
Nobody == -1     \* no device
NoNode == "no node"

ASSUME GatewayIds == DeviceIds \subseteq Nat /\ SubIds \subseteq Nat \ {NoSub}
ASSUME NodeSubIdsAreNumbers == NodeSubIds \subseteq Nat \ {NoSub} /\ IsFiniteSet(NodeSubIds)
ASSUME RequestsAreFinite == IsFiniteSet(Requests)
ASSUME NodesAreNamed == NoNode \notin Nodes /\ NoProtocols \subseteq Nodes

VARIABLES
  registered, device,        \* table devices
  allowances, allocations,   \* chain: the devices' wallets
  running,    \* chain: plan subscriptions that still admit sessions for sure
  listed,     \* servers whose row is active, on the plan and not banned
  leased,     \* chain: the node that each node subscription is for
  ended,      \* node subscriptions past their inactive_at
  nodeSubs,   \* table sentinel_node_subscriptions: id and node of each row
  pc, caller, held, target, lease,   \* the requests; see TypeOK
  answer,     \* of the last request in the slot: "none" while it runs
  stable      \* from some moment on nothing fails

rows  == <<registered, device>>
chain == <<allowances, allocations, running>>
leases == <<leased, ended, nodeSubs>>
requests == <<pc, caller, held, target, lease, answer>>
vars == <<registered, device, allowances, allocations, running, listed, leased, ended,
          nodeSubs, pc, caller, held, target, lease, answer, stable>>

Row == [feeGranted: BOOLEAN, subscriptionId: SubIds \cup {NoSub}, banned: BOOLEAN]
NoRow == [feeGranted |-> FALSE, subscriptionId |-> NoSub, banned |-> FALSE]

Steps == {"idle", "device", "server", "lookup", "buy", "find", "record", "connect", "answer"}

TypeOK ==
  /\ registered \subseteq DeviceIds /\ device \in [DeviceIds -> Row]
  /\ allowances \subseteq DeviceIds
  /\ allocations \in [SubIds -> SUBSET DeviceIds] /\ running \subseteq SubIds
  /\ listed \subseteq Nodes
  /\ leased \in [NodeSubIds -> Nodes \cup {NoNode}]
  /\ ended \subseteq NodeSubIds /\ nodeSubs \subseteq NodeSubIds \X Nodes
  /\ pc \in [Requests -> Steps]
  /\ caller \in [Requests -> DeviceIds \cup {Nobody}]
  /\ held \in [Requests -> Row]
  /\ target \in [Requests -> Nodes \cup {NoNode}]
  /\ lease \in [Requests -> NodeSubIds \cup {NoSub}]
  /\ answer \in [Requests -> {"none", "ok", "error"}]
  /\ stable \in BOOLEAN
  /\ \A r \in Requests :
       /\ pc[r] # "idle" <=> caller[r] # Nobody
       /\ pc[r] \in {"find", "record"} <=> lease[r] # NoSub
       /\ pc[r] \notin {"idle", "device", "server"} <=> target[r] # NoNode

\* What a row claims is so on the chain.
Backed(d, row) ==
  /\ row.feeGranted => d \in allowances
  /\ row.subscriptionId # NoSub => d \in allocations[row.subscriptionId]

\* No request and no subscription to a node yet.
InitGateway ==
  /\ leased = [i \in NodeSubIds |-> NoNode] /\ ended = {} /\ nodeSubs = {}
  /\ pc = [r \in Requests |-> "idle"] /\ caller = [r \in Requests |-> Nobody]
  /\ held = [r \in Requests |-> NoRow] /\ target = [r \in Requests |-> NoNode]
  /\ lease = [r \in Requests |-> NoSub] /\ answer = [r \in Requests |-> "none"]

Init ==
  /\ registered = {} /\ device = [d \in DeviceIds |-> NoRow]
  /\ allowances = {} /\ allocations = [s \in SubIds |-> {}] /\ running = {}
  /\ listed \in SUBSET Nodes
  /\ InitGateway
  /\ stable = FALSE

-----------------------------------------------------------------------------
(* Helpers *)

\* Conjuncts rather than UNCHANGED: where the gateway is instantiated, parts of
\* its environment may be constant.
SameEnvironment ==
  /\ registered' = registered /\ device' = device
  /\ allowances' = allowances /\ allocations' = allocations /\ running' = running
  /\ listed' = listed

\* The end of a request, with its answer.
Respond(r, code) ==
  /\ pc' = [pc EXCEPT ![r] = "idle"] /\ caller' = [caller EXCEPT ![r] = Nobody]
  /\ held' = [held EXCEPT ![r] = NoRow] /\ target' = [target EXCEPT ![r] = NoNode]
  /\ lease' = [lease EXCEPT ![r] = NoSub] /\ answer' = [answer EXCEPT ![r] = code]

\* On to the next step, with nothing else learnt.
Proceed(r, step) ==
  pc' = [pc EXCEPT ![r] = step] /\ UNCHANGED <<caller, held, target, lease, answer>>

\* Recorded subscriptions to n with inactive_at ahead.
LiveLeases(n) == {p \in nodeSubs : p[2] = n /\ p[1] \notin ended}
Unbought == {i \in NodeSubIds : leased[i] = NoNode}

-----------------------------------------------------------------------------
(* Faulty variants of operations below, each a bug the code could have; they *)
(* are used only to see that the properties notice.                          *)

\* The ban not looked at.
RequireAuthAnyone(r, d) ==
  /\ pc[r] = "idle"
  /\ \/ /\ d \in registered
        /\ pc' = [pc EXCEPT ![r] = "device"] /\ caller' = [caller EXCEPT ![r] = d]
        /\ answer' = [answer EXCEPT ![r] = "none"]
        /\ UNCHANGED <<held, target, lease>>
     \/ (d \notin registered \/ ~stable) /\ Respond(r, "error")
  /\ SameEnvironment /\ UNCHANGED <<leases, stable>>

\* The check of enrolment with "and" for "or".
CreateCredentialsLookupLoosely(r) ==
  /\ pc[r] = "lookup"
  /\ LET enrolled == held[r].subscriptionId # NoSub \/ held[r].feeGranted IN
       \/ enrolled /\ LiveLeases(target[r]) # {} /\ Proceed(r, "connect")
       \/ enrolled /\ LiveLeases(target[r]) = {} /\ Proceed(r, "buy")
       \/ (~enrolled \/ ~stable) /\ Respond(r, "error")
  /\ SameEnvironment /\ UNCHANGED <<leases, stable>>

\* Only the node's newest row, whether it has ended looked at afterwards.
NewestLeaseIfLive(n) ==
  {p \in nodeSubs : /\ p[2] = n /\ p[1] \notin ended
                    /\ \A q \in nodeSubs : q[2] = n => q[1] <= p[1]}
CreateCredentialsLookupNewest(r) ==
  /\ pc[r] = "lookup"
  /\ LET enrolled == held[r].subscriptionId # NoSub /\ held[r].feeGranted IN
       \/ enrolled /\ NewestLeaseIfLive(target[r]) # {} /\ Proceed(r, "connect")
       \/ enrolled /\ NewestLeaseIfLive(target[r]) = {} /\ Proceed(r, "buy")
       \/ (~enrolled \/ ~stable) /\ Respond(r, "error")
  /\ SameEnvironment /\ UNCHANGED <<leases, stable>>

\* The answer's success field not looked at.
CreateNodeSubscriptionUnchecked(r) ==
  /\ pc[r] = "buy"
  /\ \E i \in Unbought :
       /\ leased' \in {leased, [leased EXCEPT ![i] = target[r]]}
       /\ pc' = [pc EXCEPT ![r] = "find"] /\ lease' = [lease EXCEPT ![r] = i]
       /\ UNCHANGED <<caller, held, target, answer>>
  /\ SameEnvironment /\ UNCHANGED <<ended, nodeSubs, stable>>

\* The purchase used without being recorded.
RecordNodeSubscriptionSkipped(r) ==
  /\ pc[r] = "record" /\ pc' = [pc EXCEPT ![r] = "connect"]
  /\ lease' = [lease EXCEPT ![r] = NoSub]
  /\ SameEnvironment /\ UNCHANGED <<leases, caller, held, target, answer, stable>>

-----------------------------------------------------------------------------
(* The environment *)

\* A row is created or written, with claims that stand.
WriteRow(d) ==
  /\ registered' = registered \cup {d}
  /\ \E row \in Row : Backed(d, row) /\ device' = [device EXCEPT ![d] = row]
  /\ UNCHANGED <<chain, listed, leases, requests, stable>>

\* Wallets get an allowance, or an allocation.
Grant(D) ==
  /\ allowances' = allowances \cup D
  /\ UNCHANGED <<rows, allocations, running, listed, leases, requests, stable>>
Allocate(s, D) ==
  /\ allocations' = [allocations EXCEPT ![s] = @ \cup D]
  /\ UNCHANGED <<rows, allowances, running, listed, leases, requests, stable>>

\* Plan subscriptions are bought and end; servers change.
SubscriptionChanges(s) ==
  /\ running' \in {running \cup {s}, running \ {s}}
  /\ UNCHANGED <<rows, allowances, allocations, listed, leases, requests, stable>>
ServersChange ==
  /\ listed' \in SUBSET Nodes
  /\ UNCHANGED <<rows, chain, leases, requests, stable>>

\* A node subscription reaches its inactive_at.
Expire(i) ==
  /\ leased[i] # NoNode /\ i \notin ended /\ ended' = ended \cup {i}
  /\ SameEnvironment /\ UNCHANGED <<leased, nodeSubs, requests, stable>>

Environment ==
  \/ \E d \in DeviceIds : WriteRow(d)
  \/ \E D \in SUBSET DeviceIds : Grant(D) \/ \E s \in SubIds : Allocate(s, D)
  \/ \E s \in SubIds : SubscriptionChanges(s)
  \/ ServersChange
  \/ \E i \in NodeSubIds : Expire(i)

-----------------------------------------------------------------------------
(* A request, step by step *)

\* The row by its token; a device that is not known, or banned, is turned away.
RequireAuth(r, d) ==
  /\ pc[r] = "idle"
  /\ \/ /\ d \in registered /\ ~device[d].banned
        /\ pc' = [pc EXCEPT ![r] = "device"] /\ caller' = [caller EXCEPT ![r] = d]
        /\ answer' = [answer EXCEPT ![r] = "none"]
        /\ UNCHANGED <<held, target, lease>>
     \/ /\ d \notin registered \/ device[d].banned \/ ~stable
        /\ Respond(r, "error")
  /\ SameEnvironment /\ UNCHANGED <<leases, stable>>

\* The row by its id, as it is by now; the ban is not looked at again.
CurrentDevice(r) ==
  /\ pc[r] = "device"
  /\ \/ /\ pc' = [pc EXCEPT ![r] = "server"] /\ held' = [held EXCEPT ![r] = device[caller[r]]]
        /\ UNCHANGED <<caller, target, lease, answer>>
     \/ ~stable /\ Respond(r, "error")
  /\ SameEnvironment /\ UNCHANGED <<leases, stable>>

\* Goes on to createCredentials with the row of a server.
Choose(r, n) ==
  /\ pc' = [pc EXCEPT ![r] = "lookup"] /\ target' = [target EXCEPT ![r] = n]
  /\ UNCHANGED <<caller, held, lease, answer>>

\* Any of the city's listed servers that is not too loaded; there may be none.
ConnectToCity(r) ==
  /\ pc[r] = "server"
  /\ (\E n \in listed : Choose(r, n)) \/ Respond(r, "error")
  /\ SameEnvironment /\ UNCHANGED <<leases, stable>>

\* The server asked for, if it is listed.
ConnectToServer(r, n) ==
  /\ pc[r] = "server"
  /\ (n \in listed /\ Choose(r, n)) \/ ((n \notin listed \/ ~stable) /\ Respond(r, "error"))
  /\ SameEnvironment /\ UNCHANGED <<leases, stable>>

\* The check of the row read before, then the latest live subscription to the
\* node, of which only the existence matters.
CreateCredentialsLookup(r) ==
  /\ pc[r] = "lookup"
  /\ LET enrolled == held[r].subscriptionId # NoSub /\ held[r].feeGranted IN
       \/ enrolled /\ LiveLeases(target[r]) # {} /\ Proceed(r, "connect")
       \/ enrolled /\ LiveLeases(target[r]) = {} /\ Proceed(r, "buy")
       \/ (~enrolled \/ ~stable) /\ Respond(r, "error")
  /\ SameEnvironment /\ UNCHANGED <<leases, stable>>

\* The purchase, under the next id: it succeeds; or it fails, and then may
\* have been executed all the same.  With no id left it fails (a bound).
CreateNodeSubscription(r) ==
  /\ pc[r] = "buy"
  /\ \/ \E i \in Unbought :
          /\ \A j \in Unbought : i <= j
          /\ leased' = [leased EXCEPT ![i] = target[r]]
          /\ \/ /\ pc' = [pc EXCEPT ![r] = "find"] /\ lease' = [lease EXCEPT ![r] = i]
                /\ UNCHANGED <<caller, held, target, answer>>
             \/ ~stable /\ Respond(r, "error")
     \/ (Unbought = {} \/ ~stable) /\ Respond(r, "error") /\ UNCHANGED leased
  /\ SameEnvironment /\ UNCHANGED <<ended, nodeSubs, stable>>

\* The subscription by its id.  No subscription and no error is a nil that the
\* handler dereferences: gin recovers the panic and answers 500.
FindSubscriptionByID(r) ==
  /\ pc[r] = "find"
  /\ Proceed(r, "record") \/ (~stable /\ Respond(r, "error"))
  /\ SameEnvironment /\ UNCHANGED <<leases, stable>>

\* DB.Create of the subscription found; an error leaves the row written or not.
RecordNodeSubscription(r) ==
  /\ pc[r] = "record"
  /\ \/ /\ nodeSubs' = nodeSubs \cup {<<lease[r], leased[lease[r]]>>}
        /\ pc' = [pc EXCEPT ![r] = "connect"] /\ lease' = [lease EXCEPT ![r] = NoSub]
        /\ UNCHANGED <<caller, held, target, answer>>
     \/ ~stable /\ nodeSubs' \in {nodeSubs, nodeSubs \cup {<<lease[r], leased[lease[r]]>>}} /\ Respond(r, "error")
  /\ SameEnvironment /\ UNCHANGED <<leased, ended, stable>>

\* A session of the device's wallet, in the plan subscription of the row held;
\* refused, for one, when that subscription is over.
CreateCredentials(r) ==
  /\ pc[r] = "connect"
  /\ \/ Proceed(r, "answer")
     \/ (held[r].subscriptionId \notin running \/ ~stable) /\ Respond(r, "error")
  /\ SameEnvironment /\ UNCHANGED <<leases, stable>>

\* The answer names the first of the server's protocols; if there is none, or no
\* credentials came with the success, the handler panics, with the session
\* created.
RespondCredentials(r) ==
  /\ pc[r] = "answer"
  /\ Respond(r, IF target[r] \in NoProtocols THEN "error" ELSE "ok") \/ (~stable /\ Respond(r, "error"))
  /\ SameEnvironment /\ UNCHANGED <<leases, stable>>

\* What a request does once admitted.
RequestStep(r) ==
  \/ CurrentDevice(r) \/ ConnectToCity(r) \/ \E n \in Nodes : ConnectToServer(r, n)
  \/ CreateCredentialsLookup(r) \/ CreateNodeSubscription(r) \/ FindSubscriptionByID(r)
  \/ RecordNodeSubscription(r) \/ CreateCredentials(r) \/ RespondCredentials(r)

-----------------------------------------------------------------------------
(* The process *)

\* The process dies with the requests under way.
DropRequests ==
  /\ pc' = [r \in Requests |-> "idle"] /\ caller' = [r \in Requests |-> Nobody]
  /\ held' = [r \in Requests |-> NoRow] /\ target' = [r \in Requests |-> NoNode]
  /\ lease' = [r \in Requests |-> NoSub] /\ answer' = [r \in Requests |-> "none"]

Crash == ~stable /\ DropRequests /\ SameEnvironment /\ UNCHANGED <<leases, stable>>

Stabilize ==
  /\ ~stable /\ stable' = TRUE
  /\ SameEnvironment /\ UNCHANGED <<leases, requests>>

Next ==
  \/ Environment
  \/ \E r \in Requests : RequestStep(r) \/ \E d \in DeviceIds : RequireAuth(r, d)
  \/ Crash \/ Stabilize

Spec == Init /\ [][Next]_vars

-----------------------------------------------------------------------------
(* Properties *)

\* A session is asked for only with a wallet that the chain lets pay its fees
\* from the provider's allowance and lets into the subscription named, even
\* though the row was read several steps, and a purchase, earlier.
CredentialsBacked ==
  \A r \in Requests : pc[r] \in {"connect", "answer"} =>
    /\ caller[r] \in allowances
    /\ held[r].subscriptionId \in SubIds /\ caller[r] \in allocations[held[r].subscriptionId]

\* A session is asked for only of a node that the service has a subscription to,
\* bought on the chain and in the table for later requests to find, whether this
\* request found it, bought it, or raced with the one that did.
SessionsOnLeases ==
  \A r \in Requests : pc[r] \in {"connect", "answer"} =>
    \E p \in nodeSubs : p[2] = target[r] /\ leased[p[1]] = target[r]

\* Looking a node's subscription up and buying one are two steps of each
\* request, so several can be bought for one node; but never more are live in
\* the table, or on the way there, than requests run at one time: once one is
\* recorded no later request buys.
Buying(n) == {r \in Requests : target[r] = n /\ pc[r] \in {"buy", "find", "record"}}
OneLeasePerRequest ==
  \A n \in Nodes : Cardinality(LiveLeases(n)) + Cardinality(Buying(n)) <= Cardinality(Requests)

\* Node subscriptions paid for that neither the table nor a request knows of.
Orphans ==
  {i \in NodeSubIds : leased[i] # NoNode} \ ({p[1] : p \in nodeSubs} \cup {lease[r] : r \in Requests})

\* Nothing is paid for and lost but to a fault: without one, no purchase goes
\* unrecorded, and every session created reaches the device that asked, unless
\* the server's node has no protocol for the answer to name.
WasteOnlyFromFaults ==
  [][stable =>
       /\ Orphans' \subseteq Orphans
       /\ \A r \in Requests : pc[r] = "answer" /\ pc'[r] # "answer" =>
            answer'[r] = "ok" \/ target[r] \in NoProtocols]_vars

\* The table of node subscriptions claims only what was bought, and for the
\* node it was bought for.
LeaseMirror == INSTANCE LedgerMirror WITH
  Items <- NodeSubIds \X Nodes,
  facts <- {p \in NodeSubIds \X Nodes : leased[p[1]] = p[2]},
  claims <- nodeSubs
LeaseMirrorSpec == LeaseMirror!Spec
=============================================================================
