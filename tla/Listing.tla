------------------------------- MODULE Listing -------------------------------
(***************************************************************************)
(* Which nodes requests are sent to: the jobs that keep the table servers, *)
(* and the gateway that chooses from it, in one process.  The devices are  *)
(* all enrolled here; how they get there is Service's matter.              *)
(***************************************************************************)
EXTENDS NodePlan

CONSTANTS Requests, DeviceIds, SubIds, NodeSubIds, NoProtocols   \* as in Gateway

VARIABLES leased, ended, nodeSubs, pc, caller, held, target, lease, answer

gateway == <<leased, ended, nodeSubs, pc, caller, held, target, lease, answer>>
listingVars == <<vars, gateway>>

\* A subscription that every device is in.
Sub == CHOOSE s \in SubIds : TRUE

G == INSTANCE Gateway WITH
  registered <- DeviceIds,
  device <- [d \in DeviceIds |-> [feeGranted |-> TRUE, subscriptionId |-> Sub, banned |-> FALSE]],
  allowances <- DeviceIds,
  allocations <- [s \in SubIds |-> DeviceIds],
  running <- SubIds,
  listed <- Listed

ASSUME GatewayConstants ==
  /\ IsFiniteSet(Requests) /\ DeviceIds \subseteq Nat
  /\ SubIds \subseteq Nat \ {G!NoSub} /\ SubIds # {}
  /\ NodeSubIds \subseteq Nat \ {G!NoSub} /\ IsFiniteSet(NodeSubIds)
  /\ G!NoNode \notin Nodes /\ NoProtocols \subseteq Nodes

ListingInit == Init /\ G!InitGateway

\* A step of a request, or of time on the subscriptions to nodes.
GatewayStep ==
  \/ \E r \in Requests : G!RequestStep(r) \/ \E d \in DeviceIds : G!RequireAuth(r, d)
  \/ \E i \in NodeSubIds : G!Expire(i)

ListingNext ==
  \/ Work /\ UNCHANGED gateway
  \/ UNCHANGED vars /\ GatewayStep
  \/ Crash /\ G!DropRequests /\ UNCHANGED <<leased, ended, nodeSubs>>

ListingSpec == ListingInit /\ [][ListingNext]_listingVars

\* As in NodePlan; nobody has to make requests.
FairListingSpec == ListingSpec /\ WF_vars(SyncStep) /\ WF_vars(PlanStep)

-----------------------------------------------------------------------------
(* Properties *)

\* A banned node that no job holds an older copy of, and that no request under
\* way has chosen, is never chosen again: no request gets credentials for it or
\* has the service pay for it.
Shunned(n) == BanDrained(n) /\ \A r \in Requests : target[r] # n
ShunnedForEver == [][\A n \in Nodes : Shunned(n) => Shunned(n)']_listingVars

\* The flags a request goes by may be ahead of the plan or behind it, for one
\* because the link job marks rows it never offered; but once failures and
\* changes stop, requests only go to nodes that the plan covers and the
\* provider can afford.
ServedFromPlan ==
  <>[]stable =>
    <>[][\A r \in Requests, n \in Nodes :
           target[r] # n /\ target'[r] = n => n \in plan /\ cond[n] # "pricey"]_listingVars
=============================================================================
