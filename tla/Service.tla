------------------------------- MODULE Service -------------------------------
(***************************************************************************)
(* What a device experiences: the onboarding jobs and the gateway in one   *)
(* process, over one table of devices and one chain.  A request reads the  *)
(* rows that the jobs rewrite; the gateway's environment is now the jobs   *)
(* themselves.  Servers come and go as they like; how is Listing's matter. *)
(***************************************************************************)
EXTENDS Onboarding

CONSTANTS Requests, Nodes, NodeSubIds, NoProtocols   \* as in Gateway

VARIABLES listed, leased, ended, nodeSubs, pc, caller, held, target, lease, answer

gateway == <<listed, leased, ended, nodeSubs, pc, caller, held, target, lease, answer>>
serviceVars == <<vars, gateway>>

\* Sessions are admitted for sure while a subscription has a day left.
G == INSTANCE Gateway WITH
  running <- {s \in SubIds : lifetime[s] = "long"}

ASSUME GatewayConstants ==
  /\ IsFiniteSet(Requests)
  /\ NodeSubIds \subseteq Nat \ {NoSub} /\ IsFiniteSet(NodeSubIds)
  /\ G!NoNode \notin Nodes /\ NoProtocols \subseteq Nodes

ServiceInit == Init /\ G!Init

\* A step of a request, or of what neither component decides.
GatewayStep ==
  \/ \E r \in Requests : G!RequestStep(r) \/ \E d \in DeviceIds : G!RequireAuth(r, d)
  \/ \E i \in NodeSubIds : G!Expire(i)
  \/ G!ServersChange

ServiceNext ==
  \/ Work /\ UNCHANGED gateway
  \/ UNCHANGED vars /\ GatewayStep
  \/ Crash /\ G!DropRequests /\ UNCHANGED <<listed, leased, ended, nodeSubs>>

ServiceSpec == ServiceInit /\ [][ServiceNext]_serviceVars

\* The jobs' schedulers are fair; nobody has to make requests.
FairServiceSpec == ServiceSpec /\ WF_vars(GrantStep) /\ WF_vars(EnrollStep)

-----------------------------------------------------------------------------
(* Properties *)

\* The jobs, with all their failures and stale writes, are an environment as
\* the gateway assumes it: rows only ever claim what the chain backs.
GatewaySpec == G!Spec

\* A banned device that no job holds an older copy of, and whose requests have
\* ended, is kept out for good: no later request of it is admitted, so none
\* buys a subscription or creates a session.
Barred(d) == BanDrained(d) /\ \A r \in Requests : caller[r] # d
BarredForEver == [][\A d \in DeviceIds : Barred(d) => Barred(d)']_serviceVars

\* Once failures stop, a live plan subscription is there to stay and nodes can
\* be had (the model's ids do not run out), the jobs come to rest in a state in
\* which requests get what they ask for: from some moment on every request that
\* found a server with a protocol ends with credentials.  A request that holds
\* a row from before, or the plan subscription that came before, may fail, but
\* not for ever.
ServedEventually ==
  <>[](/\ stable /\ Live # {}
       /\ \A n \in Nodes : G!LiveLeases(n) # {} \/ G!Unbought # {}) =>
    <>[][\A r \in Requests :
           target[r] # G!NoNode /\ pc'[r] = "idle" =>
             answer'[r] = "ok" \/ target[r] \in NoProtocols]_serviceVars
=============================================================================
