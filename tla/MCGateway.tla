------------------------------ MODULE MCGateway ------------------------------
(* A small instance of Gateway for TLC, in two kinds of behaviour. *)
EXTENDS Gateway, TLC

VARIABLE calm   \* whether the environment is at rest from the beginning

\* At rest every device is enrolled and every server listed, and what goes on
\* is requests beside each other, the ends of node subscriptions and failures.
CalmInit ==
  /\ registered = DeviceIds /\ allowances = DeviceIds /\ running = SubIds /\ listed = Nodes
  /\ allocations = [s \in SubIds |-> DeviceIds]
  /\ device = [d \in DeviceIds |-> [feeGranted |-> TRUE, subscriptionId |-> CHOOSE s \in SubIds : TRUE,
                                    banned |-> FALSE]]
  /\ InitGateway /\ stable = FALSE

MCInit == \/ calm = TRUE /\ CalmInit
          \/ calm = FALSE /\ Init

\* While the environment moves, one request at a time and one purchase.
Alone(r) == \A q \in Requests \ {r} : pc[q] = "idle"
FirstPurchase == leased' # leased => leased = [i \in NodeSubIds |-> NoNode]

MCNext ==
  /\ \/ ~calm /\ Environment
     \/ calm /\ \E i \in NodeSubIds : Expire(i)
     \/ \E r \in Requests :
          /\ RequestStep(r) \/ \E d \in DeviceIds : RequireAuth(r, d)
          /\ calm \/ (Alone(r) /\ FirstPurchase)
     \/ Crash \/ Stabilize
  /\ UNCHANGED calm

MCSpec == MCInit /\ [][MCNext]_<<vars, calm>>

RequestSymmetry == Permutations(Requests)
=============================================================================
