----------------------------- MODULE Onboarding -----------------------------
(***************************************************************************)
(* How a device becomes enrolled.  A device is a database row; it may use  *)
(* the VPN once its wallet holds a fee allowance and an allocation in one  *)
(* of the service's plan subscriptions, both of which are facts on the     *)
(* Sentinel blockchain.  Two jobs bring them about, concurrently with each *)
(* other and with the HTTP handlers:                                       *)
(*                                                                         *)
(*   jobs/grant_fee_to_wallets.go  allowances, Device.IsFeeGranted         *)
(*   jobs/enroll_wallets.go        allocations, Device.SubscriptionId,     *)
(*                                 and the plan subscriptions themselves   *)
(*                                                                         *)
(* Each job reads rows, calls the blockchain API, and writes the rows it   *)
(* read back whole: gorm's Save updates every column, so a write carries   *)
(* the columns the other job owns as they were when the row was read.      *)
(* Every database statement and every API call is one step.                *)
(***************************************************************************)
EXTENDS Integers, FiniteSets, Functions

CONSTANTS
  DeviceIds,    \* primary keys of the table devices
  CreatedAt,    \* CreatedAt[d]: the row's creation time
  SubIds,       \* ids the chain may give to plan subscriptions
  GrantLimit,   \* batch size of the grant job (5 in the code)
  EnrollLimit   \* batch size of the enroll job (15 in the code)

NoSub == 0      \* Device.SubscriptionId = nil

ASSUME IdsAreNumbers == DeviceIds \subseteq Nat /\ SubIds \subseteq Nat \ {NoSub}
ASSUME CreatedAtIsTime == CreatedAt \in [DeviceIds -> Nat]
ASSUME LimitsArePositive == GrantLimit \in Nat \ {0} /\ EnrollLimit \in Nat \ {0}

VARIABLES
  registered,         \* ids present in the table devices
  device,             \* the rows
  planSubscriptions,  \* ids in the table sentinel_plan_subscriptions
  allowances,         \* chain: wallets holding a fee allowance
  allocations,        \* chain: wallets allocated to each subscription
  lifetime,           \* chain: "none" before purchase, "long" while more than
                      \* 24 hours are left, "short" after
  grantPc, grantRows, grantListed,   \* the grant job's run
  enrollPc, enrollSub, enrollRows,   \* the enroll job's run
  stable              \* from some moment on nothing fails; see Stabilize

db    == <<registered, device, planSubscriptions>>
chain == <<allowances, allocations, lifetime>>
grant == <<grantPc, grantRows, grantListed>>
enroll == <<enrollPc, enrollSub, enrollRows>>
vars  == <<registered, device, planSubscriptions, allowances, allocations,
           lifetime, grantPc, grantRows, grantListed,
           enrollPc, enrollSub, enrollRows, stable>>

Row == [feeGranted: BOOLEAN, subscriptionId: SubIds \cup {NoSub}, banned: BOOLEAN]
NewRow == [feeGranted |-> FALSE, subscriptionId |-> NoSub, banned |-> FALSE]
NoRows == [d \in {} |-> NewRow]

\* Rows read from the table and held by a job.
IsSnapshot(rows) == DOMAIN rows \subseteq DeviceIds /\ rows \in [DOMAIN rows -> Row]

TypeOK ==
  /\ registered \subseteq DeviceIds
  /\ device \in [DeviceIds -> Row]
  /\ planSubscriptions \subseteq SubIds
  /\ allowances \subseteq DeviceIds
  /\ allocations \in [SubIds -> SUBSET DeviceIds]
  /\ lifetime \in [SubIds -> {"none", "long", "short"}]
  /\ grantPc \in {"idle", "fetch", "mark", "save"}
  /\ IsSnapshot(grantRows) /\ grantListed \subseteq DOMAIN grantRows
  /\ grantPc # "mark" => grantListed = {}
  /\ enrollPc \in {"idle", "create", "find", "record", "load", "submit", "save"}
  /\ enrollSub \in SubIds \cup {NoSub}
  /\ enrollPc \notin {"idle", "create"} => enrollSub \in SubIds
  /\ IsSnapshot(enrollRows)
  /\ stable \in BOOLEAN

Init ==
  /\ registered = {}
  /\ device = [d \in DeviceIds |-> NewRow]
  /\ planSubscriptions = {}
  /\ allowances = {}
  /\ allocations = [s \in SubIds |-> {}]
  /\ lifetime = [s \in SubIds |-> "none"]
  /\ grantPc = "idle" /\ grantRows = NoRows /\ grantListed = {}
  /\ enrollPc = "idle" /\ enrollSub = NoSub /\ enrollRows = NoRows
  /\ stable = FALSE

-----------------------------------------------------------------------------
(* Helpers *)

\* ORDER BY created_at LIMIT k (equal times: in either order), and
\* ORDER BY id DESC LIMIT k.
OldestOf(D, k) ==
  {B \in SUBSET D : /\ Cardinality(B) <= k
                    /\ B # D => Cardinality(B) = k
                    /\ \A b \in B, d \in D \ B : CreatedAt[b] <= CreatedAt[d]}
NewestOf(D, k) ==
  {B \in SUBSET D : /\ Cardinality(B) <= k
                    /\ B # D => Cardinality(B) = k
                    /\ \A b \in B, d \in D \ B : b > d}

\* DB.Save(&device): the whole row, or, on an error, which the jobs only
\* log, nothing.
Save(d, row) ==
  \/ device' = [device EXCEPT ![d] = row]
  \/ ~stable /\ UNCHANGED device

\* A blockchain API call ends with success and its effect, with an error and
\* no effect, or with an error although the transaction went through (a lost
\* or unreadable answer, a time-out of the API itself).
Call(reply, mayReject, effect, noEffect) ==
  \/ reply = "ok" /\ effect
  \/ reply = "lost" /\ ~stable /\ effect
  \/ reply = "error" /\ (~stable \/ mayReject) /\ noEffect

Unbought == {s \in SubIds : lifetime[s] = "none"}

\* Recorded subscriptions with inactive_at more than 24 hours ahead.
Live == {s \in planSubscriptions : lifetime[s] = "long"}

\* The end of a run, whatever the reason: the job's local variables are gone.
GrantEnd == grantPc' = "idle" /\ grantRows' = NoRows /\ grantListed' = {}
EnrollEnd == enrollPc' = "idle" /\ enrollSub' = NoSub /\ enrollRows' = NoRows

-----------------------------------------------------------------------------
(* Faulty variants of operations below, each a bug the code could have; they *)
(* are used only to see that the properties notice.                          *)

\* Reading only some columns: Save then writes zero values to the others.
GrantLoadPartial ==
  /\ grantPc = "idle"
  /\ \E B \in OldestOf({d \in registered : ~device[d].feeGranted}, GrantLimit) :
       grantRows' = [d \in B |-> NewRow]
  /\ grantPc' = "fetch"
  /\ UNCHANGED <<grantListed, db, chain, enroll, stable>>

EnrollLoadPartial ==
  /\ enrollPc = "load"
  /\ \E B \in NewestOf({d \in registered : device[d].subscriptionId # enrollSub}, EnrollLimit) :
       IF B = {} THEN EnrollEnd
                 ELSE /\ enrollRows' = [d \in B |-> NewRow]
                      /\ enrollPc' = "submit" /\ UNCHANGED enrollSub
  /\ UNCHANGED <<db, chain, grant, stable>>

\* Only devices without a subscription, not those in an older one.
EnrollLoadUnsubscribed ==
  /\ enrollPc = "load"
  /\ \E B \in NewestOf({d \in registered : device[d].subscriptionId = NoSub}, EnrollLimit) :
       IF B = {} THEN EnrollEnd
                 ELSE /\ enrollRows' = Restrict(device, B)
                      /\ enrollPc' = "submit" /\ UNCHANGED enrollSub
  /\ UNCHANGED <<db, chain, grant, stable>>

\* Every row of the batch taken for one with an allowance.
GrantFetchUnmatched ==
  /\ grantPc = "fetch"
  /\ \/ grantPc' = "mark" /\ grantListed' = DOMAIN grantRows /\ UNCHANGED grantRows
     \/ ~stable /\ GrantEnd
  /\ UNCHANGED <<db, chain, enroll, stable>>

\* The answer's success field not looked at.
GrantFeeToWalletUnchecked(reply) ==
  allowances' \in {allowances, allowances \cup DOMAIN grantRows}
EnrollWalletToSubscriptionUnchecked(reply) ==
  allocations' \in {allocations, [allocations EXCEPT ![enrollSub] = @ \cup DOMAIN enrollRows]}

\* "Not found" not told from success.
EnrollSelectMissing ==
  /\ enrollPc = "idle" /\ enrollPc' = "load"
  /\ enrollSub' = IF Live = {} THEN NoSub ELSE CHOOSE s \in Live : \A t \in Live : t <= s
  /\ UNCHANGED <<enrollRows, db, chain, grant, stable>>

\* A fresh subscription for every run.
EnrollSelectAlways ==
  /\ enrollPc = "idle" /\ enrollPc' = "create"
  /\ UNCHANGED <<enrollSub, enrollRows, db, chain, grant, stable>>

\* The comparison with inactive_at turned round.
EnrollSelectEnding ==
  /\ enrollPc = "idle"
  /\ LET ending == {s \in planSubscriptions : lifetime[s] = "short"}
     IN \/ ending = {} /\ enrollPc' = "create" /\ UNCHANGED enrollSub
        \/ \E s \in ending : /\ \A t \in ending : t <= s
                             /\ enrollPc' = "load" /\ enrollSub' = s
  /\ UNCHANGED <<enrollRows, db, chain, grant, stable>>

\* The purchased subscription used without being recorded.
EnrollRecordSkipped ==
  /\ enrollPc = "record" /\ enrollPc' = "load"
  /\ UNCHANGED <<enrollSub, enrollRows, db, chain, grant, stable>>

-----------------------------------------------------------------------------
(* HTTP handlers, the operator and time *)

\* POST /devices.  Ids are drawn before the rows become visible, so rows may
\* appear in an order other than that of their ids or creation times.
CreateDevice(d) ==
  /\ d \notin registered
  /\ registered' = registered \cup {d}
  /\ device' = [device EXCEPT ![d] = NewRow]
  /\ UNCHANGED <<planSubscriptions, chain, grant, enroll, stable>>

\* External: nothing in the code sets is_banned, an operator does.
Ban(d) ==
  /\ d \in registered /\ ~device[d].banned
  /\ device' = [device EXCEPT ![d].banned = TRUE]
  /\ UNCHANGED <<registered, planSubscriptions, chain, grant, enroll, stable>>

\* A subscription comes within 24 hours of its end.  The bound: only while
\* the chain still has an id for its successor.
Age(s) ==
  /\ lifetime[s] = "long" /\ Unbought # {}
  /\ lifetime' = [lifetime EXCEPT ![s] = "short"]
  /\ UNCHANGED <<db, allowances, allocations, grant, enroll, stable>>

-----------------------------------------------------------------------------
(* The grant job *)

GrantLoad ==
  /\ grantPc = "idle"
  /\ \E B \in OldestOf({d \in registered : ~device[d].feeGranted}, GrantLimit) :
       grantRows' = Restrict(device, B)
  /\ grantPc' = "fetch"
  /\ UNCHANGED <<grantListed, db, chain, enroll, stable>>

\* GET of the allowances.  fetchAllowances asks for pages of a million until
\* one is empty; one page holds them all.
FetchFeeGrantAllowances == allowances

\* The allowances are fetched after the rows are read.  An empty batch ends
\* the run: nothing would be marked, and nothing is submitted.
GrantFetch ==
  /\ grantPc = "fetch"
  /\ \/ /\ DOMAIN grantRows # {}
        /\ grantPc' = "mark"
        /\ grantListed' = DOMAIN grantRows \cap FetchFeeGrantAllowances
        /\ UNCHANGED grantRows
     \/ (DOMAIN grantRows = {} \/ ~stable) /\ GrantEnd
  /\ UNCHANGED <<db, chain, enroll, stable>>

\* Rows whose allowance is already on the chain are marked first, oldest
\* first; they stay in the batch.
GrantMark(d) ==
  /\ grantPc = "mark" /\ d \in grantListed
  /\ \A e \in grantListed : CreatedAt[d] <= CreatedAt[e]
  /\ Save(d, [grantRows[d] EXCEPT !.feeGranted = TRUE])
  /\ grantListed' = grantListed \ {d}
  /\ UNCHANGED <<registered, planSubscriptions, chain, grantPc, grantRows, enroll, stable>>

\* The chain may refuse a batch in which a wallet already has an allowance.
GrantFeeToWallet(reply) ==
  Call(reply, DOMAIN grantRows \cap allowances # {},
       allowances' = allowances \cup DOMAIN grantRows, UNCHANGED allowances)

GrantSubmit ==
  /\ grantPc = "mark" /\ grantListed = {}
  /\ \E reply \in {"ok", "lost", "error"} :
       /\ GrantFeeToWallet(reply)
       /\ IF reply = "ok" THEN grantPc' = "save" /\ UNCHANGED <<grantRows, grantListed>>
                          ELSE GrantEnd
  /\ UNCHANGED <<db, allocations, lifetime, enroll, stable>>

GrantSave(d) ==
  /\ grantPc = "save" /\ d \in DOMAIN grantRows
  /\ \A e \in DOMAIN grantRows : CreatedAt[d] <= CreatedAt[e]
  /\ Save(d, [grantRows[d] EXCEPT !.feeGranted = TRUE])
  /\ grantRows' = Restrict(grantRows, DOMAIN grantRows \ {d})
  /\ grantPc' = IF DOMAIN grantRows = {d} THEN "idle" ELSE "save"
  /\ UNCHANGED <<registered, planSubscriptions, chain, grantListed, enroll, stable>>

GrantStep ==
  \/ GrantLoad \/ GrantFetch \/ GrantSubmit
  \/ \E d \in DeviceIds : GrantMark(d) \/ GrantSave(d)

-----------------------------------------------------------------------------
(* The enroll job *)

\* The recorded live subscription with the highest id, if there is one.  (A
\* query that fails here, or in GrantLoad, ends a run that did nothing yet.)
EnrollSelect ==
  /\ enrollPc = "idle"
  /\ \/ Live = {} /\ enrollPc' = "create" /\ UNCHANGED enrollSub
     \/ \E s \in Live : /\ \A t \in Live : t <= s
                        /\ enrollPc' = "load" /\ enrollSub' = s
  /\ UNCHANGED <<enrollRows, db, chain, grant, stable>>

\* The purchase; the chain gives the next id.  SubIds is also the model's bound:
\* with no id left the purchase fails.
CreatePlanSubscription(reply, s) ==
  Call(reply, FALSE, lifetime' = [lifetime EXCEPT ![s] = "long"], UNCHANGED lifetime)

EnrollCreate ==
  /\ enrollPc = "create"
  /\ \/ \E s \in Unbought, reply \in {"ok", "lost", "error"} :
          /\ \A t \in Unbought : s <= t
          /\ CreatePlanSubscription(reply, s)
          /\ IF reply = "ok"
               THEN enrollPc' = "find" /\ enrollSub' = s /\ UNCHANGED enrollRows
               ELSE EnrollEnd
     \/ Unbought = {} /\ EnrollEnd /\ UNCHANGED lifetime
  /\ UNCHANGED <<db, allowances, allocations, grant, stable>>

\* The purchase's transaction names only the id: the subscription is fetched
\* by a second call.  If that fails the purchase is abandoned; if it answers
\* with no subscription the job dereferences nil, which is a Crash.
FindSubscriptionByID ==
  /\ enrollPc = "find"
  /\ \/ enrollPc' = "record" /\ UNCHANGED <<enrollSub, enrollRows>>
     \/ ~stable /\ EnrollEnd
  /\ UNCHANGED <<db, chain, grant, stable>>

\* DB.Create of the purchased subscription; an error, with or without the row
\* written, abandons the run.
EnrollRecord ==
  /\ enrollPc = "record"
  /\ \/ /\ planSubscriptions' = planSubscriptions \cup {enrollSub}
        /\ enrollPc' = "load" /\ UNCHANGED <<enrollSub, enrollRows>>
     \/ /\ ~stable /\ EnrollEnd
        /\ planSubscriptions' \in {planSubscriptions, planSubscriptions \cup {enrollSub}}
  /\ UNCHANGED <<registered, device, chain, grant, stable>>

EnrollLoad ==
  /\ enrollPc = "load"
  /\ \/ \E B \in NewestOf({d \in registered : device[d].subscriptionId # enrollSub}, EnrollLimit) :
          IF B = {} THEN EnrollEnd
                    ELSE /\ enrollRows' = Restrict(device, B)
                         /\ enrollPc' = "submit" /\ UNCHANGED enrollSub
     \/ ~stable /\ EnrollEnd
  /\ UNCHANGED <<db, chain, grant, stable>>

EnrollWalletToSubscription(reply) ==
  Call(reply, FALSE,
       allocations' = [allocations EXCEPT ![enrollSub] = @ \cup DOMAIN enrollRows],
       UNCHANGED allocations)

EnrollSubmit ==
  /\ enrollPc = "submit"
  /\ \E reply \in {"ok", "lost", "error"} :
       /\ EnrollWalletToSubscription(reply)
       /\ IF reply = "ok" THEN enrollPc' = "save" /\ UNCHANGED <<enrollSub, enrollRows>>
                          ELSE EnrollEnd
  /\ UNCHANGED <<db, allowances, lifetime, grant, stable>>

EnrollSave(d) ==
  /\ enrollPc = "save" /\ d \in DOMAIN enrollRows
  /\ \A e \in DOMAIN enrollRows : d >= e
  /\ Save(d, [enrollRows[d] EXCEPT !.subscriptionId = enrollSub])
  /\ IF DOMAIN enrollRows = {d}
       THEN EnrollEnd
       ELSE /\ enrollRows' = Restrict(enrollRows, DOMAIN enrollRows \ {d})
            /\ UNCHANGED <<enrollPc, enrollSub>>
  /\ UNCHANGED <<registered, planSubscriptions, chain, grant, stable>>

EnrollStep ==
  \/ EnrollSelect \/ EnrollCreate \/ FindSubscriptionByID \/ EnrollRecord \/ EnrollLoad \/ EnrollSubmit
  \/ \E d \in DeviceIds : EnrollSave(d)

-----------------------------------------------------------------------------
(* The process *)

\* The process dies (a job's panic is not recovered) and is started again:
\* the jobs' local state is lost, the two stores are not.
Crash ==
  /\ ~stable
  /\ GrantEnd /\ EnrollEnd
  /\ UNCHANGED <<db, chain, stable>>

\* From here on calls succeed and the process stays up.  Liveness is claimed
\* only of behaviours in which this happens.
Stabilize ==
  /\ ~stable /\ stable' = TRUE
  /\ UNCHANGED <<db, chain, grant, enroll>>

\* All but the process's death, in which the requests die as well (Service).
Work ==
  \/ \E d \in DeviceIds : CreateDevice(d) \/ Ban(d)
  \/ \E s \in SubIds : Age(s)
  \/ GrantStep \/ EnrollStep
  \/ Stabilize

Next == Work \/ Crash

Spec == Init /\ [][Next]_vars

\* The scheduler starts each job every second, and a run keeps going.
FairSpec == Spec /\ WF_vars(GrantStep) /\ WF_vars(EnrollStep)

-----------------------------------------------------------------------------
(* Properties *)

\* A row never claims a fee allowance the chain does not hold, whatever fails
\* and however the two jobs' whole-row writes interleave: is_fee_granted is
\* what createCredentials (controllers/vpn.go) and MarshalJSON
\* (models/device.go) trust.
FeeFlagBacked ==
  \A d \in registered : device[d].feeGranted => d \in allowances

\* A row never names a subscription in which the wallet has no allocation,
\* also while devices move from an ending subscription to its successor and
\* stale writes move them back: createCredentials buys and logs in with it.
SubscriptionBacked ==
  \A d \in registered :
    device[d].subscriptionId # NoSub => d \in allocations[device[d].subscriptionId]

\* What MarshalJSON reports as is_enrolled.
IsEnrolled(d) == device[d].subscriptionId # NoSub /\ device[d].feeGranted

\* Enrolled, and no job holds an older copy of the row that would undo it.
Settled(d) ==
  /\ d \in registered /\ IsEnrolled(d)
  /\ d \in DOMAIN grantRows => grantRows[d].subscriptionId # NoSub
  /\ d \in DOMAIN enrollRows => enrollRows[d].feeGranted

\* A write-back may take an enrolled device's enrolment away again, but only
\* from a copy read before it was enrolled: once no such copy is held, the
\* device stays enrolled for ever, through failures, crashes and the moves
\* from one plan subscription to the next.
SettledForever == [][\A d \in DeviceIds : Settled(d) => Settled(d)']_vars

\* Banned, and no job holds a copy of the row from before the ban.
BanDrained(d) ==
  /\ d \in registered /\ device[d].banned
  /\ d \in DOMAIN grantRows => grantRows[d].banned
  /\ d \in DOMAIN enrollRows => enrollRows[d].banned

\* RequireAuth (middleware/auth.go) rejects a device by is_banned, a column
\* both jobs overwrite.  A ban can be lost only to a copy read before it: once
\* none is held, no job lifts it.
BanHolds == [][\A d \in DeviceIds : BanDrained(d) => BanDrained(d)']_vars

\* The enroll job buys a plan subscription, with real tokens, only when no
\* recorded one has more than 24 hours left.
NoRedundantPurchase ==
  [][\A s \in SubIds : lifetime[s] = "none" /\ lifetime'[s] # "none" => Live = {}]_vars

\* The recorded subscriptions succeed one another: only the one with the
\* highest id can have a day left, so that the two conditions by which
\* updateSubscription (jobs/enroll_wallets.go) selects, inactive_at and the
\* order of ids, never disagree.
Succession ==
  \A s, t \in planSubscriptions : s < t => lifetime[s] = "short"

\* A device is never enrolled in a subscription the database does not know,
\* whatever became of the purchase's record and whatever a stale write brings
\* back: the inactive_at of the subscription it uses is on record.
EnrolledInRecorded ==
  \A d \in registered : device[d].subscriptionId \in planSubscriptions \cup {NoSub}

\* Devices move from an ending subscription to its successor.  One that goes
\* back, or loses its subscription, was put there by the grant job's copy of
\* the row, read before the move; the enroll job takes no device back, not
\* even a run that began before the successor was bought.
MovesForward ==
  [][\A d \in registered :
       device'[d].subscriptionId < device[d].subscriptionId =>
         d \in DOMAIN grantRows /\ grantRows[d].subscriptionId = device'[d].subscriptionId]_vars

\* Subscriptions paid for that the database has not heard of and no run of
\* the job is about to record.
Orphans ==
  {s \in SubIds : lifetime[s] # "none"} \ 
    (planSubscriptions \cup (IF enrollPc \in {"find", "record"} THEN {enrollSub} ELSE {}))

\* The purchase and its record are two steps, so a purchase can be lost; but
\* only to a failure or a crash, at most one for each, and never otherwise.
OrphansOnlyFromFaults ==
  [][/\ stable => Orphans' \subseteq Orphans
     /\ Cardinality(Orphans') <= Cardinality(Orphans) + 1]_vars

\* The subscription the enroll job selects.
Current == IF Live = {} THEN NoSub ELSE CHOOSE s \in Live : \A t \in Live : t <= s

\* Enrolled where the enroll job wants it, and no job holds a copy of the row
\* that would take it elsewhere.
AtHome(d) ==
  /\ Settled(d) /\ device[d].subscriptionId = Current
  /\ d \in DOMAIN grantRows => grantRows[d].subscriptionId = Current

\* A device that has arrived stays as long as there is a live subscription: no
\* failure, no lost purchase and no run of either job takes it out of the
\* selected subscription, and no other becomes the selected one meanwhile.
HomeIsKept ==
  [][\A d \in DeviceIds : AtHome(d) /\ Live' # {} => AtHome(d)']_vars

\* Once failures stop and a live subscription is there to stay, every device
\* ends up enrolled, and in that subscription: the two jobs do not undo each
\* other's writes for ever, and no device is left behind by the batch limits.
Convergence ==
  <>[](stable /\ Live # {}) =>
    <>[](\A d \in registered : AtHome(d))
=============================================================================
