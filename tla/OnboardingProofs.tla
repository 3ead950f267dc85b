-------------------------- MODULE OnboardingProofs --------------------------
(***************************************************************************)
(* Onboarding's safety for any set of devices and subscriptions, any batch *)
(* limits and any order of creation times: the database's claims are facts *)
(* on the chain, and no step undoes a settled enrolment, lifts a drained   *)
(* ban or buys a subscription needlessly.                                  *)
(***************************************************************************)
EXTENDS Onboarding, FiniteSetTheorems, TLAPS

(* What the jobs rely on: the copies they hold are as truthful as the rows,  *)
(* and what they are about to write has been acknowledged by the chain.      *)

GrantRowsBacked ==
  \A d \in DOMAIN grantRows :
    /\ d \in registered
    /\ grantRows[d].subscriptionId # NoSub => d \in allocations[grantRows[d].subscriptionId]

EnrollRowsBacked ==
  \A d \in DOMAIN enrollRows :
    d \in registered /\ (enrollRows[d].feeGranted => d \in allowances)

GrantAcknowledged ==
  /\ grantListed \subseteq allowances
  /\ grantPc = "save" => DOMAIN grantRows \subseteq allowances

EnrollAcknowledged ==
  enrollPc = "save" => DOMAIN enrollRows \subseteq allocations[enrollSub]

IInv ==
  /\ TypeOK
  /\ FeeFlagBacked
  /\ SubscriptionBacked
  /\ GrantRowsBacked
  /\ EnrollRowsBacked
  /\ GrantAcknowledged
  /\ EnrollAcknowledged

-----------------------------------------------------------------------------
(* Lemmas about the operators *)

\* The row the chain calls of a job leave behind is a row.
LEMMA RowUpdates ==
  ASSUME NEW r \in Row
  PROVE  /\ [r EXCEPT !.feeGranted = TRUE] \in Row
         /\ [r EXCEPT !.feeGranted = TRUE].feeGranted
         /\ [r EXCEPT !.feeGranted = TRUE].subscriptionId = r.subscriptionId
         /\ [r EXCEPT !.feeGranted = TRUE].banned = r.banned
         /\ \A s \in SubIds :
              /\ [r EXCEPT !.subscriptionId = s] \in Row
              /\ [r EXCEPT !.subscriptionId = s].subscriptionId = s
              /\ [r EXCEPT !.subscriptionId = s].feeGranted = r.feeGranted
              /\ [r EXCEPT !.subscriptionId = s].banned = r.banned
         /\ [r EXCEPT !.banned = TRUE] \in Row
         /\ [r EXCEPT !.banned = TRUE].feeGranted = r.feeGranted
         /\ [r EXCEPT !.banned = TRUE].subscriptionId = r.subscriptionId
         /\ [r EXCEPT !.banned = TRUE].banned
BY DEF Row

LEMMA SubsAreNumbers == SubIds \cup {NoSub} \subseteq Int /\ NoSub \notin SubIds
<1>1. SubIds \subseteq Nat \ {NoSub} /\ NoSub \in Int
  BY IdsAreNumbers DEF NoSub
<1> QED BY <1>1

LEMMA NewRowIsRow == NewRow \in Row
BY DEF NewRow, Row

\* A batch read from the table is a snapshot of it.
LEMMA RestrictIsSnapshot ==
  ASSUME device \in [DeviceIds -> Row], NEW B, B \subseteq DeviceIds
  PROVE  /\ IsSnapshot(Restrict(device, B))
         /\ DOMAIN Restrict(device, B) = B
         /\ \A d \in B : Restrict(device, B)[d] = device[d]
BY DEF IsSnapshot, Restrict

\* Dropping rows from a snapshot leaves a snapshot with the same rows.
LEMMA RestrictSnapshot ==
  ASSUME NEW rows, IsSnapshot(rows), NEW B, B \subseteq DOMAIN rows
  PROVE  /\ IsSnapshot(Restrict(rows, B))
         /\ DOMAIN Restrict(rows, B) = B
         /\ \A d \in B : Restrict(rows, B)[d] = rows[d]
BY DEF IsSnapshot, Restrict

LEMMA NoRowsIsSnapshot == IsSnapshot(NoRows) /\ DOMAIN NoRows = {}
BY NewRowIsRow DEF IsSnapshot, NoRows

\* A save changes one row at most, and to the given one.
LEMMA SaveEffect ==
  ASSUME device \in [DeviceIds -> Row], NEW d \in DeviceIds, NEW row \in Row, Save(d, row)
  PROVE  /\ device' \in [DeviceIds -> Row]
         /\ device'[d] = device[d] \/ device'[d] = row
         /\ \A e \in DeviceIds : e # d => device'[e] = device[e]
BY DEF Save

-----------------------------------------------------------------------------
(* Type correctness *)

LEMMA InitTypeOK == Init => TypeOK
BY NewRowIsRow, NoRowsIsSnapshot DEF Init, TypeOK

LEMMA NextTypeOK == TypeOK /\ [Next]_vars => TypeOK'
<1> SUFFICES ASSUME TypeOK, [Next]_vars PROVE TypeOK'
  OBVIOUS
<1> USE DEF TypeOK, db, chain, grant, enroll
<1>1. ASSUME NEW d \in DeviceIds, CreateDevice(d) PROVE TypeOK'
  BY <1>1, NewRowIsRow DEF CreateDevice
<1>2. ASSUME NEW d \in DeviceIds, Ban(d) PROVE TypeOK'
  BY <1>2, RowUpdates DEF Ban
<1>3. ASSUME NEW s \in SubIds, Age(s) PROVE TypeOK'
  BY <1>3 DEF Age
<1>4. ASSUME GrantStep PROVE TypeOK'
  <2>1. CASE GrantLoad
    BY <2>1, RestrictIsSnapshot DEF GrantLoad, OldestOf
  <2>2. CASE GrantFetch
    BY <2>2, NoRowsIsSnapshot DEF GrantFetch, GrantEnd
  <2>3. CASE GrantSubmit
    BY <2>3, NoRowsIsSnapshot DEF GrantSubmit, GrantFeeToWallet, Call, GrantEnd, IsSnapshot
  <2>4. ASSUME NEW d \in DeviceIds, GrantMark(d) PROVE TypeOK'
    BY <2>4, RowUpdates, SaveEffect DEF GrantMark, IsSnapshot
  <2>5. ASSUME NEW d \in DeviceIds, GrantSave(d) PROVE TypeOK'
    <3>1. grantRows[d] \in Row
      BY <2>5 DEF GrantSave, IsSnapshot
    <3>2. IsSnapshot(grantRows') /\ grantListed' \subseteq DOMAIN grantRows'
      BY <2>5, RestrictSnapshot DEF GrantSave
    <3> QED BY <2>5, <3>1, <3>2, RowUpdates, SaveEffect DEF GrantSave
  <2> QED BY <1>4, <2>1, <2>2, <2>3, <2>4, <2>5 DEF GrantStep
<1>5. ASSUME EnrollStep PROVE TypeOK'
  <2>1. CASE EnrollSelect
    BY <2>1 DEF EnrollSelect, Live
  <2>2. CASE EnrollCreate
    BY <2>2, NoRowsIsSnapshot DEF EnrollCreate, CreatePlanSubscription, Call, EnrollEnd, Unbought
  <2>3. CASE FindSubscriptionByID
    BY <2>3, NoRowsIsSnapshot DEF FindSubscriptionByID, EnrollEnd
  <2>4. CASE EnrollRecord
    BY <2>4, NoRowsIsSnapshot DEF EnrollRecord, EnrollEnd
  <2>5. CASE EnrollLoad
    BY <2>5, NoRowsIsSnapshot, RestrictIsSnapshot DEF EnrollLoad, NewestOf, EnrollEnd
  <2>6. CASE EnrollSubmit
    BY <2>6, NoRowsIsSnapshot DEF EnrollSubmit, EnrollWalletToSubscription, Call, EnrollEnd, IsSnapshot
  <2>7. ASSUME NEW d \in DeviceIds, EnrollSave(d) PROVE TypeOK'
    <3>1. enrollRows[d] \in Row /\ enrollSub \in SubIds
      BY <2>7 DEF EnrollSave, IsSnapshot
    <3>2. IsSnapshot(enrollRows')
      BY <2>7, RestrictSnapshot, NoRowsIsSnapshot DEF EnrollSave, EnrollEnd
    <3> QED BY <2>7, <3>1, <3>2, RowUpdates, SaveEffect DEF EnrollSave, EnrollEnd
  <2> QED BY <1>5, <2>1, <2>2, <2>3, <2>4, <2>5, <2>6, <2>7 DEF EnrollStep
<1>6. CASE Crash
  BY <1>6, NoRowsIsSnapshot DEF Crash, GrantEnd, EnrollEnd
<1>7. CASE Stabilize
  BY <1>7 DEF Stabilize
<1>8. CASE UNCHANGED vars
  BY <1>8 DEF vars, IsSnapshot
<1> QED BY <1>1, <1>2, <1>3, <1>4, <1>5, <1>6, <1>7, <1>8 DEF Next, Work

\* Rows, snapshots and control states of both jobs keep their types.
THEOREM TypeCorrect == Spec => []TypeOK
BY InitTypeOK, NextTypeOK, PTL DEF Spec

-----------------------------------------------------------------------------
(* The database's claims are facts *)

\* Rows and chain unchanged but for one saved row: the claims stay backed if
\* the saved row's claims are.
LEMMA SaveBacked ==
  ASSUME TypeOK, FeeFlagBacked, SubscriptionBacked,
         NEW d \in DeviceIds, NEW row \in Row, Save(d, row),
         row.feeGranted => d \in allowances,
         row.subscriptionId # NoSub => d \in allocations[row.subscriptionId],
         UNCHANGED <<registered, allowances, allocations>>
  PROVE  FeeFlagBacked' /\ SubscriptionBacked'
<1>1. \A e \in DeviceIds : e # d => device'[e] = device[e]
  BY SaveEffect DEF TypeOK
<1>2. device'[d] = device[d] \/ device'[d] = row
  BY SaveEffect DEF TypeOK
<1> QED BY <1>1, <1>2 DEF TypeOK, FeeFlagBacked, SubscriptionBacked

\* Rows unchanged and a chain that only gains: everything stays backed.
LEMMA ChainGrows ==
  ASSUME TypeOK, TypeOK', FeeFlagBacked, SubscriptionBacked,
         UNCHANGED <<registered, device>>,
         allowances \subseteq allowances',
         \A s \in SubIds : allocations[s] \subseteq allocations'[s]
  PROVE  FeeFlagBacked' /\ SubscriptionBacked'
<1>1. \A d \in registered : device[d].subscriptionId \in SubIds \cup {NoSub}
  BY DEF TypeOK, Row
<1> QED BY <1>1 DEF TypeOK, FeeFlagBacked, SubscriptionBacked

LEMMA InitIInv == Init => IInv
<1> SUFFICES ASSUME Init PROVE IInv
  OBVIOUS
<1>1. TypeOK
  BY InitTypeOK
<1>2. DOMAIN grantRows = {} /\ DOMAIN enrollRows = {} /\ registered = {}
  BY NoRowsIsSnapshot DEF Init
<1>3. grantListed = {} /\ grantPc = "idle" /\ enrollPc = "idle"
  BY DEF Init
<1> QED BY <1>1, <1>2, <1>3 DEF IInv, FeeFlagBacked, SubscriptionBacked, GrantRowsBacked,
      EnrollRowsBacked, GrantAcknowledged, EnrollAcknowledged

LEMMA NextIInv == IInv /\ [Next]_vars => IInv'
<1> SUFFICES ASSUME IInv, [Next]_vars PROVE IInv'
  OBVIOUS
<1>0. TypeOK /\ TypeOK'
  BY NextTypeOK DEF IInv
<1>sub. /\ \A d \in DeviceIds : device[d].subscriptionId \in SubIds \cup {NoSub}
        /\ \A d \in DOMAIN grantRows : grantRows[d] \in Row /\ d \in DeviceIds
                                      /\ grantRows[d].subscriptionId \in SubIds \cup {NoSub}
        /\ \A d \in DOMAIN enrollRows : enrollRows[d] \in Row /\ d \in DeviceIds
  BY <1>0 DEF TypeOK, IsSnapshot, Row
<1> USE <1>0, <1>sub DEF IInv, db, chain, grant, enroll
<1>1. ASSUME NEW d \in DeviceIds, CreateDevice(d) PROVE IInv'
  <2>1. \A e \in registered : device'[e] = device[e]
    BY <1>1 DEF CreateDevice, TypeOK
  <2>2. device'[d] = NewRow
    BY <1>1 DEF CreateDevice, TypeOK
  <2>3. FeeFlagBacked' /\ SubscriptionBacked'
    BY <1>1, <2>1, <2>2 DEF CreateDevice, NewRow, FeeFlagBacked, SubscriptionBacked
  <2> QED BY <1>1, <2>3 DEF CreateDevice, GrantRowsBacked, EnrollRowsBacked,
        GrantAcknowledged, EnrollAcknowledged
<1>2. ASSUME NEW d \in DeviceIds, Ban(d) PROVE IInv'
  <2>1. \A e \in DeviceIds : /\ device'[e].feeGranted = device[e].feeGranted
                            /\ device'[e].subscriptionId = device[e].subscriptionId
    BY <1>2, RowUpdates DEF Ban, TypeOK
  <2>2. FeeFlagBacked' /\ SubscriptionBacked'
    BY <1>2, <2>1 DEF Ban, FeeFlagBacked, SubscriptionBacked, TypeOK
  <2> QED BY <1>2, <2>2 DEF Ban, GrantRowsBacked, EnrollRowsBacked,
        GrantAcknowledged, EnrollAcknowledged
<1>3. ASSUME NEW s \in SubIds, Age(s) PROVE IInv'
  BY <1>3 DEF Age, FeeFlagBacked, SubscriptionBacked, GrantRowsBacked, EnrollRowsBacked,
     GrantAcknowledged, EnrollAcknowledged
<1>4. ASSUME GrantStep PROVE IInv'
  <2>1. CASE GrantLoad
    <3>1. PICK B \in SUBSET registered : grantRows' = Restrict(device, B)
      BY <2>1 DEF GrantLoad, OldestOf
    <3>2. /\ DOMAIN grantRows' = B /\ B \subseteq registered
          /\ \A d \in B : grantRows'[d] = device[d]
      BY <3>1, RestrictIsSnapshot DEF TypeOK
    <3>3. GrantRowsBacked'
      BY <2>1, <3>2 DEF GrantLoad, GrantRowsBacked, SubscriptionBacked
    <3> QED BY <2>1, <3>3 DEF GrantLoad, FeeFlagBacked, SubscriptionBacked, EnrollRowsBacked,
          GrantAcknowledged, EnrollAcknowledged
  <2>2. CASE GrantFetch
    BY <2>2, NoRowsIsSnapshot DEF GrantFetch, FetchFeeGrantAllowances, GrantEnd, FeeFlagBacked, SubscriptionBacked,
       GrantRowsBacked, EnrollRowsBacked, GrantAcknowledged, EnrollAcknowledged
  <2>3. CASE GrantSubmit
    <3>1. /\ allowances \subseteq allowances'
          /\ UNCHANGED <<registered, device, allocations, enrollPc, enrollSub, enrollRows>>
      BY <2>3 DEF GrantSubmit, GrantFeeToWallet, Call
    <3>2. FeeFlagBacked' /\ SubscriptionBacked'
      BY <3>1, ChainGrows
    <3>3. EnrollRowsBacked' /\ EnrollAcknowledged'
      BY <3>1 DEF EnrollRowsBacked, EnrollAcknowledged
    <3>4. GrantRowsBacked'
      BY <2>3, <3>1, NoRowsIsSnapshot DEF GrantSubmit, GrantEnd, GrantRowsBacked
    <3>5. GrantAcknowledged'
      BY <2>3, NoRowsIsSnapshot DEF GrantSubmit, GrantFeeToWallet, Call, GrantEnd, GrantAcknowledged
    <3> QED BY <3>2, <3>3, <3>4, <3>5
  <2>4. ASSUME NEW d \in DeviceIds, GrantMark(d) PROVE IInv'
    <3> DEFINE row == [grantRows[d] EXCEPT !.feeGranted = TRUE]
    <3>1. d \in DOMAIN grantRows /\ d \in allowances
      BY <2>4 DEF GrantMark, TypeOK, GrantAcknowledged
    <3>2. row \in Row /\ row.subscriptionId = grantRows[d].subscriptionId
      BY <3>1, RowUpdates
    <3>3. row.subscriptionId # NoSub => d \in allocations[row.subscriptionId]
      BY <3>1, <3>2 DEF GrantRowsBacked
    <3>4. Save(d, row) /\ UNCHANGED <<registered, allowances, allocations>>
      BY <2>4 DEF GrantMark
    <3>5. FeeFlagBacked' /\ SubscriptionBacked'
      <4> HIDE DEF row
      <4> QED BY <3>1, <3>2, <3>3, <3>4, SaveBacked
    <3> QED BY <2>4, <3>5 DEF GrantMark, GrantRowsBacked, EnrollRowsBacked,
          GrantAcknowledged, EnrollAcknowledged
  <2>5. ASSUME NEW d \in DeviceIds, GrantSave(d) PROVE IInv'
    <3> DEFINE row == [grantRows[d] EXCEPT !.feeGranted = TRUE]
    <3>1. d \in DOMAIN grantRows /\ d \in allowances
      BY <2>5 DEF GrantSave, TypeOK, GrantAcknowledged
    <3>2. row \in Row /\ row.subscriptionId = grantRows[d].subscriptionId
      BY <3>1, RowUpdates
    <3>3. row.subscriptionId # NoSub => d \in allocations[row.subscriptionId]
      BY <3>1, <3>2 DEF GrantRowsBacked
    <3>4. Save(d, row) /\ UNCHANGED <<registered, allowances, allocations>>
      BY <2>5 DEF GrantSave
    <3>5. FeeFlagBacked' /\ SubscriptionBacked'
      <4> HIDE DEF row
      <4> QED BY <3>1, <3>2, <3>3, <3>4, SaveBacked
    <3>6. /\ DOMAIN grantRows' = DOMAIN grantRows \ {d}
          /\ \A e \in DOMAIN grantRows' : grantRows'[e] = grantRows[e]
      BY <2>5, RestrictSnapshot DEF GrantSave, TypeOK
    <3>7. GrantRowsBacked' /\ GrantAcknowledged'
      BY <2>5, <3>6 DEF GrantSave, GrantRowsBacked, GrantAcknowledged
    <3> QED BY <2>5, <3>5, <3>7 DEF GrantSave, EnrollRowsBacked, EnrollAcknowledged
  <2> QED BY <1>4, <2>1, <2>2, <2>3, <2>4, <2>5 DEF GrantStep
<1>5. ASSUME EnrollStep PROVE IInv'
  <2>1. CASE EnrollSelect
    BY <2>1 DEF EnrollSelect, FeeFlagBacked, SubscriptionBacked,
       GrantRowsBacked, EnrollRowsBacked, GrantAcknowledged, EnrollAcknowledged
  <2>2. CASE EnrollCreate
    BY <2>2, NoRowsIsSnapshot DEF EnrollCreate, EnrollEnd, FeeFlagBacked, SubscriptionBacked,
       GrantRowsBacked, EnrollRowsBacked, GrantAcknowledged, EnrollAcknowledged
  <2>3. CASE FindSubscriptionByID
    BY <2>3, NoRowsIsSnapshot DEF FindSubscriptionByID, EnrollEnd, FeeFlagBacked, SubscriptionBacked,
       GrantRowsBacked, EnrollRowsBacked, GrantAcknowledged, EnrollAcknowledged
  <2>4. CASE EnrollRecord
    BY <2>4, NoRowsIsSnapshot DEF EnrollRecord, EnrollEnd, FeeFlagBacked, SubscriptionBacked,
       GrantRowsBacked, EnrollRowsBacked, GrantAcknowledged, EnrollAcknowledged
  <2>5. CASE EnrollLoad
    <3>1. EnrollRowsBacked'
      <4>1. CASE EnrollEnd
        BY <4>1, NoRowsIsSnapshot DEF EnrollEnd, EnrollRowsBacked
      <4>2. ASSUME NEW B, B \subseteq registered, enrollRows' = Restrict(device, B)
            PROVE  EnrollRowsBacked'
        BY <2>5, <4>2, RestrictIsSnapshot DEF EnrollLoad, TypeOK, EnrollRowsBacked, FeeFlagBacked
      <4> QED BY <2>5, <4>1, <4>2 DEF EnrollLoad, NewestOf
    <3> QED BY <2>5, <3>1 DEF EnrollLoad, EnrollEnd, FeeFlagBacked, SubscriptionBacked,
          GrantRowsBacked, GrantAcknowledged, EnrollAcknowledged
  <2>6. CASE EnrollSubmit
    <3>0. enrollSub \in SubIds
      BY <2>6 DEF EnrollSubmit, TypeOK
    <3>1. /\ \A s \in SubIds : allocations[s] \subseteq allocations'[s]
          /\ UNCHANGED <<registered, device, allowances, grantPc, grantRows, grantListed>>
      BY <2>6 DEF EnrollSubmit, EnrollWalletToSubscription, Call, TypeOK
    <3>2. FeeFlagBacked' /\ SubscriptionBacked'
      BY <3>1, ChainGrows
    <3>3. GrantRowsBacked' /\ GrantAcknowledged'
      BY <3>1 DEF GrantRowsBacked, GrantAcknowledged
    <3>4. EnrollRowsBacked'
      BY <2>6, <3>1, NoRowsIsSnapshot DEF EnrollSubmit, EnrollEnd, EnrollRowsBacked
    <3>5. EnrollAcknowledged'
      BY <2>6, <3>0, NoRowsIsSnapshot DEF EnrollSubmit, EnrollWalletToSubscription, Call, EnrollEnd,
         EnrollAcknowledged, TypeOK
    <3> QED BY <3>2, <3>3, <3>4, <3>5
  <2>7. ASSUME NEW d \in DeviceIds, EnrollSave(d) PROVE IInv'
    <3> DEFINE row == [enrollRows[d] EXCEPT !.subscriptionId = enrollSub]
    <3>1. d \in DOMAIN enrollRows /\ enrollSub \in SubIds /\ d \in allocations[enrollSub]
      <4>1. enrollPc = "save" /\ d \in DOMAIN enrollRows
        BY <2>7 DEF EnrollSave
      <4>2. enrollSub \in SubIds
        BY <4>1 DEF TypeOK
      <4>3. DOMAIN enrollRows \subseteq allocations[enrollSub]
        BY <4>1 DEF EnrollAcknowledged
      <4> QED BY <4>1, <4>2, <4>3
    <3>2. row \in Row /\ row.subscriptionId = enrollSub /\ row.feeGranted = enrollRows[d].feeGranted
      <4>1. enrollRows[d] \in Row
        BY <1>sub, <3>1
      <4> QED BY ONLY <3>1, <4>1, RowUpdates
    <3>3. row.feeGranted => d \in allowances
      BY <3>1, <3>2 DEF EnrollRowsBacked
    <3>4. Save(d, row) /\ UNCHANGED <<registered, allowances, allocations>>
      BY <2>7 DEF EnrollSave
    <3>5. FeeFlagBacked' /\ SubscriptionBacked'
      <4> HIDE DEF row
      <4> QED BY <3>1, <3>2, <3>3, <3>4, SaveBacked
    <3>6. EnrollRowsBacked' /\ EnrollAcknowledged'
      <4>1. CASE EnrollEnd
        BY <4>1, NoRowsIsSnapshot DEF EnrollEnd, EnrollRowsBacked, EnrollAcknowledged
      <4>2. CASE enrollRows' = Restrict(enrollRows, DOMAIN enrollRows \ {d}) /\ UNCHANGED <<enrollPc, enrollSub>>
        <5>1. /\ DOMAIN enrollRows' = DOMAIN enrollRows \ {d}
              /\ \A e \in DOMAIN enrollRows' : enrollRows'[e] = enrollRows[e]
          BY <4>2, RestrictSnapshot DEF TypeOK
        <5> QED BY <2>7, <4>2, <5>1 DEF EnrollSave, EnrollRowsBacked, EnrollAcknowledged
      <4> QED BY <2>7, <4>1, <4>2 DEF EnrollSave
    <3> QED BY <2>7, <3>5, <3>6 DEF EnrollSave, GrantRowsBacked, GrantAcknowledged
  <2> QED BY <1>5, <2>1, <2>2, <2>3, <2>4, <2>5, <2>6, <2>7 DEF EnrollStep
<1>6. CASE Crash
  BY <1>6, NoRowsIsSnapshot DEF Crash, GrantEnd, EnrollEnd, FeeFlagBacked, SubscriptionBacked,
     GrantRowsBacked, EnrollRowsBacked, GrantAcknowledged, EnrollAcknowledged
<1>7. CASE Stabilize
  BY <1>7 DEF Stabilize, FeeFlagBacked, SubscriptionBacked,
     GrantRowsBacked, EnrollRowsBacked, GrantAcknowledged, EnrollAcknowledged
<1>8. CASE UNCHANGED vars
  BY <1>8 DEF vars, FeeFlagBacked, SubscriptionBacked,
     GrantRowsBacked, EnrollRowsBacked, GrantAcknowledged, EnrollAcknowledged
<1> QED BY <1>1, <1>2, <1>3, <1>4, <1>5, <1>6, <1>7, <1>8 DEF Next, Work

LEMMA Inductive == Spec => []IInv
BY InitIInv, NextIInv, PTL DEF Spec

\* Whatever fails and however the whole-row writes interleave, a row that says
\* "fee granted" belongs to a wallet with an allowance on the chain.
THEOREM FeeFlagAlwaysBacked == Spec => []FeeFlagBacked
<1>1. IInv => FeeFlagBacked
  BY DEF IInv
<1> QED BY <1>1, Inductive, PTL

\* A row that names a subscription belongs to a wallet allocated to it.
THEOREM SubscriptionAlwaysBacked == Spec => []SubscriptionBacked
<1>1. IInv => SubscriptionBacked
  BY DEF IInv
<1> QED BY <1>1, Inductive, PTL

-----------------------------------------------------------------------------
(* Enrolment and bans survive the whole-row writes *)

\* One saved row: a settled device whose saved copy is settled stays enrolled.
LEMMA SaveKeepsEnrolled ==
  ASSUME TypeOK, NEW e \in DeviceIds, NEW row \in Row, Save(e, row),
         NEW d \in DeviceIds, IsEnrolled(d),
         d = e => row.feeGranted /\ row.subscriptionId # NoSub
  PROVE  IsEnrolled(d)'
<1>1. device'[d] = device[d] \/ (d = e /\ device'[d] = row)
  BY SaveEffect DEF TypeOK
<1> QED BY <1>1 DEF IsEnrolled

LEMMA SaveKeepsBan ==
  ASSUME TypeOK, NEW e \in DeviceIds, NEW row \in Row, Save(e, row),
         NEW d \in DeviceIds, device[d].banned, d = e => row.banned
  PROVE  device'[d].banned
<1>1. device'[d] = device[d] \/ (d = e /\ device'[d] = row)
  BY SaveEffect DEF TypeOK
<1> QED BY <1>1

LEMMA SettledStep ==
  ASSUME TypeOK, [Next]_vars, NEW d \in DeviceIds, Settled(d)
  PROVE  Settled(d)'
<1> USE DEF db, chain, grant, enroll
<1>1. ASSUME NEW e \in DeviceIds, CreateDevice(e) PROVE Settled(d)'
  BY <1>1 DEF CreateDevice, Settled, IsEnrolled, TypeOK
<1>2. ASSUME NEW e \in DeviceIds, Ban(e) PROVE Settled(d)'
  <2>1. /\ device'[d].feeGranted = device[d].feeGranted
        /\ device'[d].subscriptionId = device[d].subscriptionId
    BY <1>2, RowUpdates DEF Ban, TypeOK
  <2> QED BY <1>2, <2>1 DEF Ban, Settled, IsEnrolled
<1>3. ASSUME NEW s \in SubIds, Age(s) PROVE Settled(d)'
  BY <1>3 DEF Age, Settled, IsEnrolled
<1>4. ASSUME GrantStep PROVE Settled(d)'
  <2>1. CASE GrantLoad
    <3>1. PICK B \in SUBSET {e \in registered : ~device[e].feeGranted} :
            grantRows' = Restrict(device, B)
      BY <2>1 DEF GrantLoad, OldestOf
    <3>2. d \notin DOMAIN grantRows'
      BY <3>1, RestrictIsSnapshot DEF TypeOK, Settled, IsEnrolled
    <3> QED BY <2>1, <3>2 DEF GrantLoad, Settled, IsEnrolled
  <2>2. CASE GrantFetch
    BY <2>2, NoRowsIsSnapshot DEF GrantFetch, GrantEnd, Settled, IsEnrolled
  <2>3. CASE GrantSubmit
    BY <2>3, NoRowsIsSnapshot DEF GrantSubmit, GrantEnd, Settled, IsEnrolled
  <2>4. ASSUME NEW e \in DeviceIds, GrantMark(e) PROVE Settled(d)'
    <3> DEFINE row == [grantRows[e] EXCEPT !.feeGranted = TRUE]
    <3>1. e \in DOMAIN grantRows /\ grantRows[e] \in Row
      BY <2>4 DEF GrantMark, TypeOK, IsSnapshot
    <3>2. row \in Row /\ row.feeGranted /\ row.subscriptionId = grantRows[e].subscriptionId
      BY <3>1, RowUpdates
    <3>3. Save(e, row) /\ UNCHANGED <<registered, grantRows, enrollRows>>
      BY <2>4 DEF GrantMark
    <3>4. IsEnrolled(d)'
      <4> HIDE DEF row
      <4> QED BY <3>1, <3>2, <3>3, SaveKeepsEnrolled DEF Settled
    <3> QED BY <3>3, <3>4 DEF Settled
  <2>5. ASSUME NEW e \in DeviceIds, GrantSave(e) PROVE Settled(d)'
    <3> DEFINE row == [grantRows[e] EXCEPT !.feeGranted = TRUE]
    <3>1. e \in DOMAIN grantRows /\ grantRows[e] \in Row
      BY <2>5 DEF GrantSave, TypeOK, IsSnapshot
    <3>2. row \in Row /\ row.feeGranted /\ row.subscriptionId = grantRows[e].subscriptionId
      BY <3>1, RowUpdates
    <3>3. Save(e, row) /\ UNCHANGED <<registered, enrollRows>>
      BY <2>5 DEF GrantSave
    <3>4. IsEnrolled(d)'
      <4> HIDE DEF row
      <4> QED BY <3>1, <3>2, <3>3, SaveKeepsEnrolled DEF Settled
    <3>5. \A c \in DOMAIN grantRows' : c \in DOMAIN grantRows /\ grantRows'[c] = grantRows[c]
      BY <2>5, RestrictSnapshot DEF GrantSave, TypeOK
    <3> QED BY <3>3, <3>4, <3>5 DEF Settled
  <2> QED BY <1>4, <2>1, <2>2, <2>3, <2>4, <2>5 DEF GrantStep
<1>5. ASSUME EnrollStep PROVE Settled(d)'
  <2>1. CASE EnrollSelect
    BY <2>1 DEF EnrollSelect, Settled, IsEnrolled
  <2>2. CASE EnrollCreate
    BY <2>2, NoRowsIsSnapshot DEF EnrollCreate, EnrollEnd, Settled, IsEnrolled
  <2>3. CASE FindSubscriptionByID
    BY <2>3, NoRowsIsSnapshot DEF FindSubscriptionByID, EnrollEnd, Settled, IsEnrolled
  <2>4. CASE EnrollRecord
    BY <2>4, NoRowsIsSnapshot DEF EnrollRecord, EnrollEnd, Settled, IsEnrolled
  <2>5. CASE EnrollLoad
    <3>1. d \in DOMAIN enrollRows' => enrollRows'[d].feeGranted
      <4>1. CASE EnrollEnd
        BY <4>1, NoRowsIsSnapshot DEF EnrollEnd
      <4>2. ASSUME NEW B, B \subseteq registered, enrollRows' = Restrict(device, B)
            PROVE  d \in DOMAIN enrollRows' => enrollRows'[d].feeGranted
        BY <4>2, RestrictIsSnapshot DEF TypeOK, Settled, IsEnrolled
      <4> QED BY <2>5, <4>1, <4>2 DEF EnrollLoad, NewestOf
    <3> QED BY <2>5, <3>1 DEF EnrollLoad, Settled, IsEnrolled
  <2>6. CASE EnrollSubmit
    BY <2>6, NoRowsIsSnapshot DEF EnrollSubmit, EnrollEnd, Settled, IsEnrolled
  <2>7. ASSUME NEW e \in DeviceIds, EnrollSave(e) PROVE Settled(d)'
    <3> DEFINE row == [enrollRows[e] EXCEPT !.subscriptionId = enrollSub]
    <3>1. e \in DOMAIN enrollRows /\ enrollRows[e] \in Row /\ enrollSub \in SubIds
      BY <2>7 DEF EnrollSave, TypeOK, IsSnapshot
    <3>2. row \in Row /\ row.feeGranted = enrollRows[e].feeGranted /\ row.subscriptionId = enrollSub
      BY <3>1, RowUpdates
    <3>3. Save(e, row) /\ UNCHANGED <<registered, grantRows>> /\ enrollSub # NoSub
      BY <2>7, <3>1, IdsAreNumbers DEF EnrollSave, NoSub
    <3>4. IsEnrolled(d)'
      <4> HIDE DEF row
      <4> QED BY <3>1, <3>2, <3>3, SaveKeepsEnrolled DEF Settled
    <3>5. \A c \in DOMAIN enrollRows' : c \in DOMAIN enrollRows /\ enrollRows'[c] = enrollRows[c]
      BY <2>7, RestrictSnapshot, NoRowsIsSnapshot DEF EnrollSave, EnrollEnd, TypeOK
    <3> QED BY <3>3, <3>4, <3>5 DEF Settled
  <2> QED BY <1>5, <2>1, <2>2, <2>3, <2>4, <2>5, <2>6, <2>7 DEF EnrollStep
<1>6. CASE Crash
  BY <1>6, NoRowsIsSnapshot DEF Crash, GrantEnd, EnrollEnd, Settled, IsEnrolled
<1>7. CASE Stabilize
  BY <1>7 DEF Stabilize, Settled, IsEnrolled
<1>8. CASE UNCHANGED vars
  BY <1>8 DEF vars, Settled, IsEnrolled
<1> QED BY <1>1, <1>2, <1>3, <1>4, <1>5, <1>6, <1>7, <1>8 DEF Next, Work

\* A device that is enrolled, with no older copy of its row in a job's hands,
\* is never un-enrolled, whatever fails.
THEOREM EnrolmentIsForEver == Spec => SettledForever
<1>1. TypeOK /\ [Next]_vars => [\A d \in DeviceIds : Settled(d) => Settled(d)']_vars
  BY SettledStep
<1> QED BY <1>1, TypeCorrect, PTL DEF Spec, SettledForever

LEMMA BanDrainedStep ==
  ASSUME TypeOK, [Next]_vars, NEW d \in DeviceIds, BanDrained(d)
  PROVE  BanDrained(d)'
<1> USE DEF db, chain, grant, enroll
<1>1. ASSUME NEW e \in DeviceIds, CreateDevice(e) PROVE BanDrained(d)'
  BY <1>1 DEF CreateDevice, BanDrained, TypeOK
<1>2. ASSUME NEW e \in DeviceIds, Ban(e) PROVE BanDrained(d)'
  <2>1. device'[d].banned
    BY <1>2, RowUpdates DEF Ban, TypeOK, BanDrained
  <2> QED BY <1>2, <2>1 DEF Ban, BanDrained
<1>3. ASSUME NEW s \in SubIds, Age(s) PROVE BanDrained(d)'
  BY <1>3 DEF Age, BanDrained
<1>4. ASSUME GrantStep PROVE BanDrained(d)'
  <2>1. CASE GrantLoad
    <3>1. PICK B \in SUBSET registered : grantRows' = Restrict(device, B)
      BY <2>1 DEF GrantLoad, OldestOf
    <3>2. d \in DOMAIN grantRows' => grantRows'[d].banned
      BY <3>1, RestrictIsSnapshot DEF TypeOK, BanDrained
    <3> QED BY <2>1, <3>2 DEF GrantLoad, BanDrained
  <2>2. CASE GrantFetch
    BY <2>2, NoRowsIsSnapshot DEF GrantFetch, GrantEnd, BanDrained
  <2>3. CASE GrantSubmit
    BY <2>3, NoRowsIsSnapshot DEF GrantSubmit, GrantEnd, BanDrained
  <2>4. ASSUME NEW e \in DeviceIds, GrantMark(e) PROVE BanDrained(d)'
    <3> DEFINE row == [grantRows[e] EXCEPT !.feeGranted = TRUE]
    <3>1. e \in DOMAIN grantRows /\ grantRows[e] \in Row
      BY <2>4 DEF GrantMark, TypeOK, IsSnapshot
    <3>2. row \in Row /\ row.banned = grantRows[e].banned
      BY <3>1, RowUpdates
    <3>3. Save(e, row) /\ UNCHANGED <<registered, grantRows, enrollRows>>
      BY <2>4 DEF GrantMark
    <3>4. device'[d].banned
      <4> HIDE DEF row
      <4> QED BY <3>1, <3>2, <3>3, SaveKeepsBan DEF BanDrained
    <3> QED BY <3>3, <3>4 DEF BanDrained
  <2>5. ASSUME NEW e \in DeviceIds, GrantSave(e) PROVE BanDrained(d)'
    <3> DEFINE row == [grantRows[e] EXCEPT !.feeGranted = TRUE]
    <3>1. e \in DOMAIN grantRows /\ grantRows[e] \in Row
      BY <2>5 DEF GrantSave, TypeOK, IsSnapshot
    <3>2. row \in Row /\ row.banned = grantRows[e].banned
      BY <3>1, RowUpdates
    <3>3. Save(e, row) /\ UNCHANGED <<registered, enrollRows>>
      BY <2>5 DEF GrantSave
    <3>4. device'[d].banned
      <4> HIDE DEF row
      <4> QED BY <3>1, <3>2, <3>3, SaveKeepsBan DEF BanDrained
    <3>5. \A c \in DOMAIN grantRows' : c \in DOMAIN grantRows /\ grantRows'[c] = grantRows[c]
      BY <2>5, RestrictSnapshot DEF GrantSave, TypeOK
    <3> QED BY <3>3, <3>4, <3>5 DEF BanDrained
  <2> QED BY <1>4, <2>1, <2>2, <2>3, <2>4, <2>5 DEF GrantStep
<1>5. ASSUME EnrollStep PROVE BanDrained(d)'
  <2>1. CASE EnrollSelect
    BY <2>1 DEF EnrollSelect, BanDrained
  <2>2. CASE EnrollCreate
    BY <2>2, NoRowsIsSnapshot DEF EnrollCreate, EnrollEnd, BanDrained
  <2>3. CASE FindSubscriptionByID
    BY <2>3, NoRowsIsSnapshot DEF FindSubscriptionByID, EnrollEnd, BanDrained
  <2>4. CASE EnrollRecord
    BY <2>4, NoRowsIsSnapshot DEF EnrollRecord, EnrollEnd, BanDrained
  <2>5. CASE EnrollLoad
    <3>1. d \in DOMAIN enrollRows' => enrollRows'[d].banned
      <4>1. CASE EnrollEnd
        BY <4>1, NoRowsIsSnapshot DEF EnrollEnd
      <4>2. ASSUME NEW B, B \subseteq registered, enrollRows' = Restrict(device, B)
            PROVE  d \in DOMAIN enrollRows' => enrollRows'[d].banned
        BY <4>2, RestrictIsSnapshot DEF TypeOK, BanDrained
      <4> QED BY <2>5, <4>1, <4>2 DEF EnrollLoad, NewestOf
    <3> QED BY <2>5, <3>1 DEF EnrollLoad, BanDrained
  <2>6. CASE EnrollSubmit
    BY <2>6, NoRowsIsSnapshot DEF EnrollSubmit, EnrollEnd, BanDrained
  <2>7. ASSUME NEW e \in DeviceIds, EnrollSave(e) PROVE BanDrained(d)'
    <3> DEFINE row == [enrollRows[e] EXCEPT !.subscriptionId = enrollSub]
    <3>1. e \in DOMAIN enrollRows /\ enrollRows[e] \in Row /\ enrollSub \in SubIds
      BY <2>7 DEF EnrollSave, TypeOK, IsSnapshot
    <3>2. row \in Row /\ row.banned = enrollRows[e].banned
      BY <3>1, RowUpdates
    <3>3. Save(e, row) /\ UNCHANGED <<registered, grantRows>>
      BY <2>7, <3>1 DEF EnrollSave
    <3>4. device'[d].banned
      <4> HIDE DEF row
      <4> QED BY <3>1, <3>2, <3>3, SaveKeepsBan DEF BanDrained
    <3>5. \A c \in DOMAIN enrollRows' : c \in DOMAIN enrollRows /\ enrollRows'[c] = enrollRows[c]
      BY <2>7, RestrictSnapshot, NoRowsIsSnapshot DEF EnrollSave, EnrollEnd, TypeOK
    <3> QED BY <3>3, <3>4, <3>5 DEF BanDrained
  <2> QED BY <1>5, <2>1, <2>2, <2>3, <2>4, <2>5, <2>6, <2>7 DEF EnrollStep
<1>6. CASE Crash
  BY <1>6, NoRowsIsSnapshot DEF Crash, GrantEnd, EnrollEnd, BanDrained
<1>7. CASE Stabilize
  BY <1>7 DEF Stabilize, BanDrained
<1>8. CASE UNCHANGED vars
  BY <1>8 DEF vars, BanDrained
<1> QED BY <1>1, <1>2, <1>3, <1>4, <1>5, <1>6, <1>7, <1>8 DEF Next, Work

\* A ban no job holds an older copy of is never lifted, whatever fails.
THEOREM BanIsForEver == Spec => BanHolds
<1>1. TypeOK /\ [Next]_vars => [\A d \in DeviceIds : BanDrained(d) => BanDrained(d)']_vars
  BY BanDrainedStep
<1> QED BY <1>1, TypeCorrect, PTL DEF Spec, BanHolds

-----------------------------------------------------------------------------
(* Purchases and the succession of subscriptions *)

\* The chain gives out ids in order.
BoughtInOrder ==
  \A s, t \in SubIds : s < t /\ lifetime[s] = "none" => lifetime[t] = "none"

\* Only a purchase is ever recorded.
RecordedBought == \A s \in planSubscriptions : lifetime[s] # "none"

\* Between looking for a live subscription and recording a new one, none
\* appears: only this job records them, and it is one run at a time.
NoneLiveWhenBuying == enrollPc \in {"create", "find", "record"} => Live = {}

\* A purchase under way is newer than everything recorded, and what a run
\* enrolls devices in is recorded and the newest.
PurchaseIsNewest ==
  enrollPc \in {"find", "record"} =>
    lifetime[enrollSub] # "none" /\ \A s \in planSubscriptions : s < enrollSub
SelectedIsNewest ==
  enrollPc \in {"load", "submit", "save"} =>
    enrollSub \in planSubscriptions /\ \A s \in planSubscriptions : s <= enrollSub

SuccessionInv ==
  /\ BoughtInOrder
  /\ RecordedBought
  /\ Succession
  /\ NoneLiveWhenBuying
  /\ PurchaseIsNewest
  /\ SelectedIsNewest

LEMMA InitSuccessionInv == Init => SuccessionInv
BY DEF Init, SuccessionInv, BoughtInOrder, RecordedBought, Succession, NoneLiveWhenBuying,
   PurchaseIsNewest, SelectedIsNewest

LEMMA NextSuccessionInv ==
  ASSUME TypeOK, SuccessionInv, [Next]_vars
  PROVE  SuccessionInv'
<1> USE DEF db, chain, grant, enroll
<1>0. /\ SubIds \subseteq Int /\ NoSub \notin SubIds
      /\ planSubscriptions \subseteq SubIds
      /\ lifetime \in [SubIds -> {"none", "long", "short"}]
      /\ enrollPc \in {"find", "record", "load", "submit", "save"} => enrollSub \in SubIds
  BY SubsAreNumbers DEF TypeOK
<1> DEFINE Quiet == UNCHANGED <<lifetime, planSubscriptions>>
<1>1. CASE Quiet /\ UNCHANGED <<enrollPc, enrollSub>>
  BY <1>1 DEF SuccessionInv, BoughtInOrder, RecordedBought, Succession, NoneLiveWhenBuying,
     PurchaseIsNewest, SelectedIsNewest, Live
\* A run that ends leaves the two stores to the next.
<1>2. CASE Quiet /\ EnrollEnd
  BY <1>2 DEF EnrollEnd, SuccessionInv, BoughtInOrder, RecordedBought, Succession, NoneLiveWhenBuying,
     PurchaseIsNewest, SelectedIsNewest
<1>3. ASSUME NEW s \in SubIds, Age(s) PROVE SuccessionInv'
  <2>1. /\ lifetime[s] = "long" /\ lifetime'[s] = "short"
        /\ \A t \in SubIds \ {s} : lifetime'[t] = lifetime[t]
        /\ UNCHANGED <<planSubscriptions, enrollPc, enrollSub>>
    BY <1>3, <1>0 DEF Age
  <2>2. BoughtInOrder' /\ RecordedBought' /\ Succession'
    BY <2>1, <1>0 DEF SuccessionInv, BoughtInOrder, RecordedBought, Succession
  <2>3. NoneLiveWhenBuying' /\ PurchaseIsNewest' /\ SelectedIsNewest'
    BY <2>1, <1>0 DEF SuccessionInv, NoneLiveWhenBuying, PurchaseIsNewest, SelectedIsNewest, Live
  <2> QED BY <2>2, <2>3 DEF SuccessionInv
<1>4. CASE EnrollSelect
  <2>1. CASE Live = {} /\ enrollPc' = "create"
    BY <1>4, <2>1 DEF EnrollSelect, SuccessionInv, BoughtInOrder, RecordedBought, Succession,
       NoneLiveWhenBuying, PurchaseIsNewest, SelectedIsNewest, Live
  <2>2. ASSUME NEW s \in Live, enrollPc' = "load", enrollSub' = s PROVE SuccessionInv'
    <3>1. s \in planSubscriptions /\ lifetime[s] = "long"
      BY DEF Live
    <3>2. \A t \in planSubscriptions : t <= s
      BY <3>1, <1>0 DEF SuccessionInv, Succession
    <3> QED BY <1>4, <2>2, <3>1, <3>2 DEF EnrollSelect, SuccessionInv, BoughtInOrder, RecordedBought,
          Succession, NoneLiveWhenBuying, PurchaseIsNewest, SelectedIsNewest
  <2> QED BY <1>4, <2>1, <2>2 DEF EnrollSelect
<1>5. CASE EnrollCreate
  <2>1. ASSUME NEW s \in Unbought, \A t \in Unbought : s <= t,
               lifetime' = [lifetime EXCEPT ![s] = "long"]
        PROVE  SuccessionInv'
    <3>1. /\ s \in SubIds /\ lifetime[s] = "none" /\ lifetime'[s] = "long"
          /\ \A t \in SubIds \ {s} : lifetime'[t] = lifetime[t]
          /\ UNCHANGED planSubscriptions
      BY <1>5, <2>1, <1>0 DEF EnrollCreate, Unbought
    <3>2. BoughtInOrder'
      BY <2>1, <3>1, <1>0 DEF SuccessionInv, BoughtInOrder, Unbought
    \* Whatever is recorded was bought before, so its id is lower.
    <3>3. \A t \in planSubscriptions : t < s /\ lifetime'[t] = lifetime[t]
      BY <2>1, <3>1, <1>0 DEF SuccessionInv, BoughtInOrder, RecordedBought
    <3>4. RecordedBought' /\ Succession'
      BY <3>1, <3>3, <1>0 DEF SuccessionInv, RecordedBought, Succession
    <3>5. Live' = {}
      BY <1>5, <3>1, <3>3 DEF EnrollCreate, SuccessionInv, NoneLiveWhenBuying, Live
    <3>6. (enrollPc' = "find" /\ enrollSub' = s) \/ EnrollEnd
      BY <1>5, <2>1, <3>1, <1>0 DEF EnrollCreate, CreatePlanSubscription, Call, Unbought
    <3>7. NoneLiveWhenBuying' /\ PurchaseIsNewest' /\ SelectedIsNewest'
      BY <3>1, <3>3, <3>5, <3>6 DEF EnrollEnd, NoneLiveWhenBuying, PurchaseIsNewest, SelectedIsNewest
    <3> QED BY <3>2, <3>4, <3>7 DEF SuccessionInv
  <2> QED BY <1>5, <1>2, <2>1 DEF EnrollCreate, CreatePlanSubscription, Call
<1>6. CASE FindSubscriptionByID
  <2>1. CASE enrollPc' = "record" /\ UNCHANGED enrollSub
    BY <1>6, <2>1 DEF FindSubscriptionByID, SuccessionInv, BoughtInOrder, RecordedBought, Succession,
       NoneLiveWhenBuying, PurchaseIsNewest, SelectedIsNewest, Live
  <2> QED BY <1>6, <1>2, <2>1 DEF FindSubscriptionByID
<1>7. CASE EnrollRecord
  <2>0. /\ enrollPc = "record" /\ UNCHANGED lifetime
        /\ enrollSub \in SubIds /\ lifetime[enrollSub] # "none"
        /\ \A s \in planSubscriptions : s < enrollSub
    BY <1>7, <1>0 DEF EnrollRecord, SuccessionInv, PurchaseIsNewest
  <2>1. CASE planSubscriptions' = planSubscriptions \cup {enrollSub}
    <3>1. BoughtInOrder' /\ RecordedBought'
      BY <2>0, <2>1 DEF SuccessionInv, BoughtInOrder, RecordedBought
    \* Nothing recorded before was live any more.
    <3>2. \A s \in planSubscriptions : lifetime[s] = "short"
      BY <2>0, <1>0 DEF SuccessionInv, RecordedBought, NoneLiveWhenBuying, Live
    <3>3. Succession'
      BY <2>0, <2>1, <3>2, <1>0 DEF Succession
    <3>4. (enrollPc' = "load" /\ UNCHANGED enrollSub) \/ EnrollEnd
      BY <1>7 DEF EnrollRecord
    <3>5. NoneLiveWhenBuying' /\ PurchaseIsNewest' /\ SelectedIsNewest'
      BY <2>0, <2>1, <3>4, <1>0 DEF EnrollEnd, NoneLiveWhenBuying, PurchaseIsNewest, SelectedIsNewest
    <3> QED BY <3>1, <3>3, <3>5 DEF SuccessionInv
  <2> QED BY <1>7, <1>2, <2>0, <2>1 DEF EnrollRecord
<1>8. CASE EnrollLoad \/ EnrollSubmit \/ \E d \in DeviceIds : EnrollSave(d)
  <2>1. Quiet /\ enrollPc \in {"load", "submit", "save"}
    BY <1>8 DEF EnrollLoad, EnrollSubmit, EnrollSave
  <2>2. EnrollEnd \/ (enrollPc' \in {"load", "submit", "save"} /\ UNCHANGED enrollSub)
    BY <1>8 DEF EnrollLoad, EnrollSubmit, EnrollSave
  <2> QED BY <1>2, <2>1, <2>2 DEF SuccessionInv, BoughtInOrder, RecordedBought, Succession,
        NoneLiveWhenBuying, PurchaseIsNewest, SelectedIsNewest
<1>9. CASE EnrollStep
  BY <1>9, <1>4, <1>5, <1>6, <1>7, <1>8 DEF EnrollStep
<1>10. CASE Crash
  BY <1>10, <1>2 DEF Crash
<1> QED BY <1>1, <1>3, <1>9, <1>10 DEF Next, Work, vars, CreateDevice, Ban, Stabilize,
       GrantStep, GrantLoad, GrantFetch, GrantMark, GrantSubmit, GrantSave

LEMMA SuccessionInductive == Spec => []SuccessionInv
<1>1. TypeOK /\ SuccessionInv /\ [Next]_vars => SuccessionInv'
  BY NextSuccessionInv
<1> QED BY <1>1, InitSuccessionInv, TypeCorrect, PTL DEF Spec

\* Whatever is lost or abandoned on the way, at most one recorded subscription
\* has a day left, and it is the newest.
THEOREM SubscriptionsSucceedOneAnother == Spec => []Succession
<1>1. SuccessionInv => Succession
  BY DEF SuccessionInv
<1> QED BY <1>1, SuccessionInductive, PTL

\* No plan subscription is bought while a recorded one has a day or more left.
THEOREM PurchasesAreNeeded == Spec => NoRedundantPurchase
<1>1. TypeOK /\ SuccessionInv /\ [Next]_vars =>
        [\A s \in SubIds : lifetime[s] = "none" /\ lifetime'[s] # "none" => Live = {}]_vars
  <2> SUFFICES ASSUME TypeOK, SuccessionInv, Next, NEW s \in SubIds,
                      lifetime[s] = "none", lifetime'[s] # "none"
               PROVE  Live = {}
    OBVIOUS
  <2>1. ~ UNCHANGED lifetime
    OBVIOUS
  <2>2. ~ \E t \in SubIds : Age(t)
    BY DEF Age, TypeOK
  <2>3. EnrollCreate
    BY <2>1, <2>2 DEF Next, Work, chain, CreateDevice, Ban, Crash, Stabilize,
       GrantStep, GrantLoad, GrantFetch, GrantMark, GrantSubmit, GrantSave,
       EnrollStep, EnrollSelect, FindSubscriptionByID, EnrollRecord, EnrollLoad, EnrollSubmit, EnrollSave
  <2> QED BY <2>3 DEF EnrollCreate, SuccessionInv, NoneLiveWhenBuying
<1> QED BY <1>1, TypeCorrect, SuccessionInductive, PTL DEF Spec, NoRedundantPurchase

-----------------------------------------------------------------------------
(* Devices move forward *)

Recorded == planSubscriptions \cup {NoSub}

\* Rows, and the copies of rows the jobs hold, name recorded subscriptions.
RowsInRecorded ==
  /\ EnrolledInRecorded
  /\ \A d \in DOMAIN grantRows : grantRows[d].subscriptionId \in Recorded
  /\ \A d \in DOMAIN enrollRows : enrollRows[d].subscriptionId \in Recorded

\* A saved row that names a recorded subscription leaves every row with one.
LEMMA SaveInRecorded ==
  ASSUME TypeOK, EnrolledInRecorded, NEW d \in DeviceIds, NEW row \in Row, Save(d, row),
         row.subscriptionId \in Recorded, UNCHANGED <<registered, planSubscriptions>>
  PROVE  EnrolledInRecorded'
<1>1. \A e \in DeviceIds : device'[e] = device[e] \/ (e = d /\ device'[e] = row)
  BY SaveEffect DEF TypeOK
<1> QED BY <1>1 DEF TypeOK, EnrolledInRecorded, Recorded

LEMMA NextRowsInRecorded ==
  ASSUME TypeOK, SuccessionInv, RowsInRecorded, [Next]_vars
  PROVE  RowsInRecorded'
<1> USE DEF db, chain, grant, enroll
<1>1. CASE UNCHANGED <<registered, device, planSubscriptions, grantRows, enrollRows>>
  BY <1>1 DEF RowsInRecorded, EnrolledInRecorded, Recorded
\* A run that ends forgets its rows.
<1>2. CASE UNCHANGED <<registered, device, planSubscriptions, grantRows>> /\ EnrollEnd
  BY <1>2, NoRowsIsSnapshot DEF EnrollEnd, RowsInRecorded, EnrolledInRecorded, Recorded
<1>3. CASE UNCHANGED <<registered, device, planSubscriptions, enrollRows>> /\ GrantEnd
  BY <1>3, NoRowsIsSnapshot DEF GrantEnd, RowsInRecorded, EnrolledInRecorded, Recorded
<1>4. ASSUME NEW d \in DeviceIds, CreateDevice(d) PROVE RowsInRecorded'
  BY <1>4 DEF CreateDevice, NewRow, TypeOK, RowsInRecorded, EnrolledInRecorded, Recorded
<1>5. ASSUME NEW d \in DeviceIds, Ban(d) PROVE RowsInRecorded'
  <2>1. \A e \in DeviceIds : device'[e].subscriptionId = device[e].subscriptionId
    BY <1>5, RowUpdates DEF Ban, TypeOK
  <2> QED BY <1>5, <2>1 DEF Ban, TypeOK, RowsInRecorded, EnrolledInRecorded, Recorded
<1>6. CASE GrantStep
  <2>1. CASE GrantLoad
    <3>1. PICK B \in SUBSET registered : grantRows' = Restrict(device, B)
      BY <2>1 DEF GrantLoad, OldestOf
    <3>2. \A d \in DOMAIN grantRows' : d \in registered /\ grantRows'[d] = device[d]
      BY <3>1, RestrictIsSnapshot DEF TypeOK
    <3> QED BY <2>1, <3>2 DEF GrantLoad, RowsInRecorded, EnrolledInRecorded, Recorded
  <2>2. CASE GrantFetch \/ GrantSubmit
    BY <1>1, <1>3, <2>2 DEF GrantFetch, GrantSubmit
  <2>3. ASSUME NEW d \in DeviceIds, GrantMark(d) PROVE RowsInRecorded'
    <3> DEFINE row == [grantRows[d] EXCEPT !.feeGranted = TRUE]
    <3>1. d \in DOMAIN grantRows /\ grantRows[d] \in Row
      BY <2>3 DEF GrantMark, TypeOK, IsSnapshot
    <3>2. row \in Row /\ row.subscriptionId \in Recorded
      BY <3>1, RowUpdates DEF RowsInRecorded
    <3>3. Save(d, row) /\ UNCHANGED <<registered, planSubscriptions, grantRows, enrollRows>>
      BY <2>3 DEF GrantMark
    <3>4. EnrolledInRecorded'
      <4> HIDE DEF row
      <4> QED BY <3>2, <3>3, SaveInRecorded DEF RowsInRecorded
    <3> QED BY <3>3, <3>4 DEF RowsInRecorded, Recorded
  <2>4. ASSUME NEW d \in DeviceIds, GrantSave(d) PROVE RowsInRecorded'
    <3> DEFINE row == [grantRows[d] EXCEPT !.feeGranted = TRUE]
    <3>1. d \in DOMAIN grantRows /\ grantRows[d] \in Row
      BY <2>4 DEF GrantSave, TypeOK, IsSnapshot
    <3>2. row \in Row /\ row.subscriptionId \in Recorded
      BY <3>1, RowUpdates DEF RowsInRecorded
    <3>3. Save(d, row) /\ UNCHANGED <<registered, planSubscriptions, enrollRows>>
      BY <2>4 DEF GrantSave
    <3>4. EnrolledInRecorded'
      <4> HIDE DEF row
      <4> QED BY <3>2, <3>3, SaveInRecorded DEF RowsInRecorded
    <3>5. \A e \in DOMAIN grantRows' : e \in DOMAIN grantRows /\ grantRows'[e] = grantRows[e]
      BY <2>4, RestrictSnapshot DEF GrantSave, TypeOK
    <3> QED BY <3>3, <3>4, <3>5 DEF RowsInRecorded, Recorded
  <2> QED BY <1>6, <2>1, <2>2, <2>3, <2>4 DEF GrantStep
<1>7. CASE EnrollStep
  <2>1. CASE EnrollSelect \/ EnrollCreate \/ FindSubscriptionByID \/ EnrollSubmit
    BY <1>1, <1>2, <2>1 DEF EnrollSelect, EnrollCreate, FindSubscriptionByID, EnrollSubmit
  <2>2. CASE EnrollRecord
    BY <2>2, NoRowsIsSnapshot DEF EnrollRecord, EnrollEnd, RowsInRecorded, EnrolledInRecorded, Recorded
  <2>3. CASE EnrollLoad
    <3>1. ASSUME NEW B, B \subseteq registered, enrollRows' = Restrict(device, B)
          PROVE  RowsInRecorded'
      <4>1. \A d \in DOMAIN enrollRows' : d \in registered /\ enrollRows'[d] = device[d]
        BY <3>1, RestrictIsSnapshot DEF TypeOK
      <4> QED BY <2>3, <4>1 DEF EnrollLoad, RowsInRecorded, EnrolledInRecorded, Recorded
    <3> QED BY <1>2, <2>3, <3>1 DEF EnrollLoad, NewestOf
  <2>4. ASSUME NEW d \in DeviceIds, EnrollSave(d) PROVE RowsInRecorded'
    <3> DEFINE row == [enrollRows[d] EXCEPT !.subscriptionId = enrollSub]
    <3>1. d \in DOMAIN enrollRows /\ enrollRows[d] \in Row /\ enrollSub \in SubIds
      BY <2>4 DEF EnrollSave, TypeOK, IsSnapshot
    <3>2. row \in Row /\ row.subscriptionId \in Recorded
      BY <2>4, <3>1, RowUpdates DEF EnrollSave, SuccessionInv, SelectedIsNewest, Recorded
    <3>3. Save(d, row) /\ UNCHANGED <<registered, planSubscriptions, grantRows>>
      BY <2>4 DEF EnrollSave
    <3>4. EnrolledInRecorded'
      <4> HIDE DEF row
      <4> QED BY <3>2, <3>3, SaveInRecorded DEF RowsInRecorded
    <3>5. \A e \in DOMAIN enrollRows' : e \in DOMAIN enrollRows /\ enrollRows'[e] = enrollRows[e]
      BY <2>4, RestrictSnapshot, NoRowsIsSnapshot DEF EnrollSave, EnrollEnd, TypeOK
    <3> QED BY <3>3, <3>4, <3>5 DEF RowsInRecorded, Recorded
  <2> QED BY <1>7, <2>1, <2>2, <2>3, <2>4 DEF EnrollStep
<1>8. CASE Crash
  BY <1>8, NoRowsIsSnapshot DEF Crash, GrantEnd, EnrollEnd, RowsInRecorded, EnrolledInRecorded, Recorded
<1> QED BY <1>1, <1>4, <1>5, <1>6, <1>7, <1>8 DEF Next, Work, vars, Age, Stabilize

LEMMA RowsInductive == Spec => []RowsInRecorded
<1>1. Init => RowsInRecorded
  BY NoRowsIsSnapshot DEF Init, RowsInRecorded, EnrolledInRecorded
<1>2. TypeOK /\ SuccessionInv /\ RowsInRecorded /\ [Next]_vars => RowsInRecorded'
  BY NextRowsInRecorded
<1> QED BY <1>1, <1>2, TypeCorrect, SuccessionInductive, PTL DEF Spec

\* No device is enrolled in a subscription the database has not recorded.
THEOREM EnrolmentIsRecorded == Spec => []EnrolledInRecorded
<1>1. RowsInRecorded => EnrolledInRecorded
  BY DEF RowsInRecorded
<1> QED BY <1>1, RowsInductive, PTL

\* Only the grant job's older copy of a row takes a device back to an earlier
\* subscription, or to none.
LEMMA ForwardStep ==
  ASSUME TypeOK, SuccessionInv, RowsInRecorded, [Next]_vars, NEW d \in registered,
         device'[d].subscriptionId < device[d].subscriptionId
  PROVE  d \in DOMAIN grantRows /\ grantRows[d].subscriptionId = device'[d].subscriptionId
<1> USE DEF db, chain, grant, enroll
<1>0. /\ d \in DeviceIds /\ device[d].subscriptionId \in Recorded /\ Recorded \subseteq Int
  BY SubsAreNumbers DEF TypeOK, RowsInRecorded, EnrolledInRecorded, Recorded
<1>moved. device'[d].subscriptionId # device[d].subscriptionId
  <2>1. ASSUME NEW i \in Int PROVE ~(i < i)
    OBVIOUS
  <2> QED BY <1>0, <2>1
<1>1. ASSUME NEW e \in DeviceIds, CreateDevice(e) PROVE FALSE
  BY <1>0, <1>moved, <1>1 DEF CreateDevice, TypeOK
<1>2. ASSUME NEW e \in DeviceIds, Ban(e) PROVE FALSE
  <2>1. device'[d].subscriptionId = device[d].subscriptionId
    BY <1>0, <1>2, RowUpdates DEF Ban, TypeOK
  <2> QED BY <1>moved, <2>1
<1>3. ASSUME NEW e \in DeviceIds, EnrollSave(e) PROVE FALSE
  <2> DEFINE row == [enrollRows[e] EXCEPT !.subscriptionId = enrollSub]
  <2>1. e \in DOMAIN enrollRows /\ enrollRows[e] \in Row /\ enrollSub \in SubIds
    BY <1>3 DEF EnrollSave, TypeOK, IsSnapshot
  <2>2. row \in Row /\ row.subscriptionId = enrollSub /\ Save(e, row)
    BY <1>3, <2>1, RowUpdates DEF EnrollSave
  <2>3. device'[d] = device[d] \/ device'[d].subscriptionId = enrollSub
    <3> HIDE DEF row
    <3> QED BY <1>0, <2>2, SaveEffect DEF TypeOK
  <2>4. device[d].subscriptionId <= enrollSub
    <3>1. NoSub <= enrollSub
      BY <2>1, IdsAreNumbers DEF NoSub
    <3> QED BY <1>0, <1>3, <3>1 DEF EnrollSave, SuccessionInv, SelectedIsNewest, Recorded
  <2>5. enrollSub \in Int /\ device[d].subscriptionId \in Int
    BY <1>0, <2>1, SubsAreNumbers
  <2>6. enrollSub < device[d].subscriptionId
    BY <1>moved, <2>3
  <2> QED BY <2>4, <2>5, <2>6
<1>4. ASSUME NEW e \in DeviceIds, GrantMark(e) \/ GrantSave(e)
      PROVE  d \in DOMAIN grantRows /\ grantRows[d].subscriptionId = device'[d].subscriptionId
  <2> DEFINE row == [grantRows[e] EXCEPT !.feeGranted = TRUE]
  <2>1. e \in DOMAIN grantRows /\ grantRows[e] \in Row
    BY <1>4 DEF GrantMark, GrantSave, TypeOK, IsSnapshot
  <2>2. row \in Row /\ row.subscriptionId = grantRows[e].subscriptionId /\ Save(e, row)
    BY <1>4, <2>1, RowUpdates DEF GrantMark, GrantSave
  <2>3. device'[d] = device[d] \/ (d = e /\ device'[d] = row)
    <3> HIDE DEF row
    <3> QED BY <1>0, <2>2, SaveEffect DEF TypeOK
  <2>4. device'[d] # device[d]
    BY <1>moved
  <2> QED BY <2>1, <2>2, <2>3, <2>4
<1>5. ~ UNCHANGED device
  BY <1>moved
<1> QED BY <1>5, <1>1, <1>2, <1>3, <1>4 DEF Next, Work, vars, Age, Crash, Stabilize,
       GrantStep, GrantLoad, GrantFetch, GrantSubmit,
       EnrollStep, EnrollSelect, EnrollCreate, FindSubscriptionByID, EnrollRecord, EnrollLoad, EnrollSubmit

\* Devices never move to an older subscription but by the grant job's stale
\* write, and that one restores what it had read.
THEOREM DevicesMoveForward == Spec => MovesForward
<1>1. TypeOK /\ SuccessionInv /\ RowsInRecorded /\ [Next]_vars =>
        [\A d \in registered :
           device'[d].subscriptionId < device[d].subscriptionId =>
             d \in DOMAIN grantRows /\ grantRows[d].subscriptionId = device'[d].subscriptionId]_vars
  BY ForwardStep
<1> QED BY <1>1, TypeCorrect, SuccessionInductive, RowsInductive, PTL DEF Spec, MovesForward

\* There is one live subscription at most, and it is what a run that got as
\* far as loading devices enrolls them in.
LEMMA OneLive ==
  ASSUME TypeOK, SuccessionInv, NEW s \in Live
  PROVE  /\ Live = {s}
         /\ enrollPc \in {"load", "submit", "save"} => enrollSub = s
<1>1. /\ planSubscriptions \subseteq SubIds /\ SubIds \subseteq Int
      /\ s \in planSubscriptions /\ lifetime[s] = "long"
  BY SubsAreNumbers DEF TypeOK, Live
<1>2. ASSUME NEW t \in planSubscriptions, t # s, s < t \/ t \in Live PROVE FALSE
  BY <1>1, <1>2 DEF SuccessionInv, Succession, Live
<1>3. Live \subseteq planSubscriptions
  BY DEF Live
<1>4. Live = {s}
  BY <1>2, <1>3
<1>5. ASSUME enrollPc \in {"load", "submit", "save"} PROVE enrollSub = s
  <2>1. enrollSub \in planSubscriptions /\ s <= enrollSub
    BY <1>1, <1>5 DEF SuccessionInv, SelectedIsNewest
  <2> QED BY <1>1, <1>2, <2>1
<1> QED BY <1>4, <1>5

\* While there is a live subscription no other becomes live.
LEMMA LiveStays ==
  ASSUME TypeOK, SuccessionInv, [Next]_vars, Live # {}, Live' # {}
  PROVE  Live' = Live /\ Current' = Current
<1> USE DEF db, chain, grant, enroll
<1>1. PICK s : s \in Live
  OBVIOUS
<1>2. Live = {s} /\ s \in SubIds /\ s \in planSubscriptions /\ lifetime[s] = "long"
  BY <1>1, OneLive DEF Live, TypeOK
<1>3. enrollPc \notin {"create", "record"}
  BY <1>1 DEF SuccessionInv, NoneLiveWhenBuying
<1>4. Live' = Live
  <2>1. CASE UNCHANGED <<planSubscriptions, lifetime>>
    BY <2>1 DEF Live
  <2>2. ASSUME NEW t \in SubIds, Age(t) PROVE Live' = Live
    <3>1. Live' = Live \ {t}
      BY <2>2 DEF Age, Live, TypeOK
    <3> QED BY <1>2, <3>1
  <2> QED BY <1>3, <2>1, <2>2 DEF Next, Work, vars, CreateDevice, Ban, Crash, Stabilize,
         GrantStep, GrantLoad, GrantFetch, GrantMark, GrantSubmit, GrantSave,
         EnrollStep, EnrollSelect, EnrollCreate, FindSubscriptionByID, EnrollRecord, EnrollLoad,
         EnrollSubmit, EnrollSave
<1>5. Current' = Current
  <2> DEFINE Newest(L) == IF L = {} THEN NoSub ELSE CHOOSE t \in L : \A u \in L : u <= t
  <2>1. Current = Newest(Live) /\ Current' = Newest(Live')
    BY DEF Current
  <2> HIDE DEF Newest
  <2> QED BY <1>4, <2>1
<1> QED BY <1>4, <1>5

\* The selected subscription is a live one.
LEMMA CurrentIsLive ==
  ASSUME TypeOK, SuccessionInv, Live # {}
  PROVE  Current \in Live
<1>1. PICK s : s \in Live
  OBVIOUS
<1>2. Live = {s} /\ s \in Int
  BY <1>1, OneLive, SubsAreNumbers DEF Live, TypeOK
<1>3. s <= s
  BY <1>2
<1>4. \E t \in Live : \A u \in Live : u <= t
  BY <1>2, <1>3
<1> QED BY <1>4 DEF Current

LEMMA HomeStep ==
  ASSUME TypeOK, SuccessionInv, [Next]_vars, Live' # {}, NEW d \in DeviceIds, AtHome(d)
  PROVE  AtHome(d)'
<1> USE DEF db, chain, grant, enroll
<1>0. /\ d \in registered /\ device[d].subscriptionId = Current /\ Settled(d) /\ Settled(d)'
      /\ d \in DOMAIN grantRows => grantRows[d].subscriptionId = Current
  BY SettledStep DEF AtHome, Settled
<1>1. Live # {} /\ Current' = Current
  <2>1. Live # {}
    BY <1>0 DEF Settled, IsEnrolled, Current
  <2> QED BY <2>1, LiveStays
<1>2. enrollPc \in {"load", "submit", "save"} => enrollSub = Current
  BY <1>1, CurrentIsLive, OneLive
<1>3. device'[d].subscriptionId = Current
  <2>1. ASSUME NEW e \in DeviceIds, CreateDevice(e) PROVE device'[d] = device[d]
    BY <1>0, <2>1 DEF CreateDevice, TypeOK
  <2>2. ASSUME NEW e \in DeviceIds, Ban(e)
        PROVE  device'[d].subscriptionId = device[d].subscriptionId
    BY <2>2, RowUpdates DEF Ban, TypeOK
  <2>3. ASSUME NEW e \in DeviceIds, NEW row \in Row, Save(e, row),
               e = d => row.subscriptionId = Current
        PROVE  device'[d].subscriptionId = Current
    BY <1>0, <2>3, SaveEffect DEF TypeOK
  <2>4. ASSUME NEW e \in DeviceIds, GrantMark(e) \/ GrantSave(e)
        PROVE  device'[d].subscriptionId = Current
    <3> DEFINE row == [grantRows[e] EXCEPT !.feeGranted = TRUE]
    <3>1. e \in DOMAIN grantRows /\ grantRows[e] \in Row
      BY <2>4 DEF GrantMark, GrantSave, TypeOK, IsSnapshot
    <3>2. row \in Row /\ row.subscriptionId = grantRows[e].subscriptionId /\ Save(e, row)
      BY <2>4, <3>1, RowUpdates DEF GrantMark, GrantSave
    <3> HIDE DEF row
    <3> QED BY <1>0, <2>3, <3>1, <3>2
  <2>5. ASSUME NEW e \in DeviceIds, EnrollSave(e)
        PROVE  device'[d].subscriptionId = Current
    <3> DEFINE row == [enrollRows[e] EXCEPT !.subscriptionId = enrollSub]
    <3>1. e \in DOMAIN enrollRows /\ enrollRows[e] \in Row /\ enrollSub \in SubIds /\ enrollSub = Current
      BY <1>2, <2>5 DEF EnrollSave, TypeOK, IsSnapshot
    <3>2. row \in Row /\ row.subscriptionId = enrollSub /\ Save(e, row)
      BY <2>5, <3>1, RowUpdates DEF EnrollSave
    <3> HIDE DEF row
    <3> QED BY <2>3, <3>1, <3>2
  <2>6. CASE UNCHANGED device
    BY <1>0, <2>6
  <2> QED BY <1>0, <2>1, <2>2, <2>4, <2>5, <2>6 DEF Next, Work, vars, Age, Crash, Stabilize,
         GrantStep, GrantLoad, GrantFetch, GrantSubmit,
         EnrollStep, EnrollSelect, EnrollCreate, FindSubscriptionByID, EnrollRecord, EnrollLoad, EnrollSubmit
<1>4. d \in DOMAIN grantRows' => grantRows'[d].subscriptionId = Current
  <2>1. CASE GrantLoad
    <3>1. PICK B \in SUBSET registered : grantRows' = Restrict(device, B)
      BY <2>1 DEF GrantLoad, OldestOf
    <3> QED BY <1>0, <3>1, RestrictIsSnapshot DEF TypeOK
  <2>2. CASE UNCHANGED grantRows
    BY <1>0, <2>2
  <2>3. CASE GrantEnd
    BY <2>3, NoRowsIsSnapshot DEF GrantEnd
  <2>4. ASSUME NEW e \in DeviceIds, GrantSave(e)
        PROVE  d \in DOMAIN grantRows' => grantRows'[d].subscriptionId = Current
    BY <1>0, <2>4, RestrictSnapshot DEF GrantSave, TypeOK
  <2> QED BY <2>1, <2>2, <2>3, <2>4 DEF Next, Work, vars, CreateDevice, Ban, Age, Crash, Stabilize,
         GrantStep, GrantFetch, GrantMark, GrantSubmit, EnrollStep, EnrollSelect, EnrollCreate,
         FindSubscriptionByID, EnrollRecord, EnrollLoad, EnrollSubmit, EnrollSave
<1> QED BY <1>0, <1>1, <1>3, <1>4 DEF AtHome

\* A device that has arrived in the live subscription stays there as long as
\* there is one, through failures, crashes and both jobs' writes.
THEOREM HomeIsForEver == Spec => HomeIsKept
<1>1. TypeOK /\ SuccessionInv /\ [Next]_vars =>
        [\A d \in DeviceIds : AtHome(d) /\ Live' # {} => AtHome(d)']_vars
  BY HomeStep
<1> QED BY <1>1, TypeCorrect, SuccessionInductive, PTL DEF Spec, HomeIsKept

-----------------------------------------------------------------------------
(* Lost purchases *)

Bought == {s \in SubIds : lifetime[s] # "none"}

\* Finitely many, whatever the chain's ids: a step buys one at most.
LEMMA BoughtStep ==
  ASSUME TypeOK, [Next]_vars
  PROVE  \E s \in SubIds \cup {NoSub} : Bought' \subseteq Bought \cup {s}
<1> USE DEF db, chain, grant, enroll
<1>1. CASE UNCHANGED lifetime
  BY <1>1 DEF Bought
<1>2. ASSUME NEW s \in SubIds, Age(s) PROVE Bought' \subseteq Bought
  BY <1>2 DEF Age, Bought, TypeOK
<1>3. CASE EnrollCreate
  <2>1. ASSUME NEW s \in SubIds, lifetime' = [lifetime EXCEPT ![s] = "long"]
        PROVE  Bought' \subseteq Bought \cup {s}
    BY <2>1 DEF Bought, TypeOK
  <2> QED BY <1>1, <1>3, <2>1 DEF EnrollCreate, CreatePlanSubscription, Call, Unbought
<1> QED BY <1>1, <1>2, <1>3 DEF Next, Work, vars, CreateDevice, Ban, Crash, Stabilize,
       GrantStep, GrantLoad, GrantFetch, GrantMark, GrantSubmit, GrantSave,
       EnrollStep, EnrollSelect, FindSubscriptionByID, EnrollRecord, EnrollLoad, EnrollSubmit, EnrollSave

LEMMA BoughtFinite == Spec => []IsFiniteSet(Bought)
<1>1. Init => IsFiniteSet(Bought)
  <2> SUFFICES ASSUME Init PROVE Bought = {}
    BY FS_EmptySet
  <2> QED BY DEF Init, Bought
<1>2. TypeOK /\ IsFiniteSet(Bought) /\ [Next]_vars => IsFiniteSet(Bought)'
  <2> SUFFICES ASSUME TypeOK, IsFiniteSet(Bought), [Next]_vars PROVE IsFiniteSet(Bought')
    OBVIOUS
  <2>1. PICK s : Bought' \subseteq Bought \cup {s}
    BY BoughtStep
  <2> QED BY <2>1, FS_AddElement, FS_Subset
<1> QED BY <1>1, <1>2, TypeCorrect, PTL DEF Spec

\* A subscription is lost on its way from the purchase to its record, if the
\* answer, the second call, the record or the process fails.
LEMMA OrphansStep ==
  ASSUME TypeOK, [Next]_vars
  PROVE  /\ stable => Orphans' \subseteq Orphans
         /\ \E s \in SubIds \cup {NoSub} : Orphans' \subseteq Orphans \cup {s}
<1> USE DEF db, chain, grant, enroll
<1> DEFINE Quiet == Orphans' \subseteq Orphans
           Lost == ~stable /\ \E s \in SubIds \cup {NoSub} : Orphans' \subseteq Orphans \cup {s}
<1>0. SUFFICES Quiet \/ Lost
  OBVIOUS
<1>1. CASE UNCHANGED <<lifetime, planSubscriptions, enrollPc, enrollSub>>
  BY <1>1 DEF Orphans
<1>2. ASSUME NEW s \in SubIds, Age(s) PROVE Quiet
  BY <1>2 DEF Age, Orphans, TypeOK
<1>3. CASE EnrollCreate
  <2>1. enrollPc = "create" /\ UNCHANGED planSubscriptions
    BY <1>3 DEF EnrollCreate
  <2>2. CASE UNCHANGED lifetime
    BY <2>1, <2>2 DEF Orphans
  <2>3. ASSUME NEW s \in SubIds, lifetime' = [lifetime EXCEPT ![s] = "long"],
               ~stable \/ (enrollPc' = "find" /\ enrollSub' = s)
        PROVE  Quiet \/ Lost
    <3>1. \A t \in SubIds \ {s} : lifetime'[t] = lifetime[t]
      BY <2>3 DEF TypeOK
    <3>2. Orphans' \subseteq Orphans \cup {s}
      BY <2>1, <3>1 DEF Orphans
    <3>3. enrollPc' = "find" /\ enrollSub' = s => s \notin Orphans'
      BY DEF Orphans
    <3> QED BY <2>3, <3>2, <3>3
  <2> QED BY <1>3, <2>2, <2>3 DEF EnrollCreate, CreatePlanSubscription, Call, Unbought
<1>4. CASE FindSubscriptionByID
  BY <1>4 DEF FindSubscriptionByID, EnrollEnd, Orphans, TypeOK
<1>5. CASE EnrollRecord
  BY <1>5 DEF EnrollRecord, EnrollEnd, Orphans, TypeOK
<1>6. CASE /\ enrollPc \notin {"find", "record"}
           /\ UNCHANGED <<lifetime, planSubscriptions>>
  BY <1>6 DEF Orphans
<1>7. CASE Crash
  BY <1>7 DEF Crash, EnrollEnd, Orphans, TypeOK
<1>8. CASE EnrollStep
  BY <1>3, <1>4, <1>5, <1>6, <1>8
     DEF EnrollStep, EnrollSelect, EnrollLoad, EnrollSubmit, EnrollSave
<1> QED BY <1>1, <1>2, <1>7, <1>8 DEF Next, Work, vars, CreateDevice, Ban, Stabilize,
       GrantStep, GrantLoad, GrantFetch, GrantMark, GrantSubmit, GrantSave

\* A subscription paid for is lost only to a fault, and each fault loses one at
\* most.
THEOREM LostOnlyToFaults == Spec => OrphansOnlyFromFaults
<1>1. TypeOK /\ IsFiniteSet(Bought) /\ [Next]_vars =>
        [/\ stable => Orphans' \subseteq Orphans
         /\ Cardinality(Orphans') <= Cardinality(Orphans) + 1]_vars
  <2> SUFFICES ASSUME TypeOK, IsFiniteSet(Bought), [Next]_vars
               PROVE  /\ stable => Orphans' \subseteq Orphans
                      /\ Cardinality(Orphans') <= Cardinality(Orphans) + 1
    OBVIOUS
  <2>1. PICK s : Orphans' \subseteq Orphans \cup {s}
    BY OrphansStep
  <2>2. IsFiniteSet(Orphans) /\ Cardinality(Orphans) \in Nat
    BY FS_Subset, FS_CardinalityType DEF Orphans, Bought
  <2>3. /\ IsFiniteSet(Orphans \cup {s})
        /\ Cardinality(Orphans \cup {s}) \in {Cardinality(Orphans), Cardinality(Orphans) + 1}
    BY <2>2, FS_AddElement
  <2>4. IsFiniteSet(Orphans') /\ Cardinality(Orphans') <= Cardinality(Orphans \cup {s})
    BY <2>1, <2>3, FS_Subset
  <2>5. Cardinality(Orphans') \in Nat
    BY <2>4, FS_CardinalityType
  <2> QED BY <2>2, <2>3, <2>4, <2>5, OrphansStep
<1> QED BY <1>1, TypeCorrect, BoughtFinite, PTL DEF Spec, OrphansOnlyFromFaults
=============================================================================
