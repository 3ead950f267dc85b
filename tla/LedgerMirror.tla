---------------------------- MODULE LedgerMirror ----------------------------
(***************************************************************************)
(* What the API's database promises about the blockchain: the database     *)
(* keeps claims ("that subscription to that node has been bought") and the *)
(* chain keeps the facts.  The two live in different stores and no step    *)
(* writes both, so the only way never to claim what is not a fact is to    *)
(* let a claim appear after its fact has.  Claims may be withdrawn.        *)
(***************************************************************************)
CONSTANT Items

VARIABLES facts, claims

mirrorVars == <<facts, claims>>

Init == facts = {} /\ claims = {}

\* A transaction is executed on the chain: facts are only ever added.
Transact ==
  /\ facts' \in SUBSET Items
  /\ facts \subseteq facts'
  /\ UNCHANGED claims

\* A row is written to the database.
Record ==
  /\ claims' \in SUBSET facts
  /\ UNCHANGED facts

Next == Transact \/ Record

Spec == Init /\ [][Next]_mirrorVars
=============================================================================
