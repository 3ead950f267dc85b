---------------------------- MODULE MCOnboarding ----------------------------
(* Small instances of Onboarding for TLC. *)
EXTENDS Onboarding

\* Rows become visible in any order, so creation times may run against ids.
CreatedAgainstOrder == [d \in DeviceIds |-> 10 - d]
=============================================================================
