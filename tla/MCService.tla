------------------------------ MODULE MCService ------------------------------
(* Small instances of Service for TLC. *)
EXTENDS Service

CreatedInOrder == [d \in DeviceIds |-> d]
=============================================================================
