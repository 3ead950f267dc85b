----------------------------- MODULE MCFetching -----------------------------
(* Small instances of Fetching for TLC. *)
EXTENDS Fetching
=============================================================================
