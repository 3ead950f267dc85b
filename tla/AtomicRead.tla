----------------------------- MODULE AtomicRead -----------------------------
(***************************************************************************)
(* What the jobs take a list fetched from the Sentinel API to be: the list *)
(* as it was at one moment between the start and the end of the fetching,  *)
(* or an error and no list at all.  Nothing is promised of a list that is, *)
(* or grows, too long meanwhile.                                           *)
(***************************************************************************)
CONSTANTS Lists, ShortLists

VARIABLES list, copy, state

readVars == <<list, copy, state>>

None == <<>>

Init == list \in Lists /\ copy = None /\ state = "idle"

\* A list too long tears the reading.
Change ==
  /\ list' \in Lists
  /\ IF state \in {"reading", "taken"} /\ list' \notin ShortLists
       THEN state' = "torn" /\ copy' = None
       ELSE UNCHANGED <<copy, state>>

Start ==
  /\ state = "idle" /\ state' = IF list \in ShortLists THEN "reading" ELSE "torn"
  /\ UNCHANGED <<list, copy>>

\* The moment.  Nothing may be left to do after it.
Take ==
  /\ state = "reading" /\ state' \in {"taken", "done"}
  /\ copy' = list /\ UNCHANGED list

Deliver == state = "taken" /\ state' = "done" /\ UNCHANGED <<list, copy>>

Fail ==
  /\ state \in {"reading", "taken"} /\ state' = "failed"
  /\ copy' = None /\ UNCHANGED list

Finish ==
  /\ state \in {"done", "failed", "torn"} /\ state' = "idle"
  /\ copy' = None /\ UNCHANGED list

Next == Change \/ Start \/ Take \/ Deliver \/ Fail \/ Finish

Spec == Init /\ [][Next]_readVars
=============================================================================
