------------------------------- MODULE Paging -------------------------------
(***************************************************************************)
(* The loop with which the jobs fetch a list from the Sentinel API: the    *)
(* nodes and the plan's nodes of the sync (fetchActiveNodes and            *)
(* fetchNodesOnPlan) and the allowances of the grant job (fetchAllowances) *)
(* are fetched by three copies of it.  The list changes between two pages, *)
(* any page may fail, and the loop ends with a page that has no result.    *)
(* The code's pages hold a million items, so one page holds a whole list;  *)
(* NodePlan and Onboarding take the loop for one atomic read, which the    *)
(* module shows it to be as long as that is so.                            *)
(***************************************************************************)
EXTENDS Integers, Sequences

CONSTANTS
  Items,
  Limit,      \* items in a full page
  MaxLength   \* bound: the list's length

ASSUME LimitIsPositive == Limit \in Nat \ {0}
ASSUME MaxLengthIsNat == MaxLength \in Nat

VARIABLES
  list,         \* at the API
  emptyLists,   \* whether an empty page is answered by an empty list, not by none
  pc, fetched, offset,
  begun,        \* history: the list when the loop began,
  appended,     \* whether it only grew at its end since then,
  fits          \* and whether it was within one page all the time

history == <<begun, appended, fits>>
vars == <<list, emptyLists, pc, fetched, offset, begun, appended, fits>>

\* Lists that name no item twice.
Lists ==
  {l \in UNION {[1..n -> Items] : n \in 0..MaxLength} :
     \A i, j \in DOMAIN l : l[i] = l[j] => i = j}
ShortLists == {l \in Lists : Len(l) <= Limit}

TypeOK ==
  /\ list \in Lists /\ begun \in Lists
  /\ emptyLists \in BOOLEAN /\ appended \in BOOLEAN /\ fits \in BOOLEAN
  /\ pc \in {"idle", "fetch", "done", "failed"}
  /\ fetched \in Seq(Items)
  /\ offset \in Nat

Init ==
  /\ list \in Lists /\ emptyLists \in BOOLEAN
  /\ pc = "idle" /\ fetched = <<>> /\ offset = 0
  /\ begun = <<>> /\ appended = TRUE /\ fits = TRUE

-----------------------------------------------------------------------------
IsPrefixOf(s, t) == Len(s) <= Len(t) /\ \A i \in 1..Len(s) : s[i] = t[i]

\* What the API answers for limit and offset.
Page == SubSeq(list, offset + 1, IF offset + Limit < Len(list) THEN offset + Limit ELSE Len(list))

\* Every offset past MaxLength is like the first: a bound on the count.
Advance == offset' = IF offset < MaxLength THEN offset + Limit ELSE offset

-----------------------------------------------------------------------------
(* Faulty variants of FetchPage, each a bug the code could have; they are    *)
(* used only to see that the properties notice.                              *)

\* An error ends the loop with what it has.
FetchPagePartly ==
  /\ pc = "fetch"
  /\ \/ fetched' = fetched \o Page /\ Advance
        /\ IF Page = <<>> THEN pc' = "done" ELSE UNCHANGED pc
     \/ pc' = "done" /\ UNCHANGED <<fetched, offset>>
  /\ UNCHANGED <<list, emptyLists, history>>

\* An error makes the loop start over.
FetchPageRestarted ==
  /\ pc = "fetch"
  /\ \/ fetched' = fetched \o Page /\ Advance
        /\ IF Page = <<>> THEN pc' = "done" ELSE UNCHANGED pc
     \/ fetched' = <<>> /\ offset' = 0 /\ UNCHANGED pc
  /\ UNCHANGED <<list, emptyLists, history>>

\* The next page begins one past the end of this one.
FetchPageSkipping ==
  /\ pc = "fetch"
  /\ fetched' = fetched \o Page /\ offset' = IF offset < MaxLength THEN offset + Limit + 1 ELSE offset
  /\ IF Page = <<>> THEN pc' = "done" ELSE UNCHANGED pc
  /\ UNCHANGED <<list, emptyLists, history>>

-----------------------------------------------------------------------------
Change ==
  /\ list' \in Lists
  /\ IF pc = "fetch" THEN /\ appended' = (appended /\ IsPrefixOf(list, list'))
                          /\ fits' = (fits /\ list' \in ShortLists)
                     ELSE UNCHANGED <<appended, fits>>
  /\ UNCHANGED <<emptyLists, pc, fetched, offset, begun>>

Begin ==
  /\ pc = "idle" /\ pc' = "fetch"
  /\ begun' = list /\ appended' = TRUE /\ fits' = (list \in ShortLists)
  /\ UNCHANGED <<list, emptyLists, fetched, offset>>

\* A page is appended; none at all ends the loop; an error ends it without a
\* result.
FetchPage ==
  /\ pc = "fetch"
  /\ \/ /\ Page # <<>> \/ emptyLists
        /\ fetched' = fetched \o Page /\ Advance /\ UNCHANGED pc
     \/ Page = <<>> /\ pc' = "done" /\ Advance /\ UNCHANGED fetched
     \/ pc' = "failed" /\ fetched' = <<>> /\ UNCHANGED offset
  /\ UNCHANGED <<list, emptyLists, history>>

\* The caller has what it asked for.
Return ==
  /\ pc \in {"done", "failed"} /\ pc' = "idle"
  /\ fetched' = <<>> /\ offset' = 0
  /\ begun' = <<>> /\ appended' = TRUE /\ fits' = TRUE
  /\ UNCHANGED <<list, emptyLists>>

Next == Change \/ Begin \/ FetchPage \/ Return

Spec == Init /\ [][Next]_vars

\* The API answers; whether the list changes is nobody's duty.
FairSpec == Spec /\ WF_vars(FetchPage)

-----------------------------------------------------------------------------
(* Properties *)

\* While one page holds the whole list the loop is one read of it, although it
\* asks for two pages and the list may change in any way in between.
Atomic == INSTANCE AtomicRead WITH
  copy <- IF fits THEN fetched ELSE <<>>,
  state <- IF pc = "idle" THEN "idle"
           ELSE IF ~fits THEN "torn"
           ELSE IF pc # "fetch" THEN pc
           ELSE IF offset = 0 THEN "reading" ELSE "taken"
AtomicSpec == Atomic!Spec

\* With several pages, a list that grows at its end is fetched with all that
\* was in it when the loop began, and nothing twice.  (Items that came since
\* may be there or not, an earlier one missing and a later one there.)
CompleteIfAppended ==
  appended /\ pc = "done" =>
    /\ \A i \in DOMAIN begun : \E j \in DOMAIN fetched : fetched[j] = begun[i]
    /\ \A i, j \in DOMAIN fetched : fetched[i] = fetched[j] => i = j

\* The loop ends, if an empty page has no result.
Terminates == ~emptyLists /\ pc = "fetch" ~> pc \in {"done", "failed"}
=============================================================================
