---------------------------- MODULE PagingProofs ----------------------------
(***************************************************************************)
(* Proofs about Paging, for lists, pages and bounds of any size: the loop  *)
(* is one atomic read while a page holds the list, and complete, in any    *)
(* number of pages, for a list that only grows at its end.                 *)
(***************************************************************************)
EXTENDS Paging, SequenceTheorems, TLAPS

USE LimitIsPositive, MaxLengthIsNat DEF history

-----------------------------------------------------------------------------
(* Lists and pages *)

LEMMA ListFacts ==
  ASSUME NEW l \in Lists
  PROVE  /\ l \in Seq(Items) /\ Len(l) \in 0..MaxLength
         /\ \A i, j \in 1..Len(l) : l[i] = l[j] => i = j
<1>1. PICK n \in 0..MaxLength : l \in [1..n -> Items]
  BY DEF Lists
<1>2. l \in Seq(Items) /\ Len(l) = n /\ DOMAIN l = 1..n
  BY <1>1, SeqDef
<1> QED BY <1>1, <1>2 DEF Lists

LEMMA NoList == <<>> \in Seq(Items) /\ Len(<<>>) = 0
BY EmptySeq

LEMMA NoListIsList == <<>> \in Lists
<1>1. <<>> \in [1..0 -> Items]
  OBVIOUS
<1>2. \A i, j \in DOMAIN <<>> : <<>>[i] = <<>>[j] => i = j
  OBVIOUS
<1> QED BY <1>1, <1>2 DEF Lists

\* A page holds the list's items from offset on, as many as there are up to Limit.
LEMMA PageFacts ==
  ASSUME list \in Lists, offset \in Nat
  PROVE  /\ Page \in Seq(Items)
         /\ \A k \in 1..Len(Page) : offset + k <= Len(list) /\ Page[k] = list[offset + k]
         /\ \A i \in 1..Len(list) : offset < i /\ i <= offset + Limit => i - offset \in 1..Len(Page)
         /\ Page = <<>> <=> offset >= Len(list)
         /\ offset = 0 /\ Len(list) <= Limit => Page = list
<1> DEFINE last == IF offset + Limit < Len(list) THEN offset + Limit ELSE Len(list)
<1>1. list \in Seq(Items) /\ Len(list) \in Nat /\ last \in Nat
  BY ListFacts
<1>2. \A i \in offset + 1..last : list[i] \in Items
  BY <1>1, ElementOfSeq
<1>3. /\ Page \in Seq(Items)
      /\ Len(Page) = IF offset + 1 <= last THEN last - (offset + 1) + 1 ELSE 0
      /\ \A k \in 1..last - (offset + 1) + 1 : Page[k] = list[offset + 1 + k - 1]
  <2>1. offset + 1 \in Int /\ last \in Int
    BY <1>1
  <2> HIDE DEF last
  <2> QED BY <1>2, <2>1, SubSeqProperties DEF Page, last
<1>4. Page = <<>> <=> Len(Page) = 0
  BY <1>3, NoList, SeqEqual
<1>5. offset = 0 /\ Len(list) <= Limit => Page = list
  BY <1>1, SubSeqFull DEF Page
<1>6. \A k \in 1..Len(Page) : offset + k <= Len(list) /\ Page[k] = list[offset + k]
  <2> SUFFICES ASSUME NEW k \in 1..Len(Page) PROVE offset + k <= Len(list) /\ Page[k] = list[offset + k]
    OBVIOUS
  <2>1. k \in 1..last - (offset + 1) + 1 /\ offset + 1 + k - 1 = offset + k
    BY <1>1, <1>3
  <2> QED BY <1>1, <1>3, <2>1
<1>7. \A i \in 1..Len(list) : offset < i /\ i <= offset + Limit => i - offset \in 1..Len(Page)
  BY <1>1, <1>3
<1>8. Len(Page) = 0 <=> offset >= Len(list)
  BY <1>1, <1>3
<1> QED BY <1>3, <1>4, <1>5, <1>6, <1>7, <1>8

LEMMA PageWithinLimit ==
  ASSUME list \in Lists, offset \in Nat
  PROVE  \A k \in 1..Len(Page) : k <= Limit
<1> DEFINE last == IF offset + Limit < Len(list) THEN offset + Limit ELSE Len(list)
<1>1. list \in Seq(Items) /\ Len(list) \in Nat
  BY ListFacts
<1>2. Len(Page) = IF offset + 1 <= last THEN last - (offset + 1) + 1 ELSE 0
  <2>1. offset + 1 \in Int /\ last \in Int /\ \A i \in offset + 1..last : list[i] \in Items
    BY <1>1, ElementOfSeq
  <2> HIDE DEF last
  <2> QED BY <2>1, SubSeqProperties DEF Page, last
<1> QED BY <1>1, <1>2

LEMMA AdvanceFacts ==
  ASSUME offset \in Nat, Advance
  PROVE  offset' \in Nat /\ (offset' = offset + Limit \/ (offset' = offset /\ offset >= MaxLength))
BY DEF Advance

-----------------------------------------------------------------------------
(* The loop *)

\* Nothing is held outside the loop and its result, and a second page is asked
\* for past the first.
Loop ==
  /\ pc \in {"idle", "failed"} => fetched = <<>>
  /\ pc = "idle" => offset = 0
  /\ pc = "fetch" /\ offset = 0 => fetched = <<>>
  /\ offset = 0 \/ offset >= Limit
  /\ pc = "fetch" /\ fits => list \in ShortLists
  /\ pc = "idle" => fits

IInv == TypeOK /\ Loop

LEMMA InitIInv == Init => IInv
BY NoList, NoListIsList DEF Init, IInv, TypeOK, Loop

LEMMA NextIInv == IInv /\ [Next]_vars => IInv'
<1> SUFFICES ASSUME IInv, [Next]_vars PROVE IInv'
  OBVIOUS
<1> USE DEF IInv, TypeOK, Loop
<1>1. CASE Change
  BY <1>1 DEF Change
<1>2. CASE Begin
  <2>1. fits' \in BOOLEAN /\ (fits' => list' \in ShortLists)
    <3>1. fits' = (list \in ShortLists)
      BY <1>2 DEF Begin
    <3>2. fits' \in BOOLEAN
      <4>1. (list \in ShortLists) \in BOOLEAN
        OBVIOUS
      <4> QED BY ONLY <3>1, <4>1, Zenon
    <3>3. fits' => list \in ShortLists
      BY ONLY <3>1, Zenon
    <3>4. list' = list
      BY <1>2 DEF Begin
    <3> QED BY <3>2, <3>3, <3>4
  <2>2. pc' = "fetch" /\ begun' = list /\ appended' = TRUE
        /\ UNCHANGED <<list, emptyLists, fetched, offset>> /\ pc = "idle"
    BY <1>2 DEF Begin
  <2> QED BY <2>1, <2>2
<1>3. CASE FetchPage
  <2>1. Page \in Seq(Items) /\ fetched \o Page \in Seq(Items)
    BY PageFacts, ConcatProperties
  <2>2. CASE /\ fetched' = fetched \o Page /\ Advance /\ UNCHANGED pc
             /\ UNCHANGED <<list, emptyLists, history>>
    <3>1. offset' = 0 => fetched' = <<>>
      <4>1. ASSUME offset' = 0 PROVE offset = 0 /\ MaxLength = 0
        BY <2>2, <4>1, AdvanceFacts
      <4>2. ASSUME offset' = 0 PROVE Page = <<>> /\ fetched = <<>>
        BY <1>3, <4>1, <4>2, PageFacts, ListFacts DEF FetchPage
      <4> QED BY <2>2, <4>2, NoList, ConcatEmptySeq
    <3> QED BY <1>3, <2>1, <2>2, <3>1, AdvanceFacts DEF FetchPage
  <2>3. CASE Page = <<>> /\ pc' = "done" /\ Advance /\ UNCHANGED <<list, emptyLists, history, fetched>>
    BY <2>3, AdvanceFacts
  <2>4. CASE pc' = "failed" /\ fetched' = <<>> /\ UNCHANGED <<list, emptyLists, history, offset>>
    BY <2>4, NoList
  <2> QED BY <1>3, <2>2, <2>3, <2>4 DEF FetchPage
<1>4. CASE Return
  BY <1>4, NoList, NoListIsList DEF Return
<1>5. CASE UNCHANGED vars
  BY <1>5 DEF vars
<1> QED BY <1>1, <1>2, <1>3, <1>4, <1>5 DEF Next

-----------------------------------------------------------------------------
(* One page: an atomic read *)

\* The first page is the moment of the read; the page after it has nothing.
LEMMA FetchPageIsRead ==
  ASSUME IInv, FetchPage, fits
  PROVE  [Atomic!Next]_Atomic!readVars
<1> USE DEF Atomic!Next, Atomic!readVars, Atomic!Take, Atomic!Deliver, Atomic!Fail, Atomic!None
<1>1. /\ list \in Lists /\ offset \in Nat /\ pc = "fetch" /\ fetched \in Seq(Items)
      /\ offset = 0 => fetched = <<>>
      /\ list' = list /\ fits' /\ list \in ShortLists
  BY DEF IInv, TypeOK, Loop, FetchPage
<1>2. Len(list) \in 0..Limit /\ Len(list) \in 0..MaxLength /\ list \in Seq(Items)
  BY <1>1, ListFacts DEF ShortLists
<1>3. CASE pc' = "failed" /\ fetched' = <<>> /\ UNCHANGED offset
  BY <1>1, <1>3
<1>4. CASE offset = 0 /\ ~(pc' = "failed")
  <2>1. Page = list /\ fetched \o Page = list
    BY <1>1, <1>2, <1>4, PageFacts, ConcatEmptySeq
  <2>2. fetched' = list /\ Advance /\ (pc' = pc \/ pc' = "done")
    BY <1>1, <1>4, <2>1 DEF FetchPage
  <2>3. CASE offset' # 0 \/ pc' = "done"
    BY <1>1, <1>4, <2>2, <2>3
  <2>4. CASE offset' = 0 /\ pc' = pc
    <3>1. Len(list) = 0
      BY <1>2, <1>4, <2>2, <2>4, AdvanceFacts
    <3>2. list = <<>>
      BY <1>2, <3>1, NoList, SeqEqual
    <3> QED BY <1>1, <1>4, <2>2, <2>4, <3>2
  <2> QED BY <2>2, <2>3, <2>4
<1>5. CASE offset # 0 /\ ~(pc' = "failed")
  <2>1. Page = <<>> /\ fetched \o Page = fetched
    BY <1>1, <1>2, <1>5, PageFacts, ConcatEmptySeq DEF IInv, Loop
  <2>2. fetched' = fetched /\ offset' # 0 /\ (pc' = pc \/ pc' = "done")
    BY <1>1, <1>5, <2>1, AdvanceFacts DEF FetchPage
  <2> QED BY <1>1, <1>5, <2>2
<1> QED BY <1>1, <1>3, <1>4, <1>5 DEF FetchPage

LEMMA StepIsRead ==
  ASSUME IInv, [Next]_vars
  PROVE  [Atomic!Next]_Atomic!readVars
<1> USE DEF Atomic!Next, Atomic!readVars, Atomic!None
<1>1. CASE Change
  BY <1>1 DEF Change, Atomic!Change, IInv, TypeOK, Loop
<1>2. CASE Begin
  BY <1>2 DEF Begin, Atomic!Start, IInv, TypeOK, Loop
<1>3. CASE FetchPage /\ fits
  BY <1>3, FetchPageIsRead
<1>4. CASE FetchPage /\ ~fits
  BY <1>4 DEF FetchPage, IInv, TypeOK
<1>5. CASE Return
  BY <1>5 DEF Return, Atomic!Finish, IInv, TypeOK, Loop
<1>6. CASE UNCHANGED vars
  BY <1>6 DEF vars
<1> QED BY <1>1, <1>2, <1>3, <1>4, <1>5, <1>6 DEF Next

\* As long as a page holds the list, a run of the loop gives the list as it was
\* at one moment, or nothing: what NodePlan and Onboarding take
\* the loop for, whatever the list does between its two calls.
THEOREM PagingIsAtomic == Spec => AtomicSpec
<1>1. Init => Atomic!Init
  BY DEF Init, Atomic!Init, Atomic!None
<1>2. IInv /\ [Next]_vars => [Atomic!Next]_Atomic!readVars
  BY StepIsRead
<1> QED BY <1>1, <1>2, InitIInv, NextIInv, PTL DEF Spec, AtomicSpec, Atomic!Spec

-----------------------------------------------------------------------------
(* Several pages: complete for a list that grows at its end *)

\* What is fetched is what is in the list up to offset: all that was there when
\* the loop began, and nothing twice.
UpToOffset ==
  appended /\ pc \in {"fetch", "done"} =>
    /\ \A i \in 1..Len(begun) : i <= offset => \E j \in 1..Len(fetched) : fetched[j] = begun[i]
    /\ pc = "fetch" =>
         /\ IsPrefixOf(begun, list)
         /\ \A j \in 1..Len(fetched) : \E i \in 1..Len(list) : i <= offset /\ fetched[j] = list[i]
    /\ \A i, j \in 1..Len(fetched) : fetched[i] = fetched[j] => i = j
    /\ pc = "done" => Len(begun) <= offset

LEMMA PrefixTransitive ==
  ASSUME NEW r \in Seq(Items), NEW s \in Seq(Items), NEW t \in Seq(Items),
         IsPrefixOf(r, s), IsPrefixOf(s, t)
  PROVE  IsPrefixOf(r, t)
BY LenProperties DEF IsPrefixOf

\* The next page is behind all of it and goes on where offset is.
LEMMA PageAppended ==
  ASSUME IInv, UpToOffset, appended, pc = "fetch",
         fetched' = fetched \o Page, Advance, UNCHANGED <<list, emptyLists, history, pc>>
  PROVE  UpToOffset'
<1> DEFINE f == Len(fetched)
<1>1. /\ list \in Lists /\ begun \in Lists /\ fetched \in Seq(Items) /\ offset \in Nat
      /\ list \in Seq(Items) /\ begun \in Seq(Items)
      /\ Len(list) \in 0..MaxLength /\ Len(begun) \in 0..MaxLength /\ f \in Nat
      /\ \A i, j \in 1..Len(list) : list[i] = list[j] => i = j
  BY ListFacts, LenProperties DEF IInv, TypeOK
<1>2. /\ Page \in Seq(Items) /\ Len(Page) \in Nat
      /\ \A k \in 1..Len(Page) : offset + k <= Len(list) /\ Page[k] = list[offset + k]
      /\ \A i \in 1..Len(list) : offset < i /\ i <= offset + Limit => i - offset \in 1..Len(Page)
      /\ Page = <<>> <=> offset >= Len(list)
  BY <1>1, PageFacts, LenProperties
<1>3. /\ Len(fetched') = f + Len(Page)
      /\ \A j \in 1..f : fetched'[j] = fetched[j]
      /\ \A k \in 1..Len(Page) : fetched'[f + k] = list[offset + k]
  BY <1>1, <1>2, ConcatProperties
<1>4. IsPrefixOf(begun, list)
  BY DEF UpToOffset
<1>5. Len(Page) > 0 => offset' = offset + Limit
  BY <1>1, <1>2, AdvanceFacts
<1>6. offset' \in Nat /\ offset <= offset' /\ offset' <= offset + Limit
  BY <1>1, AdvanceFacts
<1>7. \A k \in 1..Len(Page) : offset + k <= offset'
  <2> SUFFICES ASSUME NEW k \in 1..Len(Page) PROVE k <= Limit
    BY <1>1, <1>2, <1>5
  <2> QED BY <1>1, <1>2, PageWithinLimit
<1>8. \A i \in 1..Len(begun) : i <= offset' => \E j \in 1..Len(fetched') : fetched'[j] = begun[i]
  <2> SUFFICES ASSUME NEW i \in 1..Len(begun), i <= offset'
               PROVE  \E j \in 1..Len(fetched') : fetched'[j] = begun[i]
    OBVIOUS
  <2>1. CASE i <= offset
    <3>1. PICK j \in 1..f : fetched[j] = begun[i]
      BY <2>1 DEF UpToOffset
    <3> QED BY <1>1, <1>2, <1>3, <3>1
  <2>2. CASE offset < i
    <3> DEFINE k == i - offset
    <3>1. i \in 1..Len(list) /\ begun[i] = list[i]
      BY <1>1, <1>4 DEF IsPrefixOf
    <3>2. k \in 1..Len(Page) /\ offset + k = i
      BY <1>1, <1>2, <1>6, <2>2, <3>1
    <3>3. fetched'[f + k] = begun[i]
      BY <1>3, <3>1, <3>2
    <3>4. f + k \in 1..Len(fetched')
      <4> HIDE DEF k, f
      <4> QED BY <1>1, <1>2, <1>3, <3>2
    <3> HIDE DEF k, f
    <3> QED BY <3>3, <3>4
  <2> QED BY <1>1, <2>1, <2>2
<1>9. \A j \in 1..Len(fetched') : \E i \in 1..Len(list) : i <= offset' /\ fetched'[j] = list[i]
  <2> SUFFICES ASSUME NEW j \in 1..Len(fetched')
               PROVE  \E i \in 1..Len(list) : i <= offset' /\ fetched'[j] = list[i]
    OBVIOUS
  <2>1. CASE j <= f
    <3>1. PICK i \in 1..Len(list) : i <= offset /\ fetched[j] = list[i]
      BY <1>1, <2>1 DEF UpToOffset
    <3> QED BY <1>1, <1>3, <1>6, <2>1, <3>1
  <2>2. CASE f < j
    <3> DEFINE k == j - f
    <3>1. k \in 1..Len(Page) /\ f + k = j
      BY <1>1, <1>2, <1>3, <2>2
    <3>2. offset + k \in 1..Len(list) /\ offset + k <= offset' /\ fetched'[j] = list[offset + k]
      BY <1>1, <1>2, <1>3, <1>7, <3>1
    <3> QED BY <3>2
  <2> QED BY <1>1, <1>2, <1>3, <2>1, <2>2
<1>10. \A i, j \in 1..Len(fetched') : fetched'[i] = fetched'[j] => i = j
  <2>1. \A j \in 1..f : \E i \in 1..Len(list) : i <= offset /\ fetched'[j] = list[i]
    BY <1>1, <1>3 DEF UpToOffset
  <2>2. \A j \in 1..f, k \in 1..Len(Page) : fetched'[j] # fetched'[f + k]
    <3> SUFFICES ASSUME NEW j \in 1..f, NEW k \in 1..Len(Page) PROVE fetched'[j] # list[offset + k]
      BY <1>3
    <3>1. PICK i \in 1..Len(list) : i <= offset /\ fetched'[j] = list[i]
      BY <2>1
    <3>2. offset + k \in 1..Len(list) /\ offset + k # i
      BY <1>1, <1>2, <3>1
    <3> QED BY <1>1, <3>1, <3>2
  <2>3. \A j, k \in 1..Len(Page) : fetched'[f + j] = fetched'[f + k] => j = k
    <3> SUFFICES ASSUME NEW j \in 1..Len(Page), NEW k \in 1..Len(Page),
                        list[offset + j] = list[offset + k]
                 PROVE  j = k
      BY <1>3
    <3>1. offset + j \in 1..Len(list) /\ offset + k \in 1..Len(list)
      BY <1>1, <1>2
    <3> QED BY <1>1, <1>2, <3>1
  <2>4. \A i, j \in 1..f : fetched'[i] = fetched'[j] => i = j
    BY <1>1, <1>3 DEF UpToOffset
  <2> SUFFICES ASSUME NEW i \in 1..Len(fetched'), NEW j \in 1..Len(fetched'), fetched'[i] = fetched'[j]
               PROVE  i = j
    OBVIOUS
  <2>5. \A n \in 1..Len(fetched') : n \in 1..f \/ (n - f \in 1..Len(Page) /\ f + (n - f) = n)
    BY <1>1, <1>2, <1>3
  <2>6. CASE i \in 1..f /\ j \in 1..f
    BY <2>4, <2>6
  <2>7. CASE i \in 1..f /\ j \notin 1..f
    <3>1. j - f \in 1..Len(Page) /\ f + (j - f) = j
      BY <2>5, <2>7
    <3>2. fetched'[i] # fetched'[f + (j - f)]
      BY <2>2, <2>7, <3>1
    <3> QED BY <3>1, <3>2
  <2>8. CASE i \notin 1..f /\ j \in 1..f
    <3>1. i - f \in 1..Len(Page) /\ f + (i - f) = i
      BY <2>5, <2>8
    <3>2. fetched'[j] # fetched'[f + (i - f)]
      BY <2>2, <2>8, <3>1
    <3> QED BY <3>1, <3>2
  <2>9. CASE i \notin 1..f /\ j \notin 1..f
    <3>1. /\ i - f \in 1..Len(Page) /\ f + (i - f) = i
          /\ j - f \in 1..Len(Page) /\ f + (j - f) = j
      BY <2>5, <2>9
    <3>2. i - f = j - f
      BY <2>3, <3>1
    <3> QED BY <3>1, <3>2
  <2> HIDE DEF f
  <2> QED BY ONLY <2>6, <2>7, <2>8, <2>9, Zenon
<1>11. begun' = begun /\ list' = list /\ pc' = "fetch"
  BY DEF history
<1>12. IsPrefixOf(begun', list')
  BY <1>4, <1>11
<1> HIDE DEF f
<1> QED BY ONLY <1>8, <1>9, <1>10, <1>11, <1>12 DEF UpToOffset

LEMMA NextUpToOffset == IInv /\ UpToOffset /\ [Next]_vars => UpToOffset'
<1> SUFFICES ASSUME IInv, UpToOffset, [Next]_vars PROVE UpToOffset'
  BY DEF UpToOffset
<1>1. /\ list \in Lists /\ begun \in Lists /\ fetched \in Seq(Items) /\ offset \in Nat
      /\ list \in Seq(Items) /\ begun \in Seq(Items)
      /\ Len(list) \in Nat /\ Len(begun) \in Nat /\ Len(fetched) \in Nat
  BY ListFacts, LenProperties DEF IInv, TypeOK
<1>2. CASE Change /\ pc # "fetch"
  BY <1>2 DEF Change, UpToOffset
<1>3. CASE Change /\ pc = "fetch" /\ ~appended'
  BY <1>3 DEF UpToOffset
<1>4. CASE Change /\ pc = "fetch" /\ appended'
  <2>1. appended' = (appended /\ IsPrefixOf(list, list'))
    BY <1>4 DEF Change
  <2>2. appended /\ IsPrefixOf(list, list')
    BY ONLY <1>4, <2>1, Zenon
  <2>3. list' \in Seq(Items) /\ Len(list') \in Nat /\ IsPrefixOf(list, list') /\ appended
        /\ UNCHANGED <<pc, fetched, offset, begun>>
    BY <1>4, <2>2, ListFacts DEF Change
  <2>4. \A i \in 1..Len(list) : i \in 1..Len(list') /\ list'[i] = list[i]
    BY <1>1, <2>3 DEF IsPrefixOf
  <2> QED BY <1>1, <1>4, <2>3, <2>4, PrefixTransitive DEF UpToOffset
<1>5. CASE Begin
  BY <1>1, <1>5, NoList DEF Begin, UpToOffset, IsPrefixOf, IInv, Loop
<1>6. CASE FetchPage
  <2>1. pc = "fetch" /\ (~appended => UpToOffset')
    <3>1. pc = "fetch" /\ appended' = appended
      BY <1>6 DEF FetchPage
    <3> QED BY <3>1 DEF UpToOffset
  <2>2. CASE fetched' = fetched \o Page /\ Advance /\ UNCHANGED <<pc, list, emptyLists, history>>
    BY <2>1, <1>6, <2>2, PageAppended DEF FetchPage
  <2>3. CASE Page = <<>> /\ pc' = "done" /\ Advance /\ UNCHANGED <<fetched, list, emptyLists, history>>
    <3>1. offset >= Len(list) /\ offset' \in Nat /\ offset' >= offset
      BY <1>1, <2>3, PageFacts, AdvanceFacts
    <3>2. appended => Len(begun) <= Len(list) /\ Len(begun) <= offset
      BY <1>1, <2>1, <3>1 DEF UpToOffset, IsPrefixOf
    <3> QED BY <1>1, <2>1, <2>3, <3>1, <3>2 DEF UpToOffset
  <2>4. CASE pc' = "failed"
    BY <2>4 DEF UpToOffset
  <2> QED BY <1>6, <2>2, <2>3, <2>4 DEF FetchPage
<1>7. CASE Return
  BY <1>7 DEF Return, UpToOffset
<1>8. CASE UNCHANGED vars
  BY <1>8 DEF vars, UpToOffset, IsPrefixOf
<1> QED BY <1>2, <1>3, <1>4, <1>5, <1>6, <1>7, <1>8 DEF Next

\* A list that only grows at its end is fetched with all it had when the loop
\* began and nothing twice, for pages of any size.
THEOREM PagingIsComplete == Spec => []CompleteIfAppended
<1>1. IInv /\ UpToOffset => CompleteIfAppended
  <2> SUFFICES ASSUME IInv, UpToOffset, appended, pc = "done" PROVE CompleteIfAppended
    BY DEF CompleteIfAppended
  <2>1. /\ Len(begun) \in Nat /\ offset \in Nat /\ Len(begun) <= offset
        /\ DOMAIN begun = 1..Len(begun) /\ DOMAIN fetched = 1..Len(fetched)
    BY ListFacts, LenProperties DEF IInv, TypeOK, UpToOffset
  <2>2. \A i \in DOMAIN begun : i \in 1..Len(begun) /\ i <= offset
    BY <2>1
  <2>3. \A i \in DOMAIN begun : \E j \in DOMAIN fetched : fetched[j] = begun[i]
    BY <2>1, <2>2 DEF UpToOffset
  <2>4. \A i, j \in DOMAIN fetched : fetched[i] = fetched[j] => i = j
    BY <2>1 DEF UpToOffset
  <2> QED BY <2>3, <2>4 DEF CompleteIfAppended
<1>2. Init => UpToOffset
  BY DEF Init, UpToOffset
<1> QED BY <1>1, <1>2, InitIInv, NextIInv, NextUpToOffset, PTL DEF Spec
=============================================================================
