--------------------------- MODULE ListingsProofs ---------------------------
(***************************************************************************)
(* A walk through a list shows what it should, for any number of rows, any *)
(* size of pages and any changes between two statements.                   *)
(***************************************************************************)
EXTENDS Listings, FiniteSetTheorems, TLAPS

----------------------------------------------------------------------------
(* Cardinalities *)

LEMMA RowSets ==
  ASSUME NEW S \in SUBSET Rows
  PROVE  IsFiniteSet(S) /\ Cardinality(S) \in Nat
BY RowsAssumption, FS_Subset, FS_CardinalityType

\* What two sets do not share.
LEMMA Differences ==
  ASSUME NEW S \in SUBSET Rows, NEW T \in SUBSET Rows
  PROVE  /\ Cardinality(S) = Cardinality(S \cap T) + Cardinality(S \ T)
         /\ Cardinality(S \cup T) = Cardinality(S) + Cardinality(T) - Cardinality(S \cap T)
         /\ Cardinality(S \cap T) \in Nat /\ Cardinality(S \ T) \in Nat
PROOF
  <1>1. IsFiniteSet(S) /\ IsFiniteSet(T) /\ Cardinality(S) \in Nat /\ Cardinality(T) \in Nat
    BY RowSets
  <1>2. Cardinality(S \cap T) \in Nat /\ Cardinality(S \ T) \in Nat
    BY RowSets
  <1>3. Cardinality(S \ T) = Cardinality(S) - Cardinality(S \cap T)
    BY <1>1, FS_Difference
  <1>4. Cardinality(S \cup T) = Cardinality(S) + Cardinality(T) - Cardinality(S \cap T)
    BY <1>1, FS_Union
  <1> QED
    BY <1>1, <1>2, <1>3, <1>4

\* A page is part of the list.
LEMMA PagesListed ==
  ASSUME NEW skip \in Nat, NEW rows \in Pages(skip), listed \subseteq Rows
  PROVE  rows \subseteq listed /\ rows \in SUBSET Rows
BY DEF Pages

----------------------------------------------------------------------------
(* Types *)

LEMMA TypeStep == TypeOK /\ [Next]_vars => TypeOK'
PROOF
  <1> SUFFICES ASSUME TypeOK, [Next]_vars PROVE TypeOK'
    OBVIOUS
  <1>1. CASE ReadPage
    BY <1>1, PagesListed DEF TypeOK, ReadPage, listVars
  <1>2. CASE CountRows
    <2>1. Cardinality(page) \in Nat /\ Cardinality(page \cap shown) \in Nat
      BY RowSets DEF TypeOK
    <2> QED
      BY <1>2, <2>1 DEF TypeOK, CountRows, listVars
  <1>3. CASE Others
    BY <1>3 DEF TypeOK, Others, Insert, MarkRead, MarkAllRead, UpdateStatus, MatchProvider,
                RankProvider, Change, walkVars
  <1>4. CASE UNCHANGED vars
    BY <1>4 DEF TypeOK, vars, listVars, walkVars
  <1> QED
    BY <1>1, <1>2, <1>3, <1>4 DEF Next, Ask, Request, ListBookings, ListPayments, ListReviews,
                                  ListNotifications, SearchProviders

\* Every variable keeps its type.
THEOREM TypeCorrect == Spec => []TypeOK
PROOF
  <1>1. Init => TypeOK
    BY RankingsAssumption DEF Init, TypeOK, Growing, Selective
  <1> QED
    BY <1>1, TypeStep, PTL DEF Spec

----------------------------------------------------------------------------
(* What pages and counts add up to *)

\* Each row on a page so far is one of the first offset rows, or was shown again.
Added ==
  /\ offset = Cardinality(shown) + repeats
  /\ step = "ended" => offset >= Cardinality(counted)

LEMMA AddedStep == TypeOK /\ Added /\ [Next]_vars => Added'
PROOF
  <1> SUFFICES ASSUME TypeOK, Added, [Next]_vars PROVE Added'
    OBVIOUS
  <1>1. CASE ReadPage
    BY <1>1 DEF Added, ReadPage
  <1>2. CASE CountRows
    <2>1. /\ Cardinality(page \cup shown)
               = Cardinality(page) + Cardinality(shown) - Cardinality(page \cap shown)
          /\ page \cup shown = shown \cup page
      BY Differences DEF TypeOK
    <2>2. /\ Cardinality(page) \in Nat /\ Cardinality(shown) \in Nat
          /\ Cardinality(page \cap shown) \in Nat /\ Cardinality(listed) \in Nat
      BY RowSets DEF TypeOK
    <2>3. /\ shown' = shown \cup page /\ counted' = listed
          /\ offset' = offset + Cardinality(page)
          /\ repeats' = repeats + Cardinality(page \cap shown)
          /\ step' = "ended" => offset + Cardinality(page) >= Cardinality(listed)
      BY <1>2, <2>2 DEF CountRows, HasMore, TypeOK
    <2>4. Cardinality(shown)' = Cardinality(page \cup shown) /\ Cardinality(counted)' = Cardinality(listed)
      BY <2>1, <2>3
    <2>5. offset' = Cardinality(shown)' + repeats'
      BY <2>1, <2>2, <2>3, <2>4 DEF Added, TypeOK
    <2> QED
      BY <2>3, <2>4, <2>5 DEF Added
  <1>3. CASE Others
    BY <1>3 DEF Added, Others, Insert, MarkRead, MarkAllRead, UpdateStatus, MatchProvider,
                RankProvider, Change, walkVars
  <1>4. CASE UNCHANGED vars
    BY <1>4 DEF Added, vars, listVars, walkVars
  <1> QED
    BY <1>1, <1>2, <1>3, <1>4 DEF Next, Ask, Request, ListBookings, ListPayments, ListReviews,
                                  ListNotifications, SearchProviders

LEMMA AddedImplies == TypeOK /\ Added => PagesAddUp
PROOF
  <1> SUFFICES ASSUME TypeOK, Added, step = "ended"
               PROVE  Cardinality(counted \ shown) <= repeats + Cardinality(shown \ counted)
    BY DEF PagesAddUp
  <1>1. /\ Cardinality(counted) = Cardinality(counted \cap shown) + Cardinality(counted \ shown)
        /\ Cardinality(counted \cap shown) \in Nat /\ Cardinality(counted \ shown) \in Nat
    BY Differences DEF TypeOK
  <1>2. /\ Cardinality(shown) = Cardinality(shown \cap counted) + Cardinality(shown \ counted)
        /\ Cardinality(shown \ counted) \in Nat
    BY Differences DEF TypeOK
  <1>3. shown \cap counted = counted \cap shown
    OBVIOUS
  <1>4. Cardinality(shown) + repeats >= Cardinality(counted)
    BY DEF Added
  <1> QED
    BY <1>1, <1>2, <1>3, <1>4 DEF TypeOK

\* has_more ends no walk too early, whatever happens to the list meanwhile.
THEOREM WalksAddUp == Spec => []PagesAddUp
PROOF
  <1>1. Init => Added
    BY FS_EmptySet DEF Init, Added
  <1> QED
    BY <1>1, TypeCorrect, AddedStep, AddedImplies, PTL DEF Spec

----------------------------------------------------------------------------
(* A list that only grows *)

Ahead(r) == {s \in listed : rank[s] < rank[r]}

\* A row that was there at the beginning and that is the only one of its date was
\* shown, or as many rows as the walk has passed are ahead of it.
Behind ==
  /\ start \subseteq listed
  /\ step = "page" =>
       \A r \in start : Tied(r) \/ r \in shown \/ Cardinality(Ahead(r)) >= offset
  /\ step = "count" =>
       \A r \in start : Tied(r) \/ r \in shown \cup page
                          \/ Cardinality(Ahead(r)) >= offset + Cardinality(page)
  /\ step = "ended" => \A r \in start : Tied(r) \/ r \in shown

GrowingInv == list \in Growing => Behind

\* What one page does: a row of its own date that is not on it has the page ahead
\* of it, or is among the rows that the offset skips.
LEMMA PageAhead ==
  ASSUME TypeOK, NEW skip \in Nat, NEW rows \in Pages(skip),
         NEW r \in listed, ~ Tied(r), r \notin rows, Cardinality(Ahead(r)) >= skip
  PROVE  Cardinality(Ahead(r)) >= skip + Cardinality(rows)
PROOF
  <1>1. rows \in SUBSET listed
    BY DEF Pages
  <1>2. PICK skipped \in SUBSET (listed \ rows) :
          LET rest == listed \ (skipped \cup rows) IN
            /\ InOrder(skipped, rows \cup rest) /\ InOrder(rows, rest)
            /\ IF listed = skipped THEN Cardinality(skipped) <= skip ELSE Cardinality(skipped) = skip
            /\ IF rest = {} THEN Cardinality(rows) <= Limit ELSE Cardinality(rows) = Limit
    BY DEF Pages
  <1> DEFINE rest == listed \ (skipped \cup rows)
  <1>3. /\ skipped \in SUBSET Rows /\ rows \in SUBSET Rows /\ Ahead(r) \in SUBSET Rows
        /\ \A s \in listed : rank[s] \in Nat /\ (s # r => rank[s] # rank[r])
    BY <1>1 DEF Tied, TypeOK, Ahead
  <1>4. \A S \in SUBSET Rows : IsFiniteSet(S) /\ Cardinality(S) \in Nat
    BY RowSets
  <1>5. Cardinality(skipped) <= skip
    BY <1>2, <1>3, <1>4
  <1>6. r \notin skipped
    <2>1. SUFFICES ASSUME r \in skipped PROVE FALSE
      OBVIOUS
    <2>2. Ahead(r) \subseteq skipped \ {r}
      <3>1. ASSUME NEW s \in Ahead(r), s \notin skipped PROVE FALSE
        <4>1. s \in rows \cup rest /\ rank[s] < rank[r]
          BY <3>1 DEF Ahead
        <4>2. rank[r] <= rank[s]
          BY <1>2, <2>1, <4>1 DEF InOrder
        <4>3. rank[r] \in Nat /\ rank[s] \in Nat
          BY <1>3, <3>1 DEF Ahead
        <4> QED
          BY <4>1, <4>2, <4>3
      <3>2. \A s \in Ahead(r) : s # r
        BY <1>3 DEF Ahead
      <3> QED
        BY <3>1, <3>2
    <2>3. Cardinality(skipped \ {r}) = Cardinality(skipped) - 1
      BY <1>3, <1>4, <2>1, FS_RemoveElement
    <2>4. Cardinality(Ahead(r)) <= Cardinality(skipped \ {r})
      BY <1>3, <1>4, <2>2, FS_Subset
    <2> QED
      BY <1>3, <1>4, <1>5, <2>3, <2>4
  <1>7. r \in rest /\ Cardinality(skipped) = skip
    BY <1>2, <1>6
  <1>8. skipped \cup rows \subseteq Ahead(r)
    <2>1. ASSUME NEW s \in skipped \cup rows PROVE rank[s] < rank[r]
      <3>1. rank[s] <= rank[r]
        BY <1>2, <1>7, <2>1 DEF InOrder
      <3>2. rank[s] \in Nat /\ rank[r] \in Nat /\ rank[s] # rank[r]
        BY <1>1, <1>3, <1>6, <2>1
      <3> QED
        BY <3>1, <3>2
    <2> QED
      BY <2>1, <1>1, <1>2 DEF Ahead
  <1>9. Cardinality(skipped \cup rows) = Cardinality(skipped) + Cardinality(rows)
    <2>1. Cardinality(skipped \cap rows) = 0
      <3>1. skipped \cap rows = {}
        BY <1>2
      <3> QED
        BY <3>1, FS_EmptySet
    <2>2. Cardinality(skipped \cup rows)
            = Cardinality(skipped) + Cardinality(rows) - Cardinality(skipped \cap rows)
      BY <1>3, Differences
    <2>3. Cardinality(skipped) \in Nat /\ Cardinality(rows) \in Nat
      BY <1>3, RowSets
    <2> QED
      BY <2>1, <2>2, <2>3
  <1>10. Cardinality(skipped \cup rows) <= Cardinality(Ahead(r))
    BY <1>3, <1>4, <1>8, FS_Subset
  <1> QED
    BY <1>3, <1>4, <1>7, <1>9, <1>10

LEMMA GrowingStep == TypeOK /\ GrowingInv /\ [Next]_vars => GrowingInv'
PROOF
  <1> SUFFICES ASSUME TypeOK, GrowingInv, [Next]_vars, list' \in Growing PROVE Behind'
    BY DEF GrowingInv
  <1>0. list' = list /\ Behind
    BY DEF GrowingInv, Next, Ask, Request, ListBookings, ListPayments, ListReviews,
           ListNotifications, SearchProviders, ReadPage, CountRows, listVars, Others, Insert,
           MarkRead, MarkAllRead, UpdateStatus, MatchProvider, RankProvider, Change, vars
  <1>1. CASE ReadPage
    <2>1. /\ step = "page" /\ step' = "count" /\ page' \in Pages(offset)
          /\ UNCHANGED <<listed, rank, offset, start, shown>>
      BY <1>1 DEF ReadPage, listVars
    <2>2. \A r : Ahead(r)' = Ahead(r) /\ Tied(r)' = Tied(r)
      BY <2>1 DEF Ahead, Tied
    <2>3. ASSUME NEW r \in start, ~ Tied(r), r \notin shown \cup page'
          PROVE  Cardinality(Ahead(r)) >= offset + Cardinality(page')
      BY <1>0, <2>1, <2>3, PageAhead DEF Behind, TypeOK
    <2> QED
      BY <1>0, <2>1, <2>2, <2>3 DEF Behind
  <1>2. CASE CountRows
    <2>1. /\ step = "count" /\ UNCHANGED <<listed, rank, start>>
          /\ shown' = shown \cup page /\ offset' = offset + Cardinality(page)
          /\ step' = IF HasMore(Cardinality(listed)) THEN "page" ELSE "ended"
      BY <1>2 DEF CountRows, listVars
    <2>2. \A r : Ahead(r)' = Ahead(r) /\ Tied(r)' = Tied(r)
      BY <2>1 DEF Ahead, Tied
    <2>3. ASSUME ~ HasMore(Cardinality(listed)), NEW r \in start, ~ Tied(r) PROVE r \in shown \cup page
      <3>1. r \in listed /\ Ahead(r) \subseteq listed \ {r} /\ listed \in SUBSET Rows
        BY <1>0 DEF Behind, TypeOK, Ahead
      <3>2. /\ Cardinality(Ahead(r)) <= Cardinality(listed \ {r})
            /\ Cardinality(listed \ {r}) = Cardinality(listed) - 1
        BY <3>1, RowSets, FS_Subset, FS_RemoveElement
      <3>3. Cardinality(listed) \in Nat /\ Cardinality(page) \in Nat /\ Cardinality(Ahead(r)) \in Nat
        BY <3>1, RowSets DEF TypeOK
      <3> QED
        BY <1>0, <2>1, <2>3, <3>2, <3>3 DEF Behind, HasMore, TypeOK
    <2> QED
      BY <1>0, <2>1, <2>2, <2>3 DEF Behind
  <1>3. CASE Others
    <2>1. PICK r0 \in Rows : Insert(r0)
      BY <1>0, <1>3 DEF Others, MarkRead, MarkAllRead, UpdateStatus, MatchProvider, RankProvider,
                        Growing
    <2>2. listed' = listed \cup {r0} /\ rank' = rank /\ UNCHANGED walkVars
      BY <2>1 DEF Insert, Change
    <2>3. ASSUME NEW r PROVE Cardinality(Ahead(r)) <= Cardinality(Ahead(r)')
                             /\ Cardinality(Ahead(r)) \in Nat /\ Cardinality(Ahead(r)') \in Nat
      <3>1. Ahead(r) \subseteq Ahead(r)' /\ Ahead(r)' \in SUBSET Rows /\ Ahead(r) \in SUBSET Rows
        BY <2>2 DEF Ahead, TypeOK
      <3> QED
        BY <3>1, RowSets, FS_Subset
    <2>4. Cardinality(page) \in Nat
      BY RowSets DEF TypeOK
    <2>5. ASSUME NEW r \in start, NEW n \in Nat, Cardinality(Ahead(r)) >= n
          PROVE  Cardinality(Ahead(r)') >= n
      BY <2>3, <2>5
    <2>6. ASSUME NEW r, Tied(r) PROVE Tied(r)'
      BY <2>2, <2>6 DEF Tied
    <2>7. /\ step = "page" =>
               \A r \in start : Tied(r)' \/ r \in shown \/ Cardinality(Ahead(r)') >= offset
          /\ step = "count" =>
               \A r \in start : Tied(r)' \/ r \in shown \cup page
                                  \/ Cardinality(Ahead(r)') >= offset + Cardinality(page)
      <3>1. offset \in Nat /\ offset + Cardinality(page) \in Nat
        BY <2>4 DEF TypeOK
      <3> QED
        BY <1>0, <2>5, <2>6, <3>1 DEF Behind
    <2> QED
      BY <1>0, <2>2, <2>7, <2>6 DEF Behind, walkVars
  <1>4. CASE UNCHANGED vars
    BY <1>0, <1>4 DEF Behind, Ahead, Tied, vars, listVars, walkVars
  <1> QED
    BY <1>1, <1>2, <1>3, <1>4 DEF Next, Ask, Request, ListBookings, ListPayments, ListReviews,
                                  ListNotifications, SearchProviders

\* A list that only grows is shown completely, wherever rows are inserted, but for
\* rows that share their date with another.
THEOREM HistoriesComplete == Spec => []HistoryComplete
PROOF
  <1>1. Init => GrowingInv
    <2>1. ASSUME Init, list \in Growing, NEW r \in start PROVE Cardinality(Ahead(r)) >= 0
      <3>1. Ahead(r) \in SUBSET Rows
        BY <2>1 DEF Init, Ahead
      <3> QED
        BY <3>1, RowSets
    <2> QED
      BY <2>1 DEF Init, GrowingInv, Behind, Growing
  <1>2. GrowingInv => HistoryComplete
    BY DEF GrowingInv, Behind, HistoryComplete
  <1> QED
    BY <1>1, <1>2, TypeCorrect, GrowingStep, PTL DEF Spec

=============================================================================
