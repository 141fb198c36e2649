------------------------------ MODULE Listings ------------------------------
(***************************************************************************)
(* Page by page through a list that changes meanwhile: the bookings of an  *)
(* account or those of one status, its payments, the reviews of a          *)
(* provider, the notifications or the unread ones, the search for          *)
(* providers.  All of them read a page with take and skip, count in a      *)
(* second statement of a READ COMMITTED transaction, and answer with       *)
(* buildPage.                                                              *)
(*                                                                         *)
(* One client walks through one list; what other requests do to its rows   *)
(* comes between any two statements.  Most lists are in the order of the   *)
(* creation dates, the newest first, and of nothing else: rows may have    *)
(* the same date, as bookings of the seed do, and the database returns     *)
(* them in any order.  The search goes by isPro, ratingAvg and             *)
(* missionsDone.  Both amount to a rank that several rows may share; that  *)
(* of a provider changes.                                                  *)
(***************************************************************************)
EXTENDS Integers, FiniteSets

CONSTANTS
  Rows,       \* the rows that are ever on the list
  MaxRank,    \* bound of the model: how many dates, or ranks of providers
  Rankings,   \* how the rows may be ranked when a walk begins
  MaxChanges, \* bound of the model: changes of the list during a walk
  Limit       \* rows of a page: 20 in the code, 50 at most

ASSUME RowsAssumption == IsFiniteSet(Rows)
ASSUME RankingsAssumption == Rankings \subseteq [Rows -> Nat]
ASSUME BoundsAssumption ==
  /\ MaxRank \in Nat /\ MaxChanges \in Nat
  /\ Limit \in Nat \ {0}

\* Their rows stay: no request deletes one.
Growing == {"bookings", "payments", "reviews", "notifications"}

\* With isRead: false, with a status, with the filters of the search.
Selective == {"unread", "status", "providers"}

VARIABLES
  list,     \* which list it is
  listed,   \* the rows on it
  rank,     \* rank[r] by its orderBy, the first rows have the lowest
  changes,  \* how often the list has changed
  step,     \* what the walk does next: "page" and "count" in turn, then "ended"
  offset,   \* the offset of the request
  page,     \* the rows it has read
  start,    \* history: the rows that were listed when the walk began
  shown,    \* history: the rows on the pages so far
  repeats,  \* history: how often one of them was shown again
  counted   \* history: the rows of the last count

listVars == <<list, listed, rank, changes>>
walkVars == <<step, offset, page, start, shown, repeats, counted>>
vars == <<listVars, walkVars>>

TypeOK ==
  /\ list \in Growing \cup Selective
  /\ listed \subseteq Rows
  /\ rank \in [Rows -> Nat]
  /\ changes \in Nat
  /\ step \in {"page", "count", "ended"}
  /\ offset \in Nat /\ repeats \in Nat
  /\ page \subseteq Rows /\ start \subseteq Rows
  /\ shown \subseteq Rows /\ counted \subseteq Rows

----------------------------------------------------------------------------
(* Helpers *)

\* Mutant: the query has no orderBy.
InOrderUnasked(first, rest) == TRUE

\* Rows of one rank come in any order, and in another one with the next query.
InOrder(first, rest) == \A r \in first, s \in rest : rank[r] <= rank[s]

\* findMany with orderBy, skip and take: the pages it may return.
Pages(skip) ==
  {rows \in SUBSET listed :
     \E skipped \in SUBSET (listed \ rows) :
       LET rest == listed \ (skipped \cup rows) IN
         /\ InOrder(skipped, rows \cup rest) /\ InOrder(rows, rest)
         /\ IF listed = skipped THEN Cardinality(skipped) <= skip ELSE Cardinality(skipped) = skip
         /\ IF rest = {} THEN Cardinality(rows) <= Limit ELSE Cardinality(rows) = Limit}

Init ==
  /\ list \in Growing \cup Selective
  /\ listed \in SUBSET Rows
  /\ rank \in Rankings
  /\ changes = 0
  /\ step = "page" /\ offset = 0 /\ page = {}
  /\ start = listed
  /\ shown = {} /\ repeats = 0 /\ counted = {}

----------------------------------------------------------------------------
(* The two statements of a request *)

ReadPage ==
  /\ step = "page"
  /\ page' \in Pages(offset)
  /\ step' = "count"
  /\ UNCHANGED <<listVars, offset, start, shown, repeats, counted>>

\* Mutant: a full page promises more.
HasMoreIfFull(total) == Cardinality(page) = Limit

\* Mutant: an off-by-one, the last page promises more.
HasMoreAtEnd(total) == offset + Cardinality(page) <= total

\* buildPage
HasMore(total) == offset + Cardinality(page) < total

\* The client asks for what follows the rows it got, if there is more.
CountRows ==
  /\ step = "count"
  /\ counted' = listed
  /\ step' = IF HasMore(Cardinality(listed)) THEN "page" ELSE "ended"
  /\ offset' = offset + Cardinality(page)
  /\ repeats' = repeats + Cardinality(page \cap shown)
  /\ shown' = shown \cup page
  /\ page' = {}
  /\ UNCHANGED <<listVars, start>>

Request == ReadPage \/ CountRows

\* One for each list; their reads and counts have the same form.
ListBookings == list \in {"bookings", "status"} /\ Request
ListPayments == list = "payments" /\ Request
ListReviews == list = "reviews" /\ Request
ListNotifications == list \in {"notifications", "unread"} /\ Request
SearchProviders == list = "providers" /\ Request

----------------------------------------------------------------------------
(* What other requests do to the rows *)

Change(rows, ranks) ==
  /\ step # "ended"
  /\ changes < MaxChanges
  /\ listed' = rows /\ rank' = ranks
  /\ changes' = changes + 1
  /\ UNCHANGED <<list, walkVars>>

\* A booking, a payment, a review or a notification is created.  It may become
\* visible after one of a later date.
Insert(r) ==
  /\ list # "providers" /\ r \notin listed \cup start
  /\ Change(listed \cup {r}, rank)

\* NotificationsService.markRead
MarkRead(r) == list = "unread" /\ r \in listed /\ Change(listed \ {r}, rank)

\* NotificationsService.markAllRead
MarkAllRead == list = "unread" /\ Change({}, rank)

\* BookingsService.updateStatus: the booking takes the status asked for, or
\* another one.
UpdateStatus(r) ==
  /\ list = "status"
  /\ \E rows \in {listed \cup {r}, listed \ {r}} : rows # listed /\ Change(rows, rank)

\* A profile is created, its account suspended, or it matches the filters now
\* and did not before, or the reverse.
MatchProvider(r) ==
  /\ list = "providers"
  /\ \E rows \in {listed \cup {r}, listed \ {r}} : rows # listed /\ Change(rows, rank)

\* A review, or a completed mission.
RankProvider(r, k) == list = "providers" /\ Change(listed, [rank EXCEPT ![r] = k])

----------------------------------------------------------------------------

Ask ==
  \/ ListBookings
  \/ ListPayments
  \/ ListReviews
  \/ ListNotifications
  \/ SearchProviders

Others ==
  \/ \E r \in Rows : Insert(r)
  \/ \E r \in Rows : MarkRead(r)
  \/ MarkAllRead
  \/ \E r \in Rows : UpdateStatus(r)
  \/ \E r \in Rows : MatchProvider(r)
  \/ \E r \in Rows, k \in 1..MaxRank : RankProvider(r, k)

Next == Ask \/ Others

Spec == Init /\ [][Next]_vars

\* The client asks on and the database answers.
FairSpec == Spec /\ WF_vars(Ask)

----------------------------------------------------------------------------
(* Properties *)

\* Another row of the list has the same date, or the same rank.
Tied(r) == \E s \in listed \ {r} : rank[s] = rank[r]

\* A list that only grows is shown completely to a walk that ends, but for rows of
\* equal dates: every row that was there at its beginning and that shares its date
\* with no other was on a page, wherever rows were inserted.
HistoryComplete ==
  list \in Growing /\ step = "ended" => \A r \in start : r \in shown \/ Tied(r)

\* Whatever happens to the list, has_more ends no walk too early: for every row
\* of the last count that was on no page, one was shown twice or has left since.
PagesAddUp ==
  step = "ended" =>
    Cardinality(counted \ shown) <= repeats + Cardinality(shown \ counted)

\* Nor does it go on for ever: a walk ends once the list has come to rest.
WalkEnds == <>(step = "ended")

=============================================================================
