----------------------------- MODULE Reputation -----------------------------
(***************************************************************************)
(* ReviewsService, ReportsService and the guard between them: what clients *)
(* say of a provider, what users report of each other, and the account     *)
(* status by which ActiveUserGuard admits both.  One provider: reviews of  *)
(* different providers meet in no statement.                               *)
(*                                                                         *)
(* A worker is a handler in flight, one action is one database statement,  *)
(* and task[w] holds what the handler has read so far.  Of the life of a   *)
(* booking (BookingLifecycle) a review only sees whether it is completed.  *)
(***************************************************************************)
EXTENDS Integers, FiniteSets

CONSTANTS
  Workers,
  Users,
  Bookings,            \* the bookings of the provider
  ClientOf,            \* bookings.client_id
  Targets,             \* bound of the model: the users that get reported
  References,          \* what a report gives as its booking_id
  NoBooking,           \* the reference of a report without a booking
  WARN_THRESHOLD,      \* 2 in the code
  SUSPEND_THRESHOLD    \* 3 in the code

ASSUME TablesAssumption ==
  /\ IsFiniteSet(Workers) /\ IsFiniteSet(Users)
  /\ ClientOf \in [Bookings -> Users]
  /\ Targets \subseteq Users

ASSUME ThresholdsAssumption ==
  /\ WARN_THRESHOLD \in Nat \ {0}
  /\ SUSPEND_THRESHOLD = WARN_THRESHOLD + 1

----------------------------------------------------------------------------
(* Types *)

Idle == [step |-> "idle"]

\* create of a review, then its transaction: open from the insert to the
\* commit, with the reviews that its aggregate saw.
ReviewTasks == [step: {"find_booking", "insert_review", "aggregate"}, booking: Bookings]
               \cup [step: {"commit_review"}, booking: Bookings, seen: SUBSET Bookings]

\* create of a report, then applyAutoModeration.
Keys == Users \X Targets \X References
ReportTasks == [step: {"find_report", "insert_report"}, key: Keys]
ModerationTasks == [step: {"count_reporters"}, target: Targets]
                   \cup [step: {"read_target"}, target: Targets, count: Nat]
                   \cup [step: {"sanction"}, target: Targets, to: {"warned", "suspended"}]

Tasks == {Idle} \cup ReviewTasks \cup ReportTasks \cup ModerationTasks

VARIABLES
  booking,    \* bookings.status: before, at or after the completion
  rated,      \* bookings with a committed review
  published,  \* the reviews that providers.rating_avg and rating_count stand for
  account,    \* users.status
  reports,    \* how many reports rows there are with each key
  task,       \* what each worker has left to do
  overlaps,   \* history: the pairs of reviews whose transactions overlapped
  late,       \* history: rows a user wrote since the suspension of the account
  cut         \* history: targets of a report whose moderation did not run

reviewVars == <<rated, published, overlaps>>
accountVars == <<account, reports, cut>>
vars == <<booking, reviewVars, accountVars, late, task>>

TypeOK ==
  /\ booking \in [Bookings -> {"before", "completed", "after"}]
  /\ rated \subseteq Bookings /\ published \subseteq Bookings
  /\ account \in [Users -> {"active", "warned", "suspended"}]
  /\ reports \in [Keys -> Nat]
  /\ task \in [Workers -> Tasks]
  /\ overlaps \subseteq SUBSET Bookings
  /\ late \in [Users -> Nat]
  /\ cut \subseteq Targets

Init ==
  /\ booking = [b \in Bookings |-> "before"]
  /\ rated = {} /\ published = {}
  /\ account = [u \in Users |-> "active"]
  /\ reports = [k \in Keys |-> 0]
  /\ task = [w \in Workers |-> Idle]
  /\ overlaps = {}
  /\ late = [u \in Users |-> 0]
  /\ cut = {}

----------------------------------------------------------------------------
(* Helpers *)

Free(w) == task[w] = Idle
At(w, step) == task[w].step = step
Doing(step) == {w \in Workers : At(w, step)}
Proceed(w, todo) == task' = [task EXCEPT ![w] = todo]

\* Mutant: the guard forgotten on a route.
AdmittedAnyway(u) == TRUE

\* JwtStrategy.validate reads the account, ActiveUserGuard turns suspended away.
Admitted(u) == account[u] # "suspended"

\* A row that user u writes is late when the account is suspended by then.
Written(u) == late' = [late EXCEPT ![u] = IF account[u] = "suspended" THEN @ + 1 ELSE @]

----------------------------------------------------------------------------
(* ReviewsService.create *)

\* Only the client of the booking gets past the checks.
RequestReview(w, b) ==
  /\ Free(w)
  /\ Admitted(ClientOf[b])
  /\ Proceed(w, [step |-> "find_booking", booking |-> b])
  /\ UNCHANGED <<booking, reviewVars, accountVars, late>>

\* Mutant: any booking can be reviewed.
ReviewableAnyStatus(b) == b \notin rated

Reviewable(b) == booking[b] = "completed" /\ b \notin rated

FindBooking(w) ==
  /\ At(w, "find_booking")
  /\ LET b == task[w].booking IN
       Proceed(w, IF Reviewable(b) THEN [step |-> "insert_review", booking |-> b] ELSE Idle)
  /\ UNCHANGED <<booking, reviewVars, accountVars, late>>

\* The handlers inside the transaction, and the reviews they hold.
Reviewing == Doing("aggregate") \cup Doing("commit_review")
OpenReviews == {task[w].booking : w \in Reviewing}

\* Mutant: the key is not unique, no insert waits for another.
KeyFreeUnchecked(b) == TRUE

\* reviews.booking_id is unique: the insert waits for a transaction that holds
\* the key, then rejects when that one has committed.
KeyFree(b) == b \notin OpenReviews

InsertReview(w) ==
  /\ At(w, "insert_review")
  /\ LET b == task[w].booking IN
       /\ KeyFree(b)
       /\ IF b \in rated
          THEN Proceed(w, Idle) /\ overlaps' = overlaps
          ELSE /\ Proceed(w, [step |-> "aggregate", booking |-> b])
               /\ overlaps' = overlaps \cup {{b, d} : d \in OpenReviews}
  /\ UNCHANGED <<booking, rated, published, accountVars, late>>

\* Mutant: the aggregate runs before the insert of the transaction is visible.
SeenWithoutOwn(b) == rated

\* READ COMMITTED: the aggregate sees the committed reviews and its own.
Seen(b) == rated \cup {b}

Aggregate(w) ==
  /\ At(w, "aggregate")
  /\ LET b == task[w].booking IN
       Proceed(w, [step |-> "commit_review", booking |-> b, seen |-> Seen(b)])
  /\ UNCHANGED <<booking, reviewVars, accountVars, late>>

\* The update of the provider holds its row until the commit, so the updates
\* take effect in the order of the commits.
CommitReview(w) ==
  /\ At(w, "commit_review")
  /\ rated' = rated \cup {task[w].booking}
  /\ published' = task[w].seen
  /\ Written(ClientOf[task[w].booking])
  /\ Proceed(w, Idle)
  /\ UNCHANGED <<booking, accountVars, overlaps>>

----------------------------------------------------------------------------
(* ReportsService.create *)

RequestReport(w, u, t, ref) ==
  /\ Free(w)
  /\ Admitted(u)
  /\ u # t
  /\ Proceed(w, [step |-> "find_report", key |-> <<u, t, ref>>])
  /\ UNCHANGED <<booking, reviewVars, accountVars, late>>

\* Mutant: a repeated report is let through.
NotReportedUnchecked(k) == TRUE

NotReported(k) == reports[k] = 0

FindReport(w) ==
  /\ At(w, "find_report")
  /\ LET k == task[w].key IN
       Proceed(w, IF NotReported(k) THEN [step |-> "insert_report", key |-> k] ELSE Idle)
  /\ UNCHANGED <<booking, reviewVars, accountVars, late>>

\* The key of a report is unique, but no two null booking_id are equal.
KeyTaken(k) == k[3] # NoBooking /\ reports[k] > 0

InsertReport(w) ==
  /\ At(w, "insert_report")
  /\ LET k == task[w].key IN
       IF KeyTaken(k)
       THEN Proceed(w, Idle) /\ UNCHANGED <<reports, late>>
       ELSE /\ reports' = [reports EXCEPT ![k] = @ + 1]
            /\ Written(k[1])
            /\ Proceed(w, [step |-> "count_reporters", target |-> k[2]])
  /\ UNCHANGED <<booking, reviewVars, account, cut>>

----------------------------------------------------------------------------
(* ReportsService.applyAutoModeration *)

Reporters(t) == {u \in Users : \E ref \in References : reports[<<u, t, ref>>] > 0}

\* Mutant: the rows are counted, not the reporters.
CountedRows(t) ==
  Cardinality(Reporters(t)) + Cardinality({k \in Keys : k[2] = t /\ reports[k] > 1})

Counted(t) == Cardinality(Reporters(t))

CountReporters(w) ==
  /\ At(w, "count_reporters")
  /\ LET t == task[w].target IN
       Proceed(w, [step |-> "read_target", target |-> t, count |-> Counted(t)])
  /\ UNCHANGED <<booking, reviewVars, accountVars, late>>

\* Mutant: the warning asks for one reporter more than the threshold.
WarnedStrictly(n, t) == n > WARN_THRESHOLD /\ account[t] = "active"

Suspended(n, t) == n >= SUSPEND_THRESHOLD /\ account[t] # "suspended"
Warned(n, t) == n = WARN_THRESHOLD /\ account[t] = "active"

ReadTarget(w) ==
  /\ At(w, "read_target")
  /\ LET t == task[w].target
         n == task[w].count IN
       Proceed(w, IF Suspended(n, t) THEN [step |-> "sanction", target |-> t, to |-> "suspended"]
                  ELSE IF Warned(n, t) THEN [step |-> "sanction", target |-> t, to |-> "warned"]
                  ELSE Idle)
  /\ UNCHANGED <<booking, reviewVars, accountVars, late>>

Sanction(w) ==
  /\ At(w, "sanction")
  /\ LET t == task[w].target IN
       /\ account' = [account EXCEPT ![t] = task[w].to]
       /\ late' = [late EXCEPT ![t] = IF account[t] = "suspended" THEN @ ELSE 0]
  /\ Proceed(w, Idle)
  /\ UNCHANGED <<booking, reviewVars, reports, cut>>

----------------------------------------------------------------------------
(* The rest of the program, and faults *)

\* Requests move a booking: it is completed, and a writer that read its status
\* before may give it another one, from which it may be completed again.
BookingMoves(b) ==
  /\ booking' = [booking EXCEPT ![b] = IF @ = "completed" THEN "after" ELSE "completed"]
  /\ UNCHANGED <<reviewVars, accountVars, late, task>>

Moderating(t) ==
  {w \in Doing("count_reporters") \cup Doing("read_target") \cup Doing("sanction") :
     task[w].target = t}

\* A statement rejects or the server stops: the rest of the handler is lost,
\* and its transaction is rolled back.
Abort(w) ==
  /\ ~ Free(w)
  /\ cut' = cut \cup {t \in Targets : w \in Moderating(t)}
  /\ Proceed(w, Idle)
  /\ UNCHANGED <<booking, reviewVars, account, reports, late>>

----------------------------------------------------------------------------

CreateReview(w) ==
  \/ \E b \in Bookings : RequestReview(w, b)
  \/ FindBooking(w)
  \/ InsertReview(w)
  \/ Aggregate(w)
  \/ CommitReview(w)

CreateReport(w) ==
  \/ \E u \in Users, t \in Targets, ref \in References : RequestReport(w, u, t, ref)
  \/ FindReport(w)
  \/ InsertReport(w)
  \/ CountReporters(w)
  \/ ReadTarget(w)
  \/ Sanction(w)

Next ==
  \/ \E w \in Workers : CreateReview(w) \/ CreateReport(w) \/ Abort(w)
  \/ \E b \in Bookings : BookingMoves(b)

Spec == Init /\ [][Next]_vars

----------------------------------------------------------------------------
(* Properties of the reviews *)

\* A booking with a review was completed at some time, even when a stale writer
\* has given it another status since.
ReviewedWasCompleted == \A b \in rated : booking[b] # "before"

\* A review is missing from the rating only when its transaction overlapped that
\* of a review the rating counts: a review made alone always repairs it.
LostOnlyToOverlap ==
  \A b \in rated \ published : \E d \in published : {b, d} \in overlaps

\* The transactions together implement the abstract rating.
Rating == INSTANCE Ratings WITH
  Bookings <- Bookings, rated <- rated, published <- published

ImplementsRating == Rating!Spec

----------------------------------------------------------------------------
(* Properties of the reports *)

\* Nobody is warned or suspended by fewer users than the thresholds ask for,
\* however often each of them reports.
SanctionsJustified ==
  \A t \in Targets :
    /\ account[t] = "warned" => Cardinality(Reporters(t)) >= WARN_THRESHOLD
    /\ account[t] = "suspended" => Cardinality(Reporters(t)) >= SUSPEND_THRESHOLD

\* Once the reports of a user have been moderated to the end, enough reporters
\* mean a sanction.  Not the sanction that their number asks for: a handler that
\* counted two may write its warning over the suspension of a later one.
ThresholdsApplied ==
  \A t \in Targets :
    Moderating(t) = {} /\ t \notin cut /\ Cardinality(Reporters(t)) >= WARN_THRESHOLD
      => account[t] # "active"

\* One report of a user about another for each handler that looked for it before
\* the first was stored, and a single one when it names a booking.
DuplicatesBounded ==
  \A k \in Keys :
    /\ reports[k] + Cardinality({w \in Doing("insert_report") : task[w].key = k})
         <= Cardinality(Workers)
    /\ k[3] # NoBooking => reports[k] <= 1

\* The writes that are on their way for a user.
Pending(u) ==
  {w \in Workers :
     \/ task[w].step \in {"find_booking", "insert_review", "aggregate", "commit_review"}
        /\ ClientOf[task[w].booking] = u
     \/ task[w].step \in {"find_report", "insert_report"} /\ task[w].key[1] = u}

\* A suspended account writes nothing but what the guard admitted before: each
\* handler that was in flight ends with one row at most.
SuspensionBites ==
  \A u \in Users :
    account[u] = "suspended" => late[u] + Cardinality(Pending(u)) <= Cardinality(Workers)

=============================================================================
