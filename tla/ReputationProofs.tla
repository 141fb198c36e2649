-------------------------- MODULE ReputationProofs --------------------------
(***************************************************************************)
(* Theorems about Reputation, for any number of workers, users, bookings   *)
(* and targets, and any threshold of the warning.                          *)
(***************************************************************************)
EXTENDS Reputation, FiniteSetTheorems, TLAPS

----------------------------------------------------------------------------
(* Tasks *)

\* The step of a task tells which fields it has.
LEMMA TaskShape ==
  ASSUME NEW t \in Tasks
  PROVE  /\ t.step \in {"find_booking", "insert_review", "aggregate", "commit_review"} => t.booking \in Bookings
         /\ t.step = "commit_review" => t.seen \in SUBSET Bookings
         /\ t.step \in {"find_report", "insert_report"} => t.key \in Keys
         /\ t.step \in {"count_reporters", "read_target", "sanction"} => t.target \in Targets
         /\ t.step = "read_target" => t.count \in Nat
         /\ t.step = "sanction" => t.to \in {"warned", "suspended"}
BY DEF Tasks, Idle, ReviewTasks, ReportTasks, ModerationTasks

\* What the actions pass to Proceed is a task.
LEMMA NextTasks ==
  /\ Idle \in Tasks
  /\ \A b \in Bookings : /\ [step |-> "find_booking", booking |-> b] \in Tasks
                         /\ [step |-> "insert_review", booking |-> b] \in Tasks
                         /\ [step |-> "aggregate", booking |-> b] \in Tasks
  /\ \A b \in Bookings, seen \in SUBSET Bookings :
       [step |-> "commit_review", booking |-> b, seen |-> seen] \in Tasks
  /\ \A k \in Keys : /\ [step |-> "find_report", key |-> k] \in Tasks
                     /\ [step |-> "insert_report", key |-> k] \in Tasks
  /\ \A t \in Targets : [step |-> "count_reporters", target |-> t] \in Tasks
  /\ \A t \in Targets, n \in Nat : [step |-> "read_target", target |-> t, count |-> n] \in Tasks
  /\ \A t \in Targets, to \in {"warned", "suspended"} :
       [step |-> "sanction", target |-> t, to |-> to] \in Tasks
BY DEF Tasks, Idle, ReviewTasks, ReportTasks, ModerationTasks

\* A worker that proceeds keeps the others' tasks.
LEMMA ProceedType ==
  ASSUME task \in [Workers -> Tasks], NEW w \in Workers, NEW t \in Tasks, Proceed(w, t)
  PROVE  /\ task' \in [Workers -> Tasks]
         /\ task'[w] = t
         /\ \A v \in Workers : v # w => task'[v] = task[v]
BY DEF Proceed

\* Reporters are users, and finitely many.
LEMMA ReportersFinite ==
  ASSUME NEW t
  PROVE  /\ IsFiniteSet(Reporters(t)) /\ Cardinality(Reporters(t)) \in Nat
         /\ Counted(t) = Cardinality(Reporters(t))
PROOF
  <1>1. Reporters(t) \subseteq Users
    BY DEF Reporters
  <1> QED
    BY <1>1, TablesAssumption, FS_Subset, FS_CardinalityType DEF Counted

\* The handlers that are counted are workers.
LEMMA WorkerSets ==
  ASSUME NEW S \in SUBSET Workers
  PROVE  /\ IsFiniteSet(S) /\ Cardinality(S) \in Nat
         /\ Cardinality(S) <= Cardinality(Workers)
         /\ Cardinality(Workers) \in Nat
BY TablesAssumption, FS_Subset, FS_CardinalityType

----------------------------------------------------------------------------
(* Type correctness *)

LEMMA TypeInit == Init => TypeOK
BY NextTasks DEF Init, TypeOK

LEMMA TypeReviews ==
  ASSUME TypeOK, NEW w \in Workers, CreateReview(w)
  PROVE  TypeOK'
PROOF
  <1> USE NextTasks, ProceedType
  <1>a. task \in [Workers -> Tasks] /\ task[w] \in Tasks
    BY DEF TypeOK
  <1>1. ASSUME NEW b \in Bookings, RequestReview(w, b) PROVE TypeOK'
    <2>1. task' \in [Workers -> Tasks]
      BY <1>1, <1>a DEF RequestReview
    <2> QED
      BY <1>1, <2>1 DEF RequestReview, TypeOK, reviewVars, accountVars
  <1>2. CASE FindBooking(w)
    <2>1. task[w].booking \in Bookings
      BY <1>2, <1>a, TaskShape DEF FindBooking, At
    <2>2. task' \in [Workers -> Tasks]
      BY <1>2, <1>a, <2>1 DEF FindBooking
    <2> QED
      BY <1>2, <2>2 DEF FindBooking, TypeOK, reviewVars, accountVars
  <1>3. CASE InsertReview(w)
    <2>1. task[w].booking \in Bookings
      BY <1>3, <1>a, TaskShape DEF InsertReview, At
    <2>2. task' \in [Workers -> Tasks]
      BY <1>3, <1>a, <2>1 DEF InsertReview
    <2>3. OpenReviews \subseteq Bookings
      BY TaskShape DEF OpenReviews, Reviewing, Doing, At, TypeOK
    <2>4. overlaps' \subseteq SUBSET Bookings
      BY <1>3, <2>1, <2>3 DEF InsertReview, TypeOK
    <2> QED
      BY <1>3, <2>2, <2>4 DEF InsertReview, TypeOK, accountVars
  <1>4. CASE Aggregate(w)
    <2>1. task[w].booking \in Bookings
      BY <1>4, <1>a, TaskShape DEF Aggregate, At
    <2>2. Seen(task[w].booking) \in SUBSET Bookings
      BY <2>1 DEF Seen, TypeOK
    <2>3. task' \in [Workers -> Tasks]
      BY <1>4, <1>a, <2>1, <2>2 DEF Aggregate
    <2> QED
      BY <1>4, <2>3 DEF Aggregate, TypeOK, reviewVars, accountVars
  <1>5. CASE CommitReview(w)
    <2>1. task[w].booking \in Bookings /\ task[w].seen \in SUBSET Bookings
      BY <1>5, <1>a, TaskShape DEF CommitReview, At
    <2>2. task' \in [Workers -> Tasks]
      BY <1>5, <1>a DEF CommitReview
    <2>3. late' \in [Users -> Nat]
      BY <1>5, <2>1, TablesAssumption DEF CommitReview, Written, TypeOK
    <2> QED
      BY <1>5, <2>1, <2>2, <2>3 DEF CommitReview, TypeOK, accountVars
  <1> QED
    BY <1>1, <1>2, <1>3, <1>4, <1>5 DEF CreateReview

LEMMA TypeReports ==
  ASSUME TypeOK, NEW w \in Workers, CreateReport(w)
  PROVE  TypeOK'
PROOF
  <1> USE NextTasks, ProceedType
  <1>a. task \in [Workers -> Tasks] /\ task[w] \in Tasks
    BY DEF TypeOK
  <1>1. ASSUME NEW u \in Users, NEW t \in Targets, NEW ref \in References, RequestReport(w, u, t, ref)
        PROVE  TypeOK'
    <2>1. <<u, t, ref>> \in Keys
      BY DEF Keys
    <2>2. task' \in [Workers -> Tasks]
      BY <1>1, <1>a, <2>1 DEF RequestReport
    <2> QED
      BY <1>1, <2>2 DEF RequestReport, TypeOK, reviewVars, accountVars
  <1>2. CASE FindReport(w)
    <2>1. task[w].key \in Keys
      BY <1>2, <1>a, TaskShape DEF FindReport, At
    <2>2. task' \in [Workers -> Tasks]
      BY <1>2, <1>a, <2>1 DEF FindReport
    <2> QED
      BY <1>2, <2>2 DEF FindReport, TypeOK, reviewVars, accountVars
  <1>3. CASE InsertReport(w)
    <2>1. task[w].key \in Keys
      BY <1>3, <1>a, TaskShape DEF InsertReport, At
    <2>2. task[w].key[2] \in Targets
      BY <2>1 DEF Keys
    <2>3. task' \in [Workers -> Tasks]
      BY <1>3, <1>a, <2>2 DEF InsertReport
    <2>4. reports' \in [Keys -> Nat] /\ late' \in [Users -> Nat]
      BY <1>3, <2>1 DEF InsertReport, Written, TypeOK
    <2> QED
      BY <1>3, <2>3, <2>4 DEF InsertReport, TypeOK, reviewVars
  <1>4. CASE CountReporters(w)
    <2>1. task[w].target \in Targets
      BY <1>4, <1>a, TaskShape DEF CountReporters, At
    <2>2. Counted(task[w].target) \in Nat
      BY ReportersFinite
    <2>3. task' \in [Workers -> Tasks]
      BY <1>4, <1>a, <2>1, <2>2 DEF CountReporters
    <2> QED
      BY <1>4, <2>3 DEF CountReporters, TypeOK, reviewVars, accountVars
  <1>5. CASE ReadTarget(w)
    <2>1. task[w].target \in Targets
      BY <1>5, <1>a, TaskShape DEF ReadTarget, At
    <2>2. task' \in [Workers -> Tasks]
      BY <1>5, <1>a, <2>1 DEF ReadTarget
    <2> QED
      BY <1>5, <2>2 DEF ReadTarget, TypeOK, reviewVars, accountVars
  <1>6. CASE Sanction(w)
    <2>1. task[w].target \in Targets /\ task[w].to \in {"warned", "suspended"}
      BY <1>6, <1>a, TaskShape DEF Sanction, At
    <2>2. task' \in [Workers -> Tasks]
      BY <1>6, <1>a DEF Sanction
    <2>3. account' \in [Users -> {"active", "warned", "suspended"}] /\ late' \in [Users -> Nat]
      BY <1>6, <2>1 DEF Sanction, TypeOK
    <2> QED
      BY <1>6, <2>2, <2>3 DEF Sanction, TypeOK, reviewVars
  <1> QED
    BY <1>1, <1>2, <1>3, <1>4, <1>5, <1>6 DEF CreateReport

LEMMA TypeStep == TypeOK /\ [Next]_vars => TypeOK'
PROOF
  <1> SUFFICES ASSUME TypeOK, [Next]_vars PROVE TypeOK'
    OBVIOUS
  <1>1. ASSUME NEW w \in Workers, Abort(w) PROVE TypeOK'
    <2>1. task' \in [Workers -> Tasks]
      BY <1>1, NextTasks, ProceedType DEF Abort, TypeOK
    <2> QED
      BY <1>1, <2>1 DEF Abort, TypeOK, reviewVars
  <1>2. ASSUME NEW b \in Bookings, BookingMoves(b) PROVE TypeOK'
    BY <1>2 DEF BookingMoves, TypeOK, reviewVars, accountVars
  <1>3. CASE UNCHANGED vars
    BY <1>3 DEF TypeOK, vars, reviewVars, accountVars
  <1> QED
    BY <1>1, <1>2, <1>3, TypeReviews, TypeReports DEF Next

\* Every statement of the services finds in its task what it uses, and the rows
\* keep their types.
THEOREM TypeCorrect == Spec => []TypeOK
BY TypeInit, TypeStep, PTL DEF Spec

----------------------------------------------------------------------------
(* Reviews *)

\* The status a review was found reviewable by does not go back to the beginning.
WasCompleted ==
  \A w \in Workers :
    task[w].step \in {"insert_review", "aggregate", "commit_review"} =>
      booking[task[w].booking] # "before"

\* Open transactions hold different keys, none of them committed, and each pair
\* of them is on record.
HoldKeys ==
  /\ \A w \in Reviewing : task[w].booking \notin rated
  /\ \A v, w \in Reviewing :
       v # w => /\ task[v].booking # task[w].booking
                /\ {task[v].booking, task[w].booking} \in overlaps

\* What an aggregate missed was committed while its transaction was open.
SeenIsPast ==
  \A w \in Doing("commit_review") :
    /\ task[w].booking \in task[w].seen
    /\ task[w].seen \subseteq rated \cup {task[w].booking}
    /\ \A b \in rated \ task[w].seen : {b, task[w].booking} \in overlaps

ReviewInv ==
  /\ WasCompleted /\ ReviewedWasCompleted
  /\ HoldKeys /\ SeenIsPast /\ published \subseteq rated /\ LostOnlyToOverlap

\* What the reviews depend on.
NoReview(w) ==
  /\ UNCHANGED reviewVars
  /\ task' \in [Workers -> Tasks]
  /\ \A v \in Workers : v # w => task'[v] = task[v]
  /\ task'[w].step \notin {"insert_review", "aggregate", "commit_review"}
  /\ booking' = booking

LEMMA NoReviewKeeps ==
  ASSUME TypeOK, ReviewInv, NEW w \in Workers, NoReview(w)
  PROVE  ReviewInv'
PROOF
  <1>1. \A v \in Workers :
          task'[v].step \in {"insert_review", "aggregate", "commit_review"} => task'[v] = task[v]
    BY DEF NoReview
  <1>2. WasCompleted' /\ ReviewedWasCompleted'
    BY <1>1 DEF ReviewInv, WasCompleted, ReviewedWasCompleted, NoReview, reviewVars
  <1>3. \A v \in Workers : v \in Reviewing' => v \in Reviewing /\ task'[v] = task[v]
    BY <1>1 DEF Reviewing, Doing, At
  <1>4. HoldKeys'
    BY <1>3 DEF ReviewInv, HoldKeys, NoReview, reviewVars, Reviewing, Doing
  <1>5. SeenIsPast'
    BY <1>1 DEF ReviewInv, SeenIsPast, NoReview, reviewVars, Doing, At
  <1> QED
    BY <1>2, <1>4, <1>5 DEF ReviewInv, LostOnlyToOverlap, NoReview, reviewVars

\* The check of a booking.
LEMMA FindReviewable ==
  ASSUME TypeOK, ReviewInv, NEW w \in Workers, FindBooking(w)
  PROVE  ReviewInv'
PROOF
  <1>a. task \in [Workers -> Tasks] /\ task[w].booking \in Bookings
    BY TaskShape DEF TypeOK, FindBooking, At
  <1> DEFINE b == task[w].booking
  <1>1. CASE Reviewable(b)
    <2>1. /\ task'[w] = [step |-> "insert_review", booking |-> b]
          /\ \A v \in Workers : v # w => task'[v] = task[v]
      BY <1>1, <1>a, NextTasks, ProceedType DEF FindBooking
    <2>2. WasCompleted' /\ ReviewedWasCompleted'
      BY <1>1, <2>1 DEF ReviewInv, WasCompleted, ReviewedWasCompleted, Reviewable, FindBooking, reviewVars
    <2>3. \A v \in Workers :
            task'[v].step \in {"aggregate", "commit_review"} => task'[v] = task[v]
      BY <2>1
    <2>4. \A v \in Workers : v \in Reviewing' => v \in Reviewing /\ task'[v] = task[v]
      BY <2>3 DEF Reviewing, Doing, At
    <2>5. HoldKeys'
      BY <2>4 DEF ReviewInv, HoldKeys, FindBooking, reviewVars, Reviewing, Doing
    <2>6. SeenIsPast'
      BY <2>3 DEF ReviewInv, SeenIsPast, FindBooking, reviewVars, Doing, At
    <2> QED
      BY <2>2, <2>5, <2>6 DEF ReviewInv, LostOnlyToOverlap, FindBooking, reviewVars
  <1>2. CASE ~ Reviewable(b)
    <2>1. NoReview(w)
      BY <1>2, <1>a, NextTasks, ProceedType DEF FindBooking, NoReview, Idle
    <2> QED
      BY <2>1, NoReviewKeeps
  <1> QED
    BY <1>1, <1>2

\* An insert opens a transaction, beside those that hold other keys.
LEMMA InsertHolds ==
  ASSUME TypeOK, ReviewInv, NEW w \in Workers, InsertReview(w)
  PROVE  ReviewInv'
PROOF
  <1>a. task \in [Workers -> Tasks] /\ task[w].booking \in Bookings
    BY TaskShape DEF TypeOK, InsertReview, At
  <1> DEFINE b == task[w].booking
  <1>1. CASE b \notin rated
    <2>1. /\ task'[w] = [step |-> "aggregate", booking |-> b]
          /\ \A v \in Workers : v # w => task'[v] = task[v]
          /\ overlaps' = overlaps \cup {{b, d} : d \in OpenReviews}
          /\ UNCHANGED <<booking, rated, published>>
      BY <1>1, <1>a, NextTasks, ProceedType DEF InsertReview
    <2>2. WasCompleted' /\ ReviewedWasCompleted'
      BY <2>1 DEF ReviewInv, WasCompleted, ReviewedWasCompleted, InsertReview, At
    <2>3. \A v \in Workers : v \in Reviewing' /\ v # w => v \in Reviewing /\ task'[v] = task[v]
      BY <2>1 DEF Reviewing, Doing, At
    <2>4. \A v \in Reviewing : task[v].booking \in OpenReviews
      BY DEF OpenReviews
    <2>5. \A v \in Reviewing : task[v].booking # b /\ {b, task[v].booking} \in overlaps'
      BY <2>1, <2>4 DEF InsertReview, KeyFree
    <2>6. HoldKeys'
      <3>1. \A v \in Reviewing' : task'[v].booking \notin rated'
        BY <1>1, <2>1, <2>3 DEF ReviewInv, HoldKeys, Reviewing, Doing
      <3>2. ASSUME NEW v \in Reviewing', NEW x \in Reviewing', v # x
            PROVE  /\ task'[v].booking # task'[x].booking
                   /\ {task'[v].booking, task'[x].booking} \in overlaps'
        <4>0. v \in Workers /\ x \in Workers
          BY DEF Reviewing, Doing
        <4>1. CASE v # w /\ x # w
          BY <4>0, <4>1, <3>2, <2>1, <2>3 DEF ReviewInv, HoldKeys
        <4>2. CASE v = w
          BY <4>0, <4>2, <3>2, <2>1, <2>3, <2>5
        <4>3. CASE x = w
          <5>1. {task'[v].booking, task'[x].booking} = {b, task[v].booking}
            BY <4>0, <4>3, <3>2, <2>1, <2>3
          <5> QED
            BY <4>0, <4>3, <3>2, <2>1, <2>3, <2>5, <5>1
        <4> QED
          BY <4>1, <4>2, <4>3
      <3> QED
        BY <3>1, <3>2 DEF HoldKeys
    <2>7. \A v \in Doing("commit_review")' : v \in Doing("commit_review") /\ task'[v] = task[v]
      BY <2>1 DEF Doing, At
    <2>8. SeenIsPast'
      BY <2>1, <2>7 DEF ReviewInv, SeenIsPast
    <2> QED
      BY <2>1, <2>2, <2>6, <2>8 DEF ReviewInv, LostOnlyToOverlap
  <1>2. CASE b \in rated
    <2>1. NoReview(w)
      BY <1>2, <1>a, NextTasks, ProceedType DEF InsertReview, NoReview, reviewVars, Idle
    <2> QED
      BY <2>1, NoReviewKeeps
  <1> QED
    BY <1>1, <1>2

\* An aggregate sees what is committed, and its own review.
LEMMA AggregateSees ==
  ASSUME TypeOK, ReviewInv, NEW w \in Workers, Aggregate(w)
  PROVE  ReviewInv'
PROOF
  <1>a. task \in [Workers -> Tasks] /\ task[w].booking \in Bookings
    BY TaskShape DEF TypeOK, Aggregate, At
  <1> DEFINE b == task[w].booking
  <1>1. /\ task'[w] = [step |-> "commit_review", booking |-> b, seen |-> rated \cup {b}]
        /\ \A v \in Workers : v # w => task'[v] = task[v]
        /\ UNCHANGED <<booking, rated, published, overlaps>>
    <2>1. Seen(b) \in SUBSET Bookings
      BY <1>a DEF Seen, TypeOK
    <2> QED
      BY <1>a, <2>1, NextTasks, ProceedType DEF Aggregate, reviewVars, Seen
  <1>2. \A v \in Workers : task'[v].step \in {"insert_review", "aggregate", "commit_review"} =>
          /\ task[v].step \in {"insert_review", "aggregate", "commit_review"}
          /\ task'[v].booking = task[v].booking
    BY <1>1 DEF Aggregate, At
  <1>3. WasCompleted' /\ ReviewedWasCompleted'
    BY <1>1, <1>2 DEF ReviewInv, WasCompleted, ReviewedWasCompleted
  <1>4. \A v \in Reviewing' : v \in Reviewing /\ task'[v].booking = task[v].booking
    BY <1>1 DEF Reviewing, Doing, At, Aggregate
  <1>5. HoldKeys'
    BY <1>1, <1>4 DEF ReviewInv, HoldKeys
  <1>6. SeenIsPast'
    <2>1. ASSUME NEW v \in Doing("commit_review")', v # w
          PROVE  v \in Doing("commit_review") /\ task'[v] = task[v]
      BY <1>1, <2>1 DEF Doing, At
    <2> QED
      BY <1>1, <2>1 DEF ReviewInv, SeenIsPast
  <1> QED
    BY <1>1, <1>3, <1>5, <1>6 DEF ReviewInv, LostOnlyToOverlap

\* A commit publishes what its aggregate saw; what it missed is on record.
LEMMA CommitPublishes ==
  ASSUME TypeOK, ReviewInv, NEW w \in Workers, CommitReview(w)
  PROVE  ReviewInv' /\ Rating!Next
PROOF
  <1>a. /\ task \in [Workers -> Tasks]
        /\ task[w].booking \in Bookings /\ task[w].seen \in SUBSET Bookings
    BY TaskShape DEF TypeOK, CommitReview, At
  <1> DEFINE b == task[w].booking
             seen == task[w].seen
  <1>1. /\ task'[w] = Idle
        /\ \A v \in Workers : v # w => task'[v] = task[v]
        /\ rated' = rated \cup {b} /\ published' = seen
        /\ UNCHANGED <<booking, overlaps>>
    BY <1>a, NextTasks, ProceedType DEF CommitReview
  <1>2. w \in Doing("commit_review") /\ w \in Reviewing
    BY DEF CommitReview, Reviewing, Doing
  <1>3. /\ b \in seen /\ seen \subseteq rated \cup {b}
        /\ \A d \in rated \ seen : {d, b} \in overlaps
        /\ b \notin rated
    BY <1>2 DEF ReviewInv, SeenIsPast, HoldKeys
  <1>4. WasCompleted' /\ ReviewedWasCompleted'
    BY <1>1 DEF ReviewInv, WasCompleted, ReviewedWasCompleted, Idle, CommitReview, At
  <1>5. \A v \in Reviewing' : v \in Reviewing /\ v # w /\ task'[v] = task[v]
    BY <1>1 DEF Reviewing, Doing, At, Idle
  <1>6. HoldKeys'
    BY <1>1, <1>2, <1>5 DEF ReviewInv, HoldKeys
  <1>7. SeenIsPast'
    <2>1. ASSUME NEW v \in Doing("commit_review")'
          PROVE  /\ v \in Doing("commit_review") /\ v \in Reviewing /\ v # w
                 /\ task'[v] = task[v]
      BY <1>1, <2>1 DEF Doing, At, Reviewing, Idle
    <2>2. ASSUME NEW v \in Doing("commit_review")'
          PROVE  {b, task[v].booking} \in overlaps
      BY <1>2, <2>1, <2>2 DEF ReviewInv, HoldKeys
    <2> QED
      BY <1>1, <2>1, <2>2 DEF ReviewInv, SeenIsPast
  <1>8. published' \subseteq rated' /\ LostOnlyToOverlap'
    BY <1>1, <1>3 DEF LostOnlyToOverlap
  <1>9. Rating!Next
    <2>1. seen \ {b} \in SUBSET rated /\ published' = (seen \ {b}) \cup {b}
      BY <1>1, <1>3
    <2> QED
      BY <1>a, <1>1, <1>3, <2>1 DEF Rating!Next, Rating!Publish
  <1> QED
    BY <1>4, <1>6, <1>7, <1>8, <1>9 DEF ReviewInv

\* Reports, moderations, faults and the life of the bookings keep all that.
LEMMA OthersKeepReviews ==
  ASSUME TypeOK, ReviewInv, Next,
         ~ \E w \in Workers : FindBooking(w) \/ InsertReview(w) \/ Aggregate(w) \/ CommitReview(w)
  PROVE  ReviewInv' /\ UNCHANGED <<rated, published>>
PROOF
  <1> USE NextTasks, ProceedType
  <1>1. ASSUME NEW w \in Workers, CreateReport(w) PROVE NoReview(w)
    <2>a. task \in [Workers -> Tasks] /\ task[w] \in Tasks
      BY DEF TypeOK
    <2>b. ASSUME NEW t \in Tasks, Proceed(w, t), UNCHANGED <<booking, reviewVars>>,
                 t.step \notin {"insert_review", "aggregate", "commit_review"}
          PROVE  NoReview(w)
      BY <2>a, <2>b DEF NoReview
    <2>1. ASSUME NEW u \in Users, NEW t \in Targets, NEW ref \in References, RequestReport(w, u, t, ref)
          PROVE  NoReview(w)
      <3>1. <<u, t, ref>> \in Keys
        BY DEF Keys
      <3>2. [step |-> "find_report", key |-> <<u, t, ref>>] \in Tasks
        BY <3>1
      <3> QED
        BY <2>1, <2>b, <3>2 DEF RequestReport
    <2>2. CASE FindReport(w)
      <3>1. task[w].key \in Keys
        BY <2>a, <2>2, TaskShape DEF FindReport, At
      <3> QED
        BY <2>2, <2>b, <3>1 DEF FindReport, Idle
    <2>3. CASE InsertReport(w)
      <3>1. task[w].key \in Keys /\ task[w].key[2] \in Targets
        BY <2>a, <2>3, TaskShape DEF InsertReport, At, Keys
      <3> QED
        BY <2>3, <2>b, <3>1 DEF InsertReport, Idle
    <2>4. CASE CountReporters(w)
      <3>1. task[w].target \in Targets /\ Counted(task[w].target) \in Nat
        BY <2>a, <2>4, TaskShape, ReportersFinite DEF CountReporters, At
      <3> QED
        BY <2>4, <2>b, <3>1 DEF CountReporters
    <2>5. CASE ReadTarget(w)
      <3>1. task[w].target \in Targets
        BY <2>a, <2>5, TaskShape DEF ReadTarget, At
      <3> QED
        BY <2>5, <2>b, <3>1 DEF ReadTarget, Idle
    <2>6. CASE Sanction(w)
      BY <2>6, <2>b DEF Sanction, Idle
    <2> QED
      BY <1>1, <2>1, <2>2, <2>3, <2>4, <2>5, <2>6 DEF CreateReport
  <1>2. ASSUME NEW w \in Workers, Abort(w) PROVE NoReview(w)
    BY <1>2 DEF Abort, NoReview, TypeOK, Idle
  <1>3. ASSUME NEW w \in Workers, NEW b \in Bookings, RequestReview(w, b) PROVE NoReview(w)
    <2>1. Proceed(w, [step |-> "find_booking", booking |-> b]) /\ UNCHANGED <<booking, reviewVars>>
      BY <1>3 DEF RequestReview
    <2>2. [step |-> "find_booking", booking |-> b] \in Tasks
      OBVIOUS
    <2>3. /\ task' \in [Workers -> Tasks]
          /\ task'[w] = [step |-> "find_booking", booking |-> b]
          /\ \A v \in Workers : v # w => task'[v] = task[v]
      BY <2>1, <2>2 DEF TypeOK
    <2> QED
      BY <2>1, <2>3 DEF NoReview
  <1>4. ASSUME NEW b \in Bookings, BookingMoves(b)
        PROVE  ReviewInv' /\ UNCHANGED <<rated, published>>
    <2>1. /\ \A d \in Bookings : booking[d] # "before" => booking'[d] # "before"
          /\ UNCHANGED <<rated, published, overlaps, task>>
      BY <1>4 DEF BookingMoves, TypeOK, reviewVars
    <2>2. WasCompleted' /\ ReviewedWasCompleted'
      BY <2>1, TaskShape DEF ReviewInv, WasCompleted, ReviewedWasCompleted, TypeOK
    <2>3. HoldKeys' /\ SeenIsPast'
      BY <2>1 DEF ReviewInv, HoldKeys, SeenIsPast, Reviewing, Doing, At
    <2> QED
      BY <2>1, <2>2, <2>3 DEF ReviewInv, LostOnlyToOverlap
  <1>5. ASSUME NEW w \in Workers, NoReview(w) PROVE ReviewInv' /\ UNCHANGED <<rated, published>>
    BY <1>5, NoReviewKeeps DEF NoReview, reviewVars
  <1> QED
    BY <1>1, <1>2, <1>3, <1>4, <1>5 DEF Next, CreateReview

LEMMA ReviewStep ==
  ASSUME TypeOK, ReviewInv, [Next]_vars
  PROVE  ReviewInv' /\ [Rating!Next]_<<rated, published>>
PROOF
  <1>1. CASE UNCHANGED vars
    BY <1>1 DEF ReviewInv, WasCompleted, ReviewedWasCompleted, HoldKeys, SeenIsPast,
                LostOnlyToOverlap, Reviewing, Doing, At, vars, reviewVars
  <1>2. ASSUME NEW w \in Workers, FindBooking(w) \/ InsertReview(w) \/ Aggregate(w)
        PROVE  ReviewInv' /\ UNCHANGED <<rated, published>>
    BY <1>2, FindReviewable, InsertHolds, AggregateSees
       DEF FindBooking, InsertReview, Aggregate, reviewVars
  <1>3. ASSUME NEW w \in Workers, CommitReview(w) PROVE ReviewInv' /\ Rating!Next
    BY <1>3, CommitPublishes
  <1>4. CASE UNCHANGED <<rated, published>> /\ ReviewInv'
    BY <1>4
  <1> QED
    BY <1>1, <1>2, <1>3, OthersKeepReviews DEF vars, reviewVars

LEMMA ReviewInit == Init => ReviewInv
BY DEF Init, ReviewInv, WasCompleted, ReviewedWasCompleted, HoldKeys, SeenIsPast,
       LostOnlyToOverlap, Reviewing, Doing, At, Idle

\* Whatever transactions overlap and wherever they stop, a review is lost from the
\* rating only to one that overlapped it, and reviewed bookings were completed.
THEOREM ReviewsCorrect == Spec => []ReviewInv
BY TypeCorrect, ReviewInit, ReviewStep, PTL DEF Spec

\* A rating misses a review only when the transactions of the two overlapped
\* (ReviewsService.create).
THEOREM LossesExplained == Spec => []LostOnlyToOverlap
PROOF
  <1>1. ReviewInv => LostOnlyToOverlap
    BY DEF ReviewInv
  <1> QED
    BY <1>1, ReviewsCorrect, PTL

\* A reviewed booking was completed, whatever became of it since
\* (ReviewsService.create).
THEOREM OnlyCompletedReviewed == Spec => []ReviewedWasCompleted
PROOF
  <1>1. ReviewInv => ReviewedWasCompleted
    BY DEF ReviewInv
  <1> QED
    BY <1>1, ReviewsCorrect, PTL

\* The transactions implement the abstract rating of Ratings.
THEOREM RatingImplemented == Spec => ImplementsRating
PROOF
  <1>1. Init => Rating!Init
    BY DEF Init, Rating!Init
  <1>2. TypeOK /\ ReviewInv /\ [Next]_vars => [Rating!Next]_(Rating!ratings)
    BY ReviewStep DEF Rating!ratings
  <1> QED
    BY <1>1, <1>2, TypeCorrect, ReviewsCorrect, PTL DEF Spec, ImplementsRating, Rating!Spec

----------------------------------------------------------------------------
(* Sanctions *)

\* What a moderation has counted stays true, and what it is about to write is
\* what the count asks for.
CountsHold ==
  \A w \in Workers :
    /\ At(w, "read_target") => task[w].count <= Cardinality(Reporters(task[w].target))
    /\ At(w, "sanction") =>
         /\ task[w].to = "warned" => Cardinality(Reporters(task[w].target)) >= WARN_THRESHOLD
         /\ task[w].to = "suspended" => Cardinality(Reporters(task[w].target)) >= SUSPEND_THRESHOLD

\* Enough reporters and no sanction: a moderation that will write one is on its way.
WillSanction(w, t) ==
  /\ w \in Moderating(t)
  /\ At(w, "read_target") => task[w].count >= WARN_THRESHOLD

SanctionDue ==
  \A t \in Targets :
    t \notin cut /\ Cardinality(Reporters(t)) >= WARN_THRESHOLD /\ account[t] = "active"
      => \E w \in Workers : WillSanction(w, t)

SanctionInv == CountsHold /\ SanctionsJustified /\ SanctionDue

\* Reports are only ever added.
LEMMA ReportersGrow ==
  ASSUME TypeOK, \A k \in Keys : reports[k] > 0 => reports'[k] > 0
  PROVE  \A t \in Targets :
           /\ Cardinality(Reporters(t)) <= Cardinality(Reporters(t)')
           /\ Cardinality(Reporters(t)) \in Nat /\ Cardinality(Reporters(t)') \in Nat
PROOF
  <1> TAKE t \in Targets
  <1>1. Reporters(t) \subseteq Reporters(t)'
    BY DEF Reporters, Keys
  <1>2. Reporters(t)' \subseteq Users /\ IsFiniteSet(Users)
    BY TablesAssumption DEF Reporters
  <1>3. IsFiniteSet(Reporters(t)') /\ IsFiniteSet(Reporters(t))
    BY <1>1, <1>2, FS_Subset
  <1> QED
    BY <1>1, <1>3, FS_Subset, FS_CardinalityType

\* A step that counts nothing, sanctions nobody and reports nothing.
NoSanction(w) ==
  /\ UNCHANGED <<account, reports>> /\ cut \subseteq cut'
  /\ task' \in [Workers -> Tasks]
  /\ \A v \in Workers : v # w => task'[v] = task[v]
  /\ task'[w].step \notin {"count_reporters", "read_target", "sanction"}
  /\ \A t \in Targets : w \in Moderating(t) => t \in cut'

LEMMA NoSanctionKeeps ==
  ASSUME TypeOK, SanctionInv, NEW w \in Workers, NoSanction(w)
  PROVE  SanctionInv'
PROOF
  <1>1. \A t : Reporters(t)' = Reporters(t)
    BY DEF NoSanction, Reporters
  <1>2. CountsHold'
    BY <1>1 DEF SanctionInv, CountsHold, NoSanction, At
  <1>3. SanctionsJustified'
    BY <1>1 DEF SanctionInv, SanctionsJustified, NoSanction
  <1>4. ASSUME NEW t \in Targets, t \notin cut', NEW v \in Workers, WillSanction(v, t)
        PROVE  WillSanction(v, t)'
    <2>1. v # w
      BY <1>4 DEF NoSanction, WillSanction
    <2> QED
      BY <1>4, <2>1 DEF NoSanction, WillSanction, Moderating, Doing, At
  <1>5. SanctionDue'
    BY <1>1, <1>4 DEF SanctionInv, SanctionDue, NoSanction
  <1> QED
    BY <1>2, <1>3, <1>5 DEF SanctionInv

\* A report that is stored is followed by a count.
LEMMA InsertCounts ==
  ASSUME TypeOK, SanctionInv, NEW w \in Workers, InsertReport(w)
  PROVE  SanctionInv'
PROOF
  <1>a. /\ task \in [Workers -> Tasks] /\ task[w].key \in Keys
        /\ task[w].key[2] \in Targets
    BY TaskShape DEF TypeOK, InsertReport, At, Keys
  <1> DEFINE k == task[w].key
  <1>1. CASE KeyTaken(k)
    <2>1. NoSanction(w)
      BY <1>1, <1>a, NextTasks, ProceedType
         DEF InsertReport, NoSanction, Idle, Moderating, Doing, At
    <2> QED
      BY <2>1, NoSanctionKeeps
  <1>2. CASE ~ KeyTaken(k)
    <2>1. /\ reports' = [reports EXCEPT ![k] = @ + 1]
          /\ task'[w] = [step |-> "count_reporters", target |-> k[2]]
          /\ \A v \in Workers : v # w => task'[v] = task[v]
          /\ UNCHANGED <<account, cut>>
      BY <1>2, <1>a, NextTasks, ProceedType DEF InsertReport
    <2>2. \A t \in Targets :
            /\ Cardinality(Reporters(t)) <= Cardinality(Reporters(t)')
            /\ Cardinality(Reporters(t)) \in Nat /\ Cardinality(Reporters(t)') \in Nat
      <3>1. \A j \in Keys : reports[j] > 0 => reports'[j] > 0
        BY <2>1 DEF TypeOK
      <3> QED
        BY <3>1, ReportersGrow
    <2>3. \A t \in Targets : t # k[2] => Reporters(t)' = Reporters(t)
      <3>1. \A u, t, ref : <<u, t, ref>> = k => t = k[2]
        OBVIOUS
      <3>2. \A j \in Keys : j # k => reports'[j] = reports[j]
        BY <2>1 DEF TypeOK
      <3>3. ASSUME NEW t \in Targets, t # k[2], NEW u \in Users, NEW ref \in References
            PROVE  reports'[<<u, t, ref>>] = reports[<<u, t, ref>>]
        <4>1. <<u, t, ref>> \in Keys /\ <<u, t, ref>> # k
          BY <3>1, <3>3 DEF Keys
        <4> QED
          BY <3>2, <4>1
      <3> QED
        BY <3>3 DEF Reporters
    <2>4. CountsHold'
      <3>1. ASSUME NEW v \in Workers, task'[v].step \in {"read_target", "sanction"}
            PROVE  v # w /\ task'[v] = task[v] /\ task[v].target \in Targets
        BY <2>1, <3>1, <1>a, TaskShape
      <3>2. ASSUME NEW v \in Workers, At(v, "read_target")'
            PROVE  (task[v].count <= Cardinality(Reporters(task[v].target)))'
        <4>1. task[v].count <= Cardinality(Reporters(task[v].target)) /\ task[v].count \in Nat
          BY <3>1, <3>2, <1>a, TaskShape DEF At, SanctionInv, CountsHold
        <4> QED
          BY <2>2, <3>1, <3>2, <4>1 DEF At
      <3>3. ASSUME NEW v \in Workers, At(v, "sanction")', NEW n \in Nat,
                   Cardinality(Reporters(task[v].target)) >= n
            PROVE  (Cardinality(Reporters(task[v].target)) >= n)'
        BY <2>2, <3>1, <3>3 DEF At
      <3> QED
        BY <3>1, <3>2, <3>3, ThresholdsAssumption DEF CountsHold, SanctionInv, At
    <2>5. SanctionsJustified'
      <3>1. \A t \in Targets, n \in Nat :
              Cardinality(Reporters(t)) >= n => Cardinality(Reporters(t)') >= n
        BY <2>2
      <3> QED
        BY <2>1, <3>1, ThresholdsAssumption DEF SanctionInv, SanctionsJustified
    <2>6. SanctionDue'
      <3>1. ASSUME NEW t \in Targets, t # k[2], NEW v \in Workers, WillSanction(v, t)
            PROVE  WillSanction(v, t)'
        <4>1. v # w
          BY <3>1 DEF InsertReport, At, WillSanction, Moderating, Doing
        <4> QED
          BY <2>1, <3>1, <4>1 DEF WillSanction, Moderating, Doing, At
      <3>2. ASSUME NEW t \in Targets, t = k[2] PROVE WillSanction(w, t)'
        BY <2>1, <3>2 DEF WillSanction, Moderating, Doing, At
      <3> QED
        BY <2>1, <2>3, <3>1, <3>2 DEF SanctionInv, SanctionDue
    <2> QED
      BY <2>4, <2>5, <2>6 DEF SanctionInv
  <1> QED
    BY <1>1, <1>2

\* A moderation counts at least what the report before it has seen.
LEMMA CountKeeps ==
  ASSUME TypeOK, SanctionInv, NEW w \in Workers, CountReporters(w)
  PROVE  SanctionInv'
PROOF
  <1>a. task \in [Workers -> Tasks] /\ task[w].target \in Targets
    BY TaskShape DEF TypeOK, CountReporters, At
  <1> DEFINE t0 == task[w].target
  <1>1. /\ task'[w] = [step |-> "read_target", target |-> t0, count |-> Cardinality(Reporters(t0))]
        /\ \A v \in Workers : v # w => task'[v] = task[v]
        /\ UNCHANGED <<account, reports, cut>>
    BY <1>a, ReportersFinite, NextTasks, ProceedType DEF CountReporters, accountVars
  <1>2. \A t : Reporters(t)' = Reporters(t) /\ Cardinality(Reporters(t)) \in Nat
    BY <1>1, ReportersFinite DEF Reporters
  <1>3. CountsHold' /\ SanctionsJustified'
    BY <1>1, <1>2 DEF SanctionInv, CountsHold, SanctionsJustified, At
  <1>4. SanctionDue'
    <2>1. ASSUME NEW t \in Targets, t \notin cut', Cardinality(Reporters(t)') >= WARN_THRESHOLD,
                 account'[t] = "active"
          PROVE  \E w2 \in Workers : WillSanction(w2, t)'
      <3>1. PICK v \in Workers : WillSanction(v, t)
        BY <1>1, <1>2, <2>1 DEF SanctionInv, SanctionDue
      <3>2. CASE v # w
        BY <1>1, <3>1, <3>2 DEF WillSanction, Moderating, Doing, At
      <3>3. CASE v = w
        <4>1. t = t0
          BY <3>1, <3>3 DEF WillSanction, Moderating
        <4> QED
          BY <1>1, <1>2, <2>1, <4>1 DEF WillSanction, Moderating, Doing, At
      <3> QED
        BY <3>2, <3>3
    <2> QED
      BY <2>1 DEF SanctionDue
  <1> QED
    BY <1>3, <1>4 DEF SanctionInv

\* A moderation that counted enough goes on to a sanction.
LEMMA ReadKeeps ==
  ASSUME TypeOK, SanctionInv, NEW w \in Workers, ReadTarget(w)
  PROVE  SanctionInv'
PROOF
  <1>a. /\ task \in [Workers -> Tasks]
        /\ task[w].target \in Targets /\ task[w].count \in Nat
    BY TaskShape DEF TypeOK, ReadTarget, At
  <1> DEFINE t0 == task[w].target
             n == task[w].count
  <1>1. /\ task'[w] = IF Suspended(n, t0) THEN [step |-> "sanction", target |-> t0, to |-> "suspended"]
                      ELSE IF Warned(n, t0) THEN [step |-> "sanction", target |-> t0, to |-> "warned"]
                      ELSE Idle
        /\ \A v \in Workers : v # w => task'[v] = task[v]
        /\ UNCHANGED <<account, reports, cut>>
    BY <1>a, NextTasks, ProceedType DEF ReadTarget, accountVars
  <1>2. \A t : Reporters(t)' = Reporters(t) /\ Cardinality(Reporters(t)) \in Nat
    BY <1>1, ReportersFinite DEF Reporters
  <1>3. n <= Cardinality(Reporters(t0))
    BY DEF SanctionInv, CountsHold, ReadTarget
  <1>4. CountsHold'
    <2>1. CASE Suspended(n, t0)
      BY <1>a, <1>1, <1>2, <1>3, <2>1, ThresholdsAssumption
         DEF SanctionInv, CountsHold, At, Suspended
    <2>2. CASE ~ Suspended(n, t0) /\ Warned(n, t0)
      BY <1>a, <1>1, <1>2, <1>3, <2>2, ThresholdsAssumption
         DEF SanctionInv, CountsHold, At, Warned
    <2>3. CASE ~ Suspended(n, t0) /\ ~ Warned(n, t0)
      BY <1>a, <1>1, <1>2, <2>3 DEF SanctionInv, CountsHold, At, Idle
    <2> QED
      BY <2>1, <2>2, <2>3
  <1>5. SanctionsJustified'
    BY <1>1, <1>2 DEF SanctionInv, SanctionsJustified
  <1>6. SanctionDue'
    <2>1. ASSUME NEW t \in Targets, t \notin cut', Cardinality(Reporters(t)') >= WARN_THRESHOLD,
                 account'[t] = "active"
          PROVE  \E w2 \in Workers : WillSanction(w2, t)'
      <3>1. PICK v \in Workers : WillSanction(v, t)
        BY <1>1, <1>2, <2>1 DEF SanctionInv, SanctionDue
      <3>2. CASE v # w
        BY <1>1, <3>1, <3>2 DEF WillSanction, Moderating, Doing, At
      <3>3. CASE v = w
        <4>1. t = t0 /\ n >= WARN_THRESHOLD
          BY <3>1, <3>3 DEF WillSanction, Moderating, ReadTarget
        <4>2. Suspended(n, t0) \/ Warned(n, t0)
          BY <1>a, <1>1, <2>1, <4>1, ThresholdsAssumption DEF Suspended, Warned
        <4> QED
          BY <1>1, <4>1, <4>2 DEF WillSanction, Moderating, Doing, At
      <3> QED
        BY <3>2, <3>3
    <2> QED
      BY <2>1 DEF SanctionDue
  <1> QED
    BY <1>4, <1>5, <1>6 DEF SanctionInv

\* A sanction is written; nobody becomes active again.
LEMMA SanctionKeeps ==
  ASSUME TypeOK, SanctionInv, NEW w \in Workers, Sanction(w)
  PROVE  SanctionInv'
PROOF
  <1>a. /\ task \in [Workers -> Tasks]
        /\ task[w].target \in Targets /\ task[w].to \in {"warned", "suspended"}
    BY TaskShape DEF TypeOK, Sanction, At
  <1> DEFINE t0 == task[w].target
  <1>1. /\ task'[w] = Idle
        /\ \A v \in Workers : v # w => task'[v] = task[v]
        /\ account' = [account EXCEPT ![t0] = task[w].to]
        /\ UNCHANGED <<reports, cut>>
    BY <1>a, NextTasks, ProceedType DEF Sanction
  <1>2. \A t : Reporters(t)' = Reporters(t)
    BY <1>1 DEF Reporters
  <1>3. CountsHold'
    BY <1>1, <1>2 DEF SanctionInv, CountsHold, At, Idle
  <1>4. SanctionsJustified'
    BY <1>1, <1>2 DEF SanctionInv, SanctionsJustified, CountsHold, Sanction, TypeOK
  <1>5. SanctionDue'
    <2>1. ASSUME NEW t \in Targets, account'[t] = "active" PROVE t # t0 /\ account[t] = "active"
      BY <1>a, <1>1, <2>1, TablesAssumption DEF TypeOK
    <2>2. ASSUME NEW t \in Targets, t # t0, NEW v \in Workers, WillSanction(v, t)
          PROVE  WillSanction(v, t)'
      <3>1. v # w
        BY <2>2 DEF WillSanction, Moderating
      <3> QED
        BY <1>1, <2>2, <3>1 DEF WillSanction, Moderating, Doing, At
    <2> QED
      BY <1>1, <1>2, <2>1, <2>2 DEF SanctionInv, SanctionDue
  <1> QED
    BY <1>3, <1>4, <1>5 DEF SanctionInv

LEMMA SanctionStep == TypeOK /\ SanctionInv /\ [Next]_vars => SanctionInv'
PROOF
  <1> SUFFICES ASSUME TypeOK, SanctionInv, [Next]_vars PROVE SanctionInv'
    OBVIOUS
  <1>1. ASSUME NEW w \in Workers,
               CreateReview(w) \/ FindReport(w)
               \/ \E u \in Users, t \in Targets, ref \in References : RequestReport(w, u, t, ref)
        PROVE  NoSanction(w)
    <2>a. task \in [Workers -> Tasks] /\ task[w] \in Tasks
      BY DEF TypeOK
    <2>b. ASSUME NEW t \in Tasks, Proceed(w, t), UNCHANGED accountVars,
                 t.step \notin {"count_reporters", "read_target", "sanction"},
                 task[w].step \notin {"count_reporters", "read_target", "sanction"}
          PROVE  NoSanction(w)
      BY <2>a, <2>b, ProceedType DEF NoSanction, accountVars, Moderating, Doing, At
    <2>1. ASSUME NEW b \in Bookings, RequestReview(w, b) PROVE NoSanction(w)
      <3>1. task[w].step = "idle"
        BY <2>1 DEF RequestReview, Free, Idle
      <3> QED
        BY <2>1, <2>b, <3>1, NextTasks DEF RequestReview
    <2>2. CASE FindBooking(w)
      <3>1. task[w].booking \in Bookings
        BY <2>a, <2>2, TaskShape DEF FindBooking, At
      <3> QED
        BY <2>2, <2>b, <3>1, NextTasks DEF FindBooking, Idle, At
    <2>3. CASE InsertReview(w)
      <3>1. task[w].booking \in Bookings
        BY <2>a, <2>3, TaskShape DEF InsertReview, At
      <3> QED
        BY <2>3, <2>b, <3>1, NextTasks DEF InsertReview, Idle, At
    <2>4. CASE Aggregate(w)
      <3>1. task[w].booking \in Bookings
        BY <2>a, <2>4, TaskShape DEF Aggregate, At
      <3>2. Seen(task[w].booking) \in SUBSET Bookings
        BY <3>1 DEF Seen, TypeOK
      <3> QED
        BY <2>4, <2>b, <3>1, <3>2, NextTasks DEF Aggregate, At
    <2>5. CASE CommitReview(w)
      BY <2>5, <2>b, NextTasks DEF CommitReview, Idle, At
    <2>6. CASE FindReport(w)
      <3>1. task[w].key \in Keys
        BY <2>a, <2>6, TaskShape DEF FindReport, At
      <3> QED
        BY <2>6, <2>b, <3>1, NextTasks DEF FindReport, Idle, At
    <2>7. ASSUME NEW u \in Users, NEW t \in Targets, NEW ref \in References, RequestReport(w, u, t, ref)
          PROVE  NoSanction(w)
      <3>1. task[w].step = "idle"
        BY <2>7 DEF RequestReport, Free, Idle
      <3>2. <<u, t, ref>> \in Keys
        BY DEF Keys
      <3>3. [step |-> "find_report", key |-> <<u, t, ref>>] \in Tasks
        BY <3>2, NextTasks
      <3> QED
        BY <2>7, <2>b, <3>1, <3>3 DEF RequestReport
    <2> QED
      BY <1>1, <2>1, <2>2, <2>3, <2>4, <2>5, <2>6, <2>7 DEF CreateReview
  <1>2. ASSUME NEW w \in Workers, Abort(w) PROVE NoSanction(w)
    BY <1>2, NextTasks, ProceedType DEF Abort, NoSanction, TypeOK, Idle
  <1>3. ASSUME NEW b \in Bookings, BookingMoves(b) PROVE SanctionInv'
    BY <1>3 DEF BookingMoves, accountVars, SanctionInv, CountsHold, SanctionsJustified, SanctionDue,
                WillSanction, Moderating, Doing, At, Reporters
  <1>4. CASE UNCHANGED vars
    BY <1>4 DEF vars, accountVars, SanctionInv, CountsHold, SanctionsJustified, SanctionDue,
                WillSanction, Moderating, Doing, At, Reporters
  <1>5. ASSUME NEW w \in Workers, CreateReport(w) PROVE SanctionInv'
    BY <1>1, <1>5, NoSanctionKeeps, InsertCounts, CountKeeps, ReadKeeps, SanctionKeeps DEF CreateReport
  <1> QED
    BY <1>1, <1>2, <1>3, <1>4, <1>5, NoSanctionKeeps DEF Next

LEMMA SanctionInit == Init => SanctionInv
PROOF
  <1> SUFFICES ASSUME Init PROVE SanctionInv
    OBVIOUS
  <1>1. \A t \in Targets : Cardinality(Reporters(t)) = 0
    <2>1. ASSUME NEW t \in Targets PROVE Reporters(t) = {}
      <3>1. \A u \in Users, ref \in References : <<u, t, ref>> \in Keys
        BY DEF Keys
      <3>2. \A k \in Keys : reports[k] = 0
        BY DEF Init
      <3>3. \A u \in Users, ref \in References : ~ (reports[<<u, t, ref>>] > 0)
        BY <3>1, <3>2
      <3> QED
        BY <3>3 DEF Reporters
    <2> QED
      BY <2>1, FS_EmptySet
  <1>2. SanctionDue
    BY <1>1, ThresholdsAssumption DEF SanctionDue
  <1> QED
    BY <1>2, TablesAssumption DEF Init, SanctionInv, CountsHold, SanctionsJustified, At, Idle

\* The inductive invariant of the moderation.
THEOREM ModerationCorrect == Spec => []SanctionInv
BY TypeCorrect, SanctionInit, SanctionStep, PTL DEF Spec

\* A sanction rests on as many different reporters as its threshold asks for.
THEOREM SanctionsCorrect == Spec => []SanctionsJustified
PROOF
  <1>1. SanctionInv => SanctionsJustified
    BY DEF SanctionInv
  <1> QED
    BY <1>1, ModerationCorrect, PTL

\* Enough reporters mean a sanction, once the moderations have ended.
THEOREM ThresholdsCorrect == Spec => []ThresholdsApplied
PROOF
  <1>1. SanctionInv => ThresholdsApplied
    BY DEF SanctionInv, SanctionDue, WillSanction, ThresholdsApplied
  <1> QED
    BY <1>1, ModerationCorrect, PTL

----------------------------------------------------------------------------
(* Duplicate reports and late writes: how many handlers are on their way *)

\* Fewer handlers, fewer to count.
LEMMA SubsetCounts ==
  ASSUME NEW T \in SUBSET Workers, NEW S \in SUBSET T
  PROVE  /\ Cardinality(S) \in Nat /\ Cardinality(T) \in Nat /\ Cardinality(Workers) \in Nat
         /\ Cardinality(S) <= Cardinality(T) /\ Cardinality(T) <= Cardinality(Workers)
BY WorkerSets, FS_Subset

LEMMA OneLessCounts ==
  ASSUME NEW T \in SUBSET Workers, NEW w \in T, NEW S \in SUBSET (T \ {w})
  PROVE  /\ Cardinality(S) \in Nat /\ Cardinality(T) \in Nat /\ Cardinality(Workers) \in Nat
         /\ Cardinality(S) + 1 <= Cardinality(T)
PROOF
  <1>1. IsFiniteSet(T) /\ Cardinality(T) \in Nat /\ Cardinality(Workers) \in Nat
    BY WorkerSets
  <1>2. IsFiniteSet(T \ {w}) /\ Cardinality(T \ {w}) = Cardinality(T) - 1
    BY <1>1, FS_RemoveElement
  <1>3. IsFiniteSet(S) /\ Cardinality(S) <= Cardinality(T \ {w})
    BY <1>2, FS_Subset
  <1> QED
    BY <1>1, <1>2, <1>3, FS_CardinalityType

\* The handlers about to store a report with this key.
Inserters(k) == {w \in Doing("insert_report") : task[w].key = k}

\* A step after which no worker is newly about to store a report.
LEMMA NoInserterKeeps ==
  ASSUME TypeOK, DuplicatesBounded, reports' = reports,
         \A v \in Workers : task'[v].step = "insert_report" => task'[v] = task[v]
  PROVE  DuplicatesBounded'
PROOF
  <1> SUFFICES ASSUME NEW k \in Keys
               PROVE  /\ reports[k] + Cardinality(Inserters(k)') <= Cardinality(Workers)
                      /\ k[3] # NoBooking => reports[k] <= 1
    BY DEF DuplicatesBounded, Inserters
  <1>1. Inserters(k) \in SUBSET Workers /\ Inserters(k)' \in SUBSET Inserters(k)
    BY DEF Inserters, Doing, At
  <1>2. /\ reports[k] + Cardinality(Inserters(k)) <= Cardinality(Workers)
        /\ k[3] # NoBooking => reports[k] <= 1
    BY DEF DuplicatesBounded, Inserters
  <1>3. reports[k] \in Nat
    BY DEF TypeOK
  <1> QED
    BY <1>1, <1>2, <1>3, SubsetCounts

\* Only handlers that looked before the first row was stored will store another.
LEMMA FindKeepsDuplicates ==
  ASSUME TypeOK, DuplicatesBounded, NEW w \in Workers, FindReport(w)
  PROVE  DuplicatesBounded'
PROOF
  <1>a. task \in [Workers -> Tasks] /\ task[w].key \in Keys
    BY TaskShape DEF TypeOK, FindReport, At
  <1>1. /\ \A v \in Workers : v # w => task'[v] = task[v]
        /\ task'[w] = IF NotReported(task[w].key)
                      THEN [step |-> "insert_report", key |-> task[w].key] ELSE Idle
        /\ reports' = reports
    BY <1>a, NextTasks, ProceedType DEF FindReport, accountVars
  <1> SUFFICES ASSUME NEW k \in Keys
               PROVE  /\ reports[k] + Cardinality(Inserters(k)') <= Cardinality(Workers)
                      /\ k[3] # NoBooking => reports[k] <= 1
    BY <1>1 DEF DuplicatesBounded, Inserters
  <1>2. Inserters(k) \in SUBSET Workers /\ Inserters(k)' \in SUBSET Workers
    BY DEF Inserters, Doing
  <1>3. /\ reports[k] + Cardinality(Inserters(k)) <= Cardinality(Workers)
        /\ k[3] # NoBooking => reports[k] <= 1
    BY DEF DuplicatesBounded, Inserters
  <1>4. reports[k] \in Nat
    BY DEF TypeOK
  <1>5. CASE reports[k] = 0
    <2>1. Cardinality(Inserters(k)') \in Nat /\ Cardinality(Inserters(k)') <= Cardinality(Workers)
      BY <1>2, WorkerSets
    <2> QED
      BY <1>3, <1>5, <2>1
  <1>6. CASE reports[k] # 0
    <2>1. Inserters(k)' \in SUBSET Inserters(k)
      <3>1. task'[w].step = "insert_report" => task[w].key # k /\ task'[w].key = task[w].key
        BY <1>1, <1>6 DEF NotReported, Idle
      <3> QED
        BY <1>1, <3>1 DEF Inserters, Doing, At
    <2> QED
      BY <1>2, <1>3, <1>4, <2>1, SubsetCounts
  <1> QED
    BY <1>4, <1>5, <1>6

\* A row that is stored has one handler less behind it.
LEMMA InsertKeepsDuplicates ==
  ASSUME TypeOK, DuplicatesBounded, NEW w \in Workers, InsertReport(w)
  PROVE  DuplicatesBounded'
PROOF
  <1>a. /\ task \in [Workers -> Tasks] /\ task[w].key \in Keys
        /\ task[w].key[2] \in Targets
    BY TaskShape DEF TypeOK, InsertReport, At, Keys
  <1>1. CASE KeyTaken(task[w].key)
    BY <1>1, <1>a, NextTasks, ProceedType, NoInserterKeeps DEF InsertReport, Idle
  <1>2. CASE ~ KeyTaken(task[w].key)
    <2>1. /\ \A v \in Workers : v # w => task'[v] = task[v]
          /\ task'[w].step = "count_reporters"
          /\ reports' = [reports EXCEPT ![task[w].key] = @ + 1]
      BY <1>2, <1>a, NextTasks, ProceedType DEF InsertReport
    <2> SUFFICES ASSUME NEW k \in Keys
                 PROVE  /\ reports'[k] + Cardinality(Inserters(k)') <= Cardinality(Workers)
                        /\ k[3] # NoBooking => reports'[k] <= 1
      BY DEF DuplicatesBounded, Inserters
    <2>2. Inserters(k) \in SUBSET Workers /\ Inserters(k)' \in SUBSET (Inserters(k) \ {w})
      BY <2>1 DEF Inserters, Doing, At
    <2>3. /\ reports[k] + Cardinality(Inserters(k)) <= Cardinality(Workers)
          /\ k[3] # NoBooking => reports[k] <= 1
      BY DEF DuplicatesBounded, Inserters
    <2>4. reports[k] \in Nat
      BY DEF TypeOK
    <2>5. CASE k = task[w].key
      <3>1. reports'[k] = reports[k] + 1
        BY <2>1, <2>5 DEF TypeOK
      <3>2. w \in Inserters(k)
        BY <2>5 DEF Inserters, Doing, At, InsertReport
      <3>3. k[3] # NoBooking => reports[k] = 0
        BY <1>2, <2>4, <2>5 DEF KeyTaken
      <3> QED
        BY <2>2, <2>3, <2>4, <3>1, <3>2, <3>3, OneLessCounts
    <2>6. CASE k # task[w].key
      <3>1. reports'[k] = reports[k]
        BY <2>1, <2>6 DEF TypeOK
      <3>2. Inserters(k)' \in SUBSET Inserters(k)
        BY <2>2
      <3> QED
        BY <2>2, <2>3, <2>4, <3>1, <3>2, SubsetCounts
    <2> QED
      BY <2>5, <2>6
  <1> QED
    BY <1>1, <1>2

LEMMA DuplicatesStep == TypeOK /\ DuplicatesBounded /\ [Next]_vars => DuplicatesBounded'
PROOF
  <1> SUFFICES ASSUME TypeOK, DuplicatesBounded, [Next]_vars PROVE DuplicatesBounded'
    OBVIOUS
  <1>a. task \in [Workers -> Tasks]
    BY DEF TypeOK
  <1>b. ASSUME NEW w \in Workers, NEW t \in Tasks, Proceed(w, t), t.step # "insert_report",
               reports' = reports
        PROVE  DuplicatesBounded'
    BY <1>a, <1>b, ProceedType, NoInserterKeeps
  <1>1. ASSUME NEW w \in Workers, CreateReview(w) PROVE DuplicatesBounded'
    <2>1. ASSUME NEW b \in Bookings, RequestReview(w, b) PROVE DuplicatesBounded'
      BY <2>1, <1>b, NextTasks DEF RequestReview, accountVars
    <2>2. CASE FindBooking(w)
      <3>1. task[w].booking \in Bookings
        BY <1>a, <2>2, TaskShape DEF FindBooking, At
      <3> QED
        BY <2>2, <1>b, <3>1, NextTasks DEF FindBooking, Idle, accountVars
    <2>3. CASE InsertReview(w)
      <3>1. task[w].booking \in Bookings
        BY <1>a, <2>3, TaskShape DEF InsertReview, At
      <3> QED
        BY <2>3, <1>b, <3>1, NextTasks DEF InsertReview, Idle, accountVars
    <2>4. CASE Aggregate(w)
      <3>1. task[w].booking \in Bookings
        BY <1>a, <2>4, TaskShape DEF Aggregate, At
      <3>2. Seen(task[w].booking) \in SUBSET Bookings
        BY <3>1 DEF Seen, TypeOK
      <3> QED
        BY <2>4, <1>b, <3>1, <3>2, NextTasks DEF Aggregate, accountVars
    <2>5. CASE CommitReview(w)
      BY <2>5, <1>b, NextTasks DEF CommitReview, Idle, accountVars
    <2> QED
      BY <1>1, <2>1, <2>2, <2>3, <2>4, <2>5 DEF CreateReview
  <1>2. ASSUME NEW w \in Workers, CreateReport(w) PROVE DuplicatesBounded'
    <2>1. ASSUME NEW u \in Users, NEW t \in Targets, NEW ref \in References, RequestReport(w, u, t, ref)
          PROVE  DuplicatesBounded'
      <3>1. <<u, t, ref>> \in Keys
        BY DEF Keys
      <3>2. [step |-> "find_report", key |-> <<u, t, ref>>] \in Tasks
        BY <3>1, NextTasks
      <3> QED
        BY <2>1, <1>b, <3>2 DEF RequestReport, accountVars
    <2>2. CASE CountReporters(w)
      <3>1. task[w].target \in Targets /\ Counted(task[w].target) \in Nat
        BY <1>a, <2>2, TaskShape, ReportersFinite DEF CountReporters, At
      <3> QED
        BY <2>2, <1>b, <3>1, NextTasks DEF CountReporters, accountVars
    <2>3. CASE ReadTarget(w)
      <3>1. task[w].target \in Targets
        BY <1>a, <2>3, TaskShape DEF ReadTarget, At
      <3> QED
        BY <2>3, <1>b, <3>1, NextTasks DEF ReadTarget, Idle, accountVars
    <2>4. CASE Sanction(w)
      BY <2>4, <1>b, NextTasks DEF Sanction, Idle
    <2> QED
      BY <1>2, <2>1, <2>2, <2>3, <2>4, FindKeepsDuplicates, InsertKeepsDuplicates DEF CreateReport
  <1>3. ASSUME NEW w \in Workers, Abort(w) PROVE DuplicatesBounded'
    BY <1>3, <1>b, NextTasks DEF Abort, Idle
  <1>4. ASSUME NEW b \in Bookings, BookingMoves(b) PROVE DuplicatesBounded'
    BY <1>4, NoInserterKeeps DEF BookingMoves, accountVars
  <1>5. CASE UNCHANGED vars
    BY <1>5, NoInserterKeeps DEF vars, accountVars
  <1> QED
    BY <1>1, <1>2, <1>3, <1>4, <1>5 DEF Next

LEMMA DuplicatesInit == Init => DuplicatesBounded
PROOF
  <1> SUFFICES ASSUME Init, NEW k \in Keys
               PROVE  /\ reports[k] + Cardinality(Inserters(k)) <= Cardinality(Workers)
                      /\ reports[k] <= 1
    BY DEF DuplicatesBounded, Inserters
  <1>1. Inserters(k) = {} /\ reports[k] = 0
    BY DEF Init, Inserters, Doing, At, Idle
  <1> QED
    BY <1>1, WorkerSets, FS_EmptySet

\* One row per key for each handler that looked before the first row was stored,
\* and a single one when the report names a booking.
THEOREM DuplicatesCorrect == Spec => []DuplicatesBounded
BY TypeCorrect, DuplicatesInit, DuplicatesStep, PTL DEF Spec

----------------------------------------------------------------------------
(* Suspension *)

\* A step by which no handler takes up a write.
LEMMA NoPendingKeeps ==
  ASSUME TypeOK, SuspensionBites, account' = account, late' = late,
         \A u \in Users : Pending(u)' \subseteq Pending(u)
  PROVE  SuspensionBites'
PROOF
  <1> SUFFICES ASSUME NEW u \in Users, account[u] = "suspended"
               PROVE  late[u] + Cardinality(Pending(u)') <= Cardinality(Workers)
    BY DEF SuspensionBites
  <1>1. late[u] + Cardinality(Pending(u)) <= Cardinality(Workers) /\ late[u] \in Nat
    BY DEF SuspensionBites, TypeOK
  <1>2. Pending(u) \in SUBSET Workers /\ Pending(u)' \in SUBSET Pending(u)
    BY DEF Pending
  <1> QED
    BY <1>1, <1>2, SubsetCounts

\* A row that is written has one handler less behind it.
LEMMA WrittenKeeps ==
  ASSUME TypeOK, SuspensionBites, account' = account,
         NEW w \in Workers, NEW x \in Users, w \in Pending(x), Written(x),
         \A u \in Users : Pending(u)' \subseteq Pending(u) \ {w}
  PROVE  SuspensionBites'
PROOF
  <1> SUFFICES ASSUME NEW u \in Users, account[u] = "suspended"
               PROVE  late'[u] + Cardinality(Pending(u)') <= Cardinality(Workers)
    BY DEF SuspensionBites
  <1>1. late[u] + Cardinality(Pending(u)) <= Cardinality(Workers) /\ late[u] \in Nat
    BY DEF SuspensionBites, TypeOK
  <1>2. /\ Pending(u) \in SUBSET Workers /\ Pending(u)' \in SUBSET Pending(u)
        /\ Pending(u)' \in SUBSET (Pending(u) \ {w})
    BY DEF Pending
  <1>3. CASE u = x
    <2>1. late'[u] = late[u] + 1
      BY <1>3 DEF Written, TypeOK
    <2> QED
      BY <1>1, <1>2, <1>3, <2>1, OneLessCounts
  <1>4. CASE u # x
    <2>1. late'[u] = late[u]
      BY <1>4 DEF Written, TypeOK
    <2> QED
      BY <1>1, <1>2, <2>1, SubsetCounts
  <1> QED
    BY <1>3, <1>4

\* A request that the guard lets in is not of a suspended account.
LEMMA RequestKeeps ==
  ASSUME TypeOK, SuspensionBites, account' = account, late' = late,
         NEW x \in Users, Admitted(x),
         \A u \in Users : u # x => Pending(u)' \subseteq Pending(u)
  PROVE  SuspensionBites'
PROOF
  <1> SUFFICES ASSUME NEW u \in Users, account[u] = "suspended"
               PROVE  late[u] + Cardinality(Pending(u)') <= Cardinality(Workers)
    BY DEF SuspensionBites
  <1>1. late[u] + Cardinality(Pending(u)) <= Cardinality(Workers) /\ late[u] \in Nat /\ u # x
    BY DEF SuspensionBites, TypeOK, Admitted
  <1>2. Pending(u) \in SUBSET Workers /\ Pending(u)' \in SUBSET Pending(u)
    BY <1>1 DEF Pending
  <1> QED
    BY <1>1, <1>2, SubsetCounts

\* The count of late rows starts when an account becomes suspended.
LEMMA SanctionBites ==
  ASSUME TypeOK, SuspensionBites, NEW w \in Workers, Sanction(w)
  PROVE  SuspensionBites'
PROOF
  <1>a. /\ task \in [Workers -> Tasks]
        /\ task[w].target \in Targets
    BY TaskShape DEF TypeOK, Sanction, At
  <1>1. task'[w] = Idle /\ \A v \in Workers : v # w => task'[v] = task[v]
    BY <1>a, NextTasks, ProceedType DEF Sanction
  <1> SUFFICES ASSUME NEW u \in Users, account'[u] = "suspended"
               PROVE  late'[u] + Cardinality(Pending(u)') <= Cardinality(Workers)
    BY DEF SuspensionBites
  <1>2. Pending(u) \in SUBSET Workers /\ Pending(u)' \in SUBSET Pending(u)
    BY <1>1 DEF Pending, Idle
  <1>3. CASE account[u] = "suspended"
    <2>1. late[u] + Cardinality(Pending(u)) <= Cardinality(Workers) /\ late[u] \in Nat
      BY <1>3 DEF SuspensionBites, TypeOK
    <2>2. late'[u] = late[u]
      BY <1>3 DEF Sanction, TypeOK
    <2> QED
      BY <1>2, <2>1, <2>2, SubsetCounts
  <1>4. CASE account[u] # "suspended"
    <2>1. late'[u] = 0
      BY <1>4, <1>a, TablesAssumption DEF Sanction, TypeOK
    <2> QED
      BY <1>2, <2>1, SubsetCounts
  <1> QED
    BY <1>3, <1>4

\* A handler's own step moves it between the pending writes of its author at most.
LEMMA OwnPending ==
  ASSUME TypeOK, NEW w \in Workers, NEW t \in Tasks, Proceed(w, t),
         NEW u \in Users,
         \/ t.step \notin {"find_booking", "insert_review", "aggregate", "commit_review",
                           "find_report", "insert_report"}
         \/ /\ t.step \in {"insert_review", "aggregate", "commit_review"}
            /\ task[w].step \in {"find_booking", "insert_review", "aggregate"}
            /\ t.booking = task[w].booking
         \/ /\ t.step = "insert_report"
            /\ task[w].step = "find_report"
            /\ t.key = task[w].key
  PROVE  Pending(u)' \subseteq Pending(u)
PROOF
  <1>1. /\ task'[w] = t
        /\ \A v \in Workers : v # w => task'[v] = task[v]
    BY ProceedType DEF TypeOK
  <1>2. w \in Pending(u)' => w \in Pending(u)
    BY <1>1 DEF Pending
  <1> QED
    BY <1>1, <1>2 DEF Pending

LEMMA BitesStep == TypeOK /\ SuspensionBites /\ [Next]_vars => SuspensionBites'
PROOF
  <1> SUFFICES ASSUME TypeOK, SuspensionBites, [Next]_vars PROVE SuspensionBites'
    OBVIOUS
  <1>a. task \in [Workers -> Tasks]
    BY DEF TypeOK
  <1>1. ASSUME NEW w \in Workers, CreateReview(w) PROVE SuspensionBites'
    <2>1. ASSUME NEW b \in Bookings, RequestReview(w, b) PROVE SuspensionBites'
      <3>1. /\ task'[w] = [step |-> "find_booking", booking |-> b]
            /\ \A v \in Workers : v # w => task'[v] = task[v]
        BY <1>a, <2>1, NextTasks, ProceedType DEF RequestReview
      <3>2. ASSUME NEW u \in Users, u # ClientOf[b] PROVE Pending(u)' \subseteq Pending(u)
        BY <3>1, <3>2 DEF Pending
      <3>3. ClientOf[b] \in Users
        BY TablesAssumption
      <3> QED
        BY <2>1, <3>2, <3>3, RequestKeeps DEF RequestReview, accountVars
    <2>2. CASE FindBooking(w)
      <3>1. task[w].booking \in Bookings
        BY <1>a, <2>2, TaskShape DEF FindBooking, At
      <3>2. ASSUME NEW u \in Users PROVE Pending(u)' \subseteq Pending(u)
        BY <2>2, <3>1, NextTasks, OwnPending DEF FindBooking, Idle, At
      <3> QED
        BY <2>2, <3>2, NoPendingKeeps DEF FindBooking, accountVars
    <2>3. CASE InsertReview(w)
      <3>1. task[w].booking \in Bookings
        BY <1>a, <2>3, TaskShape DEF InsertReview, At
      <3>2. ASSUME NEW u \in Users PROVE Pending(u)' \subseteq Pending(u)
        BY <2>3, <3>1, NextTasks, OwnPending DEF InsertReview, Idle, At
      <3> QED
        BY <2>3, <3>2, NoPendingKeeps DEF InsertReview, accountVars
    <2>4. CASE Aggregate(w)
      <3>1. task[w].booking \in Bookings
        BY <1>a, <2>4, TaskShape DEF Aggregate, At
      <3>2. Seen(task[w].booking) \in SUBSET Bookings
        BY <3>1 DEF Seen, TypeOK
      <3>3. ASSUME NEW u \in Users PROVE Pending(u)' \subseteq Pending(u)
        BY <2>4, <3>1, <3>2, NextTasks, OwnPending DEF Aggregate, At
      <3> QED
        BY <2>4, <3>3, NoPendingKeeps DEF Aggregate, accountVars
    <2>5. CASE CommitReview(w)
      <3>1. task[w].booking \in Bookings
        BY <1>a, <2>5, TaskShape DEF CommitReview, At
      <3>2. /\ task'[w].step = "idle"
            /\ \A v \in Workers : v # w => task'[v] = task[v]
        BY <1>a, <2>5, NextTasks, ProceedType DEF CommitReview, Idle
      <3>3. \A u \in Users : Pending(u)' \subseteq Pending(u) \ {w}
        BY <3>2 DEF Pending
      <3>4. ClientOf[task[w].booking] \in Users
        BY <3>1, TablesAssumption
      <3>5. w \in Pending(ClientOf[task[w].booking])
        BY <2>5 DEF Pending, CommitReview, At
      <3> QED
        BY <2>5, <3>3, <3>4, <3>5, WrittenKeeps DEF CommitReview, accountVars
    <2> QED
      BY <1>1, <2>1, <2>2, <2>3, <2>4, <2>5 DEF CreateReview
  <1>2. ASSUME NEW w \in Workers, CreateReport(w) PROVE SuspensionBites'
    <2>1. ASSUME NEW x \in Users, NEW t \in Targets, NEW ref \in References, RequestReport(w, x, t, ref)
          PROVE  SuspensionBites'
      <3>1. [step |-> "find_report", key |-> <<x, t, ref>>] \in Tasks
        BY NextTasks DEF Keys
      <3>2. /\ task'[w] = [step |-> "find_report", key |-> <<x, t, ref>>]
            /\ \A v \in Workers : v # w => task'[v] = task[v]
        BY <1>a, <2>1, <3>1, ProceedType DEF RequestReport
      <3>3. ASSUME NEW u \in Users, u # x PROVE Pending(u)' \subseteq Pending(u)
        BY <3>2, <3>3 DEF Pending
      <3> QED
        BY <2>1, <3>3, RequestKeeps DEF RequestReport, accountVars
    <2>2. CASE FindReport(w)
      <3>1. task[w].key \in Keys
        BY <1>a, <2>2, TaskShape DEF FindReport, At
      <3>2. ASSUME NEW u \in Users PROVE Pending(u)' \subseteq Pending(u)
        BY <2>2, <3>1, NextTasks, OwnPending DEF FindReport, Idle, At
      <3> QED
        BY <2>2, <3>2, NoPendingKeeps DEF FindReport, accountVars
    <2>3. CASE InsertReport(w)
      <3>1. task[w].key \in Keys /\ task[w].key[1] \in Users /\ task[w].key[2] \in Targets
        BY <1>a, <2>3, TaskShape DEF InsertReport, At, Keys
      <3>2. CASE KeyTaken(task[w].key)
        <4>1. ASSUME NEW u \in Users PROVE Pending(u)' \subseteq Pending(u)
          BY <2>3, <3>2, NextTasks, OwnPending DEF InsertReport, Idle
        <4> QED
          BY <2>3, <3>2, <4>1, NoPendingKeeps DEF InsertReport
      <3>3. CASE ~ KeyTaken(task[w].key)
        <4>1. /\ task'[w].step = "count_reporters"
              /\ \A v \in Workers : v # w => task'[v] = task[v]
          BY <1>a, <2>3, <3>1, <3>3, NextTasks, ProceedType DEF InsertReport
        <4>2. \A u \in Users : Pending(u)' \subseteq Pending(u) \ {w}
          BY <4>1 DEF Pending
        <4>3. w \in Pending(task[w].key[1])
          BY <2>3 DEF Pending, InsertReport, At
        <4> QED
          BY <2>3, <3>1, <3>3, <4>2, <4>3, WrittenKeeps DEF InsertReport
      <3> QED
        BY <3>2, <3>3
    <2>4. CASE CountReporters(w)
      <3>1. task[w].target \in Targets /\ Counted(task[w].target) \in Nat
        BY <1>a, <2>4, TaskShape, ReportersFinite DEF CountReporters, At
      <3>2. ASSUME NEW u \in Users PROVE Pending(u)' \subseteq Pending(u)
        BY <2>4, <3>1, NextTasks, OwnPending DEF CountReporters
      <3> QED
        BY <2>4, <3>2, NoPendingKeeps DEF CountReporters, accountVars
    <2>5. CASE ReadTarget(w)
      <3>1. task[w].target \in Targets
        BY <1>a, <2>5, TaskShape DEF ReadTarget, At
      <3>2. ASSUME NEW u \in Users PROVE Pending(u)' \subseteq Pending(u)
        BY <2>5, <3>1, NextTasks, OwnPending DEF ReadTarget, Idle
      <3> QED
        BY <2>5, <3>2, NoPendingKeeps DEF ReadTarget, accountVars
    <2> QED
      BY <1>2, <2>1, <2>2, <2>3, <2>4, <2>5, SanctionBites DEF CreateReport
  <1>3. ASSUME NEW w \in Workers, Abort(w) PROVE SuspensionBites'
    <2>1. ASSUME NEW u \in Users PROVE Pending(u)' \subseteq Pending(u)
      BY <1>3, NextTasks, OwnPending DEF Abort, Idle
    <2> QED
      BY <1>3, <2>1, NoPendingKeeps DEF Abort
  <1>4. CASE late' = late /\ account' = account /\ task' = task
    BY <1>4, NoPendingKeeps DEF Pending
  <1> QED
    BY <1>1, <1>2, <1>3, <1>4 DEF Next, BookingMoves, vars, accountVars

LEMMA BitesInit == Init => SuspensionBites
BY TablesAssumption DEF Init, SuspensionBites

\* A suspended account writes one row at most for each handler that the guard had
\* let in before.
THEOREM SuspensionCorrect == Spec => []SuspensionBites
BY TypeCorrect, BitesInit, BitesStep, PTL DEF Spec

=============================================================================
