----------------------- MODULE BookingPaymentsProofs -----------------------
(***************************************************************************)
(* Theorems about BookingPayments, for every set of users, bookings,       *)
(* payments and workers and every mix of faults.                           *)
(***************************************************************************)
EXTENDS BookingPayments, FiniteSetTheorems, TLAPS

----------------------------------------------------------------------------
(* Tasks *)

\* The step of a task tells which fields it has.
LEMMA TaskShape ==
  ASSUME NEW t \in Tasks
  PROVE  /\ t.step = "write_status" => t \in UpdateTasks
         /\ t.step = "tell_booking" => t \in TellTasks
         /\ t.step \in {"create_payment", "create_checkout", "initiate"} => t \in PaymentTasks
         /\ t.step \in SettleSteps => t \in SettleTasks
BY DEF Tasks, Idle, UpdateTasks, TellTasks, PaymentTasks, SettleTasks, SettleSteps

\* A worker that proceeds keeps the others' tasks.
LEMMA ProceedType ==
  ASSUME TypeOK, NEW w \in Workers, NEW t \in Tasks, Proceed(w, t)
  PROVE  /\ task' \in [Workers -> Tasks]
         /\ task'[w] = t
         /\ \A v \in Workers : v # w => task'[v] = task[v]
BY DEF TypeOK, Proceed

\* The keys of a booking lead to rows that exist.
LEMMA KeysType ==
  /\ \A b \in Bookings : ClientOf[b] \in Users /\ ProviderOf[b] \in Providers
                           /\ ProviderUserOf(b) \in Users
  /\ \A ref \in Payments : BookingOf[ref] \in Bookings
BY TablesAssumption DEF ProviderUserOf

LEMMA SetStatusType ==
  ASSUME TypeOK, NEW b \in Bookings, NEW to \in BookingStatuses, SetStatus(b, to)
  PROVE  /\ status' \in [Bookings -> BookingStatuses \cup {"absent"}]
         /\ visited' \in [Bookings -> SUBSET BookingStatuses]
BY DEF TypeOK, SetStatus

LEMMA NotifyType ==
  ASSUME TypeOK, NEW n \in Notices \cup PaymentNotices, Notify(n)
  PROVE  inbox' \subseteq Notices \cup PaymentNotices
BY DEF TypeOK, Notify

LEMMA ApplySettlementType ==
  ASSUME TypeOK, NEW w \in Workers, NEW ref \in Payments, NEW outcome \in Outcomes,
         ApplySettlement(w, ref, outcome)
  PROVE  /\ payment' \in [Payments -> {"absent", "pending"} \cup Outcomes]
         /\ task' \in [Workers -> Tasks]
<1> DEFINE next == IF Settleable(ref)
                   THEN [step |-> "settle_read", payment |-> ref, outcome |-> outcome]
                   ELSE Idle
<1>1. next \in Tasks
  BY DEF Tasks, SettleTasks, SettleSteps
<1>2. Proceed(w, next)
  BY DEF ApplySettlement
<1> HIDE DEF next
<1>3. task' \in [Workers -> Tasks]
  BY <1>1, <1>2, ProceedType
<1> QED
  BY <1>3 DEF ApplySettlement, TypeOK

----------------------------------------------------------------------------
(* Type correctness *)

LEMMA TypeInit == Init => TypeOK
BY TablesAssumption DEF Init, TypeOK, Tasks, Idle

\* One step for each action that starts a handler.
LEMMA TypeStart ==
  ASSUME TypeOK, NEW w \in Workers, Start(w)
  PROVE  TypeOK'
<1> USE KeysType
<1>1. ASSUME NEW b \in Bookings, CreateBooking(w, b) PROVE TypeOK'
  <2> DEFINE next == [step |-> "tell_booking", booking |-> b, to |-> "pending",
                      recipient |-> ProviderUserOf(b)]
  <2>1. next \in Tasks
    BY DEF Tasks, TellTasks, BookingStatuses
  <2>2. Proceed(w, next) /\ SetStatus(b, "pending")
    BY <1>1 DEF CreateBooking
  <2> HIDE DEF next
  <2>3. task' \in [Workers -> Tasks]
    BY <2>1, <2>2, ProceedType
  <2>4. /\ status' \in [Bookings -> BookingStatuses \cup {"absent"}]
        /\ visited' \in [Bookings -> SUBSET BookingStatuses]
    BY <2>2, SetStatusType DEF BookingStatuses
  <2> QED
    BY <1>1, <2>3, <2>4 DEF CreateBooking, TypeOK, gatewayVars, feedVars
<1>2. ASSUME NEW b \in Bookings, NEW u \in Users, NEW to \in BookingStatuses,
             ReadForUpdate(w, u, b, to)
      PROVE  TypeOK'
  <2> DEFINE next == [step |-> "write_status", booking |-> b, user |-> u,
                      role |-> RoleOf(u, b), from |-> status[b], to |-> to]
  <2>1. next \in Tasks
    <3>1. status[b] \in BookingStatuses
      BY <1>2 DEF ReadForUpdate, MayUpdate, Owns, TypeOK
    <3>2. RoleOf(u, b) \in BookingRoles
      BY DEF RoleOf, BookingRoles
    <3> QED
      BY <3>1, <3>2 DEF Tasks, UpdateTasks
  <2>2. Proceed(w, next)
    BY <1>2 DEF ReadForUpdate
  <2> HIDE DEF next
  <2>3. task' \in [Workers -> Tasks]
    BY <2>1, <2>2, ProceedType
  <2> QED
    BY <1>2, <2>3 DEF ReadForUpdate, TypeOK, bookingVars, gatewayVars, feedVars
<1>3. ASSUME NEW ref \in Payments, NEW kind \in PaymentKinds,
             ReadForInit(w, ref, kind) \/ (kind = "deposit" /\ ReadForCheckout(w, ref))
      PROVE  TypeOK'
  <2> DEFINE next == [step |-> "create_payment", payment |-> ref, kind |-> kind]
  <2>1. next \in Tasks
    BY DEF Tasks, PaymentTasks
  <2>2. Proceed(w, next)
    BY <1>3 DEF ReadForInit, ReadForCheckout
  <2> HIDE DEF next
  <2>3. task' \in [Workers -> Tasks]
    BY <2>1, <2>2, ProceedType
  <2> QED
    BY <1>3, <2>3 DEF ReadForInit, ReadForCheckout, TypeOK, bookingVars, gatewayVars, feedVars
<1>4. ASSUME NEW ref \in Payments, TimerFires(w, ref) PROVE TypeOK'
  <2>1. timers[ref] \in Outcomes /\ ApplySettlement(w, ref, timers[ref])
    BY <1>4 DEF TimerFires, TypeOK
  <2>2. /\ payment' \in [Payments -> {"absent", "pending"} \cup Outcomes]
        /\ task' \in [Workers -> Tasks]
    BY <2>1, ApplySettlementType
  <2> QED
    BY <1>4, <2>2 DEF TimerFires, TypeOK, bookingVars, feedVars
<1>5. ASSUME NEW ref \in Payments, NEW outcome \in Outcomes, Reported(w, ref, outcome)
      PROVE  TypeOK'
  <2>1. /\ payment' \in [Payments -> {"absent", "pending"} \cup Outcomes]
        /\ task' \in [Workers -> Tasks]
    BY <1>5, ApplySettlementType DEF Reported
  <2> QED
    BY <1>5, <2>1 DEF Reported, TypeOK, bookingVars, gatewayVars, feedVars
<1>6. ASSUME NEW ref \in Payments,
             \/ \E s \in WavePaymentStatuses : HandleWaveWebhook(w, ref, s)
             \/ \E outcome \in Outcomes : HandleCallback(w, ref, outcome)
             \/ \E success \in BOOLEAN : ConfirmMockCheckout(w, ref, success)
      PROVE  \E outcome \in Outcomes : Reported(w, ref, outcome)
  BY <1>6 DEF HandleWaveWebhook, HandleCallback, ConfirmMockCheckout, Outcomes
<1> QED
  BY <1>1, <1>2, <1>3, <1>4, <1>5, <1>6 DEF Start, PaymentKinds

\* One step for each action that continues one.
LEMMA TypeContinue ==
  ASSUME TypeOK, NEW w \in Workers, Continue(w)
  PROVE  TypeOK'
<1> USE KeysType
<1> DEFINE t == task[w]
<1>t. t \in Tasks
  BY DEF TypeOK
<1>u. Idle \in Tasks
  BY DEF Tasks
<1>n. ASSUME t \in UpdateTasks, TellNext(w) PROVE task' \in [Workers -> Tasks]
  <2> DEFINE next == [step |-> "tell_booking", booking |-> t.booking, to |-> t.to,
                      recipient |-> Recipient(t.booking, t.to, t.role)]
  <2>1. next \in Tasks
    BY <1>n DEF Tasks, TellTasks, UpdateTasks, Recipient
  <2>2. Proceed(w, next)
    BY <1>n DEF TellNext
  <2> HIDE DEF next
  <2> QED
    BY <2>1, <2>2, ProceedType
<1>s. ASSUME t \in SettleTasks, NEW step \in SettleSteps, Proceed(w, [t EXCEPT !.step = step])
      PROVE  task' \in [Workers -> Tasks]
  <2>1. [t EXCEPT !.step = step] \in Tasks
    BY <1>s DEF Tasks, SettleTasks
  <2> QED
    BY <1>s, <2>1, ProceedType
<1>1. ASSUME CompleteMission(w) PROVE TypeOK'
  <2>1. t \in UpdateTasks
    BY <1>1, <1>t, TaskShape DEF CompleteMission, At
  <2>2. task' \in [Workers -> Tasks]
    BY <1>1, <1>n, <2>1 DEF CompleteMission
  <2>3. t.booking \in Bookings
    BY <2>1 DEF UpdateTasks
  <2>4. /\ status' \in [Bookings -> BookingStatuses \cup {"absent"}]
        /\ visited' \in [Bookings -> SUBSET BookingStatuses]
    BY <1>1, <2>3, SetStatusType DEF CompleteMission, BookingStatuses
  <2>5. /\ completedAt' \in [Bookings -> BOOLEAN]
        /\ missionsDone' \in [Providers -> Nat]
    BY <1>1, <2>3 DEF CompleteMission, DateCompletion, CountMission, TypeOK
  <2> QED
    BY <1>1, <2>2, <2>4, <2>5 DEF CompleteMission, TypeOK, gatewayVars, feedVars
<1>2. ASSUME WriteStatus(w) PROVE TypeOK'
  <2>1. t \in UpdateTasks
    BY <1>2, <1>t, TaskShape DEF WriteStatus, At
  <2>2. task' \in [Workers -> Tasks]
    BY <1>2, <1>n, <2>1 DEF WriteStatus
  <2>3. t.booking \in Bookings /\ t.to \in BookingStatuses
    BY <2>1 DEF UpdateTasks
  <2>4. /\ status' \in [Bookings -> BookingStatuses \cup {"absent"}]
        /\ visited' \in [Bookings -> SUBSET BookingStatuses]
    BY <1>2, <2>3, SetStatusType DEF WriteStatus
  <2> QED
    BY <1>2, <2>2, <2>4 DEF WriteStatus, TypeOK, gatewayVars, feedVars
<1>3. ASSUME TellBooking(w) PROVE TypeOK'
  <2>1. t \in TellTasks
    BY <1>3, <1>t, TaskShape DEF TellBooking, At
  <2>2. task' \in [Workers -> Tasks]
    BY <1>3, <1>u, ProceedType DEF TellBooking
  <2>3. t.booking \in Bookings /\ t.to \in BookingStatuses /\ t.recipient \in Users
    BY <2>1 DEF TellTasks
  <2>4. [to |-> t.recipient, about |-> t.booking, what |-> t.to] \in Notices
    BY <2>3 DEF Notices
  <2>5. inbox' \subseteq Notices \cup PaymentNotices
    BY <1>3, <2>4, NotifyType DEF TellBooking
  <2>6. pushed' \in [Bookings -> BookingStatuses \cup {"absent"}]
    BY <1>3, <2>3 DEF TellBooking, TypeOK
  <2> QED
    BY <1>3, <2>2, <2>5, <2>6 DEF TellBooking, TypeOK, bookingVars, gatewayVars
<1>4. ASSUME CreatePayment(w) PROVE TypeOK'
  <2>1. t \in PaymentTasks
    BY <1>4, <1>t, TaskShape DEF CreatePayment, At
  <2>2. [t EXCEPT !.step = IF t.kind = "deposit" THEN "create_checkout" ELSE "initiate"] \in Tasks
    BY <2>1 DEF Tasks, PaymentTasks
  <2>3. task' \in [Workers -> Tasks]
    BY <1>4, <2>2, ProceedType DEF CreatePayment
  <2> QED
    BY <1>4, <2>1, <2>3 DEF CreatePayment, TypeOK, PaymentTasks, bookingVars, gatewayVars, feedVars
<1>5. ASSUME CreateCheckout(w) PROVE TypeOK'
  <2>1. t \in PaymentTasks
    BY <1>5, <1>t, TaskShape DEF CreateCheckout, At
  <2>2. task' \in [Workers -> Tasks]
    BY <1>5, <1>u, ProceedType DEF CreateCheckout
  <2>3. known' \subseteq Payments
    BY <1>5, <2>1 DEF CreateCheckout, PaymentTasks, TypeOK
  <2> QED
    BY <1>5, <2>2, <2>3 DEF CreateCheckout, TypeOK, bookingVars, feedVars
<1>6. ASSUME NEW outcome \in Outcomes, InitiateSettles(w, outcome) PROVE TypeOK'
  <2>1. t \in PaymentTasks
    BY <1>6, <1>t, TaskShape DEF InitiateSettles, At
  <2>2. t.payment \in Payments
    BY <2>1 DEF PaymentTasks
  <2>3. /\ payment' \in [Payments -> {"absent", "pending"} \cup Outcomes]
        /\ task' \in [Workers -> Tasks]
    BY <1>6, <2>2, ApplySettlementType DEF InitiateSettles
  <2> QED
    BY <1>6, <2>2, <2>3 DEF InitiateSettles, TypeOK, bookingVars, feedVars
<1>7. ASSUME NEW outcome \in Outcomes, InitiateArmsTimer(w, outcome) PROVE TypeOK'
  <2>1. t \in PaymentTasks
    BY <1>7, <1>t, TaskShape DEF InitiateArmsTimer, At
  <2>2. task' \in [Workers -> Tasks]
    BY <1>7, <1>u, ProceedType DEF InitiateArmsTimer
  <2> QED
    BY <1>7, <2>1, <2>2 DEF InitiateArmsTimer, PaymentTasks, TypeOK, bookingVars, feedVars
<1>8. ASSUME InitiateRejected(w) PROVE TypeOK'
  <2>1. task' \in [Workers -> Tasks]
    BY <1>8, <1>u, ProceedType DEF InitiateRejected
  <2> QED
    BY <1>8, <2>1 DEF InitiateRejected, TypeOK, bookingVars, gatewayVars, feedVars
<1>9. ASSUME SettleRead(w) PROVE TypeOK'
  <2>1. t \in SettleTasks
    BY <1>9, <1>t, TaskShape DEF SettleRead, At, SettleSteps
  <2>2. task' \in [Workers -> Tasks]
    BY <1>9, <1>s, <2>1 DEF SettleRead, SettleSteps
  <2> QED
    BY <1>9, <2>2 DEF SettleRead, TypeOK, bookingVars, gatewayVars, feedVars
<1>10. ASSUME SettleConfirm(w) PROVE TypeOK'
  <2>1. t \in SettleTasks
    BY <1>10, <1>t, TaskShape DEF SettleConfirm, At, SettleSteps
  <2>2. task' \in [Workers -> Tasks]
    BY <1>10, <1>s, <2>1 DEF SettleConfirm, SettleSteps
  <2>3. BookingOf[t.payment] \in Bookings
    BY <2>1 DEF SettleTasks
  <2>4. /\ status' \in [Bookings -> BookingStatuses \cup {"absent"}]
        /\ visited' \in [Bookings -> SUBSET BookingStatuses]
    BY <1>10, <2>3, SetStatusType DEF SettleConfirm, BookingStatuses
  <2> QED
    BY <1>10, <2>2, <2>4 DEF SettleConfirm, TypeOK, gatewayVars, feedVars
<1>11. ASSUME TellPayer(w) PROVE TypeOK'
  <2>1. t \in SettleTasks
    BY <1>11, <1>t, TaskShape DEF TellPayer, At, SettleSteps
  <2>2. task' \in [Workers -> Tasks]
    BY <1>11, <1>s, <1>u, <2>1, ProceedType DEF TellPayer, SettleSteps
  <2>3. [to |-> ClientOf[BookingOf[t.payment]], about |-> t.payment,
         what |-> IF t.outcome = "completed" THEN "paid" ELSE "payment_failed"] \in PaymentNotices
    BY <2>1 DEF SettleTasks, PaymentNotices
  <2>4. inbox' \subseteq Notices \cup PaymentNotices
    BY <1>11, <2>3, NotifyType DEF TellPayer
  <2> QED
    BY <1>11, <2>2, <2>4 DEF TellPayer, TypeOK, bookingVars, gatewayVars
<1>12. ASSUME TellProvider(w) PROVE TypeOK'
  <2>1. t \in SettleTasks
    BY <1>12, <1>t, TaskShape DEF TellProvider, At, SettleSteps
  <2>2. task' \in [Workers -> Tasks]
    BY <1>12, <1>u, ProceedType DEF TellProvider
  <2>3. [to |-> ProviderUserOf(BookingOf[t.payment]), about |-> t.payment, what |-> "received"]
          \in PaymentNotices
    BY <2>1 DEF SettleTasks, PaymentNotices
  <2>4. inbox' \subseteq Notices \cup PaymentNotices
    BY <1>12, <2>3, NotifyType DEF TellProvider
  <2> QED
    BY <1>12, <2>2, <2>4 DEF TellProvider, TypeOK, bookingVars, gatewayVars
<1> QED
  BY <1>1, <1>2, <1>3, <1>4, <1>5, <1>6, <1>7, <1>8, <1>9, <1>10, <1>11, <1>12 DEF Continue

LEMMA TypeFault ==
  ASSUME TypeOK,
         (\E w \in Workers : DatabaseError(w)) \/ (\E ref \in Payments : TimerFails(ref)) \/ Restart
  PROVE  TypeOK'
<1>1. Idle \in Tasks
  BY DEF Tasks
<1>2. ASSUME NEW w \in Workers, DatabaseError(w) PROVE TypeOK'
  <2>1. task' \in [Workers -> Tasks]
    BY <1>1, <1>2, ProceedType DEF DatabaseError
  <2> QED
    BY <1>2, <2>1 DEF DatabaseError, TypeOK, bookingVars, gatewayVars, feedVars
<1>3. CASE Restart
  BY <1>1, <1>3 DEF Restart, TypeOK, bookingVars, feedVars
<1>4. ASSUME NEW ref \in Payments, TimerFails(ref) PROVE TypeOK'
  BY <1>4 DEF TimerFails, TypeOK, bookingVars, feedVars
<1> QED
  BY <1>2, <1>3, <1>4

\* Every variable keeps its type, in particular no counter of missions goes
\* below zero and no task ever lacks a field its next step reads.
THEOREM TypeCorrect == Spec => []TypeOK
<1>1. TypeOK /\ [Next]_vars => TypeOK'
  <2> SUFFICES ASSUME TypeOK, [Next]_vars PROVE TypeOK'
    OBVIOUS
  <2>1. CASE Next
    BY <2>1, TypeStart, TypeContinue, TypeFault DEF Next
  <2>2. CASE UNCHANGED vars
    BY <2>2 DEF TypeOK, vars, bookingVars, gatewayVars, feedVars
  <2> QED
    BY <2>1, <2>2
<1> QED
  BY <1>1, TypeInit, PTL DEF Spec

----------------------------------------------------------------------------
(* The history of a booking *)

\* A worker that proceeds: its new task, and everybody else's old one.
LEMMA ProceedTask ==
  ASSUME TypeOK, NEW w \in Workers, NEW t, Proceed(w, t)
  PROVE  task'[w] = t /\ \A v \in Workers : v # w => task'[v] = task[v]
BY DEF TypeOK, Proceed

\* The four actions that write a booking: the others leave its row, its history
\* and the counters alone.
LEMMA StatusWriters ==
  ASSUME TypeOK, Next
  PROVE  \/ \E w \in Workers :
              \/ \E b \in Bookings : CreateBooking(w, b)
              \/ CompleteMission(w)
              \/ WriteStatus(w)
              \/ SettleConfirm(w)
         \/ UNCHANGED bookingVars
<1>1. ASSUME NEW w \in Workers, Start(w), ~ \E b \in Bookings : CreateBooking(w, b)
      PROVE  UNCHANGED bookingVars
  BY <1>1 DEF Start, ReadForUpdate, ReadForInit, ReadForCheckout, TimerFires, HandleWaveWebhook,
              HandleCallback, ConfirmMockCheckout, Reported
<1>2. ASSUME NEW w \in Workers, Continue(w),
             ~ CompleteMission(w), ~ WriteStatus(w), ~ SettleConfirm(w)
      PROVE  UNCHANGED bookingVars
  BY <1>2 DEF Continue, TellBooking, CreatePayment, CreateCheckout, InitiateSettles,
              InitiateArmsTimer, InitiateRejected, SettleRead, TellPayer, TellProvider
<1>3. ASSUME NEW w \in Workers, DatabaseError(w) PROVE UNCHANGED bookingVars
  BY <1>3 DEF DatabaseError
<1>4. ASSUME Restart PROVE UNCHANGED bookingVars
  BY <1>4 DEF Restart
<1>5. ASSUME NEW ref \in Payments, TimerFails(ref) PROVE UNCHANGED bookingVars
  BY <1>5 DEF TimerFails
<1> QED
  BY <1>1, <1>2, <1>3, <1>4, <1>5 DEF Next

\* A pending update knows its booking and a target that is a successor.
LEMMA UpdateOnHistory ==
  ASSUME TypeOK, ActsOnHistory, NEW w \in Workers, At(w, "write_status")
  PROVE  /\ task[w].booking \in Bookings
         /\ task[w].from \in BookingStatuses
         /\ task[w].to \in BookingStatuses
         /\ task[w].from \in visited[task[w].booking]
         /\ Successor(task[w].from, task[w].to)
<1>1. task[w] \in UpdateTasks
  BY TaskShape DEF TypeOK, At
<1>2. /\ task[w].from \in visited[task[w].booking]
      /\ TransitionAllowed(task[w].from, task[w].to, task[w].role)
  BY DEF ActsOnHistory
<1> QED
  BY <1>1, <1>2 DEF UpdateTasks, TransitionAllowed, Successor

\* Every step of the two services is a step of the abstract history, or does
\* not touch it.
LEMMA LifecycleStep ==
  ASSUME TypeOK, ActsOnHistory, [Next]_vars
  PROVE  [Lifecycle!Next]_(Lifecycle!lifecycle)
<1> USE DEF Lifecycle!Next, Lifecycle!Advance, Lifecycle!Open, Lifecycle!lifecycle,
            Lifecycle!Successor, Lifecycle!Transitions, Lifecycle!BookingStatuses,
            Lifecycle!BookingRoles
<1>1. ASSUME NEW w \in Workers, NEW b \in Bookings, CreateBooking(w, b) PROVE Lifecycle!Next
  <2>1. status[b] = "absent" /\ visited[b] = {}
    BY <1>1 DEF CreateBooking, ActsOnHistory
  <2>2. Lifecycle!Open(b)
    BY <1>1, <2>1 DEF CreateBooking, SetStatus, TypeOK
  <2> QED
    BY <2>2
<1>2. ASSUME NEW w \in Workers, At(w, "write_status"), SetStatus(task[w].booking, task[w].to)
      PROVE  Lifecycle!Next
  <2>1. Lifecycle!Advance(task[w].booking, task[w].from, task[w].to)
    BY <1>2, UpdateOnHistory DEF SetStatus, Successor, Transitions, BookingRoles
  <2> QED
    BY <1>2, <2>1, UpdateOnHistory DEF BookingStatuses
<1>3. ASSUME NEW w \in Workers, SettleConfirm(w) PROVE Lifecycle!Next
  <2>1. task[w] \in SettleTasks
    BY <1>3, TaskShape DEF SettleConfirm, At, SettleSteps, TypeOK
  <2>2. BookingOf[task[w].payment] \in Bookings
    BY <2>1, KeysType DEF SettleTasks
  <2>3. Lifecycle!Advance(BookingOf[task[w].payment], "pending", "confirmed")
    BY <1>3 DEF SettleConfirm, SetStatus, ActsOnHistory
  <2> QED
    BY <2>2, <2>3
<1>4. ASSUME NEW w \in Workers, CompleteMission(w) \/ WriteStatus(w)
      PROVE  At(w, "write_status") /\ SetStatus(task[w].booking, task[w].to)
  BY <1>4 DEF CompleteMission, WriteStatus
<1>5. CASE Next
  BY <1>1, <1>2, <1>3, <1>4, <1>5, StatusWriters DEF bookingVars
<1>6. CASE UNCHANGED vars
  BY <1>6 DEF vars, bookingVars
<1> QED
  BY <1>5, <1>6

\* A history never loses a status and always holds the current one.
LEMMA HistoryGrows ==
  ASSUME TypeOK, ActsOnHistory, [Next]_vars, NEW b \in Bookings
  PROVE  /\ visited[b] \subseteq visited'[b]
         /\ IF status'[b] = "absent" THEN visited'[b] = {} ELSE status'[b] \in visited'[b]
<1>1. [Lifecycle!Next]_(Lifecycle!lifecycle)
  BY LifecycleStep
<1> QED
  BY <1>1 DEF Lifecycle!Next, Lifecycle!Open, Lifecycle!Advance, Lifecycle!lifecycle,
              Lifecycle!BookingStatuses, ActsOnHistory, TypeOK

\* The two reads that leave a worker about to write a status.
LEMMA NewWriters ==
  ASSUME TypeOK, Next, NEW v \in Workers
  PROVE  \/ task'[v] = task[v]
         \/ task'[v].step \notin {"write_status", "settle_confirm"}
         \/ \E u \in Users, b \in Bookings, to \in BookingStatuses : ReadForUpdate(v, u, b, to)
         \/ SettleRead(v)
<1> DEFINE Quiet == task'[v] = task[v] \/ task'[v].step \notin {"write_status", "settle_confirm"}
<1>p. ASSUME NEW w \in Workers, NEW t, Proceed(w, t),
             v = w => t.step \notin {"write_status", "settle_confirm"}
      PROVE  Quiet
  BY <1>p, ProceedTask
<1>a. ASSUME NEW w \in Workers, NEW ref, NEW outcome, ApplySettlement(w, ref, outcome)
      PROVE  Quiet
  <2> DEFINE next == IF Settleable(ref)
                     THEN [step |-> "settle_read", payment |-> ref, outcome |-> outcome]
                     ELSE Idle
  <2>1. Proceed(w, next)
    BY <1>a DEF ApplySettlement
  <2>2. next.step \notin {"write_status", "settle_confirm"}
    BY DEF Idle
  <2> HIDE DEF next
  <2> QED
    BY <2>1, <2>2, <1>p
<1>i. ASSUME NEW w \in Workers, Proceed(w, Idle) PROVE Quiet
  BY <1>i, <1>p DEF Idle
<1>1. ASSUME NEW w \in Workers, NEW b \in Bookings, CreateBooking(w, b) PROVE Quiet
  BY <1>1, <1>p DEF CreateBooking
<1>2. ASSUME NEW w \in Workers, NEW u \in Users, NEW b \in Bookings, NEW to \in BookingStatuses,
             ReadForUpdate(w, u, b, to)
      PROVE  Quiet \/ ReadForUpdate(v, u, b, to)
  BY <1>2, ProceedTask DEF ReadForUpdate
<1>3. ASSUME NEW w \in Workers, NEW ref \in Payments,
             (\E kind \in PaymentKinds : ReadForInit(w, ref, kind)) \/ ReadForCheckout(w, ref)
      PROVE  Quiet
  BY <1>3, <1>p DEF ReadForInit, ReadForCheckout
<1>4. ASSUME NEW w \in Workers, NEW ref \in Payments,
             \/ TimerFires(w, ref)
             \/ \E s \in WavePaymentStatuses : HandleWaveWebhook(w, ref, s)
             \/ \E outcome \in Outcomes : HandleCallback(w, ref, outcome)
             \/ \E success \in BOOLEAN : ConfirmMockCheckout(w, ref, success)
      PROVE  Quiet
  BY <1>4, <1>a DEF TimerFires, HandleWaveWebhook, HandleCallback, ConfirmMockCheckout, Reported
<1>5. ASSUME NEW w \in Workers, CompleteMission(w) \/ WriteStatus(w) PROVE Quiet
  BY <1>5, <1>p DEF CompleteMission, WriteStatus, TellNext
<1>6. ASSUME NEW w \in Workers, CreatePayment(w) PROVE Quiet
  <2>1. task[w] \in PaymentTasks
    BY <1>6, TaskShape DEF CreatePayment, At, TypeOK
  <2> QED
    BY <1>6, <1>p, <2>1 DEF CreatePayment, PaymentTasks
<1>7. ASSUME NEW w \in Workers, NEW outcome \in Outcomes, InitiateSettles(w, outcome)
      PROVE  Quiet
  BY <1>7, <1>a DEF InitiateSettles
<1>8. ASSUME NEW w \in Workers,
             \/ TellBooking(w) \/ CreateCheckout(w) \/ InitiateRejected(w) \/ TellProvider(w)
             \/ \E outcome \in Outcomes : InitiateArmsTimer(w, outcome)
             \/ DatabaseError(w)
      PROVE  Quiet
  BY <1>8, <1>i DEF TellBooking, CreateCheckout, InitiateRejected, InitiateArmsTimer, TellProvider,
                    DatabaseError
<1>9. ASSUME NEW w \in Workers, SettleRead(w) PROVE Quiet \/ SettleRead(v)
  BY <1>9, ProceedTask DEF SettleRead
<1>10. ASSUME NEW w \in Workers, SettleConfirm(w) \/ TellPayer(w) PROVE Quiet
  <2>1. task[w] \in SettleTasks
    BY <1>10, TaskShape DEF SettleConfirm, TellPayer, At, SettleSteps, TypeOK
  <2>2. /\ [task[w] EXCEPT !.step = "tell_payer"].step = "tell_payer"
        /\ [task[w] EXCEPT !.step = "tell_provider"].step = "tell_provider"
    BY <2>1 DEF SettleTasks
  <2>3. CASE SettleConfirm(w)
    BY <2>2, <2>3, <1>p DEF SettleConfirm
  <2>4. CASE TellPayer(w)
    BY <2>2, <2>4, <1>p, <1>i DEF TellPayer
  <2> QED
    BY <1>10, <2>3, <2>4
<1>11. ASSUME Restart PROVE Quiet
  BY <1>11 DEF Restart, Idle
<1>12. ASSUME NEW ref \in Payments, TimerFails(ref) PROVE Quiet
  BY <1>12 DEF TimerFails
<1> QED
  BY <1>1, <1>2, <1>3, <1>4, <1>5, <1>6, <1>7, <1>8, <1>9, <1>10, <1>11, <1>12
     DEF Next, Start, Continue

LEMMA ActsOnHistoryStep ==
  ASSUME TypeOK, TypeOK', ActsOnHistory, [Next]_vars
  PROVE  ActsOnHistory'
<1> DEFINE
      Writes(v) == At(v, "write_status") =>
                     /\ task[v].from \in visited[task[v].booking]
                     /\ TransitionAllowed(task[v].from, task[v].to, task[v].role)
      Confirms(v) == At(v, "settle_confirm") => "pending" \in visited[BookingOf[task[v].payment]]
<1>1. ASSUME NEW b \in Bookings
      PROVE  IF status'[b] = "absent" THEN visited'[b] = {} ELSE status'[b] \in visited'[b]
  BY HistoryGrows
<1>2. ASSUME NEW v \in Workers, task'[v] = task[v] PROVE Writes(v)' /\ Confirms(v)'
  <2>1. ASSUME At(v, "write_status") PROVE Writes(v)'
    <3>1. task[v].booking \in Bookings
      BY <2>1, UpdateOnHistory
    <3> QED
      BY <1>2, <2>1, <3>1, HistoryGrows DEF ActsOnHistory, At
  <2>2. ASSUME At(v, "settle_confirm") PROVE Confirms(v)'
    <3>1. BookingOf[task[v].payment] \in Bookings
      BY <2>2, TaskShape, KeysType DEF SettleTasks, SettleSteps, TypeOK, At
    <3> QED
      BY <1>2, <2>2, <3>1, HistoryGrows DEF ActsOnHistory, At
  <2> QED
    BY <1>2, <2>1, <2>2 DEF At
<1>3. ASSUME NEW v \in Workers, NEW u \in Users, NEW b \in Bookings, NEW to \in BookingStatuses,
             ReadForUpdate(v, u, b, to)
      PROVE  Writes(v)' /\ Confirms(v)'
  <2>1. task'[v] = [step |-> "write_status", booking |-> b, user |-> u,
                    role |-> RoleOf(u, b), from |-> status[b], to |-> to]
    BY <1>3, ProceedTask DEF ReadForUpdate
  <2>2. status[b] \in visited[b] /\ TransitionAllowed(status[b], to, RoleOf(u, b))
    BY <1>3 DEF ReadForUpdate, MayUpdate, Owns, ActsOnHistory
  <2> QED
    BY <2>1, <2>2, HistoryGrows DEF At
<1>4. ASSUME NEW v \in Workers, SettleRead(v) PROVE Writes(v)' /\ Confirms(v)'
  <2> DEFINE b == BookingOf[task[v].payment]
  <2>1. task[v] \in SettleTasks /\ b \in Bookings
    BY <1>4, TaskShape, KeysType DEF SettleRead, SettleTasks, SettleSteps, TypeOK, At
  <2>2. task'[v] = [task[v] EXCEPT !.step =
                      IF task[v].outcome = "completed" /\ AwaitsConfirmation(b)
                      THEN "settle_confirm" ELSE "tell_payer"]
    BY <1>4, ProceedTask DEF SettleRead
  <2>3. At(v, "settle_confirm")' => status[b] = "pending"
    BY <2>1, <2>2 DEF At, SettleTasks, AwaitsConfirmation
  <2>4. task'[v].payment = task[v].payment /\ task'[v].step # "write_status"
    BY <2>1, <2>2 DEF SettleTasks
  <2>5. status[b] = "pending" => "pending" \in visited[b]
    BY <2>1 DEF ActsOnHistory
  <2> QED
    BY <2>1, <2>3, <2>4, <2>5, HistoryGrows DEF At
<1>5. ASSUME NEW v \in Workers PROVE Writes(v)' /\ Confirms(v)'
  <2>1. CASE Next
    <3>1. task'[v].step \notin {"write_status", "settle_confirm"} => Writes(v)' /\ Confirms(v)'
      BY DEF At
    <3> QED
      BY <2>1, <3>1, <1>2, <1>3, <1>4, NewWriters
  <2>2. CASE UNCHANGED vars
    BY <2>2, <1>2 DEF vars
  <2> QED
    BY <2>1, <2>2
<1> QED
  BY <1>1, <1>5 DEF ActsOnHistory

LEMMA HistoryInit == Init => ActsOnHistory
BY DEF Init, ActsOnHistory, At, Idle

\* Every status a handler is about to write is a legal successor of one that
\* the booking has held.
THEOREM HistoryCorrect == Spec => []ActsOnHistory
<1>1. TypeOK /\ TypeOK' /\ ActsOnHistory /\ [Next]_vars => ActsOnHistory'
  BY ActsOnHistoryStep
<1> QED
  BY <1>1, HistoryInit, TypeCorrect, PTL DEF Spec

\* Bookings and payments, however their handlers interleave and fail, implement
\* the abstract history of a booking.
THEOREM LifecycleImplemented == Spec => ImplementsLifecycle
<1>1. Init => Lifecycle!Init
  BY DEF Init, Lifecycle!Init
<1>2. TypeOK /\ ActsOnHistory /\ [Next]_vars => [Lifecycle!Next]_(Lifecycle!lifecycle)
  BY LifecycleStep
<1> QED
  BY <1>1, <1>2, TypeCorrect, HistoryCorrect, PTL DEF Spec, Lifecycle!Spec, ImplementsLifecycle

\* The order of a mission is a property of the abstract history.
LEMMA OrderStep ==
  ASSUME TypeOK, MissionsInOrder, [Lifecycle!Next]_(Lifecycle!lifecycle)
  PROVE  MissionsInOrder'
<1> USE DEF MissionsInOrder, TypeOK, BookingStatuses
<1>1. ASSUME NEW b \in Bookings, Lifecycle!Open(b) PROVE MissionsInOrder'
  BY <1>1 DEF Lifecycle!Open
<1>2. ASSUME NEW b \in Bookings, NEW from, NEW to, Lifecycle!Advance(b, from, to)
      PROVE  MissionsInOrder'
  <2>1. /\ to = "in_progress" => from = "confirmed"
        /\ to = "completed" => from = "in_progress"
    BY <1>2 DEF Lifecycle!Advance, Lifecycle!Successor, Lifecycle!Transitions, Lifecycle!BookingRoles
  <2> QED
    BY <1>2, <2>1 DEF Lifecycle!Advance
<1>3. CASE UNCHANGED <<status, visited>>
  BY <1>3
<1> QED
  BY <1>1, <1>2, <1>3 DEF Lifecycle!Next, Lifecycle!lifecycle

\* No mission is started that was never confirmed, none completed that was
\* never started.
THEOREM OrderCorrect == Spec => []MissionsInOrder
<1>1. Init => MissionsInOrder
  BY DEF Init, MissionsInOrder
<1>2. TypeOK /\ ActsOnHistory /\ MissionsInOrder /\ [Next]_vars => MissionsInOrder'
  BY LifecycleStep, OrderStep
<1> QED
  BY <1>1, <1>2, TypeCorrect, HistoryCorrect, PTL DEF Spec

----------------------------------------------------------------------------
(* Completed missions: their dates and the counters *)

\* Only the transaction of a completion makes a booking completed, and it
\* alone writes dates and counters.
LEMMA CompletionWriters ==
  ASSUME TypeOK, [Next]_vars
  PROVE  \/ \E w \in Workers : CompleteMission(w)
         \/ /\ UNCHANGED <<completedAt, missionsDone>>
            /\ \A b \in Bookings : "completed" \in visited'[b] <=> "completed" \in visited[b]
<1> DEFINE Same == /\ UNCHANGED <<completedAt, missionsDone>>
                   /\ \A b \in Bookings : "completed" \in visited'[b] <=> "completed" \in visited[b]
<1>1. ASSUME NEW b \in Bookings, NEW to, to # "completed", SetStatus(b, to)
      PROVE  \A c \in Bookings : "completed" \in visited'[c] <=> "completed" \in visited[c]
  BY <1>1 DEF SetStatus, TypeOK
<1>2. ASSUME NEW w \in Workers, NEW b \in Bookings, CreateBooking(w, b) PROVE Same
  BY <1>1, <1>2 DEF CreateBooking
<1>3. ASSUME NEW w \in Workers, WriteStatus(w) PROVE Same
  <2>1. task[w].booking \in Bookings
    BY <1>3, TaskShape DEF WriteStatus, At, TypeOK, UpdateTasks
  <2> QED
    BY <1>1, <1>3, <2>1 DEF WriteStatus
<1>4. ASSUME NEW w \in Workers, SettleConfirm(w) PROVE Same
  <2>1. BookingOf[task[w].payment] \in Bookings
    BY <1>4, TaskShape, KeysType DEF SettleConfirm, SettleTasks, SettleSteps, TypeOK, At
  <2> QED
    BY <1>1, <1>4, <2>1 DEF SettleConfirm
<1>5. CASE Next
  BY <1>2, <1>3, <1>4, <1>5, StatusWriters DEF bookingVars
<1>6. CASE UNCHANGED vars
  BY <1>6 DEF vars, bookingVars
<1> QED
  BY <1>5, <1>6

\* What the transaction writes: one booking completed, dated and counted.
LEMMA CompletionEffect ==
  ASSUME TypeOK, NEW w \in Workers, CompleteMission(w)
  PROVE  LET b == task[w].booking IN
         /\ b \in Bookings
         /\ status' = [status EXCEPT ![b] = "completed"]
         /\ completedAt' = [completedAt EXCEPT ![b] = TRUE]
         /\ missionsDone' = [missionsDone EXCEPT ![ProviderOf[b]] = @ + 1]
         /\ \A c \in Bookings :
              "completed" \in visited'[c] <=> c = b \/ "completed" \in visited[c]
<1>1. task[w].booking \in Bookings
  BY TaskShape DEF CompleteMission, At, TypeOK, UpdateTasks
<1> QED
  BY <1>1 DEF CompleteMission, SetStatus, DateCompletion, CountMission, TypeOK

\* completed_at is the memory of a completion: set by the first one and kept
\* through every later write of the status.
THEOREM CompletionDatedCorrect == Spec => []CompletionDated
<1>1. Init => CompletionDated
  BY DEF Init, CompletionDated
<1>2. TypeOK /\ CompletionDated /\ [Next]_vars => CompletionDated'
  <2> SUFFICES ASSUME TypeOK, CompletionDated, [Next]_vars PROVE CompletionDated'
    OBVIOUS
  <2>1. ASSUME NEW w \in Workers, CompleteMission(w) PROVE CompletionDated'
    BY <2>1, CompletionEffect DEF CompletionDated, TypeOK
  <2>2. CASE /\ UNCHANGED <<completedAt, missionsDone>>
             /\ \A b \in Bookings : "completed" \in visited'[b] <=> "completed" \in visited[b]
    BY <2>2 DEF CompletionDated
  <2> QED
    BY <2>1, <2>2, CompletionWriters
<1> QED
  BY <1>1, <1>2, TypeCorrect, PTL DEF Spec

\* MissionsCounted with what makes it inductive when there are infinitely many
\* booking ids: at any time only finitely many missions are completed.
MissionsCountedInv ==
  \A p \in Providers : IsFiniteSet(MissionsOf(p)) /\ Cardinality(MissionsOf(p)) <= missionsDone[p]

LEMMA MissionsCountedStep ==
  ASSUME TypeOK, MissionsCountedInv, [Next]_vars
  PROVE  MissionsCountedInv'
<1>1. ASSUME NEW w \in Workers, CompleteMission(w), NEW p \in Providers
      PROVE  /\ IsFiniteSet(MissionsOf(p)')
             /\ Cardinality(MissionsOf(p)') <= missionsDone'[p]
  <2> DEFINE b == task[w].booking
  <2>1. /\ b \in Bookings
        /\ missionsDone' = [missionsDone EXCEPT ![ProviderOf[b]] = @ + 1]
        /\ \A c \in Bookings : "completed" \in visited'[c] <=> c = b \/ "completed" \in visited[c]
    BY <1>1, CompletionEffect
  <2>2. missionsDone[p] \in Nat /\ IsFiniteSet(MissionsOf(p))
        /\ Cardinality(MissionsOf(p)) <= missionsDone[p]
    BY DEF TypeOK, MissionsCountedInv
  <2>3. CASE ProviderOf[b] = p
    <3>1. MissionsOf(p)' = MissionsOf(p) \cup {b}
      BY <2>1, <2>3 DEF MissionsOf
    <3>2. missionsDone'[p] = missionsDone[p] + 1
      BY <2>1, <2>3 DEF TypeOK
    <3> HIDE DEF b
    <3>3. /\ IsFiniteSet(MissionsOf(p) \cup {b})
          /\ Cardinality(MissionsOf(p)) \in Nat
          /\ \/ Cardinality(MissionsOf(p) \cup {b}) = Cardinality(MissionsOf(p))
             \/ Cardinality(MissionsOf(p) \cup {b}) = Cardinality(MissionsOf(p)) + 1
      BY <2>2, FS_AddElement, FS_CardinalityType
    <3> QED
      BY <2>2, <3>1, <3>2, <3>3
  <2>4. CASE ProviderOf[b] # p
    <3>1. MissionsOf(p)' = MissionsOf(p)
      BY <2>1, <2>4 DEF MissionsOf
    <3>2. missionsDone'[p] = missionsDone[p]
      BY <2>1, <2>4 DEF TypeOK
    <3> QED
      BY <2>2, <3>1, <3>2
  <2> QED
    BY <2>3, <2>4
<1>2. CASE /\ UNCHANGED <<completedAt, missionsDone>>
           /\ \A b \in Bookings : "completed" \in visited'[b] <=> "completed" \in visited[b]
  <2>1. \A p \in Providers : MissionsOf(p)' = MissionsOf(p)
    BY <1>2 DEF MissionsOf
  <2> QED
    BY <1>2, <2>1 DEF MissionsCountedInv
<1> QED
  BY <1>1, <1>2, CompletionWriters DEF MissionsCountedInv

\* missions_done never falls short of the missions a provider has completed.
THEOREM MissionsCountedCorrect == Spec => []MissionsCounted
<1>1. Init => MissionsCountedInv
  <2> SUFFICES ASSUME Init, NEW p \in Providers
               PROVE  IsFiniteSet(MissionsOf(p)) /\ Cardinality(MissionsOf(p)) <= missionsDone[p]
    BY DEF MissionsCountedInv
  <2>1. MissionsOf(p) = {} /\ missionsDone[p] = 0
    BY DEF Init, MissionsOf
  <2> QED
    BY <2>1, FS_EmptySet
<1>2. TypeOK /\ MissionsCountedInv /\ [Next]_vars => MissionsCountedInv'
  BY MissionsCountedStep
<1>3. MissionsCountedInv => MissionsCounted
  BY DEF MissionsCountedInv, MissionsCounted
<1> QED
  BY <1>1, <1>2, <1>3, TypeCorrect, PTL DEF Spec

----------------------------------------------------------------------------
(* Who starts and completes a mission *)

\* The role that was asserted is the one the user has: the profile of a booking
\* and its owner are never updated.
RolesHeld ==
  \A w \in Workers :
    At(w, "write_status") => task[w].role = RoleOf(task[w].user, task[w].booking)

\* A pending write of a status carries the role of its user on the booking, as
\* updateStatus computed it.
THEOREM RolesCorrect == Spec => []RolesHeld
<1>1. Init => RolesHeld
  BY DEF Init, RolesHeld, At, Idle
<1>2. TypeOK /\ RolesHeld /\ [Next]_vars => RolesHeld'
  <2> SUFFICES ASSUME TypeOK, RolesHeld, [Next]_vars, NEW v \in Workers
               PROVE  (At(v, "write_status") => task[v].role = RoleOf(task[v].user, task[v].booking))'
    BY DEF RolesHeld
  <2>1. ASSUME NEW u \in Users, NEW b \in Bookings, NEW to \in BookingStatuses,
               ReadForUpdate(v, u, b, to)
        PROVE  task'[v].role = RoleOf(task'[v].user, task'[v].booking)
    BY <2>1, ProceedTask DEF ReadForUpdate
  <2>2. ASSUME SettleRead(v) PROVE task'[v].step # "write_status"
    <3>1. task[v] \in SettleTasks
      BY <2>2, TaskShape DEF SettleRead, SettleSteps, TypeOK, At
    <3> QED
      BY <2>2, <3>1, ProceedTask DEF SettleRead, SettleTasks
  <2>3. CASE task'[v] = task[v]
    BY <2>3 DEF RolesHeld, At, RoleOf
  <2>4. CASE Next
    BY <2>1, <2>2, <2>3, <2>4, NewWriters DEF At, RoleOf
  <2>5. CASE UNCHANGED vars
    BY <2>3, <2>5 DEF vars
  <2> QED
    BY <2>4, <2>5
<1> QED
  BY <1>1, <1>2, TypeCorrect, PTL DEF Spec

\* An action property: the step that starts or completes a mission is taken by
\* a handler of the provider's own request.
THEOREM ProviderStartsCorrect == Spec => ProviderStartsAndCompletes
<1> DEFINE Doer(b) ==
      status'[b] # status[b] /\ status'[b] \in {"in_progress", "completed"} =>
         \E w \in Workers :
           /\ task'[w] # task[w]
           /\ At(w, "write_status")
           /\ task[w].booking = b
           /\ task[w].user = ProviderUserOf(b)
<1>1. ASSUME TypeOK, ActsOnHistory, RolesHeld, [Next]_vars, NEW b \in Bookings PROVE Doer(b)
  <2>1. ASSUME NEW w \in Workers, NEW c \in Bookings, CreateBooking(w, c) PROVE Doer(b)
    BY <1>1, <2>1 DEF CreateBooking, SetStatus, TypeOK
  <2>2. ASSUME NEW w \in Workers, CompleteMission(w) \/ WriteStatus(w) PROVE Doer(b)
    <3>1. At(w, "write_status") /\ SetStatus(task[w].booking, task[w].to) /\ TellNext(w)
      BY <2>2 DEF CompleteMission, WriteStatus
    <3>2. SUFFICES ASSUME status'[b] # status[b], status'[b] \in {"in_progress", "completed"}
                   PROVE  /\ task'[w] # task[w]
                          /\ task[w].booking = b
                          /\ task[w].user = ProviderUserOf(b)
      BY <3>1
    <3>3. task[w].booking = b /\ task[w].to \in {"in_progress", "completed"}
      BY <1>1, <3>1, <3>2 DEF SetStatus, TypeOK
    <3>4. task'[w].step = "tell_booking"
      BY <1>1, <3>1, ProceedTask DEF TellNext
    <3>5. TransitionAllowed(task[w].from, task[w].to, task[w].role)
      BY <1>1, <3>1 DEF ActsOnHistory
    <3>6. task[w].role = "provider"
      BY <3>3, <3>5 DEF TransitionAllowed, Transitions
    <3>7. RoleOf(task[w].user, b) = "provider"
      BY <1>1, <3>1, <3>3, <3>6 DEF RolesHeld
    <3> QED
      BY <3>1, <3>3, <3>4, <3>7 DEF At, RoleOf
  <2>3. ASSUME NEW w \in Workers, SettleConfirm(w) PROVE Doer(b)
    BY <1>1, <2>3 DEF SettleConfirm, SetStatus, TypeOK
  <2>4. CASE Next
    BY <1>1, <2>1, <2>2, <2>3, <2>4, StatusWriters DEF bookingVars
  <2>5. CASE UNCHANGED vars
    BY <2>5 DEF vars, bookingVars
  <2> QED
    BY <1>1, <2>4, <2>5
<1>2. TypeOK /\ ActsOnHistory /\ RolesHeld /\ [Next]_vars => \A b \in Bookings : Doer(b)
  BY <1>1
<1> QED
  BY <1>2, TypeCorrect, HistoryCorrect, RolesCorrect, PTL DEF Spec, ProviderStartsAndCompletes

=============================================================================
