-------------------------- MODULE BookingPayments --------------------------
(***************************************************************************)
(* BookingsService and PaymentsService over one PostgreSQL database.       *)
(*                                                                         *)
(* A request is handled by a worker (a pending async handler of any server *)
(* instance).  Between two awaits of a handler every other handler may     *)
(* run, so a handler is one action for each database statement, and what   *)
(* it has read so far is carried in task[w].  A worker is free again once  *)
(* its handler has answered; the number of workers bounds how many         *)
(* handlers are in flight together, not how many requests are made.        *)
(*                                                                         *)
(* A request that an early return or an exception stops before its first   *)
(* write changes nothing: it is the guard of the action, not a step.       *)
(***************************************************************************)
EXTENDS BookingStatusMachine, Naturals, FiniteSets

CONSTANTS
  Users, Providers,
  ProviderUser,   \* ProviderUser[p]: the account that owns profile p
  Bookings,       \* ids of booking rows
  ClientOf,       \* ClientOf[b], ProviderOf[b], BookingOf[ref]: the foreign
  ProviderOf,     \* keys of a row, written by its insert and never updated;
  Payments,       \* an insert picks an unused id with the keys it wants
  BookingOf,
  Workers,
  GatewayMode,    \* env PAYMENT_GATEWAY: "mock" or "wave"
  AutocompleteMs, \* env PAYMENT_MOCK_AUTOCOMPLETE_MS
  Faults          \* which of the faults below can happen

ASSUME TablesAssumption ==
  /\ ProviderUser \in [Providers -> Users]
  /\ ClientOf \in [Bookings -> Users]
  /\ ProviderOf \in [Bookings -> Providers]
  /\ BookingOf \in [Payments -> Bookings]

ASSUME ConfigAssumption ==
  /\ GatewayMode \in {"mock", "wave"}
  /\ AutocompleteMs \in Nat
  /\ Faults \subseteq {"restart", "db_error", "notify_error"}

ProviderUserOf(b) == ProviderUser[ProviderOf[b]]

----------------------------------------------------------------------------
(* Types *)

Outcomes == {"completed", "failed"}
PaymentKinds == {"deposit", "cash", "mobile"}

Idle == [step |-> "idle"]

\* updateStatus after findOwned and the assertion: the status that was read,
\* the one to write, and who asks.
UpdateTasks == [step: {"write_status"}, booking: Bookings, user: Users,
                role: BookingRoles, from: BookingStatuses, to: BookingStatuses]
\* create and updateStatus after their write: the notification and the event.
TellTasks == [step: {"tell_booking"}, booking: Bookings, to: BookingStatuses, recipient: Users]
\* init and checkout after the checks on the booking: the insert, then the
\* call to the gateway.
PaymentTasks == [step: {"create_payment", "create_checkout", "initiate"},
                 payment: Payments, kind: PaymentKinds]
\* applySettlement after its updateMany has settled the payment.
SettleSteps == {"settle_read", "settle_confirm", "tell_payer", "tell_provider"}
SettleTasks == [step: SettleSteps, payment: Payments, outcome: Outcomes]

Tasks == {Idle} \cup UpdateTasks \cup TellTasks \cup PaymentTasks \cup SettleTasks

Notices == [to: Users, about: Bookings, what: BookingStatuses]
PaymentNotices == [to: Users, about: Payments, what: {"paid", "received", "payment_failed"}]

VARIABLES
  status,        \* bookings.status, "absent" before the insert
  completedAt,   \* bookings.completed_at is not null
  missionsDone,  \* providers.missions_done
  payment,       \* payments.status, "absent" before the insert
  known,         \* references that were given to the payment provider
  timers,        \* the mock gateway's armed timers: the outcome each will report
  task,          \* what each worker has left to do, with what it has read
  inbox,         \* the notifications that users have received
  pushed,        \* pushed[b]: status in the last booking:updated event
  visited        \* history: every status the booking has held

bookingVars == <<status, completedAt, missionsDone, visited>>
gatewayVars == <<known, timers>>
feedVars == <<inbox, pushed>>
vars == <<bookingVars, payment, gatewayVars, task, feedVars>>

TypeOK ==
  /\ status \in [Bookings -> BookingStatuses \cup {"absent"}]
  /\ completedAt \in [Bookings -> BOOLEAN]
  /\ missionsDone \in [Providers -> Nat]
  /\ payment \in [Payments -> {"absent", "pending"} \cup Outcomes]
  /\ known \subseteq Payments
  /\ timers \in [Payments -> Outcomes \cup {"none"}]
  /\ task \in [Workers -> Tasks]
  /\ inbox \subseteq Notices \cup PaymentNotices
  /\ pushed \in [Bookings -> BookingStatuses \cup {"absent"}]
  /\ visited \in [Bookings -> SUBSET BookingStatuses]

Init ==
  /\ status = [b \in Bookings |-> "absent"]
  /\ completedAt = [b \in Bookings |-> FALSE]
  /\ missionsDone = [p \in Providers |-> 0]
  /\ payment = [ref \in Payments |-> "absent"]
  /\ known = {}
  /\ timers = [ref \in Payments |-> "none"]
  /\ task = [w \in Workers |-> Idle]
  /\ inbox = {}
  /\ pushed = [b \in Bookings |-> "absent"]
  /\ visited = [b \in Bookings |-> {}]

----------------------------------------------------------------------------
(* Helpers *)

Free(w) == task[w] = Idle
At(w, step) == task[w].step = step
Proceed(w, next) == task' = [task EXCEPT ![w] = next]

\* booking.update({ where: { id }, data: { status } }): nothing in the where
\* clause asks what the status is by now.
SetStatus(b, to) ==
  /\ status' = [status EXCEPT ![b] = to]
  /\ visited' = [visited EXCEPT ![b] = @ \cup {to}]

\* NotificationsService.notify: an error is logged and swallowed.
Notify(notice) ==
  \/ inbox' = inbox \cup {notice}
  \/ "notify_error" \in Faults /\ inbox' = inbox

----------------------------------------------------------------------------
(* BookingsService *)

\* findOwned: only the client and the provider of a booking see it.
Owns(u, b) == status[b] # "absent" /\ u \in {ClientOf[b], ProviderUserOf(b)}

\* Mutant: the roles are swapped.
RoleOfSwapped(u, b) == IF ProviderUserOf(b) = u THEN "client" ELSE "provider"

\* booking.provider.userId === user.id ? 'provider' : 'client'
RoleOf(u, b) == IF ProviderUserOf(b) = u THEN "provider" ELSE "client"

\* notifyTransition: the client hears of everything but its own cancellation.
Recipient(b, to, role) ==
  IF to = "cancelled" /\ role = "client" THEN ProviderUserOf(b) ELSE ClientOf[b]

\* create.  The profile it reads first is never deleted and its owner never
\* changes, so the read and the insert are one step.
CreateBooking(w, b) ==
  /\ Free(w)
  /\ status[b] = "absent"
  /\ ProviderUserOf(b) # ClientOf[b]
  /\ SetStatus(b, "pending")
  /\ Proceed(w, [step |-> "tell_booking", booking |-> b, to |-> "pending",
                 recipient |-> ProviderUserOf(b)])
  /\ UNCHANGED <<completedAt, missionsDone, payment, gatewayVars, feedVars>>

\* Mutant: the assertion forgotten.
MayUpdateIfOwner(u, b, to) == Owns(u, b)

\* findOwned, then the assertion on the status that was read.
MayUpdate(u, b, to) == Owns(u, b) /\ TransitionAllowed(status[b], to, RoleOf(u, b))

\* updateStatus up to the first write.
ReadForUpdate(w, u, b, to) ==
  /\ Free(w)
  /\ MayUpdate(u, b, to)
  /\ Proceed(w, [step |-> "write_status", booking |-> b, user |-> u,
                 role |-> RoleOf(u, b), from |-> status[b], to |-> to])
  /\ UNCHANGED <<bookingVars, payment, gatewayVars, feedVars>>

\* The tail of updateStatus once the row is written.
TellNext(w) ==
  LET t == task[w] IN
  Proceed(w, [step |-> "tell_booking", booking |-> t.booking, to |-> t.to,
              recipient |-> Recipient(t.booking, t.to, t.role)])

\* The $transaction of a completion: the booking, its date and the counter of
\* its provider.
\* Mutants: the date forgotten, the counter forgotten.
DateCompletionForgotten(b) == completedAt' = [completedAt EXCEPT ![b] = @]
CountMissionForgotten(b) == missionsDone' = [missionsDone EXCEPT ![ProviderOf[b]] = @]

DateCompletion(b) == completedAt' = [completedAt EXCEPT ![b] = TRUE]

CountMission(b) == missionsDone' = [missionsDone EXCEPT ![ProviderOf[b]] = @ + 1]

CompleteMission(w) ==
  /\ At(w, "write_status")
  /\ task[w].to = "completed"
  /\ SetStatus(task[w].booking, "completed")
  /\ DateCompletion(task[w].booking)
  /\ CountMission(task[w].booking)
  /\ TellNext(w)
  /\ UNCHANGED <<payment, gatewayVars, feedVars>>

\* Any other target: one update by id.
WriteStatus(w) ==
  /\ At(w, "write_status")
  /\ task[w].to # "completed"
  /\ SetStatus(task[w].booking, task[w].to)
  /\ TellNext(w)
  /\ UNCHANGED <<completedAt, missionsDone, payment, gatewayVars, feedVars>>

\* notify is awaited, then BOOKING_UPDATED is emitted with the status of the
\* row as this handler wrote it.  One step: no handler reads either, so
\* a stop between the two is left out, as is a notification without its event.
TellBooking(w) ==
  /\ At(w, "tell_booking")
  /\ Notify([to |-> task[w].recipient, about |-> task[w].booking, what |-> task[w].to])
  /\ pushed' = [pushed EXCEPT ![task[w].booking] = task[w].to]
  /\ Proceed(w, Idle)
  /\ UNCHANGED <<bookingVars, payment, gatewayVars>>

----------------------------------------------------------------------------
(* PaymentsService: opening a payment *)

\* PAYABLE_STATUSES
Payable == {"confirmed", "in_progress", "completed"}

\* randomBytes(8): a reference no row and no handler in flight has.
Fresh(ref) ==
  /\ payment[ref] = "absent"
  /\ \A v \in Workers : At(v, "create_payment") => task[v].payment # ref

\* init, up to the insert: the client pays one of its bookings.
ReadForInit(w, ref, kind) ==
  /\ Free(w)
  /\ status[BookingOf[ref]] \in Payable
  /\ kind \in {"cash", "mobile"}
  /\ Fresh(ref)
  /\ Proceed(w, [step |-> "create_payment", payment |-> ref, kind |-> kind])
  /\ UNCHANGED <<bookingVars, payment, gatewayVars, feedVars>>

\* checkout, up to the insert: the deposit of a booking still to come.
ReadForCheckout(w, ref) ==
  /\ Free(w)
  /\ status[BookingOf[ref]] \notin {"absent", "cancelled", "completed"}
  /\ Fresh(ref)
  /\ Proceed(w, [step |-> "create_payment", payment |-> ref, kind |-> "deposit"])
  /\ UNCHANGED <<bookingVars, payment, gatewayVars, feedVars>>

\* payments.reference is unique.
CreatePayment(w) ==
  /\ At(w, "create_payment")
  /\ payment[task[w].payment] = "absent"
  /\ payment' = [payment EXCEPT ![task[w].payment] = "pending"]
  /\ Proceed(w, [task[w] EXCEPT !.step =
                   IF task[w].kind = "deposit" THEN "create_checkout" ELSE "initiate"])
  /\ UNCHANGED <<bookingVars, gatewayVars, feedVars>>

\* gateway.createCheckout.  The reference leaves the server in the hosted
\* session (wave) or in the launch_url (mock).  Wave may refuse, or be
\* unreachable before or after it opened the session: the caller gets a 503
\* and the pending row stays.
CreateCheckout(w) ==
  /\ At(w, "create_checkout")
  /\ \/ known' = known \cup {task[w].payment}
     \/ GatewayMode = "wave" /\ known' = known
  /\ Proceed(w, Idle)
  /\ UNCHANGED <<bookingVars, payment, timers, feedVars>>

----------------------------------------------------------------------------
(* PaymentsService: applySettlement *)

\* payment.updateMany({ where: { reference, status: 'pending' } })
\* Mutants: the status left out of the where clause; a failed payment that may
\* still be completed.
SettleableAlways(ref) == payment[ref] # "absent"
SettleableOnceMore(ref) == payment[ref] \in {"pending", "failed"}

Settleable(ref) == payment[ref] = "pending"

ApplySettlement(w, ref, outcome) ==
  /\ payment' = [payment EXCEPT ![ref] = IF Settleable(ref) THEN outcome ELSE @]
  /\ Proceed(w, IF Settleable(ref)
                THEN [step |-> "settle_read", payment |-> ref, outcome |-> outcome]
                ELSE Idle)

\* payment.booking.status === 'pending'.  Mutant: the statuses init accepts.
AwaitsConfirmationIfPayable(b) == status[b] \in Payable
AwaitsConfirmation(b) == status[b] = "pending"

\* findUnique with its booking: the status seen here decides.
SettleRead(w) ==
  /\ At(w, "settle_read")
  /\ Proceed(w, [task[w] EXCEPT !.step =
                   IF task[w].outcome = "completed" /\ AwaitsConfirmation(BookingOf[task[w].payment])
                   THEN "settle_confirm" ELSE "tell_payer"])
  /\ UNCHANGED <<bookingVars, payment, gatewayVars, feedVars>>

\* Mutant: the booking is left as it is.
SettleConfirmSkipped(w) ==
  /\ At(w, "settle_confirm")
  /\ Proceed(w, [task[w] EXCEPT !.step = "tell_payer"])
  /\ UNCHANGED <<bookingVars, payment, gatewayVars, feedVars>>

SettleConfirm(w) ==
  /\ At(w, "settle_confirm")
  /\ SetStatus(BookingOf[task[w].payment], "confirmed")
  /\ Proceed(w, [task[w] EXCEPT !.step = "tell_payer"])
  /\ UNCHANGED <<completedAt, missionsDone, payment, gatewayVars, feedVars>>

TellPayer(w) ==
  /\ At(w, "tell_payer")
  /\ LET ref == task[w].payment
         paid == task[w].outcome = "completed"
     IN  /\ Notify([to |-> ClientOf[BookingOf[ref]], about |-> ref,
                    what |-> IF paid THEN "paid" ELSE "payment_failed"])
         /\ Proceed(w, IF paid THEN [task[w] EXCEPT !.step = "tell_provider"] ELSE Idle)
  /\ UNCHANGED <<bookingVars, payment, gatewayVars, pushed>>

TellProvider(w) ==
  /\ At(w, "tell_provider")
  /\ LET ref == task[w].payment
     IN  Notify([to |-> ProviderUserOf(BookingOf[ref]), about |-> ref, what |-> "received"])
  /\ Proceed(w, Idle)
  /\ UNCHANGED <<bookingVars, payment, gatewayVars, pushed>>

----------------------------------------------------------------------------
(* Who settles *)

\* gateway.initiate for cash, and for mobile money when the mock settles at
\* once: init's own handler applies the settlement.
SettlesAtOnce(w) == GatewayMode = "mock" /\ (task[w].kind = "cash" \/ AutocompleteMs = 0)

InitiateSettles(w, outcome) ==
  /\ At(w, "initiate")
  /\ SettlesAtOnce(w)
  /\ task[w].kind = "cash" => outcome = "completed"
  /\ ApplySettlement(w, task[w].payment, outcome)
  /\ known' = known \cup {task[w].payment}
  /\ UNCHANGED <<bookingVars, timers, feedVars>>

\* Otherwise the mock arms a timer that will report the outcome; the phone
\* number (ending in 00 or not) decides which.
InitiateArmsTimer(w, outcome) ==
  /\ At(w, "initiate")
  /\ GatewayMode = "mock"
  /\ ~ SettlesAtOnce(w)
  /\ timers' = [timers EXCEPT ![task[w].payment] = outcome]
  /\ known' = known \cup {task[w].payment}
  /\ Proceed(w, Idle)
  /\ UNCHANGED <<bookingVars, payment, feedVars>>

\* WaveCheckoutAdapter.initiate always rejects: a 503 after the insert.
InitiateRejected(w) ==
  /\ At(w, "initiate")
  /\ GatewayMode = "wave"
  /\ Proceed(w, Idle)
  /\ UNCHANGED <<bookingVars, payment, gatewayVars, feedVars>>

\* Mutant: no settlement handler was registered (onModuleInit forgotten).
TimerFiresUnheard(w, ref) ==
  /\ Free(w)
  /\ timers[ref] # "none"
  /\ timers' = [timers EXCEPT ![ref] = "none"]
  /\ UNCHANGED <<bookingVars, payment, known, task, feedVars>>

TimerFires(w, ref) ==
  /\ Free(w)
  /\ timers[ref] # "none"
  /\ timers' = [timers EXCEPT ![ref] = "none"]
  /\ ApplySettlement(w, ref, timers[ref])
  /\ UNCHANGED <<bookingVars, known, feedVars>>

\* A call from outside about a payment.  Wave repeats its events and so does
\* any provider; an already settled reference changes nothing.
Reported(w, ref, outcome) ==
  /\ Free(w)
  /\ ApplySettlement(w, ref, outcome)
  /\ UNCHANGED <<bookingVars, gatewayVars, feedVars>>

\* data.payment_status of a checkout.session.completed event
WavePaymentStatuses == {"succeeded", "processing", "cancelled"}

\* An authentic (correctly signed) event of that type.
HandleWaveWebhook(w, ref, paymentStatus) ==
  /\ GatewayMode = "wave"
  /\ ref \in known
  /\ Reported(w, ref, IF paymentStatus = "succeeded" THEN "completed" ELSE "failed")

\* An authentic POST /payments/callback, open in both modes.
HandleCallback(w, ref, outcome) == ref \in known /\ Reported(w, ref, outcome)

\* The mock payment page, in mock mode only; the payer finds the reference in
\* its history as soon as the row is there.
ConfirmMockCheckout(w, ref, success) ==
  /\ GatewayMode = "mock"
  /\ payment[ref] # "absent"
  /\ Reported(w, ref, IF success THEN "completed" ELSE "failed")

----------------------------------------------------------------------------
(* Faults *)

\* A database statement rejects: the handler throws and nothing is written.
\* A notification that rejects is Notify's own business.
DatabaseError(w) ==
  /\ "db_error" \in Faults
  /\ \/ task[w].step \in {"write_status", "create_payment", "settle_read", "settle_confirm"}
     \/ At(w, "initiate") /\ SettlesAtOnce(w)
  /\ Proceed(w, Idle)
  /\ UNCHANGED <<bookingVars, payment, gatewayVars, feedVars>>

\* The same for the settlement of a timer: settle logs the error, the timer is
\* spent and the payment stays pending.
TimerFails(ref) ==
  /\ "db_error" \in Faults
  /\ timers[ref] # "none"
  /\ timers' = [timers EXCEPT ![ref] = "none"]
  /\ UNCHANGED <<bookingVars, payment, known, task, feedVars>>

\* The server stops and comes back: handlers in flight are lost, and so are
\* the mock's timers (onModuleDestroy clears them, a kill forgets them).
Restart ==
  /\ "restart" \in Faults
  /\ task' = [w \in Workers |-> Idle]
  /\ timers' = [ref \in Payments |-> "none"]
  /\ UNCHANGED <<bookingVars, payment, known, feedVars>>

----------------------------------------------------------------------------

\* The next statement of a handler that has begun.
Continue(w) ==
  \/ CompleteMission(w)
  \/ WriteStatus(w)
  \/ TellBooking(w)
  \/ CreatePayment(w)
  \/ CreateCheckout(w)
  \/ \E outcome \in Outcomes : InitiateSettles(w, outcome) \/ InitiateArmsTimer(w, outcome)
  \/ InitiateRejected(w)
  \/ SettleRead(w)
  \/ SettleConfirm(w)
  \/ TellPayer(w)
  \/ TellProvider(w)

\* A request, a webhook or a timer starts a handler.
Start(w) ==
  \/ \E b \in Bookings :
       \/ CreateBooking(w, b)
       \/ \E u \in Users, to \in BookingStatuses : ReadForUpdate(w, u, b, to)
  \/ \E ref \in Payments :
       \/ \E kind \in PaymentKinds : ReadForInit(w, ref, kind)
       \/ ReadForCheckout(w, ref)
       \/ TimerFires(w, ref)
       \/ \E s \in WavePaymentStatuses : HandleWaveWebhook(w, ref, s)
       \/ \E outcome \in Outcomes : HandleCallback(w, ref, outcome)
       \/ \E success \in BOOLEAN : ConfirmMockCheckout(w, ref, success)

Next ==
  \/ \E w \in Workers : Start(w) \/ Continue(w) \/ DatabaseError(w)
  \/ \E ref \in Payments : TimerFails(ref)
  \/ Restart

Spec == Init /\ [][Next]_vars

\* Every await of a handler resolves, and the event loop runs a timer that is
\* due whatever else it has to do (a free worker is the model's need, not the
\* server's: hence SF).  Nobody owes the server a request or a webhook.
Fairness ==
  /\ \A w \in Workers : WF_vars(Continue(w))
  /\ \A ref \in Payments : SF_vars(\E w \in Workers : TimerFires(w, ref))

FairSpec == Spec /\ Fairness

----------------------------------------------------------------------------
(* Safety *)

\* However stale the statuses that handlers act on, no mission is started
\* that was never confirmed and none is completed that was never started.
MissionsInOrder ==
  \A b \in Bookings :
    /\ "in_progress" \in visited[b] => "confirmed" \in visited[b]
    /\ "completed" \in visited[b] => "in_progress" \in visited[b]

\* What makes that inductive.  Every handler that is about to write a status
\* read one that the booking has really held and that TRANSITIONS takes to the
\* new one; a booking holds its history from its insert on.
ActsOnHistory ==
  /\ \A b \in Bookings :
       IF status[b] = "absent" THEN visited[b] = {} ELSE status[b] \in visited[b]
  /\ \A w \in Workers :
       /\ At(w, "write_status") =>
            /\ task[w].from \in visited[task[w].booking]
            /\ TransitionAllowed(task[w].from, task[w].to, task[w].role)
       /\ At(w, "settle_confirm") => "pending" \in visited[BookingOf[task[w].payment]]

\* completed_at tells whether the mission was ever completed, whatever a late
\* writer made of the status afterwards.
CompletionDated ==
  \A b \in Bookings : completedAt[b] <=> "completed" \in visited[b]

\* Every completed mission of a provider is in its counter: the transaction
\* never loses one, whatever races with it.
MissionsOf(p) == {b \in Bookings : ProviderOf[b] = p /\ "completed" \in visited[b]}

MissionsCounted == \A p \in Providers : Cardinality(MissionsOf(p)) <= missionsDone[p]

\* updateMany's where clause elects one settler for each payment: of all the
\* webhooks, timers and pages that report it, one handler goes on.
Settling(w, ref) == task[w].step \in SettleSteps /\ task[w].payment = ref

SingleSettler ==
  \A v, w \in Workers, ref \in Payments :
    Settling(v, ref) /\ Settling(w, ref) => v = w

\* A notification about a payment tells how it really ended, and a handler
\* about to send one never repeats one already sent.
Told(ref, what) == \E n \in inbox : n.about = ref /\ n.what = what

PaymentToldOnce ==
  /\ \A ref \in Payments :
       /\ Told(ref, "paid") \/ Told(ref, "received") => payment[ref] = "completed"
       /\ Told(ref, "payment_failed") => payment[ref] = "failed"
  /\ \A w \in Workers :
       /\ task[w].step \in SettleSteps \ {"tell_provider"} =>
            ~ Told(task[w].payment, "paid") /\ ~ Told(task[w].payment, "payment_failed")
       /\ task[w].step \in SettleSteps => ~ Told(task[w].payment, "received")

\* What makes both inductive: a settler acts on a payment that has the outcome
\* it reports, and only a completed one goes on to the booking and the provider.
SettlersAgree ==
  \A w \in Workers :
    /\ task[w].step \in SettleSteps => payment[task[w].payment] = task[w].outcome
    /\ task[w].step \in {"settle_confirm", "tell_provider"} => task[w].outcome = "completed"

\* Unless a settler dies, a payment that is completed and has no settler left
\* is not for a booking that still waits.
PaidNotLeftPending ==
  Faults \cap {"restart", "db_error"} = {} =>
    \A ref \in Payments :
      payment[ref] = "completed" /\ status[BookingOf[ref]] = "pending" =>
        \E w \in Workers : Settling(w, ref)

----------------------------------------------------------------------------
(* Action properties *)

\* A settled payment never changes again, whatever is reported about it.
SettledIsFinal ==
  [][\A ref \in Payments : payment[ref] \in Outcomes => payment'[ref] = payment[ref]]_vars

\* Starting and completing a mission is the provider's doing alone.
ProviderStartsAndCompletes ==
  [][\A b \in Bookings :
       status'[b] # status[b] /\ status'[b] \in {"in_progress", "completed"} =>
         \E w \in Workers :
           /\ task'[w] # task[w]
           /\ At(w, "write_status")
           /\ task[w].booking = b
           /\ task[w].user = ProviderUserOf(b)]_vars

----------------------------------------------------------------------------
(* Expectations stated by the repository that the code does not meet *)

\* README.md: completing a mission increments missions_done - once for each
\* mission, as the test of the complete cycle has it.
MissionsCountedOnce == \A p \in Providers : missionsDone[p] = Cardinality(MissionsOf(p))

\* payments.service.ts, applySettlement: the deposit takes the booking from
\* pending to confirmed, that is, from no other status.
SettlementConfirmsPending ==
  [][\A w \in Workers :
       At(w, "settle_confirm") /\ status' # status /\ task'[w] # task[w] =>
         status[BookingOf[task[w].payment]] = "pending"]_vars

\* domain-event.enum.ts: booking.updated tells that a booking was created or
\* changed status; once every handler has answered, the last event of a
\* booking carries the status it has.
EventsFollowStatus ==
  (\A w \in Workers : Free(w)) => pushed = status

----------------------------------------------------------------------------
(* Refinement *)

Lifecycle == INSTANCE BookingLifecycle WITH
  Bookings <- Bookings, status <- status, visited <- visited

\* The requests and settlements together implement the abstract history of a
\* booking.
ImplementsLifecycle == Lifecycle!Spec

----------------------------------------------------------------------------
(* Liveness, under FairSpec *)

\* A completed deposit confirms the booking it was paid for.
DepositConfirms ==
  \A ref \in Payments :
    payment[ref] = "completed" /\ status[BookingOf[ref]] = "pending"
      ~> status[BookingOf[ref]] # "pending"

\* A mobile money payment that the mock accepted is settled in the end.
TimersSettle ==
  \A ref \in Payments : timers[ref] # "none" ~> payment[ref] \in Outcomes

=============================================================================
