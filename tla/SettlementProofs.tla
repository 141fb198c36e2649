-------------------------- MODULE SettlementProofs --------------------------
(***************************************************************************)
(* Theorems about the settlement of payments: whoever reports an outcome,  *)
(* as often as they like, one handler settles the payment, once.           *)
(***************************************************************************)
EXTENDS BookingPaymentsProofs

\* The inductive invariant of a settlement.
SettlementInv == SettlersAgree /\ SingleSettler /\ PaymentToldOnce

PaymentWhats == {"paid", "received", "payment_failed"}

\* What Told says after one more notification about a payment.
LEMMA ToldAfter ==
  ASSUME TypeOK, NEW n \in Notices \cup PaymentNotices, Notify(n),
         NEW ref \in Payments, NEW what \in PaymentWhats
  PROVE  /\ Told(ref, what) => Told(ref, what)'
         /\ Told(ref, what)' => Told(ref, what) \/ (n.about = ref /\ n.what = what)
BY DEF Notify, Told

\* A notification about a booking is none about a payment.
LEMMA ToldBooking ==
  ASSUME TypeOK, NEW n \in Notices, Notify(n), NEW ref \in Payments, NEW what \in PaymentWhats
  PROVE  Told(ref, what)' <=> Told(ref, what)
<1>1. n.what # what
  BY DEF Notices, BookingStatuses, PaymentWhats
<1> QED
  BY <1>1, ToldAfter

\* Workers that settle nothing new leave the invariant alone.
LEMMA SettleFrame ==
  ASSUME TypeOK, SettlementInv, UNCHANGED payment,
         \A ref \in Payments, what \in PaymentWhats : Told(ref, what)' <=> Told(ref, what),
         \A v \in Workers : task'[v] = task[v] \/ task'[v].step \notin SettleSteps
  PROVE  SettlementInv'
<1>1. SettlersAgree'
  BY DEF SettlementInv, SettlersAgree, SettleSteps
<1>2. SingleSettler'
  BY DEF SettlementInv, SingleSettler, Settling
<1>3. PaymentToldOnce'
  <2>1. ASSUME NEW v \in Workers, task[v].step \in SettleSteps PROVE task[v].payment \in Payments
    BY <2>1, TaskShape DEF TypeOK, SettleTasks
  <2> QED
    BY <2>1 DEF SettlementInv, PaymentToldOnce, PaymentWhats, At, SettleSteps
<1> QED
  BY <1>1, <1>2, <1>3 DEF SettlementInv

\* One report among many finds the payment pending; the others stop there.
LEMMA SettleElection ==
  ASSUME TypeOK, SettlementInv, NEW w \in Workers, NEW ref \in Payments, NEW outcome \in Outcomes,
         ApplySettlement(w, ref, outcome), UNCHANGED inbox
  PROVE  SettlementInv'
<1>t. \A r, what : Told(r, what)' <=> Told(r, what)
  BY DEF Told
<1>1. CASE ~ Settleable(ref)
  <2>1. Proceed(w, Idle) /\ UNCHANGED payment
    BY <1>1 DEF ApplySettlement, TypeOK
  <2>2. \A v \in Workers : task'[v] = task[v] \/ task'[v].step \notin SettleSteps
    BY <2>1, ProceedTask DEF Idle, SettleSteps
  <2> QED
    BY <2>1, <2>2, <1>t, SettleFrame
<1>2. CASE Settleable(ref)
  <2> DEFINE next == [step |-> "settle_read", payment |-> ref, outcome |-> outcome]
  <2>1. Proceed(w, next) /\ payment' = [payment EXCEPT ![ref] = outcome]
    BY <1>2 DEF ApplySettlement
  <2>2. task'[w] = next /\ \A v \in Workers : v # w => task'[v] = task[v]
    BY <2>1, ProceedTask
  <2>3. payment[ref] = "pending" /\ payment'[ref] = outcome
    BY <1>2, <2>1 DEF Settleable, TypeOK
  <2>4. ASSUME NEW v \in Workers, task[v].step \in SettleSteps
        PROVE  task[v].payment \in Payments /\ task[v].payment # ref
    <3>1. task[v] \in SettleTasks
      BY <2>4, TaskShape DEF TypeOK
    <3> QED
      BY <2>3, <2>4, <3>1 DEF SettlementInv, SettlersAgree, SettleTasks, Outcomes
  <2>5. SettlersAgree'
    BY <2>1, <2>2, <2>3, <2>4 DEF SettlementInv, SettlersAgree, TypeOK, SettleSteps
  <2>6. SingleSettler'
    BY <2>2, <2>4 DEF SettlementInv, SingleSettler, Settling
  <2>7. ~ Told(ref, "paid") /\ ~ Told(ref, "received") /\ ~ Told(ref, "payment_failed")
    BY <2>3 DEF SettlementInv, PaymentToldOnce
  <2>8. PaymentToldOnce'
    BY <2>1, <2>2, <2>3, <2>4, <2>7, <1>t
       DEF SettlementInv, PaymentToldOnce, TypeOK, At, SettleSteps
  <2> QED
    BY <2>5, <2>6, <2>8 DEF SettlementInv
<1> QED
  BY <1>1, <1>2

\* A settler that goes on to the booking or to the payer.
LEMMA SettleAdvance ==
  ASSUME TypeOK, SettlementInv, NEW w \in Workers, NEW s \in {"settle_confirm", "tell_payer"},
         task[w].step \in {"settle_read", "settle_confirm"},
         s = "settle_confirm" => task[w].outcome = "completed",
         Proceed(w, [task[w] EXCEPT !.step = s]), UNCHANGED <<payment, inbox>>
  PROVE  SettlementInv'
<1>1. task[w] \in SettleTasks
  BY TaskShape DEF TypeOK, SettleSteps
<1>2. /\ task'[w].step = s
      /\ task'[w].payment = task[w].payment
      /\ task'[w].outcome = task[w].outcome
      /\ \A v \in Workers : v # w => task'[v] = task[v]
  <2>1. task'[w] = [task[w] EXCEPT !.step = s]
    BY ProceedTask
  <2> QED
    BY <1>1, <2>1, ProceedTask DEF SettleTasks
<1>3. SettlersAgree'
  BY <1>2 DEF SettlementInv, SettlersAgree, SettleSteps
<1>4. SingleSettler'
  BY <1>2 DEF SettlementInv, SingleSettler, Settling, SettleSteps
<1>5. PaymentToldOnce'
  BY <1>2 DEF SettlementInv, PaymentToldOnce, Told, At, SettleSteps
<1> QED
  BY <1>3, <1>4, <1>5 DEF SettlementInv

\* Nobody else is settling the payment that w settles.
LEMMA OtherSettlers ==
  ASSUME TypeOK, SettlementInv, NEW w \in Workers, task[w].step \in SettleSteps,
         NEW v \in Workers, v # w, task[v].step \in SettleSteps
  PROVE  task[v].payment \in Payments /\ task[v].payment # task[w].payment
<1>1. task[v] \in SettleTasks /\ task[w] \in SettleTasks
  BY TaskShape DEF TypeOK
<1> QED
  BY <1>1 DEF SettlementInv, SingleSettler, Settling, SettleTasks

LEMMA SettleTellsPayer ==
  ASSUME TypeOK, SettlementInv, NEW w \in Workers, TellPayer(w)
  PROVE  SettlementInv'
<1> DEFINE ref == task[w].payment
           paid == task[w].outcome = "completed"
           what == IF paid THEN "paid" ELSE "payment_failed"
           n == [to |-> ClientOf[BookingOf[ref]], about |-> ref, what |-> what]
<1>1. task[w] \in SettleTasks
  BY TaskShape DEF TypeOK, SettleSteps, TellPayer, At
<1>2. ref \in Payments /\ n \in PaymentNotices
  BY <1>1, KeysType DEF SettleTasks, PaymentNotices
<1>3. \A r \in Payments, x \in PaymentWhats :
        Told(r, x)' => Told(r, x) \/ (ref = r /\ what = x)
  <2>1. Notify(n)
    BY DEF TellPayer
  <2>2. n.about = ref /\ n.what = what
    OBVIOUS
  <2> QED
    BY <1>2, <2>1, <2>2, ToldAfter
<1>4. /\ \A v \in Workers : v # w => task'[v] = task[v]
      /\ IF paid
         THEN /\ task'[w].step = "tell_provider"
              /\ task'[w].payment = ref
              /\ task'[w].outcome = "completed"
         ELSE task'[w].step = "idle"
  <2>1. Proceed(w, IF paid THEN [task[w] EXCEPT !.step = "tell_provider"] ELSE Idle)
    BY DEF TellPayer
  <2>2. task'[w] = IF paid THEN [task[w] EXCEPT !.step = "tell_provider"] ELSE Idle
    BY <2>1, ProceedTask
  <2> QED
    BY <1>1, <2>1, <2>2, ProceedTask DEF SettleTasks, Idle
<1>5. payment' = payment /\ payment[ref] = task[w].outcome
  BY DEF TellPayer, SettlementInv, SettlersAgree, At, SettleSteps
<1>6. SettlersAgree'
  BY <1>4, <1>5 DEF SettlementInv, SettlersAgree, SettleSteps
<1>7. SingleSettler'
  BY <1>4 DEF SettlementInv, SingleSettler, Settling, SettleSteps, TellPayer, At
<1> HIDE DEF ref, paid, what, n
<1>8. PaymentToldOnce'
  <2>1. task[w].outcome \in Outcomes
    BY <1>1 DEF SettleTasks
  <2>2. ASSUME NEW r \in Payments
        PROVE  /\ Told(r, "paid")' \/ Told(r, "received")' => payment'[r] = "completed"
               /\ Told(r, "payment_failed")' => payment'[r] = "failed"
    BY <1>3, <1>5, <2>1 DEF SettlementInv, PaymentToldOnce, PaymentWhats, what, paid, Outcomes
  <2> DEFINE NotRepeated(v) ==
                /\ task[v].step \in SettleSteps \ {"tell_provider"} =>
                     ~ Told(task[v].payment, "paid") /\ ~ Told(task[v].payment, "payment_failed")
                /\ task[v].step \in SettleSteps => ~ Told(task[v].payment, "received")
  <2>3. ASSUME NEW v \in Workers, v # w PROVE NotRepeated(v)'
    <3>1. task[v].step \in SettleSteps => task[v].payment \in Payments /\ task[v].payment # ref
      BY <2>3, OtherSettlers DEF TellPayer, At, SettleSteps, ref
    <3>2. NotRepeated(v)
      BY DEF SettlementInv, PaymentToldOnce
    <3> QED
      BY <2>3, <3>1, <3>2, <1>3, <1>4 DEF PaymentWhats, SettleSteps
  <2>4. NotRepeated(w)'
    <3>1. ~ Told(ref, "received")
      BY DEF SettlementInv, PaymentToldOnce, TellPayer, At, SettleSteps, ref
    <3> QED
      BY <1>2, <1>3, <1>4, <3>1 DEF PaymentWhats, SettleSteps, what, paid
  <2> QED
    BY <2>2, <2>3, <2>4 DEF PaymentToldOnce
<1> QED
  BY <1>6, <1>7, <1>8 DEF SettlementInv

LEMMA SettleTellsProvider ==
  ASSUME TypeOK, SettlementInv, NEW w \in Workers, TellProvider(w)
  PROVE  SettlementInv'
<1> DEFINE ref == task[w].payment
           n == [to |-> ProviderUserOf(BookingOf[ref]), about |-> ref, what |-> "received"]
<1>1. task[w] \in SettleTasks
  BY TaskShape DEF TypeOK, SettleSteps, TellProvider, At
<1>2. ref \in Payments /\ n \in PaymentNotices
  BY <1>1, KeysType DEF SettleTasks, PaymentNotices
<1>3. \A r \in Payments, x \in PaymentWhats :
        Told(r, x)' => Told(r, x) \/ (ref = r /\ x = "received")
  <2>1. Notify(n) /\ n.about = ref /\ n.what = "received"
    BY DEF TellProvider
  <2> QED
    BY <1>2, <2>1, ToldAfter
<1>4. task'[w].step = "idle" /\ \A v \in Workers : v # w => task'[v] = task[v]
  BY ProceedTask DEF TellProvider, Idle
<1>5. payment' = payment /\ payment[ref] = "completed"
  BY DEF TellProvider, SettlementInv, SettlersAgree, At, SettleSteps
<1>6. SettlersAgree'
  BY <1>4, <1>5 DEF SettlementInv, SettlersAgree, SettleSteps
<1>7. SingleSettler'
  BY <1>4 DEF SettlementInv, SingleSettler, Settling, SettleSteps
<1>8. \A v \in Workers : v # w /\ task[v].step \in SettleSteps =>
         task[v].payment \in Payments /\ task[v].payment # ref
  BY OtherSettlers DEF TellProvider, At, SettleSteps
<1> HIDE DEF ref, n
<1>9. PaymentToldOnce'
  BY <1>3, <1>4, <1>5, <1>8 DEF SettlementInv, PaymentToldOnce, PaymentWhats, SettleSteps, At
<1> QED
  BY <1>6, <1>7, <1>9 DEF SettlementInv

\* The insert makes a payment pending that nobody settles yet.
LEMMA SettleCreates ==
  ASSUME TypeOK, SettlementInv, NEW w \in Workers, CreatePayment(w)
  PROVE  SettlementInv'
<1> DEFINE ref == task[w].payment
<1>1. task[w] \in PaymentTasks
  BY TaskShape DEF TypeOK, CreatePayment, At
<1>2. ref \in Payments /\ payment[ref] = "absent"
  BY <1>1 DEF CreatePayment, PaymentTasks
<1>3. \A v \in Workers : task'[v] = task[v] \/ task'[v].step \notin SettleSteps
  BY <1>1, ProceedTask DEF CreatePayment, PaymentTasks, SettleSteps
<1>4. payment' = [payment EXCEPT ![ref] = "pending"] /\ inbox' = inbox
  BY DEF CreatePayment, feedVars
<1>5. ASSUME NEW v \in Workers, task[v].step \in SettleSteps PROVE task[v].payment # ref
  <2>1. task[v] \in SettleTasks
    BY <1>5, TaskShape DEF TypeOK
  <2> QED
    BY <1>2, <1>5, <2>1 DEF SettlementInv, SettlersAgree, SettleTasks, Outcomes
<1>6. SettlersAgree'
  BY <1>3, <1>4, <1>5 DEF SettlementInv, SettlersAgree, SettleSteps, TypeOK
<1>7. SingleSettler'
  BY <1>3 DEF SettlementInv, SingleSettler, Settling
<1>8. PaymentToldOnce'
  BY <1>2, <1>3, <1>4 DEF SettlementInv, PaymentToldOnce, Told, TypeOK, SettleSteps
<1> QED
  BY <1>6, <1>7, <1>8 DEF SettlementInv

LEMMA SettlementStep ==
  ASSUME TypeOK, SettlementInv, [Next]_vars
  PROVE  SettlementInv'
<1> DEFINE Quiet ==
      /\ UNCHANGED <<payment, inbox>>
      /\ \A v \in Workers : task'[v] = task[v] \/ task'[v].step \notin SettleSteps
<1>q. ASSUME Quiet PROVE SettlementInv'
  <2>1. \A ref \in Payments, what \in PaymentWhats : Told(ref, what)' <=> Told(ref, what)
    BY <1>q DEF Told
  <2> QED
    BY <1>q, <2>1, SettleFrame
<1>p. ASSUME NEW w \in Workers, NEW t, Proceed(w, t), t.step \notin SettleSteps,
             UNCHANGED <<payment, inbox>>
      PROVE  SettlementInv'
  BY <1>p, <1>q, ProceedTask
<1>i. Idle.step \notin SettleSteps
  BY DEF Idle, SettleSteps
<1>1. ASSUME NEW w \in Workers, Start(w) PROVE SettlementInv'
  <2>1. ASSUME NEW b \in Bookings, CreateBooking(w, b) PROVE SettlementInv'
    BY <2>1, <1>p DEF CreateBooking, feedVars, SettleSteps
  <2>2. ASSUME NEW b \in Bookings, NEW u \in Users, NEW to \in BookingStatuses,
               ReadForUpdate(w, u, b, to)
        PROVE  SettlementInv'
    BY <2>2, <1>p DEF ReadForUpdate, feedVars, SettleSteps
  <2>3. ASSUME NEW ref \in Payments, NEW kind \in PaymentKinds,
               ReadForInit(w, ref, kind) \/ ReadForCheckout(w, ref)
        PROVE  SettlementInv'
    BY <2>3, <1>p DEF ReadForInit, ReadForCheckout, feedVars, SettleSteps
  <2>4. ASSUME NEW ref \in Payments, TimerFires(w, ref) PROVE SettlementInv'
    <3>1. timers[ref] \in Outcomes
      BY <2>4 DEF TimerFires, TypeOK
    <3> QED
      BY <2>4, <3>1, SettleElection DEF TimerFires, feedVars
  <2>5. ASSUME NEW ref \in Payments, NEW outcome \in Outcomes, Reported(w, ref, outcome)
        PROVE  SettlementInv'
    BY <2>5, SettleElection DEF Reported, feedVars
  <2>6. ASSUME NEW ref \in Payments,
               \/ \E s \in WavePaymentStatuses : HandleWaveWebhook(w, ref, s)
               \/ \E outcome \in Outcomes : HandleCallback(w, ref, outcome)
               \/ \E success \in BOOLEAN : ConfirmMockCheckout(w, ref, success)
        PROVE  \E outcome \in Outcomes : Reported(w, ref, outcome)
    BY <2>6 DEF HandleWaveWebhook, HandleCallback, ConfirmMockCheckout, Outcomes
  <2> QED
    BY <1>1, <2>1, <2>2, <2>3, <2>4, <2>5, <2>6 DEF Start, PaymentKinds
<1>2. ASSUME NEW w \in Workers, Continue(w) PROVE SettlementInv'
  <2>1. ASSUME CompleteMission(w) \/ WriteStatus(w) PROVE SettlementInv'
    BY <2>1, <1>p DEF CompleteMission, WriteStatus, TellNext, feedVars, SettleSteps
  <2>2. ASSUME TellBooking(w) PROVE SettlementInv'
    <3> DEFINE n == [to |-> task[w].recipient, about |-> task[w].booking, what |-> task[w].to]
    <3>1. n \in Notices
      BY <2>2, TaskShape DEF TellBooking, At, TypeOK, TellTasks, Notices
    <3>2. Notify(n) /\ Proceed(w, Idle) /\ UNCHANGED payment
      BY <2>2 DEF TellBooking
    <3> HIDE DEF n
    <3>3. \A ref \in Payments, what \in PaymentWhats : Told(ref, what)' <=> Told(ref, what)
      BY <3>1, <3>2, ToldBooking
    <3>4. \A v \in Workers : task'[v] = task[v] \/ task'[v].step \notin SettleSteps
      BY <3>2, <1>i, ProceedTask
    <3> QED
      BY <3>2, <3>3, <3>4, SettleFrame
  <2>3. ASSUME CreateCheckout(w) \/ InitiateRejected(w)
               \/ \E outcome \in Outcomes : InitiateArmsTimer(w, outcome)
        PROVE  SettlementInv'
    BY <2>3, <1>p, <1>i DEF CreateCheckout, InitiateRejected, InitiateArmsTimer, feedVars
  <2>4. ASSUME NEW outcome \in Outcomes, InitiateSettles(w, outcome) PROVE SettlementInv'
    <3>1. task[w].payment \in Payments
      BY <2>4, TaskShape DEF InitiateSettles, At, TypeOK, PaymentTasks
    <3> QED
      BY <2>4, <3>1, SettleElection DEF InitiateSettles, feedVars
  <2>5. ASSUME SettleRead(w) PROVE SettlementInv'
    <3> DEFINE s == IF task[w].outcome = "completed" /\ AwaitsConfirmation(BookingOf[task[w].payment])
                    THEN "settle_confirm" ELSE "tell_payer"
    <3>1. /\ s \in {"settle_confirm", "tell_payer"}
          /\ s = "settle_confirm" => task[w].outcome = "completed"
      OBVIOUS
    <3>2. /\ Proceed(w, [task[w] EXCEPT !.step = s])
          /\ UNCHANGED <<payment, inbox>>
          /\ task[w].step \in {"settle_read", "settle_confirm"}
      BY <2>5 DEF SettleRead, At, feedVars
    <3> HIDE DEF s
    <3> QED
      BY <3>1, <3>2, SettleAdvance
  <2>6. ASSUME SettleConfirm(w) PROVE SettlementInv'
    BY <2>6, SettleAdvance DEF SettleConfirm, At, feedVars
  <2> QED
    BY <1>2, <2>1, <2>2, <2>3, <2>4, <2>5, <2>6, SettleCreates, SettleTellsPayer, SettleTellsProvider
       DEF Continue
<1>3. ASSUME NEW w \in Workers, DatabaseError(w) PROVE SettlementInv'
  BY <1>3, <1>p, <1>i DEF DatabaseError, feedVars
<1>4. CASE Restart
  BY <1>4, <1>q, <1>i DEF Restart, feedVars
<1>5. CASE UNCHANGED vars
  BY <1>5, <1>q DEF vars, feedVars
<1>6. ASSUME NEW ref \in Payments, TimerFails(ref) PROVE SettlementInv'
  BY <1>6, <1>q DEF TimerFails, feedVars
<1> QED
  BY <1>1, <1>2, <1>3, <1>4, <1>5, <1>6 DEF Next

LEMMA SettlementInit == Init => SettlementInv
BY DEF Init, SettlementInv, SettlersAgree, SingleSettler, PaymentToldOnce, Settling, Told, At, Idle,
       SettleSteps

\* The three properties of the handlers that settle hold together, under every
\* repetition of the reports (PaymentsService.applySettlement).
THEOREM SettlementCorrect == Spec => []SettlementInv
<1>1. TypeOK /\ SettlementInv /\ [Next]_vars => SettlementInv'
  BY SettlementStep
<1> QED
  BY <1>1, SettlementInit, TypeCorrect, PTL DEF Spec

\* Of all the handlers that report a payment, one at most settles it.
THEOREM OneSettler == Spec => []SingleSettler
<1>1. SettlementInv => SingleSettler
  BY DEF SettlementInv
<1> QED
  BY <1>1, SettlementCorrect, PTL

\* A payer and a provider are told of a payment what became of it, and once.
THEOREM ToldOnce == Spec => []PaymentToldOnce
<1>1. SettlementInv => PaymentToldOnce
  BY DEF SettlementInv
<1> QED
  BY <1>1, SettlementCorrect, PTL

\* A settled payment never changes again, whatever is reported about it.
THEOREM SettledForEver == Spec => SettledIsFinal
<1> DEFINE Final == \A ref \in Payments : payment[ref] \in Outcomes => payment'[ref] = payment[ref]
<1>1. ASSUME TypeOK, [Next]_vars PROVE Final
  <2>1. ASSUME NEW w \in Workers, NEW r \in Payments, NEW outcome, ApplySettlement(w, r, outcome)
        PROVE  Final
    BY <1>1, <2>1 DEF ApplySettlement, Settleable, TypeOK, Outcomes
  <2>2. ASSUME NEW w \in Workers, Start(w) PROVE Final
    BY <2>1, <2>2 DEF Start, CreateBooking, ReadForUpdate, ReadForInit, ReadForCheckout, TimerFires,
                      HandleWaveWebhook, HandleCallback, ConfirmMockCheckout, Reported
  <2>3. ASSUME NEW w \in Workers, CreatePayment(w) PROVE Final
    BY <1>1, <2>3 DEF CreatePayment, TypeOK, Outcomes
  <2>4. ASSUME NEW w \in Workers, NEW outcome \in Outcomes, InitiateSettles(w, outcome)
        PROVE  Final
    <3>1. task[w].payment \in Payments
      BY <1>1, <2>4, TaskShape DEF InitiateSettles, At, TypeOK, PaymentTasks
    <3> QED
      BY <2>1, <2>4, <3>1 DEF InitiateSettles
  <2>5. ASSUME NEW w \in Workers, Continue(w), ~ CreatePayment(w),
               ~ \E outcome \in Outcomes : InitiateSettles(w, outcome)
        PROVE  Final
    BY <2>5 DEF Continue, CompleteMission, WriteStatus, TellBooking, CreateCheckout,
                InitiateArmsTimer, InitiateRejected, SettleRead, SettleConfirm, TellPayer,
                TellProvider
  <2>6. ASSUME (\E w \in Workers : DatabaseError(w)) \/ (\E r \in Payments : TimerFails(r)) \/ Restart
        PROVE  Final
    BY <2>6 DEF DatabaseError, TimerFails, Restart
  <2>7. CASE UNCHANGED vars
    BY <2>7 DEF vars
  <2> QED
    BY <1>1, <2>2, <2>3, <2>4, <2>5, <2>6, <2>7 DEF Next
<1> QED
  BY <1>1, TypeCorrect, PTL DEF Spec, SettledIsFinal

\* Whoever settles reports the outcome that the payment has, and only a paid
\* one reaches the booking or its provider.
THEOREM SettlersAgreeCorrect == Spec => []SettlersAgree
<1>1. SettlementInv => SettlersAgree
  BY DEF SettlementInv
<1> QED
  BY <1>1, SettlementCorrect, PTL

----------------------------------------------------------------------------
(* A paid booking does not stay pending *)

\* A handler's step is its own: the others keep what they have read.
LEMMA OthersWait ==
  ASSUME TypeOK, NEW w \in Workers, Start(w) \/ Continue(w) \/ DatabaseError(w),
         NEW v \in Workers, v # w
  PROVE  task'[v] = task[v]
<1>p. ASSUME NEW t, Proceed(w, t) PROVE task'[v] = task[v]
  BY <1>p, ProceedTask
<1>1. CASE Start(w)
  BY <1>1, <1>p DEF Start, CreateBooking, ReadForUpdate, ReadForInit, ReadForCheckout, TimerFires,
                    HandleWaveWebhook, HandleCallback, ConfirmMockCheckout, Reported, ApplySettlement
<1>2. ASSUME CompleteMission(w) \/ WriteStatus(w) \/ TellBooking(w) \/ CreatePayment(w)
      PROVE  task'[v] = task[v]
  BY <1>2, <1>p DEF CompleteMission, WriteStatus, TellNext, TellBooking, CreatePayment
<1>3. ASSUME \/ CreateCheckout(w) \/ InitiateRejected(w) \/ DatabaseError(w)
             \/ \E outcome \in Outcomes : InitiateSettles(w, outcome) \/ InitiateArmsTimer(w, outcome)
      PROVE  task'[v] = task[v]
  BY <1>3, <1>p DEF CreateCheckout, InitiateRejected, DatabaseError, InitiateSettles,
                    InitiateArmsTimer, ApplySettlement
<1>4. ASSUME SettleRead(w) \/ SettleConfirm(w) \/ TellPayer(w) \/ TellProvider(w)
      PROVE  task'[v] = task[v]
  BY <1>4, <1>p DEF SettleRead, SettleConfirm, TellPayer, TellProvider
<1> QED
  BY <1>1, <1>2, <1>3, <1>4 DEF Continue

\* No transition leads back to pending, and no row goes away.
LEMMA PendingOnce ==
  ASSUME TypeOK, ActsOnHistory, [Next]_vars, NEW b \in Bookings
  PROVE  /\ status'[b] = "pending" => status[b] \in {"pending", "absent"}
         /\ status'[b] = "absent" => status[b] = "absent"
<1>1. [Lifecycle!Next]_(Lifecycle!lifecycle)
  BY LifecycleStep
<1>2. ASSUME NEW c \in Bookings, NEW from, NEW to \in BookingStatuses, Lifecycle!Advance(c, from, to)
      PROVE  to # "pending" /\ status' = [status EXCEPT ![c] = to]
  BY <1>2 DEF Lifecycle!Advance, Lifecycle!Successor, Lifecycle!Transitions
<1>3. ASSUME NEW c \in Bookings, Lifecycle!Open(c)
      PROVE  status[c] = "absent" /\ status' = [status EXCEPT ![c] = "pending"]
  BY <1>3 DEF Lifecycle!Open
<1>4. BookingStatuses = Lifecycle!BookingStatuses /\ "absent" \notin BookingStatuses
  BY DEF BookingStatuses, Lifecycle!BookingStatuses
<1> QED
  BY <1>1, <1>2, <1>3, <1>4 DEF Lifecycle!Next, Lifecycle!lifecycle, TypeOK

\* A payment row is inserted by its opener, and settled by a handler that goes
\* on to read the booking.
LEMMA PaymentWriters ==
  ASSUME TypeOK, [Next]_vars, NEW ref \in Payments
  PROVE  \/ payment'[ref] = payment[ref]
         \/ \E w \in Workers : CreatePayment(w) /\ task[w].payment = ref /\ payment'[ref] = "pending"
         \/ \E w \in Workers :
              /\ payment[ref] = "pending"
              /\ task'[w].step = "settle_read"
              /\ task'[w].payment = ref
<1> DEFINE Elected == \E w \in Workers :
                        /\ payment[ref] = "pending"
                        /\ task'[w].step = "settle_read"
                        /\ task'[w].payment = ref
<1>1. ASSUME NEW w \in Workers, NEW r \in Payments, NEW outcome, ApplySettlement(w, r, outcome)
      PROVE  payment'[ref] = payment[ref] \/ Elected
  <2>1. CASE r = ref /\ Settleable(r)
    <3>1. Proceed(w, [step |-> "settle_read", payment |-> ref, outcome |-> outcome])
      BY <1>1, <2>1 DEF ApplySettlement
    <3>2. task'[w] = [step |-> "settle_read", payment |-> ref, outcome |-> outcome]
      BY <3>1, ProceedTask
    <3> QED
      BY <2>1, <3>2 DEF Settleable
  <2>2. CASE ~ (r = ref /\ Settleable(r))
    BY <1>1, <2>2 DEF ApplySettlement, TypeOK
  <2> QED
    BY <2>1, <2>2
<1>2. ASSUME NEW w \in Workers, Start(w) PROVE payment'[ref] = payment[ref] \/ Elected
  BY <1>1, <1>2 DEF Start, CreateBooking, ReadForUpdate, ReadForInit, ReadForCheckout, TimerFires,
                    HandleWaveWebhook, HandleCallback, ConfirmMockCheckout, Reported
<1>3. ASSUME NEW w \in Workers, CreatePayment(w)
      PROVE  payment'[ref] = payment[ref] \/ (task[w].payment = ref /\ payment'[ref] = "pending")
  BY <1>3 DEF CreatePayment, TypeOK
<1>4. ASSUME NEW w \in Workers, NEW outcome \in Outcomes, InitiateSettles(w, outcome)
      PROVE  payment'[ref] = payment[ref] \/ Elected
  <2>1. task[w].payment \in Payments
    BY <1>4, TaskShape DEF InitiateSettles, At, TypeOK, PaymentTasks
  <2> QED
    BY <1>1, <1>4, <2>1 DEF InitiateSettles
<1>5. ASSUME NEW w \in Workers, Continue(w), ~ CreatePayment(w),
             ~ \E outcome \in Outcomes : InitiateSettles(w, outcome)
      PROVE  payment'[ref] = payment[ref]
  BY <1>5 DEF Continue, CompleteMission, WriteStatus, TellBooking, CreateCheckout,
              InitiateArmsTimer, InitiateRejected, SettleRead, SettleConfirm, TellPayer, TellProvider
<1>6. ASSUME (\E w \in Workers : DatabaseError(w)) \/ (\E r \in Payments : TimerFails(r)) \/ Restart
      PROVE  payment'[ref] = payment[ref]
  BY <1>6 DEF DatabaseError, TimerFails, Restart
<1>7. CASE UNCHANGED vars
  BY <1>7 DEF vars
<1> QED
  BY <1>2, <1>3, <1>4, <1>5, <1>6, <1>7 DEF Next

\* A handler about to insert a payment has seen the row of its booking.
LEMMA NewOpeners ==
  ASSUME TypeOK, [Next]_vars, NEW v \in Workers, task'[v].step = "create_payment"
  PROVE  task'[v] = task[v] \/ status[BookingOf[task'[v].payment]] # "absent"
<1> DEFINE Seen == task'[v] = task[v] \/ status[BookingOf[task'[v].payment]] # "absent"
<1>p. ASSUME NEW w \in Workers, NEW t, Proceed(w, t), t.step # "create_payment" PROVE Seen
  BY <1>p, ProceedTask
<1>i. Idle.step # "create_payment"
  BY DEF Idle
<1>a. ASSUME NEW w \in Workers, NEW ref, NEW outcome, ApplySettlement(w, ref, outcome) PROVE Seen
  <2> DEFINE next == IF Settleable(ref)
                     THEN [step |-> "settle_read", payment |-> ref, outcome |-> outcome]
                     ELSE Idle
  <2>1. Proceed(w, next) /\ next.step # "create_payment"
    BY <1>a, <1>i DEF ApplySettlement
  <2> HIDE DEF next
  <2> QED
    BY <2>1, <1>p
<1>1. ASSUME NEW w \in Workers, NEW ref \in Payments,
             (\E kind \in PaymentKinds : ReadForInit(w, ref, kind)) \/ ReadForCheckout(w, ref)
      PROVE  Seen
  <2>1. status[BookingOf[ref]] # "absent"
    BY <1>1 DEF ReadForInit, ReadForCheckout, Payable
  <2>2. ASSUME NEW kind, Proceed(w, [step |-> "create_payment", payment |-> ref, kind |-> kind])
        PROVE  Seen
    BY <2>1, <2>2, ProceedTask
  <2> QED
    BY <1>1, <2>2 DEF ReadForInit, ReadForCheckout
<1>2. ASSUME NEW w \in Workers, Start(w) PROVE Seen
  <2>1. ASSUME NEW b \in Bookings,
               \/ CreateBooking(w, b)
               \/ \E u \in Users, to \in BookingStatuses : ReadForUpdate(w, u, b, to)
        PROVE  Seen
    BY <2>1, <1>p DEF CreateBooking, ReadForUpdate
  <2>2. ASSUME NEW ref \in Payments,
               \/ TimerFires(w, ref)
               \/ \E s \in WavePaymentStatuses : HandleWaveWebhook(w, ref, s)
               \/ \E outcome \in Outcomes : HandleCallback(w, ref, outcome)
               \/ \E success \in BOOLEAN : ConfirmMockCheckout(w, ref, success)
        PROVE  Seen
    BY <2>2, <1>a DEF TimerFires, HandleWaveWebhook, HandleCallback, ConfirmMockCheckout, Reported
  <2> QED
    BY <1>1, <1>2, <2>1, <2>2 DEF Start
<1>3. ASSUME NEW w \in Workers, CompleteMission(w) \/ WriteStatus(w) PROVE Seen
  BY <1>3, <1>p DEF CompleteMission, WriteStatus, TellNext
<1>4. ASSUME NEW w \in Workers, CreatePayment(w) PROVE Seen
  <2>1. task[w] \in PaymentTasks
    BY <1>4, TaskShape DEF CreatePayment, At, TypeOK
  <2> QED
    BY <1>4, <1>p, <2>1 DEF CreatePayment, PaymentTasks
<1>5. ASSUME NEW w \in Workers, NEW outcome \in Outcomes, InitiateSettles(w, outcome) PROVE Seen
  BY <1>5, <1>a DEF InitiateSettles
<1>6. ASSUME NEW w \in Workers,
             \/ TellBooking(w) \/ CreateCheckout(w) \/ InitiateRejected(w) \/ TellProvider(w)
             \/ \E outcome \in Outcomes : InitiateArmsTimer(w, outcome)
             \/ DatabaseError(w)
      PROVE  Seen
  BY <1>6, <1>i, <1>p DEF TellBooking, CreateCheckout, InitiateRejected, InitiateArmsTimer,
                          TellProvider, DatabaseError
<1>7. ASSUME NEW w \in Workers, SettleRead(w) \/ SettleConfirm(w) \/ TellPayer(w) PROVE Seen
  <2>1. task[w] \in SettleTasks
    BY <1>7, TaskShape DEF SettleRead, SettleConfirm, TellPayer, At, SettleSteps, TypeOK
  <2>2. \A s : [task[w] EXCEPT !.step = s].step = s
    BY <2>1 DEF SettleTasks
  <2>3. CASE SettleRead(w)
    BY <2>2, <2>3, <1>p DEF SettleRead
  <2>4. CASE SettleConfirm(w)
    BY <2>2, <2>4, <1>p DEF SettleConfirm
  <2>5. CASE TellPayer(w)
    BY <2>2, <2>5, <1>p, <1>i DEF TellPayer
  <2> QED
    BY <1>7, <2>3, <2>4, <2>5
<1>8. ASSUME Restart \/ (\E ref \in Payments : TimerFails(ref)) \/ UNCHANGED vars PROVE Seen
  BY <1>8, <1>i DEF Restart, TimerFails, vars
<1> QED
  BY <1>2, <1>3, <1>4, <1>5, <1>6, <1>7, <1>8 DEF Next, Continue

\* Unless a fault stops it, a settler that still has the booking to look at
\* stays or takes one of its two steps.
LEMMA SettlerGoesOn ==
  ASSUME TypeOK, [Next]_vars, Faults \cap {"restart", "db_error"} = {},
         NEW w \in Workers, task[w].step \in {"settle_read", "settle_confirm"}
  PROVE  task'[w] = task[w] \/ SettleRead(w) \/ SettleConfirm(w)
<1>1. ASSUME NEW v \in Workers, Start(v) \/ Continue(v) \/ DatabaseError(v)
      PROVE  task'[w] = task[w] \/ SettleRead(w) \/ SettleConfirm(w)
  <2>1. ~ Start(w)
    <3>1. ~ Free(w)
      BY DEF Free, Idle
    <3> QED
      BY <3>1 DEF Start, CreateBooking, ReadForUpdate, ReadForInit, ReadForCheckout, TimerFires,
                  HandleWaveWebhook, HandleCallback, ConfirmMockCheckout, Reported
  <2>2. Continue(w) => SettleRead(w) \/ SettleConfirm(w)
    BY DEF Continue, CompleteMission, WriteStatus, TellBooking, CreatePayment, CreateCheckout,
           InitiateSettles, InitiateArmsTimer, InitiateRejected, TellPayer, TellProvider, At
  <2>3. ~ DatabaseError(w)
    BY DEF DatabaseError
  <2> QED
    BY <1>1, <2>1, <2>2, <2>3, OthersWait
<1>2. ASSUME (\E ref \in Payments : TimerFails(ref)) \/ Restart \/ UNCHANGED vars
      PROVE  task'[w] = task[w]
  BY <1>2 DEF TimerFails, Restart, vars
<1> QED
  BY <1>1, <1>2 DEF Next

\* What makes PaidNotLeftPending inductive: a payment, from before its row is
\* there, is for a booking that exists; and the settler that a paid, pending
\* booking still has has not gone past the confirmation.
OpenedForBooking ==
  /\ \A ref \in Payments : payment[ref] # "absent" => status[BookingOf[ref]] # "absent"
  /\ \A w \in Workers : At(w, "create_payment") => status[BookingOf[task[w].payment]] # "absent"

Confirming(w, ref) == task[w].step \in {"settle_read", "settle_confirm"} /\ task[w].payment = ref

PaidHasConfirmer ==
  Faults \cap {"restart", "db_error"} = {} =>
    \A ref \in Payments :
      payment[ref] = "completed" /\ status[BookingOf[ref]] = "pending" =>
        \E w \in Workers : Confirming(w, ref)

LEMMA OpenedForBookingStep ==
  ASSUME TypeOK, TypeOK', ActsOnHistory, OpenedForBooking, [Next]_vars
  PROVE  OpenedForBooking'
<1>1. ASSUME NEW ref \in Payments, payment'[ref] # "absent"
      PROVE  status'[BookingOf[ref]] # "absent"
  <2>1. BookingOf[ref] \in Bookings
    BY KeysType
  <2>2. ASSUME NEW w \in Workers, CreatePayment(w), task[w].payment = ref
        PROVE  status[BookingOf[ref]] # "absent"
    BY <2>2 DEF OpenedForBooking, CreatePayment
  <2>3. payment[ref] # "absent" => status[BookingOf[ref]] # "absent"
    BY DEF OpenedForBooking
  <2>4. status[BookingOf[ref]] # "absent"
    BY <1>1, <2>2, <2>3, PaymentWriters
  <2> QED
    BY <2>1, <2>4, PendingOnce
<1>2. ASSUME NEW w \in Workers, task'[w].step = "create_payment"
      PROVE  status'[BookingOf[task'[w].payment]] # "absent"
  <2>1. BookingOf[task'[w].payment] \in Bookings
    BY <1>2, TaskShape, KeysType DEF TypeOK, PaymentTasks
  <2>2. status[BookingOf[task'[w].payment]] # "absent"
    BY <1>2, NewOpeners DEF OpenedForBooking, At
  <2> QED
    BY <2>1, <2>2, PendingOnce
<1> QED
  BY <1>1, <1>2 DEF OpenedForBooking, At

LEMMA PaidHasConfirmerStep ==
  ASSUME TypeOK, ActsOnHistory, SettlersAgree, OpenedForBooking, PaidHasConfirmer, [Next]_vars
  PROVE  PaidHasConfirmer'
<1> SUFFICES ASSUME Faults \cap {"restart", "db_error"} = {}, NEW ref \in Payments,
                    payment'[ref] = "completed", status'[BookingOf[ref]] = "pending"
             PROVE  \E w \in Workers : Confirming(w, ref)'
  BY DEF PaidHasConfirmer
<1>b. BookingOf[ref] \in Bookings
  BY KeysType
<1>1. CASE payment[ref] = "completed"
  <2>1. status[BookingOf[ref]] = "pending"
    BY <1>1, <1>b, PendingOnce DEF OpenedForBooking
  <2>2. PICK w \in Workers : Confirming(w, ref)
    BY <1>1, <2>1 DEF PaidHasConfirmer
  <2>3. task[w] \in SettleTasks /\ task[w].outcome = "completed" /\ task[w].payment = ref
    BY <1>1, <2>2, TaskShape DEF Confirming, SettlersAgree, TypeOK, SettleSteps
  <2>4. CASE task'[w] = task[w]
    BY <2>2, <2>4 DEF Confirming
  <2>5. CASE SettleRead(w)
    <3>1. Proceed(w, [task[w] EXCEPT !.step = "settle_confirm"])
      BY <2>1, <2>3, <2>5 DEF SettleRead, AwaitsConfirmation
    <3>2. task'[w] = [task[w] EXCEPT !.step = "settle_confirm"]
      BY <3>1, ProceedTask
    <3>3. task'[w].step = "settle_confirm" /\ task'[w].payment = ref
      BY <2>3, <3>2 DEF SettleTasks
    <3> QED
      BY <3>3 DEF Confirming
  <2>6. CASE SettleConfirm(w)
    <3>1. SetStatus(BookingOf[ref], "confirmed")
      BY <2>3, <2>6 DEF SettleConfirm
    <3>2. status'[BookingOf[ref]] = "confirmed"
      BY <1>b, <3>1 DEF SetStatus, TypeOK
    <3> QED
      BY <3>2
  <2> QED
    BY <2>2, <2>4, <2>5, <2>6, SettlerGoesOn DEF Confirming
<1>2. CASE payment[ref] # "completed"
  <2>1. PICK w \in Workers : task'[w].step = "settle_read" /\ task'[w].payment = ref
    BY <1>2, PaymentWriters
  <2> QED
    BY <2>1 DEF Confirming
<1> QED
  BY <1>1, <1>2

\* A payment, stored or about to be, is for a booking that exists
\* (PaymentsService.init and checkout).
THEOREM OpenedForBookingCorrect == Spec => []OpenedForBooking
<1>1. Init => OpenedForBooking
  BY DEF Init, OpenedForBooking, At, Idle
<1>2. TypeOK /\ TypeOK' /\ ActsOnHistory /\ OpenedForBooking /\ [Next]_vars => OpenedForBooking'
  BY OpenedForBookingStep
<1> QED
  BY <1>1, <1>2, TypeCorrect, HistoryCorrect, PTL DEF Spec

\* As long as no handler dies, a booking whose payment is completed is not left
\* pending: somebody is there to confirm it.
THEOREM PaidNotLeftPendingCorrect == Spec => []PaidNotLeftPending
<1>1. Init => PaidHasConfirmer
  BY DEF Init, PaidHasConfirmer
<1>2. TypeOK /\ ActsOnHistory /\ SettlersAgree /\ OpenedForBooking /\ PaidHasConfirmer
        /\ [Next]_vars => PaidHasConfirmer'
  BY PaidHasConfirmerStep
<1>3. PaidHasConfirmer => PaidNotLeftPending
  BY DEF PaidHasConfirmer, PaidNotLeftPending, Confirming, Settling, SettleSteps
<1> QED
  BY <1>1, <1>2, <1>3, TypeCorrect, HistoryCorrect, SettlersAgreeCorrect, OpenedForBookingCorrect,
     PTL DEF Spec

=============================================================================
