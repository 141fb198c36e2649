------------------------------ MODULE Sessions ------------------------------
(***************************************************************************)
(* AuthService, OtpService and TokenService: the life of one phone number, *)
(* from its one-time codes to its account and the refresh tokens of that   *)
(* account.  Every where clause of these services names the phone, the     *)
(* user or one row of theirs, so numbers do not meet.                      *)
(*                                                                         *)
(* A worker is a handler in flight, one action is one database statement   *)
(* or transaction, and task[w] holds what the handler has read so far.     *)
(* The codes of the number are 1, 2, 3... in the order of their creation   *)
(* dates.                                                                  *)
(***************************************************************************)
EXTENDS Integers, FiniteSets

CONSTANTS
  Workers,
  Tokens,            \* ids of refresh_tokens rows
  MaxCodes,          \* bound of the model: how many codes are ever asked for
  MaxAttempts,       \* env OTP_MAX_ATTEMPTS
  HourlyLimit,       \* OTP_HOURLY_LIMIT, 3 in the code
  ThrottleDisabled,  \* env OTP_THROTTLE_DISABLED
  AcceptDevCode      \* env OTP_ACCEPT_DEV_CODE

ASSUME BoundsAssumption ==
  /\ IsFiniteSet(Workers)
  /\ MaxCodes \in Nat
  /\ MaxAttempts \in Nat \ {0}
  /\ HourlyLimit \in Nat \ {0}

ASSUME FlagsAssumption ==
  /\ ThrottleDisabled \in BOOLEAN
  /\ AcceptDevCode \in BOOLEAN

Codes == 1..MaxCodes

----------------------------------------------------------------------------
(* Types *)

Idle == [step |-> "idle"]

\* send: the count is read; then the transaction has consumed the codes it saw
\* and holds the number of the one it creates.
SendTasks == [step: {"send_begin"}]
             \cup [step: {"send_commit"}, seen: SUBSET Codes, code: Codes]
\* verify on the code it read, then verifyOtp.
VerifyTasks == [step: {"consume_code", "count_attempt"}, code: Codes]
               \cup [step: {"find_user"}]
RegisterTasks == [step: {"create_user"}]
\* rotate on the row it read.
RotateTasks == [step: {"revoke_all", "revoke_old"}, token: Tokens]
\* issuePair, with what the new token comes from.
Origins == {"login", "register", "rotation"}
IssueTasks == [step: {"issue"}, origin: Origins, lineage: SUBSET Tokens]

Tasks == {Idle} \cup SendTasks \cup VerifyTasks \cup RegisterTasks \cup RotateTasks \cup IssueTasks

VARIABLES
  code,          \* code[c]: "active" until otp_codes.consumed_at is set
  attempts,      \* otp_codes.attempts
  next,          \* the number of the next code
  fresh,         \* codes whose expires_at is still to come
  recent,        \* codes created within the last hour
  account,       \* there is a users row with this phone
  registration,  \* somebody holds a valid registration_token of this phone
  token,         \* token[t]: "live" until refresh_tokens.revoked_at is set
  expired,       \* tokens whose expires_at has passed
  task,          \* what each worker has left to do
  proven,        \* history: some verification of the number succeeded
  origin,        \* history: how each token came to be issued
  lineage,       \* history: the tokens that were rotated to reach this one
  swept          \* history: the tokens there were when all were last revoked

codeVars == <<code, attempts, next, fresh, recent>>
accountVars == <<account, registration, proven>>
tokenVars == <<token, expired, origin, lineage, swept>>
vars == <<codeVars, accountVars, tokenVars, task>>

TypeOK ==
  /\ code \in [Codes -> {"absent", "active", "consumed"}]
  /\ attempts \in [Codes -> Nat]
  /\ next \in 1..(MaxCodes + 1)
  /\ fresh \subseteq Codes /\ recent \subseteq Codes
  /\ account \in BOOLEAN /\ registration \in BOOLEAN /\ proven \in BOOLEAN
  /\ token \in [Tokens -> {"absent", "live", "revoked"}]
  /\ expired \subseteq Tokens
  /\ origin \in [Tokens -> Origins \cup {"none"}]
  /\ lineage \in [Tokens -> SUBSET Tokens]
  /\ swept \subseteq Tokens
  /\ task \in [Workers -> Tasks]

Init ==
  /\ code = [c \in Codes |-> "absent"]
  /\ attempts = [c \in Codes |-> 0]
  /\ next = 1
  /\ fresh = {} /\ recent = {}
  /\ account = FALSE /\ registration = FALSE /\ proven = FALSE
  /\ token = [t \in Tokens |-> "absent"]
  /\ expired = {}
  /\ origin = [t \in Tokens |-> "none"]
  /\ lineage = [t \in Tokens |-> {}]
  /\ swept = {}
  /\ task = [w \in Workers |-> Idle]

----------------------------------------------------------------------------
(* Helpers *)

Free(w) == task[w] = Idle
At(w, step) == task[w].step = step
Doing(step) == {w \in Workers : At(w, step)}
Proceed(w, todo) == task' = [task EXCEPT ![w] = todo]

Active == {c \in Codes : code[c] = "active"}
Issued == {t \in Tokens : token[t] # "absent"}

\* updateMany({ where: { userId, revokedAt: null } }), on all or on one row
Revoke(ts) == token' = [t \in Tokens |-> IF t \in ts /\ token[t] = "live" THEN "revoked" ELSE token[t]]

Issue(w, from, old) == Proceed(w, [step |-> "issue", origin |-> from, lineage |-> old])

----------------------------------------------------------------------------
(* OtpService.send *)

\* Mutant: consumed codes are not counted.
UnthrottledByActive == ThrottleDisabled \/ Cardinality(recent \cap Active) < HourlyLimit

Unthrottled == ThrottleDisabled \/ Cardinality(recent) < HourlyLimit

\* The bound of the model.
CodeLeft == next <= MaxCodes

SendCount(w) ==
  /\ Free(w)
  /\ Unthrottled
  /\ CodeLeft
  /\ Proceed(w, [step |-> "send_begin"])
  /\ UNCHANGED <<codeVars, accountVars, tokenVars>>

\* Mutant: the previous codes stay active.
SupersededForgotten == {}

\* The first statement of the transaction sees the codes that are committed.
\* It locks those rows, and what it writes is visible with the commit only.
Superseded == Active

SendBegin(w) ==
  /\ At(w, "send_begin")
  /\ CodeLeft
  /\ next' = next + 1
  /\ Proceed(w, [step |-> "send_commit", seen |-> Superseded, code |-> next])
  /\ UNCHANGED <<code, attempts, fresh, recent, accountVars, tokenVars>>

\* The message that follows is best effort: an adapter that fails logs it and
\* returns, and the answer is the same.
SendCommit(w) ==
  /\ At(w, "send_commit")
  /\ LET c == task[w].code IN
       /\ code' = [d \in Codes |-> IF d = c THEN "active"
                                   ELSE IF d \in task[w].seen THEN "consumed" ELSE code[d]]
       /\ fresh' = fresh \cup {c}
       /\ recent' = recent \cup {c}
  /\ Proceed(w, Idle)
  /\ UNCHANGED <<attempts, next, accountVars, tokenVars>>

----------------------------------------------------------------------------
(* OtpService.verify and AuthService.verifyOtp *)

\* findFirst, orderBy createdAt desc
Newest(c) == c \in Active /\ \A d \in Active : d <= c

\* Mutant: one attempt too many.
ExhaustedLate(c) == attempts[c] > MaxAttempts

Exhausted(c) == attempts[c] >= MaxAttempts

\* The code that is presented is right or wrong.
VerifyRead(w, c, right) ==
  /\ Free(w)
  /\ Newest(c)
  /\ c \in fresh
  /\ ~ Exhausted(c)
  /\ Proceed(w, [step |-> IF right THEN "consume_code" ELSE "count_attempt", code |-> c])
  /\ UNCHANGED <<codeVars, accountVars, tokenVars>>

\* data: { attempts: { increment: 1 } }
AddAttempt(c) == attempts' = [attempts EXCEPT ![c] = @ + 1]

CountAttempt(w) ==
  /\ At(w, "count_attempt")
  /\ AddAttempt(task[w].code)
  /\ Proceed(w, Idle)
  /\ UNCHANGED <<code, next, fresh, recent, accountVars, tokenVars>>

ConsumeCode(w) ==
  /\ At(w, "consume_code")
  /\ code' = [code EXCEPT ![task[w].code] = "consumed"]
  /\ proven' = TRUE
  /\ Proceed(w, [step |-> "find_user"])
  /\ UNCHANGED <<attempts, next, fresh, recent, account, registration, tokenVars>>

\* The code of the development build consumes all others.
VerifyDevCode(w) ==
  /\ Free(w)
  /\ AcceptDevCode
  /\ code' = [c \in Codes |-> IF c \in Active THEN "consumed" ELSE code[c]]
  /\ proven' = TRUE
  /\ Proceed(w, [step |-> "find_user"])
  /\ UNCHANGED <<attempts, next, fresh, recent, account, registration, tokenVars>>

FindUser(w) ==
  /\ At(w, "find_user")
  /\ IF account
     THEN Issue(w, "login", {}) /\ registration' = registration
     ELSE Proceed(w, Idle) /\ registration' = TRUE
  /\ UNCHANGED <<codeVars, account, proven, tokenVars>>

----------------------------------------------------------------------------
(* AuthService.register *)

\* Mutant: the guard of the route forgotten.
RegistrableUnguarded == TRUE

\* RegistrationTokenGuard: the token is valid and names the phone of the body.
Registrable == registration

RegisterRead(w) ==
  /\ Free(w)
  /\ Registrable
  /\ ~ account
  /\ Proceed(w, [step |-> "create_user"])
  /\ UNCHANGED <<codeVars, accountVars, tokenVars>>

\* Mutant: the phone is not a unique key.
PhoneFreeUnchecked == TRUE

\* users.phone is unique: otherwise the insert rejects, a 409.
PhoneFree == ~ account

CreateUser(w) ==
  /\ At(w, "create_user")
  /\ account' = TRUE
  /\ IF PhoneFree THEN Issue(w, "register", {}) ELSE Proceed(w, Idle)
  /\ UNCHANGED <<codeVars, registration, proven, tokenVars>>

----------------------------------------------------------------------------
(* TokenService *)

\* issuePair: the insert, then the answer.
IssueToken(w, t) ==
  /\ At(w, "issue")
  /\ token[t] = "absent"
  /\ token' = [token EXCEPT ![t] = "live"]
  /\ origin' = [origin EXCEPT ![t] = task[w].origin]
  /\ lineage' = [lineage EXCEPT ![t] = task[w].lineage]
  /\ Proceed(w, Idle)
  /\ UNCHANGED <<codeVars, accountVars, expired, swept>>

\* rotate, up to its first write.  A client that lost the answer of a rotation
\* presents its old token again.
RotateRead(w, t) ==
  /\ Free(w)
  /\ token[t] # "absent"
  /\ token[t] = "live" => t \notin expired
  /\ Proceed(w, [step |-> IF token[t] = "revoked" THEN "revoke_all" ELSE "revoke_old", token |-> t])
  /\ UNCHANGED <<codeVars, accountVars, tokenVars>>

\* Mutant: the replayed session alone.
ReplayedOnly(t) == {t}

\* where: { userId, revokedAt: null }, whatever session was replayed
SessionsOfUser(t) == Tokens

RevokeAll(w) ==
  /\ At(w, "revoke_all")
  /\ Revoke(SessionsOfUser(task[w].token))
  /\ swept' = Issued
  /\ Proceed(w, Idle)
  /\ UNCHANGED <<codeVars, accountVars, expired, origin, lineage>>

\* Mutant: the old token stays.
RevokeRotatedForgotten(t) == token' = token

\* refreshToken.update({ where: { id } })
RevokeRotated(t) == token' = [token EXCEPT ![t] = "revoked"]

RevokeOld(w) ==
  /\ At(w, "revoke_old")
  /\ RevokeRotated(task[w].token)
  /\ Issue(w, "rotation", lineage[task[w].token] \cup {task[w].token})
  /\ UNCHANGED <<codeVars, accountVars, expired, origin, lineage, swept>>

\* POST /auth/logout, by a holder of an access token: one session, or all of
\* them when the body names none.
Logout(w, ts) ==
  /\ Free(w)
  /\ Issued # {}
  /\ ts = Tokens \/ \E t \in Tokens : ts = {t}
  /\ Revoke(ts)
  /\ swept' = IF ts = Tokens THEN Issued ELSE swept
  /\ UNCHANGED <<codeVars, accountVars, expired, origin, lineage, task>>

----------------------------------------------------------------------------
(* Time and faults *)

Oldest(c, cs) == c \in cs /\ \A d \in cs : c <= d

CodeExpires(c) ==
  /\ Oldest(c, fresh)
  /\ fresh' = fresh \ {c}
  /\ UNCHANGED <<code, attempts, next, recent, accountVars, tokenVars, task>>

HourPasses(c) ==
  /\ Oldest(c, recent)
  /\ recent' = recent \ {c}
  /\ UNCHANGED <<code, attempts, next, fresh, accountVars, tokenVars, task>>

RegistrationExpires ==
  /\ registration
  /\ registration' = FALSE
  /\ UNCHANGED <<codeVars, account, proven, tokenVars, task>>

TokenExpires(t) ==
  /\ token[t] # "absent"
  /\ t \notin expired
  /\ expired' = expired \cup {t}
  /\ UNCHANGED <<codeVars, accountVars, token, origin, lineage, swept, task>>

\* A statement rejects or the server stops: what the handler had left to do is
\* lost, and a transaction that did not commit has done nothing.
Abort(w) ==
  /\ ~ Free(w)
  /\ Proceed(w, Idle)
  /\ UNCHANGED <<codeVars, accountVars, tokenVars>>

----------------------------------------------------------------------------

Handle(w) ==
  \/ SendCount(w)
  \/ SendBegin(w)
  \/ SendCommit(w)
  \/ \E c \in Codes, right \in BOOLEAN : VerifyRead(w, c, right)
  \/ CountAttempt(w)
  \/ ConsumeCode(w)
  \/ VerifyDevCode(w)
  \/ FindUser(w)
  \/ RegisterRead(w)
  \/ CreateUser(w)
  \/ \E t \in Tokens : IssueToken(w, t)
  \/ \E t \in Tokens : RotateRead(w, t)
  \/ RevokeAll(w)
  \/ RevokeOld(w)
  \/ \E ts \in SUBSET Tokens : Logout(w, ts)
  \/ Abort(w)

TimePasses ==
  \/ \E c \in Codes : CodeExpires(c) \/ HourPasses(c)
  \/ RegistrationExpires
  \/ \E t \in Tokens : TokenExpires(t)

Next ==
  \/ \E w \in Workers : Handle(w)
  \/ TimePasses

Spec == Init /\ [][Next]_vars

----------------------------------------------------------------------------
(* Safety *)

\* A code that was read before it ran out of attempts may still be tried by
\* every handler that read it: the excess is bounded by the handlers in flight,
\* counting the attempts they are about to record.
Trying(c) == {w \in Doing("count_attempt") : task[w].code = c}

AttemptsBounded ==
  \A c \in Codes : attempts[c] + Cardinality(Trying(c)) < MaxAttempts + Cardinality(Workers)

\* The hourly limit is counted before the insert: it is exceeded at most by the
\* sends that counted together.
CodesPerHour ==
  ~ ThrottleDisabled =>
    Cardinality(recent) + Cardinality(Doing("send_begin") \cup Doing("send_commit"))
      < HourlyLimit + Cardinality(Workers)

\* A send consumes the codes it sees: those that stay active together were
\* created by transactions that overlapped.
FewActiveCodes == Cardinality(Active) <= Cardinality(Workers)

\* However rotations overlap or stop half-way, the tokens that were rotated to
\* reach a session, live or not, are revoked.
RotatedIsRevoked ==
  \A t \in Tokens : \A old \in lineage[t] : token[old] = "revoked"

\* A refresh token is exchanged at most once by every handler in flight: those
\* that read it before the first of them revoked it.
Exchanged(old) ==
  {t \in Tokens : old \in lineage[t] /\ lineage[t] = lineage[old] \cup {old}}

ExchangesBounded ==
  \A old \in Tokens : Cardinality(Exchanged(old)) <= Cardinality(Workers)

\* The revocation of every session, on the replay of a token or on demand, misses
\* the pairs of rotations that had read their token before it: one at most for
\* each other handler.
Escaped == {t \in Tokens \ swept : lineage[t] # {} /\ lineage[t] \subseteq swept}

SweepMissesFew == swept # {} => Cardinality(Escaped) < Cardinality(Workers)

\* Whoever registers concurrently, one registration alone opens a session.
OneRegistration ==
  \A t, u \in Tokens : origin[t] = "register" /\ origin[u] = "register" => t = u

\* An account is for a number that was verified, and a session for an account.
AccountsProven ==
  /\ registration \/ account => proven
  /\ Issued # {} => account

\* Bound of the model: once a code was asked for, the session is not followed
\* any further; the one that is starts from the code of the development build.
CodesOrTokens == next = 1 \/ ~ account

=============================================================================
