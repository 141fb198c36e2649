--------------------------- MODULE SessionsProofs ---------------------------
(***************************************************************************)
(* Theorems about Sessions, for every number of workers, tokens and codes, *)
(* every limit and either setting of the environment's flags.              *)
(***************************************************************************)
EXTENDS Sessions, FiniteSetTheorems, TLAPS

----------------------------------------------------------------------------
(* Tasks *)

\* The step of a task tells which fields it has.
LEMMA TaskShape ==
  ASSUME NEW t \in Tasks
  PROVE  /\ t.step = "send_commit" => t.seen \in SUBSET Codes /\ t.code \in Codes
         /\ t.step \in {"consume_code", "count_attempt"} => t.code \in Codes
         /\ t.step \in {"revoke_all", "revoke_old"} => t.token \in Tokens
         /\ t.step = "issue" => t.origin \in Origins /\ t.lineage \in SUBSET Tokens
BY DEF Tasks, Idle, SendTasks, VerifyTasks, RegisterTasks, RotateTasks, IssueTasks

\* A worker that proceeds keeps the others' tasks.
LEMMA ProceedType ==
  ASSUME task \in [Workers -> Tasks], NEW w \in Workers, NEW t \in Tasks, Proceed(w, t)
  PROVE  /\ task' \in [Workers -> Tasks]
         /\ task'[w] = t
         /\ \A v \in Workers : v # w => task'[v] = task[v]
BY DEF Proceed

\* What the actions pass to Proceed is a task.
LEMMA NextTasks ==
  /\ Idle \in Tasks
  /\ [step |-> "send_begin"] \in Tasks
  /\ \A seen \in SUBSET Codes, c \in Codes :
       [step |-> "send_commit", seen |-> seen, code |-> c] \in Tasks
  /\ \A c \in Codes : /\ [step |-> "consume_code", code |-> c] \in Tasks
                      /\ [step |-> "count_attempt", code |-> c] \in Tasks
  /\ [step |-> "find_user"] \in Tasks
  /\ [step |-> "create_user"] \in Tasks
  /\ \A t \in Tokens : /\ [step |-> "revoke_all", token |-> t] \in Tasks
                       /\ [step |-> "revoke_old", token |-> t] \in Tasks
  /\ \A from \in Origins, old \in SUBSET Tokens :
       [step |-> "issue", origin |-> from, lineage |-> old] \in Tasks
BY DEF Tasks, Idle, SendTasks, VerifyTasks, RegisterTasks, RotateTasks, IssueTasks

\* A step of a worker gives it a task and keeps the others'.
LEMMA IssueType ==
  ASSUME task \in [Workers -> Tasks], NEW w \in Workers, NEW from \in Origins,
         NEW old \in SUBSET Tokens, Issue(w, from, old)
  PROVE  task' \in [Workers -> Tasks]
BY NextTasks, ProceedType DEF Issue

LEMMA RevokeType ==
  ASSUME TypeOK, NEW ts \in SUBSET Tokens, Revoke(ts)
  PROVE  /\ token' \in [Tokens -> {"absent", "live", "revoked"}]
         /\ \A t \in Tokens : token[t] = "revoked" => token'[t] = "revoked"
         /\ \A t \in Tokens : token'[t] = "absent" <=> token[t] = "absent"
BY DEF TypeOK, Revoke

----------------------------------------------------------------------------
(* Type correctness *)

LEMMA TypeInit == Init => TypeOK
<1> SUFFICES ASSUME Init PROVE TypeOK
  OBVIOUS
<1>1. account \in BOOLEAN /\ registration \in BOOLEAN /\ proven \in BOOLEAN
  BY Zenon DEF Init
<1>2. next \in 1..(MaxCodes + 1)
  BY BoundsAssumption DEF Init
<1>3. /\ code \in [Codes -> {"absent", "active", "consumed"}]
      /\ attempts \in [Codes -> Nat]
      /\ token \in [Tokens -> {"absent", "live", "revoked"}]
      /\ task \in [Workers -> Tasks]
  BY NextTasks DEF Init
<1>4. /\ fresh \subseteq Codes /\ recent \subseteq Codes /\ expired \subseteq Tokens
      /\ origin \in [Tokens -> Origins \cup {"none"}]
      /\ lineage \in [Tokens -> SUBSET Tokens] /\ swept \subseteq Tokens
  BY DEF Init
<1> QED
  BY <1>1, <1>2, <1>3, <1>4 DEF TypeOK

\* One step for each action on codes.
LEMMA TypeCodes ==
  ASSUME TypeOK, NEW w \in Workers,
         \/ SendCount(w) \/ SendBegin(w) \/ SendCommit(w)
         \/ \E c \in Codes, right \in BOOLEAN : VerifyRead(w, c, right)
         \/ CountAttempt(w) \/ ConsumeCode(w) \/ VerifyDevCode(w)
  PROVE  TypeOK'
<1> USE NextTasks, ProceedType
<1>a. task \in [Workers -> Tasks] /\ task[w] \in Tasks
  BY DEF TypeOK
<1>1. CASE SendCount(w)
  BY <1>1, <1>a DEF SendCount, TypeOK, codeVars, accountVars, tokenVars
<1>2. CASE SendBegin(w)
  <2>1. next \in Codes /\ next + 1 \in 1..(MaxCodes + 1)
    BY <1>2, BoundsAssumption DEF SendBegin, CodeLeft, Codes, TypeOK
  <2>2. Superseded \in SUBSET Codes
    BY DEF Superseded, Active
  <2>3. task' \in [Workers -> Tasks]
    BY <1>2, <1>a, <2>1, <2>2 DEF SendBegin
  <2> QED
    BY <1>2, <2>1, <2>3 DEF SendBegin, TypeOK, accountVars, tokenVars
<1>3. CASE SendCommit(w)
  <2>1. task[w].code \in Codes
    BY <1>3, <1>a, TaskShape DEF SendCommit, At
  <2>2. task' \in [Workers -> Tasks]
    BY <1>3, <1>a DEF SendCommit
  <2> QED
    BY <1>3, <2>1, <2>2 DEF SendCommit, TypeOK, accountVars, tokenVars
<1>4. ASSUME NEW c \in Codes, NEW right \in BOOLEAN, VerifyRead(w, c, right)
      PROVE  TypeOK'
  <2>1. task' \in [Workers -> Tasks]
    BY <1>4, <1>a DEF VerifyRead
  <2> QED
    BY <1>4, <2>1 DEF VerifyRead, TypeOK, codeVars, accountVars, tokenVars
<1>5. CASE CountAttempt(w)
  <2>1. task[w].code \in Codes
    BY <1>5, <1>a, TaskShape DEF CountAttempt, At
  <2>2. task' \in [Workers -> Tasks]
    BY <1>5, <1>a DEF CountAttempt
  <2> QED
    BY <1>5, <2>1, <2>2 DEF CountAttempt, AddAttempt, TypeOK, accountVars, tokenVars
<1>6. CASE ConsumeCode(w)
  <2>1. task' \in [Workers -> Tasks]
    BY <1>6, <1>a DEF ConsumeCode
  <2> QED
    BY <1>6, <2>1 DEF ConsumeCode, TypeOK, tokenVars
<1>7. CASE VerifyDevCode(w)
  <2>1. task' \in [Workers -> Tasks]
    BY <1>7, <1>a DEF VerifyDevCode
  <2> QED
    BY <1>7, <2>1 DEF VerifyDevCode, TypeOK, tokenVars
<1> QED
  BY <1>1, <1>2, <1>3, <1>4, <1>5, <1>6, <1>7

\* One step for each action on the account and the tokens.
LEMMA TypeSessions ==
  ASSUME TypeOK, NEW w \in Workers,
         \/ FindUser(w) \/ RegisterRead(w) \/ CreateUser(w)
         \/ \E t \in Tokens : IssueToken(w, t) \/ RotateRead(w, t)
         \/ RevokeAll(w) \/ RevokeOld(w)
         \/ \E ts \in SUBSET Tokens : Logout(w, ts)
         \/ Abort(w)
  PROVE  TypeOK'
<1> USE NextTasks, ProceedType
<1>a. task \in [Workers -> Tasks] /\ task[w] \in Tasks
  BY DEF TypeOK
<1>1. CASE FindUser(w)
  <2>1. task' \in [Workers -> Tasks]
    BY <1>1, <1>a, IssueType DEF FindUser, Origins
  <2>2. registration' \in BOOLEAN
    BY <1>1, Zenon DEF FindUser, TypeOK
  <2> QED
    BY <1>1, <2>1, <2>2 DEF FindUser, TypeOK, codeVars, tokenVars
<1>2. CASE RegisterRead(w)
  <2>1. task' \in [Workers -> Tasks]
    BY <1>2, <1>a DEF RegisterRead
  <2> QED
    BY <1>2, <2>1 DEF RegisterRead, TypeOK, codeVars, accountVars, tokenVars
<1>3. CASE CreateUser(w)
  <2>1. task' \in [Workers -> Tasks]
    BY <1>3, <1>a, IssueType DEF CreateUser, Origins
  <2> QED
    BY <1>3, <2>1 DEF CreateUser, TypeOK, codeVars, tokenVars
<1>4. ASSUME NEW t \in Tokens, IssueToken(w, t)
      PROVE  TypeOK'
  <2>1. task[w].origin \in Origins /\ task[w].lineage \in SUBSET Tokens
    BY <1>4, <1>a, TaskShape DEF IssueToken, At
  <2>2. task' \in [Workers -> Tasks]
    BY <1>4, <1>a DEF IssueToken
  <2> QED
    BY <1>4, <2>1, <2>2 DEF IssueToken, TypeOK, codeVars, accountVars
<1>5. ASSUME NEW t \in Tokens, RotateRead(w, t)
      PROVE  TypeOK'
  <2>1. task' \in [Workers -> Tasks]
    BY <1>5, <1>a DEF RotateRead
  <2> QED
    BY <1>5, <2>1 DEF RotateRead, TypeOK, codeVars, accountVars, tokenVars
<1>6. CASE RevokeAll(w)
  <2>1. task' \in [Workers -> Tasks]
    BY <1>6, <1>a DEF RevokeAll
  <2>2. token' \in [Tokens -> {"absent", "live", "revoked"}]
    BY <1>6, RevokeType DEF RevokeAll, SessionsOfUser
  <2> QED
    BY <1>6, <2>1, <2>2 DEF RevokeAll, Issued, TypeOK, codeVars, accountVars
<1>7. CASE RevokeOld(w)
  <2>1. task[w].token \in Tokens
    BY <1>7, <1>a, TaskShape DEF RevokeOld, At
  <2>2. task' \in [Workers -> Tasks]
    BY <1>7, <1>a, <2>1, IssueType DEF RevokeOld, Origins, TypeOK
  <2> QED
    BY <1>7, <2>1, <2>2 DEF RevokeOld, RevokeRotated, TypeOK, codeVars, accountVars
<1>8. ASSUME NEW ts \in SUBSET Tokens, Logout(w, ts)
      PROVE  TypeOK'
  <2>1. token' \in [Tokens -> {"absent", "live", "revoked"}]
    BY <1>8, RevokeType DEF Logout
  <2>2. swept' \subseteq Tokens
    BY <1>8 DEF Logout, Issued, TypeOK
  <2> QED
    BY <1>8, <2>1, <2>2 DEF Logout, TypeOK, codeVars, accountVars
<1>9. CASE Abort(w)
  <2>1. task' \in [Workers -> Tasks]
    BY <1>9, <1>a DEF Abort
  <2> QED
    BY <1>9, <2>1 DEF Abort, TypeOK, codeVars, accountVars, tokenVars
<1> QED
  BY <1>1, <1>2, <1>3, <1>4, <1>5, <1>6, <1>7, <1>8, <1>9

LEMMA TypeTime == TypeOK /\ TimePasses => TypeOK'
<1> SUFFICES ASSUME TypeOK, TimePasses PROVE TypeOK'
  OBVIOUS
<1>1. ASSUME NEW c \in Codes, CodeExpires(c) PROVE TypeOK'
  BY <1>1 DEF CodeExpires, TypeOK, accountVars, tokenVars
<1>2. ASSUME NEW c \in Codes, HourPasses(c) PROVE TypeOK'
  BY <1>2 DEF HourPasses, TypeOK, accountVars, tokenVars
<1>3. CASE RegistrationExpires
  BY <1>3 DEF RegistrationExpires, TypeOK, codeVars, tokenVars
<1>4. ASSUME NEW t \in Tokens, TokenExpires(t) PROVE TypeOK'
  BY <1>4 DEF TokenExpires, TypeOK, codeVars, accountVars
<1> QED
  BY <1>1, <1>2, <1>3, <1>4 DEF TimePasses

LEMMA TypeStep == TypeOK /\ [Next]_vars => TypeOK'
<1> SUFFICES ASSUME TypeOK, [Next]_vars PROVE TypeOK'
  OBVIOUS
<1>1. ASSUME NEW w \in Workers, Handle(w) PROVE TypeOK'
  BY <1>1, TypeCodes, TypeSessions DEF Handle
<1>2. CASE TimePasses
  BY <1>2, TypeTime
<1>3. CASE UNCHANGED vars
  BY <1>3 DEF TypeOK, vars, codeVars, accountVars, tokenVars
<1> QED
  BY <1>1, <1>2, <1>3 DEF Next

\* Every statement of OtpService, TokenService and AuthService finds in its task
\* what it uses, and the rows keep their types.
THEOREM TypeCorrect == Spec => []TypeOK
<1>1. Init => TypeOK
  BY TypeInit
<1>2. TypeOK /\ [Next]_vars => TypeOK'
  BY TypeStep
<1> QED
  BY <1>1, <1>2, PTL DEF Spec

----------------------------------------------------------------------------
(* What a step of a handler leads to *)

\* Only the handler that steps changes its task, and time changes none.
LEMMA OtherTasks ==
  ASSUME TypeOK, NEW w \in Workers, Handle(w)
  PROVE  \A v \in Workers : v # w => task'[v] = task[v]
BY DEF Handle, SendCount, SendBegin, SendCommit, VerifyRead, CountAttempt, ConsumeCode,
       VerifyDevCode, FindUser, RegisterRead, CreateUser, IssueToken, RotateRead, RevokeAll,
       RevokeOld, Logout, Abort, Issue, Proceed, TypeOK

LEMMA TimeTasks ==
  ASSUME TimePasses
  PROVE  /\ UNCHANGED <<task, token, origin, lineage, swept, account, proven>>
         /\ registration' => registration
<1>1. ASSUME NEW c \in Codes, CodeExpires(c) \/ HourPasses(c)
      PROVE  UNCHANGED <<task, token, origin, lineage, swept, account, proven, registration>>
  BY <1>1 DEF CodeExpires, HourPasses, accountVars, tokenVars
<1>2. ASSUME NEW t \in Tokens, TokenExpires(t)
      PROVE  UNCHANGED <<task, token, origin, lineage, swept, account, proven, registration>>
  BY <1>2 DEF TokenExpires, accountVars
<1>3. CASE RegistrationExpires
  BY <1>3 DEF RegistrationExpires, tokenVars
<1> QED
  BY <1>1, <1>2, <1>3 DEF TimePasses

\* Three actions lead a handler to issuePair.
LEMMA NewIssuers ==
  ASSUME TypeOK, NEW w \in Workers, Handle(w), task'[w].step = "issue"
  PROVE  \/ /\ FindUser(w) /\ account
            /\ task'[w] = [step |-> "issue", origin |-> "login", lineage |-> {}]
         \/ /\ CreateUser(w) /\ PhoneFree
            /\ task'[w] = [step |-> "issue", origin |-> "register", lineage |-> {}]
         \/ /\ RevokeOld(w)
            /\ task'[w] = [step |-> "issue", origin |-> "rotation",
                           lineage |-> lineage[task[w].token] \cup {task[w].token}]
         \/ \E ts \in SUBSET Tokens : Logout(w, ts)
<1>1. \A t \in Tasks : Proceed(w, t) => task'[w] = t
  BY DEF TypeOK, Proceed
<1>2. ASSUME NEW t \in Tasks, Proceed(w, t), t.step # "issue" PROVE FALSE
  BY <1>1, <1>2
<1>3. ASSUME Proceed(w, Idle) PROVE FALSE
  BY <1>2, <1>3, NextTasks DEF Idle
<1>4. ~ SendCount(w) /\ ~ SendCommit(w) /\ ~ CountAttempt(w) /\ ~ RevokeAll(w) /\ ~ Abort(w)
  BY <1>2, <1>3, NextTasks DEF SendCount, SendCommit, CountAttempt, RevokeAll, Abort
<1>5. ~ SendBegin(w) /\ ~ ConsumeCode(w) /\ ~ VerifyDevCode(w) /\ ~ RegisterRead(w)
  BY DEF SendBegin, ConsumeCode, VerifyDevCode, RegisterRead, Proceed, TypeOK
<1>6. \A c \in Codes, right \in BOOLEAN : ~ VerifyRead(w, c, right)
  BY DEF VerifyRead, Proceed, TypeOK
<1>7. \A t \in Tokens : ~ IssueToken(w, t) /\ ~ RotateRead(w, t)
  BY <1>3 DEF IssueToken, RotateRead, Proceed, TypeOK
<1>8. FindUser(w) => account /\ task'[w] = [step |-> "issue", origin |-> "login", lineage |-> {}]
  BY <1>3 DEF FindUser, Issue, Proceed, TypeOK
<1>9. CreateUser(w) => PhoneFree /\ task'[w] = [step |-> "issue", origin |-> "register", lineage |-> {}]
  BY <1>3 DEF CreateUser, Issue, Proceed, TypeOK
<1>10. RevokeOld(w) => task'[w] = [step |-> "issue", origin |-> "rotation",
                                   lineage |-> lineage[task[w].token] \cup {task[w].token}]
  BY DEF RevokeOld, Issue, Proceed, TypeOK
<1> QED
  BY <1>4, <1>5, <1>6, <1>7, <1>8, <1>9, <1>10 DEF Handle

\* Four actions write a token or what the history knows of it.
LEMMA TokenWriters ==
  ASSUME NEW w \in Workers, Handle(w)
  PROVE  \/ UNCHANGED <<token, origin, lineage>>
         \/ \E t \in Tokens : IssueToken(w, t)
         \/ RevokeAll(w) \/ RevokeOld(w)
         \/ \E ts \in SUBSET Tokens : Logout(w, ts)
BY DEF Handle, SendCount, SendBegin, SendCommit, VerifyRead, CountAttempt, ConsumeCode,
       VerifyDevCode, FindUser, RegisterRead, CreateUser, RotateRead, Abort, tokenVars

----------------------------------------------------------------------------
(* Rotation *)

Issuing(w) == At(w, "issue")

\* RotatedIsRevoked says nothing of a token about to be inserted: a rotation in
\* flight has already revoked all it comes from.
LineageInv ==
  /\ RotatedIsRevoked
  /\ \A w \in Workers : Issuing(w) => \A old \in task[w].lineage : token[old] = "revoked"

\* A revoked token stays so, whatever a handler does.
LEMMA RevokedStays ==
  ASSUME TypeOK, NEW w \in Workers, Handle(w), NEW t \in Tokens, token[t] = "revoked"
  PROVE  token'[t] = "revoked"
<1>1. ASSUME NEW u \in Tokens, IssueToken(w, u) PROVE token'[t] = "revoked"
  BY <1>1 DEF IssueToken, TypeOK
<1>2. CASE RevokeAll(w)
  BY <1>2, RevokeType DEF RevokeAll, SessionsOfUser
<1>3. CASE RevokeOld(w)
  BY <1>3 DEF RevokeOld, RevokeRotated, TypeOK
<1>4. ASSUME NEW ts \in SUBSET Tokens, Logout(w, ts) PROVE token'[t] = "revoked"
  BY <1>4, RevokeType DEF Logout
<1> QED
  BY <1>1, <1>2, <1>3, <1>4, TokenWriters

LEMMA LineageHandle ==
  ASSUME TypeOK, LineageInv, NEW w \in Workers, Handle(w)
  PROVE  LineageInv'
<1>a. task[w] \in Tasks /\ lineage \in [Tokens -> SUBSET Tokens]
  BY DEF TypeOK
<1>b. \A v \in Workers : Issuing(v) => task[v].lineage \subseteq Tokens
  BY TaskShape DEF TypeOK, Issuing, At
<1>1. RotatedIsRevoked'
  <2>1. ASSUME NEW t \in Tokens, IssueToken(w, t) PROVE RotatedIsRevoked'
    <3>1. /\ lineage' = [lineage EXCEPT ![t] = task[w].lineage]
          /\ \A old \in task[w].lineage : old \in Tokens /\ token[old] = "revoked"
      BY <2>1, <1>b DEF IssueToken, LineageInv, Issuing
    <3>2. \A u \in Tokens : \A old \in lineage'[u] : old \in Tokens /\ token[old] = "revoked"
      BY <3>1, <1>a DEF LineageInv, RotatedIsRevoked
    <3> QED
      BY <3>2, RevokedStays DEF RotatedIsRevoked
  <2>2. CASE lineage' = lineage
    <3>1. \A u \in Tokens : \A old \in lineage'[u] : old \in Tokens /\ token[old] = "revoked"
      BY <2>2, <1>a DEF LineageInv, RotatedIsRevoked
    <3> QED
      BY <3>1, RevokedStays DEF RotatedIsRevoked
  <2> QED
    BY <2>1, <2>2, TokenWriters DEF RevokeAll, RevokeOld, Logout
<1>2. ASSUME NEW v \in Workers, Issuing(v)'
      PROVE  \A old \in task'[v].lineage : token'[old] = "revoked"
  <2>1. CASE task'[v] = task[v]
    BY <2>1, <1>2, <1>b, RevokedStays DEF LineageInv, Issuing, At
  <2>2. CASE v = w
    <3>1. task'[w].step = "issue"
      BY <1>2, <2>2 DEF Issuing, At
    <3>2. CASE task'[w].lineage = {}
      BY <2>2, <3>2
    <3>3. CASE /\ RevokeOld(w)
               /\ task'[w] = [step |-> "issue", origin |-> "rotation",
                              lineage |-> lineage[task[w].token] \cup {task[w].token}]
      <4>1. task[w].token \in Tokens
        BY <3>3, <1>a, TaskShape DEF RevokeOld, At
      <4>2. token'[task[w].token] = "revoked"
        BY <3>3, <4>1 DEF RevokeOld, RevokeRotated, TypeOK
      <4>3. \A old \in lineage[task[w].token] : token'[old] = "revoked"
        BY <4>1, <1>a, RevokedStays DEF LineageInv, RotatedIsRevoked
      <4> QED
        BY <2>2, <3>3, <4>2, <4>3
    <3>4. ASSUME NEW ts \in SUBSET Tokens, Logout(w, ts) PROVE task'[v] = task[v]
      BY <3>4 DEF Logout
    <3> QED
      BY <2>1, <3>1, <3>2, <3>3, <3>4, NewIssuers
  <2> QED
    BY <2>1, <2>2, OtherTasks
<1> QED
  BY <1>1, <1>2 DEF LineageInv

\* Everything a token comes from, or one about to be inserted, is revoked
\* (TokenService.rotate).
THEOREM LineageCorrect == Spec => []LineageInv
<1>1. Init => LineageInv
  BY DEF Init, LineageInv, RotatedIsRevoked, Issuing, At, Idle
<1>2. TypeOK /\ LineageInv /\ [Next]_vars => LineageInv'
  <2> SUFFICES ASSUME TypeOK, LineageInv, [Next]_vars PROVE LineageInv'
    OBVIOUS
  <2>1. CASE TimePasses
    BY <2>1, TimeTasks DEF LineageInv, RotatedIsRevoked, Issuing, At
  <2>2. CASE UNCHANGED vars
    BY <2>2 DEF LineageInv, RotatedIsRevoked, Issuing, At, vars, tokenVars
  <2> QED
    BY <2>1, <2>2, LineageHandle DEF Next
<1> QED
  BY <1>1, <1>2, TypeCorrect, PTL DEF Spec

\* However rotations overlap or stop half-way, what was rotated to reach a
\* session is revoked (TokenService.rotate).
THEOREM RotationCorrect == Spec => []RotatedIsRevoked
<1>1. LineageInv => RotatedIsRevoked
  BY DEF LineageInv
<1> QED
  BY <1>1, LineageCorrect, PTL

----------------------------------------------------------------------------
(* Registration *)

Registering(w) == Issuing(w) /\ task[w].origin = "register"
Registered(t) == origin[t] = "register"

\* The session of a registration is open or about to be, never both and never
\* twice; before the account there is none.
RegistrationInv ==
  /\ OneRegistration
  /\ \A v, w \in Workers : Registering(v) /\ Registering(w) => v = w
  /\ \A w \in Workers, t \in Tokens : Registering(w) => ~ Registered(t)
  /\ ~ account => /\ \A w \in Workers : ~ Registering(w)
                  /\ \A t \in Tokens : ~ Registered(t)

\* An account is never removed, and one action creates it.
LEMMA AccountWriter ==
  ASSUME NEW w \in Workers, Handle(w)
  PROVE  /\ account => account'
         /\ account' => account \/ CreateUser(w)
<1>1. CASE CreateUser(w)
  BY <1>1, Zenon DEF CreateUser
<1>2. CASE ~ CreateUser(w)
  <2>1. account' = account
    BY <1>2 DEF Handle, SendCount, SendBegin, SendCommit, VerifyRead, CountAttempt, ConsumeCode,
                VerifyDevCode, FindUser, RegisterRead, IssueToken, RotateRead, RevokeAll,
                RevokeOld, Logout, Abort, accountVars
  <2> QED
    BY <2>1
<1> QED
  BY <1>1, <1>2

\* A handler that begins to register has just created the account.
LEMMA NewRegistering ==
  ASSUME TypeOK, NEW w \in Workers, Handle(w), NEW v \in Workers, Registering(v)'
  PROVE  Registering(v) \/ (v = w /\ CreateUser(w) /\ ~ account)
<1>1. CASE task'[v] = task[v]
  BY <1>1 DEF Registering, Issuing, At
<1>2. CASE v = w
  <2>1. task'[w].step = "issue" /\ task'[w].origin = "register"
    BY <1>2 DEF Registering, Issuing, At
  <2>2. ASSUME NEW ts \in SUBSET Tokens, Logout(w, ts) PROVE task'[v] = task[v]
    BY <2>2 DEF Logout
  <2>3. CASE FindUser(w) /\ task'[w] = [step |-> "issue", origin |-> "login", lineage |-> {}]
    BY <2>1, <2>3
  <2>4. CASE task'[w] = [step |-> "issue", origin |-> "rotation",
                        lineage |-> lineage[task[w].token] \cup {task[w].token}]
    BY <2>1, <2>4
  <2>5. CASE CreateUser(w) /\ PhoneFree
    BY <1>2, <2>5, Zenon DEF PhoneFree
  <2> QED
    BY <1>1, <2>1, <2>2, <2>3, <2>4, <2>5, NewIssuers
<1> QED
  BY <1>1, <1>2, OtherTasks

\* A token of a registration is inserted by the handler that registers.
LEMMA NewRegistered ==
  ASSUME TypeOK, NEW w \in Workers, Handle(w), NEW t \in Tokens, Registered(t)'
  PROVE  Registered(t) \/ (IssueToken(w, t) /\ Registering(w) /\ ~ Registering(w)')
<1>1. CASE origin' = origin
  BY <1>1 DEF Registered
<1>2. ASSUME NEW u \in Tokens, IssueToken(w, u)
      PROVE  Registered(t) \/ (IssueToken(w, t) /\ Registering(w) /\ ~ Registering(w)')
  <2>1. task'[w] = Idle
    BY <1>2 DEF IssueToken, Proceed, TypeOK
  <2>2. ~ Registering(w)'
    BY <2>1 DEF Registering, Issuing, At, Idle
  <2>3. CASE u = t
    BY <1>2, <2>2, <2>3 DEF IssueToken, Registered, Registering, Issuing, TypeOK
  <2>4. CASE u # t
    BY <1>2, <2>4 DEF IssueToken, Registered, TypeOK
  <2> QED
    BY <2>3, <2>4
<1> QED
  BY <1>1, <1>2, TokenWriters DEF RevokeAll, RevokeOld, Logout

LEMMA RegistrationHandle ==
  ASSUME TypeOK, RegistrationInv, NEW w \in Workers, Handle(w)
  PROVE  RegistrationInv'
<1>1. ASSUME NEW t \in Tokens, NEW u \in Tokens, Registered(t)', Registered(u)'
      PROVE  t = u
  <2>1. ~ Registered(t) \/ ~ Registered(u) => Registering(w)
    BY <1>1, NewRegistered
  <2>2. IssueToken(w, t) /\ IssueToken(w, u) => t = u
    BY DEF IssueToken, TypeOK
  <2> QED
    BY <1>1, <2>1, <2>2, NewRegistered DEF RegistrationInv, OneRegistration, Registered
<1>2. ASSUME NEW u \in Workers, NEW v \in Workers, Registering(u)', Registering(v)'
      PROVE  u = v
  BY <1>2, NewRegistering DEF RegistrationInv
<1>3. ASSUME NEW v \in Workers, NEW t \in Tokens, Registering(v)'
      PROVE  ~ Registered(t)'
  <2> SUFFICES ASSUME Registered(t)' PROVE FALSE
    OBVIOUS
  <2>1. CASE Registered(t)
    BY <1>3, <2>1, NewRegistering DEF RegistrationInv
  <2>2. CASE IssueToken(w, t) /\ Registering(w) /\ ~ Registering(w)'
    BY <1>3, <2>2, NewRegistering DEF RegistrationInv
  <2> QED
    BY <2>1, <2>2, NewRegistered
<1>4. ASSUME ~ account'
      PROVE  /\ \A v \in Workers : ~ Registering(v)'
             /\ \A t \in Tokens : ~ Registered(t)'
  <2>1. ~ account /\ ~ CreateUser(w)
    BY <1>4, AccountWriter DEF CreateUser
  <2> QED
    BY <2>1, NewRegistering, NewRegistered DEF RegistrationInv
<1> QED
  BY <1>1, <1>2, <1>3, <1>4 DEF RegistrationInv, OneRegistration, Registered

\* Whoever registers concurrently, one registration alone opens a session
\* (AuthService.register under the unique key of users.phone).
THEOREM RegistrationCorrect == Spec => []OneRegistration
<1>1. Init => RegistrationInv
  BY DEF Init, RegistrationInv, OneRegistration, Registering, Registered, Issuing, At, Idle
<1>2. TypeOK /\ RegistrationInv /\ [Next]_vars => RegistrationInv'
  <2> SUFFICES ASSUME TypeOK, RegistrationInv, [Next]_vars PROVE RegistrationInv'
    OBVIOUS
  <2>1. CASE TimePasses
    BY <2>1, TimeTasks DEF RegistrationInv, OneRegistration, Registering, Registered, Issuing, At
  <2>2. CASE UNCHANGED vars
    BY <2>2 DEF RegistrationInv, OneRegistration, Registering, Registered, Issuing, At, vars,
                accountVars, tokenVars
  <2> QED
    BY <2>1, <2>2, RegistrationHandle DEF Next
<1>3. RegistrationInv => OneRegistration
  BY DEF RegistrationInv
<1> QED
  BY <1>1, <1>2, <1>3, TypeCorrect, PTL DEF Spec

----------------------------------------------------------------------------
(* Verified numbers *)

\* AccountsProven with what each handler in flight has already established.
ProvenInv ==
  /\ AccountsProven
  /\ \A w \in Workers :
       /\ At(w, "find_user") \/ At(w, "create_user") => proven
       /\ Issuing(w) => account
       /\ At(w, "revoke_old") => token[task[w].token] # "absent"

\* A verification stays done, and a registration token needs one that is.
LEMMA ProvenWriters ==
  ASSUME TypeOK, ProvenInv, NEW w \in Workers, Handle(w)
  PROVE  /\ proven => proven'
         /\ registration' => registration \/ proven
<1>1. CASE ConsumeCode(w) \/ VerifyDevCode(w)
  <2>1. proven' /\ registration' = registration
    BY <1>1, Zenon DEF ConsumeCode, VerifyDevCode
  <2> QED
    BY <2>1
<1>2. CASE FindUser(w)
  <2>1. proven /\ proven' = proven
    BY <1>2, Zenon DEF FindUser, ProvenInv
  <2> QED
    BY <2>1
<1>3. CASE ~ (ConsumeCode(w) \/ VerifyDevCode(w) \/ FindUser(w))
  <2>1. proven' = proven /\ registration' = registration
    BY <1>3 DEF Handle, SendCount, SendBegin, SendCommit, VerifyRead, CountAttempt, RegisterRead,
                CreateUser, IssueToken, RotateRead, RevokeAll, RevokeOld, Logout, Abort, accountVars
  <2> QED
    BY <2>1
<1> QED
  BY <1>1, <1>2, <1>3

\* A row appears for a handler that holds an account only, and none disappears.
LEMMA TokenRows ==
  ASSUME TypeOK, ProvenInv, NEW w \in Workers, Handle(w), NEW t \in Tokens
  PROVE  /\ token[t] # "absent" => token'[t] # "absent"
         /\ token'[t] # "absent" => account
<1>1. ASSUME NEW u \in Tokens, IssueToken(w, u)
      PROVE  (token[t] # "absent" => token'[t] # "absent") /\ account
  BY <1>1 DEF IssueToken, ProvenInv, Issuing, TypeOK
<1>2. CASE RevokeOld(w)
  <2>1. task[w].token \in Tokens
    BY <1>2, TaskShape DEF RevokeOld, At, TypeOK
  <2> QED
    BY <1>2, <2>1 DEF RevokeOld, RevokeRotated, ProvenInv, AccountsProven, Issued, TypeOK
<1>3. ASSUME NEW ts \in SUBSET Tokens, Revoke(ts)
      PROVE  token'[t] = "absent" <=> token[t] = "absent"
  BY <1>3, RevokeType
<1>4. CASE token'[t] = "absent" <=> token[t] = "absent"
  BY <1>4 DEF ProvenInv, AccountsProven, Issued
<1> QED
  BY <1>1, <1>2, <1>3, <1>4, TokenWriters DEF RevokeAll, SessionsOfUser, Logout

LEMMA ProvenHandle ==
  ASSUME TypeOK, ProvenInv, NEW w \in Workers, Handle(w)
  PROVE  ProvenInv'
<1>a. CreateUser(w) => proven
  BY DEF CreateUser, ProvenInv
<1>1. AccountsProven'
  BY <1>a, ProvenWriters, AccountWriter, TokenRows DEF ProvenInv, AccountsProven, Issued
<1>2. ASSUME NEW v \in Workers, task'[v] = task[v]
      PROVE  /\ (At(v, "find_user") \/ At(v, "create_user"))' => proven'
             /\ Issuing(v)' => account'
             /\ At(v, "revoke_old")' => token'[task'[v].token] # "absent"
  <2>1. At(v, "revoke_old") => task[v].token \in Tokens
    BY TaskShape DEF At, TypeOK
  <2> QED
    BY <1>2, <2>1, ProvenWriters, AccountWriter, TokenRows DEF ProvenInv, Issuing, At
<1>3. (At(w, "find_user") \/ At(w, "create_user"))' => proven'
  <2>1. CASE task' = task
    BY <1>2, <2>1
  <2>2. CASE ConsumeCode(w) \/ VerifyDevCode(w)
    BY <2>2, Zenon DEF ConsumeCode, VerifyDevCode
  <2>3. CASE RegisterRead(w)
    <3>1. proven
      BY <2>3 DEF RegisterRead, Registrable, ProvenInv, AccountsProven, Issued
    <3> QED
      BY <3>1, ProvenWriters
  <2>4. CASE ~ (ConsumeCode(w) \/ VerifyDevCode(w) \/ RegisterRead(w))
    BY <2>1, <2>4 DEF Handle, SendCount, SendBegin, SendCommit, VerifyRead, CountAttempt, FindUser,
                      CreateUser, IssueToken, RotateRead, RevokeAll, RevokeOld, Logout, Abort,
                      Issue, Proceed, At, Idle, TypeOK
  <2> QED
    BY <2>2, <2>3, <2>4
<1>4. Issuing(w)' => account'
  <2> SUFFICES ASSUME task'[w].step = "issue" PROVE account'
    BY DEF Issuing, At
  <2>1. CASE FindUser(w) /\ account
    BY <2>1, AccountWriter
  <2>2. CASE CreateUser(w)
    BY <2>2, Zenon DEF CreateUser
  <2>3. CASE RevokeOld(w)
    <3>1. task[w].token \in Tokens /\ token[task[w].token] # "absent"
      BY <2>3, TaskShape DEF RevokeOld, At, ProvenInv, TypeOK
    <3> QED
      BY <3>1, AccountWriter DEF ProvenInv, AccountsProven, Issued
  <2>4. ASSUME NEW ts \in SUBSET Tokens, Logout(w, ts) PROVE account'
    BY <1>2, <2>4 DEF Logout, Issuing, At
  <2> QED
    BY <2>1, <2>2, <2>3, <2>4, NewIssuers
<1>5. At(w, "revoke_old")' => token'[task'[w].token] # "absent"
  <2>1. CASE task' = task
    BY <1>2, <2>1
  <2>2. ASSUME NEW t \in Tokens, RotateRead(w, t)
        PROVE  At(w, "revoke_old")' => token'[task'[w].token] # "absent"
    BY <2>2 DEF RotateRead, Proceed, tokenVars, TypeOK
  <2>3. CASE \A t \in Tokens : ~ RotateRead(w, t)
    BY <2>1, <2>3 DEF Handle, SendCount, SendBegin, SendCommit, VerifyRead, CountAttempt,
                      ConsumeCode, VerifyDevCode, FindUser, RegisterRead, CreateUser, IssueToken,
                      RevokeAll, RevokeOld, Logout, Abort, Issue, Proceed, At, Idle, TypeOK
  <2> QED
    BY <2>2, <2>3
<1> QED
  BY <1>1, <1>2, <1>3, <1>4, <1>5, OtherTasks DEF ProvenInv

\* Each handler carries what it has established: a verification, an account, a
\* row it read (AuthService.verifyOtp, register, TokenService.rotate).
THEOREM ProvenCorrect == Spec => []ProvenInv
<1>1. Init => ProvenInv
  <2> SUFFICES ASSUME Init PROVE ProvenInv
    OBVIOUS
  <2>1. ~ account /\ ~ registration
    BY Zenon DEF Init
  <2> QED
    BY <2>1 DEF Init, ProvenInv, AccountsProven, Issued, Issuing, At, Idle
<1>2. TypeOK /\ ProvenInv /\ [Next]_vars => ProvenInv'
  <2> SUFFICES ASSUME TypeOK, ProvenInv, [Next]_vars PROVE ProvenInv'
    OBVIOUS
  <2>1. CASE TimePasses
    BY <2>1, TimeTasks DEF ProvenInv, AccountsProven, Issued, Issuing, At
  <2>2. CASE UNCHANGED vars
    BY <2>2 DEF ProvenInv, AccountsProven, Issued, Issuing, At, vars, accountVars, tokenVars
  <2> QED
    BY <2>1, <2>2, ProvenHandle DEF Next
<1> QED
  BY <1>1, <1>2, TypeCorrect, PTL DEF Spec

\* An account is for a number that was verified, and a session for an account
\* (RegistrationTokenGuard, AuthService.verifyOtp and register).
THEOREM AccountsCorrect == Spec => []AccountsProven
<1>1. ProvenInv => AccountsProven
  BY DEF ProvenInv
<1> QED
  BY <1>1, ProvenCorrect, PTL

----------------------------------------------------------------------------
(* Counting handlers *)

\* Sets of workers are finite and no larger than all of them.
LEMMA WorkerSets ==
  /\ Cardinality(Workers) \in Nat
  /\ \A W \in SUBSET Workers :
       /\ IsFiniteSet(W)
       /\ Cardinality(W) \in Nat
       /\ Cardinality(W) <= Cardinality(Workers)
BY BoundsAssumption, FS_Subset, FS_CardinalityType

LEMMA SubsetCounts ==
  ASSUME NEW V \in SUBSET Workers, NEW W \in SUBSET V
  PROVE  Cardinality(W) <= Cardinality(V)
BY WorkerSets, FS_Subset

LEMMA OneLessCounts ==
  ASSUME NEW V \in SUBSET Workers, NEW w \in V, NEW W \in SUBSET (V \ {w})
  PROVE  Cardinality(W) + 1 <= Cardinality(V)
<1>1. IsFiniteSet(V) /\ Cardinality(V) \in Nat /\ Cardinality(W) \in Nat
  BY WorkerSets
<1>2. IsFiniteSet(V \ {w}) /\ Cardinality(V \ {w}) = Cardinality(V) - 1
  BY <1>1, FS_RemoveElement
<1>3. Cardinality(W) <= Cardinality(V \ {w})
  BY <1>2, FS_Subset
<1> QED
  BY <1>1, <1>2, <1>3

\* Handlers that may insert a row and the rows they inserted, counted together,
\* are no more when one of those handlers inserts its row.
LEMMA HandedOver ==
  ASSUME NEW rows, IsFiniteSet(rows), NEW V \in SUBSET Workers,
         NEW more, NEW W \in SUBSET Workers, NEW t, NEW w,
         \/ more \subseteq rows /\ W \subseteq V
         \/ w \in V /\ W \subseteq V \ {w} /\ more \subseteq rows \cup {t}
  PROVE  /\ IsFiniteSet(more)
         /\ Cardinality(more) + Cardinality(W) <= Cardinality(rows) + Cardinality(V)
<1>1. Cardinality(rows) \in Nat /\ Cardinality(V) \in Nat /\ Cardinality(W) \in Nat
  BY WorkerSets, FS_CardinalityType
<1>2. CASE more \subseteq rows /\ W \subseteq V
  <2>1. IsFiniteSet(more) /\ Cardinality(more) <= Cardinality(rows)
    BY <1>2, FS_Subset
  <2>2. Cardinality(W) <= Cardinality(V)
    BY <1>2, SubsetCounts
  <2>3. Cardinality(more) \in Nat
    BY <2>1, FS_CardinalityType
  <2> QED
    BY <1>1, <2>1, <2>2, <2>3
<1>3. CASE w \in V /\ W \subseteq V \ {w} /\ more \subseteq rows \cup {t}
  <2>1. Cardinality(W) + 1 <= Cardinality(V)
    BY <1>3, OneLessCounts
  <2>2. /\ IsFiniteSet(rows \cup {t})
        /\ \/ Cardinality(rows \cup {t}) = Cardinality(rows)
           \/ Cardinality(rows \cup {t}) = Cardinality(rows) + 1
    BY FS_AddElement
  <2>3. IsFiniteSet(more) /\ Cardinality(more) <= Cardinality(rows \cup {t})
    BY <1>3, <2>2, FS_Subset
  <2>4. Cardinality(more) \in Nat /\ Cardinality(rows \cup {t}) \in Nat
    BY <2>2, <2>3, FS_CardinalityType
  <2> QED
    BY <1>1, <2>1, <2>2, <2>3, <2>4
<1> QED
  BY <1>2, <1>3

LEMMA CodesFinite == \A cs \in SUBSET Codes : IsFiniteSet(cs) /\ Cardinality(cs) \in Nat
<1>1. IsFiniteSet(Codes)
  BY BoundsAssumption, FS_Interval DEF Codes
<1> QED
  BY <1>1, FS_Subset, FS_CardinalityType

----------------------------------------------------------------------------
(* One-time codes *)

\* The actions of OtpService, and what all others leave alone.
LEMMA CodeSteps ==
  ASSUME TypeOK, NEW w \in Workers, Handle(w)
  PROVE  \/ SendCount(w) \/ SendBegin(w) \/ SendCommit(w)
         \/ \E c \in Codes, right \in BOOLEAN : VerifyRead(w, c, right)
         \/ CountAttempt(w) \/ ConsumeCode(w) \/ VerifyDevCode(w)
         \/ /\ UNCHANGED codeVars
            /\ \/ task'[w] = task[w]
               \/ task'[w].step \notin {"send_begin", "send_commit", "count_attempt"}
<1>1. CASE \/ FindUser(w) \/ RegisterRead(w) \/ CreateUser(w)
           \/ \E t \in Tokens : RotateRead(w, t)
           \/ RevokeOld(w)
  BY <1>1 DEF FindUser, RegisterRead, CreateUser, RotateRead, RevokeOld, Issue, Proceed, Idle, TypeOK
<1>2. CASE \/ \E t \in Tokens : IssueToken(w, t)
           \/ RevokeAll(w) \/ Abort(w)
           \/ \E ts \in SUBSET Tokens : Logout(w, ts)
  BY <1>2 DEF IssueToken, RevokeAll, Abort, Logout, Proceed, Idle, TypeOK
<1> QED
  BY <1>1, <1>2 DEF Handle

LEMMA TimeCodes ==
  ASSUME TimePasses
  PROVE  UNCHANGED <<code, attempts>> /\ recent' \subseteq recent
BY DEF TimePasses, CodeExpires, HourPasses, RegistrationExpires, TokenExpires, codeVars

\* A handler that will count an attempt has found the code with attempts left,
\* and one that counts it is no longer about to.
LEMMA AttemptSteps ==
  ASSUME TypeOK, NEW w \in Workers, Handle(w), NEW c \in Codes
  PROVE  \/ /\ attempts'[c] = attempts[c]
            /\ Trying(c)' \subseteq Trying(c) \/ attempts[c] < MaxAttempts
         \/ /\ attempts'[c] = attempts[c] + 1
            /\ w \in Trying(c)
            /\ Trying(c)' \subseteq Trying(c) \ {w}
<1>o. \A v \in Workers : v # w => task'[v] = task[v]
  BY OtherTasks
<1>1. ASSUME attempts' = attempts, task'[w] = task[w] \/ task'[w].step # "count_attempt"
      PROVE  attempts'[c] = attempts[c] /\ Trying(c)' \subseteq Trying(c)
  BY <1>1, <1>o DEF Trying, Doing, At
<1>2. CASE SendCount(w) \/ SendBegin(w) \/ SendCommit(w) \/ ConsumeCode(w) \/ VerifyDevCode(w)
  <2>1. attempts' = attempts /\ task'[w].step # "count_attempt"
    BY <1>2 DEF SendCount, SendBegin, SendCommit, ConsumeCode, VerifyDevCode, codeVars, Proceed,
                Idle, TypeOK
  <2> QED
    BY <1>1, <2>1
<1>3. ASSUME NEW d \in Codes, NEW right \in BOOLEAN, VerifyRead(w, d, right)
      PROVE  /\ attempts'[c] = attempts[c]
             /\ Trying(c)' \subseteq Trying(c) \/ attempts[c] < MaxAttempts
  <2>1. /\ attempts' = attempts
        /\ task'[w].step = "count_attempt" => task'[w].code = d
        /\ attempts[d] < MaxAttempts
    BY <1>3, BoundsAssumption DEF VerifyRead, Exhausted, codeVars, Proceed, TypeOK
  <2>2. c # d => Trying(c)' \subseteq Trying(c)
    BY <1>o, <2>1 DEF Trying, Doing, At
  <2> QED
    BY <2>1, <2>2
<1>4. CASE CountAttempt(w)
  <2>1. task[w].code \in Codes /\ task'[w].step = "idle"
    BY <1>4, TaskShape DEF CountAttempt, At, Proceed, Idle, TypeOK
  <2>2. CASE task[w].code = c
    BY <1>4, <1>o, <2>1, <2>2 DEF CountAttempt, AddAttempt, Trying, Doing, At, TypeOK
  <2>3. CASE task[w].code # c
    <3>1. attempts'[c] = attempts[c]
      BY <1>4, <2>1, <2>3 DEF CountAttempt, AddAttempt, TypeOK
    <3>2. Trying(c)' \subseteq Trying(c)
      BY <1>o, <2>1 DEF Trying, Doing, At
    <3> QED
      BY <3>1, <3>2
  <2> QED
    BY <2>2, <2>3
<1>5. CASE /\ UNCHANGED codeVars
           /\ \/ task'[w] = task[w]
              \/ task'[w].step \notin {"send_begin", "send_commit", "count_attempt"}
  BY <1>1, <1>5 DEF codeVars
<1> QED
  BY <1>2, <1>3, <1>4, <1>5, CodeSteps

\* OTP_MAX_ATTEMPTS is exceeded at most by the handlers that read the code
\* together (OtpService.verify).
THEOREM AttemptsCorrect == Spec => []AttemptsBounded
<1> DEFINE Bounded(c) ==
      attempts[c] + Cardinality(Trying(c)) < MaxAttempts + Cardinality(Workers)
<1>t. \A c : Trying(c) \in SUBSET Workers /\ Trying(c)' \in SUBSET Workers
  BY DEF Trying, Doing
<1>1. Init => AttemptsBounded
  <2> SUFFICES ASSUME Init, NEW c \in Codes PROVE Bounded(c)
    BY DEF AttemptsBounded
  <2>1. attempts[c] = 0 /\ Cardinality(Trying(c)) <= Cardinality(Workers)
    BY <1>t, WorkerSets DEF Init
  <2> QED
    BY <1>t, <2>1, WorkerSets, BoundsAssumption
<1>2. TypeOK /\ AttemptsBounded /\ [Next]_vars => AttemptsBounded'
  <2> SUFFICES ASSUME TypeOK, AttemptsBounded, [Next]_vars, NEW c \in Codes PROVE Bounded(c)'
    BY DEF AttemptsBounded
  <2>1. /\ attempts[c] \in Nat /\ Bounded(c)
        /\ Cardinality(Workers) \in Nat /\ MaxAttempts \in Nat
        /\ Cardinality(Trying(c)) \in Nat /\ Cardinality(Trying(c)') \in Nat
        /\ Cardinality(Trying(c)') <= Cardinality(Workers)
    BY <1>t, WorkerSets, BoundsAssumption DEF TypeOK, AttemptsBounded
  <2>2. CASE attempts'[c] = attempts[c] /\ Trying(c)' \subseteq Trying(c)
    <3>1. Cardinality(Trying(c)') <= Cardinality(Trying(c))
      BY <1>t, <2>2, SubsetCounts
    <3> QED
      BY <2>1, <2>2, <3>1
  <2>3. CASE attempts'[c] = attempts[c] /\ attempts[c] < MaxAttempts
    BY <2>1, <2>3
  <2>4. ASSUME NEW w \in Trying(c), attempts'[c] = attempts[c] + 1, Trying(c)' \subseteq Trying(c) \ {w}
        PROVE  Bounded(c)'
    <3>1. Cardinality(Trying(c)') + 1 <= Cardinality(Trying(c))
      BY <1>t, <2>4, OneLessCounts
    <3> QED
      BY <2>1, <2>4, <3>1
  <2>5. CASE TimePasses \/ UNCHANGED vars
    <3>1. UNCHANGED <<attempts, task>>
      BY <2>5, TimeCodes, TimeTasks DEF vars, codeVars
    <3>2. Trying(c)' = Trying(c)
      BY <3>1 DEF Trying, Doing, At
    <3> QED
      BY <2>2, <3>1, <3>2
  <2> QED
    BY <2>2, <2>3, <2>4, <2>5, AttemptSteps DEF Next
<1> QED
  BY <1>1, <1>2, TypeCorrect, PTL DEF Spec

Sending == Doing("send_begin") \cup Doing("send_commit")

\* A send that begins has counted too few codes; one that commits adds its code
\* and is no longer counted as a send.
LEMMA SendSteps ==
  ASSUME TypeOK, NEW w \in Workers, Handle(w)
  PROVE  \/ recent' = recent /\ (Sending' \subseteq Sending \/ Unthrottled)
         \/ /\ \E c \in Codes : recent' = recent \cup {c}
            /\ w \in Sending
            /\ Sending' \subseteq Sending \ {w}
<1>o. \A v \in Workers : v # w => task'[v] = task[v]
  BY OtherTasks
<1>1. ASSUME recent' = recent, w \in Sending \/ w \notin Sending'
      PROVE  Sending' \subseteq Sending
  BY <1>1, <1>o DEF Sending, Doing, At
<1>2. CASE SendCount(w)
  BY <1>2 DEF SendCount, codeVars
<1>3. CASE SendBegin(w)
  BY <1>1, <1>3 DEF SendBegin, Sending, Doing
<1>4. CASE SendCommit(w)
  <2>1. task[w].code \in Codes /\ task'[w].step = "idle"
    BY <1>4, TaskShape DEF SendCommit, At, Proceed, Idle, TypeOK
  <2> QED
    BY <1>4, <1>o, <2>1 DEF SendCommit, Sending, Doing, At
<1>5. CASE \/ \E c \in Codes, right \in BOOLEAN : VerifyRead(w, c, right)
           \/ CountAttempt(w) \/ ConsumeCode(w) \/ VerifyDevCode(w)
  <2>1. recent' = recent /\ task'[w].step \notin {"send_begin", "send_commit"}
    BY <1>5 DEF VerifyRead, CountAttempt, ConsumeCode, VerifyDevCode, codeVars, Proceed, Idle, TypeOK
  <2> QED
    BY <1>1, <2>1 DEF Sending, Doing, At
<1>6. CASE /\ UNCHANGED codeVars
           /\ \/ task'[w] = task[w]
              \/ task'[w].step \notin {"send_begin", "send_commit", "count_attempt"}
  <2>1. w \in Sending \/ w \notin Sending'
    BY <1>6 DEF Sending, Doing, At
  <2> QED
    BY <1>1, <1>6, <2>1 DEF codeVars
<1> QED
  BY <1>2, <1>3, <1>4, <1>5, <1>6, CodeSteps

\* OTP_HOURLY_LIMIT is exceeded at most by the sends that counted together
\* (OtpService.send).
THEOREM CodesPerHourCorrect == Spec => []CodesPerHour
<1>s. Sending \in SUBSET Workers /\ Sending' \in SUBSET Workers
  BY DEF Sending, Doing
<1> DEFINE Bounded == Cardinality(recent) + Cardinality(Sending) < HourlyLimit + Cardinality(Workers)
<1>d. CodesPerHour <=> (~ ThrottleDisabled => Bounded)
  BY DEF CodesPerHour, Sending
<1>d2. CodesPerHour' <=> (~ ThrottleDisabled => Bounded')
  BY DEF CodesPerHour, Sending
<1>1. Init => CodesPerHour
  <2> SUFFICES ASSUME Init PROVE Bounded
    BY <1>d
  <2>1. Cardinality(recent) = 0 /\ Cardinality(Sending) <= Cardinality(Workers)
    BY <1>s, WorkerSets, FS_EmptySet DEF Init
  <2> QED
    BY <1>s, <2>1, WorkerSets, BoundsAssumption
<1>2. TypeOK /\ TypeOK' /\ CodesPerHour /\ [Next]_vars => CodesPerHour'
  <2> SUFFICES ASSUME TypeOK, TypeOK', Bounded, [Next]_vars, ~ ThrottleDisabled PROVE Bounded'
    BY <1>d, <1>d2
  <2>1. /\ Cardinality(Workers) \in Nat /\ HourlyLimit \in Nat
        /\ Cardinality(Sending) \in Nat /\ Cardinality(Sending') \in Nat
        /\ Cardinality(Sending') <= Cardinality(Workers)
        /\ IsFiniteSet(recent)
        /\ Cardinality(recent) \in Nat /\ Cardinality(recent') \in Nat
    BY <1>s, WorkerSets, BoundsAssumption, CodesFinite DEF TypeOK
  <2>2. CASE recent' \subseteq recent /\ Sending' \subseteq Sending
    <3>1. Cardinality(Sending') <= Cardinality(Sending)
      BY <1>s, <2>2, SubsetCounts
    <3>2. Cardinality(recent') <= Cardinality(recent)
      BY <2>1, <2>2, FS_Subset
    <3> QED
      BY <2>1, <3>1, <3>2
  <2>3. CASE recent' = recent /\ Unthrottled
    BY <2>1, <2>3 DEF Unthrottled
  <2>4. ASSUME NEW w \in Sending, NEW c \in Codes, recent' = recent \cup {c},
               Sending' \subseteq Sending \ {w}
        PROVE  Bounded'
    <3>1. Cardinality(Sending') + 1 <= Cardinality(Sending)
      BY <1>s, <2>4, OneLessCounts
    <3>2. Cardinality(recent') <= Cardinality(recent) + 1
      <4>1. \/ Cardinality(recent \cup {c}) = Cardinality(recent)
            \/ Cardinality(recent \cup {c}) = Cardinality(recent) + 1
        BY <2>1, FS_AddElement
      <4> QED
        BY <2>1, <2>4, <4>1
    <3> QED
      BY <2>1, <3>1, <3>2
  <2>5. CASE TimePasses \/ UNCHANGED vars
    <3>1. recent' \subseteq recent /\ task' = task
      BY <2>5, TimeCodes, TimeTasks DEF vars, codeVars
    <3>2. Sending' = Sending
      BY <3>1 DEF Sending, Doing, At
    <3> QED
      BY <2>2, <3>1, <3>2
  <2> QED
    BY <2>2, <2>3, <2>4, <2>5, SendSteps DEF Next
<1> QED
  BY <1>1, <1>2, TypeCorrect, PTL DEF Spec

----------------------------------------------------------------------------
(* Codes that are active together *)

\* Every active code is owned by the worker that committed it last, and a
\* worker about to commit another has seen the one it owns: it will consume it.
OwnerInv ==
  \E own \in [Workers -> Codes \cup {0}] :
    /\ \A c \in Active : \E w \in Workers : own[w] = c
    /\ \A w \in Workers : At(w, "send_commit") /\ own[w] \in Active => own[w] \in task[w].seen

\* Fewer active codes and no new handler at its commit: the owners remain.
LEMMA OwnersRemain ==
  ASSUME OwnerInv, Active' \subseteq Active,
         \A v \in Workers : At(v, "send_commit")' =>
            task'[v] = task[v] \/ Active \subseteq task'[v].seen
  PROVE  OwnerInv'
<1>1. PICK own \in [Workers -> Codes \cup {0}] :
         /\ \A c \in Active : \E w \in Workers : own[w] = c
         /\ \A w \in Workers : At(w, "send_commit") /\ own[w] \in Active => own[w] \in task[w].seen
  BY DEF OwnerInv
<1>2. \A c \in Active' : \E w \in Workers : own[w] = c
  BY <1>1
<1>3. \A v \in Workers : At(v, "send_commit")' /\ own[v] \in Active' => own[v] \in task'[v].seen
  BY <1>1 DEF At
<1> QED
  BY <1>1, <1>2, <1>3 DEF OwnerInv

\* A commit takes the new code over from nobody and gives up the old one.
LEMMA OwnersChange ==
  ASSUME TypeOK, OwnerInv, NEW w \in Workers, SendCommit(w)
  PROVE  OwnerInv'
<1> DEFINE c == task[w].code
<1>1. PICK own \in [Workers -> Codes \cup {0}] :
         /\ \A d \in Active : \E v \in Workers : own[v] = d
         /\ \A v \in Workers : At(v, "send_commit") /\ own[v] \in Active => own[v] \in task[v].seen
  BY DEF OwnerInv
<1>2. c \in Codes /\ c # 0
  BY TaskShape, BoundsAssumption DEF SendCommit, At, TypeOK, Codes
<1>3. /\ \A d \in Codes : code'[d] = IF d = c THEN "active"
                                     ELSE IF d \in task[w].seen THEN "consumed" ELSE code[d]
      /\ task'[w].step = "idle"
      /\ \A v \in Workers : v # w => task'[v] = task[v]
  BY DEF SendCommit, Proceed, Idle, TypeOK
<1>4. \A d \in Active' : d = c \/ (d \in Active /\ d \notin task[w].seen)
  BY <1>3 DEF Active
<1> DEFINE new == [v \in Workers |-> IF v = w THEN c ELSE IF own[v] = c THEN 0 ELSE own[v]]
<1>5. new \in [Workers -> Codes \cup {0}]
  BY <1>1, <1>2
<1>6. ASSUME NEW d \in Active' PROVE \E v \in Workers : new[v] = d
  <2>1. CASE d = c
    BY <2>1
  <2>2. CASE d # c
    <3>1. d \in Active /\ d \notin task[w].seen
      BY <1>4, <2>2
    <3>2. PICK v \in Workers : own[v] = d
      BY <1>1, <3>1
    <3>3. v # w
      BY <1>1, <3>1, <3>2 DEF SendCommit
    <3> QED
      BY <2>2, <3>2, <3>3
  <2> QED
    BY <2>1, <2>2
<1>7. ASSUME NEW v \in Workers, task'[v].step = "send_commit", new[v] \in Active'
      PROVE  new[v] \in task'[v].seen
  <2>1. v # w /\ task'[v] = task[v]
    BY <1>3, <1>7
  <2>2. new[v] # c
    BY <1>2, <2>1
  <2>3. new[v] = own[v] /\ own[v] \in Active
    <3>1. new[v] \in Active
      BY <1>4, <1>7, <2>2
    <3>2. new[v] # 0
      BY <3>1, BoundsAssumption DEF Active, Codes
    <3> QED
      BY <2>1, <3>1, <3>2
  <2> QED
    BY <1>1, <1>7, <2>1, <2>3 DEF At
<1> HIDE DEF new, c
<1> QED
  BY <1>5, <1>6, <1>7 DEF OwnerInv, At

LEMMA OwnerHandle ==
  ASSUME TypeOK, OwnerInv, NEW w \in Workers, Handle(w)
  PROVE  OwnerInv'
<1>o. \A v \in Workers : v # w => task'[v] = task[v]
  BY OtherTasks
<1>1. CASE SendBegin(w)
  <2>1. Active' = Active /\ task'[w].seen = Active
    BY <1>1 DEF SendBegin, Superseded, Active, Proceed, TypeOK
  <2> QED
    BY <1>o, <2>1, OwnersRemain
<1>2. CASE SendCommit(w)
  BY <1>2, OwnersChange
<1>3. CASE \/ SendCount(w)
           \/ \E c \in Codes, right \in BOOLEAN : VerifyRead(w, c, right)
           \/ CountAttempt(w)
  <2>1. code' = code /\ task'[w].step # "send_commit"
    BY <1>3 DEF SendCount, VerifyRead, CountAttempt, codeVars, Proceed, Idle, TypeOK
  <2>2. Active' = Active
    BY <2>1 DEF Active
  <2> QED
    BY <1>o, <2>1, <2>2, OwnersRemain DEF At
<1>4. CASE ConsumeCode(w) \/ VerifyDevCode(w)
  <2>1. Active' \subseteq Active /\ task'[w].step # "send_commit"
    BY <1>4 DEF ConsumeCode, VerifyDevCode, Active, Proceed, TypeOK
  <2> QED
    BY <1>o, <2>1, OwnersRemain DEF At
<1>5. CASE /\ UNCHANGED codeVars
           /\ \/ task'[w] = task[w]
              \/ task'[w].step \notin {"send_begin", "send_commit", "count_attempt"}
  <2>1. Active' = Active
    BY <1>5 DEF codeVars, Active
  <2> QED
    BY <1>o, <1>5, <2>1, OwnersRemain DEF At
<1> QED
  BY <1>1, <1>2, <1>3, <1>4, <1>5, CodeSteps

\* The transactions that supersede each other leave one active code for each
\* handler in flight at most (OtpService.send).
THEOREM FewActiveCodesCorrect == Spec => []FewActiveCodes
<1>1. Init => OwnerInv
  <2> SUFFICES ASSUME Init PROVE OwnerInv
    OBVIOUS
  <2> DEFINE own == [w \in Workers |-> 0]
  <2>1. own \in [Workers -> Codes \cup {0}] /\ Active = {} /\ \A w \in Workers : ~ At(w, "send_commit")
    BY DEF Init, Active, At, Idle
  <2> HIDE DEF own
  <2> QED
    BY <2>1 DEF OwnerInv
<1>2. TypeOK /\ OwnerInv /\ [Next]_vars => OwnerInv'
  <2> SUFFICES ASSUME TypeOK, OwnerInv, [Next]_vars PROVE OwnerInv'
    OBVIOUS
  <2>1. CASE TimePasses \/ UNCHANGED vars
    <3>1. UNCHANGED <<code, task>>
      BY <2>1, TimeCodes, TimeTasks DEF vars, codeVars
    <3>2. Active' = Active
      BY <3>1 DEF Active
    <3> QED
      BY <3>1, <3>2, OwnersRemain DEF At
  <2> QED
    BY <2>1, OwnerHandle DEF Next
<1>3. OwnerInv => FewActiveCodes
  <2> SUFFICES ASSUME OwnerInv PROVE FewActiveCodes
    OBVIOUS
  <2>1. PICK own \in [Workers -> Codes \cup {0}] : \A c \in Active : \E w \in Workers : own[w] = c
    BY DEF OwnerInv
  <2> DEFINE f == [c \in Active |-> CHOOSE w \in Workers : own[w] = c]
  <2>2. \A c \in Active : f[c] \in Workers /\ own[f[c]] = c
    BY <2>1
  <2>3. f \in [Active -> Workers]
    BY <2>2
  <2>4. f \in Injection(Active, Workers)
    BY <2>2, <2>3 DEF Injection, IsInjective
  <2> QED
    BY <2>4, FS_Injection, BoundsAssumption DEF FewActiveCodes
<1> QED
  BY <1>1, <1>2, <1>3, TypeCorrect, PTL DEF Spec

----------------------------------------------------------------------------
(* How often one token is exchanged *)

\* Lineages are closed and have no cycle: a token does not descend from itself.
ClosedInv ==
  /\ \A t \in Tokens : t \notin lineage[t] /\ \A u \in lineage[t] : lineage[u] \subseteq lineage[t]
  /\ \A w \in Workers : Issuing(w) =>
       \A u \in task[w].lineage : lineage[u] \subseteq task[w].lineage

\* The handlers that may still turn the token into another one.
Exchanging(old) ==
  {w \in Workers : \/ At(w, "revoke_old") /\ task[w].token = old
                   \/ Issuing(w) /\ task[w].lineage = lineage[old] \cup {old}}

ExchangesInv ==
  \A old \in Tokens :
    /\ IsFiniteSet(Exchanged(old))
    /\ Cardinality(Exchanged(old)) + Cardinality(Exchanging(old)) <= Cardinality(Workers)

\* The actions on tokens that are exchanged, and what all others leave alone.
LEMMA ExchangeSteps ==
  ASSUME TypeOK, NEW w \in Workers, Handle(w)
  PROVE  \/ \E t \in Tokens : IssueToken(w, t)
         \/ \E t \in Tokens : RotateRead(w, t) /\ token[t] # "revoked"
         \/ RevokeOld(w)
         \/ /\ lineage' = lineage
            /\ \/ task'[w] = task[w]
               \/ task'[w].step \notin {"revoke_old", "issue"}
               \/ task'[w].step = "issue" /\ task'[w].lineage = {}
<1> DEFINE Other == /\ lineage' = lineage
                    /\ \/ task'[w] = task[w]
                       \/ task'[w].step \notin {"revoke_old", "issue"}
                       \/ task'[w].step = "issue" /\ task'[w].lineage = {}
<1>1. ASSUME NEW t \in Tokens, RotateRead(w, t), token[t] = "revoked" PROVE Other
  BY <1>1 DEF RotateRead, Proceed, tokenVars, TypeOK
<1>2. CASE \/ SendCount(w) \/ SendBegin(w) \/ SendCommit(w)
           \/ \E c \in Codes, right \in BOOLEAN : VerifyRead(w, c, right)
           \/ CountAttempt(w) \/ ConsumeCode(w) \/ VerifyDevCode(w)
  BY <1>2 DEF SendCount, SendBegin, SendCommit, VerifyRead, CountAttempt, ConsumeCode,
              VerifyDevCode, Proceed, Idle, tokenVars, TypeOK
<1>3. CASE FindUser(w) \/ RegisterRead(w) \/ CreateUser(w)
  BY <1>3 DEF FindUser, RegisterRead, CreateUser, Issue, Proceed, Idle, tokenVars, TypeOK
<1>4. CASE RevokeAll(w) \/ Abort(w) \/ \E ts \in SUBSET Tokens : Logout(w, ts)
  BY <1>4 DEF RevokeAll, Abort, Logout, Proceed, Idle, tokenVars, TypeOK
<1> QED
  BY <1>1, <1>2, <1>3, <1>4 DEF Handle

\* A token about to be inserted is in no lineage and nobody exchanges it yet.
LEMMA UnissuedToken ==
  ASSUME TypeOK, LineageInv, ProvenInv, NEW t \in Tokens, token[t] = "absent"
  PROVE  /\ \A u \in Tokens : t \notin lineage[u]
         /\ \A v \in Workers : Issuing(v) => t \notin task[v].lineage
         /\ Exchanging(t) = {}
<1>1. \A u \in Tokens : t \notin lineage[u]
  BY DEF LineageInv, RotatedIsRevoked
<1>2. \A v \in Workers : Issuing(v) => t \notin task[v].lineage
  BY DEF LineageInv
<1>3. \A v \in Workers : At(v, "revoke_old") => task[v].token # t
  BY DEF ProvenInv
<1> QED
  BY <1>1, <1>2, <1>3 DEF Exchanging

LEMMA ClosedHandle ==
  ASSUME TypeOK, LineageInv, ProvenInv, ClosedInv, NEW w \in Workers, Handle(w)
  PROVE  ClosedInv'
<1> DEFINE Closed(L) == \A u \in L : lineage[u] \subseteq L
<1>o. \A v \in Workers : v # w => task'[v] = task[v]
  BY OtherTasks
<1>a. \A v \in Workers : Issuing(v) => task[v].lineage \subseteq Tokens
  BY TaskShape DEF TypeOK, Issuing, At
<1>1. ASSUME NEW t \in Tokens, IssueToken(w, t) PROVE ClosedInv'
  <2>1. /\ \A u \in Tokens : t \notin lineage[u]
        /\ \A v \in Workers : Issuing(v) => t \notin task[v].lineage
    BY <1>1, UnissuedToken DEF IssueToken
  <2>2. /\ lineage'[t] = task[w].lineage
        /\ \A u \in Tokens : u # t => lineage'[u] = lineage[u]
        /\ Issuing(w)
        /\ task'[w].step = "idle"
    BY <1>1 DEF IssueToken, Issuing, Proceed, Idle, TypeOK
  <2>3. ASSUME NEW u \in Tokens
        PROVE  u \notin lineage'[u] /\ \A x \in lineage'[u] : lineage'[x] \subseteq lineage'[u]
    <3>1. CASE u = t
      BY <1>a, <2>1, <2>2, <3>1 DEF ClosedInv
    <3>2. CASE u # t
      BY <2>1, <2>2, <3>2 DEF ClosedInv, TypeOK
    <3> QED
      BY <3>1, <3>2
  <2>4. ASSUME NEW v \in Workers, task'[v].step = "issue", NEW u \in task'[v].lineage
        PROVE  lineage'[u] \subseteq task'[v].lineage
    <3>1. task'[v] = task[v] /\ Issuing(v)
      BY <1>o, <2>2, <2>4 DEF Issuing, At
    <3>2. u \in Tokens /\ u # t
      BY <1>a, <2>1, <2>4, <3>1
    <3> QED
      BY <2>2, <2>4, <3>1, <3>2 DEF ClosedInv
  <2> QED
    BY <2>3, <2>4 DEF ClosedInv, Issuing, At
<1>2. ASSUME lineage' = lineage,
             task'[w].step = "issue" => task'[w] = task[w] \/ Closed(task'[w].lineage)
      PROVE  ClosedInv'
  BY <1>o, <1>2 DEF ClosedInv, Issuing, At
<1>3. ASSUME NEW t \in Tokens, RotateRead(w, t) PROVE ClosedInv'
  BY <1>2, <1>3 DEF RotateRead, Proceed, tokenVars, TypeOK
<1>4. CASE RevokeOld(w)
  <2>1. task[w].token \in Tokens
    BY <1>4, TaskShape DEF RevokeOld, At, TypeOK
  <2>2. lineage' = lineage /\ task'[w].lineage = lineage[task[w].token] \cup {task[w].token}
    BY <1>4 DEF RevokeOld, Issue, Proceed, TypeOK
  <2>3. Closed(lineage[task[w].token] \cup {task[w].token})
    BY <2>1 DEF ClosedInv
  <2> QED
    BY <1>2, <2>2, <2>3
<1>5. CASE /\ lineage' = lineage
           /\ \/ task'[w] = task[w]
              \/ task'[w].step \notin {"revoke_old", "issue"}
              \/ task'[w].step = "issue" /\ task'[w].lineage = {}
  BY <1>2, <1>5
<1> QED
  BY <1>1, <1>3, <1>4, <1>5, ExchangeSteps

LEMMA ExchangesHandle ==
  ASSUME TypeOK, LineageInv, ProvenInv, ClosedInv, ExchangesInv, NEW w \in Workers, Handle(w)
  PROVE  ExchangesInv'
<1> SUFFICES ASSUME NEW old \in Tokens
             PROVE  /\ IsFiniteSet(Exchanged(old)')
                    /\ Cardinality(Exchanged(old)') + Cardinality(Exchanging(old)')
                         <= Cardinality(Workers)
  BY DEF ExchangesInv
<1>o. \A v \in Workers : v # w => task'[v] = task[v]
  BY OtherTasks
<1>w. Exchanging(old) \in SUBSET Workers /\ Exchanging(old)' \in SUBSET Workers
  BY DEF Exchanging
<1>n. /\ IsFiniteSet(Exchanged(old))
      /\ Cardinality(Exchanged(old)) + Cardinality(Exchanging(old)) <= Cardinality(Workers)
      /\ Cardinality(Exchanged(old)) \in Nat
      /\ Cardinality(Exchanging(old)) \in Nat /\ Cardinality(Exchanging(old)') \in Nat
      /\ Cardinality(Exchanging(old)') <= Cardinality(Workers)
      /\ Cardinality(Workers) \in Nat
  BY <1>w, WorkerSets, FS_CardinalityType DEF ExchangesInv
<1>h. ASSUME NEW t,
             \/ Exchanged(old)' \subseteq Exchanged(old) /\ Exchanging(old)' \subseteq Exchanging(old)
             \/ /\ w \in Exchanging(old) /\ Exchanging(old)' \subseteq Exchanging(old) \ {w}
                /\ Exchanged(old)' \subseteq Exchanged(old) \cup {t}
      PROVE  /\ IsFiniteSet(Exchanged(old)')
             /\ Cardinality(Exchanged(old)') + Cardinality(Exchanging(old)') <= Cardinality(Workers)
  <2>1. /\ IsFiniteSet(Exchanged(old)')
        /\ Cardinality(Exchanged(old)') + Cardinality(Exchanging(old)')
             <= Cardinality(Exchanged(old)) + Cardinality(Exchanging(old))
    BY <1>h, <1>w, <1>n, HandedOver
  <2>2. Cardinality(Exchanged(old)') \in Nat
    BY <2>1, FS_CardinalityType
  <2> QED
    BY <1>n, <2>1, <2>2
<1>1. ASSUME lineage' = lineage, Exchanging(old)' \subseteq Exchanging(old)
      PROVE  /\ IsFiniteSet(Exchanged(old)')
             /\ Cardinality(Exchanged(old)') + Cardinality(Exchanging(old)') <= Cardinality(Workers)
  BY <1>1, <1>h DEF Exchanged
<1>2. ASSUME Exchanged(old)' = {}
      PROVE  /\ IsFiniteSet(Exchanged(old)')
             /\ Cardinality(Exchanged(old)') + Cardinality(Exchanging(old)') <= Cardinality(Workers)
  BY <1>2, <1>n, FS_EmptySet
<1>3. ASSUME NEW t \in Tokens, RotateRead(w, t), token[t] # "revoked"
      PROVE  /\ IsFiniteSet(Exchanged(old)')
             /\ Cardinality(Exchanged(old)') + Cardinality(Exchanging(old)') <= Cardinality(Workers)
  <2>1. lineage' = lineage /\ task'[w] = [step |-> "revoke_old", token |-> t]
    BY <1>3 DEF RotateRead, Proceed, tokenVars, TypeOK
  <2>2. CASE old = t
    <3>1. Exchanged(old)' = {}
      BY <1>3, <2>1, <2>2 DEF Exchanged, LineageInv, RotatedIsRevoked
    <3> QED
      BY <1>2, <3>1
  <2>3. CASE old # t
    <3>1. Exchanging(old)' \subseteq Exchanging(old)
      BY <1>o, <2>1, <2>3 DEF Exchanging, Issuing, At
    <3> QED
      BY <1>1, <2>1, <3>1
  <2> QED
    BY <2>2, <2>3
<1>4. CASE RevokeOld(w)
  <2> DEFINE tok == task[w].token
  <2>1. tok \in Tokens
    BY <1>4, TaskShape DEF RevokeOld, At, TypeOK
  <2>2. /\ lineage' = lineage
        /\ task'[w] = [step |-> "issue", origin |-> "rotation", lineage |-> lineage[tok] \cup {tok}]
    BY <1>4 DEF RevokeOld, Issue, Proceed, TypeOK
  <2>3. lineage[tok] \cup {tok} = lineage[old] \cup {old} => tok = old
    BY <2>1 DEF ClosedInv
  <2>4. Exchanging(old)' \subseteq Exchanging(old)
    BY <1>4, <1>o, <2>2, <2>3 DEF Exchanging, Issuing, At, RevokeOld
  <2> QED
    BY <1>1, <2>2, <2>4
<1>5. ASSUME NEW t \in Tokens, IssueToken(w, t)
      PROVE  /\ IsFiniteSet(Exchanged(old)')
             /\ Cardinality(Exchanged(old)') + Cardinality(Exchanging(old)') <= Cardinality(Workers)
  <2>1. /\ \A u \in Tokens : t \notin lineage[u]
        /\ \A v \in Workers : Issuing(v) => t \notin task[v].lineage
    BY <1>5, UnissuedToken DEF IssueToken
  <2>2. /\ lineage'[t] = task[w].lineage
        /\ \A u \in Tokens : u # t => lineage'[u] = lineage[u]
        /\ Issuing(w)
        /\ task'[w].step = "idle"
    BY <1>5 DEF IssueToken, Issuing, Proceed, Idle, TypeOK
  <2>3. CASE old = t
    <3>1. Exchanged(old)' = {}
      BY <2>1, <2>2, <2>3 DEF Exchanged
    <3> QED
      BY <1>2, <3>1
  <2>4. CASE old # t
    <3>1. Exchanging(old)' \subseteq Exchanging(old) \ {w}
      BY <1>o, <2>2, <2>4 DEF Exchanging, Issuing, At
    <3>2. CASE w \in Exchanging(old)
      <4>1. Exchanged(old)' \subseteq Exchanged(old) \cup {t}
        BY <2>2, <2>4 DEF Exchanged
      <4> QED
        BY <1>h, <3>1, <3>2, <4>1
    <3>3. CASE w \notin Exchanging(old)
      <4>1. Exchanged(old)' \subseteq Exchanged(old)
        BY <2>2, <2>4, <3>3 DEF Exchanged, Exchanging
      <4> QED
        BY <1>h, <3>1, <4>1
    <3> QED
      BY <3>2, <3>3
  <2> QED
    BY <2>3, <2>4
<1>6. CASE /\ lineage' = lineage
           /\ \/ task'[w] = task[w]
              \/ task'[w].step \notin {"revoke_old", "issue"}
              \/ task'[w].step = "issue" /\ task'[w].lineage = {}
  <2>1. Exchanging(old)' \subseteq Exchanging(old)
    BY <1>o, <1>6 DEF Exchanging, Issuing, At
  <2> QED
    BY <1>1, <1>6, <2>1
<1> QED
  BY <1>3, <1>4, <1>5, <1>6, ExchangeSteps

\* A token comes from all that its predecessors come from, and never from itself
\* (TokenService.rotate).
THEOREM ClosedCorrect == Spec => []ClosedInv
<1>1. Init => ClosedInv
  BY DEF Init, ClosedInv, Issuing, At, Idle
<1>2. TypeOK /\ LineageInv /\ ProvenInv /\ ClosedInv /\ [Next]_vars => ClosedInv'
  <2>1. TimePasses \/ UNCHANGED vars => UNCHANGED <<lineage, task>>
    BY TimeTasks DEF vars, tokenVars
  <2>2. ClosedInv /\ UNCHANGED <<lineage, task>> => ClosedInv'
    BY DEF ClosedInv, Issuing, At
  <2> QED
    BY <2>1, <2>2, ClosedHandle DEF Next
<1> QED
  BY <1>1, <1>2, TypeCorrect, LineageCorrect, ProvenCorrect, PTL DEF Spec

\* A refresh token opens at most one session for every handler in flight: the
\* rotations that read it before the first of them revoked it
\* (TokenService.rotate).
THEOREM ExchangesCorrect == Spec => []ExchangesBounded
<1>1. Init => ExchangesInv
  <2> SUFFICES ASSUME Init, NEW old \in Tokens
               PROVE  /\ IsFiniteSet(Exchanged(old))
                      /\ Cardinality(Exchanged(old)) + Cardinality(Exchanging(old))
                           <= Cardinality(Workers)
    BY DEF ExchangesInv
  <2>1. Exchanged(old) = {} /\ Exchanging(old) = {}
    BY DEF Init, Exchanged, Exchanging, Issuing, At, Idle
  <2> QED
    BY <2>1, FS_EmptySet, WorkerSets
<1>2. TypeOK /\ LineageInv /\ ProvenInv /\ ClosedInv /\ ExchangesInv /\ [Next]_vars => ExchangesInv'
  <2>1. TimePasses \/ UNCHANGED vars => UNCHANGED <<lineage, task>>
    BY TimeTasks DEF vars, tokenVars
  <2>2. ASSUME ExchangesInv, UNCHANGED <<lineage, task>> PROVE ExchangesInv'
    <3>1. \A old \in Tokens : Exchanged(old)' = Exchanged(old) /\ Exchanging(old)' = Exchanging(old)
      BY <2>2 DEF Exchanged, Exchanging, Issuing, At
    <3> QED
      BY <2>2, <3>1 DEF ExchangesInv
  <2> QED
    BY <2>1, <2>2, ExchangesHandle DEF Next
<1>3. ExchangesInv => ExchangesBounded
  <2> SUFFICES ASSUME ExchangesInv, NEW old \in Tokens
               PROVE  Cardinality(Exchanged(old)) <= Cardinality(Workers)
    BY DEF ExchangesBounded
  <2>1. Exchanging(old) \in SUBSET Workers
    BY DEF Exchanging
  <2>2. /\ Cardinality(Exchanged(old)) \in Nat
        /\ Cardinality(Exchanging(old)) \in Nat
        /\ Cardinality(Exchanged(old)) + Cardinality(Exchanging(old)) <= Cardinality(Workers)
    BY <2>1, WorkerSets, FS_CardinalityType DEF ExchangesInv
  <2> QED
    BY <2>2, WorkerSets
<1> QED
  BY <1>1, <1>2, <1>3, TypeCorrect, LineageCorrect, ProvenCorrect, ClosedCorrect, PTL DEF Spec

----------------------------------------------------------------------------
(* What a revocation of every session misses *)

\* What was swept is revoked for good, and a token that is not there yet comes
\* from none.
SweptInv ==
  /\ \A t \in swept : token[t] = "revoked"
  /\ \A t \in Tokens : token[t] = "absent" => lineage[t] = {}

\* The handlers that may still insert a pair that comes from swept tokens only.
Escaping ==
  {w \in Workers : \/ At(w, "revoke_old") /\ task[w].token \in swept
                   \/ /\ Issuing(w)
                      /\ task[w].lineage # {} /\ task[w].lineage \subseteq swept}

SweepInv ==
  swept # {} => /\ IsFiniteSet(Escaped)
                /\ Cardinality(Escaped) + Cardinality(Escaping) < Cardinality(Workers)

\* A handler that sweeps has nothing left to do, and no row is live after it.
LEMMA SweepSteps ==
  ASSUME TypeOK, NEW w \in Workers, Handle(w)
  PROVE  \/ swept' = swept
         \/ /\ swept' = Issued /\ lineage' = lineage
            /\ task'[w].step = "idle"
            /\ \A t \in Tokens : /\ token'[t] = "absent" <=> token[t] = "absent"
                                 /\ token'[t] # "live"
<1>1. ASSUME Revoke(Tokens)
      PROVE  \A t \in Tokens : /\ token'[t] = "absent" <=> token[t] = "absent"
                               /\ token'[t] # "live"
  BY <1>1 DEF Revoke, TypeOK
<1>2. CASE RevokeAll(w)
  <2>1. Revoke(Tokens) /\ swept' = Issued /\ lineage' = lineage /\ task'[w].step = "idle"
    BY <1>2 DEF RevokeAll, SessionsOfUser, Proceed, Idle, TypeOK
  <2> QED
    BY <1>1, <2>1
<1>3. ASSUME NEW ts \in SUBSET Tokens, Logout(w, ts), ts = Tokens
      PROVE  /\ Revoke(Tokens) /\ swept' = Issued /\ lineage' = lineage
             /\ task'[w].step = "idle"
  BY <1>3 DEF Logout, Free, Idle
<1>4. ASSUME NEW ts \in SUBSET Tokens, Logout(w, ts), ts # Tokens
      PROVE  swept' = swept
  BY <1>4 DEF Logout
<1>5. CASE ~ RevokeAll(w) /\ \A ts \in SUBSET Tokens : ~ Logout(w, ts)
  BY <1>5 DEF Handle, SendCount, SendBegin, SendCommit, VerifyRead, CountAttempt, ConsumeCode,
              VerifyDevCode, FindUser, RegisterRead, CreateUser, IssueToken, RotateRead,
              RevokeOld, Abort, tokenVars
<1> QED
  BY <1>1, <1>2, <1>3, <1>4, <1>5

LEMMA SweptHandle ==
  ASSUME TypeOK, ProvenInv, SweptInv, NEW w \in Workers, Handle(w)
  PROVE  SweptInv'
<1>1. \A t \in swept' : token'[t] = "revoked"
  <2>1. CASE swept' = swept
    BY <2>1, RevokedStays DEF SweptInv, TypeOK
  <2>2. CASE /\ swept' = Issued
             /\ \A t \in Tokens : /\ token'[t] = "absent" <=> token[t] = "absent"
                                  /\ token'[t] # "live"
    <3>1. token' \in [Tokens -> {"absent", "live", "revoked"}]
      BY TypeStep DEF Next, TypeOK
    <3> QED
      BY <2>2, <3>1 DEF Issued
  <2> QED
    BY <2>1, <2>2, SweepSteps
<1>2. ASSUME NEW t \in Tokens, token'[t] = "absent" PROVE lineage'[t] = {}
  <2>1. token[t] = "absent" /\ lineage[t] = {}
    BY <1>2, TokenRows DEF SweptInv
  <2>2. ASSUME NEW u \in Tokens, IssueToken(w, u) PROVE lineage'[t] = lineage[t]
    BY <1>2, <2>2 DEF IssueToken, TypeOK
  <2> QED
    BY <2>1, <2>2, TokenWriters DEF RevokeAll, RevokeOld, Logout
<1> QED
  BY <1>1, <1>2 DEF SweptInv

LEMMA SweepHandle ==
  ASSUME TypeOK, SweptInv, SweepInv, NEW w \in Workers, Handle(w)
  PROVE  SweepInv'
<1> SUFFICES ASSUME swept' # {}
             PROVE  /\ IsFiniteSet(Escaped')
                    /\ Cardinality(Escaped') + Cardinality(Escaping') < Cardinality(Workers)
  BY DEF SweepInv
<1>o. \A v \in Workers : v # w => task'[v] = task[v]
  BY OtherTasks
<1>w. Escaping \in SUBSET Workers /\ Escaping' \in SUBSET Workers
  BY DEF Escaping
<1>n. /\ Cardinality(Escaping) \in Nat /\ Cardinality(Escaping') \in Nat
      /\ Cardinality(Workers) \in Nat
  BY <1>w, WorkerSets
<1>1. CASE swept' = Issued /\ lineage' = lineage /\ task'[w].step = "idle"
  <2>1. Escaped' = {}
    BY <1>1 DEF Escaped, Issued, SweptInv
  <2>2. Escaping' \subseteq Workers \ {w}
    BY <1>1 DEF Escaping, Issuing, At
  <2>3. Cardinality(Escaping') + 1 <= Cardinality(Workers)
    BY <2>2, OneLessCounts
  <2> QED
    BY <1>n, <2>1, <2>3, FS_EmptySet
<1>2. ASSUME swept' = swept, NEW t,
             \/ Escaped' \subseteq Escaped /\ Escaping' \subseteq Escaping
             \/ /\ w \in Escaping /\ Escaping' \subseteq Escaping \ {w}
                /\ Escaped' \subseteq Escaped \cup {t}
      PROVE  /\ IsFiniteSet(Escaped')
             /\ Cardinality(Escaped') + Cardinality(Escaping') < Cardinality(Workers)
  <2>1. IsFiniteSet(Escaped) /\ Cardinality(Escaped) + Cardinality(Escaping) < Cardinality(Workers)
    BY <1>2 DEF SweepInv
  <2>2. /\ IsFiniteSet(Escaped')
        /\ Cardinality(Escaped') + Cardinality(Escaping') <= Cardinality(Escaped) + Cardinality(Escaping)
    BY <1>2, <1>w, <2>1, HandedOver
  <2>3. Cardinality(Escaped) \in Nat /\ Cardinality(Escaped') \in Nat
    BY <2>1, <2>2, FS_CardinalityType
  <2> QED
    BY <1>n, <2>1, <2>2, <2>3
<1>3. ASSUME swept' = swept, lineage' = lineage, Escaping' \subseteq Escaping
      PROVE  /\ IsFiniteSet(Escaped')
             /\ Cardinality(Escaped') + Cardinality(Escaping') < Cardinality(Workers)
  BY <1>2, <1>3 DEF Escaped
<1>4. ASSUME swept' = swept, NEW t \in Tokens, RotateRead(w, t), token[t] # "revoked"
      PROVE  /\ IsFiniteSet(Escaped')
             /\ Cardinality(Escaped') + Cardinality(Escaping') < Cardinality(Workers)
  <2>1. lineage' = lineage /\ task'[w] = [step |-> "revoke_old", token |-> t]
    BY <1>4 DEF RotateRead, Proceed, tokenVars, TypeOK
  <2>2. t \notin swept
    BY <1>4 DEF SweptInv
  <2>3. Escaping' \subseteq Escaping
    BY <1>4, <1>o, <2>1, <2>2 DEF Escaping, Issuing, At
  <2> QED
    BY <1>3, <1>4, <2>1, <2>3
<1>5. ASSUME swept' = swept, RevokeOld(w)
      PROVE  /\ IsFiniteSet(Escaped')
             /\ Cardinality(Escaped') + Cardinality(Escaping') < Cardinality(Workers)
  <2>1. /\ lineage' = lineage
        /\ task'[w] = [step |-> "issue", origin |-> "rotation",
                       lineage |-> lineage[task[w].token] \cup {task[w].token}]
    BY <1>5 DEF RevokeOld, Issue, Proceed, TypeOK
  <2>2. Escaping' \subseteq Escaping
    BY <1>5, <1>o, <2>1 DEF Escaping, Issuing, At, RevokeOld
  <2> QED
    BY <1>3, <1>5, <2>1, <2>2
<1>6. ASSUME swept' = swept, NEW t \in Tokens, IssueToken(w, t)
      PROVE  /\ IsFiniteSet(Escaped')
             /\ Cardinality(Escaped') + Cardinality(Escaping') < Cardinality(Workers)
  <2>1. /\ lineage'[t] = task[w].lineage
        /\ \A u \in Tokens : u # t => lineage'[u] = lineage[u]
        /\ Issuing(w)
        /\ task'[w].step = "idle"
    BY <1>6 DEF IssueToken, Issuing, Proceed, Idle, TypeOK
  <2>2. Escaping' \subseteq Escaping \ {w}
    BY <1>6, <1>o, <2>1 DEF Escaping, Issuing, At
  <2>3. CASE w \in Escaping
    <3>1. Escaped' \subseteq Escaped \cup {t}
      BY <1>6, <2>1 DEF Escaped
    <3> QED
      BY <1>2, <1>6, <2>2, <2>3, <3>1
  <2>4. CASE w \notin Escaping
    <3>1. Escaped' \subseteq Escaped
      BY <1>6, <2>1, <2>4 DEF Escaped, Escaping
    <3> QED
      BY <1>2, <1>6, <2>2, <3>1
  <2> QED
    BY <2>3, <2>4
<1>7. ASSUME swept' = swept,
             /\ lineage' = lineage
             /\ \/ task'[w] = task[w]
                \/ task'[w].step \notin {"revoke_old", "issue"}
                \/ task'[w].step = "issue" /\ task'[w].lineage = {}
      PROVE  /\ IsFiniteSet(Escaped')
             /\ Cardinality(Escaped') + Cardinality(Escaping') < Cardinality(Workers)
  <2>1. Escaping' \subseteq Escaping
    BY <1>o, <1>7 DEF Escaping, Issuing, At
  <2> QED
    BY <1>3, <1>7, <2>1
<1> QED
  BY <1>1, <1>4, <1>5, <1>6, <1>7, SweepSteps, ExchangeSteps

\* What was swept stays revoked, whatever happens then.
THEOREM SweptCorrect == Spec => []SweptInv
<1>1. Init => SweptInv
  BY DEF Init, SweptInv
<1>2. TypeOK /\ ProvenInv /\ SweptInv /\ [Next]_vars => SweptInv'
  <2>1. SweptInv /\ UNCHANGED <<token, lineage, swept>> => SweptInv'
    BY DEF SweptInv
  <2> QED
    BY <2>1, SweptHandle, TimeTasks DEF Next, vars, tokenVars
<1> QED
  BY <1>1, <1>2, TypeCorrect, ProvenCorrect, PTL DEF Spec

\* A revocation of every session misses one pair at most for each other handler:
\* those whose rotation had read its token before (TokenService.rotate, revoke).
THEOREM SweepCorrect == Spec => []SweepMissesFew
<1>1. Init => SweepInv
  BY DEF Init, SweepInv
<1>2. TypeOK /\ SweptInv /\ SweepInv /\ [Next]_vars => SweepInv'
  <2>1. ASSUME SweepInv, UNCHANGED <<lineage, swept, task>> PROVE SweepInv'
    <3>1. Escaped' = Escaped /\ Escaping' = Escaping
      BY <2>1 DEF Escaped, Escaping, Issuing, At
    <3> QED
      BY <2>1, <3>1 DEF SweepInv
  <2> QED
    BY <2>1, SweepHandle, TimeTasks DEF Next, vars, tokenVars
<1>3. SweepInv => SweepMissesFew
  <2> SUFFICES ASSUME SweepInv, swept # {} PROVE Cardinality(Escaped) < Cardinality(Workers)
    BY DEF SweepMissesFew
  <2>1. Escaping \in SUBSET Workers
    BY DEF Escaping
  <2>2. /\ Cardinality(Escaped) \in Nat /\ Cardinality(Escaping) \in Nat
        /\ Cardinality(Escaped) + Cardinality(Escaping) < Cardinality(Workers)
    BY <2>1, WorkerSets, FS_CardinalityType DEF SweepInv
  <2> QED
    BY <2>2, WorkerSets
<1> QED
  BY <1>1, <1>2, <1>3, TypeCorrect, SweptCorrect, PTL DEF Spec

=============================================================================
