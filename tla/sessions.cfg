\* Two handlers in flight: the codes of the number, of which one more is asked for
\* than the limit allows, or else the account and its tokens, entered by the code
\* of the development build.
SPECIFICATION Spec
CONSTANTS
  Workers = {w1, w2}
  Tokens = {t1, t2, t3, t4}
  MaxCodes = 3
  MaxAttempts = 2
  HourlyLimit = 1
  ThrottleDisabled = FALSE
  AcceptDevCode = TRUE
SYMMETRY Symmetric
CONSTRAINT CodesOrTokens
INVARIANT AttemptsBounded
INVARIANT CodesPerHour
INVARIANT FewActiveCodes
INVARIANT RotatedIsRevoked
INVARIANT ExchangesBounded
INVARIANT SweepMissesFew
INVARIANT OneRegistration
INVARIANT AccountsProven
\* The codes and the tokens run out.
CHECK_DEADLOCK FALSE
