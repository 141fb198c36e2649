SPECIFICATION FairSpec
CONSTANTS
  awa = awa
  koffi = koffi
  p1 = p1
  b1 = b1
  Users = {awa, koffi}
  Providers = {p1}
  Bookings = {b1}
  Payments = {r1}
  Workers = {w1, w2}
  ProviderUser <- MCProviderUser
  ClientOf <- MCClientOf
  ProviderOf <- MCProviderOf
  BookingOf <- MCBookingOf
  GatewayMode = "mock"
  AutocompleteMs = 10
  Faults = {}
INVARIANT PaidNotLeftPending
PROPERTY DepositConfirms
PROPERTY TimersSettle
\* The one booking and the references run out, and with them the requests.
CHECK_DEADLOCK FALSE
