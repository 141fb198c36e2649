\* Two messages, pages of one message, three handlers: both messages are sent while
\* a page is read.
SPECIFICATION Spec
CONSTANTS
  Workers = {w1, w2, w3}
  Client = client
  Provider = provider
  Listener = provider
  MaxMessages = 2
  Limit = 1
SYMMETRY Symmetric
CONSTRAINT OneThread
INVARIANT NothingMissed
INVARIANT ReadWasListed
INVARIANT LastIsNewest
INVARIANT TicketFollows
\* All messages may have been sent.
CHECK_DEADLOCK FALSE
