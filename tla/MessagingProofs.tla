--------------------------- MODULE MessagingProofs ---------------------------
(***************************************************************************)
(* Theorems about Messaging, for any number of workers and messages and    *)
(* any size of a page.                                                     *)
(***************************************************************************)
EXTENDS Messaging, FiniteSetTheorems, TLAPS

----------------------------------------------------------------------------
(* Tasks *)

\* The step of a task tells which fields it has.
LEMMA TaskShape ==
  ASSUME NEW t \in Tasks
  PROVE  /\ t.step \in {"commit_message", "emit"} => t.message \in Messages
         /\ t.step \in {"count", "mark"} =>
              t.user \in Users /\ t.page \in SUBSET Messages /\ t.live \in BOOLEAN /\ t.more \in BOOLEAN
         /\ t.step = "commit_reply" => t.status \in TicketStatuses
BY DEF Tasks, Idle, SendTasks, ListTasks, ReplyTasks

\* What the actions pass to Proceed is a task.
LEMMA NextTasks ==
  /\ Idle \in Tasks
  /\ \A n \in Messages : /\ [step |-> "commit_message", message |-> n] \in Tasks
                         /\ [step |-> "emit", message |-> n] \in Tasks
  /\ \A step \in {"count", "mark"}, u \in Users, page \in SUBSET Messages, live, more \in BOOLEAN :
       [step |-> step, user |-> u, page |-> page, live |-> live, more |-> more] \in Tasks
  /\ \A step \in {"count", "mark"}, u \in Users : Unfollowed(step, u) \in Tasks
  /\ \A status \in TicketStatuses : [step |-> "commit_reply", status |-> status] \in Tasks
BY DEF Tasks, Idle, SendTasks, ListTasks, ReplyTasks, Unfollowed

\* A worker that proceeds keeps the others' tasks.
LEMMA ProceedType ==
  ASSUME task \in [Workers -> Tasks], NEW w \in Workers, NEW t \in Tasks, Proceed(w, t)
  PROVE  /\ task' \in [Workers -> Tasks]
         /\ task'[w] = t
         /\ \A v \in Workers : v # w => task'[v] = task[v]
BY DEF Proceed

\* A disconnection leaves every handler at its step and for its user.
LEMMA DisconnectTasks ==
  ASSUME task \in [Workers -> Tasks], Disconnect
  PROVE  /\ task' \in [Workers -> Tasks]
         /\ \A w \in Workers :
              \/ task'[w] = task[w] /\ w \notin Listing(Listener)
              \/ /\ task[w].step \in {"count", "mark"} /\ task[w].user = Listener
                 /\ task'[w].step = task[w].step /\ task'[w].user = Listener
                 /\ task'[w].live = FALSE
PROOF
  <1>1. \A w \in Listing(Listener) : task[w].step \in {"count", "mark"} /\ task[w].user = Listener
    BY DEF Listing, Doing, At
  <1>2. Listener \in Users
    BY UsersAssumption DEF Users
  <1>3. task' \in [Workers -> Tasks]
    BY <1>1, <1>2, NextTasks DEF Disconnect
  <1>4. \A w \in Workers : \/ task'[w] = task[w] /\ w \notin Listing(Listener)
                           \/ /\ w \in Listing(Listener)
                              /\ task'[w] = Unfollowed(task[w].step, Listener)
    BY DEF Disconnect
  <1>5. \A step : /\ Unfollowed(step, Listener).step = step
                  /\ Unfollowed(step, Listener).user = Listener
                  /\ Unfollowed(step, Listener).live = FALSE
    BY DEF Unfollowed
  <1> QED
    BY <1>1, <1>3, <1>4, <1>5

----------------------------------------------------------------------------
(* Pages *)

\* Counts of messages are numbers.
LEMMA MessageSets ==
  ASSUME NEW S \in SUBSET Messages
  PROVE  IsFiniteSet(S) /\ Cardinality(S) \in Nat
PROOF
  <1>1. IsFiniteSet(Messages)
    BY BoundsAssumption, FS_Interval DEF Messages
  <1> QED
    BY <1>1, FS_Subset, FS_CardinalityType

LEMMA BeforeCounts ==
  ASSUME stored \subseteq Messages, NEW n
  PROVE  /\ Cardinality(Before(n)) \in Nat
         /\ n \in stored => Cardinality(Before(n)) < Cardinality(stored)
PROOF
  <1>1. Before(n) \in SUBSET stored /\ Before(n) \in SUBSET Messages
    BY DEF Before
  <1>2. IsFiniteSet(stored) /\ Cardinality(Before(n)) \in Nat /\ Cardinality(stored) \in Nat
    BY <1>1, MessageSets
  <1>3. n \in stored => n \notin Before(n)
    BY DEF Before, Messages
  <1>4. /\ Cardinality(Before(n)) <= Cardinality(stored)
        /\ Cardinality(stored) = Cardinality(Before(n)) => stored = Before(n)
    BY <1>1, <1>2, FS_Subset
  <1> QED
    BY <1>2, <1>3, <1>4

\* A page has no more messages than positions.
LEMMA PageFits ==
  ASSUME stored \subseteq Messages, NEW offset \in Nat
  PROVE  /\ Page(offset) \in SUBSET Messages
         /\ Cardinality(Page(offset)) \in Nat /\ Cardinality(Page(offset)) <= Limit
PROOF
  <1> DEFINE positions == offset..(offset + Limit - 1)
             rank == [n \in Page(offset) |-> Cardinality(Before(n))]
  <1>1. Page(offset) \in SUBSET Messages
    BY DEF Page
  <1>2. \A m, n \in Page(offset) : m < n => Cardinality(Before(m)) < Cardinality(Before(n))
    <2> SUFFICES ASSUME NEW m \in Page(offset), NEW n \in Page(offset), m < n
                 PROVE  Cardinality(Before(m)) < Cardinality(Before(n))
      OBVIOUS
    <2>1. m \in stored /\ n \in stored /\ m \in Nat /\ n \in Nat
      BY BoundsAssumption DEF Page, Messages
    <2>2. \A k \in stored : k \in Nat
      BY BoundsAssumption DEF Messages
    <2>3. Before(m) \in SUBSET Before(n) /\ m \in Before(n) /\ m \notin Before(m)
      <3>1. \A k \in stored : k < m => k < n
        BY <2>1, <2>2
      <3>2. ~ (m < m)
        BY <2>1
      <3> QED
        BY <2>1, <3>1, <3>2 DEF Before
    <2>4. Before(m) \in SUBSET Messages /\ Before(n) \in SUBSET Messages
      BY DEF Before
    <2>5. /\ IsFiniteSet(Before(n)) /\ Cardinality(Before(m)) \in Nat /\ Cardinality(Before(n)) \in Nat
      BY <2>4, MessageSets
    <2>6. /\ Cardinality(Before(m)) <= Cardinality(Before(n))
          /\ Cardinality(Before(n)) = Cardinality(Before(m)) => Before(n) = Before(m)
      BY <2>3, <2>5, FS_Subset
    <2> QED
      BY <2>3, <2>5, <2>6
  <1>3. \A m, n \in Page(offset) : rank[m] = rank[n] => m = n
    <2>1. \A n \in Page(offset) : n \in Int /\ Cardinality(Before(n)) \in Nat
      BY <1>1, BeforeCounts, BoundsAssumption DEF Messages
    <2> QED
      BY <1>2, <2>1
  <1>4. rank \in [Page(offset) -> positions]
    BY DEF Page
  <1>5. rank \in Injection(Page(offset), positions)
    BY <1>3, <1>4 DEF Injection, IsInjective
  <1>6. IsFiniteSet(positions) /\ Cardinality(positions) = Limit
    BY BoundsAssumption, FS_Interval
  <1>7. Cardinality(Page(offset)) <= Limit
    BY <1>5, <1>6, FS_Injection
  <1> QED
    BY <1>1, <1>7, MessageSets

----------------------------------------------------------------------------
(* Type correctness *)

LEMMA TypeInit == Init => TypeOK
PROOF
  <1> SUFFICES ASSUME Init PROVE TypeOK
    OBVIOUS
  <1>1. task \in [Workers -> Tasks] /\ author \in [Messages -> Users \cup {"nobody"}]
    BY NextTasks DEF Init
  <1>2. walk \in [shown: SUBSET Messages, next: Nat, ended: BOOLEAN]
    BY DEF Init, NoWalk
  <1>3. desk \in [status: TicketStatuses, answered: BOOLEAN, overlapped: BOOLEAN]
    BY DEF Init, TicketStatuses
  <1> QED
    BY <1>1, <1>2, <1>3 DEF Init, TypeOK

LEMMA TypeConversation ==
  ASSUME TypeOK, NEW w \in Workers, Conversation(w) \/ Abort(w)
  PROVE  TypeOK'
PROOF
  <1> USE NextTasks, ProceedType
  <1>a. task \in [Workers -> Tasks] /\ task[w] \in Tasks
    BY DEF TypeOK
  <1>b. Listener \in Users
    BY UsersAssumption DEF Users
  <1>1. ASSUME NEW u \in Users, NEW n \in Messages, SendMessage(w, u, n) PROVE TypeOK'
    <2>1. task' \in [Workers -> Tasks]
      BY <1>1, <1>a DEF SendMessage
    <2>2. Sending \subseteq Messages
      BY TaskShape DEF Sending, Doing, At, TypeOK
    <2>3. overlaps' \subseteq SUBSET Messages
      BY <1>1, <2>2 DEF SendMessage, TypeOK
    <2> QED
      BY <1>1, <2>1, <2>3 DEF SendMessage, TypeOK, socketVars, ticketVars
  <1>2. CASE CommitMessage(w)
    <2>1. task[w].message \in Messages
      BY <1>2, <1>a, TaskShape DEF CommitMessage, At
    <2>2. task' \in [Workers -> Tasks]
      BY <1>2, <1>a, <2>1 DEF CommitMessage
    <2> QED
      BY <1>2, <2>1, <2>2 DEF CommitMessage, Latest, TypeOK, socketVars, ticketVars
  <1>3. CASE Emit(w)
    <2>1. task[w].message \in Messages
      BY <1>3, <1>a, TaskShape DEF Emit, At
    <2> QED
      BY <1>3, <1>a, <2>1 DEF Emit, TypeOK, messageVars, histories, ticketVars
  <1>4. CASE ListNextPage(w)
    <2>1. Page(walk.next) \in SUBSET Messages /\ Incoming(Listener) \in SUBSET Messages
      BY DEF Page, Incoming, TypeOK
    <2>2. task' \in [Workers -> Tasks]
      BY <1>4, <1>a, <1>b, <2>1 DEF ListNextPage
    <2> QED
      BY <1>4, <2>1, <2>2 DEF ListNextPage, TypeOK, messageVars, socketVars, ticketVars
  <1>5. ASSUME NEW u \in Users, ListMessages(w, u) PROVE TypeOK'
    <2>1. Incoming(u) \in SUBSET Messages
      BY DEF Incoming, TypeOK
    <2>2. task' \in [Workers -> Tasks]
      BY <1>5, <1>a DEF ListMessages
    <2> QED
      BY <1>5, <2>1, <2>2 DEF ListMessages, TypeOK, messageVars, socketVars, ticketVars
  <1>6. CASE CountMessages(w)
    <2>1. task[w].user \in Users /\ task[w].page \in SUBSET Messages /\ task[w].live \in BOOLEAN
      BY <1>6, <1>a, TaskShape DEF CountMessages, At
    <2>2. (task[w].live /\ HasMore(walk.next, task[w].page, Cardinality(stored))) \in BOOLEAN
      OBVIOUS
    <2>3. task' \in [Workers -> Tasks]
      BY <1>6, <1>a, <2>1, <2>2 DEF CountMessages
    <2> QED
      BY <1>6, <2>3 DEF CountMessages, TypeOK, messageVars, socketVars, histories, ticketVars
  <1>7. CASE MarkRead(w)
    <2>1. /\ task[w].page \in SUBSET Messages /\ task[w].more \in BOOLEAN
      BY <1>7, <1>a, TaskShape DEF MarkRead, At
    <2>2. Cardinality(task[w].page) \in Nat
      BY <2>1, MessageSets
    <2>3. walk.next + Cardinality(task[w].page) \in Nat /\ walk.shown \cup task[w].page \in SUBSET Messages
      BY <2>1, <2>2 DEF TypeOK
    <2>4. walk' \in [shown: SUBSET Messages, next: Nat, ended: BOOLEAN]
      <3>1. CASE task[w].live
        BY <1>7, <2>1, <2>3, <3>1 DEF MarkRead
      <3>2. CASE ~ task[w].live
        BY <1>7, <3>2 DEF MarkRead, TypeOK
      <3> QED
        BY <3>1, <3>2
    <2>5. task' \in [Workers -> Tasks] /\ read' \subseteq Messages
      BY <1>7, <1>a DEF MarkRead, ToMark, Incoming, TypeOK
    <2> QED
      BY <1>7, <2>4, <2>5 DEF MarkRead, TypeOK, histories, ticketVars
  <1>8. CASE Abort(w)
    BY <1>8, <1>a DEF Abort, TypeOK, messageVars, socketVars, ticketVars
  <1> QED
    BY <1>1, <1>2, <1>3, <1>4, <1>5, <1>6, <1>7, <1>8 DEF Conversation

LEMMA TypeOthers ==
  ASSUME TypeOK, CreateConversation \/ Gateway \/ Support \/ UNCHANGED vars
  PROVE  TypeOK'
PROOF
  <1> USE NextTasks, ProceedType
  <1>a. task \in [Workers -> Tasks]
    BY DEF TypeOK
  <1>1. CASE CreateConversation
    BY <1>1 DEF CreateConversation, TypeOK, socketVars, histories, ticketVars
  <1>2. CASE Connect \/ \E room \in Rooms : Join(room)
    BY <1>2 DEF Connect, Join, TypeOK, messageVars, histories, ticketVars
  <1>3. CASE Disconnect
    <2>1. task' \in [Workers -> Tasks]
      BY <1>3, <1>a, DisconnectTasks
    <2> QED
      BY <1>3, <2>1 DEF Disconnect, NoWalk, TypeOK, messageVars, histories, ticketVars
  <1>4. CASE CreateTicket
    BY <1>4 DEF CreateTicket, TicketStatuses, TypeOK, messageVars, socketVars, histories
  <1>5. ASSUME NEW w \in Workers, ReadTicket(w) PROVE TypeOK'
    <2>1. ticket \in TicketStatuses
      BY <1>5 DEF ReadTicket, TypeOK
    <2> QED
      BY <1>5, <1>a, <2>1 DEF ReadTicket, TypeOK, messageVars, socketVars, histories, ticketVars
  <1>6. ASSUME NEW w \in Workers, CommitReply(w) PROVE TypeOK'
    <2>1. task[w].status \in TicketStatuses
      BY <1>6, <1>a, TaskShape DEF CommitReply, At
    <2>2. Reopened(task[w].status) \in TicketStatuses
      BY <2>1 DEF Reopened, TicketStatuses
    <2> QED
      BY <1>6, <1>a, <2>2 DEF CommitReply, TypeOK, messageVars, socketVars, histories
  <1>7. ASSUME NEW status \in TicketStatuses, SupportDecides(status) PROVE TypeOK'
    BY <1>7 DEF SupportDecides, TypeOK, messageVars, socketVars, histories
  <1>8. CASE UNCHANGED vars
    BY <1>8 DEF vars, messageVars, socketVars, histories, ticketVars, TypeOK
  <1> QED
    BY <1>1, <1>2, <1>3, <1>4, <1>5, <1>6, <1>7, <1>8 DEF Gateway, Support

LEMMA TypeNext == TypeOK /\ [Next]_vars => TypeOK'
BY TypeConversation, TypeOthers DEF Next

\* Every statement of the three services finds in its task what it uses, and the
\* rows, rooms and walks keep their types.
THEOREM TypeCorrect == Spec => []TypeOK
BY TypeInit, TypeNext, PTL DEF Spec

----------------------------------------------------------------------------
(* Read marks *)

\* What a listing in flight may mark is counted already.
ReadInv ==
  /\ TypeOK
  /\ ReadWasListed
  /\ \A w \in Workers : task[w].step \in {"count", "mark"} => Incoming(task[w].user) \subseteq counted

LEMMA ReadInit == Init => ReadInv
BY TypeInit DEF Init, ReadInv, ReadWasListed, Idle

\* No other step makes a listing, stores a message or marks one.
LEMMA ReadQuiet ==
  ASSUME ReadInv, TypeOK', UNCHANGED <<stored, read, counted>>,
         \A n \in stored, u \in Users : author[n] = u => author'[n] = u,
         \A w \in Workers :
           task'[w].step \in {"count", "mark"} =>
             task[w].step \in {"count", "mark"} /\ task'[w].user = task[w].user
  PROVE  ReadInv'
PROOF
  <1>1. ASSUME NEW w \in Workers, task'[w].step \in {"count", "mark"}
        PROVE  Incoming(task[w].user)' \subseteq counted'
    <2>1. Incoming(task[w].user) \subseteq counted /\ task'[w].user = task[w].user
      BY <1>1 DEF ReadInv
    <2>2. task[w].user \in Users
      BY <1>1, TaskShape DEF ReadInv, TypeOK
    <2>3. \A n \in stored : author[n] = task[w].user => author'[n] = task[w].user
      BY <2>2
    <2>4. Incoming(task[w].user)' \subseteq Incoming(task[w].user)
      BY <2>1, <2>3 DEF Incoming
    <2> QED
      BY <2>1, <2>4
  <1> QED
    BY <1>1 DEF ReadInv, ReadWasListed

LEMMA ReadConversation ==
  ASSUME ReadInv, TypeOK', NEW w \in Workers, Conversation(w) \/ Abort(w)
  PROVE  ReadInv'
PROOF
  <1>a. task \in [Workers -> Tasks] /\ task[w] \in Tasks
    BY DEF ReadInv, TypeOK
  <1>b. \A t : Proceed(w, t) => task'[w] = t /\ \A v \in Workers : v # w => task'[v] = task[v]
    BY <1>a DEF Proceed
  <1>c. \A v \in Workers : task[v].step \in {"count", "mark"} => Incoming(task[v].user) \subseteq counted
    BY DEF ReadInv
  <1>d. read \subseteq counted
    BY DEF ReadInv, ReadWasListed
  <1>1. ASSUME NEW u \in Users, NEW n \in Messages, SendMessage(w, u, n) PROVE ReadInv'
    <2>1. author[n] \notin Users
      BY <1>1, UsersAssumption DEF SendMessage, Users
    <2>2. author \in [Messages -> Users \cup {"nobody"}] /\ author' = [author EXCEPT ![n] = u]
          /\ stored \subseteq Messages
      BY <1>1 DEF SendMessage, ReadInv, TypeOK
    <2>3. \A m \in stored, x \in Users : author[m] = x => author'[m] = x
      BY <2>1, <2>2
    <2>4. UNCHANGED <<stored, read, counted>>
      BY <1>1 DEF SendMessage
    <2>5. \A v \in Workers : task'[v].step \in {"count", "mark"} => task'[v] = task[v]
      BY <1>1, <1>b DEF SendMessage
    <2> QED
      BY <2>3, <2>4, <2>5, ReadQuiet
  <1>2. CASE CommitMessage(w)
    <2> DEFINE n == task[w].message
    <2>1. n \in Messages
      BY <1>2, <1>a, TaskShape DEF CommitMessage, At
    <2>2. /\ task'[w] = [step |-> "emit", message |-> n]
          /\ \A v \in Workers : v # w => task'[v] = task[v]
      BY <1>2, <1>b DEF CommitMessage
    <2>3. stored' = stored \cup {n} /\ UNCHANGED <<author, read>> /\ counted \subseteq counted'
      BY <1>2 DEF CommitMessage
    <2>4. ASSUME NEW v \in Workers, task'[v].step \in {"count", "mark"}
          PROVE  Incoming(task[v].user)' \subseteq counted'
      <3>1. task'[v] = task[v] /\ task[v].step \in {"count", "mark"}
        BY <2>2, <2>4
      <3>2. task[v].user \in Users /\ Listing(task[v].user) # {}
        BY <1>a, <3>1, TaskShape DEF Listing, Doing, At
      <3>3. author[n] # task[v].user => n \in counted'
        BY <1>2, <3>2 DEF CommitMessage
      <3> QED
        BY <1>c, <2>3, <3>1, <3>3 DEF Incoming
    <2> QED
      BY <1>d, <2>3, <2>4 DEF ReadInv, ReadWasListed
  <1>3. CASE Emit(w) \/ CountMessages(w) \/ Abort(w)
    <2>1. UNCHANGED <<stored, read, counted, author>>
      BY <1>3 DEF Emit, CountMessages, Abort, messageVars, histories
    <2>2. \A v \in Workers : task'[v].step \in {"count", "mark"} =>
            task[v].step \in {"count", "mark"} /\ task'[v].user = task[v].user
      BY <1>3, <1>b DEF Emit, CountMessages, Abort, Idle, At
    <2> QED
      BY <2>1, <2>2, ReadQuiet
  <1>4. ASSUME NEW u \in Users, ListMessages(w, u) \/ (u = Listener /\ ListNextPage(w)) PROVE ReadInv'
    <2>1. task'[w].user = u /\ \A v \in Workers : v # w => task'[v] = task[v]
      BY <1>4, <1>b DEF ListMessages, ListNextPage, Unfollowed
    <2>2. UNCHANGED <<stored, read, author>> /\ counted' = counted \cup Incoming(u)
      BY <1>4 DEF ListMessages, ListNextPage, messageVars
    <2> QED
      BY <1>c, <1>d, <2>1, <2>2 DEF ReadInv, ReadWasListed, Incoming
  <1>5. CASE MarkRead(w)
    <2>1. task[w].step \in {"count", "mark"}
      BY <1>5 DEF MarkRead, At
    <2>2. read' \subseteq counted
      BY <1>5, <1>c, <1>d, <2>1 DEF MarkRead, ToMark
    <2>3. UNCHANGED <<stored, counted, author>>
      BY <1>5 DEF MarkRead, histories
    <2>4. \A v \in Workers : task'[v].step \in {"count", "mark"} => task'[v] = task[v]
      BY <1>5, <1>b DEF MarkRead, Idle
    <2> QED
      BY <1>c, <2>2, <2>3, <2>4 DEF ReadInv, ReadWasListed, Incoming
  <1>6. Listener \in Users
    BY UsersAssumption DEF Users
  <1> QED
    BY <1>1, <1>2, <1>3, <1>4, <1>5, <1>6 DEF Conversation

LEMMA ReadNext == ReadInv /\ [Next]_vars => ReadInv'
PROOF
  <1> SUFFICES ASSUME ReadInv, [Next]_vars PROVE ReadInv'
    OBVIOUS
  <1>a. TypeOK' /\ task \in [Workers -> Tasks]
    BY TypeNext DEF ReadInv, TypeOK
  <1>b. ASSUME NEW w \in Workers
        PROVE  \A t : Proceed(w, t) => task'[w] = t /\ \A v \in Workers : v # w => task'[v] = task[v]
    BY <1>a DEF Proceed
  <1>1. ASSUME NEW w \in Workers, Conversation(w) \/ Abort(w) PROVE ReadInv'
    BY <1>1, <1>a, ReadConversation
  <1>2. CASE CreateConversation \/ (Connect \/ \E room \in Rooms : Join(room)) \/ UNCHANGED vars
    <2>1. UNCHANGED <<stored, read, author, counted, task>>
      BY <1>2 DEF CreateConversation, Connect, Join, vars, messageVars, histories
    <2> QED
      BY <1>a, <2>1, ReadQuiet
  <1>3. CASE Disconnect
    <2>1. UNCHANGED <<stored, read, author, counted>>
      BY <1>3 DEF Disconnect, messageVars, histories
    <2>2. \A v \in Workers : task'[v].step \in {"count", "mark"} =>
            task[v].step \in {"count", "mark"} /\ task'[v].user = task[v].user
      BY <1>3, <1>a, DisconnectTasks
    <2> QED
      BY <1>a, <2>1, <2>2, ReadQuiet
  <1>4. CASE Support
    <2>1. UNCHANGED <<stored, read, author, counted>>
      BY <1>4 DEF Support, CreateTicket, ReadTicket, CommitReply, SupportDecides, messageVars, histories
    <2>2. \A v \in Workers : task'[v].step \in {"count", "mark"} => task'[v] = task[v]
      BY <1>4, <1>b DEF Support, CreateTicket, ReadTicket, CommitReply, SupportDecides, Idle
    <2> QED
      BY <1>a, <2>1, <2>2, ReadQuiet
  <1> QED
    BY <1>1, <1>2, <1>3, <1>4 DEF Next, Gateway

\* listMessages marks more than its page, but never a message that was stored
\* after the listing, or before the first one.
THEOREM ReadCorrect == Spec => []ReadWasListed
PROOF
  <1>1. ReadInv => ReadWasListed
    BY DEF ReadInv
  <1> QED
    BY <1>1, ReadInit, ReadNext, PTL DEF Spec

----------------------------------------------------------------------------
(* The ticket *)

Wanted == IF desk.answered THEN Reopened(desk.status) ELSE desk.status

\* A reply in flight read the agent's last decision, or what a reply made of it.
TicketInv ==
  /\ TypeOK
  /\ TicketFollows
  /\ ticket = "absent" => /\ desk.status = "open" /\ ~ desk.answered
                          /\ Doing("commit_reply") = {}
  /\ ~ desk.overlapped =>
       \A w \in Doing("commit_reply") : task[w].status \in {desk.status, Reopened(desk.status)}

LEMMA ReopenedTwice ==
  ASSUME NEW status
  PROVE  Reopened(status) \notin Ended /\ Reopened(Reopened(status)) = Reopened(status)
BY DEF Reopened, Ended

LEMMA TicketInit == Init => TicketInv
BY TypeInit DEF Init, TicketInv, TicketFollows, Doing, At, Idle

LEMMA TicketSupport ==
  ASSUME TicketInv, TypeOK', Support
  PROVE  TicketInv'
PROOF
  <1>a. task \in [Workers -> Tasks]
    BY DEF TicketInv, TypeOK
  <1>b. desk \in [status: TicketStatuses, answered: BOOLEAN, overlapped: BOOLEAN]
    BY DEF TicketInv, TypeOK
  <1>1. CASE CreateTicket
    <2>1. /\ ticket = "absent" /\ ticket' = "open" /\ UNCHANGED <<desk, task>>
      BY <1>1 DEF CreateTicket
    <2>2. desk.status = "open" /\ ~ desk.answered /\ Doing("commit_reply") = {}
      BY <2>1 DEF TicketInv
    <2> QED
      BY <2>1, <2>2 DEF TicketInv, TicketFollows, Doing, At
  <1>2. ASSUME NEW w \in Workers, ReadTicket(w) PROVE TicketInv'
    <2>1. /\ task'[w] = [step |-> "commit_reply", status |-> ticket]
          /\ \A v \in Workers : v # w => task'[v] = task[v]
      BY <1>2, <1>a DEF ReadTicket, Proceed
    <2>2. ticket # "absent" /\ UNCHANGED <<ticket, desk>>
      BY <1>2 DEF ReadTicket, ticketVars
    <2>3. ~ desk.overlapped => ticket \in {desk.status, Reopened(desk.status)}
      BY <2>2 DEF TicketInv, TicketFollows
    <2>4. ~ desk.overlapped =>
            \A v \in Workers : At(v, "commit_reply")' => task'[v].status \in {desk.status, Reopened(desk.status)}
      BY <2>1, <2>3 DEF TicketInv, Doing, At
    <2> QED
      BY <2>2, <2>4 DEF TicketInv, TicketFollows, Doing
  <1>3. ASSUME NEW w \in Workers, CommitReply(w) PROVE TicketInv'
    <2>1. task'[w] = Idle /\ \A v \in Workers : v # w => task'[v] = task[v]
      BY <1>3, <1>a DEF CommitReply, Proceed
    <2>2. ticket' = Reopened(task[w].status) /\ w \in Doing("commit_reply")
      BY <1>3 DEF CommitReply, Doing
    <2>3. /\ desk'.answered /\ desk'.status = desk.status /\ desk'.overlapped = desk.overlapped
      BY <1>3, <1>b DEF CommitReply
    <2>4. ticket' \notin Ended /\ ticket' # "absent"
      BY <1>a, <2>2, ReopenedTwice, TaskShape DEF Doing, At, Reopened, TicketStatuses
    <2>5. ~ desk.overlapped => ticket' = Reopened(desk.status)
      BY <2>2, ReopenedTwice DEF TicketInv
    <2>6. ~ desk.overlapped =>
            \A v \in Workers : At(v, "commit_reply")' => task'[v].status \in {desk.status, Reopened(desk.status)}
      BY <2>1 DEF TicketInv, Doing, At, Idle
    <2> QED
      BY <2>3, <2>4, <2>5, <2>6 DEF TicketInv, TicketFollows, Doing
  <1>4. ASSUME NEW status \in TicketStatuses, SupportDecides(status) PROVE TicketInv'
    <2>1. /\ ticket' = status /\ UNCHANGED task
          /\ desk' = [status |-> status, answered |-> FALSE, overlapped |-> Doing("commit_reply") # {}]
      BY <1>4 DEF SupportDecides
    <2>2. status # "absent"
      BY DEF TicketStatuses
    <2>3. ~ desk'.overlapped => Doing("commit_reply")' = {}
      BY <2>1 DEF Doing, At
    <2> QED
      BY <2>1, <2>2, <2>3 DEF TicketInv, TicketFollows
  <1> QED
    BY <1>1, <1>2, <1>3, <1>4 DEF Support

LEMMA TicketNext == TicketInv /\ [Next]_vars => TicketInv'
PROOF
  <1> SUFFICES ASSUME TicketInv, [Next]_vars PROVE TicketInv'
    OBVIOUS
  <1>a. TypeOK' /\ task \in [Workers -> Tasks]
    BY TypeNext DEF TicketInv, TypeOK
  <1>1. CASE Support
    BY <1>1, <1>a, TicketSupport
  \* Nothing else replies or decides.
  <1>2. ASSUME UNCHANGED <<ticket, desk>>,
               \A v \in Workers : task'[v].step = "commit_reply" => task'[v] = task[v]
        PROVE  TicketInv'
    BY <1>a, <1>2 DEF TicketInv, TicketFollows, Doing, At
  <1>3. ASSUME NEW w \in Workers, Conversation(w) \/ Abort(w) PROVE TicketInv'
    <2>1. UNCHANGED <<ticket, desk>>
      BY <1>3 DEF Conversation, Abort, SendMessage, CommitMessage, Emit, ListNextPage, ListMessages,
                  CountMessages, MarkRead, ticketVars
    <2>2. task'[w].step # "commit_reply" /\ \A v \in Workers : v # w => task'[v] = task[v]
      <3>1. \A t : Proceed(w, t) => task'[w] = t /\ \A v \in Workers : v # w => task'[v] = task[v]
        BY <1>a DEF Proceed
      <3>2. ASSUME NEW u \in Users, NEW n \in Messages, SendMessage(w, u, n)
            PROVE  task'[w].step # "commit_reply" /\ \A v \in Workers : v # w => task'[v] = task[v]
        BY <3>1, <3>2 DEF SendMessage
      <3>3. ASSUME NEW u \in Users, ListMessages(w, u)
            PROVE  task'[w].step # "commit_reply" /\ \A v \in Workers : v # w => task'[v] = task[v]
        BY <3>1, <3>3 DEF ListMessages, Unfollowed
      <3>4. ASSUME CommitMessage(w) \/ Emit(w) \/ ListNextPage(w)
            PROVE  task'[w].step # "commit_reply" /\ \A v \in Workers : v # w => task'[v] = task[v]
        BY <3>1, <3>4 DEF CommitMessage, Emit, ListNextPage, Idle
      <3>5. ASSUME CountMessages(w) \/ MarkRead(w) \/ Abort(w)
            PROVE  task'[w].step # "commit_reply" /\ \A v \in Workers : v # w => task'[v] = task[v]
        BY <3>1, <3>5 DEF CountMessages, MarkRead, Abort, Idle
      <3> QED
        BY <1>3, <3>2, <3>3, <3>4, <3>5 DEF Conversation
    <2> QED
      BY <1>2, <2>1, <2>2
  <1>4. CASE CreateConversation \/ (Connect \/ \E room \in Rooms : Join(room)) \/ UNCHANGED vars
    <2>1. UNCHANGED <<ticket, desk, task>>
      BY <1>4 DEF CreateConversation, Connect, Join, vars, ticketVars
    <2> QED
      BY <1>2, <2>1
  <1>5. CASE Disconnect
    <2>1. UNCHANGED <<ticket, desk>>
      BY <1>5 DEF Disconnect, ticketVars
    <2>2. \A v \in Workers :
            task'[v] = task[v] \/ task'[v].step \in {"count", "mark"}
      BY <1>5, <1>a, DisconnectTasks
    <2> QED
      BY <1>2, <2>1, <2>2
  <1> QED
    BY <1>1, <1>3, <1>4, <1>5 DEF Next, Gateway

\* A reply reopens what was ended, and undoes a decision of the support agent only
\* when SupportService.reply was in flight as it was taken.
THEOREM TicketCorrect == Spec => []TicketFollows
PROOF
  <1>1. TicketInv => TicketFollows
    BY DEF TicketInv
  <1> QED
    BY <1>1, TicketInit, TicketNext, PTL DEF Spec

----------------------------------------------------------------------------
(* The last message *)

Drawn == {n \in Messages : author[n] # "nobody"}

\* A message on its way overlaps all that were drawn after it.
LastInv ==
  /\ TypeOK
  /\ LastIsNewest
  /\ stored \subseteq Drawn
  /\ \A n \in Drawn : \A m \in Messages : m < n => m \in Drawn
  /\ \A w \in Workers : At(w, "commit_message") =>
       /\ task[w].message \in Drawn
       /\ \A m \in Drawn : m > task[w].message => {m, task[w].message} \in overlaps

LEMMA LastInit == Init => LastInv
BY TypeInit DEF Init, LastInv, LastIsNewest, Drawn, At, Idle

LEMMA LastSend ==
  ASSUME LastInv, TypeOK', NEW w \in Workers, NEW u \in Users, NEW n \in Messages, SendMessage(w, u, n)
  PROVE  LastInv'
PROOF
  <1>a. task \in [Workers -> Tasks] /\ author \in [Messages -> Users \cup {"nobody"}]
    BY DEF LastInv, TypeOK
  <1>1. /\ task'[w] = [step |-> "commit_message", message |-> n]
        /\ \A v \in Workers : v # w => task'[v] = task[v]
    BY <1>a DEF SendMessage, Proceed
  <1>2. /\ overlaps \subseteq overlaps' /\ \A m \in Sending : {n, m} \in overlaps'
        /\ UNCHANGED <<stored, last>>
    BY DEF SendMessage
  <1>3. Drawn' = Drawn \cup {n} /\ n \notin Drawn
    BY <1>a, UsersAssumption DEF SendMessage, Drawn, Users
  <1>4. \A m \in Messages : m < n => m \in Drawn
    BY BoundsAssumption DEF SendMessage, Drawn, Messages
  <1>5. \A m \in Drawn : m < n
    <2> SUFFICES ASSUME NEW m \in Drawn, ~ (m < n) PROVE FALSE
      OBVIOUS
    <2>1. m \in Int /\ n \in Int /\ m # n /\ n \in Messages
      BY <1>3 DEF Drawn, Messages
    <2>2. n < m
      BY <2>1
    <2> QED
      BY <1>3, <2>1, <2>2 DEF LastInv
  <1>6. LastIsNewest'
    BY <1>2 DEF LastInv, LastIsNewest
  <1>7. \A k \in Drawn' : \A m \in Messages : m < k => m \in Drawn'
    BY <1>3, <1>4 DEF LastInv
  <1>8. ASSUME NEW v \in Workers, At(v, "commit_message")'
        PROVE  /\ task'[v].message \in Drawn'
               /\ \A m \in Drawn' : m > task'[v].message => {m, task'[v].message} \in overlaps'
    <2>1. CASE v = w
      <3>1. \A m \in Drawn' : ~ (m > n)
        BY <1>3, <1>5 DEF Drawn, Messages
      <3> QED
        BY <1>1, <1>3, <2>1, <3>1
    <2>2. CASE v # w
      <3>1. task'[v] = task[v] /\ At(v, "commit_message")
        BY <1>1, <1>8, <2>2 DEF At
      <3>2. {n, task[v].message} \in overlaps'
        BY <1>2, <3>1 DEF Sending, Doing
      <3> QED
        BY <1>2, <1>3, <3>1, <3>2 DEF LastInv
    <2> QED
      BY <2>1, <2>2
  <1> QED
    BY <1>2, <1>3, <1>6, <1>7, <1>8 DEF LastInv

LEMMA LastCommit ==
  ASSUME LastInv, TypeOK', NEW w \in Workers, CommitMessage(w)
  PROVE  LastInv'
PROOF
  <1> DEFINE n == task[w].message
  <1>a. task \in [Workers -> Tasks]
    BY DEF LastInv, TypeOK
  <1>1. /\ task'[w].step = "emit"
        /\ \A v \in Workers : v # w => task'[v] = task[v]
    BY <1>a DEF CommitMessage, Proceed
  <1>2. /\ stored' = stored \cup {n} /\ last' = n /\ UNCHANGED <<author, overlaps>>
    BY DEF CommitMessage, Latest
  <1>3. n \in Drawn /\ \A m \in Drawn : m > n => {m, n} \in overlaps
    BY DEF LastInv, CommitMessage
  <1>4. Drawn' = Drawn
    BY <1>2 DEF Drawn
  <1>5. LastIsNewest'
    <2>1. n \in Int
      BY <1>3 DEF Drawn, Messages
    <2> QED
      BY <1>2, <1>3, <2>1 DEF LastInv, LastIsNewest
  <1>6. \A v \in Workers : At(v, "commit_message")' => At(v, "commit_message") /\ task'[v] = task[v]
    BY <1>1 DEF At
  <1> QED
    BY <1>2, <1>3, <1>4, <1>5, <1>6 DEF LastInv

LEMMA LastNext == LastInv /\ [Next]_vars => LastInv'
PROOF
  <1> SUFFICES ASSUME LastInv, [Next]_vars PROVE LastInv'
    OBVIOUS
  <1>a. TypeOK' /\ task \in [Workers -> Tasks]
    BY TypeNext DEF LastInv, TypeOK
  \* Nothing else draws or stores a message.
  <1>1. ASSUME UNCHANGED <<author, stored, last, overlaps>>,
               \A v \in Workers : task'[v].step = "commit_message" => task'[v] = task[v]
        PROVE  LastInv'
    BY <1>a, <1>1 DEF LastInv, LastIsNewest, Drawn, At
  <1>2. ASSUME NEW w \in Workers, Conversation(w) \/ Abort(w) PROVE LastInv'
    <2>1. ASSUME NEW u \in Users, NEW n \in Messages, SendMessage(w, u, n) PROVE LastInv'
      BY <1>a, <2>1, LastSend
    <2>2. CASE CommitMessage(w)
      BY <1>a, <2>2, LastCommit
    <2>3. \A t : Proceed(w, t) => task'[w] = t /\ \A v \in Workers : v # w => task'[v] = task[v]
      BY <1>a DEF Proceed
    <2>4. CASE Emit(w) \/ MarkRead(w) \/ Abort(w)
      BY <1>1, <2>3, <2>4 DEF Emit, MarkRead, Abort, Idle, messageVars, histories
    <2>5. CASE ListNextPage(w) \/ CountMessages(w)
      BY <1>1, <2>3, <2>5 DEF ListNextPage, CountMessages, messageVars, histories
    <2>6. ASSUME NEW u \in Users, ListMessages(w, u) PROVE LastInv'
      BY <1>1, <2>3, <2>6 DEF ListMessages, Unfollowed, messageVars
    <2> QED
      BY <1>2, <2>1, <2>2, <2>4, <2>5, <2>6 DEF Conversation
  <1>3. CASE CreateConversation \/ (Connect \/ \E room \in Rooms : Join(room)) \/ UNCHANGED vars
    BY <1>1, <1>3 DEF CreateConversation, Connect, Join, vars, messageVars, histories
  <1>4. CASE Disconnect
    <2>1. \A v \in Workers : task'[v].step = "commit_message" => task'[v] = task[v]
      BY <1>4, <1>a, DisconnectTasks
    <2> QED
      BY <1>1, <1>4, <2>1 DEF Disconnect, messageVars, histories
  <1>5. CASE Support
    <2>1. UNCHANGED <<author, stored, last, overlaps>>
      BY <1>5 DEF Support, CreateTicket, ReadTicket, CommitReply, SupportDecides, messageVars, histories
    <2>2. CASE UNCHANGED task
      BY <1>1, <2>1, <2>2
    <2>3. ASSUME NEW w \in Workers, ReadTicket(w) \/ CommitReply(w) PROVE LastInv'
      <3>1. \A v \in Workers : task'[v].step = "commit_message" => task'[v] = task[v]
        BY <1>a, <2>3 DEF ReadTicket, CommitReply, Proceed, Idle
      <3> QED
        BY <1>1, <2>1, <3>1
    <2> QED
      BY <1>5, <2>2, <2>3 DEF Support, CreateTicket, SupportDecides
  <1> QED
    BY <1>2, <1>3, <1>4, <1>5 DEF Next, Gateway

\* The conversation shows its newest message, but for one that was sent while the
\* transaction of the one that is shown was open.
THEOREM LastCorrect == Spec => []LastIsNewest
PROOF
  <1>1. LastInv => LastIsNewest
    BY DEF LastInv
  <1> QED
    BY <1>1, LastInit, LastNext, PTL DEF Spec

----------------------------------------------------------------------------
(* The walk *)

\* Messages that only a page can still show.
Missing == Incoming(Listener) \ (heard \cup Emitting \cup unsent)

Live(w) == task[w].step \in {"count", "mark"} /\ task[w].live

\* Messages are never removed and a late commit only moves others further down:
\* what the pages so far did not show lies behind them.
WalkInv ==
  /\ TypeOK
  /\ rooms = {} => walk = NoWalk /\ \A w \in Workers : ~ Live(w)
  /\ \A w \in Workers : Live(w) => task[w].user = Listener
  /\ \A v, w \in Workers : Live(v) /\ Live(w) => v = w
  /\ walk.ended => Missing \subseteq walk.shown
  /\ \A n \in Missing : n \in walk.shown \/ Cardinality(Before(n)) >= walk.next
  /\ \A w \in Workers : Live(w) =>
       /\ \A n \in Missing :
            \/ n \in walk.shown \cup task[w].page
            \/ Cardinality(Before(n)) >= walk.next + Cardinality(task[w].page)
       /\ task[w].step = "mark" /\ ~ task[w].more => Missing \subseteq walk.shown \cup task[w].page

LEMMA WalkInit == Init => WalkInv
PROOF
  <1> SUFFICES ASSUME Init PROVE WalkInv
    OBVIOUS
  <1>1. \A w \in Workers : ~ Live(w)
    BY DEF Init, Live, Idle
  <1>2. Missing = {}
    BY DEF Init, Missing, Incoming
  <1> QED
    BY <1>1, <1>2, TypeInit DEF Init, WalkInv

LEMMA BeforeGrows ==
  ASSUME stored \subseteq stored', stored' \subseteq Messages, NEW n
  PROVE  Cardinality(Before(n)) <= Cardinality(Before(n)')
PROOF
  <1>1. Before(n) \in SUBSET Before(n)' /\ Before(n)' \in SUBSET Messages
    BY DEF Before
  <1>2. IsFiniteSet(Before(n)')
    BY <1>1, MessageSets
  <1> QED
    BY <1>1, <1>2, FS_Subset

\* While the socket stays in a room nothing more is missing, and the walk goes on
\* as it was.
LEMMA WalkQuiet ==
  ASSUME WalkInv, TypeOK', UNCHANGED walk, stored \subseteq stored',
         Missing' \subseteq Missing,
         rooms' = {} => rooms = {},
         \A w \in Workers : Live(w)' => task'[w] = task[w]
  PROVE  WalkInv'
PROOF
  <1>1. \A n : Cardinality(Before(n)) <= Cardinality(Before(n)')
    BY BeforeGrows DEF TypeOK
  <1>2. \A n : Cardinality(Before(n)) \in Nat /\ Cardinality(Before(n)') \in Nat
    <2>1. \A n : Cardinality(Before(n)) \in Nat
      BY BeforeCounts DEF WalkInv, TypeOK
    <2>2. \A n : Before(n)' \in SUBSET Messages
      BY DEF Before, TypeOK
    <2> QED
      BY <2>1, <2>2, MessageSets
  <1>3. \A w \in Workers : Live(w)' => Live(w)
    BY DEF Live
  <1>4. walk.next \in Nat
    BY DEF WalkInv, TypeOK
  <1>5. \A n \in Missing' : n \in walk'.shown \/ Cardinality(Before(n)') >= walk'.next
    BY <1>1, <1>2, <1>4 DEF WalkInv
  <1>6. ASSUME NEW w \in Workers, Live(w)'
        PROVE  \A n \in Missing' :
                 \/ n \in walk'.shown \cup task'[w].page
                 \/ Cardinality(Before(n)') >= walk'.next + Cardinality(task'[w].page)
    <2>1. Live(w) /\ task'[w] = task[w]
      BY <1>3, <1>6
    <2>2. Cardinality(task[w].page) \in Nat
      BY <2>1, TaskShape, MessageSets DEF Live, WalkInv, TypeOK
    <2>3. \A n \in Missing : \/ n \in walk.shown \cup task[w].page
                             \/ Cardinality(Before(n)) >= walk.next + Cardinality(task[w].page)
      BY <2>1 DEF WalkInv
    <2> QED
      BY <1>1, <1>2, <1>4, <2>1, <2>2, <2>3
  <1>7. ASSUME NEW w \in Workers, Live(w)', task'[w].step = "mark", ~ task'[w].more
        PROVE  Missing' \subseteq walk'.shown \cup task'[w].page
    BY <1>3, <1>7 DEF WalkInv
  <1>8. \A v, w \in Workers : Live(v)' /\ Live(w)' => v = w /\ task'[v].user = Listener
    BY <1>3 DEF WalkInv
  <1>9. /\ rooms' = {} => walk' = NoWalk /\ \A w \in Workers : ~ Live(w)'
        /\ walk'.ended => Missing' \subseteq walk'.shown
    BY <1>3 DEF WalkInv
  <1> QED
    BY <1>5, <1>6, <1>7, <1>8, <1>9 DEF WalkInv

\* Without a room there is no walk.
LEMMA WalkOutside ==
  ASSUME TypeOK', walk' = NoWalk, \A w \in Workers : ~ Live(w)'
  PROVE  WalkInv'
PROOF
  <1>1. \A n : Cardinality(Before(n)') \in Nat
    BY MessageSets DEF Before, TypeOK
  <1>2. \A n : Cardinality(Before(n)') >= walk'.next
    BY <1>1 DEF NoWalk
  <1> QED
    BY <1>2 DEF WalkInv, NoWalk

LEMMA WalkSend ==
  ASSUME WalkInv, TypeOK', NEW w \in Workers,
         (\E u \in Users, n \in Messages : SendMessage(w, u, n)) \/ CommitMessage(w) \/ Emit(w)
  PROVE  WalkInv'
PROOF
  <1>a. task \in [Workers -> Tasks] /\ task[w] \in Tasks /\ rooms \subseteq Rooms
    BY DEF WalkInv, TypeOK
  <1>b. \A t : Proceed(w, t) => task'[w] = t /\ \A v \in Workers : v # w => task'[v] = task[v]
    BY <1>a DEF Proceed
  <1>1. ASSUME NEW u \in Users, NEW n \in Messages, SendMessage(w, u, n) PROVE WalkInv'
    <2>1. /\ task'[w].step = "commit_message" /\ task[w].step = "idle"
          /\ \A v \in Workers : v # w => task'[v] = task[v]
      BY <1>1, <1>b DEF SendMessage, Free, Idle
    <2>2. UNCHANGED <<stored, walk, rooms, heard, unsent>>
      BY <1>1 DEF SendMessage, socketVars
    <2>3. \A m \in stored : author'[m] # Listener => author[m] # Listener
      BY <1>1, UsersAssumption DEF SendMessage, WalkInv, TypeOK
    <2>4. Emitting \subseteq Emitting'
      BY <2>1 DEF Emitting, Doing, At
    <2>5. Missing' \subseteq Missing
      BY <2>2, <2>3, <2>4 DEF Missing, Incoming
    <2> QED
      BY <2>1, <2>2, <2>5, WalkQuiet DEF Live
  <1>2. CASE CommitMessage(w)
    <2>1. /\ task'[w] = [step |-> "emit", message |-> task[w].message]
          /\ task[w].step = "commit_message"
          /\ \A v \in Workers : v # w => task'[v] = task[v]
      BY <1>2, <1>b DEF CommitMessage, At
    <2>2. UNCHANGED <<author, walk, rooms, heard, unsent>> /\ stored' = stored \cup {task[w].message}
      BY <1>2 DEF CommitMessage, socketVars
    <2>3. Emitting \subseteq Emitting' /\ task[w].message \in Emitting'
      BY <2>1 DEF Emitting, Doing, At
    <2>4. Missing' \subseteq Missing
      BY <2>2, <2>3 DEF Missing, Incoming
    <2> QED
      BY <2>1, <2>2, <2>4, WalkQuiet DEF Live
  <1>3. CASE Emit(w)
    <2>1. /\ task'[w].step = "idle" /\ task[w].step = "emit"
          /\ \A v \in Workers : v # w => task'[v] = task[v]
      BY <1>3, <1>b DEF Emit, At, Idle
    <2>2. UNCHANGED <<author, stored, walk, rooms, unsent>> /\ heard \subseteq heard'
      BY <1>3 DEF Emit, messageVars, histories
    <2>3. CASE rooms = {}
      <3>1. walk' = NoWalk /\ \A v \in Workers : ~ Live(v)'
        BY <2>1, <2>2, <2>3 DEF WalkInv, Live
      <3> QED
        BY <3>1, WalkOutside
    <2>4. CASE rooms # {}
      <3>1. author[task[w].message] # Listener => task[w].message \in heard'
        BY <1>3, <1>a, <2>4 DEF Emit, Reaches, Rooms
      <3>2. Emitting \subseteq Emitting' \cup {task[w].message}
        BY <2>1 DEF Emitting, Doing, At
      <3>3. Missing' \subseteq Missing
        BY <2>2, <3>1, <3>2 DEF Missing, Incoming
      <3> QED
        BY <2>1, <2>2, <3>3, WalkQuiet DEF Live
    <2> QED
      BY <2>3, <2>4
  <1> QED
    BY <1>1, <1>2, <1>3

LEMMA WalkList ==
  ASSUME WalkInv, TypeOK', NEW w \in Workers,
         ListNextPage(w) \/ (\E u \in Users : ListMessages(w, u)) \/ CountMessages(w) \/ MarkRead(w)
  PROVE  WalkInv'
PROOF
  <1>a. task \in [Workers -> Tasks] /\ task[w] \in Tasks /\ stored \subseteq Messages /\ walk.next \in Nat
    BY DEF WalkInv, TypeOK
  <1>b. \A t : Proceed(w, t) => task'[w] = t /\ \A v \in Workers : v # w => task'[v] = task[v]
    BY <1>a DEF Proceed
  \* None of them changes what is missing.
  <1>c. UNCHANGED <<author, stored, heard, unsent, rooms>>
    BY DEF ListNextPage, ListMessages, CountMessages, MarkRead, messageVars, socketVars, histories
  <1>d. ASSUME task[w].step # "emit", task'[w].step # "emit",
               \A v \in Workers : v # w => task'[v] = task[v]
        PROVE  Missing' = Missing
    <2>1. Emitting' = Emitting
      BY <1>d DEF Emitting, Doing, At
    <2> QED
      BY <1>c, <2>1 DEF Missing, Incoming
  <1>e. \A n : Before(n)' = Before(n) /\ Cardinality(Before(n)) \in Nat
    BY <1>a, <1>c, BeforeCounts DEF Before
  <1>1. CASE ListNextPage(w)
    <2>1. /\ task'[w] = [step |-> "count", user |-> Listener, page |-> Page(walk.next), live |-> TRUE,
                         more |-> FALSE]
          /\ \A v \in Workers : v # w => task'[v] = task[v]
      BY <1>1, <1>b DEF ListNextPage
    <2>2. /\ rooms # {} /\ Listing(Listener) = {} /\ UNCHANGED walk /\ task[w].step = "idle"
      BY <1>1 DEF ListNextPage, socketVars, Free, Idle
    <2>3. \A v \in Workers : ~ Live(v)
      BY <2>2 DEF WalkInv, Live, Listing, Doing, At
    <2>4. Missing' = Missing
      BY <1>d, <2>1, <2>2
    <2>5. Cardinality(Page(walk.next)) \in Nat /\ Cardinality(Page(walk.next)) <= Limit
      BY <1>a, PageFits
    <2>6. \A n \in Missing : \/ n \in walk.shown \cup Page(walk.next)
                             \/ Cardinality(Before(n)) >= walk.next + Cardinality(Page(walk.next))
      <3> SUFFICES ASSUME NEW n \in Missing, n \notin walk.shown, n \notin Page(walk.next)
                   PROVE  Cardinality(Before(n)) >= walk.next + Cardinality(Page(walk.next))
        OBVIOUS
      <3>1. n \in stored /\ Cardinality(Before(n)) >= walk.next
        BY DEF WalkInv, Missing, Incoming
      <3>2. Cardinality(Before(n)) \notin walk.next..(walk.next + Limit - 1)
        BY <3>1 DEF Page
      <3>3. Cardinality(Before(n)) >= walk.next + Limit
        BY <1>a, <1>e, <3>1, <3>2, BoundsAssumption
      <3> QED
        BY <1>a, <1>e, <2>5, <3>3, BoundsAssumption
    <2>7. \A v \in Workers : Live(v)' => v = w
      BY <2>1, <2>3 DEF Live
    <2>8. /\ task'[w].step = "count" /\ task'[w].user = Listener /\ task'[w].page = Page(walk.next)
      BY <2>1
    <2> QED
      BY <1>c, <1>e, <2>2, <2>4, <2>6, <2>7, <2>8 DEF WalkInv
  <1>2. ASSUME NEW u \in Users, ListMessages(w, u) PROVE WalkInv'
    <2>1. /\ task'[w] = Unfollowed("count", u) /\ task[w].step = "idle" /\ UNCHANGED walk
          /\ \A v \in Workers : v # w => task'[v] = task[v]
      BY <1>2, <1>b DEF ListMessages, Free, Idle, socketVars
    <2>2. task'[w].step = "count" /\ ~ task'[w].live
      BY <2>1 DEF Unfollowed
    <2>3. Missing' = Missing
      BY <1>d, <2>1, <2>2
    <2> QED
      BY <1>c, <2>1, <2>2, <2>3, WalkQuiet DEF Live
  <1>3. CASE CountMessages(w)
    <2> DEFINE more == task[w].live /\ HasMore(walk.next, task[w].page, Cardinality(stored))
    <2>1. /\ task'[w] = [step |-> "mark", user |-> task[w].user, page |-> task[w].page,
                         live |-> task[w].live, more |-> more]
          /\ \A v \in Workers : v # w => task'[v] = task[v]
      BY <1>3, <1>b DEF CountMessages
    <2>2. UNCHANGED walk /\ task[w].step = "count"
      BY <1>3 DEF CountMessages, socketVars, At
    <2>3. /\ task'[w].step = "mark" /\ task'[w].user = task[w].user /\ task'[w].page = task[w].page
          /\ task'[w].live = task[w].live /\ task'[w].more = more
      BY <2>1
    <2>4. Missing' = Missing
      BY <1>d, <2>1, <2>2, <2>3
    <2>5. \A v \in Workers : Live(v)' = Live(v)
      BY <2>1, <2>2, <2>3 DEF Live
    <2>6. ASSUME Live(w), ~ more PROVE Missing \subseteq walk.shown \cup task[w].page
      <3>1. Cardinality(stored) \in Nat /\ Cardinality(task[w].page) \in Nat
        BY <1>a, <2>2, TaskShape, MessageSets
      <3>2. walk.next + Cardinality(task[w].page) >= Cardinality(stored)
        BY <1>a, <2>6, <3>1 DEF HasMore, Live
      <3>3. \A n \in Missing : Cardinality(Before(n)) < Cardinality(stored)
        BY <1>a, BeforeCounts DEF Missing, Incoming
      <3>4. \A n \in Missing : \/ n \in walk.shown \cup task[w].page
                               \/ Cardinality(Before(n)) >= walk.next + Cardinality(task[w].page)
        BY <2>6 DEF WalkInv
      <3> QED
        BY <1>a, <1>e, <3>1, <3>2, <3>3, <3>4
    <2>7. ASSUME NEW v \in Workers, Live(v)'
          PROVE  /\ \A n \in Missing' :
                      \/ n \in walk'.shown \cup task'[v].page
                      \/ Cardinality(Before(n)') >= walk'.next + Cardinality(task'[v].page)
                 /\ task'[v].step = "mark" /\ ~ task'[v].more => Missing' \subseteq walk'.shown \cup task'[v].page
      <3>1. Live(v) /\ task'[v].page = task[v].page
        BY <2>1, <2>3, <2>5, <2>7
      <3>2. CASE v = w
        BY <1>e, <2>2, <2>3, <2>4, <2>6, <3>1, <3>2 DEF WalkInv
      <3>3. CASE v # w
        BY <1>e, <2>1, <2>2, <2>4, <3>1, <3>3 DEF WalkInv
      <3> QED
        BY <3>2, <3>3
    <2>8. \A v \in Workers : Live(v)' => task'[v].user = Listener
      BY <2>1, <2>3, <2>5 DEF WalkInv
    <2>9. /\ walk'.ended => Missing' \subseteq walk'.shown
          /\ \A n \in Missing' : n \in walk'.shown \/ Cardinality(Before(n)') >= walk'.next
      BY <1>e, <2>2, <2>4 DEF WalkInv
    <2> QED
      BY <1>c, <2>2, <2>5, <2>7, <2>8, <2>9 DEF WalkInv
  <1>4. CASE MarkRead(w)
    <2>1. /\ task'[w].step = "idle" /\ task[w].step = "mark"
          /\ \A v \in Workers : v # w => task'[v] = task[v]
      BY <1>4, <1>b DEF MarkRead, At, Idle
    <2>2. Missing' = Missing
      BY <1>d, <2>1
    <2>3. CASE ~ task[w].live
      BY <1>4, <1>c, <2>1, <2>2, <2>3, WalkQuiet DEF MarkRead, Live
    <2>4. CASE task[w].live
      <3>1. walk' = [shown |-> walk.shown \cup task[w].page,
                     next |-> walk.next + Cardinality(task[w].page), ended |-> ~ task[w].more]
        BY <1>4, <2>4 DEF MarkRead
      <3>2. Live(w)
        BY <2>1, <2>4 DEF Live
      <3>3. \A v \in Workers : ~ Live(v)'
        BY <2>1, <3>2 DEF WalkInv, Live
      <3>4. rooms' # {}
        BY <1>c, <3>2 DEF WalkInv
      <3>5. /\ walk'.ended => Missing' \subseteq walk'.shown
            /\ \A n \in Missing' : n \in walk'.shown \/ Cardinality(Before(n)') >= walk'.next
        BY <1>e, <2>1, <2>2, <3>1, <3>2 DEF WalkInv
      <3> QED
        BY <3>3, <3>4, <3>5 DEF WalkInv
    <2> QED
      BY <2>3, <2>4
  <1> QED
    BY <1>1, <1>2, <1>3, <1>4

LEMMA WalkNext == WalkInv /\ [Next]_vars => WalkInv'
PROOF
  <1> SUFFICES ASSUME WalkInv, [Next]_vars PROVE WalkInv'
    OBVIOUS
  <1>a. TypeOK' /\ task \in [Workers -> Tasks]
    BY TypeNext DEF WalkInv, TypeOK
  <1>1. ASSUME NEW w \in Workers, Conversation(w) PROVE WalkInv'
    BY <1>1, <1>a, WalkSend, WalkList DEF Conversation
  <1>2. ASSUME NEW w \in Workers, Abort(w) PROVE WalkInv'
    <2>1. task'[w].step = "idle" /\ \A v \in Workers : v # w => task'[v] = task[v]
      BY <1>2, <1>a DEF Abort, Proceed, Idle
    <2>2. UNCHANGED <<author, stored, heard, walk, rooms>>
      BY <1>2 DEF Abort, messageVars, socketVars
    <2>3. Emitting \cup unsent \subseteq Emitting' \cup unsent'
      <3>1. unsent' = unsent \cup {n \in Messages : At(w, "emit") /\ task[w].message = n}
        BY <1>2 DEF Abort
      <3>2. At(w, "emit") => task[w].message \in Messages
        BY <1>a, TaskShape DEF At
      <3>3. \A v \in Doing("emit") : v # w => v \in Doing("emit")' /\ task'[v].message = task[v].message
        BY <2>1 DEF Doing, At
      <3> QED
        BY <3>1, <3>2, <3>3 DEF Emitting, Doing
    <2>4. Missing' \subseteq Missing
      BY <2>2, <2>3 DEF Missing, Incoming
    <2> QED
      BY <1>a, <2>1, <2>2, <2>4, WalkQuiet DEF Live
  <1>3. CASE CreateConversation \/ (Connect \/ \E room \in Rooms : Join(room)) \/ UNCHANGED vars
    <2>1. UNCHANGED <<author, stored, heard, walk, unsent, task>> /\ rooms \subseteq rooms'
      BY <1>3 DEF CreateConversation, Connect, Join, vars, messageVars, socketVars, histories
    <2>2. Missing' = Missing
      BY <2>1 DEF Missing, Incoming, Emitting, Doing, At
    <2> QED
      BY <1>a, <2>1, <2>2, WalkQuiet
  <1>4. CASE Disconnect
    <2>1. \A v \in Workers : ~ Live(v)'
      <3> SUFFICES ASSUME NEW v \in Workers, Live(v)' PROVE FALSE
        OBVIOUS
      <3>1. task'[v] = task[v] /\ v \notin Listing(Listener)
        BY <1>4, <1>a, DisconnectTasks DEF Live
      <3>2. Live(v)
        BY <3>1 DEF Live
      <3> QED
        BY <3>1, <3>2 DEF WalkInv, Live, Listing, Doing, At
    <2>2. walk' = NoWalk
      BY <1>4 DEF Disconnect
    <2> QED
      BY <1>a, <2>1, <2>2, WalkOutside
  <1>5. CASE Support
    <2>1. UNCHANGED <<author, stored, heard, walk, rooms, unsent>>
      BY <1>5 DEF Support, CreateTicket, ReadTicket, CommitReply, SupportDecides, messageVars,
                  socketVars, histories
    <2>2. \A v \in Workers :
            task'[v] = task[v] \/ (task[v].step # "emit" /\ task'[v].step \in {"idle", "commit_reply"})
      <3>1. ASSUME NEW w \in Workers, ReadTicket(w) \/ CommitReply(w)
            PROVE  /\ task[w].step # "emit" /\ task'[w].step \in {"idle", "commit_reply"}
                   /\ \A v \in Workers : v # w => task'[v] = task[v]
        BY <1>a, <3>1 DEF ReadTicket, CommitReply, Proceed, Idle, Free, At
      <3> QED
        BY <1>5, <3>1 DEF Support, CreateTicket, SupportDecides
    <2>3. Emitting \subseteq Emitting'
      BY <2>2 DEF Emitting, Doing, At
    <2>4. Missing' \subseteq Missing
      BY <2>1, <2>3 DEF Missing, Incoming
    <2> QED
      BY <1>a, <2>1, <2>2, <2>4, WalkQuiet DEF Live
  <1> QED
    BY <1>1, <1>2, <1>3, <1>4, <1>5 DEF Next, Gateway

\* Pages by offset and events together miss no message: whoever joined a room
\* before it asked for the first page has all of them after the last one.
THEOREM WalkCorrect == Spec => []NothingMissed
PROOF
  <1>1. WalkInv => NothingMissed
    BY DEF WalkInv, NothingMissed, Missing
  <1> QED
    BY <1>1, WalkInit, WalkNext, PTL DEF Spec

=============================================================================
