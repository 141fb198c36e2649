------------------------------ MODULE Messaging ------------------------------
(***************************************************************************)
(* MessagingService, RealtimeGateway and SupportService: one conversation  *)
(* between the client and the provider of a booking, one socket of one of  *)
(* them, and one support ticket.                                           *)
(*                                                                         *)
(* A worker is a handler in flight, one action is one database statement,  *)
(* one transaction up to its commit, or one emission, and task[w] holds    *)
(* what the handler has read so far.  Messages are numbered in the order   *)
(* of created_at, which a transaction draws before it commits; two of the  *)
(* same millisecond, which pages may show in either order, are left out.   *)
(* The notification that follows an event is that of BookingPayments.      *)
(***************************************************************************)
EXTENDS Integers, FiniteSets

CONSTANTS
  Workers,
  Client, Provider,   \* the two participants
  Listener,           \* the participant whose socket is modelled
  MaxMessages,        \* bound of the model: messages that are ever sent
  Limit               \* messages of a page: 20 in the code, 50 at most

ASSUME UsersAssumption ==
  Client # Provider /\ "nobody" \notin {Client, Provider} /\ Listener \in {Client, Provider}
ASSUME BoundsAssumption == MaxMessages \in Nat /\ Limit \in Nat \ {0}

Users == {Client, Provider}
Messages == 1..MaxMessages

----------------------------------------------------------------------------
(* Types *)

Idle == [step |-> "idle"]

\* sendMessage, from the insert to the event.
SendTasks == [step: {"commit_message", "emit"}, message: Messages]

\* listMessages after its page is read: what the page holds, whether it was asked
\* for by the listener while the socket was in a room, and what has_more will say.
ListTasks == [step: {"count", "mark"}, user: Users, page: SUBSET Messages, live: BOOLEAN,
              more: BOOLEAN]

TicketStatuses == {"open", "pending", "resolved", "closed"}
Ended == {"resolved", "closed"}

ReplyTasks == [step: {"commit_reply"}, status: TicketStatuses]

Tasks == {Idle} \cup SendTasks \cup ListTasks \cup ReplyTasks

Rooms == {"user", "conversation"}

VARIABLES
  opened,    \* the conversation exists
  author,    \* author[n]: messages.sender_id, "nobody" as long as n is not drawn
  stored,    \* messages whose transaction has committed
  read,      \* messages with a read_at
  last,      \* the message that conversations.last_message shows, or 0
  online,    \* the socket is connected
  rooms,     \* the rooms the socket has joined
  ticket,    \* support_tickets.status, "absent" before the ticket
  task,      \* what each worker has left to do
  walk,      \* the listener's walk through the pages since the socket is in a room
  heard,     \* history: messages whose event reached the socket since then
  unsent,    \* history: stored messages whose handler was lost before the event
  counted,   \* history: messages that a listing of their recipient counted, or
             \* that were stored between the statements of one
  overlaps,  \* history: pairs of messages whose transactions overlapped
  desk       \* history: the support agent's last decision, and what happened since

messageVars == <<opened, author, stored, read, last>>
socketVars == <<online, rooms, walk, heard>>
histories == <<unsent, counted, overlaps>>
ticketVars == <<ticket, desk>>
vars == <<messageVars, socketVars, histories, ticketVars, task>>

NoWalk == [shown |-> {}, next |-> 0, ended |-> FALSE]

TypeOK ==
  /\ opened \in BOOLEAN /\ online \in BOOLEAN
  /\ author \in [Messages -> Users \cup {"nobody"}]
  /\ stored \subseteq Messages /\ read \subseteq Messages
  /\ last \in Messages \cup {0}
  /\ rooms \subseteq Rooms
  /\ ticket \in TicketStatuses \cup {"absent"}
  /\ task \in [Workers -> Tasks]
  /\ walk \in [shown: SUBSET Messages, next: Nat, ended: BOOLEAN]
  /\ heard \subseteq Messages /\ unsent \subseteq Messages
  /\ counted \subseteq Messages
  /\ overlaps \subseteq SUBSET Messages
  /\ desk \in [status: TicketStatuses, answered: BOOLEAN, overlapped: BOOLEAN]

Init ==
  /\ opened = FALSE
  /\ author = [n \in Messages |-> "nobody"]
  /\ stored = {} /\ read = {} /\ last = 0
  /\ online = FALSE /\ rooms = {} /\ walk = NoWalk /\ heard = {}
  /\ unsent = {} /\ counted = {} /\ overlaps = {}
  /\ ticket = "absent"
  /\ desk = [status |-> "open", answered |-> FALSE, overlapped |-> FALSE]
  /\ task = [w \in Workers |-> Idle]

----------------------------------------------------------------------------
(* Helpers *)

Free(w) == task[w] = Idle
At(w, step) == task[w].step = step
Doing(step) == {w \in Workers : At(w, step)}
Proceed(w, todo) == task' = [task EXCEPT ![w] = todo]

Incoming(u) == {n \in stored : author[n] # u}
Sending == {task[w].message : w \in Doing("commit_message")}

\* Between the page and the marks of a listing of a user.
Listing(u) == {w \in Doing("count") \cup Doing("mark") : task[w].user = u}

----------------------------------------------------------------------------
(* MessagingService.createConversation, sendMessage *)

\* An upsert under the unique pair; a provider has none with itself.
CreateConversation ==
  /\ opened' = TRUE
  /\ UNCHANGED <<author, stored, read, last, socketVars, histories, ticketVars, task>>

\* The insert opens the transaction and draws created_at.
SendMessage(w, u, n) ==
  /\ Free(w)
  /\ opened
  /\ author[n] = "nobody" /\ \A m \in 1..(n - 1) : author[m] # "nobody"
  /\ author' = [author EXCEPT ![n] = u]
  /\ overlaps' = overlaps \cup {{n, m} : m \in Sending}
  /\ Proceed(w, [step |-> "commit_message", message |-> n])
  /\ UNCHANGED <<opened, stored, read, last, socketVars, unsent, counted, ticketVars>>

\* Mutant: only the first message of a conversation is shown in the list.
LatestKept(n) == IF last = 0 THEN n ELSE last

\* The update of the conversation holds its row until the commit.
Latest(n) == n

CommitMessage(w) ==
  /\ At(w, "commit_message")
  /\ LET n == task[w].message IN
       /\ stored' = stored \cup {n}
       /\ last' = Latest(n)
       /\ counted' = IF \E u \in Users \ {author[n]} : Listing(u) # {}
                     THEN counted \cup {n} ELSE counted
       /\ Proceed(w, [step |-> "emit", message |-> n])
  /\ UNCHANGED <<opened, author, read, socketVars, unsent, overlaps, ticketVars>>

\* Mutant: the event goes to the room of the conversation only.
ReachesSubscribers(n) == "conversation" \in rooms

\* RealtimeGateway.emitMessageCreated: the room of the conversation, and that of
\* the recipient.
Reaches(n) ==
  \/ "conversation" \in rooms
  \/ "user" \in rooms /\ author[n] # Listener

Emit(w) ==
  /\ At(w, "emit")
  /\ heard' = IF Reaches(task[w].message) THEN heard \cup {task[w].message} ELSE heard
  /\ Proceed(w, Idle)
  /\ UNCHANGED <<messageVars, online, rooms, walk, histories, ticketVars>>

----------------------------------------------------------------------------
(* MessagingService.listMessages *)

\* take and skip in the order of created_at.
Before(n) == {m \in stored : m < n}
Page(offset) == {n \in stored : Cardinality(Before(n)) \in offset..(offset + Limit - 1)}

\* The listener walks from page to page while the socket is in a room.
ListNextPage(w) ==
  /\ Free(w)
  /\ opened
  /\ rooms # {} /\ Listing(Listener) = {}
  /\ Proceed(w, [step |-> "count", user |-> Listener, page |-> Page(walk.next), live |-> TRUE,
                 more |-> FALSE])
  /\ counted' = counted \cup Incoming(Listener)
  /\ UNCHANGED <<messageVars, socketVars, unsent, overlaps, ticketVars>>

\* Of any other listing only the marks matter, and they are the same for all pages.
Unfollowed(step, u) ==
  [step |-> step, user |-> u, page |-> {}, live |-> FALSE, more |-> FALSE]

ListMessages(w, u) ==
  /\ Free(w)
  /\ opened
  /\ Proceed(w, Unfollowed("count", u))
  /\ counted' = counted \cup Incoming(u)
  /\ UNCHANGED <<messageVars, socketVars, unsent, overlaps, ticketVars>>

\* buildPage
HasMore(offset, page, total) == offset + Cardinality(page) < total

CountMessages(w) ==
  /\ At(w, "count")
  /\ LET t == task[w] IN
       Proceed(w, [step |-> "mark", user |-> t.user, page |-> t.page, live |-> t.live,
                   more |-> t.live /\ HasMore(walk.next, t.page, Cardinality(stored))])
  /\ UNCHANGED <<messageVars, socketVars, histories, ticketVars>>

\* Mutant: a user's own messages are marked, too.
ToMarkAll(u) == stored

ToMark(u) == Incoming(u)

MarkRead(w) ==
  /\ At(w, "mark")
  /\ read' = read \cup ToMark(task[w].user)
  /\ walk' = IF task[w].live
             THEN [shown |-> walk.shown \cup task[w].page,
                   next |-> walk.next + Cardinality(task[w].page),
                   ended |-> ~ task[w].more]
             ELSE walk
  /\ Proceed(w, Idle)
  /\ UNCHANGED <<opened, author, stored, last, online, rooms, heard, histories, ticketVars>>

----------------------------------------------------------------------------
(* RealtimeGateway *)

\* The transport is up before handleConnection has verified the token.
Connect ==
  /\ ~ online
  /\ online' = TRUE
  /\ UNCHANGED <<messageVars, rooms, walk, heard, histories, ticketVars, task>>

\* handleConnection joins the user's room; subscribeConversation that of the
\* conversation, before or after it.
Join(room) ==
  /\ online
  /\ rooms' = rooms \cup {room}
  /\ UNCHANGED <<messageVars, online, walk, heard, histories, ticketVars, task>>

\* The token was refused, the network failed or the server stopped: the socket
\* leaves its rooms, and the listener starts again.
Disconnect ==
  /\ online
  /\ online' = FALSE /\ rooms' = {} /\ walk' = NoWalk /\ heard' = {}
  /\ task' = [w \in Workers |-> IF w \in Listing(Listener)
                                THEN Unfollowed(task[w].step, Listener) ELSE task[w]]
  /\ UNCHANGED <<messageVars, histories, ticketVars>>

----------------------------------------------------------------------------
(* SupportService *)

CreateTicket ==
  /\ ticket = "absent"
  /\ ticket' = "open"
  /\ UNCHANGED <<messageVars, socketVars, histories, desk, task>>

ReadTicket(w) ==
  /\ Free(w)
  /\ ticket # "absent"
  /\ Proceed(w, [step |-> "commit_reply", status |-> ticket])
  /\ UNCHANGED <<messageVars, socketVars, histories, ticketVars>>

\* Mutant: a closed ticket stays closed.
ReopenedIfResolved(status) == IF status = "resolved" THEN "open" ELSE status

Reopened(status) == IF status \in Ended THEN "open" ELSE status

CommitReply(w) ==
  /\ At(w, "commit_reply")
  /\ ticket' = Reopened(task[w].status)
  /\ desk' = [desk EXCEPT !.answered = TRUE]
  /\ Proceed(w, Idle)
  /\ UNCHANGED <<messageVars, socketVars, histories>>

\* Whoever answers the tickets writes to the same table.
SupportDecides(status) ==
  /\ ticket # "absent"
  /\ ticket' = status
  /\ desk' = [status |-> status, answered |-> FALSE,
              overlapped |-> Doing("commit_reply") # {}]
  /\ UNCHANGED <<messageVars, socketVars, histories, task>>

----------------------------------------------------------------------------

\* A statement rejects, its answer is lost or the server stops: an open
\* transaction is rolled back, the rest of the handler is lost.
Abort(w) ==
  /\ ~ Free(w)
  /\ unsent' = unsent \cup {n \in Messages : At(w, "emit") /\ task[w].message = n}
  /\ Proceed(w, Idle)
  /\ UNCHANGED <<messageVars, socketVars, counted, overlaps, ticketVars>>

Conversation(w) ==
  \/ \E u \in Users, n \in Messages : SendMessage(w, u, n)
  \/ CommitMessage(w)
  \/ Emit(w)
  \/ ListNextPage(w)
  \/ \E u \in Users : ListMessages(w, u)
  \/ CountMessages(w)
  \/ MarkRead(w)

Gateway == Connect \/ (\E room \in Rooms : Join(room)) \/ Disconnect

Support ==
  \/ CreateTicket
  \/ \E w \in Workers : ReadTicket(w) \/ CommitReply(w)
  \/ \E status \in TicketStatuses : SupportDecides(status)

Next ==
  \/ CreateConversation
  \/ \E w \in Workers : Conversation(w) \/ Abort(w)
  \/ Gateway
  \/ Support

Spec == Init /\ [][Next]_vars

----------------------------------------------------------------------------
(* Safety *)

Emitting == {task[w].message : w \in Doing("emit")}

\* A socket that was in a room before its user walked through the pages has
\* missed nothing: every incoming message was on a page or in an event, or its
\* event is still to come, whatever order the transactions commit in.
NothingMissed ==
  walk.ended => Incoming(Listener) \subseteq walk.shown \cup heard \cup Emitting \cup unsent

\* The marks go further than the page: but only to messages that its total
\* counted, or that came in while the listing was between two statements.
ReadWasListed == read \subseteq counted

\* The list of conversations shows the newest message, except when it was sent
\* while the one that is shown was on its way.
LastIsNewest ==
  stored # {} => last \in stored /\ \A n \in stored : n > last => {n, last} \in overlaps

\* A reply reopens an ended ticket, and but for that the agent's decision stands,
\* unless it was taken while a reply was on its way: that reply writes back the
\* status it read.
TicketFollows ==
  ticket # "absent" =>
    /\ desk.answered => ticket \notin Ended
    /\ ~ desk.overlapped => ticket = IF desk.answered THEN Reopened(desk.status) ELSE desk.status

\* Bound of the model: the conversation and the ticket share nothing but the
\* workers, so their states need not be combined.
OneThread == ~ opened \/ ticket = "absent"

=============================================================================
