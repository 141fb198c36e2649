------------------------------- MODULE Seeding -------------------------------
(***************************************************************************)
(* seedDatabase: upserts at fixed ids, one after the other, each its own   *)
(* transaction, before the server runs (prisma db seed) or before a suite  *)
(* of tests.  A run may stop anywhere and is repeated; between two runs    *)
(* the server is used: it changes rows of the seed, takes services of its  *)
(* providers away, or creates rows that hold unique keys of the seed.      *)
(*                                                                         *)
(* A row is <<table, id>>.  The stages come in the order of the code;      *)
(* within a stage the loops over providers, missions and so on may take    *)
(* their items in any order, the statements of one item in that of the     *)
(* code.  Whether a statement succeeds is up to the database: it refuses   *)
(* one that lacks a row it refers to, or whose unique key is taken.        *)
(***************************************************************************)
CONSTANTS
  Categories, Services, \* the catalogue; CategoryOf[s] for a service
  Clients,              \* clients of the seed, the test account among them
  Providers, Labels,    \* p1 to p5, what they offer
  Missions,             \* the completed bookings, a review of each
  Messages, Notices,    \* of the test account
  CategoryOf, ClientOf, ProviderOf,
  TestClient, FirstProvider, SecondProvider, DemoMission

CatalogRows == ({"category"} \X Categories) \cup ({"service"} \X Services)
ClientRows == {"user"} \X Clients
ProviderRows ==
  ({"user", "provider"} \X Providers) \cup ({"label"} \X (Providers \X Labels))
LabelsOf(p) == {"label"} \X ({p} \X Labels)
HistoryRows == {"booking", "review"} \X Missions
RatingRows == {"rating"} \X Providers  \* not a row: an update of one
Pending == <<"booking", "b-demo-pending">>
Payment == <<"payment", "PAY-SEED-0001">>
Conversation == <<"conversation", "conv-demo-1">>
DemoRows ==
  {Pending, Conversation, Payment}
    \cup ({"message"} \X Messages) \cup ({"notification"} \X Notices)

Rows == CatalogRows \cup ClientRows \cup ProviderRows \cup HistoryRows \cup DemoRows

\* The data of the seed refer to each other.
SeedData ==
  /\ CategoryOf \in [Services -> Categories]
  /\ ClientOf \in [Missions -> Clients] /\ ProviderOf \in [Missions -> Providers]
  /\ TestClient \in Clients /\ {FirstProvider, SecondProvider} \subseteq Providers
  /\ DemoMission \in Missions /\ "b-demo-pending" \notin Missions

\* The foreign keys of the schema: what must be there for a row to be created,
\* and for the rating of a provider to be updated.
Parents(r) ==
  LET table == r[1]  id == r[2] IN
    CASE table = "service" -> {<<"category", CategoryOf[id]>>}
      [] table = "provider" -> {<<"user", id>>}
      [] table = "label" -> {<<"provider", id[1]>>}
      [] r \in {"booking"} \X Missions ->
           {<<"user", ClientOf[id]>>, <<"provider", ProviderOf[id]>>}
      [] table = "review" ->
           {<<"booking", id>>, <<"user", ClientOf[id]>>, <<"provider", ProviderOf[id]>>}
      [] r = Pending -> {<<"user", TestClient>>, <<"provider", SecondProvider>>}
      [] r = Conversation -> {<<"user", TestClient>>, <<"provider", FirstProvider>>}
      [] table = "message" ->
           {Conversation, <<"user", TestClient>>, <<"user", FirstProvider>>}
      [] table = "payment" -> {<<"booking", DemoMission>>, <<"user", TestClient>>}
      [] table = "notification" -> {<<"user", TestClient>>}
      [] table = "rating" -> {<<"provider", id>>}
      [] OTHER -> {}

\* The order of the code: what precedes a statement in the body of its loop, and
\* the demo rows one after the other.
Earlier(r) ==
  LET table == r[1]  id == r[2] IN
    CASE table = "service" -> {<<"category", CategoryOf[id]>>}
      [] table = "provider" -> {<<"user", id>>}
      [] table = "label" -> {<<"provider", id[1]>>}
      [] table = "review" -> {<<"booking", id>>}
      [] r = Conversation -> {Pending}
      [] table = "message" -> {Conversation}
      [] table = "payment" -> {"message"} \X Messages
      [] table = "notification" -> {Payment}
      [] OTHER -> {}

VARIABLES
  at,       \* the stage of the run, or "idle"
  done,     \* the upserts and updates of this run
  complete, \* the last run came to its end
  row,      \* row[r]: "absent", "fresh" as the seed writes it, or "edited"
  taken,    \* rows of the seed whose unique key is held by another row
  counted   \* missions whose review is in the rating of its provider

vars == <<at, done, complete, row, taken, counted>>

TypeOK ==
  /\ at \in {"idle", "catalog", "clients", "providers", "history", "ratings", "demo"}
  /\ done \subseteq Rows \cup RatingRows
  /\ complete \in BOOLEAN
  /\ row \in [Rows -> {"absent", "fresh", "edited"}]
  /\ taken \subseteq Rows
  /\ counted \subseteq Missions

Init ==
  /\ at = "idle" /\ done = {} /\ complete = FALSE
  /\ row = [r \in Rows |-> "absent"]
  /\ taken = {} /\ counted = {}

----------------------------------------------------------------------------
(* The run *)

Present(r) == r \in Rows /\ row[r] # "absent"

Reviewed == {m \in Missions : Present(<<"review", m>>) \/ <<"review", m>> \in taken}

\* The statements that may come next, whatever the tables hold.
Due(rows) == {r \in rows \ done : Earlier(r) \subseteq done}

\* An upsert by id creates the row: its phone, or the profile of its user, must
\* be free and what it refers to must be there.
Refused(r) ==
  \/ r \in taken /\ r[1] \in {"user", "provider"}
  \/ \E q \in Parents(r) : ~ Present(q)

\* Reviews and the conversation are upserted by the unique key itself: another
\* row that holds it is the one that is updated.
Found(r) == Present(r) \/ (r \in taken /\ r[1] \in {"review", "conversation"})

\* Only the rows of the test account are left as they are (update: {}).
Written(r) ==
  IF Found(r)
  THEN IF r \in DemoRows \/ ~ Present(r) THEN row ELSE [row EXCEPT ![r] = "fresh"]
  ELSE [row EXCEPT ![r] = "fresh"]

Upsert(stage, rows) ==
  \E r \in Due(rows) :
    /\ at = stage
    /\ IF Found(r) \/ ~ Refused(r)
       THEN /\ row' = Written(r)
            /\ done' = done \cup {r}
            \* the rating of another row's review is replaced
            /\ counted' = IF r \in taken THEN {m \in counted : <<"review", m>> # r} ELSE counted
            /\ UNCHANGED at
       ELSE /\ at' = "idle"
            /\ UNCHANGED <<done, row, counted>>
    /\ UNCHANGED <<complete, taken>>

SeedCatalog == Upsert("catalog", CatalogRows)
SeedClients == Upsert("clients", ClientRows)
SeedProviders == Upsert("providers", ProviderRows)
SeedHistory == Upsert("history", HistoryRows)
SeedDemo == Upsert("demo", DemoRows)

\* The aggregate and the update that follows, which throws if there is no such
\* provider: nothing else runs, and a stop between the two leaves what a stop
\* before them does.
SeedRatings ==
  /\ at = "ratings"
  /\ \E p \in Providers :
       /\ <<"rating", p>> \in Due(RatingRows)
       /\ IF ~ Refused(<<"rating", p>>)
          THEN /\ counted' = {m \in counted : ProviderOf[m] # p}
                               \cup {m \in Reviewed : ProviderOf[m] = p}
               /\ done' = done \cup {<<"rating", p>>}
               /\ UNCHANGED at
          ELSE /\ at' = "idle"
               /\ UNCHANGED <<done, counted>>
  /\ UNCHANGED <<complete, row, taken>>

Start ==
  /\ at = "idle"
  /\ at' = "catalog" /\ done' = {} /\ complete' = FALSE
  /\ UNCHANGED <<row, taken, counted>>

\* The loops of a stage are through.
Advance(stage, rows, next) ==
  /\ at = stage /\ rows \subseteq done
  /\ at' = next
  /\ complete' = (next = "idle")
  /\ UNCHANGED <<done, row, taken, counted>>

NextStage ==
  \/ Advance("catalog", CatalogRows, "clients")
  \/ Advance("clients", ClientRows, "providers")
  \/ Advance("providers", ProviderRows, "history")
  \/ Advance("history", HistoryRows, "ratings")
  \/ Advance("ratings", RatingRows, "demo")
  \/ Advance("demo", DemoRows, "idle")

\* The process stops, or a statement fails for want of a connection.
Stop ==
  /\ at # "idle"
  /\ at' = "idle"
  /\ UNCHANGED <<done, complete, row, taken, counted>>

----------------------------------------------------------------------------
(* The server, between two runs *)

\* A booking moves, a message is read, an account or a profile is updated.
Edit(r) ==
  /\ at = "idle" /\ Present(r)
  /\ r[1] \in {"user", "provider", "booking", "conversation", "message", "notification"}
  /\ row' = [row EXCEPT ![r] = "edited"]
  /\ UNCHANGED <<at, done, complete, taken, counted>>

\* ProviderProfileService.update: the services of the profile are deleted and
\* those of the request created.
ReplaceServices(p, labels) ==
  /\ at = "idle" /\ Present(<<"provider", p>>)
  /\ row' = [r \in Rows |->
               IF r \notin LabelsOf(p) THEN row[r]
               ELSE IF r[2][2] \in labels THEN "edited" ELSE "absent"]
  /\ UNCHANGED <<at, done, complete, taken, counted>>

\* AuthService.register with a phone of the seed; createProfile by a user of
\* the seed; createConversation of the test account with the first provider.
Take(r) ==
  /\ at = "idle" /\ ~ Present(r) /\ \A q \in Parents(r) : Present(q)
  /\ r \in ({"user"} \X (Clients \cup Providers)) \cup ({"provider"} \X Providers) \cup {Conversation}
  /\ taken' = taken \cup {r}
  /\ UNCHANGED <<at, done, complete, row, counted>>

\* ReviewsService.create, of a completed mission of the seed.
Review(m) ==
  /\ at = "idle" /\ Present(<<"booking", m>>) /\ m \notin Reviewed
  /\ taken' = taken \cup {<<"review", m>>}
  /\ counted' = {n \in counted : ProviderOf[n] # ProviderOf[m]}
                  \cup {n \in Reviewed \cup {m} : ProviderOf[n] = ProviderOf[m]}
  /\ UNCHANGED <<at, done, complete, row>>

Next ==
  \/ Start \/ NextStage \/ Stop
  \/ SeedCatalog \/ SeedClients \/ SeedProviders \/ SeedHistory \/ SeedRatings \/ SeedDemo
  \/ \E r \in Rows : Edit(r) \/ Take(r)
  \/ \E p \in Providers, labels \in SUBSET Labels : ReplaceServices(p, labels)
  \/ \E m \in Missions : Review(m)

Spec == Init /\ [][Next]_vars

----------------------------------------------------------------------------
(* Properties *)

\* However often runs stopped half-way and whatever the server did in between,
\* the ratings are those of the reviews after a run that came to its end.
RatingsExact == complete => counted = Reviewed

\* The statements that the order of the code allows now.
Pursued ==
  CASE at = "catalog" -> Due(CatalogRows)
    [] at = "clients" -> Due(ClientRows)
    [] at = "providers" -> Due(ProviderRows)
    [] at = "history" -> Due(HistoryRows)
    [] at = "ratings" -> Due(RatingRows)
    [] at = "demo" -> Due(DemoRows)
    [] OTHER -> {}

\* The order of the stages and of their statements respects the foreign keys: a
\* statement that the run may issue is refused only because of a row that the
\* server created, never for want of a row that a later one would have created,
\* nor of one that the server took away.
OnlyKeysRefuse ==
  \A r \in Pursued :
    ~ Found(r) /\ Refused(r)
      => \E q \in taken : q = r \/ (q = Conversation /\ Conversation \in Parents(r))

\* The row is there, for a review another one of the same mission perhaps.
Seeded(r) == Present(r) \/ (r[1] = "review" /\ r \in taken)

\* At the moment a run comes to its end all rows of the seed are there.
CompleteIsSeeded ==
  [][Messages # {} /\ complete' /\ ~ complete => \A r \in Rows : Seeded(r)']_vars

\* Later on, only services of providers may be missing.
OnlyServicesLeave ==
  Messages # {} /\ complete =>
    \A r \in Rows : Seeded(r) \/ \E p \in Providers : r \in LabelsOf(p)

=============================================================================
