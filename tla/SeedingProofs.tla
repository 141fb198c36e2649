---------------------------- MODULE SeedingProofs ----------------------------
(***************************************************************************)
(* The properties of Seeding, for any catalogue, any accounts and missions *)
(* of the seed, any number of runs that stop anywhere, and whatever the    *)
(* server does between them.  One invariant, four parts.                   *)
(***************************************************************************)
EXTENDS Seeding, TLAPS

----------------------------------------------------------------------------
(* The invariant *)

\* The services of the providers of the seed.
LabelRows == {"label"} \X (Providers \X Labels)

\* What a run has upserted is there while it runs, and later on as well but for
\* the services that the server replaces.
Upserted == \A r \in done \cap Rows : Found(r) \/ (at = "idle" /\ r \in LabelRows)

\* No message of the seed without the conversation of the seed.
Threads == \A g \in Messages : Present(<<"message", g>>) => Present(Conversation)

\* The stages that are behind a run.
InStage ==
  /\ at \in {"clients", "providers", "history", "ratings", "demo"} => CatalogRows \subseteq done
  /\ at \in {"providers", "history", "ratings", "demo"} => ClientRows \subseteq done
  /\ at \in {"history", "ratings", "demo"} => ProviderRows \subseteq done
  /\ at \in {"ratings", "demo"} => HistoryRows \subseteq done
  /\ complete => at = "idle" /\ Rows \subseteq done

\* The ratings that are computed again, one provider after the other.
Rated ==
  /\ at \in {"catalog", "clients", "providers", "history"} => done \cap RatingRows = {}
  /\ at = "ratings" =>
       \A m \in Missions :
         <<"rating", ProviderOf[m]>> \in done => (m \in counted <=> m \in Reviewed)
  /\ at = "demo" \/ complete => counted = Reviewed

SeedInv == TypeOK /\ Upserted /\ Threads /\ InStage /\ Rated

----------------------------------------------------------------------------
(* The tables are told apart by their names. *)

LEMMA Disjoint ==
  /\ \A r \in Rows : r \notin RatingRows
  /\ \A g \in Messages : <<"message", g>> \in Rows
  /\ Conversation \in DemoRows /\ DemoRows \subseteq Rows
  /\ \A m \in Missions : <<"review", m>> \in HistoryRows /\ <<"review", m>> \notin DemoRows
  /\ HistoryRows \subseteq Rows
  /\ \A m \in Missions : <<"review", m>> \notin LabelRows
  /\ Conversation \notin LabelRows /\ \A g \in Messages : <<"message", g>> \notin LabelRows
BY DEF LabelRows, Rows, CatalogRows, ClientRows, ProviderRows, HistoryRows, RatingRows, DemoRows,
       Conversation, Pending, Payment

\* Foreign keys point to rows of the seed, none to a review.
LEMMA ParentTables ==
  ASSUME SeedData, NEW r \in Rows \cup RatingRows, NEW q \in Parents(r)
  PROVE  q \in Rows /\ q[1] # "review" /\ (q[1] = "conversation" => q = Conversation)
BY DEF SeedData, Parents, Conversation, Pending, Payment, Rows, CatalogRows, ClientRows,
       ProviderRows, HistoryRows, DemoRows, RatingRows

LEMMA MessageParent == ASSUME NEW g \in Messages PROVE Conversation \in Parents(<<"message", g>>)
BY DEF Parents, Conversation

----------------------------------------------------------------------------
(* The steps *)

\* The initial state satisfies the invariant.
LEMMA InitSeeded == Init => SeedInv
BY DEF Init, SeedInv, TypeOK, Upserted, Threads, InStage, Rated, Present, Reviewed, Found,
       Rows, RatingRows, CatalogRows, ClientRows, ProviderRows, HistoryRows, DemoRows, Conversation

\* What an upsert leaves of the rows and of the run.
LEMMA UpsertKeeps ==
  ASSUME TypeOK, NEW stage, NEW rows \in SUBSET Rows, Upsert(stage, rows)
  PROVE  /\ TypeOK'
         /\ \A r \in Rows : Found(r) => Found(r)'
         /\ \A r \in Rows : Present(r) => Present(r)'
         /\ complete' = complete /\ taken' = taken
         /\ at = stage /\ done \subseteq done' /\ done' \subseteq done \cup rows
         /\ at' = "idle" \/ at' = at
PROOF
  <1>1. PICK r \in rows :
          /\ at = stage
          /\ IF Found(r) \/ ~ Refused(r)
             THEN /\ row' = Written(r)
                  /\ done' = done \cup {r}
                  /\ counted' = IF r \in taken THEN {m \in counted : <<"review", m>> # r} ELSE counted
                  /\ at' = at
             ELSE at' = "idle" /\ done' = done /\ row' = row /\ counted' = counted
          /\ complete' = complete /\ taken' = taken
    BY DEF Upsert, Due
  <1>2. row' \in [Rows -> {"absent", "fresh", "edited"}]
        /\ \A s \in Rows : row[s] # "absent" => row'[s] # "absent"
    BY <1>1 DEF TypeOK, Written
  <1>3. \A s \in Rows : (Present(s) => Present(s)') /\ (Found(s) => Found(s)')
    BY <1>1, <1>2 DEF Present, Found
  <1>4. TypeOK'
    BY <1>1, <1>2 DEF TypeOK
  <1> QED
    BY <1>1, <1>3, <1>4

\* An upsert finds its row, or creates it with all it refers to.
LEMMA UpsertFinds ==
  ASSUME TypeOK, NEW stage, NEW rows \in SUBSET Rows, stage # "idle",
         Upsert(stage, rows), Upserted, Threads
  PROVE  Upserted' /\ Threads'
PROOF
  <1>1. PICK r \in rows :
          /\ IF Found(r) \/ ~ Refused(r)
             THEN row' = Written(r) /\ done' = done \cup {r}
             ELSE done' = done /\ row' = row
          /\ taken' = taken /\ at = stage
    BY DEF Upsert, Due
  <1>2. \A s \in Rows : (Present(s) => Present(s)') /\ (Found(s) => Found(s)')
    BY UpsertKeeps
  <1>3. Found(r) \/ ~ Refused(r) => Found(r)'
    BY <1>1 DEF Found, Present, Written, TypeOK
  <1>4. Upserted'
    BY <1>1, <1>2, <1>3 DEF Upserted
  <1>5. ASSUME NEW g \in Messages, Present(<<"message", g>>)'
        PROVE  Present(Conversation)'
    <2>1. CASE Present(<<"message", g>>)
      BY <2>1, <1>2, Disjoint DEF Threads
    <2>2. CASE ~ Present(<<"message", g>>)
      <3>1. r = <<"message", g>> /\ ~ Refused(r)
        BY <2>2, <1>1, <1>5, Disjoint DEF Present, Written, Found, TypeOK
      <3>2. Present(Conversation)
        BY <3>1, MessageParent DEF Refused
      <3> QED
        BY <3>2, <1>2, Disjoint
    <2> QED
      BY <2>1, <2>2
  <1> QED
    BY <1>4, <1>5 DEF Threads

\* The stages before the ratings keep the invariant.
LEMMA EarlyStages ==
  ASSUME SeedInv, SeedCatalog \/ SeedClients \/ SeedProviders \/ SeedHistory
  PROVE  SeedInv'
PROOF
  <1>1. PICK stage \in {"catalog", "clients", "providers", "history"}, rows \in SUBSET Rows :
          Upsert(stage, rows)
    BY DEF SeedCatalog, SeedClients, SeedProviders, SeedHistory, Rows
  <1>2. /\ TypeOK' /\ complete' = complete
        /\ at = stage /\ done \subseteq done' /\ done' \subseteq done \cup rows
        /\ at' = "idle" \/ at' = at
    BY <1>1, UpsertKeeps DEF SeedInv
  <1>3. Upserted' /\ Threads'
    BY <1>1, UpsertFinds DEF SeedInv
  <1>4. ~ complete /\ InStage'
    BY <1>1, <1>2 DEF SeedInv, InStage
  <1>5. Rated'
    BY <1>1, <1>2, <1>4, Disjoint DEF SeedInv, Rated
  <1> QED
    BY <1>2, <1>3, <1>4, <1>5 DEF SeedInv

\* The rows of the test account are no reviews: the ratings stay exact.
LEMMA DemoStage == ASSUME SeedInv, SeedDemo PROVE SeedInv'
PROOF
  <1>1. Upsert("demo", DemoRows) /\ DemoRows \in SUBSET Rows
    BY Disjoint DEF SeedDemo
  <1>2. /\ TypeOK' /\ complete' = complete /\ taken' = taken
        /\ at = "demo" /\ done \subseteq done' /\ done' \subseteq done \cup DemoRows
        /\ at' = "idle" \/ at' = at
    BY <1>1, UpsertKeeps DEF SeedInv
  <1>3. Upserted' /\ Threads'
    BY <1>1, UpsertFinds DEF SeedInv
  <1>4. ~ complete /\ InStage'
    BY <1>2 DEF SeedInv, InStage
  <1>5. PICK r \in DemoRows :
          /\ row' = row \/ row' = Written(r)
          /\ counted' = counted \/ counted' = {m \in counted : <<"review", m>> # r}
    BY <1>1 DEF Upsert, Due
  <1>6. counted' = counted
    BY <1>5, Disjoint DEF SeedInv, TypeOK
  <1>7. \A m \in Missions : row'[<<"review", m>>] = row[<<"review", m>>]
    BY <1>5, Disjoint DEF SeedInv, TypeOK, Written
  <1>8. Reviewed' = Reviewed
    BY <1>7, <1>2 DEF Reviewed, Present
  <1>9. Rated'
    BY <1>2, <1>4, <1>6, <1>8 DEF SeedInv, Rated
  <1> QED
    BY <1>2, <1>3, <1>4, <1>9 DEF SeedInv

\* A provider whose rating is computed again has the reviews it should.
LEMMA RatingStage == ASSUME SeedData, SeedInv, SeedRatings PROVE SeedInv'
PROOF
  <1>1. PICK p \in Providers :
          \/ /\ counted' = {m \in counted : ProviderOf[m] # p}
                              \cup {m \in Reviewed : ProviderOf[m] = p}
             /\ done' = done \cup {<<"rating", p>>}
             /\ at' = at
          \/ at' = "idle" /\ done' = done /\ counted' = counted
    BY DEF SeedRatings
  <1>2. at = "ratings" /\ UNCHANGED <<complete, row, taken>> /\ ~ complete
    BY DEF SeedRatings, SeedInv, InStage
  <1>3. /\ TypeOK' /\ Threads'
        /\ \A r \in Rows : r \in done' <=> r \in done
    <2>1. <<"rating", p>> \in RatingRows
      BY DEF RatingRows
    <2>2. at' \in {"ratings", "idle"} /\ counted' \subseteq Missions
          /\ (done' = done \/ done' = done \cup {<<"rating", p>>})
      BY <1>1, <1>2 DEF SeedInv, TypeOK, Reviewed
    <2>3. TypeOK'
      BY <2>1, <2>2, <1>2 DEF SeedInv, TypeOK
    <2>4. Threads'
      BY <1>2 DEF SeedInv, Threads, Present
    <2> QED
      BY <2>1, <2>2, <2>3, <2>4, Disjoint
  <1>4. Upserted'
    BY <1>1, <1>2, <1>3 DEF SeedInv, Upserted, Found, Present
  <1>5. InStage'
    BY <1>1, <1>2, <1>3 DEF SeedInv, InStage
  <1>6. Reviewed' = Reviewed
    BY <1>2 DEF Reviewed, Present
  <1>7. Rated'
    <2>1. CASE at' = "idle"
      BY <2>1, <1>2 DEF Rated
    <2>2. CASE at' = at
      <3>1. \A m \in Missions :
              <<"rating", ProviderOf[m]>> \in done' => (m \in counted' <=> m \in Reviewed')
        BY <1>1, <1>2, <1>6 DEF SeedInv, Rated, Reviewed
      <3> QED
        BY <3>1, <2>2, <1>2 DEF Rated
    <2> QED
      BY <2>1, <2>2, <1>1
  <1> QED
    BY <1>3, <1>4, <1>5, <1>7 DEF SeedInv

\* Starting, going on to the next stage and stopping.
LEMMA OtherSteps == ASSUME SeedData, SeedInv, Start \/ NextStage \/ Stop PROVE SeedInv'
PROOF
  <1>1. UNCHANGED <<row, taken, counted>> /\ (done' = done \/ done' = {})
    BY DEF Start, NextStage, Advance, Stop
  <1>2. TypeOK' /\ Upserted' /\ Threads' /\ Reviewed' = Reviewed
    BY <1>1 DEF SeedInv, TypeOK, Upserted, Threads, Found, Present, Reviewed,
                Start, NextStage, Advance, Stop
  <1>3. InStage'
    <2>1. CASE Start \/ Stop
      BY <2>1 DEF SeedInv, InStage, Start, Stop
    <2>2. CASE Advance("demo", DemoRows, "idle")
      BY <2>2 DEF SeedInv, InStage, Advance, Rows
    <2>3. CASE \/ Advance("catalog", CatalogRows, "clients")
               \/ Advance("clients", ClientRows, "providers")
               \/ Advance("providers", ProviderRows, "history")
      BY <2>3 DEF SeedInv, InStage, Advance
    <2>4. CASE \/ Advance("history", HistoryRows, "ratings")
               \/ Advance("ratings", RatingRows, "demo")
      BY <2>4 DEF SeedInv, InStage, Advance
    <2> QED
      BY <2>1, <2>2, <2>3, <2>4 DEF NextStage
  <1>4. Rated'
    <2>1. CASE Start \/ Stop
      BY <2>1, <1>1, <1>2 DEF SeedInv, Rated, InStage, Start, Stop
    <2>2. CASE Advance("ratings", RatingRows, "demo")
      <3>1. \A m \in Missions : <<"rating", ProviderOf[m]>> \in done
        BY <2>2 DEF SeedData, Advance, RatingRows
      <3>2. counted = Reviewed
        BY <2>2, <3>1 DEF SeedInv, Rated, Advance, Reviewed, TypeOK
      <3> QED
        BY <3>2, <2>2, <1>1, <1>2 DEF Rated, Advance
    <2>3. CASE Advance("history", HistoryRows, "ratings")
      <3>1. done' \cap RatingRows = {}
        BY <2>3 DEF SeedInv, Rated, Advance
      <3>2. \A m \in Missions : <<"rating", ProviderOf[m]>> \in RatingRows
        BY DEF SeedData, RatingRows
      <3> QED
        BY <3>1, <3>2, <2>3 DEF Rated, Advance
    <2>4. CASE Advance("demo", DemoRows, "idle")
      BY <2>4, <1>1, <1>2 DEF SeedInv, Rated, Advance
    <2>5. CASE \/ Advance("catalog", CatalogRows, "clients")
               \/ Advance("clients", ClientRows, "providers")
               \/ Advance("providers", ProviderRows, "history")
      BY <2>5 DEF SeedInv, Rated, Advance
    <2> QED
      BY <2>1, <2>2, <2>3, <2>4, <2>5 DEF NextStage
  <1> QED
    BY <1>2, <1>3, <1>4 DEF SeedInv

\* The server takes no row of the seed away but services of providers.
LEMMA ServerSteps ==
  ASSUME SeedInv,
         \/ \E r \in Rows : Edit(r) \/ Take(r)
         \/ \E p \in Providers, labels \in SUBSET Labels : ReplaceServices(p, labels)
         \/ \E m \in Missions : Review(m)
  PROVE  SeedInv'
PROOF
  <1>1. at = "idle" /\ UNCHANGED <<at, done, complete>> /\ taken \subseteq taken'
    BY DEF Edit, Take, ReplaceServices, Review
  <1>2. \A r \in Rows \ LabelRows : Present(r)' <=> Present(r)
    <2>1. CASE \E r \in Rows : Edit(r) \/ Take(r)
      BY <2>1 DEF SeedInv, TypeOK, Edit, Take, Present
    <2>2. CASE \E p \in Providers, labels \in SUBSET Labels : ReplaceServices(p, labels)
      BY <2>2 DEF SeedInv, TypeOK, ReplaceServices, Present, LabelsOf, LabelRows
    <2>3. CASE \E m \in Missions : Review(m)
      BY <2>3 DEF Review, Present
    <2> QED
      BY <2>1, <2>2, <2>3
  <1>3. TypeOK'
    BY Disjoint DEF SeedInv, TypeOK, Edit, Take, ReplaceServices, Review, Reviewed
  <1>4. Upserted' /\ Threads' /\ InStage'
    BY <1>1, <1>2, Disjoint DEF SeedInv, Upserted, Threads, InStage, Found
  <1>5. ASSUME complete PROVE counted' = Reviewed'
    <2>1. \A m \in Missions : m \in Reviewed
      BY <1>5, Disjoint DEF SeedInv, Upserted, InStage, Found, Reviewed
    <2>2. counted' = counted
      BY <2>1 DEF Edit, Take, ReplaceServices, Review
    <2>3. \A m \in Missions : m \in Reviewed'
      BY <2>1, <1>1, <1>2, Disjoint DEF Reviewed
    <2>4. Reviewed = Missions /\ Reviewed' = Missions
      BY <2>1, <2>3 DEF Reviewed
    <2> QED
      BY <2>2, <2>4, <1>5 DEF SeedInv, Rated
  <1>6. Rated'
    BY <1>1, <1>5 DEF Rated
  <1> QED
    BY <1>3, <1>4, <1>6 DEF SeedInv

\* The invariant holds in every state.
THEOREM SeedCorrect == ASSUME SeedData PROVE Spec => []SeedInv
PROOF
  <1>1. ASSUME SeedInv, [Next]_vars PROVE SeedInv'
    <2>1. CASE UNCHANGED vars
      BY <1>1, <2>1 DEF vars, SeedInv, TypeOK, Upserted, Threads, InStage, Rated, Found, Present, Reviewed
    <2>2. CASE Next
      BY <1>1, <2>2, EarlyStages, DemoStage, RatingStage, OtherSteps, ServerSteps DEF Next
    <2> QED
      BY <1>1, <2>1, <2>2
  <1> QED
    BY <1>1, InitSeeded, PTL DEF Spec

----------------------------------------------------------------------------
(* What it implies *)

\* The ratings are those of the reviews after every run that came to its end.
THEOREM RatingsCorrect == ASSUME SeedData PROVE Spec => []RatingsExact
PROOF
  <1>1. SeedInv => RatingsExact
    BY DEF SeedInv, Rated, RatingsExact
  <1> QED
    BY <1>1, SeedCorrect, PTL

\* What a statement refers to has been upserted by the time that the order of the
\* code comes to it.
LEMMA ParentsDone ==
  ASSUME SeedData, SeedInv, NEW r \in Pursued, NEW q \in Parents(r)
  PROVE  q \in done
PROOF
  <1>1. CASE at = "catalog"
    BY <1>1 DEF Pursued, Due, CatalogRows, Parents, Earlier, Conversation, Pending, Payment
  <1>2. CASE at = "clients"
    BY <1>2 DEF Pursued, Due, ClientRows, Parents, Earlier, Conversation, Pending, Payment
  <1>3. CASE at = "providers"
    BY <1>3 DEF Pursued, Due, ProviderRows, Parents, Earlier, Conversation, Pending, Payment
  <1>4. CASE at = "history"
    <2>1. r \in HistoryRows /\ Earlier(r) \subseteq done
      BY <1>4 DEF Pursued, Due
    <2>2. \A m \in Missions : <<"user", ClientOf[m]>> \in done /\ <<"provider", ProviderOf[m]>> \in done
      BY <1>4 DEF SeedData, SeedInv, InStage, ClientRows, ProviderRows
    <2>3. PICK m \in Missions : r = <<"booking", m>> \/ r = <<"review", m>>
      BY <2>1 DEF HistoryRows
    <2>4. CASE r = <<"booking", m>>
      BY <2>2, <2>4 DEF SeedData, Parents, Conversation, Pending, Payment
    <2>5. CASE r = <<"review", m>>
      <3>1. Parents(r) = {<<"booking", m>>, <<"user", ClientOf[m]>>, <<"provider", ProviderOf[m]>>}
        BY <2>5 DEF Parents, Conversation, Pending, Payment
      <3>2. Earlier(r) = {<<"booking", m>>}
        BY <2>5 DEF Earlier, Conversation, Pending, Payment
      <3> QED
        BY <2>1, <2>2, <3>1, <3>2
    <2> QED
      BY <2>3, <2>4, <2>5
  <1>5. CASE at = "ratings"
    BY <1>5 DEF Pursued, Due, RatingRows, ProviderRows, Parents, Conversation, Pending, Payment,
                SeedInv, InStage
  <1>6. CASE at = "demo"
    <2>1. r \in DemoRows /\ Earlier(r) \subseteq done
      BY <1>6 DEF Pursued, Due
    <2>2. /\ <<"user", TestClient>> \in done /\ <<"user", FirstProvider>> \in done
          /\ <<"provider", FirstProvider>> \in done /\ <<"provider", SecondProvider>> \in done
          /\ <<"booking", DemoMission>> \in done
      BY <1>6 DEF SeedData, SeedInv, InStage, ClientRows, ProviderRows, HistoryRows
    <2> QED
      BY <2>1, <2>2 DEF SeedData, DemoRows, Parents, Earlier, Conversation, Pending, Payment
  <1> QED
    BY <1>1, <1>2, <1>3, <1>4, <1>5, <1>6 DEF Pursued

\* Nothing but a row of the server ever refuses a statement of the seed.
THEOREM OrderOfStages == ASSUME SeedData PROVE Spec => []OnlyKeysRefuse
PROOF
  <1>1. ASSUME SeedInv, NEW r \in Pursued, Refused(r)
        PROVE  \E q \in taken : q = r \/ (q = Conversation /\ Conversation \in Parents(r))
    <2>1. CASE r \in taken
      BY <2>1
    <2>2. CASE r \notin taken
      <3>1. PICK q \in Parents(r) : ~ Present(q)
        BY <2>2, <1>1 DEF Refused
      <3>2. r \in Rows \cup RatingRows /\ at # "idle"
        BY <1>1 DEF Pursued, Due, Rows
      <3>3. q \in Rows /\ q \in done
        BY <1>1, <3>2, ParentTables, ParentsDone
      <3>4. Found(q)
        BY <3>2, <3>3, <1>1 DEF SeedInv, Upserted
      <3>5. q \in taken /\ q = Conversation
        BY <3>1, <3>2, <3>4, ParentTables DEF Found
      <3> QED
        BY <3>1, <3>5
    <2> QED
      BY <2>1, <2>2
  <1>2. SeedInv => OnlyKeysRefuse
    BY <1>1 DEF OnlyKeysRefuse
  <1> QED
    BY <1>2, SeedCorrect, PTL

\* A row that is found is the seed's or the review of another: once a message of
\* the seed is found, so is the conversation of the seed.
LEMMA AllSeeded ==
  ASSUME SeedInv, Rows \subseteq done, Messages # {}, NEW r \in Rows, Found(r)
  PROVE  Seeded(r)
PROOF
  <1>1. PICK g \in Messages : TRUE
    OBVIOUS
  <1>2. Found(<<"message", g>>)
    BY Disjoint DEF SeedInv, Upserted
  <1>3. Present(Conversation)
    BY <1>2 DEF SeedInv, Threads, Found
  <1>4. r[1] = "conversation" => r = Conversation
    BY DEF Rows, CatalogRows, ClientRows, ProviderRows, HistoryRows, DemoRows, Conversation,
           Pending, Payment
  <1> QED
    BY <1>3, <1>4 DEF Found, Seeded

\* At the moment a run comes to its end all rows of the seed are there.
THEOREM RunsSeed == ASSUME SeedData PROVE Spec => CompleteIsSeeded
PROOF
  <1> DEFINE Ends == Messages # {} /\ complete' /\ ~ complete => \A r \in Rows : Seeded(r)'
  <1>1. ASSUME SeedInv, SeedInv', [Next]_vars PROVE [Ends]_vars
    <2>1. SUFFICES ASSUME Messages # {}, complete', ~ complete, NEW r \in Rows
                   PROVE  Seeded(r)'
      OBVIOUS
    <2>2. at = "demo" /\ UNCHANGED <<done, row, taken>>
      <3>1. Advance("demo", DemoRows, "idle")
        BY <1>1, <2>1 DEF Next, Start, NextStage, Advance, Stop, SeedCatalog, SeedClients,
             SeedProviders, SeedHistory, SeedDemo, Upsert, SeedRatings, Edit, Take,
             ReplaceServices, Review, vars
      <3> QED
        BY <3>1 DEF Advance
    <2>3. Rows \subseteq done
      BY <1>1, <2>1, <2>2 DEF SeedInv, InStage
    <2>4. Found(r)
      BY <1>1, <2>2, <2>3 DEF SeedInv, Upserted
    <2>5. Seeded(r)
      BY <1>1, <2>1, <2>3, <2>4, AllSeeded
    <2> QED
      BY <2>2, <2>5 DEF Seeded, Present
  <1> QED
    BY <1>1, SeedCorrect, PTL DEF Spec, CompleteIsSeeded

\* What the server takes away after a run that came to its end are services of
\* providers.
THEOREM ServicesLeave == ASSUME SeedData PROVE Spec => []OnlyServicesLeave
PROOF
  <1>1. ASSUME SeedInv, complete, Messages # {}, NEW r \in Rows
        PROVE  Seeded(r) \/ \E p \in Providers : r \in LabelsOf(p)
    <2>1. Rows \subseteq done /\ (Found(r) \/ r \in LabelRows)
      BY <1>1 DEF SeedInv, InStage, Upserted
    <2>2. r \in LabelRows => \E p \in Providers : r \in LabelsOf(p)
      BY DEF LabelRows, LabelsOf
    <2> QED
      BY <1>1, <2>1, <2>2, AllSeeded
  <1>2. SeedInv => OnlyServicesLeave
    BY <1>1 DEF OnlyServicesLeave
  <1> QED
    BY <1>2, SeedCorrect, PTL

=============================================================================
