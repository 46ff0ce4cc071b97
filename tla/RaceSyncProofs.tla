--------------------------- MODULE RaceSyncProofs ---------------------------
(***************************************************************************)
(* Theorems about RaceSync, for any number of documents, uuids, handlers   *)
(* and events, and any faults.                                             *)
(***************************************************************************)
EXTENDS RaceSyncTable, TLAPS

(* A handler at a statement serves an event that was published, and one that
   upserts serves a snapshot that the domain accepted: what TypeOK needs to
   know of the row a statement is about to write. *)
JobOK ==
  \A h \in Handlers :
    pc[h] # "idle" =>
      /\ job[h] \in Published
      /\ pc[h] \in {"upsert", "reload"} => events[job[h]].op = "sync"

TypeInv == TypeOK /\ JobOK

LEMMA EventFields ==
  ASSUME NEW e \in Event
  PROVE  e.slug \in Slugs /\ e.op \in Operations
  BY DEF Event

LEMMA TypeInit == Init => TypeInv
  BY ConstantsAssumption DEF Init, TypeInv, TypeOK, JobOK, Published

(* The event a busy handler serves. *)
LEMMA Serving ==
  ASSUME TypeInv, NEW h \in Handlers, pc[h] # "idle"
  PROVE  /\ job[h] \in 1..Len(events) /\ job[h] \in Published
         /\ job[h] \in 1..MaxEvents
         /\ events[job[h]] \in Event /\ SlugOf(h) \in Slugs
         /\ pc[h] \in {"upsert", "reload"} => events[job[h]].op = "sync"
<1>1. job[h] \in Published /\ Published = 1..Len(events) /\ Len(events) \in Nat
      /\ Len(events) <= MaxEvents /\ MaxEvents \in Nat
  BY ConstantsAssumption DEF TypeInv, TypeOK, JobOK, Published
<1>2. events[job[h]] \in Event
  BY <1>1 DEF TypeInv, TypeOK
<1>3. pc[h] \in {"upsert", "reload"} => events[job[h]].op = "sync"
  BY DEF TypeInv, JobOK
<1>4. events[job[h]].slug \in Slugs
  BY <1>2, EventFields
<1>5. job[h] \in 1..Len(events) /\ job[h] \in 1..MaxEvents
  BY <1>1
<1> QED BY <1>1, <1>2, <1>3, <1>4, <1>5 DEF SlugOf

(* A new event leaves those before it where they are. *)
LEMMA TypePublish ==
  ASSUME TypeInv, Publish
  PROVE  TypeInv'
<1>1. PICK e \in Event : events' = Append(events, e)
  BY DEF Publish
<1>2. /\ events \in Seq(Event) /\ Len(events) < MaxEvents
      /\ due \in [1..Len(events) -> Sent] /\ due' = Append(due, "due")
      /\ UNCHANGED <<late, races, spent, rowIds, referenced, job, pc, answers,
                     faults>>
  BY DEF TypeInv, TypeOK, Publish, table
<1>3. /\ events' \in Seq(Event) /\ Len(events') = Len(events) + 1
      /\ \A n \in 1..Len(events) : events'[n] = events[n]
      /\ Published = 1..Len(events) /\ Published' = 1..Len(events')
      /\ Len(events) \in Nat /\ MaxEvents \in Nat
  BY <1>1, <1>2, ConstantsAssumption DEF Published
<1>4. due' \in [1..Len(events') -> Sent]
  <2>1. due \in Seq(Sent) /\ Len(due) = Len(events)
    BY <1>2, <1>3
  <2>2. due' \in Seq(Sent) /\ Len(due') = Len(events')
    BY <2>1, <1>2, <1>3 DEF Sent
  <2> QED BY <2>2
<1>5. Len(events') <= MaxEvents
  BY <1>2, <1>3
<1>6. TypeOK'
  <2>1. \A s \in Slugs : races[s] # NoRace =>
          /\ races[s].version \in Published'
          /\ events'[races[s].version].slug = s
          /\ events'[races[s].version].op = "sync"
    <3>1. TAKE s \in Slugs
    <3>2. HAVE races[s] # NoRace
    <3>3. /\ races[s].version \in Published
          /\ events[races[s].version].slug = s
          /\ events[races[s].version].op = "sync"
      BY <3>2 DEF TypeInv, TypeOK
    <3>4. races[s].version \in 1..Len(events)
      BY <1>3, <3>3
    <3>5. races[s].version \in 1..Len(events')
      BY <1>3, <3>4
    <3> QED BY <1>2, <1>3, <3>3, <3>4, <3>5
  <2>2. late' \subseteq Published'
    BY <1>2, <1>3 DEF TypeInv, TypeOK
  <2> QED BY <1>2, <1>3, <1>4, <1>5, <2>1, <2>2 DEF TypeInv, TypeOK, Row
<1>7. JobOK'
  BY <1>2, <1>3 DEF TypeInv, JobOK
<1> QED BY <1>6, <1>7 DEF TypeInv

LEMMA FaultType ==
  ASSUME faults \in 0..MaxFaults, NEW kind, Fault(kind)
  PROVE  faults' \in 0..MaxFaults
  BY ConstantsAssumption DEF Fault

(* The steps of the CMS other than Publish. *)
LEMMA TypeCms ==
  ASSUME TypeInv, NEW n \in Published, GiveUp(n) \/ TimeOut(n) \/ Duplicate(n)
  PROVE  TypeInv'
<1>1. /\ due' \in [1..Len(events) -> Sent]
      /\ late' \subseteq Published
      /\ UNCHANGED <<events, races, spent, rowIds, referenced, job, pc, answers>>
  BY DEF TypeInv, TypeOK, GiveUp, TimeOut, Duplicate, Settle, Sent, table
<1>2. faults' \in 0..MaxFaults
  BY FaultType DEF TypeInv, TypeOK, GiveUp, TimeOut, Duplicate
<1> QED BY <1>1, <1>2 DEF TypeInv, TypeOK, JobOK, Published, Row

LEMMA TypeReceive ==
  ASSUME TypeInv, NEW h \in Handlers, NEW n \in Published, Receive(h, n)
  PROVE  TypeInv'
<1> DEFINE first == FirstStatement(events[n])
<1>1. /\ n \in 1..Len(events) /\ n \in 1..MaxEvents /\ n \in 0..MaxEvents
      /\ 0 \in 0..MaxEvents
      /\ events[n] \in Event
  BY ConstantsAssumption DEF TypeInv, TypeOK, Published
<1>2. first \in {"idle", "upsert", "delete"}
      /\ (first = "upsert" => events[n].op = "sync")
  BY <1>1, EventFields DEF FirstStatement, Operations
<1>3. /\ pc' = [pc EXCEPT ![h] = first]
      /\ job' = [job EXCEPT ![h] = IF first = "idle" THEN 0 ELSE n]
      /\ due' = [due EXCEPT ![n] = IF first = "idle" THEN "settled" ELSE "sent"]
      /\ UNCHANGED <<events, races, spent, rowIds, referenced, answers>>
  BY DEF Receive, Settle, table
<1>4. late' \subseteq Published /\ faults' \in 0..MaxFaults
  <2>1. Before(n) \subseteq Published
    BY <1>1 DEF Before, Published, TypeInv, TypeOK
  <2>2. late' \subseteq Published
    BY <2>1 DEF Receive, TypeInv, TypeOK
  <2>3. faults' \in 0..MaxFaults
    BY FaultType DEF Receive, TypeInv, TypeOK
  <2> QED BY <2>2, <2>3
<1> HIDE DEF first
<1>5. TypeOK'
  BY <1>1, <1>2, <1>3, <1>4 DEF TypeInv, TypeOK, Published, Row, Sent
<1>6. JobOK'
  BY <1>1, <1>2, <1>3 DEF TypeInv, TypeOK, JobOK, Published
<1> QED BY <1>5, <1>6 DEF TypeInv

(* An answer frees its handler. *)
LEMMA AnswerType ==
  ASSUME TypeInv, NEW h \in Handlers, pc[h] # "idle", NEW st \in Sent,
         Answer(h, st), UNCHANGED events
  PROVE  /\ due' \in [1..Len(events) -> Sent]
         /\ job' \in [Handlers -> 0..MaxEvents]
         /\ pc' \in [Handlers -> {"idle", "upsert", "reload", "delete"}]
         /\ JobOK'
  BY Serving, ConstantsAssumption
     DEF TypeInv, TypeOK, JobOK, Answer, Published

LEMMA TypeUpsert ==
  ASSUME TypeInv, NEW h \in Handlers, Upsert(h)
  PROVE  TypeInv'
<1> DEFINE s == SlugOf(h)
           n == job[h]
<1>1. /\ n \in 1..MaxEvents /\ n \in Published /\ s \in Slugs
      /\ events[n].slug = s /\ events[n].op = "sync"
  BY Serving DEF Upsert, Serves, SlugOf
<1>2. /\ InsertRow(s, n) \/ RefreshRow(s, n)
      /\ pc' = [pc EXCEPT ![h] = "reload"]
      /\ UNCHANGED <<events, due, late, referenced, job, answers, faults>>
      /\ pc[h] = "upsert"
  BY DEF Upsert, Serves, cms
<1> HIDE DEF s, n
<1>3. /\ races' \in [Slugs -> Row \cup {NoRace}]
      /\ \A t \in Slugs : races'[t] = races[t] \/ (t = s /\ races'[t].version = n)
      /\ spent' \subseteq RaceIds /\ rowIds' \in [Slugs -> SUBSET RaceIds]
  <2>1. CASE InsertRow(s, n)
    <3>1. PICK r \in RaceIds \ spent :
            /\ races' = [races EXCEPT ![s] = [id |-> r, version |-> n]]
            /\ rowIds' = [rowIds EXCEPT ![s] = @ \cup {r}]
            /\ spent' = spent \cup {r}
      BY <2>1 DEF InsertRow
    <3> QED BY <1>1, <3>1 DEF TypeInv, TypeOK, Row
  <2>2. CASE RefreshRow(s, n)
    <3>1. races[s] \in Row
      BY <1>1, <2>2 DEF RefreshRow, TypeInv, TypeOK
    <3>2. [races[s] EXCEPT !.version = n] \in Row
          /\ [races[s] EXCEPT !.version = n].version = n
      BY <3>1, <1>1 DEF Row
    <3> QED BY <1>1, <2>2, <3>2 DEF RefreshRow, TypeInv, TypeOK
  <2> QED BY <1>2, <2>1, <2>2
<1>4. \A t \in Slugs : races'[t] # NoRace =>
        /\ races'[t].version \in Published
        /\ events[races'[t].version].slug = t
        /\ events[races'[t].version].op = "sync"
  BY <1>1, <1>3 DEF TypeInv, TypeOK
<1>5. TypeOK'
  BY <1>2, <1>3, <1>4 DEF TypeInv, TypeOK, Published, Row
<1>6. JobOK'
  BY <1>2 DEF TypeInv, TypeOK, JobOK, Published
<1> QED BY <1>5, <1>6 DEF TypeInv

LEMMA TypeReload ==
  ASSUME TypeInv, NEW h \in Handlers, Reload(h)
  PROVE  TypeInv'
<1>1. /\ SlugOf(h) \in Slugs /\ pc[h] # "idle"
      /\ UNCHANGED <<events, late, races, spent, rowIds, referenced, faults>>
  BY Serving DEF Reload, Serves, table
<1>2. answers' \subseteq Slugs \X RaceIds
  <2>1. CASE answers' = answers
    BY <2>1 DEF TypeInv, TypeOK
  <2>2. CASE /\ races[SlugOf(h)] # NoRace
             /\ answers' = answers \cup {<<SlugOf(h), races[SlugOf(h)].id>>}
    <3>1. races[SlugOf(h)].id \in RaceIds
      BY <1>1, <2>2 DEF TypeInv, TypeOK, Row
    <3> QED BY <1>1, <2>2, <3>1 DEF TypeInv, TypeOK
  <2> QED BY <2>1, <2>2 DEF Reload
<1>3. \E st \in Sent : Answer(h, st)
  BY DEF Reload, Sent
<1> QED BY <1>1, <1>2, <1>3, AnswerType DEF TypeInv, TypeOK, Published, Row

(* Statements that end a delivery without writing a row. *)
LEMMA TypeEnds ==
  ASSUME TypeInv, NEW h \in Handlers,
         Delete(h) \/ StatementFails(h) \/ AnswerLost(h)
  PROVE  TypeInv'
<1>1. /\ pc[h] # "idle" /\ \E st \in Sent : Answer(h, st)
      /\ UNCHANGED <<events, late, spent, rowIds, referenced, answers>>
      /\ races' = races \/ races' = [races EXCEPT ![SlugOf(h)] = NoRace]
  BY DEF Delete, StatementFails, AnswerLost, Serves, Sent, table
<1>2. /\ races' \in [Slugs -> Row \cup {NoRace}]
      /\ \A t \in Slugs : races'[t] # NoRace => races'[t] = races[t]
  BY <1>1, Serving DEF TypeInv, TypeOK
<1>3. faults' \in 0..MaxFaults
  BY FaultType DEF TypeInv, TypeOK, Delete, StatementFails, AnswerLost
<1> QED BY <1>1, <1>2, <1>3, AnswerType DEF TypeInv, TypeOK, Published, Row

LEMMA TypeRegister ==
  ASSUME TypeInv, NEW s \in Slugs, Register(s)
  PROVE  TypeInv'
<1>1. races[s].id \in RaceIds
  BY DEF Register, TypeInv, TypeOK, Row
<1> QED BY <1>1 DEF Register, cms, TypeInv, TypeOK, JobOK, Published, Row

LEMMA TypeStep == TypeInv /\ [Next]_vars => TypeInv'
<1> SUFFICES ASSUME TypeInv, [Next]_vars PROVE TypeInv'
  OBVIOUS
<1>1. CASE UNCHANGED vars
  BY <1>1 DEF vars, TypeInv, TypeOK, JobOK, Published, Row
<1>2. CASE Next
  BY <1>2, TypePublish, TypeCms, TypeReceive, TypeUpsert, TypeReload, TypeEnds,
     TypeRegister DEF Next
<1> QED BY <1>1, <1>2

(* Values keep their types, and no row of the races table holds a snapshot
   that the domain refuses (race domain.New). *)
THEOREM TypeCorrect == Spec => []TypeOK
<1>1. TypeInv => TypeOK
  BY DEF TypeInv
<1> QED BY <1>1, TypeInit, TypeStep, PTL DEF Spec

-----------------------------------------------------------------------------
(* What the statements of the webhook and of internal/participant do to the
   races table, as RaceTable sees it. *)

RowId(s) == IF races[s] = NoRace THEN NoRace ELSE races[s].id

(* The id a document's race has had is known: what AnsweredIdsAreReal needs of
   the row that an answer is read from. *)
IdsOK == \A s \in Slugs : races[s] # NoRace => races[s].id \in rowIds[s]

(* A statement inserts a row under a fresh id, ends one that is not referenced,
   has a registration refer to one, or leaves every id alone. *)
Inserts(s, r) ==
  /\ races[s] = NoRace /\ r \in RaceIds \ spent
  /\ races' = [races EXCEPT ![s] = [id |-> r, version |-> races'[s].version]]
  /\ races'[s] \in Row
  /\ spent' = spent \cup {r}
  /\ rowIds' = [rowIds EXCEPT ![s] = @ \cup {r}]
  /\ UNCHANGED <<referenced, answers>>

Refreshes(s) ==
  /\ races[s] # NoRace /\ races'[s] \in Row /\ races'[s].id = races[s].id
  /\ \A t \in Slugs \ {s} : races'[t] = races[t]
  /\ UNCHANGED <<spent, rowIds, referenced, answers>>

Deletes(s) ==
  /\ RowId(s) \notin referenced
  /\ races' = [races EXCEPT ![s] = NoRace]
  /\ UNCHANGED <<spent, rowIds, referenced, answers>>

Refers(s) ==
  /\ races[s] # NoRace
  /\ referenced' = referenced \cup {races[s].id}
  /\ UNCHANGED <<races, spent, rowIds, answers>>

Answers(s) ==
  /\ races[s] # NoRace
  /\ answers' = answers \cup {<<s, races[s].id>>}
  /\ UNCHANGED <<races, spent, rowIds, referenced>>

Leaves == UNCHANGED <<races, spent, rowIds, referenced, answers>>

LEMMA UpsertWrites ==
  ASSUME TypeInv, NEW h \in Handlers, Upsert(h)
  PROVE  \E s \in Slugs : Refreshes(s) \/ \E r \in RaceIds : Inserts(s, r)
<1> DEFINE s == SlugOf(h)
           n == job[h]
<1>1. n \in 1..MaxEvents /\ s \in Slugs
  BY Serving DEF Upsert, Serves
<1>2. InsertRow(s, n) \/ RefreshRow(s, n)
  BY DEF Upsert
<1>3. UNCHANGED <<referenced, answers>>
  BY DEF Upsert
<1> HIDE DEF s, n
<1>4. CASE InsertRow(s, n)
  <2>1. PICK r \in RaceIds \ spent :
          /\ races' = [races EXCEPT ![s] = [id |-> r, version |-> n]]
          /\ rowIds' = [rowIds EXCEPT ![s] = @ \cup {r}]
          /\ spent' = spent \cup {r}
    BY <1>4 DEF InsertRow
  <2>2. races'[s] = [id |-> r, version |-> n] /\ races'[s] \in Row
    BY <1>1, <2>1 DEF TypeInv, TypeOK, Row
  <2>3. races'[s].version = n
    BY <2>2
  <2>4. Inserts(s, r)
    BY <1>3, <1>4, <2>1, <2>2, <2>3 DEF InsertRow, Inserts
  <2> QED BY <1>1, <2>4
<1>5. CASE RefreshRow(s, n)
  <2>1. races[s] \in Row
    BY <1>1, <1>5 DEF RefreshRow, TypeInv, TypeOK
  <2>2. [races[s] EXCEPT !.version = n] \in Row
        /\ [races[s] EXCEPT !.version = n].id = races[s].id
    BY <2>1, <1>1 DEF Row
  <2>3. Refreshes(s)
    BY <1>1, <1>3, <1>5, <2>2 DEF RefreshRow, Refreshes, TypeInv, TypeOK
  <2> QED BY <1>1, <2>3
<1> QED BY <1>2, <1>4, <1>5

LEMMA DeletionWrites ==
  ASSUME TypeInv, NEW h \in Handlers, Delete(h) \/ AnswerLost(h)
  PROVE  Leaves \/ \E s \in Slugs : Deletes(s)
<1>1. SlugOf(h) \in Slugs
  BY Serving DEF Delete, AnswerLost, Serves
<1>2. NoRace \notin referenced
  BY ConstantsAssumption DEF TypeInv, TypeOK
<1>3. CASE UNCHANGED races
  BY <1>3 DEF Delete, AnswerLost, Leaves
<1>4. CASE ~Restricted(SlugOf(h)) /\ races' = [races EXCEPT ![SlugOf(h)] = NoRace]
  <2>1. RowId(SlugOf(h)) \notin referenced
    BY <1>2, <1>4 DEF RowId, Restricted
  <2>2. Deletes(SlugOf(h))
    BY <1>4, <2>1 DEF Delete, AnswerLost, Deletes
  <2> QED BY <1>1, <2>2
<1> QED BY <1>3, <1>4 DEF Delete, AnswerLost

LEMMA TableStep ==
  ASSUME TypeInv, [Next]_vars
  PROVE  \/ Leaves
         \/ \E s \in Slugs :
              \/ Refreshes(s) \/ Deletes(s) \/ Refers(s) \/ Answers(s)
              \/ \E r \in RaceIds : Inserts(s, r)
<1>1. CASE UNCHANGED vars
  BY <1>1 DEF vars, Leaves
<1>2. CASE Publish \/ \E n \in Published : GiveUp(n) \/ TimeOut(n) \/ Duplicate(n)
  BY <1>2 DEF Publish, GiveUp, TimeOut, Duplicate, table, Leaves
<1>3. CASE \E h \in Handlers, n \in Published : Receive(h, n)
  BY <1>3 DEF Receive, table, Leaves
<1>4. CASE \E h \in Handlers : StatementFails(h)
  BY <1>4 DEF StatementFails, table, Leaves
<1>5. CASE \E h \in Handlers : Upsert(h)
  BY <1>5, UpsertWrites
<1>6. CASE \E h \in Handlers : Delete(h) \/ AnswerLost(h)
  BY <1>6, DeletionWrites
<1>7. ASSUME NEW h \in Handlers, Reload(h)
      PROVE  Leaves \/ \E s \in Slugs : Answers(s)
  <2>1. SlugOf(h) \in Slugs
    BY <1>7, Serving DEF Reload, Serves
  <2> QED BY <1>7, <2>1 DEF Reload, table, Leaves, Answers
<1>8. CASE \E s \in Slugs : Register(s)
  BY <1>8 DEF Register, Refers
<1> QED BY <1>1, <1>2, <1>3, <1>4, <1>5, <1>6, <1>7, <1>8 DEF Next

(* The ids of the rows after each kind of write. *)
LEMMA RowsAfter ==
  ASSUME TypeInv, NEW s \in Slugs
  PROVE  /\ \A r \in RaceIds : Inserts(s, r) =>
              /\ races'[s] # NoRace /\ races'[s].id = r
              /\ \A t \in Slugs \ {s} : races'[t] = races[t]
         /\ Refreshes(s) => races'[s] # NoRace
         /\ Deletes(s) =>
              /\ races'[s] = NoRace
              /\ \A t \in Slugs \ {s} : races'[t] = races[t]
<1>1. NoRace \notin Row
  BY ConstantsAssumption DEF Row
<1>2. ASSUME NEW r \in RaceIds, Inserts(s, r)
      PROVE  /\ races'[s] # NoRace /\ races'[s].id = r
             /\ \A t \in Slugs \ {s} : races'[t] = races[t]
  <2>1. races'[s] = [id |-> r, version |-> races'[s].version]
        /\ \A t \in Slugs \ {s} : races'[t] = races[t]
    BY <1>2 DEF Inserts, TypeInv, TypeOK
  <2>2. races'[s].id = r
    BY <2>1
  <2> QED BY <1>1, <1>2, <2>1, <2>2 DEF Inserts
<1> QED BY <1>1, <1>2 DEF Refreshes, Deletes, TypeInv, TypeOK

-----------------------------------------------------------------------------

LEMMA ReferencesStep ==
  TypeInv /\ ReferencesHold /\ [Next]_vars => ReferencesHold'
<1> SUFFICES ASSUME TypeInv, ReferencesHold, [Next]_vars,
                    NEW q \in referenced'
             PROVE  \E t \in Slugs : races'[t] # NoRace /\ races'[t].id = q
  BY DEF ReferencesHold
<1>1. CASE Leaves \/ \E s \in Slugs : Answers(s) \/ Refers(s)
  BY <1>1 DEF Leaves, Answers, Refers, ReferencesHold
<1>2. ASSUME NEW s \in Slugs,
             Refreshes(s) \/ Deletes(s) \/ \E r \in RaceIds : Inserts(s, r)
      PROVE  \E t \in Slugs : races'[t] # NoRace /\ races'[t].id = q
  <2>1. q \in referenced
    BY <1>2 DEF Refreshes, Deletes, Inserts
  <2>2. PICK t \in Slugs : races[t] # NoRace /\ races[t].id = q
    BY <2>1 DEF ReferencesHold
  <2>3. CASE Refreshes(s)
    BY <2>2, <2>3, RowsAfter DEF Refreshes
  <2>4. CASE Deletes(s)
    <3>1. t # s
      BY <2>1, <2>2, <2>4 DEF Deletes, RowId
    <3> QED BY <2>2, <2>4, <3>1, RowsAfter
  <2>5. CASE \E r \in RaceIds : Inserts(s, r)
    <3>1. t # s
      BY <2>2, <2>5 DEF Inserts
    <3> QED BY <2>2, <2>5, <3>1, RowsAfter
  <2> QED BY <1>2, <2>3, <2>4, <2>5
<1> QED BY <1>1, <1>2, TableStep

(* Registrations never lose their race: whatever the CMS sends, repeats or
   deletes, a row that is referred to is there under the same id. *)
THEOREM ReferencesCorrect == Spec => []ReferencesHold
<1>1. Init => ReferencesHold
  BY DEF Init, ReferencesHold
<1> QED BY <1>1, TypeInit, TypeStep, ReferencesStep, PTL DEF Spec

LEMMA AnsweredStep ==
  TypeInv /\ IdsOK /\ AnsweredIdsAreReal /\ [Next]_vars
    => IdsOK' /\ AnsweredIdsAreReal'
<1> SUFFICES ASSUME TypeInv, IdsOK, AnsweredIdsAreReal, [Next]_vars
             PROVE  IdsOK' /\ AnsweredIdsAreReal'
  OBVIOUS
<1>1. CASE Leaves \/ \E s \in Slugs : Refers(s)
  BY <1>1 DEF Leaves, Refers, IdsOK, AnsweredIdsAreReal
<1>2. CASE \E s \in Slugs : Answers(s)
  BY <1>2 DEF Answers, IdsOK, AnsweredIdsAreReal
<1>3. CASE \E s \in Slugs : Refreshes(s) \/ Deletes(s)
  <2>1. PICK s \in Slugs : Refreshes(s) \/ Deletes(s)
    BY <1>3
  <2>2. UNCHANGED <<rowIds, answers>>
    BY <2>1 DEF Refreshes, Deletes
  <2>3. ASSUME NEW t \in Slugs, races'[t] # NoRace
        PROVE  races'[t].id \in rowIds[t]
    BY <2>1, <2>3, RowsAfter DEF Refreshes, IdsOK
  <2> QED BY <2>2, <2>3 DEF IdsOK, AnsweredIdsAreReal
<1>4. CASE \E s \in Slugs, r \in RaceIds : Inserts(s, r)
  <2>1. PICK s \in Slugs, r \in RaceIds : Inserts(s, r)
    BY <1>4
  <2>2. /\ answers' = answers
        /\ r \in rowIds'[s]
        /\ \A t \in Slugs : rowIds[t] \subseteq rowIds'[t]
    BY <2>1 DEF Inserts, TypeInv, TypeOK
  <2>3. ASSUME NEW t \in Slugs, races'[t] # NoRace
        PROVE  races'[t].id \in rowIds'[t]
    BY <2>1, <2>2, <2>3, RowsAfter DEF IdsOK
  <2>4. AnsweredIdsAreReal'
    BY <2>2 DEF AnsweredIdsAreReal, TypeInv, TypeOK
  <2> QED BY <2>3, <2>4 DEF IdsOK
<1> QED BY <1>1, <1>2, <1>3, <1>4, TableStep

(* An answer of the webhook names an id under which the race had a row, though
   a deletion or another delivery comes between the upsert and the reload. *)
THEOREM AnsweredCorrect == Spec => []AnsweredIdsAreReal
<1>1. Init => IdsOK /\ AnsweredIdsAreReal
  BY DEF Init, IdsOK, AnsweredIdsAreReal
<1> QED BY <1>1, TypeInit, TypeStep, AnsweredStep, PTL DEF Spec

-----------------------------------------------------------------------------
(* RaceSync implements RaceTable. *)

LEMMA TableInit == Init => Table!Init
  BY DEF Init, Table!Init

LEMMA TableNext == TypeInv /\ [Next]_vars => [Table!Next]_(Table!race)
<1> SUFFICES ASSUME TypeInv, [Next]_vars
             PROVE  Table!Next \/ UNCHANGED Table!race
  OBVIOUS
<1> DEFINE ids == [s \in Slugs |-> IF races[s] = NoRace THEN NoRace
                                                      ELSE races[s].id]
<1>1. CASE Leaves \/ \E s \in Slugs : Answers(s)
  BY <1>1 DEF Leaves, Answers, Table!race
<1>2. CASE \E s \in Slugs : Refreshes(s)
  <2>1. PICK s \in Slugs : Refreshes(s)
    BY <1>2
  <2>2. ids' = ids
    BY <2>1, RowsAfter DEF Refreshes
  <2> QED BY <2>1, <2>2 DEF Refreshes, Table!race
<1>3. ASSUME NEW s \in Slugs, Deletes(s)
      PROVE  Table!End(s)
  <2>1. ids' = [ids EXCEPT ![s] = NoRace]
    BY <1>3, RowsAfter
  <2> QED BY <1>3, <2>1 DEF Deletes, RowId, Table!End
<1>4. ASSUME NEW s \in Slugs, Refers(s)
      PROVE  Table!Use(s)
  <2>1. races[s].id \in RaceIds
    BY <1>4 DEF Refers, TypeInv, TypeOK, Row
  <2> QED BY <1>4, <2>1, ConstantsAssumption DEF Refers, Table!Use
<1>5. ASSUME NEW s \in Slugs, NEW r \in RaceIds, Inserts(s, r)
      PROVE  Table!Begin(s, r)
  <2>1. ids' = [ids EXCEPT ![s] = r]
    BY <1>5, RowsAfter
  <2> QED BY <1>5, <2>1 DEF Inserts, Table!Begin
<1> QED BY <1>1, <1>2, <1>3, <1>4, <1>5, TableStep DEF Table!Next

(* Each statement of the webhook, and each registration beside it, is a step
   of RaceTable or none. *)
THEOREM RaceTableImplemented == Spec => ImplementsRaceTable
<1> QED BY TypeInit, TypeStep, TableInit, TableNext, PTL
        DEF Spec, ImplementsRaceTable, Table!Spec

=============================================================================
