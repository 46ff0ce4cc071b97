------------------------------ MODULE RaceSync ------------------------------
(***************************************************************************)
(* The race table as a copy of the CMS: internal/race.                     *)
(*                                                                         *)
(* Editors publish, edit and delete races in the CMS, which posts one      *)
(* event for each to /webhooks/sanity and posts it again until it has an   *)
(* answer it accepts.  A delivery is a goroutine h that sends one or two   *)
(* SQL statements; each is an action.  Events are numbered in the order    *)
(* the editors caused them, and the number stands for what the event       *)
(* carries (name, date, capacity).                                         *)
(*                                                                         *)
(* Registration.tla has the same table with SyncRace and RemoveRace as     *)
(* atomic steps; here is how they come about.  RaceTable.tla is what both  *)
(* implement.                                                              *)
(***************************************************************************)
EXTENDS Integers, Sequences, FiniteSets

CONSTANTS
  Slugs,        \* document ids
  RaceIds,      \* uuids that race rows may draw
  Handlers,     \* goroutines that serve deliveries
  MaxEvents,    \* bound on the edits made in the CMS
  MaxFaults,    \* bound on the faults that strike
  Faults,       \* which of FaultKinds may strike
  NoRace

FaultKinds == {"fail", "lostAnswer", "timeout", "duplicate", "overtaken"}

(* "create" and "update" take the same branch: "sync", or "invalid" when the
   payload lacks a date, a name or a positive capacity; any other operation is
   acknowledged and ignored. *)
Operations == {"sync", "invalid", "delete", "other"}

ASSUME ConstantsAssumption ==
  /\ MaxEvents \in Nat \ {0}
  /\ MaxFaults \in Nat
  /\ Faults \subseteq FaultKinds
  /\ NoRace \notin RaceIds
  /\ NoRace \notin [id : RaceIds, version : 1..MaxEvents]

VARIABLES
  events,      \* what the editors did, in order
  due,         \* CMS side of each event, one of Sent
  late,        \* history: events delivered again, or after a later one
  races,       \* races table: slug -> row, its version the event it copies
  spent,       \* uuids drawn so far
  rowIds,      \* history: the ids under which each slug has had a row
  referenced,  \* race ids that registrations point to
  job,         \* the event a handler serves, 0 for none
  pc,          \* the statement a handler is about to send
  answers,     \* race ids the webhook has answered, with their slug
  faults       \* how many faults have struck

cms   == <<events, due, late>>
table == <<races, spent, rowIds, referenced>>
vars  == <<events, due, late, races, spent, rowIds, referenced, job, pc,
           answers, faults>>

(* An event carries the slug of its race, padded when there is white space
   around it.  Rows are kept under the slug without any. *)
Event == {e \in [slug : Slugs, padded : BOOLEAN, op : Operations] :
            e.padded => e.op \in {"sync", "delete"}}
Row   == [id : RaceIds, version : 1..MaxEvents]
Sent  == {"due", "sent", "failed", "settled", "refused"}

Published == DOMAIN events

(* TypeOK, and no row holds a snapshot the domain refuses. *)
TypeOK ==
  /\ events \in Seq(Event) /\ Len(events) <= MaxEvents
  /\ due \in [1..Len(events) -> Sent]
  /\ late \subseteq Published
  /\ races \in [Slugs -> Row \cup {NoRace}]
  /\ \A s \in Slugs : races[s] # NoRace =>
       /\ races[s].version \in Published
       /\ events[races[s].version].slug = s
       /\ events[races[s].version].op = "sync"
  /\ spent \subseteq RaceIds
  /\ rowIds \in [Slugs -> SUBSET RaceIds]
  /\ referenced \subseteq RaceIds
  /\ job \in [Handlers -> 0..MaxEvents]
  /\ pc \in [Handlers -> {"idle", "upsert", "reload", "delete"}]
  /\ answers \subseteq Slugs \X RaceIds
  /\ faults \in 0..MaxFaults

Init ==
  /\ events = <<>>
  /\ due = <<>>
  /\ late = {}
  /\ races = [s \in Slugs |-> NoRace]
  /\ spent = {}
  /\ rowIds = [s \in Slugs |-> {}]
  /\ referenced = {}
  /\ job = [h \in Handlers |-> 0]
  /\ pc = [h \in Handlers |-> "idle"]
  /\ answers = {}
  /\ faults = 0

-----------------------------------------------------------------------------
(* The CMS: not in this repository, seen through the webhook it calls. *)

(* An editor acts. *)
Publish ==
  /\ Len(events) < MaxEvents
  /\ \E e \in Event : events' = Append(events, e)
  /\ due' = Append(due, "due")
  /\ UNCHANGED <<late, table, job, pc, answers, faults>>

Settle(n, st) == due' = [due EXCEPT ![n] = st]

Fault(kind) ==
  /\ kind \in Faults /\ faults < MaxFaults
  /\ faults' = faults + 1

(* Mutant: ON DELETE CASCADE, or no foreign key. *)
NeverRestricted(s) == FALSE

(* ON DELETE RESTRICT of registrations.race_id. *)
Restricted(s) == races[s] # NoRace /\ races[s].id \in referenced

(* DELETE WHERE document_id = the slug as it was sent: no row is kept under a
   padded one. *)
Matches(n) == ~events[n].padded

(* The CMS stops repeating a deletion the API cannot carry out. *)
GiveUp(n) ==
  /\ due[n] = "failed"
  /\ events[n].op = "delete" /\ Matches(n) /\ Restricted(events[n].slug)
  /\ Settle(n, "refused")
  /\ UNCHANGED <<events, late, table, job, pc, answers, faults>>

(* The CMS stops waiting: the delivery goes on, the event is due again. *)
TimeOut(n) ==
  /\ Fault("timeout")
  /\ due[n] = "sent"
  /\ Settle(n, "failed")
  /\ late' = late \cup {n}
  /\ UNCHANGED <<events, table, job, pc, answers>>

(* The CMS repeats an event that has been answered. *)
Duplicate(n) ==
  /\ Fault("duplicate")
  /\ due[n] = "settled"
  /\ Settle(n, "failed")
  /\ late' = late \cup {n}
  /\ UNCHANGED <<events, table, job, pc, answers>>

-----------------------------------------------------------------------------
(* The webhook. *)

(* The first statement the handler sends for event e, or "idle" for none:
   a payload without slug, date, name or positive capacity gets 400, an
   operation it does not know gets 200; neither is repeated. *)
FirstStatement(e) ==
  CASE e.op = "delete" -> "delete"
    [] e.op = "sync"   -> "upsert"
    [] OTHER -> "idle"

(* The events of the same slug before n that the CMS is not done with. *)
Before(n) ==
  {m \in 1..(n - 1) : /\ events[m].slug = events[n].slug
                      /\ due[m] \notin {"settled", "refused"}}

(* A delivery reaches handleWebhook, after those before it or, which is a
   fault, ahead of them. *)
Receive(h, n) ==
  LET first == FirstStatement(events[n]) IN
  /\ pc[h] = "idle"
  /\ due[n] \in {"due", "failed"}
  /\ \/ Before(n) = {} /\ UNCHANGED faults
     \/ Before(n) # {} /\ Fault("overtaken")
  /\ late' = late \cup Before(n)
  /\ pc' = [pc EXCEPT ![h] = first]
  /\ job' = [job EXCEPT ![h] = IF first = "idle" THEN 0 ELSE n]
  /\ Settle(n, IF first = "idle" THEN "settled" ELSE "sent")
  /\ UNCHANGED <<events, table, answers>>

(* h answers its delivery; the CMS has stopped listening to it if it timed
   out meanwhile. *)
Answer(h, st) ==
  /\ due' = IF due[job[h]] = "sent" THEN [due EXCEPT ![job[h]] = st] ELSE due
  /\ job' = [job EXCEPT ![h] = 0]
  /\ pc' = [pc EXCEPT ![h] = "idle"]

Serves(h, l) == pc[h] = l

(* What strings.TrimSpace leaves of the slug sent. *)
SlugOf(h) == events[job[h]].slug

InsertRow(s, n) ==
  /\ races[s] = NoRace
  /\ \E r \in RaceIds \ spent :
       /\ races' = [races EXCEPT ![s] = [id |-> r, version |-> n]]
       /\ rowIds' = [rowIds EXCEPT ![s] = @ \cup {r}]
       /\ spent' = spent \cup {r}

(* ON CONFLICT (document_id): the snapshot columns change, id stays. *)
RefreshRow(s, n) ==
  /\ races[s] # NoRace
  /\ races' = [races EXCEPT ![s].version = n]
  /\ UNCHANGED <<rowIds, spent>>

Upsert(h) ==
  /\ Serves(h, "upsert")
  /\ InsertRow(SlugOf(h), job[h]) \/ RefreshRow(SlugOf(h), job[h])
  /\ pc' = [pc EXCEPT ![h] = "reload"]
  /\ UNCHANGED <<cms, referenced, job, answers, faults>>

(* Mutant: no reload, the answer carries the id drawn for the insert. *)
ReloadNot(h) ==
  /\ Serves(h, "reload")
  /\ \E r \in RaceIds : answers' = answers \cup {<<SlugOf(h), r>>}
  /\ Answer(h, "settled")
  /\ UNCHANGED <<events, late, table, faults>>

(* First(document_id = ?): the answer carries the id of the row, or an error
   when a deletion came between the two statements. *)
Reload(h) ==
  LET row == races[SlugOf(h)] IN
  /\ Serves(h, "reload")
  /\ \/ row = NoRace /\ Answer(h, "failed") /\ UNCHANGED answers
     \/ /\ row # NoRace
        /\ answers' = answers \cup {<<SlugOf(h), row.id>>}
        /\ Answer(h, "settled")
  /\ UNCHANGED <<events, late, table, faults>>

(* Removing nothing is no error: the slug has no row, or is padded. *)
Delete(h) ==
  /\ Serves(h, "delete")
  /\ \/ /\ ~Matches(job[h])
        /\ Answer(h, "settled") /\ UNCHANGED races
     \/ /\ Matches(job[h]) /\ Restricted(SlugOf(h))
        /\ Answer(h, "failed") /\ UNCHANGED races
     \/ /\ Matches(job[h]) /\ ~Restricted(SlugOf(h))
        /\ races' = [races EXCEPT ![SlugOf(h)] = NoRace]
        /\ Answer(h, "settled")
  /\ UNCHANGED <<events, late, spent, rowIds, referenced, answers, faults>>

(* Mutant: the handler acknowledges what it could not store. *)
StatementFailsAcknowledged(h) ==
  /\ pc[h] # "idle" /\ Fault("fail")
  /\ Answer(h, "settled")
  /\ UNCHANGED <<events, late, table, answers>>

(* The statement fails, or the process stops: 500, or no answer at all. *)
StatementFails(h) ==
  /\ pc[h] # "idle" /\ Fault("fail")
  /\ Answer(h, "failed")
  /\ UNCHANGED <<events, late, table, answers>>

(* The last statement takes effect and its answer is lost. *)
AnswerLost(h) ==
  /\ Serves(h, "delete") /\ Matches(job[h]) /\ ~Restricted(SlugOf(h))
  /\ Fault("lostAnswer")
  /\ races' = [races EXCEPT ![SlugOf(h)] = NoRace]
  /\ Answer(h, "failed")
  /\ UNCHANGED <<events, late, spent, rowIds, referenced, answers>>

(* A runner registers for a race: internal/participant. *)
Register(s) ==
  /\ races[s] # NoRace
  /\ referenced' = referenced \cup {races[s].id}
  /\ UNCHANGED <<cms, races, spent, rowIds, job, pc, answers, faults>>

-----------------------------------------------------------------------------
Next ==
  \/ Publish
  \/ \E n \in Published : GiveUp(n) \/ TimeOut(n) \/ Duplicate(n)
  \/ \E h \in Handlers, n \in Published : Receive(h, n)
  \/ \E h \in Handlers : \/ Upsert(h) \/ Reload(h) \/ Delete(h)
                         \/ StatementFails(h) \/ AnswerLost(h)
  \/ \E s \in Slugs : Register(s)

Spec == Init /\ [][Next]_vars

(* Goroutines run; the CMS repeats what it could not deliver, though not a
   refused deletion for ever. *)
FairSpec ==
  /\ Spec
  /\ \A h \in Handlers : WF_vars(Upsert(h) \/ Reload(h) \/ Delete(h))
  /\ \A n \in 1..MaxEvents :
       SF_vars(n \in Published /\ \E h \in Handlers : Receive(h, n))
  /\ SF_vars(\E n \in Published : GiveUp(n))

-----------------------------------------------------------------------------
(* A row that registrations point to is there, under the same id, whatever
   the CMS sends: "participant references never break when Sanity re-sends a
   race" (adapters/postgres/repository.go:26-28). *)
ReferencesHold ==
  \A r \in referenced : \E s \in Slugs : races[s] # NoRace /\ races[s].id = r

(* The webhook never answers an id under which the race had no row, however
   its two statements interleave with another delivery
   (adapters/postgres/repository.go:42-48). *)
AnsweredIdsAreReal == \A a \in answers : a[2] \in rowIds[a[1]]

(* The events of slug s that the webhook acts on, but for the deletions that
   leave the row alone: refused while registrations refer to it, or sent with
   a padded slug. *)
Followed(s) ==
  {n \in Published :
     /\ events[n].slug = s
     /\ \/ events[n].op = "sync"
        \/ events[n].op = "delete" /\ Matches(n) /\ due[n] # "refused"}

(* Row s says what event n says. *)
Shows(s, n) ==
  IF events[n].op = "delete" THEN races[s] = NoRace
  ELSE races[s] # NoRace /\ races[s].version = n

(* Row s is what the CMS last said of slug s; or what it said earlier, in an
   event that was delivered again or late and may have come in after the last. *)
InStep(s) ==
  \/ Followed(s) = {} /\ races[s] = NoRace
  \/ \E n \in Followed(s) :
       Shows(s, n) /\ (n \in late \/ \A m \in Followed(s) : m <= n)

(* Whatever statements and answers fail on the way, and though deliveries are
   repeated and arrive out of order (service/service.go:36-38), every race
   ends up as the CMS has it.  Only an event that was itself delivered again,
   or overtaken, can be left standing over a newer one, and only a deletion
   can go unheeded: one that registrations forbid, or one that names no row
   because Sync trims the slug and Remove does not. *)
EndsInStep == <>[](\A s \in Slugs : InStep(s))
=============================================================================
