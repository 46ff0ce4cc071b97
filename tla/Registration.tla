---------------------------- MODULE Registration ----------------------------
(***************************************************************************)
(* Registering runners: internal/participant, together with the race rows  *)
(* it reads (internal/race) and the PostgreSQL constraints both rely on.   *)
(*                                                                         *)
(* Every POST /registrations is a goroutine of its own and Register runs   *)
(* without a transaction, so one action is one database statement with the *)
(* Go code that runs up to the next one.  Between two statements any other *)
(* request, a webhook of the CMS, a cancelled context or the end of the    *)
(* process may intervene.                                                  *)
(*                                                                         *)
(* A request id q also stands for the uuid of the registration that q      *)
(* inserts (NewRegistration draws it), so the registrations table is a     *)
(* function on Requests.                                                   *)
(***************************************************************************)
EXTENDS Integers, FiniteSets

CONSTANTS
  Requests,      \* calls of POST /registrations
  ConfirmCalls,  \* calls of Service.Confirm, the payment seam: no caller yet
  PaidFor,       \* the registration each of ConfirmCalls confirms
  Emails,        \* people: the participants table is unique on email
  Slugs,         \* document ids of races in the CMS
  RaceIds,       \* uuids that race rows may draw
  MaxCapacity,   \* bound on the capacity the CMS gives a race
  MaxAttempts,   \* maxConfirmAttempts
  Faults,        \* which faults may strike, a subset of FaultKinds
  NoRace, NoReg, NoForm

Processes  == Requests \cup ConfirmCalls
FaultKinds == {"transient", "cancel", "lostReply", "crash"}
Pending    == "pendiente"
Confirmed  == "confirmado"

RaceRow == [id : RaceIds, capacity : 1..MaxCapacity]
RegRow  == [race : RaceIds, email : Emails,
            status : {Pending, Confirmed}, dorsal : 0..MaxCapacity]
Form    == [email : Emails, slug : Slugs, valid : BOOLEAN]

ASSUME ConstantsAssumption ==
  /\ Requests \cap ConfirmCalls = {}
  /\ PaidFor \in [ConfirmCalls -> Requests]
  /\ MaxCapacity \in Nat \ {0}
  /\ MaxAttempts \in Nat \ {0}
  /\ Faults \subseteq FaultKinds
  /\ NoRace \notin RaceRow /\ NoRace \notin RaceIds
  /\ NoReg \notin RegRow
  /\ NoForm \notin Form

VARIABLES
  races,         \* races table: slug -> row
  spent,         \* race uuids drawn so far: a deleted one never returns
  peak,          \* history: highest capacity each race row has had
  participants,  \* emails that have a participants row
  regs,          \* registrations table
  pc,            \* the statement each call is about to send
  form,          \* the decoded request body
  raceId,        \* race.ID of the snapshot the call read ...
  capacity,      \* ... and its Capacity
  loaded,        \* status of the registration ByID returned
  cand,          \* the dorsal NextDorsal proposed
  lost,          \* attempts of the confirm loop that lost their dorsal
  answer,        \* what the caller is told
  mailed,        \* calls whose confirmation e-mail left
  cancelled,     \* calls whose request context is cancelled
  hit            \* history: calls a fault has struck

tables == <<races, spent, peak, participants, regs>>
local  == <<form, raceId, capacity, loaded, cand, lost>>
vars   == <<races, spent, peak, participants, regs, pc, form, raceId,
            capacity, loaded, cand, lost, answer, mailed, cancelled, hit>>

Labels  == {"idle", "findRace", "upsert", "reload", "create", "getReg",
            "getRace", "getPerson", "load", "next", "save", "undo",
            "notify", "done", "crashed"}
Answers == {"none", "confirmed", "invalid", "notFound", "alreadyRegistered",
            "alreadyConfirmed", "full", "error"}

TypeOK ==
  /\ races \in [Slugs -> RaceRow \cup {NoRace}]
  /\ spent \subseteq RaceIds
  /\ peak \in [RaceIds -> 0..MaxCapacity]
  /\ participants \subseteq Emails
  /\ regs \in [Requests -> RegRow \cup {NoReg}]
  /\ pc \in [Processes -> Labels]
  /\ form \in [Requests -> Form \cup {NoForm}]
  /\ raceId \in [Processes -> RaceIds \cup {NoRace}]
  /\ capacity \in [Processes -> 0..MaxCapacity]
  /\ loaded \in [Processes -> {Pending, Confirmed}]
  /\ cand \in [Processes -> 0..(MaxCapacity + 1)]
  /\ lost \in [Processes -> 0..MaxAttempts]
  /\ answer \in [Processes -> Answers]
  /\ mailed \subseteq Processes
  /\ cancelled \subseteq Processes
  /\ hit \subseteq Processes

(* The registration a call works on: its own, or the one it was paid for. *)
Target(p) == IF p \in ConfirmCalls THEN PaidFor[p] ELSE p

Stored == {q \in Requests : regs[q] # NoReg}

(* Rows of race r that hold a dorsal: "dorsal IS NOT NULL". *)
Holders(r) == {q \in Stored : regs[q].race = r /\ regs[q].dorsal > 0}

RaceExists(r) == \E s \in Slugs : races[s] # NoRace /\ races[s].id = r

(* Mutant: COUNT( * ) + 1, which counts the caller's own pending row. *)
IsNextDorsalByCount(r, d) == d = Cardinality({q \in Stored : regs[q].race = r})

(* d = COALESCE(MAX(dorsal), 0) + 1 over the rows of race r. *)
IsNextDorsal(r, d) ==
  /\ \A q \in Holders(r) : regs[q].dorsal < d
  /\ d = 1 \/ \E q \in Holders(r) : regs[q].dorsal = d - 1

(* Mutant: the unique index leaves participant_id out. *)
DuplicateInRace(q) == \E o \in Stored : regs[o].race = raceId[q]

(* The unique index (race_id, participant_id) refuses a second row. *)
DuplicateParticipant(q) ==
  \E o \in Stored : regs[o].race = raceId[q] /\ regs[o].email = form[q].email

(* Mutant: no unique index on (race_id, dorsal). *)
DorsalNeverTaken(q, d) == FALSE

(* The unique index (race_id, dorsal) refuses dorsal d for row q. *)
DorsalTaken(q, d) ==
  \E o \in Holders(regs[q].race) \ {q} : regs[o].dorsal = d

Init ==
  /\ races = [s \in Slugs |-> NoRace]
  /\ spent = {}
  /\ peak = [r \in RaceIds |-> 0]
  /\ participants = {}
  /\ regs = [q \in Requests |-> NoReg]
  /\ pc = [p \in Processes |-> "idle"]
  /\ form = [q \in Requests |-> NoForm]
  /\ raceId = [p \in Processes |-> NoRace]
  /\ capacity = [p \in Processes |-> 0]
  /\ loaded = [p \in Processes |-> Pending]
  /\ cand = [p \in Processes |-> 0]
  /\ lost = [p \in Processes |-> 0]
  /\ answer = [p \in Processes |-> "none"]
  /\ mailed = {}
  /\ cancelled = {}
  /\ hit = {}

-----------------------------------------------------------------------------
(* The CMS webhook, seen from the races table: race service Sync and Remove. *)

MaxOf(a, b) == IF a < b THEN b ELSE a

(* Upsert of an unknown slug inserts a row under a fresh uuid. *)
InsertRace(s, c) ==
  /\ races[s] = NoRace
  /\ \E r \in RaceIds \ spent :
       /\ races' = [races EXCEPT ![s] = [id |-> r, capacity |-> c]]
       /\ spent' = spent \cup {r}
       /\ peak' = [peak EXCEPT ![r] = c]

(* Upsert of a known slug refreshes the snapshot and keeps the row's id. *)
RefreshRace(s, c) ==
  /\ races[s] # NoRace
  /\ races' = [races EXCEPT ![s].capacity = c]
  /\ peak' = [peak EXCEPT ![races[s].id] = MaxOf(@, c)]
  /\ UNCHANGED spent

SyncRace(s) ==
  /\ \E c \in 1..MaxCapacity : InsertRace(s, c) \/ RefreshRace(s, c)
  /\ UNCHANGED <<participants, regs, pc, local, answer, mailed, cancelled, hit>>

(* ON DELETE RESTRICT: a race with registrations stays, the webhook gets an
   error.  Deleting a slug that has no row is a no-op. *)
RemoveRace(s) ==
  /\ races[s] # NoRace
  /\ \A q \in Stored : regs[q].race # races[s].id
  /\ races' = [races EXCEPT ![s] = NoRace]
  /\ UNCHANGED <<spent, peak, participants, regs, pc, local, answer, mailed,
                 cancelled, hit>>

-----------------------------------------------------------------------------
(* Control shared by the steps below. *)

Goto(p, l) == pc' = [pc EXCEPT ![p] = l]

(* The call returns to its caller. *)
Return(p, a) ==
  /\ Goto(p, "done")
  /\ answer' = [answer EXCEPT ![p] = a]

(* Mutant: no compensating delete. *)
ConfirmFailsWithoutUndo(p, a) == Return(p, a)

(* confirm returns an error: Register still has to delete its row, Confirm
   hands the error on. *)
ConfirmFails(p, a) ==
  /\ Goto(p, IF p \in Requests THEN "undo" ELSE "done")
  /\ answer' = [answer EXCEPT ![p] = a]

(* A statement of p can be answered: p is at l and its context is live. *)
Sends(p, l) == pc[p] = l /\ p \notin cancelled

(* What each statement writes. *)
InsertedRow(q) == [race |-> raceId[q], email |-> form[q].email,
                   status |-> Pending, dorsal |-> 0]

WriteRow(q)   == regs' = [regs EXCEPT ![q] = InsertedRow(q)]
DeleteRow(q)  == regs' = [regs EXCEPT ![q] = NoReg]

(* UPDATE ... WHERE id = ?: matches no row, and reports no error, when the
   registration is gone. *)
UpdateRow(q, d) ==
  regs' = IF regs[q] = NoReg THEN regs
          ELSE [regs EXCEPT ![q].status = Confirmed, ![q].dorsal = d]

(* Mutant: a second row for the same person is accepted. *)
CanInsertTwice(q) == RaceExists(raceId[q])

(* Mutant: no foreign key on race_id. *)
CanInsertOrphan(q) == ~DuplicateParticipant(q)

CanInsert(q) == ~DuplicateParticipant(q) /\ RaceExists(raceId[q])
CanSave(p)   == Target(p) \in Stored => ~DorsalTaken(Target(p), cand[p])

-----------------------------------------------------------------------------
(* Register *)

(* The handler decodes the body and calls Register. *)
Receive(q) ==
  /\ pc[q] = "idle"
  /\ \E f \in Form : form' = [form EXCEPT ![q] = f]
  /\ Goto(q, "findRace")
  /\ UNCHANGED <<tables, raceId, capacity, loaded, cand, lost, answer, mailed,
                 cancelled, hit>>

(* NewParticipant and RegistrationParams.Validate, which write nothing. *)
Accepted(q) == form[q].valid

(* races.ByDocumentID, then the validation of the form. *)
FindRace(q) ==
  LET row == races[form[q].slug] IN
  /\ Sends(q, "findRace")
  /\ \/ row = NoRace /\ Return(q, "notFound") /\ UNCHANGED <<raceId, capacity>>
     \/ /\ row # NoRace
        /\ raceId' = [raceId EXCEPT ![q] = row.id]
        /\ capacity' = [capacity EXCEPT ![q] = row.capacity]
        /\ IF Accepted(q) THEN Goto(q, "upsert") /\ UNCHANGED answer
                          ELSE Return(q, "invalid")
  /\ UNCHANGED <<tables, form, loaded, cand, lost, mailed, cancelled, hit>>

(* INSERT ... ON CONFLICT (email) DO UPDATE *)
UpsertParticipant(q) ==
  /\ Sends(q, "upsert")
  /\ participants' = participants \cup {form[q].email}
  /\ Goto(q, "reload")
  /\ UNCHANGED <<races, spent, peak, regs, local, answer, mailed, cancelled, hit>>

(* The upsert reads the row back for the id it kept. *)
ReloadParticipant(q) ==
  /\ Sends(q, "reload")
  /\ IF form[q].email \in participants
       THEN Goto(q, "create") /\ UNCHANGED answer
       ELSE Return(q, "error")
  /\ UNCHANGED <<tables, local, mailed, cancelled, hit>>

CreateRegistration(q) ==
  /\ Sends(q, "create")
  /\ \/ /\ CanInsert(q)
        /\ WriteRow(q)
        /\ Goto(q, "load")
        /\ UNCHANGED answer
     \/ /\ DuplicateParticipant(q)
        /\ Return(q, "alreadyRegistered")
        /\ UNCHANGED regs
     \/ /\ ~DuplicateParticipant(q) /\ ~RaceExists(raceId[q])
        /\ Return(q, "error")
        /\ UNCHANGED regs
  /\ UNCHANGED <<races, spent, peak, participants, local, mailed, cancelled, hit>>

(* The compensating delete, after confirm failed.  answer holds the reason. *)
UndoCreate(q) ==
  /\ Sends(q, "undo")
  /\ DeleteRow(q)
  /\ Goto(q, "done")
  /\ UNCHANGED <<races, spent, peak, participants, local, answer, mailed,
                 cancelled, hit>>

-----------------------------------------------------------------------------
(* Confirm, the payment seam *)

ReceiveConfirm(p) ==
  /\ pc[p] = "idle"
  /\ Goto(p, "getReg")
  /\ UNCHANGED <<tables, local, answer, mailed, cancelled, hit>>

GetRegistration(p) ==
  /\ Sends(p, "getReg")
  /\ IF Target(p) \in Stored
       THEN /\ raceId' = [raceId EXCEPT ![p] = regs[Target(p)].race]
            /\ Goto(p, "getRace")
            /\ UNCHANGED answer
       ELSE Return(p, "notFound") /\ UNCHANGED raceId
  /\ UNCHANGED <<tables, form, capacity, loaded, cand, lost, mailed, cancelled, hit>>

GetRace(p) ==
  /\ Sends(p, "getRace")
  /\ \/ /\ ~RaceExists(raceId[p])
        /\ Return(p, "notFound")
        /\ UNCHANGED capacity
     \/ \E s \in Slugs :
          /\ races[s] # NoRace /\ races[s].id = raceId[p]
          /\ capacity' = [capacity EXCEPT ![p] = races[s].capacity]
          /\ Goto(p, "getPerson")
          /\ UNCHANGED answer
  /\ UNCHANGED <<tables, form, raceId, loaded, cand, lost, mailed, cancelled, hit>>

(* Participants are never deleted: the foreign key found one, ByID does too. *)
GetPerson(p) ==
  /\ Sends(p, "getPerson")
  /\ Goto(p, "load")
  /\ UNCHANGED <<tables, local, answer, mailed, cancelled, hit>>

-----------------------------------------------------------------------------
(* confirm, the loop both calls share *)

LoadRegistration(p) ==
  /\ Sends(p, "load")
  /\ IF Target(p) \in Stored
       THEN /\ loaded' = [loaded EXCEPT ![p] = regs[Target(p)].status]
            /\ Goto(p, "next")
            /\ UNCHANGED answer
       ELSE ConfirmFails(p, "notFound") /\ UNCHANGED loaded
  /\ UNCHANGED <<tables, form, raceId, capacity, cand, lost, mailed, cancelled, hit>>

(* Mutants: the capacity is exclusive; one runner too many. *)
RefusalTooEarly(status, d, c) ==
  IF status = Confirmed THEN "alreadyConfirmed"
  ELSE IF d >= c THEN "full" ELSE "none"

RefusalTooLate(status, d, c) ==
  IF status = Confirmed THEN "alreadyConfirmed"
  ELSE IF d > c + 1 THEN "full" ELSE "none"

(* Registration.Confirm: the domain's decision on the proposed dorsal d. *)
Refusal(status, d, c) ==
  IF status = Confirmed THEN "alreadyConfirmed"
  ELSE IF d > c THEN "full" ELSE "none"

(* NextDorsal, then the domain's Confirm against the race snapshot. *)
ProposeDorsal(p) ==
  /\ Sends(p, "next")
  /\ \E d \in 1..(MaxCapacity + 1) :
       /\ IsNextDorsal(raceId[p], d)
       /\ cand' = [cand EXCEPT ![p] = d]
       /\ LET refusal == Refusal(loaded[p], d, capacity[p]) IN
            IF refusal = "none" THEN Goto(p, "save") /\ UNCHANGED answer
                                ELSE ConfirmFails(p, refusal)
  /\ UNCHANGED <<tables, form, raceId, capacity, loaded, lost, mailed, cancelled, hit>>

SaveConfirmation(p) ==
  /\ Sends(p, "save")
  /\ CanSave(p)
  /\ UpdateRow(Target(p), cand[p])
  /\ Goto(p, "notify")
  /\ UNCHANGED <<races, spent, peak, participants, local, answer, mailed,
                 cancelled, hit>>

(* Mutants: the error of the update is ignored; the loop sends the same update
   again, neither reading nor counting. *)
LoseDorsalUnnoticed(p) ==
  /\ Sends(p, "save")
  /\ ~CanSave(p)
  /\ Goto(p, "notify")
  /\ UNCHANGED <<tables, local, answer, mailed, cancelled, hit>>

LoseDorsalAndInsist(p) ==
  /\ Sends(p, "save")
  /\ ~CanSave(p)
  /\ Goto(p, "save")
  /\ UNCHANGED <<tables, local, answer, mailed, cancelled, hit>>

(* ErrDorsalTaken: another attempt, or ErrRaceFull when none is left. *)
LoseDorsal(p) ==
  /\ Sends(p, "save")
  /\ ~CanSave(p)
  /\ lost' = [lost EXCEPT ![p] = @ + 1]
  /\ IF lost[p] + 1 < MaxAttempts THEN Goto(p, "load") /\ UNCHANGED answer
                                  ELSE ConfirmFails(p, "full")
  /\ UNCHANGED <<tables, form, raceId, capacity, loaded, cand, mailed,
                 cancelled, hit>>

(* The notification is best effort: the e-mail leaves or it does not, the
   caller is told the dorsal either way. *)
Notify(p) ==
  /\ pc[p] = "notify"
  /\ mailed' \in {mailed, mailed \cup {p}}
  /\ Return(p, "confirmed")
  /\ UNCHANGED <<tables, local, cancelled, hit>>

-----------------------------------------------------------------------------
(* Faults.  Each is enabled by naming its kind in Faults. *)

(* The client of BFF goes away: net/http cancels the request's context. *)
Cancel(p) ==
  /\ "cancel" \in Faults
  /\ pc[p] \notin {"idle", "done", "crashed"}
  /\ p \notin cancelled
  /\ cancelled' = cancelled \cup {p}
  /\ hit' = hit \cup {p}
  /\ UNCHANGED <<tables, pc, local, answer, mailed>>

(* What a call does when the statement it sent comes back as an error that
   is none of the ones the code tells apart. *)
OnError(p) ==
  \/ /\ pc[p] \in {"findRace", "upsert", "reload", "create", "getReg",
                   "getRace", "getPerson"}
     /\ Return(p, "error")
  \/ pc[p] \in {"load", "next", "save"} /\ ConfirmFails(p, "error")
  \/ pc[p] = "undo" /\ Return(p, answer[p])   \* logged, not returned

(* The statement is not executed: the context is cancelled, or the database
   or the connection refused it. *)
StatementFails(p) ==
  /\ p \in cancelled \/ "transient" \in Faults
  /\ OnError(p)
  /\ hit' = hit \cup {p}
  /\ UNCHANGED <<tables, local, mailed, cancelled>>

(* The statement is executed and its answer is lost: the call sees an error
   although the write is there. *)
ReplyLost(p) ==
  /\ "lostReply" \in Faults
  /\ p \notin cancelled
  /\ \/ /\ pc[p] = "upsert"
        /\ participants' = participants \cup {form[p].email}
        /\ UNCHANGED regs
     \/ /\ \/ pc[p] = "create" /\ CanInsert(p) /\ WriteRow(p)
           \/ pc[p] = "save" /\ CanSave(p) /\ UpdateRow(Target(p), cand[p])
           \/ pc[p] = "undo" /\ DeleteRow(p)
        /\ UNCHANGED participants
  /\ OnError(p)
  /\ hit' = hit \cup {p}
  /\ UNCHANGED <<races, spent, peak, local, mailed, cancelled>>

(* The server ends with the call in flight: Shutdown gives it ten seconds.
   What it wrote stays, nobody continues it and nobody is answered. *)
Crash(p) ==
  /\ "crash" \in Faults
  /\ pc[p] \notin {"idle", "done", "crashed"}
  /\ Goto(p, "crashed")
  /\ hit' = hit \cup {p}
  /\ UNCHANGED <<tables, local, answer, mailed, cancelled>>

-----------------------------------------------------------------------------

RegisterStep(q) ==
  \/ Receive(q) \/ FindRace(q) \/ UpsertParticipant(q) \/ ReloadParticipant(q)
  \/ CreateRegistration(q) \/ UndoCreate(q)

SeamStep(p) ==
  ReceiveConfirm(p) \/ GetRegistration(p) \/ GetRace(p) \/ GetPerson(p)

LoopStep(p) ==
  \/ LoadRegistration(p) \/ ProposeDorsal(p) \/ SaveConfirmation(p)
  \/ LoseDorsal(p) \/ Notify(p)

FaultStep(p) == Cancel(p) \/ StatementFails(p) \/ ReplyLost(p) \/ Crash(p)

Webhook(s) == SyncRace(s) \/ RemoveRace(s)

Next ==
  \/ \E s \in Slugs : Webhook(s)
  \/ \E q \in Requests : RegisterStep(q)
  \/ \E p \in ConfirmCalls : SeamStep(p)
  \/ \E p \in Processes : LoopStep(p) \/ FaultStep(p)

Spec == Init /\ [][Next]_vars

(* A goroutine that was started keeps running, and a statement it sent is
   answered or fails: the code's own steps and an error are one answer. *)
Advance(p) ==
  \/ p \in Requests /\ pc[p] # "idle" /\ RegisterStep(p)
  \/ p \in ConfirmCalls /\ pc[p] # "idle" /\ SeamStep(p)
  \/ LoopStep(p)
  \/ StatementFails(p)

FairSpec == Spec /\ \A p \in Processes : WF_vars(Advance(p))

-----------------------------------------------------------------------------
(* Properties *)

ConfirmedIn(r) == {q \in Stored : regs[q].race = r /\ regs[q].status = Confirmed}

(* The e-mail or the response of call p named a dorsal. *)
Told(p) == answer[p] = "confirmed" \/ p \in mailed

(* No two registrations of a race ever hold the same dorsal, however the
   optimistic reads of NextDorsal interleave (service.go confirm). *)
NoSharedDorsal ==
  \A q, o \in Stored :
    q # o /\ regs[q].race = regs[o].race /\ regs[q].dorsal > 0
      => regs[q].dorsal # regs[o].dorsal

(* A dorsal a runner was told, by e-mail or in the response, is the one the
   table holds for that runner from then on: a compensating delete or a later
   attempt of anyone never takes it back. *)
ToldDorsalStands ==
  \A p \in Processes :
    Told(p) => /\ Target(p) \in Stored
               /\ regs[Target(p)].status = Confirmed
               /\ regs[Target(p)].dorsal = cand[p]

(* A race never has more confirmed runners than the highest capacity the CMS
   ever gave it, although every request decides on a snapshot that may be old. *)
NeverOversold ==
  \A r \in RaceIds : Cardinality(ConfirmedIn(r)) <= peak[r]

(* A call that no fault struck ends with a confirmed registration and says so,
   or leaves no registration at all, whatever happened to the others. *)
SettledUnlessHit ==
  \A q \in Requests :
    pc[q] = "done" /\ q \notin hit =>
      IF answer[q] = "confirmed"
        THEN q \in Stored /\ regs[q].status = Confirmed
        ELSE q \notin Stored

(* The dorsals of a race are 1..n: no number is skipped by requests that lose
   the race for one, fail, or are cut short. *)
GapFree ==
  \A r \in RaceIds : \A q \in Holders(r) :
    \A d \in 1..(regs[q].dorsal - 1) : \E o \in Holders(r) : regs[o].dorsal = d

(* "Race full" is only said of a race whose every dorsal of the snapshot is
   given, or after MaxAttempts lost attempts, and each of those was lost to
   the confirmation of another runner. *)
FullIsJustified ==
  \A q \in Requests :
    answer[q] = "full" =>
      LET others == ConfirmedIn(raceId[q]) \ {q} IN
        \/ Cardinality(others) >= capacity[q]
        \/ lost[q] = MaxAttempts /\ Cardinality(others) >= MaxAttempts

(* "Already registered" is said because of another request of the same person
   for the same race that is in the table, was turned away because the race
   is full, or was struck by a fault. *)
RejectionIsExplained ==
  \A q \in Requests :
    answer[q] = "alreadyRegistered" =>
      \E o \in Requests \ {q} :
        /\ form[o] # NoForm /\ form[o].email = form[q].email
        /\ raceId[o] = raceId[q]
        /\ o \in Stored \/ answer[o] = "full" \/ o \in hit

(* What a confirmed row says never changes and the row is never removed. *)
ConfirmedIsForever ==
  [][\A q \in Stored : regs[q].status = Confirmed => regs'[q] = regs[q]]_vars

(* A failed confirmation leaves no pending registration behind: the comment on
   the compensating delete in Register. *)
NoPendingLeftBehind ==
  \A q \in Stored : pc[q] = "done" => regs[q].status = Confirmed

(* Every call that started is answered, or dies with the server: the retry
   loop cannot keep it. *)
EveryCallEnds ==
  \A p \in Processes : pc[p] # "idle" ~> pc[p] \in {"done", "crashed"}

=============================================================================
