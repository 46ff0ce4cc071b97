------------------------------ MODULE Profiles ------------------------------
(***************************************************************************)
(* Whose data a registration shows: internal/participant again, with the   *)
(* content of the participants table that Registration leaves out.         *)
(*                                                                         *)
(* A person is one row, found by e-mail.  Every registration upserts the   *)
(* row before anything else is known (the race may be full, the person     *)
(* registered already), so calls for one e-mail overwrite each other's     *)
(* data while they run.  One action is one database statement, as in       *)
(* Registration; dorsals, capacities and retries are there, and here the   *)
(* dorsal loop is one step that succeeds or finds the race full.           *)
(*                                                                         *)
(* A profile says for each column whose submission the value comes from:   *)
(* a request submits its own name in all of them.                          *)
(***************************************************************************)
EXTENDS Integers, FiniteSets, Sequences

CONSTANTS
  Requests,   \* calls of POST /registrations
  Emails,     \* e-mail addresses
  Races,      \* races that are open for registration
  Legacy,     \* stands for the submission of a row older than the CI column
  Missing,    \* NULL
  NoPerson, NoReg, NoForm

Identity == {"nombres", "apellidos", "telefono", "fecha_nacimiento", "genero"}
Columns  == Identity \cup {"documento_identidad"}
Authors  == Requests \cup {Legacy}
Profile  == [Columns -> Authors \cup {Missing}]

(* A row of participants.  NewParticipant draws a uuid for every submission:
   the id is the request that inserted the row. *)
Person == [id : Authors, email : Emails, data : Profile]
RegRow == [race : Races, participant : Authors, confirmed : BOOLEAN]
Form   == [email : Emails, race : Races]

ASSUME ConstantsAssumption ==
  /\ Legacy \notin Requests /\ Missing \notin Authors
  /\ NoPerson \notin Person /\ NoReg \notin RegRow /\ NoForm \notin Form

VARIABLES
  people,   \* participants table, by its unique key: email -> row
  regs,     \* registrations table; a row is named by the request inserting it
  pc,       \* the statement a call is about to send
  form,     \* the decoded body
  person,   \* the *domain.Participant that a call holds
  answer,   \* what the caller is told
  told,     \* the person in the response
  mailed,   \* the person the confirmation e-mail was written for
  written,  \* history: per e-mail, the submissions in the order they were stored
  hit       \* history: calls a fault has struck

vars == <<people, regs, pc, form, person, answer, told, mailed, written, hit>>

Labels  == {"idle", "upsert", "reload", "create", "confirm", "undo", "notify",
            "done"}
Answers == {"none", "confirmed", "alreadyRegistered", "full", "error"}

(* Where a call works on a person it has. *)
Holding == {"upsert", "reload", "create", "confirm", "undo", "notify"}

(* What NewParticipant makes of the form of q. *)
Submitted(q, f) ==
  [id |-> q, email |-> f.email, data |-> [c \in Columns |-> q]]

(* A person registered before the CI was asked for. *)
LegacyRow(e) ==
  [id |-> Legacy, email |-> e,
   data |-> [c \in Columns |-> IF c \in Identity THEN Legacy ELSE Missing]]

TypeOK ==
  /\ people \in [Emails -> Person \cup {NoPerson}]
  /\ regs \in [Requests -> RegRow \cup {NoReg}]
  /\ pc \in [Requests -> Labels]
  /\ form \in [Requests -> Form \cup {NoForm}]
  /\ person \in [Requests -> Person \cup {NoPerson}]
  /\ answer \in [Requests -> Answers]
  /\ told \in [Requests -> Person \cup {NoPerson}]
  /\ mailed \in [Requests -> Person \cup {NoPerson}]
  /\ written \in [Emails -> Seq(Authors)]
  /\ hit \subseteq Requests
  /\ \A q \in Requests : pc[q] \in Holding => person[q] # NoPerson

(* At most one e-mail has a row from before: ids are not shared. *)
Init ==
  /\ \E old \in {{}} \cup {{e} : e \in Emails} :
       /\ people = [e \in Emails |-> IF e \in old THEN LegacyRow(e) ELSE NoPerson]
       /\ written = [e \in Emails |-> IF e \in old THEN <<Legacy>> ELSE <<>>]
  /\ regs = [q \in Requests |-> NoReg]
  /\ pc = [q \in Requests |-> "idle"]
  /\ form = [q \in Requests |-> NoForm]
  /\ person = [q \in Requests |-> NoPerson]
  /\ answer = [q \in Requests |-> "none"]
  /\ told = [q \in Requests |-> NoPerson]
  /\ mailed = [q \in Requests |-> NoPerson]
  /\ hit = {}

Goto(q, l) == pc' = [pc EXCEPT ![q] = l]

Refuse(q, a) ==
  /\ Goto(q, "done")
  /\ answer' = [answer EXCEPT ![q] = a]

-----------------------------------------------------------------------------
(* Register. *)

(* A valid form for a race that exists; the others end before the upsert. *)
Receive(q) ==
  /\ pc[q] = "idle"
  /\ \E f \in Form :
       /\ form' = [form EXCEPT ![q] = f]
       /\ person' = [person EXCEPT ![q] = Submitted(q, f)]
  /\ Goto(q, "upsert")
  /\ UNCHANGED <<people, regs, answer, told, mailed, written, hit>>

(* clause.AssignmentColumns: what ON CONFLICT overwrites. *)
Refreshed == Columns

(* Mutant: ON CONFLICT DO NOTHING. *)
KeepsOldRow(old, q) == old

(* Mutant: UpdateAll, which overwrites the primary key too. *)
ReplacesRow(old, q) == person[q]

(* The row after a conflict on email: the profile is refreshed, the id kept. *)
RefreshedRow(old, q) ==
  [old EXCEPT !.data = [c \in Columns |->
     IF c \in Refreshed THEN person[q].data[c] ELSE old.data[c]]]

(* INSERT ... ON CONFLICT (email) DO UPDATE. *)
StoreProfile(q) ==
  LET e == person[q].email IN
  /\ people' = [people EXCEPT ![e] =
       IF @ = NoPerson THEN person[q] ELSE RefreshedRow(@, q)]
  /\ written' = [written EXCEPT ![e] = Append(@, q)]

UpsertByEmail(q) ==
  /\ pc[q] = "upsert"
  /\ StoreProfile(q)
  /\ Goto(q, "reload")
  /\ UNCHANGED <<regs, form, person, answer, told, mailed, hit>>

(* First(&saved, "email = ?"): the id that the row really has, and whatever
   another call has stored by now. *)
Reloaded(q) == people[person[q].email]

ReloadPerson(q) ==
  /\ pc[q] = "reload"
  /\ person' = [person EXCEPT ![q] = Reloaded(q)]
  /\ Goto(q, "create")
  /\ UNCHANGED <<people, regs, form, answer, told, mailed, written, hit>>

(* The unique index (race_id, participant_id). *)
Duplicate(q) ==
  \E o \in Requests : regs[o] # NoReg /\ regs[o].race = form[q].race
                      /\ regs[o].participant = person[q].id

(* The foreign key finds the person by the id the call carries. *)
PersonExists(q) ==
  \E e \in Emails : people[e] # NoPerson /\ people[e].id = person[q].id

CreateRegistration(q) ==
  /\ pc[q] = "create"
  /\ \/ /\ Duplicate(q)
        /\ Refuse(q, "alreadyRegistered")
        /\ UNCHANGED regs
     \/ /\ ~Duplicate(q) /\ ~PersonExists(q)
        /\ Refuse(q, "error")
        /\ UNCHANGED regs
     \/ /\ ~Duplicate(q) /\ PersonExists(q)
        /\ regs' = [regs EXCEPT ![q] =
             [race |-> form[q].race, participant |-> person[q].id,
              confirmed |-> FALSE]]
        /\ Goto(q, "confirm")
        /\ UNCHANGED answer
  /\ UNCHANGED <<people, form, person, told, mailed, written, hit>>

(* The dorsal loop: a dorsal is saved, or the race is full. *)
Confirm(q) ==
  /\ pc[q] = "confirm"
  /\ \/ /\ regs' = [regs EXCEPT ![q].confirmed = TRUE]
        /\ Goto(q, "notify")
     \/ /\ Goto(q, "undo")
        /\ UNCHANGED regs
  /\ UNCHANGED <<people, form, person, answer, told, mailed, written, hit>>

(* The caller hears what stopped the confirmation. *)
Failure(q) == IF q \in hit THEN "error" ELSE "full"

(* The participation is taken back, the person and their new data stay. *)
UndoCreate(q) ==
  /\ pc[q] = "undo"
  /\ regs' = [regs EXCEPT ![q] = NoReg]
  /\ Refuse(q, Failure(q))
  /\ UNCHANGED <<people, form, person, told, mailed, written, hit>>

(* The e-mail goes out, or its failure is logged; the caller is answered from
   the same struct. *)
Notify(q) ==
  /\ pc[q] = "notify"
  /\ mailed' \in {mailed, [mailed EXCEPT ![q] = person[q]]}
  /\ told' = [told EXCEPT ![q] = person[q]]
  /\ Refuse(q, "confirmed")
  /\ UNCHANGED <<people, regs, form, person, written, hit>>

-----------------------------------------------------------------------------
(* Faults. *)

(* A statement before the confirmation fails, or the request is cancelled. *)
StatementFails(q) ==
  /\ pc[q] \in {"upsert", "reload", "create"}
  /\ Refuse(q, "error")
  /\ hit' = hit \cup {q}
  /\ UNCHANGED <<people, regs, form, person, told, mailed, written>>

(* The upsert is committed and the call learns only that it failed. *)
UpsertReplyLost(q) ==
  /\ pc[q] = "upsert"
  /\ StoreProfile(q)
  /\ Refuse(q, "error")
  /\ hit' = hit \cup {q}
  /\ UNCHANGED <<regs, form, person, told, mailed>>

(* A statement of the dorsal loop fails. *)
ConfirmFails(q) ==
  /\ pc[q] = "confirm"
  /\ Goto(q, "undo")
  /\ hit' = hit \cup {q}
  /\ UNCHANGED <<people, regs, form, person, answer, told, mailed, written>>

(* The delete that should undo the row fails, which is logged. *)
UndoFails(q) ==
  /\ pc[q] = "undo"
  /\ Refuse(q, Failure(q))
  /\ hit' = hit \cup {q}
  /\ UNCHANGED <<people, regs, form, person, told, mailed, written>>

Step(q) ==
  \/ Receive(q) \/ UpsertByEmail(q) \/ ReloadPerson(q)
  \/ CreateRegistration(q) \/ Confirm(q) \/ UndoCreate(q) \/ Notify(q)

Finished == \A q \in Requests : pc[q] = "done"

Next ==
  \/ \E q \in Requests :
       \/ Step(q)
       \/ StatementFails(q) \/ UpsertReplyLost(q)
       \/ ConfirmFails(q) \/ UndoFails(q)
  \/ Finished /\ UNCHANGED vars

Spec == Init /\ [][Next]_vars

-----------------------------------------------------------------------------
(* Properties. *)

WholeSubmission(row, a) == \A c \in Columns : row.data[c] = a

(* The e-mail and the answer of a confirmed registration name its own address,
   and show one submission as a whole: the caller's, or one that another call
   for that address stored after it (UpsertByEmail's reload).  Never an older
   one, never the name of one with the birth date of another. *)
ShowsNoOlderPerson ==
  \A q \in Requests : \A shown \in {told[q], mailed[q]} \ {NoPerson} :
    LET stored == written[form[q].email] IN
    /\ shown.email = form[q].email
    /\ \E i, j \in DOMAIN stored :
         i <= j /\ stored[i] = q /\ WholeSubmission(shown, stored[j])

(* A row holds the last submission that was stored for it, in every column
   and whatever became of the registration that brought it: no column of an
   earlier one survives, not even of a row older than the column. *)
LastSubmissionWins ==
  \A e \in Emails : LET stored == written[e] IN
    stored # <<>> /\ stored # <<Legacy>> =>
      /\ people[e] # NoPerson
      /\ WholeSubmission(people[e], stored[Len(stored)])

(* A registration, and a call that has read its person, refer to the row of
   the address that was typed in its form: overwriting a profile never moves
   a registration to somebody else or leaves it with nobody. *)
KeepsItsPerson ==
  \A q \in Requests :
    /\ regs[q] # NoReg =>
         /\ people[form[q].email] # NoPerson
         /\ people[form[q].email].id = regs[q].participant
    /\ pc[q] \in {"create", "confirm", "notify"} =>
         person[q].id = people[form[q].email].id

(* A call that nothing struck is not answered with an internal error: the
   foreign key always finds the person the call has just stored. *)
NoErrorWithoutFault ==
  \A q \in Requests : answer[q] = "error" => q \in hit
=============================================================================
