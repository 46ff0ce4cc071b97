--------------------------- MODULE ProfilesProofs ---------------------------
(***************************************************************************)
(* Theorems about Profiles, for any number of calls, addresses and races,  *)
(* and every fault.                                                        *)
(***************************************************************************)
EXTENDS Profiles, TLAPS

AfterUpsert == {"reload", "create", "confirm", "undo", "notify"}
AfterReload == {"create", "confirm", "undo", "notify"}
AfterInsert == {"confirm", "undo", "notify", "done"}

(* What is stored under the address that q typed. *)
Stored(q) == written[form[q].email]
RowOf(q)  == people[form[q].email]

(* The person shown to q is one submission as a whole, q's or a later one. *)
Shows(row, q, f, stored) ==
  /\ row \in Person
  /\ row.email = f.email
  /\ \E i, j \in DOMAIN stored :
       i <= j /\ stored[i] = q /\ WholeSubmission(row, stored[j])

HasId(row, id) == row # NoPerson /\ row.id = id

(* What a call knows at each of its statements, and what it leaves behind. *)
CallOK(q) ==
  /\ pc[q] # "idle" => form[q] \in Form
  /\ pc[q] \in Holding => person[q] \in Person /\ person[q].email = form[q].email
  /\ pc[q] = "upsert" => WholeSubmission(person[q], q)
  /\ pc[q] \in AfterUpsert =>
       RowOf(q) # NoPerson /\ \E i \in DOMAIN Stored(q) : Stored(q)[i] = q
  /\ pc[q] \in AfterReload =>
       Shows(person[q], q, form[q], Stored(q)) /\ HasId(RowOf(q), person[q].id)
  /\ regs[q] # NoReg =>
       pc[q] \in AfterInsert /\ HasId(RowOf(q), regs[q].participant)
  /\ pc[q] \in {"confirm", "notify"} => regs[q] # NoReg
  /\ told[q] # NoPerson =>
       pc[q] = "done" /\ Shows(told[q], q, form[q], Stored(q))
  /\ mailed[q] # NoPerson =>
       pc[q] = "done" /\ Shows(mailed[q], q, form[q], Stored(q))
  /\ answer[q] = "error" => q \in hit

(* A row is where its key says, and holds the last submission stored for it. *)
RowOK(e) ==
  /\ people[e] # NoPerson => people[e].email = e
  /\ written[e] # <<>> /\ written[e] # <<Legacy>> =>
       /\ people[e] # NoPerson
       /\ WholeSubmission(people[e], written[e][Len(written[e])])

Inv ==
  /\ TypeOK
  /\ \A q \in Requests : CallOK(q)
  /\ \A e \in Emails : RowOK(e)

(* What the application keeps between its statements, q's apart. *)
OthersStand(q) ==
  \A o \in Requests \ {q} :
    /\ pc'[o] = pc[o] /\ form'[o] = form[o] /\ person'[o] = person[o]
    /\ regs'[o] = regs[o] /\ answer'[o] = answer[o]
    /\ told'[o] = told[o] /\ mailed'[o] = mailed[o]
    /\ o \in hit => o \in hit'

(* A row keeps its id, and what was written stays written. *)
RowsGrow ==
  \A e \in Emails :
    /\ people[e] # NoPerson => people'[e] # NoPerson /\ people'[e].id = people[e].id
    /\ \A i \in DOMAIN written[e] :
         i \in DOMAIN written'[e] /\ written'[e][i] = written[e][i]

LEMMA InitInv == Init => Inv
<1> SUFFICES ASSUME Init PROVE Inv
  OBVIOUS
<1>1. PICK old \in {{}} \cup {{e} : e \in Emails} :
        /\ people = [e \in Emails |-> IF e \in old THEN LegacyRow(e) ELSE NoPerson]
        /\ written = [e \in Emails |-> IF e \in old THEN <<Legacy>> ELSE <<>>]
  BY DEF Init
<1>2. \A e \in Emails : LegacyRow(e) \in Person /\ LegacyRow(e).email = e
  BY DEF LegacyRow, Person, Profile, Authors
<1>3. <<Legacy>> \in Seq(Authors) /\ <<>> \in Seq(Authors)
  BY DEF Authors
<1>4. people \in [Emails -> Person \cup {NoPerson}] /\ written \in [Emails -> Seq(Authors)]
  BY <1>1, <1>2, <1>3
<1>5. TypeOK
  BY <1>4 DEF Init, TypeOK, Labels, Answers, Holding
<1>6. ASSUME NEW q \in Requests PROVE CallOK(q)
  BY DEF Init, CallOK, Holding, AfterUpsert, AfterReload
<1>7. ASSUME NEW e \in Emails PROVE RowOK(e)
  BY <1>1, <1>2 DEF RowOK
<1> QED BY <1>5, <1>6, <1>7 DEF Inv

(* What is shown stays true while submissions are added. *)
LEMMA ShowsKept ==
  ASSUME NEW row, NEW q, NEW f, NEW stored, NEW longer,
         \A i \in DOMAIN stored : i \in DOMAIN longer /\ longer[i] = stored[i],
         Shows(row, q, f, stored)
  PROVE  Shows(row, q, f, longer)
  BY DEF Shows

(* A call that does not move keeps all it knows while rows grow. *)
LEMMA OthersKept ==
  ASSUME Inv, NEW q \in Requests, OthersStand(q), RowsGrow,
         NEW o \in Requests \ {q}
  PROVE  CallOK(o)'
<1>1. CallOK(o)
  BY DEF Inv
<1>2. /\ pc'[o] = pc[o] /\ form'[o] = form[o] /\ person'[o] = person[o]
      /\ regs'[o] = regs[o] /\ answer'[o] = answer[o]
      /\ told'[o] = told[o] /\ mailed'[o] = mailed[o]
      /\ o \in hit => o \in hit'
  BY DEF OthersStand
<1>3. ASSUME form[o] \in Form
      PROVE  /\ \A row : Shows(row, o, form[o], Stored(o))
                           => Shows(row, o, form[o], Stored(o)')
             /\ \A n : HasId(RowOf(o), n) => HasId(RowOf(o)', n)
             /\ \A i \in DOMAIN Stored(o) :
                  i \in DOMAIN Stored(o)' /\ Stored(o)'[i] = Stored(o)[i]
             /\ RowOf(o) # NoPerson => RowOf(o)' # NoPerson
  <2>1. form[o].email \in Emails
    BY <1>3 DEF Form
  <2>2. \A i \in DOMAIN Stored(o) :
          i \in DOMAIN Stored(o)' /\ Stored(o)'[i] = Stored(o)[i]
    BY <2>1, <1>2 DEF RowsGrow, Stored
  <2>3. \A row : Shows(row, o, form[o], Stored(o)) => Shows(row, o, form[o], Stored(o)')
    BY <2>2, ShowsKept
  <2>4. RowOf(o) # NoPerson => RowOf(o)' # NoPerson /\ RowOf(o)'.id = RowOf(o).id
    BY <2>1, <1>2 DEF RowsGrow, RowOf
  <2> QED BY <2>2, <2>3, <2>4 DEF HasId
<1>4. pc[o] # "idle" => form[o] \in Form
  BY <1>1 DEF CallOK
<1>5. CASE pc[o] = "idle"
  BY <1>1, <1>2, <1>5 DEF CallOK, Holding, AfterUpsert, AfterReload, AfterInsert
<1>6. CASE pc[o] # "idle"
  <2> HIDE DEF RowOf, Stored
  <2>1. (pc[o] \in AfterReload =>
          Shows(person[o], o, form[o], Stored(o)) /\ HasId(RowOf(o), person[o].id))'
    BY <1>1, <1>2, <1>3, <1>4, <1>6 DEF CallOK
  <2>2. (told[o] # NoPerson =>
          pc[o] = "done" /\ Shows(told[o], o, form[o], Stored(o)))'
    BY <1>1, <1>2, <1>3, <1>4, <1>6 DEF CallOK
  <2>3. (mailed[o] # NoPerson =>
          pc[o] = "done" /\ Shows(mailed[o], o, form[o], Stored(o)))'
    BY <1>1, <1>2, <1>3, <1>4, <1>6 DEF CallOK
  <2>4. (regs[o] # NoReg =>
          pc[o] \in AfterInsert /\ HasId(RowOf(o), regs[o].participant))'
    BY <1>1, <1>2, <1>3, <1>4, <1>6 DEF CallOK
  <2>5. (pc[o] \in AfterUpsert =>
          RowOf(o) # NoPerson /\ \E i \in DOMAIN Stored(o) : Stored(o)[i] = o)'
    BY <1>1, <1>2, <1>3, <1>4, <1>6 DEF CallOK
  <2>6. (pc[o] = "upsert" => WholeSubmission(person[o], o))'
    BY <1>1, <1>2 DEF CallOK, WholeSubmission
  <2> QED BY <1>1, <1>2, <2>1, <2>2, <2>3, <2>4, <2>5, <2>6 DEF CallOK
<1> QED BY <1>5, <1>6

(* Steps that touch neither table of people nor the history of it. *)
LEMMA RowsStand ==
  ASSUME Inv, UNCHANGED <<people, written>>
  PROVE  RowsGrow /\ \A e \in Emails : RowOK(e)'
  BY DEF Inv, RowsGrow, RowOK, WholeSubmission

(* The upsert: whoever inserted the row, it now holds q's submission. *)
LEMMA StoreRows ==
  ASSUME Inv, NEW q \in Requests, pc[q] = "upsert", StoreProfile(q)
  PROVE  /\ people' \in [Emails -> Person \cup {NoPerson}]
         /\ written' \in [Emails -> Seq(Authors)]
         /\ RowsGrow
         /\ \A e \in Emails : RowOK(e)'
         /\ people'[form[q].email] # NoPerson
         /\ \E i \in DOMAIN written'[form[q].email] : written'[form[q].email][i] = q
<1> DEFINE e == person[q].email
<1>1. /\ person[q] \in Person /\ e = form[q].email /\ WholeSubmission(person[q], q)
      /\ e \in Emails
  BY DEF Inv, CallOK, Holding, Person
<1>2. people \in [Emails -> Person \cup {NoPerson}] /\ written \in [Emails -> Seq(Authors)]
  BY DEF Inv, TypeOK
<1>3. person[q].data \in Profile /\ person[q].id \in Authors
  BY <1>1 DEF Person
<1>4. ASSUME NEW old \in Person
      PROVE  /\ RefreshedRow(old, q) \in Person
             /\ RefreshedRow(old, q).id = old.id
             /\ RefreshedRow(old, q).email = old.email
             /\ WholeSubmission(RefreshedRow(old, q), q)
  <2> DEFINE d == [c \in Columns |->
               IF c \in Refreshed THEN person[q].data[c] ELSE old.data[c]]
  <2>1. d \in Profile /\ \A c \in Columns : d[c] = q
    BY <1>1, <1>3 DEF Profile, Refreshed, WholeSubmission
  <2>2. RefreshedRow(old, q) = [id |-> old.id, email |-> old.email, data |-> d]
    BY DEF RefreshedRow, Person
  <2>3. old.id \in Authors /\ old.email \in Emails
    BY DEF Person
  <2> HIDE DEF d
  <2> QED BY <2>1, <2>2, <2>3 DEF Person, WholeSubmission
<1> DEFINE row == IF people[e] = NoPerson THEN person[q] ELSE RefreshedRow(people[e], q)
<1>5. /\ row \in Person /\ WholeSubmission(row, q) /\ row.email = e
      /\ people[e] # NoPerson => row.id = people[e].id
  <2>1. people[e] # NoPerson => people[e] \in Person /\ people[e].email = e
    BY <1>1, <1>2 DEF Inv, RowOK
  <2> QED BY <1>1, <1>4, <2>1
<1>6. people' = [people EXCEPT ![e] = row] /\ written' = [written EXCEPT ![e] = Append(@, q)]
  BY DEF StoreProfile
<1> HIDE DEF row, e
<1>7. row # NoPerson
  BY <1>5, ConstantsAssumption
<1>8. q \in Authors /\ q # Legacy
  BY ConstantsAssumption DEF Authors
<1>9. /\ written[e] \in Seq(Authors)
      /\ Append(written[e], q) \in Seq(Authors)
      /\ Len(Append(written[e], q)) = Len(written[e]) + 1
      /\ Len(written[e]) + 1 \in DOMAIN Append(written[e], q)
      /\ Append(written[e], q)[Len(written[e]) + 1] = q
      /\ \A i \in DOMAIN written[e] :
           i \in DOMAIN Append(written[e], q) /\ Append(written[e], q)[i] = written[e][i]
  BY <1>1, <1>2, <1>8
<1>10. people' \in [Emails -> Person \cup {NoPerson}] /\ written' \in [Emails -> Seq(Authors)]
  BY <1>1, <1>2, <1>5, <1>6, <1>9
<1>11. /\ people'[e] = row /\ written'[e] = Append(written[e], q)
       /\ \A x \in Emails \ {e} : people'[x] = people[x] /\ written'[x] = written[x]
  BY <1>1, <1>2, <1>6
<1>12. RowsGrow
  BY <1>5, <1>7, <1>9, <1>11 DEF RowsGrow
<1>13. ASSUME NEW x \in Emails PROVE RowOK(x)'
  <2>1. CASE x = e
    BY <1>5, <1>7, <1>9, <1>11, <2>1 DEF RowOK, WholeSubmission
  <2>2. CASE x # e
    BY <1>11, <2>2 DEF Inv, RowOK, WholeSubmission
  <2> QED BY <2>1, <2>2
<1>14. people'[e] # NoPerson /\ \E i \in DOMAIN written'[e] : written'[e][i] = q
  BY <1>7, <1>9, <1>11
<1> QED BY <1>1, <1>10, <1>12, <1>13, <1>14

-----------------------------------------------------------------------------
(* One lemma per action: types, the call that moves, and what the others
   rely on. *)

Moves(q) ==
  TypeOK' /\ CallOK(q)' /\ OthersStand(q) /\ RowsGrow /\ \A e \in Emails : RowOK(e)'

LEMMA MovesKeepInv ==
  ASSUME Inv, NEW q \in Requests, Moves(q)
  PROVE  Inv'
  BY OthersKept DEF Moves, Inv

LEMMA ReceiveMoves ==
  ASSUME Inv, NEW q \in Requests, Receive(q)
  PROVE  Moves(q)
<1>1. PICK f \in Form : form' = [form EXCEPT ![q] = f]
                        /\ person' = [person EXCEPT ![q] = Submitted(q, f)]
  BY DEF Receive
<1>2. Submitted(q, f) \in Person /\ Submitted(q, f).email = f.email
      /\ WholeSubmission(Submitted(q, f), q) /\ Submitted(q, f) # NoPerson
  <2>1. Submitted(q, f) \in Person
    BY DEF Submitted, Person, Profile, Authors, Form
  <2> QED BY <2>1, ConstantsAssumption DEF Submitted, WholeSubmission
<1>3. TypeOK'
  BY <1>1, <1>2 DEF Inv, TypeOK, Receive, Goto, Labels, Holding
<1>4. CallOK(q)'
  BY <1>1, <1>2 DEF Inv, CallOK, TypeOK, Receive, Goto, Holding, AfterUpsert, AfterReload,
     AfterInsert, WholeSubmission
<1>5. OthersStand(q)
  BY DEF Inv, TypeOK, Receive, Goto, OthersStand
<1> QED BY <1>3, <1>4, <1>5, RowsStand DEF Moves, Receive

LEMMA UpsertMoves ==
  ASSUME Inv, NEW q \in Requests, UpsertByEmail(q)
  PROVE  Moves(q)
<1>1. pc[q] = "upsert" /\ StoreProfile(q)
  BY DEF UpsertByEmail
<1>2. TypeOK'
  BY <1>1, StoreRows DEF Inv, TypeOK, UpsertByEmail, Goto, Labels, Holding
<1>3. CallOK(q)'
  BY <1>1, StoreRows DEF Inv, CallOK, TypeOK, UpsertByEmail, Goto, Holding, AfterUpsert, AfterReload,
     AfterInsert, RowOf, Stored
<1>4. OthersStand(q)
  BY DEF Inv, TypeOK, UpsertByEmail, Goto, OthersStand
<1> QED BY <1>1, <1>2, <1>3, <1>4, StoreRows DEF Moves

LEMMA UpsertReplyLostMoves ==
  ASSUME Inv, NEW q \in Requests, UpsertReplyLost(q)
  PROVE  Moves(q)
<1>1. pc[q] = "upsert" /\ StoreProfile(q)
  BY DEF UpsertReplyLost
<1>2. TypeOK'
  BY <1>1, StoreRows DEF Inv, TypeOK, UpsertReplyLost, Refuse, Goto, Labels, Answers, Holding
<1>3. CallOK(q)'
  BY <1>1 DEF Inv, CallOK, TypeOK, UpsertReplyLost, Refuse, Goto, Holding, AfterUpsert, AfterReload,
     AfterInsert
<1>4. OthersStand(q)
  BY DEF Inv, TypeOK, UpsertReplyLost, Refuse, Goto, OthersStand
<1> QED BY <1>1, <1>2, <1>3, <1>4, StoreRows DEF Moves

LEMMA ReloadMoves ==
  ASSUME Inv, NEW q \in Requests, ReloadPerson(q)
  PROVE  Moves(q)
<1>1. /\ form[q] \in Form /\ form[q].email \in Emails /\ Reloaded(q) = RowOf(q)
      /\ RowOf(q) # NoPerson
      /\ \E i \in DOMAIN Stored(q) : Stored(q)[i] = q
  BY DEF Inv, CallOK, ReloadPerson, Holding, AfterUpsert, Form, Reloaded, RowOf
<1>2. RowOf(q) \in Person /\ Stored(q) \in Seq(Authors)
  BY <1>1 DEF Inv, TypeOK, RowOf, Stored
<1>3. PICK i \in DOMAIN Stored(q) : Stored(q)[i] = q
  BY <1>1
<1>4. Stored(q) # <<>> /\ Stored(q) # <<Legacy>> /\ Len(Stored(q)) \in DOMAIN Stored(q)
      /\ i <= Len(Stored(q))
  BY <1>2, <1>3, ConstantsAssumption
<1>5. RowOf(q).email = form[q].email /\ WholeSubmission(RowOf(q), Stored(q)[Len(Stored(q))])
  BY <1>1, <1>4 DEF Inv, RowOK, RowOf, Stored
<1>6. Shows(RowOf(q), q, form[q], Stored(q))
  BY <1>2, <1>3, <1>4, <1>5 DEF Shows
<1>7. person' = [person EXCEPT ![q] = RowOf(q)]
  BY <1>1 DEF ReloadPerson
<1>8. TypeOK'
  BY <1>1, <1>2, <1>7 DEF Inv, TypeOK, ReloadPerson, Goto, Labels, Holding
<1>9. CallOK(q)'
  <2>1. /\ pc'[q] = "create" /\ person'[q] = RowOf(q) /\ form'[q] = form[q]
        /\ UNCHANGED <<people, written, regs, told, mailed, answer, hit>>
    BY <1>7 DEF Inv, TypeOK, ReloadPerson, Goto
  <2>2. RowOf(q)' = RowOf(q) /\ Stored(q)' = Stored(q)
    BY <2>1 DEF RowOf, Stored
  <2>3. regs[q] = NoReg /\ told[q] = NoPerson /\ mailed[q] = NoPerson
        /\ (answer[q] = "error" => q \in hit)
    BY DEF Inv, CallOK, ReloadPerson, AfterInsert
  <2> QED BY <1>1, <1>2, <1>3, <1>5, <1>6, <2>1, <2>2, <2>3
          DEF CallOK, HasId, Holding, AfterUpsert, AfterReload
<1>10. OthersStand(q)
  BY DEF Inv, TypeOK, ReloadPerson, Goto, OthersStand
<1> QED BY <1>8, <1>9, <1>10, RowsStand DEF Moves, ReloadPerson

(* The row a call has just stored is what its foreign key finds. *)
LEMMA PersonFound ==
  ASSUME Inv, NEW q \in Requests, pc[q] = "create"
  PROVE  PersonExists(q)
  BY DEF Inv, CallOK, AfterReload, PersonExists, HasId, RowOf, Form

LEMMA CreateMoves ==
  ASSUME Inv, NEW q \in Requests, CreateRegistration(q)
  PROVE  Moves(q)
<1>1. /\ form[q] \in Form /\ person[q] \in Person /\ person[q].id \in Authors
      /\ form[q].race \in Races
      /\ HasId(RowOf(q), person[q].id) /\ regs[q] = NoReg
      /\ told[q] = NoPerson /\ mailed[q] = NoPerson
      /\ (answer[q] = "error" => q \in hit)
  BY DEF Inv, CallOK, CreateRegistration, Holding, AfterReload, AfterInsert, Person, Form
<1>2. CASE Refuse(q, "alreadyRegistered") /\ UNCHANGED regs
  <2>1. TypeOK'
    BY <1>2 DEF Inv, TypeOK, CreateRegistration, Goto, Refuse, Labels, Answers, Holding
  <2>2. CallOK(q)'
    BY <1>1, <1>2 DEF Inv, TypeOK, CallOK, CreateRegistration, Goto, Refuse, Holding,
       AfterUpsert, AfterReload
  <2>3. OthersStand(q)
    BY <1>2 DEF Inv, TypeOK, CreateRegistration, Goto, Refuse, OthersStand
  <2> QED BY <2>1, <2>2, <2>3, RowsStand DEF Moves, CreateRegistration
<1>3. CASE /\ regs' = [regs EXCEPT ![q] =
                [race |-> form[q].race, participant |-> person[q].id, confirmed |-> FALSE]]
           /\ Goto(q, "confirm")
           /\ UNCHANGED answer
  <2> DEFINE reg == [race |-> form[q].race, participant |-> person[q].id,
                     confirmed |-> FALSE]
  <2>1. reg \in RegRow /\ reg # NoReg /\ reg.participant = person[q].id
    <3>1. reg \in RegRow /\ reg.participant = person[q].id
      BY <1>1 DEF RegRow
    <3> QED BY <3>1, ConstantsAssumption
  <2> HIDE DEF reg
  <2>2. regs' = [regs EXCEPT ![q] = reg]
    BY <1>3 DEF reg
  <2>3. TypeOK'
    BY <1>1, <1>3, <2>1, <2>2
    DEF Inv, TypeOK, CreateRegistration, Goto, Labels, Answers, Holding
  <2>4. CallOK(q)'
    <3>1. /\ pc'[q] = "confirm" /\ regs'[q] = reg
          /\ UNCHANGED <<people, written, form, person, told, mailed, answer, hit>>
      BY <1>3, <2>2 DEF Inv, TypeOK, CreateRegistration, Goto
    <3>2. RowOf(q)' = RowOf(q) /\ Stored(q)' = Stored(q)
      BY <3>1 DEF RowOf, Stored
    <3>3. CallOK(q) /\ pc[q] = "create"
      BY DEF Inv, CreateRegistration
    <3> QED BY <1>1, <2>1, <3>1, <3>2, <3>3
            DEF CallOK, Holding, AfterUpsert, AfterReload, AfterInsert
  <2>5. OthersStand(q)
    BY <1>3 DEF Inv, TypeOK, CreateRegistration, Goto, OthersStand
  <2> QED BY <2>3, <2>4, <2>5, RowsStand DEF Moves, CreateRegistration
<1> QED BY <1>2, <1>3, PersonFound DEF CreateRegistration

LEMMA ConfirmMoves ==
  ASSUME Inv, NEW q \in Requests, Confirm(q) \/ ConfirmFails(q)
  PROVE  Moves(q)
<1>1. /\ pc[q] = "confirm" /\ regs[q] \in RegRow
      /\ CallOK(q)
  BY DEF Inv, TypeOK, CallOK, Confirm, ConfirmFails
<1> DEFINE reg == [regs[q] EXCEPT !.confirmed = TRUE]
<1>2. reg \in RegRow /\ reg # NoReg /\ reg.participant = regs[q].participant
  <2>1. reg \in RegRow /\ reg.participant = regs[q].participant
    BY <1>1 DEF RegRow
  <2> QED BY <2>1, ConstantsAssumption
<1> HIDE DEF reg
<1>3. /\ \/ pc' = [pc EXCEPT ![q] = "notify"] /\ regs' = [regs EXCEPT ![q] = reg]
         \/ pc' = [pc EXCEPT ![q] = "undo"] /\ regs' = regs
      /\ hit' \in {hit, hit \cup {q}}
      /\ UNCHANGED <<people, form, person, answer, told, mailed, written>>
  BY DEF Confirm, ConfirmFails, Goto, reg
<1>4. TypeOK'
  BY <1>1, <1>2, <1>3 DEF Inv, TypeOK, Labels, Holding
<1>5. CallOK(q)'
  <2>1. pc'[q] \in {"notify", "undo"} /\ regs'[q] \in {reg, regs[q]}
    BY <1>3 DEF Inv, TypeOK
  <2>2. RowOf(q)' = RowOf(q) /\ Stored(q)' = Stored(q)
    BY <1>3 DEF RowOf, Stored
  <2>3. regs[q] # NoReg
    BY <1>1 DEF CallOK
  <2> QED BY <1>1, <1>2, <1>3, <2>1, <2>2, <2>3
          DEF CallOK, Holding, AfterUpsert, AfterReload, AfterInsert
<1>6. OthersStand(q)
  BY <1>3 DEF Inv, TypeOK, OthersStand
<1> QED BY <1>3, <1>4, <1>5, <1>6, RowsStand DEF Moves

(* A refusal: the call ends without an answer to show. *)
LEMMA EndMoves ==
  ASSUME Inv, NEW q \in Requests,
         UndoCreate(q) \/ UndoFails(q) \/ StatementFails(q)
  PROVE  Moves(q)
<1>1. CallOK(q) /\ pc[q] \notin {"idle", "done"}
  BY DEF Inv, UndoCreate, UndoFails, StatementFails
<1>2. /\ pc' = [pc EXCEPT ![q] = "done"]
      /\ \E a \in {"error", "full"} :
           /\ answer' = [answer EXCEPT ![q] = a]
           /\ a = "error" => q \in hit'
      /\ regs' = [regs EXCEPT ![q] = NoReg] \/ regs' = regs
      /\ hit' \in {hit, hit \cup {q}}
      /\ UNCHANGED <<people, form, person, told, mailed, written>>
  BY DEF UndoCreate, UndoFails, StatementFails, Refuse, Goto, Failure
<1>3. TypeOK'
  BY <1>1, <1>2 DEF Inv, TypeOK, Labels, Answers, Holding
<1>4. CallOK(q)'
  <2>1. pc'[q] = "done" /\ regs'[q] \in {NoReg, regs[q]}
        /\ (answer'[q] = "error" => q \in hit')
    BY <1>2 DEF Inv, TypeOK
  <2>2. RowOf(q)' = RowOf(q) /\ Stored(q)' = Stored(q)
    BY <1>2 DEF RowOf, Stored
  <2> QED BY <1>1, <1>2, <2>1, <2>2
          DEF CallOK, Holding, AfterUpsert, AfterReload, AfterInsert
<1>5. OthersStand(q)
  BY <1>2 DEF Inv, TypeOK, OthersStand
<1> QED BY <1>2, <1>3, <1>4, <1>5, RowsStand DEF Moves

LEMMA NotifyMoves ==
  ASSUME Inv, NEW q \in Requests, Notify(q)
  PROVE  Moves(q)
<1>1. CallOK(q) /\ pc[q] = "notify"
      /\ person[q] \in Person /\ Shows(person[q], q, form[q], Stored(q))
  BY DEF Inv, Notify, CallOK, AfterReload, Holding
<1>2. /\ pc' = [pc EXCEPT ![q] = "done"]
      /\ answer' = [answer EXCEPT ![q] = "confirmed"]
      /\ told' = [told EXCEPT ![q] = person[q]]
      /\ mailed' = mailed \/ mailed' = [mailed EXCEPT ![q] = person[q]]
      /\ UNCHANGED <<people, regs, form, person, written, hit>>
  BY DEF Notify, Refuse, Goto
<1>3. TypeOK'
  BY <1>1, <1>2 DEF Inv, TypeOK, Labels, Answers, Holding
<1>4. CallOK(q)'
  <2>1. /\ pc'[q] = "done" /\ answer'[q] = "confirmed" /\ told'[q] = person[q]
        /\ mailed'[q] \in {mailed[q], person[q]}
    BY <1>2 DEF Inv, TypeOK
  <2>2. RowOf(q)' = RowOf(q) /\ Stored(q)' = Stored(q)
    BY <1>2 DEF RowOf, Stored
  <2> QED BY <1>1, <1>2, <2>1, <2>2
          DEF CallOK, Holding, AfterUpsert, AfterReload, AfterInsert
<1>5. OthersStand(q)
  BY <1>2 DEF Inv, TypeOK, OthersStand
<1> QED BY <1>2, <1>3, <1>4, <1>5, RowsStand DEF Moves

LEMMA InvStep == Inv /\ [Next]_vars => Inv'
<1> SUFFICES ASSUME Inv, [Next]_vars PROVE Inv'
  OBVIOUS
<1>1. CASE UNCHANGED vars
  <2>1. TypeOK'
    BY <1>1 DEF Inv, TypeOK, vars
  <2>2. ASSUME NEW o \in Requests PROVE CallOK(o)'
    BY <1>1 DEF Inv, CallOK, vars, RowOf, Stored, Shows, WholeSubmission
  <2>3. \A e \in Emails : RowOK(e)'
    BY <1>1, RowsStand DEF vars
  <2> QED BY <2>1, <2>2, <2>3 DEF Inv
<1>2. ASSUME NEW q \in Requests,
             \/ Step(q) \/ StatementFails(q) \/ UpsertReplyLost(q)
             \/ ConfirmFails(q) \/ UndoFails(q)
      PROVE  Moves(q)
  BY <1>2, ReceiveMoves, UpsertMoves, UpsertReplyLostMoves, ReloadMoves,
     CreateMoves, ConfirmMoves, EndMoves, NotifyMoves DEF Step
<1> QED BY <1>1, <1>2, MovesKeepInv DEF Next

LEMMA InvAlways == Spec => []Inv
  BY InitInv, InvStep, PTL DEF Spec

-----------------------------------------------------------------------------
(* Types are kept, for any number of calls, addresses and races. *)
THEOREM TypeCorrect == Spec => []TypeOK
<1>1. Inv => TypeOK
  BY DEF Inv
<1> QED BY <1>1, InvAlways, PTL

(* However calls for one address overlap, a confirmed registration shows, in
   its answer and in its e-mail, one submission for its own address as a
   whole, and none older than its own (UpsertByEmail). *)
THEOREM NoOlderPersonShown == Spec => []ShowsNoOlderPerson
<1>1. Inv => ShowsNoOlderPerson
  BY DEF Inv, CallOK, Shows, Stored, ShowsNoOlderPerson
<1> QED BY <1>1, InvAlways, PTL

(* A person's row holds the last submission stored for it in every column,
   whatever became of the registration that brought it. *)
THEOREM LastSubmissionKept == Spec => []LastSubmissionWins
<1>1. Inv => LastSubmissionWins
  BY DEF Inv, RowOK, LastSubmissionWins
<1> QED BY <1>1, InvAlways, PTL

(* Overwriting a profile never moves a registration to another person. *)
THEOREM PersonKept == Spec => []KeepsItsPerson
<1>1. Inv => KeepsItsPerson
  BY DEF Inv, CallOK, RowOf, HasId, AfterReload, KeepsItsPerson
<1> QED BY <1>1, InvAlways, PTL

(* The foreign key on participants never fails a call that no fault struck. *)
THEOREM ErrorsHaveFaults == Spec => []NoErrorWithoutFault
<1>1. Inv => NoErrorWithoutFault
  BY DEF Inv, CallOK, NoErrorWithoutFault
<1> QED BY <1>1, InvAlways, PTL
=============================================================================
