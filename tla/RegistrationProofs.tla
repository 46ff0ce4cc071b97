------------------------- MODULE RegistrationProofs -------------------------
(***************************************************************************)
(* Theorems about Registration, for any number of requests, people, races  *)
(* and attempts, any capacity and any of the faults.                       *)
(***************************************************************************)
EXTENDS Registration, FiniteSetTheorems, TLAPS

LoopLabels == {"load", "next", "save"}

(* Where the calls of the payment seam can be, and those of POST
   /registrations past the race lookup. *)
SeamLabels  == {"idle", "getReg", "getRace", "getPerson", "notify", "done",
                "crashed"} \cup LoopLabels
AfterLookup == {"upsert", "reload", "create", "undo", "notify"} \cup LoopLabels

(* What the locals hold at each label: the strengthening TypeOK needs, for a
   save writes cand and the loop counts lost. *)
LocalsOK ==
  /\ \A p \in ConfirmCalls : pc[p] \in SeamLabels
  /\ \A q \in Requests : pc[q] # "idle" => form[q] \in Form
  /\ \A q \in Requests : pc[q] \in AfterLookup => raceId[q] \in RaceIds
  /\ \A p \in Processes :
       pc[p] \notin {"undo", "done", "crashed"} => lost[p] < MaxAttempts
  /\ \A p \in Processes :
       pc[p] \in {"save", "notify"} => cand[p] \in 1..capacity[p]

TypeInv == TypeOK /\ LocalsOK

LEMMA TypeInit == Init => TypeInv
  BY ConstantsAssumption
  DEF Init, TypeInv, TypeOK, LocalsOK, Labels, Answers, Processes, SeamLabels,
      AfterLookup, LoopLabels, Pending, Confirmed

(* One named lemma per group of actions keeps each proof small. *)
LEMMA TypeWebhook ==
  ASSUME TypeInv, NEW s \in Slugs, Webhook(s)
  PROVE  TypeInv'
<1> USE ConstantsAssumption DEF TypeInv, TypeOK, LocalsOK, local
<1>1. CASE SyncRace(s)
  <2>1. PICK c \in 1..MaxCapacity : InsertRace(s, c) \/ RefreshRace(s, c)
    BY <1>1 DEF SyncRace
  <2>2. CASE InsertRace(s, c)
    BY <1>1, <2>2 DEF SyncRace, InsertRace, RaceRow
  <2>3. CASE RefreshRace(s, c)
    BY <1>1, <2>3 DEF SyncRace, RefreshRace, RaceRow, MaxOf
  <2> QED BY <2>1, <2>2, <2>3
<1>2. CASE RemoveRace(s)
  BY <1>2 DEF RemoveRace
<1> QED BY <1>1, <1>2 DEF Webhook

LEMMA TypeRegister ==
  ASSUME TypeInv, NEW q \in Requests, RegisterStep(q)
  PROVE  TypeInv'
<1> USE ConstantsAssumption
    DEF TypeInv, TypeOK, LocalsOK, local, tables, Labels, Answers, Processes,
        SeamLabels, AfterLookup, LoopLabels, Goto, Return, Sends
<1>1. CASE Receive(q)
  BY <1>1 DEF Receive
<1>2. CASE FindRace(q)
  BY <1>2, SMTT(60) DEF FindRace, Accepted, RaceRow, Form
<1>3. CASE UpsertParticipant(q)
  BY <1>3 DEF UpsertParticipant, Form
<1>4. CASE ReloadParticipant(q)
  BY <1>4 DEF ReloadParticipant
<1>5. CASE CreateRegistration(q)
  <2>1. CASE WriteRow(q) /\ Goto(q, "load") /\ UNCHANGED answer
    <3>1. InsertedRow(q) \in RegRow
      BY <1>5 DEF InsertedRow, RegRow, Form, CreateRegistration
    <3>2. lost[q] < MaxAttempts
      BY <1>5, <2>1 DEF CreateRegistration
    <3> QED BY <1>5, <2>1, <3>1, <3>2 DEF CreateRegistration, WriteRow
  <2>2. CASE UNCHANGED regs /\ \E a \in Answers : Return(q, a)
    BY <1>5, <2>2 DEF CreateRegistration
  <2> QED BY <1>5, <2>1, <2>2 DEF CreateRegistration
<1>6. CASE UndoCreate(q)
  BY <1>6 DEF UndoCreate, DeleteRow
<1> QED BY <1>1, <1>2, <1>3, <1>4, <1>5, <1>6 DEF RegisterStep

LEMMA TypeSeam ==
  ASSUME TypeInv, NEW p \in ConfirmCalls, SeamStep(p)
  PROVE  TypeInv'
<1> USE ConstantsAssumption
    DEF TypeInv, TypeOK, LocalsOK, local, tables, Labels, Answers, Processes,
        SeamLabels, AfterLookup, LoopLabels, Goto, Return, Sends
<1>1. CASE ReceiveConfirm(p)
  BY <1>1 DEF ReceiveConfirm
<1>2. CASE GetRegistration(p)
  <2>1. CASE UNCHANGED raceId /\ Return(p, "notFound")
    BY <1>2, <2>1 DEF GetRegistration
  <2>2. CASE Target(p) \in Stored
    <3>1. regs[Target(p)].race \in RaceIds
      BY <2>2 DEF Stored, RegRow
    <3> QED BY <1>2, <2>2, <3>1, SMTT(30) DEF GetRegistration
  <2> QED BY <1>2, <2>1, <2>2 DEF GetRegistration
<1>3. CASE GetRace(p)
  <2>1. CASE UNCHANGED capacity /\ Return(p, "notFound")
    BY <1>3, <2>1 DEF GetRace
  <2>2. ASSUME NEW s \in Slugs, races[s] # NoRace, Goto(p, "getPerson"),
               capacity' = [capacity EXCEPT ![p] = races[s].capacity],
               UNCHANGED answer
        PROVE  TypeInv'
    <3>1. races[s].capacity \in 1..MaxCapacity
      BY <2>2 DEF RaceRow
    <3> QED BY <1>3, <2>2, <3>1, SMTT(30) DEF GetRace
  <2> QED BY <1>3, <2>1, <2>2 DEF GetRace
<1>4. CASE GetPerson(p)
  BY <1>4 DEF GetPerson
<1> QED BY <1>1, <1>2, <1>3, <1>4 DEF SeamStep

LEMMA TypeLoop ==
  ASSUME TypeInv, NEW p \in Processes, LoopStep(p)
  PROVE  TypeInv'
<1> USE ConstantsAssumption
    DEF TypeInv, TypeOK, LocalsOK, local, tables, Labels, Answers, Processes,
        SeamLabels, AfterLookup, LoopLabels, Goto, Return, Sends, ConfirmFails
<1>1. CASE LoadRegistration(p)
  BY <1>1, SMTT(60) DEF LoadRegistration, Stored, RegRow, Target
<1>2. CASE ProposeDorsal(p)
  BY <1>2 DEF ProposeDorsal, Refusal
<1>3. CASE SaveConfirmation(p)
  BY <1>3, SMTT(60) DEF SaveConfirmation, UpdateRow, Target, RegRow
<1>4. CASE LoseDorsal(p)
  BY <1>4, SMTT(60) DEF LoseDorsal
<1>5. CASE Notify(p)
  BY <1>5 DEF Notify
<1> QED BY <1>1, <1>2, <1>3, <1>4, <1>5 DEF LoopStep

LEMMA TypeFault ==
  ASSUME TypeInv, NEW p \in Processes, FaultStep(p)
  PROVE  TypeInv'
<1> USE ConstantsAssumption
    DEF TypeInv, TypeOK, LocalsOK, local, tables, Labels, Answers, Processes,
        SeamLabels, AfterLookup, LoopLabels, Goto, Return, ConfirmFails
<1>1. CASE Cancel(p)
  BY <1>1 DEF Cancel
<1>2. CASE StatementFails(p)
  BY <1>2 DEF StatementFails, OnError
<1>3. CASE ReplyLost(p)
  <2>1. CASE pc[p] = "upsert"
    BY <1>3, <2>1, SMTT(60) DEF ReplyLost, OnError, Form
  <2>2. CASE pc[p] = "create" /\ WriteRow(p)
    <3>1. InsertedRow(p) \in RegRow
      BY <1>3, <2>2 DEF ReplyLost, InsertedRow, RegRow, Form
    <3> QED BY <1>3, <2>2, <3>1 DEF ReplyLost, OnError, WriteRow
  <2>3. CASE pc[p] = "save" /\ UpdateRow(Target(p), cand[p])
    <3>1. regs' \in [Requests -> RegRow \cup {NoReg}]
      BY <2>3, SMTT(60) DEF UpdateRow, Target, RegRow
    <3> QED BY <1>3, <2>3, <3>1 DEF ReplyLost, OnError
  <2>4. CASE pc[p] = "undo" /\ DeleteRow(p)
    BY <1>3, <2>4, SMTT(60) DEF ReplyLost, OnError, DeleteRow
  <2> QED BY <1>3, <2>1, <2>2, <2>3, <2>4 DEF ReplyLost
<1>4. CASE Crash(p)
  BY <1>4 DEF Crash
<1> QED BY <1>1, <1>2, <1>3, <1>4 DEF FaultStep

LEMMA TypeInvariant == Spec => []TypeInv
<1>1. TypeInv /\ [Next]_vars => TypeInv'
  <2> SUFFICES ASSUME TypeInv, [Next]_vars PROVE TypeInv'
    OBVIOUS
  <2>1. CASE UNCHANGED vars
    BY <2>1 DEF TypeInv, TypeOK, LocalsOK, vars
  <2>2. CASE Next
    BY <2>2, TypeWebhook, TypeRegister, TypeSeam, TypeLoop, TypeFault DEF Next
  <2> QED BY <2>1, <2>2
<1> QED BY <1>1, TypeInit, PTL DEF Spec

(* The tables and the locals of every call keep their types: what the words
   "at most MaxCapacity" and "at most MaxAttempts" in the declarations promise. *)
THEOREM TypeCorrect == Spec => []TypeOK
BY TypeInvariant, PTL DEF TypeInv

-----------------------------------------------------------------------------
(* Every write to the registrations table is one of three statements, sent by
   a call at the label that sends it. *)
RegsWrite ==
  \/ \E q \in Requests :
       pc[q] = "create" /\ CanInsert(q) /\ regs' = [regs EXCEPT ![q] = InsertedRow(q)]
  \/ \E q \in Requests : pc[q] = "undo" /\ regs' = [regs EXCEPT ![q] = NoReg]
  \/ \E p \in Processes :
       /\ pc[p] = "save" /\ CanSave(p) /\ Target(p) \in Stored
       /\ regs' = [regs EXCEPT ![Target(p)].status = Confirmed,
                                ![Target(p)].dorsal = cand[p]]

LEMMA RegsStep ==
  ASSUME TypeInv, Next
  PROVE  regs' = regs \/ RegsWrite
<1> USE ConstantsAssumption DEF tables, local
<1>1. ASSUME NEW s \in Slugs, Webhook(s) PROVE regs' = regs
  BY <1>1 DEF Webhook, SyncRace, RemoveRace
<1>2. ASSUME NEW q \in Requests, RegisterStep(q) PROVE regs' = regs \/ RegsWrite
  BY <1>2 DEF RegisterStep, Receive, FindRace, UpsertParticipant, ReloadParticipant,
              CreateRegistration, UndoCreate, Sends, WriteRow, DeleteRow, RegsWrite
<1>3. ASSUME NEW p \in ConfirmCalls, SeamStep(p) PROVE regs' = regs
  BY <1>3 DEF SeamStep, ReceiveConfirm, GetRegistration, GetRace, GetPerson
<1>4. ASSUME NEW p \in Processes, pc[p] = "save", CanSave(p), UpdateRow(Target(p), cand[p])
      PROVE  regs' = regs \/ RegsWrite
  <2>1. Target(p) \in Requests
    BY DEF Target, Processes
  <2> QED BY <1>4, <2>1 DEF UpdateRow, RegsWrite, Stored
<1>5. ASSUME NEW p \in Processes, LoopStep(p) PROVE regs' = regs \/ RegsWrite
  <2>1. CASE SaveConfirmation(p)
    BY <1>4, <2>1 DEF SaveConfirmation, Sends
  <2> QED BY <1>5, <2>1 DEF LoopStep, LoadRegistration, ProposeDorsal, LoseDorsal, Notify
<1>6. ASSUME NEW p \in Processes, FaultStep(p) PROVE regs' = regs \/ RegsWrite
  <2>1. CASE ReplyLost(p)
    <3>1. pc[p] \in {"create", "undo"} => p \in Requests
      BY DEF TypeInv, LocalsOK, SeamLabels, LoopLabels, Processes
    <3> QED BY <1>4, <2>1, <3>1 DEF ReplyLost, WriteRow, DeleteRow, RegsWrite
  <2> QED BY <1>6, <2>1 DEF FaultStep, Cancel, StatementFails, Crash
<1> QED BY <1>1, <1>2, <1>3, <1>5, <1>6 DEF Next

(* No two runners of a race hold one dorsal, whatever faults strike and even
   if the payment seam confirms registrations as well. *)
THEOREM DorsalsDistinct == Spec => []NoSharedDorsal
<1>1. Init => NoSharedDorsal
  BY DEF Init, NoSharedDorsal, Stored
<1>2. TypeInv /\ NoSharedDorsal /\ [Next]_vars => NoSharedDorsal'
  <2> SUFFICES ASSUME TypeInv, NoSharedDorsal, [Next]_vars PROVE NoSharedDorsal'
    OBVIOUS
  <2> USE DEF NoSharedDorsal, Stored
  <2>1. CASE regs' = regs
    BY <2>1
  <2>2. CASE RegsWrite
    <3>0. regs \in [Requests -> RegRow \cup {NoReg}]
      BY DEF TypeInv, TypeOK
    <3>1. CASE \E q \in Requests : regs' = [regs EXCEPT ![q] = InsertedRow(q)]
      BY <3>0, <3>1 DEF InsertedRow
    <3>2. CASE \E q \in Requests : regs' = [regs EXCEPT ![q] = NoReg]
      BY <3>0, <3>2
    <3>3. ASSUME NEW p \in Processes, CanSave(p), Target(p) \in Stored,
                 regs' = [regs EXCEPT ![Target(p)].status = Confirmed,
                                      ![Target(p)].dorsal = cand[p]]
          PROVE  NoSharedDorsal'
      <4> DEFINE t == Target(p)
      <4>1. \A o \in Stored : o # t /\ regs[o].race = regs[t].race /\ regs[o].dorsal > 0
                               => regs[o].dorsal # cand[p]
        BY <3>3 DEF CanSave, DorsalTaken, Holders
      <4>2. \A o \in Stored : regs[o] \in RegRow
        BY <3>0
      <4>3. \A o \in Requests : o # t => regs'[o] = regs[o]
        BY <3>0, <3>3
      <4>4. regs'[t].race = regs[t].race /\ regs'[t].dorsal = cand[p]
        BY <3>0, <3>3, <4>2 DEF RegRow
      <4> HIDE DEF t
      <4>5. t \in Stored
        BY <3>3 DEF t
      <4> SUFFICES ASSUME NEW q \in Requests, NEW o \in Requests,
                          regs'[q] # NoReg, regs'[o] # NoReg, q # o,
                          regs'[q].race = regs'[o].race, regs'[q].dorsal > 0
                   PROVE  regs'[q].dorsal # regs'[o].dorsal
        OBVIOUS
      <4>6. CASE q = t
        BY <4>1, <4>3, <4>4, <4>5, <4>6
      <4>7. CASE o = t
        BY <4>1, <4>3, <4>4, <4>5, <4>7
      <4> QED BY <4>3, <4>6, <4>7
    <3> QED BY <2>2, <3>1, <3>2, <3>3 DEF RegsWrite
  <2> QED BY <2>1, <2>2, RegsStep DEF vars
<1> QED BY <1>1, <1>2, TypeInit, TypeInvariant, PTL DEF Spec

-----------------------------------------------------------------------------
(* What a request knows of its own row while nothing calls the payment seam:
   no row before create, a pending one inside the loop, and the dorsal it was
   told once it was told one.  With lost replies the row of a call that is
   about to undo may be confirmed already, so nothing is said of it here. *)
BeforeCreate == {"idle", "findRace", "upsert", "reload", "create"}

RowInv ==
  /\ \A q \in Requests : pc[q] \in BeforeCreate => regs[q] = NoReg
  /\ \A q \in Requests :
       pc[q] \in LoopLabels =>
         /\ q \in Stored
         /\ regs[q].status = Pending /\ regs[q].dorsal = 0
         /\ regs[q].race = raceId[q]
  /\ \A q \in Requests :
       pc[q] = "notify" \/ Told(q) =>
         /\ q \in Stored
         /\ regs[q].status = Confirmed /\ regs[q].dorsal = cand[q]
  /\ \A q \in Requests : Told(q) => pc[q] = "done"

LEMMA RowInvInit == Init => RowInv
  BY DEF Init, RowInv, Stored, Told, BeforeCreate, LoopLabels, Processes

LEMMA RowInvStep ==
  ASSUME ConfirmCalls = {}, TypeInv, RowInv, [Next]_vars
  PROVE  RowInv'
<1> USE ConstantsAssumption
    DEF RowInv, TypeInv, TypeOK, Stored, Told, BeforeCreate, LoopLabels, tables, local,
        Processes, Target, Sends, Goto, Return, ConfirmFails
<1>1. CASE UNCHANGED vars
  BY <1>1 DEF vars
<1>2. ASSUME NEW s \in Slugs, Webhook(s) PROVE RowInv'
  BY <1>2 DEF Webhook, SyncRace, RemoveRace
<1>3. ASSUME NEW q \in Requests, RegisterStep(q) PROVE RowInv'
  <2>1. CASE Receive(q)
    BY <2>1 DEF Receive
  <2>2. CASE FindRace(q)
    BY <2>2 DEF FindRace, Accepted
  <2>3. CASE UpsertParticipant(q)
    BY <2>3 DEF UpsertParticipant
  <2>4. CASE ReloadParticipant(q)
    BY <2>4 DEF ReloadParticipant
  <2>5. CASE CreateRegistration(q)
    <3>1. InsertedRow(q) # NoReg
      BY <2>5 DEF CreateRegistration, InsertedRow, RegRow, LocalsOK, AfterLookup, Form
    <3>2. CASE WriteRow(q) /\ Goto(q, "load") /\ UNCHANGED answer
      BY <2>5, <3>1, <3>2 DEF CreateRegistration, WriteRow, InsertedRow
    <3>3. CASE UNCHANGED regs /\ \E a \in Answers \ {"confirmed"} : Return(q, a)
      BY <2>5, <3>3 DEF CreateRegistration
    <3> QED BY <2>5, <3>2, <3>3 DEF CreateRegistration, Answers
  <2>6. CASE UndoCreate(q)
    BY <2>6 DEF UndoCreate, DeleteRow
  <2> QED BY <1>3, <2>1, <2>2, <2>3, <2>4, <2>5, <2>6 DEF RegisterStep
<1>4. ASSUME NEW q \in Requests, LoopStep(q) PROVE RowInv'
  <2>1. CASE LoadRegistration(q)
    <3>1. q \in Stored
      BY <2>1 DEF LoadRegistration
    <3>2. Goto(q, "next") /\ UNCHANGED <<regs, answer, cand, raceId, mailed>>
      BY <2>1, <3>1 DEF LoadRegistration
    <3> QED BY <2>1, <3>2 DEF LoadRegistration
  <2>2. CASE ProposeDorsal(q)
    <3>1. pc[q] = "next" /\ ~Told(q) /\ UNCHANGED <<regs, raceId, mailed>>
      BY <2>2 DEF ProposeDorsal
    <3>2. \E l \in {"save", "undo"} : pc' = [pc EXCEPT ![q] = l]
      BY <2>2 DEF ProposeDorsal
    <3>3. \/ answer' = answer
          \/ \E a \in Answers \ {"confirmed"} : answer' = [answer EXCEPT ![q] = a]
      BY <2>2 DEF ProposeDorsal, Refusal, Answers
    <3>4. \E d \in 1..(MaxCapacity + 1) : cand' = [cand EXCEPT ![q] = d]
      BY <2>2 DEF ProposeDorsal
    <3> QED BY ONLY RowInv, TypeOK, q \in Requests, ConfirmCalls = {},
               <3>1, <3>2, <3>3, <3>4
            DEF RowInv, TypeOK, Processes, Stored, Told, BeforeCreate, LoopLabels
  <2>3. CASE SaveConfirmation(q)
    <3>1. regs[q] \in RegRow /\ cand[q] \in 0..MaxCapacity
      BY <2>3 DEF SaveConfirmation, LocalsOK
    <3> DEFINE row == [regs[q] EXCEPT !.status = Confirmed, !.dorsal = cand[q]]
    <3>2. row \in RegRow /\ row.status = Confirmed /\ row.dorsal = cand[q]
      BY <3>1 DEF RegRow
    <3>3. regs' = [regs EXCEPT ![q] = row]
      BY <2>3, <3>1 DEF SaveConfirmation, UpdateRow
    <3> HIDE DEF row
    <3> QED BY <2>3, <3>2, <3>3 DEF SaveConfirmation
  <2>4. CASE LoseDorsal(q)
    BY <2>4 DEF LoseDorsal
  <2>5. CASE Notify(q)
    BY <2>5 DEF Notify
  <2> QED BY <1>4, <2>1, <2>2, <2>3, <2>4, <2>5 DEF LoopStep
<1>5. ASSUME NEW q \in Requests, FaultStep(q) PROVE RowInv'
  <2>1. CASE Cancel(q)
    BY <2>1 DEF Cancel
  <2>2. CASE StatementFails(q)
    BY <2>2, SMTT(60) DEF StatementFails, OnError
  <2>3. CASE ReplyLost(q)
    <3>1. pc[q] \notin {"notify", "done"} /\ ~Told(q)
      BY <2>3 DEF ReplyLost, OnError
    <3>2. \E l \in {"done", "undo"} : pc' = [pc EXCEPT ![q] = l]
      BY <2>3 DEF ReplyLost, OnError
    <3>3. \E a \in Answers \ {"confirmed"} : answer' = [answer EXCEPT ![q] = a]
      BY <2>3, <3>1 DEF ReplyLost, OnError, Answers
    <3>4. \A o \in Requests \ {q} : regs'[o] = regs[o]
      BY <2>3 DEF ReplyLost, WriteRow, UpdateRow, DeleteRow
    <3>5. UNCHANGED <<cand, raceId, mailed>>
      BY <2>3 DEF ReplyLost
    <3> QED BY ONLY RowInv, TypeOK, q \in Requests, ConfirmCalls = {},
               <3>1, <3>2, <3>3, <3>4, <3>5
            DEF RowInv, TypeOK, Processes, Stored, Told, BeforeCreate, LoopLabels
  <2>4. CASE Crash(q)
    BY <2>4 DEF Crash
  <2> QED BY <1>5, <2>1, <2>2, <2>3, <2>4 DEF FaultStep
<1> QED BY <1>1, <1>2, <1>3, <1>4, <1>5 DEF Next

(* The dorsal a runner was told stays that runner's, under every fault: also
   when replies are lost, requests are cancelled and servers end mid-call. *)
THEOREM ToldIsKept ==
  ASSUME ConfirmCalls = {}
  PROVE  Spec => []ToldDorsalStands
<1>1. RowInv => ToldDorsalStands
  BY DEF RowInv, ToldDorsalStands, Processes, Target
<1> QED BY <1>1, TypeInit, TypeInvariant, RowInvInit, RowInvStep, PTL DEF Spec

-----------------------------------------------------------------------------
(* Without lost replies a call that undoes its create undoes a pending row,
   and a dorsal about to be saved follows one that is held already. *)
UndoPending ==
  \A q \in Requests :
    pc[q] = "undo" =>
      q \in Stored /\ regs[q].status = Pending /\ regs[q].dorsal = 0

CandFollows ==
  \A q \in Requests :
    pc[q] = "save" =>
      cand[q] = 1 \/ \E o \in Holders(raceId[q]) : regs[o].dorsal = cand[q] - 1

(* What the rest of this section assumes and keeps. *)
QuietInv == TypeInv /\ RowInv /\ UndoPending /\ CandFollows /\ GapFree

LEMMA QuietInit == Init => UndoPending /\ CandFollows /\ GapFree
  BY DEF Init, UndoPending, CandFollows, GapFree, Holders, Stored, Processes

LEMMA ConfirmedKept ==
  ASSUME ConfirmCalls = {}, TypeInv, RowInv, UndoPending, [Next]_vars,
         NEW o \in Stored, regs[o].status = Confirmed \/ regs[o].dorsal > 0
  PROVE  regs'[o] = regs[o]
<1>1. CASE regs' = regs
  BY <1>1
<1>2. CASE RegsWrite
  <2>1. regs \in [Requests -> RegRow \cup {NoReg}] /\ o \in Requests
    BY DEF TypeInv, TypeOK, Stored
  <2>2. \A q \in Requests : pc[q] \in {"create", "undo", "save"} => q # o
    BY DEF RowInv, UndoPending, BeforeCreate, LoopLabels, Stored, Pending, Confirmed
  <2>3. CASE \E q \in Requests :
               pc[q] = "create" /\ regs' = [regs EXCEPT ![q] = InsertedRow(q)]
    BY <2>1, <2>2, <2>3
  <2>4. CASE \E q \in Requests :
               pc[q] = "undo" /\ regs' = [regs EXCEPT ![q] = NoReg]
    BY <2>1, <2>2, <2>4
  <2>5. CASE \E p \in Processes :
               /\ pc[p] = "save"
               /\ regs' = [regs EXCEPT ![Target(p)].status = Confirmed,
                                       ![Target(p)].dorsal = cand[p]]
    <3>1. \A p \in Processes : Target(p) = p /\ p \in Requests
      BY DEF Processes, Target
    <3> QED BY <2>1, <2>2, <2>5, <3>1
  <2> QED BY <1>2, <2>3, <2>4, <2>5 DEF RegsWrite
<1> QED BY <1>1, <1>2, RegsStep DEF vars

LEMMA UndoPendingStep ==
  ASSUME ConfirmCalls = {}, "lostReply" \notin Faults, TypeInv, RowInv, UndoPending,
         [Next]_vars
  PROVE  UndoPending'
<1> USE DEF UndoPending, RowInv, TypeInv, TypeOK, Stored, LoopLabels, tables, local,
            Processes, Sends, Goto, Return, ConfirmFails
<1>1. CASE UNCHANGED vars
  BY <1>1 DEF vars
<1>2. ASSUME NEW s \in Slugs, Webhook(s) PROVE UndoPending'
  BY <1>2 DEF Webhook, SyncRace, RemoveRace
<1>3. ASSUME NEW q \in Requests, RegisterStep(q) PROVE UndoPending'
  <2>1. pc'[q] # "undo" /\ \A o \in Requests \ {q} : pc'[o] = pc[o] /\ regs'[o] = regs[o]
    BY <1>3 DEF RegisterStep, Receive, FindRace, UpsertParticipant, ReloadParticipant,
                CreateRegistration, UndoCreate, WriteRow, DeleteRow
  <2> QED BY <2>1
<1>4. ASSUME NEW q \in Requests, LoopStep(q) PROVE UndoPending'
  <2>1. CASE SaveConfirmation(q)
    <3>1. pc'[q] # "undo" /\ \A o \in Requests \ {q} : pc'[o] = pc[o] /\ regs'[o] = regs[o]
      BY <2>1 DEF SaveConfirmation, UpdateRow, Target
    <3> QED BY <3>1
  <2>2. CASE ~SaveConfirmation(q)
    <3>1. UNCHANGED regs /\ \A o \in Requests \ {q} : pc'[o] = pc[o]
      BY <1>4, <2>2
      DEF LoopStep, LoadRegistration, ProposeDorsal, LoseDorsal, Notify
    <3>2. pc'[q] = "undo" => pc[q] \in LoopLabels
      BY <1>4, <2>2
      DEF LoopStep, LoadRegistration, ProposeDorsal, LoseDorsal, Notify
    <3> QED BY <3>1, <3>2
  <2> QED BY <2>1, <2>2
<1>5. ASSUME NEW q \in Requests, FaultStep(q) PROVE UndoPending'
  <2>1. UNCHANGED regs /\ \A o \in Requests \ {q} : pc'[o] = pc[o]
    BY <1>5 DEF FaultStep, Cancel, StatementFails, OnError, ReplyLost, Crash
  <2>2. pc'[q] = "undo" => pc[q] \in LoopLabels \cup {"undo"}
    BY <1>5 DEF FaultStep, Cancel, StatementFails, OnError, ReplyLost, Crash
  <2> QED BY <2>1, <2>2
<1> QED BY <1>1, <1>2, <1>3, <1>4, <1>5 DEF Next

LEMMA HoldersKept ==
  ASSUME ConfirmCalls = {}, TypeInv, RowInv, UndoPending, [Next]_vars,
         NEW r, NEW o \in Holders(r)
  PROVE  o \in Holders(r)' /\ regs'[o] = regs[o]
<1>1. regs'[o] = regs[o]
  BY ConfirmedKept DEF Holders
<1> QED BY <1>1 DEF Holders, Stored

LEMMA CandFollowsStep ==
  ASSUME ConfirmCalls = {}, "lostReply" \notin Faults, QuietInv, [Next]_vars
  PROVE  CandFollows'
<1> USE DEF QuietInv, TypeInv, TypeOK, Processes
<1> SUFFICES ASSUME NEW q \in Requests, pc'[q] = "save",
                    NEW r, raceId'[q] = r
             PROVE  \/ cand'[q] = 1
                    \/ \E o \in Holders(r)' : regs'[o].dorsal = cand'[q] - 1
  BY DEF CandFollows, Holders, Stored
<1>1. CASE ProposeDorsal(q)
  <2>1. PICK d \in 1..(MaxCapacity + 1) :
          IsNextDorsal(raceId[q], d) /\ cand' = [cand EXCEPT ![q] = d] /\ raceId' = raceId
    BY <1>1 DEF ProposeDorsal
  <2>2. d = 1 \/ \E o \in Holders(r) : regs[o].dorsal = d - 1
    BY <2>1 DEF IsNextDorsal
  <2>3. cand'[q] = d
    BY <2>1
  <2> QED BY <2>2, <2>3, HoldersKept
<1>2. CASE ~ProposeDorsal(q)
  <2>1. pc[q] = "save" /\ cand'[q] = cand[q] /\ raceId'[q] = raceId[q]
    <3> USE DEF Sends, Goto, Return, ConfirmFails, tables, local
    <3> DEFINE kept == pc[q] = "save" /\ cand'[q] = cand[q] /\ raceId'[q] = raceId[q]
    <3>1. CASE UNCHANGED vars
      BY <3>1 DEF vars
    <3>2. ASSUME NEW s \in Slugs, Webhook(s) PROVE kept
      BY <3>2 DEF Webhook, SyncRace, RemoveRace
    <3>3. ASSUME NEW o \in Requests, RegisterStep(o) PROVE kept
      BY <3>3 DEF RegisterStep, Receive, FindRace, UpsertParticipant,
                  ReloadParticipant, CreateRegistration, UndoCreate
    <3>4. ASSUME NEW o \in Requests, LoopStep(o) PROVE kept
      BY <1>2, <3>4 DEF LoopStep, LoadRegistration, ProposeDorsal, SaveConfirmation,
                        LoseDorsal, Notify
    <3>5. ASSUME NEW o \in Requests, FaultStep(o) PROVE kept
      BY <3>5 DEF FaultStep, Cancel, StatementFails, ReplyLost, OnError, Crash
    <3> QED BY <3>1, <3>2, <3>3, <3>4, <3>5 DEF Next
  <2>2. cand[q] = 1 \/ \E o \in Holders(r) : regs[o].dorsal = cand[q] - 1
    BY <2>1 DEF CandFollows
  <2> QED BY <2>1, <2>2, HoldersKept
<1> QED BY <1>1, <1>2

LEMMA GapFreeStep ==
  ASSUME ConfirmCalls = {}, "lostReply" \notin Faults, QuietInv, [Next]_vars
  PROVE  GapFree'
<1> USE DEF QuietInv
<1> SUFFICES ASSUME NEW r \in RaceIds, NEW q \in Holders(r)',
                    NEW d \in 1..(regs'[q].dorsal - 1)
             PROVE  \E o \in Holders(r)' : regs'[o].dorsal = d
  BY DEF GapFree, Holders, Stored
<1>0. regs \in [Requests -> RegRow \cup {NoReg}] /\ cand \in [Requests -> 0..(MaxCapacity + 1)]
  BY DEF TypeInv, TypeOK, Processes
<1>1. CASE q \in Holders(r)
  <2>1. regs'[q] = regs[q]
    BY <1>1, HoldersKept
  <2>2. PICK o \in Holders(r) : regs[o].dorsal = d
    BY <1>1, <2>1 DEF GapFree
  <2> QED BY <2>2, HoldersKept
<1>2. CASE q \notin Holders(r)
  <2>1. /\ q \in Requests /\ pc[q] = "save" /\ q \in Stored
        /\ regs' = [regs EXCEPT ![q].status = Confirmed, ![q].dorsal = cand[q]]
    <3>1. q \in Requests /\ regs'[q] # NoReg /\ regs'[q].race = r /\ regs'[q].dorsal > 0
      BY DEF Holders, Stored
    <3>2. regs'[q] # regs[q]
      BY <1>2, <3>1 DEF Holders, Stored
    <3>3. RegsWrite
      BY <3>2, RegsStep DEF vars
    <3>4. \A o \in Requests : regs' # [regs EXCEPT ![o] = InsertedRow(o)]
      BY <1>0, <3>1, <3>2 DEF InsertedRow
    <3>5. \A o \in Requests : regs' # [regs EXCEPT ![o] = NoReg]
      BY <1>0, <3>1, <3>2
    <3> QED BY <1>0, <3>1, <3>2, <3>3, <3>4, <3>5 DEF RegsWrite, Processes, Target
  <2>2. regs[q] \in RegRow /\ raceId[q] = r /\ regs'[q].dorsal = cand[q]
    <3>1. regs[q] \in RegRow
      BY <1>0, <2>1 DEF Stored
    <3>2. regs[q].race = raceId[q]
      BY <2>1 DEF RowInv, LoopLabels
    <3>3. regs'[q].race = regs[q].race /\ regs'[q].dorsal = cand[q]
      BY <1>0, <2>1, <3>1 DEF RegRow
    <3> QED BY <3>1, <3>2, <3>3 DEF Holders
  <2>3. cand[q] # 1
    BY <2>1, <2>2
  <2>4. PICK o \in Holders(r) : regs[o].dorsal = cand[q] - 1
    BY <2>1, <2>2, <2>3 DEF CandFollows
  <2>5. CASE d = cand[q] - 1
    BY <2>4, <2>5, HoldersKept
  <2>6. CASE d # cand[q] - 1
    <3>1. d \in 1..(regs[o].dorsal - 1)
      BY <1>0, <2>1, <2>2, <2>4, <2>6
    <3>2. PICK h \in Holders(r) : regs[h].dorsal = d
      BY <3>1 DEF GapFree
    <3> QED BY <3>2, HoldersKept
  <2> QED BY <2>5, <2>6
<1> QED BY <1>1, <1>2

LEMMA QuietInvariant ==
  ASSUME ConfirmCalls = {}, "lostReply" \notin Faults
  PROVE  Spec => []QuietInv
<1>1. QuietInv /\ [Next]_vars => UndoPending' /\ CandFollows' /\ GapFree' /\ RowInv'
  BY UndoPendingStep, CandFollowsStep, GapFreeStep, RowInvStep DEF QuietInv
<1>2. Init => QuietInv
  BY TypeInit, RowInvInit, QuietInit DEF QuietInv
<1>3. QuietInv /\ TypeInv' /\ [Next]_vars => QuietInv'
  BY <1>1 DEF QuietInv
<1> QED BY <1>2, <1>3, TypeInvariant, PTL DEF Spec

(* The dorsals of a race are 1..n for any number of runners who compete for
   them, fail, are cancelled or are cut short: only a lost reply leaves a gap. *)
THEOREM NoGaps ==
  ASSUME ConfirmCalls = {}, "lostReply" \notin Faults
  PROVE  Spec => []GapFree
BY QuietInvariant, PTL DEF QuietInv

(* Without lost replies a confirmed row is never changed and never deleted:
   the compensating delete only ever meets pending rows. *)
THEOREM ConfirmedRowsKept ==
  ASSUME ConfirmCalls = {}, "lostReply" \notin Faults
  PROVE  Spec => ConfirmedIsForever
<1>1. QuietInv /\ [Next]_vars
        => [\A q \in Stored : regs[q].status = Confirmed => regs'[q] = regs[q]]_vars
  BY ConfirmedKept DEF QuietInv
<1> QED BY <1>1, QuietInvariant, PTL DEF Spec, ConfirmedIsForever

-----------------------------------------------------------------------------
(* A step of call p: the races stay as they are, every other call keeps its
   locals, and only the row p works on may be written. *)
StepOf(p) ==
  /\ UNCHANGED <<races, spent, peak>>
  /\ \A o \in Processes \ {p} :
       /\ pc'[o] = pc[o] /\ answer'[o] = answer[o] /\ raceId'[o] = raceId[o]
       /\ capacity'[o] = capacity[o] /\ loaded'[o] = loaded[o]
       /\ cand'[o] = cand[o] /\ lost'[o] = lost[o]
       /\ o \in mailed' <=> o \in mailed
       /\ o \in hit' <=> o \in hit
  /\ \A o \in Requests \ {p} : form'[o] = form[o]
  /\ \A o \in Requests \ {Target(p)} : regs'[o] = regs[o]
  /\ \A o \in Requests \ {p} : regs'[o] = NoReg <=> regs[o] = NoReg

(* Disjuncts of Next that belong to call p. *)
CallStep(p) ==
  \/ p \in Requests /\ RegisterStep(p)
  \/ p \in ConfirmCalls /\ SeamStep(p)
  \/ LoopStep(p)
  \/ FaultStep(p)

LEMMA StepOfOne ==
  ASSUME TypeInv, Next
  PROVE  \/ \E s \in Slugs : Webhook(s)
         \/ \E p \in Processes : StepOf(p) /\ CallStep(p)
<1> USE ConstantsAssumption
    DEF TypeInv, TypeOK, Processes, StepOf, Target, tables, local, Goto, Return,
        ConfirmFails, Sends
<1>1. ASSUME NEW q \in Requests, RegisterStep(q) PROVE StepOf(q)
  BY <1>1 DEF RegisterStep, Receive, FindRace, UpsertParticipant, ReloadParticipant,
              CreateRegistration, UndoCreate, WriteRow, DeleteRow
<1>2. ASSUME NEW p \in ConfirmCalls, SeamStep(p) PROVE StepOf(p)
  BY <1>2 DEF SeamStep, ReceiveConfirm, GetRegistration, GetRace, GetPerson
<1>0. ASSUME NEW p \in Processes, pc[p] = "save", UpdateRow(Target(p), cand[p])
      PROVE  \A o \in Requests :
               /\ o # Target(p) => regs'[o] = regs[o]
               /\ regs'[o] = NoReg <=> regs[o] = NoReg
  <2> DEFINE t == Target(p)
  <2> DEFINE row == [regs[t] EXCEPT !.status = Confirmed, !.dorsal = cand[p]]
  <2>1. t \in Requests /\ cand[p] \in 0..MaxCapacity
    BY <1>0 DEF LocalsOK
  <2>2. regs[t] # NoReg => row \in RegRow
    <3>1. regs[t] # NoReg => regs[t] \in RegRow
      BY <2>1
    <3> QED BY <2>1, <3>1 DEF RegRow
  <2>3. regs' = IF regs[t] = NoReg THEN regs ELSE [regs EXCEPT ![t] = row]
    BY <1>0, <2>1 DEF UpdateRow
  <2> HIDE DEF t, row
  <2>4. \A o \in Requests : /\ o # t => regs'[o] = regs[o]
                            /\ regs'[o] = NoReg <=> regs[o] = NoReg
    <3>1. CASE regs[t] = NoReg
      BY <2>3, <3>1
    <3>2. CASE regs[t] # NoReg
      BY <2>1, <2>2, <2>3, <3>2
    <3> QED BY <3>1, <3>2
  <2> QED BY <2>4 DEF t
<1>3. ASSUME NEW p \in Processes, LoopStep(p) PROVE StepOf(p)
  <2>1. CASE LoadRegistration(p)
    BY <2>1 DEF LoadRegistration
  <2>2. CASE ProposeDorsal(p)
    BY <2>2 DEF ProposeDorsal
  <2>3. CASE SaveConfirmation(p)
    BY <1>0, <2>3 DEF SaveConfirmation
  <2>4. CASE LoseDorsal(p)
    BY <2>4 DEF LoseDorsal
  <2>5. CASE Notify(p)
    BY <2>5 DEF Notify
  <2> QED BY <1>3, <2>1, <2>2, <2>3, <2>4, <2>5 DEF LoopStep
<1>4. ASSUME NEW p \in Processes, FaultStep(p) PROVE StepOf(p)
  <2>1. CASE ReplyLost(p)
    <3>1. pc[p] \in {"upsert", "create", "undo"} => p \in Requests
      BY DEF LocalsOK, SeamLabels, LoopLabels
    <3>2. CASE pc[p] = "save" /\ UpdateRow(Target(p), cand[p])
      BY <1>0, <2>1, <3>2 DEF ReplyLost, OnError
    <3> QED BY <2>1, <3>1, <3>2 DEF ReplyLost, OnError, WriteRow, DeleteRow
  <2>2. CASE StatementFails(p)
    BY <2>2 DEF StatementFails, OnError
  <2> QED BY <1>4, <2>1, <2>2 DEF FaultStep, Cancel, Crash
<1> QED BY <1>1, <1>2, <1>3, <1>4 DEF Next, CallStep

(* A row that is there after a step was there before and is unchanged, has just
   been inserted, or has just been confirmed. *)
LEMMA RowStep ==
  ASSUME TypeInv, Next, NEW t \in Requests, regs'[t] # NoReg
  PROVE  \/ regs'[t] = regs[t]
         \/ pc[t] = "create" /\ CanInsert(t) /\ regs'[t] = InsertedRow(t)
         \/ \E p \in Processes :
              /\ Target(p) = t /\ pc[p] = "save" /\ CanSave(p)
              /\ t \in Stored /\ regs[t] \in RegRow
              /\ regs'[t] = [regs[t] EXCEPT !.status = Confirmed, !.dorsal = cand[p]]
<1>1. regs \in [Requests -> RegRow \cup {NoReg}]
  BY DEF TypeInv, TypeOK
<1>2. CASE regs' = regs
  BY <1>2
<1>3. CASE \E q \in Requests :
             pc[q] = "create" /\ CanInsert(q) /\ regs' = [regs EXCEPT ![q] = InsertedRow(q)]
  BY <1>1, <1>3
<1>4. CASE \E q \in Requests : pc[q] = "undo" /\ regs' = [regs EXCEPT ![q] = NoReg]
  BY <1>1, <1>4
<1>5. ASSUME NEW p \in Processes, pc[p] = "save", CanSave(p), Target(p) \in Stored,
             regs' = [regs EXCEPT ![Target(p)].status = Confirmed,
                                  ![Target(p)].dorsal = cand[p]]
      PROVE  \/ regs'[t] = regs[t]
             \/ /\ Target(p) = t /\ t \in Stored /\ regs[t] \in RegRow
                /\ regs'[t] = [regs[t] EXCEPT !.status = Confirmed, !.dorsal = cand[p]]
  <2> DEFINE o == Target(p)
  <2>1. o \in Requests /\ o \in Stored /\ regs[o] \in RegRow
    BY <1>1, <1>5 DEF Stored
  <2>2. regs' = [regs EXCEPT ![o] = [regs[o] EXCEPT !.status = Confirmed, !.dorsal = cand[p]]]
    BY <1>1, <1>5, <2>1
  <2> HIDE DEF o
  <2>3. CASE o = t
    BY <1>1, <2>1, <2>2, <2>3 DEF o
  <2>4. CASE o # t
    BY <1>1, <2>1, <2>2, <2>4
  <2> QED BY <2>3, <2>4
<1> QED BY <1>2, <1>3, <1>4, <1>5, RegsStep DEF RegsWrite

LEMMA RowKeepsOwner ==
  ASSUME TypeInv, Next, NEW t \in Requests, regs'[t] # NoReg, pc[t] # "create"
  PROVE  t \in Stored /\ regs'[t].race = regs[t].race /\ regs'[t].email = regs[t].email
<1>1. ASSUME NEW p \in Processes, regs[t] \in RegRow,
             regs'[t] = [regs[t] EXCEPT !.status = Confirmed, !.dorsal = cand[p]]
      PROVE  regs'[t].race = regs[t].race /\ regs'[t].email = regs[t].email
  BY <1>1 DEF RegRow
<1> QED BY <1>1, RowStep DEF Stored

(* Calls that know which race their registration is for. *)
Identified == {"getRace", "getPerson"} \cup LoopLabels

RacesKnown ==
  \A s \in Slugs :
    races[s] # NoRace =>
      races[s].id \in spent /\ races[s].capacity <= peak[races[s].id]

SnapshotsKnown ==
  \A p \in Processes :
    /\ raceId[p] # NoRace => raceId[p] \in spent /\ capacity[p] <= peak[raceId[p]]
    /\ raceId[p] = NoRace => capacity[p] = 0
    /\ pc[p] \in {"idle", "getReg"} => raceId[p] = NoRace

RowsKnown ==
  /\ \A q \in Requests : pc[q] \in BeforeCreate => regs[q] = NoReg
  /\ \A q \in Stored :
       /\ regs[q].race \in spent
       /\ regs[q].status = Confirmed => regs[q].dorsal \in 1..peak[regs[q].race]

TargetsKnown ==
  \A p \in Processes :
    pc[p] \in Identified =>
      /\ pc[Target(p)] \notin BeforeCreate
      /\ Target(p) \in Stored => regs[Target(p)].race = raceId[p]

SnapshotInv == RacesKnown /\ SnapshotsKnown /\ RowsKnown /\ TargetsKnown

LEMMA SnapshotInit == Init => SnapshotInv
  BY ConstantsAssumption
  DEF Init, SnapshotInv, RacesKnown, SnapshotsKnown, RowsKnown, TargetsKnown, Stored,
      Identified, LoopLabels, BeforeCreate, Processes

LEMMA SnapshotWebhook ==
  ASSUME TypeInv, SnapshotInv, NEW s \in Slugs, Webhook(s)
  PROVE  SnapshotInv'
<1> USE ConstantsAssumption DEF TypeInv, TypeOK, local, RaceRow
<1>0. /\ UNCHANGED <<regs, pc, raceId, capacity>>
      /\ spent \subseteq spent'
      /\ \A r \in spent : peak[r] <= peak'[r] /\ peak'[r] \in Nat
  BY DEF Webhook, SyncRace, RemoveRace, InsertRace, RefreshRace, MaxOf
<1>1. RacesKnown'
  <2>1. CASE RemoveRace(s)
    BY <2>1 DEF RemoveRace, SnapshotInv, RacesKnown
  <2>2. CASE SyncRace(s)
    BY <2>2 DEF SyncRace, InsertRace, RefreshRace, MaxOf, SnapshotInv, RacesKnown
  <2> QED BY <2>1, <2>2 DEF Webhook
<1>2. SnapshotsKnown'
  BY <1>0 DEF SnapshotInv, SnapshotsKnown
<1>3. RowsKnown'
  BY <1>0 DEF SnapshotInv, RowsKnown, Stored, RegRow
<1>4. TargetsKnown'
  BY <1>0 DEF SnapshotInv, TargetsKnown, Stored
<1> QED BY <1>1, <1>2, <1>3, <1>4 DEF SnapshotInv

LEMMA SnapshotCall ==
  ASSUME TypeInv, SnapshotInv, Next, NEW p \in Processes, StepOf(p), CallStep(p)
  PROVE  SnapshotInv'
<1> USE ConstantsAssumption
    DEF TypeInv, TypeOK, SnapshotInv, Processes, tables, local, Goto, Return,
        ConfirmFails, Sends
<1>1. RacesKnown'
  BY DEF StepOf, RacesKnown
<1>2. SnapshotsKnown'
  <2>1. CASE UNCHANGED <<raceId, capacity>> /\ pc'[p] \notin {"idle", "getReg"}
    BY <2>1 DEF StepOf, SnapshotsKnown
  <2>2. CASE UNCHANGED <<raceId, capacity>> /\ pc[p] \in {"idle", "getReg"}
    BY <2>2 DEF StepOf, SnapshotsKnown
  <2>3. CASE p \in Requests /\ FindRace(p)
    BY <2>3 DEF FindRace, StepOf, SnapshotsKnown, RacesKnown, RaceRow, Form, LocalsOK, Accepted
  <2>4. CASE p \in ConfirmCalls /\ GetRegistration(p)
    BY <2>4 DEF GetRegistration, StepOf, SnapshotsKnown, RowsKnown, RegRow, Stored
  <2>5. CASE p \in ConfirmCalls /\ GetRace(p)
    BY <2>5 DEF GetRace, StepOf, SnapshotsKnown, RacesKnown, RaceRow
  <2>6. CASE p \in Requests /\ RegisterStep(p)
    BY <2>1, <2>2, <2>3, <2>6
    DEF RegisterStep, Receive, UpsertParticipant, ReloadParticipant, CreateRegistration,
        UndoCreate
  <2>7. CASE p \in ConfirmCalls /\ SeamStep(p)
    BY <2>1, <2>2, <2>4, <2>5, <2>7 DEF SeamStep, ReceiveConfirm, GetPerson
  <2>8. CASE LoopStep(p)
    BY <2>1, <2>8 DEF LoopStep, LoadRegistration, ProposeDorsal, SaveConfirmation,
                      LoseDorsal, Notify
  <2>9. CASE FaultStep(p)
    BY <2>1, <2>2, <2>9 DEF FaultStep, Cancel, StatementFails, OnError, ReplyLost, Crash
  <2> QED BY <2>6, <2>7, <2>8, <2>9 DEF CallStep
<1>3. ASSUME NEW q \in Requests, pc'[q] \in BeforeCreate
      PROVE  pc[q] \in BeforeCreate /\ regs'[q] = NoReg
  <2>1. CASE q # p
    BY <1>3, <2>1 DEF StepOf, RowsKnown
  <2>2. CASE q = p /\ RegisterStep(p)
    BY <1>3, <2>2
    DEF RowsKnown, RegisterStep, Receive, FindRace, UpsertParticipant, ReloadParticipant,
        CreateRegistration, UndoCreate, BeforeCreate
  <2>3. CASE q = p /\ LoopStep(p)
    BY <1>3, <2>3 DEF LoopStep, LoadRegistration, ProposeDorsal, SaveConfirmation,
                      LoseDorsal, Notify, BeforeCreate
  <2>4. CASE q = p /\ FaultStep(p)
    BY <1>3, <2>4 DEF RowsKnown, FaultStep, Cancel, StatementFails, OnError, ReplyLost, Crash,
                      BeforeCreate
  <2> QED BY <2>1, <2>2, <2>3, <2>4 DEF CallStep
<1>4. RowsKnown'
  <2> SUFFICES ASSUME NEW q \in Requests, regs'[q] # NoReg
               PROVE  /\ regs'[q].race \in spent
                      /\ regs'[q].status = Confirmed
                           => regs'[q].dorsal \in 1..peak[regs'[q].race]
    BY <1>3 DEF RowsKnown, Stored, StepOf
  <2>1. CASE regs'[q] = regs[q]
    BY <2>1 DEF RowsKnown, Stored
  <2>2. CASE pc[q] = "create" /\ regs'[q] = InsertedRow(q)
    BY <2>2 DEF InsertedRow, SnapshotsKnown, LocalsOK, AfterLookup, Pending, Confirmed
  <2>3. ASSUME NEW o \in Processes, Target(o) = q, pc[o] = "save", q \in Stored,
               regs[q] \in RegRow,
               regs'[q] = [regs[q] EXCEPT !.status = Confirmed, !.dorsal = cand[o]]
        PROVE  /\ regs'[q].race \in spent
               /\ regs'[q].dorsal \in 1..peak[regs'[q].race]
    <3>1. regs'[q].race = raceId[o] /\ regs'[q].dorsal = cand[o]
      BY <2>3 DEF TargetsKnown, Identified, LoopLabels, RegRow
    <3>2. raceId[o] \in RaceIds
      BY <2>3, <3>1 DEF RegRow
    <3>3. cand[o] \in 1..capacity[o] /\ capacity[o] <= peak[raceId[o]] /\ raceId[o] \in spent
      BY <2>3, <3>2 DEF LocalsOK, SnapshotsKnown
    <3> QED BY <3>1, <3>2, <3>3
  <2> QED BY <2>1, <2>2, <2>3, RowStep
<1>5. TargetsKnown'
  <2> SUFFICES ASSUME NEW o \in Processes, pc'[o] \in Identified
               PROVE  /\ pc'[Target(o)] \notin BeforeCreate
                      /\ Target(o) \in Stored' => regs'[Target(o)].race = raceId'[o]
    BY DEF TargetsKnown
  <2> DEFINE t == Target(o)
  <2>1. t \in Requests
    BY DEF Target, Processes
  <2>2. CASE pc[o] \in Identified /\ raceId'[o] = raceId[o]
    <3>1. pc[t] \notin BeforeCreate /\ (t \in Stored => regs[t].race = raceId[o])
      BY <2>2 DEF TargetsKnown
    <3>2. regs'[t] # NoReg => t \in Stored /\ regs'[t].race = regs[t].race
      BY <2>1, <3>1, RowKeepsOwner DEF BeforeCreate
    <3> QED BY <1>3, <2>1, <2>2, <3>1, <3>2 DEF Stored
  <2>3. CASE o = p /\ p \in Requests /\ CreateRegistration(p)
    BY <2>3 DEF CreateRegistration, WriteRow, InsertedRow, Target, BeforeCreate,
                Identified, LoopLabels, Stored
  <2>4. CASE o = p /\ p \in ConfirmCalls /\ GetRegistration(p)
    BY <2>1, <2>4 DEF GetRegistration, RowsKnown, Stored, Target, Identified, LoopLabels
  <2>5. ASSUME o = p, CallStep(p), ~(p \in Requests /\ CreateRegistration(p)),
               ~(p \in ConfirmCalls /\ GetRegistration(p))
        PROVE  pc[o] \in Identified /\ raceId'[o] = raceId[o]
    <3> USE DEF Identified, LoopLabels
    <3>1. CASE RegisterStep(p) /\ p \in Requests
      BY <2>5, <3>1 DEF RegisterStep, Receive, FindRace, UpsertParticipant,
                        ReloadParticipant, UndoCreate
    <3>2. CASE SeamStep(p) /\ p \in ConfirmCalls
      BY <2>5, <3>2 DEF SeamStep, ReceiveConfirm, GetRace, GetPerson
    <3>3. CASE LoopStep(p)
      BY <2>5, <3>3 DEF LoopStep, LoadRegistration, ProposeDorsal, SaveConfirmation,
                        LoseDorsal, Notify
    <3>4. CASE FaultStep(p)
      BY <2>5, <3>4 DEF FaultStep, Cancel, StatementFails, OnError, ReplyLost, Crash
    <3> QED BY <2>5, <3>1, <3>2, <3>3, <3>4 DEF CallStep
  <2>6. CASE o # p
    BY <2>2, <2>6 DEF StepOf
  <2> QED BY <2>2, <2>3, <2>4, <2>5, <2>6
<1> QED BY <1>1, <1>2, <1>4, <1>5

LEMMA SnapshotInvariant == Spec => []SnapshotInv
<1>1. TypeInv /\ SnapshotInv /\ [Next]_vars => SnapshotInv'
  <2>1. TypeInv /\ SnapshotInv /\ Next => SnapshotInv'
    BY StepOfOne, SnapshotWebhook, SnapshotCall
  <2>2. SnapshotInv /\ UNCHANGED vars => SnapshotInv'
    BY DEF vars, SnapshotInv, RacesKnown, SnapshotsKnown, RowsKnown, TargetsKnown, Stored
  <2> QED BY <2>1, <2>2
<1> QED BY <1>1, SnapshotInit, TypeInvariant, PTL DEF Spec

(* The rows of one race that hold a dorsal are counted by their dorsals. *)
LEMMA CountByDorsal ==
  ASSUME TypeInv, NoSharedDorsal, NEW r, NEW n \in Nat, NEW S \in SUBSET Holders(r),
         \A q \in S : regs[q].dorsal <= n
  PROVE  IsFiniteSet(S) /\ Cardinality(S) <= n
<1> DEFINE f == [q \in S |-> regs[q].dorsal]
<1>1. \A q \in S : regs[q].dorsal \in 1..n
  BY DEF TypeInv, TypeOK, Holders, Stored, RegRow
<1>2. f \in Injection(S, 1..n)
  BY <1>1 DEF Injection, IsInjective, NoSharedDorsal, Holders
<1>3. IsFiniteSet(1..n) /\ Cardinality(1..n) = n
  BY FS_Interval
<1> HIDE DEF f
<1> QED BY <1>2, <1>3, FS_Injection

(* A race never has more confirmed runners than the highest capacity the CMS
   gave it, for any number of calls, the payment seam and any fault: a dorsal
   is within the capacity of the snapshot it was decided on, and no two runners
   share one. *)
THEOREM CapacityHolds == Spec => []NeverOversold
<1>1. TypeInv /\ SnapshotInv /\ NoSharedDorsal => NeverOversold
  <2> SUFFICES ASSUME TypeInv, SnapshotInv, NoSharedDorsal, NEW r \in RaceIds
               PROVE  Cardinality(ConfirmedIn(r)) <= peak[r]
    BY DEF NeverOversold
  <2>1. peak[r] \in Nat
    BY DEF TypeInv, TypeOK
  <2>2. \A q \in ConfirmedIn(r) : regs[q].dorsal \in 1..peak[r]
    BY DEF SnapshotInv, RowsKnown, ConfirmedIn
  <2>3. ConfirmedIn(r) \in SUBSET Holders(r)
    BY <2>2 DEF ConfirmedIn, Holders
  <2> QED BY <2>1, <2>2, <2>3, CountByDorsal
<1> QED BY <1>1, TypeInvariant, SnapshotInvariant, DorsalsDistinct, PTL

-----------------------------------------------------------------------------
(* A call inside the loop has its row, one about to notify has it confirmed,
   and only a call that returned told its caller. *)
OwnRowInv ==
  \A q \in Requests :
    /\ pc[q] \in LoopLabels \cup {"notify"} => q \in Stored
    /\ pc[q] = "notify" => regs[q].status = Confirmed
    /\ answer[q] = "confirmed" => pc[q] = "done"

LEMMA SettledStep ==
  ASSUME TypeInv, SnapshotInv, OwnRowInv, SettledUnlessHit, Next,
         NEW p \in Processes, StepOf(p), CallStep(p)
  PROVE  OwnRowInv' /\ SettledUnlessHit'
<1> USE ConstantsAssumption
    DEF TypeInv, TypeOK, Processes, tables, local, Goto, Return, ConfirmFails, Sends
<1> SUFFICES ASSUME NEW q \in Requests
             PROVE  /\ pc'[q] \in LoopLabels \cup {"notify"} => regs'[q] # NoReg
                    /\ pc'[q] = "notify" => regs'[q].status = Confirmed
                    /\ answer'[q] = "confirmed" => pc'[q] = "done"
                    /\ pc'[q] = "done" /\ q \notin hit' =>
                         IF answer'[q] = "confirmed"
                           THEN regs'[q] # NoReg /\ regs'[q].status = Confirmed
                           ELSE regs'[q] = NoReg
  BY DEF OwnRowInv, SettledUnlessHit, Stored
<1>1. CASE q # p
  <2>0. regs'[q] = NoReg <=> regs[q] = NoReg
    BY <1>1 DEF StepOf
  <2>1. regs[q] # NoReg /\ regs[q].status = Confirmed => regs'[q].status = Confirmed
    <3> SUFFICES ASSUME regs[q] # NoReg, regs[q].status = Confirmed
                 PROVE  regs'[q].status = Confirmed
      OBVIOUS
    <3>1. pc[q] # "create"
      BY DEF SnapshotInv, RowsKnown, BeforeCreate
    <3>2. CASE regs'[q] = regs[q]
      BY <3>2
    <3>3. ASSUME NEW o, regs[q] \in RegRow,
                 regs'[q] = [regs[q] EXCEPT !.status = Confirmed, !.dorsal = cand[o]]
          PROVE  regs'[q].status = Confirmed
      BY <3>3 DEF RegRow
    <3> QED BY <2>0, <3>1, <3>2, <3>3, RowStep
  <2>2. /\ pc'[q] = pc[q] /\ answer'[q] = answer[q] /\ (q \in hit' <=> q \in hit)
    BY <1>1 DEF StepOf
  <2> QED BY <2>0, <2>1, <2>2 DEF OwnRowInv, SettledUnlessHit, Stored
<1>2. CASE q = p /\ RegisterStep(p)
  <2>1. CASE CreateRegistration(p)
    <3>1. CanInsert(p) /\ WriteRow(p) => regs'[p] # NoReg
      BY <1>2, <2>1 DEF CreateRegistration, WriteRow, InsertedRow, LocalsOK, AfterLookup,
                        Form, RegRow
    <3>2. regs[p] = NoReg
      BY <1>2, <2>1 DEF CreateRegistration, SnapshotInv, RowsKnown, BeforeCreate
    <3> QED BY <1>2, <2>1, <3>1, <3>2 DEF CreateRegistration, OwnRowInv, LoopLabels
  <2>2. CASE UndoCreate(p)
    BY <1>2, <2>2 DEF UndoCreate, DeleteRow, OwnRowInv, LoopLabels
  <2> QED BY <1>2, <2>1, <2>2
          DEF RegisterStep, Receive, FindRace, UpsertParticipant, ReloadParticipant,
              OwnRowInv, LoopLabels, SnapshotInv, RowsKnown, BeforeCreate
<1>3. CASE q = p /\ LoopStep(p)
  <2>1. CASE LoadRegistration(p)
    BY <1>3, <2>1 DEF LoadRegistration, OwnRowInv, LoopLabels, Stored
  <2>2. CASE ProposeDorsal(p)
    BY <1>3, <2>2 DEF ProposeDorsal, OwnRowInv, LoopLabels, Stored, Refusal
  <2>3. CASE SaveConfirmation(p)
    <3>1. regs[p] \in RegRow
      BY <1>3, <2>3 DEF SaveConfirmation, OwnRowInv, LoopLabels, Stored
    <3>2. regs' = [regs EXCEPT ![p] = [regs[p] EXCEPT !.status = Confirmed, !.dorsal = cand[p]]]
      BY <1>3, <2>3, <3>1 DEF SaveConfirmation, UpdateRow, Target
    <3>3. [regs[p] EXCEPT !.status = Confirmed, !.dorsal = cand[p]] \in RegRow
      <4>1. cand[p] \in 0..MaxCapacity
        BY <1>3, <2>3 DEF LocalsOK, SaveConfirmation
      <4> QED BY <3>1, <4>1 DEF RegRow
    <3>4. regs'[p].status = Confirmed /\ regs'[p] # NoReg
      BY <1>3, <3>1, <3>2, <3>3 DEF RegRow
    <3> QED BY <1>3, <2>3, <3>4 DEF SaveConfirmation, OwnRowInv
  <2>4. CASE LoseDorsal(p)
    BY <1>3, <2>4 DEF LoseDorsal, OwnRowInv, LoopLabels, Stored
  <2>5. CASE Notify(p)
    BY <1>3, <2>5 DEF Notify, OwnRowInv, LoopLabels, Stored
  <2> QED BY <1>3, <2>1, <2>2, <2>3, <2>4, <2>5 DEF LoopStep
<1>4. CASE q = p /\ FaultStep(p)
  BY <1>4 DEF FaultStep, Cancel, StatementFails, OnError, ReplyLost, Crash, OwnRowInv,
              LoopLabels, SettledUnlessHit, Stored
<1> QED BY <1>1, <1>2, <1>3, <1>4 DEF CallStep

LEMMA SettledInvariant == Spec => [](OwnRowInv /\ SettledUnlessHit)
<1>1. Init => OwnRowInv /\ SettledUnlessHit
  BY DEF Init, OwnRowInv, SettledUnlessHit, Processes, LoopLabels
<1>2. ASSUME NEW s \in Slugs, Webhook(s), OwnRowInv, SettledUnlessHit
      PROVE  OwnRowInv' /\ SettledUnlessHit'
  BY <1>2 DEF Webhook, SyncRace, RemoveRace, OwnRowInv, SettledUnlessHit, Stored, local
<1>3. TypeInv /\ SnapshotInv /\ OwnRowInv /\ SettledUnlessHit /\ [Next]_vars
        => OwnRowInv' /\ SettledUnlessHit'
  <2>1. OwnRowInv /\ SettledUnlessHit /\ UNCHANGED vars => OwnRowInv' /\ SettledUnlessHit'
    BY DEF vars, OwnRowInv, SettledUnlessHit, Stored
  <2>2. TypeInv /\ SnapshotInv /\ OwnRowInv /\ SettledUnlessHit /\ Next
          => OwnRowInv' /\ SettledUnlessHit'
    BY <1>2, StepOfOne, SettledStep
  <2> QED BY <2>1, <2>2
<1> QED BY <1>1, <1>3, TypeInvariant, SnapshotInvariant, PTL DEF Spec

(* A request that no fault struck leaves a confirmed registration and says so,
   or leaves nothing: whatever the other calls do, the payment seam's too, and
   whatever faults strike those. *)
THEOREM AllOrNothing == Spec => []SettledUnlessHit
BY SettledInvariant, PTL

-----------------------------------------------------------------------------
(* Why requests are turned away, while nothing calls the payment seam. *)
Undoing == {"undo", "done", "crashed"}

ReasonsInv ==
  /\ \A q \in Stored : regs[q].email = form[q].email /\ regs[q].race = raceId[q]
  /\ \A q \in Requests :
       /\ pc[q] = "idle" => form[q] = NoForm
       /\ pc[q] \in {"idle", "findRace"} => raceId[q] = NoRace
       /\ pc[q] = "next" => loaded[q] = Pending
       /\ pc[q] = "undo" => answer[q] = "full" \/ q \in hit
       /\ answer[q] = "full" => pc[q] \in Undoing
       /\ answer[q] = "alreadyRegistered" => pc[q] = "done" /\ raceId[q] # NoRace

LEMMA ReasonsStep ==
  ASSUME ConfirmCalls = {}, TypeInv, RowInv, ReasonsInv, Next,
         NEW p \in Requests, StepOf(p), CallStep(p)
  PROVE  ReasonsInv'
<1> USE ConstantsAssumption
    DEF TypeInv, TypeOK, Processes, tables, local, Goto, Return, ConfirmFails, Sends, Target
<1>1. ASSUME NEW q \in Requests, regs'[q] # NoReg
      PROVE  regs'[q].email = form'[q].email /\ regs'[q].race = raceId'[q]
  <2>1. CASE pc[q] # "create"
    <3>1. q \in Stored /\ regs'[q].race = regs[q].race /\ regs'[q].email = regs[q].email
      BY <1>1, <2>1, RowKeepsOwner
    <3>2. pc[q] \notin {"idle", "findRace"}
      BY <3>1 DEF RowInv, BeforeCreate, Stored
    <3>3. form'[q] = form[q] /\ raceId'[q] = raceId[q]
      <4>1. CASE q # p
        BY <4>1 DEF StepOf
      <4>2. CASE q = p
        BY <3>2, <4>2
        DEF CallStep, RegisterStep, Receive, FindRace, UpsertParticipant, ReloadParticipant,
            CreateRegistration, UndoCreate, LoopStep, LoadRegistration, ProposeDorsal,
            SaveConfirmation, LoseDorsal, Notify, FaultStep, Cancel, StatementFails,
            ReplyLost, Crash
      <4> QED BY <4>1, <4>2
    <3> QED BY <3>1, <3>3 DEF ReasonsInv
  <2>2. CASE pc[q] = "create"
    <3>1. regs[q] = NoReg
      BY <2>2 DEF RowInv, BeforeCreate
    <3>2. q = p /\ regs'[q] = InsertedRow(q)
      BY <1>1, <2>2, <3>1, RowStep DEF StepOf, Stored
    <3>3. form'[q] = form[q] /\ raceId'[q] = raceId[q]
      BY <2>2, <3>2
        DEF CallStep, RegisterStep, Receive, FindRace, UpsertParticipant, ReloadParticipant,
            CreateRegistration, UndoCreate, LoopStep, LoadRegistration, ProposeDorsal,
            SaveConfirmation, LoseDorsal, Notify, FaultStep, Cancel, StatementFails,
            ReplyLost, Crash
    <3> QED BY <3>2, <3>3 DEF InsertedRow
  <2> QED BY <2>1, <2>2
<1> DEFINE Locals(q) ==
       /\ pc'[q] = "idle" => form'[q] = NoForm
       /\ pc'[q] \in {"idle", "findRace"} => raceId'[q] = NoRace
       /\ pc'[q] = "next" => loaded'[q] = Pending
       /\ pc'[q] = "undo" => answer'[q] = "full" \/ q \in hit'
       /\ answer'[q] = "full" => pc'[q] \in Undoing
       /\ answer'[q] = "alreadyRegistered" => pc'[q] = "done" /\ raceId'[q] # NoRace
<1>2. ASSUME NEW q \in Requests, q # p PROVE Locals(q)
  BY <1>2 DEF StepOf, ReasonsInv
<1>3. ASSUME RegisterStep(p) PROVE Locals(p)
  <2> USE DEF ReasonsInv, Undoing
  <2>1. CASE FindRace(p)
    BY <2>1 DEF FindRace, Accepted, RaceRow, Form, LocalsOK
  <2>2. CASE CreateRegistration(p)
    BY <2>2 DEF CreateRegistration, LocalsOK, AfterLookup
  <2> QED BY <1>3, <2>1, <2>2
          DEF RegisterStep, Receive, UpsertParticipant, ReloadParticipant, UndoCreate
<1>4. ASSUME LoopStep(p) PROVE Locals(p)
  <2> USE DEF ReasonsInv, Undoing
  <2>1. CASE LoadRegistration(p)
    BY <2>1 DEF LoadRegistration, RowInv, LoopLabels, Stored
  <2>2. CASE ProposeDorsal(p)
    <3>1. pc[p] = "next" /\ loaded[p] # Confirmed /\ UNCHANGED <<form, raceId, loaded, hit>>
      BY <2>2 DEF ProposeDorsal, Pending, Confirmed
    <3>2. \/ pc' = [pc EXCEPT ![p] = "save"] /\ UNCHANGED answer
          \/ /\ pc' = [pc EXCEPT ![p] = "undo"]
             /\ answer' = [answer EXCEPT ![p] = "full"]
      BY <2>2, <3>1 DEF ProposeDorsal, Refusal
    <3>3. CASE pc' = [pc EXCEPT ![p] = "save"] /\ UNCHANGED answer
      BY <3>1, <3>3
    <3>4. CASE pc' = [pc EXCEPT ![p] = "undo"] /\ answer' = [answer EXCEPT ![p] = "full"]
      BY <3>4
    <3> QED BY <3>2, <3>3, <3>4
  <2>3. CASE SaveConfirmation(p)
    BY <2>3 DEF SaveConfirmation
  <2>4. CASE LoseDorsal(p)
    BY <2>4 DEF LoseDorsal
  <2>5. CASE Notify(p)
    BY <2>5 DEF Notify
  <2> QED BY <1>4, <2>1, <2>2, <2>3, <2>4, <2>5 DEF LoopStep
<1>5. ASSUME FaultStep(p) PROVE Locals(p)
  BY <1>5 DEF FaultStep, Cancel, StatementFails, OnError, ReplyLost, Crash, ReasonsInv, Undoing
<1> QED BY <1>1, <1>2, <1>3, <1>4, <1>5 DEF CallStep, ReasonsInv, Stored

(* Request o accounts for the rejection of another of its person and race. *)
Accounts(o) ==
  o \in Stored \/ answer[o] = "full" \/ o \in hit

LEMMA AccountsKept ==
  ASSUME ConfirmCalls = {}, TypeInv, RowInv, ReasonsInv, Next,
         NEW p \in Requests, StepOf(p), CallStep(p), NEW o \in Requests, Accounts(o)
  PROVE  Accounts(o)'
<1> USE ConstantsAssumption
    DEF TypeInv, TypeOK, Processes, tables, local, Goto, Return, ConfirmFails, Sends, Target,
        Accounts, Stored
<1>1. CASE o # p
  BY <1>1 DEF StepOf
<1>2. CASE o = p /\ o \in hit
  BY <1>2
  DEF CallStep, RegisterStep, Receive, FindRace, UpsertParticipant, ReloadParticipant,
      CreateRegistration, UndoCreate, LoopStep, LoadRegistration, ProposeDorsal,
      SaveConfirmation, LoseDorsal, Notify, FaultStep, Cancel, StatementFails, ReplyLost, Crash
<1>3. CASE o = p /\ FaultStep(p)
  BY <1>3 DEF FaultStep, Cancel, StatementFails, ReplyLost, Crash
<1>4. CASE o = p /\ answer[o] = "full" /\ ~FaultStep(p)
  <2>1. pc[p] \in Undoing
    BY <1>4 DEF ReasonsInv
  <2> QED BY <1>4, <2>1
      DEF Undoing, CallStep, RegisterStep, Receive, FindRace, UpsertParticipant,
          ReloadParticipant, CreateRegistration, UndoCreate, LoopStep, LoadRegistration,
          ProposeDorsal, SaveConfirmation, LoseDorsal, Notify
<1>5. CASE o = p /\ o \in Stored /\ UndoCreate(p)
  BY <1>5 DEF UndoCreate, ReasonsInv
<1>6. CASE o = p /\ o \in Stored /\ ~FaultStep(p) /\ ~UndoCreate(p)
  <2>1. CASE SaveConfirmation(p)
    <3>1. regs[p] \in RegRow /\ cand[p] \in 0..MaxCapacity
      BY <1>6, <2>1 DEF SaveConfirmation, LocalsOK
    <3>2. [regs[p] EXCEPT !.status = Confirmed, !.dorsal = cand[p]] \in RegRow
      BY <3>1 DEF RegRow
    <3>3. regs' = [regs EXCEPT ![p] = [regs[p] EXCEPT !.status = Confirmed, !.dorsal = cand[p]]]
      BY <1>6, <2>1, <3>1 DEF SaveConfirmation, UpdateRow
    <3> QED BY <1>6, <3>2, <3>3
  <2>2. CASE CreateRegistration(p)
    BY <1>6, <2>2 DEF CreateRegistration, RowInv, BeforeCreate
  <2> QED BY <1>6, <2>1, <2>2
      DEF CallStep, RegisterStep, Receive, FindRace, UpsertParticipant, ReloadParticipant,
          LoopStep, LoadRegistration, ProposeDorsal, LoseDorsal, Notify
<1> QED BY <1>2, <1>1, <1>3, <1>4, <1>5, <1>6

LEMMA RejectionStep ==
  ASSUME ConfirmCalls = {}, TypeInv, RowInv, ReasonsInv, RejectionIsExplained, Next,
         NEW p \in Requests, StepOf(p), CallStep(p)
  PROVE  RejectionIsExplained'
<1> USE ConstantsAssumption
    DEF TypeInv, TypeOK, Processes, tables, local, Goto, Return, ConfirmFails, Sends, Target
<1> SUFFICES ASSUME NEW q \in Requests, answer'[q] = "alreadyRegistered"
             PROVE  \E o \in Requests \ {q} :
                      /\ form'[o] # NoForm /\ form'[o].email = form'[q].email
                      /\ raceId'[o] = raceId'[q]
                      /\ Accounts(o)'
  BY DEF RejectionIsExplained, Accounts
<1>1. ASSUME NEW o \in Requests, pc[o] \notin {"idle", "findRace"}
      PROVE  form'[o] = form[o] /\ raceId'[o] = raceId[o]
  <2>1. CASE o # p
    BY <2>1 DEF StepOf
  <2> QED BY <1>1, <2>1
      DEF CallStep, RegisterStep, Receive, FindRace, UpsertParticipant, ReloadParticipant,
          CreateRegistration, UndoCreate, LoopStep, LoadRegistration, ProposeDorsal,
          SaveConfirmation, LoseDorsal, Notify, FaultStep, Cancel, StatementFails,
          ReplyLost, Crash
<1>2. CASE answer[q] = "alreadyRegistered"
  <2>1. PICK o \in Requests \ {q} :
          /\ form[o] # NoForm /\ form[o].email = form[q].email
          /\ raceId[o] = raceId[q]
          /\ Accounts(o)
    BY <1>2 DEF RejectionIsExplained, Accounts
  <2>2. pc[q] = "done" /\ raceId[q] # NoRace
    BY <1>2 DEF ReasonsInv
  <2>3. pc[o] \notin {"idle", "findRace"}
    BY <2>1, <2>2 DEF ReasonsInv
  <2>4. /\ form'[o] = form[o] /\ raceId'[o] = raceId[o]
        /\ form'[q] = form[q] /\ raceId'[q] = raceId[q]
    BY <1>1, <2>2, <2>3
  <2> QED BY <2>1, <2>4, AccountsKept
<1>3. CASE answer[q] # "alreadyRegistered"
  <2>1. q = p
    BY <1>3 DEF StepOf
  <2>2. pc[q] = "create" /\ DuplicateParticipant(q)
    <3>1. CASE RegisterStep(q)
      BY <1>3, <3>1 DEF RegisterStep, Receive, FindRace, UpsertParticipant,
                        ReloadParticipant, CreateRegistration, UndoCreate
    <3>2. CASE LoopStep(q)
      BY <1>3, <3>2 DEF LoopStep, LoadRegistration, ProposeDorsal, Refusal, SaveConfirmation,
                        LoseDorsal, Notify
    <3>3. CASE FaultStep(q)
      BY <1>3, <3>3 DEF FaultStep, Cancel, StatementFails, OnError, ReplyLost, Crash
    <3> QED BY <2>1, <3>1, <3>2, <3>3 DEF CallStep
  <2>3. PICK o \in Stored : regs[o].race = raceId[q] /\ regs[o].email = form[q].email
    BY <2>2 DEF DuplicateParticipant
  <2>4. o # q /\ o \in Requests /\ pc[o] \notin {"idle", "findRace"}
    BY <2>2, <2>3 DEF RowInv, BeforeCreate, Stored
  <2>5. form[o].email = form[q].email /\ raceId[o] = raceId[q] /\ form[o] # NoForm
    BY <2>3, <2>4 DEF ReasonsInv, LocalsOK
  <2>6. /\ form'[o] = form[o] /\ raceId'[o] = raceId[o]
        /\ form'[q] = form[q] /\ raceId'[q] = raceId[q]
    BY <1>1, <2>2, <2>4
  <2>7. Accounts(o)
    BY <2>3 DEF Accounts
  <2> QED BY <2>4, <2>5, <2>6, <2>7, AccountsKept
<1> QED BY <1>2, <1>3

LEMMA ReasonsInvariant ==
  ASSUME ConfirmCalls = {}
  PROVE  Spec => [](TypeInv /\ RowInv /\ ReasonsInv)
<1> DEFINE Inv == RowInv /\ ReasonsInv
<1>1. Init => Inv
  BY RowInvInit DEF Init, ReasonsInv, Stored, Processes
<1>2. TypeInv /\ Inv /\ [Next]_vars => Inv'
  <2> SUFFICES ASSUME TypeInv, Inv, [Next]_vars PROVE ReasonsInv'
    BY RowInvStep
  <2>1. CASE UNCHANGED vars
    BY <2>1 DEF vars, ReasonsInv, Stored
  <2>2. ASSUME NEW s \in Slugs, Webhook(s) PROVE ReasonsInv'
    BY <2>2 DEF Webhook, SyncRace, RemoveRace, ReasonsInv, Stored, local
  <2>3. CASE \E p \in Requests : Next /\ StepOf(p) /\ CallStep(p)
    BY <2>3, ReasonsStep
  <2> QED BY <2>1, <2>2, <2>3, StepOfOne DEF Processes
<1> QED BY <1>1, <1>2, TypeInvariant, PTL DEF Spec

(* "Already registered" is only said because of another request of the same
   person for the same race, whatever faults strike. *)
THEOREM RejectionsExplained ==
  ASSUME ConfirmCalls = {}
  PROVE  Spec => []RejectionIsExplained
<1>1. Init => RejectionIsExplained
  BY DEF Init, RejectionIsExplained, Processes
<1>2. TypeInv /\ RowInv /\ ReasonsInv /\ RejectionIsExplained /\ [Next]_vars
        => RejectionIsExplained'
  <2> SUFFICES ASSUME TypeInv, RowInv, ReasonsInv, RejectionIsExplained, [Next]_vars
               PROVE  RejectionIsExplained'
    OBVIOUS
  <2>1. CASE UNCHANGED vars
    BY <2>1 DEF vars, RejectionIsExplained, Stored
  <2>2. ASSUME NEW s \in Slugs, Webhook(s) PROVE RejectionIsExplained'
    BY <2>2 DEF Webhook, SyncRace, RemoveRace, RejectionIsExplained, Stored, local
  <2>3. CASE \E p \in Requests : Next /\ StepOf(p) /\ CallStep(p)
    BY <2>3, RejectionStep
  <2> QED BY <2>1, <2>2, <2>3, StepOfOne DEF Processes
<1> QED BY <1>1, <1>2, ReasonsInvariant, PTL DEF Spec

-----------------------------------------------------------------------------
(* "Race full", as long as no reply is lost: a request that lost n attempts has
   seen dorsal n held, for each attempt proposes a number above every held
   one; one that was refused saw the dorsal of its snapshot's capacity held. *)
HeldUpTo(r, n) == \E o \in Holders(r) : regs[o].dorsal >= n

LostOK(q) ==
  /\ pc[q] \in BeforeCreate => lost[q] = 0
  /\ pc[q] \in LoopLabels => lost[q] = 0 \/ HeldUpTo(raceId[q], lost[q])
  /\ pc[q] = "save" => cand[q] > lost[q]

FullOK(q) ==
  /\ raceId[q] # NoRace => capacity[q] >= 1
  /\ answer[q] = "full" =>
       /\ pc[q] \in Undoing
       /\ q \in Stored => regs[q].dorsal = 0
       /\ \/ HeldUpTo(raceId[q], capacity[q])
          \/ lost[q] = MaxAttempts /\ HeldUpTo(raceId[q], MaxAttempts)

HoldersConfirmed == \A q \in Stored : regs[q].dorsal > 0 => regs[q].status = Confirmed

FullInv == HoldersConfirmed /\ \A q \in Requests : LostOK(q) /\ FullOK(q)

LEMMA HeldKept ==
  ASSUME ConfirmCalls = {}, TypeInv, RowInv, UndoPending, [Next]_vars,
         NEW r, NEW n, HeldUpTo(r, n)
  PROVE  HeldUpTo(r, n)'
BY HoldersKept DEF HeldUpTo

LEMMA HoldersConfirmedStep ==
  ASSUME TypeInv, HoldersConfirmed, [Next]_vars
  PROVE  HoldersConfirmed'
<1> SUFFICES ASSUME NEW q \in Requests, regs'[q] # NoReg, regs'[q].dorsal > 0
             PROVE  regs'[q].status = Confirmed
  BY DEF HoldersConfirmed, Stored
<1>1. CASE regs'[q] = regs[q]
  BY <1>1 DEF HoldersConfirmed, Stored
<1>2. CASE regs'[q] = InsertedRow(q)
  BY <1>2 DEF InsertedRow
<1>3. ASSUME NEW d, regs[q] \in RegRow,
             regs'[q] = [regs[q] EXCEPT !.status = Confirmed, !.dorsal = d]
      PROVE  regs'[q].status = Confirmed
  BY <1>3 DEF RegRow
<1>4. CASE UNCHANGED vars
  BY <1>1, <1>4 DEF vars
<1> QED BY <1>1, <1>2, <1>3, <1>4, RowStep

LEMMA FullStep ==
  ASSUME ConfirmCalls = {}, "lostReply" \notin Faults, QuietInv, FullInv, Next,
         NEW p \in Requests, StepOf(p), CallStep(p)
  PROVE  FullInv'
<1> USE ConstantsAssumption
    DEF QuietInv, TypeInv, TypeOK, Processes, tables, local, Goto, Return, ConfirmFails,
        Sends, Target
<1>1. ASSUME NEW q \in Requests, raceId'[q] = raceId[q], lost'[q] = lost[q],
             \/ pc'[q] = pc[q] /\ cand'[q] = cand[q]
             \/ pc[q] \in LoopLabels /\ pc'[q] \in {"load", "next", "notify"} \cup Undoing
             \/ pc'[q] \in Undoing
      PROVE  LostOK(q)'
  <2>1. HeldUpTo(raceId[q], lost[q]) => HeldUpTo(raceId[q], lost[q])'
    <3> SUFFICES ASSUME NEW r, r = raceId[q], NEW n, n = lost[q], HeldUpTo(r, n)
                 PROVE  HeldUpTo(raceId[q], lost[q])'
      OBVIOUS
    <3>1. HeldUpTo(r, n)'
      BY HeldKept
    <3> QED BY <1>1, <3>1 DEF HeldUpTo, Holders, Stored
  <2> QED BY <1>1, <2>1 DEF LostOK, FullInv, BeforeCreate, LoopLabels, Undoing
<1>2. ASSUME NEW q \in Requests, raceId'[q] = raceId[q], capacity'[q] = capacity[q],
             lost'[q] = lost[q] \/ pc[q] \notin Undoing,
             answer'[q] \in {answer[q]} \cup (Answers \ {"full"}),
             pc'[q] = pc[q] \/ pc'[q] \in Undoing \/ pc[q] \notin Undoing,
             regs'[q] \in {regs[q], NoReg} \/ pc[q] \notin Undoing
      PROVE  FullOK(q)'
  <2>1. CASE answer'[q] # "full"
    BY <1>2, <2>1 DEF FullInv, FullOK
  <2>2. CASE answer'[q] = "full"
    <3>1. answer[q] = "full" /\ pc[q] \in Undoing
      BY <1>2, <2>2 DEF FullInv, FullOK
    <3>2. ASSUME NEW n, HeldUpTo(raceId[q], n)
          PROVE  HeldUpTo(raceId[q], n)'
      <4> SUFFICES ASSUME NEW r, r = raceId[q], HeldUpTo(r, n)
                   PROVE  HeldUpTo(raceId[q], n)'
        BY <3>2
      <4>1. HeldUpTo(r, n)'
        BY HeldKept
      <4> QED BY <1>2, <4>1 DEF HeldUpTo, Holders, Stored
    <3>3. HeldUpTo(raceId[q], capacity[q]) => HeldUpTo(raceId[q], capacity[q])'
      <4> SUFFICES ASSUME NEW n, n = capacity[q], HeldUpTo(raceId[q], n)
                   PROVE  HeldUpTo(raceId[q], capacity[q])'
        OBVIOUS
      <4> QED BY <1>2, <3>2 DEF HeldUpTo, Holders, Stored
    <3>4. HeldUpTo(raceId[q], MaxAttempts) => HeldUpTo(raceId[q], MaxAttempts)'
      BY <3>2
    <3>5. regs'[q] # NoReg => regs'[q].dorsal = 0
      BY <1>2, <3>1 DEF FullInv, FullOK, Stored
    <3> QED BY <1>2, <3>1, <3>3, <3>4, <3>5 DEF FullInv, FullOK, Stored
  <2> QED BY <2>1, <2>2
<1>3. ASSUME NEW q \in Requests, q # p PROVE LostOK(q)' /\ FullOK(q)'
  BY <1>1, <1>2, <1>3 DEF StepOf
<1>4. ASSUME RegisterStep(p) PROVE LostOK(p)' /\ FullOK(p)'
  <2> USE DEF Undoing, BeforeCreate, LoopLabels
  <2>1. CASE FindRace(p)
    <3>0. pc[p] = "findRace" /\ answer[p] # "full" /\ lost[p] = 0
      BY <2>1 DEF FindRace, FullInv, LostOK, FullOK
    <3>1. answer'[p] # "full" /\ pc'[p] \in {"upsert", "done"} /\ lost'[p] = 0
      BY <2>1, <3>0 DEF FindRace
    <3>2. raceId'[p] # NoRace => capacity'[p] >= 1
      BY <2>1 DEF FindRace, FullInv, FullOK, RaceRow, Form, LocalsOK
    <3> QED BY <3>1, <3>2 DEF LostOK, FullOK
  <2>2. CASE CreateRegistration(p)
    <3>1. FullOK(p)'
      BY <1>2, <2>2 DEF CreateRegistration, Answers
    <3>2. lost'[p] = 0 /\ pc'[p] \in {"load", "done"}
      BY <2>2 DEF CreateRegistration, FullInv, LostOK
    <3> QED BY <3>1, <3>2 DEF LostOK
  <2>3. CASE UndoCreate(p)
    BY <1>1, <1>2, <2>3 DEF UndoCreate, DeleteRow
  <2>4. CASE Receive(p) \/ UpsertParticipant(p) \/ ReloadParticipant(p)
    <3>1. FullOK(p)'
      BY <1>2, <2>4 DEF Receive, UpsertParticipant, ReloadParticipant, Answers
    <3>2. lost'[p] = 0 /\ pc'[p] \in {"findRace", "reload", "create", "done"}
      BY <2>4 DEF Receive, UpsertParticipant, ReloadParticipant, FullInv, LostOK
    <3> QED BY <3>1, <3>2 DEF LostOK
  <2> QED BY <1>4, <2>1, <2>2, <2>3, <2>4 DEF RegisterStep
<1>5. ASSUME LoopStep(p) PROVE LostOK(p)' /\ FullOK(p)'
  <2>1. CASE LoadRegistration(p)
    BY <1>1, <1>2, <2>1 DEF LoadRegistration, RowInv, LoopLabels, Undoing
  <2>2. CASE ProposeDorsal(p)
    <3>1. PICK d \in 1..(MaxCapacity + 1) :
            /\ IsNextDorsal(raceId[p], d)
            /\ cand' = [cand EXCEPT ![p] = d]
            /\ LET refusal == Refusal(loaded[p], d, capacity[p]) IN
                 IF refusal = "none" THEN Goto(p, "save") /\ UNCHANGED answer
                                     ELSE ConfirmFails(p, refusal)
      BY <2>2 DEF ProposeDorsal
    <3>2. /\ pc[p] = "next" /\ cand'[p] = d /\ UNCHANGED <<regs, raceId, capacity, lost>>
          /\ pc'[p] \in {"save", "undo"} /\ raceId[p] # NoRace
      BY <2>2, <3>1 DEF ProposeDorsal, LocalsOK, AfterLookup, LoopLabels
    <3>3. lost[p] < d
      <4>1. CASE lost[p] = 0
        BY <3>1, <4>1
      <4>2. CASE HeldUpTo(raceId[p], lost[p])
        <5>1. PICK o \in Holders(raceId[p]) : regs[o].dorsal >= lost[p]
          BY <4>2 DEF HeldUpTo
        <5>2. regs[o].dorsal < d /\ regs[o].dorsal \in Nat
          BY <3>1, <5>1 DEF IsNextDorsal, Holders, Stored, RegRow
        <5> QED BY <3>1, <5>1, <5>2
      <4> QED BY <3>2, <4>1, <4>2 DEF FullInv, LostOK, LoopLabels
    <3>4. LostOK(p)'
      <4>1. HeldUpTo(raceId[p], lost[p])' <=> HeldUpTo(raceId[p], lost[p])
        BY <3>2 DEF HeldUpTo, Holders, Stored
      <4> QED BY <3>2, <3>3, <4>1 DEF FullInv, LostOK, LoopLabels, BeforeCreate
    <3>5. CASE answer'[p] # "full"
      BY <3>2, <3>4, <3>5 DEF FullInv, FullOK
    <3>6. CASE answer'[p] = "full"
      <4>1. d > capacity[p] /\ pc'[p] = "undo"
        BY <3>1, <3>2, <3>6 DEF Refusal, FullInv, FullOK, Undoing
      <4>2. capacity[p] >= 1
        BY <3>2 DEF FullInv, FullOK
      <4>3. PICK o \in Holders(raceId[p]) : regs[o].dorsal = d - 1
        BY <3>1, <4>1, <4>2 DEF IsNextDorsal
      <4>4. HeldUpTo(raceId[p], capacity[p])'
        <5>1. regs[o].dorsal >= capacity[p]
          BY <3>1, <4>1, <4>3
        <5> QED BY <3>2, <4>3, <5>1 DEF HeldUpTo, Holders, Stored
      <4>5. p \in Stored' => regs'[p].dorsal = 0
        BY <3>2 DEF RowInv, LoopLabels, Stored
      <4> QED BY <3>2, <3>4, <4>1, <4>2, <4>4, <4>5 DEF FullOK, Undoing
    <3> QED BY <3>4, <3>5, <3>6
  <2>3. CASE SaveConfirmation(p)
    BY <1>1, <1>2, <2>3 DEF SaveConfirmation, LoopLabels, Undoing
  <2>4. CASE LoseDorsal(p)
    <3>1. /\ pc[p] = "save" /\ lost'[p] = lost[p] + 1 /\ DorsalTaken(p, cand[p])
          /\ UNCHANGED <<regs, raceId, capacity>>
          /\ IF lost[p] + 1 < MaxAttempts THEN pc'[p] = "load" /\ answer'[p] = answer[p]
                                          ELSE pc'[p] = "undo" /\ answer'[p] = "full"
      BY <2>4 DEF LoseDorsal, CanSave
    <3>2. PICK o \in Holders(raceId[p]) : regs[o].dorsal = cand[p]
      BY <3>1 DEF DorsalTaken, RowInv, LoopLabels
    <3>3. regs[o].dorsal >= lost[p] + 1
      BY <3>1, <3>2 DEF FullInv, LostOK
    <3>4. HeldUpTo(raceId[p], lost[p])'
      BY <3>1, <3>2, <3>3 DEF HeldUpTo, Holders, Stored
    <3>5. LostOK(p)'
      BY <3>1, <3>4 DEF LostOK, BeforeCreate, LoopLabels
    <3>6. CASE lost[p] + 1 < MaxAttempts
      BY <3>1, <3>5, <3>6 DEF FullInv, FullOK, Undoing
    <3>7. CASE ~(lost[p] + 1 < MaxAttempts)
      <4>1. lost[p] < MaxAttempts
        BY <3>1 DEF LocalsOK
      <4>2. lost'[p] = MaxAttempts
        BY <3>1, <3>7, <4>1
      <4>3. p \in Stored' => regs'[p].dorsal = 0
        BY <3>1 DEF RowInv, LoopLabels, Stored
      <4>4. HeldUpTo(raceId[p], MaxAttempts)'
        BY <3>4, <4>2
      <4>5. raceId'[p] # NoRace => capacity'[p] >= 1
        BY <3>1 DEF FullInv, FullOK
      <4> QED BY <3>1, <3>5, <3>7, <4>2, <4>3, <4>4, <4>5 DEF FullOK, Undoing
    <3> QED BY <3>5, <3>6, <3>7
  <2>5. CASE Notify(p)
    BY <1>1, <1>2, <2>5 DEF Notify, Undoing, Answers
  <2> QED BY <1>5, <2>1, <2>2, <2>3, <2>4, <2>5 DEF LoopStep
<1>6. ASSUME FaultStep(p) PROVE LostOK(p)' /\ FullOK(p)'
  <2>1. CASE Cancel(p) \/ Crash(p)
    BY <1>1, <1>2, <2>1 DEF Cancel, Crash, Undoing
  <2>2. CASE StatementFails(p)
    BY <1>1, <1>2, <2>2 DEF StatementFails, OnError, Undoing, Answers
  <2> QED BY <1>6, <2>1, <2>2 DEF FaultStep, ReplyLost
<1> QED BY <1>3, <1>4, <1>5, <1>6, HoldersConfirmedStep DEF CallStep, FullInv

LEMMA FullInvariant ==
  ASSUME ConfirmCalls = {}, "lostReply" \notin Faults
  PROVE  Spec => []FullInv
<1>1. Init => FullInv
  BY DEF Init, FullInv, HoldersConfirmed, LostOK, FullOK, Stored, Processes, LoopLabels
<1>2. QuietInv /\ FullInv /\ [Next]_vars => FullInv'
  <2> SUFFICES ASSUME QuietInv, FullInv, [Next]_vars PROVE FullInv'
    OBVIOUS
  <2>1. CASE UNCHANGED vars
    BY <2>1 DEF vars, FullInv, HoldersConfirmed, LostOK, FullOK, HeldUpTo, Holders, Stored
  <2>2. ASSUME NEW s \in Slugs, Webhook(s) PROVE FullInv'
    BY <2>2 DEF Webhook, SyncRace, RemoveRace, local, FullInv, HoldersConfirmed, LostOK,
                FullOK, HeldUpTo, Holders, Stored
  <2>3. CASE \E p \in Requests : Next /\ StepOf(p) /\ CallStep(p)
    BY <2>3, FullStep
  <2> QED BY <2>1, <2>2, <2>3, StepOfOne DEF QuietInv, Processes
<1> QED BY <1>1, <1>2, QuietInvariant, PTL DEF Spec

(* Without gaps, a race in which dorsal n is held has n holders at least. *)
LEMMA HoldersAtLeast ==
  ASSUME TypeInv, NoSharedDorsal, GapFree, NEW r \in RaceIds, NEW n \in Nat, HeldUpTo(r, n)
  PROVE  IsFiniteSet(Holders(r)) /\ Cardinality(Holders(r)) >= n
<1> DEFINE f == [d \in 1..n |-> CHOOSE o \in Holders(r) : regs[o].dorsal = d]
<1>0. \A q \in Holders(r) : regs[q] \in RegRow /\ regs[q].dorsal \in 1..MaxCapacity
  BY DEF TypeInv, TypeOK, Holders, Stored, RegRow
<1>1. ASSUME NEW d \in 1..n
      PROVE  \E o \in Holders(r) : regs[o].dorsal = d
  <2>1. PICK h \in Holders(r) : regs[h].dorsal >= n
    BY DEF HeldUpTo
  <2>2. CASE d = regs[h].dorsal
    BY <2>1, <2>2
  <2>3. CASE d # regs[h].dorsal
    <3>1. d \in 1..(regs[h].dorsal - 1)
      BY <1>0, <2>1, <2>3
    <3> QED BY <2>1, <3>1 DEF GapFree
  <2> QED BY <2>2, <2>3
<1>2. \A d \in 1..n : f[d] \in Holders(r) /\ regs[f[d]].dorsal = d
  BY <1>1
<1>3. f \in Injection(1..n, Holders(r))
  <2> HIDE DEF f
  <2>1. f \in [1..n -> Holders(r)]
    BY <1>2 DEF f
  <2> QED BY <1>2, <2>1 DEF Injection, IsInjective
<1>4. IsFiniteSet(Holders(r)) /\ Cardinality(Holders(r)) \in Nat
  BY <1>0, ConstantsAssumption, CountByDorsal, FS_CardinalityType
<1>5. Cardinality(1..n) = n
  BY FS_Interval
<1> HIDE DEF f
<1> QED BY <1>3, <1>4, <1>5, FS_Injection

(* "Race full" is said of a race whose every dorsal of the snapshot is given,
   or after MaxAttempts confirmations of others, however the attempts of any
   number of runners interleave. *)
THEOREM FullJustified ==
  ASSUME ConfirmCalls = {}, "lostReply" \notin Faults
  PROVE  Spec => []FullIsJustified
<1>1. QuietInv /\ FullInv /\ NoSharedDorsal /\ SnapshotInv => FullIsJustified
  <2> SUFFICES ASSUME QuietInv, FullInv, NoSharedDorsal, SnapshotInv,
                      NEW q \in Requests, answer[q] = "full"
               PROVE  LET others == ConfirmedIn(raceId[q]) \ {q} IN
                        \/ Cardinality(others) >= capacity[q]
                        \/ lost[q] = MaxAttempts /\ Cardinality(others) >= MaxAttempts
    BY DEF FullIsJustified
  <2> DEFINE r == raceId[q]
  <2>1. FullOK(q) /\ HoldersConfirmed
    BY DEF FullInv
  <2>2. r \in RaceIds
    <3>1. PICK n : HeldUpTo(r, n)
      BY <2>1 DEF FullOK
    <3> QED BY <3>1 DEF HeldUpTo, Holders, Stored, QuietInv, TypeInv, TypeOK, RegRow
  <2>3. ConfirmedIn(r) \ {q} = Holders(r)
    <3>1. \A o \in ConfirmedIn(r) : regs[o].dorsal > 0
      BY DEF SnapshotInv, RowsKnown, ConfirmedIn
    <3>2. q \notin Holders(r)
      BY <2>1 DEF FullOK, Holders
    <3>3. Holders(r) \subseteq ConfirmedIn(r)
      BY <2>1 DEF HoldersConfirmed, Holders, ConfirmedIn
    <3>4. q \notin ConfirmedIn(r)
      BY <3>1, <3>2 DEF ConfirmedIn, Holders
    <3> QED BY <3>1, <3>2, <3>3, <3>4 DEF ConfirmedIn, Holders
  <2>4. capacity[q] \in Nat /\ MaxAttempts \in Nat
    BY ConstantsAssumption DEF QuietInv, TypeInv, TypeOK, Processes
  <2>5. \A n \in Nat : HeldUpTo(r, n) => Cardinality(Holders(r)) >= n
    BY <2>2, HoldersAtLeast DEF QuietInv
  <2> QED BY <2>1, <2>3, <2>4, <2>5 DEF FullOK
<1> QED BY <1>1, QuietInvariant, FullInvariant, DorsalsDistinct, SnapshotInvariant, PTL

=============================================================================
