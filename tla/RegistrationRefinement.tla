----------------------- MODULE RegistrationRefinement -----------------------
(***************************************************************************)
(* Registration implements its two abstract specifications, RaceTable and  *)
(* DorsalLedger: the initial states map to initial states and every step   *)
(* to a step or a stutter, for every value of the constants.               *)
(***************************************************************************)
EXTENDS RegistrationProofs, RegistrationRaces, RegistrationLedger, SequenceTheorems

(* The abstract state RaceTable sees. *)
IdOf  == [s \in Slugs |-> IF races[s] = NoRace THEN NoRace ELSE races[s].id]
InUse == {regs[q].race : q \in Stored}

LEMMA RacesInit == Init => Races!Init
  BY DEF Init, Races!Init, Stored

(* The webhook begins a race, ends one nothing refers to, or stutters. *)
LEMMA RacesWebhook ==
  ASSUME TypeInv, NEW s \in Slugs, Webhook(s)
  PROVE  [Races!Next]_Races!race
<1> USE ConstantsAssumption DEF TypeInv, TypeOK
<1>1. InUse' = InUse
  BY DEF Webhook, SyncRace, RemoveRace, Stored, InUse
<1>2. ASSUME NEW c \in 1..MaxCapacity, InsertRace(s, c)
      PROVE  \E r \in RaceIds : Races!Begin(s, r)
  <2>1. PICK r \in RaceIds \ spent :
          /\ races' = [races EXCEPT ![s] = [id |-> r, capacity |-> c]]
          /\ spent' = spent \cup {r}
    BY <1>2 DEF InsertRace
  <2>2. [id |-> r, capacity |-> c] \in RaceRow
    BY DEF RaceRow
  <2>3. IdOf[s] = NoRace /\ IdOf' = [IdOf EXCEPT ![s] = r]
    BY <1>2, <2>1, <2>2 DEF InsertRace, IdOf
  <2> QED BY <1>1, <2>1, <2>3 DEF Races!Begin, IdOf, InUse
<1>3. ASSUME NEW c \in 1..MaxCapacity, RefreshRace(s, c)
      PROVE  IdOf' = IdOf /\ spent' = spent
  BY <1>3 DEF RefreshRace, RaceRow, IdOf
<1>4. CASE RemoveRace(s)
  <2>1. IdOf[s] \notin InUse /\ IdOf' = [IdOf EXCEPT ![s] = NoRace] /\ spent' = spent
    BY <1>4 DEF RemoveRace, IdOf, InUse
  <2>2. Races!End(s)
    BY <1>1, <2>1 DEF Races!End, IdOf, InUse
  <2> QED BY <2>2 DEF Races!Next
<1>5. CASE SyncRace(s)
  <2>1. CASE \E c \in 1..MaxCapacity : InsertRace(s, c)
    BY <1>2, <2>1 DEF Races!Next
  <2>2. CASE \E c \in 1..MaxCapacity : RefreshRace(s, c)
    BY <1>1, <1>3, <2>2 DEF Races!race, IdOf, InUse
  <2> QED BY <1>5, <2>1, <2>2 DEF SyncRace
<1> QED BY <1>4, <1>5 DEF Webhook

(* A call registers for a race that is there, takes the only registration of a
   race back, or leaves the races and what refers to them alone. *)
LEMMA RacesCall ==
  ASSUME TypeInv, SnapshotInv, Next, UNCHANGED <<races, spent>>
  PROVE  [Races!Next]_Races!race
<1> USE ConstantsAssumption DEF TypeInv, TypeOK
<1>1. IdOf' = IdOf /\ spent' = spent
  BY DEF IdOf
<1>2. CASE InUse' = InUse
  BY <1>1, <1>2 DEF Races!race, IdOf, InUse
<1>3. ASSUME NEW q \in Requests, pc[q] = "create", CanInsert(q),
             regs' = [regs EXCEPT ![q] = InsertedRow(q)]
      PROVE  \E s \in Slugs : Races!Use(s)
  <2>1. PICK s \in Slugs : races[s] # NoRace /\ races[s].id = raceId[q]
    BY <1>3 DEF CanInsert, RaceExists
  <2>2. regs[q] = NoReg
    BY <1>3 DEF SnapshotInv, RowsKnown, BeforeCreate
  <2>3. InsertedRow(q) # NoReg /\ InsertedRow(q).race = raceId[q]
    BY <1>3 DEF InsertedRow, RegRow, LocalsOK, AfterLookup, Form
  <2>4. Stored' = Stored \cup {q} /\ \A o \in Stored : regs'[o] = regs[o]
    BY <1>3, <2>2, <2>3 DEF Stored
  <2>5. regs'[q].race = raceId[q]
    BY <1>3, <2>3
  <2>6. InUse' = InUse \cup {raceId[q]}
    BY <2>2, <2>4, <2>5 DEF InUse, Stored
  <2>7. raceId[q] # NoRace
    BY <1>3 DEF LocalsOK, AfterLookup
  <2>8. IdOf[s] = raceId[q]
    BY <2>1 DEF IdOf
  <2> QED BY <1>1, <2>6, <2>7, <2>8 DEF Races!Use, IdOf, InUse
<1>4. ASSUME NEW q \in Requests, pc[q] = "undo", regs' = [regs EXCEPT ![q] = NoReg],
             InUse' # InUse
      PROVE  \E r \in InUse : Races!Release(r)
  <2>1. Stored' = Stored \ {q} /\ \A o \in Stored \ {q} : regs'[o] = regs[o]
    BY <1>4 DEF Stored
  <2>2. q \in Stored /\ InUse' = InUse \ {regs[q].race}
    BY <1>4, <2>1 DEF InUse
  <2>3. regs[q].race \in InUse
    BY <2>2 DEF InUse
  <2> QED BY <1>1, <2>2, <2>3 DEF Races!Release, IdOf, InUse
<1>5. ASSUME NEW p \in Processes, pc[p] = "save", Target(p) \in Stored,
             regs' = [regs EXCEPT ![Target(p)].status = Confirmed,
                                  ![Target(p)].dorsal = cand[p]]
      PROVE  InUse' = InUse
  <2> DEFINE t == Target(p)
             row == [regs[t] EXCEPT !.status = Confirmed, !.dorsal = cand[p]]
  <2>1. t \in Requests /\ t \in Stored /\ regs[t] \in RegRow
    BY <1>5 DEF Stored
  <2>2. cand[p] \in 0..MaxCapacity
    BY <1>5 DEF LocalsOK
  <2>3. regs' = [regs EXCEPT ![t] = row]
    BY <1>5, <2>1
  <2>4. row \in RegRow /\ row.race = regs[t].race
    BY <2>1, <2>2 DEF RegRow
  <2> HIDE DEF t, row
  <2>5. Stored' = Stored /\ \A o \in Stored : regs'[o].race = regs[o].race
    BY <2>1, <2>3, <2>4 DEF Stored
  <2> QED BY <2>5 DEF InUse
<1>6. CASE \E q \in Requests :
             pc[q] = "create" /\ CanInsert(q) /\ regs' = [regs EXCEPT ![q] = InsertedRow(q)]
  BY <1>3, <1>6 DEF Races!Next
<1>7. CASE \E q \in Requests : pc[q] = "undo" /\ regs' = [regs EXCEPT ![q] = NoReg]
  BY <1>2, <1>4, <1>7 DEF Races!Next, InUse
<1>8. CASE regs' = regs
  BY <1>2, <1>8 DEF InUse, Stored
<1> QED BY <1>2, <1>5, <1>6, <1>7, <1>8, RegsStep DEF RegsWrite

(* Whatever requests, the payment seam and the faults do, races keep their
   identity while registrations refer to them: RaceSync and Registration use the
   one table by the same rules. *)
THEOREM RacesImplemented == Spec => ImplementsRaceTable
<1>1. TypeInv /\ SnapshotInv /\ [Next]_vars => [Races!Next]_Races!race
  <2>1. UNCHANGED vars => UNCHANGED Races!race
    BY DEF vars, Races!race, Stored
  <2>2. TypeInv /\ Next => \/ \E s \in Slugs : Webhook(s)
                           \/ UNCHANGED <<races, spent>>
    BY StepOfOne DEF StepOf
  <2> QED BY <2>1, <2>2, RacesWebhook, RacesCall
<1> QED BY <1>1, RacesInit, TypeInvariant, SnapshotInvariant, PTL
        DEF Spec, ImplementsRaceTable, Races!Spec

-----------------------------------------------------------------------------
(* The roll of a race, read off the dorsals of its rows. *)
Places(r) == Cardinality(Holders(r))

RollIs ==
  /\ Roll = [r \in RaceIds |-> Roll[r]]
  /\ \A r \in RaceIds :
    /\ IsFiniteSet(Holders(r)) /\ Places(r) \in Nat
    /\ Roll[r] \in Seq(Emails) /\ Len(Roll[r]) = Places(r)
    /\ \A d \in 1..Places(r) : \E q \in Holders(r) : regs[q].dorsal = d
    /\ \A q \in Holders(r) :
         regs[q].dorsal \in 1..Places(r) /\ Roll[r][regs[q].dorsal] = regs[q].email

(* No two rows of a race belong to one person. *)
OnePerPerson ==
  \A q, o \in Stored :
    q # o /\ regs[q].race = regs[o].race => regs[q].email # regs[o].email

LEMMA OnePerPersonStep ==
  ASSUME TypeInv, SnapshotInv, OnePerPerson, [Next]_vars
  PROVE  OnePerPerson'
<1> USE DEF OnePerPerson
<1>1. CASE UNCHANGED vars
  BY <1>1 DEF vars, Stored
<1>2. CASE Next
  <2> SUFFICES ASSUME NEW q \in Requests, NEW o \in Requests, regs'[q] # NoReg,
                      regs'[o] # NoReg, q # o, regs'[q].race = regs'[o].race,
                      regs'[q].email = regs'[o].email
               PROVE  FALSE
    BY DEF Stored
  <2>1. ASSUME NEW t \in Requests, regs'[t] # NoReg
        PROVE  \/ t \in Stored /\ regs'[t].race = regs[t].race /\ regs'[t].email = regs[t].email
               \/ pc[t] = "create" /\ CanInsert(t) /\ regs'[t] = InsertedRow(t)
    <3>1. ASSUME NEW p \in Processes, regs[t] \in RegRow,
                 regs'[t] = [regs[t] EXCEPT !.status = Confirmed, !.dorsal = cand[p]]
          PROVE  regs'[t].race = regs[t].race /\ regs'[t].email = regs[t].email
      BY <3>1 DEF RegRow
    <3> QED BY <1>2, <2>1, <3>1, RowStep DEF Stored
  <2>2. \A t \in Requests : CanInsert(t) /\ regs'[t] = InsertedRow(t) =>
          \A h \in Stored : ~(regs[h].race = regs'[t].race /\ regs[h].email = regs'[t].email)
    BY DEF CanInsert, DuplicateParticipant, InsertedRow
  <2>3. ~(pc[q] = "create" /\ pc[o] = "create" /\ regs'[q] = InsertedRow(q)
            /\ regs'[o] = InsertedRow(o))
    <3>1. ASSUME pc[q] = "create", pc[o] = "create" PROVE FALSE
      <4>1. regs[q] = NoReg /\ regs[o] = NoReg
        BY <3>1 DEF SnapshotInv, RowsKnown, BeforeCreate
      <4>2. regs' # regs
        BY <4>1
      <4>3. ASSUME NEW s \in Slugs, Webhook(s) PROVE FALSE
        BY <4>2, <4>3 DEF Webhook, SyncRace, RemoveRace
      <4>4. PICK p \in Processes : StepOf(p)
        BY <1>2, <4>3, StepOfOne
      <4> QED BY <4>1, <4>4 DEF StepOf
    <3> QED BY <3>1
  <2> QED BY <2>1, <2>2, <2>3
<1> QED BY <1>1, <1>2

LEMMA RollShape == TypeInv /\ NoSharedDorsal /\ GapFree => RollIs
<1>0. Roll = [r \in RaceIds |-> Roll[r]]
  BY DEF Roll
<1> SUFFICES ASSUME TypeInv, NoSharedDorsal, GapFree, NEW r \in RaceIds
             PROVE  /\ IsFiniteSet(Holders(r)) /\ Places(r) \in Nat
                    /\ Roll[r] \in Seq(Emails) /\ Len(Roll[r]) = Places(r)
                    /\ \A d \in 1..Places(r) : \E q \in Holders(r) : regs[q].dorsal = d
                    /\ \A q \in Holders(r) :
                         regs[q].dorsal \in 1..Places(r) /\ Roll[r][regs[q].dorsal] = regs[q].email
  BY <1>0 DEF RollIs
<1> DEFINE n == Places(r)
           holder(d) == CHOOSE q \in Holders(r) : regs[q].dorsal = d
<1>1. \A q \in Holders(r) :
        /\ regs[q].email \in Emails /\ regs[q].dorsal \in 1..MaxCapacity /\ regs[q].dorsal \in Nat
  BY DEF TypeInv, TypeOK, Holders, Stored, RegRow
<1>2. IsFiniteSet(Holders(r)) /\ n \in Nat
  <2>1. MaxCapacity \in Nat /\ \A q \in Holders(r) : regs[q].dorsal <= MaxCapacity
    BY <1>1, ConstantsAssumption
  <2>2. IsFiniteSet(Holders(r))
    BY <2>1, CountByDorsal
  <2> QED BY <2>2, FS_CardinalityType DEF Places
<1>3. \A q \in Holders(r) : regs[q].dorsal \in 1..n
  <2> SUFFICES ASSUME NEW q \in Holders(r) PROVE regs[q].dorsal \in 1..n
    OBVIOUS
  <2>1. HeldUpTo(r, regs[q].dorsal)
    BY <1>1 DEF HeldUpTo
  <2>2. n >= regs[q].dorsal
    BY <1>1, <2>1, HoldersAtLeast DEF Places
  <2> QED BY <1>1, <1>2, <2>2
<1>4. \A d \in 1..n : \E q \in Holders(r) : regs[q].dorsal = d
  <2> DEFINE f == [q \in Holders(r) |-> regs[q].dorsal]
  <2>1. f \in Injection(Holders(r), 1..n)
    BY <1>3 DEF Injection, IsInjective, NoSharedDorsal, Holders
  <2>2. IsFiniteSet(1..n) /\ Cardinality(1..n) = n
    BY <1>2, FS_Interval
  <2> HIDE DEF f
  <2>3. f \in Surjection(Holders(r), 1..n)
    BY <2>1, <2>2, FS_Injection DEF Places
  <2> QED BY <2>3 DEF Surjection, f
<1>5. ASSUME NEW q \in Holders(r) PROVE holder(regs[q].dorsal) = q
  <2>1. \A o \in Holders(r) : regs[o].dorsal = regs[q].dorsal => o = q
    BY DEF NoSharedDorsal, Holders
  <2> QED BY <2>1
<1>6. Roll[r] = [d \in 1..n |-> regs[holder(d)].email]
  BY DEF Roll, Places
<1>7. \A d \in 1..n : regs[holder(d)].email \in Emails
  BY <1>1, <1>4
<1> HIDE DEF n, holder
<1>8. Roll[r] \in [1..n -> Emails]
  BY <1>6, <1>7
<1>9. Roll[r] \in Seq(Emails) /\ Len(Roll[r]) = n
  <2>1. Roll[r] \in Seq(Emails)
    BY <1>2, <1>8, SeqDef
  <2>2. Len(Roll[r]) \in Nat /\ DOMAIN Roll[r] = 1..Len(Roll[r])
    BY <2>1, LenProperties
  <2>3. 1..Len(Roll[r]) = 1..n
    BY <1>8, <2>2
  <2>4. \A a, b \in Nat : 1..a = 1..b => a = b
    <3> SUFFICES ASSUME NEW a \in Nat, NEW b \in Nat, 1..a = 1..b, a # b PROVE FALSE
      OBVIOUS
    <3>1. (a \in 1..a <=> a \in 1..b) /\ (b \in 1..a <=> b \in 1..b)
      OBVIOUS
    <3> QED BY <3>1
  <2> QED BY <1>2, <2>1, <2>2, <2>3, <2>4
<1>10. \A q \in Holders(r) : Roll[r][regs[q].dorsal] = regs[q].email
  BY <1>3, <1>5, <1>6
<1> QED BY <1>2, <1>3, <1>4, <1>9, <1>10 DEF n

LEMMA RollKept ==
  ASSUME RollIs, RollIs', NEW r \in RaceIds,
         Holders(r)' = Holders(r), \A q \in Holders(r) : regs'[q] = regs[q]
  PROVE  Roll'[r] = Roll[r]
<1>1. Places(r)' = Places(r)
  BY DEF Places
<1>2. /\ Roll[r] \in Seq(Emails) /\ Roll'[r] \in Seq(Emails)
      /\ Len(Roll[r]) = Places(r) /\ Len(Roll'[r]) = Places(r)
  BY <1>1 DEF RollIs
<1>3. ASSUME NEW d \in 1..Len(Roll'[r])
      PROVE  Roll'[r][d] = Roll[r][d]
  <2>1. PICK q \in Holders(r) : regs[q].dorsal = d
    BY <1>2 DEF RollIs
  <2>2. Roll[r][d] = regs[q].email
    BY <2>1 DEF RollIs
  <2>3. Roll'[r][d] = regs[q].email
    BY <2>1 DEF RollIs
  <2> QED BY <2>2, <2>3
<1> QED BY <1>2, <1>3, SeqEqual

(* The save of a dorsal that is not taken admits the next person. *)
LEMMA RollGrows ==
  ASSUME RollIs, RollIs', NEW r \in RaceIds, NEW q, q \notin Holders(r),
         Holders(r)' = Holders(r) \cup {q},
         \A o \in Holders(r) : regs'[o] = regs[o],
         NEW e \in Emails, regs'[q].email = e, regs'[q].dorsal = Places(r) + 1
  PROVE  Roll'[r] = Append(Roll[r], e)
<1>1. Places(r)' = Places(r) + 1 /\ Places(r) \in Nat
  <2>1. IsFiniteSet(Holders(r)) /\ Places(r) \in Nat
    BY DEF RollIs
  <2>2. Cardinality(Holders(r) \cup {q}) = Places(r) + 1
    BY <2>1, FS_AddElement DEF Places
  <2> QED BY <2>1, <2>2 DEF Places
<1>2. /\ Roll[r] \in Seq(Emails) /\ Roll'[r] \in Seq(Emails)
      /\ Len(Roll[r]) = Places(r) /\ Len(Roll'[r]) = Places(r) + 1
  BY <1>1 DEF RollIs
<1>3. /\ Append(Roll[r], e) \in Seq(Emails)
      /\ Len(Append(Roll[r], e)) = Places(r) + 1
      /\ \A d \in 1..Places(r) : Append(Roll[r], e)[d] = Roll[r][d]
      /\ Append(Roll[r], e)[Places(r) + 1] = e
  BY <1>2, AppendProperties
<1>4. ASSUME NEW d \in 1..(Places(r) + 1)
      PROVE  Roll'[r][d] = Append(Roll[r], e)[d]
  <2>1. CASE d = Places(r) + 1
    <3>1. q \in Holders(r)'
      OBVIOUS
    <3>2. Roll'[r][regs'[q].dorsal] = regs'[q].email
      BY <3>1 DEF RollIs
    <3> QED BY <1>3, <2>1, <3>2
  <2>2. CASE d # Places(r) + 1
    <3>1. d \in 1..Places(r)
      BY <1>1, <2>2
    <3>2. PICK o \in Holders(r) : regs[o].dorsal = d
      BY <3>1 DEF RollIs
    <3>3. Roll[r][d] = regs[o].email
      BY <3>2 DEF RollIs
    <3>4. Roll'[r][d] = regs[o].email
      BY <3>2 DEF RollIs
    <3> QED BY <1>3, <3>1, <3>3, <3>4
  <2> QED BY <2>1, <2>2
<1> QED BY <1>2, <1>3, <1>4, SeqEqual

LEMMA LedgerInit == Init => Ledger!Init
<1> SUFFICES ASSUME Init PROVE Ledger!Init
  OBVIOUS
<1>1. \A r \in RaceIds : Holders(r) = {}
  BY DEF Init, Holders, Stored
<1>2. \A r \in RaceIds : Cardinality(Holders(r)) = 0
  BY <1>1, FS_EmptySet
<1>3. \A r \in RaceIds : Roll[r] = <<>>
  <2>1. RollIs
    BY RollShape, TypeInit DEF Init, NoSharedDorsal, GapFree, Holders, Stored
  <2> QED BY <1>2, <2>1, EmptySeq DEF RollIs, Places
<1>4. Roll = [r \in RaceIds |-> <<>>]
  BY <1>3 DEF Roll
<1>5. Announced = {}
  BY DEF Init, Announced, Told, Processes
<1> QED BY <1>4, <1>5 DEF Ledger!Init

(* Everything the steps below may rely on. *)
LedgerInv ==
  QuietInv /\ SnapshotInv /\ ReasonsInv /\ NoSharedDorsal /\ OnePerPerson /\ RollIs

(* A step that leaves the holders of every race leaves every roll. *)
LEMMA RollSame ==
  ASSUME RollIs, RollIs',
         \A r \in RaceIds :
           Holders(r)' = Holders(r) /\ \A q \in Holders(r) : regs'[q] = regs[q]
  PROVE  Roll' = Roll
<1>1. \A r \in RaceIds : Roll'[r] = Roll[r]
  BY RollKept
<1> QED BY <1>1 DEF RollIs

(* Only Notify tells anybody anything. *)
LEMMA ToldSame ==
  ASSUME ConfirmCalls = {}, LedgerInv, NEW p \in Requests, StepOf(p), CallStep(p), ~Notify(p)
  PROVE  Announced' = Announced
<1> USE DEF LedgerInv, QuietInv, TypeInv, TypeOK, Processes
<1>1. ~Told(p) /\ ~Told(p)'
  <2> USE DEF tables, local, Goto, Return, ConfirmFails, Sends
  <2>1. pc[p] # "done"
    BY DEF CallStep, RegisterStep, Receive, FindRace, UpsertParticipant, ReloadParticipant,
           CreateRegistration, UndoCreate, LoopStep, LoadRegistration, ProposeDorsal,
           SaveConfirmation, LoseDorsal, FaultStep, Cancel, StatementFails, OnError,
           ReplyLost, Crash
  <2>2. answer[p] # "confirmed" /\ p \notin mailed
    BY <2>1 DEF RowInv, Told
  <2>3. CASE RegisterStep(p)
    BY <2>2, <2>3 DEF RegisterStep, Receive, FindRace, UpsertParticipant, ReloadParticipant,
                      CreateRegistration, UndoCreate, Told
  <2>4. CASE LoopStep(p)
    BY <2>2, <2>4 DEF LoopStep, LoadRegistration, ProposeDorsal, Refusal, SaveConfirmation,
                      LoseDorsal, Told
  <2>5. CASE FaultStep(p)
    BY <2>2, <2>5 DEF FaultStep, Cancel, StatementFails, OnError, ReplyLost, Crash, Told
  <2> QED BY <2>2, <2>3, <2>4, <2>5 DEF CallStep, Told
<1>2. ASSUME NEW q \in Requests, q # p
      PROVE  /\ Told(q)' <=> Told(q)
             /\ raceId'[q] = raceId[q] /\ form'[q] = form[q] /\ cand'[q] = cand[q]
  BY <1>2 DEF StepOf, Told
<1> QED BY <1>1, <1>2 DEF Announced

(* Only a save without a lost reply gives a dorsal to a row that had none. *)
LEMMA NewHolder ==
  ASSUME ConfirmCalls = {}, "lostReply" \notin Faults, QuietInv, Next,
         NEW p \in Requests, StepOf(p), CallStep(p),
         NEW r, NEW o \in Holders(r)', o \notin Holders(r)
  PROVE  o = p /\ SaveConfirmation(p) /\ r = raceId[p]
<1> USE DEF QuietInv, TypeInv, TypeOK, Processes, Target
<1>1. o \in Requests /\ regs'[o] # NoReg /\ regs'[o].race = r /\ regs'[o].dorsal > 0
  BY DEF Holders, Stored
<1>2. regs'[o] # regs[o]
  BY <1>1 DEF Holders, Stored
<1>3. o = p
  BY <1>1, <1>2 DEF StepOf
<1>4. pc[o] = "save" /\ o \in Stored
      /\ regs[o] \in RegRow /\ regs'[o] = [regs[o] EXCEPT !.status = Confirmed, !.dorsal = cand[o]]
  <2>1. regs'[o] # InsertedRow(o)
    BY <1>1 DEF InsertedRow
  <2>2. \A t \in Requests : Target(t) = t
    OBVIOUS
  <2> QED BY ONLY <1>1, <1>2, <2>1, <2>2, RowStep, TypeInv, Next, ConfirmCalls = {} DEF Processes
<1>5. r = raceId[o]
  BY <1>1, <1>4 DEF RegRow, RowInv, LoopLabels
<1>6. SaveConfirmation(p)
  BY <1>2, <1>3, <1>4
  DEF CallStep, RegisterStep, Receive, FindRace, UpsertParticipant, ReloadParticipant,
      CreateRegistration, UndoCreate, LoopStep, LoadRegistration, ProposeDorsal, LoseDorsal,
      Notify, FaultStep, Cancel, StatementFails, ReplyLost, Crash, Sends, tables
<1> QED BY <1>3, <1>5, <1>6

(* A save admits the next person to the roll of the race. *)
LEMMA LedgerSave ==
  ASSUME ConfirmCalls = {}, "lostReply" \notin Faults, LedgerInv, RollIs', Next,
         NEW p \in Requests, StepOf(p), CallStep(p), SaveConfirmation(p)
  PROVE  Ledger!Next
<1> USE DEF LedgerInv, QuietInv
<1> DEFINE e == regs[p].email
<1>1. PICK r \in RaceIds : raceId[p] = r
  BY DEF SaveConfirmation, Sends, TypeInv, LocalsOK, AfterLookup, LoopLabels
<1>2. /\ pc[p] = "save" /\ p \in Stored /\ regs[p] \in RegRow /\ p \notin Holders(r)
      /\ regs[p].race = r /\ regs[p].dorsal = 0 /\ e \in Emails
      /\ cand[p] \in 1..MaxCapacity
  <2>1. pc[p] = "save" /\ Target(p) = p
    BY DEF SaveConfirmation, Sends, Target
  <2>2. p \in Stored /\ regs[p].race = r /\ regs[p].dorsal = 0
    BY <1>1, <2>1 DEF RowInv, LoopLabels
  <2>3. regs[p] \in RegRow
    BY <2>2 DEF TypeInv, TypeOK, Stored
  <2>4. cand[p] \in 1..capacity[p] /\ capacity[p] \in 0..MaxCapacity
    BY <2>1 DEF TypeInv, TypeOK, LocalsOK, Processes
  <2> QED BY <2>1, <2>2, <2>3, <2>4, ConstantsAssumption DEF RegRow, Holders
<1>3. regs'[p].dorsal = cand[p] /\ regs'[p].race = r /\ regs'[p].email = e /\ regs'[p] # NoReg
  <2> DEFINE row == [regs[p] EXCEPT !.status = Confirmed, !.dorsal = cand[p]]
  <2>1. row \in RegRow /\ row.dorsal = cand[p] /\ row.race = r /\ row.email = e
    <3>1. regs[p] \in RegRow /\ cand[p] \in 0..MaxCapacity /\ Confirmed \in {Pending, Confirmed}
      BY <1>2, ConstantsAssumption
    <3>2. regs[p].race = r
      BY <1>2
    <3> HIDE DEF LedgerInv, QuietInv
    <3> QED BY <3>1, <3>2 DEF RegRow
  <2>2. regs' = [regs EXCEPT ![p] = row]
    BY <1>2 DEF SaveConfirmation, UpdateRow, Target, RegRow, Stored, TypeInv, TypeOK
  <2> HIDE DEF row
  <2>3. NoReg \notin RegRow
    BY ConstantsAssumption
  <2> QED BY <2>1, <2>2, <2>3 DEF TypeInv, TypeOK
<1> HIDE DEF e
<1>4. cand[p] = Places(r) + 1
  <2>1. Places(r) \in Nat
    BY DEF RollIs
  <2>2. cand[p] \notin 1..Places(r)
    <3> SUFFICES ASSUME cand[p] \in 1..Places(r) PROVE FALSE
      OBVIOUS
    <3>1. PICK o \in Holders(r) : regs[o].dorsal = cand[p]
      BY DEF RollIs
    <3>2. o # p
      BY <1>2, <3>1
    <3> QED BY <1>2, <3>1, <3>2 DEF SaveConfirmation, CanSave, DorsalTaken, Target
  <2>3. cand[p] = 1 \/ cand[p] - 1 \in 1..Places(r)
    <3>1. cand[p] = 1 \/ \E o \in Holders(r) : regs[o].dorsal = cand[p] - 1
      BY <1>1, <1>2 DEF CandFollows
    <3> QED BY <3>1 DEF RollIs
  <2> QED BY <1>2, <2>1, <2>2, <2>3
<1>5. ~Ledger!OnRoll(r, e)
  <2> SUFFICES ASSUME NEW d \in 1..Len(Roll[r]), Roll[r][d] = e PROVE FALSE
    BY DEF Ledger!OnRoll
  <2>1. PICK o \in Holders(r) : regs[o].dorsal = d
    BY DEF RollIs
  <2>2. regs[o].email = e
    BY <2>1 DEF RollIs
  <2>3. o # p /\ o \in Stored /\ regs[o].race = regs[p].race
    BY <1>2, <2>1 DEF Holders
  <2> QED BY <1>2, <2>2, <2>3 DEF OnePerPerson, e
<1>6. \A x : \A o \in Holders(x) : o \in Holders(x)' /\ regs'[o] = regs[o]
  BY HoldersKept
<1>7. Holders(r)' = Holders(r) \cup {p}
  <2>1. p \in Holders(r)'
    BY <1>2, <1>3 DEF Holders, Stored
  <2>2. \A o \in Holders(r)' : o \in Holders(r) \/ o = p
    BY NewHolder
  <2> QED BY <1>6, <2>1, <2>2
<1>8. \A x \in RaceIds \ {r} : Holders(x)' = Holders(x)
  BY <1>1, <1>6, NewHolder
<1>9. Roll'[r] = Append(Roll[r], e)
  BY <1>2, <1>3, <1>4, <1>6, <1>7, RollGrows
<1>10. \A x \in RaceIds \ {r} : Roll'[x] = Roll[x]
  BY <1>6, <1>8, RollKept
<1>11. Roll' = [Roll EXCEPT ![r] = Append(@, e)]
  BY <1>9, <1>10 DEF RollIs
<1>12. Announced' = Announced
  <2>1. ~Notify(p)
    BY <1>2 DEF Notify
  <2> QED BY <2>1, ToldSame
<1> QED BY <1>2, <1>5, <1>11, <1>12 DEF Ledger!Next, Ledger!Admit

(* The answer and the e-mail announce a dorsal that is on the roll. *)
LEMMA LedgerNotify ==
  ASSUME ConfirmCalls = {}, LedgerInv, NEW p \in Requests, StepOf(p), Notify(p)
  PROVE  Ledger!Next
<1> USE DEF LedgerInv, QuietInv
<1> DEFINE d == cand[p]
<1>1. /\ pc[p] = "notify" /\ UNCHANGED <<regs, form, raceId, cand>>
      /\ answer' = [answer EXCEPT ![p] = "confirmed"]
      /\ \A q \in Requests \ {p} : Told(q)' <=> Told(q)
  BY DEF Notify, Return, tables, local, StepOf, Told, Processes
<1>2. PICK r \in RaceIds : raceId[p] = r
  BY <1>1 DEF TypeInv, LocalsOK, AfterLookup
<1>3. p \in Stored /\ regs[p].dorsal = d /\ regs[p].race = r /\ regs[p].email = form[p].email
  BY <1>1, <1>2 DEF RowInv, ReasonsInv
<1>4. p \in Holders(r)
  <2>1. d \in 1..capacity[p]
    BY <1>1 DEF TypeInv, LocalsOK, Processes
  <2> QED BY <1>3, <2>1 DEF Holders
<1>5. d \in 1..Len(Roll[r]) /\ Roll[r][d] = form[p].email
  BY <1>3, <1>4 DEF RollIs
<1>6. Roll' = Roll
  BY <1>1 DEF Roll, Holders, Stored
<1>7. Announced' = Announced \cup {[race |-> r, email |-> form[p].email, dorsal |-> d]}
  <2>1. Told(p)'
    BY <1>1 DEF Told, TypeInv, TypeOK, Processes
  <2> QED BY <1>1, <1>2, <2>1 DEF Announced
<1> QED BY <1>5, <1>6, <1>7 DEF Ledger!Next, Ledger!Announce

(* Every other step changes neither. *)
LEMMA LedgerOther ==
  ASSUME ConfirmCalls = {}, "lostReply" \notin Faults, LedgerInv, RollIs', Next,
         NEW p \in Requests, StepOf(p), CallStep(p), ~SaveConfirmation(p), ~Notify(p)
  PROVE  UNCHANGED Ledger!ledger
<1>1. Announced' = Announced
  BY ToldSame
<1>2. \A r \in RaceIds :
        Holders(r)' = Holders(r) /\ \A q \in Holders(r) : regs'[q] = regs[q]
  <2> SUFFICES ASSUME NEW r \in RaceIds
               PROVE  Holders(r)' = Holders(r) /\ \A q \in Holders(r) : regs'[q] = regs[q]
    OBVIOUS
  <2>1. \A q \in Holders(r) : q \in Holders(r)' /\ regs'[q] = regs[q]
    BY HoldersKept DEF LedgerInv, QuietInv
  <2>2. \A q \in Holders(r)' : q \in Holders(r)
    BY NewHolder DEF LedgerInv
  <2> QED BY <2>1, <2>2
<1>3. Roll' = Roll
  BY <1>2, RollSame DEF LedgerInv
<1> QED BY <1>1, <1>3 DEF Ledger!ledger

LEMMA LedgerInvariant ==
  ASSUME ConfirmCalls = {}, "lostReply" \notin Faults
  PROVE  Spec => []LedgerInv
<1>1. Init => OnePerPerson
  BY DEF Init, OnePerPerson, Stored
<1>2. Spec => []OnePerPerson
  BY <1>1, OnePerPersonStep, TypeInvariant, SnapshotInvariant, PTL DEF Spec
<1>3. QuietInv /\ NoSharedDorsal => RollIs
  BY RollShape DEF QuietInv
<1> QED BY <1>2, <1>3, QuietInvariant, SnapshotInvariant, ReasonsInvariant, DorsalsDistinct,
           PTL DEF LedgerInv

(* While no reply is lost, the statements of any number of requests, their
   lost attempts, failures and ends do no more than admit people to a roll in
   order and announce places that are on it. *)
THEOREM LedgerImplemented ==
  ASSUME ConfirmCalls = {}, "lostReply" \notin Faults
  PROVE  Spec => ImplementsLedger
<1>1. LedgerInv /\ RollIs' /\ [Next]_vars => [Ledger!Next]_Ledger!ledger
  <2> SUFFICES ASSUME LedgerInv, RollIs', [Next]_vars
               PROVE  [Ledger!Next]_Ledger!ledger
    OBVIOUS
  <2>1. CASE UNCHANGED vars
    BY <2>1 DEF vars, Ledger!ledger, Roll, Announced, Holders, Stored, Told
  <2>2. ASSUME NEW s \in Slugs, Webhook(s) PROVE UNCHANGED Ledger!ledger
    <3>1. UNCHANGED <<regs, form, raceId, cand, answer, mailed>>
      BY <2>2 DEF Webhook, SyncRace, RemoveRace, local
    <3>2. Roll' = Roll
      BY <3>1 DEF Roll, Holders, Stored
    <3>3. Announced' = Announced
      BY <3>1 DEF Announced, Told
    <3> QED BY <3>2, <3>3 DEF Ledger!ledger
  <2>3. CASE \E p \in Requests : Next /\ StepOf(p) /\ CallStep(p)
    BY <2>3, LedgerSave, LedgerNotify, LedgerOther
  <2> QED BY <2>1, <2>2, <2>3, StepOfOne DEF LedgerInv, QuietInv, Processes
<1>2. LedgerInv => RollIs
  BY DEF LedgerInv
<1> QED BY <1>1, <1>2, LedgerInit, LedgerInvariant, PTL
        DEF Spec, ImplementsLedger, Ledger!Spec

=============================================================================
