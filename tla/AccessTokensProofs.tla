------------------------- MODULE AccessTokensProofs -------------------------
(***************************************************************************)
(* Theorems about AccessTokens, for any number of calls, users, devices    *)
(* and visits, any lifetime and any length of a second in ticks, and any   *)
(* of the faults.                                                          *)
(***************************************************************************)
EXTENDS AccessTokens, SessionsProofs

(* The sessions beneath behave as in Sessions, so what is proved there holds. *)
LEMMA SessionsBeneath == AccessSpec => Spec
<1>1. AccessInit => Init
  BY DEF AccessInit
<1>2. [AccessNext]_allVars => [Next]_vars
  BY DEF AccessNext, allVars, tokenVars, SessionStep, Tick, RequireAuth, Next
<1> QED BY <1>1, <1>2, PTL DEF AccessSpec, Spec

-----------------------------------------------------------------------------
(* The user and the family of a call, once it has looked them up, stay. *)
LEMMA LocalsKept ==
  ASSUME BaseInv, [Next]_vars, NEW c \in Calls, family[c] # NoToken
  PROVE  family'[c] = family[c] /\ owner'[c] = owner[c]
<1>0. TypeOK /\ AnswersOK
  BY DEF BaseInv, TypeInv
<1>1. ~FindUser(c) /\ ~LookupToRotate(c) /\ ~LookupToRevoke(c)
  BY <1>0 DEF AnswersOK, FindUser, LookupToRotate, LookupToRevoke
<1>2. CASE UNCHANGED vars
  BY <1>2 DEF vars
<1>3. CASE Next
  <2>1. PICK o \in Calls : Receive(o) \/ Step(o) \/ Expire(o) \/ FaultStep(o)
    BY <1>3 DEF Next
  <2>2. CASE o # c
    BY <2>1, <2>2, AloneStep DEF BaseInv, Alone
  <2>3. CASE o = c
    BY <1>1, <2>1, <2>3
       DEF Receive, Step, Issue, RevokeReused, MarkRotated, RevokeFamily, RevokeAll,
           GetUser, UpdatePassword, CreateUser, Respond, Expire, FaultStep,
           StatementFails, Crash, LoseResponse
  <2> QED BY <2>2, <2>3
<1> QED BY <1>2, <1>3

(* How a call comes to a family: it opens one, or it reads a row of one. *)
LEMMA FamilyFrom ==
  ASSUME BaseInv, [Next]_vars, NEW c \in Calls, family'[c] # family[c]
  PROVE  \/ FindUser(c) /\ family'[c] = c
         \/ /\ LookupToRotate(c) \/ LookupToRevoke(c)
            /\ req[c].token \in Stored
            /\ family'[c] = tokens[req[c].token].family
<1>0. TypeOK
  BY DEF BaseInv, TypeInv
<1>1. PICK o \in Calls : Receive(o) \/ Step(o) \/ Expire(o) \/ FaultStep(o)
  BY DEF Next, vars
<1>2. o = c
  BY <1>1, AloneStep DEF BaseInv, Alone
<1>3. FindUser(c) \/ LookupToRotate(c) \/ LookupToRevoke(c)
  BY <1>1, <1>2
     DEF Receive, Step, Issue, RevokeReused, MarkRotated, RevokeFamily, RevokeAll,
         GetUser, UpdatePassword, CreateUser, Respond, Expire, FaultStep,
         StatementFails, Crash, LoseResponse
<1>4. CASE FindUser(c)
  BY <1>0, <1>4 DEF FindUser, TypeOK
<1>5. CASE LookupToRotate(c)
  BY <1>0, <1>5 DEF LookupToRotate, TypeOK
<1>6. CASE LookupToRevoke(c)
  BY <1>0, <1>6 DEF LookupToRevoke, TypeOK
<1> QED BY <1>3, <1>4, <1>5, <1>6

(* The past of a call is set when it arrives: the calls that are over. *)
LEMMA BeforeFrom ==
  ASSUME BaseInv, [Next]_vars, NEW t \in Calls
  PROVE  \/ before'[t] = before[t]
         \/ before'[t] = Over /\ pc[t] = "idle" /\ family[t] = NoToken
<1>0. TypeOK /\ AnswersOK
  BY DEF BaseInv, TypeInv
<1>1. CASE UNCHANGED vars
  BY <1>1 DEF vars
<1>2. CASE Next
  <2>1. PICK o \in Calls : Receive(o) \/ Step(o) \/ Expire(o) \/ FaultStep(o)
    BY <1>2 DEF Next
  <2>2. CASE o # t
    BY <2>1, <2>2, AloneStep DEF BaseInv, Alone
  <2>3. CASE o = t /\ Receive(t)
    BY <1>0, <2>3 DEF Receive, AnswersOK, TypeOK
  <2>4. CASE o = t /\ ~Receive(t)
    BY <2>1, <2>4
       DEF Step, FindUser, Issue, LookupToRotate, LookupToRevoke, RevokeReused,
           MarkRotated, RevokeFamily, RevokeAll, GetUser, UpdatePassword, CreateUser,
           Respond, Expire, FaultStep, StatementFails, Crash, LoseResponse
  <2> QED BY <2>1, <2>2, <2>3, <2>4
<1> QED BY <1>1, <1>2

(* What a stored row says of the call that inserted it, and what a call that
   came before another cannot know. *)
PastInv ==
  \A x \in Calls :
    /\ family[x] \in Calls => family[x] = x \/ family[x] \in Stored
    /\ x \in Stored =>
         tokens[x].family = family[x] /\ tokens[x].user = owner[x] /\ answer[x] = "pair"
    /\ \A t \in Calls : x \in before[t] => t \notin before[x] /\ family[x] # t

LEMMA PastStep ==
  ASSUME BaseInv, FamilyInv, PastInv, [Next]_vars
  PROVE  PastInv'
<1>0. TypeOK /\ LocalsOK /\ RefreshOK /\ AnswersOK
  BY DEF BaseInv, TypeInv, SessionInv
<1>1. RowsStand /\ CallsStand
  BY RowsStandStep, CallsStandStep DEF BaseInv, SessionInv
<1>2. ASSUME NEW x \in Calls, family'[x] \in Calls
      PROVE  family'[x] = x \/ family'[x] \in Stored'
  <2>1. CASE family'[x] = family[x]
    BY <1>1, <1>2, <2>1 DEF PastInv, RowsStand
  <2>2. CASE family'[x] # family[x]
    <3>1. \/ family'[x] = x
          \/ \E p \in Stored : family'[x] = tokens[p].family
      BY <2>2, FamilyFrom
    <3> QED BY <1>1, <3>1 DEF FamilyInv, RowsStand
  <2> QED BY <2>1, <2>2
<1>3. ASSUME NEW x \in Stored'
      PROVE  tokens'[x].family = family'[x] /\ tokens'[x].user = owner'[x]
             /\ answer'[x] = "pair"
  <2>1. x \in Calls
    BY DEF Stored
  <2>2. CASE x \in Stored
    <3>1. tokens[x].family \in Calls
      BY <1>0, <2>2, RowMarked DEF Token
    <3>2. /\ tokens[x].family = family[x] /\ tokens[x].user = owner[x]
          /\ answer[x] = "pair" /\ family[x] # NoToken
      BY <2>1, <2>2, <3>1, ConstantsAssumption DEF PastInv
    <3>3. family'[x] = family[x] /\ owner'[x] = owner[x]
      BY <2>1, <3>2, LocalsKept
    <3>4. answer'[x] = answer[x]
      BY <1>0, <1>1, <2>1, <2>2 DEF RefreshOK, CallsStand
    <3> QED BY <1>1, <2>2, <3>2, <3>3, <3>4 DEF RowsStand
  <2>3. CASE x \notin Stored
    <3>1. pc[x] = "issue" /\ tokens'[x] = NewToken(x) /\ answer'[x] = "pair"
      BY <1>1, <2>3 DEF RowsStand
    <3>2. family'[x] = family[x] /\ owner'[x] = owner[x]
      BY <1>0, <2>1, <3>1, LocalsKept, ConstantsAssumption DEF LocalsOK
    <3> QED BY <3>1, <3>2 DEF NewToken
  <2> QED BY <2>2, <2>3
<1>4. ASSUME NEW x \in Calls, NEW t \in Calls, x \in before'[t]
      PROVE  t \notin before'[x] /\ family'[x] # t
  <2>1. x \in Over
    BY <1>0, <1>4, BeforeFrom DEF AnswersOK
  <2>2. family'[x] = family[x] /\ before'[x] = before[x]
    BY <1>1, <2>1 DEF CallsStand, Over, Finished
  <2>3. CASE before'[t] = before[t]
    BY <1>4, <2>2, <2>3 DEF PastInv
  <2>4. CASE before'[t] = Over /\ pc[t] = "idle"
    <3>1. t \notin Over /\ t \notin Stored
      BY <1>0, <2>4 DEF Over, RefreshOK, Finished
    <3> QED BY <1>0, <2>1, <2>2, <3>1 DEF AnswersOK, PastInv
  <2> QED BY <2>3, <2>4, BeforeFrom
<1> QED BY <1>2, <1>3, <1>4 DEF PastInv, Stored

-----------------------------------------------------------------------------
(* A call that ended a session and that no call of the session overlaps. *)
Undisturbed(x) == \A c \in Calls : EndedBy(c, x) => ~Overlap(c, x)

(* Calls that have signed an access token. *)
Signed == {c \in Calls : pc[c] = "issue"} \cup Stored

(* A call that arrives after that does not get to rotate a token of the
   session: it finds every one revoked. *)
AfterInv ==
  \A x, t \in Calls :
    Undisturbed(x) /\ EndedBy(t, x) /\ x \in before[t]
      => t \notin Signed /\ pc[t] # "rotate"

LEMMA AfterStep ==
  ASSUME BaseInv, FamilyInv, PastInv, RevocationCoversThePast, AfterInv, [Next]_vars
  PROVE  AfterInv'
<1>0. TypeOK /\ LocalsOK /\ RefreshOK /\ AnswersOK
  BY DEF BaseInv, TypeInv, SessionInv
<1>1. RowsStand /\ CallsStand
  BY RowsStandStep, CallsStandStep DEF BaseInv, SessionInv
<1> SUFFICES ASSUME NEW x \in Calls, NEW t \in Calls,
                    Undisturbed(x)', EndedBy(t, x)', x \in before'[t]
             PROVE  t \notin Signed' /\ pc'[t] # "rotate"
  BY DEF AfterInv
<1>2. x \in Over
  BY <1>0, BeforeFrom DEF AnswersOK
<1>3. /\ answer'[x] = answer[x] /\ family'[x] = family[x]
      /\ req'[x] = req[x] /\ before'[x] = before[x]
  BY <1>1, <1>2 DEF CallsStand, Over, Finished
<1>4. ASSUME NEW c \in Calls, EndedBy(c, x) PROVE family[c] # NoToken
  <2>1. \A f \in before[x] : f \in Calls
    BY <1>0 DEF TypeOK
  <2> QED BY <1>4, <2>1, ConstantsAssumption DEF EndedBy
<1>5. ASSUME NEW c \in Calls, family[c] # NoToken
      PROVE  /\ EndedBy(c, x)' <=> EndedBy(c, x)
             /\ before'[c] = before[c]
  <2>1. family'[c] = family[c] /\ owner'[c] = owner[c]
    BY <1>5, LocalsKept
  <2>2. before'[c] = before[c]
    BY <1>5, BeforeFrom
  <2> QED BY <1>3, <2>1, <2>2 DEF EndedBy
<1>6. Undisturbed(x)
  BY <1>3, <1>4, <1>5 DEF Undisturbed, Overlap
<1>7. CASE family[t] # NoToken
  <2>1. t \notin Signed /\ pc[t] # "rotate"
    BY <1>5, <1>6, <1>7 DEF AfterInv
  <2>2. t \notin Stored'
    BY <1>1, <2>1 DEF RowsStand, Signed
  <2>3. ~LookupToRotate(t) /\ ~FindUser(t) /\ ~MarkRotated(t)
    BY <1>0, <1>7, <2>1 DEF LookupToRotate, FindUser, MarkRotated, AnswersOK
  <2>4. pc'[t] \notin {"rotate", "issue"}
    BY <2>1, <2>3, RefreshAdvances DEF BaseInv, Signed
  <2> QED BY <2>2, <2>4 DEF Signed
<1>8. CASE family[t] = NoToken
  <2>1. family'[t] # family[t]
    <3>1. \A f \in before[x] : f \in Calls
      BY <1>0 DEF TypeOK
    <3> QED BY <1>3, <1>8, <3>1, ConstantsAssumption DEF EndedBy
  <2>2. x \in before[t]
    <3>1. pc[t] # "idle"
      BY <2>1, FamilyFrom DEF FindUser, LookupToRotate, LookupToRevoke
    <3> QED BY <3>1, BeforeFrom
  <2>3. ASSUME FindUser(t), family'[t] = t PROVE FALSE
    BY <1>3, <2>2, <2>3 DEF EndedBy, PastInv
  <2>4. CASE LookupToRevoke(t)
    <3>1. pc[t] = "lookup" /\ tokens' = tokens /\ pc'[t] \notin {"rotate", "issue"}
      BY <1>0, <2>4 DEF LookupToRevoke, Return, Goto, TypeOK
    <3> QED BY <1>0, <3>1 DEF Signed, Stored, RefreshOK, Finished
  <2>5. CASE LookupToRotate(t) /\ req[t].token \in Stored
    <3>1. PICK p \in Stored : p = req[t].token
      BY <2>5
    <3>2. /\ pc[t] = "lookup" /\ tokens' = tokens /\ pc'[t] # "issue"
          /\ family'[t] = tokens[p].family /\ owner'[t] = tokens[p].user
          /\ pc'[t] = "rotate" => ~tokens[p].revoked
      BY <1>0, <2>5, <3>1 DEF LookupToRotate, Return, Goto, TypeOK, IsUsed
    <3>3. /\ p \in Calls /\ tokens[p].family = family[p] /\ tokens[p].user = owner[p]
          /\ answer[p] = "pair"
      BY DEF Stored, PastInv
    <3>4. EndedBy(p, x)
      BY <1>3, <3>2, <3>3 DEF EndedBy
    <3>5. p # x
      BY <3>3, <3>4 DEF EndedBy
    <3>6. x \notin before[p]
      BY <1>6, <3>3, <3>4 DEF AfterInv, Signed
    <3>7. p \in before[x]
      BY <1>6, <3>3, <3>4, <3>5, <3>6 DEF Undisturbed, Overlap
    <3>8. tokens[p].revoked
      BY <3>3, <3>4, <3>7 DEF RevocationCoversThePast, EndedBy
    <3>9. t \notin Stored
      BY <1>0, <3>2 DEF RefreshOK, Finished
    <3> QED BY <3>2, <3>8, <3>9 DEF Signed, Stored
  <2> QED BY <2>1, <2>3, <2>4, <2>5, FamilyFrom
<1> QED BY <1>7, <1>8

LEMMA AfterInvariant == Spec => [](PastInv /\ AfterInv)
<1>1. Init => PastInv /\ AfterInv
  BY ConstantsAssumption DEF Init, PastInv, AfterInv, Stored
<1> QED BY <1>1, PastStep, AfterStep, BaseInvariant, FamilyInvariant, RevocationCorrect,
           PTL DEF Spec

-----------------------------------------------------------------------------
(* Whole seconds: the claim loses less than one. *)
LEMMA NumericDateIs ==
  ASSUME NEW t \in Nat
  PROVE  NumericDate(t) \in 0..t /\ t < NumericDate(t) + Second
<1>1. Second \in Nat /\ Second > 0
  BY ClockAssumption
<1>2. t % Second \in 0..(Second - 1)
  BY <1>1
<1>3. t % Second <= t
  BY <1>1
<1> QED BY <1>1, <1>2, <1>3 DEF NumericDate

(* What is known of a call that has signed, its token and its session. *)
SignedOK ==
  \A c \in Signed :
    /\ access[c] \in Access /\ access[c].subject = owner[c]
    /\ access[c].until = NumericDate(told[c]) /\ told[c] <= clock + TTL
    /\ req[family[c]] \in Login /\ req[family[c]].user = owner[c]

(* What the middleware decided stays what the token, which stays, says. *)
VisitsOK ==
  \A v \in Visits :
    visit[v] # NoVisit =>
      LET c == visit[v].token IN
        /\ visit[v].admitted => c # NoAccess
        /\ c # NoAccess =>
             /\ c \in Stored
             /\ visit[v].admitted <=> visit[v].at < access[c].until
             /\ visit[v].admitted => visit[v].as = access[c].subject

Ending == {"loggedOut", "reuse", "changed"}

(* Tokens signed before a call that ends sessions had returned run out a
   lifetime after it. *)
EndsOK ==
  \A x \in Calls :
    answer[x] \in Ending =>
      \A c \in Stored \cap before[x] : told[c] <= endedAt[x] + TTL

AccessInv == AccessTypeOK /\ SignedOK /\ VisitsOK /\ EndsOK

LEMMA AccessInitial == AccessInit => AccessInv
<1> SUFFICES ASSUME AccessInit PROVE AccessInv
  OBVIOUS
<1>1. Stored = {} /\ Signed = {}
  BY DEF AccessInit, Init, Stored, Signed
<1>2. AccessTypeOK
  BY ClockAssumption DEF AccessInit, AccessTypeOK, Times
<1> QED BY <1>1, <1>2 DEF AccessInit, AccessInv, SignedOK, VisitsOK, EndsOK

(* A call signs once, when it is about to insert. *)
LEMMA SignedFrom ==
  ASSUME BaseInv, BaseInv', PastInv, AccessInv, NEW o \in Calls, SessionStep(o),
         NEW c \in Calls, c \in Signed'
  PROVE  \/ /\ c \in Signed
            /\ family'[c] = family[c] /\ owner'[c] = owner[c]
            /\ access'[c] = access[c] /\ told'[c] = told[c]
         \/ c = o /\ c \notin Signed /\ pc[c] # "issue" /\ pc'[c] = "issue"
<1>0. TypeOK /\ LocalsOK /\ RefreshOK /\ AnswersOK
  BY DEF BaseInv, TypeInv, SessionInv
<1>1. [Next]_vars
  BY DEF SessionStep, Next
<1>2. RowsStand /\ CallsStand
  BY <1>1, RowsStandStep, CallsStandStep DEF BaseInv, SessionInv
<1>3. CASE c \in Signed
  <2>1. family[c] # NoToken
    <3>1. CASE pc[c] = "issue"
      BY <1>0, <3>1, ConstantsAssumption DEF LocalsOK
    <3>2. CASE c \in Stored
      <4>1. tokens[c].family \in Calls
        BY <1>0, <3>2, RowMarked DEF Token
      <4> QED BY <3>2, <4>1, ConstantsAssumption DEF PastInv
    <3> QED BY <1>3, <3>1, <3>2 DEF Signed
  <2>2. family'[c] = family[c] /\ owner'[c] = owner[c]
    BY <1>1, <2>1, LocalsKept
  <2>3. ~(pc[c] # "issue" /\ pc'[c] = "issue")
    BY <1>0, <1>2, <1>3 DEF Signed, RefreshOK, CallsStand, Finished
  <2>4. access'[c] = access[c] /\ told'[c] = told[c]
    BY <2>3 DEF SessionStep, Signs, AccessInv, AccessTypeOK
  <2> QED BY <1>3, <2>2, <2>4
<1>4. CASE c \notin Signed
  <2>1. pc[c] # "issue" /\ pc'[c] = "issue"
    BY <1>2, <1>4 DEF Signed, RowsStand
  <2>2. c = o
    BY <2>1, AloneStep DEF BaseInv, SessionStep, Alone
  <2> QED BY <1>4, <2>1, <2>2
<1> QED BY <1>3, <1>4

LEMMA SignedStep ==
  ASSUME BaseInv, BaseInv', FamilyInv, PastInv, AccessInv, NEW o \in Calls, SessionStep(o)
  PROVE  SignedOK'
<1>0. TypeOK /\ LocalsOK /\ RefreshOK /\ AnswersOK /\ LocalsOK'
  BY DEF BaseInv, TypeInv, SessionInv
<1>1. [Next]_vars
  BY DEF SessionStep, Next
<1>2. CallsStand
  BY <1>1, CallsStandStep DEF BaseInv
<1>3. clock' = clock
  BY DEF SessionStep
<1>4. ASSUME NEW f \in Calls, req[f] \in Login PROVE req'[f] = req[f]
  <2>1. pc[f] # "idle"
    BY <1>0, <1>4, ConstantsAssumption DEF AnswersOK, Request
  <2> QED BY <1>2, <2>1 DEF CallsStand
<1>5. ASSUME NEW c \in Signed
      PROVE  c \in Calls /\ family[c] \in Calls
  <2>1. CASE c \in Stored
    <3>1. tokens[c].family \in Calls
      BY <1>0, <2>1, RowMarked DEF Token
    <3> QED BY <2>1, <3>1 DEF PastInv, Stored
  <2>2. CASE c \in Calls /\ pc[c] = "issue"
    BY <1>0, <2>2 DEF LocalsOK
  <2> QED BY <2>1, <2>2 DEF Signed
<1> SUFFICES ASSUME NEW c \in Calls, c \in Signed'
             PROVE  /\ access'[c] \in Access /\ access'[c].subject = owner'[c]
                    /\ access'[c].until = NumericDate(told'[c])
                    /\ told'[c] <= clock' + TTL
                    /\ req'[family'[c]] \in Login /\ req'[family'[c]].user = owner'[c]
  BY DEF SignedOK, Signed, Stored, NumericDate
<1>6. CASE /\ c \in Signed
           /\ family'[c] = family[c] /\ owner'[c] = owner[c]
           /\ access'[c] = access[c] /\ told'[c] = told[c]
  <2>1. PICK f \in Calls : f = family[c]
    BY <1>5, <1>6
  <2>2. req[f] \in Login /\ req[f].user = owner[c]
    BY <1>6, <2>1 DEF AccessInv, SignedOK
  <2>3. req'[f] = req[f]
    BY <1>4, <2>2
  <2> QED BY <1>3, <1>6, <2>1, <2>2, <2>3 DEF AccessInv, SignedOK
<1>7. CASE c = o /\ c \notin Signed /\ pc[c] # "issue" /\ pc'[c] = "issue"
  <2>1. owner'[c] \in Users /\ family'[c] \in Calls
    BY <1>0, <1>7 DEF LocalsOK
  <2>2. access'[c] = Issued(c) /\ told'[c] = clock + TTL
    BY <1>7 DEF SessionStep, Signs, AccessInv, AccessTypeOK
  <2>3. clock \in 0..MaxTime /\ TTL \in Nat /\ MaxTime \in Nat
    BY ClockAssumption DEF AccessInv, AccessTypeOK, Times
  <2>4. NumericDate(clock + TTL) \in 0..(MaxTime + TTL)
    <3>1. clock + TTL \in Nat /\ clock + TTL <= MaxTime + TTL
      BY <2>3
    <3>2. NumericDate(clock + TTL) \in 0..(clock + TTL)
      BY <3>1, NumericDateIs
    <3> QED BY <2>3, <3>1, <3>2
  <2>5. Issued(c) \in Access /\ Issued(c).subject = owner'[c]
        /\ Issued(c).until = NumericDate(clock + TTL)
    BY <2>1, <2>4 DEF Issued, Access
  <2>6. req'[family'[c]] \in Login /\ req'[family'[c]].user = owner'[c]
    <3>1. CASE LookupToRotate(c)
      BY <1>0, <1>7, <3>1 DEF LookupToRotate, Return, Goto, TypeOK
    <3>2. CASE MarkRotated(c)
      <4>1. pc[c] = "rotate" /\ owner' = owner /\ family' = family /\ req' = req
        BY <3>2 DEF MarkRotated
      <4>2. PICK p \in Stored : p = req[c].token
        BY <1>0, <4>1 DEF LocalsOK
      <4>3. tokens[p].user = owner[c] /\ tokens[p].family = family[c]
        BY <1>0, <4>1, <4>2 DEF RefreshOK
      <4>4. family[p] = family[c] /\ owner[p] = owner[c]
        BY <4>3 DEF PastInv, Stored
      <4> QED BY <4>1, <4>4 DEF AccessInv, SignedOK, Signed
    <3>3. CASE FindUser(c)
      <4>1. req[c] \in Login /\ req' = req
        BY <1>0, <3>3 DEF FindUser, LocalsOK
      <4>2. family'[c] = c /\ owner'[c] = req[c].user
        BY <1>0, <1>7, <3>3 DEF FindUser, Return, Goto, TypeOK
      <4> QED BY <4>1, <4>2
    <3> QED BY <1>1, <1>7, <3>1, <3>2, <3>3, RefreshAdvances DEF BaseInv
  <2> QED BY <1>3, <2>2, <2>3, <2>5, <2>6
<1> QED BY <1>6, <1>7, SignedFrom

LEMMA AccessTypeStep ==
  ASSUME BaseInv, BaseInv', FamilyInv, PastInv, AccessInv, NEW o \in Calls, SessionStep(o)
  PROVE  AccessTypeOK'
<1>1. SignedOK'
  BY SignedStep
<1>2. clock \in 0..MaxTime /\ TTL \in Nat /\ MaxTime \in Nat
  BY ClockAssumption DEF AccessInv, AccessTypeOK, Times
<1>3. /\ access' \in [Calls -> Access \cup {NoAccess}]
      /\ told' \in [Calls -> 0..(MaxTime + TTL)]
  <2>1. CASE pc[o] # "issue" /\ pc'[o] = "issue"
    <3>1. /\ access' = [access EXCEPT ![o] = Issued(o)]
          /\ told' = [told EXCEPT ![o] = clock + TTL]
      BY <2>1 DEF SessionStep, Signs
    <3>2. access'[o] \in Access
      BY <1>1, <2>1 DEF SignedOK, Signed
    <3>3. access'[o] = Issued(o)
      BY <3>1 DEF AccessInv, AccessTypeOK
    <3>4. clock + TTL \in 0..(MaxTime + TTL)
      BY <1>2
    <3> QED BY <3>1, <3>2, <3>3, <3>4 DEF AccessInv, AccessTypeOK
  <2>2. CASE ~(pc[o] # "issue" /\ pc'[o] = "issue")
    BY <2>2 DEF SessionStep, Signs, AccessInv, AccessTypeOK
  <2> QED BY <2>1, <2>2
<1>4. clock' = clock /\ visit' = visit /\ endedAt' \in [Calls -> Times]
  BY DEF SessionStep, AccessInv, AccessTypeOK
<1> QED BY <1>3, <1>4 DEF AccessInv, AccessTypeOK

(* A call that ends sessions notes the time when it returns. *)
LEMMA EndsNoted ==
  ASSUME BaseInv, BaseInv', PastInv, AccessInv, SignedOK', NEW o \in Calls, SessionStep(o)
  PROVE  EndsOK'
<1>0. TypeOK /\ LocalsOK /\ RefreshOK /\ AnswersOK /\ AnswersOK'
  BY DEF BaseInv, TypeInv, SessionInv
<1>1. [Next]_vars /\ clock' = clock
  BY DEF SessionStep, Next
<1>2. RowsStand /\ CallsStand
  BY <1>1, RowsStandStep, CallsStandStep DEF BaseInv, SessionInv
<1> SUFFICES ASSUME NEW x \in Calls, answer'[x] \in Ending,
                    NEW c \in Calls, c \in Stored', c \in before'[x]
             PROVE  told'[c] <= endedAt'[x] + TTL
  BY DEF EndsOK, Stored
<1>3. CASE endedAt'[x] = clock
  BY <1>1, <1>3 DEF SignedOK, Signed
<1>4. CASE endedAt'[x] # clock
  <2>1. endedAt'[x] = endedAt[x]
    BY <1>4 DEF SessionStep, AccessInv, AccessTypeOK
  <2>2. answer'[x] = answer[x]
    <3>1. CASE x # o
      BY <3>1, AloneStep DEF BaseInv, SessionStep, Alone
    <3>2. CASE x = o /\ pc[x] = "respond"
      BY <1>2, <3>2 DEF CallsStand, Finished
    <3>3. CASE x = o /\ pc'[x] # "respond"
      BY <1>0, <3>3
         DEF TypeOK, SessionStep, Receive, Step, FindUser, Issue, LookupToRotate,
             LookupToRevoke, RevokeReused, MarkRotated, RevokeFamily, RevokeAll, GetUser,
             UpdatePassword, CreateUser, Respond, FaultStep, StatementFails, Crash,
             LoseResponse, Return, Goto
    <3>4. CASE x = o /\ pc[x] # "respond" /\ pc'[x] = "respond"
      BY <1>4, <3>4 DEF SessionStep, Ending, AccessInv, AccessTypeOK
    <3> QED BY <3>1, <3>2, <3>3, <3>4
  <2>3. pc[x] # "idle" /\ before'[x] = before[x]
    <3>1. pc[x] \in {"respond", "done", "lost"}
      BY <1>0, <2>2 DEF AnswersOK, Ending
    <3> QED BY <1>2, <3>1 DEF CallsStand
  <2>4. c \in Stored
    <3>1. c \in Over
      BY <1>0, <2>3 DEF AnswersOK
    <3> QED BY <1>2, <3>1 DEF RowsStand, Over, Finished
  <2>5. told'[c] = told[c]
    BY <2>4, SignedFrom DEF Signed
  <2> QED BY <2>1, <2>2, <2>3, <2>4, <2>5 DEF AccessInv, EndsOK
<1> QED BY <1>3, <1>4

LEMMA VisitsStep ==
  ASSUME BaseInv, BaseInv', PastInv, AccessInv, NEW o \in Calls, SessionStep(o)
  PROVE  VisitsOK'
<1>1. [Next]_vars /\ visit' = visit
  BY DEF SessionStep, Next
<1>2. RowsStand
  BY <1>1, RowsStandStep DEF BaseInv, SessionInv
<1>3. ASSUME NEW c \in Stored PROVE c \in Stored' /\ access'[c] = access[c]
  <2>1. c \in Calls /\ c \in Signed /\ c \in Signed'
    BY <1>2 DEF RowsStand, Signed, Stored
  <2> QED BY <1>2, <2>1, SignedFrom DEF RowsStand
<1>4. ASSUME NEW v \in Visits, visit[v] # NoVisit, NEW c, c = visit[v].token, c # NoAccess
      PROVE  /\ c \in Stored'
             /\ visit'[v].admitted <=> visit'[v].at < access'[c].until
             /\ visit'[v].admitted => visit'[v].as = access'[c].subject
  <2>1. /\ c \in Stored
        /\ visit[v].admitted <=> visit[v].at < access[c].until
        /\ visit[v].admitted => visit[v].as = access[c].subject
    BY <1>4 DEF AccessInv, VisitsOK
  <2> QED BY <1>1, <1>3, <2>1
<1> QED BY <1>1, <1>4 DEF AccessInv, VisitsOK

(* The clock and the middleware leave the sessions and the tokens alone. *)
LEMMA TickStep ==
  ASSUME AccessInv, Tick
  PROVE  AccessInv'
<1>1. /\ vars' = vars /\ access' = access /\ told' = told /\ visit' = visit
      /\ endedAt' = endedAt /\ clock' = clock + 1 /\ clock < MaxTime
  BY DEF Tick, vars
<1>2. clock \in 0..MaxTime /\ MaxTime \in Nat /\ TTL \in Nat
  BY ClockAssumption DEF AccessInv, AccessTypeOK, Times
<1>3. Signed' = Signed /\ Stored' = Stored
  BY <1>1 DEF vars, Signed, Stored
<1>4. AccessTypeOK'
  BY <1>1, <1>2 DEF AccessInv, AccessTypeOK, Times
<1>5. SignedOK'
  <2>1. ASSUME NEW c \in Signed PROVE told[c] <= clock + 1 + TTL
    <3>1. told[c] \in 0..(MaxTime + TTL) /\ told[c] <= clock + TTL
      BY DEF AccessInv, AccessTypeOK, SignedOK, Signed, Stored
    <3> QED BY <1>2, <3>1
  <2> QED BY <1>1, <1>3, <2>1 DEF vars, AccessInv, SignedOK, NumericDate
<1>6. VisitsOK'
  BY <1>1, <1>3 DEF AccessInv, VisitsOK
<1>7. EndsOK'
  BY <1>1, <1>3 DEF vars, AccessInv, EndsOK
<1> QED BY <1>4, <1>5, <1>6, <1>7 DEF AccessInv

LEMMA VisitStep ==
  ASSUME BaseInv, AccessInv, NEW v \in Visits, RequireAuth(v)
  PROVE  AccessInv'
<1>0. TypeOK /\ AnswersOK
  BY DEF BaseInv, TypeInv
<1>1. /\ vars' = vars /\ access' = access /\ told' = told
      /\ endedAt' = endedAt /\ clock' = clock
  BY DEF RequireAuth, vars
<1>2. Signed' = Signed /\ Stored' = Stored
  BY <1>1 DEF vars, Signed, Stored
<1>3. PICK c \in Delivered \cup {NoAccess} :
        visit' = [visit EXCEPT ![v] =
          [token |-> c, at |-> clock, admitted |-> Parses(c),
           as |-> IF Parses(c) THEN access[c].subject ELSE NoUser]]
  BY DEF RequireAuth
<1>4. c # NoAccess => c \in Stored /\ c \in Calls /\ access[c] \in Access
  BY <1>0 DEF Delivered, AnswersOK, AccessInv, SignedOK, Signed
<1>5. Parses(c) \in BOOLEAN /\ (Parses(c) => c # NoAccess)
  BY ClockAssumption DEF Parses
<1>6. c # NoAccess => (Parses(c) <=> clock < access[c].until)
  BY <1>4 DEF Parses
<1> DEFINE w == [token |-> c, at |-> clock, admitted |-> Parses(c),
                 as |-> IF Parses(c) THEN access[c].subject ELSE NoUser]
<1>7. w \in Visit
  <2>1. (IF Parses(c) THEN access[c].subject ELSE NoUser) \in Users \cup {NoUser}
    BY <1>4, <1>5 DEF Access
  <2>2. c \in Calls \cup {NoAccess} /\ clock \in Times
    BY <1>4 DEF AccessInv, AccessTypeOK
  <2> QED BY <1>5, <2>1, <2>2 DEF Visit
<1>8. visit'[v] = w /\ \A u \in Visits \ {v} : visit'[u] = visit[u]
  BY <1>3 DEF AccessInv, AccessTypeOK
<1>9. /\ w.token = c /\ w.at = clock /\ (w.admitted <=> Parses(c))
      /\ Parses(c) => w.as = access[c].subject
  OBVIOUS
<1> HIDE DEF w
<1>10. AccessTypeOK'
  <2>1. visit' = [visit EXCEPT ![v] = w]
    BY <1>3 DEF w
  <2> QED BY <1>1, <1>7, <2>1 DEF AccessInv, AccessTypeOK
<1>11. SignedOK' /\ EndsOK'
  BY <1>1, <1>2 DEF vars, AccessInv, SignedOK, EndsOK, NumericDate
<1>12. VisitsOK'
  <2>1. ASSUME NEW u \in Visits \ {v}, visit'[u] # NoVisit, NEW d, d = visit'[u].token
        PROVE  /\ visit'[u].admitted => d # NoAccess
               /\ d # NoAccess =>
                    /\ d \in Stored'
                    /\ visit'[u].admitted <=> visit'[u].at < access'[d].until
                    /\ visit'[u].admitted => visit'[u].as = access'[d].subject
    BY <1>1, <1>2, <1>8, <2>1 DEF AccessInv, VisitsOK
  <2>2. /\ w.admitted => c # NoAccess
        /\ c # NoAccess =>
             /\ c \in Stored'
             /\ w.admitted <=> w.at < access'[c].until
             /\ w.admitted => w.as = access'[c].subject
    BY <1>1, <1>2, <1>4, <1>5, <1>6, <1>9
  <2> QED BY <1>8, <1>9, <2>1, <2>2 DEF VisitsOK
<1> QED BY <1>10, <1>11, <1>12 DEF AccessInv

LEMMA AccessStep ==
  ASSUME BaseInv, BaseInv', FamilyInv, PastInv, AccessInv, [AccessNext]_allVars
  PROVE  AccessInv'
<1>1. ASSUME NEW o \in Calls, SessionStep(o) PROVE AccessInv'
  BY <1>1, AccessTypeStep, SignedStep, VisitsStep, EndsNoted DEF AccessInv
<1>2. CASE UNCHANGED allVars
  <2>1. Signed' = Signed /\ Stored' = Stored
    BY <1>2 DEF allVars, vars, Signed, Stored
  <2> QED BY <1>2, <2>1 DEF allVars, tokenVars, vars, AccessInv, AccessTypeOK, SignedOK,
                            VisitsOK, EndsOK, NumericDate
<1> QED BY <1>1, <1>2, TickStep, VisitStep DEF AccessNext

LEMMA AccessInvariant == AccessSpec => []AccessInv
<1>1. AccessSpec => [](BaseInv /\ FamilyInv /\ PastInv)
  BY SessionsBeneath, BaseInvariant, FamilyInvariant, AfterInvariant, PTL
<1> QED BY <1>1, AccessInitial, AccessStep, PTL DEF AccessSpec

(* The types of the tokens, of the clock and of what the middleware decided. *)
THEOREM AccessTypesCorrect == AccessSpec => []AccessTypeOK
<1>1. AccessInv => AccessTypeOK
  BY DEF AccessInv
<1> QED BY <1>1, AccessInvariant, PTL

(* A browser that goes by expires_at is not turned away, and a request runs as
   the person whose password opened the session. *)
THEOREM TokensCorrect == AccessSpec => []TokensServeTheirOwner
<1>1. AccessInv => FreshTokenIsAdmitted
  <2> SUFFICES ASSUME AccessInv, NEW v \in Visits, visit[v] # NoVisit,
                      NEW c, c = visit[v].token, c # NoAccess,
                      visit[v].at + Second <= told[c]
               PROVE  visit[v].admitted
    BY DEF FreshTokenIsAdmitted
  <2>1. c \in Stored /\ (visit[v].admitted <=> visit[v].at < access[c].until)
    BY DEF AccessInv, VisitsOK
  <2>2. access[c].until = NumericDate(told[c])
    BY <2>1 DEF AccessInv, SignedOK, Signed
  <2>3. visit[v].at \in Nat /\ told[c] \in Nat
    <3>1. visit[v] \in Visit
      BY DEF AccessInv, AccessTypeOK
    <3> QED BY <2>1, <3>1, ClockAssumption
            DEF Visit, Times, Stored, AccessInv, AccessTypeOK
  <2>4. NumericDate(told[c]) \in Nat /\ told[c] < NumericDate(told[c]) + Second
    BY <2>3, NumericDateIs
  <2> QED BY <2>1, <2>2, <2>3, <2>4, ClockAssumption
<1>2. AccessInv => RunsAsWhoLoggedIn
  <2> SUFFICES ASSUME AccessInv, NEW v \in Admitted,
                      NEW c, c = visit[v].token
               PROVE  /\ req[family[c]].kind = "login"
                      /\ visit[v].as = req[family[c]].user
    BY DEF RunsAsWhoLoggedIn
  <2>1. c \in Stored /\ visit[v].as = access[c].subject
    BY DEF Admitted, AccessInv, VisitsOK
  <2> QED BY <2>1 DEF AccessInv, SignedOK, Signed, Login
<1> QED BY <1>1, <1>2, AccessInvariant, PTL DEF TokensServeTheirOwner

(* Access ends one token lifetime after the session does, whoever holds tokens of
   it, as long as no refresh of it was in flight with the call that ended it. *)
THEOREM EndsCorrect == AccessSpec => []AccessEndsWithSession
<1>1. ASSUME BaseInv, PastInv, AfterInv, AccessInv
      PROVE  AccessEndsWithSession
  <2> SUFFICES ASSUME NEW x \in Calls, Undisturbed(x), NEW v \in Admitted,
                      NEW c, c = visit[v].token, EndedBy(c, x)
               PROVE  visit[v].at < endedAt[x] + TTL
    BY DEF AccessEndsWithSession, Undisturbed
  <2>1. c \in Stored /\ c \in Signed /\ c \in Calls /\ visit[v].at < access[c].until
    BY <1>1 DEF Admitted, AccessInv, VisitsOK, Signed, Stored
  <2>2. c # x
    BY <1>1, <2>1 DEF PastInv, EndedBy
  <2>3. x \notin before[c]
    BY <1>1, <2>1 DEF AfterInv
  <2>4. c \in before[x]
    BY <2>1, <2>2, <2>3 DEF Undisturbed, Overlap
  <2>5. told[c] <= endedAt[x] + TTL
    BY <1>1, <2>1, <2>4 DEF AccessInv, EndsOK, Ending, EndedBy
  <2>6. access[c].until = NumericDate(told[c])
    BY <1>1, <2>1 DEF AccessInv, SignedOK
  <2>7. visit[v].at \in Nat /\ told[c] \in Nat /\ endedAt[x] \in Nat
    <3>1. visit[v] \in Visit
      BY <1>1 DEF Admitted, AccessInv, AccessTypeOK
    <3> QED BY <1>1, <2>1, <3>1, ClockAssumption
            DEF Visit, Times, AccessInv, AccessTypeOK
  <2>8. NumericDate(told[c]) \in 0..told[c]
    BY <2>7, NumericDateIs
  <2> QED BY <2>1, <2>5, <2>6, <2>7, <2>8, ClockAssumption
<1>2. AccessSpec => [](BaseInv /\ PastInv /\ AfterInv)
  BY SessionsBeneath, BaseInvariant, AfterInvariant, PTL
<1> QED BY <1>1, <1>2, AccessInvariant, PTL

=============================================================================
