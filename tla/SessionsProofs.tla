--------------------------- MODULE SessionsProofs ---------------------------
(***************************************************************************)
(* Theorems about Sessions, for any number of calls, devices, users and    *)
(* passwords, any requests and any of the faults.                          *)
(***************************************************************************)
EXTENDS SessionsRefinement, FiniteSetTheorems, TLAPS

Looking == {"lookup", "revokeReused", "rotate", "revokeFamily"}

(* What the locals hold at each label: the strengthening TypeOK needs, for an
   insert writes owner and family, and an update the new password. *)
LocalsOK ==
  \A c \in Calls :
    /\ pc[c] # "idle" => req[c] \in Request
    /\ pc[c] = "findUser" => req[c] \in Login
    /\ pc[c] \in Looking =>
         req[c] \in Refresh \cup Logout /\ req[c].token \in Calls
    /\ pc[c] \in {"getUser", "updatePassword", "revokeAll"} => req[c] \in Change
    /\ pc[c] = "updatePassword" => req[c].new \in Passwords
    /\ pc[c] = "createUser" =>
         req[c] \in Create \cup Ensure /\ req[c].password \in Passwords
    /\ pc[c] = "rotate" => req[c].token \in Stored
    /\ pc[c] \in {"rotate", "issue"} => owner[c] \in Users /\ family[c] \in Calls

TypeInv == TypeOK /\ LocalsOK

LEMMA TypeInit == Init => TypeInv
  BY ConstantsAssumption
  DEF Init, TypeInv, TypeOK, LocalsOK, Labels, Answers, Cookie, Looking

(* A revocation marks rows and keeps everything else of them. *)
LEMMA RevokedKeeps ==
  ASSUME TypeOK, NEW S \in SUBSET Stored
  PROVE  /\ Revoked(S) \in [Calls -> Token \cup {NoToken}]
         /\ \A t \in Calls : Revoked(S)[t] = NoToken <=> tokens[t] = NoToken
         /\ \A t \in Stored :
              /\ Revoked(S)[t].user = tokens[t].user
              /\ Revoked(S)[t].family = tokens[t].family
              /\ Revoked(S)[t].rotated = tokens[t].rotated
              /\ Revoked(S)[t].expired = tokens[t].expired
              /\ Revoked(S)[t].revoked <=> tokens[t].revoked \/ t \in S
<1>1. \A t \in Stored : tokens[t] \in Token /\ t \in Calls
  BY DEF TypeOK, Stored
<1>2. \A t \in Calls : ~(t \in Stored) => tokens[t] = NoToken
  BY DEF Stored
<1>3. \A t \in S : [tokens[t] EXCEPT !.revoked = TRUE] \in Token
  BY <1>1 DEF Token
<1>4. NoToken \notin Token
  BY ConstantsAssumption
<1>5. Revoked(S) \in [Calls -> Token \cup {NoToken}]
  BY <1>3 DEF Revoked, TypeOK
<1>6. \A t \in Calls : Revoked(S)[t] = NoToken <=> tokens[t] = NoToken
  BY <1>1, <1>2, <1>3, <1>4 DEF Revoked
<1>7. ASSUME NEW t \in Stored
      PROVE  /\ Revoked(S)[t].user = tokens[t].user
             /\ Revoked(S)[t].family = tokens[t].family
             /\ Revoked(S)[t].rotated = tokens[t].rotated
             /\ Revoked(S)[t].expired = tokens[t].expired
             /\ Revoked(S)[t].revoked <=> tokens[t].revoked \/ t \in S
  BY <1>1, <1>7 DEF Revoked, Token
<1> QED BY <1>5, <1>6, <1>7

(* Marking a row as rotated or as expired leaves a row of the same session. *)
LEMMA RowMarked ==
  ASSUME TypeOK, NEW t \in Stored
  PROVE  /\ [tokens[t] EXCEPT !.rotated = TRUE] \in Token
         /\ [tokens[t] EXCEPT !.expired = TRUE] \in Token
         /\ tokens[t] \in Token
<1>1. tokens[t] \in Token
  BY DEF TypeOK, Stored
<1> QED BY <1>1 DEF Token

LEMMA TypeReceive ==
  ASSUME TypeInv, NEW c \in Calls, Receive(c)
  PROVE  TypeInv'
<1> USE ConstantsAssumption
    DEF TypeInv, TypeOK, LocalsOK, Labels, Answers, Cookie, Looking, Stored
<1>1. PICK r \in Arriving :
        /\ req' = [req EXCEPT ![c] = r]
        /\ CASE r.kind = "refresh" /\ r.token = NoToken -> Return(c, "invalidToken")
             [] r.kind = "logout" /\ r.token = NoToken -> Return(c, "loggedOut")
             [] r.kind \in {"create", "ensure"} /\ ~Acceptable(r.password) ->
                  Return(c, "weakPassword")
             [] OTHER -> Goto(c, FirstStatement[r.kind]) /\ UNCHANGED answer
  BY DEF Receive
<1>2. r \in Request
  BY DEF Arriving
<1>3. /\ before' = [before EXCEPT ![c] = Over]
      /\ Over \in SUBSET Calls
      /\ UNCHANGED <<password, tokens, jar, owner, family>>
  BY DEF Receive, Over
<1>4. CASE \E a \in Answers : Return(c, a)
  BY <1>1, <1>2, <1>3, <1>4 DEF Return, Goto
<1>5. CASE /\ Goto(c, FirstStatement[r.kind]) /\ UNCHANGED answer
           /\ r.kind \in {"refresh", "logout"} => r.token # NoToken
           /\ r.kind \in {"create", "ensure"} => Acceptable(r.password)
  <2>1. CASE r \in Login
    BY <1>1, <1>2, <1>3, <1>5, <2>1 DEF Login, FirstStatement, Goto
  <2>2. CASE r \in Refresh \cup Logout
    BY <1>1, <1>2, <1>3, <1>5, <2>2 DEF Refresh, Logout, FirstStatement, Goto
  <2>3. CASE r \in Change
    BY <1>1, <1>2, <1>3, <1>5, <2>3 DEF Change, FirstStatement, Goto
  <2>4. CASE r \in Create \cup Ensure
    BY <1>1, <1>2, <1>3, <1>5, <2>4
       DEF Create, Ensure, FirstStatement, Goto, Acceptable
  <2> QED BY <1>2, <2>1, <2>2, <2>3, <2>4 DEF Request
<1> QED BY <1>1, <1>4, <1>5

(* The steps of Login and of the password change. *)
LEMMA TypeAccounts ==
  ASSUME TypeInv, NEW c \in Calls,
         FindUser(c) \/ GetUser(c) \/ UpdatePassword(c) \/ CreateUser(c)
  PROVE  TypeInv'
<1> USE ConstantsAssumption
    DEF TypeInv, TypeOK, LocalsOK, Labels, Answers, Cookie, Looking, Stored, Goto,
        Return
<1>1. CASE FindUser(c)
  BY <1>1 DEF FindUser, Login
<1>2. CASE GetUser(c)
  BY <1>2 DEF GetUser, Change, Acceptable
<1>3. CASE UpdatePassword(c)
  BY <1>3 DEF UpdatePassword, Change
<1>4. CASE CreateUser(c)
  BY <1>4 DEF CreateUser, Create, Ensure
<1> QED BY <1>1, <1>2, <1>3, <1>4

LEMMA TypeTokens ==
  ASSUME TypeInv, NEW c \in Calls,
         Issue(c) \/ LookupToRotate(c) \/ LookupToRevoke(c) \/ MarkRotated(c)
  PROVE  TypeInv'
<1> USE ConstantsAssumption
    DEF TypeInv, TypeOK, LocalsOK, Labels, Answers, Cookie, Looking, Stored, Goto,
        Return
<1>1. CASE Issue(c)
  <2>1. NewToken(c) \in Token
    BY <1>1 DEF Issue, NewToken, Token
  <2> QED BY <1>1, <2>1 DEF Issue
<1>2. CASE LookupToRotate(c)
  BY <1>2 DEF LookupToRotate, Token
<1>3. CASE LookupToRevoke(c)
  BY <1>3 DEF LookupToRevoke, Token
<1>4. CASE MarkRotated(c)
  <2>1. /\ req[c].token \in Stored
        /\ [tokens[req[c].token] EXCEPT !.rotated = TRUE] \in Token
    BY <1>4, RowMarked DEF MarkRotated
  <2>2. owner[c] \in Users /\ family[c] \in Calls
    BY <1>4 DEF MarkRotated
  <2> QED BY <1>4, <2>1, <2>2 DEF MarkRotated
<1> QED BY <1>1, <1>2, <1>3, <1>4

LEMMA TypeRevoke ==
  ASSUME TypeInv, NEW c \in Calls,
         RevokeReused(c) \/ RevokeFamily(c) \/ RevokeAll(c)
  PROVE  TypeInv'
<1>1. PICK S \in SUBSET Stored : tokens' = Revoked(S)
  BY DEF RevokeReused, RevokeFamily, RevokeAll, FamilyOf
<1>2. /\ tokens' \in [Calls -> Token \cup {NoToken}]
      /\ Stored' = Stored
  BY <1>1, RevokedKeeps DEF TypeInv, Stored
<1> HIDE DEF Stored
<1> QED BY <1>2 DEF TypeInv, TypeOK, LocalsOK, Labels, Answers, Looking, Goto,
                    Return, RevokeReused, RevokeFamily, RevokeAll

LEMMA TypeOutside ==
  ASSUME TypeInv, NEW c \in Calls, Respond(c) \/ Expire(c) \/ FaultStep(c)
  PROVE  TypeInv'
<1> USE ConstantsAssumption
    DEF TypeInv, TypeOK, LocalsOK, Labels, Answers, Cookie, Looking, Stored, Goto,
        Return
<1>1. CASE Respond(c)
  <2>1. ASSUME req[c].device \in Devices PROVE CookieAfter(c) \in Cookie
    BY <2>1 DEF CookieAfter
  <2>2. jar' \in [Devices -> Cookie]
    BY <1>1, <2>1 DEF Respond
  <2> QED BY <1>1, <2>2 DEF Respond
<1>2. CASE Expire(c)
  <2>1. [tokens[c] EXCEPT !.expired = TRUE] \in Token
    BY <1>2, RowMarked DEF Expire
  <2> QED BY <1>2, <2>1 DEF Expire
<1>3. CASE StatementFails(c)
  BY <1>3 DEF StatementFails, InFlight, Finished
<1>4. CASE Crash(c)
  BY <1>4 DEF Crash, InFlight, Finished
<1>5. CASE LoseResponse(c)
  BY <1>5 DEF LoseResponse
<1> QED BY <1>1, <1>2, <1>3, <1>4, <1>5 DEF FaultStep

LEMMA TypeStep == TypeInv /\ [Next]_vars => TypeInv'
<1>1. ASSUME TypeInv, UNCHANGED vars PROVE TypeInv'
  BY <1>1 DEF TypeInv, TypeOK, LocalsOK, Stored, vars
<1>2. ASSUME TypeInv, NEW c \in Calls,
             Receive(c) \/ Step(c) \/ Expire(c) \/ FaultStep(c)
      PROVE  TypeInv'
  BY <1>2, TypeReceive, TypeAccounts, TypeTokens, TypeRevoke, TypeOutside DEF Step
<1> QED BY <1>1, <1>2 DEF Next

LEMMA TypeInvariant == Spec => []TypeInv
  BY TypeInit, TypeStep, PTL DEF Spec

(* Every variable keeps its type, also under every fault: passwords that are
   stored are acceptable ones, and rows hold users and families. *)
THEOREM TypeCorrect == Spec => []TypeOK
<1>1. TypeInv => TypeOK
  BY DEF TypeInv
<1> QED BY <1>1, TypeInvariant, PTL

-----------------------------------------------------------------------------
(* What Refresh learned of the token it presented stays true until it inserts
   the successor, and nothing is inserted by a call that goes on. *)
RefreshOK ==
  \A c \in Calls :
    /\ c \in Stored => pc[c] \in Finished
    /\ pc[c] = "rotate" => IsRefresh(c)
    /\ pc[c] \in {"rotate", "issue"} /\ IsRefresh(c) =>
         LET parent == req[c].token IN
           /\ parent \in Stored
           /\ tokens[parent].user = owner[c]
           /\ tokens[parent].family = family[c]
           /\ pc[c] = "issue" => tokens[parent].rotated

SessionInv == RefreshOK /\ SuccessorContinuesSession

(* What a step may do to the table: rows stay, keep their session and are never
   unmarked, and the row that is new is the one a call was to insert. *)
RowsStand ==
  /\ \A t \in Stored :
       /\ t \in Stored'
       /\ tokens'[t].user = tokens[t].user
       /\ tokens'[t].family = tokens[t].family
       /\ tokens[t].rotated => tokens'[t].rotated
       /\ tokens[t].revoked => tokens'[t].revoked
       /\ tokens[t].expired => tokens'[t].expired
  /\ \A t \in Stored' :
       t \notin Stored => /\ pc[t] = "issue" /\ pc'[t] = "respond"
                         /\ tokens'[t] = NewToken(t) /\ answer'[t] = "pair"

LEMMA RowsStandStep ==
  ASSUME TypeInv, RefreshOK, [Next]_vars
  PROVE  RowsStand
<1> USE DEF RowsStand
<1>0. TypeOK /\ LocalsOK
  BY DEF TypeInv
<1>1. CASE tokens' = tokens
  BY <1>1 DEF Stored
<1>2. ASSUME NEW S \in SUBSET Stored, tokens' = Revoked(S) PROVE RowsStand
  BY <1>0, <1>2, RevokedKeeps DEF Stored
<1>3. ASSUME NEW c \in Calls, Issue(c) PROVE RowsStand
  <2>1. c \notin Stored
    BY <1>3 DEF Issue, RefreshOK, Finished
  <2>2. tokens' = [tokens EXCEPT ![c] = NewToken(c)] /\ pc[c] = "issue"
        /\ pc'[c] = "respond" /\ answer'[c] = "pair"
    BY <1>0, <1>3 DEF Issue, Return, Goto, TypeOK
  <2> QED BY <1>0, <2>1, <2>2 DEF TypeOK, Stored
<1>4. ASSUME NEW c \in Calls, MarkRotated(c) PROVE RowsStand
  <2>1. PICK t \in Stored : tokens' = [tokens EXCEPT ![t].rotated = TRUE]
    BY <1>0, <1>4 DEF MarkRotated, LocalsOK
  <2> QED BY <1>0, <2>1, RowMarked, ConstantsAssumption DEF TypeOK, Stored, Token
<1>5. ASSUME NEW t \in Calls, Expire(t) PROVE RowsStand
  <2>1. t \in Stored /\ tokens' = [tokens EXCEPT ![t].expired = TRUE]
    BY <1>5 DEF Expire
  <2> QED BY <1>0, <2>1, RowMarked, ConstantsAssumption DEF TypeOK, Stored, Token
<1>6. ASSUME NEW c \in Calls, RevokeReused(c) \/ RevokeFamily(c) \/ RevokeAll(c)
      PROVE  RowsStand
  <2>1. PICK S \in SUBSET Stored : tokens' = Revoked(S)
    BY <1>6 DEF RevokeReused, RevokeFamily, RevokeAll, FamilyOf
  <2> QED BY <2>1, <1>2
<1>7. ASSUME NEW c \in Calls,
             \/ Receive(c) \/ FindUser(c) \/ LookupToRotate(c) \/ LookupToRevoke(c)
             \/ GetUser(c) \/ UpdatePassword(c) \/ CreateUser(c) \/ Respond(c)
             \/ FaultStep(c)
      PROVE  tokens' = tokens
  BY <1>7 DEF Receive, FindUser, LookupToRotate, LookupToRevoke, GetUser,
              UpdatePassword, CreateUser, Respond, FaultStep, StatementFails,
              Crash, LoseResponse
<1>8. CASE UNCHANGED vars
  BY <1>1, <1>8 DEF vars
<1> QED BY <1>1, <1>3, <1>4, <1>5, <1>6, <1>7, <1>8 DEF Next, Step

(* What a step may do to a call: a request that has arrived is not exchanged,
   and a call whose method has returned keeps what it returned with. *)
CallsStand ==
  \A c \in Calls :
    /\ pc[c] # "idle" => pc'[c] # "idle" /\ req'[c] = req[c] /\ before'[c] = before[c]
    /\ pc[c] \in Finished =>
         /\ pc'[c] \in Finished
         /\ answer'[c] = answer[c] /\ family'[c] = family[c]
    /\ pc[c] \in {"respond", "done", "lost"} =>
         pc'[c] \in {"respond", "done", "lost"}

LEMMA CallsStandStep ==
  ASSUME TypeInv, [Next]_vars
  PROVE  CallsStand
<1> USE DEF CallsStand, Finished
<1>0. TypeOK
  BY DEF TypeInv
<1>1. CASE UNCHANGED vars
  BY <1>1 DEF vars
<1>2. ASSUME NEW c \in Calls, Receive(c) PROVE CallsStand
  BY <1>0, <1>2 DEF TypeOK, Receive, Return, Goto
<1>3. ASSUME NEW c \in Calls, FindUser(c) \/ Issue(c) \/ LookupToRotate(c)
      PROVE  CallsStand
  BY <1>0, <1>3 DEF TypeOK, FindUser, Issue, LookupToRotate, Return, Goto
<1>4. ASSUME NEW c \in Calls,
             RevokeReused(c) \/ MarkRotated(c) \/ LookupToRevoke(c) \/ RevokeFamily(c)
      PROVE  CallsStand
  BY <1>0, <1>4
     DEF TypeOK, RevokeReused, MarkRotated, LookupToRevoke, RevokeFamily, Return, Goto
<1>5. ASSUME NEW c \in Calls,
             GetUser(c) \/ UpdatePassword(c) \/ RevokeAll(c) \/ CreateUser(c)
      PROVE  CallsStand
  BY <1>0, <1>5
     DEF TypeOK, GetUser, UpdatePassword, RevokeAll, CreateUser, Return, Goto
<1>6. ASSUME NEW c \in Calls, Respond(c) \/ Expire(c) \/ FaultStep(c) PROVE CallsStand
  BY <1>0, <1>6
     DEF TypeOK, Respond, Expire, FaultStep, StatementFails, Crash, LoseResponse,
         InFlight, Return, Goto
<1> QED BY <1>1, <1>2, <1>3, <1>4, <1>5, <1>6 DEF Next, Step

(* How a refresh comes to rotate and to insert: a lookup that found the token,
   an update that marked it, or nothing that concerns it. *)
LEMMA RefreshAdvances ==
  ASSUME TypeInv, [Next]_vars, NEW c \in Calls, pc'[c] \in {"rotate", "issue"}
  PROVE  \/ LookupToRotate(c)
         \/ MarkRotated(c)
         \/ FindUser(c) /\ ~IsRefresh(c)
         \/ pc'[c] = pc[c] /\ owner'[c] = owner[c] /\ family'[c] = family[c]
<1>0. TypeOK /\ LocalsOK
  BY DEF TypeInv
<1>1. CASE UNCHANGED vars
  BY <1>1 DEF vars
<1>2. ASSUME NEW d \in Calls, Receive(d)
      PROVE  pc'[c] = pc[c] /\ owner'[c] = owner[c] /\ family'[c] = family[c]
  <2>1. pc'[d] \notin {"rotate", "issue"}
    BY <1>0, <1>2 DEF TypeOK, Receive, Arriving, Return, Goto, FirstStatement,
                      Request, Login, Refresh, Logout, Change, Create, Ensure
  <2>2. \A e \in Calls \ {d} : pc'[e] = pc[e]
    BY <1>0, <1>2 DEF TypeOK, Receive, Return, Goto
  <2> QED BY <1>2, <2>1, <2>2 DEF Receive
<1>3. ASSUME NEW d \in Calls, FindUser(d) \/ LookupToRotate(d) \/ MarkRotated(d), d # c
      PROVE  pc'[c] = pc[c] /\ owner'[c] = owner[c] /\ family'[c] = family[c]
  BY <1>0, <1>3 DEF TypeOK, FindUser, LookupToRotate, MarkRotated, Return, Goto
<1>4. ASSUME NEW d \in Calls,
             Issue(d) \/ RevokeReused(d) \/ LookupToRevoke(d) \/ RevokeFamily(d)
      PROVE  pc'[c] = pc[c] /\ owner'[c] = owner[c] /\ family'[c] = family[c]
  BY <1>0, <1>4
     DEF TypeOK, Issue, RevokeReused, LookupToRevoke, RevokeFamily, Return, Goto
<1>5. ASSUME NEW d \in Calls,
             GetUser(d) \/ UpdatePassword(d) \/ RevokeAll(d) \/ CreateUser(d)
      PROVE  pc'[c] = pc[c] /\ owner'[c] = owner[c] /\ family'[c] = family[c]
  BY <1>0, <1>5 DEF TypeOK, GetUser, UpdatePassword, RevokeAll, CreateUser, Return, Goto
<1>6. ASSUME NEW d \in Calls, Respond(d) \/ Expire(d) \/ FaultStep(d)
      PROVE  pc'[c] = pc[c] /\ owner'[c] = owner[c] /\ family'[c] = family[c]
  BY <1>0, <1>6 DEF TypeOK, Respond, Expire, FaultStep, StatementFails, Crash,
                    LoseResponse, Return, Goto
<1>7. FindUser(c) => ~IsRefresh(c)
  BY <1>0 DEF LocalsOK, FindUser, IsRefresh, Login
<1> QED BY <1>1, <1>2, <1>3, <1>4, <1>5, <1>6, <1>7 DEF Next, Step

LEMMA RefreshStep ==
  ASSUME TypeInv, TypeInv', RefreshOK, [Next]_vars
  PROVE  RefreshOK'
<1>0. TypeOK /\ LocalsOK /\ LocalsOK'
  BY DEF TypeInv
<1>1. RowsStand /\ CallsStand
  BY RowsStandStep, CallsStandStep
<1> SUFFICES ASSUME NEW c \in Calls
             PROVE  /\ c \in Stored' => pc'[c] \in Finished
                    /\ pc'[c] = "rotate" => IsRefresh(c)'
                    /\ pc'[c] \in {"rotate", "issue"} /\ IsRefresh(c)' =>
                         LET parent == req'[c].token IN
                           /\ parent \in Stored'
                           /\ tokens'[parent].user = owner'[c]
                           /\ tokens'[parent].family = family'[c]
                           /\ pc'[c] = "issue" => tokens'[parent].rotated
  BY DEF RefreshOK, Finished
<1>2. c \in Stored' => pc'[c] \in Finished
  BY <1>1 DEF RowsStand, CallsStand, RefreshOK, Finished
<1>3. CASE LookupToRotate(c)
  <2>1. /\ req[c].kind = "refresh" /\ req[c] \in Request /\ req'[c] = req[c]
        /\ UNCHANGED tokens
    BY <1>0, <1>3 DEF LookupToRotate, LocalsOK
  <2>2. IsRefresh(c)'
    BY <2>1, ConstantsAssumption DEF IsRefresh
  <2>3. pc'[c] # "issue"
    BY <1>0, <1>3 DEF LookupToRotate, Return, Goto, TypeOK
  <2>4. pc'[c] = "rotate" =>
          /\ req[c].token \in Stored
          /\ tokens[req[c].token].user = owner'[c]
          /\ tokens[req[c].token].family = family'[c]
    BY <1>0, <1>3 DEF LookupToRotate, Return, Goto, TypeOK
  <2> QED BY <1>2, <2>1, <2>2, <2>3, <2>4 DEF Stored
<1>4. CASE MarkRotated(c)
  <2>1. IsRefresh(c) /\ IsRefresh(c)' /\ req'[c] = req[c] /\ UNCHANGED <<owner, family>>
    BY <1>4 DEF MarkRotated, RefreshOK, IsRefresh
  <2>2. /\ req[c].token \in Stored
        /\ tokens[req[c].token].user = owner[c]
        /\ tokens[req[c].token].family = family[c]
    BY <1>4, <2>1 DEF MarkRotated, RefreshOK
  <2>3. tokens'[req[c].token].rotated /\ pc'[c] = "issue"
    BY <1>0, <1>4, <2>2 DEF MarkRotated, Goto, TypeOK, Stored, Token
  <2> QED BY <1>1, <1>2, <2>1, <2>2, <2>3 DEF RowsStand
<1>5. CASE FindUser(c) /\ ~IsRefresh(c)
  <2>1. pc'[c] # "rotate" /\ req' = req
    BY <1>0, <1>5 DEF FindUser, Return, Goto, TypeOK
  <2> QED BY <1>2, <1>5, <2>1 DEF IsRefresh
<1>6. CASE /\ pc'[c] \in {"rotate", "issue"} /\ pc'[c] = pc[c]
           /\ owner'[c] = owner[c] /\ family'[c] = family[c]
  <2>1. req'[c] = req[c] /\ (IsRefresh(c)' <=> IsRefresh(c))
    BY <1>1, <1>6 DEF CallsStand, IsRefresh
  <2> QED BY <1>1, <1>2, <1>6, <2>1 DEF RowsStand, RefreshOK
<1>7. CASE pc'[c] \notin {"rotate", "issue"}
  BY <1>2, <1>7
<1> QED BY <1>3, <1>4, <1>5, <1>6, <1>7, RefreshAdvances

LEMMA SuccessorStep ==
  ASSUME TypeInv, RefreshOK, SuccessorContinuesSession, [Next]_vars
  PROVE  SuccessorContinuesSession'
<1>1. RowsStand /\ CallsStand
  BY RowsStandStep, CallsStandStep
<1> SUFFICES ASSUME NEW t \in Stored', IsRefresh(t)'
             PROVE  LET parent == req'[t].token IN
                      /\ parent \in Stored'
                      /\ tokens'[parent].rotated
                      /\ tokens'[parent].user = tokens'[t].user
                      /\ tokens'[parent].family = tokens'[t].family
  BY DEF SuccessorContinuesSession
<1>2. t \in Calls
  BY DEF Stored
<1>3. CASE t \in Stored
  <2>1. req'[t] = req[t] /\ IsRefresh(t)
    BY <1>1, <1>2, <1>3 DEF CallsStand, RefreshOK, Finished, IsRefresh
  <2> QED BY <1>1, <1>3, <2>1 DEF RowsStand, SuccessorContinuesSession
<1>4. CASE t \notin Stored
  <2>1. pc[t] = "issue" /\ tokens'[t] = NewToken(t)
    BY <1>1, <1>4 DEF RowsStand
  <2>2. req'[t] = req[t] /\ IsRefresh(t)
    BY <1>1, <1>2, <2>1 DEF CallsStand, IsRefresh
  <2>3. tokens'[t].user = owner[t] /\ tokens'[t].family = family[t]
    BY <2>1 DEF NewToken
  <2> QED BY <1>1, <1>2, <2>1, <2>2, <2>3 DEF RowsStand, RefreshOK
<1> QED BY <1>3, <1>4

LEMMA SessionInit == Init => SessionInv
  BY DEF Init, SessionInv, RefreshOK, SuccessorContinuesSession, Stored

(* Refresh: the token it inserts belongs to the user and the family of the token
   it presented, and that one is consumed, whatever ran in between. *)
THEOREM SuccessorCorrect == Spec => []SuccessorContinuesSession
<1>1. TypeInv /\ TypeInv' /\ SessionInv /\ [Next]_vars => SessionInv'
  BY RefreshStep, SuccessorStep DEF SessionInv
<1>2. SessionInv => SuccessorContinuesSession
  BY DEF SessionInv
<1> QED BY <1>1, <1>2, SessionInit, TypeInvariant, PTL DEF Spec

-----------------------------------------------------------------------------
(* The call that revokes a row is over and is the reason, and rows that are
   inserted are not revoked. *)
LEMMA ReasonStep ==
  ASSUME TypeInv, RefreshOK, RevokedForAReason, [Next]_vars
  PROVE  RevokedForAReason'
<1> DEFINE Reason(c, t) ==
      /\ pc[c] \in {"respond", "done", "lost"}
      /\ \/ answer[c] \in {"loggedOut", "reuse"} /\ family[c] = tokens[t].family
         \/ answer[c] = "changed" /\ req[c].user = tokens[t].user
<1>0. TypeOK
  BY DEF TypeInv
<1>1. RowsStand /\ CallsStand
  BY RowsStandStep, CallsStandStep
<1>2. ASSUME NEW t \in Stored, NEW c \in Calls, Reason(c, t) PROVE Reason(c, t)'
  <2>1. pc[c] \in Finished /\ pc[c] # "idle"
    BY <1>2 DEF Finished
  <2>2. /\ pc'[c] \in {"respond", "done", "lost"}
        /\ req'[c] = req[c] /\ answer'[c] = answer[c] /\ family'[c] = family[c]
    BY <1>1, <1>2, <2>1 DEF CallsStand
  <2>3. tokens'[t].user = tokens[t].user /\ tokens'[t].family = tokens[t].family
    BY <1>1 DEF RowsStand
  <2> QED BY <1>2, <2>2, <2>3
<1>3. ASSUME NEW t \in Stored, tokens[t].revoked PROVE \E c \in Calls : Reason(c, t)'
  <2>1. PICK c \in Calls : Reason(c, t)
    BY <1>3 DEF RevokedForAReason
  <2> QED BY <1>2, <2>1
<1>4. ASSUME NEW t \in Stored', t \notin Stored PROVE ~tokens'[t].revoked
  <2>1. tokens'[t] = NewToken(t)
    BY <1>1, <1>4 DEF RowsStand
  <2>2. NewToken(t).revoked = FALSE
    BY DEF NewToken
  <2> QED BY <2>1, <2>2
<1>5. ASSUME NEW t \in Stored, ~tokens[t].revoked, tokens'[t].revoked
      PROVE  \E c \in Calls : Reason(c, t)'
  <2>1. tokens[t] \in Token /\ t \in Calls
    BY <1>0, RowMarked DEF Stored
  <2>2. \A c \in Calls : ~MarkRotated(c) /\ ~Expire(c)
    BY <1>0, <1>5, <2>1 DEF MarkRotated, Expire, TypeOK, Token
  <2>3. \A c \in Calls : ~Issue(c)
    BY <1>0, <1>5, <2>1 DEF Issue, NewToken, TypeOK
  <2>4. PICK c \in Calls : RevokeReused(c) \/ RevokeFamily(c) \/ RevokeAll(c)
    BY <1>5, <2>2, <2>3
       DEF Next, Step, FaultStep, vars, Receive, FindUser, LookupToRotate,
           LookupToRevoke, GetUser, UpdatePassword, CreateUser, Respond,
           StatementFails, Crash, LoseResponse
  <2>5. tokens'[t].user = tokens[t].user /\ tokens'[t].family = tokens[t].family
    BY <1>1 DEF RowsStand
  <2>6. pc'[c] = "respond" /\ req' = req /\ family' = family
    BY <1>0, <2>4 DEF RevokeReused, RevokeFamily, RevokeAll, Return, Goto, TypeOK
  <2>7. CASE RevokeReused(c) \/ RevokeFamily(c)
    <3>1. answer'[c] \in {"loggedOut", "reuse"}
      BY <1>0, <2>7 DEF RevokeReused, RevokeFamily, Return, TypeOK
    <3>2. tokens' = Revoked(FamilyOf(family[c]))
      BY <2>7 DEF RevokeReused, RevokeFamily
    <3>3. t \in FamilyOf(family[c])
      BY <1>5, <2>1, <3>2 DEF Revoked
    <3> QED BY <2>5, <2>6, <3>1, <3>3 DEF FamilyOf
  <2>8. CASE RevokeAll(c)
    <3>1. answer'[c] = "changed"
      BY <1>0, <2>8 DEF RevokeAll, Return, TypeOK
    <3>2. t \in {s \in Stored : tokens[s].user = req[c].user}
      BY <1>5, <2>1, <2>8 DEF Revoked, RevokeAll
    <3> QED BY <2>5, <2>6, <3>1, <3>2
  <2> QED BY <2>4, <2>7, <2>8
<1> QED BY <1>3, <1>4, <1>5 DEF RevokedForAReason

(* Revocation stays within the session, or the user, it is about: with any number
   of users and devices, a revoked token has a logout or a reuse of its own
   family, or a password change of its own user, that returned. *)
THEOREM RevokedCorrect == Spec => []RevokedForAReason
<1>1. Init => RevokedForAReason
  BY DEF Init, RevokedForAReason, Stored
<1>2. /\ TypeInv /\ TypeInv' /\ RefreshOK /\ RevokedForAReason /\ [Next]_vars
         => RefreshOK' /\ RevokedForAReason'
  BY RefreshStep, ReasonStep
<1>3. Init => RefreshOK
  BY SessionInit DEF SessionInv
<1> QED BY <1>1, <1>2, <1>3, TypeInvariant, PTL DEF Spec

-----------------------------------------------------------------------------
(* A step is one call's: the others keep their locals. *)
Alone(c) ==
  \A o \in Calls \ {c} :
    /\ pc'[o] = pc[o] /\ req'[o] = req[o] /\ owner'[o] = owner[o]
    /\ family'[o] = family[o] /\ answer'[o] = answer[o] /\ before'[o] = before[o]

LEMMA AloneStep ==
  ASSUME TypeInv, NEW c \in Calls, Receive(c) \/ Step(c) \/ Expire(c) \/ FaultStep(c)
  PROVE  Alone(c)
<1> USE DEF TypeInv, TypeOK, Alone, Return, Goto
<1>1. CASE Receive(c)
  BY <1>1 DEF Receive
<1>2. CASE FindUser(c) \/ Issue(c) \/ LookupToRotate(c) \/ LookupToRevoke(c)
  BY <1>2 DEF FindUser, Issue, LookupToRotate, LookupToRevoke
<1>3. CASE RevokeReused(c) \/ MarkRotated(c) \/ RevokeFamily(c) \/ RevokeAll(c)
  BY <1>3 DEF RevokeReused, MarkRotated, RevokeFamily, RevokeAll
<1>4. CASE GetUser(c) \/ UpdatePassword(c) \/ CreateUser(c)
  BY <1>4 DEF GetUser, UpdatePassword, CreateUser
<1>5. CASE Respond(c) \/ Expire(c) \/ FaultStep(c)
  BY <1>5 DEF Respond, Expire, FaultStep, StatementFails, Crash, LoseResponse
<1> QED BY <1>1, <1>2, <1>3, <1>4, <1>5 DEF Step

(* Which calls answer what, and what a call knows before it has looked. *)
AnswersOK ==
  \A c \in Calls :
    /\ pc[c] = "idle" => req[c] = NoCall
    /\ pc[c] \in {"idle", "findUser", "lookup"} => family[c] = NoToken
    /\ answer[c] # "none" => pc[c] \in {"respond", "done", "lost"}
    /\ answer[c] = "created" => req[c] \in Create
    /\ answer[c] = "ensured" => req[c] \in Ensure
    /\ answer[c] = "changed" => req[c] \in Change
    /\ answer[c] = "pair" => c \in Stored
    /\ before[c] \subseteq Over

LEMMA AnswersInit == Init => AnswersOK
  BY DEF Init, AnswersOK

LEMMA AnswersStep ==
  ASSUME TypeInv, RefreshOK, AnswersOK, [Next]_vars
  PROVE  AnswersOK'
<1>0. TypeOK /\ LocalsOK
  BY DEF TypeInv
<1>1. RowsStand /\ CallsStand
  BY RowsStandStep, CallsStandStep
<1>2. Over \subseteq Over' /\ Stored \subseteq Stored'
  BY <1>1 DEF CallsStand, Over, RowsStand
<1> DEFINE Kept(c) ==
      /\ pc'[c] = "idle" => req'[c] = NoCall
      /\ pc'[c] \in {"idle", "findUser", "lookup"} => family'[c] = NoToken
      /\ answer'[c] # "none" => pc'[c] \in {"respond", "done", "lost"}
      /\ answer'[c] = "created" => req'[c] \in Create
      /\ answer'[c] = "ensured" => req'[c] \in Ensure
      /\ answer'[c] = "changed" => req'[c] \in Change
      /\ answer'[c] = "pair" => c \in Stored'
<1>3. ASSUME NEW c \in Calls, NEW o \in Calls \ {c}, Alone(c)
      PROVE  Kept(o) /\ before'[o] \subseteq Over'
  BY <1>2, <1>3 DEF Alone, AnswersOK
<1>4. ASSUME NEW c \in Calls, Receive(c)
      PROVE  Kept(c) /\ before'[c] \subseteq Over'
  <2>1. /\ pc[c] = "idle" /\ answer[c] = "none" /\ family'[c] = NoToken
        /\ before'[c] = Over
    BY <1>0, <1>4 DEF Receive, AnswersOK, TypeOK
  <2>2. pc'[c] # "idle"
    BY <1>0, <1>4 DEF Receive, Return, Goto, TypeOK, Arriving, FirstStatement, Request,
                      Login, Refresh, Logout, Change, Create, Ensure
  <2>3. \/ answer'[c] = "none"
        \/ answer'[c] \in {"invalidToken", "loggedOut", "weakPassword"} /\ pc'[c] = "respond"
    BY <1>0, <1>4, <2>1 DEF Receive, Return, Goto, TypeOK
  <2> QED BY <1>2, <2>1, <2>2, <2>3
<1>5. ASSUME NEW c \in Calls, Step(c) \/ FaultStep(c)
      PROVE  Kept(c) /\ before'[c] \subseteq Over'
  <2>1. /\ pc[c] \notin {"idle", "done", "lost", "crashed"}
        /\ pc'[c] \notin {"idle", "findUser", "lookup"}
    BY <1>0, <1>5
       DEF TypeOK, Return, Goto, Step, FindUser, Issue, LookupToRotate, LookupToRevoke,
           RevokeReused, MarkRotated, RevokeFamily, RevokeAll, GetUser, UpdatePassword,
           CreateUser, Respond, FaultStep, StatementFails, Crash, LoseResponse, InFlight,
           Finished
  <2>2. req'[c] = req[c] /\ before'[c] = before[c]
    BY <1>1, <2>1 DEF CallsStand
  <2>3. ASSUME UNCHANGED answer PROVE Kept(c)
    <3>1. answer[c] # "none" => pc'[c] \in {"respond", "done", "lost"}
      BY <1>1 DEF AnswersOK, CallsStand
    <3> QED BY <1>2, <2>1, <2>2, <2>3, <3>1 DEF AnswersOK
  <2>0. \A a : Return(c, a) => pc'[c] = "respond" /\ answer'[c] = a
    BY <1>0 DEF Return, Goto, TypeOK
  <2>4. ASSUME NEW a \in {"invalidCredentials", "invalidToken", "reuse", "loggedOut",
                          "incorrectPassword", "weakPassword", "emailTaken", "error"},
               Return(c, a)
        PROVE  Kept(c)
    BY <2>0, <2>1, <2>4
  <2>5. ASSUME Issue(c) PROVE Kept(c)
    <3>1. NewToken(c) \in Token
      BY <1>0, <2>5 DEF Issue, LocalsOK, NewToken, Token
    <3>2. c \in Stored'
      BY <1>0, <2>5, <3>1, ConstantsAssumption DEF Issue, Stored, TypeOK
    <3> QED BY <2>0, <2>1, <2>5, <3>2 DEF Issue
  <2>6. ASSUME CreateUser(c) PROVE Kept(c)
    <3>1. req[c] \in Create \cup Ensure
      BY <1>0, <2>6 DEF CreateUser, LocalsOK
    <3>2. req[c].kind = "create" => req[c] \in Create
      BY <3>1 DEF Create, Ensure
    <3>3. req[c].kind # "create" => req[c] \in Ensure
      BY <3>1 DEF Create, Ensure
    <3>4. pc'[c] = "respond" /\ (req[c].kind # "create" => answer'[c] = "ensured")
      BY <2>0, <2>6 DEF CreateUser
    <3>5. req[c].kind = "create" => answer'[c] \in {"created", "emailTaken"}
      BY <2>0, <2>6 DEF CreateUser
    <3> QED BY <2>0, <2>1, <2>2, <3>2, <3>3, <3>4, <3>5
  <2>7. ASSUME RevokeAll(c) PROVE Kept(c)
    BY <1>0, <2>0, <2>1, <2>2, <2>7 DEF RevokeAll, LocalsOK
  <2>8. Kept(c)
    BY <1>5, <2>3, <2>4, <2>5, <2>6, <2>7
       DEF Step, FindUser, LookupToRotate, LookupToRevoke, RevokeReused, MarkRotated,
           RevokeFamily, GetUser, UpdatePassword, Respond, FaultStep, StatementFails,
           Crash, LoseResponse
  <2> QED BY <1>2, <2>2, <2>8 DEF AnswersOK
<1>6. ASSUME NEW c \in Calls, Expire(c)
      PROVE  Kept(c) /\ before'[c] \subseteq Over'
  BY <1>2, <1>6 DEF Expire, AnswersOK
<1>7. CASE UNCHANGED vars
  BY <1>7 DEF vars, AnswersOK, Over, Stored
<1>8. CASE Next
  <2>1. PICK c \in Calls : Receive(c) \/ Step(c) \/ Expire(c) \/ FaultStep(c)
    BY <1>8 DEF Next
  <2>2. Alone(c)
    BY <2>1, AloneStep
  <2> QED BY <1>3, <1>4, <1>5, <1>6, <2>1, <2>2 DEF AnswersOK
<1> QED BY <1>7, <1>8

(* The base every proof below stands on. *)
BaseInv == TypeInv /\ SessionInv /\ AnswersOK

LEMMA BaseInvariant == Spec => []BaseInv
<1>1. Init => BaseInv
  BY TypeInit, SessionInit, AnswersInit DEF BaseInv
<1>2. BaseInv /\ [Next]_vars => BaseInv'
  <2>1. TypeInv /\ [Next]_vars => TypeInv'
    BY TypeStep
  <2> QED BY <2>1, RefreshStep, SuccessorStep, AnswersStep DEF BaseInv, SessionInv
<1> QED BY <1>1, <1>2, PTL DEF Spec

-----------------------------------------------------------------------------
(* A call that has returned keeps its answer and its request, and the calls
   that were over before it arrived insert nothing any more. *)
LEMMA RevocationStep ==
  ASSUME BaseInv, RevocationCoversThePast, [Next]_vars
  PROVE  RevocationCoversThePast'
<1>0. TypeOK /\ LocalsOK /\ RefreshOK /\ AnswersOK
  BY DEF BaseInv, TypeInv, SessionInv
<1>1. RowsStand /\ CallsStand
  BY RowsStandStep, CallsStandStep DEF BaseInv, SessionInv
<1> SUFFICES ASSUME NEW c \in Calls, NEW t \in Stored', t \in before'[c],
                    \/ answer'[c] \in {"loggedOut", "reuse"} /\ tokens'[t].family = family'[c]
                    \/ answer'[c] = "changed" /\ tokens'[t].user = req'[c].user
             PROVE  tokens'[t].revoked
  BY DEF RevocationCoversThePast
<1>2. CASE answer[c] # "none"
  <2>1. pc[c] \in Finished /\ pc[c] # "idle"
    BY <1>0, <1>2 DEF AnswersOK, Finished
  <2>2. /\ answer'[c] = answer[c] /\ family'[c] = family[c]
        /\ req'[c] = req[c] /\ before'[c] = before[c]
    BY <1>1, <2>1 DEF CallsStand
  <2>3. t \in Over
    BY <1>0, <2>2 DEF AnswersOK
  <2>4. t \in Stored
    BY <1>1, <2>3 DEF RowsStand, Over, Finished
  <2>5. tokens'[t].family = tokens[t].family /\ tokens'[t].user = tokens[t].user
    BY <1>1, <2>4 DEF RowsStand
  <2>6. tokens[t].revoked
    BY <2>2, <2>4, <2>5 DEF RevocationCoversThePast
  <2> QED BY <1>1, <2>4, <2>6 DEF RowsStand
<1>3. CASE answer[c] = "none"
  <2>0. t \in Calls /\ tokens'[t].family = tokens'[t].family
    BY DEF Stored
  <2>1. PICK d \in Calls : Receive(d) \/ Step(d) \/ Expire(d) \/ FaultStep(d)
    BY <1>3 DEF Next, vars
  <2>2. Alone(d)
    BY <2>1, AloneStep DEF BaseInv
  <2>3. d = c
    BY <1>3, <2>2 DEF Alone
  <2>4. family'[c] # NoToken \/ answer'[c] = "changed"
    <3>1. tokens'[t].family \in Calls
      <4>1. TypeOK'
        BY TypeStep DEF BaseInv, TypeInv
      <4>2. tokens'[t] \in Token
        BY <2>0, <4>1 DEF TypeOK, Stored
      <4> QED BY <4>2 DEF Token
    <3> QED BY <3>1, ConstantsAssumption
  <2>5. RevokeReused(c) \/ RevokeFamily(c) \/ RevokeAll(c)
    <3>1. \A a : Return(c, a) => answer'[c] = a
      BY <1>0 DEF Return, TypeOK
    <3>2. CASE Receive(c)
      <4>1. family'[c] = NoToken
        BY <1>0, <3>2 DEF Receive, AnswersOK
      <4>2. answer'[c] # "changed"
        BY <1>3, <3>1, <3>2 DEF Receive
      <4> QED BY <2>4, <4>1, <4>2
    <3>3. CASE LookupToRevoke(c)
      BY <1>0, <1>3, <2>4, <3>1, <3>3 DEF LookupToRevoke, AnswersOK
    <3>4. CASE FindUser(c) \/ Issue(c) \/ LookupToRotate(c) \/ MarkRotated(c)
      BY <1>3, <3>1, <3>4 DEF FindUser, Issue, LookupToRotate, MarkRotated
    <3>5. CASE GetUser(c) \/ UpdatePassword(c) \/ CreateUser(c)
      BY <1>3, <3>1, <3>5 DEF GetUser, UpdatePassword, CreateUser
    <3>6. CASE Respond(c) \/ Expire(c) \/ FaultStep(c)
      BY <1>3, <3>1, <3>6 DEF Respond, Expire, FaultStep, StatementFails, Crash, LoseResponse
    <3> QED BY <2>1, <2>3, <3>2, <3>3, <3>4, <3>5, <3>6 DEF Step
  <2>6. \A a : Return(c, a) => answer'[c] = a
    BY <1>0 DEF Return, TypeOK
  <2>7. ASSUME NEW S \in SUBSET Stored, tokens' = Revoked(S)
        PROVE  /\ t \in Stored /\ (t \in S => tokens'[t].revoked)
               /\ tokens'[t].user = tokens[t].user /\ tokens'[t].family = tokens[t].family
    <3>1. t \in Stored
      BY <1>0, <2>0, <2>7, RevokedKeeps DEF Stored
    <3> QED BY <1>0, <2>7, <3>1, RevokedKeeps
  <2>8. CASE RevokeReused(c) \/ RevokeFamily(c)
    <3>1. /\ tokens' = Revoked(FamilyOf(family[c])) /\ family' = family
          /\ answer'[c] \in {"reuse", "loggedOut"}
      BY <2>6, <2>8 DEF RevokeReused, RevokeFamily
    <3> QED BY <2>7, <3>1 DEF FamilyOf
  <2>9. CASE RevokeAll(c)
    <3>1. /\ tokens' = Revoked({o \in Stored : tokens[o].user = req[c].user})
          /\ req' = req /\ answer'[c] = "changed"
      BY <2>6, <2>9 DEF RevokeAll
    <3> QED BY <2>7, <3>1
  <2> QED BY <2>5, <2>8, <2>9
<1> QED BY <1>2, <1>3

(* A logout, a detected reuse and a password change leave no token unrevoked
   that was there when they arrived, whatever runs beside them. *)
THEOREM RevocationCorrect == Spec => []RevocationCoversThePast
<1>1. Init => RevocationCoversThePast
  BY DEF Init, RevocationCoversThePast, Stored
<1> QED BY <1>1, RevocationStep, BaseInvariant, PTL DEF Spec

-----------------------------------------------------------------------------
(* Accounts.  The other changes of the account that call c is about. *)
ChangesBeside(c) == {o \in Calls \ {c} : IsChangeOf(o, req[c].user)}

AccountsInv ==
  \A c \in Calls :
    /\ answer[c] \in {"created", "ensured", "changed"} \/ pc[c] = "revokeAll"
         => password[req[c].user] # NoUser
    /\ pc[c] = "revokeAll" /\ ChangesBeside(c) \subseteq before[c]
         => password[req[c].user] = req[c].new

(* An account there is keeps its password unless a change of it updates it. *)
LEMMA PasswordKept ==
  ASSUME BaseInv, [Next]_vars, NEW u \in Users, password[u] # NoUser
  PROVE  \/ password'[u] = password[u]
         \/ \E o \in Calls :
              /\ UpdatePassword(o) /\ IsChangeOf(o, u) /\ pc[o] = "updatePassword"
              /\ password'[u] = req[o].new /\ req[o].new \in Passwords
<1>0. TypeOK /\ LocalsOK
  BY DEF BaseInv, TypeInv
<1>1. CASE UNCHANGED vars
  BY <1>1 DEF vars
<1>2. ASSUME NEW c \in Calls, UpdatePassword(c)
      PROVE  \/ password'[u] = password[u]
             \/ /\ IsChangeOf(c, u) /\ pc[c] = "updatePassword"
                /\ password'[u] = req[c].new /\ req[c].new \in Passwords
  <2>1. /\ pc[c] = "updatePassword" /\ req[c] \in Change /\ req[c].new \in Passwords
        /\ req[c] # NoCall /\ req[c].kind = "change"
    BY <1>0, <1>2, ConstantsAssumption DEF UpdatePassword, LocalsOK, Change, Request
  <2> QED BY <1>0, <1>2, <2>1 DEF UpdatePassword, IsChangeOf, TypeOK
<1>3. ASSUME NEW c \in Calls, CreateUser(c) PROVE password'[u] = password[u]
  BY <1>0, <1>3 DEF CreateUser, TypeOK
<1>4. ASSUME NEW c \in Calls,
             \/ Receive(c) \/ FindUser(c) \/ Issue(c) \/ LookupToRotate(c)
             \/ RevokeReused(c) \/ MarkRotated(c) \/ LookupToRevoke(c) \/ RevokeFamily(c)
             \/ GetUser(c) \/ RevokeAll(c) \/ Respond(c) \/ Expire(c) \/ FaultStep(c)
      PROVE  password' = password
  BY <1>4 DEF Receive, FindUser, Issue, LookupToRotate, RevokeReused, MarkRotated,
              LookupToRevoke, RevokeFamily, GetUser, RevokeAll, Respond, Expire, FaultStep,
              StatementFails, Crash, LoseResponse
<1> QED BY <1>1, <1>2, <1>3, <1>4 DEF Next, Step

(* A call comes to its answer, or to ending the sessions, in one of these ways. *)
LEMMA AccountAnswer ==
  ASSUME BaseInv, [Next]_vars, NEW c \in Calls,
         answer'[c] \in {"created", "ensured", "changed"} \/ pc'[c] = "revokeAll"
  PROVE  \/ CreateUser(c) \/ UpdatePassword(c)
         \/ RevokeAll(c) /\ pc[c] = "revokeAll"
         \/ /\ answer'[c] = answer[c]
            /\ pc'[c] = "revokeAll" => pc[c] = "revokeAll"
<1>0. TypeOK
  BY DEF BaseInv, TypeInv
<1>1. CASE UNCHANGED vars
  BY <1>1 DEF vars
<1>2. ASSUME NEW d \in Calls, d # c, Receive(d) \/ Step(d) \/ Expire(d) \/ FaultStep(d)
      PROVE  answer'[c] = answer[c] /\ pc'[c] = pc[c]
  BY <1>2, AloneStep DEF BaseInv, Alone
<1>3. CASE Receive(c)
  <2>1. pc'[c] # "revokeAll"
    BY <1>0, <1>3 DEF Receive, Return, Goto, TypeOK, Arriving, FirstStatement, Request,
                      Login, Refresh, Logout, Change, Create, Ensure
  <2> QED BY <1>0, <1>3, <2>1 DEF Receive, Return, TypeOK
<1>4. CASE \/ FindUser(c) \/ Issue(c) \/ LookupToRotate(c)
           \/ RevokeReused(c) \/ MarkRotated(c) \/ LookupToRevoke(c) \/ RevokeFamily(c)
           \/ GetUser(c)
  BY <1>0, <1>4 DEF FindUser, Issue, LookupToRotate, RevokeReused, MarkRotated,
                    LookupToRevoke, RevokeFamily, GetUser, Return, Goto, TypeOK
<1>5. CASE RevokeAll(c) \/ Respond(c) \/ Expire(c) \/ FaultStep(c)
  BY <1>0, <1>5 DEF RevokeAll, Respond, Expire, FaultStep, StatementFails, Crash,
                    LoseResponse, Return, Goto, TypeOK
<1> QED BY <1>1, <1>2, <1>3, <1>4, <1>5 DEF Next, Step

(* Changes of an account are counted once they have arrived. *)
LEMMA ChangesGrow ==
  ASSUME BaseInv, [Next]_vars, NEW c \in Calls, pc[c] # "idle"
  PROVE  /\ ChangesBeside(c) \subseteq ChangesBeside(c)'
         /\ req'[c] = req[c] /\ before'[c] = before[c]
<1>1. CallsStand
  BY CallsStandStep DEF BaseInv
<1>2. \A o \in Calls : req[o] # NoCall => req'[o] = req[o]
  BY <1>1 DEF CallsStand, BaseInv, AnswersOK
<1> QED BY <1>1, <1>2 DEF CallsStand, ChangesBeside, IsChangeOf

(* Beside a change only changes that were over before it do not matter. *)
LEMMA NobodyUpdates ==
  ASSUME BaseInv, NEW c \in Calls, ChangesBeside(c) \subseteq before[c],
         NEW o \in Calls \ {c}, IsChangeOf(o, req[c].user), pc[o] = "updatePassword"
  PROVE  FALSE
BY DEF ChangesBeside, BaseInv, AnswersOK, Over, Finished

LEMMA AccountsStep ==
  ASSUME BaseInv, AccountsInv, PasswordStands, [Next]_vars
  PROVE  AccountsInv' /\ PasswordStands'
<1>0. TypeOK /\ LocalsOK /\ AnswersOK
  BY DEF BaseInv, TypeInv
<1>1. CallsStand
  BY CallsStandStep DEF BaseInv
<1> SUFFICES ASSUME NEW c \in Calls,
                    answer'[c] \in {"created", "ensured", "changed"} \/ pc'[c] = "revokeAll"
             PROVE  /\ password'[req'[c].user] # NoUser
                    /\ answer'[c] = "created" /\ ChangesBeside(c)' = {}
                         => password'[req'[c].user] = req'[c].password
                    /\ answer'[c] = "changed" \/ pc'[c] = "revokeAll"
                         => (ChangesBeside(c)' \subseteq before'[c]
                               => password'[req'[c].user] = req'[c].new)
  BY DEF AccountsInv, PasswordStands, ChangesBeside
<1>2. CASE CreateUser(c)
  <2>1. /\ req[c] \in Create \cup Ensure /\ req[c].password \in Passwords
        /\ req[c].user \in Users /\ req'[c] = req[c] /\ pc'[c] = "respond"
    BY <1>0, <1>2 DEF CreateUser, LocalsOK, Create, Ensure, Return, Goto, TypeOK
  <2>2. answer'[c] # "changed"
    BY <1>0, <1>2 DEF CreateUser, Return, TypeOK
  <2>3. CASE password[req[c].user] = NoUser
    <3>1. password'[req[c].user] = req[c].password
      BY <1>0, <1>2, <2>1, <2>3 DEF CreateUser, TypeOK
    <3> QED BY <2>1, <2>2, <3>1, ConstantsAssumption
  <2>4. CASE password[req[c].user] # NoUser
    <3>1. password' = password /\ answer'[c] # "created"
      BY <1>0, <1>2, <2>4 DEF CreateUser, Return, TypeOK
    <3> QED BY <2>1, <2>2, <2>4, <3>1
  <2> QED BY <2>3, <2>4
<1>3. CASE UpdatePassword(c)
  <2>1. /\ req[c] \in Change /\ req[c].new \in Passwords /\ req[c].user \in Users
        /\ req'[c] = req[c] /\ answer'[c] = answer[c] /\ answer[c] = "none"
    BY <1>0, <1>3 DEF UpdatePassword, LocalsOK, Change, AnswersOK
  <2>2. password'[req[c].user] = req[c].new
    BY <1>0, <1>3, <2>1 DEF UpdatePassword, TypeOK
  <2> QED BY <2>1, <2>2, ConstantsAssumption
<1>4. CASE \/ RevokeAll(c) /\ pc[c] = "revokeAll"
           \/ /\ answer'[c] = answer[c]
              /\ pc'[c] = "revokeAll" => pc[c] = "revokeAll"
  <2>0. \/ pc[c] = "revokeAll"
        \/ answer'[c] = answer[c] /\ answer[c] \in {"created", "ensured", "changed"}
    BY <1>4
  <2>1. pc[c] # "idle" /\ req[c] \in Create \cup Ensure \cup Change
    BY <1>0, <2>0 DEF AnswersOK, LocalsOK
  <2>2. /\ ChangesBeside(c) \subseteq ChangesBeside(c)'
        /\ req'[c] = req[c] /\ before'[c] = before[c]
    BY <2>1, ChangesGrow
  <2> DEFINE u == req[c].user
  <2>3. u \in Users /\ password[u] # NoUser
    BY <2>0, <2>1 DEF Create, Ensure, Change, AccountsInv
  <2>4. \/ password'[u] = password[u]
        \/ \E o \in Calls :
             /\ UpdatePassword(o) /\ IsChangeOf(o, u) /\ pc[o] = "updatePassword"
             /\ password'[u] = req[o].new /\ req[o].new \in Passwords
    BY <2>3, PasswordKept
  <2>5. \A o \in Calls : pc[o] = "updatePassword" => o # c
    BY <1>0, <2>0 DEF AnswersOK
  <2>6. password'[u] # NoUser
    BY <2>3, <2>4, ConstantsAssumption
  <2>7. ASSUME answer'[c] = "created", ChangesBeside(c)' = {}
        PROVE  password'[u] = req[c].password
    <3>1. ChangesBeside(c) = {}
      BY <2>2, <2>7
    <3>2. answer[c] = "created" \/ pc[c] = "revokeAll"
      BY <2>0, <2>7
    <3>3. pc[c] # "revokeAll"
      BY <1>0, <1>4, <2>7 DEF RevokeAll, Return, TypeOK, AnswersOK
    <3>4. password[u] = req[c].password
      BY <3>1, <3>2, <3>3 DEF PasswordStands, ChangesBeside
    <3>5. password'[u] = password[u]
      BY <2>4, <2>5, <3>1 DEF ChangesBeside
    <3> QED BY <3>4, <3>5
  <2>8. ASSUME answer'[c] = "changed" \/ pc'[c] = "revokeAll",
               ChangesBeside(c)' \subseteq before'[c]
        PROVE  password'[u] = req[c].new
    <3>1. ChangesBeside(c) \subseteq before[c]
      BY <2>2, <2>8
    <3>2. answer[c] = "changed" \/ pc[c] = "revokeAll"
      BY <1>4, <2>8
    <3>3. password[u] = req[c].new
      BY <3>1, <3>2 DEF PasswordStands, AccountsInv, ChangesBeside
    <3>4. password'[u] = password[u]
      BY <2>4, <2>5, <3>1, NobodyUpdates
    <3> QED BY <3>3, <3>4
  <2> QED BY <2>2, <2>6, <2>7, <2>8
<1> QED BY <1>2, <1>3, <1>4, AccountAnswer

(* An account is made once and keeps the password of its last change, however
   creations, seedings and changes interleave or are cut off. *)
THEOREM PasswordsStand == Spec => []PasswordStands
<1>1. Init => AccountsInv /\ PasswordStands
  BY DEF Init, AccountsInv, PasswordStands
<1> QED BY <1>1, AccountsStep, BaseInvariant, PTL DEF Spec

-----------------------------------------------------------------------------
(* A family is named after the login that opened it, which is its first row. *)
FamilyInv ==
  /\ \A t \in Stored :
       LET f == tokens[t].family IN
         /\ f \in Stored /\ tokens[f].family = f
         /\ tokens[f].user = tokens[t].user
         /\ ~IsRefresh(f)
  /\ \A c \in Calls : pc[c] = "issue" /\ ~IsRefresh(c) => family[c] = c

LEMMA FamilyStep ==
  ASSUME BaseInv, FamilyInv, [Next]_vars
  PROVE  FamilyInv'
<1>0. TypeOK /\ LocalsOK /\ RefreshOK
  BY DEF BaseInv, TypeInv, SessionInv
<1>1. RowsStand /\ CallsStand
  BY RowsStandStep, CallsStandStep DEF BaseInv, SessionInv
<1>2. ASSUME NEW c \in Calls, pc'[c] = "issue", ~IsRefresh(c)'
      PROVE  family'[c] = c
  <2>1. CASE LookupToRotate(c)
    BY <1>0, <1>2, <2>1 DEF LookupToRotate, Return, Goto, TypeOK
  <2>2. CASE MarkRotated(c)
    BY <1>0, <1>2, <2>2 DEF MarkRotated, RefreshOK, IsRefresh
  <2>3. CASE FindUser(c)
    BY <1>0, <1>2, <2>3 DEF FindUser, Return, Goto, TypeOK
  <2>4. CASE pc'[c] = pc[c] /\ family'[c] = family[c]
    BY <1>1, <1>2, <2>4 DEF CallsStand, IsRefresh, FamilyInv
  <2> QED BY <1>2, <2>1, <2>2, <2>3, <2>4, RefreshAdvances DEF BaseInv
<1>3. \A t \in Stored : IsRefresh(t)' <=> IsRefresh(t)
  BY <1>0, <1>1 DEF CallsStand, RefreshOK, Finished, IsRefresh, Stored
<1>4. ASSUME NEW t \in Stored, NEW f, f = tokens[t].family
      PROVE  /\ tokens'[t].family = f /\ f \in Stored' /\ tokens'[f].family = f
             /\ tokens'[f].user = tokens'[t].user /\ ~IsRefresh(f)'
  <2>1. /\ f \in Stored /\ tokens[f].family = f
        /\ tokens[f].user = tokens[t].user /\ ~IsRefresh(f)
    BY <1>4 DEF FamilyInv
  <2>2. f \in Stored' /\ tokens'[f].family = f /\ tokens'[f].user = tokens[f].user
    BY <1>1, <2>1 DEF RowsStand
  <2>3. tokens'[t].family = f /\ tokens'[t].user = tokens[t].user
    BY <1>1, <1>4 DEF RowsStand
  <2>4. ~IsRefresh(f)'
    BY <1>3, <2>1
  <2> QED BY <2>1, <2>2, <2>3, <2>4
<1>5. ASSUME NEW t \in Stored', t \notin Stored, NEW f, f = family[t]
      PROVE  /\ tokens'[t].family = f /\ f \in Stored' /\ tokens'[f].family = f
             /\ tokens'[f].user = tokens'[t].user /\ ~IsRefresh(f)'
  <2>1. t \in Calls /\ pc[t] = "issue" /\ tokens'[t] = NewToken(t)
    BY <1>1, <1>5 DEF RowsStand, Stored
  <2>2. tokens'[t].family = f /\ tokens'[t].user = owner[t]
    BY <1>5, <2>1 DEF NewToken
  <2>3. CASE IsRefresh(t)
    <3>1. PICK p \in Stored : tokens[p].user = owner[t] /\ tokens[p].family = f
      BY <1>0, <1>5, <2>1, <2>3 DEF RefreshOK
    <3>2. /\ tokens'[p].family = f /\ f \in Stored' /\ tokens'[f].family = f
          /\ tokens'[f].user = tokens'[p].user /\ ~IsRefresh(f)'
      BY <1>4, <3>1
    <3>3. tokens'[p].user = owner[t]
      BY <1>1, <3>1 DEF RowsStand
    <3> QED BY <2>2, <3>2, <3>3
  <2>4. CASE ~IsRefresh(t)
    <3>1. f = t
      BY <1>5, <2>1, <2>4 DEF FamilyInv
    <3>2. ~IsRefresh(t)'
      BY <1>1, <2>1, <2>4 DEF CallsStand, IsRefresh
    <3> QED BY <1>5, <2>2, <3>1, <3>2
  <2> QED BY <2>3, <2>4
<1>6. ASSUME NEW t \in Stored', NEW f, f = tokens'[t].family
      PROVE  /\ f \in Stored' /\ tokens'[f].family = f
             /\ tokens'[f].user = tokens'[t].user /\ ~IsRefresh(f)'
  <2>1. CASE t \in Stored
    BY <1>4, <1>6, <2>1
  <2>2. CASE t \notin Stored
    BY <1>5, <1>6, <2>2
  <2> QED BY <2>1, <2>2
<1> QED BY <1>2, <1>6 DEF FamilyInv

LEMMA FamilyInvariant == Spec => []FamilyInv
<1>1. Init => FamilyInv
  BY DEF Init, FamilyInv, Stored
<1> QED BY <1>1, FamilyStep, BaseInvariant, PTL DEF Spec

(* The states of a session, one by one. *)
StateShape ==
  /\ State = [f \in Calls |-> State[f]]
  /\ \A f \in Calls :
       /\ State[f] \in {"new", "live", "over"}
       /\ State[f] = "new" <=> FamilyOf(f) = {}
       /\ State[f] = "live" <=>
            \/ \E t \in FamilyOf(f) : IsActive(t)
            \/ FamilyOf(f) # {} /\ Continuing(f) # {}

LEMMA StateIs == StateShape
<1>1. State = [f \in Calls |-> State[f]]
  BY DEF State
<1>2. ASSUME NEW f \in Calls
      PROVE  State[f] = IF \E t \in FamilyOf(f) : IsActive(t) THEN "live"
                        ELSE IF FamilyOf(f) = {} THEN "new"
                        ELSE IF Continuing(f) # {} THEN "live" ELSE "over"
  BY DEF State
<1> QED BY <1>1, <1>2 DEF StateShape

(* Any step but an insert may end sessions and does nothing else to them. *)
LEMMA LifecycleEnds ==
  ASSUME BaseInv, FamilyInv, [Next]_vars, Stored' = Stored
  PROVE  Lifecycle!Next
<1>0. TypeOK /\ LocalsOK /\ RefreshOK
  BY DEF BaseInv, TypeInv, SessionInv
<1>1. RowsStand
  BY RowsStandStep DEF BaseInv, SessionInv
<1>2. \A f : FamilyOf(f)' = FamilyOf(f)
  BY <1>1 DEF RowsStand, FamilyOf
<1>3. \A t \in Stored : IsActive(t)' => IsActive(t)
  BY <1>1 DEF RowsStand, IsActive, IsUsed
<1>4. ASSUME NEW f \in Calls, NEW c \in Continuing(f)', FamilyOf(f) # {}
      PROVE  c \in Continuing(f) \/ \E t \in FamilyOf(f) : IsActive(t)
  <2>1. c \in Calls /\ pc'[c] \in {"rotate", "issue"} /\ family'[c] = f
    BY DEF Continuing
  <2>2. CASE LookupToRotate(c)
    <3>1. req[c].token \in Stored /\ IsActive(req[c].token)
      BY <1>0, <2>1, <2>2 DEF LookupToRotate, Return, Goto, TypeOK, IsActive
    <3>2. tokens[req[c].token].family = f
      BY <1>0, <2>1, <2>2, <3>1 DEF LookupToRotate, TypeOK
    <3> QED BY <3>1, <3>2 DEF FamilyOf
  <2>3. CASE MarkRotated(c)
    BY <2>1, <2>3 DEF MarkRotated, Continuing
  <2>4. ASSUME FindUser(c) PROVE FALSE
    <3>1. f = c
      BY <1>0, <2>1, <2>4 DEF FindUser, Return, Goto, TypeOK
    <3>2. PICK t \in Stored : tokens[t].family = c
      BY <1>4, <3>1 DEF FamilyOf
    <3>3. c \in Stored
      BY <3>2 DEF FamilyInv
    <3> QED BY <1>0, <2>1, <2>4, <3>3 DEF FindUser, RefreshOK, Finished
  <2>5. CASE pc'[c] = pc[c] /\ family'[c] = family[c]
    BY <2>1, <2>5 DEF Continuing
  <2> QED BY <2>1, <2>2, <2>3, <2>4, <2>5, RefreshAdvances DEF BaseInv
<1> DEFINE S == {f \in Calls : State[f] = "live" /\ State'[f] = "over"}
<1>5. /\ State' = [f \in Calls |-> State'[f]]
      /\ \A f \in Calls :
           /\ State'[f] \in {"new", "live", "over"}
           /\ State'[f] = "new" <=> FamilyOf(f)' = {}
           /\ State'[f] = "live" <=>
                \/ \E t \in FamilyOf(f)' : IsActive(t)'
                \/ FamilyOf(f)' # {} /\ Continuing(f)' # {}
  <2>1. StateShape'
    BY StateIs, PTL
  <2> QED BY <2>1 DEF StateShape
<1>6. ASSUME NEW f \in Calls
      PROVE  State'[f] = IF f \in S THEN "over" ELSE State[f]
  <2>1. State'[f] = "new" <=> State[f] = "new"
    BY <1>2, <1>5, StateIs DEF StateShape
  <2>2. State'[f] = "live" => State[f] = "live"
    <3> SUFFICES ASSUME State'[f] = "live" PROVE State[f] = "live"
      OBVIOUS
    <3>1. CASE \E t \in FamilyOf(f)' : IsActive(t)'
      BY <1>2, <1>3, <3>1, StateIs DEF StateShape, FamilyOf
    <3>2. CASE FamilyOf(f)' # {} /\ Continuing(f)' # {}
      BY <1>2, <1>4, <3>2, StateIs DEF StateShape
    <3> QED BY <1>5, <3>1, <3>2
  <2> QED BY <1>5, <2>1, <2>2, StateIs DEF StateShape
<1> HIDE DEF S
<1>7. State' = [f \in Calls |-> IF f \in S THEN "over" ELSE State[f]]
  BY <1>5, <1>6
<1>8. Holder' = Holder
  <2>1. \A f \in Calls : f \in Stored => tokens'[f].user = tokens[f].user
    BY <1>1 DEF RowsStand
  <2> QED BY <1>2, <2>1 DEF Holder
<1>9. S \in SUBSET Calls /\ \A f \in S : State[f] = "live"
  BY DEF S
<1> QED BY <1>7, <1>8, <1>9 DEF Lifecycle!Next, Lifecycle!End

(* An insert opens the session of a login, and continues that of a refresh. *)
LEMMA LifecycleOpens ==
  ASSUME BaseInv, FamilyInv, NEW c \in Calls, Issue(c)
  PROVE  [Lifecycle!Next]_Lifecycle!session
<1>0. TypeOK /\ LocalsOK /\ RefreshOK
  BY DEF BaseInv, TypeInv, SessionInv
<1> PICK f \in Calls : f = family[c]
  BY <1>0 DEF Issue, LocalsOK
<1>1. /\ pc[c] = "issue" /\ c \notin Stored /\ f = family[c] /\ owner[c] \in Users
      /\ \A o \in Calls : pc'[o] = IF o = c THEN "respond" ELSE pc[o]
      /\ family' = family
  BY <1>0 DEF Issue, RefreshOK, Finished, LocalsOK, Return, Goto, TypeOK
<1>2. NewToken(c) \in Token /\ NewToken(c) # NoToken
  <2>1. NewToken(c) \in Token
    BY <1>1 DEF NewToken, Token
  <2> QED BY <2>1, ConstantsAssumption
<1>3. \A t \in Calls : tokens'[t] = IF t = c THEN NewToken(c) ELSE tokens[t]
  BY <1>0 DEF Issue, TypeOK
<1>4. Stored' = Stored \cup {c}
  BY <1>2, <1>3 DEF Stored
<1>5. FamilyOf(f)' = FamilyOf(f) \cup {c} /\ IsActive(c)'
  <2>1. tokens'[c] = NewToken(c)
    BY <1>3
  <2>2. tokens'[c].family = f /\ IsActive(c)'
    BY <1>1, <2>1 DEF NewToken, IsActive, IsUsed
  <2>3. \A t \in Stored : tokens'[t] = tokens[t] /\ t # c
    BY <1>1, <1>3 DEF Stored
  <2> QED BY <1>4, <2>2, <2>3 DEF FamilyOf
<1>6. \A g \in Calls \ {f} : FamilyOf(g)' = FamilyOf(g) /\ Continuing(g)' = Continuing(g)
  <2>1. tokens'[c] = NewToken(c)
    BY <1>3
  <2>2. ASSUME NEW g \in Calls \ {f} PROVE FamilyOf(g)' = FamilyOf(g)
    <3>1. tokens'[c].family # g
      BY <1>1, <2>1 DEF NewToken
    <3>2. \A t \in Stored : tokens'[t] = tokens[t] /\ t # c
      BY <1>1, <1>3 DEF Stored
    <3> QED BY <1>4, <3>1, <3>2 DEF FamilyOf
  <2>3. \A g \in Calls \ {f} : Continuing(g)' = Continuing(g)
    BY <1>1 DEF Continuing
  <2> QED BY <2>2, <2>3
<1>7. \A t \in Stored : IsActive(t)' <=> IsActive(t)
  BY <1>1, <1>3 DEF IsActive, IsUsed, Stored
<1>8. /\ State' = [g \in Calls |-> State'[g]]
      /\ \A g \in Calls :
           /\ State'[g] \in {"new", "live", "over"}
           /\ State'[g] = "new" <=> FamilyOf(g)' = {}
           /\ State'[g] = "live" <=>
                \/ \E t \in FamilyOf(g)' : IsActive(t)'
                \/ FamilyOf(g)' # {} /\ Continuing(g)' # {}
  <2>1. StateShape'
    BY StateIs, PTL
  <2> QED BY <2>1 DEF StateShape
<1>9. State'[f] = "live"
  BY <1>1, <1>5, <1>8
<1>10. ASSUME NEW g \in Calls \ {f} PROVE State'[g] = State[g]
  <2>1. State'[g] = "new" <=> State[g] = "new"
    BY <1>6, <1>8, StateIs DEF StateShape
  <2>2. State'[g] = "live" <=> State[g] = "live"
    BY <1>6, <1>7, <1>8, StateIs DEF StateShape, FamilyOf
  <2> QED BY <1>8, <2>1, <2>2, StateIs DEF StateShape
<1>11. \A g \in Calls : Holder[g] = (IF g \in Stored /\ FamilyOf(g) # {}
                                      THEN tokens[g].user ELSE NoToken)
  BY DEF Holder
<1>12. \A g \in Calls : Holder'[g] = (IF g \in Stored' /\ FamilyOf(g)' # {}
                                       THEN tokens'[g].user ELSE NoToken)
  BY DEF Holder
<1>13. Holder = [g \in Calls |-> Holder[g]] /\ Holder' = [g \in Calls |-> Holder'[g]]
  BY DEF Holder
<1>14. FamilyOf(c) = {}
  BY <1>1 DEF FamilyInv, FamilyOf
<1>15. \A g \in Calls \ {f, c} : Holder'[g] = Holder[g]
  BY <1>3, <1>4, <1>6, <1>11, <1>12
<1>16. CASE IsRefresh(c)
  <2>1. PICK p \in Stored : tokens[p].family = f
    BY <1>0, <1>1, <1>16 DEF RefreshOK
  <2>2. FamilyOf(f) # {} /\ f \in Stored /\ f # c
    BY <1>1, <2>1 DEF FamilyOf, FamilyInv
  <2>3. State[f] = "live"
    BY <1>1, <2>2, StateIs DEF StateShape, Continuing
  <2>4. State' = State
    BY <1>8, <1>9, <1>10, <2>3, StateIs DEF StateShape
  <2>5. Holder'[f] = Holder[f]
    BY <1>1, <1>3, <1>4, <1>5, <1>11, <1>12, <2>2
  <2>6. Holder'[c] = Holder[c]
    BY <1>1, <1>6, <1>11, <1>12, <1>14, <2>2
  <2>7. Holder' = Holder
    BY <1>13, <1>15, <2>5, <2>6
  <2> QED BY <2>4, <2>7 DEF Lifecycle!session
<1>17. CASE ~IsRefresh(c)
  <2>1. f = c
    BY <1>1, <1>17 DEF FamilyInv
  <2>2. State[c] = "new" /\ State' = [State EXCEPT ![c] = "live"]
    BY <1>8, <1>9, <1>10, <1>14, <2>1, StateIs DEF StateShape
  <2>3. Holder'[c] = owner[c]
    <3>1. tokens'[c].user = owner[c]
      BY <1>3 DEF NewToken
    <3> QED BY <1>4, <1>5, <1>12, <2>1, <3>1
  <2>4. Holder' = [Holder EXCEPT ![c] = owner[c]]
    BY <1>13, <1>15, <2>1, <2>3
  <2> QED BY <1>1, <2>2, <2>4 DEF Lifecycle!Next, Lifecycle!Open
<1> QED BY <1>16, <1>17

(* Once a session is over nothing revives it: no retry, no late statement of
   another call, no login of the same user. *)
THEOREM LifecycleImplemented == Spec => ImplementsLifecycle
<1>1. Init => Lifecycle!Init
  <2> SUFFICES ASSUME Init PROVE Lifecycle!Init
    OBVIOUS
  <2>1. Stored = {} /\ \A f : FamilyOf(f) = {}
    BY DEF Init, Stored, FamilyOf
  <2>2. State = [f \in Calls |-> "new"]
    BY <2>1, StateIs DEF StateShape
  <2>3. Holder = [f \in Calls |-> NoToken]
    BY <2>1 DEF Holder
  <2> QED BY <2>2, <2>3 DEF Lifecycle!Init
<1>2. BaseInv /\ FamilyInv /\ [Next]_vars => [Lifecycle!Next]_Lifecycle!session
  <2> SUFFICES ASSUME BaseInv, FamilyInv, [Next]_vars, ~(\E c \in Calls : Issue(c))
               PROVE  Stored' = Stored
    BY LifecycleEnds, LifecycleOpens
  <2>1. RowsStand
    BY RowsStandStep DEF BaseInv, SessionInv
  <2>2. ASSUME NEW t \in Stored', t \notin Stored PROVE FALSE
    <3>1. t \in Calls /\ pc[t] = "issue" /\ pc'[t] = "respond" /\ tokens' # tokens
      BY <2>1, <2>2 DEF RowsStand, Stored
    <3>2. PICK c \in Calls : Receive(c) \/ Step(c) \/ Expire(c) \/ FaultStep(c)
      BY <3>1 DEF Next, vars
    <3>3. t = c
      BY <3>1, <3>2, AloneStep DEF BaseInv, Alone
    <3> QED BY <3>1, <3>2, <3>3
            DEF Receive, Step, FindUser, LookupToRotate, RevokeReused, MarkRotated,
                LookupToRevoke, RevokeFamily, GetUser, UpdatePassword, RevokeAll, CreateUser,
                Respond, Expire, FaultStep, StatementFails, Crash, LoseResponse
  <2> QED BY <2>1, <2>2 DEF RowsStand
<1> QED BY <1>1, <1>2, BaseInvariant, FamilyInvariant, PTL
        DEF Spec, ImplementsLifecycle, Lifecycle!Spec

-----------------------------------------------------------------------------
(* The open ends of a session: its tokens that no refresh has consumed, and the
   calls that are about to insert one. *)
Ends(f) == {t \in FamilyOf(f) : ~tokens[t].rotated}
             \cup {c \in Calls : pc[c] = "issue" /\ family[c] = f}

(* Two refreshes of one token of the session were in flight together. *)
Conflict(f) ==
  \E a, b \in Calls :
    /\ Overlap(a, b)
    /\ IsRefresh(a) /\ IsRefresh(b) /\ req[a].token = req[b].token
    /\ req[a].token \in FamilyOf(f)

(* Each refresh turns one open end into another, so that a session has a second
   one only after a conflict: a call that is about to mark a token which another
   call has marked since was not preceded by that one. *)
EndsInv ==
  /\ \A f \in Calls : \A x, y \in Ends(f) : x # y => Conflict(f)
  /\ \A c \in Calls :
       pc[c] = "rotate" /\ tokens[req[c].token].rotated =>
         \E d \in Calls \ {c} :
           IsRefresh(d) /\ req[d].token = req[c].token /\ d \notin before[c]

LEMMA RefreshKept ==
  ASSUME BaseInv, [Next]_vars, NEW a \in Calls, IsRefresh(a)
  PROVE  IsRefresh(a)' /\ req'[a] = req[a] /\ before'[a] = before[a]
<1>1. pc[a] # "idle"
  BY DEF BaseInv, AnswersOK, IsRefresh
<1> QED BY <1>1, CallsStandStep DEF BaseInv, CallsStand, IsRefresh

LEMMA ConflictStays ==
  ASSUME BaseInv, [Next]_vars, NEW f \in Calls, Conflict(f)
  PROVE  Conflict(f)'
<1>1. RowsStand
  BY RowsStandStep DEF BaseInv, SessionInv
<1>2. PICK a, b \in Calls :
        /\ Overlap(a, b)
        /\ IsRefresh(a) /\ IsRefresh(b) /\ req[a].token = req[b].token
        /\ req[a].token \in FamilyOf(f)
  BY DEF Conflict
<1>3. /\ IsRefresh(a)' /\ req'[a] = req[a] /\ before'[a] = before[a]
      /\ IsRefresh(b)' /\ req'[b] = req[b] /\ before'[b] = before[b]
  BY <1>2, RefreshKept
<1>4. req'[a].token \in FamilyOf(f)'
  BY <1>1, <1>2, <1>3 DEF RowsStand, FamilyOf
<1> QED BY <1>2, <1>3, <1>4 DEF Conflict, Overlap

(* Where an open end comes from: it was one, or the call has marked a token of
   the session, or it is the login that opens the session. *)
LEMMA EndsFrom ==
  ASSUME BaseInv, [Next]_vars, NEW f \in Calls, NEW x \in Ends(f)'
  PROVE  /\ x \in Calls
         /\ \/ x \in Ends(f)
            \/ MarkRotated(x) /\ family[x] = f
            \/ FindUser(x) /\ f = x
<1>0. TypeOK /\ LocalsOK
  BY DEF BaseInv, TypeInv
<1>1. RowsStand
  BY RowsStandStep DEF BaseInv, SessionInv
<1>2. CASE x \in Stored' /\ tokens'[x].family = f /\ ~tokens'[x].rotated
  <2>1. CASE x \in Stored
    BY <1>1, <1>2, <2>1 DEF RowsStand, Ends, FamilyOf, Stored
  <2>2. CASE x \notin Stored
    <3>1. x \in Calls /\ pc[x] = "issue" /\ tokens'[x] = NewToken(x)
      BY <1>1, <1>2, <2>2 DEF RowsStand, Stored
    <3>2. family[x] = f
      BY <1>2, <3>1 DEF NewToken
    <3> QED BY <3>1, <3>2 DEF Ends
  <2> QED BY <2>1, <2>2
<1>3. CASE x \in Calls /\ pc'[x] = "issue" /\ family'[x] = f
  <2>1. CASE LookupToRotate(x)
    BY <1>0, <1>3, <2>1 DEF LookupToRotate, Return, Goto, TypeOK
  <2>2. CASE MarkRotated(x)
    BY <1>3, <2>2 DEF MarkRotated
  <2>3. CASE FindUser(x)
    BY <1>0, <1>3, <2>3 DEF FindUser, Return, Goto, TypeOK
  <2>4. CASE pc'[x] = pc[x] /\ family'[x] = family[x]
    BY <1>3, <2>4 DEF Ends
  <2> QED BY <1>3, <2>1, <2>2, <2>3, <2>4, RefreshAdvances DEF BaseInv
<1> QED BY <1>2, <1>3 DEF Ends, FamilyOf

(* The second open end of a session comes with the conflict. *)
LEMMA EndsStep ==
  ASSUME BaseInv, FamilyInv, EndsInv, [Next]_vars,
         NEW f \in Calls, NEW x \in Ends(f)', NEW y \in Ends(f)', x # y
  PROVE  Conflict(f)'
<1>0. TypeOK /\ LocalsOK /\ RefreshOK /\ AnswersOK
  BY DEF BaseInv, TypeInv, SessionInv
<1>1. CASE x \in Ends(f) /\ y \in Ends(f)
  BY <1>1, ConflictStays DEF EndsInv
<1>2. ASSUME NEW c \in Calls, FindUser(c), f = c, NEW o \in Ends(f)', o # c
      PROVE  FALSE
  <2>1. Alone(c) /\ pc[c] = "findUser" /\ tokens' = tokens
    BY <1>2, AloneStep DEF BaseInv, Step, FindUser
  <2>2. c \notin Stored
    BY <1>0, <2>1 DEF RefreshOK, Finished
  <2>3. FamilyOf(c) = {}
    BY <2>2 DEF FamilyOf, FamilyInv
  <2>4. o \in Calls /\ pc[o] = "issue" /\ family[o] = c
    BY <1>2, <2>1, <2>3 DEF Ends, Alone, FamilyOf, Stored
  <2>5. IsRefresh(o)
    BY <1>2, <2>4 DEF FamilyInv
  <2> QED BY <1>0, <2>3, <2>4, <2>5 DEF RefreshOK, FamilyOf
<1>3. ASSUME NEW c \in Calls, MarkRotated(c), family[c] = f, NEW o \in Ends(f)', o # c
      PROVE  Conflict(f)'
  <2>1. PICK p \in Stored : p = req[c].token
    BY <1>0, <1>3 DEF MarkRotated, LocalsOK
  <2>2. /\ Alone(c) /\ pc[c] = "rotate" /\ IsRefresh(c) /\ tokens[p].family = f
        /\ tokens' = [tokens EXCEPT ![p].rotated = TRUE]
    BY <1>0, <1>3, <2>1, AloneStep DEF BaseInv, Step, MarkRotated, RefreshOK
  <2>3. o \in Ends(f)
    <3>1. ~MarkRotated(o) /\ ~FindUser(o)
      BY <1>0, <1>3, <2>2, EndsFrom
         DEF Alone, MarkRotated, FindUser, Return, Goto, TypeOK
    <3> QED BY <3>1, EndsFrom, <1>3
  <2>4. o # p
    <3>1. tokens'[p].rotated
      BY <1>0, <2>1, <2>2 DEF TypeOK, Stored, Token
    <3>2. pc'[p] # "issue"
      BY <1>0, <1>3, <2>1, <2>2 DEF RefreshOK, Alone, Finished, Stored
    <3> QED BY <1>3, <3>1, <3>2 DEF Ends, FamilyOf
  <2>5. CASE ~tokens[p].rotated
    <3>1. p \in Ends(f)
      BY <2>2, <2>5 DEF Ends, FamilyOf
    <3> QED BY <2>3, <2>4, <3>1, ConflictStays DEF EndsInv
  <2>6. CASE tokens[p].rotated
    <3>1. PICK d \in Calls \ {c} :
            IsRefresh(d) /\ req[d].token = req[c].token /\ d \notin before[c]
      BY <2>1, <2>2, <2>6 DEF EndsInv
    <3>2. c \notin before[d]
      BY <1>0, <2>2 DEF AnswersOK, Over, Finished
    <3>3. Conflict(f)
      BY <2>1, <2>2, <3>1, <3>2 DEF Conflict, Overlap, FamilyOf
    <3> QED BY <3>3, ConflictStays
  <2> QED BY <2>5, <2>6
<1> QED BY <1>1, <1>2, <1>3, EndsFrom

(* A token is marked by the refresh that presented it. *)
LEMMA MarkedBy ==
  ASSUME BaseInv, [Next]_vars, NEW p \in Stored,
         ~tokens[p].rotated, tokens'[p].rotated
  PROVE  \E d \in Calls : MarkRotated(d) /\ req[d].token = p
<1>0. TypeOK /\ LocalsOK /\ RefreshOK
  BY DEF BaseInv, TypeInv, SessionInv
<1>1. tokens[p] \in Token /\ p \in Calls
  BY <1>0, RowMarked DEF Stored
<1>2. \A o \in Calls : ~Issue(o) /\ ~Expire(o)
  <2>1. \A o \in Calls : Issue(o) => o # p
    BY <1>0 DEF Issue, RefreshOK, Finished
  <2> QED BY <1>0, <1>1, <2>1 DEF Issue, Expire, TypeOK, Token
<1>3. \A o \in Calls : ~RevokeReused(o) /\ ~RevokeFamily(o) /\ ~RevokeAll(o)
  <2>1. \A S \in SUBSET Stored : tokens' # Revoked(S)
    BY <1>0, <1>1, RevokedKeeps
  <2> QED BY <2>1 DEF RevokeReused, RevokeFamily, RevokeAll, FamilyOf
<1>4. PICK d \in Calls : MarkRotated(d)
  BY <1>1, <1>2, <1>3
     DEF Next, Step, FaultStep, vars, Receive, FindUser, LookupToRotate,
         LookupToRevoke, GetUser, UpdatePassword, CreateUser, Respond,
         StatementFails, Crash, LoseResponse
<1>5. PICK q \in Stored : q = req[d].token
  BY <1>0, <1>4 DEF MarkRotated, LocalsOK
<1>6. tokens' = [tokens EXCEPT ![q].rotated = TRUE]
  BY <1>4, <1>5 DEF MarkRotated
<1> QED BY <1>0, <1>1, <1>4, <1>5, <1>6 DEF TypeOK

(* The token a call is about to mark was marked by a call that is not over. *)
LEMMA RotatingStep ==
  ASSUME BaseInv, EndsInv, [Next]_vars,
         NEW c \in Calls, pc'[c] = "rotate", tokens'[req'[c].token].rotated
  PROVE  \E d \in Calls \ {c} :
           IsRefresh(d)' /\ req'[d].token = req'[c].token /\ d \notin before'[c]
<1>0. TypeOK /\ LocalsOK /\ RefreshOK /\ AnswersOK
  BY DEF BaseInv, TypeInv, SessionInv
<1>1. pc'[c] = pc[c]
  <2>1. CASE LookupToRotate(c)
    <3>1. req'[c] = req[c] /\ tokens' = tokens /\ ~tokens[req[c].token].rotated
      BY <1>0, <2>1 DEF LookupToRotate, Return, Goto, TypeOK, IsUsed
    <3> QED BY <3>1
  <2>2. CASE MarkRotated(c)
    BY <1>0, <2>2 DEF MarkRotated, Goto, TypeOK
  <2>3. CASE FindUser(c)
    BY <1>0, <2>3 DEF FindUser, Return, Goto, TypeOK
  <2> QED BY <2>1, <2>2, <2>3, RefreshAdvances DEF BaseInv
<1>2. PICK p \in Stored : p = req[c].token
  BY <1>0, <1>1 DEF LocalsOK
<1>3. req'[c] = req[c] /\ before'[c] = before[c]
  BY <1>1, CallsStandStep DEF BaseInv, CallsStand
<1>4. CASE tokens[p].rotated
  <2>1. PICK d \in Calls \ {c} :
          IsRefresh(d) /\ req[d].token = req[c].token /\ d \notin before[c]
    BY <1>1, <1>2, <1>4 DEF EndsInv
  <2> QED BY <1>3, <2>1, RefreshKept
<1>5. CASE ~tokens[p].rotated
  <2>1. tokens'[p].rotated
    BY <1>2, <1>3
  <2>2. PICK d \in Calls : MarkRotated(d) /\ req[d].token = p
    BY <1>5, <2>1, MarkedBy
  <2>3. d # c
    BY <1>0, <2>2 DEF MarkRotated, Goto, TypeOK
  <2>4. IsRefresh(d) /\ d \notin before[c]
    BY <1>0, <2>2 DEF MarkRotated, RefreshOK, AnswersOK, Over, Finished
  <2> QED BY <1>2, <1>3, <2>2, <2>3, <2>4, RefreshKept
<1> QED BY <1>4, <1>5

(* A session has two tokens that can be refreshed only if two refreshes of one
   of its tokens were in flight together, and those were in flight together: a
   retry that comes after the answer never forks a session. *)
THEOREM ForksNeedOverlap == Spec => []TwoActiveNeedOverlap
<1>1. Init => EndsInv
  <2> SUFFICES ASSUME Init PROVE EndsInv
    OBVIOUS
  <2>1. \A f \in Calls : Ends(f) = {}
    BY DEF Init, Ends, FamilyOf, Stored
  <2> QED BY <2>1 DEF Init, EndsInv
<1>2. BaseInv /\ FamilyInv /\ EndsInv /\ [Next]_vars => EndsInv'
  BY EndsStep, RotatingStep DEF EndsInv
<1>3. EndsInv => TwoActiveNeedOverlap
  <2> SUFFICES ASSUME EndsInv, NEW f \in Calls,
                      Cardinality({t \in FamilyOf(f) : IsActive(t)}) > 1
               PROVE  Conflict(f)
    BY DEF TwoActiveNeedOverlap, Conflict
  <2> DEFINE A == {t \in FamilyOf(f) : IsActive(t)}
  <2>1. A # {}
    BY FS_EmptySet
  <2>2. PICK x : x \in A
    BY <2>1
  <2>3. A # {x}
    BY FS_Singleton
  <2>4. PICK y \in A : y # x
    BY <2>2, <2>3
  <2>5. x \in Ends(f) /\ y \in Ends(f)
    BY <2>2, <2>4 DEF Ends, IsActive, IsUsed
  <2> QED BY <2>4, <2>5 DEF EndsInv
<1> QED BY <1>1, <1>2, <1>3, BaseInvariant, FamilyInvariant, PTL DEF Spec

-----------------------------------------------------------------------------
(* A cookie is a token whose response the device has received.  A token is only
   ever presented by the device that holds it, and the response to a refresh
   takes the token it presented out of the jar. *)
CookieInv ==
  /\ \A d \in Devices :
       jar[d] # NoToken =>
         jar[d] \in Stored /\ pc[jar[d]] = "done" /\ req[jar[d]].device = d
  /\ \A c \in Calls :
       req[c] \in Refresh \cup Logout /\ req[c].token # NoToken =>
         /\ req[c].token \in Stored /\ pc[req[c].token] = "done"
         /\ req[req[c].token].device = req[c].device
  /\ \A d \in Devices, c \in Calls :
       jar[d] # NoToken /\ req[c] \in Refresh /\ req[c].token = jar[d] => pc[c] # "done"
  /\ \A t \in Stored :
       tokens[t].rotated => \E c \in Calls : req[c] \in Refresh /\ req[c].token = t

(* A call that is done stays so; one that becomes done writes its response. *)
LEMMA DoneStep ==
  ASSUME TypeInv, [Next]_vars, NEW c \in Calls
  PROVE  pc'[c] = "done" <=> pc[c] = "done" \/ Respond(c)
<1>0. TypeOK
  BY DEF TypeInv
<1>1. CASE UNCHANGED vars
  BY <1>0, <1>1 DEF vars, Respond, Goto, TypeOK
<1>2. ASSUME NEW o \in Calls, Receive(o) \/ Step(o) \/ Expire(o) \/ FaultStep(o), o # c
      PROVE  pc'[c] = pc[c] /\ ~Respond(c)
  <2>1. pc'[c] = pc[c]
    BY <1>2, AloneStep DEF Alone
  <2> QED BY <1>0, <2>1 DEF Respond, Goto, TypeOK
<1>3. CASE Receive(c)
  BY <1>0, <1>3
     DEF TypeOK, Receive, Return, Goto, Arriving, FirstStatement, Request, Login, Refresh,
         Logout, Change, Create, Ensure, Respond
<1>4. CASE Step(c) /\ ~Respond(c)
  BY <1>0, <1>4
     DEF TypeOK, Return, Goto, Step, FindUser, Issue, LookupToRotate, LookupToRevoke,
         RevokeReused, MarkRotated, RevokeFamily, RevokeAll, GetUser, UpdatePassword,
         CreateUser
<1>5. CASE FaultStep(c) \/ Expire(c)
  BY <1>0, <1>5
     DEF TypeOK, Return, Goto, FaultStep, Expire, StatementFails, Crash, LoseResponse,
         InFlight, Finished, Respond
<1>6. CASE Respond(c)
  BY <1>0, <1>6 DEF Respond, Goto, TypeOK
<1> QED BY <1>1, <1>2, <1>3, <1>4, <1>5, <1>6 DEF Next, Step

(* The jar of a device changes by a response to it. *)
LEMMA JarStep ==
  ASSUME BaseInv, [Next]_vars, NEW d \in Devices, jar'[d] # jar[d], jar'[d] # NoToken
  PROVE  /\ jar'[d] \in Stored /\ pc[jar'[d]] = "respond" /\ Respond(jar'[d])
         /\ req[jar'[d]].device = d
<1>0. TypeOK /\ LocalsOK /\ AnswersOK
  BY DEF BaseInv, TypeInv
<1>1. PICK c \in Calls : Respond(c)
  BY DEF Next, Step, FaultStep, vars, Receive, FindUser, Issue, LookupToRotate,
         LookupToRevoke, RevokeReused, MarkRotated, RevokeFamily, RevokeAll, GetUser,
         UpdatePassword, CreateUser, Expire, StatementFails, Crash, LoseResponse
<1>2. pc[c] = "respond" /\ req[c].kind \in CookieKinds /\ req[c] \in Request
  BY <1>0, <1>1 DEF Respond, LocalsOK
<1>3. PICK e \in Devices : e = req[c].device
  BY <1>2 DEF CookieKinds, Request, Login, Refresh, Logout, Change, Create, Ensure
<1>4. jar' = [jar EXCEPT ![e] = CookieAfter(c)]
  BY <1>1, <1>2, <1>3 DEF Respond
<1>5. e = d /\ jar'[d] = CookieAfter(c)
  BY <1>0, <1>4 DEF TypeOK
<1>6. CookieAfter(c) = c /\ answer[c] = "pair"
  BY <1>3, <1>5 DEF CookieAfter
<1> QED BY <1>0, <1>1, <1>2, <1>3, <1>5, <1>6 DEF AnswersOK

LEMMA CookieStep ==
  ASSUME BaseInv, CookieInv, [Next]_vars
  PROVE  CookieInv'
<1>0. TypeOK /\ LocalsOK /\ AnswersOK /\ RefreshOK
  BY DEF BaseInv, TypeInv, SessionInv
<1>1. RowsStand /\ CallsStand
  BY RowsStandStep, CallsStandStep DEF BaseInv, SessionInv
<1>2. \A c \in Calls : pc'[c] = "done" <=> pc[c] = "done" \/ Respond(c)
  BY DoneStep DEF BaseInv
<1>3. ASSUME NEW t \in Stored, pc[t] # "idle" PROVE t \in Stored' /\ req'[t] = req[t]
  BY <1>1, <1>3 DEF RowsStand, CallsStand, Stored
<1>4. ASSUME NEW d \in Devices, NEW t, t = jar'[d], t # NoToken
      PROVE  t \in Stored' /\ pc'[t] = "done" /\ req'[t].device = d
  <2>1. CASE jar'[d] = jar[d]
    <3>1. t \in Stored /\ pc[t] = "done" /\ req[t].device = d
      BY <1>4, <2>1 DEF CookieInv
    <3> QED BY <1>2, <1>3, <3>1 DEF Stored
  <2>2. CASE jar'[d] # jar[d]
    <3>1. t \in Stored /\ pc[t] = "respond" /\ Respond(t) /\ req[t].device = d
      BY <1>4, <2>2, JarStep
    <3> QED BY <1>2, <1>3, <3>1 DEF Stored
  <2> QED BY <2>1, <2>2
<1>5. ASSUME NEW c \in Calls, req'[c] \in Refresh \cup Logout,
             NEW t, t = req'[c].token, t # NoToken
      PROVE  t \in Stored' /\ pc'[t] = "done" /\ req'[t].device = req'[c].device
  <2>1. CASE pc[c] # "idle"
    <3>1. req'[c] = req[c]
      BY <1>1, <2>1 DEF CallsStand
    <3>2. t \in Stored /\ pc[t] = "done" /\ req[t].device = req[c].device
      BY <1>5, <3>1 DEF CookieInv
    <3> QED BY <1>2, <1>3, <3>1, <3>2 DEF Stored
  <2>2. CASE pc[c] = "idle"
    <3>1. req'[c] # req[c]
      BY <1>0, <1>5, <2>2, ConstantsAssumption DEF AnswersOK, Request
    <3>2. Receive(c)
      <4>1. PICK o \in Calls : Receive(o) \/ Step(o) \/ Expire(o) \/ FaultStep(o)
        BY <3>1 DEF Next, vars
      <4>2. o = c
        BY <3>1, <4>1, AloneStep DEF BaseInv, Alone
      <4> QED BY <2>2, <3>1, <4>1, <4>2
              DEF Step, FindUser, Issue, LookupToRotate, LookupToRevoke, RevokeReused,
                  MarkRotated, RevokeFamily, RevokeAll, GetUser, UpdatePassword,
                  CreateUser, Respond, Expire, FaultStep, StatementFails, Crash,
                  LoseResponse
    <3>3. PICK r \in Arriving : req' = [req EXCEPT ![c] = r]
      BY <3>2 DEF Receive
    <3>4. req'[c] = r /\ r \in Refresh \cup Logout
      BY <1>0, <1>5, <3>3 DEF TypeOK
    <3>5. t = jar[r.device] /\ r.device \in Devices
      BY <1>5, <3>4 DEF Arriving, Refresh, Logout
    <3>6. t \in Stored /\ pc[t] = "done" /\ req[t].device = r.device
      BY <1>5, <3>5 DEF CookieInv
    <3> QED BY <1>2, <1>3, <3>4, <3>6 DEF Stored
  <2> QED BY <2>1, <2>2
<1>6. ASSUME NEW d \in Devices, NEW t, t = jar'[d], t # NoToken,
             NEW c \in Calls, req'[c] \in Refresh, req'[c].token = t, pc'[c] = "done"
      PROVE  FALSE
  <2>1. pc[c] = "done" \/ (Respond(c) /\ pc[c] = "respond")
    BY <1>2, <1>6 DEF Respond
  <2>2. req'[c] = req[c]
    BY <1>1, <2>1 DEF CallsStand
  <2>3. t \in Stored /\ pc[t] = "done" /\ req[t].device = req[c].device
    BY <1>6, <2>2 DEF CookieInv
  <2>4. jar'[d] = jar[d]
    BY <1>6, <2>3, JarStep
  <2>5. pc[c] # "done" /\ req[t].device = d
    BY <1>6, <2>2, <2>4 DEF CookieInv
  <2>6. req[c].kind = "refresh" /\ req[c].device = d /\ req[c].token = t
    BY <1>6, <2>2, <2>3, <2>5 DEF Refresh
  <2>7. jar'[d] = CookieAfter(c)
    BY <1>0, <2>1, <2>5, <2>6 DEF Respond, CookieKinds, TypeOK
  <2>8. c # t
    BY <2>1, <2>3, <2>5
  <2> QED BY <1>6, <2>6, <2>7, <2>8 DEF CookieAfter, FailedRefresh
<1>7. ASSUME NEW t \in Stored', tokens'[t].rotated
      PROVE  \E c \in Calls : req'[c] \in Refresh /\ req'[c].token = t
  <2>1. t \in Stored
    <3>1. ~NewToken(t).rotated
      BY DEF NewToken
    <3> QED BY <1>1, <1>7, <3>1 DEF RowsStand
  <2>2. PICK c \in Calls : req[c] \in Refresh /\ req[c].token = t
    <3>1. CASE tokens[t].rotated
      BY <2>1, <3>1 DEF CookieInv
    <3>2. CASE ~tokens[t].rotated
      <4>1. PICK c \in Calls : MarkRotated(c) /\ req[c].token = t
        BY <1>7, <2>1, <3>2, MarkedBy
      <4>2. req[c] \in Request /\ req[c].kind = "refresh"
        BY <1>0, <4>1 DEF MarkRotated, RefreshOK, IsRefresh, LocalsOK
      <4>3. req[c] \in Refresh
        BY <4>2 DEF Request, Login, Refresh, Logout, Change, Create, Ensure
      <4> QED BY <4>1, <4>3
    <3> QED BY <3>1, <3>2
  <2>3. pc[c] # "idle"
    BY <1>0, <2>2, ConstantsAssumption DEF AnswersOK, Request
  <2> QED BY <1>1, <2>2, <2>3 DEF CallsStand
<1> QED BY <1>4, <1>5, <1>6, <1>7 DEF CookieInv

(* While a device waits for nothing, and nothing it sent was cut off, the cookie
   it holds has not been rotated: in whatever order the answers of concurrent
   refreshes arrive, its next refresh is not taken for a replay. *)
THEOREM CookiesStayFresh == Spec => []IdleCookieIsUnrotated
<1>1. Init => CookieInv
  BY ConstantsAssumption DEF Init, CookieInv, Stored, Request
<1>2. BaseInv /\ CookieInv => IdleCookieIsUnrotated
  <2> SUFFICES ASSUME BaseInv, CookieInv, NEW d \in Devices, jar[d] # NoToken,
                      \A c \in Calls :
                        req[c] # NoCall /\ req[c].kind \in CookieKinds /\ req[c].device = d
                          => pc[c] = "done",
                      tokens[jar[d]].rotated
               PROVE  FALSE
    BY DEF IdleCookieIsUnrotated
  <2>1. PICK t \in Stored : t = jar[d]
    BY DEF CookieInv
  <2>2. PICK c \in Calls : req[c] \in Refresh /\ req[c].token = t
    BY <2>1 DEF CookieInv
  <2>3. t # NoToken /\ req[t].device = req[c].device /\ req[t].device = d
    BY <2>1, <2>2 DEF CookieInv
  <2>4. req[c] # NoCall /\ req[c].kind \in CookieKinds
    BY <2>2, ConstantsAssumption DEF Refresh, CookieKinds, Request
  <2> QED BY <2>1, <2>2, <2>3, <2>4 DEF CookieInv
<1> QED BY <1>1, <1>2, CookieStep, BaseInvariant, PTL DEF Spec

=============================================================================
