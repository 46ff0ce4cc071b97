------------------------------ MODULE Sessions ------------------------------
(***************************************************************************)
(* Accounts and sessions of the admin panel: internal/auth (login,         *)
(* refresh, logout) and internal/user (creating and seeding accounts, and  *)
(* the password change, which ends sessions through auth).                 *)
(*                                                                         *)
(* As in Registration, every HTTP call is a goroutine without transaction  *)
(* and one action is one database statement.  The refresh token that call  *)
(* c inserts is named c, and so is the family that login c opens, for both *)
(* ids are fresh uuids drawn by c.  A password stands for its hash.        *)
(*                                                                         *)
(* The access tokens that login and refresh sign are in AccessTokens.      *)
(***************************************************************************)
EXTENDS Naturals, FiniteSets

CONSTANTS
  Calls,       \* HTTP calls
  Devices,     \* browsers, each with one refresh cookie
  Users,       \* e-mails of accounts: the users table is unique on them
  Passwords,   \* passwords that satisfy ValidatePassword
  WeakPassword,
  Kinds,       \* the requests that arrive, a subset of RequestKinds
  Faults,      \* subset of FaultKinds
  NoToken, NoCall, NoUser

FaultKinds == {"transient", "crash", "lostResponse"}

(* Requests that may set or clear the cookie of the device that sends them. *)
CookieKinds  == {"login", "refresh", "logout"}
RequestKinds == CookieKinds \cup {"change", "create", "ensure"}

Token   == [user : Users, family : Calls, rotated : BOOLEAN,
            revoked : BOOLEAN, expired : BOOLEAN]
Cookie  == Calls \cup {NoToken}
Login   == [kind : {"login"}, device : Devices, user : Users, password : Passwords]
Refresh == [kind : {"refresh"}, device : Devices, token : Cookie]
Logout  == [kind : {"logout"}, device : Devices, token : Cookie]
Change  == [kind : {"change"}, user : Users,
            password : Passwords, new : Passwords \cup {WeakPassword}]

(* POST /users; the seeding of an admin by a starting server or seed-admin. *)
Create  == [kind : {"create"}, user : Users, password : Passwords \cup {WeakPassword}]
Ensure  == [kind : {"ensure"}, user : Users, password : Passwords \cup {WeakPassword}]
Request == Login \cup Refresh \cup Logout \cup Change \cup Create \cup Ensure

ASSUME ConstantsAssumption ==
  /\ WeakPassword \notin Passwords
  /\ NoUser \notin Passwords
  /\ Kinds \subseteq RequestKinds
  /\ Faults \subseteq FaultKinds
  /\ NoToken \notin Token /\ NoToken \notin Calls
  /\ NoCall \notin Request

VARIABLES
  password,   \* users table: password_hash
  tokens,     \* refresh_tokens table, by the call that inserted the row
  jar,        \* the refresh cookie of each device
  pc,         \* the statement each call is about to send
  req,        \* the request of each call
  owner,      \* locals: the user ...
  family,     \* ... and the family issueTokenPair is called with
  answer,     \* how the service method ended
  before      \* history: the calls that were over when this one arrived

vars == <<password, tokens, jar, pc, req, owner, family, answer, before>>

Labels  == {"idle", "findUser", "lookup", "revokeReused", "rotate", "issue",
            "revokeFamily", "getUser", "updatePassword", "revokeAll",
            "createUser", "respond", "done", "lost", "crashed"}
Answers == {"none", "pair", "invalidCredentials", "invalidToken", "reuse",
            "loggedOut", "changed", "incorrectPassword", "weakPassword",
            "created", "emailTaken", "ensured", "error"}

TypeOK ==
  /\ password \in [Users -> Passwords \cup {NoUser}]
  /\ tokens \in [Calls -> Token \cup {NoToken}]
  /\ jar \in [Devices -> Cookie]
  /\ pc \in [Calls -> Labels]
  /\ req \in [Calls -> Request \cup {NoCall}]
  /\ owner \in [Calls -> Users \cup {NoToken}]
  /\ family \in [Calls -> Cookie]
  /\ answer \in [Calls -> Answers]
  /\ before \in [Calls -> SUBSET Calls]

Stored == {t \in Calls : tokens[t] # NoToken}

(* Mutant: the rows of the user instead of the rows of the family. *)
SameUserAs(f) == {t \in Stored : \E o \in Stored :
                    tokens[o].family = f /\ tokens[o].user = tokens[t].user}

FamilyOf(f) == {t \in Stored : tokens[t].family = f}

(* RefreshToken.IsUsed, IsExpired and IsActive *)
IsUsed(t)   == tokens[t].rotated \/ tokens[t].revoked
IsActive(t) == ~IsUsed(t) /\ ~tokens[t].expired

Init ==
  /\ password \in [Users -> Passwords \cup {NoUser}]
  /\ tokens = [c \in Calls |-> NoToken]
  /\ jar = [d \in Devices |-> NoToken]
  /\ pc = [c \in Calls |-> "idle"]
  /\ req = [c \in Calls |-> NoCall]
  /\ owner = [c \in Calls |-> NoToken]
  /\ family = [c \in Calls |-> NoToken]
  /\ answer = [c \in Calls |-> "none"]
  /\ before = [c \in Calls |-> {}]

-----------------------------------------------------------------------------

Finished == {"respond", "done", "lost", "crashed"}
Over     == {c \in Calls : pc[c] \in Finished}

Goto(c, l) == pc' = [pc EXCEPT ![c] = l]

(* The service method returns; the handler has the response still to write. *)
Return(c, a) ==
  /\ Goto(c, "respond")
  /\ answer' = [answer EXCEPT ![c] = a]

(* ValidatePassword *)
Acceptable(p) == p # WeakPassword

(* The requests that can arrive.  Refresh and logout carry the cookie the
   device holds when it sends; a change is that of an account, which the
   access token names. *)
Arriving ==
  {r \in Request :
     /\ r.kind \in Kinds
     /\ r.kind \in {"refresh", "logout"} => r.token = jar[r.device]
     /\ r.kind = "change" => password[r.user] # NoUser}

FirstStatement ==
  [login |-> "findUser", refresh |-> "lookup", logout |-> "lookup",
   change |-> "getUser", create |-> "createUser", ensure |-> "createUser"]

(* A request arrives.  Without a cookie refresh and logout end in the handler,
   and an account with a weak password is refused before any statement. *)
Receive(c) ==
  /\ pc[c] = "idle"
  /\ \E r \in Arriving :
       /\ req' = [req EXCEPT ![c] = r]
       /\ CASE r.kind = "refresh" /\ r.token = NoToken -> Return(c, "invalidToken")
            [] r.kind = "logout" /\ r.token = NoToken -> Return(c, "loggedOut")
            [] r.kind \in {"create", "ensure"} /\ ~Acceptable(r.password) ->
                 Return(c, "weakPassword")
            [] OTHER -> Goto(c, FirstStatement[r.kind]) /\ UNCHANGED answer
  /\ before' = [before EXCEPT ![c] = Over]
  /\ UNCHANGED <<password, tokens, jar, owner, family>>

-----------------------------------------------------------------------------
(* Login *)

FindUser(c) ==
  /\ pc[c] = "findUser"
  /\ IF req[c].password = password[req[c].user]
       THEN /\ owner' = [owner EXCEPT ![c] = req[c].user]
            /\ family' = [family EXCEPT ![c] = c]
            /\ Goto(c, "issue")
            /\ UNCHANGED answer
       ELSE Return(c, "invalidCredentials") /\ UNCHANGED <<owner, family>>
  /\ UNCHANGED <<password, tokens, jar, req, before>>

(* Mutant: a refresh opens a family of its own. *)
NewTokenOwnFamily(c) == [user |-> owner[c], family |-> c, rotated |-> FALSE,
                         revoked |-> FALSE, expired |-> FALSE]

(* issueTokenPair: INSERT of the new token *)
NewToken(c) == [user |-> owner[c], family |-> family[c], rotated |-> FALSE,
                revoked |-> FALSE, expired |-> FALSE]

Issue(c) ==
  /\ pc[c] = "issue"
  /\ tokens' = [tokens EXCEPT ![c] = NewToken(c)]
  /\ Return(c, "pair")
  /\ UNCHANGED <<password, jar, req, owner, family, before>>

-----------------------------------------------------------------------------
(* Refresh and Logout *)

(* Mutant: IsExpired is not asked. *)
LookupToRotateExpired(c) ==
  LET t == req[c].token IN
  /\ pc[c] = "lookup" /\ req[c].kind = "refresh"
  /\ t \in Stored
  /\ owner' = [owner EXCEPT ![c] = tokens[t].user]
  /\ family' = [family EXCEPT ![c] = tokens[t].family]
  /\ Goto(c, IF IsUsed(t) THEN "revokeReused" ELSE "rotate")
  /\ UNCHANGED <<password, tokens, jar, req, answer, before>>

(* Refresh: ByTokenHash, IsUsed and IsExpired *)
LookupToRotate(c) ==
  LET t == req[c].token IN
  /\ pc[c] = "lookup" /\ req[c].kind = "refresh"
  /\ \/ /\ t \notin Stored
        /\ Return(c, "invalidToken")
        /\ UNCHANGED <<owner, family>>
     \/ /\ t \in Stored
        /\ owner' = [owner EXCEPT ![c] = tokens[t].user]
        /\ family' = [family EXCEPT ![c] = tokens[t].family]
        /\ IF IsUsed(t) THEN Goto(c, "revokeReused") /\ UNCHANGED answer
           ELSE IF tokens[t].expired THEN Return(c, "invalidToken")
           ELSE Goto(c, "rotate") /\ UNCHANGED answer
  /\ UNCHANGED <<password, tokens, jar, req, before>>

(* Logout: ByTokenHash *)
LookupToRevoke(c) ==
  LET t == req[c].token IN
  /\ pc[c] = "lookup" /\ req[c].kind = "logout"
  /\ IF t \in Stored
       THEN /\ family' = [family EXCEPT ![c] = tokens[t].family]
            /\ Goto(c, "revokeFamily")
            /\ UNCHANGED answer
       ELSE Return(c, "loggedOut") /\ UNCHANGED family
  /\ UNCHANGED <<password, tokens, jar, req, owner, before>>

(* Mutant: the update leaves rotated rows out. *)
RevokedUnrotated(S) ==
  [t \in Calls |-> IF t \in S /\ ~tokens[t].rotated
                   THEN [tokens[t] EXCEPT !.revoked = TRUE] ELSE tokens[t]]

(* UPDATE ... SET revoked_at WHERE revoked_at IS NULL, for the rows in S *)
Revoked(S) ==
  [t \in Calls |-> IF t \in S THEN [tokens[t] EXCEPT !.revoked = TRUE] ELSE tokens[t]]

RevokeReused(c) ==
  /\ pc[c] = "revokeReused"
  /\ tokens' = Revoked(FamilyOf(family[c]))
  /\ Return(c, "reuse")
  /\ UNCHANGED <<password, jar, req, owner, family, before>>

RevokeFamily(c) ==
  /\ pc[c] = "revokeFamily"
  /\ tokens' = Revoked(FamilyOf(family[c]))
  /\ Return(c, "loggedOut")
  /\ UNCHANGED <<password, jar, req, owner, family, before>>

(* Mutant: the refresh goes on without marking the token. *)
MarkRotatedNot(c) ==
  /\ pc[c] = "rotate"
  /\ Goto(c, "issue")
  /\ UNCHANGED <<password, tokens, jar, req, owner, family, answer, before>>

(* UPDATE ... SET rotated_at WHERE id = ?: also when it has been set since *)
MarkRotated(c) ==
  /\ pc[c] = "rotate"
  /\ tokens' = [tokens EXCEPT ![req[c].token].rotated = TRUE]
  /\ Goto(c, "issue")
  /\ UNCHANGED <<password, jar, req, owner, family, answer, before>>

-----------------------------------------------------------------------------
(* ChangePassword *)

(* ByID, Verify and ValidatePassword *)
GetUser(c) ==
  /\ pc[c] = "getUser"
  /\ \/ req[c].password # password[req[c].user] /\ Return(c, "incorrectPassword")
     \/ /\ req[c].password = password[req[c].user]
        /\ IF Acceptable(req[c].new)
             THEN Goto(c, "updatePassword") /\ UNCHANGED answer
             ELSE Return(c, "weakPassword")
  /\ UNCHANGED <<password, tokens, jar, req, owner, family, before>>

UpdatePassword(c) ==
  /\ pc[c] = "updatePassword"
  /\ password' = [password EXCEPT ![req[c].user] = req[c].new]
  /\ Goto(c, "revokeAll")
  /\ UNCHANGED <<tokens, jar, req, owner, family, answer, before>>

(* RevokeAllForUser *)
RevokeAll(c) ==
  /\ pc[c] = "revokeAll"
  /\ tokens' = Revoked({t \in Stored : tokens[t].user = req[c].user})
  /\ Return(c, "changed")
  /\ UNCHANGED <<password, jar, req, owner, family, before>>

-----------------------------------------------------------------------------
(* Register, EnsureAdmin and seed-admin *)

(* Mutant: the insert overwrites the account there is. *)
CreateUserOrReset(c) ==
  /\ pc[c] = "createUser"
  /\ password' = [password EXCEPT ![req[c].user] = req[c].password]
  /\ Return(c, IF req[c].kind = "create" THEN "created" ELSE "ensured")
  /\ UNCHANGED <<tokens, jar, req, owner, family, before>>

(* INSERT INTO users: the unique index on email lets one account in.  A taken
   e-mail is an error for POST /users, and success for EnsureAdmin and
   seed-admin. *)
CreateUser(c) ==
  LET u == req[c].user IN
  /\ pc[c] = "createUser"
  /\ IF password[u] = NoUser
       THEN /\ password' = [password EXCEPT ![u] = req[c].password]
            /\ Return(c, IF req[c].kind = "create" THEN "created" ELSE "ensured")
       ELSE /\ Return(c, IF req[c].kind = "create" THEN "emailTaken" ELSE "ensured")
            /\ UNCHANGED password
  /\ UNCHANGED <<tokens, jar, req, owner, family, before>>

-----------------------------------------------------------------------------
(* Mutant: only a reuse clears the cookie. *)
FailedRefreshReuse(c) == answer[c] = "reuse"

(* A refresh that presented a cookie and got no pair: the handler clears it. *)
FailedRefresh(c) ==
  req[c].kind = "refresh" /\ answer[c] # "pair" /\ req[c].token # NoToken

(* The response reaches the device: a new pair sets the cookie, a failed
   refresh and a logout that succeeded clear it. *)
CookieAfter(c) ==
  IF answer[c] = "pair" THEN c
  ELSE IF FailedRefresh(c) \/ answer[c] = "loggedOut" THEN NoToken
  ELSE jar[req[c].device]

Respond(c) ==
  /\ pc[c] = "respond"
  /\ jar' = IF req[c].kind \in CookieKinds
             THEN [jar EXCEPT ![req[c].device] = CookieAfter(c)] ELSE jar
  /\ Goto(c, "done")
  /\ UNCHANGED <<password, tokens, req, owner, family, answer, before>>

(* Time passes and a token reaches its expiry. *)
Expire(t) ==
  /\ t \in Stored /\ ~tokens[t].expired
  /\ tokens' = [tokens EXCEPT ![t].expired = TRUE]
  /\ UNCHANGED <<password, jar, pc, req, owner, family, answer, before>>

InFlight(c) == pc[c] \notin Finished \cup {"idle"}

(* Faults: a statement comes back as an error, the server ends with the call
   in flight, the response is lost on its way. *)
StatementFails(c) ==
  /\ "transient" \in Faults
  /\ InFlight(c)
  /\ Return(c, "error")
  /\ UNCHANGED <<password, tokens, jar, req, owner, family, before>>

Crash(c) ==
  /\ "crash" \in Faults
  /\ InFlight(c)
  /\ Goto(c, "crashed")
  /\ UNCHANGED <<password, tokens, jar, req, owner, family, answer, before>>

LoseResponse(c) ==
  /\ "lostResponse" \in Faults
  /\ pc[c] = "respond"
  /\ Goto(c, "lost")
  /\ UNCHANGED <<password, tokens, jar, req, owner, family, answer, before>>

-----------------------------------------------------------------------------

Step(c) ==
  \/ FindUser(c) \/ Issue(c)
  \/ LookupToRotate(c) \/ RevokeReused(c) \/ MarkRotated(c)
  \/ LookupToRevoke(c) \/ RevokeFamily(c)
  \/ GetUser(c) \/ UpdatePassword(c) \/ RevokeAll(c) \/ CreateUser(c)
  \/ Respond(c)

FaultStep(c) == StatementFails(c) \/ Crash(c) \/ LoseResponse(c)

Next == \E c \in Calls : Receive(c) \/ Step(c) \/ Expire(c) \/ FaultStep(c)

Spec == Init /\ [][Next]_vars

-----------------------------------------------------------------------------
(* Properties *)

IsRefresh(c) == req[c] # NoCall /\ req[c].kind = "refresh"

(* Calls a and b were in flight together. *)
Overlap(a, b) == a # b /\ a \notin before[b] /\ b \notin before[a]

(* The token a refresh inserted continues the session of the token it
   presented, which is consumed: same user, same family, rotated. *)
SuccessorContinuesSession ==
  \A t \in Stored :
    IsRefresh(t) =>
      LET parent == req[t].token IN
        /\ parent \in Stored
        /\ tokens[parent].rotated
        /\ tokens[parent].user = tokens[t].user
        /\ tokens[parent].family = tokens[t].family

(* A session has more than one token that can be refreshed only if two
   refreshes of one of its tokens were in flight together: Refresh looks the
   token up and marks it in two statements. *)
TwoActiveNeedOverlap ==
  \A f \in Calls :
    Cardinality({t \in FamilyOf(f) : IsActive(t)}) > 1 =>
      \E a, b \in Calls :
        /\ Overlap(a, b)
        /\ IsRefresh(a) /\ IsRefresh(b) /\ req[a].token = req[b].token
        /\ req[a].token \in FamilyOf(f)

(* A logout, a detected reuse and a password change that are answered have
   revoked every token that was issued before they arrived: of the family, or
   of the user.  Rotated tokens are revoked with the others. *)
RevocationCoversThePast ==
  \A c \in Calls :
    /\ answer[c] \in {"loggedOut", "reuse"} =>
         \A t \in Stored \cap before[c] :
           tokens[t].family = family[c] => tokens[t].revoked
    /\ answer[c] = "changed" =>
         \A t \in Stored \cap before[c] :
           tokens[t].user = req[c].user => tokens[t].revoked

(* A token is revoked only by a logout of its own session, by the detection of
   a reuse in it, or by a password change of its user: the sessions of other
   devices and of other people go on. *)
RevokedForAReason ==
  \A t \in Stored :
    tokens[t].revoked =>
      \E c \in Calls :
        /\ pc[c] \in {"respond", "done", "lost"}
        /\ \/ answer[c] \in {"loggedOut", "reuse"} /\ family[c] = tokens[t].family
           \/ answer[c] = "changed" /\ req[c].user = tokens[t].user

(* While no request of a device is pending, and none was cut off by a crash or
   lost its response, its cookie is not a token that was
   rotated: whatever the order in which the responses of concurrent refreshes
   arrive, the next refresh is not taken for a replay of the device's own. *)
IdleCookieIsUnrotated ==
  \A d \in Devices :
    /\ jar[d] # NoToken
    /\ \A c \in Calls :
         req[c] # NoCall /\ req[c].kind \in CookieKinds /\ req[c].device = d
           => pc[c] = "done"
    => ~tokens[jar[d]].rotated

(* An account is made once and keeps its password until the next change:
   neither a second creation of the same e-mail nor the seeding at a restart
   or by another instance replaces it, and seeding leaves an account behind
   (EnsureAdmin: "It is idempotent, so it is safe to call on every dev
   startup"). *)
IsChangeOf(c, u) == req[c] # NoCall /\ req[c].kind = "change" /\ req[c].user = u

PasswordStands ==
  \A c \in Calls :
    LET changes == {o \in Calls \ {c} : IsChangeOf(o, req[c].user)} IN
    /\ answer[c] = "ensured" => password[req[c].user] # NoUser
    /\ answer[c] = "created" /\ changes = {} =>
         password[req[c].user] = req[c].password
    /\ answer[c] = "changed" /\ changes \subseteq before[c] =>
         password[req[c].user] = req[c].new

(* "A changed password ends every session" (user Service.ChangePassword): with
   no change in progress, a session that can be refreshed was opened with the
   password that is in force. *)
ChangeEndsEverySession ==
  (\A c \in Calls : req[c] # NoCall /\ req[c].kind = "change" => ~InFlight(c)) =>
    \A c \in Calls, t \in Stored :
      answer[c] = "changed" /\ tokens[t].user = req[c].user /\ IsActive(t)
        => req[tokens[t].family].password = password[req[c].user]
=============================================================================
