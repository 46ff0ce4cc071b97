---------------------------- MODULE AccessTokens ----------------------------
(***************************************************************************)
(* Access tokens over the sessions they come from: the tokens that login   *)
(* and refresh of module Sessions sign on the way (internal/auth, jwt.go), *)
(* and the middleware that admits requests by them.                        *)
(*                                                                         *)
(* A token is a signed statement, "user, until", that the server keeps no  *)
(* copy of: a logout or a password change cannot take it back, and it ends *)
(* by the clock.  The clock counts fractions of a second, Second to one,   *)
(* for a JWT carries whole seconds.  The signature is not modelled: a      *)
(* token that Parse accepts is one that Issue made.  The token that call c *)
(* of Sessions signs is named c.                                           *)
(***************************************************************************)
EXTENDS Sessions

CONSTANTS
  Visits,    \* requests to guarded routes
  Second,    \* ticks of the clock in a second
  TTL,       \* access token lifetime, ACCESS_TOKEN_TTL, in ticks
  MaxTime,   \* bound on the clock
  NoAccess, NoVisit

Times  == 0..MaxTime
Access == [subject : Users, until : 0..(MaxTime + TTL)]
Visit  == [token : Calls \cup {NoAccess}, at : Times,
           admitted : BOOLEAN, as : Users \cup {NoUser}]

ASSUME ClockAssumption ==
  /\ Second \in Nat \ {0}
  /\ TTL \in Nat \ {0}
  /\ MaxTime \in Nat
  /\ NoAccess \notin Access /\ NoAccess \notin Calls
  /\ NoVisit \notin Visit
  /\ NoUser \notin Users

VARIABLES
  clock,
  access,      \* the access token each call has signed
  told,        \* the expires_at of its response
  visit,       \* requests to guarded routes, as the middleware decided them
  endedAt      \* history: when a call that ends sessions has returned

tokenVars == <<clock, access, told, visit, endedAt>>
allVars   == <<vars, tokenVars>>

AccessTypeOK ==
  /\ clock \in Times
  /\ access \in [Calls -> Access \cup {NoAccess}]
  /\ told \in [Calls -> 0..(MaxTime + TTL)]
  /\ visit \in [Visits -> Visit \cup {NoVisit}]
  /\ endedAt \in [Calls -> Times]

AccessInit ==
  /\ Init
  /\ clock = 0
  /\ access = [c \in Calls |-> NoAccess]
  /\ told = [c \in Calls |-> 0]
  /\ visit = [v \in Visits |-> NoVisit]
  /\ endedAt = [c \in Calls |-> 0]

-----------------------------------------------------------------------------

(* Mutant: the claims are cut to minutes, here two seconds. *)
CutToMinute(t) == t - (t % (2 * Second))

(* NumericDate: the fraction of the second is dropped. *)
NumericDate(t) == t - (t % Second)

(* Mutant: the lifetimes of access and refresh token are swapped. *)
IssuedForRefreshTTL(c) ==
  [subject |-> owner'[c], until |-> NumericDate(clock + 2 * TTL)]

(* jwt Service.Issue, for the user that the call has established. *)
Issued(c) == [subject |-> owner'[c], until |-> NumericDate(clock + TTL)]

(* issueTokenPair signs the access token before it stores the refresh token:
   the statement that leads to the insert is followed by Issue. *)
Signs(c) ==
  IF pc[c] # "issue" /\ pc'[c] = "issue"
    THEN /\ access' = [access EXCEPT ![c] = Issued(c)]
         /\ told' = [told EXCEPT ![c] = clock + TTL]
    ELSE UNCHANGED <<access, told>>

SessionStep(c) ==
  /\ Receive(c) \/ Step(c) \/ FaultStep(c)
  /\ Signs(c)
  /\ endedAt' = IF pc[c] # "respond" /\ pc'[c] = "respond"
                   /\ answer'[c] \in {"loggedOut", "reuse", "changed"}
                THEN [endedAt EXCEPT ![c] = clock] ELSE endedAt
  /\ UNCHANGED <<clock, visit>>

(* Refresh tokens live for a week and MaxTime is a few access token lifetimes:
   Expire of Sessions does not happen here. *)
Tick ==
  /\ clock < MaxTime
  /\ clock' = clock + 1
  /\ UNCHANGED <<vars, access, told, visit, endedAt>>

(* Access tokens that have reached a browser, which may keep them. *)
Delivered == {c \in Calls : pc[c] = "done" /\ answer[c] = "pair"}

(* Mutant: the claims are read and their expiry is not asked. *)
ParsesSigned(c) == c \in Calls

(* jwt Service.Parse of the token of c: valid up to, and not at, its expiry. *)
Parses(c) == c \in Calls /\ clock < access[c].until

(* RequireAuth: no or another header, or a token that does not parse, ends
   the request; otherwise the handler runs as the token's subject. *)
RequireAuth(v) ==
  /\ visit[v] = NoVisit
  /\ \E c \in Delivered \cup {NoAccess} :
       visit' = [visit EXCEPT ![v] =
         [token |-> c, at |-> clock, admitted |-> Parses(c),
          as |-> IF Parses(c) THEN access[c].subject ELSE NoUser]]
  /\ UNCHANGED <<vars, clock, access, told, endedAt>>

AccessNext ==
  \/ \E c \in Calls : SessionStep(c)
  \/ \E v \in Visits : RequireAuth(v)
  \/ Tick

AccessSpec == AccessInit /\ [][AccessNext]_allVars

-----------------------------------------------------------------------------
(* Properties. *)

Admitted == {v \in Visits : visit[v] # NoVisit /\ visit[v].admitted}

(* Call c opened or continued a session that call x has ended. *)
EndedBy(c, x) ==
  \/ answer[x] \in {"loggedOut", "reuse"} /\ family[x] # NoToken
     /\ family[c] = family[x]
  \/ answer[x] = "changed" /\ family[c] \in before[x]
     /\ owner[c] = req[x].user

(* A logout, a detected reuse and a password change end access as well as the
   session, one token lifetime later: unless a refresh of the session was in
   flight with the call that ended it, no request is admitted by any token of
   the session after that, those included that would have been refreshed. *)
AccessEndsWithSession ==
  \A x \in Calls :
    /\ pc[x] \in Finished
    /\ \A c \in Calls : EndedBy(c, x) => ~Overlap(c, x)
    => \A v \in Admitted :
         EndedBy(visit[v].token, x) => visit[v].at < endedAt[x] + TTL

(* A browser that goes by expires_at is not turned away: up to the second in
   which the token expires, a delivered token is admitted, whatever happened
   to the session and to the server since. *)
FreshTokenIsAdmitted ==
  \A v \in Visits :
    /\ visit[v] # NoVisit /\ visit[v].token # NoAccess
    /\ visit[v].at + Second <= told[visit[v].token]
    => visit[v].admitted

(* Requests run as the person whose password opened the session, through any
   number of refreshes. *)
RunsAsWhoLoggedIn ==
  \A v \in Admitted :
    LET opener == req[family[visit[v].token]] IN
    opener.kind = "login" /\ visit[v].as = opener.user

(* A token that was signed opens the doors of its owner for as long as the
   owner was told, and nobody else's. *)
TokensServeTheirOwner == FreshTokenIsAdmitted /\ RunsAsWhoLoggedIn

=============================================================================
