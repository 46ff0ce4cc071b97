------------------------------- MODULE Server -------------------------------
(***************************************************************************)
(* The life of a server process: cmd/api run(), with internal/common's     *)
(* config, postgres and migrations.                                        *)
(*                                                                         *)
(* Instances share a database.  A process loads its configuration,         *)
(* connects, in development applies the modules' migrations and seeds the  *)
(* admin, and then waits for a signal or for the error of its listener,    *)
(* which runs in a goroutine of its own.  After a signal it stops          *)
(* accepting, lets the requests in flight finish, and ends when they have  *)
(* or when the grace period is over.  What runs the processes starts again *)
(* one that ended unasked (docker-compose: unless-stopped).                *)
(*                                                                         *)
(* The signal cancels the context of run().  The migrations do not have    *)
(* it: only the seed and the final select notice.                          *)
(***************************************************************************)
EXTENDS Integers, Sequences

CONSTANTS
  Instances,
  Requests,     \* HTTP requests
  MaxFaults,    \* bound on failures of statements, listeners and processes
  Nobody

(* What the constants are; checked where they get their values. *)
ConstantsAssumption ==
  /\ MaxFaults \in Nat
  /\ Nobody \notin Instances

(* Mutant: main.go registers auth before user. *)
ItemsAuthFirst ==
  <<"citext", "refresh_tokens", "fk_tokens_user", "users", "races",
    "participants", "registrations", "fk_reg_participant", "fk_reg_race">>

(* What RunMigrations creates, in its order. *)
Items ==
  <<"citext", "users", "refresh_tokens", "fk_tokens_user", "races",
    "participants", "registrations", "fk_reg_participant", "fk_reg_race">>

Schema == {Items[n] : n \in DOMAIN Items}

(* What PostgreSQL wants to be there: citext for e-mail columns, both tables
   for a foreign key. *)
Needs(item) ==
  CASE item \in {"users", "participants"} -> {"citext"}
    [] item = "fk_tokens_user"            -> {"refresh_tokens", "users"}
    [] item = "fk_reg_participant"        -> {"registrations", "participants"}
    [] item = "fk_reg_race"               -> {"registrations", "races"}
    [] OTHER                              -> {}

VARIABLES
  development,  \* APP_ENV of the deployment
  configured,   \* the instances that have all their configuration
  schema,       \* what of the schema there is
  admin,        \* whether the seeded admin's account is there
  stage,        \* where run() of an instance is
  item,         \* the migration it is at
  listener,     \* the goroutine that listens, with errCh
  signalled,    \* instances asked to stop
  code,         \* how an instance ended last
  request,      \* what became of each request ...
  server,       \* ... and who accepted it
  faults

given == <<development, configured>>
vars  == <<development, configured, schema, admin, stage, item, listener,
           signalled, code, request, server, faults>>

Stages == {"load", "connect", "check", "create", "seed", "select", "drain",
           "exited"}

TypeOK ==
  /\ development \in BOOLEAN
  /\ configured \subseteq Instances
  /\ schema \subseteq Schema
  /\ admin \in BOOLEAN
  /\ stage \in [Instances -> Stages]
  /\ item \in [Instances -> DOMAIN Items]
  /\ listener \in [Instances -> {"off", "starting", "open", "failed"}]
  /\ signalled \subseteq Instances
  /\ code \in [Instances -> {"none", "ok", "error", "killed"}]
  /\ request \in [Requests -> {"none", "open", "answered", "cut"}]
  /\ server \in [Requests -> Instances \cup {Nobody}]
  /\ faults \in 0..MaxFaults

(* In production the schema is migrated by hand before. *)
Init ==
  /\ development \in BOOLEAN
  /\ configured \in SUBSET Instances
  /\ schema = IF development THEN {} ELSE Schema
  /\ admin = FALSE
  /\ stage = [i \in Instances |-> "load"]
  /\ item = [i \in Instances |-> 1]
  /\ listener = [i \in Instances |-> "off"]
  /\ signalled = {}
  /\ code = [i \in Instances |-> "none"]
  /\ request = [q \in Requests |-> "none"]
  /\ server = [q \in Requests |-> Nobody]
  /\ faults = 0

At(i, s)   == stage[i] = s
Goto(i, s) == stage' = [stage EXCEPT ![i] = s]

Fault == faults < MaxFaults /\ faults' = faults + 1

InFlight(i) == {q \in Requests : request[q] = "open" /\ server[q] = i}

(* run() returns, or the process is killed: the connections it still serves
   break. *)
Exit(i, c) ==
  /\ Goto(i, "exited")
  /\ code' = [code EXCEPT ![i] = c]
  /\ listener' = [listener EXCEPT ![i] = "off"]
  /\ request' = [q \in Requests |->
                   IF q \in InFlight(i) THEN "cut" ELSE request[q]]

Unstopped == UNCHANGED <<code, listener, request>>

-----------------------------------------------------------------------------
(* Startup *)

(* config.Load: without FRONTEND_BASE_URL the process does not start. *)
Load(i) ==
  /\ At(i, "load")
  /\ IF i \in configured THEN Goto(i, "connect") /\ Unstopped
                         ELSE Exit(i, "error")
  /\ UNCHANGED <<given, schema, admin, item, signalled, server, faults>>

(* main's goroutine starts the listener's and gets to its select. *)
Launch(i) ==
  /\ Goto(i, "select")
  /\ listener' = [listener EXCEPT ![i] = "starting"]
  /\ UNCHANGED <<code, request>>

(* postgres.Connect pings. *)
Connect(i) ==
  /\ At(i, "connect")
  /\ IF ~development THEN Launch(i) /\ UNCHANGED item
     ELSE /\ Goto(i, "check")
          /\ item' = [item EXCEPT ![i] = 1]
          /\ Unstopped
  /\ UNCHANGED <<given, schema, admin, signalled, server, faults>>

(* Mutant: does not see the end. *)
PassBeyond(i) ==
  /\ Goto(i, IF item[i] > Len(Items) THEN "seed" ELSE "check")
  /\ item' = [item EXCEPT ![i] = @ + 1]
  /\ Unstopped

(* On to the next migration. *)
Pass(i) ==
  /\ IF item[i] = Len(Items)
       THEN Goto(i, "seed") /\ UNCHANGED item
       ELSE Goto(i, "check") /\ item' = [item EXCEPT ![i] = @ + 1]
  /\ Unstopped

(* AutoMigrate asks the catalog whether the table is there; the statements
   that add an extension or a foreign key ask first as well. *)
Check(i) ==
  /\ At(i, "check")
  /\ IF Items[item[i]] \in schema THEN Pass(i)
                                  ELSE Goto(i, "create") /\ UNCHANGED item /\ Unstopped
  /\ UNCHANGED <<given, schema, admin, signalled, server, faults>>

(* The statement fails when another instance was faster, and when what it
   refers to is not there. *)
Create(i) ==
  /\ At(i, "create")
  /\ IF Items[item[i]] \notin schema /\ Needs(Items[item[i]]) \subseteq schema
       THEN schema' = schema \cup {Items[item[i]]} /\ Pass(i)
       ELSE Exit(i, "error") /\ UNCHANGED <<schema, item>>
  /\ UNCHANGED <<given, admin, signalled, server, faults>>

(* EnsureAdmin, in the context the signal cancels: an account that is there
   already is as good as one that was made. *)
Seed(i) ==
  /\ At(i, "seed")
  /\ IF i \in signalled THEN Exit(i, "error") /\ UNCHANGED admin
                        ELSE admin' = TRUE /\ Launch(i)
  /\ UNCHANGED <<given, schema, item, signalled, server, faults>>

(* Mutant: an error of a migration is logged, and startup goes on. *)
StatementFailsUnnoticed(i) ==
  /\ stage[i] \in {"connect", "check", "create", "seed"}
  /\ Fault
  /\ IF stage[i] \in {"check", "create"} THEN Pass(i)
                                         ELSE Exit(i, "error") /\ UNCHANGED item
  /\ UNCHANGED <<given, schema, admin, signalled, server>>

(* The database cannot be reached or refuses. *)
StatementFails(i) ==
  /\ stage[i] \in {"connect", "check", "create", "seed"}
  /\ Fault
  /\ Exit(i, "error")
  /\ UNCHANGED <<given, schema, admin, item, signalled, server>>

-----------------------------------------------------------------------------
(* Serving *)

(* ListenAndServe.  After Shutdown it returns ErrServerClosed and nothing is
   sent to errCh. *)
Open(i) ==
  /\ At(i, "select") /\ listener[i] = "starting"
  /\ listener' = [listener EXCEPT ![i] = "open"]
  /\ UNCHANGED <<given, schema, admin, stage, item, signalled, code,
                 request, server, faults>>

(* The port is taken, or accepting fails for good. *)
ListenerFails(i) ==
  /\ At(i, "select") /\ listener[i] \in {"starting", "open"}
  /\ Fault
  /\ listener' = [listener EXCEPT ![i] = "failed"]
  /\ UNCHANGED <<given, schema, admin, stage, item, signalled, code,
                 request, server>>

Accept(i, q) ==
  /\ listener[i] = "open" /\ request[q] = "none"
  /\ request' = [request EXCEPT ![q] = "open"]
  /\ server' = [server EXCEPT ![q] = i]
  /\ UNCHANGED <<given, schema, admin, stage, item, listener, signalled,
                 code, faults>>

(* The handler answers. *)
Finish(q) ==
  /\ request[q] = "open"
  /\ request' = [request EXCEPT ![q] = "answered"]
  /\ UNCHANGED <<given, schema, admin, stage, item, listener, signalled,
                 code, server, faults>>

-----------------------------------------------------------------------------
(* The end *)

(* SIGTERM, or ^C. *)
Signal(i) ==
  /\ ~At(i, "exited")
  /\ signalled' = signalled \cup {i}
  /\ UNCHANGED <<given, schema, admin, stage, item, listener, code,
                 request, server, faults>>

(* When both are ready, select takes either. *)
TakeError(i) ==
  /\ At(i, "select") /\ listener[i] = "failed"
  /\ Exit(i, "error")
  /\ UNCHANGED <<given, schema, admin, item, signalled, server, faults>>

(* Shutdown closes the listener. *)
TakeSignal(i) ==
  /\ At(i, "select") /\ i \in signalled
  /\ Goto(i, "drain")
  /\ listener' = [listener EXCEPT ![i] = "off"]
  /\ UNCHANGED <<given, schema, admin, item, signalled, code, request,
                 server, faults>>

(* Mutant: Close in place of Shutdown. *)
DrainedAtOnce(i) ==
  /\ At(i, "drain")
  /\ Exit(i, "ok")
  /\ UNCHANGED <<given, schema, admin, item, signalled, server, faults>>

(* Shutdown returns nil: nothing is in flight. *)
Drained(i) ==
  /\ At(i, "drain") /\ InFlight(i) = {}
  /\ Exit(i, "ok")
  /\ UNCHANGED <<given, schema, admin, item, signalled, server, faults>>

(* Mutant: Shutdown with a context that never ends. *)
GraceIsEndless(i) == FALSE /\ UNCHANGED vars

(* Shutdown returns the error of its context, after ten seconds. *)
GraceOver(i) ==
  /\ At(i, "drain") /\ InFlight(i) # {}
  /\ Exit(i, "error")
  /\ UNCHANGED <<given, schema, admin, item, signalled, server, faults>>

Kill(i) ==
  /\ ~At(i, "exited")
  /\ Fault
  /\ Exit(i, "killed")
  /\ UNCHANGED <<given, schema, admin, item, signalled, server>>

(* What runs the processes starts one again that it did not stop. *)
Restart(i) ==
  /\ At(i, "exited") /\ i \notin signalled
  /\ Goto(i, "load")
  /\ UNCHANGED <<given, schema, admin, item, listener, signalled, code,
                 request, server, faults>>

-----------------------------------------------------------------------------
(* What run() and the listener's goroutine do by themselves. *)
Advance(i) ==
  \/ Load(i) \/ Connect(i) \/ Check(i) \/ Create(i) \/ Seed(i)
  \/ TakeError(i) \/ TakeSignal(i) \/ Drained(i) \/ GraceOver(i)

Next ==
  \/ \E i \in Instances :
       \/ Advance(i) \/ Open(i) \/ Restart(i)
       \/ Signal(i) \/ StatementFails(i) \/ ListenerFails(i) \/ Kill(i)
       \/ \E q \in Requests : Accept(i, q)
  \/ \E q \in Requests : Finish(q)

Spec == Init /\ [][Next]_vars

(* The process runs and its statements are answered; nothing makes a handler
   finish, a client call or a signal come. *)
FairSpec ==
  /\ Spec
  /\ \A i \in Instances :
       WF_vars(Advance(i)) /\ WF_vars(Open(i)) /\ WF_vars(Restart(i))

-----------------------------------------------------------------------------
(* An instance that accepts requests has its configuration and, in
   development, found or made the whole schema with every foreign key and the
   admin, though others migrate the same database and fail half way
   (main.go:91-107). *)
ServesOnlyWhenReady ==
  \A i \in Instances :
    listener[i] = "open" =>
      /\ i \in configured
      /\ schema = Schema
      /\ development => admin

(* A process reports success only when it was asked to stop, and then it has
   cut nobody off (main.go:174-188). *)
CleanExit ==
  [][\A i \in Instances :
       At(i, "exited")' /\ ~At(i, "exited") /\ code'[i] = "ok" =>
         /\ i \in signalled
         /\ \A q \in Requests : request'[q] = "cut" => request[q] = "cut"]_vars

(* A process that is asked to stop does, at whatever moment of its life, also
   when a handler hangs (main.go:181). *)
StopsWhenAsked == \A i \in Instances : i \in signalled ~> At(i, "exited")

(* Instances that start together on an empty database, and fail over each
   other's tables, all come up in the end: the order of the migrations suits
   the foreign keys and nothing a failed start leaves behind is in the way
   (main.go:91-93). *)
ComesUp ==
  \A i \in Instances :
    i \in configured /\ At(i, "load") ~> listener[i] = "open" \/ i \in signalled

=============================================================================
