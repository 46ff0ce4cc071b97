----------------------------- MODULE MCProcess -----------------------------
(* The life of a server process, and what a request in it may have to wait  *)
(* for: the limiter's mutex, and the dorsal loop.  The three share no state, *)
(* so a behaviour shows one of them, its part, while the others rest.        *)
EXTENDS Registration

CONSTANTS
  Ips, Burst, TokenTicks, MaxTime, NoOne, NoIp, NoLimiter,
  Logins, Instances, Visits, MaxFaults, Nobody

VARIABLES
  part,   \* what a behaviour shows: "server", "login" or "register"
  clock, holder, limiters, bucket, loginPc, ip, limiter, decidedAt,
  development, configured, schema, admin, stage, item, listener, signalled,
  code, request, server, faults

(* The limiter in front of POST /auth/login. *)
Limiter == INSTANCE RateLimit WITH Requests <- Logins, pc <- loginPc

(* The processes that serve all this. *)
Process == INSTANCE Server WITH Requests <- Visits

(* Nothing calls the payment seam. *)
NothingPaid == <<>>

limiterVars == <<clock, holder, limiters, bucket, loginPc, ip, limiter, decidedAt>>
serverVars  == <<development, configured, schema, admin, stage, item, listener,
                 signalled, code, request, server, faults>>
allVars     == <<part, vars, limiterVars, serverVars>>

(* A server at rest is one that was never started. *)
ServerRests ==
  /\ development = FALSE /\ configured = {} /\ schema = {} /\ admin = FALSE
  /\ stage = [i \in Instances |-> "exited"]
  /\ item = [i \in Instances |-> 1]
  /\ listener = [i \in Instances |-> "off"]
  /\ signalled = {}
  /\ code = [i \in Instances |-> "none"]
  /\ request = [q \in Visits |-> "none"]
  /\ server = [q \in Visits |-> Nobody]
  /\ faults = 0

ProcessInit ==
  /\ part \in {"server", "login", "register"}
  /\ IF part = "server" THEN Process!Init ELSE ServerRests
  /\ Limiter!Init
  /\ Init

ProcessNext ==
  \/ /\ part = "server" /\ Process!Next
     /\ UNCHANGED <<part, limiterVars, vars>>
  \/ /\ part = "login" /\ Limiter!Next
     /\ UNCHANGED <<part, vars, serverVars>>
  \/ /\ part = "register" /\ Next
     /\ UNCHANGED <<part, limiterVars, serverVars>>

Fairness ==
  /\ \A i \in Instances :
       WF_serverVars(part = "server" /\
                       (Process!Advance(i) \/ Process!Open(i) \/ Process!Restart(i)))
  /\ \A q \in Logins : WF_limiterVars(part = "login" /\ Limiter!Step(q))
  /\ \A q \in Requests : WF_vars(part = "register" /\ Advance(q))

ProcessSpec == ProcessInit /\ [][ProcessNext]_allVars /\ Fairness

ASSUME PartsAssumption == Limiter!ConstantsAssumption /\ Process!ConstantsAssumption

-----------------------------------------------------------------------------
(* The properties of the parts besides Registration, as their modules state them. *)

(* The types of whichever part is shown, and the mutex is held by one
   goroutine at a time. *)
ProcessTypeOK ==
  /\ part = "server" => Process!TypeOK
  /\ part = "login" => Limiter!TypeOK
  /\ part = "register" => TypeOK

(* Server: an instance that accepts requests has its configuration, the whole
   schema and the admin (main.go:91-107). *)
ServesOnlyWhenReady == part = "server" => Process!ServesOnlyWhenReady

(* Server: success is reported only when asked to stop, with nobody cut off
   (main.go:174-188). *)
CleanExit == Process!CleanExit

(* Server: a process that is asked to stop does (main.go:181). *)
StopsWhenAsked == Process!StopsWhenAsked

(* Server: instances that start together all come up in the end
   (main.go:91-93). *)
ComesUp == Process!ComesUp

(* RateLimit: no stretch of time lets an address through more often than a
   burst and what the stretch refills (ratelimit.go:25). *)
LimitHolds == part = "login" => Limiter!LimitHolds

(* RateLimit: nobody is refused because of other addresses (ratelimit.go:13). *)
RefusalIsEarned == part = "login" => Limiter!RefusalIsEarned

(* RateLimit: no login attempt waits for the mutex for ever. *)
EveryRequestDecided == Limiter!EveryRequestDecided
=============================================================================
