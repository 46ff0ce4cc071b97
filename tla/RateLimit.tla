------------------------------ MODULE RateLimit ------------------------------
(***************************************************************************)
(* The limiter in front of POST /auth/login: internal/common/ratelimit.    *)
(*                                                                         *)
(* Every request is a goroutine.  It takes the mutex, looks its address up *)
(* in a map, makes and stores a limiter when there is none, releases the   *)
(* mutex, and asks the limiter, which is used outside the mutex and has a  *)
(* lock of its own.  A limiter is a token bucket of golang.org/x/time/rate *)
(* (external): Allow refills it by the time that passed and takes a token  *)
(* if there is a whole one.  Credit is counted in ticks, TokenTicks to a   *)
(* token, so that fractions of a token are seen.                           *)
(*                                                                         *)
(* The map lives as long as the process and nothing is evicted from it.    *)
(***************************************************************************)
EXTENDS Integers, FiniteSets

CONSTANTS
  Requests,     \* calls of the login route
  Ips,          \* addresses, what ClientIP returns
  Burst,        \* burst, 5 in cmd/api
  TokenTicks,   \* clock ticks in 1/rps seconds
  MaxTime,      \* bound on the clock
  NoOne, NoIp, NoLimiter

(* What the constants are; checked where they get their values. *)
ConstantsAssumption ==
  /\ Burst \in Nat \ {0}
  /\ TokenTicks \in Nat \ {0}
  /\ MaxTime \in Nat
  /\ NoOne \notin Requests /\ NoLimiter \notin Requests
  /\ NoIp \notin Ips

VARIABLES
  clock,
  holder,     \* the goroutine that holds store.mu
  limiters,   \* store.limiters; a limiter is named by the request that made it
  bucket,     \* credit of each limiter and the time it was computed
  pc,         \* what a goroutine is about to do
  ip,         \* the address a request came from
  limiter,    \* the limiter that limiterFor returned
  decidedAt   \* history: when a request was let through or refused

vars == <<clock, holder, limiters, bucket, pc, ip, limiter, decidedAt>>

FullCredit == Burst * TokenTicks

Times  == 0..MaxTime
Labels == {"idle", "lock", "lookup", "store", "unlock", "allow",
           "admitted", "refused"}
Bucket == [credit : 0..FullCredit, at : Times]

(* Mutual exclusion is part of the types: between lock and unlock a goroutine
   is the holder. *)
TypeOK ==
  /\ clock \in Times
  /\ holder \in Requests \cup {NoOne}
  /\ limiters \in [Ips -> Requests \cup {NoLimiter}]
  /\ bucket \in [Requests -> Bucket]
  /\ pc \in [Requests -> Labels]
  /\ ip \in [Requests -> Ips \cup {NoIp}]
  /\ limiter \in [Requests -> Requests \cup {NoLimiter}]
  /\ decidedAt \in [Requests -> Times]
  /\ \A q \in Requests : pc[q] \in {"lookup", "store", "unlock"} <=> holder = q

Init ==
  /\ clock = 0
  /\ holder = NoOne
  /\ limiters = [i \in Ips |-> NoLimiter]
  /\ bucket = [q \in Requests |-> [credit |-> 0, at |-> 0]]
  /\ pc = [q \in Requests |-> "idle"]
  /\ ip = [q \in Requests |-> NoIp]
  /\ limiter = [q \in Requests |-> NoLimiter]
  /\ decidedAt = [q \in Requests |-> 0]

Tick ==
  /\ clock < MaxTime
  /\ clock' = clock + 1
  /\ UNCHANGED <<holder, limiters, bucket, pc, ip, limiter, decidedAt>>

Goto(q, l) == pc' = [pc EXCEPT ![q] = l]

Arrive(q) ==
  /\ pc[q] = "idle"
  /\ \E i \in Ips : ip' = [ip EXCEPT ![q] = i]
  /\ Goto(q, "lock")
  /\ UNCHANGED <<clock, holder, limiters, bucket, limiter, decidedAt>>

-----------------------------------------------------------------------------
(* limiterFor *)

(* Mutant: the mutex is not taken. *)
LockNot(q) ==
  /\ pc[q] = "lock"
  /\ holder' = q
  /\ Goto(q, "lookup")
  /\ UNCHANGED <<clock, limiters, bucket, ip, limiter, decidedAt>>

Lock(q) ==
  /\ pc[q] = "lock"
  /\ holder = NoOne
  /\ holder' = q
  /\ Goto(q, "lookup")
  /\ UNCHANGED <<clock, limiters, bucket, ip, limiter, decidedAt>>

(* Mutant: returns as soon as it finds a limiter, with the mutex held. *)
LookupAndReturn(q) ==
  LET found == limiters[ip[q]] IN
  /\ pc[q] = "lookup"
  /\ IF found = NoLimiter THEN Goto(q, "store") /\ UNCHANGED limiter
     ELSE Goto(q, "allow") /\ limiter' = [limiter EXCEPT ![q] = found]
  /\ UNCHANGED <<clock, holder, limiters, bucket, ip, decidedAt>>

Lookup(q) ==
  LET found == limiters[ip[q]] IN
  /\ pc[q] = "lookup"
  /\ IF found = NoLimiter THEN Goto(q, "store") /\ UNCHANGED limiter
     ELSE Goto(q, "unlock") /\ limiter' = [limiter EXCEPT ![q] = found]
  /\ UNCHANGED <<clock, holder, limiters, bucket, ip, decidedAt>>

(* Mutant: one limiter for everybody. *)
StoreForAll(q) ==
  /\ pc[q] = "store"
  /\ limiters' = [i \in Ips |-> q]
  /\ bucket' = [bucket EXCEPT ![q] = [credit |-> FullCredit, at |-> clock]]
  /\ limiter' = [limiter EXCEPT ![q] = q]
  /\ Goto(q, "unlock")
  /\ UNCHANGED <<clock, holder, ip, decidedAt>>

(* rate.NewLimiter starts with a full burst. *)
Store(q) ==
  /\ pc[q] = "store"
  /\ limiters' = [limiters EXCEPT ![ip[q]] = q]
  /\ bucket' = [bucket EXCEPT ![q] = [credit |-> FullCredit, at |-> clock]]
  /\ limiter' = [limiter EXCEPT ![q] = q]
  /\ Goto(q, "unlock")
  /\ UNCHANGED <<clock, holder, ip, decidedAt>>

Unlock(q) ==
  /\ pc[q] = "unlock"
  /\ holder' = NoOne
  /\ Goto(q, "allow")
  /\ UNCHANGED <<clock, limiters, bucket, ip, limiter, decidedAt>>

-----------------------------------------------------------------------------
(* The middleware's decision. *)

Credit(b) ==
  LET refilled == b.credit + (clock - b.at)
  IN  IF refilled > FullCredit THEN FullCredit ELSE refilled

(* Allow, then the login handler or 429. *)
Allow(q) ==
  LET l == limiter[q]  c == Credit(bucket[l]) IN
  /\ pc[q] = "allow"
  /\ IF c >= TokenTicks
       THEN /\ bucket' = [bucket EXCEPT ![l] =
                            [credit |-> c - TokenTicks, at |-> clock]]
            /\ Goto(q, "admitted")
       ELSE Goto(q, "refused") /\ UNCHANGED bucket
  /\ decidedAt' = [decidedAt EXCEPT ![q] = clock]
  /\ UNCHANGED <<clock, holder, limiters, ip, limiter>>

Step(q) == Lock(q) \/ Lookup(q) \/ Store(q) \/ Unlock(q) \/ Allow(q)

Next == Tick \/ \E q \in Requests : Arrive(q) \/ Step(q)

Spec == Init /\ [][Next]_vars

(* The scheduler runs every goroutine that is not waiting for the mutex. *)
FairSpec == Spec /\ \A q \in Requests : WF_vars(Step(q))

-----------------------------------------------------------------------------
(* Requests of address i that were let through in the given time. *)
Admitted(i, from, to) ==
  {q \in Requests : /\ pc[q] = "admitted" /\ ip[q] = i
                    /\ decidedAt[q] \in from..to}

(* "limits each client IP to rps requests per second with the given burst"
   (ratelimit.go:25): in no stretch of time is an address let through more
   often than a burst and what the stretch refills, also when its first
   requests all come at once. *)
LimitHolds ==
  \A i \in Ips : \A from, to \in Times :
    from <= to =>
      Cardinality(Admitted(i, from, to)) * TokenTicks
        <= FullCredit + (to - from)

(* Nobody is refused because of others: up to a refused request its own
   address has used, over some stretch of time, all but a fraction of a token
   of what the stretch allows (ratelimit.go:13: "one token-bucket limiter per
   client IP"). *)
RefusalIsEarned ==
  \A q \in Requests :
    pc[q] = "refused" =>
      \E from \in 0..decidedAt[q] :
        Cardinality(Admitted(ip[q], from, decidedAt[q])) * TokenTicks
          > FullCredit + (decidedAt[q] - from) - TokenTicks

(* Every login attempt gets to its handler or gets 429: nobody is left waiting
   for the mutex. *)
EveryRequestDecided ==
  \A q \in Requests : pc[q] = "lock" ~> pc[q] \in {"admitted", "refused"}

=============================================================================
