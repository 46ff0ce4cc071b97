--------------------------- MODULE ProcessProofs ---------------------------
(***************************************************************************)
(* Theorems about a server process and its login limiter, for any number   *)
(* of instances, requests and addresses, any burst and rate.               *)
(***************************************************************************)
EXTENDS MCProcess, RegistrationProofs, Sequences

USE DEF Limiter!FullCredit

(* The parts do not disturb each other: each behaves as its module says. *)
LEMMA LimiterBeneath == ProcessSpec => Limiter!Init /\ [][Limiter!Next]_limiterVars
<1>1. ProcessInit => Limiter!Init
  BY DEF ProcessInit
<1>2. [ProcessNext]_allVars => [Limiter!Next]_limiterVars
  BY DEF ProcessNext, allVars
<1> QED BY <1>1, <1>2, PTL DEF ProcessSpec

LEMMA RegistrationBeneath == ProcessSpec => Spec
<1>1. ProcessInit => Init
  BY DEF ProcessInit
<1>2. [ProcessNext]_allVars => [Next]_vars
  BY DEF ProcessNext, allVars
<1> QED BY <1>1, <1>2, PTL DEF ProcessSpec, Spec

-----------------------------------------------------------------------------
(* The limiter *)

LEMMA LimiterConstants ==
  /\ Burst \in Nat /\ Burst > 0 /\ TokenTicks \in Nat /\ TokenTicks > 0
  /\ MaxTime \in Nat /\ NoOne \notin Logins /\ NoLimiter \notin Logins /\ NoIp \notin Ips
  /\ Burst * TokenTicks \in Nat /\ TokenTicks <= Burst * TokenTicks
<1>1. /\ Burst \in Nat \ {0} /\ TokenTicks \in Nat \ {0}
      /\ MaxTime \in Nat /\ NoOne \notin Logins /\ NoLimiter \notin Logins /\ NoIp \notin Ips
  BY PartsAssumption DEF Limiter!ConstantsAssumption
<1>2. \A b, t \in Nat : b > 0 => b * t \in Nat /\ t <= b * t
  OBVIOUS
<1> QED BY <1>1, <1>2

(* One more token. *)
LEMMA OneMore == \A n, t \in Nat : (n + 1) * t = n * t + t /\ n * t \in Nat
  OBVIOUS

Deciding == {"unlock", "allow", "admitted", "refused"}

(* Under the mutex an address gets one limiter and keeps it, and no two
   addresses share one. *)
LimitersOK ==
  /\ \A q \in Logins :
       /\ loginPc[q] # "idle" => ip[q] \in Ips
       /\ loginPc[q] = "store" => limiters[ip[q]] = NoLimiter
       /\ loginPc[q] \in Deciding => limiter[q] = limiters[ip[q]] /\ limiter[q] \in Logins
       /\ bucket[q].at <= clock
  /\ \A i \in Ips :
       limiters[i] # NoLimiter =>
         ip[limiters[i]] = i /\ loginPc[limiters[i]] \in Deciding

LimiterInv == Limiter!TypeOK /\ LimitersOK

LEMMA LimiterInitial == Limiter!Init => LimiterInv
  BY LimiterConstants
  DEF Limiter!Init, LimiterInv, Limiter!TypeOK, LimitersOK, Limiter!Times, Limiter!Labels,
      Limiter!Bucket, Deciding

(* The refill never exceeds a burst. *)
LEMMA CreditIs ==
  ASSUME LimiterInv, NEW l \in Logins
  PROVE  LET c == Limiter!Credit(bucket[l])  r == bucket[l].credit + (clock - bucket[l].at) IN
         /\ c \in 0..Limiter!FullCredit /\ r \in Nat /\ c <= r
         /\ c = r \/ (c = Limiter!FullCredit /\ c < r)
<1>1. /\ bucket[l].credit \in 0..(Burst * TokenTicks) /\ bucket[l].at \in 0..MaxTime
      /\ clock \in 0..MaxTime /\ bucket[l].at <= clock
  BY DEF LimiterInv, LimitersOK, Limiter!TypeOK, Limiter!Bucket, Limiter!Times
<1> QED BY <1>1, LimiterConstants DEF Limiter!Credit

LEMMA LimiterMutexStep ==
  ASSUME LimiterInv, NEW q \in Logins,
         Limiter!Arrive(q) \/ Limiter!Lock(q) \/ Limiter!Lookup(q) \/ Limiter!Unlock(q)
  PROVE  LimiterInv'
<1> USE LimiterConstants
    DEF LimiterInv, Limiter!TypeOK, LimitersOK, Limiter!Labels, Limiter!Goto, Deciding
<1>1. CASE Limiter!Arrive(q)
  BY <1>1 DEF Limiter!Arrive
<1>2. CASE Limiter!Lock(q)
  BY <1>2 DEF Limiter!Lock
<1>3. CASE Limiter!Lookup(q)
  BY <1>3 DEF Limiter!Lookup
<1>4. CASE Limiter!Unlock(q)
  BY <1>4 DEF Limiter!Unlock
<1> QED BY <1>1, <1>2, <1>3, <1>4

LEMMA LimiterStoreStep ==
  ASSUME LimiterInv, NEW q \in Logins, Limiter!Store(q)
  PROVE  LimiterInv'
<1>1. [credit |-> Burst * TokenTicks, at |-> clock] \in Limiter!Bucket
  BY LimiterConstants DEF Limiter!Bucket, LimiterInv, Limiter!TypeOK
<1>2. clock \in Nat
  BY LimiterConstants DEF LimiterInv, Limiter!TypeOK, Limiter!Times
<1>3. PICK i \in Ips : i = ip[q]
  BY DEF LimiterInv, LimitersOK, Limiter!Store
<1>4. Limiter!TypeOK'
  BY <1>1, <1>3 DEF LimiterInv, Limiter!TypeOK, Limiter!Store, Limiter!Goto, Limiter!Labels
<1>5. LimitersOK'
  BY <1>2, <1>3, LimiterConstants
     DEF LimiterInv, Limiter!TypeOK, LimitersOK, Limiter!Store, Limiter!Goto, Deciding
<1> QED BY <1>4, <1>5 DEF LimiterInv

LEMMA LimiterAllowStep ==
  ASSUME LimiterInv, NEW q \in Logins, Limiter!Allow(q)
  PROVE  LimiterInv'
<1>1. PICK l \in Logins : l = limiter[q]
  BY DEF LimiterInv, LimitersOK, Limiter!Allow, Deciding
<1> DEFINE c == Limiter!Credit(bucket[l])
<1>2. c \in 0..(Burst * TokenTicks)
  BY CreditIs
<1> HIDE DEF c
<1>3. clock \in Nat /\ clock \in Limiter!Times
  BY LimiterConstants DEF LimiterInv, Limiter!TypeOK, Limiter!Times
<1>4. \/ bucket' = bucket
      \/ /\ bucket' = [bucket EXCEPT ![l] = [credit |-> c - TokenTicks, at |-> clock]]
         /\ c >= TokenTicks
  BY <1>1 DEF Limiter!Allow, c
<1>5. c >= TokenTicks => [credit |-> c - TokenTicks, at |-> clock] \in Limiter!Bucket
  BY <1>2, <1>3, LimiterConstants DEF Limiter!Bucket
<1>6. /\ bucket' \in [Logins -> Limiter!Bucket]
      /\ \A o \in Logins : bucket'[o].at <= clock
  BY <1>3, <1>4, <1>5 DEF LimiterInv, LimitersOK, Limiter!TypeOK
<1>7. \A o \in Logins :
        loginPc'[o] = loginPc[o] \/ (o = q /\ loginPc'[o] \in {"admitted", "refused"})
  BY DEF LimiterInv, Limiter!TypeOK, Limiter!Allow, Limiter!Goto
<1>8. /\ loginPc[q] = "allow"
      /\ loginPc' \in [Logins -> Limiter!Labels]
      /\ decidedAt' \in [Logins -> Limiter!Times]
      /\ UNCHANGED <<clock, holder, limiters, ip, limiter>>
  BY <1>3 DEF LimiterInv, Limiter!TypeOK, Limiter!Allow, Limiter!Goto, Limiter!Labels
<1> QED BY <1>6, <1>7, <1>8 DEF LimiterInv, LimitersOK, Limiter!TypeOK, Deciding

LEMMA LimiterTypeStep ==
  ASSUME LimiterInv, [Limiter!Next]_limiterVars
  PROVE  LimiterInv'
<1>1. CASE UNCHANGED limiterVars
  BY <1>1 DEF limiterVars, LimiterInv, Limiter!TypeOK, LimitersOK
<1>2. CASE Limiter!Tick
  <2>1. clock' \in Limiter!Times /\ clock <= clock' /\ clock \in Nat /\ clock' \in Nat
    BY <1>2, LimiterConstants DEF LimiterInv, Limiter!TypeOK, Limiter!Tick, Limiter!Times
  <2>2. \A q \in Logins : bucket[q].at \in Nat
    BY LimiterConstants DEF LimiterInv, Limiter!TypeOK, Limiter!Bucket, Limiter!Times
  <2>3. \A q \in Logins : bucket[q].at <= clock'
    BY <2>1, <2>2 DEF LimiterInv, LimitersOK
  <2> QED BY <1>2, <2>1, <2>3 DEF LimiterInv, Limiter!TypeOK, LimitersOK, Limiter!Tick
<1> QED BY <1>1, <1>2, LimiterMutexStep, LimiterStoreStep, LimiterAllowStep
        DEF Limiter!Next, Limiter!Step

LEMMA LimiterInvariant == ProcessSpec => []LimiterInv
  BY LimiterBeneath, LimiterInitial, LimiterTypeStep, PTL

-----------------------------------------------------------------------------
(* What the limiter lets through *)

Through == {q \in Logins : loginPc[q] = "admitted"}

Since(i, from) ==
  {q \in Logins : loginPc[q] = "admitted" /\ ip[q] = i /\ decidedAt[q] >= from}

Spent(i, from) == Cardinality(Since(i, from)) * TokenTicks

(* The credit of a bucket is what its address has not spent: at most that over
   every stretch of time up to the last decision, and exactly over one, the
   stretch since the bucket was full last. *)
FlowOf(i, b) ==
  /\ \A q \in Through : ip[q] = i => decidedAt[q] \in 0..b.at
  /\ \A from \in 0..b.at : Spent(i, from) + b.credit <= Limiter!FullCredit + (b.at - from)
  /\ \E from \in 0..b.at : Spent(i, from) + b.credit >= Limiter!FullCredit + (b.at - from)

FlowOK ==
  /\ IsFiniteSet(Through)
  /\ \A i \in Ips : limiters[i] # NoLimiter => FlowOf(i, bucket[limiters[i]])

(* The two properties of the limiter. *)
Count(i, from, to) == Cardinality(Limiter!Admitted(i, from, to))

LimitOK ==
  \A i \in Ips : \A from, to \in 0..MaxTime :
    from <= to => Count(i, from, to) * TokenTicks <= Limiter!FullCredit + (to - from)

EarnedBy(i, t) ==
  \E from \in 0..t :
    Count(i, from, t) * TokenTicks > Limiter!FullCredit + (t - from) - TokenTicks

RefusalOK == \A q \in Logins : loginPc[q] = "refused" => EarnedBy(ip[q], decidedAt[q])

(* The limiter's module has its own instance of FiniteSets. *)
LEMMA SameCardinality == \A S : Limiter!Cardinality(S) = Cardinality(S)
  BY DEF Limiter!Cardinality, Cardinality

LEMMA LimiterProperties ==
  (LimitOK <=> Limiter!LimitHolds) /\ (RefusalOK <=> Limiter!RefusalIsEarned)
<1>1. LimitOK <=> Limiter!LimitHolds
  BY SameCardinality DEF LimitOK, Count, Limiter!LimitHolds, Limiter!Times
<1>2. RefusalOK <=> Limiter!RefusalIsEarned
  BY SameCardinality DEF RefusalOK, EarnedBy, Count, Limiter!RefusalIsEarned
<1> QED BY <1>1, <1>2

FlowInv == FlowOK /\ LimitOK /\ RefusalOK

LEMMA FlowInitial == Limiter!Init => FlowInv
<1> SUFFICES ASSUME Limiter!Init PROVE FlowInv
  OBVIOUS
<1>1. Through = {}
  BY DEF Limiter!Init, Through
<1>2. FlowOK
  BY <1>1, FS_EmptySet DEF FlowOK, Limiter!Init
<1>3. LimitOK
  <2> SUFFICES ASSUME NEW i \in Ips, NEW from \in 0..MaxTime, NEW to \in 0..MaxTime, from <= to
               PROVE  Count(i, from, to) * TokenTicks <= Limiter!FullCredit + (to - from)
    BY DEF LimitOK
  <2>1. Limiter!Admitted(i, from, to) = {}
    BY DEF Limiter!Init, Limiter!Admitted
  <2> QED BY <2>1, FS_EmptySet, LimiterConstants DEF Count
<1>4. RefusalOK
  BY DEF Limiter!Init, RefusalOK
<1> QED BY <1>2, <1>3, <1>4 DEF FlowInv

(* The requests that are counted are finitely many. *)
LEMMA Counted ==
  ASSUME FlowOK, NEW i, NEW from, NEW to
  PROVE  /\ IsFiniteSet(Since(i, from)) /\ Cardinality(Since(i, from)) \in Nat
         /\ IsFiniteSet(Limiter!Admitted(i, from, to))
         /\ Cardinality(Limiter!Admitted(i, from, to)) \in Nat
<1>1. Since(i, from) \subseteq Through /\ Limiter!Admitted(i, from, to) \subseteq Through
  BY DEF Since, Through, Limiter!Admitted
<1> QED BY <1>1, FS_Subset, FS_CardinalityType DEF FlowOK

(* A step that decides nothing. *)
Undecided ==
  /\ decidedAt' = decidedAt
  /\ \A q \in Logins :
       /\ loginPc'[q] = "admitted" <=> loginPc[q] = "admitted"
       /\ loginPc'[q] = "refused" <=> loginPc[q] = "refused"
       /\ loginPc[q] # "idle" => ip'[q] = ip[q]

LEMMA UndecidedSets ==
  ASSUME Undecided, NEW i, NEW from, NEW to
  PROVE  /\ Through' = Through
         /\ Since(i, from)' = Since(i, from)
         /\ Spent(i, from)' = Spent(i, from)
         /\ Count(i, from, to)' = Count(i, from, to)
  BY DEF Undecided, Through, Since, Spent, Count, Limiter!Admitted

LEMMA UndecidedStep ==
  ASSUME FlowInv, Undecided
  PROVE  /\ IsFiniteSet(Through)' /\ LimitOK' /\ RefusalOK'
         /\ \A i, b : FlowOf(i, b) => FlowOf(i, b)'
<1>1. IsFiniteSet(Through)'
  BY UndecidedSets DEF FlowInv, FlowOK
<1>2. LimitOK'
  BY UndecidedSets DEF FlowInv, LimitOK
<1>3. RefusalOK'
  <2>1. \A i, t : EarnedBy(i, t) => EarnedBy(i, t)'
    BY UndecidedSets DEF EarnedBy
  <2> SUFFICES ASSUME NEW q \in Logins, loginPc'[q] = "refused"
               PROVE  EarnedBy(ip[q], decidedAt[q])'
    BY DEF RefusalOK
  <2>2. PICK i, t : i = ip[q] /\ t = decidedAt[q]
    OBVIOUS
  <2>3. ip'[q] = i /\ decidedAt'[q] = t /\ EarnedBy(i, t)
    BY <2>2 DEF FlowInv, RefusalOK, Undecided
  <2>4. EarnedBy(i, t)'
    BY <2>1, <2>3
  <2> QED BY <2>3, <2>4 DEF EarnedBy, Count
<1>4. \A i, b : FlowOf(i, b) => FlowOf(i, b)'
  <2> SUFFICES ASSUME NEW i, NEW b, FlowOf(i, b) PROVE FlowOf(i, b)'
    OBVIOUS
  <2>1. \A q \in Through' : ip'[q] = i => decidedAt'[q] \in 0..b.at
    BY UndecidedSets DEF FlowOf, Undecided, Through
  <2> QED BY <2>1, UndecidedSets DEF FlowOf
<1> QED BY <1>1, <1>2, <1>3, <1>4

(* No request has been let through for an address without a limiter. *)
LEMMA NothingSpent ==
  ASSUME LimiterInv, NEW i \in Ips, limiters[i] = NoLimiter, NEW from
  PROVE  Spent(i, from) = 0
<1>1. Since(i, from) = {}
  BY LimiterConstants DEF LimiterInv, LimitersOK, Since, Deciding
<1> QED BY <1>1, FS_EmptySet, LimiterConstants DEF Spent

LEMMA FlowKept ==
  ASSUME FlowInv, Undecided, UNCHANGED <<limiters, bucket>>
  PROVE  FlowInv'
<1>1. ASSUME NEW i \in Ips, limiters[i] # NoLimiter
      PROVE  FlowOf(i, bucket[limiters[i]])'
  <2>1. PICK b : b = bucket[limiters[i]]
    OBVIOUS
  <2>2. FlowOf(i, b)'
    BY <1>1, <2>1, UndecidedStep DEF FlowInv, FlowOK
  <2> QED BY <2>1, <2>2 DEF FlowOf
<1> QED BY <1>1, UndecidedStep DEF FlowInv, FlowOK

LEMMA FlowMutexStep ==
  ASSUME LimiterInv, FlowInv, NEW q \in Logins,
         Limiter!Arrive(q) \/ Limiter!Lock(q) \/ Limiter!Lookup(q) \/ Limiter!Unlock(q)
  PROVE  FlowInv'
<1>1. Undecided /\ UNCHANGED <<limiters, bucket>>
  <2> USE DEF LimiterInv, Limiter!TypeOK, Limiter!Goto, Limiter!Labels, Undecided
  <2>1. CASE Limiter!Arrive(q)
    BY <2>1 DEF Limiter!Arrive
  <2>2. CASE Limiter!Lock(q)
    BY <2>2 DEF Limiter!Lock
  <2>3. CASE Limiter!Lookup(q)
    BY <2>3 DEF Limiter!Lookup
  <2>4. CASE Limiter!Unlock(q)
    BY <2>4 DEF Limiter!Unlock
  <2> QED BY <2>1, <2>2, <2>3, <2>4
<1> QED BY <1>1, FlowKept

LEMMA FlowTick ==
  ASSUME LimiterInv, FlowInv, Limiter!Tick \/ UNCHANGED limiterVars
  PROVE  FlowInv'
<1>1. Undecided /\ UNCHANGED <<limiters, bucket>>
  BY DEF Limiter!Tick, Undecided, limiterVars
<1> QED BY <1>1, FlowKept

(* A new limiter is full, and its address has not been let through before. *)
LEMMA FlowStoreStep ==
  ASSUME LimiterInv, FlowInv, NEW q \in Logins, Limiter!Store(q)
  PROVE  FlowInv'
<1>1. Undecided
  BY DEF LimiterInv, Limiter!TypeOK, Limiter!Store, Limiter!Goto, Limiter!Labels, Undecided
<1>2. PICK h \in Ips : h = ip[q] /\ limiters[h] = NoLimiter
  BY DEF LimiterInv, LimitersOK, Limiter!Store
<1>3. PICK t \in 0..MaxTime : t = clock
  BY DEF LimiterInv, Limiter!TypeOK, Limiter!Times
<1>4. PICK b : b = [credit |-> Burst * TokenTicks, at |-> t]
  OBVIOUS
<1>5. /\ limiters'[h] = q /\ bucket'[q] = b
      /\ \A i \in Ips \ {h} : limiters'[i] = limiters[i]
      /\ \A o \in Logins \ {q} : bucket'[o] = bucket[o]
  BY <1>2, <1>3, <1>4 DEF LimiterInv, Limiter!TypeOK, Limiter!Store
<1>6. FlowOf(h, b)
  <2>1. \A o \in Through : ip[o] # h
    BY <1>2, LimiterConstants DEF LimiterInv, LimitersOK, Through, Deciding
  <2>2. \A from : Spent(h, from) = 0
    BY <1>2, NothingSpent
  <2>3. \A from \in 0..b.at :
          Spent(h, from) + b.credit <= Limiter!FullCredit + (b.at - from)
    BY <1>4, <2>2, LimiterConstants
  <2>4. /\ b.at \in 0..b.at
        /\ Spent(h, b.at) + b.credit >= Limiter!FullCredit + (b.at - b.at)
    BY <1>4, <2>2, LimiterConstants
  <2> QED BY <2>1, <2>3, <2>4 DEF FlowOf
<1>7. ASSUME NEW i \in Ips, limiters'[i] # NoLimiter
      PROVE  FlowOf(i, bucket[limiters[i]])'
  <2>1. PICK a : a = bucket'[limiters'[i]]
    OBVIOUS
  <2>2. FlowOf(i, a)
    <3>1. CASE i = h
      BY <1>5, <1>6, <2>1, <3>1
    <3>2. CASE i # h
      <4>1. limiters'[i] = limiters[i] /\ limiters[i] # q /\ limiters[i] \in Logins
        BY <1>2, <1>5, <1>7, <3>2
           DEF LimiterInv, LimitersOK, Limiter!TypeOK, Limiter!Store, Deciding
      <4> QED BY <1>5, <1>7, <2>1, <4>1 DEF FlowInv, FlowOK
    <3> QED BY <3>1, <3>2
  <2>3. FlowOf(i, a)'
    BY <1>1, <2>2, UndecidedStep
  <2> QED BY <2>1, <2>3 DEF FlowOf
<1> QED BY <1>1, <1>7, UndecidedStep DEF FlowInv, FlowOK

(* One request q of address h is decided at time t: what that needs, and what
   it leaves alone. *)
Decides(q, h, t) ==
  /\ h \in Ips /\ ip[q] = h /\ t \in 0..MaxTime /\ clock = t /\ loginPc[q] = "allow"
  /\ loginPc'[q] \in {"admitted", "refused"} /\ decidedAt'[q] = t
  /\ UNCHANGED <<clock, ip, limiters>>
  /\ \A o \in Logins \ {q} : loginPc'[o] = loginPc[o] /\ decidedAt'[o] = decidedAt[o]

LEMMA AllowDecides ==
  ASSUME LimiterInv, NEW q \in Logins, Limiter!Allow(q)
  PROVE  Decides(q, ip[q], clock)
  BY DEF LimiterInv, LimitersOK, Limiter!TypeOK, Limiter!Times, Limiter!Labels, Limiter!Allow,
         Limiter!Goto, Decides

LEMMA DecidedThrough ==
  ASSUME NEW q \in Logins, NEW h, NEW t, Decides(q, h, t)
  PROVE  /\ loginPc'[q] = "refused" => Through' = Through
         /\ loginPc'[q] = "admitted" => Through' = Through \cup {q}
  BY DEF Decides, Through

(* Others' requests, and other stretches of time, count what they did. *)
LEMMA DecidedSince ==
  ASSUME NEW q \in Logins, NEW h, NEW t, Decides(q, h, t), NEW i, NEW from,
         loginPc'[q] = "refused" \/ i # h
  PROVE  Spent(i, from)' = Spent(i, from)
<1>1. Since(i, from)' = Since(i, from)
  BY DEF Since, Decides
<1> QED BY <1>1 DEF Spent

LEMMA DecidedCount ==
  ASSUME NEW q \in Logins, NEW h, NEW t, Decides(q, h, t), NEW i, NEW from, NEW to
  PROVE  /\ loginPc'[q] = "refused" \/ i # h \/ t \notin from..to =>
              Count(i, from, to)' = Count(i, from, to)
         /\ Limiter!Admitted(i, from, to) \subseteq Limiter!Admitted(i, from, to)'
         /\ Limiter!Admitted(i, from, to)' \subseteq Since(i, from)'
<1>1. loginPc'[q] = "refused" \/ i # h \/ t \notin from..to =>
        Limiter!Admitted(i, from, to)' = Limiter!Admitted(i, from, to)
  BY DEF Limiter!Admitted, Decides
<1>2. /\ Limiter!Admitted(i, from, to) \subseteq Limiter!Admitted(i, from, to)'
      /\ Limiter!Admitted(i, from, to)' \subseteq Since(i, from)'
  BY DEF Limiter!Admitted, Since, Decides
<1> QED BY <1>1, <1>2 DEF Count

(* A request that is let through is one more, also of those since now. *)
LEMMA OneMoreSpent ==
  ASSUME FlowOK, NEW q \in Logins, NEW h, NEW t, Decides(q, h, t), loginPc'[q] = "admitted",
         NEW from \in Nat, from <= t
  PROVE  /\ Spent(h, from) \in Nat
         /\ Spent(h, from)' = Spent(h, from) + TokenTicks
<1>1. Since(h, from)' = Since(h, from) \cup {q} /\ q \notin Since(h, from)
  BY DEF Since, Decides
<1>2. /\ IsFiniteSet(Since(h, from)) /\ Cardinality(Since(h, from)) \in Nat
  BY Counted
<1>3. Cardinality(Since(h, from)') = Cardinality(Since(h, from)) + 1
  BY <1>1, <1>2, FS_AddElement
<1> QED BY <1>2, <1>3, OneMore, LimiterConstants DEF Spent

(* What Allow finds, the bucket b of the address with credit c by now, and what
   it does with it. *)
Decision(q, h, l, t, b, c) ==
  /\ Decides(q, h, t) /\ l = limiters[h] /\ b = bucket[l]
  /\ \A i \in Ips \ {h} : limiters[i] # l
  /\ FlowOf(h, b) /\ b.at \in 0..t /\ b.credit \in Nat
  /\ c <= Burst * TokenTicks
  /\ \/ c = b.credit + (t - b.at)
     \/ c = Burst * TokenTicks /\ c <= b.credit + (t - b.at)
  /\ IF c >= TokenTicks
       THEN /\ loginPc'[q] = "admitted"
            /\ bucket' = [bucket EXCEPT ![l] = [credit |-> c - TokenTicks, at |-> t]]
       ELSE loginPc'[q] = "refused" /\ bucket' = bucket

LEMMA AllowFinds ==
  ASSUME LimiterInv, FlowInv, NEW q \in Logins, Limiter!Allow(q)
  PROVE  \E h \in Ips, l \in Logins, t \in 0..MaxTime, c \in Nat : \E b :
           Decision(q, h, l, t, b, c)
<1>1. PICK h \in Ips, t \in 0..MaxTime : h = ip[q] /\ t = clock
  BY AllowDecides DEF Decides
<1>2. PICK l \in Logins : l = limiter[q] /\ l = limiters[h]
  BY <1>1 DEF LimiterInv, LimitersOK, Limiter!Allow, Deciding
<1>3. PICK b, c : b = bucket[l] /\ c = Limiter!Credit(bucket[l])
  OBVIOUS
<1>4. Decides(q, h, t)
  BY <1>1, AllowDecides
<1>5. \A i \in Ips \ {h} : limiters[i] # l
  BY <1>1, <1>2, LimiterConstants DEF LimiterInv, LimitersOK
<1>6. FlowOf(h, b)
  BY <1>2, <1>3, LimiterConstants DEF FlowInv, FlowOK
<1>7. b.at \in 0..t /\ b.credit \in Nat
  BY <1>1, <1>3, LimiterConstants
     DEF LimiterInv, LimitersOK, Limiter!TypeOK, Limiter!Bucket, Limiter!Times
<1>8. /\ c \in Nat /\ c <= Burst * TokenTicks
      /\ \/ c = b.credit + (t - b.at)
         \/ c = Burst * TokenTicks /\ c <= b.credit + (t - b.at)
  BY <1>1, <1>3, CreditIs, LimiterConstants
<1>9. IF c >= TokenTicks
        THEN /\ loginPc'[q] = "admitted"
             /\ bucket' = [bucket EXCEPT ![l] = [credit |-> c - TokenTicks, at |-> t]]
        ELSE loginPc'[q] = "refused" /\ bucket' = bucket
  BY <1>1, <1>2, <1>3 DEF Limiter!Allow, Limiter!Goto, LimiterInv, Limiter!TypeOK
<1> QED BY <1>2, <1>3, <1>4, <1>5, <1>6, <1>7, <1>8, <1>9 DEF Decision

(* A token is taken: what it adds to what is spent, the credit loses. *)
LEMMA FlowAdmitted ==
  ASSUME FlowOK, NEW q \in Logins, NEW h, NEW t, Decides(q, h, t), loginPc'[q] = "admitted",
         NEW b, FlowOf(h, b), b.at \in 0..t, b.credit \in Nat,
         NEW c \in Nat, TokenTicks <= c, c <= Burst * TokenTicks,
         c = b.credit + (t - b.at) \/ (c = Burst * TokenTicks /\ c <= b.credit + (t - b.at)),
         NEW a, a = [credit |-> c - TokenTicks, at |-> t]
  PROVE  FlowOf(h, a)'
<1> USE LimiterConstants
<1>1. t \in Nat /\ a.at = t /\ a.credit = c - TokenTicks
  BY DEF Decides
<1>2. \A o \in Through' : ip'[o] = h => decidedAt'[o] \in 0..a.at
  <2> SUFFICES ASSUME NEW o \in Through', ip'[o] = h PROVE decidedAt'[o] \in 0..t
    BY <1>1
  <2>1. CASE o = q
    BY <1>1, <2>1 DEF Decides
  <2>2. CASE o # q
    <3>1. o \in Through /\ ip[o] = h /\ decidedAt'[o] = decidedAt[o]
      BY <2>2 DEF Through, Decides
    <3>2. decidedAt[o] \in 0..b.at
      BY <3>1 DEF FlowOf
    <3> QED BY <1>1, <3>1, <3>2
  <2> QED BY <2>1, <2>2
<1>3. ASSUME NEW from \in 0..t
      PROVE  Spent(h, from)' + (c - TokenTicks) <= Burst * TokenTicks + (t - from)
  <2>1. /\ Spent(h, from) \in Nat /\ Spent(h, from)' = Spent(h, from) + TokenTicks
    BY <1>1, OneMoreSpent
  <2>2. CASE from <= b.at
    <3>1. Spent(h, from) + b.credit <= Burst * TokenTicks + (b.at - from)
      BY <2>2 DEF FlowOf
    <3> QED BY <1>1, <2>1, <3>1
  <2>3. CASE from > b.at
    <3>1. Since(h, from) = {}
      BY <2>3 DEF FlowOf, Since, Through
    <3>2. Spent(h, from) = 0
      BY <3>1, FS_EmptySet DEF Spent
    <3> QED BY <1>1, <2>1, <3>2
  <2> QED BY <1>1, <2>2, <2>3
<1>4. \E from \in 0..t :
        Spent(h, from)' + (c - TokenTicks) >= Burst * TokenTicks + (t - from)
  <2>1. CASE c = Burst * TokenTicks
    <3>1. Spent(h, t) \in Nat /\ Spent(h, t)' = Spent(h, t) + TokenTicks /\ t \in 0..t
      BY <1>1, OneMoreSpent
    <3> QED BY <1>1, <2>1, <3>1
  <2>2. CASE c = b.credit + (t - b.at)
    <3>1. PICK from \in 0..b.at :
            Spent(h, from) + b.credit >= Burst * TokenTicks + (b.at - from)
      BY DEF FlowOf
    <3>2. /\ from \in 0..t
          /\ Spent(h, from) \in Nat /\ Spent(h, from)' = Spent(h, from) + TokenTicks
      BY <1>1, OneMoreSpent
    <3> QED BY <1>1, <2>2, <3>1, <3>2
  <2> QED BY <2>1, <2>2
<1> QED BY <1>1, <1>2, <1>3, <1>4 DEF FlowOf

(* A refusal: less than a token is left of what the stretch since the bucket
   was full allows. *)
LEMMA EarnedRefusal ==
  ASSUME FlowOK, NEW q \in Logins, NEW h, NEW t, Decides(q, h, t), loginPc'[q] = "refused",
         NEW b, FlowOf(h, b), b.at \in 0..t, b.credit \in Nat,
         NEW c \in Nat, c < TokenTicks, c <= Burst * TokenTicks,
         c = b.credit + (t - b.at) \/ (c = Burst * TokenTicks /\ c <= b.credit + (t - b.at))
  PROVE  EarnedBy(h, t)'
<1> USE LimiterConstants
<1>1. t \in Nat /\ c = b.credit + (t - b.at)
  BY DEF Decides
<1>2. PICK from \in 0..b.at :
        Spent(h, from) + b.credit >= Burst * TokenTicks + (b.at - from)
  BY DEF FlowOf
<1>3. Count(h, from, t)' = Count(h, from, t)
  BY DecidedCount
<1>4. Limiter!Admitted(h, from, t) = Since(h, from)
  BY <1>1, <1>2 DEF Limiter!Admitted, Since, FlowOf, Through
<1>5. Count(h, from, t)' * TokenTicks = Spent(h, from) /\ Spent(h, from) \in Nat
  BY <1>3, <1>4, Counted, OneMore DEF Count, Spent
<1>6. /\ from \in 0..t
      /\ Count(h, from, t)' * TokenTicks > Burst * TokenTicks + (t - from) - TokenTicks
  BY <1>1, <1>2, <1>5
<1> QED BY <1>6 DEF EarnedBy

(* More requests, more tokens. *)
LEMMA MoreIsMore == \A m, n, t \in Nat : m <= n => m * t <= n * t
<1> SUFFICES ASSUME NEW m \in Nat, NEW n \in Nat, NEW t \in Nat, m <= n
             PROVE  m * t <= n * t
  OBVIOUS
<1>1. PICK d \in Nat : n = m + d
  <2>1. n - m \in Nat /\ n = m + (n - m)
    OBVIOUS
  <2> QED BY <2>1
<1>2. n * t = m * t + d * t /\ d * t \in Nat /\ m * t \in Nat
  BY <1>1
<1> QED BY <1>2

LEMMA FlowAllowStep ==
  ASSUME LimiterInv, FlowInv, NEW q \in Logins, Limiter!Allow(q)
  PROVE  FlowInv'
<1>1. PICK h \in Ips, l \in Logins, t \in 0..MaxTime, c \in Nat :
        \E b : Decision(q, h, l, t, b, c)
  BY AllowFinds
<1>2. PICK b : Decision(q, h, l, t, b, c)
  BY <1>1
<1> USE DEF Decision
<1>3. PICK a : a = bucket'[l]
  OBVIOUS
<1>4. FlowOf(h, a)'
  <2>1. CASE c >= TokenTicks
    <3>1. a = [credit |-> c - TokenTicks, at |-> t] /\ loginPc'[q] = "admitted"
      BY <1>2, <1>3, <2>1 DEF LimiterInv, Limiter!TypeOK
    <3> QED BY <1>2, <2>1, <3>1, FlowAdmitted, LimiterConstants DEF FlowInv
  <2>2. CASE ~(c >= TokenTicks)
    <3>1. a = b /\ loginPc'[q] = "refused"
      BY <1>2, <1>3, <2>2
    <3>2. \A from : Spent(h, from)' = Spent(h, from)
      BY <1>2, <3>1, DecidedSince
    <3>3. \A o \in Through' : ip'[o] = h => decidedAt'[o] \in 0..b.at
      BY <1>2, <3>1 DEF FlowOf, Through, Decides
    <3> QED BY <1>2, <3>1, <3>2, <3>3 DEF FlowOf
  <2> QED BY <2>1, <2>2
<1>5. ASSUME NEW i \in Ips \ {h}, limiters[i] # NoLimiter
      PROVE  FlowOf(i, bucket[limiters[i]])'
  <2>1. PICK d : d = bucket[limiters[i]]
    OBVIOUS
  <2>2. bucket'[limiters'[i]] = d
    BY <1>2, <1>5, <2>1 DEF Decides, LimiterInv, Limiter!TypeOK
  <2>3. FlowOf(i, d)
    BY <1>5, <2>1 DEF FlowInv, FlowOK
  <2>4. \A from : Spent(i, from)' = Spent(i, from)
    BY <1>2, <1>5, DecidedSince
  <2>5. \A o \in Through' : ip'[o] = i => decidedAt'[o] \in 0..d.at
    BY <1>2, <1>5, <2>3 DEF FlowOf, Through, Decides
  <2> QED BY <2>2, <2>3, <2>4, <2>5 DEF FlowOf
<1>6. IsFiniteSet(Through)'
  <2>1. Through' = Through \/ Through' = Through \cup {q}
    BY <1>2, DecidedThrough DEF Decides
  <2>2. IsFiniteSet(Through) /\ IsFiniteSet(Through \cup {q})
    BY FS_AddElement DEF FlowInv, FlowOK
  <2> QED BY <2>1, <2>2
<1>7. FlowOK'
  BY <1>2, <1>3, <1>4, <1>5, <1>6 DEF FlowOK, Decides
<1>8. LimitOK'
  <2> SUFFICES ASSUME NEW i \in Ips, NEW from \in 0..MaxTime, NEW to \in 0..MaxTime, from <= to
               PROVE  Count(i, from, to)' * TokenTicks <= Limiter!FullCredit + (to - from)
    BY DEF LimitOK
  <2>1. CASE loginPc'[q] = "refused" \/ i # h \/ t \notin from..to
    BY <1>2, <2>1, DecidedCount DEF FlowInv, LimitOK
  <2>2. CASE loginPc'[q] # "refused" /\ i = h /\ t \in from..to
    <3>1. c >= TokenTicks /\ loginPc'[q] = "admitted" /\ a.at = t /\ a.credit = c - TokenTicks
      BY <1>2, <1>3, <2>2 DEF LimiterInv, Limiter!TypeOK
    <3>2. Spent(h, from)' + (c - TokenTicks) <= Limiter!FullCredit + (t - from)
      BY <1>4, <2>2, <3>1, LimiterConstants DEF FlowOf
    <3>3. /\ Since(h, from)' \subseteq Through'
          /\ Limiter!Admitted(h, from, to)' \subseteq Since(h, from)'
      BY <1>2, DecidedCount DEF Since, Through
    <3>4. /\ Count(h, from, to)' \in Nat /\ Cardinality(Since(h, from)') \in Nat
          /\ Count(h, from, to)' <= Cardinality(Since(h, from)')
      BY <1>6, <3>3, FS_Subset, FS_CardinalityType DEF Count
    <3>5. Count(h, from, to)' * TokenTicks <= Spent(h, from)' /\ Spent(h, from)' \in Nat
      BY <3>4, MoreIsMore, OneMore, LimiterConstants DEF Spent
    <3>6. Count(h, from, to)' * TokenTicks \in Nat
      BY <3>4, OneMore, LimiterConstants
    <3> HIDE DEF Decision
    <3> QED BY <2>2, <3>1, <3>2, <3>5, <3>6, LimiterConstants
  <2> QED BY <2>1, <2>2
<1>9. RefusalOK'
  <2> SUFFICES ASSUME NEW o \in Logins, loginPc'[o] = "refused"
               PROVE  EarnedBy(ip[o], decidedAt[o])'
    BY DEF RefusalOK
  <2>1. CASE o = q
    <3>1. c < TokenTicks
      BY <1>2, <2>1, LimiterConstants
    <3>2. EarnedBy(h, t)'
      BY <1>2, <2>1, <3>1, EarnedRefusal DEF FlowInv
    <3> QED BY <1>2, <2>1, <3>2 DEF EarnedBy, Count, Decides
  <2>2. CASE o # q
    <3>1. PICK i, s : i = ip[o] /\ s = decidedAt[o]
      OBVIOUS
    <3>2. ip'[o] = i /\ decidedAt'[o] = s /\ EarnedBy(i, s)
      BY <1>2, <2>2, <3>1 DEF FlowInv, RefusalOK, Decides
    <3>3. PICK from \in 0..s :
            Count(i, from, s) * TokenTicks > Limiter!FullCredit + (s - from) - TokenTicks
      BY <3>2 DEF EarnedBy
    <3>4. Limiter!Admitted(i, from, s) \subseteq Limiter!Admitted(i, from, s)'
      BY <1>2, DecidedCount
    <3>5. IsFiniteSet(Limiter!Admitted(i, from, s)')
      <4>1. Limiter!Admitted(i, from, s)' \subseteq Through'
        BY DEF Limiter!Admitted, Through
      <4> QED BY <1>6, <4>1, FS_Subset
    <3>6. /\ Count(i, from, s) \in Nat /\ Count(i, from, s)' \in Nat
          /\ Count(i, from, s) <= Count(i, from, s)'
      BY <3>4, <3>5, FS_Subset, FS_CardinalityType DEF Count
    <3>7. s \in 0..MaxTime
      BY <3>1 DEF LimiterInv, Limiter!TypeOK, Limiter!Times
    <3>8. EarnedBy(i, s)'
      <4>1. /\ Count(i, from, s) * TokenTicks <= Count(i, from, s)' * TokenTicks
            /\ Count(i, from, s) * TokenTicks \in Nat /\ Count(i, from, s)' * TokenTicks \in Nat
        BY <3>6, MoreIsMore, OneMore, LimiterConstants
      <4>2. Count(i, from, s)' * TokenTicks > Limiter!FullCredit + (s - from) - TokenTicks
        BY <3>3, <3>7, <4>1, LimiterConstants
      <4> QED BY <3>3, <4>2 DEF EarnedBy
    <3> QED BY <3>2, <3>8 DEF EarnedBy, Count
  <2> QED BY <2>1, <2>2
<1> QED BY <1>7, <1>8, <1>9 DEF FlowInv

LEMMA FlowStep ==
  ASSUME LimiterInv, FlowInv, [Limiter!Next]_limiterVars
  PROVE  FlowInv'
  BY FlowTick, FlowMutexStep, FlowStoreStep, FlowAllowStep DEF Limiter!Next, Limiter!Step

LEMMA FlowInvariant == ProcessSpec => []FlowInv
  BY LimiterBeneath, LimiterInvariant, FlowInitial, FlowStep, PTL

(* For any addresses, bursts and rates, and however the goroutines interleave
   in limiterFor and Allow: over no stretch of time is an address let through
   more often than a burst and what the stretch refills (ratelimit.go:25). *)
THEOREM RateLimited == ProcessSpec => []LimitHolds
<1>1. FlowInv => LimitHolds
  BY LimiterProperties DEF FlowInv, LimitHolds
<1> QED BY <1>1, FlowInvariant, PTL

(* ... and nobody is refused who has not used up what the limit allows: other
   addresses' requests cost it nothing (ratelimit.go:13). *)
THEOREM RefusalsEarned == ProcessSpec => []RefusalIsEarned
<1>1. FlowInv => RefusalIsEarned
  BY LimiterProperties DEF FlowInv, RefusalIsEarned
<1> QED BY <1>1, FlowInvariant, PTL

-----------------------------------------------------------------------------
(* The server processes *)

LEMMA ItemsAre ==
  /\ Len(Process!Items) = 9 /\ DOMAIN Process!Items = 1..9
  /\ Process!Schema = {Process!Items[n] : n \in 1..9}
  BY DEF Process!Items, Process!Schema

(* How far an instance is says what is there: no migration is taken back, and
   each one an instance has passed was found or made. *)
Ready(i) ==
  /\ stage[i] \notin {"load", "exited"} => i \in configured
  /\ listener[i] # "off" => stage[i] = "select"
  /\ stage[i] = "drain" => i \in signalled
  /\ stage[i] \in {"check", "create"} =>
       \A n \in 1..9 : n < item[i] => Process!Items[n] \in schema
  /\ stage[i] \in {"seed", "select", "drain"} => Process!Schema \subseteq schema
  /\ stage[i] \in {"select", "drain"} => ~development \/ admin

ServerOK ==
  /\ Process!TypeOK
  /\ ~development => Process!Schema \subseteq schema
  /\ \A i \in Instances : Ready(i)

ServerInv == part = "server" => ServerOK

LEMMA ServerInitial == ProcessInit => ServerInv
<1> SUFFICES ASSUME ProcessInit, part = "server" PROVE ServerOK
  BY DEF ServerInv
<1>1. Process!Init
  BY DEF ProcessInit
<1>2. MaxFaults \in Nat
  BY PartsAssumption DEF Process!ConstantsAssumption
<1>3. schema \subseteq Process!Schema /\ item \in [Instances -> DOMAIN Process!Items]
  BY <1>1, ItemsAre DEF Process!Init
<1>4. Process!TypeOK
  <2>1. development \in BOOLEAN /\ admin \in BOOLEAN /\ configured \subseteq Instances
    BY <1>1 DEF Process!Init
  <2>2. /\ stage \in [Instances -> Process!Stages]
        /\ listener \in [Instances -> {"off", "starting", "open", "failed"}]
        /\ signalled \subseteq Instances
        /\ code \in [Instances -> {"none", "ok", "error", "killed"}]
        /\ request \in [Visits -> {"none", "open", "answered", "cut"}]
        /\ server \in [Visits -> Instances \cup {Nobody}]
        /\ faults \in 0..MaxFaults
    BY <1>1, <1>2 DEF Process!Init, Process!Stages
  <2> QED BY <1>3, <2>1, <2>2 DEF Process!TypeOK
<1> QED BY <1>1, <1>4 DEF ServerOK, Ready, Process!Init

LEMMA ServerTypeStep ==
  ASSUME Process!TypeOK, Process!Next
  PROVE  Process!TypeOK'
<1>1. MaxFaults \in Nat
  BY PartsAssumption DEF Process!ConstantsAssumption
<1> USE ItemsAre
    DEF Process!TypeOK, Process!Stages, Process!Goto, Process!At, Process!Exit, Process!Unstopped,
        Process!Pass, Process!Launch, Process!given
<1>2. ASSUME NEW i \in Instances, Process!Advance(i) PROVE Process!TypeOK'
  <2>1. CASE Process!Load(i)
    BY <2>1 DEF Process!Load
  <2>2. CASE Process!Connect(i)
    BY <2>2 DEF Process!Connect
  <2>3. CASE Process!Check(i)
    BY <2>3 DEF Process!Check
  <2>4. CASE Process!Create(i)
    <3>1. Process!Items[item[i]] \in Process!Schema
      OBVIOUS
    <3>2. schema' \subseteq Process!Schema /\ item' \in [Instances -> 1..9]
      BY <2>4, <3>1 DEF Process!Create
    <3>3. /\ stage' \in [Instances -> Process!Stages]
          /\ listener' \in [Instances -> {"off", "starting", "open", "failed"}]
          /\ code' \in [Instances -> {"none", "ok", "error", "killed"}]
          /\ request' \in [Visits -> {"none", "open", "answered", "cut"}]
      BY <2>4 DEF Process!Create
    <3>4. UNCHANGED <<development, configured, admin, signalled, server, faults>>
      BY <2>4 DEF Process!Create
    <3> QED BY <3>2, <3>3, <3>4
  <2>5. CASE Process!Seed(i)
    <3>1. admin' \in BOOLEAN /\ UNCHANGED development
      BY <2>5 DEF Process!Seed
    <3>2. /\ stage' \in [Instances -> Process!Stages]
          /\ listener' \in [Instances -> {"off", "starting", "open", "failed"}]
          /\ code' \in [Instances -> {"none", "ok", "error", "killed"}]
          /\ request' \in [Visits -> {"none", "open", "answered", "cut"}]
      BY <2>5 DEF Process!Seed
    <3>3. UNCHANGED <<configured, schema, item, signalled, server, faults>>
      BY <2>5 DEF Process!Seed
    <3> QED BY <3>1, <3>2, <3>3
  <2>6. CASE Process!TakeError(i) \/ Process!Drained(i) \/ Process!GraceOver(i)
    BY <2>6 DEF Process!TakeError, Process!Drained, Process!GraceOver
  <2>7. CASE Process!TakeSignal(i)
    BY <2>7 DEF Process!TakeSignal
  <2> QED BY <1>2, <2>1, <2>2, <2>3, <2>4, <2>5, <2>6, <2>7 DEF Process!Advance
<1>3. ASSUME NEW i \in Instances, Process!Open(i) \/ Process!Restart(i) \/ Process!Signal(i)
      PROVE  Process!TypeOK'
  BY <1>3 DEF Process!Open, Process!Restart, Process!Signal
<1>4. ASSUME NEW i \in Instances,
             Process!StatementFails(i) \/ Process!ListenerFails(i) \/ Process!Kill(i)
      PROVE  Process!TypeOK'
  BY <1>1, <1>4
     DEF Process!StatementFails, Process!ListenerFails, Process!Kill, Process!Fault
<1>5. ASSUME NEW i \in Instances, NEW q \in Visits, Process!Accept(i, q) PROVE Process!TypeOK'
  BY <1>5 DEF Process!Accept
<1>6. ASSUME NEW q \in Visits, Process!Finish(q) PROVE Process!TypeOK'
  BY <1>6 DEF Process!Finish
<1> QED BY <1>2, <1>3, <1>4, <1>5, <1>6 DEF Process!Next

(* What one instance does takes nothing away from another. *)
Apart(i) ==
  /\ UNCHANGED <<development, configured>>
  /\ stage'[i] = stage[i] /\ item'[i] = item[i] /\ listener'[i] = listener[i]
  /\ signalled \subseteq signalled' /\ schema \subseteq schema'
  /\ admin => admin'

LEMMA ApartReady ==
  ASSUME NEW i, Ready(i), Apart(i)
  PROVE  Ready(i)'
<1>1. Process!Schema \subseteq schema => Process!Schema \subseteq schema'
  BY DEF Apart
<1> QED BY <1>1 DEF Ready, Apart

LEMMA OthersApart ==
  ASSUME Process!TypeOK, Process!Next
  PROVE  \/ \A i \in Instances : Apart(i)
         \/ \E i \in Instances : /\ \A j \in Instances \ {i} : Apart(j)
                                 /\ Process!Advance(i) \/ Process!Open(i) \/ Process!Restart(i)
                                    \/ Process!StatementFails(i)
                                    \/ Process!ListenerFails(i) \/ Process!Kill(i)
<1> USE DEF Process!TypeOK, Process!Goto, Process!Exit, Process!Unstopped, Process!Pass,
            Process!Launch, Process!given, Apart
<1>1. ASSUME NEW i \in Instances, NEW j \in Instances, j # i,
             Process!Advance(i)
      PROVE  Apart(j)
  <2>1. CASE Process!Load(i) \/ Process!Connect(i) \/ Process!Check(i)
    BY <1>1, <2>1 DEF Process!Load, Process!Connect, Process!Check
  <2>2. CASE Process!Create(i)
    BY <1>1, <2>2 DEF Process!Create
  <2>3. CASE Process!Seed(i)
    BY <1>1, <2>3 DEF Process!Seed
  <2>4. CASE Process!TakeError(i) \/ Process!TakeSignal(i) \/ Process!Drained(i)
             \/ Process!GraceOver(i)
    BY <1>1, <2>4
       DEF Process!TakeError, Process!TakeSignal, Process!Drained, Process!GraceOver
  <2> QED BY <1>1, <2>1, <2>2, <2>3, <2>4 DEF Process!Advance
<1>2. ASSUME NEW i \in Instances, NEW j \in Instances, j # i,
             Process!Open(i) \/ Process!Restart(i) \/ Process!StatementFails(i)
             \/ Process!ListenerFails(i) \/ Process!Kill(i)
      PROVE  Apart(j)
  BY <1>2 DEF Process!Open, Process!Restart, Process!StatementFails, Process!ListenerFails,
              Process!Kill
<1>3. ASSUME NEW i \in Instances, NEW j \in Instances,
             Process!Signal(i) \/ \E q \in Visits : Process!Accept(i, q)
      PROVE  Apart(j)
  BY <1>3 DEF Process!Signal, Process!Accept
<1>4. ASSUME NEW q \in Visits, NEW j \in Instances, Process!Finish(q) PROVE Apart(j)
  BY <1>4 DEF Process!Finish
<1> HIDE DEF Apart
<1> QED BY <1>1, <1>2, <1>3, <1>4 DEF Process!Next

(* Passing a migration that is there leads on: to the next or, after the last,
   to a schema that is complete. *)
LEMMA PassReady ==
  ASSUME NEW i \in Instances, Process!TypeOK, Ready(i), stage[i] \in {"check", "create"},
         Process!Pass(i), schema \subseteq schema', Process!Items[item[i]] \in schema',
         configured' = configured
  PROVE  Ready(i)'
<1> USE ItemsAre DEF Process!TypeOK, Process!Pass, Process!Goto, Process!Unstopped
<1>1. item[i] \in 1..9 /\ i \in configured /\ listener'[i] = "off"
  BY DEF Ready
<1>2. \A n \in 1..9 : n <= item[i] => Process!Items[n] \in schema'
  BY <1>1 DEF Ready
<1>3. CASE item[i] = 9
  <2>1. stage'[i] = "seed" /\ Process!Schema \subseteq schema'
    BY <1>1, <1>2, <1>3
  <2> QED BY <1>1, <2>1 DEF Ready
<1>4. CASE item[i] # 9
  <2>1. stage'[i] = "check" /\ item'[i] = item[i] + 1
    BY <1>4
  <2>2. \A n \in 1..9 : n < item'[i] => Process!Items[n] \in schema'
    BY <1>1, <1>2, <2>1
  <2> QED BY <1>1, <2>1, <2>2 DEF Ready
<1> QED BY <1>3, <1>4

LEMMA ExitReady ==
  ASSUME NEW i \in Instances, Process!TypeOK, NEW c, Process!Exit(i, c)
  PROVE  Ready(i)'
  BY DEF Process!TypeOK, Process!Exit, Process!Goto, Ready

LEMMA StartupReady ==
  ASSUME NEW i \in Instances, ServerOK,
         \/ Process!Load(i) \/ Process!Connect(i) \/ Process!Check(i)
         \/ Process!Create(i) \/ Process!Seed(i)
  PROVE  Ready(i)'
<1> USE DEF ServerOK
<1>1. CASE Process!Load(i)
  <2>1. CASE i \in configured
    BY <1>1, <2>1
       DEF Process!Load, Process!TypeOK, Process!Goto, Process!At, Process!Unstopped, Process!given,
           Ready
  <2>2. CASE i \notin configured
    BY <1>1, <2>2, ExitReady DEF Process!Load
  <2> QED BY <2>1, <2>2
<1>2. CASE Process!Connect(i)
  <2> USE DEF Process!Connect, Process!TypeOK, Process!Goto, Process!At, Process!given
  <2>1. i \in configured /\ listener[i] = "off" /\ UNCHANGED <<development, configured, schema>>
    BY <1>2 DEF Ready
  <2>2. CASE ~development
    <3>1. stage'[i] = "select" /\ Process!Schema \subseteq schema'
      BY <1>2, <2>1, <2>2 DEF Process!Launch
    <3> QED BY <2>1, <2>2, <3>1 DEF Ready
  <2>3. CASE development
    <3>1. stage'[i] = "check" /\ item'[i] = 1 /\ listener'[i] = "off"
      BY <1>2, <2>1, <2>3, ItemsAre DEF Process!Unstopped
    <3> QED BY <2>1, <3>1 DEF Ready
  <2> QED BY <2>2, <2>3
<1>3. CASE Process!Check(i)
  <2> USE DEF Process!Check, Process!At, Process!given
  <2>1. CASE Process!Items[item[i]] \in schema
    BY <1>3, <2>1, PassReady
  <2>2. CASE Process!Items[item[i]] \notin schema
    BY <1>3, <2>2 DEF Process!TypeOK, Process!Goto, Process!Unstopped, Ready
  <2> QED BY <2>1, <2>2
<1>4. CASE Process!Create(i)
  <2>1. \/ /\ schema' = schema \cup {Process!Items[item[i]]} /\ Process!Pass(i)
           /\ stage[i] = "create" /\ configured' = configured
        \/ Process!Exit(i, "error")
    BY <1>4 DEF Process!Create, Process!At, Process!given
  <2> QED BY <2>1, PassReady, ExitReady
<1>5. CASE Process!Seed(i)
  <2>1. \/ /\ stage[i] = "seed" /\ Process!Launch(i) /\ admin'
           /\ UNCHANGED <<configured, schema>>
        \/ Process!Exit(i, "error")
    BY <1>5 DEF Process!Seed, Process!At, Process!given
  <2>2. CASE Process!Exit(i, "error")
    BY <2>2, ExitReady
  <2>3. ASSUME stage[i] = "seed", Process!Launch(i), admin', UNCHANGED <<configured, schema>>
        PROVE  Ready(i)'
    <3>1. stage'[i] = "select"
      BY <2>3 DEF Process!Launch, Process!Goto, Process!TypeOK
    <3> QED BY <2>3, <3>1 DEF Ready
  <2> QED BY <2>1, <2>2, <2>3
<1> QED BY <1>1, <1>2, <1>3, <1>4, <1>5

LEMMA EndReady ==
  ASSUME NEW i \in Instances, ServerOK,
         \/ Process!TakeError(i) \/ Process!TakeSignal(i) \/ Process!Drained(i)
         \/ Process!GraceOver(i) \/ Process!Open(i) \/ Process!Restart(i)
         \/ Process!StatementFails(i) \/ Process!ListenerFails(i) \/ Process!Kill(i)
  PROVE  Ready(i)'
<1> USE DEF ServerOK
<1>1. CASE \/ Process!TakeError(i) \/ Process!Drained(i) \/ Process!GraceOver(i)
           \/ Process!StatementFails(i) \/ Process!Kill(i)
  BY <1>1, ExitReady
     DEF Process!TakeError, Process!Drained, Process!GraceOver, Process!StatementFails, Process!Kill
<1> USE DEF Process!TypeOK, Process!Goto, Process!At, Process!given, Ready
<1>2. CASE Process!TakeSignal(i)
  BY <1>2 DEF Process!TakeSignal
<1>3. CASE Process!Open(i) \/ Process!ListenerFails(i)
  BY <1>3 DEF Process!Open, Process!ListenerFails
<1>4. CASE Process!Restart(i)
  BY <1>4 DEF Process!Restart
<1> QED BY <1>1, <1>2, <1>3, <1>4

LEMMA ServerStep ==
  ASSUME ServerOK, Process!Next
  PROVE  ServerOK'
<1>1. Process!TypeOK'
  BY ServerTypeStep DEF ServerOK
<1>2. \A j \in Instances : Ready(j)'
  <2>1. CASE \A i \in Instances : Apart(i)
    BY <2>1, ApartReady DEF ServerOK
  <2>2. ASSUME NEW i \in Instances, \A j \in Instances \ {i} : Apart(j),
               Process!Advance(i) \/ Process!Open(i) \/ Process!Restart(i)
               \/ Process!StatementFails(i) \/ Process!ListenerFails(i) \/ Process!Kill(i)
        PROVE  \A j \in Instances : Ready(j)'
    <3>1. Ready(i)'
      BY <2>2, StartupReady, EndReady DEF Process!Advance
    <3>2. \A j \in Instances \ {i} : Ready(j)'
      BY <2>2, ApartReady DEF ServerOK
    <3> QED BY <3>1, <3>2
  <2> QED BY <2>1, <2>2, OthersApart DEF ServerOK
<1>3. ~development' => Process!Schema \subseteq schema'
  <2>1. UNCHANGED development /\ schema \subseteq schema'
    <3> USE DEF Process!given
    <3>1. ASSUME NEW i \in Instances, Process!Advance(i)
          PROVE  UNCHANGED development /\ schema \subseteq schema'
      BY <3>1 DEF Process!Advance, Process!Load, Process!Connect, Process!Check, Process!Create,
                  Process!Seed, Process!TakeError, Process!TakeSignal, Process!Drained,
                  Process!GraceOver
    <3>2. ASSUME ~(\E i \in Instances : Process!Advance(i))
          PROVE  UNCHANGED development /\ schema \subseteq schema'
      BY <3>2 DEF Process!Next, Process!Open, Process!Restart, Process!Signal,
                  Process!StatementFails, Process!ListenerFails, Process!Kill, Process!Accept,
                  Process!Finish
    <3> QED BY <3>1, <3>2
  <2> QED BY <2>1 DEF ServerOK
<1> QED BY <1>1, <1>2, <1>3 DEF ServerOK

LEMMA ServerInvariant == ProcessSpec => []ServerInv
<1>1. ServerInv /\ [ProcessNext]_allVars => ServerInv'
  <2> SUFFICES ASSUME ServerInv, [ProcessNext]_allVars, part' = "server" PROVE ServerOK'
    BY DEF ServerInv
  <2>1. part = "server" /\ ServerOK
    BY DEF ServerInv, ProcessNext, allVars
  <2>2. CASE Process!Next
    BY <2>1, <2>2, ServerStep
  <2>3. CASE UNCHANGED serverVars
    BY <2>1, <2>3 DEF serverVars, ServerOK, Ready, Process!TypeOK
  <2> QED BY <2>1, <2>2, <2>3 DEF ProcessNext, allVars
<1> QED BY <1>1, ServerInitial, PTL DEF ProcessSpec

(* The types of all three parts, and the limiter's mutual exclusion. *)
THEOREM ProcessTypesCorrect == ProcessSpec => []ProcessTypeOK
<1>1. LimiterInv /\ ServerInv /\ TypeOK => ProcessTypeOK
  BY DEF LimiterInv, ServerInv, ServerOK, ProcessTypeOK
<1> QED BY <1>1, LimiterInvariant, ServerInvariant, RegistrationBeneath, TypeCorrect, PTL

(* However many instances start, fail half way and start again over the same
   database: one that accepts requests has its configuration, the whole schema
   and, in development, the admin (main.go:91-107). *)
THEOREM ReadyToServe == ProcessSpec => []ServesOnlyWhenReady
<1>1. ServerInv => ServesOnlyWhenReady
  BY DEF ServerInv, ServerOK, Ready, Process!TypeOK, ServesOnlyWhenReady,
         Process!ServesOnlyWhenReady
<1> QED BY <1>1, ServerInvariant, PTL

(* Only Drained ends run() without an error. *)
LEMMA OnlyDrained ==
  ASSUME ServerOK, Process!Next, NEW i \in Instances,
         stage'[i] = "exited", stage[i] # "exited", code'[i] = "ok"
  PROVE  Process!Drained(i)
<1> USE DEF ServerOK
<1>1. ASSUME NEW c, Process!Exit(i, c) PROVE c = "ok"
  BY <1>1 DEF Process!Exit, Process!TypeOK
<1>2. PICK j \in Instances :
        /\ \A k \in Instances \ {j} : Apart(k)
        /\ Process!Advance(j) \/ Process!Open(j) \/ Process!Restart(j)
           \/ Process!StatementFails(j) \/ Process!ListenerFails(j) \/ Process!Kill(j)
  BY OthersApart DEF Apart
<1>3. j = i
  BY <1>2 DEF Apart
<1>4. ~Process!Exit(i, "error") /\ ~Process!Exit(i, "killed")
  BY <1>1
<1>5. ~(Process!TakeError(i) \/ Process!GraceOver(i) \/ Process!StatementFails(i)
        \/ Process!Kill(i))
  BY <1>4 DEF Process!TakeError, Process!GraceOver, Process!StatementFails, Process!Kill
<1> USE DEF Process!TypeOK, Process!Goto
<1>6. ~(Process!Load(i) \/ Process!Connect(i))
  BY <1>4 DEF Process!Load, Process!Connect, Process!Launch
<1>7. ~(Process!Check(i) \/ Process!Create(i))
  BY <1>4 DEF Process!Check, Process!Create, Process!Pass
<1>8. ~(Process!Seed(i) \/ Process!TakeSignal(i) \/ Process!Restart(i))
  BY <1>4 DEF Process!Seed, Process!TakeSignal, Process!Restart, Process!Launch
<1>9. ~(Process!Open(i) \/ Process!ListenerFails(i))
  BY DEF Process!Open, Process!ListenerFails
<1> QED BY <1>2, <1>3, <1>5, <1>6, <1>7, <1>8, <1>9 DEF Process!Advance

(* A process ends with success only after a signal, and then breaks no
   connection (main.go:174-188). *)
THEOREM ExitsCleanly == ProcessSpec => CleanExit
<1> DEFINE Ends(i) == Process!At(i, "exited")' /\ ~Process!At(i, "exited") /\ code'[i] = "ok"
           Clean(i) == /\ i \in signalled
                       /\ \A q \in Visits : request'[q] = "cut" => request[q] = "cut"
<1>1. ASSUME ServerInv, [ProcessNext]_allVars, NEW i \in Instances, Ends(i)
      PROVE  Clean(i)
  <2>1. ~UNCHANGED serverVars
    BY <1>1 DEF serverVars, Process!At
  <2>2. ServerOK /\ Process!Next
    BY <1>1, <2>1 DEF ProcessNext, allVars, ServerInv
  <2>3. Process!Drained(i)
    BY <1>1, <2>2, OnlyDrained DEF Process!At
  <2>4. i \in signalled
    BY <2>2, <2>3 DEF Process!Drained, Process!At, ServerOK, Ready
  <2>5. \A q \in Visits : request'[q] = request[q]
    BY <2>3 DEF Process!Drained, Process!Exit
  <2> QED BY <2>4, <2>5
<1>2. ServerInv /\ [ProcessNext]_allVars =>
        [\A i \in Instances : Ends(i) => Clean(i)]_(Process!vars)
  BY <1>1
<1> QED BY <1>2, ServerInvariant, PTL DEF ProcessSpec, CleanExit, Process!CleanExit

=============================================================================
