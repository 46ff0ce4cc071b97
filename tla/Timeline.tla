------------------------------ MODULE Timeline ------------------------------
(***************************************************************************)
(* GET /reports/registrations-timeline while runners register.  The        *)
(* service takes the window from the clock, sends one query, and fills in  *)
(* the days the query did not return; midnight and other registrations may *)
(* come between.                                                           *)
(***************************************************************************)
EXTENDS ReportDates, FiniteSets, Sequences

CONSTANTS
  Regs,       \* registrations
  FirstDays,  \* the clock starts on one of these
  MaxDays,    \* bound on the days that pass
  DaysAsked,  \* values of the days parameter, out of range ones included
  NoReg

(* What the constants are; checked where they get their values. *)
ConstantsAssumption ==
  /\ \A d \in FirstDays : IsDate(d)
  /\ MaxDays \in Nat /\ DaysAsked \subseteq Int
  /\ IsFiniteSet(Regs)

VARIABLES
  today,   \* UTC day of the clock
  passed,  \* days passed
  regs,    \* registrations: created_at and estado
  pc,      \* "idle" or, with the query under way, "query"
  range,   \* the window of the request
  asked,   \* its days parameter
  points   \* the last answer

vars == <<today, passed, regs, pc, range, asked, points>>

IsReg(r) == r # NoReg

TypeOK ==
  /\ IsDate(today) /\ passed \in 0..MaxDays
  /\ \A q \in Regs : IsReg(regs[q]) =>
       IsDate(regs[q].created) /\ regs[q].confirmed \in BOOLEAN
  /\ pc \in {"idle", "query"}
  /\ IsDate(range.from) /\ IsDate(range.to) /\ AtMost(range.from, range.to)
  /\ asked \in DaysAsked \cup {1}
  /\ \A i \in DOMAIN points : IsDate(points[i].date) /\ points[i].count \in Nat

Init ==
  /\ today \in FirstDays /\ passed = 0
  /\ regs = [q \in Regs |-> NoReg]
  /\ pc = "idle" /\ range = [from |-> today, to |-> today] /\ asked = 1
  /\ points = <<>>

(* Midnight, UTC. *)
Tick ==
  /\ passed < MaxDays /\ passed' = passed + 1
  /\ today' = NextDay(today)
  /\ UNCHANGED <<regs, pc, range, asked, points>>

(* NewRegistration stamps created_at and stores a pending row. *)
Create(q) ==
  /\ ~IsReg(regs[q])
  /\ regs' = [regs EXCEPT ![q] = [created |-> today, confirmed |-> FALSE]]
  /\ UNCHANGED <<today, passed, pc, range, asked, points>>

Confirm(q) ==
  /\ IsReg(regs[q]) /\ ~regs[q].confirmed
  /\ regs' = [regs EXCEPT ![q].confirmed = TRUE]
  /\ UNCHANGED <<today, passed, pc, range, asked, points>>

(* Register deletes the row it could not confirm, by id: a confirmed one when
   the reply to its confirmation was lost.  Which replies are is left open. *)
Undo(q) ==
  /\ IsReg(regs[q])
  /\ regs' = [regs EXCEPT ![q] = NoReg]
  /\ UNCHANGED <<today, passed, pc, range, asked, points>>

Ask ==
  /\ pc = "idle" /\ pc' = "query"
  /\ \E n \in DaysAsked : asked' = n /\ range' = TimelineRange(n, today)
  /\ UNCHANGED <<today, passed, regs, points>>

(* Mutant: the window ends when its last day begins. *)
InWindowToMidnight(day, r) == AtMost(r.from, day) /\ Before(day, r.to)

(* created_at >= from AND created_at < to + 1 day *)
InWindow(day, r) == AtMost(r.from, day) /\ Before(day, NextDay(r.to))

(* scopeConfirmed *)
Counted(q) == IsReg(regs[q]) /\ regs[q].confirmed

(* GROUP BY day: only days with registrations. *)
Found(r) ==
  LET rows == {q \in Regs : Counted(q) /\ InWindow(regs[q].created, r)} IN
  {[date |-> d, count |-> Cardinality({q \in rows : regs[q].created = d})] :
     d \in {regs[q].created : q \in rows}}

Answer ==
  /\ pc = "query" /\ pc' = "idle"
  /\ points' = FillTimeline(Found(range), range)
  /\ UNCHANGED <<today, passed, regs, range, asked>>

Next ==
  \/ Tick \/ Ask \/ Answer
  \/ \E q \in Regs : Create(q) \/ Confirm(q) \/ Undo(q)

Spec == Init /\ [][Next]_vars

-----------------------------------------------------------------------------
(* Days since 1 March of the year 0, computed without walking: the reference
   the walk is compared with. *)
DayNumber(d) ==
  LET y == IF d.month > 2 THEN d.year ELSE d.year - 1
      m == (d.month + 9) % 12
  IN 365 * y + y \div 4 - y \div 100 + y \div 400
       + (153 * m + 2) \div 5 + d.day

Sum(s) ==
  LET f[i \in 0..Len(s)] == IF i = 0 THEN 0 ELSE f[i - 1] + s[i].count
  IN f[Len(s)]

(* A chart has as many points as days asked, one day apart, and ends on the
   day of the request: no day is missing or twice (domain/report.go:120-139). *)
OnePointPerDay ==
  points # <<>> /\ pc = "idle" =>
    /\ Len(points) = ClampDays(asked)
    /\ points[Len(points)].date = range.to
    /\ \A i \in 1..Len(points) :
         DayNumber(points[i].date) = DayNumber(range.to) - (Len(points) - i)

(* A chart has its points and adds up to the confirmed registrations of its
   days, those of today and of the first day included, as they stand when the
   query runs (adapters/postgres/repository.go:31-66). *)
ChartAddsUp ==
  [][pc = "query" /\ pc' = "idle" =>
       /\ OnePointPerDay'
       /\ Sum(points') =
            Cardinality({q \in Regs :
              /\ regs[q] # NoReg /\ regs[q].confirmed
              /\ DayNumber(range.to) - DayNumber(regs[q].created)
                   \in 0..(ClampDays(asked) - 1)})]_vars
=============================================================================
