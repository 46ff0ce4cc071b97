----------------------------- MODULE ReportDates -----------------------------
(***************************************************************************)
(* Date arithmetic of the reports: internal/report/domain.                 *)
(*                                                                         *)
(* Times are truncated to UTC days before any arithmetic, so a date here   *)
(* is a civil day.  The calendar itself is Go's time package: AddDate adds *)
(* to the fields and lets an impossible day run over into the next month.  *)
(***************************************************************************)
EXTENDS Integers

CONSTANTS
  DefaultTimelineDays, MaxTimelineDays,
  NoBound                                  \* an age bound that was not given

ASSUME TimelineAssumption ==
  /\ MaxTimelineDays \in Nat \ {0}
  /\ DefaultTimelineDays \in 1..MaxTimelineDays

-----------------------------------------------------------------------------
(* The calendar *)

IsLeap(y) == y % 4 = 0 /\ (y % 100 # 0 \/ y % 400 = 0)

DaysIn(y, m) ==
  CASE m = 2 -> IF IsLeap(y) THEN 29 ELSE 28
    [] m \in {4, 6, 9, 11} -> 30
    [] OTHER -> 31

IsDate(d) ==
  /\ d \in [year : Int, month : 1..12, day : 1..31]
  /\ d.day <= DaysIn(d.year, d.month)

ASSUME NoBoundAssumption == NoBound \notin Nat /\ ~IsDate(NoBound)

Day(y, m, d) == [year |-> y, month |-> m, day |-> d]

LeapDay(d) == d.month = 2 /\ d.day = 29

Before(a, b) ==
  \/ a.year < b.year
  \/ a.year = b.year /\ a.month < b.month
  \/ a.year = b.year /\ a.month = b.month /\ a.day < b.day

(* !b.Before(a): comparison with an inclusive bound. *)
AtMost(a, b) == ~Before(b, a)

(* AddDate(0, 0, 1) *)
NextDay(d) ==
  IF d.day < DaysIn(d.year, d.month) THEN Day(d.year, d.month, d.day + 1)
  ELSE IF d.month < 12 THEN Day(d.year, d.month + 1, 1)
  ELSE Day(d.year + 1, 1, 1)

(* AddDate(0, 0, -1) *)
PrevDay(d) ==
  IF d.day > 1 THEN Day(d.year, d.month, d.day - 1)
  ELSE IF d.month > 1 THEN Day(d.year, d.month - 1, DaysIn(d.year, d.month - 1))
  ELSE Day(d.year - 1, 12, 31)

(* AddDate(n, 0, 0): the 29th of February of a common year is the 1st of
   March. *)
AddYears(d, n) ==
  IF LeapDay(d) /\ ~IsLeap(d.year + n) THEN Day(d.year + n, 3, 1)
  ELSE Day(d.year + n, d.month, d.day)

(* AddDate(0, 0, n) and AddDate(0, 0, -n) *)
DaysAfter(d, n) ==
  LET f[i \in Nat] == IF i = 0 THEN d ELSE NextDay(f[i - 1]) IN f[n]
DaysBefore(d, n) ==
  LET f[i \in Nat] == IF i = 0 THEN d ELSE PrevDay(f[i - 1]) IN f[n]

-----------------------------------------------------------------------------
(* Age in completed years, never negative. *)
AgeAt(birth, at) ==
  LET early == \/ at.month < birth.month
               \/ at.month = birth.month /\ at.day < birth.day
      age == at.year - birth.year - (IF early THEN 1 ELSE 0)
  IN IF age < 0 THEN 0 ELSE age

AgeFilter == [ageMin : Int \cup {NoBound}, ageMax : Int \cup {NoBound}]

(* The age range that Normalize lets through. *)
Valid(f) ==
  /\ f.ageMin # NoBound => f.ageMin >= 0
  /\ f.ageMax # NoBound => f.ageMax >= 0
  /\ f.ageMin # NoBound /\ f.ageMax # NoBound => f.ageMin <= f.ageMax

(* Mutant: without the extra day, those who turned ageMax + 1 today count. *)
ResolveNoExtraDay(f, today) ==
  [birthTo   |-> IF f.ageMin = NoBound THEN NoBound
                 ELSE AddYears(today, -f.ageMin),
   birthFrom |-> IF f.ageMax = NoBound THEN NoBound
                 ELSE AddYears(today, -(f.ageMax + 1))]

(* The age bounds as birth date bounds, both inclusive. *)
Resolve(f, today) ==
  [birthTo   |-> IF f.ageMin = NoBound THEN NoBound
                 ELSE AddYears(today, -f.ageMin),
   birthFrom |-> IF f.ageMax = NoBound THEN NoBound
                 ELSE NextDay(AddYears(today, -(f.ageMax + 1)))]

(* The WHERE clause on fecha_nacimiento. *)
Selects(q, birth) ==
  /\ q.birthTo # NoBound => AtMost(birth, q.birthTo)
  /\ q.birthFrom # NoBound => AtMost(q.birthFrom, birth)

(* What the admin asked for. *)
InRange(age, f) ==
  /\ f.ageMin # NoBound => f.ageMin <= age
  /\ f.ageMax # NoBound => age <= f.ageMax

-----------------------------------------------------------------------------
ClampDays(days) ==
  IF days < 1 THEN DefaultTimelineDays
  ELSE IF days > MaxTimelineDays THEN MaxTimelineDays ELSE days

TimelineRange(days, today) ==
  [from |-> DaysBefore(today, ClampDays(days) - 1), to |-> today]

(* One point per day of the range, zero for the days found does not mention.
   The loop walks day by day until it passes the last. *)
FillTimeline(found, range) ==
  LET n == CHOOSE k \in 0..MaxTimelineDays : DaysAfter(range.from, k) = range.to
  IN [i \in 1..(n + 1) |->
        LET date == DaysAfter(range.from, i - 1) IN
        [date  |-> date,
         count |-> IF \E p \in found : p.date = date
                   THEN (CHOOSE p \in found : p.date = date).count ELSE 0]]
=============================================================================
