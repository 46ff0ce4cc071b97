------------------------------ MODULE AgeReport ------------------------------
(***************************************************************************)
(* The participants report's age filter, GET /participants, while days     *)
(* pass and people correct their data: service.Participants takes the day  *)
(* once, turns the ages into birth dates with it, sends the query, and     *)
(* computes every row's age for that same day.                             *)
(***************************************************************************)
EXTENDS ReportDates, FiniteSets

CONSTANTS
  People, Births,  \* who is in the table, and the birth dates they may give
  FirstDays,       \* the clock starts on one of these
  MaxDays,         \* bound on the days that pass
  Ages             \* ages an admin filters by, some of them negative

ASSUME AgeReportAssumption ==
  /\ \A d \in FirstDays : IsDate(d)
  /\ \A b \in Births : IsDate(b) /\ \A d \in FirstDays : Before(b, d)
  /\ MaxDays \in Nat /\ Ages \subseteq Int

VARIABLES
  today,   \* UTC day of the clock
  days,    \* days passed
  birth,   \* participants.fecha_nacimiento
  pc,      \* "idle" or, with the query under way, "select"
  asOf,    \* the day the request took from the clock
  filter,  \* the age bounds of the request
  rows     \* what the last report listed: person -> age shown

vars == <<today, days, birth, pc, asOf, filter, rows>>

Filters == [ageMin : Ages \cup {NoBound}, ageMax : Ages \cup {NoBound}]
NoFilter == [ageMin |-> NoBound, ageMax |-> NoBound]
NoRow == NoBound

TypeOK ==
  /\ IsDate(today) /\ days \in 0..MaxDays
  /\ birth \in [People -> Births]
  /\ pc \in {"idle", "select"}
  /\ IsDate(asOf) /\ filter \in Filters /\ Valid(filter)
  /\ rows \in [People -> Nat \cup {NoRow}]

Init ==
  /\ today \in FirstDays /\ days = 0
  /\ birth \in [People -> Births]
  /\ pc = "idle" /\ asOf = today /\ filter = NoFilter
  /\ rows = [p \in People |-> NoRow]

(* Midnight, UTC. *)
Tick ==
  /\ days < MaxDays /\ days' = days + 1
  /\ today' = NextDay(today)
  /\ UNCHANGED <<birth, pc, asOf, filter, rows>>

(* Registering again with the same e-mail overwrites the birth date. *)
Correct(p) ==
  /\ \E b \in Births : birth' = [birth EXCEPT ![p] = b]
  /\ UNCHANGED <<today, days, pc, asOf, filter, rows>>

(* Normalize refuses a bad range before anything is asked of the database. *)
Ask ==
  /\ pc = "idle"
  /\ \E f \in Filters : Valid(f) /\ filter' = f /\ pc' = "select" /\ asOf' = today
  /\ UNCHANGED <<today, days, birth, rows>>

(* Mutant: the ages shown are those of the day the answer is built. *)
AnswerWithTodaysAges ==
  LET q == Resolve(filter, asOf) IN
  /\ pc = "select" /\ pc' = "idle"
  /\ rows' = [p \in People |->
       IF Selects(q, birth[p]) THEN AgeAt(birth[p], today) ELSE NoRow]
  /\ UNCHANGED <<today, days, birth, asOf, filter>>

Answer ==
  LET q == Resolve(filter, asOf) IN
  /\ pc = "select" /\ pc' = "idle"
  /\ rows' = [p \in People |->
       IF Selects(q, birth[p]) THEN AgeAt(birth[p], asOf) ELSE NoRow]
  /\ UNCHANGED <<today, days, birth, asOf, filter>>

Next == Tick \/ (\E p \in People : Correct(p)) \/ Ask \/ Answer

Spec == Init /\ [][Next]_vars

-----------------------------------------------------------------------------
(* Every age on a page lies in the range the admin asked for, though midnight
   may pass while the query runs.  True of every day but the 29th of February
   (domain/filter.go:93-98, service/service.go:77-87). *)
ShownAgesInRange ==
  ~LeapDay(asOf) => \A p \in People : rows[p] # NoRow /\ pc = "idle" =>
                                        InRange(rows[p], filter)

(* The list names exactly the people whose age is in the range on the day of
   the request: none is left out either (domain/filter.go:91-98).  True of
   every day but the 29th of February. *)
AgeFilterExact ==
  [][pc = "select" /\ pc' = "idle" /\ ~LeapDay(asOf) => \A p \in People :
       rows'[p] # NoRow <=> InRange(AgeAt(birth[p], asOf), filter)]_vars

(* The same of every day, as domain/filter.go:93-98 says: "at least AgeMin"
   means those who are AgeMin years old by then. *)
AgeFilterExactAnyDay ==
  [][pc = "select" /\ pc' = "idle" => \A p \in People :
       rows'[p] # NoRow <=> InRange(AgeAt(birth[p], asOf), filter)]_vars

=============================================================================
