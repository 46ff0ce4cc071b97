---------------------------- MODULE ReportsProofs ----------------------------
(***************************************************************************)
(* Theorems about the reports of the admin panel.                          *)
(*                                                                         *)
(* 1. The calendar, and the age filter: exact for every set of people,     *)
(*    birth dates and ages, on every day but the 29th of February.         *)
(* 2. Paging: whoever pages to the end has seen everybody, for any people, *)
(*    surnames and sizes of page.                                          *)
(* 3. The window of one page, for any largest int.                         *)
(* 4. The figures of the panel reconcile, for any races, runners and rows. *)
(* 5. The chart has its days and adds up, for any clock and registrations. *)
(***************************************************************************)
EXTENDS MCReports, Sequences, FiniteSetTheorems, TLAPS

(* A month has 28 to 31 days, the same number every year but for February. *)
LEMMA MonthLength ==
  ASSUME NEW y \in Int, NEW m \in 1..12
  PROVE  /\ DaysIn(y, m) \in 28..31
         /\ \A z \in Int : m # 2 => DaysIn(z, m) = DaysIn(y, m)
BY DEF DaysIn

(* NextDay stays within the calendar and moves forward. *)
LEMMA NextDayForward ==
  ASSUME NEW d, IsDate(d)
  PROVE  IsDate(NextDay(d)) /\ Before(d, NextDay(d))
<1>1. d.year \in Int /\ d.month \in 1..12 /\ d.day \in 1..31
  BY DEF IsDate
<1>2. DaysIn(d.year, d.month) \in 28..31
  BY <1>1, MonthLength
<1>3. CASE d.day < DaysIn(d.year, d.month)
  BY <1>1, <1>2, <1>3 DEF IsDate, NextDay, Day, Before
<1>4. CASE ~(d.day < DaysIn(d.year, d.month)) /\ d.month < 12
  <2>1. DaysIn(d.year, d.month + 1) \in 28..31
    BY <1>1, <1>4, MonthLength
  <2> QED BY <1>1, <1>2, <1>4, <2>1 DEF IsDate, NextDay, Day, Before
<1>5. CASE ~(d.day < DaysIn(d.year, d.month)) /\ ~(d.month < 12)
  <2>1. DaysIn(d.year + 1, 1) \in 28..31
    BY <1>1, MonthLength
  <2> QED BY <1>1, <1>2, <1>5, <2>1 DEF IsDate, NextDay, Day, Before
<1> QED BY <1>3, <1>4, <1>5

(* No day lies between a day and the next. *)
LEMMA NextDayNext ==
  ASSUME NEW a, NEW b, IsDate(a), IsDate(b)
  PROVE  AtMost(NextDay(a), b) <=> Before(a, b)
<1>1. /\ a.year \in Int /\ a.month \in 1..12 /\ a.day \in 1..31
      /\ b.year \in Int /\ b.month \in 1..12 /\ b.day \in 1..31
      /\ b.day <= DaysIn(b.year, b.month)
  BY DEF IsDate
<1>2. DaysIn(a.year, a.month) \in 28..31
  BY <1>1, MonthLength
<1>3. a.year = b.year /\ a.month = b.month => b.day <= DaysIn(a.year, a.month)
  BY <1>1
<1>4. CASE a.day < DaysIn(a.year, a.month)
  BY <1>1, <1>2, <1>4 DEF NextDay, Day, Before, AtMost
<1>5. CASE ~(a.day < DaysIn(a.year, a.month)) /\ a.month < 12
  BY <1>1, <1>2, <1>3, <1>5 DEF NextDay, Day, Before, AtMost
<1>6. CASE ~(a.day < DaysIn(a.year, a.month)) /\ ~(a.month < 12)
  BY <1>1, <1>2, <1>3, <1>6 DEF NextDay, Day, Before, AtMost
<1> QED BY <1>4, <1>5, <1>6

(* A day that is no leap day exists in every year. *)
LEMMA SameDayOtherYear ==
  ASSUME NEW d, IsDate(d), ~LeapDay(d), NEW n \in Int
  PROVE  /\ AddYears(d, n) = Day(d.year + n, d.month, d.day)
         /\ IsDate(AddYears(d, n))
<1>1. d.year \in Int /\ d.month \in 1..12 /\ d.day \in 1..31
      /\ d.day <= DaysIn(d.year, d.month)
  BY DEF IsDate
<1>2. AddYears(d, n) = Day(d.year + n, d.month, d.day)
  BY DEF AddYears
<1>3. d.day <= DaysIn(d.year + n, d.month)
  <2>1. CASE d.month = 2
    BY <1>1, <2>1 DEF LeapDay, DaysIn
  <2>2. CASE d.month # 2
    <3>1. d.year + n \in Int
      BY <1>1
    <3>2. DaysIn(d.year + n, d.month) = DaysIn(d.year, d.month)
      BY <1>1, <2>2, <3>1, MonthLength
    <3> QED BY <1>1, <3>2
  <2> QED BY <2>1, <2>2
<1> QED BY <1>1, <1>2, <1>3 DEF IsDate, Day

(* The age of someone born by day at counts completed years. *)
LEMMA AgeOfTheBorn ==
  ASSUME NEW born, NEW at, IsDate(born), IsDate(at), AtMost(born, at)
  PROVE  /\ AgeAt(born, at) \in Nat
         /\ \A n \in Nat : n <= AgeAt(born, at) <=>
              AtMost(born, Day(at.year - n, at.month, at.day))
<1>1. /\ born.year \in Int /\ born.month \in 1..12 /\ born.day \in 1..31
      /\ at.year \in Int /\ at.month \in 1..12 /\ at.day \in 1..31
  BY DEF IsDate
<1> QED BY <1>1 DEF AgeAt, AtMost, Before, Day

(* The birth date bounds that Resolve computes select exactly the people
   whose age is in the range (domain/filter.go:91-120). *)
THEOREM ResolveIsExact ==
  ASSUME NEW f \in AgeFilter, Valid(f),
         NEW day, IsDate(day), ~LeapDay(day),
         NEW b, IsDate(b), AtMost(b, day)
  PROVE  Selects(Resolve(f, day), b) <=> InRange(AgeAt(b, day), f)
<1> DEFINE age == AgeAt(b, day)
           q   == Resolve(f, day)
<1>1. age \in Nat
  BY AgeOfTheBorn
<1>2. f.ageMin # NoBound => f.ageMin \in Nat
  BY DEF AgeFilter, Valid
<1>3. f.ageMax # NoBound => f.ageMax \in Nat
  BY DEF AgeFilter, Valid
<1>4. day.year \in Int
  BY DEF IsDate
<1>5. (q.birthTo # NoBound => AtMost(b, q.birthTo))
      <=> (f.ageMin # NoBound => f.ageMin <= age)
  <2>1. CASE f.ageMin = NoBound
    BY <2>1 DEF Resolve
  <2>2. CASE f.ageMin # NoBound
    <3>1. -f.ageMin \in Int
      BY <1>2, <2>2
    <3>2. /\ q.birthTo = AddYears(day, -f.ageMin)
          /\ IsDate(q.birthTo)
          /\ q.birthTo = Day(day.year - f.ageMin, day.month, day.day)
      BY <1>2, <1>4, <2>2, <3>1, SameDayOtherYear DEF Resolve
    <3>3. q.birthTo # NoBound
      BY <3>2, NoBoundAssumption
    <3> QED BY <1>2, <2>2, <3>2, <3>3, AgeOfTheBorn
  <2> QED BY <2>1, <2>2
<1>6. (q.birthFrom # NoBound => AtMost(q.birthFrom, b))
      <=> (f.ageMax # NoBound => age <= f.ageMax)
  <2>1. CASE f.ageMax = NoBound
    BY <2>1 DEF Resolve
  <2>2. CASE f.ageMax # NoBound
    <3> DEFINE n == f.ageMax + 1
               d == AddYears(day, -n)
    <3>1. n \in Nat /\ -n \in Int
      BY <1>3, <2>2
    <3>2. d = Day(day.year - n, day.month, day.day) /\ IsDate(d)
      BY <1>4, <3>1, SameDayOtherYear
    <3>3. q.birthFrom = NextDay(d) /\ q.birthFrom # NoBound
      BY <2>2, <3>2, NextDayForward, NoBoundAssumption DEF Resolve
    <3>4. AtMost(q.birthFrom, b) <=> ~AtMost(b, d)
      BY <3>2, <3>3, NextDayNext DEF AtMost
    <3>5. n <= age <=> AtMost(b, d)
      BY <3>1, <3>2, AgeOfTheBorn
    <3>6. age <= f.ageMax <=> ~(n <= age)
      BY <1>1, <1>3, <2>2
    <3> QED BY <2>2, <3>3, <3>4, <3>5, <3>6
  <2> QED BY <2>1, <2>2
<1> QED BY <1>5, <1>6 DEF Selects, InRange

-----------------------------------------------------------------------------
(* Everybody is born before any day the report takes from the clock. *)
BornBefore(d) == IsDate(d) /\ \A b \in Births : IsDate(b) /\ AtMost(b, d)

AgeInv == TypeOK /\ BornBefore(today) /\ BornBefore(asOf)

LEMMA BornBeforeTomorrow ==
  ASSUME NEW d, BornBefore(d)
  PROVE  BornBefore(NextDay(d))
<1>1. IsDate(d) /\ IsDate(NextDay(d)) /\ Before(d, NextDay(d))
  BY NextDayForward DEF BornBefore
<1>2. ASSUME NEW b \in Births
      PROVE  IsDate(b) /\ AtMost(b, NextDay(d))
  <2>1. IsDate(b) /\ AtMost(b, d)
    BY DEF BornBefore
  <2> QED BY <1>1, <2>1 DEF IsDate, AtMost, Before
<1> QED BY <1>1, <1>2 DEF BornBefore

LEMMA AgeInvInit == Init => AgeInv
<1> SUFFICES ASSUME Init PROVE AgeInv
  OBVIOUS
<1>1. today \in FirstDays /\ asOf = today
  BY DEF Init
<1>2. BornBefore(today)
  <2>1. IsDate(today)
    BY <1>1, AgeReportAssumption
  <2>2. ASSUME NEW b \in Births
        PROVE  IsDate(b) /\ AtMost(b, today)
    <3>1. IsDate(b) /\ Before(b, today)
      BY <1>1, AgeReportAssumption
    <3> QED BY <2>1, <3>1 DEF IsDate, AtMost, Before
  <2> QED BY <2>1, <2>2 DEF BornBefore
<1>3. TypeOK
  <2>1. filter \in Filters /\ Valid(filter)
    BY DEF Init, NoFilter, Filters, Valid
  <2>2. days \in 0..MaxDays
    BY AgeReportAssumption DEF Init
  <2> QED BY <1>1, <1>2, <2>1, <2>2 DEF Init, TypeOK, BornBefore, NoRow
<1> QED BY <1>1, <1>2, <1>3 DEF AgeInv

(* The rows of a report are ages. *)
LEMMA AnswerShowsAges ==
  ASSUME AgeInv, NEW p \in People
  PROVE  /\ AgeAt(birth[p], asOf) \in Nat
         /\ AgeAt(birth[p], asOf) # NoRow
         /\ IsDate(birth[p]) /\ AtMost(birth[p], asOf)
         /\ filter \in AgeFilter /\ Valid(filter)
<1>1. birth[p] \in Births
  BY DEF AgeInv, TypeOK
<1>2. IsDate(birth[p]) /\ AtMost(birth[p], asOf) /\ IsDate(asOf)
  BY <1>1 DEF AgeInv, BornBefore
<1>3. filter \in AgeFilter /\ Valid(filter)
  BY AgeReportAssumption DEF AgeInv, TypeOK, Filters, AgeFilter
<1> QED BY <1>2, <1>3, AgeOfTheBorn, NoBoundAssumption DEF NoRow

LEMMA AgeInvStep == AgeInv /\ [Next]_vars => AgeInv'
<1> SUFFICES ASSUME AgeInv, [Next]_vars PROVE AgeInv'
  OBVIOUS
<1>1. CASE Tick
  <2>1. BornBefore(today')
    BY <1>1, BornBeforeTomorrow DEF AgeInv, Tick
  <2>2. days' \in 0..MaxDays
    BY <1>1, AgeReportAssumption DEF Tick, AgeInv, TypeOK
  <2> QED BY <1>1, <2>1, <2>2 DEF Tick, AgeInv, TypeOK, BornBefore
<1>2. ASSUME NEW p \in People, Correct(p) PROVE AgeInv'
  BY <1>2 DEF Correct, AgeInv, TypeOK, BornBefore
<1>3. CASE Ask
  BY <1>3 DEF Ask, AgeInv, TypeOK, BornBefore
<1>4. CASE Answer
  <2>1. rows' \in [People -> Nat \cup {NoRow}]
    BY <1>4, AnswerShowsAges DEF Answer
  <2> QED BY <1>4, <2>1 DEF Answer, AgeInv, TypeOK, BornBefore
<1>5. CASE UNCHANGED vars
  BY <1>5 DEF vars, AgeInv, TypeOK, BornBefore
<1> QED BY <1>1, <1>2, <1>3, <1>4, <1>5 DEF Next

(* The report's variables keep their types, and a range that Normalize
   refuses never reaches the database. *)
THEOREM AgeReportTypes == Spec => []TypeOK
<1>1. AgeInv => TypeOK
  BY DEF AgeInv
<1> QED BY <1>1, AgeInvInit, AgeInvStep, PTL DEF Spec

(* The list names exactly the people whose age is in the range. *)
THEOREM AgeFilterIsExact == Spec => AgeFilterExact
<1>1. ASSUME AgeInv, [Next]_vars, pc = "select", pc' = "idle", ~LeapDay(asOf),
             NEW p \in People
      PROVE  rows'[p] # NoRow <=> InRange(AgeAt(birth[p], asOf), filter)
  <2>1. Answer
    BY <1>1 DEF Next, Tick, Correct, Ask, vars
  <2>2. rows'[p] # NoRow <=> Selects(Resolve(filter, asOf), birth[p])
    BY <1>1, <2>1, AnswerShowsAges DEF Answer
  <2>3. IsDate(asOf)
    BY <1>1 DEF AgeInv, TypeOK
  <2> QED BY <1>1, <2>2, <2>3, AnswerShowsAges, ResolveIsExact
<1>2. AgeInv /\ [Next]_vars =>
        [pc = "select" /\ pc' = "idle" /\ ~LeapDay(asOf) => \A p \in People :
           rows'[p] # NoRow <=> InRange(AgeAt(birth[p], asOf), filter)]_vars
  BY <1>1
<1> QED BY <1>2, AgeInvInit, AgeInvStep, PTL DEF Spec, AgeFilterExact

(* Every age on a page lies in the range that was asked for. *)
THEOREM ShownAgesAreInRange == Spec => []ShownAgesInRange
<1>1. Init => ShownAgesInRange
  BY DEF Init, ShownAgesInRange
<1>2. AgeInv /\ ShownAgesInRange /\ [Next]_vars => ShownAgesInRange'
  <2> SUFFICES ASSUME AgeInv, ShownAgesInRange, [Next]_vars,
                      ~LeapDay(asOf'), NEW p \in People,
                      rows'[p] # NoRow, pc' = "idle"
               PROVE  InRange(rows'[p], filter')
    BY DEF ShownAgesInRange
  <2>1. CASE Answer
    <3>1. /\ filter' = filter /\ asOf' = asOf
          /\ rows'[p] = AgeAt(birth[p], asOf)
          /\ Selects(Resolve(filter, asOf), birth[p])
      BY <2>1 DEF Answer
    <3>2. IsDate(asOf)
      BY DEF AgeInv, TypeOK
    <3> QED BY <3>1, <3>2, AnswerShowsAges, ResolveIsExact
  <2>2. CASE ~Answer
    <3>1. /\ pc = "idle" /\ rows' = rows /\ filter' = filter /\ asOf' = asOf
      BY <2>2 DEF Next, Tick, Correct, Ask, vars
    <3> QED BY <3>1 DEF ShownAgesInRange
  <2> QED BY <2>1, <2>2
<1> QED BY <1>1, <1>2, AgeInvInit, AgeInvStep, PTL DEF Spec

-----------------------------------------------------------------------------
(* The list under the surnames nm: who is on it, who comes before whom, at    *)
(* which place from zero, and whom a panel that has seen the first off places *)
(* has missed.                                                                *)
Names       == [Pagers -> Surnames \cup {NoName}]
OnList(nm)  == {p \in Pagers : nm[p] # NoName}
Precedes(nm, p, q) == nm[p] < nm[q] \/ (nm[p] = nm[q] /\ p < q)
Ahead(nm, p) == {q \in OnList(nm) : Precedes(nm, q, p)}
Rank(nm, p)  == Cardinality(Ahead(nm, p))
Missed(nm, sh, th, off) == {p \in th : sh[p] = 0 /\ Rank(nm, p) < off}

LEMMA PagingConstants ==
  /\ Pagers \subseteq Nat /\ IsFiniteSet(Pagers)
  /\ Surnames \subseteq Nat /\ NoName \notin Surnames
  /\ MaxRenames \in Nat /\ PageSizes \subseteq Int
  /\ MaxPageSize \in Nat \ {0} /\ DefaultPageSize \in 1..MaxPageSize
<1>1. Paging!IsFiniteSet(Pagers) => IsFiniteSet(Pagers)
  BY DEF Paging!IsFiniteSet, IsFiniteSet
<1> QED BY <1>1, ReportsAssumption DEF Paging!ConstantsAssumption

(* The rows of the list have numbers for surnames, and sets of them are finite. *)
LEMMA OnListFacts ==
  ASSUME NEW nm \in Names
  PROVE  /\ IsFiniteSet(OnList(nm)) /\ Cardinality(OnList(nm)) \in Nat
         /\ \A p \in OnList(nm) : p \in Nat /\ p \in Pagers /\ nm[p] \in Nat
<1>1. IsFiniteSet(OnList(nm))
  BY PagingConstants, FS_Subset DEF OnList
<1>2. ASSUME NEW p \in OnList(nm) PROVE p \in Nat /\ p \in Pagers /\ nm[p] \in Nat
  BY PagingConstants DEF OnList, Names
<1> QED BY <1>1, <1>2, FS_CardinalityType

(* A part of a finite set. *)
LEMMA Fewer ==
  ASSUME NEW S, IsFiniteSet(S), NEW T \in SUBSET S
  PROVE  /\ IsFiniteSet(T) /\ Cardinality(T) \in Nat /\ Cardinality(S) \in Nat
         /\ Cardinality(T) <= Cardinality(S)
BY FS_Subset, FS_CardinalityType

LEMMA RankType ==
  ASSUME NEW nm \in Names, NEW p
  PROVE  /\ IsFiniteSet(Ahead(nm, p)) /\ Rank(nm, p) \in Nat
         /\ Rank(nm, p) <= Cardinality(OnList(nm))
<1>1. Ahead(nm, p) \subseteq OnList(nm)
  BY DEF Ahead
<1> QED BY <1>1, OnListFacts, FS_Subset, FS_CardinalityType DEF Rank

(* Whoever comes later has a higher place: no two people share one. *)
LEMMA RankOrder ==
  ASSUME NEW nm \in Names, NEW p \in OnList(nm), NEW q \in OnList(nm)
  PROVE  /\ Precedes(nm, p, q) => Rank(nm, p) < Rank(nm, q)
         /\ p # q => Rank(nm, p) # Rank(nm, q)
<1>1. ASSUME NEW a \in OnList(nm), NEW b \in OnList(nm), Precedes(nm, a, b)
      PROVE  Rank(nm, a) < Rank(nm, b)
  <2>1. a \notin Ahead(nm, a)
    BY OnListFacts DEF Ahead, Precedes
  <2>2. Ahead(nm, a) \cup {a} \subseteq Ahead(nm, b)
    BY <1>1, OnListFacts DEF Ahead, Precedes
  <2>3. Cardinality(Ahead(nm, a) \cup {a}) = Rank(nm, a) + 1
    BY <2>1, RankType, FS_AddElement DEF Rank
  <2>4. Cardinality(Ahead(nm, a) \cup {a}) <= Rank(nm, b)
    BY <2>2, RankType, FS_Subset DEF Rank
  <2> QED BY <2>3, <2>4, RankType
<1>2. p # q => Precedes(nm, p, q) \/ Precedes(nm, q, p)
  BY OnListFacts DEF Precedes
<1> QED BY <1>1, <1>2, RankType

(* The list once x has registered, for the first time or again. *)
Renamed(nm, x, after) == \E s \in Surnames : after = [nm EXCEPT ![x] = s]

(* A new row puts nobody on an earlier place. *)
LEMMA RankAfterInsert ==
  ASSUME NEW nm \in Names, NEW x \in Pagers, nm[x] = NoName, NEW after,
         Renamed(nm, x, after), NEW p \in OnList(nm)
  PROVE  p \in OnList(after) /\ Rank(nm, p) <= Rank(after, p)
<1>1. after \in Names /\ p # x
  BY DEF Names, OnList, Renamed
<1>2. p \in OnList(after)
  BY <1>1, PagingConstants DEF Names, OnList, Renamed
<1>3. Ahead(nm, p) \subseteq Ahead(after, p)
  BY <1>1, PagingConstants DEF Ahead, OnList, Names, Precedes, Renamed
<1> QED BY <1>1, <1>2, <1>3, RankType, Fewer DEF Rank

(* When one person changes surname, another moves by one place at most, and
   only if that person was ahead of them. *)
LEMMA RankAfterRename ==
  ASSUME NEW nm \in Names, NEW x \in OnList(nm), NEW after,
         Renamed(nm, x, after), NEW p \in OnList(nm), p # x
  PROVE  Rank(nm, p) <= Rank(after, p)
         \/ (Precedes(nm, x, p) /\ Rank(nm, p) = Rank(after, p) + 1)
<1>1. after \in Names /\ x \in Pagers
  BY DEF Names, OnList, Renamed
<1>2. OnList(after) = OnList(nm)
  BY PagingConstants DEF Names, OnList, Renamed
<1>3. Ahead(nm, p) \ {x} \subseteq Ahead(after, p)
  BY <1>1, <1>2 DEF Ahead, OnList, Names, Precedes, Renamed
<1>4. IsFiniteSet(Ahead(nm, p)) /\ IsFiniteSet(Ahead(after, p))
  BY <1>1, RankType
<1>5. Rank(nm, p) \in Nat /\ Rank(after, p) \in Nat
  BY <1>1, RankType
<1>6. Cardinality(Ahead(nm, p) \ {x}) <= Rank(after, p)
  BY <1>3, <1>4, Fewer DEF Rank
<1>7. CASE x \notin Ahead(nm, p)
  <2>1. Ahead(nm, p) \ {x} = Ahead(nm, p)
    BY <1>7
  <2> QED BY <1>6, <2>1 DEF Rank
<1>8. CASE x \in Ahead(nm, p)
  <2>1. Cardinality(Ahead(nm, p) \ {x}) = Rank(nm, p) - 1
    BY <1>4, <1>8, FS_RemoveElement DEF Rank
  <2>2. Precedes(nm, x, p)
    BY <1>8 DEF Ahead
  <2> QED BY <1>5, <1>6, <2>1, <2>2
<1> QED BY <1>7, <1>8

(* One change of surname hides one person at most. *)
LEMMA RenameHidesOne ==
  ASSUME NEW nm \in Names, NEW x \in OnList(nm), NEW after,
         Renamed(nm, x, after),
         NEW sh, NEW th \in SUBSET OnList(nm), NEW off \in Int
  PROVE  Cardinality(Missed(after, sh, th, off))
           <= Cardinality(Missed(nm, sh, th, off)) + 1
<1> DEFINE new == Missed(after, sh, th, off) \ Missed(nm, sh, th, off)
<1>1. after \in Names
  BY DEF Names, OnList, Renamed
<1>2. \A p : Rank(nm, p) \in Nat /\ Rank(after, p) \in Nat
  BY <1>1, RankType
<1>3. ASSUME NEW p \in new
      PROVE  /\ p \in OnList(nm) /\ off <= Rank(nm, p)
             /\ p # x => Precedes(nm, x, p) /\ Rank(nm, p) = off
  <2>1. p \in OnList(nm) /\ Rank(after, p) < off /\ ~(Rank(nm, p) < off)
    BY <1>3 DEF Missed
  <2>2. PICK r \in Nat : r = Rank(nm, p)
    BY <1>2
  <2>3. PICK t \in Nat : t = Rank(after, p)
    BY <1>2
  <2>4. t < off /\ off <= r
    BY <2>1, <2>2, <2>3
  <2>5. p # x => r <= t \/ (Precedes(nm, x, p) /\ r = t + 1)
    BY <2>1, <2>2, <2>3, RankAfterRename
  <2> QED BY <2>1, <2>2, <2>4, <2>5
<1>4. ASSUME NEW p \in new, NEW q \in new, p # x PROVE p = q
  <2>1. /\ p \in OnList(nm) /\ Precedes(nm, x, p) /\ Rank(nm, p) = off
        /\ q \in OnList(nm) /\ off <= Rank(nm, q)
        /\ q # x => Rank(nm, q) = off
    BY <1>3, <1>4
  <2>2. Rank(nm, x) < Rank(nm, p)
    BY <2>1, RankOrder
  <2>3. q # x
    BY <1>2, <2>1, <2>2
  <2> QED BY <2>1, <2>3, RankOrder
<1>5. \E y : new \subseteq {y}
  <2>1. CASE new \subseteq {x}
    BY <2>1
  <2>2. CASE ~(new \subseteq {x})
    <3>1. PICK p \in new : p # x
      BY <2>2
    <3>2. \A q \in new : p = q
      BY <1>4, <3>1
    <3>3. \A q \in new : q \in {p}
      BY <3>2
    <3> QED BY <3>3
  <2> QED BY <2>1, <2>2
<1>6. PICK y : new \subseteq {y}
  BY <1>5
<1>7. IsFiniteSet(Missed(nm, sh, th, off))
  BY OnListFacts, Fewer DEF Missed
<1>8. Missed(after, sh, th, off) \subseteq Missed(nm, sh, th, off) \cup {y}
  BY <1>6
<1>9. Cardinality(Missed(nm, sh, th, off)) \in Nat
  BY <1>7, FS_CardinalityType
<1>10. /\ IsFiniteSet(Missed(nm, sh, th, off) \cup {y})
       /\ Cardinality(Missed(nm, sh, th, off) \cup {y})
            <= Cardinality(Missed(nm, sh, th, off)) + 1
  BY <1>7, <1>9, FS_AddElement
<1>11. /\ Cardinality(Missed(after, sh, th, off)) \in Nat
       /\ Cardinality(Missed(nm, sh, th, off) \cup {y}) \in Nat
       /\ Cardinality(Missed(after, sh, th, off))
            <= Cardinality(Missed(nm, sh, th, off) \cup {y})
  BY <1>8, <1>10, Fewer
<1> QED BY <1>9, <1>10, <1>11

-----------------------------------------------------------------------------
(* A sequence without repetitions of everybody on the list, each before those
   whom ORDER BY puts after them. *)
SortedList(nm, o) ==
  /\ o \in Injection(1..Cardinality(OnList(nm)), OnList(nm))
  /\ \A i, j \in 1..Cardinality(OnList(nm)) : i < j => ~Precedes(nm, o[j], o[i])

(* What a SELECT returns lists everybody once, at their places. *)
LEMMA RankInOrder ==
  ASSUME NEW nm \in Names, NEW o, SortedList(nm, o)
  PROVE  /\ \A p \in OnList(nm) : \E i \in 1..Cardinality(OnList(nm)) : p = o[i]
         /\ \A i \in 1..Cardinality(OnList(nm)) :
              o[i] \in OnList(nm) /\ Rank(nm, o[i]) = i - 1
<1> DEFINE n == Cardinality(OnList(nm))
<1>1. n \in Nat /\ IsFiniteSet(OnList(nm))
  BY OnListFacts
<1>2. o \in [1..n -> OnList(nm)] /\ \A i, j \in 1..n : i # j => o[i] # o[j]
  BY DEF SortedList, Injection, IsInjective
<1>3. IsFiniteSet(1..n) /\ Cardinality(1..n) = n
  BY <1>1, FS_Interval
<1>4. o \in Surjection(1..n, OnList(nm))
  BY <1>1, <1>3, FS_Injection DEF SortedList
<1>5. \A p \in OnList(nm) : \E i \in 1..n : p = o[i]
  BY <1>4 DEF Surjection
<1>6. ASSUME NEW i \in 1..n, NEW j \in 1..n
      PROVE  o[j] \in Ahead(nm, o[i]) <=> j < i
  <2>1. o[i] \in OnList(nm) /\ o[j] \in OnList(nm)
    BY <1>2
  <2>2. CASE j < i
    <3>1. o[i] # o[j] /\ ~Precedes(nm, o[i], o[j])
      BY <1>1, <1>2, <2>2 DEF SortedList
    <3>2. Precedes(nm, o[j], o[i])
      BY <2>1, <3>1, OnListFacts DEF Precedes
    <3> QED BY <2>1, <2>2, <3>2 DEF Ahead
  <2>3. CASE i < j
    BY <1>1, <2>3 DEF SortedList, Ahead
  <2>4. CASE i = j
    BY <2>1, <2>4, OnListFacts DEF Ahead, Precedes
  <2> QED BY <1>1, <2>2, <2>3, <2>4
<1>7. ASSUME NEW i \in 1..n
      PROVE  o[i] \in OnList(nm) /\ Rank(nm, o[i]) = i - 1
  <2> DEFINE f == [j \in 1..(i - 1) |-> o[j]]
  <2>1. i \in Nat /\ i - 1 \in Nat /\ \A j \in 1..(i - 1) : j \in 1..n /\ j < i
    BY <1>1
  <2>2. f \in [1..(i - 1) -> Ahead(nm, o[i])]
    BY <1>6, <2>1
  <2>3. f \in Injection(1..(i - 1), Ahead(nm, o[i]))
    BY <1>2, <2>1, <2>2 DEF Injection, IsInjective
  <2>4. ASSUME NEW p \in Ahead(nm, o[i]) PROVE \E j \in 1..(i - 1) : f[j] = p
    <3>1. PICK j \in 1..n : p = o[j]
      BY <1>5 DEF Ahead
    <3>2. j < i
      BY <1>6, <3>1
    <3> QED BY <1>1, <2>1, <3>1, <3>2
  <2>5. f \in Surjection(1..(i - 1), Ahead(nm, o[i]))
    BY <2>2, <2>4 DEF Surjection
  <2>6. ExistsBijection(1..(i - 1), Ahead(nm, o[i]))
    BY <2>3, <2>5 DEF ExistsBijection, Bijection
  <2> QED BY <1>2, <2>1, <2>6, FS_CountingElements DEF Rank
<1> QED BY <1>5, <1>7

-----------------------------------------------------------------------------
LEMMA PagingOperators ==
  /\ Paging!Listed = OnList(name)
  /\ \A S : Paging!Cardinality(S) = Cardinality(S)
  /\ \A p, q : Paging!ComesBefore(p, q) <=> Precedes(name, p, q)
BY DEF Paging!Listed, OnList, Paging!Cardinality, Cardinality,
       Paging!ComesBefore, Precedes

(* The rows from one place to another of a sequence. *)
Sequence(o, n, S) == o \in [1..n -> S]
HasRows(it, o, from, to) ==
  \A x : x \in Paging!ToSet(it) <=> \E i \in from..to : x = o[i]

LEMMA RowsOfPage ==
  ASSUME NEW S, NEW n \in Nat, NEW o, Sequence(o, n, S),
         NEW from \in Nat, NEW to \in Nat, from <= to, to <= n,
         NEW it, it = SubSeq(o, from + 1, to)
  PROVE  Len(it) = to - from /\ HasRows(it, o, from + 1, to)
<1>1. it = [k \in 1..(to - from) |-> o[from + k]] /\ Len(it) = to - from
  BY DEF Sequence
<1>2. DOMAIN it = 1..(to - from) /\ \A k \in 1..(to - from) : it[k] = o[from + k]
  BY <1>1
<1>3. ASSUME NEW i \in (from + 1)..to PROVE o[i] \in Paging!ToSet(it)
  <2>1. i - from \in 1..(to - from) /\ from + (i - from) = i
    OBVIOUS
  <2>2. it[i - from] = o[i]
    BY <1>2, <2>1
  <2> QED BY <1>2, <2>1, <2>2 DEF Paging!ToSet
<1>4. ASSUME NEW k \in 1..(to - from)
      PROVE  \E i \in (from + 1)..to : it[k] = o[i]
  <2>1. from + k \in (from + 1)..to
    OBVIOUS
  <2> QED BY <1>2, <2>1
<1>5. \A x \in Paging!ToSet(it) : \E i \in (from + 1)..to : x = o[i]
  BY <1>2, <1>4 DEF Paging!ToSet
<1> QED BY <1>1, <1>3, <1>5 DEF HasRows

LEMMA NextOffset == \A p, s \in Int : (p + 1 - 1) * s = (p - 1) * s + s
OBVIOUS

LEMMA OrdersSorted ==
  ASSUME name \in Names, NEW o \in Paging!Orders
  PROVE  SortedList(name, o) /\ Len(o) = Cardinality(OnList(name))
<1>1. Cardinality(OnList(name)) \in Nat
  BY OnListFacts
<1>2. o \in Paging!SetToSeqs(OnList(name))
  BY PagingOperators DEF Paging!Orders
<1>3. /\ o \in [1..Cardinality(OnList(name)) -> OnList(name)]
      /\ \A i, j \in 1..Cardinality(OnList(name)) : i # j => o[i] # o[j]
  BY <1>2, PagingOperators DEF Paging!SetToSeqs
<1>4. \A i, j \in 1..Cardinality(OnList(name)) : i < j => ~Precedes(name, o[j], o[i])
  BY <1>3, PagingOperators DEF Paging!Orders
<1> QED BY <1>1, <1>3, <1>4 DEF SortedList, Injection, IsInjective

LEMMA FirstOffset == \A s \in Int : (1 - 1) * s = 0
OBVIOUS

-----------------------------------------------------------------------------
Length == Cardinality(OnList(name))
Unseen == {p \in there : shown[p] = 0}
AtRest == ~joined /\ renames = 0

(* Between pages the panel has missed, of those on the pages behind it, no
   more people than changed surname; at rest it has shown exactly them. *)
PagingTypes ==
  /\ name \in Names /\ pagingPc \in {"idle", "count", "select", "done"}
  /\ page \in Nat /\ limit \in Nat \ {0} /\ total \in Nat
  /\ shown \in [Pagers -> Nat] /\ there \subseteq OnList(name)
  /\ joined \in BOOLEAN /\ renames \in Nat

MissedSoFar ==
  pagingPc \in {"count", "select"} =>
    /\ Paging!Offset \in Nat /\ Paging!Offset <= Length
    /\ Cardinality(Missed(name, shown, there, Paging!Offset)) <= renames

ShownSoFar ==
  pagingPc \in {"count", "select"} /\ AtRest =>
    /\ there = OnList(name)
    /\ \A p \in Pagers :
         shown[p] = IF p \in there /\ Rank(name, p) < Paging!Offset THEN 1 ELSE 0

TotalSoFar ==
  /\ total <= Length
  /\ pagingPc \in {"select", "done"} /\ AtRest => total = Length

AllShown ==
  pagingPc = "done" =>
    /\ Cardinality(Unseen) <= renames
    /\ AtRest => /\ Paging!Offset + Len(items) = Length
                 /\ \A p \in Pagers : shown[p] = IF p \in there THEN 1 ELSE 0

PagingInv ==
  PagingTypes /\ MissedSoFar /\ ShownSoFar /\ TotalSoFar /\ AllShown

LEMMA PagingInvImplies == PagingInv => Paging!PagerShowsAll
<1> SUFFICES ASSUME PagingInv PROVE Paging!PagerShowsAll
  OBVIOUS
<1>1. Paging!MissedOnlyByRenames
  BY PagingOperators DEF PagingInv, AllShown, Unseen, Paging!MissedOnlyByRenames
<1>2. Paging!ExactlyOnceAtRest
  BY DEF PagingInv, AllShown, AtRest, Paging!ExactlyOnceAtRest
<1>3. Paging!TotalNeverAhead
  BY PagingOperators
  DEF PagingInv, TotalSoFar, AllShown, AtRest, Length, Paging!TotalNeverAhead
<1> QED BY <1>1, <1>2, <1>3 DEF Paging!PagerShowsAll

LEMMA PagingInitial == Paging!Init => PagingInv
<1> SUFFICES ASSUME Paging!Init PROVE PagingInv
  OBVIOUS
<1>1. PagingTypes
  <2>1. limit \in Nat \ {0} /\ page \in Nat /\ total \in Nat /\ renames \in Nat
    BY DEF Paging!Init
  <2>2. joined \in BOOLEAN
    BY DEF Paging!Init
  <2>3. shown \in [Pagers -> Nat] /\ there \subseteq OnList(name)
    BY DEF Paging!Init
  <2> QED BY <2>1, <2>2, <2>3 DEF Paging!Init, PagingTypes, Names
<1>2. Length \in Nat
  BY <1>1, OnListFacts DEF PagingTypes, Length
<1>3. pagingPc = "idle" /\ total = 0
  BY DEF Paging!Init
<1> QED BY <1>1, <1>2, <1>3
        DEF PagingInv, MissedSoFar, ShownSoFar, TotalSoFar, AllShown

LEMMA OpenKeeps == PagingInv /\ Paging!Open => PagingInv'
<1> SUFFICES ASSUME PagingInv, Paging!Open PROVE PagingInv'
  OBVIOUS
<1>1. /\ pagingPc' = "count" /\ page' = 1 /\ name' = name /\ total' = total
      /\ there' = OnList(name) /\ joined' = FALSE /\ renames' = 0
      /\ shown' = [p \in Pagers |-> 0]
  BY PagingOperators DEF Paging!Open
<1>2. limit' \in Nat \ {0}
  BY PagingConstants DEF Paging!Open, Paging!NormalSize
<1>3. Paging!Offset' = 0
  <2>1. PICK s \in Int : s = limit'
    BY <1>2
  <2>2. (1 - 1) * s = 0
    BY FirstOffset
  <2>3. Paging!Offset' = (1 - 1) * s
    BY <1>1, <2>1 DEF Paging!Offset
  <2> QED BY <2>2, <2>3
<1>4. name \in Names /\ Length \in Nat /\ Length' = Length
  BY <1>1, OnListFacts DEF PagingInv, PagingTypes, Length
<1>5. PagingTypes'
  BY <1>1, <1>2 DEF PagingInv, PagingTypes
<1>6. \A p : ~(Rank(name, p) < 0)
  BY <1>4, RankType
<1>7. Missed(name, shown', there', 0) = {}
  BY <1>6 DEF Missed
<1>8. MissedSoFar'
  BY <1>1, <1>3, <1>4, <1>7, FS_EmptySet DEF MissedSoFar
<1>9. ShownSoFar'
  BY <1>1, <1>3, <1>6 DEF ShownSoFar
<1> QED BY <1>1, <1>4, <1>5, <1>8, <1>9 DEF PagingInv, TotalSoFar, AllShown

LEMMA CountKeeps == PagingInv /\ Paging!Count => PagingInv'
<1> SUFFICES ASSUME PagingInv, Paging!Count PROVE PagingInv'
  OBVIOUS
<1>1. /\ pagingPc = "count" /\ pagingPc' = "select" /\ total' = Length
      /\ name' = name /\ page' = page /\ limit' = limit /\ shown' = shown
      /\ there' = there /\ joined' = joined /\ renames' = renames
  BY PagingOperators DEF Paging!Count, Paging!history, Length
<1>2. name \in Names /\ Length \in Nat /\ Length' = Length
  BY <1>1, OnListFacts DEF PagingInv, PagingTypes, Length
<1>3. Paging!Offset' = Paging!Offset /\ (AtRest' <=> AtRest)
  BY <1>1 DEF Paging!Offset, AtRest
<1>4. PagingTypes'
  BY <1>1, <1>2 DEF PagingInv, PagingTypes
<1>5. MissedSoFar'
  BY <1>1, <1>2, <1>3 DEF PagingInv, MissedSoFar
<1>6. ShownSoFar'
  BY <1>1, <1>3 DEF PagingInv, ShownSoFar
<1> QED BY <1>1, <1>2, <1>4, <1>5, <1>6 DEF PagingInv, TotalSoFar, AllShown

(* Somebody registers who was not on the list. *)
LEMMA InsertKeeps ==
  ASSUME PagingInv, NEW x \in Pagers, name[x] = NoName,
         Renamed(name, x, name'), joined' = TRUE, renames' = renames,
         pagingPc' = pagingPc, page' = page, limit' = limit, total' = total,
         items' = items, shown' = shown, there' = there
  PROVE  PagingInv'
<1>1. name \in Names /\ name' \in Names
  BY DEF PagingInv, PagingTypes, Renamed, Names
<1>2. OnList(name) \subseteq OnList(name')
  BY <1>1, RankAfterInsert
<1>3. Length \in Nat /\ Length' \in Nat /\ Length <= Length'
  BY <1>1, <1>2, OnListFacts, Fewer DEF Length
<1>4. Paging!Offset' = Paging!Offset /\ Unseen' = Unseen /\ ~AtRest'
  BY DEF Paging!Offset, Unseen, AtRest
<1>5. PagingTypes'
  <2>1. there' \subseteq OnList(name') /\ joined' \in BOOLEAN
    BY <1>2 DEF PagingInv, PagingTypes
  <2> QED BY <1>1, <2>1 DEF PagingInv, PagingTypes
<1>6. MissedSoFar'
  <2> SUFFICES ASSUME pagingPc \in {"count", "select"} PROVE MissedSoFar'
    BY DEF MissedSoFar
  <2>1. PICK off \in Nat : off = Paging!Offset
    BY DEF PagingInv, MissedSoFar
  <2>2. \A p \in there : p \in OnList(name) /\ Rank(name, p) <= Rank(name', p)
    BY <1>1, RankAfterInsert DEF PagingInv, PagingTypes
  <2>3. \A p : Rank(name, p) \in Nat /\ Rank(name', p) \in Nat
    BY <1>1, RankType
  <2>4. Missed(name', shown, there, off) \subseteq Missed(name, shown, there, off)
    BY <2>2, <2>3 DEF Missed
  <2>5. IsFiniteSet(Missed(name, shown, there, off))
    BY <1>1, OnListFacts, Fewer DEF Missed, PagingInv, PagingTypes
  <2>6. /\ Cardinality(Missed(name', shown, there, off)) \in Nat
        /\ Cardinality(Missed(name, shown, there, off)) \in Nat
        /\ Cardinality(Missed(name', shown, there, off))
             <= Cardinality(Missed(name, shown, there, off))
    BY <2>4, <2>5, Fewer
  <2>7. /\ off <= Length /\ renames \in Nat
        /\ Cardinality(Missed(name, shown, there, off)) <= renames
    BY <2>1 DEF PagingInv, MissedSoFar, PagingTypes
  <2>8. off <= Length' /\ Cardinality(Missed(name', shown, there, off)) <= renames
    BY <1>3, <2>6, <2>7
  <2> QED BY <1>4, <2>1, <2>8 DEF MissedSoFar
<1>7. TotalSoFar'
  BY <1>3, <1>4 DEF PagingInv, TotalSoFar, PagingTypes
<1>8. ShownSoFar' /\ AllShown'
  BY <1>4 DEF PagingInv, ShownSoFar, AllShown
<1> QED BY <1>5, <1>6, <1>7, <1>8 DEF PagingInv

(* Somebody on the list registers again under another surname. *)
LEMMA RenameKeeps ==
  ASSUME PagingInv, NEW x \in Pagers, name[x] # NoName,
         Renamed(name, x, name'), joined' = joined, renames' = renames + 1,
         pagingPc' = pagingPc, page' = page, limit' = limit, total' = total,
         items' = items, shown' = shown, there' = there
  PROVE  PagingInv'
<1>1. name \in Names /\ name' \in Names /\ x \in OnList(name)
  BY DEF PagingInv, PagingTypes, Renamed, Names, OnList
<1>2. OnList(name') = OnList(name) /\ Length' = Length
  BY <1>1, PagingConstants DEF OnList, Names, Renamed, Length
<1>3. renames \in Nat /\ renames' \in Nat /\ ~AtRest'
  BY DEF PagingInv, PagingTypes, AtRest
<1>4. Paging!Offset' = Paging!Offset /\ Unseen' = Unseen
  BY DEF Paging!Offset, Unseen
<1>5. PagingTypes'
  BY <1>1, <1>2, <1>3 DEF PagingInv, PagingTypes
<1>6. MissedSoFar'
  <2> SUFFICES ASSUME pagingPc \in {"count", "select"} PROVE MissedSoFar'
    BY DEF MissedSoFar
  <2>1. PICK off \in Nat : off = Paging!Offset
    BY DEF PagingInv, MissedSoFar
  <2>2. there \subseteq OnList(name)
    BY DEF PagingInv, PagingTypes
  <2>3. Cardinality(Missed(name', shown, there, off))
          <= Cardinality(Missed(name, shown, there, off)) + 1
    BY <1>1, <2>1, <2>2, RenameHidesOne
  <2>4. /\ Cardinality(Missed(name', shown, there, off)) \in Nat
        /\ Cardinality(Missed(name, shown, there, off)) \in Nat
    BY <1>1, <2>2, OnListFacts, Fewer DEF Missed
  <2>5. off <= Length /\ Cardinality(Missed(name, shown, there, off)) <= renames
    BY <2>1 DEF PagingInv, MissedSoFar
  <2>6. Cardinality(Missed(name', shown, there, off)) <= renames + 1
    BY <1>3, <2>3, <2>4, <2>5
  <2> QED BY <1>2, <1>4, <2>1, <2>5, <2>6 DEF MissedSoFar
<1>7. TotalSoFar'
  BY <1>2, <1>3 DEF PagingInv, TotalSoFar
<1>8. ShownSoFar'
  BY <1>3 DEF ShownSoFar
<1>9. AllShown'
  <2>1. Unseen \subseteq OnList(name)
    BY DEF Unseen, PagingInv, PagingTypes
  <2>2. Cardinality(Unseen) \in Nat
    BY <1>1, <2>1, OnListFacts, Fewer
  <2> QED BY <1>3, <1>4, <2>2 DEF PagingInv, AllShown
<1> QED BY <1>5, <1>6, <1>7, <1>8, <1>9 DEF PagingInv

LEMMA UpsertKeeps ==
  ASSUME PagingInv, NEW x \in Pagers, Paging!Upsert(x)
  PROVE  PagingInv'
<1>1. /\ Renamed(name, x, name')
      /\ pagingPc' = pagingPc /\ page' = page /\ limit' = limit
      /\ total' = total /\ items' = items /\ shown' = shown /\ there' = there
  BY DEF Paging!Upsert, Renamed
<1>2. CASE name[x] = NoName /\ joined' = TRUE /\ UNCHANGED renames
  BY <1>1, <1>2, InsertKeeps
<1>3. CASE name[x] = name'[x] /\ UNCHANGED <<joined, renames>>
  <2>1. name' = name
    BY <1>1, <1>3 DEF PagingInv, PagingTypes, Names, Renamed
  <2> QED BY <1>1, <1>3, <2>1
          DEF PagingInv, PagingTypes, MissedSoFar, ShownSoFar, TotalSoFar, AllShown,
              AtRest, Unseen, Length, Paging!Offset
<1>4. CASE /\ name[x] \notin {NoName, name'[x]}
           /\ renames < MaxRenames /\ renames' = renames + 1
           /\ UNCHANGED joined
  BY <1>1, <1>4, RenameKeeps
<1> QED BY <1>2, <1>3, <1>4 DEF Paging!Upsert

(* The panel gets a page: everybody on the pages so far has been shown, but
   those it had missed. *)
LEMMA SelectKeeps == PagingInv /\ Paging!Select => PagingInv'
<1> SUFFICES ASSUME PagingInv, Paging!Select PROVE PagingInv'
  OBVIOUS
<1>1. /\ name' = name /\ limit' = limit /\ total' = total /\ there' = there
      /\ joined' = joined /\ renames' = renames /\ pagingPc = "select"
      /\ shown' = [p \in Pagers |->
                     shown[p] + (IF p \in Paging!ToSet(items') THEN 1 ELSE 0)]
  BY DEF Paging!Select
<1>2. /\ name \in Names /\ page \in Nat /\ limit \in Nat \ {0} /\ renames \in Nat
      /\ shown \in [Pagers -> Nat] /\ there \subseteq OnList(name)
  BY DEF PagingInv, PagingTypes
<1>3. PICK n \in Nat : n = Length /\ n = Cardinality(OnList(name))
  BY <1>2, OnListFacts DEF Length
<1>4. PICK off \in Nat : /\ off = Paging!Offset /\ off <= n
                         /\ Cardinality(Missed(name, shown, there, off)) <= renames
  BY <1>1, <1>3 DEF PagingInv, MissedSoFar
<1>5. PICK to \in Nat : to = IF off + limit < n THEN off + limit ELSE n
  BY <1>2
<1>6. off <= to /\ to <= n
  BY <1>2, <1>4, <1>5
<1>7. PICK o \in Paging!Orders :
        items' = SubSeq(o, off + 1, IF off + limit < Len(o) THEN off + limit ELSE Len(o))
  BY <1>4 DEF Paging!Select
<1>8. SortedList(name, o) /\ Len(o) = n /\ o \in [1..n -> OnList(name)]
  BY <1>2, <1>3, OrdersSorted DEF SortedList, Injection
<1>9. items' = SubSeq(o, off + 1, to)
  BY <1>5, <1>7, <1>8
<1>10. /\ Len(items') = to - off
       /\ \A p : p \in Paging!ToSet(items') <=> \E i \in (off + 1)..to : p = o[i]
  <2>1. PICK it : it = items'
    OBVIOUS
  <2>2. it = SubSeq(o, off + 1, to)
    BY <1>9, <2>1
  <2>3. Sequence(o, n, OnList(name))
    BY <1>8 DEF Sequence
  <2>4. off \in Nat /\ to \in Nat /\ n \in Nat
    OBVIOUS
  <2>5. HasRows(it, o, off + 1, to)
    BY <1>6, <2>2, <2>3, <2>4, RowsOfPage
  <2>6. Len(it) = to - off
    BY <1>6, <2>2, <2>3, RowsOfPage
  <2> QED BY <2>1, <2>5, <2>6 DEF HasRows
<1>11. /\ \A p \in OnList(name) : \E i \in 1..n : p = o[i]
       /\ \A i \in 1..n : o[i] \in OnList(name) /\ Rank(name, o[i]) = i - 1
  BY <1>2, <1>3, <1>8, RankInOrder
<1>12. ASSUME NEW p \in Pagers
       PROVE  /\ p \in Paging!ToSet(items')
                   <=> p \in OnList(name) /\ off <= Rank(name, p) /\ Rank(name, p) < to
              /\ p \in OnList(name) => Rank(name, p) < n
  <2>1. CASE p \in OnList(name)
    <3>1. PICK i \in 1..n : p = o[i] /\ Rank(name, p) = i - 1
      BY <1>11, <2>1
    <3>2. p \in Paging!ToSet(items') <=> i \in (off + 1)..to
      <4>1. ASSUME NEW k \in (off + 1)..to, p = o[k] PROVE k = i
        <5>1. k \in 1..n /\ Rank(name, p) = k - 1
          BY <1>6, <1>11, <4>1
        <5> QED BY <3>1, <5>1
      <4> QED BY <1>10, <3>1, <4>1
    <3> QED BY <2>1, <3>1, <3>2
  <2>2. CASE p \notin OnList(name)
    <3>1. \A i \in (off + 1)..to : i \in 1..n
      BY <1>6
    <3> QED BY <1>10, <1>11, <2>2, <3>1
  <2> QED BY <2>1, <2>2
<1>13. ASSUME NEW p \in Pagers
       PROVE  /\ shown[p] \in Nat /\ shown'[p] \in Nat
              /\ shown'[p] = IF p \in OnList(name) /\ off <= Rank(name, p)
                                /\ Rank(name, p) < to
                             THEN shown[p] + 1 ELSE shown[p]
  <2>1. shown'[p] = shown[p] + (IF p \in Paging!ToSet(items') THEN 1 ELSE 0)
    BY <1>1
  <2>2. shown[p] \in Nat
    BY <1>2
  <2> QED BY <1>12, <2>1, <2>2
<1>14. Cardinality(Missed(name, shown', there, to)) <= renames
  <2>1. \A p : Rank(name, p) \in Nat
    BY <1>2, RankType
  <2>2. ASSUME NEW p \in Missed(name, shown', there, to)
        PROVE  p \in Missed(name, shown, there, off)
    <3>1. /\ p \in there /\ p \in OnList(name) /\ p \in Pagers
          /\ shown'[p] = 0 /\ Rank(name, p) < to
      BY <1>2, OnListFacts DEF Missed
    <3>2. shown[p] = 0 /\ ~(off <= Rank(name, p))
      BY <1>13, <3>1
    <3> QED BY <2>1, <3>1, <3>2 DEF Missed
  <2>3. IsFiniteSet(Missed(name, shown, there, off))
    BY <1>2, OnListFacts, Fewer DEF Missed
  <2>4. /\ Cardinality(Missed(name, shown', there, to)) \in Nat
        /\ Cardinality(Missed(name, shown, there, off)) \in Nat
        /\ Cardinality(Missed(name, shown', there, to))
             <= Cardinality(Missed(name, shown, there, off))
    BY <2>2, <2>3, Fewer
  <2> QED BY <1>2, <1>4, <2>4
<1>15. ASSUME AtRest
       PROVE  /\ there = OnList(name)
              /\ \A p \in Pagers :
                   shown'[p] = IF p \in there /\ Rank(name, p) < to THEN 1 ELSE 0
  <2>1. there = OnList(name)
    BY <1>1, <1>15 DEF PagingInv, ShownSoFar
  <2>2. ASSUME NEW p \in Pagers
        PROVE  shown'[p] = IF p \in there /\ Rank(name, p) < to THEN 1 ELSE 0
    <3>1. shown[p] = IF p \in there /\ Rank(name, p) < off THEN 1 ELSE 0
      BY <1>1, <1>4, <1>15 DEF PagingInv, ShownSoFar
    <3>2. Rank(name, p) \in Nat
      BY <1>2, RankType
    <3> QED BY <1>6, <1>13, <2>1, <3>1, <3>2
  <2> QED BY <2>1, <2>2
<1>16. Length' = n /\ (AtRest' <=> AtRest)
  BY <1>1, <1>3 DEF Length, AtRest
<1>17. total <= n /\ (AtRest => total = n)
  BY <1>1, <1>3 DEF PagingInv, TotalSoFar
<1>18. shown' \in [Pagers -> Nat]
  BY <1>1, <1>13
<1>19. CASE Len(items') = limit
  <2>1. pagingPc' = "count" /\ page' = page + 1
    BY <1>19 DEF Paging!Select
  <2>2. to = off + limit
    BY <1>2, <1>4, <1>5, <1>6, <1>10, <1>19
  <2>3. Paging!Offset' = to
    <3>1. (page + 1 - 1) * limit = (page - 1) * limit + limit
      BY <1>2, NextOffset
    <3>2. Paging!Offset' = (page + 1 - 1) * limit
      BY <1>1, <1>2, <2>1 DEF Paging!Offset
    <3>3. (page - 1) * limit = off
      BY <1>4 DEF Paging!Offset
    <3> QED BY <2>2, <3>1, <3>2, <3>3
  <2>4. PagingTypes'
    BY <1>1, <1>2, <1>18, <2>1 DEF PagingInv, PagingTypes
  <2>5. MissedSoFar'
    BY <1>1, <1>6, <1>14, <1>16, <2>3 DEF MissedSoFar
  <2>6. ShownSoFar'
    BY <1>1, <1>15, <1>16, <2>3 DEF ShownSoFar
  <2> QED BY <1>1, <1>16, <1>17, <2>1, <2>4, <2>5, <2>6
          DEF PagingInv, TotalSoFar, AllShown
<1>20. CASE Len(items') # limit
  <2>1. pagingPc' = "done" /\ page' = page
    BY <1>20 DEF Paging!Select
  <2>2. to = n
    BY <1>2, <1>4, <1>5, <1>10, <1>20
  <2>3. Paging!Offset' = off
    BY <1>1, <1>4, <2>1 DEF Paging!Offset
  <2>4. PagingTypes'
    BY <1>1, <1>2, <1>18, <2>1 DEF PagingInv, PagingTypes
  <2>5. \A p \in there : Rank(name, p) < to
    BY <1>2, <1>12, <2>2, OnListFacts
  <2>6. Unseen' = Missed(name, shown', there, to)
    BY <1>1, <2>5 DEF Unseen, Missed
  <2>7. AllShown'
    <3>1. Cardinality(Unseen') <= renames'
      BY <1>1, <1>14, <2>6
    <3>2. off + Len(items') = n
      BY <1>10, <2>2
    <3>3. ASSUME AtRest, NEW p \in Pagers
          PROVE  shown'[p] = IF p \in there THEN 1 ELSE 0
      BY <1>15, <2>5, <3>3
    <3> QED BY <1>1, <1>16, <2>3, <3>1, <3>2, <3>3 DEF AllShown
  <2> QED BY <1>1, <1>16, <1>17, <2>1, <2>4, <2>7
          DEF PagingInv, TotalSoFar, MissedSoFar, ShownSoFar
<1> QED BY <1>19, <1>20

LEMMA PagingStep == PagingInv /\ [Paging!Next]_pagingVars => PagingInv'
<1>1. PagingInv /\ UNCHANGED pagingVars => PagingInv'
  BY DEF pagingVars, PagingInv, PagingTypes, MissedSoFar, ShownSoFar, TotalSoFar,
         AllShown, AtRest, Unseen, Length, Paging!Offset
<1>2. PagingInv /\ Paging!Next => PagingInv'
  BY OpenKeeps, CountKeeps, SelectKeeps, UpsertKeeps DEF Paging!Next
<1> QED BY <1>1, <1>2

(* An admin who pages to the end misses no more people than changed surname
   meanwhile, and at rest sees everybody once, beside the right total: for any
   people, surnames, page sizes and number of changes. *)
THEOREM PagerSeesAll == ReportsSpec => []PagerShowsAll
<1> DEFINE Inv == part = "paging" => PagingInv
<1>1. ReportsInit => Inv
  BY PagingInitial DEF ReportsInit
<1>2. Inv /\ [ReportsNext]_allVars => Inv'
  BY PagingStep DEF ReportsNext, allVars
<1>3. Inv => PagerShowsAll
  BY PagingInvImplies DEF PagerShowsAll
<1> QED BY <1>1, <1>2, <1>3, PTL DEF ReportsSpec

-----------------------------------------------------------------------------
(* The places of a page, when an int holds them. *)
LEMMA WindowConstants ==
  /\ MaxInt \in Nat /\ Typed \subseteq Int
  /\ MaxWindow \in 1..MaxInt /\ DefaultWindow \in 1..MaxWindow
  /\ MaxLength \in Nat /\ NoPage \notin Window!Page
BY ReportsAssumption DEF Window!ConstantsAssumption

LEMMA SmallRemainder == \A a, m \in Nat : a < m => a % m = a
OBVIOUS

LEMMA NotWrapped ==
  ASSUME NEW a \in 0..MaxInt
  PROVE  Window!Wrapped(a) = a
<1>1. /\ a - Window!MinInt \in Nat
      /\ MaxInt - Window!MinInt + 1 \in Nat
      /\ a - Window!MinInt < MaxInt - Window!MinInt + 1
      /\ Window!MinInt \in Int
  BY WindowConstants DEF Window!MinInt
<1>2. (a - Window!MinInt) % (MaxInt - Window!MinInt + 1) = a - Window!MinInt
  BY <1>1, SmallRemainder
<1> QED BY <1>1, <1>2 DEF Window!Wrapped

LEMMA PageProducts ==
  \A p, s \in Nat : p >= 1 => /\ (p - 1) * s \in Nat /\ p * s = (p - 1) * s + s
OBVIOUS

LEMMA OffsetOfPage ==
  ASSUME NEW p \in 1..MaxInt, NEW s \in Nat, p * s <= MaxInt
  PROVE  Window!Offset(p, s) = (p - 1) * s /\ (p - 1) * s \in 0..MaxInt
<1>1. (p - 1) * s \in Nat /\ p * s = (p - 1) * s + s
  BY PageProducts
<1>2. (p - 1) * s \in 0..MaxInt /\ p - 1 \in 0..MaxInt
  BY <1>1, WindowConstants
<1>3. Window!Wrapped(p - 1) = p - 1 /\ Window!Wrapped((p - 1) * s) = (p - 1) * s
  BY <1>2, NotWrapped
<1> QED BY <1>2, <1>3 DEF Window!Offset

(* The pages an answer may come with. *)
WindowInv ==
  /\ length \in 0..MaxLength /\ url \in Typed \X Typed
  /\ window \in Window!Page \cup {NoPage}
  /\ Window!PageIsItsPlaces

LEMMA WindowInitial == Window!Init => WindowInv
BY DEF Window!Init, WindowInv, Window!PageIsItsPlaces

LEMMA ParticipantsKeep == WindowInv /\ Window!Participants => WindowInv'
<1> SUFFICES ASSUME WindowInv, Window!Participants PROVE WindowInv'
  OBVIOUS
<1> DEFINE p == Window!NormalPage(Window!Atoi(url[1]))
           s == Window!NormalSize(Window!Atoi(url[2]))
           rowsOf == Window!Listed(Window!Offset(p, s), s)
<1>1. /\ window' = [page |-> p, pageSize |-> s, items |-> rowsOf]
      /\ length' = length /\ url' = url
  BY DEF Window!Participants
<1>2. url[1] \in Int /\ url[2] \in Int /\ length \in 0..MaxLength
  BY WindowConstants DEF WindowInv
<1>3. /\ Window!Atoi(url[1]) \in Int /\ Window!Atoi(url[1]) <= MaxInt
      /\ Window!Atoi(url[2]) \in Int
  BY <1>2, WindowConstants DEF Window!Atoi, Window!MinInt
<1>4. p \in 1..MaxInt /\ s \in 1..MaxWindow
  BY <1>3, WindowConstants DEF Window!NormalPage, Window!NormalSize
<1> HIDE DEF p, s
<1>5. rowsOf \in SUBSET (1..MaxLength)
  BY <1>2, WindowConstants DEF Window!Listed
<1>6. window' \in Window!Page /\ window'.page = p /\ window'.pageSize = s
      /\ window'.items = rowsOf
  BY <1>1, <1>4, <1>5 DEF Window!Page
<1>7. ASSUME p * s <= MaxInt
      PROVE  rowsOf = Window!Places(p, s)
  <2>1. s \in Nat /\ (p - 1) * s \in Nat /\ p * s = (p - 1) * s + s
    BY <1>4, WindowConstants, PageProducts
  <2>2. Window!Offset(p, s) = (p - 1) * s
    BY <1>4, <1>7, <2>1, OffsetOfPage
  <2>3. PICK from \in Nat : from = (p - 1) * s
    BY <2>1
  <2>4. PICK to \in Nat : to = p * s /\ to = from + s
    BY <2>1, <2>3
  <2>5. rowsOf = {k \in 1..length : from < k /\ k <= from + s}
    BY <2>1, <2>2, <2>3 DEF Window!Listed
  <2>6. Window!Places(p, s) = {k \in 1..length : from < k /\ k <= to}
    BY <2>3, <2>4 DEF Window!Places
  <2> QED BY <2>4, <2>5, <2>6
<1>8. Window!PageIsItsPlaces'
  BY <1>1, <1>6, <1>7 DEF Window!PageIsItsPlaces, Window!Places
<1> QED BY <1>1, <1>6, <1>8 DEF WindowInv

LEMMA WindowStep == WindowInv /\ [WindowNext]_windowVars => WindowInv'
<1>1. WindowInv /\ UNCHANGED windowVars => WindowInv'
  BY DEF windowVars, WindowInv, Window!PageIsItsPlaces, Window!Places
<1> QED BY <1>1, ParticipantsKeep DEF WindowNext, Window!Next

(* Whatever numbers are typed in the URL, the page and the size in an answer
   say which places of the list are in it, as long as an int can count to the
   last of them: for any largest int, sizes and length of the list. *)
THEOREM PagesAreTheirPlaces == ReportsSpec => []PageIsItsPlaces
<1> DEFINE Inv == part = "window" => WindowInv
<1>1. ReportsInit => Inv
  BY WindowInitial DEF ReportsInit
<1>2. Inv /\ [ReportsNext]_allVars => Inv'
  BY WindowStep DEF ReportsNext, allVars
<1>3. Inv => PageIsItsPlaces
  BY DEF PageIsItsPlaces, WindowInv
<1> QED BY <1>1, <1>2, <1>3, PTL DEF ReportsSpec

-----------------------------------------------------------------------------
(* Induction, stated with the set of those that have the property: over the
   natural numbers, and over the subsets of a finite set. *)
LEMMA NatSetInduction ==
  ASSUME NEW G, 0 \in G, \A n \in Nat : n \in G => n + 1 \in G
  PROVE  Nat \subseteq G
<1> DEFINE R == {ss \in Nat \X Nat : ss[1] < ss[2]}
<1>1. IsWellFoundedOn(R, Nat)
  BY NatLessThanWellFounded DEF OpToRel
<1>2. SUFFICES ASSUME Nat \ G # {} PROVE FALSE
  OBVIOUS
<1>3. PICK n \in Nat \ G : \A m \in Nat \ G : <<m, n>> \notin R
  BY <1>1, <1>2, WFMin
<1>4. \A m \in Nat : m < n => m \in G
  BY <1>3
<1>5. n - 1 \in Nat /\ n - 1 < n /\ (n - 1) + 1 = n
  OBVIOUS
<1> QED BY <1>4, <1>5

LEMMA SubsetInduction ==
  ASSUME NEW S, IsFiniteSet(S), NEW G,
         \A s \in SUBSET S : (\A t \in SUBSET s : t # s => t \in G) => s \in G
  PROVE  SUBSET S \subseteq G
<1> DEFINE B == (SUBSET S) \ G
<1>1. SUFFICES ASSUME B # {} PROVE FALSE
  OBVIOUS
<1>2. IsWellFoundedOn(StrictSubsetOrdering(S), SUBSET S)
  BY FS_StrictSubsetOrderingWellFounded, FS_FiniteSubsetsOfFinite
<1>3. B \subseteq SUBSET S
  OBVIOUS
<1> HIDE DEF B
<1>4. PICK s \in B : \A t \in B : <<t, s>> \notin StrictSubsetOrdering(S)
  BY <1>1, <1>2, <1>3, WFMin
<1>5. s \in SUBSET S /\ s \notin G
  BY <1>4 DEF B
<1>6. \A t \in SUBSET s : t # s => t \notin B
  BY <1>4, <1>5 DEF StrictSubsetOrdering
<1>7. \A t \in SUBSET s : t # s => t \in G
  BY <1>5, <1>6 DEF B
<1> QED BY <1>5, <1>7

-----------------------------------------------------------------------------
(* Adding up over a set, one member after another, how many members of K are
   of each class: that is how many members K has. *)
First(s) == CHOOSE x \in s : TRUE
InClasses(K, class, s) == {k \in K : class[k] \in s}

Adds(it, S, w) ==
  it = [s \in SUBSET S |-> IF s = {} THEN 0 ELSE w[First(s)] + it[s \ {First(s)}]]

CountsClasses(w, S, K, class) ==
  \A x \in S : w[x] = Cardinality(InClasses(K, class, {x}))

LEMMA OneClassMore ==
  ASSUME NEW K, IsFiniteSet(K), NEW class, NEW s, s # {}
  PROVE  /\ First(s) \in s
         /\ Cardinality(InClasses(K, class, s))
              = Cardinality(InClasses(K, class, {First(s)}))
                + Cardinality(InClasses(K, class, s \ {First(s)}))
<1>1. First(s) \in s
  BY DEF First
<1> DEFINE a == InClasses(K, class, {First(s)})
           b == InClasses(K, class, s \ {First(s)})
<1>2. a \cup b = InClasses(K, class, s) /\ a \cap b = {}
  BY <1>1 DEF InClasses
<1>3. IsFiniteSet(a) /\ IsFiniteSet(b)
  BY FS_Subset DEF InClasses
<1> HIDE DEF a, b
<1>4. /\ Cardinality(a) \in Nat /\ Cardinality(b) \in Nat
      /\ Cardinality(a \cap b) = 0
      /\ Cardinality(a \cup b)
           = Cardinality(a) + Cardinality(b) - Cardinality(a \cap b)
  BY <1>2, <1>3, FS_Union, FS_EmptySet, FS_CardinalityType
<1>5. Cardinality(a \cup b) = Cardinality(a) + Cardinality(b)
  BY <1>4
<1> QED BY <1>1, <1>2, <1>5 DEF a, b

LEMMA SumExists ==
  ASSUME NEW S, NEW K, IsFiniteSet(K), NEW class, NEW w,
         CountsClasses(w, S, K, class)
  PROVE  \E it : Adds(it, S, w)
<1> DEFINE it == [s \in SUBSET S |-> Cardinality(InClasses(K, class, s))]
<1>1. InClasses(K, class, {}) = {}
  BY DEF InClasses
<1>2. ASSUME NEW s \in SUBSET S
      PROVE  it[s] = IF s = {} THEN 0 ELSE w[First(s)] + it[s \ {First(s)}]
  <2>1. CASE s = {}
    BY <1>1, <2>1, FS_EmptySet
  <2>2. CASE s # {}
    <3>1. it[s \ {First(s)}] = Cardinality(InClasses(K, class, s \ {First(s)}))
      OBVIOUS
    <3>2. it[s] = Cardinality(InClasses(K, class, s))
      OBVIOUS
    <3>3. Cardinality(InClasses(K, class, s))
            = w[First(s)] + Cardinality(InClasses(K, class, s \ {First(s)}))
      <4>1. First(s) \in S
        BY <2>2, OneClassMore
      <4>2. w[First(s)] = Cardinality(InClasses(K, class, {First(s)}))
        BY <4>1 DEF CountsClasses
      <4>3. Cardinality(InClasses(K, class, s))
              = Cardinality(InClasses(K, class, {First(s)}))
                + Cardinality(InClasses(K, class, s \ {First(s)}))
        BY <2>2, OneClassMore
      <4> QED BY <4>2, <4>3
    <3> HIDE DEF it
    <3> QED BY <2>2, <3>1, <3>2, <3>3
  <2> QED BY <2>1, <2>2
<1> HIDE DEF it
<1>3. it = [s \in SUBSET S |-> it[s]]
  BY DEF it
<1>4. it = [s \in SUBSET S |->
              IF s = {} THEN 0 ELSE w[First(s)] + it[s \ {First(s)}]]
  BY <1>2, <1>3
<1> QED BY <1>4 DEF Adds

LEMMA SumOfClasses ==
  ASSUME NEW S, IsFiniteSet(S), NEW K, IsFiniteSet(K), NEW class, NEW w,
         CountsClasses(w, S, K, class), NEW it, Adds(it, S, w)
  PROVE  it[S] = Cardinality(InClasses(K, class, S))
<1> DEFINE G == {s \in SUBSET S : it[s] = Cardinality(InClasses(K, class, s))}
<1>1. ASSUME NEW s \in SUBSET S, \A t \in SUBSET s : t # s => t \in G
      PROVE  s \in G
  <2>1. it[s] = IF s = {} THEN 0 ELSE w[First(s)] + it[s \ {First(s)}]
    BY DEF Adds
  <2>2. CASE s = {}
    <3>1. InClasses(K, class, s) = {}
      BY <2>2 DEF InClasses
    <3> QED BY <2>1, <2>2, <3>1, FS_EmptySet
  <2>3. CASE s # {}
    <3>1. First(s) \in s
      BY <2>3, OneClassMore
    <3>2. it[s \ {First(s)}] = Cardinality(InClasses(K, class, s \ {First(s)}))
      BY <1>1, <3>1
    <3>3. Cardinality(InClasses(K, class, s))
            = w[First(s)] + Cardinality(InClasses(K, class, s \ {First(s)}))
      <4>1. First(s) \in S
        BY <2>3, OneClassMore
      <4>2. w[First(s)] = Cardinality(InClasses(K, class, {First(s)}))
        BY <4>1 DEF CountsClasses
      <4>3. Cardinality(InClasses(K, class, s))
              = Cardinality(InClasses(K, class, {First(s)}))
                + Cardinality(InClasses(K, class, s \ {First(s)}))
        BY <2>3, OneClassMore
      <4> QED BY <4>2, <4>3
    <3>4. it[s] = Cardinality(InClasses(K, class, s))
      BY <2>1, <2>3, <3>2, <3>3
    <3> QED BY <3>4
  <2> QED BY <2>2, <2>3
<1> HIDE DEF G
<1>2. SUBSET S \subseteq G
  BY <1>1, SubsetInduction
<1> QED BY <1>2 DEF G

-----------------------------------------------------------------------------
(* The dashboard.  Its module has its own instance of FiniteSets. *)
LEMMA PanelOperators ==
  /\ \A S : Panel!Cardinality(S) = Cardinality(S)
  /\ \A S : Panel!IsFiniteSet(S) <=> IsFiniteSet(S)
BY DEF Panel!Cardinality, Cardinality, Panel!IsFiniteSet, IsFiniteSet

LEMMA PanelConstants ==
  /\ IsFiniteSet(Races) /\ IsFiniteSet(Runners)
  /\ IsFiniteSet(Panel!Keys)
  /\ MaxRows \in Nat /\ MaxLost \in Nat /\ AllRaces \notin Races
  /\ Null \notin Panel!Sizes /\ NoPanelRow \notin Panel!Row
<1>1. IsFiniteSet(Races) /\ IsFiniteSet(Runners)
  BY PanelOperators, ReportsAssumption DEF Panel!ConstantsAssumption
<1>2. IsFiniteSet(Panel!Keys)
  BY <1>1, FS_Product DEF Panel!Keys
<1> QED BY <1>1, <1>2, ReportsAssumption DEF Panel!ConstantsAssumption

(* What MapThenSumSet adds up, for weights that are a function. *)
SumOf(w) == Panel!MapThenSumSet(LAMBDA p : w[p], DOMAIN w)

LEMMA SumOfFunction ==
  ASSUME NEW w, NEW K, IsFiniteSet(K), NEW class,
         IsFiniteSet(DOMAIN w), CountsClasses(w, DOMAIN w, K, class)
  PROVE  SumOf(w) = Cardinality(InClasses(K, class, DOMAIN w))
<1>1. SumOf(w) = (CHOOSE it : Adds(it, DOMAIN w, w))[DOMAIN w]
  BY DEF SumOf, Panel!MapThenSumSet, Panel!MapThenFoldSet, Adds, First
<1>2. \E it : Adds(it, DOMAIN w, w)
  BY SumExists
<1>3. Adds(CHOOSE it : Adds(it, DOMAIN w, w), DOMAIN w, w)
  BY <1>2
<1> QED BY <1>1, <1>3, SumOfClasses

(* The classes that occur among K, each with its members counted. *)
LEMMA ClassesOf ==
  ASSUME NEW K, IsFiniteSet(K), NEW class, DOMAIN class = K,
         NEW S, S = {class[k] : k \in K}, class \in [K -> S]
  PROVE  IsFiniteSet(S) /\ InClasses(K, class, S) = K
<1>1. class \in Surjection(K, S)
  BY DEF Surjection
<1> QED BY <1>1, FS_Surjection DEF InClasses

LEMMA SourcesAddUp ==
  ASSUME NEW f \in Panel!Filters, IsFiniteSet(Panel!Scope(f))
  PROVE  LET CountOf(s) ==
               Panel!Cardinality({k \in Panel!Scope(f) : panelRegs[k].source = s})
         IN  Panel!Total({panelRegs[k].source : k \in Panel!Scope(f)}, CountOf)
               = Cardinality(Panel!Scope(f))
<1> DEFINE K == Panel!Scope(f)
           S == {panelRegs[k].source : k \in K}
           CountOf(s) == Panel!Cardinality({k \in K : panelRegs[k].source = s})
           class == [k \in K |-> panelRegs[k].source]
           w == [s \in S |-> CountOf(s)]
           Body(it) == it = [s \in SUBSET S |->
                               IF s = {} THEN 0
                               ELSE LET x == CHOOSE x \in s : TRUE
                                    IN  CountOf(x) + it[s \ {x}]]
           sum == CHOOSE it : Body(it)
<1>1. Panel!Total(S, CountOf) = sum[S]
  BY DEF Panel!Total, Panel!MapThenSumSet, Panel!MapThenFoldSet
<1>2. IsFiniteSet(S) /\ InClasses(K, class, S) = K
  <2>1. S = {class[k] : k \in K} /\ DOMAIN class = K /\ class \in [K -> S]
    OBVIOUS
  <2> HIDE DEF K, S, class
  <2> QED BY <2>1, ClassesOf DEF K
<1>3. CountsClasses(w, S, K, class)
  <2>1. ASSUME NEW x \in S PROVE w[x] = Cardinality(InClasses(K, class, {x}))
    <3>1. {k \in K : panelRegs[k].source = x} = InClasses(K, class, {x})
      BY DEF InClasses
    <3>2. w[x] = Cardinality({k \in K : panelRegs[k].source = x})
      BY PanelOperators
    <3> QED BY <3>1, <3>2
  <2> QED BY <2>1 DEF CountsClasses
<1>4. ASSUME NEW it PROVE Body(it) <=> Adds(it, S, w)
  <2>1. \A s \in SUBSET S : s # {} => CountOf(First(s)) = w[First(s)]
    BY DEF First
  <2> QED BY <2>1 DEF Adds, First
<1>5. \E it : Adds(it, S, w)
  BY <1>3, SumExists
<1> HIDE DEF K, S, class, w, Body
<1>6. \E it : Body(it)
  BY <1>4, <1>5
<1>7. Body(sum)
  BY <1>6
<1> HIDE DEF sum
<1>8. Adds(sum, S, w)
  BY <1>4, <1>7
<1>9. sum[S] = Cardinality(K)
  BY <1>2, <1>3, <1>8, SumOfClasses DEF K
<1> QED BY <1>1, <1>9 DEF K, S

LEMMA ShirtsAddUp ==
  ASSUME NEW f \in Panel!Filters, IsFiniteSet(Panel!Scope(f))
  PROVE  LET CountOf(s) ==
               Panel!Cardinality({k \in Panel!Scope(f) : Panel!Group(k) = s})
         IN  Panel!Total({Panel!Group(k) : k \in Panel!Scope(f)}, CountOf)
               = Cardinality(Panel!Scope(f))
<1> DEFINE K == Panel!Scope(f)
           S == {Panel!Group(k) : k \in K}
           CountOf(s) == Panel!Cardinality({k \in K : Panel!Group(k) = s})
           class == [k \in K |-> Panel!Group(k)]
           w == [s \in S |-> CountOf(s)]
           Body(it) == it = [s \in SUBSET S |->
                               IF s = {} THEN 0
                               ELSE LET x == CHOOSE x \in s : TRUE
                                    IN  CountOf(x) + it[s \ {x}]]
           sum == CHOOSE it : Body(it)
<1>1. Panel!Total(S, CountOf) = sum[S]
  BY DEF Panel!Total, Panel!MapThenSumSet, Panel!MapThenFoldSet
<1>2. IsFiniteSet(S) /\ InClasses(K, class, S) = K
  <2>1. S = {class[k] : k \in K} /\ DOMAIN class = K /\ class \in [K -> S]
    OBVIOUS
  <2> HIDE DEF K, S, class
  <2> QED BY <2>1, ClassesOf DEF K
<1>3. CountsClasses(w, S, K, class)
  <2>1. ASSUME NEW x \in S PROVE w[x] = Cardinality(InClasses(K, class, {x}))
    <3>1. {k \in K : Panel!Group(k) = x} = InClasses(K, class, {x})
      BY DEF InClasses
    <3>2. w[x] = Cardinality({k \in K : Panel!Group(k) = x})
      BY PanelOperators
    <3> QED BY <3>1, <3>2
  <2> QED BY <2>1 DEF CountsClasses
<1>4. ASSUME NEW it PROVE Body(it) <=> Adds(it, S, w)
  <2>1. \A s \in SUBSET S : s # {} => CountOf(First(s)) = w[First(s)]
    BY DEF First
  <2> QED BY <2>1 DEF Adds, First
<1>5. \E it : Adds(it, S, w)
  BY <1>3, SumExists
<1> HIDE DEF K, S, class, w, Body
<1>6. \E it : Body(it)
  BY <1>4, <1>5
<1>7. Body(sum)
  BY <1>6
<1> HIDE DEF sum
<1>8. Adds(sum, S, w)
  BY <1>4, <1>7
<1>9. sum[S] = Cardinality(K)
  BY <1>2, <1>3, <1>8, SumOfClasses DEF K
<1> QED BY <1>1, <1>9 DEF K, S

-----------------------------------------------------------------------------
(* What the panel sees in an answer or in a count: of these keys, n were
   confirmed when there had been so many confirmations and withdrawals. *)
Sight(K, n, t) == [keys |-> K, n |-> n, c |-> t.confirmed, w |-> t.withdrawn]

RowsOf(p)   == {k \in Panel!Keys : k[2] = p}
ConfOf(K)   == Cardinality(K \cap Panel!ConfirmedRows)
TotalOf(a)  == Sight(Panel!Of(a.race), Panel!Shown(a).n, Panel!Shown(a).at)
PeopleIn(a) == {Sight(RowsOf(p), a.races[p], a.seenAt) : p \in DOMAIN a.races}
Sights(a)   == {TotalOf(a)} \cup (IF a.kind = "people" THEN PeopleIn(a) ELSE {})
SeenInCount ==
  IF counted # NotCounted /\ counted.race # AllRaces
    THEN {Sight(Panel!Of(counted.race), counted.figure, counted.at)} ELSE {}
SeenLast == IF last # NoAnswer THEN Sights(last) ELSE {}
Seen     == SeenLast \cup SeenInCount

(* It was so then: since then it has gone up by no more than the confirmations
   that came later, and down by no more than the withdrawals. *)
WasSo(x) ==
  /\ x.keys \subseteq Panel!Keys /\ x.n \in Int /\ x.c \in Int /\ x.w \in Int
  /\ x.c <= confirmations /\ x.w <= withdrawals
  /\ ConfOf(x.keys) - x.n <= confirmations - x.c
  /\ x.n - ConfOf(x.keys) <= withdrawals - x.w

(* Two sights of the same keys differ by what happened between them. *)
Agree(x, y) ==
  x.keys = y.keys /\ x.c <= y.c /\ x.w <= y.w =>
    y.n - x.n <= y.c - x.c /\ x.n - y.n <= y.w - x.w

IsSo(x) ==
  /\ x.keys \subseteq Panel!Keys /\ x.n = ConfOf(x.keys)
  /\ x.c = confirmations /\ x.w = withdrawals

Rows ==
  /\ panelRegs \in [Panel!Keys -> Panel!Row \cup {NoPanelRow}]
  /\ unheard \subseteq Panel!ConfirmedRows
  /\ confirmations \in Nat /\ withdrawals \in Nat
  /\ confirmations - withdrawals = Cardinality(Panel!ConfirmedRows)
  /\ withdrawals + Cardinality(unheard) <= MaxLost
  /\ Cardinality(Panel!Stored) <= MaxRows

SameRows == UNCHANGED <<panelRegs, unheard, confirmations, withdrawals>>

AnswersTyped ==
  /\ counted = NotCounted
     \/ counted \in [race : Panel!Filters, figure : Nat, at : Panel!Date]
  /\ last = NoAnswer \/ last \in Panel!Answer

SightsFit == \A x \in Seen : WasSo(x) /\ \A y \in Seen : Agree(x, y)

PanelInv == Rows /\ AnswersTyped /\ SightsFit

(* What PanelsReconcile asks of a step. *)
StepReads ==
  last' # last =>
    /\ \A a, b \in {last, last'} \ {NoAnswer} :
         Panel!FiguresReconcile(a, b) /\ Panel!HistoryNotNarrowed(a, b)
    /\ Panel!ShirtsReadAsChart(last')

LEMMA RowFacts ==
  ASSUME Rows
  PROVE  /\ IsFiniteSet(Panel!Stored) /\ IsFiniteSet(Panel!ConfirmedRows)
         /\ IsFiniteSet(unheard) /\ Cardinality(unheard) \in Nat
         /\ confirmations \in Nat /\ withdrawals \in Nat
         /\ Panel!Now \in Panel!Date
         /\ Panel!Now.confirmed = confirmations /\ Panel!Now.withdrawn = withdrawals
         /\ Panel!ConfirmedRows \subseteq Panel!Stored
         /\ Panel!Stored \subseteq Panel!Keys
<1>1. /\ Panel!ConfirmedRows \subseteq Panel!Stored
      /\ Panel!Stored \subseteq Panel!Keys
  BY DEF Panel!ConfirmedRows, Panel!Stored
<1>2. IsFiniteSet(Panel!Stored)
  BY <1>1, PanelConstants, FS_Subset
<1>3. /\ IsFiniteSet(Panel!ConfirmedRows)
      /\ Cardinality(Panel!ConfirmedRows) <= Cardinality(Panel!Stored)
  BY <1>1, <1>2, FS_Subset
<1>4. Cardinality(Panel!ConfirmedRows) \in Nat /\ Cardinality(Panel!Stored) \in Nat
  BY <1>2, <1>3, FS_CardinalityType
<1>5. IsFiniteSet(unheard) /\ Cardinality(unheard) \in Nat
  BY <1>3, FS_Subset, FS_CardinalityType DEF Rows
<1>6. /\ confirmations \in 0..(MaxRows + MaxLost) /\ withdrawals \in 0..MaxLost
      /\ confirmations \in Nat /\ withdrawals \in Nat
  BY <1>3, <1>4, <1>5, PanelConstants DEF Rows
<1>7. /\ Panel!Now \in Panel!Date
      /\ Panel!Now.confirmed = confirmations /\ Panel!Now.withdrawn = withdrawals
  BY <1>6 DEF Panel!Now, Panel!Date
<1> QED BY <1>1, <1>2, <1>3, <1>5, <1>6, <1>7

LEMMA ConfOfType == Rows => \A K : ConfOf(K) \in Nat
<1> SUFFICES ASSUME Rows, NEW K PROVE ConfOf(K) \in Nat
  OBVIOUS
<1>1. IsFiniteSet(K \cap Panel!ConfirmedRows)
  BY RowFacts, FS_Intersection
<1> QED BY <1>1, FS_CardinalityType DEF ConfOf

(* The panel learns nothing but what it saw before and what is so now. *)
LEMMA SeenNow ==
  ASSUME Rows, SightsFit, NEW x, x \in Seen \/ IsSo(x), NEW y, y \in Seen \/ IsSo(y)
  PROVE  WasSo(x) /\ Agree(x, y)
<1>1. confirmations \in Int /\ withdrawals \in Int /\ \A K : ConfOf(K) \in Int
  BY RowFacts, ConfOfType
<1>2. ASSUME NEW z, z \in Seen \/ IsSo(z) PROVE WasSo(z)
  BY <1>1, <1>2 DEF SightsFit, WasSo, IsSo
<1>3. WasSo(x) /\ WasSo(y)
  BY <1>2
<1>4. CASE x \in Seen /\ y \in Seen
  BY <1>3, <1>4 DEF SightsFit
<1>5. CASE IsSo(y)
  BY <1>1, <1>3, <1>5 DEF WasSo, IsSo, Agree
<1>6. CASE IsSo(x)
  BY <1>1, <1>3, <1>6 DEF WasSo, IsSo, Agree
<1> QED BY <1>3, <1>4, <1>5, <1>6

(* A request reads the rows and leaves them alone. *)
LEMMA SightsKeep ==
  ASSUME Rows, SightsFit, SameRows, \A x \in Seen' : x \in Seen \/ IsSo(x)
  PROVE  Rows' /\ SightsFit'
<1>1. /\ Panel!Stored' = Panel!Stored
      /\ Panel!ConfirmedRows' = Panel!ConfirmedRows
  BY DEF SameRows, Panel!Stored, Panel!ConfirmedRows
<1>2. Rows'
  BY <1>1 DEF SameRows, Rows
<1>3. ASSUME NEW x \in Seen' PROVE WasSo(x)' /\ \A y \in Seen' : Agree(x, y)
  <2>1. WasSo(x) /\ \A y \in Seen' : Agree(x, y)
    BY SeenNow
  <2> QED BY <1>1, <2>1 DEF SameRows, WasSo, ConfOf
<1> QED BY <1>2, <1>3 DEF SightsFit

(* Two answers that show what was seen, or what is so, reconcile. *)
LEMMA AnswersFit ==
  ASSUME Rows, SightsFit,
         NEW a, \A x \in Sights(a) : x \in Seen \/ IsSo(x),
         NEW b, \A x \in Sights(b) : x \in Seen \/ IsSo(x)
  PROVE  Panel!FiguresReconcile(a, b) /\ Panel!HistoryNotNarrowed(a, b)
<1>1. ASSUME NEW x \in Sights(a), NEW y \in Sights(b),
             x.keys = y.keys, x.c <= y.c, x.w <= y.w
      PROVE  y.n - x.n \in (x.w - y.w)..(y.c - x.c)
  <2>1. WasSo(x) /\ WasSo(y) /\ Agree(x, y)
    BY SeenNow
  <2>2. /\ x.n \in Int /\ x.c \in Int /\ x.w \in Int
        /\ y.n \in Int /\ y.c \in Int /\ y.w \in Int
        /\ y.n - x.n <= y.c - x.c /\ x.n - y.n <= y.w - x.w
    BY <1>1, <2>1 DEF WasSo, Agree
  <2> QED BY <2>2
<1>2. Panel!FiguresReconcile(a, b)
  <2>1. SUFFICES ASSUME a.race = b.race,
                        Panel!NotAfter(Panel!Shown(a).at, Panel!Shown(b).at)
                 PROVE  Panel!Shown(b).n - Panel!Shown(a).n
                          \in Panel!Moves(Panel!Shown(a).at, Panel!Shown(b).at)
    BY DEF Panel!FiguresReconcile
  <2>2. TotalOf(a) \in Sights(a) /\ TotalOf(b) \in Sights(b)
    BY DEF Sights
  <2>3. /\ TotalOf(a).keys = TotalOf(b).keys
        /\ TotalOf(a).n = Panel!Shown(a).n /\ TotalOf(b).n = Panel!Shown(b).n
        /\ TotalOf(a).c = Panel!Shown(a).at.confirmed
        /\ TotalOf(b).c = Panel!Shown(b).at.confirmed
        /\ TotalOf(a).w = Panel!Shown(a).at.withdrawn
        /\ TotalOf(b).w = Panel!Shown(b).at.withdrawn
    BY <2>1 DEF TotalOf, Sight
  <2> QED BY <1>1, <2>1, <2>2, <2>3 DEF Panel!NotAfter, Panel!Moves
<1>3. Panel!HistoryNotNarrowed(a, b)
  <2>1. SUFFICES ASSUME a.kind = "people", b.kind = "people",
                        Panel!NotAfter(a.seenAt, b.seenAt),
                        NEW p \in DOMAIN a.races \cap DOMAIN b.races
                 PROVE  b.races[p] - a.races[p] \in Panel!Moves(a.seenAt, b.seenAt)
    BY DEF Panel!HistoryNotNarrowed
  <2> DEFINE x == Sight(RowsOf(p), a.races[p], a.seenAt)
             y == Sight(RowsOf(p), b.races[p], b.seenAt)
  <2>2. x \in Sights(a) /\ y \in Sights(b)
    <3>1. x \in PeopleIn(a) /\ y \in PeopleIn(b)
      BY DEF PeopleIn
    <3> QED BY <2>1, <3>1 DEF Sights
  <2>3. /\ x.keys = y.keys /\ x.n = a.races[p] /\ y.n = b.races[p]
        /\ x.c = a.seenAt.confirmed /\ y.c = b.seenAt.confirmed
        /\ x.w = a.seenAt.withdrawn /\ y.w = b.seenAt.withdrawn
    BY DEF Sight
  <2> HIDE DEF x, y
  <2> QED BY <1>1, <2>1, <2>2, <2>3 DEF Panel!NotAfter, Panel!Moves
<1> QED BY <1>2, <1>3

LEMMA AnswerKeeps ==
  ASSUME PanelInv, NEW b \in Panel!Answer, Panel!Receive(b), SameRows,
         counted' = NotCounted \/ counted' = counted,
         \A x \in Sights(b) : x \in Seen \/ IsSo(x), Panel!ShirtsReadAsChart(b)
  PROVE  PanelInv' /\ StepReads
<1>1. last' = b
  BY DEF Panel!Receive
<1>2. SeenLast' \subseteq Sights(b) /\ SeenInCount' \subseteq SeenInCount
  BY <1>1 DEF SeenLast, SeenInCount
<1>3. \A x \in Seen' : x \in Seen \/ IsSo(x)
  BY <1>2 DEF Seen
<1>4. Rows' /\ SightsFit'
  BY <1>3, SightsKeep DEF PanelInv
<1>5. AnswersTyped'
  BY <1>1 DEF PanelInv, AnswersTyped
<1>6. ASSUME NEW a \in {last, last'} \ {NoAnswer}
      PROVE  \A x \in Sights(a) : x \in Seen \/ IsSo(x)
  BY <1>1 DEF Seen, SeenLast
<1>7. ASSUME NEW a \in {last, last'} \ {NoAnswer},
             NEW d \in {last, last'} \ {NoAnswer}
      PROVE  Panel!FiguresReconcile(a, d) /\ Panel!HistoryNotNarrowed(a, d)
  <2>1. Rows /\ SightsFit
    BY DEF PanelInv
  <2> QED BY <1>6, <2>1, AnswersFit
<1>8. StepReads
  BY <1>1, <1>7 DEF StepReads
<1> QED BY <1>4, <1>5, <1>8 DEF PanelInv

(* A write leaves the answers alone, and moves what is confirmed of any keys
   by no more than it moves the counters. *)
LEMMA WriteKeeps ==
  ASSUME PanelInv, Rows', last' = last, counted' = counted,
         confirmations <= confirmations', withdrawals <= withdrawals',
         \A K \in SUBSET Panel!Keys :
           /\ ConfOf(K)' - ConfOf(K) <= confirmations' - confirmations
           /\ ConfOf(K) - ConfOf(K)' <= withdrawals' - withdrawals
  PROVE  PanelInv' /\ StepReads
<1>1. Seen' = Seen
  BY DEF Seen, SeenLast, SeenInCount
<1>2. /\ confirmations \in Int /\ confirmations' \in Int
      /\ withdrawals \in Int /\ withdrawals' \in Int
  BY DEF PanelInv, Rows
<1>3. \A K : ConfOf(K)' \in Nat
  <2>1. (\A K : ConfOf(K) \in Nat)'
    BY ConfOfType, PTL
  <2> QED BY <2>1
<1>4. \A K : ConfOf(K) \in Nat
  BY ConfOfType DEF PanelInv
<1>5. ASSUME NEW x \in Seen PROVE WasSo(x)' /\ \A y \in Seen : Agree(x, y)
  <2>1. WasSo(x) /\ \A y \in Seen : Agree(x, y)
    BY DEF PanelInv, SightsFit
  <2>2. PICK K \in SUBSET Panel!Keys : K = x.keys
    BY <2>1 DEF WasSo
  <2>3. PICK c \in Int, d \in Int : c = ConfOf(K) /\ d = ConfOf(K)'
    BY <1>3, <1>4
  <2>4. PICK n \in Int, s \in Int, t \in Int : n = x.n /\ s = x.c /\ t = x.w
    BY <2>1 DEF WasSo
  <2>5. PICK g \in Int, h \in Int : g = confirmations /\ h = confirmations'
    BY <1>2
  <2>6. PICK u \in Int, v \in Int : u = withdrawals /\ v = withdrawals'
    BY <1>2
  <2>7. d - c <= h - g /\ c - d <= v - u /\ g <= h /\ u <= v
    BY <2>3, <2>5, <2>6
  <2>8. s <= g /\ t <= u /\ c - n <= g - s /\ n - c <= u - t
    BY <2>1, <2>2, <2>3, <2>4, <2>5, <2>6 DEF WasSo
  <2>9. s <= h /\ t <= v /\ d - n <= h - s /\ n - d <= v - t
    BY <2>7, <2>8
  <2>10. ConfOf(x.keys)' = d
    BY <2>2, <2>3
  <2> QED BY <2>1, <2>4, <2>5, <2>6, <2>9, <2>10 DEF WasSo
<1>6. SightsFit'
  BY <1>1, <1>5 DEF SightsFit
<1>7. AnswersTyped' /\ StepReads
  BY DEF PanelInv, AnswersTyped, StepReads
<1> QED BY <1>6, <1>7 DEF PanelInv

LEMMA CreateKeeps ==
  ASSUME PanelInv, NEW k \in Panel!Keys, Panel!Create(k)
  PROVE  PanelInv' /\ StepReads
<1>1. PICK s \in Sources, z \in Panel!Sizes :
        panelRegs' = [panelRegs EXCEPT ![k] =
                        [source |-> s, size |-> z, status |-> Panel!Pending]]
  BY DEF Panel!Create, Panel!Accepts
<1>2. /\ panelRegs[k] = NoPanelRow /\ Cardinality(Panel!Stored) < MaxRows
      /\ confirmations' = confirmations /\ withdrawals' = withdrawals
      /\ unheard' = unheard /\ counted' = counted /\ last' = last
  BY PanelOperators DEF Panel!Create
<1>3. Rows /\ panelRegs \in [Panel!Keys -> Panel!Row \cup {NoPanelRow}]
  BY DEF PanelInv, Rows
<1> DEFINE row == [source |-> s, size |-> z, status |-> Panel!Pending]
<1>4. row \in Panel!Row /\ row # NoPanelRow /\ row.status # Panel!Confirmed
  BY PanelConstants DEF Panel!Row, Panel!Pending, Panel!Confirmed
<1> HIDE DEF row
<1>5. /\ panelRegs'[k] = row
      /\ \A j \in Panel!Keys : j # k => panelRegs'[j] = panelRegs[j]
  BY <1>1, <1>3 DEF row
<1>6. Panel!Stored' = Panel!Stored \cup {k} /\ k \notin Panel!Stored
  BY <1>2, <1>4, <1>5 DEF Panel!Stored
<1>7. Panel!ConfirmedRows' = Panel!ConfirmedRows
  <2>1. \A j \in Panel!Stored : panelRegs'[j] = panelRegs[j]
    BY <1>3, <1>5, <1>6, RowFacts
  <2> QED BY <1>4, <1>5, <1>6, <2>1 DEF Panel!ConfirmedRows
<1>8. Cardinality(Panel!Stored') = Cardinality(Panel!Stored) + 1
      /\ Cardinality(Panel!Stored) \in Nat
  BY <1>3, <1>6, RowFacts, FS_AddElement, FS_CardinalityType
<1>9. panelRegs' \in [Panel!Keys -> Panel!Row \cup {NoPanelRow}]
  BY <1>1, <1>3, <1>4 DEF row
<1>10. Rows'
  BY <1>2, <1>3, <1>7, <1>8, <1>9, PanelConstants DEF Rows
<1>11. ASSUME NEW K \in SUBSET Panel!Keys
       PROVE  ConfOf(K) \in Int /\ ConfOf(K)' = ConfOf(K)
  BY <1>3, <1>7, ConfOfType DEF ConfOf
<1>12. /\ confirmations \in Int /\ confirmations' = confirmations
       /\ withdrawals \in Int /\ withdrawals' = withdrawals
  BY <1>2, <1>3, RowFacts
<1> QED BY <1>2, <1>10, <1>11, <1>12, WriteKeeps

LEMMA UndoKeeps ==
  ASSUME PanelInv, NEW k \in Panel!Keys, Panel!Undo(k)
  PROVE  PanelInv' /\ StepReads
<1>1. Rows /\ panelRegs \in [Panel!Keys -> Panel!Row \cup {NoPanelRow}]
  BY DEF PanelInv, Rows
<1>2. /\ panelRegs' = [panelRegs EXCEPT ![k] = NoPanelRow]
      /\ unheard' = unheard \ {k} /\ confirmations' = confirmations
      /\ counted' = counted /\ last' = last
  BY DEF Panel!Undo
<1>3. /\ panelRegs'[k] = NoPanelRow
      /\ \A j \in Panel!Keys : j # k => panelRegs'[j] = panelRegs[j]
  BY <1>1, <1>2
<1>4. Panel!Stored' = Panel!Stored \ {k}
  BY <1>3 DEF Panel!Stored
<1>5. Panel!ConfirmedRows' = Panel!ConfirmedRows \ {k}
  BY <1>3, <1>4 DEF Panel!ConfirmedRows, Panel!Stored
<1>6. k \in Panel!Stored
  BY <1>1, RowFacts DEF Panel!Undo, Rows
<1>7. Cardinality(Panel!Stored') <= MaxRows
  <2>1. /\ Cardinality(Panel!Stored') = Cardinality(Panel!Stored) - 1
        /\ Cardinality(Panel!Stored) \in Nat
    BY <1>1, <1>4, <1>6, RowFacts, FS_RemoveElement, FS_CardinalityType
  <2> QED BY <1>1, <2>1, PanelConstants DEF Rows
<1>8. panelRegs' \in [Panel!Keys -> Panel!Row \cup {NoPanelRow}]
  BY <1>1, <1>2
<1>9. /\ confirmations \in Nat /\ withdrawals \in Nat
      /\ IsFiniteSet(Panel!ConfirmedRows) /\ IsFiniteSet(unheard)
      /\ Cardinality(unheard) \in Nat /\ unheard \subseteq Panel!ConfirmedRows
      /\ \A K : ConfOf(K) \in Nat
  BY <1>1, RowFacts, ConfOfType DEF Rows
<1>10. CASE panelRegs[k].status = Panel!Pending /\ withdrawals' = withdrawals
  <2>1. k \notin Panel!ConfirmedRows
    BY <1>10 DEF Panel!ConfirmedRows, Panel!Pending, Panel!Confirmed
  <2>2. Panel!ConfirmedRows' = Panel!ConfirmedRows /\ unheard' = unheard
    BY <1>2, <1>5, <1>9, <2>1
  <2>3. Rows'
    BY <1>1, <1>2, <1>7, <1>8, <1>10, <2>2 DEF Rows
  <2>4. \A K : ConfOf(K)' = ConfOf(K)
    BY <2>2 DEF ConfOf
  <2> QED BY <1>2, <1>9, <1>10, <2>3, <2>4, WriteKeeps
<1>11. CASE k \in unheard /\ withdrawals' = withdrawals + 1
  <2>1. k \in Panel!ConfirmedRows
    BY <1>9, <1>11
  <2>2. /\ Cardinality(Panel!ConfirmedRows') = Cardinality(Panel!ConfirmedRows) - 1
        /\ Cardinality(Panel!ConfirmedRows) \in Nat
    BY <1>5, <1>9, <2>1, FS_RemoveElement, FS_CardinalityType
  <2>3. Cardinality(unheard') = Cardinality(unheard) - 1
    BY <1>2, <1>9, <1>11, FS_RemoveElement
  <2>4. unheard' \subseteq Panel!ConfirmedRows'
    BY <1>2, <1>5, <1>9
  <2>5. /\ confirmations' \in Nat /\ withdrawals' \in Nat
        /\ confirmations' - withdrawals' = Cardinality(Panel!ConfirmedRows')
        /\ withdrawals' + Cardinality(unheard') <= MaxLost
    BY <1>1, <1>2, <1>9, <1>11, <2>2, <2>3, PanelConstants DEF Rows
  <2>6. Rows'
    BY <1>7, <1>8, <2>4, <2>5 DEF Rows
  <2>7. ASSUME NEW K \in SUBSET Panel!Keys
        PROVE  ConfOf(K)' = ConfOf(K) \/ ConfOf(K)' = ConfOf(K) - 1
    <3>1. IsFiniteSet(K \cap Panel!ConfirmedRows)
      BY <1>9, FS_Intersection
    <3>2. CASE k \in K
      <4>1. K \cap Panel!ConfirmedRows' = (K \cap Panel!ConfirmedRows) \ {k}
        BY <1>5
      <4> QED BY <2>1, <3>1, <3>2, <4>1, FS_RemoveElement DEF ConfOf
    <3>3. CASE k \notin K
      <4>1. K \cap Panel!ConfirmedRows' = K \cap Panel!ConfirmedRows
        BY <1>5, <3>3
      <4> QED BY <4>1 DEF ConfOf
    <3> QED BY <3>2, <3>3
  <2>8. /\ confirmations <= confirmations' /\ withdrawals <= withdrawals'
        /\ confirmations' - confirmations = 0 /\ withdrawals' - withdrawals = 1
    BY <1>2, <1>9, <1>11
  <2>9. ASSUME NEW K \in SUBSET Panel!Keys
        PROVE  /\ ConfOf(K)' - ConfOf(K) <= confirmations' - confirmations
               /\ ConfOf(K) - ConfOf(K)' <= withdrawals' - withdrawals
    BY <1>9, <2>7, <2>8
  <2> QED BY <1>2, <2>6, <2>8, <2>9, WriteKeeps
<1> QED BY <1>10, <1>11 DEF Panel!Undo

LEMMA ConfirmKeeps ==
  ASSUME PanelInv, NEW k \in Panel!Keys, Panel!Confirm(k)
  PROVE  PanelInv' /\ StepReads
<1>1. /\ k \in Panel!Stored /\ panelRegs[k].status = Panel!Pending
      /\ panelRegs' = [panelRegs EXCEPT ![k].status = Panel!Confirmed]
      /\ confirmations' = confirmations + 1 /\ withdrawals' = withdrawals
      /\ counted' = counted /\ last' = last
  BY DEF Panel!Confirm
<1>2. Rows /\ panelRegs \in [Panel!Keys -> Panel!Row \cup {NoPanelRow}]
  BY DEF PanelInv, Rows
<1>3. panelRegs[k] \in Panel!Row
  BY <1>1, <1>2 DEF Panel!Stored
<1> DEFINE row == [panelRegs[k] EXCEPT !.status = Panel!Confirmed]
<1>4. row \in Panel!Row /\ row # NoPanelRow /\ row.status = Panel!Confirmed
  BY <1>3, PanelConstants DEF Panel!Row, Panel!Confirmed
<1>5. panelRegs' = [panelRegs EXCEPT ![k] = row]
  BY <1>1, <1>2
<1> HIDE DEF row
<1>6. /\ panelRegs'[k] = row
      /\ \A j \in Panel!Keys : j # k => panelRegs'[j] = panelRegs[j]
  BY <1>2, <1>5
<1>7. Panel!Stored' = Panel!Stored
  BY <1>1, <1>4, <1>6 DEF Panel!Stored
<1>8. /\ Panel!ConfirmedRows' = Panel!ConfirmedRows \cup {k}
      /\ k \notin Panel!ConfirmedRows
  BY <1>1, <1>4, <1>6, <1>7
  DEF Panel!ConfirmedRows, Panel!Stored, Panel!Pending, Panel!Confirmed
<1>9. /\ IsFiniteSet(Panel!ConfirmedRows) /\ confirmations \in Nat
      /\ withdrawals \in Nat
      /\ Cardinality(Panel!ConfirmedRows) \in Nat
      /\ Cardinality(Panel!ConfirmedRows') = Cardinality(Panel!ConfirmedRows) + 1
  BY <1>2, <1>8, RowFacts, FS_AddElement, FS_CardinalityType
<1>10. panelRegs' \in [Panel!Keys -> Panel!Row \cup {NoPanelRow}]
  BY <1>2, <1>4, <1>5
<1>11. Rows'
  <2>1. /\ unheard' \subseteq Panel!ConfirmedRows'
        /\ withdrawals' + Cardinality(unheard') <= MaxLost
    <3>1. CASE unheard' = unheard
      BY <1>1, <1>2, <1>8, <3>1 DEF Rows
    <3>2. CASE /\ withdrawals + Cardinality(unheard) < MaxLost
               /\ unheard' = unheard \cup {k}
      <4>1. /\ Cardinality(unheard') = Cardinality(unheard) + 1
            /\ Cardinality(unheard) \in Nat
        BY <1>2, <1>8, <3>2, RowFacts, FS_AddElement DEF Rows
      <4>2. withdrawals' + Cardinality(unheard') <= MaxLost
        BY <1>1, <1>9, <3>2, <4>1, PanelConstants
      <4> QED BY <1>2, <1>8, <3>2, <4>2 DEF Rows
    <3> QED BY <3>1, <3>2, PanelOperators DEF Panel!Confirm
  <2>2. /\ confirmations' \in Nat /\ withdrawals' \in Nat
        /\ confirmations' - withdrawals' = Cardinality(Panel!ConfirmedRows')
    BY <1>1, <1>2, <1>9 DEF Rows
  <2> QED BY <1>2, <1>7, <1>10, <2>1, <2>2 DEF Rows
<1>12. ASSUME NEW K \in SUBSET Panel!Keys
       PROVE  /\ ConfOf(K) \in Int /\ ConfOf(K)' \in Int
              /\ ConfOf(K) <= ConfOf(K)' /\ ConfOf(K)' - ConfOf(K) <= 1
  <2>1. IsFiniteSet(K \cap Panel!ConfirmedRows)
    BY <1>9, FS_Intersection
  <2>2. ConfOf(K) \in Nat
    BY <1>2, ConfOfType
  <2>3. CASE k \in K
    <3>1. K \cap Panel!ConfirmedRows' = (K \cap Panel!ConfirmedRows) \cup {k}
      BY <1>8, <2>3
    <3>2. ConfOf(K)' = ConfOf(K) + 1
      BY <1>8, <2>1, <3>1, FS_AddElement DEF ConfOf
    <3> QED BY <2>2, <3>2
  <2>4. CASE k \notin K
    <3>1. K \cap Panel!ConfirmedRows' = K \cap Panel!ConfirmedRows
      BY <1>8, <2>4
    <3>2. ConfOf(K)' = ConfOf(K)
      BY <3>1 DEF ConfOf
    <3> QED BY <2>2, <3>2
  <2> QED BY <2>3, <2>4
<1>13. /\ confirmations <= confirmations' /\ withdrawals <= withdrawals'
       /\ confirmations' - confirmations = 1 /\ withdrawals' - withdrawals = 0
  BY <1>1, <1>9
<1>14. ASSUME NEW K \in SUBSET Panel!Keys
       PROVE  /\ ConfOf(K)' - ConfOf(K) <= confirmations' - confirmations
              /\ ConfOf(K) - ConfOf(K)' <= withdrawals' - withdrawals
  BY <1>12, <1>13
<1> QED BY <1>1, <1>11, <1>13, <1>14, WriteKeeps

-----------------------------------------------------------------------------
(* What each request finds. *)
LEMMA ScopeCounts ==
  ASSUME Rows, NEW f \in Panel!Filters
  PROVE  /\ IsFiniteSet(Panel!Scope(f)) /\ Panel!Of(f) \subseteq Panel!Keys
         /\ Cardinality(Panel!Scope(f)) = ConfOf(Panel!Of(f))
         /\ ConfOf(Panel!Of(f)) \in Nat
<1>1. Panel!Of(f) \subseteq Panel!Keys
  BY DEF Panel!Of, Panel!Filters, Panel!Keys
<1>2. IsFiniteSet(Panel!Scope(f))
  BY RowFacts, FS_Intersection DEF Panel!Scope
<1> QED BY <1>1, <1>2, ConfOfType DEF Panel!Scope, ConfOf

LEMMA NoRaces ==
  <<>> \in UNION {[S -> 0..Panel!Cardinality(Races)] : S \in SUBSET Runners}
<1>1. <<>> \in [{} -> 0..Panel!Cardinality(Races)]
  OBVIOUS
<1> QED BY <1>1

LEMMA FigureIsAnswer ==
  ASSUME Rows, NEW kind \in {"referrals", "shirts", "people", "race"},
         NEW f \in Panel!Filters, NEW n \in Nat
  PROVE  /\ Panel!Figure(kind, f, n) \in Panel!Answer
         /\ Panel!ShirtsReadAsChart(Panel!Figure(kind, f, n))
<1> DEFINE b == Panel!Figure(kind, f, n)
<1>1. Panel!Now \in Panel!Date
  BY RowFacts
<1>2. b \in Panel!Answer
  <2>1. <<>> \in Seq(Panel!Sizes)
    OBVIOUS
  <2> QED BY <1>1, <2>1, NoRaces DEF Panel!Figure, Panel!Answer
<1>3. b.sizes = <<>>
  BY DEF Panel!Figure
<1>4. DOMAIN b.sizes = {}
  BY <1>3
<1> HIDE DEF b
<1>5. Panel!ShirtsReadAsChart(b)
  BY <1>4 DEF Panel!ShirtsReadAsChart
<1> QED BY <1>2, <1>5 DEF b

(* An answer that is reduced to one figure, and the figure is right. *)
LEMMA FigureIsSo ==
  ASSUME Rows, NEW b, NEW f \in Panel!Filters,
         b.race = f, b.kind # "people", b.figure = ConfOf(Panel!Of(f)),
         b.at = Panel!Now
  PROVE  \A x \in Sights(b) : IsSo(x)
<1>1. Panel!Shown(b) = [n |-> b.figure, at |-> b.at]
  BY DEF Panel!Shown
<1>2. Sights(b) = {Sight(Panel!Of(f), ConfOf(Panel!Of(f)), Panel!Now)}
  BY <1>1 DEF Sights, TotalOf
<1> QED BY <1>2, ScopeCounts, RowFacts DEF Sight, IsSo

LEMMA ReferralsKeep ==
  ASSUME PanelInv, NEW f \in Panel!Filters, Panel!ReferralSources(f)
  PROVE  PanelInv' /\ StepReads
<1>1. Rows
  BY DEF PanelInv
<1> DEFINE n == Cardinality(Panel!Scope(f))
           b == Panel!Figure("referrals", f, n)
<1>2. n = ConfOf(Panel!Of(f)) /\ n \in Nat
  BY <1>1, ScopeCounts
<1>3. Panel!Receive(b)
  BY <1>1, ScopeCounts, SourcesAddUp DEF Panel!ReferralSources
<1>4. SameRows /\ counted' = counted
  BY DEF Panel!ReferralSources, Panel!written, SameRows
<1>5. b \in Panel!Answer /\ Panel!ShirtsReadAsChart(b)
  BY <1>1, <1>2, FigureIsAnswer
<1>6. /\ b.race = f /\ b.kind = "referrals" /\ b.figure = n
      /\ b.at = Panel!Now
  BY DEF Panel!Figure
<1> HIDE DEF b
<1>7. \A x \in Sights(b) : IsSo(x)
  BY <1>1, <1>2, <1>6, FigureIsSo
<1> QED BY <1>3, <1>4, <1>5, <1>7, AnswerKeeps

LEMMA ByRaceKeeps ==
  ASSUME PanelInv, NEW f \in Races, Panel!ByRace(f)
  PROVE  PanelInv' /\ StepReads
<1>1. Rows /\ f \in Panel!Filters
  BY DEF PanelInv, Panel!Filters
<1> DEFINE n == Cardinality(Panel!Of(f) \cap Panel!ConfirmedRows)
           b == Panel!Figure("race", f, n)
<1>2. n = ConfOf(Panel!Of(f)) /\ n \in Nat
  BY <1>1, ScopeCounts DEF ConfOf
<1>3. Panel!Receive(b)
  BY PanelOperators DEF Panel!ByRace
<1>4. SameRows /\ counted' = counted
  BY DEF Panel!ByRace, Panel!written, SameRows
<1>5. b \in Panel!Answer /\ Panel!ShirtsReadAsChart(b)
  BY <1>1, <1>2, FigureIsAnswer
<1>6. b.race = f /\ b.kind = "race" /\ b.figure = n /\ b.at = Panel!Now
  BY DEF Panel!Figure
<1> HIDE DEF b
<1>7. \A x \in Sights(b) : IsSo(x)
  BY <1>1, <1>2, <1>6, FigureIsSo
<1> QED BY <1>3, <1>4, <1>5, <1>7, AnswerKeeps

-----------------------------------------------------------------------------
(* The list of people. *)

(* Who is listed for a race has one confirmed registration for it. *)
LEMMA ListedCount ==
  ASSUME Rows, NEW f \in Races
  PROVE  Cardinality(Panel!Listed(f)) = ConfOf(Panel!Of(f))
<1>1. f # AllRaces /\ f \in Panel!Filters
  BY PanelConstants DEF Panel!Filters
<1>2. Panel!Scope(f) \subseteq {f} \X Runners
  BY <1>1 DEF Panel!Scope, Panel!Of
<1> DEFINE g == [k \in Panel!Scope(f) |-> k[2]]
<1>3. \A k \in Panel!Scope(f) : k = <<f, k[2]>> /\ k[2] \in Panel!Listed(f)
  BY <1>2 DEF Panel!Listed
<1>4. g \in Injection(Panel!Scope(f), Panel!Listed(f))
  BY <1>3 DEF Injection, IsInjective
<1>5. g \in Surjection(Panel!Scope(f), Panel!Listed(f))
  <2>1. ASSUME NEW p \in Panel!Listed(f) PROVE \E k \in Panel!Scope(f) : g[k] = p
    <3>1. <<f, p>> \in Panel!Scope(f)
      BY <1>1 DEF Panel!Listed
    <3>2. g[<<f, p>>] = p
      BY <3>1
    <3> QED BY <3>1, <3>2
  <2> QED BY <1>3, <2>1 DEF Surjection
<1>6. ExistsBijection(Panel!Scope(f), Panel!Listed(f))
  BY <1>4, <1>5 DEF ExistsBijection, Bijection
<1> QED BY <1>1, <1>6, ScopeCounts, FS_Bijection

(* The races beside a name are the confirmed registrations of that person. *)
LEMMA RacesBesideName ==
  ASSUME Rows, NEW p \in Runners, NEW f
  PROVE  /\ Panel!RacesCount(p, f) = ConfOf(RowsOf(p))
         /\ Panel!RacesCount(p, f) \in 0..Panel!Cardinality(Races)
         /\ RowsOf(p) \subseteq Panel!Keys
<1> DEFINE K == RowsOf(p) \cap Panel!ConfirmedRows
<1>1. Panel!Of(AllRaces) = Panel!Keys
  BY DEF Panel!Of
<1>2. {k \in Panel!Scope(AllRaces) : k[2] = p} = K
  BY <1>1 DEF Panel!Scope, RowsOf
<1>3. Panel!RacesCount(p, f) = Cardinality(K)
  BY <1>2, PanelOperators DEF Panel!RacesCount
<1>4. RowsOf(p) \subseteq Races \X {p}
  BY DEF RowsOf, Panel!Keys
<1> DEFINE g == [k \in K |-> k[1]]
<1>5. \A k \in K : k = <<k[1], p>> /\ k[1] \in Races
  BY <1>4
<1>6. g \in Injection(K, Races)
  BY <1>5 DEF Injection, IsInjective
<1>7. Cardinality(K) <= Cardinality(Races)
  BY <1>6, PanelConstants, FS_Injection
<1>8. Cardinality(K) \in Nat /\ Cardinality(Races) \in Nat
  BY PanelConstants, ConfOfType, FS_CardinalityType DEF ConfOf
<1> QED BY <1>3, <1>7, <1>8, PanelOperators DEF ConfOf, RowsOf

LEMMA ListedIn ==
  ASSUME Rows, NEW f
  PROVE  /\ Panel!Listed(f) \subseteq Runners /\ IsFiniteSet(Panel!Listed(f))
         /\ Cardinality(Panel!Listed(f)) \in Nat
<1>1. Panel!Listed(f) \subseteq Runners
  BY DEF Panel!Listed
<1> QED BY <1>1, PanelConstants, FS_Subset, FS_CardinalityType

LEMMA CountPeopleKeeps ==
  ASSUME PanelInv, NEW f \in Panel!Filters, Panel!CountPeople(f)
  PROVE  PanelInv' /\ StepReads
<1>1. Rows /\ SightsFit /\ AnswersTyped /\ Panel!Now \in Panel!Date
  BY RowFacts DEF PanelInv
<1> DEFINE n == Cardinality(Panel!Listed(f))
<1>2. /\ SameRows /\ last' = last
      /\ counted' = [race |-> f, figure |-> n, at |-> Panel!Now]
  BY PanelOperators DEF Panel!CountPeople, Panel!written, SameRows
<1>3. n \in Nat
  BY <1>1, ListedIn
<1>4. f # AllRaces => n = ConfOf(Panel!Of(f))
  BY <1>1, ListedCount DEF Panel!Filters
<1> HIDE DEF n
<1>5. /\ counted'.race = f /\ counted'.figure = n
      /\ counted'.at = Panel!Now
  BY <1>2
<1>6. \A x \in SeenInCount' :
        f # AllRaces /\ x = Sight(Panel!Of(f), n, Panel!Now)
  BY <1>5 DEF SeenInCount
<1>7. \A x \in SeenInCount' : IsSo(x)
  BY <1>1, <1>4, <1>6, ScopeCounts, RowFacts DEF IsSo, Sight
<1>8. SeenLast' = SeenLast
  BY <1>2 DEF SeenLast
<1>9. \A x \in Seen' : x \in Seen \/ IsSo(x)
  BY <1>7, <1>8 DEF Seen
<1>10. Rows' /\ SightsFit'
  BY <1>1, <1>2, <1>9, SightsKeep
<1>11. AnswersTyped'
  BY <1>1, <1>2, <1>3 DEF AnswersTyped
<1>12. StepReads
  BY <1>2 DEF StepReads
<1> QED BY <1>10, <1>11, <1>12 DEF PanelInv

(* The races beside everybody's name add up to all confirmed registrations. *)
LEMMA HistoriesAddUp ==
  ASSUME Rows, NEW w, w = [p \in Runners |-> Panel!RacesCount(p, AllRaces)]
  PROVE  SumOf(w) = ConfOf(Panel!Of(AllRaces))
<1> DEFINE K == Panel!ConfirmedRows
           class == [k \in Panel!Keys |-> k[2]]
<1>1. IsFiniteSet(K) /\ K \subseteq Panel!Keys
  BY RowFacts
<1>2. DOMAIN w = Runners /\ IsFiniteSet(DOMAIN w)
  BY PanelConstants
<1>3. ASSUME NEW x \in Runners PROVE w[x] = Cardinality(InClasses(K, class, {x}))
  <2>1. InClasses(K, class, {x}) = RowsOf(x) \cap K
    BY <1>1 DEF InClasses, RowsOf
  <2> QED BY <2>1, RacesBesideName DEF ConfOf
<1>4. CountsClasses(w, DOMAIN w, K, class)
  BY <1>2, <1>3 DEF CountsClasses
<1>5. InClasses(K, class, DOMAIN w) = K
  BY <1>1, <1>2 DEF InClasses, Panel!Keys
<1>6. Panel!Of(AllRaces) \cap K = K
  BY <1>1 DEF Panel!Of
<1> HIDE DEF K, class
<1>7. SumOf(w) = Cardinality(K)
  BY <1>1, <1>2, <1>4, <1>5, SumOfFunction
<1> QED BY <1>6, <1>7 DEF ConfOf, K

LEMMA SelectPeopleKeeps ==
  ASSUME PanelInv, Panel!SelectPeople
  PROVE  PanelInv' /\ StepReads
<1>1. Rows /\ AnswersTyped /\ counted # NotCounted
  BY DEF PanelInv, Panel!SelectPeople
<1>2. counted \in [race : Panel!Filters, figure : Nat, at : Panel!Date]
  BY <1>1 DEF AnswersTyped
<1> DEFINE f == counted.race
           w == [p \in Panel!Listed(f) |-> Panel!RacesCount(p, f)]
           b == [Panel!Figure("people", f, counted.figure)
                   EXCEPT !.at = counted.at, !.races = w]
<1>3. Panel!Receive(b) /\ counted' = NotCounted /\ SameRows
  BY DEF Panel!SelectPeople, Panel!written, SameRows
<1>4. /\ b.kind = "people" /\ b.race = f /\ b.figure = counted.figure
      /\ b.at = counted.at /\ b.sizes = <<>> /\ b.races = w
      /\ b.seenAt = Panel!Now
  BY DEF Panel!Figure
<1>5. f \in Panel!Filters /\ Panel!Listed(f) \subseteq Runners
  BY <1>1, <1>2, ListedIn
<1>6. w \in [Panel!Listed(f) -> 0..Panel!Cardinality(Races)]
  BY <1>1, <1>5, RacesBesideName
<1>7. b \in Panel!Answer
  <2>1. w \in UNION {[S -> 0..Panel!Cardinality(Races)] : S \in SUBSET Runners}
    BY <1>5, <1>6
  <2>2. Panel!Now \in Panel!Date
    BY <1>1, RowFacts
  <2>3. <<>> \in Seq(Panel!Sizes)
    OBVIOUS
  <2> DEFINE c == Panel!Figure("people", f, counted.figure)
  <2> HIDE DEF w, f
  <2>4. b = [kind |-> "people", race |-> f, figure |-> counted.figure,
             at |-> counted.at, sizes |-> <<>>, races |-> w,
             seenAt |-> Panel!Now]
    <3>1. c = [kind |-> "people", race |-> f, figure |-> counted.figure,
               at |-> Panel!Now, sizes |-> <<>>, races |-> <<>>,
               seenAt |-> Panel!Now]
      BY DEF Panel!Figure
    <3>2. b = [c EXCEPT !.at = counted.at, !.races = w]
      OBVIOUS
    <3> HIDE DEF c, b
    <3> QED BY <3>1, <3>2
  <2>5. counted.figure \in Nat /\ counted.at \in Panel!Date
    BY <1>2
  <2> USE DEF f
  <2>6. f \in Panel!Filters
    BY <1>5
  <2> HIDE DEF b, c, f
  <2> QED BY <2>6, <2>1, <2>2, <2>3, <2>4, <2>5 DEF Panel!Answer
<1> HIDE DEF b
<1>8. Panel!ShirtsReadAsChart(b)
  <2>1. DOMAIN b.sizes = {}
    BY <1>4
  <2> QED BY <2>1 DEF Panel!ShirtsReadAsChart
<1>9. ASSUME NEW x \in PeopleIn(b) PROVE IsSo(x)
  <2>1. PICK p \in DOMAIN w : x = Sight(RowsOf(p), w[p], Panel!Now)
    BY <1>4 DEF PeopleIn
  <2>2. p \in Runners /\ w[p] = Panel!RacesCount(p, f)
    BY <1>5, <2>1
  <2> HIDE DEF w
  <2> QED BY <1>1, <2>1, <2>2, RacesBesideName, RowFacts DEF IsSo, Sight
<1>10. TotalOf(b) \in Seen \/ IsSo(TotalOf(b))
  <2>1. CASE f # AllRaces
    <3>1. Panel!Shown(b) = [n |-> counted.figure, at |-> counted.at]
      BY <1>4, <2>1 DEF Panel!Shown
    <3>2. TotalOf(b) = Sight(Panel!Of(counted.race), counted.figure, counted.at)
      BY <1>4, <3>1 DEF TotalOf
    <3> QED BY <1>1, <2>1, <3>2 DEF Seen, SeenInCount
  <2>2. CASE f = AllRaces
    <3>1. Panel!Shown(b) = [n |-> SumOf(b.races), at |-> b.seenAt]
      BY <1>4, <2>2 DEF Panel!Shown, SumOf
    <3>2. w = [p \in Runners |-> Panel!RacesCount(p, AllRaces)]
      BY <2>2 DEF Panel!Listed
    <3>3. SumOf(b.races) = ConfOf(Panel!Of(AllRaces))
      BY <1>1, <1>4, <3>2, HistoriesAddUp
    <3>4. TotalOf(b) = Sight(Panel!Of(AllRaces), ConfOf(Panel!Of(AllRaces)),
                             Panel!Now)
      BY <1>4, <2>2, <3>1, <3>3 DEF TotalOf
    <3> QED BY <1>1, <1>5, <2>2, <3>4, ScopeCounts, RowFacts DEF Sight, IsSo
  <2> QED BY <2>1, <2>2
<1>11. \A x \in Sights(b) : x \in Seen \/ IsSo(x)
  BY <1>9, <1>10 DEF Sights
<1> QED BY <1>3, <1>7, <1>8, <1>11, AnswerKeeps

-----------------------------------------------------------------------------
(* The shirts.  Every size but the empty one has its place on the chart. *)
LEMMA RankOfSize ==
  ASSUME NEW g \in Panel!Sizes
  PROVE  \/ g = "" /\ Panel!Rank(g) = 6
         \/ g # "" /\ \E n \in 1..6 : Panel!Chart[n] = g /\ Panel!Rank(g) = n - 1
<1>1. Len(Panel!Chart) = 6
  BY DEF Panel!Chart
<1>2. CASE g = ""
  BY <1>1, <1>2 DEF Panel!Rank
<1>3. CASE g # ""
  <2>1. \E n \in 1..6 : Panel!Chart[n] = g
    BY <1>1, <1>3 DEF Panel!Sizes
  <2>2. PICK n \in 1..6 : n = CHOOSE m \in 1..6 : Panel!Chart[m] = g
    BY <2>1
  <2>3. Panel!Chart[n] = g
    BY <2>1, <2>2
  <2>4. Panel!Rank(g) = n - 1
    BY <1>1, <1>3, <2>2 DEF Panel!Rank
  <2> QED BY <1>3, <2>3, <2>4
<1> QED BY <1>2, <1>3

LEMMA SizesInOrder ==
  ASSUME NEW g \in Panel!Sizes, NEW h \in Panel!Sizes, g # h,
         Panel!Rank(g) <= Panel!Rank(h)
  PROVE  \/ h = "" /\ g # ""
         \/ \E i, j \in DOMAIN Panel!Chart :
              i < j /\ Panel!Chart[i] = g /\ Panel!Chart[j] = h
<1>1. DOMAIN Panel!Chart = 1..6
  BY DEF Panel!Chart
<1>2. CASE h = ""
  BY <1>2
<1>3. CASE h # ""
  <2>1. PICK j \in 1..6 : Panel!Chart[j] = h /\ Panel!Rank(h) = j - 1
    BY <1>3, RankOfSize
  <2>2. g # ""
    <3>1. SUFFICES ASSUME g = "" PROVE FALSE
      OBVIOUS
    <3>2. Panel!Rank(g) = 6
      BY <3>1, RankOfSize
    <3>3. 6 <= j - 1
      BY <2>1, <3>2
    <3> QED BY <3>3
  <2>3. PICK i \in 1..6 : Panel!Chart[i] = g /\ Panel!Rank(g) = i - 1
    BY <2>2, RankOfSize
  <2>4. i - 1 <= j - 1 /\ i # j
    BY <2>1, <2>3
  <2>5. i < j
    BY <2>4
  <2> QED BY <1>1, <2>1, <2>3, <2>5
<1> QED BY <1>2, <1>3

LEMMA ShirtsKeep ==
  ASSUME PanelInv, NEW f \in Panel!Filters, Panel!ShirtSizes(f)
  PROVE  PanelInv' /\ StepReads
<1>1. Rows /\ IsFiniteSet(Panel!Scope(f))
  BY ScopeCounts DEF PanelInv
<1> DEFINE S == {Panel!Group(k) : k \in Panel!Scope(f)}
           CountOf(s) ==
             Panel!Cardinality({k \in Panel!Scope(f) : Panel!Group(k) = s})
           n == Panel!Total(S, CountOf)
           Lines(order) == [i \in DOMAIN order |-> Panel!Scanned(order[i])]
<1>2. PICK order \in [1..Panel!Cardinality(S) -> S] :
        /\ \A i, j \in DOMAIN order : i # j => order[i] # order[j]
        /\ \A i, j \in DOMAIN order :
             i < j => Panel!Rank(Panel!Scanned(order[i]))
                        <= Panel!Rank(Panel!Scanned(order[j]))
        /\ Panel!Receive([Panel!Figure("shirts", f, n)
                            EXCEPT !.sizes = Lines(order)])
  BY DEF Panel!ShirtSizes
<1>3. SameRows /\ counted' = counted
  BY DEF Panel!ShirtSizes, Panel!written, SameRows
<1>4. n = ConfOf(Panel!Of(f)) /\ n \in Nat
  BY <1>1, ScopeCounts, ShirtsAddUp
<1>5. S \subseteq Panel!Sizes
  <2>1. \A k \in Panel!Scope(f) : panelRegs[k].size \in Panel!Sizes \cup {Null}
    BY <1>1, RowFacts DEF Rows, Panel!Scope, Panel!ConfirmedRows, Panel!Stored, Panel!Row
  <2>2. "" \in Panel!Sizes
    BY DEF Panel!Sizes
  <2> QED BY <2>1, <2>2 DEF Panel!Group
<1>6. Panel!Cardinality(S) \in Nat
  <2> DEFINE class == [k \in Panel!Scope(f) |-> Panel!Group(k)]
  <2>1. /\ DOMAIN class = Panel!Scope(f) /\ class \in [Panel!Scope(f) -> S]
        /\ S = {class[k] : k \in Panel!Scope(f)}
    OBVIOUS
  <2> HIDE DEF class, S
  <2>2. IsFiniteSet(S)
    BY <1>1, <2>1, ClassesOf
  <2> QED BY <2>2, PanelOperators, FS_CardinalityType
<1> DEFINE lines == Lines(order)
           b == [Panel!Figure("shirts", f, n) EXCEPT !.sizes = lines]
<1>7. /\ DOMAIN lines = 1..Panel!Cardinality(S)
      /\ \A i \in DOMAIN lines : lines[i] \in Panel!Sizes /\ lines[i] = order[i]
  <2>1. DOMAIN lines = DOMAIN order /\ DOMAIN order = 1..Panel!Cardinality(S)
    BY <1>2
  <2>2. ASSUME NEW i \in DOMAIN lines
        PROVE  lines[i] \in Panel!Sizes /\ lines[i] = order[i]
    <3>1. order[i] \in S /\ lines[i] = Panel!Scanned(order[i])
      BY <1>2, <2>1
    <3>2. order[i] \in Panel!Sizes
      BY <1>5, <3>1
    <3> QED BY <3>1, <3>2, PanelConstants DEF Panel!Scanned
  <2> QED BY <2>1, <2>2
<1>8. lines \in Seq(Panel!Sizes)
  <2>1. lines \in [1..Panel!Cardinality(S) -> Panel!Sizes]
    BY <1>7
  <2> QED BY <1>6, <2>1
<1>9. Panel!Receive(b)
  BY <1>2
<1>10. ASSUME NEW i \in DOMAIN lines, NEW j \in DOMAIN lines, i < j
       PROVE  \/ lines[j] = "" /\ lines[i] # ""
              \/ \E k, l \in DOMAIN Panel!Chart :
                   k < l /\ Panel!Chart[k] = lines[i] /\ Panel!Chart[l] = lines[j]
  <2>1. DOMAIN lines = DOMAIN order
    OBVIOUS
  <2>2. i # j
    BY <1>6, <1>7, <1>10
  <2>3. lines[i] # lines[j] /\ Panel!Rank(lines[i]) <= Panel!Rank(lines[j])
    BY <1>2, <1>7, <1>10, <2>1, <2>2
  <2>4. lines[i] \in Panel!Sizes /\ lines[j] \in Panel!Sizes
    BY <1>7
  <2> HIDE DEF lines
  <2> QED BY <2>3, <2>4, SizesInOrder
<1> HIDE DEF lines, n
<1>11. /\ b.race = f /\ b.kind = "shirts" /\ b.figure = n
       /\ b.at = Panel!Now /\ b.sizes = lines
  BY DEF Panel!Figure
<1>12. b \in Panel!Answer
  BY <1>1, <1>4, <1>8, NoRaces, RowFacts DEF Panel!Figure, Panel!Answer
<1> HIDE DEF b
<1>13. Panel!ShirtsReadAsChart(b)
  BY <1>10, <1>11 DEF Panel!ShirtsReadAsChart
<1>14. \A x \in Sights(b) : IsSo(x)
  BY <1>1, <1>4, <1>11, FigureIsSo
<1> QED BY <1>3, <1>9, <1>12, <1>13, <1>14, AnswerKeeps

-----------------------------------------------------------------------------
LEMMA PanelInitial == Panel!Init => PanelInv
<1> SUFFICES ASSUME Panel!Init PROVE PanelInv
  OBVIOUS
<1>1. Rows
  <2>1. [source : Sources, size : {Null},
         status : {Panel!Pending, Panel!Confirmed}] \subseteq Panel!Row
    BY DEF Panel!Row
  <2>2. panelRegs \in [Panel!Keys -> Panel!Row \cup {NoPanelRow}]
    BY <2>1 DEF Panel!Init
  <2>3. Panel!ConfirmedRows \subseteq Panel!Keys
    BY DEF Panel!ConfirmedRows, Panel!Stored
  <2>4. Cardinality(Panel!ConfirmedRows) \in Nat
    BY <2>3, PanelConstants, FS_Subset, FS_CardinalityType
  <2>5. unheard = {} /\ withdrawals = 0 /\ Cardinality(unheard) = 0
    BY FS_EmptySet DEF Panel!Init
  <2>6. /\ confirmations = Cardinality(Panel!ConfirmedRows)
        /\ Cardinality(Panel!Stored) <= MaxRows
    BY PanelOperators DEF Panel!Init
  <2> QED BY <2>2, <2>4, <2>5, <2>6, PanelConstants DEF Rows
<1>2. AnswersTyped
  BY DEF Panel!Init, AnswersTyped
<1>3. Seen = {}
  BY DEF Panel!Init, Seen, SeenLast, SeenInCount
<1>4. SightsFit
  BY <1>3 DEF SightsFit
<1> QED BY <1>1, <1>2, <1>4 DEF PanelInv

LEMMA PanelStep ==
  ASSUME PanelInv, Panel!Next
  PROVE  PanelInv' /\ StepReads
<1>1. ASSUME NEW k \in Panel!Keys, Panel!Create(k) PROVE PanelInv' /\ StepReads
  BY <1>1, CreateKeeps
<1>2. ASSUME NEW k \in Panel!Keys, Panel!Confirm(k) PROVE PanelInv' /\ StepReads
  BY <1>2, ConfirmKeeps
<1>3. ASSUME NEW k \in Panel!Keys, Panel!Undo(k) PROVE PanelInv' /\ StepReads
  BY <1>3, UndoKeeps
<1>4. ASSUME NEW f \in Panel!Filters, Panel!ReferralSources(f)
      PROVE  PanelInv' /\ StepReads
  BY <1>4, ReferralsKeep
<1>5. ASSUME NEW f \in Panel!Filters, Panel!ShirtSizes(f)
      PROVE  PanelInv' /\ StepReads
  BY <1>5, ShirtsKeep
<1>6. ASSUME NEW f \in Panel!Filters, Panel!CountPeople(f)
      PROVE  PanelInv' /\ StepReads
  BY <1>6, CountPeopleKeeps
<1>7. ASSUME Panel!SelectPeople PROVE PanelInv' /\ StepReads
  BY <1>7, SelectPeopleKeeps
<1>8. ASSUME NEW f \in Races, Panel!ByRace(f) PROVE PanelInv' /\ StepReads
  BY <1>8, ByRaceKeeps
<1> QED BY <1>1, <1>2, <1>3, <1>4, <1>5, <1>6, <1>7, <1>8 DEF Panel!Next

LEMMA PanelRested ==
  ASSUME PanelInv, UNCHANGED panelVars
  PROVE  PanelInv' /\ StepReads
<1>1. SameRows /\ counted' = counted /\ last' = last
  BY DEF panelVars, SameRows
<1>2. Seen' = Seen
  BY <1>1 DEF Seen, SeenLast, SeenInCount
<1>3. Rows' /\ SightsFit'
  BY <1>1, <1>2, SightsKeep DEF PanelInv
<1>4. AnswersTyped' /\ StepReads
  BY <1>1 DEF PanelInv, AnswersTyped, StepReads
<1> QED BY <1>3, <1>4 DEF PanelInv

LEMMA PanelTypes == PanelInv => Panel!TypeOK
<1> SUFFICES ASSUME PanelInv PROVE Panel!TypeOK
  OBVIOUS
<1> QED BY RowFacts, PanelOperators
        DEF PanelInv, Rows, AnswersTyped, Panel!TypeOK

(* PanelsReconcile (Dashboard): the panel can be read as one though every
   widget is a statement of its own (adapters/postgres/repository.go:38), for
   any races, runners and rows, and though Register takes back rows that were
   confirmed without its knowing (participant/service/service.go:128). *)
THEOREM PanelReadsAsOne == ReportsSpec => PanelsReconcile
<1> DEFINE Inv == /\ part = "panel" => PanelInv
                  /\ part # "panel" => PanelRests
<1>1. ReportsInit => Inv
  BY PanelInitial DEF ReportsInit
<1>2. ASSUME Inv, [ReportsNext]_allVars PROVE Inv' /\ StepReads
  <2>1. CASE part = "panel"
    <3>1. part' = part /\ PanelInv
      BY <1>2, <2>1 DEF ReportsNext, allVars
    <3>2. Panel!Next \/ UNCHANGED panelVars
      BY <1>2, <2>1 DEF ReportsNext, allVars
    <3>3. PanelInv' /\ StepReads
      BY <3>1, <3>2, PanelStep, PanelRested
    <3> QED BY <2>1, <3>1, <3>3
  <2>2. CASE part # "panel"
    <3>1. part' = part /\ UNCHANGED panelVars
      BY <1>2, <2>2 DEF ReportsNext, allVars
    <3>2. PanelRests'
      BY <1>2, <2>2, <3>1 DEF panelVars, PanelRests, Rests
    <3>3. StepReads
      BY <3>1 DEF panelVars, StepReads
    <3> QED BY <2>2, <3>1, <3>2, <3>3
  <2> QED BY <2>1, <2>2
<1>3. Inv /\ [ReportsNext]_allVars =>
        [last' # last =>
           /\ \A a, b \in {last, last'} \ {NoAnswer} :
                Panel!FiguresReconcile(a, b) /\ Panel!HistoryNotNarrowed(a, b)
           /\ Panel!ShirtsReadAsChart(last')]_(Panel!vars)
  BY <1>2 DEF StepReads
<1>4. Inv /\ [ReportsNext]_allVars => Inv'
  BY <1>2
<1> QED BY <1>1, <1>3, <1>4, PTL
        DEF ReportsSpec, PanelsReconcile, Panel!PanelsReconcile

-----------------------------------------------------------------------------
(* The chart.  Its module has its own instance of the calendar. *)
LEMMA ChartOperators ==
  /\ \A d : Chart!IsDate(d) <=> IsDate(d)
  /\ \A a, b : Chart!Before(a, b) <=> Before(a, b)
  /\ \A a, b : Chart!AtMost(a, b) <=> AtMost(a, b)
  /\ \A d : Chart!NextDay(d) = NextDay(d)
  /\ \A d : Chart!PrevDay(d) = PrevDay(d)
  /\ \A n : Chart!ClampDays(n) = ClampDays(n)
  /\ \A S : Chart!Cardinality(S) = Cardinality(S)
<1>1. \A y : Chart!IsLeap(y) <=> IsLeap(y)
  BY DEF Chart!IsLeap, IsLeap
<1>2. \A y, m : Chart!DaysIn(y, m) = DaysIn(y, m)
  BY <1>1, Zenon DEF Chart!DaysIn, DaysIn
<1>3. \A d : Chart!IsDate(d) <=> IsDate(d)
  BY <1>2 DEF Chart!IsDate, IsDate
<1>4. \A y, m, d : Chart!Day(y, m, d) = Day(y, m, d)
  BY DEF Chart!Day, Day
<1>5. \A d : Chart!NextDay(d) = NextDay(d)
  BY <1>2, <1>4 DEF Chart!NextDay, NextDay
<1>6. \A d : Chart!PrevDay(d) = PrevDay(d)
  BY <1>2, <1>4 DEF Chart!PrevDay, PrevDay
<1>7. \A a, b : Chart!Before(a, b) <=> Before(a, b)
  BY DEF Chart!Before, Before
<1>8. \A a, b : Chart!AtMost(a, b) <=> AtMost(a, b)
  BY <1>7 DEF Chart!AtMost, AtMost
<1>9. \A n : Chart!ClampDays(n) = ClampDays(n)
  BY DEF Chart!ClampDays, ClampDays
<1>10. \A S : Chart!Cardinality(S) = Cardinality(S)
  BY DEF Chart!Cardinality, Cardinality
<1> QED BY <1>3, <1>5, <1>6, <1>7, <1>8, <1>9, <1>10

(* The days before the year of March y, and before its month m. *)
YearStart(y)  == 365 * y + y \div 4 - y \div 100 + y \div 400
MonthStart(m) == (153 * m + 2) \div 5
MarchYear(d)  == IF d.month > 2 THEN d.year ELSE d.year - 1
MarchMonth(d) == (d.month + 9) % 12

LEMMA NumberOf ==
  ASSUME NEW d
  PROVE  Chart!DayNumber(d)
           = YearStart(MarchYear(d)) + MonthStart(MarchMonth(d)) + d.day
BY DEF Chart!DayNumber, YearStart, MonthStart, MarchYear, MarchMonth

LEMMA MonthStarts ==
  /\ MonthStart(0) = 0    /\ MonthStart(1) = 31   /\ MonthStart(2) = 61
  /\ MonthStart(3) = 92   /\ MonthStart(4) = 122  /\ MonthStart(5) = 153
  /\ MonthStart(6) = 184  /\ MonthStart(7) = 214  /\ MonthStart(8) = 245
  /\ MonthStart(9) = 275  /\ MonthStart(10) = 306 /\ MonthStart(11) = 337
BY DEF MonthStart

LEMMA YearLength ==
  ASSUME NEW y \in Int
  PROVE  /\ YearStart(y) \in Int
         /\ YearStart(y + 1) - YearStart(y) = IF IsLeap(y + 1) THEN 366 ELSE 365
BY DEF YearStart, IsLeap

LEMMA YearsInOrder ==
  ASSUME NEW y \in Int, NEW z \in Int, y <= z
  PROVE  YearStart(y) <= YearStart(z)
<1>1. y \div 4 <= z \div 4 /\ y \div 400 <= z \div 400
  OBVIOUS
<1>2. z \div 100 - y \div 100 <= z - y + 1
  OBVIOUS
<1>3. y = z \/ 365 * (z - y) >= z - y + 1
  OBVIOUS
<1> QED BY <1>1, <1>2, <1>3 DEF YearStart

(* Where a date is: in its month, and its month in its year. *)
LEMMA DatePlaces ==
  ASSUME NEW d, IsDate(d)
  PROVE  /\ d.year \in Int /\ d.month \in 1..12 /\ d.day \in 1..31
         /\ MarchYear(d) \in Int /\ MarchMonth(d) \in 0..11
         /\ MonthStart(MarchMonth(d)) \in 0..337
         /\ MarchMonth(d) < 11 =>
              MonthStart(MarchMonth(d)) + d.day <= MonthStart(MarchMonth(d) + 1)
         /\ MonthStart(MarchMonth(d)) + d.day
              <= YearStart(MarchYear(d) + 1) - YearStart(MarchYear(d))
<1>1. /\ d.year \in Int /\ d.month \in 1..12 /\ d.day \in 1..31
      /\ d.day <= DaysIn(d.year, d.month)
  BY DEF IsDate
<1>2. PICK y \in Int, m \in 1..12, k \in 1..31 :
        y = d.year /\ m = d.month /\ k = d.day /\ k <= DaysIn(y, m)
  BY <1>1
<1>3. PICK n \in 0..11 : n = (m + 9) % 12
  OBVIOUS
<1>4. PICK z \in Int : z = IF m > 2 THEN y ELSE y - 1
  OBVIOUS
<1>5. MarchYear(d) = z /\ MarchMonth(d) = n
  BY <1>2, <1>3, <1>4 DEF MarchYear, MarchMonth
<1>6. /\ MonthStart(n) \in 0..337
      /\ n < 11 => MonthStart(n) + k <= MonthStart(n + 1)
  <2>1. n < 11 => m # 2
    BY <1>3
  <2>2. n < 11 => k <= IF n \in {1, 3, 6, 8} THEN 30 ELSE 31
    BY <1>2, <1>3, <2>1 DEF DaysIn
  <2> QED BY <2>2, MonthStarts
<1>7. MonthStart(n) + k <= YearStart(z + 1) - YearStart(z)
  <2>1. CASE n < 11
    <3>1. MonthStart(n) + k <= 337
      BY <1>6, <2>1, MonthStarts
    <3>2. /\ YearStart(z) \in Int /\ YearStart(z + 1) \in Int
          /\ YearStart(z + 1) - YearStart(z) >= 365
      <4>1. z + 1 \in Int
        OBVIOUS
      <4> QED BY <4>1, YearLength
    <3>3. MonthStart(n) \in Int
      BY <1>6
    <3> QED BY <3>1, <3>2, <3>3
  <2>2. CASE n = 11
    <3>1. m = 2 /\ z + 1 = y
      BY <1>3, <1>4, <2>2
    <3>2. k <= IF IsLeap(y) THEN 29 ELSE 28
      BY <1>2, <3>1 DEF DaysIn
    <3>3. YearStart(z + 1) - YearStart(z) = IF IsLeap(y) THEN 366 ELSE 365
      BY <3>1, YearLength
    <3> QED BY <2>2, <3>2, <3>3, MonthStarts
  <2> QED BY <2>1, <2>2
<1> QED BY <1>1, <1>2, <1>5, <1>6, <1>7

LEMMA NumberType ==
  ASSUME NEW d, IsDate(d)
  PROVE  Chart!DayNumber(d) \in Int
<1>1. d.day \in Int /\ MarchYear(d) \in Int /\ MonthStart(MarchMonth(d)) \in Int
  BY DatePlaces
<1>2. YearStart(MarchYear(d)) \in Int
  BY <1>1, YearLength
<1> QED BY <1>1, <1>2, NumberOf

(* The numbers of the days are in the order of the calendar. *)
LEMMA NumbersInOrder ==
  ASSUME NEW a, NEW b, IsDate(a), IsDate(b), Before(a, b)
  PROVE  Chart!DayNumber(a) < Chart!DayNumber(b)
<1>1. PICK ya \in Int, ma \in 0..11, yb \in Int, mb \in 0..11 :
        /\ ya = MarchYear(a) /\ ma = MarchMonth(a)
        /\ yb = MarchYear(b) /\ mb = MarchMonth(b)
  BY DatePlaces
<1>2. PICK ka \in 1..31, kb \in 1..31 : ka = a.day /\ kb = b.day
  BY DatePlaces
<1>3. (ya < yb) \/ (ya = yb /\ ma < mb) \/ (ya = yb /\ ma = mb /\ ka < kb)
  <2>1. PICK da \in Int, na \in 1..12, db \in Int, nb \in 1..12 :
          da = a.year /\ na = a.month /\ db = b.year /\ nb = b.month
    BY DatePlaces
  <2>2. (da < db) \/ (da = db /\ na < nb) \/ (da = db /\ na = nb /\ ka < kb)
    BY <1>2, <2>1 DEF Before
  <2>3. /\ ya = (IF na > 2 THEN da ELSE da - 1) /\ ma = (na + 9) % 12
        /\ yb = (IF nb > 2 THEN db ELSE db - 1) /\ mb = (nb + 9) % 12
    BY <1>1, <2>1 DEF MarchYear, MarchMonth
  <2>4. /\ ma = IF na > 2 THEN na - 3 ELSE na + 9
        /\ mb = IF nb > 2 THEN nb - 3 ELSE nb + 9
    BY <2>3
  <2> QED BY <2>2, <2>3, <2>4
<1>4. PICK u \in Int, v \in Int, i \in 0..337, j \in 0..337 :
        /\ u = YearStart(ya) /\ i = MonthStart(ma)
        /\ v = YearStart(yb) /\ j = MonthStart(mb)
  BY <1>1, DatePlaces, YearLength
<1>5. Chart!DayNumber(a) = u + i + ka /\ Chart!DayNumber(b) = v + j + kb
  BY <1>1, <1>2, <1>4, NumberOf
<1>6. CASE ya < yb
  <2>1. PICK w \in Int : w = YearStart(ya + 1)
    BY YearLength
  <2>2. i + ka <= w - u
    BY <1>1, <1>2, <1>4, <2>1, DatePlaces
  <2>3. w <= v
    <3>1. ya + 1 \in Int /\ ya + 1 <= yb
      BY <1>6
    <3> QED BY <1>4, <2>1, <3>1, YearsInOrder
  <2> QED BY <1>5, <2>2, <2>3
<1>7. CASE ya = yb /\ ma < mb
  <2>1. PICK w \in Int : w = MonthStart(ma + 1)
    BY DEF MonthStart
  <2>2. i + ka <= w
    BY <1>1, <1>2, <1>4, <1>7, <2>1, DatePlaces
  <2>3. w <= j
    BY <1>4, <1>7, <2>1 DEF MonthStart
  <2> QED BY <1>4, <1>5, <1>7, <2>2, <2>3
<1>8. CASE ya = yb /\ ma = mb /\ ka < kb
  BY <1>4, <1>5, <1>8
<1> QED BY <1>3, <1>6, <1>7, <1>8

LEMMA NumbersSeparate ==
  ASSUME NEW a, NEW b, IsDate(a), IsDate(b)
  PROVE  /\ Before(a, b) <=> Chart!DayNumber(a) < Chart!DayNumber(b)
         /\ Chart!DayNumber(a) = Chart!DayNumber(b) => a = b
<1>1. Before(a, b) \/ a = b \/ Before(b, a)
  <2>1. /\ a \in [year : Int, month : 1..12, day : 1..31]
        /\ b \in [year : Int, month : 1..12, day : 1..31]
    BY DEF IsDate
  <2> QED BY <2>1 DEF Before
<1>2. Chart!DayNumber(a) \in Int /\ Chart!DayNumber(b) \in Int
  BY NumberType
<1> QED BY <1>1, <1>2, NumbersInOrder

LEMMA NextDayNumber ==
  ASSUME NEW d, IsDate(d)
  PROVE  Chart!DayNumber(NextDay(d)) = Chart!DayNumber(d) + 1
<1>1. /\ d.year \in Int /\ d.month \in 1..12 /\ d.day \in 1..31
      /\ d.day <= DaysIn(d.year, d.month)
  BY DEF IsDate
<1>2. PICK y \in Int, m \in 1..12, k \in 1..31 :
        y = d.year /\ m = d.month /\ k = d.day /\ k <= DaysIn(y, m)
  BY <1>1
<1> DEFINE n == (m + 9) % 12
           z == IF m > 2 THEN y ELSE y - 1
<1>3. Chart!DayNumber(d) = YearStart(z) + MonthStart(n) + k
  BY <1>2, NumberOf DEF MarchYear, MarchMonth
<1>4. n \in 0..11 /\ z \in Int /\ YearStart(z) \in Int
  BY YearLength
<1>5. MonthStart(n) \in Int
  BY <1>4 DEF MonthStart
<1>6. CASE k < DaysIn(y, m)
  <2>1. NextDay(d) = Day(y, m, k + 1)
    BY <1>2, <1>6 DEF NextDay
  <2>2. Chart!DayNumber(NextDay(d)) = YearStart(z) + MonthStart(n) + (k + 1)
    BY <2>1, NumberOf DEF MarchYear, MarchMonth, Day
  <2> HIDE DEF n, z
  <2> QED BY <1>3, <1>4, <1>5, <2>2
<1>7. CASE k = DaysIn(y, m) /\ m < 12
  <2>1. NextDay(d) = Day(y, m + 1, 1)
    BY <1>2, <1>7 DEF NextDay
  <2>2. Chart!DayNumber(NextDay(d))
          = YearStart(IF m + 1 > 2 THEN y ELSE y - 1)
            + MonthStart((m + 1 + 9) % 12) + 1
    BY <2>1, NumberOf DEF MarchYear, MarchMonth, Day
  <2>3. CASE m = 2
    <3>1. n = 11 /\ z = y - 1 /\ (m + 1 + 9) % 12 = 0
      BY <2>3
    <3>2. k = IF IsLeap(y) THEN 29 ELSE 28
      BY <1>7, <2>3 DEF DaysIn
    <3>3. YearStart(y) - YearStart(y - 1) = IF IsLeap(y) THEN 366 ELSE 365
      <4>1. (y - 1) + 1 = y /\ y - 1 \in Int
        OBVIOUS
      <4> QED BY <4>1, YearLength
    <3>4. YearStart(y) \in Int /\ YearStart(y - 1) \in Int
      BY YearLength
    <3>5. Chart!DayNumber(d) = YearStart(y - 1) + 337 + k
      BY <1>3, <3>1, MonthStarts
    <3>6. Chart!DayNumber(NextDay(d)) = YearStart(y) + 0 + 1
      BY <2>2, <2>3, <3>1, MonthStarts
    <3> QED BY <3>2, <3>3, <3>4, <3>5, <3>6
  <2>4. CASE m # 2
    <3>1. n < 11 /\ (m + 1 + 9) % 12 = n + 1
      BY <1>7, <2>4
    <3>2. z = IF m + 1 > 2 THEN y ELSE y - 1
      BY <1>7, <2>4
    <3>3. k = IF n \in {1, 3, 6, 8} THEN 30 ELSE 31
      BY <1>7, <2>4 DEF DaysIn
    <3> HIDE DEF n, z
    <3>4. MonthStart(n) + k = MonthStart(n + 1)
      BY <1>4, <3>1, <3>3, MonthStarts
    <3>5. Chart!DayNumber(NextDay(d)) = YearStart(z) + MonthStart(n + 1) + 1
      BY <2>2, <3>1, <3>2
    <3> QED BY <1>3, <1>4, <1>5, <3>4, <3>5
  <2> QED BY <2>3, <2>4
<1>8. CASE k = DaysIn(y, m) /\ m = 12
  <2>1. NextDay(d) = Day(y + 1, 1, 1) /\ k = 31
    BY <1>2, <1>8 DEF NextDay, DaysIn
  <2>2. Chart!DayNumber(NextDay(d))
          = YearStart((y + 1) - 1) + MonthStart((1 + 9) % 12) + 1
    BY <2>1, NumberOf DEF MarchYear, MarchMonth, Day
  <2>3. (y + 1) - 1 = y /\ (1 + 9) % 12 = 10 /\ n = 9 /\ z = y
    BY <1>8
  <2>4. Chart!DayNumber(d) = YearStart(y) + 275 + 31
    BY <1>3, <2>1, <2>3, MonthStarts
  <2>5. Chart!DayNumber(NextDay(d)) = YearStart(y) + 306 + 1
    BY <2>2, <2>3, MonthStarts
  <2> QED BY <1>4, <2>3, <2>4, <2>5
<1>9. DaysIn(y, m) \in 28..31
  BY MonthLength
<1> QED BY <1>2, <1>6, <1>7, <1>8, <1>9

LEMMA PrevDayNumber ==
  ASSUME NEW d, IsDate(d)
  PROVE  /\ IsDate(PrevDay(d))
         /\ Chart!DayNumber(PrevDay(d)) = Chart!DayNumber(d) - 1
<1>1. /\ d \in [year : Int, month : 1..12, day : 1..31]
      /\ d.day <= DaysIn(d.year, d.month)
  BY DEF IsDate
<1>2. IsDate(PrevDay(d)) /\ NextDay(PrevDay(d)) = d
  <2>1. CASE d.day > 1
    BY <1>1, <2>1, MonthLength DEF PrevDay, NextDay, IsDate, Day
  <2>2. CASE d.day = 1 /\ d.month > 1
    <3>1. DaysIn(d.year, d.month - 1) \in 28..31
      BY <1>1, <2>2, MonthLength
    <3> QED BY <1>1, <2>2, <3>1 DEF PrevDay, NextDay, IsDate, Day
  <2>3. CASE d.day = 1 /\ d.month = 1
    <3>1. DaysIn(d.year - 1, 12) = 31
      BY DEF DaysIn
    <3> QED BY <1>1, <2>3, <3>1 DEF PrevDay, NextDay, IsDate, Day
  <2> QED BY <1>1, <2>1, <2>2, <2>3
<1>3. Chart!DayNumber(PrevDay(d)) \in Int
  BY <1>2, NumberType
<1> QED BY <1>2, <1>3, NextDayNumber

(* Days one after another from day d, forwards or back: one for every number. *)
Dated(n) == CHOOSE e : IsDate(e) /\ Chart!DayNumber(e) = n

LEMMA DatesForward ==
  ASSUME NEW d, IsDate(d), NEW i \in Nat
  PROVE  \E e : IsDate(e) /\ Chart!DayNumber(e) = Chart!DayNumber(d) + i
<1> DEFINE Has(n) ==
             \E e : IsDate(e) /\ Chart!DayNumber(e) = Chart!DayNumber(d) + n
           G == {n \in Nat : Has(n)}
<1>1. PICK c \in Int : c = Chart!DayNumber(d)
  BY NumberType
<1>2. 0 \in G
  BY <1>1
<1>3. ASSUME NEW n \in Nat, n \in G PROVE n + 1 \in G
  <2>1. PICK e : IsDate(e) /\ Chart!DayNumber(e) = c + n
    BY <1>1, <1>3
  <2>2. IsDate(NextDay(e)) /\ Chart!DayNumber(NextDay(e)) = c + n + 1
    BY <2>1, NextDayForward, NextDayNumber
  <2>3. c + n + 1 = c + (n + 1)
    OBVIOUS
  <2> QED BY <1>1, <2>2, <2>3
<1> HIDE DEF G
<1>4. Nat \subseteq G
  BY <1>2, <1>3, NatSetInduction
<1> QED BY <1>4 DEF G

LEMMA DatesBack ==
  ASSUME NEW d, IsDate(d), NEW i \in Nat
  PROVE  \E e : IsDate(e) /\ Chart!DayNumber(e) = Chart!DayNumber(d) - i
<1> DEFINE Has(n) ==
             \E e : IsDate(e) /\ Chart!DayNumber(e) = Chart!DayNumber(d) - n
           G == {n \in Nat : Has(n)}
<1>1. PICK c \in Int : c = Chart!DayNumber(d)
  BY NumberType
<1>2. 0 \in G
  BY <1>1
<1>3. ASSUME NEW n \in Nat, n \in G PROVE n + 1 \in G
  <2>1. PICK e : IsDate(e) /\ Chart!DayNumber(e) = c - n
    BY <1>1, <1>3
  <2>2. IsDate(PrevDay(e)) /\ Chart!DayNumber(PrevDay(e)) = c - n - 1
    BY <2>1, PrevDayNumber
  <2>3. c - n - 1 = c - (n + 1)
    OBVIOUS
  <2> QED BY <1>1, <2>2, <2>3
<1> HIDE DEF G
<1>4. Nat \subseteq G
  BY <1>2, <1>3, NatSetInduction
<1> QED BY <1>4 DEF G

LEMMA DaysAfterNumber ==
  ASSUME NEW d, IsDate(d), NEW i \in Nat
  PROVE  /\ IsDate(Chart!DaysAfter(d, i))
         /\ Chart!DayNumber(Chart!DaysAfter(d, i)) = Chart!DayNumber(d) + i
<1> DEFINE Walks(g) ==
             g = [n \in Nat |-> IF n = 0 THEN d ELSE Chart!NextDay(g[n - 1])]
           Right(e, n) == IsDate(e) /\ Chart!DayNumber(e) = Chart!DayNumber(d) + n
           f == CHOOSE g : Walks(g)
<1>1. PICK c \in Int : c = Chart!DayNumber(d)
  BY NumberType
<1>2. ASSUME NEW n \in Nat, NEW e, Right(e, n)
      PROVE  Right(Chart!NextDay(e), n + 1)
  <2>1. /\ IsDate(NextDay(e)) /\ Chart!NextDay(e) = NextDay(e)
        /\ Chart!DayNumber(NextDay(e)) = c + n + 1
    BY <1>1, <1>2, NextDayForward, NextDayNumber, ChartOperators
  <2>2. c + n + 1 = c + (n + 1)
    OBVIOUS
  <2> QED BY <1>1, <2>1, <2>2
<1>3. \E g : Walks(g)
  <2> DEFINE g == [n \in Nat |-> Dated(Chart!DayNumber(d) + n)]
  <2>1. \A n \in Nat : Right(g[n], n)
    BY DatesForward DEF Dated
  <2>2. ASSUME NEW n \in Nat
        PROVE  g[n] = IF n = 0 THEN d ELSE Chart!NextDay(g[n - 1])
    <3> HIDE DEF g
    <3>1. CASE n = 0
      <4>1. Right(d, 0)
        BY <1>1
      <4> QED BY <2>1, <3>1, <4>1, NumbersSeparate
    <3>2. CASE n # 0
      <4>1. n - 1 \in Nat /\ (n - 1) + 1 = n
        BY <3>2
      <4>2. Right(g[n - 1], n - 1)
        BY <2>1, <4>1
      <4> HIDE DEF Right
      <4>3. Right(Chart!NextDay(g[n - 1]), n)
        BY <1>2, <4>1, <4>2
      <4>4. Right(g[n], n)
        BY <2>1
      <4>5. g[n] = Chart!NextDay(g[n - 1])
        BY <4>3, <4>4, NumbersSeparate DEF Right
      <4> QED BY <3>2, <4>5
    <3> QED BY <3>1, <3>2
  <2>3. g = [n \in Nat |-> g[n]]
    OBVIOUS
  <2> HIDE DEF g
  <2>4. Walks(g)
    BY <2>2, <2>3
  <2> QED BY <2>4
<1>4. Walks(f)
  BY <1>3
<1>5. Chart!DaysAfter(d, i) = f[i]
  BY DEF Chart!DaysAfter
<1> HIDE DEF f
<1> DEFINE G == {n \in Nat : Right(f[n], n)}
<1>6. 0 \in G
  <2>1. f[0] = d
    BY <1>4
  <2> QED BY <1>1, <2>1
<1>7. ASSUME NEW n \in Nat, n \in G PROVE n + 1 \in G
  <2>1. n + 1 \in Nat /\ n + 1 # 0 /\ (n + 1) - 1 = n
    OBVIOUS
  <2>2. f[n + 1] = Chart!NextDay(f[n])
    BY <1>4, <2>1
  <2>3. Right(f[n], n)
    BY <1>7
  <2> HIDE DEF Right
  <2>4. Right(Chart!NextDay(f[n]), n + 1)
    BY <1>2, <2>3
  <2> QED BY <2>1, <2>2, <2>4
<1> HIDE DEF G
<1>8. Nat \subseteq G
  BY <1>6, <1>7, NatSetInduction
<1> QED BY <1>5, <1>8 DEF G

LEMMA DaysBeforeNumber ==
  ASSUME NEW d, IsDate(d), NEW i \in Nat
  PROVE  /\ IsDate(Chart!DaysBefore(d, i))
         /\ Chart!DayNumber(Chart!DaysBefore(d, i)) = Chart!DayNumber(d) - i
<1> DEFINE Walks(g) ==
             g = [n \in Nat |-> IF n = 0 THEN d ELSE Chart!PrevDay(g[n - 1])]
           Right(e, n) == IsDate(e) /\ Chart!DayNumber(e) = Chart!DayNumber(d) - n
           f == CHOOSE g : Walks(g)
<1>1. PICK c \in Int : c = Chart!DayNumber(d)
  BY NumberType
<1>2. ASSUME NEW n \in Nat, NEW e, Right(e, n)
      PROVE  Right(Chart!PrevDay(e), n + 1)
  <2>1. /\ IsDate(PrevDay(e)) /\ Chart!PrevDay(e) = PrevDay(e)
        /\ Chart!DayNumber(PrevDay(e)) = c - n - 1
    BY <1>1, <1>2, PrevDayNumber, ChartOperators
  <2>2. c - n - 1 = c - (n + 1)
    OBVIOUS
  <2> QED BY <1>1, <2>1, <2>2
<1>3. \E g : Walks(g)
  <2> DEFINE g == [n \in Nat |-> Dated(Chart!DayNumber(d) - n)]
  <2>1. \A n \in Nat : Right(g[n], n)
    BY DatesBack DEF Dated
  <2>2. ASSUME NEW n \in Nat
        PROVE  g[n] = IF n = 0 THEN d ELSE Chart!PrevDay(g[n - 1])
    <3> HIDE DEF g
    <3>1. CASE n = 0
      <4>1. Right(d, 0)
        BY <1>1
      <4> QED BY <2>1, <3>1, <4>1, NumbersSeparate
    <3>2. CASE n # 0
      <4>1. n - 1 \in Nat /\ (n - 1) + 1 = n
        BY <3>2
      <4>2. Right(g[n - 1], n - 1)
        BY <2>1, <4>1
      <4> HIDE DEF Right
      <4>3. Right(Chart!PrevDay(g[n - 1]), n)
        BY <1>2, <4>1, <4>2
      <4>4. Right(g[n], n)
        BY <2>1
      <4>5. g[n] = Chart!PrevDay(g[n - 1])
        BY <4>3, <4>4, NumbersSeparate DEF Right
      <4> QED BY <3>2, <4>5
    <3> QED BY <3>1, <3>2
  <2>3. g = [n \in Nat |-> g[n]]
    OBVIOUS
  <2> HIDE DEF g
  <2>4. Walks(g)
    BY <2>2, <2>3
  <2> QED BY <2>4
<1>4. Walks(f)
  BY <1>3
<1>5. Chart!DaysBefore(d, i) = f[i]
  BY DEF Chart!DaysBefore
<1> HIDE DEF f
<1> DEFINE G == {n \in Nat : Right(f[n], n)}
<1>6. 0 \in G
  <2>1. f[0] = d
    BY <1>4
  <2> QED BY <1>1, <2>1
<1>7. ASSUME NEW n \in Nat, n \in G PROVE n + 1 \in G
  <2>1. n + 1 \in Nat /\ n + 1 # 0 /\ (n + 1) - 1 = n
    OBVIOUS
  <2>2. f[n + 1] = Chart!PrevDay(f[n])
    BY <1>4, <2>1
  <2>3. Right(f[n], n)
    BY <1>7
  <2> HIDE DEF Right
  <2>4. Right(Chart!PrevDay(f[n]), n + 1)
    BY <1>2, <2>3
  <2> QED BY <2>1, <2>2, <2>4
<1> HIDE DEF G
<1>8. Nat \subseteq G
  BY <1>6, <1>7, NatSetInduction
<1> QED BY <1>5, <1>8 DEF G

-----------------------------------------------------------------------------
(* The chart under the registrations: those confirmed that were created on the
   day with a number, and on the k days from it. *)
Due(n)      == {q \in Regs : /\ Chart!Counted(q)
                             /\ Chart!DayNumber(chartRegs[q].created) = n}
DueIn(n, k) == {q \in Regs : /\ Chart!Counted(q)
                             /\ Chart!DayNumber(chartRegs[q].created) \in n..(n + k - 1)}

Dates == {d \in [year : Int, month : 1..12, day : 1..31] : IsDate(d)}
ChartReg == [created : Dates, confirmed : BOOLEAN]

ChartInv ==
  /\ chartDay \in Dates /\ passed \in 0..ChartMaxDays
  /\ chartRegs \in [Regs -> ChartReg \cup {NoReg}]
  /\ chartPc \in {"idle", "query"}
  /\ range.from \in Dates /\ range.to \in Dates
  /\ asked \in Int /\ asked \in DaysAsked \cup {1}
  /\ Chart!DayNumber(range.from) = Chart!DayNumber(range.to) - (ClampDays(asked) - 1)
  /\ \A i \in DOMAIN points : points[i].date \in Dates /\ points[i].count \in Nat

LEMMA DateFacts ==
  /\ \A d : d \in Dates <=> IsDate(d)
  /\ \A d \in Dates : Chart!DayNumber(d) \in Int
  /\ \A d \in Dates : Chart!IsDate(d) /\ Chart!NextDay(d) \in Dates
<1>1. \A d : d \in Dates <=> IsDate(d)
  BY DEF Dates, IsDate
<1> QED BY <1>1, NumberType, NextDayForward, ChartOperators

LEMMA ChartConstants ==
  /\ \A d \in ChartFirstDays : d \in Dates
  /\ ChartMaxDays \in Nat /\ DaysAsked \subseteq Int /\ IsFiniteSet(Regs)
<1>1. Chart!IsFiniteSet(Regs) => IsFiniteSet(Regs)
  BY DEF Chart!IsFiniteSet, IsFiniteSet
<1> QED BY <1>1, ReportsAssumption, DateFacts, ChartOperators
        DEF Chart!ConstantsAssumption

LEMMA ClampFacts ==
  /\ \A n \in Int : ClampDays(n) \in 1..MaxTimelineDays
  /\ ClampDays(1) = 1 /\ MaxTimelineDays \in Nat
BY TimelineAssumption DEF ClampDays

LEMMA ChartInitial == Chart!Init => ChartInv
<1> SUFFICES ASSUME Chart!Init PROVE ChartInv
  OBVIOUS
<1>1. /\ chartDay \in Dates /\ passed \in 0..ChartMaxDays
      /\ range.from = chartDay /\ range.to = chartDay /\ asked = 1
  BY ChartConstants DEF Chart!Init
<1>2. Chart!DayNumber(chartDay) = Chart!DayNumber(chartDay) - (1 - 1)
  BY <1>1, DateFacts
<1>3. chartRegs \in [Regs -> ChartReg \cup {NoReg}]
  BY DEF Chart!Init
<1>4. \A i \in DOMAIN points : points[i].date \in Dates /\ points[i].count \in Nat
  BY DEF Chart!Init
<1>5. chartPc = "idle"
  BY DEF Chart!Init
<1> QED BY <1>1, <1>2, <1>3, <1>4, <1>5, ClampFacts DEF ChartInv

LEMMA AskKeeps == ChartInv /\ Chart!Ask => ChartInv'
<1> SUFFICES ASSUME ChartInv, Chart!Ask PROVE ChartInv'
  OBVIOUS
<1>1. PICK n \in DaysAsked : asked' = n /\ range' = Chart!TimelineRange(n, chartDay)
  BY DEF Chart!Ask
<1>2. n \in Int /\ ClampDays(n) \in 1..MaxTimelineDays
  BY ChartConstants, ClampFacts
<1>3. PICK k \in Nat : k = ClampDays(n) - 1
  BY <1>2, ClampFacts
<1>4. /\ range'.from = Chart!DaysBefore(chartDay, k) /\ range'.to = chartDay
  BY <1>1, <1>3, ChartOperators DEF Chart!TimelineRange
<1>5. chartDay \in Dates
  BY DEF ChartInv
<1>6. /\ range'.from \in Dates
      /\ Chart!DayNumber(range'.from) = Chart!DayNumber(range'.to) - k
  BY <1>4, <1>5, DateFacts, DaysBeforeNumber
<1>7. /\ chartPc' = "query" /\ chartDay' = chartDay /\ passed' = passed
      /\ chartRegs' = chartRegs /\ points' = points
  BY DEF Chart!Ask
<1> QED BY <1>1, <1>2, <1>3, <1>4, <1>5, <1>6, <1>7 DEF ChartInv

(* The rows that the query groups for a day of the window are those due then. *)
LEMMA GroupIsDue ==
  ASSUME ChartInv, NEW e \in Dates,
         Chart!DayNumber(range.from) <= Chart!DayNumber(e),
         Chart!DayNumber(e) <= Chart!DayNumber(range.to)
  PROVE  (IF \E p \in Chart!Found(range) : p.date = e
            THEN (CHOOSE p \in Chart!Found(range) : p.date = e).count ELSE 0)
         = Cardinality(Due(Chart!DayNumber(e)))
<1> DEFINE rowsOf == {q \in Regs : /\ Chart!Counted(q)
                                  /\ Chart!InWindow(chartRegs[q].created, range)}
           On(d) == {q \in rowsOf : chartRegs[q].created = d}
           found == {[date |-> d, count |-> Chart!Cardinality(On(d))] :
                       d \in {chartRegs[q].created : q \in rowsOf}}
<1>1. Chart!Found(range) = found
  BY DEF Chart!Found
<1>2. /\ range.from \in Dates /\ range.to \in Dates
      /\ \A q \in Regs : Chart!Counted(q) => chartRegs[q].created \in Dates
  BY DEF ChartInv, ChartReg, Chart!Counted, Chart!IsReg
<1>3. Chart!InWindow(e, range)
  <2>1. Chart!DayNumber(Chart!NextDay(range.to)) = Chart!DayNumber(range.to) + 1
    BY <1>2, DateFacts, ChartOperators, NextDayNumber
  <2>2. /\ Chart!DayNumber(e) \in Int /\ Chart!DayNumber(range.from) \in Int
        /\ Chart!DayNumber(range.to) \in Int
        /\ IsDate(e) /\ IsDate(range.from) /\ IsDate(Chart!NextDay(range.to))
    BY <1>2, DateFacts
  <2>3. ~Before(e, range.from) /\ Before(e, Chart!NextDay(range.to))
    BY <2>1, <2>2, NumbersSeparate
  <2> QED BY <2>3, ChartOperators DEF Chart!InWindow, Chart!AtMost
<1>4. On(e) = Due(Chart!DayNumber(e))
  <2>1. ASSUME NEW q \in Regs, Chart!Counted(q)
        PROVE  chartRegs[q].created = e <=>
                 Chart!DayNumber(chartRegs[q].created) = Chart!DayNumber(e)
    BY <1>2, <2>1, DateFacts, NumbersSeparate
  <2> QED BY <1>3, <2>1 DEF Due
<1>5. CASE \E p \in found : p.date = e
  <2>1. PICK p \in found : p = CHOOSE x \in found : x.date = e
    BY <1>5
  <2>2. p.date = e
    BY <1>5, <2>1
  <2>3. p.count = Chart!Cardinality(On(e))
    <3>1. PICK d \in {chartRegs[q].created : q \in rowsOf} :
            p = [date |-> d, count |-> Chart!Cardinality(On(d))]
      BY <2>1
    <3>2. p.date = d /\ p.count = Chart!Cardinality(On(d))
      BY <3>1
    <3>3. d = e
      BY <2>2, <3>2
    <3> QED BY <3>2, <3>3
  <2> HIDE DEF found, On
  <2> QED BY <1>1, <1>4, <1>5, <2>1, <2>3, ChartOperators
<1>6. CASE ~(\E p \in found : p.date = e)
  <2>1. ASSUME NEW q \in On(e) PROVE FALSE
    <3>1. q \in rowsOf /\ chartRegs[q].created = e
      OBVIOUS
    <3>2. [date |-> e, count |-> Chart!Cardinality(On(e))] \in found
      BY <3>1
    <3> HIDE DEF found, On
    <3> QED BY <1>6, <3>2
  <2>2. On(e) = {}
    BY <2>1
  <2> HIDE DEF found, On
  <2> QED BY <1>1, <1>4, <1>6, <2>2, FS_EmptySet
<1> QED BY <1>5, <1>6

(* The answer has one point for each day asked for, from the first. *)
LEMMA AnswerFills ==
  ASSUME ChartInv, Chart!Answer
  PROVE  /\ DOMAIN points' = 1..ClampDays(asked) /\ Len(points') = ClampDays(asked)
         /\ \A i \in 1..ClampDays(asked) :
              /\ points'[i].date \in Dates
              /\ Chart!DayNumber(points'[i].date)
                   = Chart!DayNumber(range.from) + (i - 1)
              /\ points'[i].count
                   = Cardinality(Due(Chart!DayNumber(range.from) + (i - 1)))
<1>1. /\ range.from \in Dates /\ range.to \in Dates
      /\ ClampDays(asked) \in 1..MaxTimelineDays
      /\ Chart!DayNumber(range.from) \in Int
  BY DateFacts, ClampFacts DEF ChartInv
<1>2. PICK a \in Int, z \in Int, k \in 1..MaxTimelineDays :
        /\ a = Chart!DayNumber(range.from) /\ z = Chart!DayNumber(range.to)
        /\ k = ClampDays(asked) /\ a = z - (k - 1)
  BY <1>1, DateFacts DEF ChartInv
<1>3. MaxTimelineDays \in Nat
  BY ClampFacts
<1>4. ASSUME NEW i \in Nat
      PROVE  /\ Chart!DaysAfter(range.from, i) \in Dates
             /\ Chart!DayNumber(Chart!DaysAfter(range.from, i)) = a + i
  BY <1>1, <1>2, DateFacts, DaysAfterNumber
<1> DEFINE n == CHOOSE j \in 0..MaxTimelineDays :
                  Chart!DaysAfter(range.from, j) = range.to
<1>5. n = k - 1
  <2>1. \A j \in 0..MaxTimelineDays :
          Chart!DaysAfter(range.from, j) = range.to <=> j = k - 1
    <3> SUFFICES ASSUME NEW j \in 0..MaxTimelineDays
                 PROVE  Chart!DaysAfter(range.from, j) = range.to <=> j = k - 1
      OBVIOUS
    <3>1. /\ Chart!DaysAfter(range.from, j) \in Dates
          /\ Chart!DayNumber(Chart!DaysAfter(range.from, j)) = a + j
      BY <1>3, <1>4
    <3>2. Chart!DaysAfter(range.from, j) = range.to <=> a + j = z
      BY <1>1, <1>2, <3>1, DateFacts, NumbersSeparate
    <3>3. a + j = z <=> j = k - 1
      BY <1>2, <1>3
    <3> QED BY <3>2, <3>3
  <2>2. k - 1 \in 0..MaxTimelineDays
    BY <1>3
  <2> QED BY <2>1, <2>2
<1> DEFINE Date(i) == Chart!DaysAfter(range.from, i - 1)
           Count(i) == IF \E p \in Chart!Found(range) : p.date = Date(i)
                         THEN (CHOOSE p \in Chart!Found(range) : p.date = Date(i)).count
                         ELSE 0
<1>6. points' = [i \in 1..(n + 1) |-> [date |-> Date(i), count |-> Count(i)]]
  BY DEF Chart!Answer, Chart!FillTimeline
<1> HIDE DEF n
<1>7. n + 1 = k
  BY <1>3, <1>5
<1>8. points' = [i \in 1..k |-> [date |-> Date(i), count |-> Count(i)]]
  BY <1>6, <1>7
<1>9. ASSUME NEW i \in 1..k
      PROVE  /\ Date(i) \in Dates /\ Chart!DayNumber(Date(i)) = a + (i - 1)
             /\ Count(i) = Cardinality(Due(a + (i - 1)))
  <2>1. i - 1 \in Nat /\ a <= a + (i - 1) /\ a + (i - 1) <= z
    BY <1>2, <1>3
  <2>2. Date(i) \in Dates /\ Chart!DayNumber(Date(i)) = a + (i - 1)
    BY <1>4, <2>1
  <2> HIDE DEF Date
  <2>3. Count(i) = Cardinality(Due(Chart!DayNumber(Date(i))))
    BY <1>2, <2>1, <2>2, GroupIsDue
  <2> QED BY <2>2, <2>3
<1> HIDE DEF Date, Count
<1>10. DOMAIN points' = 1..k /\ Len(points') = k
  BY <1>3, <1>8
<1>11. \A i \in 1..k : points'[i].date = Date(i) /\ points'[i].count = Count(i)
  BY <1>8
<1> QED BY <1>2, <1>9, <1>10, <1>11

LEMMA ChartStep == ChartInv /\ [Chart!Next]_chartVars => ChartInv'
<1> SUFFICES ASSUME ChartInv, [Chart!Next]_chartVars PROVE ChartInv'
  OBVIOUS
<1>1. CASE Chart!Tick
  <2>1. chartDay' \in Dates /\ passed' \in 0..ChartMaxDays
    BY <1>1, DateFacts, ChartConstants DEF ChartInv, Chart!Tick
  <2> QED BY <1>1, <2>1 DEF ChartInv, Chart!Tick
<1>2. CASE Chart!Ask
  BY <1>2, AskKeeps
<1>3. CASE Chart!Answer
  <2>1. /\ chartPc' = "idle" /\ chartDay' = chartDay /\ passed' = passed
        /\ chartRegs' = chartRegs /\ range' = range /\ asked' = asked
    BY <1>3 DEF Chart!Answer
  <2>2. ASSUME NEW n PROVE Cardinality(Due(n)) \in Nat
    <3>1. IsFiniteSet(Due(n))
      BY ChartConstants, FS_Subset DEF Due
    <3> QED BY <3>1, FS_CardinalityType
  <2>3. \A i \in DOMAIN points' : points'[i].date \in Dates /\ points'[i].count \in Nat
    BY <1>3, <2>2, AnswerFills
  <2> QED BY <2>1, <2>3 DEF ChartInv
<1>4. ASSUME NEW q \in Regs, Chart!Create(q) \/ Chart!Confirm(q) \/ Chart!Undo(q)
      PROVE  ChartInv'
  <2>1. chartRegs' \in [Regs -> ChartReg \cup {NoReg}]
    <3>1. CASE Chart!Create(q)
      <4>1. [created |-> chartDay, confirmed |-> FALSE] \in ChartReg
        BY DEF ChartInv, ChartReg
      <4> QED BY <3>1, <4>1 DEF Chart!Create, ChartInv
    <3>2. CASE Chart!Confirm(q)
      <4>1. chartRegs[q] \in ChartReg
        BY <3>2 DEF Chart!Confirm, Chart!IsReg, ChartInv
      <4>2. [chartRegs[q] EXCEPT !.confirmed = TRUE] \in ChartReg
        BY <4>1 DEF ChartReg
      <4> QED BY <3>2, <4>2 DEF Chart!Confirm, ChartInv
    <3>3. CASE Chart!Undo(q)
      BY <3>3 DEF Chart!Undo, ChartInv
    <3> QED BY <1>4, <3>1, <3>2, <3>3
  <2> QED BY <1>4, <2>1 DEF Chart!Create, Chart!Confirm, Chart!Undo, ChartInv
<1>5. CASE UNCHANGED chartVars
  BY <1>5 DEF chartVars, ChartInv
<1> QED BY <1>1, <1>2, <1>3, <1>4, <1>5 DEF Chart!Next

LEMMA ChartTypes == ChartInv => Chart!TypeOK
<1> SUFFICES ASSUME ChartInv PROVE Chart!TypeOK
  OBVIOUS
<1>1. Chart!IsDate(chartDay) /\ Chart!IsDate(range.from) /\ Chart!IsDate(range.to)
  BY DateFacts DEF ChartInv
<1>2. Chart!AtMost(range.from, range.to)
  <2>1. /\ IsDate(range.from) /\ IsDate(range.to)
        /\ Chart!DayNumber(range.from) \in Int /\ Chart!DayNumber(range.to) \in Int
        /\ ClampDays(asked) \in 1..MaxTimelineDays
        /\ Chart!DayNumber(range.from)
             = Chart!DayNumber(range.to) - (ClampDays(asked) - 1)
    BY DateFacts, ClampFacts DEF ChartInv
  <2>2. ~(Chart!DayNumber(range.to) < Chart!DayNumber(range.from))
    BY <2>1, ClampFacts
  <2>3. ~Before(range.to, range.from)
    BY <2>1, <2>2, NumbersSeparate
  <2> QED BY <2>3, ChartOperators DEF Chart!AtMost
<1>3. \A q \in Regs : Chart!IsReg(chartRegs[q]) =>
        Chart!IsDate(chartRegs[q].created) /\ chartRegs[q].confirmed \in BOOLEAN
  BY DateFacts DEF ChartInv, ChartReg, Chart!IsReg
<1>4. \A i \in DOMAIN points : Chart!IsDate(points[i].date) /\ points[i].count \in Nat
  BY DateFacts DEF ChartInv
<1> QED BY <1>1, <1>2, <1>3, <1>4 DEF ChartInv, Chart!TypeOK

(* One more day adds those due on it. *)
LEMMA OneDayMore ==
  ASSUME NEW n \in Int, NEW k \in Nat
  PROVE  /\ IsFiniteSet(DueIn(n, k)) /\ Cardinality(DueIn(n, k)) \in Nat
         /\ DueIn(n, 0) = {}
         /\ Cardinality(DueIn(n, k + 1))
              = Cardinality(DueIn(n, k)) + Cardinality(Due(n + k))
<1>1. IsFiniteSet(DueIn(n, k)) /\ IsFiniteSet(Due(n + k))
  BY ChartConstants, FS_Subset DEF DueIn, Due
<1>2. \A x : x \in n..(n + (k + 1) - 1) <=> x \in n..(n + k - 1) \/ x = n + k
  OBVIOUS
<1>3. /\ DueIn(n, k + 1) = DueIn(n, k) \cup Due(n + k)
      /\ DueIn(n, k) \cap Due(n + k) = {}
  <2>1. n + k \notin n..(n + k - 1)
    OBVIOUS
  <2> QED BY <1>2, <2>1 DEF DueIn, Due
<1>4. DueIn(n, 0) = {}
  <2>1. n..(n + 0 - 1) = {}
    OBVIOUS
  <2> QED BY <2>1 DEF DueIn
<1> DEFINE a == DueIn(n, k)
           b == Due(n + k)
<1> HIDE DEF a, b
<1>5. IsFiniteSet(a) /\ IsFiniteSet(b) /\ a \cap b = {}
  BY <1>1, <1>3 DEF a, b
<1>6. /\ Cardinality(a) \in Nat /\ Cardinality(b) \in Nat
      /\ Cardinality(a \cap b) = 0
      /\ Cardinality(a \cup b)
           = Cardinality(a) + Cardinality(b) - Cardinality(a \cap b)
  BY <1>5, FS_Union, FS_EmptySet, FS_CardinalityType
<1>7. Cardinality(a \cup b) = Cardinality(a) + Cardinality(b)
  BY <1>6
<1> QED BY <1>1, <1>3, <1>4, <1>6, <1>7 DEF a, b

LEMMA SumOfPoints ==
  ASSUME NEW n \in Int, NEW k \in Nat, NEW s, Len(s) = k,
         \A i \in 1..k : s[i].count = Cardinality(Due(n + (i - 1)))
  PROVE  Chart!Sum(s) = Cardinality(DueIn(n, k))
<1> DEFINE Runs(g) ==
             g = [i \in 0..k |-> IF i = 0 THEN 0 ELSE g[i - 1] + s[i].count]
           f == CHOOSE g : Runs(g)
           sum == [i \in 0..k |-> Cardinality(DueIn(n, i))]
<1>1. ASSUME NEW i \in 1..k
      PROVE  /\ i - 1 \in 0..k /\ i \in 0..k /\ i # 0
             /\ Cardinality(DueIn(n, i))
                  = Cardinality(DueIn(n, i - 1)) + s[i].count
  <2>1. i - 1 \in Nat /\ (i - 1) + 1 = i
    OBVIOUS
  <2>2. Cardinality(DueIn(n, (i - 1) + 1))
          = Cardinality(DueIn(n, i - 1)) + Cardinality(Due(n + (i - 1)))
    BY <2>1, OneDayMore
  <2> QED BY <2>1, <2>2
<1>2. Cardinality(DueIn(n, 0)) = 0
  BY OneDayMore, FS_EmptySet
<1>3. \E g : Runs(g)
  <2>1. ASSUME NEW i \in 0..k
        PROVE  sum[i] = IF i = 0 THEN 0 ELSE sum[i - 1] + s[i].count
    <3>1. CASE i = 0
      BY <1>2, <3>1
    <3>2. CASE i \in 1..k
      <4>1. sum[i] = Cardinality(DueIn(n, i))
            /\ sum[i - 1] = Cardinality(DueIn(n, i - 1))
        BY <1>1, <3>2
      <4> HIDE DEF sum
      <4> QED BY <1>1, <3>2, <4>1
    <3> QED BY <3>1, <3>2
  <2>2. sum = [i \in 0..k |-> sum[i]]
    OBVIOUS
  <2> HIDE DEF sum
  <2>3. Runs(sum)
    BY <2>1, <2>2
  <2> QED BY <2>3
<1>4. Runs(f)
  BY <1>3
<1>5. Chart!Sum(s) = f[k]
  BY DEF Chart!Sum
<1> HIDE DEF f
<1> DEFINE G == {i \in Nat : i <= k => f[i] = Cardinality(DueIn(n, i))}
<1>6. 0 \in G
  <2>1. f[0] = 0
    BY <1>4
  <2> QED BY <1>2, <2>1
<1>7. ASSUME NEW i \in Nat, i \in G PROVE i + 1 \in G
  <2> SUFFICES ASSUME i + 1 <= k PROVE f[i + 1] = Cardinality(DueIn(n, i + 1))
    OBVIOUS
  <2>1. i + 1 \in 1..k /\ i + 1 \in 0..k /\ i + 1 # 0 /\ (i + 1) - 1 = i /\ i <= k
    OBVIOUS
  <2>2. f[i + 1] = f[i] + s[i + 1].count
    BY <1>4, <2>1
  <2>3. f[i] = Cardinality(DueIn(n, i))
    BY <1>7, <2>1
  <2> QED BY <1>1, <2>1, <2>2, <2>3
<1> HIDE DEF G
<1>8. Nat \subseteq G
  BY <1>6, <1>7, NatSetInduction
<1>9. f[k] = Cardinality(DueIn(n, k))
  BY <1>8 DEF G
<1> QED BY <1>5, <1>9

LEMMA AnswerAddsUp ==
  ASSUME ChartInv, Chart!Answer
  PROVE  /\ Chart!OnePointPerDay'
         /\ Chart!Sum(points') =
              Chart!Cardinality({q \in Regs :
                /\ chartRegs[q] # NoReg /\ chartRegs[q].confirmed
                /\ Chart!DayNumber(range.to) - Chart!DayNumber(chartRegs[q].created)
                     \in 0..(Chart!ClampDays(asked) - 1)})
<1>1. PICK a \in Int, z \in Int, k \in 1..MaxTimelineDays :
        /\ a = Chart!DayNumber(range.from) /\ z = Chart!DayNumber(range.to)
        /\ k = ClampDays(asked) /\ a = z - (k - 1)
  BY DateFacts, ClampFacts DEF ChartInv
<1>2. k \in Nat /\ k \in 1..k
  BY ClampFacts
<1>3. /\ DOMAIN points' = 1..k /\ Len(points') = k
      /\ \A i \in 1..k : /\ points'[i].date \in Dates
                          /\ Chart!DayNumber(points'[i].date) = a + (i - 1)
                          /\ points'[i].count = Cardinality(Due(a + (i - 1)))
  BY <1>1, AnswerFills
<1>4. /\ range' = range /\ asked' = asked /\ range.to \in Dates
      /\ Chart!ClampDays(asked) = k
  BY <1>1, ChartOperators DEF Chart!Answer, ChartInv
<1>5. Chart!OnePointPerDay'
  <2>1. Len(points') = Chart!ClampDays(asked)'
    BY <1>3, <1>4
  <2>2. points'[Len(points')].date = range'.to
    <3>1. /\ points'[k].date \in Dates
          /\ Chart!DayNumber(points'[k].date) = a + (k - 1)
      BY <1>2, <1>3
    <3>2. a + (k - 1) = z
      BY <1>1, <1>2
    <3>3. points'[k].date = range.to
      BY <1>1, <1>4, <3>1, <3>2, DateFacts, NumbersSeparate
    <3> QED BY <1>3, <1>4, <3>3
  <2>3. ASSUME NEW i \in 1..Len(points')
        PROVE  Chart!DayNumber(points'[i].date)
                 = Chart!DayNumber(range'.to) - (Len(points') - i)
    <3>1. i \in 1..k /\ a + (i - 1) = z - (k - i)
      BY <1>1, <1>2, <1>3
    <3> QED BY <1>1, <1>3, <1>4, <3>1
  <2> QED BY <2>1, <2>2, <2>3 DEF Chart!OnePointPerDay
<1>6. Chart!Sum(points') = Cardinality(DueIn(a, k))
  BY <1>2, <1>3, SumOfPoints
<1>7. DueIn(a, k) = {q \in Regs :
        /\ chartRegs[q] # NoReg /\ chartRegs[q].confirmed
        /\ Chart!DayNumber(range.to) - Chart!DayNumber(chartRegs[q].created)
             \in 0..(Chart!ClampDays(asked) - 1)}
  <2>1. ASSUME NEW q \in Regs, chartRegs[q] # NoReg
        PROVE  Chart!DayNumber(chartRegs[q].created) \in a..(a + k - 1)
               <=> z - Chart!DayNumber(chartRegs[q].created) \in 0..(k - 1)
    <3>1. PICK c \in Int : c = Chart!DayNumber(chartRegs[q].created)
      BY <2>1, DateFacts DEF ChartInv, ChartReg
    <3>2. c \in a..(a + k - 1) <=> z - c \in 0..(k - 1)
      BY <1>1, <1>2
    <3> QED BY <3>1, <3>2
  <2> QED BY <1>1, <1>4, <2>1 DEF DueIn, Chart!Counted, Chart!IsReg
<1> QED BY <1>5, <1>6, <1>7, ChartOperators

(* ChartAddsUp (Timeline): every chart has one point for each of its days and
   adds up to the registrations that were confirmed when it was drawn
   (domain/report.go:120-139), for any registrations, clock and days asked. *)
THEOREM ChartsAddUp == ReportsSpec => ChartAddsUp
<1> DEFINE Inv == (part = "chart" => ChartInv) /\ (part # "chart" => ChartRests)
<1>1. ReportsInit => Inv
  BY ChartInitial DEF ReportsInit
<1>2. Inv /\ [ReportsNext]_allVars => Inv'
  BY ChartStep DEF ReportsNext, allVars, chartVars, ChartRests, Rests
<1>3. ASSUME Inv, [ReportsNext]_allVars, chartPc = "query", chartPc' = "idle"
      PROVE  ChartInv /\ Chart!Answer
  <2>1. part = "chart"
    BY <1>3 DEF ChartRests, Rests
  <2>2. chartPc' # chartPc
    BY <1>3
  <2>3. Chart!Next
    BY <1>3, <2>1, <2>2 DEF ReportsNext, allVars, chartVars
  <2> QED BY <1>3, <2>1, <2>3
          DEF Chart!Next, Chart!Tick, Chart!Ask, Chart!Create, Chart!Confirm, Chart!Undo
<1>4. Inv /\ [ReportsNext]_allVars =>
        [chartPc = "query" /\ chartPc' = "idle" =>
           /\ Chart!OnePointPerDay'
           /\ Chart!Sum(points') =
                Chart!Cardinality({q \in Regs :
                  /\ chartRegs[q] # NoReg /\ chartRegs[q].confirmed
                  /\ Chart!DayNumber(range.to)
                       - Chart!DayNumber(chartRegs[q].created)
                       \in 0..(Chart!ClampDays(asked) - 1)})]_(Chart!vars)
  BY <1>3, AnswerAddsUp
<1> QED BY <1>1, <1>2, <1>4, PTL DEF ReportsSpec, ChartAddsUp, Chart!ChartAddsUp

-----------------------------------------------------------------------------
(* Types.  A panel that has asked for k pages has seen k - 1 full ones. *)
LEMMA PagesCount ==
  \A p, s \in Nat : s >= 1 => (p - 1) * s + s = p * s /\ p <= p * s
OBVIOUS

LEMMA PagersCount ==
  ASSUME PagingInv
  PROVE  /\ Cardinality(Pagers) \in Nat /\ Length \in 0..Cardinality(Pagers)
         /\ Paging!Cardinality(Pagers) = Cardinality(Pagers)
<1>1. OnList(name) \in SUBSET Pagers
  BY DEF OnList
<1> QED BY <1>1, PagingConstants, PagingOperators, Fewer DEF Length

LEMMA PageTyped ==
  ASSUME PagingInv, Paging!TypeOK, Paging!Select
  PROVE  /\ items' \in Seq(Pagers) /\ Len(items') <= limit
         /\ page' \in 0..(Paging!Cardinality(Pagers) + 1)
<1>1. /\ name \in Names /\ page \in Nat /\ limit \in Nat \ {0}
      /\ pagingPc = "select"
  BY DEF PagingInv, PagingTypes, Paging!Select
<1>2. PICK c \in Nat, n \in Nat :
        /\ c = Paging!Cardinality(Pagers) /\ n <= c
        /\ n = Length /\ n = Cardinality(OnList(name))
  BY PagersCount DEF Length
<1>3. PICK off \in Nat : off = Paging!Offset /\ off <= n
  BY <1>1, <1>2 DEF PagingInv, MissedSoFar
<1>4. PICK to \in Nat : to = IF off + limit < n THEN off + limit ELSE n
  BY <1>1, <1>2
<1>5. off <= to /\ to <= n /\ to - off <= limit /\ (to - off = limit => off + limit <= n)
  BY <1>1, <1>2, <1>3, <1>4
<1>6. PICK o \in Paging!Orders :
        items' = SubSeq(o, off + 1, IF off + limit < Len(o) THEN off + limit ELSE Len(o))
  BY <1>3 DEF Paging!Select
<1>7. o \in [1..n -> OnList(name)] /\ Len(o) = n
  BY <1>1, <1>2, <1>6, OrdersSorted DEF SortedList, Injection
<1>8. items' = SubSeq(o, off + 1, to)
  BY <1>4, <1>6, <1>7
<1>9. PICK it : it = items'
  OBVIOUS
<1>10. Len(it) = to - off
  <2>1. Sequence(o, n, OnList(name))
    BY <1>7 DEF Sequence
  <2> QED BY <1>2, <1>5, <1>8, <1>9, <2>1, RowsOfPage
<1>11. it \in Seq(Pagers)
  <2>1. o \in Seq(Pagers)
    <3>1. OnList(name) \subseteq Pagers
      BY DEF OnList
    <3> QED BY <1>2, <1>7, <3>1
  <2>2. it = [k \in 1..(to - off) |-> o[off + k]]
    BY <1>2, <1>5, <1>7, <1>8, <1>9
  <2>3. \A k \in 1..(to - off) : o[off + k] \in Pagers
    <3> SUFFICES ASSUME NEW k \in 1..(to - off) PROVE o[off + k] \in Pagers
      OBVIOUS
    <3>1. off + k \in 1..n
      BY <1>2, <1>5
    <3> QED BY <1>7, <3>1 DEF OnList
  <2>4. to - off \in Nat
    BY <1>5
  <2> QED BY <2>2, <2>3, <2>4
<1>12. page' \in 0..(c + 1)
  <2>1. CASE Len(items') = limit
    <3>1. page' = page + 1
      BY <2>1 DEF Paging!Select
    <3>2. off + limit <= n
      BY <1>5, <1>9, <1>10, <2>1
    <3>3. page <= off + limit
      BY <1>1, <1>3, PagesCount DEF Paging!Offset
    <3> QED BY <1>1, <1>2, <1>3, <3>1, <3>2, <3>3
  <2>2. CASE Len(items') # limit
    <3>1. page' = page
      BY <2>2 DEF Paging!Select
    <3> QED BY <1>2, <3>1 DEF Paging!TypeOK
  <2> QED BY <2>1, <2>2
<1> QED BY <1>2, <1>5, <1>9, <1>10, <1>11, <1>12

LEMMA PagingTypesKeep ==
  ASSUME PagingInv, PagingInv', Paging!TypeOK, [Paging!Next]_pagingVars
  PROVE  Paging!TypeOK'
<1>1. CASE Paging!Open
  <2>1. limit' \in 1..MaxPageSize
    BY <1>1, PagingConstants DEF Paging!Open, Paging!NormalSize
  <2>2. page' \in 0..(Paging!Cardinality(Pagers) + 1) /\ renames' \in 0..MaxRenames
    BY <1>1, PagersCount, PagingConstants DEF Paging!Open
  <2>3. items' = <<>> /\ Len(items') <= limit'
    BY <1>1, <2>1, PagingConstants DEF Paging!Open
  <2>4. there' \subseteq Pagers
    BY <1>1 DEF Paging!Open, Paging!Listed
  <2>5. items' \in Seq(Pagers)
    BY <2>3
  <2>6. shown' \in [Pagers -> Nat]
    BY <1>1 DEF Paging!Open
  <2> QED BY <1>1, <2>1, <2>2, <2>3, <2>4, <2>5, <2>6 DEF Paging!Open, Paging!TypeOK
<1>2. CASE Paging!Count
  <2>1. total' \in 0..Paging!Cardinality(Pagers)
    BY <1>2, PagersCount, PagingOperators DEF Paging!Count, Length
  <2> QED BY <1>2, <2>1 DEF Paging!Count, Paging!history, Paging!TypeOK
<1>3. CASE Paging!Select
  <2>1. /\ items' \in Seq(Pagers) /\ Len(items') <= limit'
        /\ page' \in 0..(Paging!Cardinality(Pagers) + 1)
    BY <1>3, PageTyped DEF Paging!Select
  <2>2. shown' \in [Pagers -> Nat] /\ pagingPc' \in {"idle", "count", "select", "done"}
    BY DEF PagingInv, PagingTypes
  <2> QED BY <1>3, <2>1, <2>2 DEF Paging!Select, Paging!TypeOK
<1>4. ASSUME NEW p \in Pagers, Paging!Upsert(p) PROVE Paging!TypeOK'
  <2>1. renames' \in 0..MaxRenames
    BY <1>4, PagingConstants DEF Paging!Upsert, Paging!TypeOK
  <2>2. name' \in [Pagers -> Surnames \cup {NoName}] /\ joined' \in BOOLEAN
    BY DEF PagingInv, PagingTypes, Names
  <2> QED BY <1>4, <2>1, <2>2 DEF Paging!Upsert, Paging!TypeOK
<1>5. CASE UNCHANGED pagingVars
  BY <1>5 DEF pagingVars, Paging!TypeOK
<1> QED BY <1>1, <1>2, <1>3, <1>4, <1>5 DEF Paging!Next

LEMMA PagingTypesInit == Paging!Init => Paging!TypeOK
<1> SUFFICES ASSUME Paging!Init PROVE Paging!TypeOK
  OBVIOUS
<1>1. Paging!Cardinality(Pagers) \in Nat
  BY PagingInitial, PagersCount
<1>2. limit \in 1..MaxPageSize /\ Len(items) <= limit /\ items \in Seq(Pagers)
  BY PagingConstants DEF Paging!Init
<1>3. renames \in 0..MaxRenames
  BY PagingConstants DEF Paging!Init
<1>4. joined \in BOOLEAN
  BY DEF Paging!Init
<1> QED BY <1>1, <1>2, <1>3, <1>4 DEF Paging!Init, Paging!TypeOK

(* A report that others are shown beside is the report itself: what Spec
   promises of the age filter, ReportsSpec promises too. *)
THEOREM ReportsShowAges == ReportsSpec => Spec
<1>1. ReportsInit => Init
  BY DEF ReportsInit, AgesRest
<1>2. [ReportsNext]_allVars => [Next]_vars
  BY DEF ReportsNext, allVars
<1> QED BY <1>1, <1>2, PTL DEF ReportsSpec, Spec

(* The variables of every report keep their types. *)
THEOREM ReportsTypes == ReportsSpec => []ReportsTypeOK
<1> DEFINE Inv == /\ part = "chart" => ChartInv
                  /\ part = "paging" => PagingInv /\ Paging!TypeOK
                  /\ part = "window" => WindowInv
                  /\ part = "panel" => PanelInv
<1>1. ReportsInit => Inv
  BY ChartInitial, PagingInitial, PagingTypesInit, WindowInitial, PanelInitial
  DEF ReportsInit
<1>2. Inv /\ [ReportsNext]_allVars => Inv'
  <2> SUFFICES ASSUME Inv, [ReportsNext]_allVars PROVE Inv'
    OBVIOUS
  <2>1. /\ part' = part
        /\ part = "chart" => [Chart!Next]_chartVars
        /\ part = "paging" => [Paging!Next]_pagingVars
        /\ part = "window" => [WindowNext]_windowVars
        /\ part = "panel" => Panel!Next \/ UNCHANGED panelVars
    BY DEF ReportsNext, allVars
  <2>2. part = "chart" => ChartInv'
    BY <2>1, ChartStep
  <2>3. part = "paging" => PagingInv' /\ Paging!TypeOK'
    BY <2>1, PagingStep, PagingTypesKeep
  <2>4. part = "window" => WindowInv'
    BY <2>1, WindowStep
  <2>5. part = "panel" => PanelInv'
    BY <2>1, PanelStep, PanelRested
  <2> QED BY <2>1, <2>2, <2>3, <2>4, <2>5
<1>3. Inv /\ TypeOK => ReportsTypeOK
  <2>1. WindowInv => Window!TypeOK
    BY DEF WindowInv, Window!TypeOK
  <2> QED BY <2>1, ChartTypes, PanelTypes DEF ReportsTypeOK
<1> QED BY <1>1, <1>2, <1>3, ReportsShowAges, AgeReportTypes, PTL DEF ReportsSpec
=============================================================================
