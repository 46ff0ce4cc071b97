------------------------------ MODULE Dashboard ------------------------------
(***************************************************************************)
(* The figures of the admin panel: the counts of internal/report and the   *)
(* report of one race (participant ByRace), while registrations come, are  *)
(* confirmed and are taken back.                                           *)
(*                                                                         *)
(* Each figure is a request of its own and one SQL statement, but for the  *)
(* list of people, which is counted and then selected.  Nothing makes the  *)
(* statements see the same rows, so `at` dates each figure by the numbers  *)
(* of confirmations and of withdrawals there had been.  Lists are read     *)
(* whole: ReportPaging has the pages.  The order of the sources is left    *)
(* out.                                                                    *)
(***************************************************************************)
EXTENDS Integers, Sequences, FiniteSets, FiniteSetsExt

CONSTANTS
  Races, People, Sources,
  ShirtForms,   \* what runners type for a shirt size
  MaxRows,      \* bound on the registrations table
  MaxLost,      \* bound on the confirmations that Register does not hear of
  AllRaces,     \* no race_id in the query
  Null, NoRow, NoAnswer, NotCounted

(* shirtsize.go; the order is that of shirtSizeOrder. *)
Chart == <<"XS", "S", "M", "L", "XL", "XXL">>
Sizes == {Chart[n] : n \in 1..Len(Chart)} \cup {""}

Pending   == "pendiente"
Confirmed == "confirmado"
Keys      == Races \X People       \* unique (race_id, participant_id)
Filters   == Races \cup {AllRaces}

(* talla_polera was added without a backfill: older rows hold NULL, while a
   registration without a shirt stores "". *)
Row == [source : Sources, size : Sizes \cup {Null}, status : {Pending, Confirmed}]

(* What the constants are; checked where they get their values. *)
ConstantsAssumption ==
  /\ IsFiniteSet(Races) /\ IsFiniteSet(People)
  /\ MaxRows \in Nat /\ MaxLost \in Nat
  /\ AllRaces \notin Races
  /\ Null \notin Sizes
  /\ NoRow \notin Row

VARIABLES
  regs,            \* registrations table
  unheard,         \* confirmed rows that a call of Register takes for pending
  confirmations,   \* history: how many confirmations there have been
  withdrawals,     \* history: how many confirmed rows have been taken back
  counted,         \* the list of people, counted and not yet selected
  last             \* the last answer the panel has got

written == <<regs, unheard, confirmations, withdrawals>>
vars    == <<written, counted, last>>

Stored        == {k \in Keys : regs[k] # NoRow}
ConfirmedRows == {k \in Stored : regs[k].status = Confirmed}

(* When a figure was counted. *)
Date == [confirmed : 0..(MaxRows + MaxLost), withdrawn : 0..MaxLost]

Now == [confirmed |-> confirmations, withdrawn |-> withdrawals]

(* An answer, reduced to what the panel adds up: its total, when that was
   counted, the sizes in the order shown, and the races beside each person. *)
Answer ==
  [kind : {"referrals", "shirts", "people", "race"}, race : Filters,
   figure : Nat, at : Date, sizes : Seq(Sizes),
   races : UNION {[S -> 0..Cardinality(Races)] : S \in SUBSET People},
   seenAt : Date]

TypeOK ==
  /\ regs \in [Keys -> Row \cup {NoRow}]
  /\ unheard \subseteq ConfirmedRows
  /\ withdrawals + Cardinality(unheard) <= MaxLost
  /\ Now \in Date
  /\ confirmations - withdrawals = Cardinality(ConfirmedRows)
  /\ counted = NotCounted \/ counted \in [race : Filters, figure : Nat, at : Date]
  /\ last = NoAnswer \/ last \in Answer

(* Any rows from before talla_polera. *)
Init ==
  /\ regs \in [Keys -> [source : Sources, size : {Null}, status : {Pending, Confirmed}]
                       \cup {NoRow}]
  /\ Cardinality(Stored) <= MaxRows
  /\ unheard = {}
  /\ confirmations = Cardinality(ConfirmedRows)
  /\ withdrawals = 0
  /\ counted = NotCounted
  /\ last = NoAnswer

-----------------------------------------------------------------------------
(* The write side, as Registration has it. *)

(* Mutant: any text is stored. *)
AcceptsAny(size) == TRUE

(* strings.ToUpper and TrimSpace, for the one text typed untidily. *)
Tidy(raw) == IF raw = " l" THEN "L" ELSE raw

(* ParseShirtSize: a size of the chart, or none. *)
Accepts(size) == size \in Sizes

Create(k) ==
  /\ regs[k] = NoRow /\ Cardinality(Stored) < MaxRows
  /\ \E source \in Sources, raw \in ShirtForms :
       /\ Accepts(Tidy(raw))
       /\ regs' = [regs EXCEPT ![k] =
                     [source |-> source, size |-> Tidy(raw), status |-> Pending]]
  /\ UNCHANGED <<unheard, confirmations, withdrawals, counted, last>>

(* The row is confirmed, and Register may not hear of it: the reply to the
   update is lost, or another caller confirmed. *)
Confirm(k) ==
  /\ k \in Stored /\ regs[k].status = Pending
  /\ regs' = [regs EXCEPT ![k].status = Confirmed]
  /\ \/ UNCHANGED unheard
     \/ /\ withdrawals + Cardinality(unheard) < MaxLost
        /\ unheard' = unheard \cup {k}
  /\ confirmations' = confirmations + 1
  /\ UNCHANGED <<withdrawals, counted, last>>

(* The compensating delete of Register: by id, whatever the status has become. *)
Undo(k) ==
  /\ \/ /\ k \in Stored /\ regs[k].status = Pending
        /\ UNCHANGED withdrawals
     \/ k \in unheard /\ withdrawals' = withdrawals + 1
  /\ regs' = [regs EXCEPT ![k] = NoRow]
  /\ unheard' = unheard \ {k}
  /\ UNCHANGED <<confirmations, counted, last>>

-----------------------------------------------------------------------------
(* The read side. *)

Of(f) == IF f = AllRaces THEN Keys ELSE {f} \X People

(* Mutant: the status is not looked at. *)
ScopeAny(f) == Of(f) \cap Stored

(* scopeConfirmed *)
Scope(f) == Of(f) \cap ConfirmedRows

Receive(a) == last' = a

(* The total of the groups of a GROUP BY. *)
Total(groups, CountOf(_)) == MapThenSumSet(CountOf, groups)

Figure(kind, f, n) ==
  [kind |-> kind, race |-> f, figure |-> n, at |-> Now,
   sizes |-> <<>>, races |-> <<>>, seenAt |-> Now]

(* ReferralSources: COUNT per source. *)
ReferralSources(f) ==
  LET CountOf(s) == Cardinality({k \in Scope(f) : regs[k].source = s}) IN
  /\ Receive(Figure("referrals", f,
                    Total({regs[k].source : k \in Scope(f)}, CountOf)))
  /\ UNCHANGED <<written, counted>>

(* COALESCE(talla_polera, '') *)
Group(k) == IF regs[k].size = Null THEN "" ELSE regs[k].size

(* shirtSizeRank: sizes off the chart come last. *)
Rank(size) ==
  IF size = "" THEN Len(Chart)
  ELSE (CHOOSE n \in 1..Len(Chart) : Chart[n] = size) - 1

(* What a group looks like in Go: a NULL is scanned as "". *)
Scanned(group) == IF group = Null THEN "" ELSE group

(* ShirtSizes: COUNT per group, the groups in whatever order the database
   finds them, then a stable sort by rank. *)
ShirtSizes(f) ==
  LET groups     == {Group(k) : k \in Scope(f)}
      CountOf(g) == Cardinality({k \in Scope(f) : Group(k) = g}) IN
  /\ \E order \in [1..Cardinality(groups) -> groups] :
       /\ \A m, n \in DOMAIN order : m # n => order[m] # order[n]
       /\ \A m, n \in DOMAIN order :
            m < n => Rank(Scanned(order[m])) <= Rank(Scanned(order[n]))
       /\ Receive([Figure("shirts", f, Total(groups, CountOf))
                     EXCEPT !.sizes = [n \in DOMAIN order |-> Scanned(order[n])]])
  /\ UNCHANGED <<written, counted>>

(* filterParticipants: EXISTS a confirmed registration for the race. *)
Listed(f) == {p \in People : f = AllRaces \/ <<f, p>> \in Scope(f)}

(* Participants: the count ... *)
CountPeople(f) ==
  /\ counted = NotCounted
  /\ counted' = [race |-> f, figure |-> Cardinality(Listed(f)), at |-> Now]
  /\ UNCHANGED <<written, last>>

(* COUNT(DISTINCT reg.race_id) over the confirmed registrations of p *)
RacesCount(p, f) == Cardinality({k \in Scope(AllRaces) : k[2] = p})

(* ... and the rows. *)
SelectPeople ==
  LET f == counted.race IN
  /\ counted # NotCounted
  /\ Receive([Figure("people", f, counted.figure)
                EXCEPT !.at = counted.at,
                       !.races = [p \in Listed(f) |-> RacesCount(p, f)]])
  /\ counted' = NotCounted
  /\ UNCHANGED written

(* ByRace lists the registrations of a race, pending ones too; the admin
   counts those that say confirmed. *)
ByRace(r) ==
  /\ Receive(Figure("race", r, Cardinality(Of(r) \cap ConfirmedRows)))
  /\ UNCHANGED <<written, counted>>

Next ==
  \/ \E k \in Keys : Create(k) \/ Confirm(k) \/ Undo(k)
  \/ \E f \in Filters : ReferralSources(f) \/ ShirtSizes(f) \/ CountPeople(f)
  \/ SelectPeople
  \/ \E r \in Races : ByRace(r)

Spec == Init /\ [][Next]_vars

-----------------------------------------------------------------------------
(* How many confirmed registrations an answer shows, and when it saw them: all
   lists but that of people without a race filter say so by their total, that
   one by the races beside the names. *)
Shown(a) ==
  IF a.kind = "people" /\ a.race = AllRaces
    THEN [n |-> MapThenSumSet(LAMBDA p : a.races[p], DOMAIN a.races), at |-> a.seenAt]
    ELSE [n |-> a.figure, at |-> a.at]

NotAfter(d, e) == d.confirmed <= e.confirmed /\ d.withdrawn <= e.withdrawn

(* By how much a count of confirmed rows may have moved from d to e. *)
Moves(d, e) == (d.withdrawn - e.withdrawn)..(e.confirmed - d.confirmed)

(* Two figures for the same races are equal but for the registrations confirmed
   between them, and for the confirmed ones that Register has taken back between
   them. *)
FiguresReconcile(a, b) ==
  a.race = b.race /\ NotAfter(Shown(a).at, Shown(b).at) =>
    Shown(b).n - Shown(a).n \in Moves(Shown(a).at, Shown(b).at)

(* The races beside a name are the person's whole history whichever race the
   list is filtered by (repository.go:212-214): two lists disagree about a
   person by no more than what was confirmed and taken back between them. *)
HistoryNotNarrowed(a, b) ==
  a.kind = "people" /\ b.kind = "people" /\ NotAfter(a.seenAt, b.seenAt) =>
    \A p \in DOMAIN a.races \cap DOMAIN b.races :
      b.races[p] - a.races[p] \in Moves(a.seenAt, b.seenAt)

(* The shirts are one line per size in the order of the chart, "no shirt" last,
   whatever order the database groups in and though NULL and "" both mean no
   shirt (report/domain/report.go:83-89). *)
ShirtsReadAsChart(a) ==
  \A m, n \in DOMAIN a.sizes :
    m < n => \/ a.sizes[n] = "" /\ a.sizes[m] # ""
             \/ \E i, j \in DOMAIN Chart :
                  i < j /\ Chart[i] = a.sizes[m] /\ Chart[j] = a.sizes[n]

(* "the numbers on one panel reconcile with the numbers on the next"
   (report/adapters/postgres/repository.go:38) though every widget is a
   statement of its own: no answer contradicts the one before, whatever was
   written between them, and none counts one thing as two.  Reading changes
   nothing, so answers with others between them are compared as well: in the
   behaviour without those. *)
PanelsReconcile ==
  [][last' # last =>
       /\ \A a, b \in {last, last'} \ {NoAnswer} :
            FiguresReconcile(a, b) /\ HistoryNotNarrowed(a, b)
       /\ ShirtsReadAsChart(last')]_vars

=============================================================================
