----------------------------- MODULE MCReports -----------------------------
(* The reports of the admin panel.  They only read and keep nothing between *)
(* requests, so one does not disturb another, and a behaviour shows one of   *)
(* them, its part, while the others rest.                                    *)
EXTENDS MCAgeReport, TLC

CONSTANTS
  Regs, ChartFirstDays, ChartMaxDays, DaysAsked, NoReg,               \* Timeline
  Pagers, Surnames, PageSizes, DefaultPageSize, MaxPageSize, MaxRenames,
  NoName,                                                             \* ReportPaging
  MaxInt, Typed, DefaultWindow, MaxWindow, MaxLength, NoPage,         \* PageWindow
  Races, Runners, Sources, ShirtForms, MaxRows, MaxLost, AllRaces, Null,
  NoPanelRow, NoAnswer, NotCounted                                    \* Dashboard

VARIABLES
  part,   \* the report that a behaviour shows
  chartDay, passed, chartRegs, chartPc, range, asked, points,
  name, pagingPc, page, limit, total, items, shown, there, joined, renames,
  length, url, window,
  panelRegs, unheard, confirmations, withdrawals, counted, last

Chart ==
  INSTANCE Timeline
    WITH FirstDays <- ChartFirstDays, MaxDays <- ChartMaxDays,
         today <- chartDay, regs <- chartRegs, pc <- chartPc

Paging ==
  INSTANCE ReportPaging
    WITH People <- Pagers, Sizes <- PageSizes, pc <- pagingPc

Window ==
  INSTANCE PageWindow
    WITH DefaultPageSize <- DefaultWindow, MaxPageSize <- MaxWindow,
         MaxRows <- MaxLength, rows <- length, answer <- window

Panel ==
  INSTANCE Dashboard
    WITH People <- Runners, NoRow <- NoPanelRow, regs <- panelRegs

ASSUME ReportsAssumption ==
  /\ Chart!ConstantsAssumption /\ Paging!ConstantsAssumption
  /\ Window!ConstantsAssumption /\ Panel!ConstantsAssumption

(* Windows over the end of February and the end of a year. *)
MCChartDays == {Day(2028, 2, 27), Day(2027, 2, 27), Day(2027, 12, 30)}
MCDaysAsked == {-1, 1, 3, 9}

(* Page sizes that are refused, used and clamped. *)
MCPageSizes == {-1, 1, 2, 7}

(* Ints of six bits, and numbers beyond either end of them. *)
MCTyped == -40..40

(* A size that is stored as typed, one that is tidied first, none, and no size. *)
MCShirtForms == {"", "XS", " l", "enorme"}

chartVars  == <<chartDay, passed, chartRegs, chartPc, range, asked, points>>
pagingVars == <<name, pagingPc, page, limit, total, items, shown, there, joined,
                renames>>
windowVars == <<length, url, window>>
panelVars  == <<panelRegs, unheard, confirmations, withdrawals, counted,
                last>>
allVars    == <<part, vars, chartVars, pagingVars, windowVars, panelVars>>

-----------------------------------------------------------------------------
Rests(v) == v = "rest"

AgesRest ==
  /\ Init
  /\ today = Day(2028, 2, 26) /\ \A p \in People : birth[p] = Day(2004, 1, 1)

ChartRests ==
  /\ Rests(chartDay) /\ Rests(passed) /\ Rests(chartRegs) /\ Rests(chartPc)
  /\ Rests(range) /\ Rests(asked) /\ Rests(points)

PagingRests ==
  /\ Rests(name) /\ Rests(pagingPc) /\ Rests(page) /\ Rests(limit)
  /\ Rests(total) /\ Rests(items) /\ Rests(shown) /\ Rests(there)
  /\ Rests(joined) /\ Rests(renames)

WindowRests == Rests(length) /\ Rests(url) /\ Rests(window)

PanelRests ==
  /\ Rests(panelRegs) /\ Rests(unheard) /\ Rests(confirmations)
  /\ Rests(withdrawals) /\ Rests(counted) /\ Rests(last)

ReportsInit ==
  /\ part \in {"ages", "chart", "paging", "window", "panel"}
  /\ IF part = "ages"   THEN Init        ELSE AgesRest
  /\ IF part = "chart"  THEN Chart!Init  ELSE ChartRests
  /\ IF part = "paging" THEN Paging!Init ELSE PagingRests
  /\ IF part = "window" THEN Window!Init ELSE WindowRests
  /\ IF part = "panel"  THEN Panel!Init  ELSE PanelRests

(* A window is one request. *)
WindowNext == Window!Next \/ (window # NoPage /\ UNCHANGED windowVars)

ReportsNext ==
  /\ UNCHANGED part
  /\ \/ /\ part = "ages" /\ Next
        /\ UNCHANGED <<chartVars, pagingVars, windowVars, panelVars>>
     \/ /\ part = "chart" /\ Chart!Next
        /\ UNCHANGED <<vars, pagingVars, windowVars, panelVars>>
     \/ /\ part = "paging" /\ Paging!Next
        /\ UNCHANGED <<vars, chartVars, windowVars, panelVars>>
     \/ /\ part = "window" /\ WindowNext
        /\ UNCHANGED <<vars, chartVars, pagingVars, panelVars>>
     \/ /\ part = "panel" /\ Panel!Next
        /\ UNCHANGED <<vars, chartVars, pagingVars, windowVars>>

ReportsSpec == ReportsInit /\ [][ReportsNext]_allVars

(* Identifiers that no constant tells apart. *)
Symmetry ==
  Permutations(Races) \cup Permutations(Runners) \cup Permutations(Sources)

-----------------------------------------------------------------------------
(* The properties of the parts besides AgeReport, as their modules state them. *)

(* The types of whichever report is shown. *)
ReportsTypeOK ==
  /\ part = "ages"   => TypeOK
  /\ part = "chart"  => Chart!TypeOK
  /\ part = "paging" => Paging!TypeOK
  /\ part = "window" => Window!TypeOK
  /\ part = "panel"  => Panel!TypeOK

(* Timeline: a chart has one point for each of its days and adds up to their
   confirmed registrations (domain/report.go:120-139). *)
ChartAddsUp == Chart!ChartAddsUp

(* ReportPaging: an admin who pages to the end has seen everybody but for
   changes of name, at rest once each, beside totals that never promise more
   (adapters/postgres/repository.go:159). *)
PagerShowsAll == part = "paging" => Paging!PagerShowsAll

(* PageWindow: a page lists the places that its number and size name, for every
   number typed in the URL whose product with the size is an int
   (domain/filter.go:107). *)
PageIsItsPlaces == part = "window" => Window!PageIsItsPlaces

(* Dashboard: figures for the same races, and the races beside a name, differ
   only by the registrations confirmed and taken back between them; the shirts
   are one line per size (adapters/postgres/repository.go:38). *)
PanelsReconcile == Panel!PanelsReconcile
=============================================================================
