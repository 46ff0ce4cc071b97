----------------------------- MODULE PageWindow -----------------------------
(***************************************************************************)
(* One page of the participants report, from the page number and size in   *)
(* the URL to the rows that are listed: what ReportPaging, whose panel     *)
(* only asks for the next page, leaves out.  The URL may hold any number.  *)
(* Go's int ends at MaxInt here; the database counts without a bound.      *)
(***************************************************************************)
EXTENDS Integers

CONSTANTS
  MaxInt,                       \* the largest int, 2^63 - 1 in Go
  Typed,                        \* numbers that the URL may hold
  DefaultPageSize, MaxPageSize,
  MaxRows,                      \* bound on the length of the list
  NoPage

MinInt == -MaxInt - 1

Page == [page : 1..MaxInt, pageSize : 1..MaxPageSize, items : SUBSET (1..MaxRows)]

(* What the constants are; checked where they get their values. *)
ConstantsAssumption ==
  /\ MaxInt \in Nat
  /\ Typed \subseteq Int
  /\ MaxPageSize \in 1..MaxInt /\ DefaultPageSize \in 1..MaxPageSize
  /\ MaxRows \in Nat /\ MaxRows <= MaxInt
  /\ NoPage \notin Page

VARIABLES
  rows,    \* how many people the list has; they are called by their places
  url,     \* page and page_size as they were typed
  answer   \* the response

vars == <<rows, url, answer>>

TypeOK ==
  /\ rows \in 0..MaxRows
  /\ url \in Typed \X Typed
  /\ answer \in Page \cup {NoPage}

(* strconv.Atoi with its error ignored: a number out of range comes back as
   the end of the range it is beyond. *)
Atoi(n) == IF n > MaxInt THEN MaxInt ELSE IF n < MinInt THEN MinInt ELSE n

(* The result of an int operation, in two's complement. *)
Wrapped(n) == ((n - MinInt) % (MaxInt - MinInt + 1)) + MinInt

(* Normalize *)
NormalPage(n) == IF n < 1 THEN 1 ELSE n

NormalSize(n) ==
  IF n < 1 THEN DefaultPageSize
  ELSE IF n > MaxPageSize THEN MaxPageSize ELSE n

(* Mutant: pages counted from zero. *)
OffsetFromZero(page, size) == Wrapped(page * size)

(* Resolve *)
Offset(page, size) == Wrapped(Wrapped(page - 1) * size)

(* LIMIT and OFFSET: gorm writes no OFFSET unless it is positive. *)
Listed(offset, limit) ==
  {k \in 1..rows : LET from == IF offset > 0 THEN offset ELSE 0
                   IN  from < k /\ k <= from + limit}

Init ==
  /\ rows \in 0..MaxRows
  /\ url \in Typed \X Typed
  /\ answer = NoPage

(* GET /participants?page=&page_size= *)
Participants ==
  LET page == NormalPage(Atoi(url[1]))
      size == NormalSize(Atoi(url[2]))
  IN  /\ answer = NoPage
      /\ answer' = [page |-> page, pageSize |-> size,
                    items |-> Listed(Offset(page, size), size)]
      /\ UNCHANGED <<rows, url>>

Next == Participants

Spec == Init /\ [][Next]_vars

-----------------------------------------------------------------------------
(* Places of the list that page p of size s stands for, in numbers that do not
   wrap. *)
Places(p, s) == {k \in 1..rows : (p - 1) * s < k /\ k <= p * s}

(* The page and the size in the answer say which places of the list are in it:
   a number or size that was clamped is the one that was used, and a page
   beyond the end is empty.  This is so for every page whose last row has a
   place that an int can hold, the first 2^63 / 100 at the least; beyond, the
   offset wraps. *)
PageIsItsPlaces ==
  answer # NoPage /\ answer.page * answer.pageSize <= MaxInt =>
    answer.items = Places(answer.page, answer.pageSize)
=============================================================================
