---------------------------- MODULE ReportPaging ----------------------------
(***************************************************************************)
(* Paging through the participants report, GET /participants, while people *)
(* register.  Every page is a request of its own and sends two statements: *)
(* a COUNT and a SELECT with LIMIT and OFFSET, without a transaction.      *)
(* The panel asks for page 1, then for the next one while a page is full.  *)
(***************************************************************************)
EXTENDS Integers, Sequences, FiniteSets, SequencesExt

CONSTANTS
  People,           \* 1..n: a participant's number orders its uuid
  Surnames,         \* 1..n: what the list is sorted by
  Sizes,            \* page sizes the panel may ask for
  DefaultPageSize, MaxPageSize,
  MaxRenames,       \* bound on the changes of surname while the panel pages
  NoName

(* What the constants are; checked where they get their values. *)
ConstantsAssumption ==
  /\ People \subseteq Nat /\ IsFiniteSet(People)
  /\ Surnames \subseteq Nat /\ NoName \notin Surnames
  /\ Sizes \subseteq Int
  /\ MaxRenames \in Nat
  /\ MaxPageSize \in Nat \ {0} /\ DefaultPageSize \in 1..MaxPageSize

VARIABLES
  name,     \* participants table: person -> surname
  pc,       \* statement of the page request: "count", "select"; or "idle"
  page,     \* the page asked for, 0 before the first
  limit,    \* its size, normalized
  total,    \* what COUNT returned for it
  items,    \* the rows of the last page shown
  shown,    \* history: how often the panel has shown each person
  there,    \* history: who was there when the panel asked for page 1
  joined,   \* history: whether somebody has joined since
  renames   \* history: how often a surname has changed since

history == <<shown, there, joined, renames>>
vars    == <<name, pc, page, limit, total, items, history>>

Listed == {p \in People : name[p] # NoName}

TypeOK ==
  /\ name \in [People -> Surnames \cup {NoName}]
  /\ pc \in {"idle", "count", "select", "done"}
  /\ page \in 0..(Cardinality(People) + 1)
  /\ limit \in 1..MaxPageSize
  /\ total \in 0..Cardinality(People)
  /\ items \in Seq(People) /\ Len(items) <= limit
  /\ shown \in [People -> Nat]
  /\ there \subseteq People /\ joined \in BOOLEAN
  /\ renames \in 0..MaxRenames

Init ==
  /\ name \in [People -> Surnames \cup {NoName}]
  /\ pc = "idle" /\ page = 0 /\ limit = 1 /\ total = 0 /\ items = <<>>
  /\ shown = [p \in People |-> 0] /\ there = {}
  /\ joined = FALSE /\ renames = 0

-----------------------------------------------------------------------------
(* Registration, seen from the participants table. *)

(* INSERT ... ON CONFLICT (email) DO UPDATE: a new person, or one who
   registers again, under the same surname or another. *)
Upsert(p) ==
  /\ \E s \in Surnames : name' = [name EXCEPT ![p] = s]
  /\ \/ name[p] = NoName /\ joined' = TRUE /\ UNCHANGED renames
     \/ name[p] = name'[p] /\ UNCHANGED <<joined, renames>>
     \/ /\ name[p] \notin {NoName, name'[p]}
        /\ renames < MaxRenames /\ renames' = renames + 1
        /\ UNCHANGED joined
  /\ UNCHANGED <<pc, page, limit, total, items, shown, there>>

-----------------------------------------------------------------------------
(* Normalize: sizes are clamped, never refused. *)
NormalSize(n) ==
  IF n < 1 THEN DefaultPageSize
  ELSE IF n > MaxPageSize THEN MaxPageSize ELSE n

Offset == (page - 1) * limit

(* Mutant: ORDER BY the names only: ties come in any order. *)
ComesBeforeByName(p, q) == name[p] < name[q]

(* ORDER BY apellidos, nombres, id *)
ComesBefore(p, q) ==
  name[p] < name[q] \/ (name[p] = name[q] /\ p < q)

(* Every order of the rows that ORDER BY allows. *)
Orders ==
  {o \in SetToSeqs(Listed) :
     \A i, j \in DOMAIN o : i < j => ~ComesBefore(o[j], o[i])}

(* The panel asks for the first page. *)
Open ==
  /\ pc = "idle"
  /\ \E n \in Sizes : limit' = NormalSize(n)
  /\ pc' = "count" /\ page' = 1
  /\ there' = Listed /\ joined' = FALSE /\ renames' = 0
  /\ shown' = [p \in People |-> 0] /\ items' = <<>>
  /\ UNCHANGED <<name, total>>

(* Participants, first statement. *)
Count ==
  /\ pc = "count" /\ pc' = "select"
  /\ total' = Cardinality(Listed)
  /\ UNCHANGED <<name, page, limit, items, history>>

(* Participants, second statement: the page is shown, and a full one is
   followed by the next. *)
Select ==
  /\ pc = "select"
  /\ \E o \in Orders :
       items' = SubSeq(o, Offset + 1,
                       IF Offset + limit < Len(o) THEN Offset + limit ELSE Len(o))
  /\ shown' = [p \in People |->
                 shown[p] + (IF p \in ToSet(items') THEN 1 ELSE 0)]
  /\ IF Len(items') = limit
       THEN pc' = "count" /\ page' = page + 1
       ELSE pc' = "done" /\ UNCHANGED page
  /\ UNCHANGED <<name, limit, total, there, joined, renames>>

Next == Open \/ Count \/ Select \/ \E p \in People : Upsert(p)

Spec == Init /\ [][Next]_vars

-----------------------------------------------------------------------------
(* Whoever was there when the admin opened the list has been shown by the
   time the last page is, though people join while the admin pages: a new row
   moves others to a later page, never to an earlier one.  Somebody who
   registers again under another surname does move, and hides one person at
   most, themselves or the one who slips over the edge of a page: never are
   more people missed than surnames changed meanwhile. *)
MissedOnlyByRenames ==
  pc = "done" => Cardinality({p \in there : shown[p] = 0}) <= renames

(* With nobody joining or renamed, everybody is shown exactly once, namesakes included:
   "a row cannot drift between pages" (adapters/postgres/repository.go:159). *)
ExactlyOnceAtRest ==
  pc = "done" /\ ~joined /\ renames = 0 =>
    \A p \in People : shown[p] = (IF p \in there THEN 1 ELSE 0)

(* The total beside a page was the length of the list at some moment of that
   request: it never promises more people than there are, and at rest it is
   the number of people on the pages (domain/report.go:56-63). *)
TotalNeverAhead ==
  /\ total <= Cardinality(Listed)
  /\ pc = "done" /\ ~joined /\ renames = 0 => total = Offset + Len(items)

(* What an admin who pages to the end may rely on, though count and page are
   two statements and each page a request of its own. *)
PagerShowsAll == MissedOnlyByRenames /\ ExactlyOnceAtRest /\ TotalNeverAhead
=============================================================================
