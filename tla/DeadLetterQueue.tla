--------------------------- MODULE DeadLetterQueue ---------------------------
(***************************************************************************)
(* The dead-letter table and the monitor on it (webhook-sdk/src/           *)
(* dead_letter.rs, monitor.rs).  Rows are only ever added, by any number   *)
(* of writers, with a dead_lettered_at that the writer chose: a letter may *)
(* be stored after one that is newer.  A report is two queries, count and  *)
(* list(10, 0); a client that pages through the queue runs one list(limit, *)
(* offset) per page.  Other writers may store between any two queries, and *)
(* every query may fail, which ends the report or the walk with an error.  *)
(* A page is the set of its rows.                                          *)
(*                                                                         *)
(* known is a history variable: the ids in the table when the walk began.  *)
(***************************************************************************)
EXTENDS Integers, Sequences, FiniteSets

CONSTANTS LetterId, Times, ReportLimit, PageLimit

ASSUME QueueAssumption ==
    /\ IsFiniteSet(LetterId)
    /\ Times \subseteq Nat
    /\ ReportLimit \in Nat
    /\ PageLimit \in Nat \ {0}

VARIABLES dead_letters, report, walk, known

queueVars == <<dead_letters, report, walk, known>>

Letter == [id : LetterId, dead_lettered_at : Times]

NoReport == [at |-> "idle", total |-> 0, recent |-> {}]

NoWalk == [at |-> "idle", offset |-> 0, found |-> {}]

QueueTypeOK ==
    /\ dead_letters \in Seq(Letter)
    /\ report.at \in {"idle", "counted", "done"}
    /\ walk.at \in {"idle", "walking", "done"}
    /\ walk.offset \in 0..(Cardinality(LetterId) + PageLimit)
    /\ walk.found \subseteq LetterId
    /\ known \subseteq LetterId

QueueInit ==
    /\ dead_letters = << >>
    /\ report = NoReport
    /\ walk = NoWalk
    /\ known = {}

Rows == {dead_letters[i] : i \in DOMAIN dead_letters}

ids(rows) == {l.id : l \in rows}

\* id is the primary key: a second letter with an id is refused.
store(letter) ==
    /\ letter.id \notin ids(Rows)
    /\ dead_letters' = Append(dead_letters, letter)
    /\ UNCHANGED <<report, walk, known>>

count == Len(dead_letters)

\* ORDER BY dead_lettered_at DESC; SQLite leaves rows with the same time in the
\* order of insertion.
comesBefore(i, j) ==
    \/ dead_letters[i].dead_lettered_at > dead_letters[j].dead_lettered_at
    \/ dead_letters[i].dead_lettered_at = dead_letters[j].dead_lettered_at /\ i < j

ahead(i) == {j \in DOMAIN dead_letters : comesBefore(j, i)}

place(i) == Cardinality(ahead(i))

\* Wrong on purpose: the two parameters are bound in the other order.
listSwapped(limit, offset) ==
    {dead_letters[i] : i \in {j \in DOMAIN dead_letters : limit <= place(j) /\ place(j) < limit + offset}}

\* LIMIT limit OFFSET offset.
list(limit, offset) ==
    {dead_letters[i] : i \in {j \in DOMAIN dead_letters : offset <= place(j) /\ place(j) < offset + limit}}

reportCounts ==
    /\ report.at # "counted"
    /\ report' = [at |-> "counted", total |-> count, recent |-> {}]
    /\ UNCHANGED <<dead_letters, walk, known>>

reportLists ==
    /\ report.at = "counted"
    /\ report' = [report EXCEPT !.at = "done", !.recent = list(ReportLimit, 0)]
    /\ UNCHANGED <<dead_letters, walk, known>>

\* External: a client that asks for page after page until one is not full.
walkBegins ==
    /\ walk.at # "walking"
    /\ walk' = [at |-> "walking", offset |-> 0, found |-> {}]
    /\ known' = ids(Rows)
    /\ UNCHANGED <<dead_letters, report>>

list_dead_letters ==
    /\ walk.at = "walking"
    /\ LET page == list(PageLimit, walk.offset)
       IN  walk' = [at |-> IF Cardinality(page) < PageLimit THEN "done" ELSE "walking",
                    offset |-> walk.offset + PageLimit,
                    found |-> walk.found \cup ids(page)]
    /\ UNCHANGED <<dead_letters, report, known>>

\* A query fails: the report, or the walk, ends without a result.
queryFails ==
    /\ \/ report.at = "counted" /\ report' = NoReport /\ UNCHANGED walk
       \/ walk.at = "walking" /\ walk' = NoWalk /\ UNCHANGED report
    /\ UNCHANGED <<dead_letters, known>>

QueueNext ==
    \/ \E l \in Letter : store(l)
    \/ reportCounts
    \/ reportLists
    \/ walkBegins
    \/ list_dead_letters
    \/ queryFails

QueueSpec == QueueInit /\ [][QueueNext]_queueVars

-----------------------------------------------------------------------------

\* A report shows at least as many letters as it counts, up to its limit, and
\* each as new as any it leaves out of those it counted, although letters are
\* stored between its two queries (monitor.rs:38-46).
ReportAgreesWithItself ==
    report.at = "done" =>
        /\ Cardinality(report.recent) >= IF report.total < ReportLimit THEN report.total ELSE ReportLimit
        /\ \A i \in 1..report.total : \A l \in report.recent :
              dead_letters[i].id \notin ids(report.recent) =>
                  dead_letters[i].dead_lettered_at <= l.dead_lettered_at

\* A client that pages through the queue has met every letter that was there
\* when it began, however many are stored meanwhile and wherever they sort: rows
\* only ever move to higher offsets (dead_letter.rs:99-118).
WalkMissesNothing == walk.at = "done" => known \subseteq walk.found

\* What is read in several queries is right although the table grows between
\* them.
ReadersMissNothing == ReportAgreesWithItself /\ WalkMissesNothing
=============================================================================
