--------------------------------- MODULE Lists ---------------------------------
(***************************************************************************)
(* Lists that are read a page at a time while they change: the statement,  *)
(* the queues of payouts and of held conversions, the accounts, the offer  *)
(* wall and whatever else the API pages with limit and offset; the pager   *)
(* that leads through them; and the sweep that reconciles every balance,   *)
(* which pages by key instead.                                             *)
(*                                                                         *)
(* A page and its total are two queries that run side by side.  What the   *)
(* rows say is left out, but for what puts them in a list and orders them. *)
(***************************************************************************)
EXTENDS Integers, SequencesExt

CONSTANTS
    PageSize,       \* rows to a page, and balances to a job
    Unread,         \* what a page is still waiting for
    MaxRows,        \* rows a table may come to have
    MaxMoves,       \* rows that leave a list, return to it or change their place
    MaxAttempts,    \* attempts of a job of the sweep, from defaultJobOptions
    MaxStalled,     \* how often BullMQ gives a stalled job back to the queue
    MaxDeaths       \* bound on the jobs that throw, or whose worker dies

ASSUME ListsAssumption ==
    /\ {PageSize, MaxAttempts} \subseteq Nat \ {0}
    /\ {MaxRows, MaxMoves, MaxStalled, MaxDeaths} \subseteq Nat

VARIABLES
    kind,       \* which list is read, and under which filter
    rows,       \* the rows of its table: what orders them, and whether the list has them
    walk,       \* the page that is open, and what was seen since the list was opened
    sweep       \* the reconciliation of the balances

listVars == <<kind, rows, walk, sweep>>

-----------------------------------------------------------------------------
(* Statuses of the statement *)

Credits == {"CONVERSION_CREDIT", "BONUS"}

\* REWARD_STATUS_RULES: the types of a status, and the sign it asks of the
\* movement of pending points.
Rule(types, sign) == [types |-> types, sign |-> sign]
StatusRules ==
    [ PENDING   |-> Rule(Credits, "positive"),             AVAILABLE |-> Rule(Credits, "nonPositive"),
      CLEARED   |-> Rule({"REWARD_MATURATION"}, "any"),    REVERSED  |-> Rule({"CHARGEBACK_DEBIT"}, "any"),
      IN_REVIEW |-> Rule({"PAYOUT_LOCK"}, "any"),          PAID      |-> Rule({"PAYOUT_SETTLE"}, "any"),
      RETURNED  |-> Rule({"PAYOUT_REFUND"}, "any"),        ADJUSTED  |-> Rule({"MANUAL_ADJUSTMENT"}, "any") ]
Statuses == DOMAIN StatusRules

Movement == [type : UNION {StatusRules[s].types : s \in Statuses}, pending : {-1, 0, 1}]

\* rewardStatusOf: what the statement calls a movement.
StatusOf(m) ==
    CHOOSE s \in Statuses :
        /\ m.type \in StatusRules[s].types
        /\ StatusRules[s].sign = "positive" => m.pending > 0
        /\ StatusRules[s].sign = "nonPositive" => ~(m.pending > 0)

\* whereForStatus: the rows a filter selects.
WhereForStatus(status, m) ==
    /\ m.type \in StatusRules[status].types
    /\ CASE StatusRules[status].sign = "positive" -> m.pending > 0
         [] StatusRules[status].sign = "nonPositive" -> m.pending <= 0
         [] OTHER -> TRUE

-----------------------------------------------------------------------------
(* What is particular to a list *)

Kinds == {"statement", "queue", "accounts", "wall"}

\* Oldest first in a queue, otherwise the newest or the best paid first.
Descends == kind.list # "queue"

\* Only the orders of the wall end with the id.
Ties == kind.list # "wall"

\* Decisions take rows out of a queue; accounts and offers also return, and an
\* offer may be paid otherwise.  A movement is never altered.
Leaves  == kind.list # "statement"
Returns == kind.list \in {"accounts", "wall"}

Row(key, here, due) == [key |-> key, here |-> here, due |-> due]

\* A new row: a movement of any kind, in the statement; later rows are later, but
\* one that was dated before another may be committed after it.
NewRows ==
    LET latest == IF rows = <<>> THEN 1 ELSE rows[Len(rows)].key IN
    CASE kind.list = "statement" ->
            {Row(key, WhereForStatus(kind.status, m), StatusOf(m) = kind.status) :
                key \in {latest, latest + 1}, m \in Movement}
      [] kind.list \in {"queue", "accounts"} -> {Row(key, TRUE, TRUE) : key \in {latest, latest + 1}}
      [] kind.list = "wall" -> {Row(key, TRUE, TRUE) : key \in 1..2}

Before(i, j) ==
    \/ IF Descends THEN rows[i].key > rows[j].key ELSE rows[i].key < rows[j].key
    \/ ~Ties /\ rows[i].key = rows[j].key /\ i < j

\* A row whose place among the others is left open.
Tied(i) == Ties /\ \E j \in DOMAIN rows \ {i} : rows[j].key = rows[i].key

Here == {i \in DOMAIN rows : rows[i].here}

\* skip and take.
Slice(seq, skip) == SubSeq(seq, skip + 1, IF skip + PageSize < Len(seq) THEN skip + PageSize ELSE Len(seq))

\* What a query may return: rows that tie come in any order, and in another one
\* the next time.
Orders == {s \in SetToSeqs(Here) : \A i, j \in DOMAIN s : Before(s[i], s[j]) => i < j}

-----------------------------------------------------------------------------
(* Walking through a list *)

Unopened == [offset |-> 0, items |-> Unread, total |-> Unread, page |-> "none",
             seen |-> {}, there |-> {}, moves |-> 0, late |-> 0]

Asks(offset) == [walk EXCEPT !.offset = offset, !.items = Unread, !.total = Unread, !.page = "loading", !.late = 0]

OpenList ==
    /\ walk.page = "none"
    /\ walk' = [Asks(0) EXCEPT !.there = {i \in DOMAIN rows : rows[i].due}, !.moves = 0]
    /\ UNCHANGED <<kind, rows, sweep>>

\* findMany and count.
ReadItems ==
    /\ walk.page = "loading" /\ walk.items = Unread
    /\ \E order \in Orders :
          walk' = [walk EXCEPT !.items = Slice(order, walk.offset)]
    /\ UNCHANGED <<kind, rows, sweep>>

CountTotal ==
    /\ walk.page = "loading" /\ walk.total = Unread
    /\ walk' = [walk EXCEPT !.total = Cardinality(Here)]
    /\ UNCHANGED <<kind, rows, sweep>>

\* The panel: what could not be loaded, an empty list, or rows with a pager.
ShowPage ==
    /\ walk.page = "loading"
    /\ \/ walk' = [walk EXCEPT !.page = "failed"]
       \/ /\ Unread \notin {walk.items, walk.total}
          /\ walk' = [walk EXCEPT !.page = IF walk.items = <<>> THEN "empty" ELSE "rows",
                                  !.seen = @ \cup Range(walk.items)]
    /\ UNCHANGED <<kind, rows, sweep>>

\* Mutant of HasNext: the last page is full, and so has a next.
HasNextBefore == walk.page = "rows" /\ walk.offset + PageSize < walk.total - 1

HasNext == walk.page = "rows" /\ walk.offset + PageSize < walk.total
HasPrevious == walk.page = "rows" /\ walk.offset > 0

\* Next, Previous, or the same page again, which is what a decision in it does.
TurnPage ==
    /\ \/ HasNext /\ walk' = Asks(walk.offset + PageSize)
       \/ HasPrevious /\ walk' = Asks(IF walk.offset > PageSize THEN walk.offset - PageSize ELSE 0)
       \/ walk.page \in {"failed", "empty", "rows"} /\ walk' = Asks(walk.offset)
    /\ UNCHANGED <<kind, rows, sweep>>

-----------------------------------------------------------------------------
(* What happens to the rows meanwhile *)

\* A row may come when the total of a page has been read and its items have not.
AddRow ==
    /\ Len(rows) < MaxRows
    /\ \E row \in NewRows : rows' = Append(rows, row)
    /\ walk' = IF walk.total # Unread /\ walk.items = Unread THEN [walk EXCEPT !.late = @ + 1] ELSE walk
    /\ UNCHANGED <<kind, sweep>>

\* A row that leaves or changes its place is no longer one that stayed.
Moved(i) == walk' = [walk EXCEPT !.there = @ \ {i}, !.moves = @ + 1]

MoveRow(i) ==
    /\ walk.moves < MaxMoves
    /\ \/ Leaves /\ rows[i].here /\ rows' = [rows EXCEPT ![i].here = FALSE, ![i].due = FALSE]
       \/ Returns /\ ~rows[i].here /\ rows' = [rows EXCEPT ![i].here = TRUE, ![i].due = TRUE]
       \/ kind.list = "wall" /\ rows' = [rows EXCEPT ![i].key = 3 - @]
    /\ Moved(i)
    /\ UNCHANGED <<kind, sweep>>

-----------------------------------------------------------------------------
(* The sweep over the balances: one page to a job, by the users' ids *)

FirstPage == 0

\* A job of the queue.  Whether an attempt of it has got through its page is kept
\* for SweepSkipsNobody alone.
SweepJob(id, after) == [id |-> id, after |-> after, failures |-> 0, stalls |-> 0, passed |-> FALSE]

NoJob == [of |-> SweepJob(0, FirstPage), page |-> {}, pc |-> "idle"]

\* findUsersToReconcile: of the accounts past the cursor, the first by their ids.
PageAfter(after) ==
    LET past == {u \in sweep.users : u > after} IN
    {u \in past : Cardinality({v \in past : v < u}) < PageSize}

\* The tick of one night.
Tick ==
    /\ sweep.enqueued = 0
    /\ sweep' = [sweep EXCEPT !.asked = sweep.users, !.enqueued = 1,
                              !.jobs = {SweepJob(1, FirstPage)}]
    /\ UNCHANGED <<kind, rows, walk>>

TakeJob(job) ==
    /\ sweep.job.pc = "idle" /\ job \in sweep.jobs
    /\ sweep' = [sweep EXCEPT !.jobs = @ \ {job},
                              !.job = [of |-> job, page |-> PageAfter(job.after), pc |-> "checking"]]
    /\ UNCHANGED <<kind, rows, walk>>

\* Mutant of LastOfSweep: a page that is just full is taken for the last.
LastOfSweepEarly(job) == Cardinality(job.page) <= PageSize

LastOfSweep(job) == Cardinality(job.page) < PageSize \/ Max(job.page) = job.of.after

\* Each balance of the page is reconciled, or fails to be and is passed over; the
\* next page is enqueued.
CheckPage ==
    LET job  == sweep.job
        next == SweepJob(sweep.enqueued + 1, Max(job.page))
    IN
    /\ job.pc = "checking"
    /\ sweep' = [sweep EXCEPT !.checked = @ \cup job.page,
                              !.jobs = IF LastOfSweep(job) THEN @ ELSE @ \cup {next},
                              !.enqueued = IF LastOfSweep(job) THEN @ ELSE @ + 1,
                              !.job = [of |-> [job.of EXCEPT !.passed = TRUE], page |-> job.page, pc |-> "ending"]]
    /\ UNCHANGED <<kind, rows, walk>>

EndJob ==
    /\ sweep.job.pc = "ending"
    /\ sweep' = [sweep EXCEPT !.job = NoJob]
    /\ UNCHANGED <<kind, rows, walk>>

\* The job at hand waits for its next turn, or fails for good.
GiveBack(job, again) ==
    /\ sweep.job.pc # "idle" /\ sweep.deaths < MaxDeaths
    /\ sweep' = [sweep EXCEPT !.job = NoJob, !.deaths = @ + 1,
                              !.jobs = IF again THEN @ \cup {job} ELSE @,
                              !.failed = IF again THEN @ ELSE @ \cup {job}]
    /\ UNCHANGED <<kind, rows, walk>>

\* The page cannot be read, or the next one not be enqueued, or only the answer
\* of that is lost: the queue retries while attempts are left.
ThrowJob ==
    LET job == sweep.job.of IN
    GiveBack([job EXCEPT !.failures = @ + 1], job.failures + 1 < MaxAttempts)

\* The worker dies: the job is found stalled, and fails when it has been too often.
StallJob ==
    LET job == sweep.job.of IN
    GiveBack([job EXCEPT !.stalls = @ + 1], job.stalls < MaxStalled)

\* Someone registers: ids are ordered by time, but not between two servers.
SignUp(u) ==
    /\ u \notin sweep.users
    /\ sweep' = [sweep EXCEPT !.users = @ \cup {u}]
    /\ UNCHANGED <<kind, rows, walk>>

-----------------------------------------------------------------------------
ListsInit ==
    /\ kind \in [list : {"statement"}, status : Statuses] \cup [list : Kinds \ {"statement"}, status : {"any"}]
    /\ rows = <<>>
    /\ walk = Unopened
    /\ sweep = [users |-> {}, asked |-> {}, enqueued |-> 0, jobs |-> {}, job |-> NoJob,
                checked |-> {}, failed |-> {}, deaths |-> 0]

ListsNext ==
    \/ OpenList \/ ReadItems \/ CountTotal \/ ShowPage \/ TurnPage
    \/ AddRow \/ \E i \in DOMAIN rows : MoveRow(i)

SweepNext ==
    \/ Tick \/ \E job \in sweep.jobs : TakeJob(job)
    \/ CheckPage \/ EndJob \/ ThrowJob \/ StallJob
    \/ \E u \in 1..MaxRows : SignUp(u)

ListsSpec == ListsInit /\ [][ListsNext \/ SweepNext]_listVars

-----------------------------------------------------------------------------
(* Properties *)

\* Whoever pages through a list to its end has seen every row that was in it all
\* along, but for rows that tie with another where ties are not broken, and for
\* as many as rows moved meanwhile, or came between the last page's total and
\* its items; a list that is said to be empty was, or rows have moved; and
\* nothing is seen under a filter but what the statement calls by its name (the
\* findMany of each service, whereForStatus, Pager.svelte and the panels).
WalksMissLittle ==
    /\ walk.page = "rows" /\ ~HasNext =>
          Cardinality({i \in walk.there \ walk.seen : ~Tied(i)}) <= walk.moves + walk.late
    /\ walk.page = "empty" => walk.there = {} \/ walk.moves > 0
    /\ kind.list = "statement" => \A i \in walk.seen : rows[i].due

\* When the night's sweep has run out of jobs, every balance that existed at the
\* tick has been looked at, whoever registered meanwhile and however jobs threw,
\* stalled and were run twice; or else it comes after the cursor of a job that
\* failed for good with no attempt ever through its page, where the chain ends
\* for that night (findUsersToReconcile, sweep, defaultJobOptions).
SweepSkipsNobody ==
    sweep.jobs = {} /\ sweep.job.pc = "idle" =>
        \A u \in sweep.asked \ sweep.checked :
            \E job \in sweep.failed : ~job.passed /\ job.after < u
=============================================================================
