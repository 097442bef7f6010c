---------------------------- MODULE Configuration ----------------------------
(***************************************************************************)
(* Configuration rows, the cache every process keeps of them, and the      *)
(* administrators who edit them: ConfigurationService and                  *)
(* AdminConfigurationService.                                              *)
(*                                                                         *)
(* One key, and the rows it may have: the GLOBAL one and one per provider. *)
(* A row is named by the position in the history of the write that made    *)
(* it, which is also its updated_at; 0 is no row.  A value the schema      *)
(* refuses is cached as no row and is not told apart here.  `generation`   *)
(* is only ever compared with what it was when a read began, so a read     *)
(* remembers whether it has been overtaken.                                *)
(***************************************************************************)
EXTENDS InvalidationBus

CONSTANTS
    Row,        \* the (scope, scopeId) pairs of the key
    Admin,      \* requests that edit
    Scripts,    \* those of them that state no precondition
    MaxWrites   \* bound on the changes made

ASSUME ConfigurationAssumption ==
    /\ Everything \notin Row /\ Providers \notin Row
    /\ IsFiniteSet(Row)
    /\ MaxWrites \in Nat

VARIABLES
    stored,     \* configuration_values
    history,    \* configuration_history, with what each change really replaced
    cache,      \* what each process holds of each row
    reading,    \* the read each process has in flight
    edit        \* where each editing request stands

configVars == <<stored, history, cache, reading, edit>>

-----------------------------------------------------------------------------
NotCached == -1
NoRead    == [row |-> Everything]
Idle      == [op |-> "idle"]

\* expectedUpdatedAt omitted.
Unchecked == -1

\* A process has a copy of the row, or is about to keep one.
WillKeep(p, row) == reading[p] # NoRead /\ reading[p].row = row /\ ~reading[p].overtaken
Holds(p, row)    == cache[p][row] # NotCached \/ WillKeep(p, row)

\* invalidate and invalidateAll: the copies go, and reads in flight are overtaken.
Dropped(p, rows) == [cache EXCEPT ![p] = [r \in Row |-> IF r \in rows THEN NotCached ELSE @[r]]]
Overtaken(p) ==
    [reading EXCEPT ![p] = IF @ = NoRead THEN @ ELSE [@ EXCEPT !.overtaken = TRUE]]

Invalidate(p, rows) ==
    /\ cache' = Dropped(p, rows)
    /\ reading' = Overtaken(p)

-----------------------------------------------------------------------------
(* readStored *)

\* A miss: the query returns what is committed.
Query(p, row) ==
    /\ reading[p] = NoRead
    /\ cache[p][row] = NotCached
    /\ reading' = [reading EXCEPT ![p] = [row |-> row, value |-> stored[row], overtaken |-> FALSE]]
    /\ UNCHANGED <<stored, history, cache, edit>>

\* Mutant of Remember: whatever was read is kept.
RememberAlways(p) ==
    LET r == reading[p] IN
    /\ r # NoRead
    /\ cache' = [cache EXCEPT ![p][r.row] = r.value]
    /\ reading' = [reading EXCEPT ![p] = NoRead]
    /\ UNCHANGED <<stored, history, edit>>

\* remember: kept unless the read was overtaken.
Remember(p) ==
    LET r == reading[p] IN
    /\ r # NoRead
    /\ cache' = IF r.overtaken THEN cache ELSE [cache EXCEPT ![p][r.row] = r.value]
    /\ reading' = [reading EXCEPT ![p] = NoRead]
    /\ UNCHANGED <<stored, history, edit>>

-----------------------------------------------------------------------------
(* set and reset *)

Become(a, state) == edit' = [edit EXCEPT ![a] = state]

\* Another request's transaction holds the row.
RowFree(a, row) ==
    \A b \in Admin \ {a} : edit[b].op \in {"asserted", "writing"} => ~(edit[b].row = row /\ edit[b].locked)

\* A screen was loaded and is submitted: a value or a reset, with what the
\* screen showed; or a script's change, without a precondition.
Submit(a, p, row, what, expected) ==
    /\ edit[a] = Idle
    /\ Len(history) < MaxWrites
    /\ expected = IF a \in Scripts THEN Unchecked ELSE stored[row]
    /\ Become(a, [op |-> "editing", at |-> p, row |-> row, what |-> what, expected |-> expected])
    /\ UNCHANGED <<stored, history, cache, reading>>

\* Mutant of AssertNotStale: the row is read without a lock.
AssertNotStaleUnlocked(a) ==
    LET e == edit[a] IN
    /\ e.op = "editing"
    /\ e.expected \in {Unchecked, stored[e.row]}
    /\ Become(a, [op |-> "asserted", locked |-> FALSE, at |-> e.at, row |-> e.row, what |-> e.what,
                  expected |-> e.expected])
    /\ UNCHANGED <<stored, history, cache, reading>>

\* assertNotStale: FOR UPDATE waits for whoever has the row and then sees it as
\* they left it; where there is no row there is nothing to lock.
AssertNotStale(a) ==
    LET e == edit[a]
        locks == e.expected # Unchecked /\ stored[e.row] # 0 IN
    /\ e.op = "editing"
    /\ e.expected \in {Unchecked, stored[e.row]}
    /\ locks => RowFree(a, e.row)
    /\ Become(a, [op |-> "asserted", locked |-> locks, at |-> e.at, row |-> e.row, what |-> e.what,
                  expected |-> e.expected])
    /\ UNCHANGED <<stored, history, cache, reading>>

\* 409, and for a reset of what is not there, nothing to do.
Refuse(a) ==
    LET e == edit[a] IN
    /\ \/ e.op = "editing" /\ e.expected \notin {Unchecked, stored[e.row]} /\ RowFree(a, e.row)
       \/ e.op = "asserted" /\ e.what = "unset" /\ stored[e.row] = 0
       \/ e.op = "writing" /\ e.what = "unset" /\ stored[e.row] = 0 /\ RowFree(a, e.row)
    /\ Become(a, Idle)
    /\ UNCHANGED <<stored, history, cache, reading>>

\* findUnique, in the transaction and without a lock.
ReadPrevious(a) ==
    LET e == edit[a] IN
    /\ e.op = "asserted"
    /\ e.what = "unset" => stored[e.row] # 0
    /\ Become(a, [op |-> "writing", locked |-> e.locked, at |-> e.at, row |-> e.row, what |-> e.what,
                  expected |-> e.expected, previous |-> stored[e.row]])
    /\ UNCHANGED <<stored, history, cache, reading>>

\* upsert or deleteMany, the history row and the audit entry, and the commit.
Write(a) ==
    LET e == edit[a] IN
    /\ e.op = "writing"
    /\ RowFree(a, e.row)
    /\ e.what = "unset" => stored[e.row] # 0
    /\ stored' = [stored EXCEPT ![e.row] = IF e.what = "set" THEN Len(history) + 1 ELSE 0]
    /\ history' = Append(history, [row |-> e.row, what |-> e.what, old |-> e.previous,
                                   expected |-> e.expected, replaced |-> stored[e.row]])
    /\ Become(a, [op |-> "committed", at |-> e.at, row |-> e.row])
    /\ UNCHANGED <<cache, reading>>

\* invalidateAndBroadcast: here first, then everywhere.
InvalidateAndBroadcast(a) ==
    LET e == edit[a] IN
    /\ e.op = "committed"
    /\ Invalidate(e.at, {e.row})
    /\ \/ Sent(e.at, Config, e.row)
       \/ Unsent(e.at, Config)
       \/ SentUnanswered(e.at, Config, e.row)
    /\ Become(a, Idle)
    /\ UNCHANGED <<stored, history>>

-----------------------------------------------------------------------------
\* The process dies: its requests with it, a transaction in progress rolls back.
ConfigRestarted(p) ==
    /\ cache' = Dropped(p, Row)
    /\ reading' = [reading EXCEPT ![p] = NoRead]
    /\ edit' = [a \in Admin |-> IF edit[a] # Idle /\ edit[a].at = p THEN Idle ELSE edit[a]]
    /\ UNCHANGED <<stored, history>>

FirstSet(r) == [row |-> r, what |-> "set", old |-> 0, expected |-> 0, replaced |-> 0]

\* Every row has been set before; a reset takes it away.
ConfigInit ==
    /\ history = [i \in 1..Cardinality(Row) |-> FirstSet(SetToSeq(Row)[i])]
    /\ stored = [r \in Row |-> CHOOSE i \in DOMAIN history : history[i].row = r]
    /\ cache = [p \in Process |-> [r \in Row |-> NotCached]]
    /\ reading = [p \in Process |-> NoRead]
    /\ edit = [a \in Admin |-> Idle]

\* The steps of an editing request after it is submitted, but for its last.
Editing(a) == AssertNotStale(a) \/ Refuse(a) \/ ReadPrevious(a) \/ Write(a)
=============================================================================
