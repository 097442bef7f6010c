------------------------------- MODULE Catalog -------------------------------
(***************************************************************************)
(* One provider's catalog: the synchronizations that write it, the         *)
(* administrators who pull offers from it, and the provider's health:      *)
(* CatalogSyncService, OffersService, SyncRunsService,                     *)
(* ProviderHealthService, CatalogSyncProcessor and AdminCatalogService.    *)
(*                                                                         *)
(* A synchronization is a job of the catalog queue.  It holds no lock: it  *)
(* reads an offer and writes it in another statement, counts the active    *)
(* offers and prunes in another, and two may run over one provider.        *)
(* Nothing crosses providers, so one is enough.                            *)
(*                                                                         *)
(* What the provider lists and what mapOffer makes of it is a set: the     *)
(* offers a run accepts.  Timestamps are ticks of one clock; several       *)
(* things may happen within a tick.                                        *)
(***************************************************************************)
EXTENDS Integers, Sequences, FiniteSets, SequencesExt

CONSTANTS
    Offer,
    Slot,           \* runs in progress: the concurrency of every worker together
    Puller,         \* requests that switch offers on and off
    PruneThreshold, \* offers.sync.prune_safety_threshold_percent
    DegradedAfter,  \* provider health thresholds, each valid on its own
    DownAfter

ASSUME CatalogAssumption ==
    /\ PruneThreshold \in 0..100
    /\ DegradedAfter \in Nat \ {0} /\ DownAfter \in Nat \ {0}

VARIABLES
    offers,     \* offers
    runs,       \* offer_sync_runs
    health,     \* the health columns of providers
    enabled,    \* is_enabled, as a registry that has just been reloaded has it
    waiting,    \* the catalog queue
    scheduled,  \* ids of the scheduled jobs, of any state
    sync,       \* where each run in progress stands
    pull,       \* where each request of an administrator stands
    clock,
    budget      \* how many more syncs, pulls, clicks and faults there are

catalogVars == <<offers, runs, health, enabled, waiting, scheduled, sync, pull, clock, budget>>

-----------------------------------------------------------------------------
Modes == {"FULL", "INCREMENTAL"}

\* isActive with deactivationSource, or no row yet.
Standings == {"absent", "active", "SYNC", "ADMIN"}

\* lastSeenAt, and the run that wrote it.
OfferRow == [standing : Standings, seen : Nat, by : Nat]

Free == [op |-> "free"]

Active == {o \in Offer : offers[o].standing = "active"}

Become(s, state) == sync' = [sync EXCEPT ![s] = state]

\* A run that has done its work, or failed at it, and how it will be recorded.
Ends(s, op, outcome) == Become(s, [op |-> op, run |-> sync[s].run, outcome |-> outcome])

Ticks == clock' \in {clock, clock + 1}

Charge(what) == budget[what] > 0 /\ budget' = [budget EXCEPT ![what] = @ - 1]

-----------------------------------------------------------------------------
(* What is due, and the queue *)

\* isFullSyncDue and isIncrementalDue: never, or long enough ago.
CompletedFull == {r \in DOMAIN runs : runs[r].mode = "FULL" /\ runs[r].outcome \in {"SUCCESS", "PARTIAL"}}
DueModes == IF CompletedFull = {} THEN {"FULL"} ELSE Modes

\* tick: one job under an id of the provider, the mode and the minute; an id
\* the queue has seen adds nothing.
Tick ==
    \E mode \in DueModes :
        /\ enabled
        /\ Charge("syncs")
        /\ scheduled' = scheduled \cup {<<mode, clock>>}
        /\ waiting' = IF <<mode, clock>> \in scheduled THEN waiting ELSE Append(waiting, mode)
        /\ UNCHANGED <<offers, runs, health, enabled, sync, pull, clock>>

\* requestSync: an administrator's job has no such id.
RequestSync(mode) ==
    /\ Charge("syncs")
    /\ waiting' = Append(waiting, mode)
    /\ UNCHANGED <<offers, runs, health, enabled, scheduled, sync, pull, clock>>

-----------------------------------------------------------------------------
(* A run *)

\* sync: the registry is reloaded, the run opened, and the provider required.
Begin(s) ==
    /\ sync[s] = Free
    /\ waiting # <<>>
    /\ Ticks
    /\ waiting' = Tail(waiting)
    /\ runs' = Append(runs, [mode |-> Head(waiting), outcome |-> "RUNNING", startedAt |-> clock'])
    /\ Become(s, [op |-> IF enabled THEN "fetching" ELSE "failing", run |-> Len(runs) + 1])
    /\ UNCHANGED <<offers, health, enabled, scheduled, pull, budget>>

\* fetchOffers, and mapOffer with the duplicates refused: whatever was listed.
Fetch(s) ==
    /\ sync[s].op = "fetching"
    /\ Ticks
    /\ \E listed \in SUBSET Offer :
          Become(s, [op |-> "writing", run |-> sync[s].run, seenAt |-> clock',
                     todo |-> listed, accepted |-> {}])
    /\ UNCHANGED <<offers, runs, health, enabled, waiting, scheduled, pull, budget>>

\* upsertFromSync reads the offer,
FindOffer(s) ==
    /\ sync[s].op = "writing"
    /\ \E o \in sync[s].todo :
          Become(s, [op |-> "upserting", run |-> sync[s].run, seenAt |-> sync[s].seenAt,
                     todo |-> sync[s].todo \ {o}, accepted |-> sync[s].accepted,
                     offer |-> o, existing |-> offers[o].standing])
    /\ UNCHANGED <<offers, runs, health, enabled, waiting, scheduled, pull, clock, budget>>

\* Mutant of Activation: a listed offer is active.
ActivationAlways(existing, now) == "active"

\* and writes it: what an administrator was seen to have pulled keeps whatever
\* standing it has by now, everything else is active.
Activation(existing, now) == IF existing = "ADMIN" THEN now ELSE "active"

Upsert(s) ==
    LET o == sync[s].offer IN
    /\ sync[s].op = "upserting"
    /\ offers' = [offers EXCEPT ![o] = [standing |-> Activation(sync[s].existing, @.standing),
                                        seen |-> sync[s].seenAt, by |-> sync[s].run]]
    /\ Become(s, [op |-> "writing", run |-> sync[s].run, seenAt |-> sync[s].seenAt,
                  todo |-> sync[s].todo, accepted |-> sync[s].accepted \cup {o}])
    /\ UNCHANGED <<runs, health, enabled, waiting, scheduled, pull, clock, budget>>

\* An incremental run claims nothing about what it did not see.
Written(s) ==
    /\ sync[s].op = "writing" /\ sync[s].todo = {}
    /\ runs[sync[s].run].mode = "INCREMENTAL"
    /\ Ends(s, "succeeding", "SUCCESS")
    /\ UNCHANGED <<offers, runs, health, enabled, waiting, scheduled, pull, clock, budget>>

\* pruneIfSafe: the count, and the guard.
PruneIfSafe(s) ==
    LET activeBefore == Cardinality(Active)
        tooFew == Cardinality(sync[s].accepted) * 100 < activeBefore * PruneThreshold IN
    /\ sync[s].op = "writing" /\ sync[s].todo = {}
    /\ runs[sync[s].run].mode = "FULL"
    /\ IF activeBefore > 0 /\ tooFew THEN Ends(s, "succeeding", "PARTIAL")
       ELSE Become(s, [op |-> "pruning", run |-> sync[s].run, accepted |-> sync[s].accepted])
    /\ UNCHANGED <<offers, runs, health, enabled, waiting, scheduled, pull, clock, budget>>

\* Mutant of Unseen: what was seen in the tick the run started in is unseen.
UnseenSince(startedAt) == {o \in Active : offers[o].seen <= startedAt}

\* Active offers that nobody has seen since.
Unseen(startedAt) == {o \in Active : offers[o].seen < startedAt}

DeactivateUnseen(s) ==
    LET unseen == Unseen(runs[sync[s].run].startedAt) IN
    /\ sync[s].op = "pruning"
    /\ offers' = [o \in Offer |-> IF o \in unseen THEN [offers[o] EXCEPT !.standing = "SYNC"] ELSE offers[o]]
    /\ Ends(s, "succeeding", "SUCCESS")
    /\ UNCHANGED <<runs, health, enabled, waiting, scheduled, pull, clock, budget>>

-----------------------------------------------------------------------------
(* Health *)

\* Mutant of Thresholds: the values are trusted.
ThresholdsTrusted == <<DegradedAfter, DownAfter>>

\* thresholds: inverted values make DOWN one step beyond DEGRADED.
Thresholds ==
    IF DownAfter <= DegradedAfter THEN <<DegradedAfter, DegradedAfter + 1>>
    ELSE <<DegradedAfter, DownAfter>>

DeriveHealthState(streak) ==
    IF streak >= Thresholds[2] THEN "DOWN"
    ELSE IF streak >= Thresholds[1] THEN "DEGRADED"
    ELSE "HEALTHY"

Healthy == [state |-> "HEALTHY", streak |-> 0]

RecordSuccess(s) ==
    /\ sync[s].op = "succeeding"
    /\ health' = Healthy
    /\ Ends(s, "finishing", sync[s].outcome)
    /\ UNCHANGED <<offers, runs, enabled, waiting, scheduled, pull, clock, budget>>

\* The increment and the state it implies, in one transaction that holds the row.
RecordFailure(s) ==
    LET streak == health.streak + 1 IN
    /\ sync[s].op = "failing"
    /\ health' = [state |-> DeriveHealthState(streak), streak |-> streak]
    /\ Ends(s, "finishing", "FAILED")
    /\ UNCHANGED <<offers, runs, enabled, waiting, scheduled, pull, clock, budget>>

Finish(s) ==
    /\ sync[s].op = "finishing"
    /\ runs' = [runs EXCEPT ![sync[s].run].outcome = sync[s].outcome]
    /\ Become(s, Free)
    /\ UNCHANGED <<offers, health, enabled, waiting, scheduled, pull, clock, budget>>

\* The provider cannot be reached, or a statement fails: what was written stays.
Break(s) ==
    /\ sync[s].op \notin {"free", "failing", "finishing"}
    /\ Charge("faults")
    /\ Become(s, [op |-> "failing", run |-> sync[s].run])
    /\ UNCHANGED <<offers, runs, health, enabled, waiting, scheduled, pull, clock>>

\* The worker dies, or the run cannot be closed; the job is taken again unless
\* that was its last attempt.  The run stays RUNNING.
Crash(s) ==
    /\ sync[s] # Free
    /\ Charge("faults")
    /\ waiting' \in {waiting, Append(waiting, runs[sync[s].run].mode)}
    /\ Become(s, Free)
    /\ UNCHANGED <<offers, runs, health, enabled, scheduled, pull, clock>>

-----------------------------------------------------------------------------
(* Administrators *)

\* setActive reads the offer in its transaction, without a lock,
OpenPull(a, o, to) ==
    /\ pull[a] = Free
    /\ offers[o].standing # "absent"
    /\ (offers[o].standing = "active") # (to = "active")
    /\ Charge("pulls")
    /\ pull' = [pull EXCEPT ![a] = [op |-> "setting", offer |-> o, to |-> to]]
    /\ UNCHANGED <<offers, runs, health, enabled, waiting, scheduled, sync, clock>>

\* and commits the standing with its audit entry.
CommitPull(a) ==
    /\ pull[a].op = "setting"
    /\ offers' = [offers EXCEPT ![pull[a].offer].standing = pull[a].to]
    /\ pull' = [pull EXCEPT ![a] = Free]
    /\ UNCHANGED <<runs, health, enabled, waiting, scheduled, sync, clock, budget>>

\* reset, and setEnabled.
ResetHealth ==
    /\ Charge("pulls")
    /\ health' = Healthy
    /\ UNCHANGED <<offers, runs, enabled, waiting, scheduled, sync, pull, clock>>

SetEnabled ==
    /\ Charge("pulls")
    /\ enabled' = ~enabled
    /\ UNCHANGED <<offers, runs, health, waiting, scheduled, sync, pull, clock>>

-----------------------------------------------------------------------------
\* A catalog that a run has filled; the first job may be anybody's.
CatalogInit ==
    /\ offers = [o \in Offer |-> [standing |-> "active", seen |-> 1, by |-> 1]]
    /\ runs = <<[mode |-> "FULL", outcome |-> "SUCCESS", startedAt |-> 1]>>
    /\ health = Healthy
    /\ enabled = TRUE
    /\ waiting = <<>> /\ scheduled = {}
    /\ sync = [s \in Slot |-> Free]
    /\ pull = [a \in Puller |-> Free]
    /\ clock = 1

\* A run's own steps.
Run(s) ==
    \/ Begin(s) \/ Fetch(s) \/ FindOffer(s) \/ Upsert(s) \/ Written(s)
    \/ PruneIfSafe(s) \/ DeactivateUnseen(s)
    \/ RecordSuccess(s) \/ RecordFailure(s) \/ Finish(s)
    \/ Break(s) \/ Crash(s)

CatalogNext ==
    \/ \E s \in Slot : Run(s)
    \/ Tick \/ \E mode \in Modes : RequestSync(mode)
    \/ \E a \in Puller : CommitPull(a) \/ \E o \in Offer, to \in {"active", "ADMIN"} : OpenPull(a, o, to)
    \/ ResetHealth \/ SetEnabled

CatalogSpec == CatalogInit /\ [][CatalogNext]_catalogVars

-----------------------------------------------------------------------------
(* Properties *)

\* An offer an administrator has pulled is back on the wall only because an
\* administrator put it there, or because a run had read it before it was
\* pulled: no run that saw the decision undoes it (upsertFromSync).
PulledStaysPulled ==
    [][\A o \in Offer :
          offers[o].standing = "ADMIN" /\ offers'[o].standing = "active" =>
              \/ \E a \in Puller : pull[a].op = "setting" /\ pull[a].to = "active"
              \/ \E s \in Slot : sync[s].op = "upserting" /\ sync[s].offer = o
                                   /\ sync[s].existing # "ADMIN"]_catalogVars

\* A run takes an offer it has seen itself off the wall only if another run,
\* which had fetched before this one started, wrote the offer after it did
\* (deactivateUnseen).
PrunedWasUnseen ==
    [][\A s \in Slot, o \in Offer :
          DeactivateUnseen(s) /\ offers'[o] # offers[o] /\ o \in sync[s].accepted =>
              LET by == offers[o].by IN by # sync[s].run /\ by < sync[s].run]_catalogVars

\* Whatever order runs fail and succeed in, and however the two thresholds are
\* set, a provider is never DOWN before it is DEGRADED, and is neither without
\* a streak that says so (recordFailure, thresholds).
HealthTellsStreak ==
    /\ (health.state = "HEALTHY") = (health.streak < DegradedAfter)
    /\ health.state = "DOWN" => health.streak > DegradedAfter
=============================================================================
