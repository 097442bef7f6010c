---------------------------- MODULE ServicesProofs ----------------------------
(***************************************************************************)
(* Of the smaller services, for any size of them and whatever limits, each *)
(* alone and, at the end, all of them as Services runs them.               *)
(* The catalog: the health follows the streak, and neither a run that saw  *)
(* an administrator's decision undoes it nor one that saw an offer takes   *)
(* it off the wall for want of having seen it.  Clicks, the scoring of     *)
(* conversions and the throttles: what is counted before it is written     *)
(* passes its limit by no more than there are at it.  Ranges let through   *)
(* their blocks, the intake keeps its word, the receipts of backups tell   *)
(* the truth, and the administrators' screens agree with the machines      *)
(* behind them.                                                            *)
(***************************************************************************)
EXTENDS Services, FiniteSetTheorems, TLAPS

-----------------------------------------------------------------------------
(* Health *)

HealthStates == {"HEALTHY", "DEGRADED", "DOWN"}

\* The state is the one the streak implies.
HealthDerived ==
    /\ health \in [state : HealthStates, streak : Nat]
    /\ health.state = DeriveHealthState(health.streak)

\* The thresholds in force are ordered, however they were set.
LEMMA ThresholdsOrdered ==
    /\ Thresholds[1] = DegradedAfter
    /\ Thresholds[2] \in Nat
    /\ DegradedAfter < Thresholds[2]
  BY CatalogAssumption DEF Thresholds

LEMMA HealthyDerived ==
    Healthy \in [state : HealthStates, streak : Nat] /\ Healthy.state = DeriveHealthState(Healthy.streak)
  BY ThresholdsOrdered, CatalogAssumption DEF Healthy, HealthStates, DeriveHealthState

LEMMA HealthStep ==
    HealthDerived /\ [CatalogNext]_catalogVars => HealthDerived'
<1> SUFFICES ASSUME HealthDerived, [CatalogNext]_catalogVars
             PROVE  HealthDerived'
  OBVIOUS
<1>1. CASE health' = health
  BY <1>1 DEF HealthDerived
<1>2. CASE health' = Healthy
  BY <1>2, HealthyDerived DEF HealthDerived
<1>3. ASSUME NEW s \in Slot, RecordFailure(s)
      PROVE  HealthDerived'
  <2>1. health.streak + 1 \in Nat
    BY DEF HealthDerived
  <2>2. DeriveHealthState(health.streak + 1) \in HealthStates
    BY DEF DeriveHealthState, HealthStates
  <2> QED
    BY <1>3, <2>1, <2>2 DEF RecordFailure, HealthDerived
<1>4. \/ health' = health
      \/ health' = Healthy
      \/ \E s \in Slot : RecordFailure(s)
  BY DEF CatalogNext, catalogVars, Run, Begin, Fetch, FindOffer, Upsert, Written, PruneIfSafe,
         DeactivateUnseen, RecordSuccess, Finish, Break, Crash, Tick, RequestSync, CommitPull,
         OpenPull, ResetHealth, SetEnabled
<1> QED
  BY <1>1, <1>2, <1>3, <1>4

\* Whatever order runs fail and succeed in, and however the thresholds are set,
\* the state is the one the streak implies (ProviderHealthService).
THEOREM HealthFollows == CatalogSpec => []HealthTellsStreak
<1>1. CatalogInit => HealthDerived
  BY HealthyDerived DEF CatalogInit, HealthDerived
<1>2. HealthDerived => HealthTellsStreak
  BY ThresholdsOrdered, CatalogAssumption DEF HealthDerived, HealthTellsStreak, DeriveHealthState
<1> QED
  BY <1>1, <1>2, HealthStep, PTL DEF CatalogSpec

-----------------------------------------------------------------------------
(* Offers and runs *)

Outcomes == {"RUNNING", "SUCCESS", "PARTIAL", "FAILED"}

RunRow == [mode : Modes, outcome : Outcomes, startedAt : Nat]

Tables ==
    /\ clock \in Nat
    /\ waiting \in Seq(Modes)
    /\ runs \in Seq(RunRow)
    /\ offers \in [Offer -> OfferRow]

\* Runs are numbered in the order they started in.
RunsInOrder ==
    /\ \A r \in DOMAIN runs : runs[r].startedAt <= clock
    /\ \A q, r \in DOMAIN runs : q <= r => runs[q].startedAt <= runs[r].startedAt

\* What a run wrote it had seen after it started.
SeenSinceStart(seen, by) == by \in DOMAIN runs /\ runs[by].startedAt <= seen

OffersSeen == \A o \in Offer : SeenSinceStart(offers[o].seen, offers[o].by)

SyncsSound ==
    /\ DOMAIN sync = Slot
    /\ \A s \in Slot :
          /\ sync[s] # Free => sync[s].op # "free" /\ sync[s].run \in DOMAIN runs
          /\ sync[s].op \in {"writing", "upserting"} =>
                /\ sync[s].seenAt \in Nat
                /\ SeenSinceStart(sync[s].seenAt, sync[s].run)
                /\ sync[s].todo \subseteq Offer
          /\ sync[s].op = "upserting" => sync[s].offer \in Offer
          /\ sync[s].op \in {"succeeding", "finishing"} => sync[s].outcome \in Outcomes

PullsSound ==
    /\ DOMAIN pull = Puller
    /\ \A a \in Puller : pull[a].op = "setting" => pull[a].offer \in Offer /\ pull[a].to \in Standings

CatalogInv == Tables /\ RunsInOrder /\ OffersSeen /\ SyncsSound /\ PullsSound

\* What the type of runs says of each.
LEMMA RunsTyped ==
    ASSUME Tables
    PROVE  /\ Len(runs) \in Nat /\ DOMAIN runs = 1 .. Len(runs)
           /\ \A r \in DOMAIN runs : runs[r] \in RunRow /\ runs[r].startedAt \in Nat
<1>1. \A r \in DOMAIN runs : runs[r] \in RunRow
  BY DEF Tables
<1>2. \A run \in RunRow : run.startedAt \in Nat
  BY DEF RunRow
<1> QED
  BY <1>1, <1>2 DEF Tables

LEMMA OneMoreWaiting ==
    ASSUME Tables, NEW mode \in Modes
    PROVE  Append(waiting, mode) \in Seq(Modes)
  BY DEF Tables

LEMMA CatalogInitInv == CatalogInit => CatalogInv
<1> SUFFICES ASSUME CatalogInit PROVE CatalogInv
  OBVIOUS
<1> USE DEF CatalogInit
<1>1. Tables
  BY DEF Tables, OfferRow, Standings, RunRow, Modes, Outcomes
<1>2. RunsInOrder /\ OffersSeen
  BY DEF RunsInOrder, OffersSeen, SeenSinceStart
<1>3. SyncsSound /\ PullsSound
  BY DEF SyncsSound, PullsSound, Free
<1> QED
  BY <1>1, <1>2, <1>3 DEF CatalogInv

\* A step of a run that leaves the tables alone, and leaves the run in a sound
\* state of its own.
LEMMA SyncKept ==
    ASSUME CatalogInv, NEW s \in Slot, NEW state,
           Become(s, state),
           UNCHANGED <<offers, runs, waiting, pull>>, clock' \in Nat, clock <= clock',
           state = Free \/ (state.op # "free" /\ state.run \in DOMAIN runs),
           state.op \in {"writing", "upserting"} =>
              /\ state.seenAt \in Nat
              /\ SeenSinceStart(state.seenAt, state.run)
              /\ state.todo \subseteq Offer,
           state.op = "upserting" => state.offer \in Offer,
           state.op \in {"succeeding", "finishing"} => state.outcome \in Outcomes
    PROVE  CatalogInv'
<1>1. Tables'
  BY DEF CatalogInv, Tables
<1>2. RunsInOrder'
  <2>1. \A r \in DOMAIN runs : runs[r].startedAt \in Nat
    BY RunsTyped DEF CatalogInv
  <2> QED
    BY <2>1 DEF CatalogInv, Tables, RunsInOrder
<1>3. OffersSeen' /\ PullsSound'
  BY DEF CatalogInv, OffersSeen, PullsSound, SeenSinceStart
<1>4. SyncsSound'
  BY DEF CatalogInv, SyncsSound, SeenSinceStart, Become
<1> QED
  BY <1>1, <1>2, <1>3, <1>4 DEF CatalogInv

LEMMA CatalogNextInv ==
    CatalogInv /\ [CatalogNext]_catalogVars => CatalogInv'
<1> SUFFICES ASSUME CatalogInv, [CatalogNext]_catalogVars
             PROVE  CatalogInv'
  OBVIOUS
<1>t. /\ clock \in Nat
      /\ \A r \in DOMAIN runs : runs[r] \in RunRow /\ runs[r].startedAt \in Nat
      /\ \A s \in Slot : sync[s] # Free => sync[s].run \in DOMAIN runs
  <2>1. clock \in Nat /\ \A s \in Slot : sync[s] # Free => sync[s].run \in DOMAIN runs
    BY DEF CatalogInv, Tables, SyncsSound
  <2> QED
    BY <2>1, RunsTyped DEF CatalogInv
<1>1. CASE UNCHANGED catalogVars
  BY <1>1 DEF catalogVars, CatalogInv, Tables, RunsInOrder, OffersSeen, SeenSinceStart, SyncsSound, PullsSound
<1>2. ASSUME NEW s \in Slot, Begin(s)
      PROVE  CatalogInv'
  <2> DEFINE new == [mode |-> Head(waiting), outcome |-> "RUNNING", startedAt |-> clock']
  <2>1. clock' \in Nat /\ clock <= clock'
    BY <1>2, <1>t DEF Begin, Ticks
  <2>2. Head(waiting) \in Modes /\ Tail(waiting) \in Seq(Modes)
    BY <1>2 DEF Begin, CatalogInv, Tables
  <2>3. /\ runs' = Append(runs, new)
        /\ new \in RunRow
    BY <1>2, <2>1, <2>2 DEF Begin, RunRow, Outcomes
  <2>4. /\ runs' \in Seq(RunRow)
        /\ DOMAIN runs' = 1 .. Len(runs) + 1
        /\ DOMAIN runs = 1 .. Len(runs) /\ Len(runs) \in Nat
        /\ \A r \in DOMAIN runs : runs'[r] = runs[r]
        /\ runs'[Len(runs) + 1] = new
    BY <2>3 DEF CatalogInv, Tables
  <2> HIDE DEF new
  <2>5. new.startedAt = clock'
    BY DEF new
  <2>6. Tables'
    BY <1>2, <2>1, <2>2, <2>4 DEF Begin, CatalogInv, Tables
  <2>7. RunsInOrder'
    <3>1. \A r \in DOMAIN runs : runs[r].startedAt \in Nat /\ runs[r].startedAt <= clock'
      BY <1>t, <2>1 DEF CatalogInv, RunsInOrder
    <3>2. ASSUME NEW q \in DOMAIN runs', NEW r \in DOMAIN runs', q <= r
          PROVE  runs'[q].startedAt <= runs'[r].startedAt
      <4>1. CASE r = Len(runs) + 1
        BY <2>1, <2>4, <2>5, <3>1, <4>1
      <4>2. CASE r # Len(runs) + 1
        BY <2>4, <3>2, <4>2 DEF CatalogInv, RunsInOrder
      <4> QED
        BY <4>1, <4>2
    <3>3. \A r \in DOMAIN runs' : runs'[r].startedAt <= clock'
      BY <2>1, <2>4, <2>5, <3>1
    <3> QED
      BY <3>2, <3>3 DEF RunsInOrder
  <2>8. \A seen, by : SeenSinceStart(seen, by) => SeenSinceStart(seen, by)'
    BY <2>4 DEF SeenSinceStart
  <2>9. OffersSeen' /\ PullsSound'
    BY <1>2, <2>4 DEF Begin, CatalogInv, OffersSeen, PullsSound, SeenSinceStart
  <2>10. SyncsSound'
    <3>1. /\ DOMAIN sync' = Slot
          /\ \A t \in Slot \ {s} : sync'[t] = sync[t]
          /\ sync'[s].op \in {"fetching", "failing"}
          /\ sync'[s].run = Len(runs) + 1
      BY <1>2 DEF Begin, Become, CatalogInv, SyncsSound
    <3> QED
      BY <2>4, <3>1 DEF CatalogInv, SyncsSound, SeenSinceStart
  <2> QED
    BY <2>6, <2>7, <2>9, <2>10 DEF CatalogInv
<1>3. ASSUME NEW s \in Slot, Fetch(s)
      PROVE  CatalogInv'
  <2>1. clock' \in Nat /\ clock <= clock' /\ UNCHANGED <<offers, runs, waiting, pull>>
    BY <1>3, <1>t DEF Fetch, Ticks
  <2>2. PICK listed \in SUBSET Offer :
          Become(s, [op |-> "writing", run |-> sync[s].run, seenAt |-> clock',
                     todo |-> listed, accepted |-> {}])
    BY <1>3 DEF Fetch
  <2>3. sync[s].run \in DOMAIN runs
    BY <1>3, <1>t DEF Fetch, Free
  <2>4. SeenSinceStart(clock', sync[s].run)
    BY <1>t, <2>1, <2>3 DEF SeenSinceStart, CatalogInv, RunsInOrder
  <2> QED
    BY <2>1, <2>2, <2>3, <2>4, SyncKept
<1>4. ASSUME NEW s \in Slot, FindOffer(s)
      PROVE  CatalogInv'
  <2>1. UNCHANGED <<offers, runs, waiting, pull, clock>>
    BY <1>4 DEF FindOffer
  <2>2. PICK o \in sync[s].todo :
          Become(s, [op |-> "upserting", run |-> sync[s].run, seenAt |-> sync[s].seenAt,
                     todo |-> sync[s].todo \ {o}, accepted |-> sync[s].accepted,
                     offer |-> o, existing |-> offers[o].standing])
    BY <1>4 DEF FindOffer
  <2>3. /\ sync[s].run \in DOMAIN runs
        /\ sync[s].seenAt \in Nat /\ SeenSinceStart(sync[s].seenAt, sync[s].run)
        /\ sync[s].todo \subseteq Offer
    BY <1>4, <1>t DEF FindOffer, Free, CatalogInv, SyncsSound
  <2> QED
    BY <1>t, <2>1, <2>2, <2>3, SyncKept
<1>5. ASSUME NEW s \in Slot, Upsert(s)
      PROVE  CatalogInv'
  <2> DEFINE o == sync[s].offer
             row == [standing |-> Activation(sync[s].existing, offers[o].standing),
                     seen |-> sync[s].seenAt, by |-> sync[s].run]
  <2>1. UNCHANGED <<runs, waiting, pull, clock>> /\ offers' = [offers EXCEPT ![o] = row]
    BY <1>5 DEF Upsert
  <2>2. /\ sync[s].run \in DOMAIN runs /\ o \in Offer
        /\ sync[s].seenAt \in Nat /\ SeenSinceStart(sync[s].seenAt, sync[s].run)
        /\ sync[s].todo \subseteq Offer
    BY <1>5, <1>t DEF Upsert, Free, CatalogInv, SyncsSound
  <2>3. sync[s].run \in Nat
    BY <2>2 DEF CatalogInv, Tables
  <2>4. Activation(sync[s].existing, offers[o].standing) \in Standings
    BY <2>2 DEF Activation, Standings, CatalogInv, Tables, OfferRow
  <2>5. row \in OfferRow
    BY <2>2, <2>3, <2>4 DEF OfferRow
  <2>6. Tables'
    BY <2>1, <2>2, <2>5 DEF CatalogInv, Tables
  <2>7. OffersSeen'
    <3>1. row.seen = sync[s].seenAt /\ row.by = sync[s].run
      OBVIOUS
    <3>2. DOMAIN offers = Offer
      BY DEF CatalogInv, Tables
    <3> HIDE DEF row
    <3> QED
      BY <2>1, <2>2, <3>1, <3>2 DEF CatalogInv, OffersSeen, SeenSinceStart
  <2>8. SyncsSound'
    <3>1. Become(s, [op |-> "writing", run |-> sync[s].run, seenAt |-> sync[s].seenAt,
                     todo |-> sync[s].todo, accepted |-> sync[s].accepted \cup {o}])
      BY <1>5 DEF Upsert
    <3> QED
      BY <2>1, <2>2, <3>1 DEF CatalogInv, SyncsSound, SeenSinceStart, Become
  <2>9. RunsInOrder' /\ PullsSound'
    BY <2>1 DEF CatalogInv, RunsInOrder, PullsSound
  <2> QED
    BY <2>6, <2>7, <2>8, <2>9 DEF CatalogInv
<1>6. ASSUME NEW s \in Slot, Written(s) \/ PruneIfSafe(s)
      PROVE  CatalogInv'
  <2>1. UNCHANGED <<offers, runs, waiting, pull, clock>> /\ sync[s].run \in DOMAIN runs
    BY <1>6, <1>t DEF Written, PruneIfSafe, Free
  <2>2. \/ Ends(s, "succeeding", "SUCCESS") \/ Ends(s, "succeeding", "PARTIAL")
        \/ Become(s, [op |-> "pruning", run |-> sync[s].run, accepted |-> sync[s].accepted])
    BY <1>6 DEF Written, PruneIfSafe
  <2> QED
    BY <1>t, <2>1, <2>2, SyncKept DEF Ends, Outcomes
<1>7. ASSUME NEW s \in Slot, DeactivateUnseen(s)
      PROVE  CatalogInv'
  <2>1. UNCHANGED <<runs, waiting, pull, clock>> /\ sync[s].run \in DOMAIN runs
    BY <1>7, <1>t DEF DeactivateUnseen, Free
  <2>2. \A o \in Offer : offers[o] \in OfferRow
    BY DEF CatalogInv, Tables
  <2>3. PICK unseen :
          offers' = [o \in Offer |-> IF o \in unseen THEN [offers[o] EXCEPT !.standing = "SYNC"] ELSE offers[o]]
    BY <1>7 DEF DeactivateUnseen
  <2>4. \A o \in Offer : offers'[o] \in OfferRow /\ offers'[o].seen = offers[o].seen
                                                 /\ offers'[o].by = offers[o].by
    BY <2>2, <2>3 DEF OfferRow, Standings
  <2>5. Tables' /\ OffersSeen'
    BY <2>1, <2>3, <2>4 DEF CatalogInv, Tables, OffersSeen, SeenSinceStart
  <2>6. SyncsSound'
    BY <1>7, <2>1 DEF DeactivateUnseen, Ends, Become, CatalogInv, SyncsSound, SeenSinceStart, Outcomes
  <2>7. RunsInOrder' /\ PullsSound'
    BY <2>1 DEF CatalogInv, RunsInOrder, PullsSound
  <2> QED
    BY <2>5, <2>6, <2>7 DEF CatalogInv
<1>8. ASSUME NEW s \in Slot, RecordSuccess(s) \/ RecordFailure(s)
      PROVE  CatalogInv'
  <2>1. UNCHANGED <<offers, runs, waiting, pull, clock>> /\ sync[s].run \in DOMAIN runs
    BY <1>8, <1>t DEF RecordSuccess, RecordFailure, Free
  <2>2. sync[s].op = "succeeding" => sync[s].outcome \in Outcomes
    BY DEF CatalogInv, SyncsSound
  <2>3. \E outcome \in Outcomes : Ends(s, "finishing", outcome)
    BY <1>8, <2>2 DEF RecordSuccess, RecordFailure, Outcomes
  <2> QED
    BY <1>t, <2>1, <2>3, SyncKept DEF Ends
<1>9. ASSUME NEW s \in Slot, Finish(s)
      PROVE  CatalogInv'
  <2> DEFINE r == sync[s].run
  <2>1. /\ UNCHANGED <<offers, waiting, pull, clock>> /\ r \in DOMAIN runs
        /\ sync[s].outcome \in Outcomes
        /\ runs' = [runs EXCEPT ![r].outcome = sync[s].outcome]
        /\ Become(s, Free)
    BY <1>9, <1>t DEF Finish, Free, CatalogInv, SyncsSound
  <2>2. /\ runs' \in Seq(RunRow)
        /\ DOMAIN runs' = DOMAIN runs
        /\ \A q \in DOMAIN runs : runs'[q].startedAt = runs[q].startedAt
    <3> DEFINE ended == [runs[r] EXCEPT !.outcome = sync[s].outcome]
    <3>1. ended \in RunRow /\ ended.startedAt = runs[r].startedAt
      BY <1>t, <2>1 DEF RunRow
    <3>2. runs' = [runs EXCEPT ![r] = ended]
      BY <2>1
    <3> HIDE DEF ended
    <3> QED
      BY <2>1, <3>1, <3>2 DEF CatalogInv, Tables
  <2>3. Tables' /\ RunsInOrder'
    BY <2>1, <2>2 DEF CatalogInv, Tables, RunsInOrder
  <2>4. OffersSeen' /\ PullsSound'
    BY <2>1, <2>2 DEF CatalogInv, OffersSeen, SeenSinceStart, PullsSound
  <2>5. SyncsSound'
    BY <2>1, <2>2 DEF CatalogInv, SyncsSound, SeenSinceStart, Become, Free
  <2> QED
    BY <2>3, <2>4, <2>5 DEF CatalogInv
<1>10. ASSUME NEW s \in Slot, Break(s)
       PROVE  CatalogInv'
  BY <1>10, <1>t, SyncKept DEF Break, Free
<1>11. ASSUME NEW s \in Slot, Crash(s)
       PROVE  CatalogInv'
  <2>1. UNCHANGED <<offers, runs, pull, clock>> /\ Become(s, Free)
    BY <1>11 DEF Crash
  <2>2. waiting' \in Seq(Modes)
    <3>1. runs[sync[s].run].mode \in Modes
      BY <1>11, <1>t DEF Crash, RunRow
    <3>2. waiting' = waiting \/ waiting' = Append(waiting, runs[sync[s].run].mode)
      BY <1>11 DEF Crash
    <3> QED
      BY <3>1, <3>2, OneMoreWaiting DEF CatalogInv, Tables
  <2>3. Tables' /\ RunsInOrder' /\ OffersSeen' /\ PullsSound'
    BY <2>1, <2>2 DEF CatalogInv, Tables, RunsInOrder, OffersSeen, SeenSinceStart, PullsSound
  <2>4. SyncsSound'
    BY <2>1 DEF CatalogInv, SyncsSound, SeenSinceStart, Become, Free
  <2> QED
    BY <2>3, <2>4 DEF CatalogInv
<1>12. CASE Tick \/ (\E mode \in Modes : RequestSync(mode)) \/ ResetHealth \/ SetEnabled
  <2>1. UNCHANGED <<offers, runs, sync, pull, clock>>
    BY <1>12 DEF Tick, RequestSync, ResetHealth, SetEnabled
  <2>2. DueModes \subseteq Modes
    BY DEF DueModes, Modes
  <2>3. waiting' \in Seq(Modes)
    <3>1. waiting' = waiting \/ \E mode \in Modes : waiting' = Append(waiting, mode)
      BY <1>12, <2>2 DEF Tick, RequestSync, ResetHealth, SetEnabled
    <3> QED
      BY <3>1, OneMoreWaiting DEF CatalogInv, Tables
  <2> QED
    BY <2>1, <2>3 DEF CatalogInv, Tables, RunsInOrder, OffersSeen, SeenSinceStart, SyncsSound, PullsSound
<1>13. ASSUME NEW a \in Puller, NEW o \in Offer, NEW to \in {"active", "ADMIN"}, OpenPull(a, o, to)
       PROVE  CatalogInv'
  <2>1. UNCHANGED <<offers, runs, waiting, sync, clock>>
    BY <1>13 DEF OpenPull
  <2>2. PullsSound'
    BY <1>13 DEF OpenPull, CatalogInv, PullsSound, Standings
  <2> QED
    BY <2>1, <2>2 DEF CatalogInv, Tables, RunsInOrder, OffersSeen, SeenSinceStart, SyncsSound
<1>14. ASSUME NEW a \in Puller, CommitPull(a)
       PROVE  CatalogInv'
  <2>1. /\ UNCHANGED <<runs, waiting, sync, clock>>
        /\ offers' = [offers EXCEPT ![pull[a].offer].standing = pull[a].to]
        /\ pull' = [pull EXCEPT ![a] = Free]
        /\ pull[a].offer \in Offer /\ pull[a].to \in Standings
    BY <1>14 DEF CommitPull, CatalogInv, PullsSound
  <2>2. /\ offers' \in [Offer -> OfferRow]
        /\ \A o \in Offer : offers'[o].seen = offers[o].seen /\ offers'[o].by = offers[o].by
    BY <2>1 DEF CatalogInv, Tables, OfferRow
  <2>3. Tables' /\ OffersSeen' /\ RunsInOrder' /\ SyncsSound'
    BY <2>1, <2>2 DEF CatalogInv, Tables, OffersSeen, RunsInOrder, SeenSinceStart, SyncsSound
  <2>4. PullsSound'
    BY <2>1 DEF CatalogInv, PullsSound, Free
  <2> QED
    BY <2>3, <2>4 DEF CatalogInv
<1> QED
  BY <1>1, <1>2, <1>3, <1>4, <1>5, <1>6, <1>7, <1>8, <1>9, <1>10, <1>11, <1>12, <1>13, <1>14
     DEF CatalogNext, Run

\* The tables and the runs in progress are always sound.
THEOREM CatalogInductive == CatalogSpec => []CatalogInv
  BY CatalogInitInv, CatalogNextInv, PTL DEF CatalogSpec

\* What the two action properties forbid, and what excuses it.
Undone(o)      == offers[o].standing = "ADMIN" /\ offers'[o].standing = "active"
Excused(o)     == \/ \E a \in Puller : pull[a].op = "setting" /\ pull[a].to = "active"
                  \/ \E s \in Slot : sync[s].op = "upserting" /\ sync[s].offer = o
                                       /\ sync[s].existing # "ADMIN"
TakesOff(s, o) == DeactivateUnseen(s) /\ offers'[o] # offers[o] /\ o \in sync[s].accepted
Earlier(s, o)  == LET by == offers[o].by IN by # sync[s].run /\ by < sync[s].run

LEMMA UndoneExcused ==
    ASSUME CatalogInv, [CatalogNext]_catalogVars, NEW o \in Offer, Undone(o)
    PROVE  Excused(o)
<1> USE DEF Undone, Excused
<1>1. offers' # offers
  OBVIOUS
<1>2. DOMAIN offers = Offer
  BY DEF CatalogInv, Tables
<1>3. ASSUME NEW s \in Slot, Upsert(s)
      PROVE  Excused(o)
  <2>1. /\ sync[s].op = "upserting"
        /\ offers' = [offers EXCEPT ![sync[s].offer] =
                        [standing |-> Activation(sync[s].existing, offers[sync[s].offer].standing),
                         seen |-> sync[s].seenAt, by |-> sync[s].run]]
    BY <1>3 DEF Upsert
  <2>2. o = sync[s].offer
    BY <1>2, <2>1
  <2>3. offers'[o].standing = Activation(sync[s].existing, offers[o].standing)
    BY <1>2, <2>1, <2>2
  <2>4. sync[s].existing # "ADMIN"
    BY <2>3 DEF Activation
  <2> QED
    BY <2>1, <2>2, <2>4
<1>4. ASSUME NEW s \in Slot, DeactivateUnseen(s)
      PROVE  FALSE
  <2>1. PICK unseen :
          offers' = [p \in Offer |-> IF p \in unseen THEN [offers[p] EXCEPT !.standing = "SYNC"] ELSE offers[p]]
    BY <1>4 DEF DeactivateUnseen
  <2>2. offers[o] \in OfferRow
    BY DEF CatalogInv, Tables
  <2> QED
    BY <2>1, <2>2 DEF OfferRow
<1>5. ASSUME NEW a \in Puller, CommitPull(a)
      PROVE  Excused(o)
  <2>1. pull[a].op = "setting" /\ offers' = [offers EXCEPT ![pull[a].offer].standing = pull[a].to]
    BY <1>5 DEF CommitPull
  <2>2. o = pull[a].offer
    BY <1>2, <2>1
  <2>3. offers[o] \in OfferRow
    BY DEF CatalogInv, Tables
  <2>4. pull[a].to = "active"
    BY <1>2, <2>1, <2>2, <2>3 DEF OfferRow
  <2> QED
    BY <2>1, <2>4
<1>6. \/ offers' = offers
      \/ \E s \in Slot : Upsert(s) \/ DeactivateUnseen(s)
      \/ \E a \in Puller : CommitPull(a)
  BY DEF CatalogNext, catalogVars, Run, Begin, Fetch, FindOffer, Written, PruneIfSafe,
         RecordSuccess, RecordFailure, Finish, Break, Crash, Tick, RequestSync, OpenPull,
         ResetHealth, SetEnabled
<1> QED
  BY <1>1, <1>3, <1>4, <1>5, <1>6

LEMMA TakenEarlier ==
    ASSUME CatalogInv, NEW s \in Slot, NEW o \in Offer, TakesOff(s, o)
    PROVE  Earlier(s, o)
<1> USE DEF TakesOff, Earlier
<1>1. sync[s].run \in DOMAIN runs
  BY DEF CatalogInv, SyncsSound, DeactivateUnseen, Free
<1>2. offers[o].by \in DOMAIN runs /\ runs[offers[o].by].startedAt <= offers[o].seen
  BY DEF CatalogInv, OffersSeen, SeenSinceStart
<1>3. offers[o].seen < runs[sync[s].run].startedAt
  BY DEF DeactivateUnseen, Unseen
<1>4. /\ runs[offers[o].by].startedAt \in Nat /\ runs[sync[s].run].startedAt \in Nat
      /\ offers[o].by \in Nat /\ sync[s].run \in Nat
  BY <1>1, <1>2, RunsTyped DEF CatalogInv
<1>5. offers[o].seen \in Nat
  BY DEF CatalogInv, Tables, OfferRow
<1>6. ~(sync[s].run <= offers[o].by)
  BY <1>1, <1>2, <1>3, <1>4, <1>5 DEF CatalogInv, RunsInOrder
<1> QED
  BY <1>4, <1>6

\* An offer that an administrator pulled is back only through an administrator,
\* or through a run that had read it before (upsertFromSync).
THEOREM PulledStays == CatalogSpec => PulledStaysPulled
<1>1. CatalogInv /\ [CatalogNext]_catalogVars
        => [\A o \in Offer : Undone(o) => Excused(o)]_catalogVars
  BY UndoneExcused
<1> QED
  BY <1>1, CatalogInductive, PTL DEF CatalogSpec, PulledStaysPulled, Undone, Excused

\* A run takes an offer it has seen off the wall only where an earlier run wrote
\* it later: runs start in order, and stamp what they saw after they started
\* (deactivateUnseen).
THEOREM PrunedUnseen == CatalogSpec => PrunedWasUnseen
<1>1. CatalogInv /\ [CatalogNext]_catalogVars
        => [\A s \in Slot, o \in Offer : TakesOff(s, o) => Earlier(s, o)]_catalogVars
  BY TakenEarlier
<1> QED
  BY <1>1, CatalogInductive, PTL DEF CatalogSpec, PrunedWasUnseen, TakesOff, Earlier

-----------------------------------------------------------------------------
(* Counting                                                                *)

\* Two sets that differ in one element at most.
LEMMA OneElement ==
    ASSUME NEW U, IsFiniteSet(U), NEW S \in SUBSET U, NEW T \in SUBSET U, NEW a,
           \A b \in U : b # a => (b \in T <=> b \in S)
    PROVE  /\ Cardinality(S) \in Nat /\ Cardinality(T) \in Nat /\ Cardinality(U) \in Nat
           /\ Cardinality(S) <= Cardinality(U) /\ Cardinality(T) <= Cardinality(U)
           /\ Cardinality(T) <= Cardinality(S) + 1
           /\ a \in T /\ a \notin S => Cardinality(T) = Cardinality(S) + 1
           /\ a \notin T => Cardinality(T) <= Cardinality(S)
           /\ a \notin T /\ a \in S => Cardinality(T) = Cardinality(S) - 1
           /\ (a \in T <=> a \in S) => Cardinality(T) = Cardinality(S)
<1>1. /\ IsFiniteSet(S) /\ IsFiniteSet(T)
      /\ Cardinality(S) \in Nat /\ Cardinality(T) \in Nat /\ Cardinality(U) \in Nat
      /\ Cardinality(S) <= Cardinality(U) /\ Cardinality(T) <= Cardinality(U)
  BY FS_Subset, FS_CardinalityType
<1>2. CASE a \in T /\ a \notin S
  <2>1. T = S \cup {a}
    BY <1>2
  <2> QED
    BY <1>1, <1>2, <2>1, FS_AddElement
<1>3. CASE a \notin T /\ a \in S
  <2>1. T = S \ {a}
    BY <1>3
  <2> QED
    BY <1>1, <1>3, <2>1, FS_RemoveElement
<1>4. CASE a \in T <=> a \in S
  <2>1. T = S
    BY <1>4
  <2> QED
    BY <1>1, <1>4, <2>1
<1> QED
  BY <1>2, <1>3, <1>4

LEMMA Fewer ==
    ASSUME NEW S, NEW T \in SUBSET S, IsFiniteSet(S)
    PROVE  Cardinality(S) \in Nat /\ Cardinality(T) \in Nat /\ Cardinality(T) <= Cardinality(S)
  BY FS_Subset, FS_CardinalityType

-----------------------------------------------------------------------------
(* Clicks                                                                  *)

ClickRow == [user : Clicker, address : Address \cup {Nowhere}, offer : Offer, recent : BOOLEAN]

ClickRequest == [op : {"requiring", "countingUser", "countingAddress", "inserting"},
                 user : Clicker, address : Address \cup {Nowhere}, offer : Offer]

ClicksTypeOK ==
    /\ clicks \in Seq(ClickRow)
    /\ creating \in [Handler -> {Resting} \cup ClickRequest]

\* The requests that were counted, and have yet to insert.
UserCounted(u) ==
    {h \in Handler : creating[h].op \in {"countingAddress", "inserting"} /\ creating[h].user = u}
AddressCounted(a) == {h \in Handler : creating[h].op = "inserting" /\ creating[h].address = a}

UserLimited(u) ==
    Cardinality(RecentOf("user", u)) + Cardinality(UserCounted(u)) < PerUser + Cardinality(Handler)
AddressLimited(a) ==
    Cardinality(RecentOf("address", a)) + Cardinality(AddressCounted(a)) < PerAddress + Cardinality(Handler)

ClicksInv ==
    /\ ClicksTypeOK
    /\ \A u \in Clicker : UserLimited(u)
    /\ \A a \in Address : AddressLimited(a)

LEMMA ClicksTyped ==
    ASSUME ClicksTypeOK
    PROVE  /\ Len(clicks) \in Nat /\ DOMAIN clicks = 1 .. Len(clicks)
           /\ IsFiniteSet(DOMAIN clicks)
           /\ \A i \in DOMAIN clicks :
                 /\ clicks[i] \in ClickRow
                 /\ clicks[i].user \in Clicker /\ clicks[i].address \in Address \cup {Nowhere}
                 /\ clicks[i].recent \in BOOLEAN
           /\ \A column, value :
                 /\ IsFiniteSet(RecentOf(column, value))
                 /\ Cardinality(RecentOf(column, value)) \in Nat
<1>1. /\ Len(clicks) \in Nat /\ DOMAIN clicks = 1 .. Len(clicks)
      /\ \A i \in DOMAIN clicks : clicks[i] \in ClickRow
  BY DEF ClicksTypeOK
<1>2. IsFiniteSet(DOMAIN clicks)
  BY <1>1, FS_Interval
<1>3. ASSUME NEW column, NEW value
      PROVE  IsFiniteSet(RecentOf(column, value)) /\ Cardinality(RecentOf(column, value)) \in Nat
  <2>1. RecentOf(column, value) \subseteq DOMAIN clicks
    BY DEF RecentOf
  <2> QED
    BY <1>2, <2>1, FS_Subset, FS_CardinalityType
<1> QED
  BY <1>1, <1>2, <1>3 DEF ClickRow

\* Whoever is counted is a handler.
LEMMA CountedFew ==
    /\ Cardinality(Handler) \in Nat
    /\ \A u : Cardinality(UserCounted(u)) \in Nat /\ Cardinality(UserCounted(u)) <= Cardinality(Handler)
    /\ \A a : Cardinality(AddressCounted(a)) \in Nat /\ Cardinality(AddressCounted(a)) <= Cardinality(Handler)
<1>1. \A u : UserCounted(u) \subseteq Handler
  BY DEF UserCounted
<1>2. \A a : AddressCounted(a) \subseteq Handler
  BY DEF AddressCounted
<1> QED
  BY <1>1, <1>2, ClicksAssumption, FS_Subset, FS_CardinalityType

\* A request moves, and is counted only where there was room.
LEMMA CreatingStep ==
    ASSUME ClicksInv, NEW h \in Handler, NEW state \in {Resting} \cup ClickRequest,
           Creating(h, state), clicks' = clicks,
           state.op \in {"countingAddress", "inserting"} =>
              \/ h \in UserCounted(state.user)
              \/ Cardinality(RecentOf("user", state.user)) < PerUser,
           state.op = "inserting" /\ state.address \in Address =>
              \/ h \in AddressCounted(state.address)
              \/ Cardinality(RecentOf("address", state.address)) < PerAddress
    PROVE  ClicksInv'
<1>1. /\ DOMAIN creating' = Handler /\ creating'[h] = state
      /\ \A g \in Handler : g # h => creating'[g] = creating[g]
  BY DEF Creating, ClicksInv, ClicksTypeOK
<1>2. ClicksTypeOK'
  BY DEF ClicksInv, ClicksTypeOK, Creating
<1>3. \A column, value : RecentOf(column, value)' = RecentOf(column, value)
  BY DEF RecentOf
<1>4. ASSUME NEW u \in Clicker
      PROVE  UserLimited(u)'
  <2>1. PICK S \in SUBSET Handler, T \in SUBSET Handler : S = UserCounted(u) /\ T = UserCounted(u)'
    BY DEF UserCounted
  <2>2. \A g \in Handler : g # h => (g \in T <=> g \in S)
    BY <1>1, <2>1 DEF UserCounted
  <2>3. /\ Cardinality(S) \in Nat /\ Cardinality(T) \in Nat /\ Cardinality(Handler) \in Nat
        /\ Cardinality(T) <= Cardinality(Handler)
        /\ h \notin T => Cardinality(T) <= Cardinality(S)
        /\ (h \in T <=> h \in S) => Cardinality(T) = Cardinality(S)
    BY <2>2, ClicksAssumption, OneElement
  <2>4. h \in T /\ h \notin S => Cardinality(RecentOf("user", u)) < PerUser
    BY <1>1, <2>1 DEF UserCounted
  <2>5. Cardinality(RecentOf("user", u)) \in Nat
    BY ClicksTyped DEF ClicksInv
  <2>6. Cardinality(RecentOf("user", u)) + Cardinality(S) < PerUser + Cardinality(Handler)
    BY <2>1 DEF ClicksInv, UserLimited
  <2>7. Cardinality(RecentOf("user", u)) + Cardinality(T) < PerUser + Cardinality(Handler)
    BY <2>3, <2>4, <2>5, <2>6, ClicksAssumption
  <2> QED
    BY <1>3, <2>1, <2>7 DEF UserLimited
<1>5. ASSUME NEW a \in Address
      PROVE  AddressLimited(a)'
  <2>1. PICK S \in SUBSET Handler, T \in SUBSET Handler : S = AddressCounted(a) /\ T = AddressCounted(a)'
    BY DEF AddressCounted
  <2>2. \A g \in Handler : g # h => (g \in T <=> g \in S)
    BY <1>1, <2>1 DEF AddressCounted
  <2>3. /\ Cardinality(S) \in Nat /\ Cardinality(T) \in Nat /\ Cardinality(Handler) \in Nat
        /\ Cardinality(T) <= Cardinality(Handler)
        /\ h \notin T => Cardinality(T) <= Cardinality(S)
        /\ (h \in T <=> h \in S) => Cardinality(T) = Cardinality(S)
    BY <2>2, ClicksAssumption, OneElement
  <2>4. h \in T /\ h \notin S => Cardinality(RecentOf("address", a)) < PerAddress
    BY <1>1, <2>1 DEF AddressCounted
  <2>5. Cardinality(RecentOf("address", a)) \in Nat
    BY ClicksTyped DEF ClicksInv
  <2>6. Cardinality(RecentOf("address", a)) + Cardinality(S) < PerAddress + Cardinality(Handler)
    BY <2>1 DEF ClicksInv, AddressLimited
  <2>7. Cardinality(RecentOf("address", a)) + Cardinality(T) < PerAddress + Cardinality(Handler)
    BY <2>3, <2>4, <2>5, <2>6, ClicksAssumption
  <2> QED
    BY <1>3, <2>1, <2>7 DEF AddressLimited
<1> QED
  BY <1>2, <1>4, <1>5 DEF ClicksInv

\* A click that is written takes the place its request was counted for.
LEMMA InsertInv ==
    ASSUME ClicksInv, NEW h \in Handler, Insert(h)
    PROVE  ClicksInv'
<1>1. PICK u \in Clicker, a \in Address \cup {Nowhere}, o \in Offer, n \in Nat :
         /\ u = creating[h].user /\ a = creating[h].address /\ o = creating[h].offer
         /\ n = Len(clicks) + 1 /\ creating[h].op = "inserting"
  <2>1. creating[h].op = "inserting" /\ Len(clicks) + 1 \in Nat
    BY ClicksTyped DEF Insert, ClicksInv
  <2>2. creating[h] \in ClickRequest
    BY <2>1 DEF ClicksInv, ClicksTypeOK, Resting
  <2> QED
    BY <2>1, <2>2 DEF ClickRequest
<1> DEFINE new == [user |-> u, address |-> a, offer |-> o, recent |-> TRUE]
<1>2. clicks' = Append(clicks, new) /\ new \in ClickRow
  BY <1>1 DEF Insert, ClickRow
<1> HIDE DEF new
<1>3. /\ clicks' \in Seq(ClickRow) /\ DOMAIN clicks' = DOMAIN clicks \cup {n} /\ n \notin DOMAIN clicks
      /\ clicks'[n] = new
      /\ \A i \in DOMAIN clicks : clicks'[i] = clicks[i]
  BY <1>1, <1>2 DEF ClicksInv, ClicksTypeOK
<1>4. /\ DOMAIN creating' = Handler /\ creating'[h] = Resting
      /\ \A g \in Handler : g # h => creating'[g] = creating[g]
  BY DEF Insert, Creating, ClicksInv, ClicksTypeOK
<1>5. ClicksTypeOK'
  <2>1. creating' \in [Handler -> {Resting} \cup ClickRequest]
    BY DEF ClicksInv, ClicksTypeOK, Insert, Creating
  <2> QED
    BY <1>3, <2>1 DEF ClicksTypeOK
<1>6. ASSUME NEW v \in Clicker
      PROVE  UserLimited(v)'
  <2>1. PICK S \in SUBSET Handler, T \in SUBSET Handler : S = UserCounted(v) /\ T = UserCounted(v)'
    BY DEF UserCounted
  <2>2. /\ \A g \in Handler : g # h => (g \in T <=> g \in S)
        /\ h \notin T /\ (h \in S <=> v = u)
    BY <1>1, <1>4, <2>1 DEF UserCounted, Resting
  <2>3. /\ Cardinality(S) \in Nat /\ Cardinality(T) \in Nat /\ Cardinality(Handler) \in Nat
        /\ Cardinality(T) = IF v = u THEN Cardinality(S) - 1 ELSE Cardinality(S)
    BY <2>2, ClicksAssumption, OneElement
  <2>4. PICK before, after : before = RecentOf("user", v) /\ after = RecentOf("user", v)'
    OBVIOUS
  <2>5. IsFiniteSet(before) /\ Cardinality(before) \in Nat
    BY <2>4, ClicksTyped DEF ClicksInv
  <2>6. after = IF v = u THEN before \cup {n} ELSE before
    BY <1>3, <2>4 DEF RecentOf, new
  <2>7. n \notin before
    BY <1>3, <2>4 DEF RecentOf
  <2>8. Cardinality(after) = IF v = u THEN Cardinality(before) + 1 ELSE Cardinality(before)
    BY <2>5, <2>6, <2>7, FS_AddElement
  <2>9. Cardinality(before) + Cardinality(S) < PerUser + Cardinality(Handler)
    BY <2>1, <2>4 DEF ClicksInv, UserLimited
  <2>10. Cardinality(after) + Cardinality(T) < PerUser + Cardinality(Handler)
    BY <2>3, <2>5, <2>8, <2>9
  <2> QED
    BY <2>1, <2>4, <2>10 DEF UserLimited
<1>7. ASSUME NEW b \in Address
      PROVE  AddressLimited(b)'
  <2>1. PICK S \in SUBSET Handler, T \in SUBSET Handler : S = AddressCounted(b) /\ T = AddressCounted(b)'
    BY DEF AddressCounted
  <2>2. /\ \A g \in Handler : g # h => (g \in T <=> g \in S)
        /\ h \notin T /\ (h \in S <=> b = a)
    BY <1>1, <1>4, <2>1 DEF AddressCounted, Resting
  <2>3. /\ Cardinality(S) \in Nat /\ Cardinality(T) \in Nat /\ Cardinality(Handler) \in Nat
        /\ Cardinality(T) = IF b = a THEN Cardinality(S) - 1 ELSE Cardinality(S)
    BY <2>2, ClicksAssumption, OneElement
  <2>4. PICK before, after : before = RecentOf("address", b) /\ after = RecentOf("address", b)'
    OBVIOUS
  <2>5. IsFiniteSet(before) /\ Cardinality(before) \in Nat
    BY <2>4, ClicksTyped DEF ClicksInv
  <2>6. after = IF b = a THEN before \cup {n} ELSE before
    BY <1>3, <2>4 DEF RecentOf, new
  <2>7. n \notin before
    BY <1>3, <2>4 DEF RecentOf
  <2>8. Cardinality(after) = IF b = a THEN Cardinality(before) + 1 ELSE Cardinality(before)
    BY <2>5, <2>6, <2>7, FS_AddElement
  <2>9. Cardinality(before) + Cardinality(S) < PerAddress + Cardinality(Handler)
    BY <2>1, <2>4 DEF ClicksInv, AddressLimited
  <2>10. Cardinality(after) + Cardinality(T) < PerAddress + Cardinality(Handler)
    BY <2>3, <2>5, <2>8, <2>9
  <2> QED
    BY <2>1, <2>4, <2>10 DEF AddressLimited
<1> QED
  BY <1>5, <1>6, <1>7 DEF ClicksInv

\* An hour passes, and fewer clicks are recent.
LEMMA HourPassesInv ==
    ASSUME ClicksInv, HourPasses
    PROVE  ClicksInv'
<1>1. PICK i \in DOMAIN clicks : clicks' = [clicks EXCEPT ![i].recent = FALSE] /\ creating' = creating
  BY DEF HourPasses
<1>2. clicks' = [clicks EXCEPT ![i] = [clicks[i] EXCEPT !.recent = FALSE]]
  BY <1>1
<1>3. /\ \A j \in DOMAIN clicks : clicks[j] \in ClickRow
      /\ [clicks[i] EXCEPT !.recent = FALSE] \in ClickRow
  BY ClicksTyped DEF ClicksInv, ClickRow
<1>4. clicks' \in Seq(ClickRow)
  BY <1>2, <1>3 DEF ClicksInv, ClicksTypeOK
<1>5. /\ DOMAIN clicks' = DOMAIN clicks
      /\ \A j \in DOMAIN clicks :
            /\ clicks'[j].recent => clicks[j].recent
            /\ clicks'[j].user = clicks[j].user /\ clicks'[j].address = clicks[j].address
  BY <1>2, <1>3 DEF ClickRow
<1>6. /\ \A u : RecentOf("user", u)' \subseteq RecentOf("user", u)
      /\ \A a : RecentOf("address", a)' \subseteq RecentOf("address", a)
  BY <1>5 DEF RecentOf
<1>7. \A column \in {"user", "address"} : \A value :
         /\ Cardinality(RecentOf(column, value)') \in Nat
         /\ Cardinality(RecentOf(column, value)') <= Cardinality(RecentOf(column, value))
  BY <1>6, ClicksTyped, Fewer DEF ClicksInv
<1>8. /\ \A u : UserCounted(u)' = UserCounted(u)
      /\ \A a : AddressCounted(a)' = AddressCounted(a)
  BY <1>1 DEF UserCounted, AddressCounted
<1>9. ClicksTypeOK'
  BY <1>1, <1>4 DEF ClicksInv, ClicksTypeOK
<1>10. \A u \in Clicker : UserLimited(u)'
  BY <1>7, <1>8, CountedFew, ClicksTyped, ClicksAssumption DEF ClicksInv, UserLimited
<1>11. \A a \in Address : AddressLimited(a)'
  BY <1>7, <1>8, CountedFew, ClicksTyped, ClicksAssumption DEF ClicksInv, AddressLimited
<1> QED
  BY <1>9, <1>10, <1>11 DEF ClicksInv

LEMMA ClicksStandStill == ASSUME ClicksInv, UNCHANGED clickVars PROVE ClicksInv'
<1>1. clicks' = clicks /\ creating' = creating
  BY DEF clickVars
<1>2. \A column, value : RecentOf(column, value)' = RecentOf(column, value)
  BY <1>1 DEF RecentOf
<1>3. /\ \A u : UserCounted(u)' = UserCounted(u)
      /\ \A a : AddressCounted(a)' = AddressCounted(a)
  BY <1>1 DEF UserCounted, AddressCounted
<1>4. ClicksTypeOK'
  BY <1>1 DEF ClicksInv, ClicksTypeOK
<1>5. (\A u \in Clicker : UserLimited(u)') /\ (\A a \in Address : AddressLimited(a)')
  BY <1>2, <1>3 DEF ClicksInv, UserLimited, AddressLimited
<1> QED
  BY <1>4, <1>5 DEF ClicksInv

LEMMA ClicksInitInv == ClicksInit => ClicksInv
<1> SUFFICES ASSUME ClicksInit PROVE ClicksInv
  OBVIOUS
<1>1. ClicksTypeOK
  BY DEF ClicksInit, ClicksTypeOK, Resting
<1>2. \A column, value : RecentOf(column, value) = {}
  BY DEF ClicksInit, RecentOf
<1>3. /\ \A u : UserCounted(u) = {}
      /\ \A a : AddressCounted(a) = {}
  BY DEF ClicksInit, UserCounted, AddressCounted, Resting
<1>4. Cardinality({}) = 0
  BY FS_EmptySet
<1>5. Cardinality(Handler) \in Nat /\ 0 + 0 < PerUser + Cardinality(Handler)
      /\ 0 + 0 < PerAddress + Cardinality(Handler)
  BY CountedFew, ClicksAssumption
<1>6. \A u \in Clicker : UserLimited(u)
  BY <1>2, <1>3, <1>4, <1>5 DEF UserLimited
<1>7. \A a \in Address : AddressLimited(a)
  BY <1>2, <1>3, <1>4, <1>5 DEF AddressLimited
<1> QED
  BY <1>1, <1>6, <1>7 DEF ClicksInv

LEMMA ClickingNextInv == ClicksInv /\ [ClickingNext]_<<catalogVars, clickVars>> => ClicksInv'
<1> SUFFICES ASSUME ClicksInv, [ClickingNext]_<<catalogVars, clickVars>> PROVE ClicksInv'
  OBVIOUS
<1>1. CASE UNCHANGED clickVars
  BY <1>1, ClicksStandStill
<1>2. ASSUME NEW h \in Handler, NEW u \in Clicker, NEW a \in Address \cup {Nowhere}, NEW o \in Offer,
             RequireOffer(h, u, a, o)
      PROVE  ClicksInv'
  <2>1. PICK state \in ClickRequest : Creating(h, state) /\ clicks' = clicks /\ state.op = "requiring"
    <3>1. [op |-> "requiring", user |-> u, address |-> a, offer |-> o] \in ClickRequest
      BY DEF ClickRequest
    <3> QED
      BY <1>2, <3>1 DEF RequireOffer
  <2> QED
    BY <2>1, CreatingStep
<1>3. ASSUME NEW h \in Handler, RequireProvider(h)
      PROVE  ClicksInv'
  <2>1. PICK c \in ClickRequest : c = creating[h] /\ c.op = "requiring"
    BY <1>3 DEF RequireProvider, ClicksInv, ClicksTypeOK, Resting
  <2>2. CASE creating' = [creating EXCEPT ![h] = Resting]
    BY <1>3, <2>2, CreatingStep DEF RequireProvider, Creating, Resting
  <2>3. CASE creating' = [creating EXCEPT ![h] = [c EXCEPT !.op = "countingUser"]]
    <3> DEFINE next == [c EXCEPT !.op = "countingUser"]
    <3>0. next \in ClickRequest /\ next.op = "countingUser"
      BY DEF ClickRequest
    <3>1. PICK state \in ClickRequest : state = next /\ state.op = "countingUser"
      BY <3>0
    <3> QED
      BY <1>3, <2>3, <3>1, CreatingStep DEF RequireProvider, Creating
  <2> QED
    BY <1>3, <2>1, <2>2, <2>3 DEF RequireProvider, Creating
<1>4. ASSUME NEW h \in Handler, CountUser(h)
      PROVE  ClicksInv'
  <2>1. PICK c \in ClickRequest : c = creating[h] /\ c.op = "countingUser"
    BY <1>4 DEF CountUser, ClicksInv, ClicksTypeOK, Resting
  <2>2. CASE creating' = [creating EXCEPT ![h] = Resting]
    BY <1>4, <2>2, CreatingStep DEF CountUser, Creating, Resting
  <2>3. ASSUME NEW op \in {"countingAddress", "inserting"},
               creating' = [creating EXCEPT ![h] = [c EXCEPT !.op = op]],
               Cardinality(RecentOf("user", c.user)) < PerUser,
               op = "inserting" => c.address = Nowhere
        PROVE  ClicksInv'
    <3> DEFINE next == [c EXCEPT !.op = op]
    <3>0. next \in ClickRequest /\ next.op = op /\ next.user = c.user /\ next.address = c.address
      BY DEF ClickRequest
    <3>1. PICK state \in ClickRequest :
             /\ state = next
             /\ state.op = op /\ state.user = c.user /\ state.address = c.address
      BY <3>0
    <3>2. ~(state.op = "inserting" /\ state.address \in Address)
      BY <2>3, <3>1, ClicksAssumption
    <3>3. Creating(h, state) /\ clicks' = clicks
      BY <1>4, <2>3, <3>1 DEF CountUser, Creating
    <3> QED
      BY <2>3, <3>1, <3>2, <3>3, CreatingStep
  <2> QED
    BY <1>4, <2>1, <2>2, <2>3 DEF CountUser, Creating, WithinLimit
<1>5. ASSUME NEW h \in Handler, CountAddress(h)
      PROVE  ClicksInv'
  <2>1. PICK c \in ClickRequest : c = creating[h] /\ c.op = "countingAddress"
    BY <1>5 DEF CountAddress, ClicksInv, ClicksTypeOK, Resting
  <2>2. CASE creating' = [creating EXCEPT ![h] = Resting]
    BY <1>5, <2>2, CreatingStep DEF CountAddress, Creating, Resting
  <2>3. ASSUME creating' = [creating EXCEPT ![h] = [c EXCEPT !.op = "inserting"]],
               Cardinality(RecentOf("address", c.address)) < PerAddress
        PROVE  ClicksInv'
    <3> DEFINE next == [c EXCEPT !.op = "inserting"]
    <3>0. next \in ClickRequest /\ next.op = "inserting" /\ next.user = c.user /\ next.address = c.address
      BY DEF ClickRequest
    <3>1. PICK state \in ClickRequest :
             /\ state = next
             /\ state.op = "inserting" /\ state.user = c.user /\ state.address = c.address
      BY <3>0
    <3>2. h \in UserCounted(state.user)
      BY <2>1, <3>1 DEF UserCounted
    <3>3. Creating(h, state) /\ clicks' = clicks
      BY <1>5, <2>3, <3>1 DEF CountAddress, Creating
    <3> QED
      BY <2>3, <3>1, <3>2, <3>3, CreatingStep
  <2> QED
    BY <1>5, <2>1, <2>2, <2>3 DEF CountAddress, Creating, WithinLimit
<1>6. CASE HourPasses
  BY <1>6, HourPassesInv
<1> QED
  BY <1>1, <1>2, <1>3, <1>4, <1>5, <1>6, InsertInv DEF ClickingNext, ClicksNext, clickVars

\* However requests count beside one another, and the limits are set: a user's
\* and an address's clicks pass them by less than there are requests at a time
\* (assertWithinRateLimits).
THEOREM OvershootBounded == ClicksSpec => []OvershootIsBounded
<1>1. ClicksInv => OvershootIsBounded
  BY CountedFew, ClicksTyped, ClicksAssumption DEF ClicksInv, UserLimited, AddressLimited, OvershootIsBounded
<1> QED
  BY <1>1, ClicksInitInv, ClickingNextInv, PTL DEF ClicksSpec

-----------------------------------------------------------------------------
(* Scoring                                                                 *)

Columns == {"user", "address"}

RuleOf(column) == IF column = "user" THEN "USER_CONVERSION_VELOCITY" ELSE "IP_CONVERSION_VELOCITY"

Threshold(column) == Settings.rules[RuleOf(column)].threshold

Values(column) == IF column = "user" THEN Clicker ELSE Address

\* What the velocities bound: of a user, and through the recent clicks of an address
\* whose scan was whole.
PassedOf(column, v) ==
    {i \in DOMAIN recorded :
        /\ Passed(i) /\ clicks[recorded[i].click][column] = v
        /\ column = "address" => clicks[recorded[i].click].recent /\ recorded[i].scan = "whole"}

\* The jobs that have counted no more than the threshold, in what they scanned
\* whole, and have yet to persist.
Sees(job, column, v) ==
    /\ job.op # "unemployed" /\ clicks[job.click][column] = v
    /\ column = "address" => job.scan = "whole"
    /\ \/ /\ job.op = "building" /\ column \notin job.todo
          /\ job.context[column] <= Threshold(column)
       \/ job.op = "scored" /\ job.action = "ALLOW"
Seen(column, v) == {w \in Worker : Sees(scoring[w], column, v)}

Actions == {"ALLOW", "HOLD", "REVIEW", "BLOCK"}

Scans == {"whole", "cut"}

Conversion == [click : Nat, action : Actions \cup {Null},
               status : {"CREDITED", "HELD", "REJECTED", "REVERSED"}, recent : BOOLEAN,
               scan : Scans \cup {"moot"}]

Building(job) ==
    /\ job = [op |-> "building", click |-> job.click, todo |-> job.todo, scan |-> job.scan,
              context |-> job.context]
    /\ job.scan \in Scans
    /\ job.click \in DOMAIN clicks
    /\ job.todo \subseteq Reads
    /\ DOMAIN job.context = Reads
    /\ \A column \in Columns :
          column \notin job.todo /\ clicks[job.click][column] \in Values(column) => job.context[column] \in Nat

Scored(job) ==
    /\ job = [op |-> "scored", click |-> job.click, scan |-> job.scan, action |-> job.action]
    /\ job.scan \in Scans
    /\ job.click \in DOMAIN clicks
    /\ job.action \in Actions \cup {Null}

ScoringTypeOK ==
    /\ recorded \in Seq(Conversion)
    /\ \A i \in DOMAIN recorded : recorded[i].click \in DOMAIN clicks
    /\ DOMAIN scoring = Worker
    /\ \A w \in Worker : scoring[w] = Unemployed \/ Building(scoring[w]) \/ Scored(scoring[w])

VelocityHeld(column, v) ==
    Cardinality(PassedOf(column, v)) + Cardinality(Seen(column, v)) <= Threshold(column) + Cardinality(Worker)

ScoringInv ==
    /\ ScoringTypeOK
    /\ \A column \in Columns : \A v \in Values(column) : Acts(RuleOf(column)) => VelocityHeld(column, v)

\* What is recorded is finite, and so is what passed of it.
LEMMA RecordedTyped ==
    ASSUME ScoringTypeOK
    PROVE  /\ Len(recorded) \in Nat /\ DOMAIN recorded = 1 .. Len(recorded)
           /\ IsFiniteSet(DOMAIN recorded)
           /\ \A i \in DOMAIN recorded : recorded[i] \in Conversion
           /\ \A column, v : IsFiniteSet(PassedOf(column, v)) /\ Cardinality(PassedOf(column, v)) \in Nat
<1>1. /\ Len(recorded) \in Nat /\ DOMAIN recorded = 1 .. Len(recorded)
      /\ \A i \in DOMAIN recorded : recorded[i] \in Conversion
  BY DEF ScoringTypeOK
<1>2. IsFiniteSet(DOMAIN recorded)
  BY <1>1, FS_Interval
<1>3. \A column, v : PassedOf(column, v) \subseteq DOMAIN recorded
  BY DEF PassedOf
<1> QED
  BY <1>1, <1>2, <1>3, FS_Subset, FS_CardinalityType

LEMMA SettingsTyped ==
    /\ Cardinality(Worker) \in Nat
    /\ \A rule \in Rules : Settings.rules[rule].threshold \in Nat /\ Settings.rules[rule].action \in Actions
    /\ \A column \in Columns : RuleOf(column) \in Rules /\ Threshold(column) \in Nat
<1>1. \A rule \in Rules : Settings.rules[rule].threshold \in Nat /\ Settings.rules[rule].action \in Actions
  BY ScoringAssumption DEF Actions
<1>2. \A column \in Columns : RuleOf(column) \in Rules
  BY DEF RuleOf, Rules
<1> QED
  BY <1>1, <1>2, ScoringAssumption, FS_CardinalityType DEF Threshold

\* The most severe is chosen: nothing is allowed that a rule speaks against.
LEMMA CombineActionsMostSevere ==
    ASSUME NEW triggered \in SUBSET Rules
    PROVE  /\ CombineActions(triggered) \in Actions
           /\ CombineActions(triggered) = "ALLOW" =>
                 \A rule \in triggered : Settings.rules[rule].action = "ALLOW"
<1> DEFINE asked == {"ALLOW"} \cup {Settings.rules[rule].action : rule \in triggered}
           highest(action) == \A other \in asked : Severity[other] <= Severity[action]
<1>1. asked \subseteq Actions
  BY SettingsTyped DEF Actions
<1>2. \E action \in asked : highest(action)
  <2>1. "ALLOW" \in asked
    OBVIOUS
  <2> HIDE DEF asked
  <2>2. CASE "BLOCK" \in asked
    BY <1>1, <2>2 DEF Actions, Severity
  <2>3. CASE "BLOCK" \notin asked /\ "REVIEW" \in asked
    BY <1>1, <2>3 DEF Actions, Severity
  <2>4. CASE "BLOCK" \notin asked /\ "REVIEW" \notin asked /\ "HOLD" \in asked
    BY <1>1, <2>4 DEF Actions, Severity
  <2>5. CASE "BLOCK" \notin asked /\ "REVIEW" \notin asked /\ "HOLD" \notin asked
    BY <1>1, <2>1, <2>5 DEF Actions, Severity
  <2> QED
    BY <2>2, <2>3, <2>4, <2>5
<1>3. CombineActions(triggered) \in asked /\ highest(CombineActions(triggered))
  BY <1>2 DEF CombineActions
<1>4. ASSUME CombineActions(triggered) = "ALLOW", NEW rule \in triggered
      PROVE  Settings.rules[rule].action = "ALLOW"
  <2>1. PICK action \in Actions : action = Settings.rules[rule].action /\ Severity[action] <= Severity["ALLOW"]
    BY <1>1, <1>3, <1>4
  <2> QED
    BY <2>1 DEF Actions, Severity
<1> QED
  BY <1>1, <1>3, <1>4

\* Whoever is allowed has counted no more than the threshold.
LEMMA AllowedIsWithin ==
    ASSUME NEW context, NEW column \in Columns, Acts(RuleOf(column)), context[column] \in Nat,
           EvaluateRules(context) = "ALLOW"
    PROVE  context[column] <= Threshold(column)
<1>1. RuleOf(column) \in Rules /\ Threshold(column) \in Nat
  BY SettingsTyped
<1>2. ~Fires(RuleOf(column), context)
  BY <1>1, CombineActionsMostSevere DEF EvaluateRules, Acts
<1>3. Measure(RuleOf(column), context) = context[column]
  BY DEF Measure, RuleOf, Columns
<1>4. context[column] # Null
  BY ScoringAssumption
<1>5. ~Beyond(RuleOf(column), context[column], Threshold(column))
  BY <1>2, <1>3, <1>4 DEF Fires, Acts, Threshold
<1>6. ~(context[column] > Threshold(column))
  BY <1>5 DEF Beyond, RuleOf
<1> QED
  BY <1>1, <1>6

\* A job moves, and is allowed only where it had counted few enough.
LEMMA JobMoves ==
    ASSUME ScoringInv, NEW w \in Worker, NEW job, Scores(w, job), UNCHANGED <<clickVars, recorded>>,
           job = Unemployed \/ Building(job) \/ Scored(job),
           \A column \in Columns : \A v \in Values(column) :
              Acts(RuleOf(column)) /\ Sees(job, column, v) =>
                 Sees(scoring[w], column, v) \/ Cardinality(PassedOf(column, v)) <= Threshold(column)
    PROVE  ScoringInv'
<1>1. /\ clicks' = clicks /\ recorded' = recorded
      /\ DOMAIN scoring' = Worker /\ scoring'[w] = job
      /\ \A x \in Worker : x # w => scoring'[x] = scoring[x]
  BY DEF clickVars, Scores, ScoringInv, ScoringTypeOK
<1>2. /\ \A x \in Worker : Building(scoring[x]) => Building(scoring[x])'  \/ x = w
      /\ \A x \in Worker : Scored(scoring[x]) => Scored(scoring[x])' \/ x = w
      /\ \A x \in Worker : scoring[x] = Unemployed => scoring'[x] = Unemployed \/ x = w
  BY <1>1 DEF Building, Scored
<1>3. scoring'[w] = Unemployed \/ Building(scoring[w])' \/ Scored(scoring[w])'
  BY <1>1 DEF Building, Scored
<1>4. ScoringTypeOK'
  BY <1>1, <1>2, <1>3 DEF ScoringInv, ScoringTypeOK
<1>5. ASSUME NEW column \in Columns, NEW v \in Values(column), Acts(RuleOf(column))
      PROVE  VelocityHeld(column, v)'
  <2>1. PICK S \in SUBSET Worker, T \in SUBSET Worker : S = Seen(column, v) /\ T = Seen(column, v)'
    BY DEF Seen
  <2>2. \A x \in Worker : x # w => (x \in T <=> x \in S)
    BY <1>1, <2>1 DEF Seen, Sees
  <2>3. w \in T /\ w \notin S => Cardinality(PassedOf(column, v)) <= Threshold(column)
    <3>1. w \in T => Sees(job, column, v)
      BY <1>1, <2>1 DEF Seen, Sees
    <3> QED
      BY <1>5, <2>1, <3>1 DEF Seen
  <2>4. /\ Cardinality(S) \in Nat /\ Cardinality(T) \in Nat /\ Cardinality(Worker) \in Nat
        /\ Cardinality(T) <= Cardinality(Worker)
        /\ w \notin T => Cardinality(T) <= Cardinality(S)
        /\ (w \in T <=> w \in S) => Cardinality(T) = Cardinality(S)
    BY <2>2, ScoringAssumption, OneElement
  <2>5. Cardinality(PassedOf(column, v)) \in Nat /\ Threshold(column) \in Nat
    BY RecordedTyped, SettingsTyped DEF ScoringInv
  <2>6. Cardinality(PassedOf(column, v)) + Cardinality(S) <= Threshold(column) + Cardinality(Worker)
    BY <1>5, <2>1 DEF ScoringInv, VelocityHeld
  <2>7. Cardinality(PassedOf(column, v)) + Cardinality(T) <= Threshold(column) + Cardinality(Worker)
    BY <2>3, <2>4, <2>5, <2>6
  <2>8. PassedOf(column, v)' = PassedOf(column, v) /\ Threshold(column)' = Threshold(column)
    BY <1>1 DEF PassedOf, Passed, Threshold, RuleOf
  <2> QED
    BY <2>1, <2>7, <2>8 DEF VelocityHeld
<1> QED
  BY <1>4, <1>5 DEF ScoringInv

LEMMA BuildInv ==
    ASSUME ScoringInv, NEW w \in Worker, NEW read \in Reads, Build(w, read)
    PROVE  ScoringInv'
<1>1. PICK i, todo, scan, context :
         /\ scan \in Scans
         /\ scoring[w] = [op |-> "building", click |-> i, todo |-> todo, scan |-> scan, context |-> context]
         /\ read \in todo
    BY DEF Build, ScoringInv, ScoringTypeOK, Building, Scored, Unemployed
<1>2. /\ i \in DOMAIN clicks /\ todo \subseteq Reads /\ DOMAIN context = Reads
      /\ \A column \in Columns :
            column \notin todo /\ clicks[i][column] \in Values(column) => context[column] \in Nat
  <2>1. Building(scoring[w])
    BY <1>1 DEF ScoringInv, ScoringTypeOK, Building, Scored, Unemployed
  <2> QED
    BY <1>1, <2>1 DEF Building
<1>3. PICK ids, count, scanned :
         /\ scanned \in Scans
         /\ count = Count(read, clicks[i], ids)
         /\ scanned = "whole" =>
               scan = "whole" /\ (read = "address" => ids = RecentOf("address", clicks[i].address))
         /\ Scores(w, [scoring[w] EXCEPT !.todo = @ \ {read}, !.scan = scanned,
                                         !.context = [@ EXCEPT ![read] = count]])
  <2>1. PICK job : job = scoring[w]
    OBVIOUS
  <2>2. job.click = i /\ job.scan = scan
    BY <1>1, <2>1
  <2>3. PICK ids :
          Scores(w, [scoring[w] EXCEPT !.todo = @ \ {read}, !.scan = Scanned(scoring[w], read, ids),
                           !.context = [@ EXCEPT ![read] = Count(read, clicks[scoring[w].click], ids)]])
    BY ZenonT(30) DEF Build
  <2>4. PICK count, scanned : count = Count(read, clicks[i], ids) /\ scanned = Scanned(job, read, ids)
    OBVIOUS
  <2>5. Scores(w, [scoring[w] EXCEPT !.todo = @ \ {read}, !.scan = scanned, !.context = [@ EXCEPT ![read] = count]])
    BY <2>1, <2>2, <2>3, <2>4
  <2>6. /\ scanned \in Scans
        /\ scanned = "whole" =>
              scan = "whole" /\ (read = "address" => ids = RecentOf("address", clicks[i].address))
    BY <1>1, <2>2, <2>4 DEF Scans, Scanned
  <2> QED
    BY <2>4, <2>5, <2>6
<1> DEFINE known == [context EXCEPT ![read] = count]
           job == [op |-> "building", click |-> i, todo |-> todo \ {read}, scan |-> scanned, context |-> known]
<1>4. Scores(w, job) /\ UNCHANGED <<clickVars, recorded>>
  <2>1. PICK now : now = scoring[w]
    OBVIOUS
  <2>2. now = [op |-> "building", click |-> i, todo |-> todo, scan |-> scan, context |-> context]
    BY <1>1, <2>1
  <2>3. PICK rest, new : rest = todo \ {read} /\ new = known
    OBVIOUS
  <2>4. [now EXCEPT !.todo = rest, !.scan = scanned, !.context = new]
           = [op |-> "building", click |-> i, todo |-> rest, scan |-> scanned, context |-> new]
    <3>1. PICK r1 : r1 = [now EXCEPT !.todo = rest]
      OBVIOUS
    <3>2. PICK r2 : r2 = [r1 EXCEPT !.scan = scanned]
      OBVIOUS
    <3>3. r1 = [op |-> "building", click |-> i, todo |-> rest, scan |-> scan, context |-> context]
      BY <2>2, <3>1
    <3>4. r2 = [op |-> "building", click |-> i, todo |-> rest, scan |-> scanned, context |-> context]
      BY <3>2, <3>3
    <3>5. [r2 EXCEPT !.context = new] = [op |-> "building", click |-> i, todo |-> rest, scan |-> scanned, context |-> new]
      BY <3>4
    <3>6. [now EXCEPT !.todo = rest, !.scan = scanned, !.context = new] = [r2 EXCEPT !.context = new]
      BY <3>1, <3>2
    <3> QED
      BY <3>5, <3>6
  <2>5. now.todo = todo /\ now.context = context
    BY <2>2
  <2>6. [now EXCEPT !.todo = @ \ {read}, !.scan = scanned, !.context = [@ EXCEPT ![read] = count]]
           = [now EXCEPT !.todo = rest, !.scan = scanned, !.context = new]
    BY <2>3, <2>5
  <2>7. job = [op |-> "building", click |-> i, todo |-> rest, scan |-> scanned, context |-> new]
    BY <2>3
  <2> HIDE DEF job, known
  <2>8. Scores(w, [now EXCEPT !.todo = @ \ {read}, !.scan = scanned, !.context = [@ EXCEPT ![read] = count]])
    BY <1>3, <2>1
  <2> QED
    BY <2>4, <2>6, <2>7, <2>8 DEF Build
<1>5. known[read] = count /\ DOMAIN known = Reads /\ \A column \in Reads \ {read} : known[column] = context[column]
  BY <1>2
<1>6. ASSUME NEW column \in Columns, clicks[i][column] \in Values(column), read = column
      PROVE  /\ count \in Nat
             /\ (column = "address" => scanned = "whole")
                   => Cardinality(PassedOf(column, clicks[i][column])) <= count
  <2>1. CASE column = "user"
    <3>1. count = CountOfUser(clicks[i].user)
      BY <1>3, <1>6, <2>1 DEF Count
    <3>2. PICK S : S = OfUser(clicks[i].user) \cap RecentlyRecorded
      OBVIOUS
    <3>3. PassedOf(column, clicks[i][column]) \subseteq S /\ S \subseteq DOMAIN recorded
      BY <2>1, <3>2 DEF PassedOf, Passed, OfUser, RecentlyRecorded
    <3>4. IsFiniteSet(S)
      BY <3>3, RecordedTyped, FS_Subset DEF ScoringInv
    <3> QED
      BY <3>1, <3>2, <3>3, <3>4, Fewer DEF CountOfUser
  <2>2. CASE column = "address"
    <3>1. clicks[i].address \in Address
      BY <1>6, <2>2 DEF Values
    <3>2. PICK S : S = {j \in RecentlyRecorded : recorded[j].click \in ids}
      OBVIOUS
    <3>3. count = Cardinality(S)
      BY <1>3, <1>6, <2>2, <3>1, <3>2, ClicksAssumption DEF Count, CountOfAddress
    <3>4. S \subseteq DOMAIN recorded
      BY <3>2 DEF RecentlyRecorded
    <3>5. IsFiniteSet(S)
      BY <3>4, RecordedTyped, FS_Subset DEF ScoringInv
    <3>6. Cardinality(S) \in Nat
      BY <3>5, FS_CardinalityType
    <3>7. ASSUME scanned = "whole" PROVE PassedOf(column, clicks[i][column]) \subseteq S
      <4>1. ids = RecentOf("address", clicks[i].address)
        BY <1>3, <1>6, <2>2, <3>7
      <4> QED
        BY <2>2, <3>2, <4>1 DEF PassedOf, Passed, RecentOf, RecentlyRecorded, ScoringInv, ScoringTypeOK
    <3> QED
      BY <2>2, <3>3, <3>5, <3>6, <3>7, Fewer
  <2> QED
    BY <2>1, <2>2 DEF Columns
<1> HIDE DEF known
<1>7. Building(job)
  <2>1. ASSUME NEW column \in Columns, column \notin job.todo, clicks[i][column] \in Values(column)
        PROVE  known[column] \in Nat
    BY <1>2, <1>5, <1>6, <2>1 DEF Columns, Reads
  <2> QED
    BY <1>2, <1>3, <1>5, <2>1 DEF Building
<1>8. ASSUME NEW column \in Columns, NEW v \in Values(column), Sees(job, column, v)
      PROVE  Sees(scoring[w], column, v) \/ Cardinality(PassedOf(column, v)) <= Threshold(column)
  <2>1. /\ clicks[i][column] = v /\ column \notin todo \ {read} /\ known[column] <= Threshold(column)
        /\ column = "address" => scanned = "whole"
    BY <1>8 DEF Sees
  <2>2. CASE column = read
    BY <1>5, <1>6, <2>1, <2>2, RecordedTyped, SettingsTyped DEF ScoringInv
  <2>3. CASE column # read
    <3>1. column = "address" => scan = "whole"
      BY <1>3, <2>1
    <3> QED
      BY <1>1, <1>5, <2>1, <2>3, <3>1 DEF Sees, Columns, Reads
  <2> QED
    BY <2>2, <2>3
<1> HIDE DEF job
<1> QED
  BY <1>4, <1>7, <1>8, JobMoves

LEMMA EvaluateInv ==
    ASSUME ScoringInv, NEW w \in Worker, NEW facts \in Facts, Evaluate(w, facts)
    PROVE  ScoringInv'
<1>1. Building(scoring[w]) /\ scoring[w].op = "building" /\ scoring[w].todo = {}
  BY DEF Evaluate, ScoringInv, ScoringTypeOK, Scored, Unemployed
<1>2. PICK i, context, action :
         /\ i = scoring[w].click
         /\ context = [user |-> scoring[w].context.user, address |-> scoring[w].context.address,
                       account |-> scoring[w].context.account,
                       elapsed |-> facts.elapsed, domain |-> facts.domain]
         /\ action = EvaluateRules(context)
  OBVIOUS
<1> DEFINE job == [op |-> "scored", click |-> i, scan |-> scoring[w].scan, action |-> action]
<1>3. Scores(w, job) /\ UNCHANGED <<clickVars, recorded>>
  BY <1>2 DEF Evaluate
<1>4. \A column \in Columns : context[column] = scoring[w].context[column]
  BY <1>2 DEF Columns
<1>5. Scored(job)
  BY <1>1, <1>2, CombineActionsMostSevere DEF Scored, Building, EvaluateRules
<1>6. ASSUME NEW column \in Columns, NEW v \in Values(column), Acts(RuleOf(column)), Sees(job, column, v)
      PROVE  Sees(scoring[w], column, v)
  <2>1. clicks[i][column] = v /\ action = "ALLOW" /\ (column = "address" => scoring[w].scan = "whole")
    BY <1>6 DEF Sees
  <2>2. context[column] \in Nat
    BY <1>1, <1>2, <1>4, <2>1 DEF Building
  <2>3. context[column] <= Threshold(column)
    BY <1>2, <1>6, <2>1, <2>2, AllowedIsWithin
  <2> QED
    BY <1>1, <1>2, <1>4, <2>1, <2>3 DEF Sees
<1> HIDE DEF job
<1> QED
  BY <1>3, <1>5, <1>6, JobMoves

\* What was allowed passes, and its job stands aside.
LEMMA PersistInv ==
    ASSUME ScoringInv, NEW w \in Worker, Persist(w)
    PROVE  ScoringInv'
<1>1. Scored(scoring[w]) /\ scoring[w].op = "scored"
  BY DEF Persist, ScoringInv, ScoringTypeOK, Building, Unemployed
<1>2. PICK new \in Conversion, n \in Nat :
         /\ recorded' = Append(recorded, new) /\ n = Len(recorded) + 1
         /\ new.click = scoring[w].click /\ new.action = scoring[w].action /\ new.recent = TRUE
         /\ new.scan = "whole" => scoring[w].scan = "whole"
  <2>1. StatusFor(scoring[w].action) \in {"CREDITED", "HELD", "REJECTED"}
    BY DEF StatusFor
  <2>2. scoring[w].click \in Nat /\ scoring[w].action \in Actions \cup {Null} /\ scoring[w].scan \in Scans
    <3>1. /\ scoring[w].click \in DOMAIN clicks /\ scoring[w].action \in Actions \cup {Null}
          /\ scoring[w].scan \in Scans
      BY <1>1 DEF Scored
    <3> QED
      BY <3>1, ClicksTyped
  <2>3. PICK scan \in Scans \cup {"moot"} :
          scan = IF scoring[w].action = "ALLOW" THEN scoring[w].scan ELSE "moot"
    BY <2>2
  <2>4. PICK new : new = Recorded(scoring[w])
    OBVIOUS
  <2>5. new = [click |-> scoring[w].click, action |-> scoring[w].action,
               status |-> StatusFor(scoring[w].action), recent |-> TRUE, scan |-> scan]
    BY <2>3, <2>4 DEF Recorded
  <2>6. new \in Conversion /\ new.click = scoring[w].click /\ new.action = scoring[w].action /\ new.recent = TRUE
    BY <2>1, <2>2, <2>5 DEF Conversion
  <2>7. new.scan = "whole" => scoring[w].scan = "whole"
    BY <2>3, <2>5
  <2> QED
    BY <2>4, <2>6, <2>7, RecordedTyped DEF Persist, ScoringInv
<1>3. /\ recorded' \in Seq(Conversion)
      /\ DOMAIN recorded' = DOMAIN recorded \cup {n} /\ n \notin DOMAIN recorded
      /\ recorded'[n] = new
      /\ \A i \in DOMAIN recorded : recorded'[i] = recorded[i]
  BY <1>2 DEF ScoringInv, ScoringTypeOK
<1>4. /\ clicks' = clicks
      /\ DOMAIN scoring' = Worker /\ scoring'[w] = Unemployed
      /\ \A x \in Worker : x # w => scoring'[x] = scoring[x]
  BY DEF Persist, clickVars, Scores, ScoringInv, ScoringTypeOK
<1>5. ScoringTypeOK'
  <2>1. \A i \in DOMAIN recorded' : recorded'[i].click \in DOMAIN clicks'
    BY <1>1, <1>2, <1>3, <1>4 DEF ScoringInv, ScoringTypeOK, Scored
  <2>2. \A x \in Worker : scoring'[x] = Unemployed \/ Building(scoring[x])' \/ Scored(scoring[x])'
    BY <1>4 DEF ScoringInv, ScoringTypeOK, Building, Scored
  <2> QED
    BY <1>3, <1>4, <2>1, <2>2 DEF ScoringTypeOK
<1>6. ASSUME NEW column \in Columns, NEW v \in Values(column), Acts(RuleOf(column))
      PROVE  VelocityHeld(column, v)'
  <2>1. PICK S \in SUBSET Worker, T \in SUBSET Worker : S = Seen(column, v) /\ T = Seen(column, v)'
    BY DEF Seen
  <2>2. /\ \A x \in Worker : x # w => (x \in T <=> x \in S)
        /\ w \notin T
    BY <1>4, <2>1 DEF Seen, Sees, Unemployed
  <2>3. /\ Cardinality(S) \in Nat /\ Cardinality(T) \in Nat /\ Cardinality(Worker) \in Nat
        /\ Cardinality(T) <= Cardinality(S)
        /\ w \in S => Cardinality(T) = Cardinality(S) - 1
    BY <2>2, ScoringAssumption, OneElement
  <2>4. PICK before, after : before = PassedOf(column, v) /\ after = PassedOf(column, v)'
    OBVIOUS
  <2>5. IsFiniteSet(before) /\ Cardinality(before) \in Nat
    BY <2>4, RecordedTyped DEF ScoringInv
  <2>6. after \subseteq before \cup {n} /\ before \subseteq after /\ n \notin before
    BY <1>3, <1>4, <2>4 DEF PassedOf, Passed
  <2>7. n \in after => w \in S
    <3>1. n \in after => /\ new.action = "ALLOW" /\ clicks[new.click][column] = v
                         /\ column = "address" => new.scan = "whole"
      BY <1>3, <1>4, <2>4 DEF PassedOf, Passed
    <3> QED
      BY <1>1, <1>2, <2>1, <3>1 DEF Seen, Sees
  <2>8. Cardinality(after) = IF n \in after THEN Cardinality(before) + 1 ELSE Cardinality(before)
    <3>1. after = IF n \in after THEN before \cup {n} ELSE before
      BY <2>6
    <3> QED
      BY <2>5, <2>6, <3>1, FS_AddElement
  <2>9. Cardinality(before) + Cardinality(S) <= Threshold(column) + Cardinality(Worker)
    BY <1>6, <2>1, <2>4 DEF ScoringInv, VelocityHeld
  <2>10. Threshold(column) \in Nat
    BY SettingsTyped
  <2>11. Cardinality(after) + Cardinality(T) <= Threshold(column) + Cardinality(Worker)
    BY <2>3, <2>5, <2>7, <2>8, <2>9, <2>10
  <2> QED
    BY <2>1, <2>4, <2>11 DEF VelocityHeld, Threshold, RuleOf
<1> QED
  BY <1>5, <1>6 DEF ScoringInv

\* Whatever else passes no more, and lets every job see what it saw.
LEMMA PassesNoMore ==
    ASSUME ScoringInv, scoring' = scoring, recorded' \in Seq(Conversion),
           DOMAIN recorded' = DOMAIN recorded,
           \A i \in DOMAIN recorded :
              /\ recorded'[i].click = recorded[i].click /\ recorded'[i].action = recorded[i].action
              /\ recorded'[i].scan = recorded[i].scan
              /\ recorded'[i].recent => recorded[i].recent,
           DOMAIN clicks \subseteq DOMAIN clicks',
           \A i \in DOMAIN clicks :
              /\ clicks'[i].user = clicks[i].user /\ clicks'[i].address = clicks[i].address
              /\ clicks'[i].recent => clicks[i].recent
    PROVE  ScoringInv'
<1>1. \A column \in Columns : \A i \in DOMAIN clicks : clicks'[i][column] = clicks[i][column]
  BY DEF Columns
<1>2. \A job : /\ Building(job) => Building(job)'
               /\ Scored(job) => Scored(job)'
  BY <1>1 DEF Building, Scored
<1>3. ScoringTypeOK'
  <2>1. \A i \in DOMAIN recorded' : recorded'[i].click \in DOMAIN clicks'
    BY DEF ScoringInv, ScoringTypeOK
  <2>2. \A x \in Worker : scoring'[x] = Unemployed \/ Building(scoring[x])' \/ Scored(scoring[x])'
    BY <1>2 DEF ScoringInv, ScoringTypeOK
  <2> QED
    BY <2>1, <2>2 DEF ScoringInv, ScoringTypeOK
<1>4. ASSUME NEW column \in Columns, NEW v \in Values(column), Acts(RuleOf(column))
      PROVE  VelocityHeld(column, v)'
  <2>1. \A x \in Worker : scoring[x].op # "unemployed" => scoring[x].click \in DOMAIN clicks
    BY DEF ScoringInv, ScoringTypeOK, Building, Scored, Unemployed
  <2>2. Seen(column, v)' = Seen(column, v)
    BY <1>1, <2>1 DEF Seen, Sees, Threshold, RuleOf
  <2>3. PICK before, after : before = PassedOf(column, v) /\ after = PassedOf(column, v)'
    OBVIOUS
  <2>4. after \subseteq before
    BY <1>1, <2>3 DEF PassedOf, Passed, ScoringInv, ScoringTypeOK
  <2>5. /\ Cardinality(after) \in Nat /\ Cardinality(before) \in Nat
        /\ Cardinality(after) <= Cardinality(before)
    BY <2>3, <2>4, RecordedTyped, Fewer DEF ScoringInv
  <2>6. PICK seen \in Nat : seen = Cardinality(Seen(column, v))
    <3>1. Seen(column, v) \subseteq Worker
      BY DEF Seen
    <3> QED
      BY <3>1, ScoringAssumption, FS_Subset, FS_CardinalityType
  <2>7. Cardinality(before) + seen <= Threshold(column) + Cardinality(Worker)
    BY <1>4, <2>3, <2>6 DEF ScoringInv, VelocityHeld
  <2>8. Cardinality(after) + seen <= Threshold(column) + Cardinality(Worker)
    BY <2>5, <2>7, SettingsTyped
  <2> QED
    BY <2>2, <2>3, <2>6, <2>8 DEF VelocityHeld, Threshold, RuleOf
<1> QED
  BY <1>3, <1>4 DEF ScoringInv

ScoringStep == \/ ScoringNext /\ UNCHANGED catalogVars
               \/ ClickingNext /\ UNCHANGED <<recorded, scoring>>

LEMMA JobInv ==
    ASSUME ScoringInv, NEW w \in Worker, Job(w)
    PROVE  ScoringInv'
<1>1. ASSUME NEW i \in DOMAIN clicks, Score(w, i)
      PROVE  ScoringInv'
  <2> DEFINE job == [op |-> "building", click |-> i, todo |-> Reads, scan |-> "whole",
                     context |-> [read \in Reads |-> Null]]
  <2>1. Building(job)
    BY DEF Building, Columns, Reads, Scans
  <2>2. \A column \in Columns : \A v : ~Sees(job, column, v)
    BY DEF Sees, Columns, Reads
  <2>3. Scores(w, job) /\ UNCHANGED <<clickVars, recorded>>
    BY <1>1 DEF Score
  <2> HIDE DEF job
  <2> QED
    BY <2>1, <2>2, <2>3, JobMoves
<1>2. CASE ScoringFails(w)
  <2> DEFINE job == [op |-> "scored", click |-> scoring[w].click, scan |-> scoring[w].scan, action |-> Null]
  <2>1. Building(scoring[w])
    BY <1>2 DEF ScoringFails, ScoringInv, ScoringTypeOK, Scored, Unemployed
  <2>2. Scored(job)
    BY <2>1 DEF Building, Scored
  <2>3. \A column, v : ~Sees(job, column, v)
    BY ScoringAssumption DEF Sees
  <2>4. Scores(w, job) /\ UNCHANGED <<clickVars, recorded>>
    BY <1>2 DEF ScoringFails
  <2> HIDE DEF job
  <2> QED
    BY <2>2, <2>3, <2>4, JobMoves
<1> QED
  BY <1>1, <1>2, BuildInv, EvaluateInv, PersistInv DEF Job

LEMMA ScoringNextInv ==
    ASSUME ScoringInv, ScoringNext
    PROVE  ScoringInv' /\ UNCHANGED clickVars
<1>1. UNCHANGED clickVars /\ clicks' = clicks
  <2>1. \A w \in Worker : \A read \in Reads : Build(w, read) => UNCHANGED clickVars
    BY DEF Build
  <2>2. \A w \in Worker : Job(w) => UNCHANGED clickVars
    BY <2>1 DEF Job, Score, Evaluate, ScoringFails, Persist
  <2> QED
    BY <2>2 DEF ScoringNext, ChargeBack, AgeConversion, clickVars
<1>2. ASSUME NEW i \in DOMAIN recorded, ChargeBack(i)
      PROVE  ScoringInv'
  <2>1. recorded' = [recorded EXCEPT ![i] = [recorded[i] EXCEPT !.status = "REVERSED"]] /\ scoring' = scoring
    BY <1>2 DEF ChargeBack
  <2>2. recorded[i] \in Conversion /\ [recorded[i] EXCEPT !.status = "REVERSED"] \in Conversion
    BY RecordedTyped DEF ScoringInv, Conversion
  <2>3. recorded' \in Seq(Conversion)
    BY <2>1, <2>2 DEF ScoringInv, ScoringTypeOK
  <2>4. /\ DOMAIN recorded' = DOMAIN recorded
        /\ \A j \in DOMAIN recorded :
              /\ recorded'[j].click = recorded[j].click /\ recorded'[j].action = recorded[j].action
              /\ recorded'[j].scan = recorded[j].scan
              /\ recorded'[j].recent => recorded[j].recent
    BY <2>1, <2>2 DEF Conversion
  <2> QED
    BY <1>1, <2>1, <2>3, <2>4, PassesNoMore
<1>3. ASSUME NEW i \in DOMAIN recorded, AgeConversion(i)
      PROVE  ScoringInv'
  <2>1. recorded' = [recorded EXCEPT ![i] = [recorded[i] EXCEPT !.recent = FALSE]] /\ scoring' = scoring
    BY <1>3 DEF AgeConversion
  <2>2. recorded[i] \in Conversion /\ [recorded[i] EXCEPT !.recent = FALSE] \in Conversion
    BY RecordedTyped DEF ScoringInv, Conversion
  <2>3. recorded' \in Seq(Conversion)
    BY <2>1, <2>2 DEF ScoringInv, ScoringTypeOK
  <2>4. /\ DOMAIN recorded' = DOMAIN recorded
        /\ \A j \in DOMAIN recorded :
              /\ recorded'[j].click = recorded[j].click /\ recorded'[j].action = recorded[j].action
              /\ recorded'[j].scan = recorded[j].scan
              /\ recorded'[j].recent => recorded[j].recent
    BY <2>1, <2>2 DEF Conversion
  <2> QED
    BY <1>1, <2>1, <2>3, <2>4, PassesNoMore
<1> QED
  BY <1>1, <1>2, <1>3, JobInv DEF ScoringNext

\* An hour passes over the clicks.
LEMMA HourIsHarmless ==
    ASSUME NEW S, clicks \in Seq(S), HourPasses, ScoringInv, UNCHANGED <<recorded, scoring>>,
           \A click \in S :
              /\ [click EXCEPT !.recent = FALSE] \in S
              /\ [click EXCEPT !.recent = FALSE].user = click.user
              /\ [click EXCEPT !.recent = FALSE].address = click.address
              /\ ~[click EXCEPT !.recent = FALSE].recent
    PROVE  ScoringInv' /\ clicks' \in Seq(S)
<1>1. PICK i \in DOMAIN clicks : clicks' = [clicks EXCEPT ![i] = [clicks[i] EXCEPT !.recent = FALSE]]
  BY DEF HourPasses
<1>2. \A j \in DOMAIN clicks : clicks[j] \in S
  OBVIOUS
<1>3. /\ DOMAIN clicks' = DOMAIN clicks /\ clicks' \in Seq(S)
      /\ \A j \in DOMAIN clicks :
            clicks'[j] = IF j = i THEN [clicks[i] EXCEPT !.recent = FALSE] ELSE clicks[j]
  BY <1>1, <1>2
<1>4. \A j \in DOMAIN clicks :
         /\ clicks'[j].user = clicks[j].user /\ clicks'[j].address = clicks[j].address
         /\ clicks'[j].recent => clicks[j].recent
  BY <1>2, <1>3
<1>5. recorded' \in Seq(Conversion)
  BY DEF ScoringInv, ScoringTypeOK
<1> QED
  BY <1>3, <1>4, <1>5, PassesNoMore

LEMMA ScoringStepInv ==
    ASSUME ClicksInv, ScoringInv, [ScoringStep]_<<catalogVars, scoringVars>>
    PROVE  ClicksInv' /\ ScoringInv'
<1>1. CASE UNCHANGED <<catalogVars, scoringVars>>
  <2>1. UNCHANGED clickVars /\ UNCHANGED <<recorded, scoring>> /\ clicks' = clicks
    BY <1>1 DEF scoringVars, clickVars
  <2>2. recorded' \in Seq(Conversion)
    BY <2>1 DEF ScoringInv, ScoringTypeOK
  <2> QED
    BY <2>1, <2>2, ClicksStandStill, PassesNoMore
<1>2. CASE ScoringNext
  BY <1>2, ScoringNextInv, ClicksStandStill
<1>3. CASE ClickingNext /\ UNCHANGED <<recorded, scoring>>
  <2>1. ClicksInv'
    BY <1>3, ClickingNextInv
  <2>2. recorded' = recorded /\ scoring' = scoring /\ recorded' \in Seq(Conversion)
    BY <1>3 DEF ScoringInv, ScoringTypeOK
  <2>3. /\ DOMAIN clicks \subseteq DOMAIN clicks'
        /\ \A i \in DOMAIN clicks :
              /\ clicks'[i].user = clicks[i].user /\ clicks'[i].address = clicks[i].address
              /\ clicks'[i].recent => clicks[i].recent
    <3>1. CASE clicks' = clicks
      BY <3>1
    <3>2. ASSUME NEW h \in Handler, Insert(h)
          PROVE  DOMAIN clicks \subseteq DOMAIN clicks' /\ \A i \in DOMAIN clicks : clicks'[i] = clicks[i]
      <4>1. PICK new : clicks' = Append(clicks, new)
        BY <3>2 DEF Insert
      <4>2. clicks \in Seq(ClickRow \cup {new})
        BY DEF ClicksInv, ClicksTypeOK
      <4> QED
        BY <4>1, <4>2
    <3>3. CASE HourPasses
      <4>1. PICK i \in DOMAIN clicks : clicks' = [clicks EXCEPT ![i] = [clicks[i] EXCEPT !.recent = FALSE]]
        BY <3>3 DEF HourPasses
      <4> QED
        BY <4>1, ClicksTyped DEF ClicksInv, ClickRow
    <3> QED
      BY <1>3, <3>1, <3>2, <3>3
      DEF ClickingNext, ClicksNext, clickVars, RequireOffer, RequireProvider, CountUser, CountAddress
  <2> QED
    BY <2>1, <2>2, <2>3, PassesNoMore
<1> QED
  BY <1>1, <1>2, <1>3 DEF ScoringStep

LEMMA ScoringInitInv == ScoringInit => ScoringInv
<1> SUFFICES ASSUME ScoringInit PROVE ScoringInv
  OBVIOUS
<1>1. ScoringTypeOK
  BY DEF ScoringInit, ScoringTypeOK
<1>2. \A column, v : PassedOf(column, v) = {} /\ Seen(column, v) = {}
  BY DEF ScoringInit, PassedOf, Seen, Sees, Unemployed
<1>3. Cardinality({}) = 0
  BY FS_EmptySet
<1>4. \A column \in Columns : \A v \in Values(column) : VelocityHeld(column, v)
  BY <1>2, <1>3, SettingsTyped DEF VelocityHeld
<1> QED
  BY <1>1, <1>4 DEF ScoringInv

\* What passed of a user's, and through an address's recent clicks when they were
\* scanned whole, is what the velocities bound.
LEMMA VelocityFollows == ScoringInv => VelocityHolds
<1> SUFFICES ASSUME ScoringInv PROVE VelocityHolds
  OBVIOUS
<1>1. ASSUME NEW column \in Columns, NEW v \in Values(column), Acts(RuleOf(column))
      PROVE  Cardinality(PassedOf(column, v)) <= Threshold(column) + Cardinality(Worker)
  <2>1. PICK seen \in Nat : seen = Cardinality(Seen(column, v))
    <3>1. Seen(column, v) \subseteq Worker
      BY DEF Seen
    <3> QED
      BY <3>1, ScoringAssumption, FS_Subset, FS_CardinalityType
  <2>2. Cardinality(PassedOf(column, v)) + seen <= Threshold(column) + Cardinality(Worker)
    BY <1>1, <2>1 DEF ScoringInv, VelocityHeld
  <2> QED
    BY <2>2, RecordedTyped, SettingsTyped DEF ScoringInv
<1>2. \A u : {i \in OfUser(u) : Passed(i)} = PassedOf("user", u)
  BY DEF OfUser, PassedOf
<1>3. \A a : {i \in DOMAIN recorded : /\ Passed(i) /\ recorded[i].scan = "whole"
                                      /\ recorded[i].click \in RecentOf("address", a)} = PassedOf("address", a)
  BY DEF RecentOf, PassedOf, ScoringInv, ScoringTypeOK
<1> QED
  BY <1>1, <1>2, <1>3 DEF VelocityHolds, Columns, Values, RuleOf, Threshold

\* However many conversions are scored beside one another, while clicks are made
\* and grow old, and whatever the limits of the scans: a velocity rule that acts
\* lets through no more than its threshold, and one for each job, of a user, and of
\* those through an address for which all its recent clicks were scanned
\* (FraudService.evaluate, findIdsByIpSince).
THEOREM VelocitiesHeld == ScoringSpec => []VelocityHolds
<1>1. CatalogInit /\ ClicksInit /\ ScoringInit => ClicksInv /\ ScoringInv
  BY ClicksInitInv, ScoringInitInv
<1>2. ClicksInv /\ ScoringInv /\ [ScoringStep]_<<catalogVars, scoringVars>> => ClicksInv' /\ ScoringInv'
  BY ScoringStepInv
<1>3. ScoringSpec => /\ CatalogInit /\ ClicksInit /\ ScoringInit
                     /\ [][ScoringStep]_<<catalogVars, scoringVars>>
  BY DEF ScoringSpec, ScoringStep
<1> QED
  BY <1>1, <1>2, <1>3, VelocityFollows, PTL

-----------------------------------------------------------------------------
(* Throttles                                                               *)

Reserving == [op : {"reserving"}, keys : SUBSET Keys, todo : SUBSET Keys, within : BOOLEAN]
Releasing == [op : {"releasing"}, todo : SUBSET Keys]

ThrottlesTypeOK ==
    /\ counters \in [Keys -> Int] /\ admitted \in [Keys -> Nat]
    /\ attempts \in [Attempt -> {Waiting} \cup Reserving \cup Releasing]
    /\ lost \in Nat

\* An attempt that is in the counter of a key, and one that may yet be admitted by it.
CountedAs(state, k) ==
    \/ state.op = "reserving" /\ k \in state.keys \ state.todo
    \/ state.op = "releasing" /\ k \in state.todo
JudgedAs(state, k) == state.op = "reserving" /\ k \in state.keys \ state.todo /\ state.within

Counted(k) == {a \in Attempt : CountedAs(attempts[a], k)}
Judged(k)  == {a \in Attempt : JudgedAs(attempts[a], k)}

\* A window that ends forgets those who are under way, and nothing else is lost
\* of what was admitted.
KeyHeld(k) ==
    /\ admitted[k] + Cardinality(Counted(k)) <= counters[k] + Cardinality(Attempt)
    /\ admitted[k] + Cardinality(Judged(k)) <= Limit(k) + Cardinality(Attempt)

ThrottlesInv ==
    /\ ThrottlesTypeOK
    /\ \A k \in Keys : KeyHeld(k)

LEMMA LimitTyped == \A k : Limit(k) \in Nat \ {0}
  BY ThrottlesAssumption DEF Limit

LEMMA AttemptsFew ==
    /\ Cardinality(Attempt) \in Nat
    /\ \A k : /\ Cardinality(Counted(k)) \in Nat /\ Cardinality(Judged(k)) \in Nat
              /\ Cardinality(Counted(k)) <= Cardinality(Attempt)
              /\ Cardinality(Judged(k)) <= Cardinality(Attempt)
              /\ Cardinality(Judged(k)) <= Cardinality(Counted(k))
<1>1. \A k : Counted(k) \subseteq Attempt /\ Judged(k) \subseteq Attempt /\ Judged(k) \subseteq Counted(k)
  BY DEF Counted, Judged, CountedAs, JudgedAs
<1>2. \A k : IsFiniteSet(Counted(k))
  BY <1>1, ThrottlesAssumption, FS_Subset
<1> QED
  BY <1>1, <1>2, ThrottlesAssumption, FS_Subset, FS_CardinalityType, Fewer

\* What one attempt's step may do to a key: count itself, and be judged by the
\* count; stand aside uncounted, admitted or released; or clear it.
LEMMA KeyMoves ==
    ASSUME ThrottlesInv, NEW a \in Attempt, NEW state, Attending(a, state), NEW k \in Keys,
           counters'[k] \in Int, admitted'[k] \in Nat,
           \/ /\ counters'[k] >= counters[k] /\ admitted'[k] = admitted[k]
              /\ CountedAs(state, k) => CountedAs(attempts[a], k)
              /\ JudgedAs(state, k) => JudgedAs(attempts[a], k)
           \/ /\ counters'[k] = counters[k] + 1 /\ admitted'[k] = admitted[k]
              /\ JudgedAs(state, k) => Within(k)
           \/ /\ counters'[k] = counters[k] /\ admitted'[k] = admitted[k] + 1
              /\ JudgedAs(attempts[a], k) /\ ~CountedAs(state, k)
           \/ /\ counters'[k] = counters[k] - 1 /\ admitted'[k] = admitted[k]
              /\ CountedAs(attempts[a], k) /\ ~CountedAs(state, k)
           \/ counters'[k] = 0 /\ admitted'[k] = 0
    PROVE  KeyHeld(k)'
<1>1. /\ attempts'[a] = state
      /\ \A b \in Attempt : b # a => attempts'[b] = attempts[b]
  BY DEF Attending, ThrottlesInv, ThrottlesTypeOK
<1>2. /\ JudgedAs(state, k) => CountedAs(state, k)
      /\ JudgedAs(attempts[a], k) => CountedAs(attempts[a], k)
  BY DEF JudgedAs, CountedAs
<1>3. PICK C \in SUBSET Attempt, D \in SUBSET Attempt : C = Counted(k) /\ D = Counted(k)'
  BY DEF Counted
<1>4. PICK J \in SUBSET Attempt, K \in SUBSET Attempt : J = Judged(k) /\ K = Judged(k)'
  BY DEF Judged
<1>5. /\ \A b \in Attempt : b # a => (b \in D <=> b \in C)
      /\ (a \in C <=> CountedAs(attempts[a], k)) /\ (a \in D <=> CountedAs(state, k))
  BY <1>1, <1>3 DEF Counted, CountedAs
<1>6. /\ \A b \in Attempt : b # a => (b \in K <=> b \in J)
      /\ (a \in J <=> JudgedAs(attempts[a], k)) /\ (a \in K <=> JudgedAs(state, k))
  BY <1>1, <1>4 DEF Judged, JudgedAs
<1>7. PICK c \in Nat, d \in Nat, n \in Nat :
         /\ c = Cardinality(C) /\ d = Cardinality(D) /\ n = Cardinality(Attempt)
         /\ d <= n /\ d <= c + 1
         /\ (CountedAs(state, k) => CountedAs(attempts[a], k)) => d <= c
         /\ CountedAs(attempts[a], k) /\ ~CountedAs(state, k) => d = c - 1
  BY <1>5, ThrottlesAssumption, OneElement
<1>8. PICK i \in Nat, j \in Nat :
         /\ i = Cardinality(J) /\ j = Cardinality(K)
         /\ j <= n /\ j <= d
         /\ (JudgedAs(state, k) => JudgedAs(attempts[a], k)) => j <= i
         /\ JudgedAs(attempts[a], k) /\ ~JudgedAs(state, k) => j = i - 1
  <2>1. K \subseteq D
    BY <1>3, <1>4 DEF Counted, Judged, CountedAs, JudgedAs
  <2>2. IsFiniteSet(D)
    BY ThrottlesAssumption, FS_Subset
  <2>3. Cardinality(K) <= Cardinality(D)
    BY <2>1, <2>2, Fewer
  <2> QED
    BY <1>6, <1>7, <2>3, ThrottlesAssumption, OneElement
<1>9. /\ counters[k] \in Int /\ admitted[k] \in Nat /\ Limit(k) \in Nat
      /\ admitted[k] + c <= counters[k] + n
      /\ admitted[k] + i <= Limit(k) + n
  BY <1>3, <1>4, <1>7, <1>8, LimitTyped DEF ThrottlesInv, ThrottlesTypeOK, KeyHeld
<1>10. admitted'[k] + d <= counters'[k] + n
  BY <1>2, <1>7, <1>9
<1>11. admitted'[k] + j <= Limit(k) + n
  <2>1. CASE ~JudgedAs(state, k) \/ JudgedAs(attempts[a], k)
    BY <1>2, <1>7, <1>8, <1>9, <2>1
  <2>2. CASE JudgedAs(state, k) /\ ~JudgedAs(attempts[a], k)
    <3>1. admitted'[k] = 0 \/ (counters[k] + 1 <= Limit(k) /\ admitted'[k] = admitted[k])
      BY <1>2, <2>2 DEF Within
    <3>2. CASE admitted'[k] = 0
      BY <1>7, <1>8, <1>9, <3>2
    <3>3. CASE counters[k] + 1 <= Limit(k) /\ admitted'[k] = admitted[k]
      BY <1>7, <1>8, <1>9, <3>3
    <3> QED
      BY <3>1, <3>2, <3>3
  <2> QED
    BY <2>1, <2>2
<1> QED
  BY <1>3, <1>4, <1>7, <1>8, <1>10, <1>11 DEF KeyHeld, Limit

\* What becomes of an attempt is an attempt.
LEMMA KeysHeldStep ==
    ASSUME ThrottlesInv, NEW a \in Attempt, NEW state \in {Waiting} \cup Reserving \cup Releasing,
           Attending(a, state), counters' \in [Keys -> Int], admitted' \in [Keys -> Nat], lost' \in Nat,
           \A k \in Keys :
           \/ /\ counters'[k] >= counters[k] /\ admitted'[k] = admitted[k]
              /\ CountedAs(state, k) => CountedAs(attempts[a], k)
              /\ JudgedAs(state, k) => JudgedAs(attempts[a], k)
           \/ /\ counters'[k] = counters[k] + 1 /\ admitted'[k] = admitted[k]
              /\ JudgedAs(state, k) => Within(k)
           \/ /\ counters'[k] = counters[k] /\ admitted'[k] = admitted[k] + 1
              /\ JudgedAs(attempts[a], k) /\ ~CountedAs(state, k)
           \/ /\ counters'[k] = counters[k] - 1 /\ admitted'[k] = admitted[k]
              /\ CountedAs(attempts[a], k) /\ ~CountedAs(state, k)
           \/ counters'[k] = 0 /\ admitted'[k] = 0
    PROVE  ThrottlesInv'
<1>1. ThrottlesTypeOK'
  BY DEF ThrottlesInv, ThrottlesTypeOK, Attending
<1>2. \A k \in Keys : KeyHeld(k)'
  BY KeyMoves
<1> QED
  BY <1>1, <1>2 DEF ThrottlesInv

LEMMA ThrottlesNextInv ==
    ASSUME ThrottlesInv, ThrottlesNext
    PROVE  ThrottlesInv'
<1>1. /\ counters \in [Keys -> Int] /\ admitted \in [Keys -> Nat] /\ lost \in Nat
      /\ \A a \in Attempt : attempts[a] \in {Waiting} \cup Reserving \cup Releasing
      /\ \A k \in Keys : counters[k] >= counters[k]
  BY DEF ThrottlesInv, ThrottlesTypeOK
<1>2. \A k : ~CountedAs(Waiting, k) /\ ~JudgedAs(Waiting, k)
  BY DEF CountedAs, JudgedAs, Waiting
<1>3. ASSUME NEW a \in Attempt, NEW keys \in SUBSET Keys,
             Attending(a, [op |-> "reserving", keys |-> keys, todo |-> keys, within |-> TRUE]),
             UNCHANGED <<counters, admitted, lost>>
      PROVE  ThrottlesInv'
  <2>1. PICK state \in Reserving :
           state = [op |-> "reserving", keys |-> keys, todo |-> keys, within |-> TRUE]
    BY DEF Reserving
  <2>2. \A k : ~CountedAs(state, k) /\ ~JudgedAs(state, k)
    BY <2>1 DEF CountedAs, JudgedAs
  <2> QED
    BY <1>1, <1>3, <2>1, <2>2, KeysHeldStep
<1>4. ASSUME NEW a \in Attempt, Attending(a, Waiting), UNCHANGED <<counters, admitted>>, lost' \in Nat
      PROVE  ThrottlesInv'
  BY <1>1, <1>2, <1>4, KeysHeldStep
<1>5. ASSUME NEW a \in Attempt, NEW j \in Keys, Reserve(a, j)
      PROVE  ThrottlesInv'
  <2>1. PICK old \in Reserving : old = attempts[a] /\ j \in old.todo
    BY <1>1, <1>5 DEF Reserve, Waiting, Releasing
  <2>2. PICK state \in Reserving :
           /\ state = [old EXCEPT !.todo = old.todo \ {j}, !.within = old.within /\ Within(j)]
           /\ state.op = "reserving" /\ state.keys = old.keys /\ state.todo = old.todo \ {j}
           /\ state.within = (old.within /\ Within(j))
    <3>1. PICK rest \in SUBSET Keys, judged \in BOOLEAN :
             rest = old.todo \ {j} /\ judged = (old.within /\ Within(j))
      BY <2>1 DEF Reserving
    <3> DEFINE next == [old EXCEPT !.todo = rest, !.within = judged]
    <3>2. next \in Reserving /\ next.op = "reserving" /\ next.keys = old.keys
          /\ next.todo = rest /\ next.within = judged
      BY <2>1 DEF Reserving
    <3> QED
      BY <3>1, <3>2
  <2>3. Attending(a, state)
    BY <1>5, <2>1, <2>2 DEF Reserve
  <2>4. counters' = [counters EXCEPT ![j] = counters[j] + 1] /\ UNCHANGED <<admitted, lost>>
    BY <1>5 DEF Reserve
  <2>5. counters' \in [Keys -> Int] /\ admitted' \in [Keys -> Nat]
    BY <1>1, <2>4
  <2>6. \A k \in Keys \ {j} :
           /\ counters'[k] >= counters[k] /\ admitted'[k] = admitted[k]
           /\ CountedAs(state, k) => CountedAs(attempts[a], k)
           /\ JudgedAs(state, k) => JudgedAs(attempts[a], k)
    BY <1>1, <2>1, <2>2, <2>4 DEF CountedAs, JudgedAs, Reserving
  <2>7. /\ counters'[j] = counters[j] + 1 /\ admitted'[j] = admitted[j]
        /\ JudgedAs(state, j) => Within(j)
    BY <1>1, <2>2, <2>4 DEF JudgedAs
  <2> QED
    BY <1>1, <2>3, <2>4, <2>5, <2>6, <2>7, KeysHeldStep
<1>6. ASSUME NEW a \in Attempt, Unusable(a)
      PROVE  ThrottlesInv'
  <2>1. PICK done : counters' = [k \in Keys |-> IF k \in done THEN counters[k] + 1 ELSE counters[k]]
    BY <1>6 DEF Unusable
  <2>2. counters' \in [Keys -> Int] /\ \A k \in Keys : counters'[k] >= counters[k]
    BY <1>1, <2>1
  <2>3. Attending(a, Waiting) /\ admitted' = admitted /\ lost' \in Nat
    BY <1>1, <1>6 DEF Unusable
  <2> QED
    BY <1>1, <1>2, <2>2, <2>3, KeysHeldStep
<1>7. ASSUME NEW a \in Attempt, Admit(a)
      PROVE  ThrottlesInv'
  <2>1. PICK old \in Reserving : old = attempts[a] /\ old.todo = {} /\ old.within /\ old.op = "reserving"
    BY <1>1, <1>7 DEF Admit, Waiting, Releasing
  <2>2. /\ admitted' = [k \in Keys |-> IF k \in old.keys THEN admitted[k] + 1 ELSE admitted[k]]
        /\ Attending(a, Waiting) /\ UNCHANGED <<counters, lost>>
    BY <1>7, <2>1 DEF Admit
  <2>3. \A k \in old.keys : JudgedAs(attempts[a], k)
    BY <2>1 DEF JudgedAs
  <2>4. admitted' \in [Keys -> Nat]
    BY <1>1, <2>2
  <2> QED
    BY <1>1, <1>2, <2>2, <2>3, <2>4, KeysHeldStep
<1>8. ASSUME NEW a \in Attempt, Verified(a)
      PROVE  ThrottlesInv'
  <2>1. PICK old \in Reserving : old = attempts[a] /\ old.todo = {} /\ old.op = "reserving"
    BY <1>1, <1>8 DEF Verified, Waiting, Releasing
  <2>2. PICK state \in Releasing : state = [op |-> "releasing", todo |-> old.keys]
    BY <2>1 DEF Reserving, Releasing
  <2>3. Attending(a, state) /\ UNCHANGED <<counters, admitted, lost>>
    BY <1>8, <2>1, <2>2 DEF Verified
  <2>4. \A k : /\ CountedAs(state, k) => CountedAs(attempts[a], k)
               /\ ~JudgedAs(state, k)
    BY <2>1, <2>2 DEF CountedAs, JudgedAs
  <2> QED
    BY <1>1, <2>3, <2>4, KeysHeldStep
<1>9. ASSUME NEW a \in Attempt, NEW j \in Keys, Release(a, j)
      PROVE  ThrottlesInv'
  <2>1. PICK old \in Releasing : old = attempts[a] /\ j \in old.todo /\ old.op = "releasing"
    BY <1>1, <1>9 DEF Release, Waiting, Reserving
  <2>2. PICK state \in {Waiting} \cup Releasing :
           /\ Attending(a, state)
           /\ state = Waiting \/ (state.op = "releasing" /\ state.todo = old.todo \ {j})
    <3>1. [old EXCEPT !.todo = old.todo \ {j}] \in Releasing
      BY DEF Releasing
    <3>2. /\ [old EXCEPT !.todo = old.todo \ {j}].op = "releasing"
          /\ [old EXCEPT !.todo = old.todo \ {j}].todo = old.todo \ {j}
      BY DEF Releasing
    <3>3. \/ Attending(a, Waiting)
          \/ Attending(a, [old EXCEPT !.todo = old.todo \ {j}])
      BY <1>9, <2>1 DEF Release
    <3> QED
      BY <3>1, <3>2, <3>3
  <2>3. \A k : /\ CountedAs(state, k) => CountedAs(attempts[a], k) /\ k # j
               /\ ~JudgedAs(state, k)
    BY <2>1, <2>2 DEF CountedAs, JudgedAs, Waiting
  <2>4. CountedAs(attempts[a], j)
    BY <2>1 DEF CountedAs
  <2>5. CASE j \in Email
    <3>1. /\ counters' = [counters EXCEPT ![j] = 0] /\ admitted' = [admitted EXCEPT ![j] = 0]
          /\ lost' = lost
      BY <1>9, <2>5 DEF Release, Released
    <3>2. counters' \in [Keys -> Int] /\ admitted' \in [Keys -> Nat]
      BY <1>1, <3>1
    <3>3. /\ counters'[j] = 0 /\ admitted'[j] = 0
          /\ \A k \in Keys \ {j} : counters'[k] >= counters[k] /\ admitted'[k] = admitted[k]
      BY <1>1, <3>1
    <3> QED
      BY <1>1, <2>2, <2>3, <3>1, <3>2, <3>3, KeysHeldStep
  <2>6. CASE j \notin Email
    <3>1. /\ counters' = [counters EXCEPT ![j] = counters[j] - 1] /\ admitted' = admitted
          /\ lost' = lost
      BY <1>9, <2>6 DEF Release, Released
    <3>2. counters' \in [Keys -> Int] /\ admitted' \in [Keys -> Nat]
      BY <1>1, <3>1
    <3>3. /\ counters'[j] = counters[j] - 1 /\ admitted'[j] = admitted[j]
          /\ \A k \in Keys \ {j} : counters'[k] >= counters[k] /\ admitted'[k] = admitted[k]
      BY <1>1, <3>1
    <3> QED
      BY <1>1, <2>2, <2>3, <2>4, <3>1, <3>2, <3>3, KeysHeldStep
  <2> QED
    BY <2>5, <2>6
<1>10. ASSUME NEW j \in Keys, Expire(j)
       PROVE  ThrottlesInv'
  <2>1. /\ counters' = [counters EXCEPT ![j] = 0] /\ admitted' = [admitted EXCEPT ![j] = 0]
        /\ attempts' = attempts /\ lost' = lost
    BY <1>10 DEF Expire
  <2>2. ThrottlesTypeOK'
    BY <1>1, <2>1 DEF ThrottlesInv, ThrottlesTypeOK
  <2>3. \A k : Counted(k)' = Counted(k) /\ Judged(k)' = Judged(k)
    BY <2>1 DEF Counted, Judged
  <2>4. KeyHeld(j)'
    <3>1. admitted'[j] = 0 /\ counters'[j] = 0
      BY <1>1, <2>1
    <3> QED
      BY <2>3, <3>1, AttemptsFew, LimitTyped DEF KeyHeld
  <2>5. \A k \in Keys \ {j} : KeyHeld(k)'
    <3>1. \A k \in Keys \ {j} : counters'[k] = counters[k] /\ admitted'[k] = admitted[k]
      BY <1>1, <2>1
    <3> QED
      BY <2>3, <3>1 DEF ThrottlesInv, KeyHeld
  <2> QED
    BY <2>2, <2>4, <2>5 DEF ThrottlesInv
<1>11. ASSUME NEW a \in Attempt, NEW s \in Source \cup {Unknown}, NEW email \in Email, Login(a, email, s)
       PROVE  ThrottlesInv'
  <2>1. {email} \cup KnownSource(s) \in SUBSET Keys
    BY DEF KnownSource, Keys
  <2> QED
    BY <1>3, <1>11, <2>1 DEF Login
<1>12. ASSUME NEW a \in Attempt, NEW s \in Source \cup {Unknown}, NEW b \in Bucket, Request(a, b, s)
       PROVE  ThrottlesInv'
  <2>1. {<<b, s>>} \in SUBSET Keys
    BY <1>12 DEF Request, Keys
  <2> QED
    BY <1>3, <1>12, <2>1 DEF Request
<1>13. ASSUME NEW a \in Attempt, Throttled(a) \/ ReleaseLost(a)
       PROVE  ThrottlesInv'
  BY <1>1, <1>4, <1>13 DEF Throttled, ReleaseLost
<1> QED
  BY <1>5, <1>6, <1>7, <1>8, <1>9, <1>10, <1>11, <1>12, <1>13 DEF ThrottlesNext

LEMMA ThrottlesInitInv == ThrottlesInit => ThrottlesInv
<1> SUFFICES ASSUME ThrottlesInit PROVE ThrottlesInv
  OBVIOUS
<1>1. ThrottlesTypeOK
  BY DEF ThrottlesInit, ThrottlesTypeOK
<1>2. \A k \in Keys : admitted[k] = 0 /\ counters[k] = 0
  BY DEF ThrottlesInit
<1>3. \A k \in Keys : KeyHeld(k)
  BY <1>2, AttemptsFew, LimitTyped DEF KeyHeld
<1> QED
  BY <1>1, <1>3 DEF ThrottlesInv

\* However attempts run side by side, and whatever answers of Redis are lost: no
\* more is admitted within a window than the limit and the attempts there are
\* (LoginThrottleService, PublicThrottleService).
THEOREM ThrottlesBound == ThrottlesSpec => []ThrottlesHold
<1>1. ThrottlesInv /\ [ThrottlesNext]_throttleVars => ThrottlesInv'
  <2>1. ThrottlesInv /\ UNCHANGED throttleVars => ThrottlesInv'
    <3> SUFFICES ASSUME ThrottlesInv, UNCHANGED throttleVars PROVE ThrottlesInv'
      OBVIOUS
    <3>1. counters' = counters /\ admitted' = admitted /\ attempts' = attempts /\ lost' = lost
      BY DEF throttleVars
    <3>2. \A k : Counted(k)' = Counted(k) /\ Judged(k)' = Judged(k)
      BY <3>1 DEF Counted, Judged
    <3> QED
      BY <3>1, <3>2 DEF ThrottlesInv, ThrottlesTypeOK, KeyHeld
  <2> QED
    BY <2>1, ThrottlesNextInv
<1>2. ThrottlesInv => ThrottlesHold
  BY AttemptsFew, LimitTyped DEF ThrottlesInv, ThrottlesTypeOK, KeyHeld, ThrottlesHold
<1> QED
  BY <1>1, <1>2, ThrottlesInitInv, PTL DEF ThrottlesSpec

-----------------------------------------------------------------------------
(* The ranges of sources *)

\* What the row holds: nothing, or one range that was found valid.
Allowlisted(range) == (\E written \in Spelling : range \in RangesOf(written)) /\ IsValidIpRange(range)
RangesInv == ranges = {} \/ \E range : ranges = {range} /\ Allowlisted(range)

LEMMA SizesTyped ==
    /\ ByteBits \in Nat /\ ByteBits > 0 /\ Short \in Nat /\ Short > 0 /\ Long \in Nat
    /\ Fixed \in Nat /\ Fixed > 0 /\ Long = Fixed + Short
  BY SourceRangesAssumption DEF Fixed

LEMMA WidthsTyped ==
    /\ Width(4) \in Nat /\ Width(6) \in Nat /\ ByteBits * Fixed \in Nat
    /\ Width(4) = ByteBits * Short /\ Width(6) = ByteBits * Long
    /\ Width(6) = ByteBits * Fixed + Width(4)
<1>1. Width(4) = ByteBits * Short /\ Width(6) = ByteBits * Long
  BY DEF Width
<1>2. \A a, b, c \in Nat : a * b \in Nat /\ a * (b + c) = a * b + a * c
  OBVIOUS
<1> QED
  BY <1>1, <1>2, SizesTyped

\* Where a bit of a byte lies in the address, and which bit of which byte lies where.
LEMMA Euclid ==
    ASSUME NEW n \in Nat, NEW b \in Nat, b > 0
    PROVE  /\ n \div b \in Nat /\ n % b \in 0 .. (b - 1)
           /\ n = b * (n \div b) + (n % b)
  OBVIOUS

LEMMA EuclidUnique ==
    ASSUME NEW b \in Nat, b > 0, NEW q \in Nat, NEW r \in 0 .. (b - 1)
    PROVE  (b * q + r) \div b = q /\ (b * q + r) % b = r
  OBVIOUS

LEMMA BitAt ==
    ASSUME NEW bytes, NEW i \in Nat, NEW b \in 1..ByteBits
    PROVE  /\ ByteBits * i + (b - 1) \in Nat
           /\ Bit(bytes, ByteBits * i + (b - 1)) = bytes[i + 1][b]
<1>1. b - 1 \in 0 .. (ByteBits - 1) /\ (b - 1) + 1 = b
  BY SizesTyped
<1>2. (ByteBits * i + (b - 1)) \div ByteBits = i /\ (ByteBits * i + (b - 1)) % ByteBits = b - 1
  BY <1>1, EuclidUnique, SizesTyped
<1>3. ByteBits * i \in Nat
  BY SizesTyped
<1> QED
  BY <1>1, <1>2, <1>3 DEF Bit

LEMMA SameBits ==
    ASSUME NEW x \in Byte, NEW y \in Byte, \A b \in 1..ByteBits : x[b] = y[b]
    PROVE  x = y
<1>1. x = [b \in 1..ByteBits |-> x[b]] /\ y = [b \in 1..ByteBits |-> y[b]]
  BY DEF Byte
<1> QED
  BY <1>1, Zenon

\* Comparing products: fewer whole bytes are fewer bits.
LEMMA Bytewise ==
    ASSUME NEW b \in Nat, b > 0, NEW p \in Nat, NEW q \in Nat, NEW r \in 0 .. (b - 1), NEW s \in 0 .. (b - 1)
    PROVE  /\ b * p + r < b * q + s => p < q \/ (p = q /\ r < s)
           /\ b * p + r <= b * q => p <= q /\ (r # 0 => p + 1 <= q)
           /\ p < q => b * p + r < b * q + s
<1>1. \A x, y \in Nat : x < y => b * x + b <= b * y
  <2> TAKE x, y \in Nat
  <2> HAVE x < y
  <2>1. PICK d \in Nat : y = (x + 1) + d
    <3>1. y - (x + 1) \in Nat /\ y = (x + 1) + (y - (x + 1))
      OBVIOUS
    <3> QED
      BY <3>1
  <2>2. b * y = b * (x + 1) + b * d /\ b * (x + 1) = b * x + b /\ b * d \in Nat /\ b * x \in Nat
    BY <2>1
  <2> QED
    BY <2>2
<1>2. b * p \in Nat /\ b * q \in Nat
  OBVIOUS
<1>3. p < q \/ p = q \/ q < p
  OBVIOUS
<1>4. p < q => b * p + b <= b * q
  BY <1>1
<1>5. q < p => b * q + b <= b * p
  BY <1>1
<1>6. p = q => b * p = b * q
  OBVIOUS
<1> QED
  BY <1>2, <1>3, <1>4, <1>5, <1>6

\* The prefix that is compared byte by byte, the last under a mask, is as many
\* leading bits.
LEMMA LeadingBits ==
    ASSUME NEW len \in Nat, NEW l \in [1..len -> Byte], NEW r \in [1..len -> Byte],
           NEW n \in Nat, n <= ByteBits * len
    PROVE  SharesPrefix(l, r, n) <=> \A k \in 0 .. (n - 1) : Bit(l, k) = Bit(r, k)
<1> DEFINE whole == n \div ByteBits
           rest == n % ByteBits
<1>1. whole \in Nat /\ rest \in 0 .. (ByteBits - 1) /\ n = ByteBits * whole + rest
  BY SizesTyped, Euclid
<1>2. whole <= len /\ (rest # 0 => whole + 1 <= len)
  BY <1>1, SizesTyped, Bytewise
<1>3. \A i \in 1..len : l[i] \in Byte /\ r[i] \in Byte
  OBVIOUS
<1>4. SharesPrefix(l, r, n) <=>
         /\ \A i \in 1..whole : l[i] = r[i]
         /\ rest # 0 => Masked(l[whole + 1], rest) = Masked(r[whole + 1], rest)
  BY DEF SharesPrefix
<1> HIDE DEF whole, rest
<1>5. ASSUME SharesPrefix(l, r, n), NEW k \in 0 .. (n - 1)
      PROVE  Bit(l, k) = Bit(r, k)
  <2> DEFINE q == k \div ByteBits
             t == k % ByteBits
  <2>1. q \in Nat /\ t \in 0 .. (ByteBits - 1) /\ k = ByteBits * q + t
    BY SizesTyped, Euclid
  <2>2. Bit(l, k) = l[q + 1][t + 1] /\ Bit(r, k) = r[q + 1][t + 1]
    BY DEF Bit
  <2> HIDE DEF q, t
  <2>3. k < n
    BY <1>1, SizesTyped
  <2>4. q < whole \/ (q = whole /\ t < rest)
    <3>1. ByteBits * q + t < ByteBits * whole + rest
      BY <2>1, <2>3, <1>1
    <3> QED
      BY <3>1, <1>1, <2>1, SizesTyped, Bytewise
  <2>5. CASE q < whole
    <3>1. q + 1 \in 1..whole
      BY <2>1, <2>5, <1>1
    <3> QED
      BY <3>1, <1>5, <1>4, <2>2
  <2>6. CASE q = whole /\ t < rest
    <3>1. rest # 0 /\ t + 1 \in 1..ByteBits /\ t + 1 <= rest
      BY <2>6, <2>1, <1>1, SizesTyped
    <3>2. Masked(l[whole + 1], rest)[t + 1] = Masked(r[whole + 1], rest)[t + 1]
      BY <3>1, <1>5, <1>4
    <3>3. Masked(l[whole + 1], rest)[t + 1] = l[whole + 1][t + 1]
      BY <3>1 DEF Masked
    <3>4. Masked(r[whole + 1], rest)[t + 1] = r[whole + 1][t + 1]
      BY <3>1 DEF Masked
    <3> QED
      BY <3>2, <3>3, <3>4, <2>6, <2>2
  <2> QED
    BY <2>4, <2>5, <2>6
<1>6. ASSUME \A k \in 0 .. (n - 1) : Bit(l, k) = Bit(r, k)
      PROVE  SharesPrefix(l, r, n)
  <2>1. ASSUME NEW i \in Nat, NEW b \in 1..ByteBits, ByteBits * i + (b - 1) < n
        PROVE  l[i + 1][b] = r[i + 1][b]
    <3>1. ByteBits * i + (b - 1) \in 0 .. (n - 1)
      BY <2>1, BitAt
    <3>2. Bit(l, ByteBits * i + (b - 1)) = l[i + 1][b] /\ Bit(r, ByteBits * i + (b - 1)) = r[i + 1][b]
      BY BitAt
    <3> QED
      BY <3>1, <3>2, <1>6
  <2>2. ASSUME NEW i \in 1..whole
        PROVE  l[i] = r[i]
    <3>1. i - 1 \in Nat /\ (i - 1) + 1 = i /\ i - 1 < whole /\ i \in 1..len
      BY <1>1, <1>2
    <3>2. ASSUME NEW b \in 1..ByteBits
          PROVE  l[i][b] = r[i][b]
      <4>1. b - 1 \in 0 .. (ByteBits - 1)
        BY SizesTyped
      <4>2. ByteBits * (i - 1) + (b - 1) < n
        BY <4>1, <3>1, <1>1, SizesTyped, Bytewise
      <4> QED
        BY <4>2, <3>1, <2>1
    <3> QED
      BY <3>1, <3>2, <1>3, SameBits
  <2>3. ASSUME rest # 0
        PROVE  Masked(l[whole + 1], rest) = Masked(r[whole + 1], rest)
    <3>1. ASSUME NEW b \in 1..ByteBits, b <= rest
          PROVE  l[whole + 1][b] = r[whole + 1][b]
      <4>0. ByteBits * whole \in Nat
        BY <1>1, SizesTyped
      <4>1. ByteBits * whole + (b - 1) < n
        BY <4>0, <1>1, <3>1, SizesTyped
      <4> QED
        BY <4>1, <1>1, <2>1
    <3> QED
      BY <3>1 DEF Masked
  <2> QED
    BY <2>2, <2>3, <1>4
<1> QED
  BY <1>5, <1>6

\* What an address was parsed to, beside the same address as IPv6 has it.
LEMMA ParsedAs ==
    ASSUME NEW w \in Spelling
    PROVE  /\ AsLong(w) \in [1..Long -> Byte]
           /\ w.version \in {4, 6}
           /\ ParseAddress(w).version = IF OfShort(w) THEN 4 ELSE 6
           /\ ParseAddress(w).unwrapped <=> (w.version = 6 /\ OfShort(w))
           /\ w.version = 4 => OfShort(w)
           /\ ~OfShort(w) => ParseAddress(w).bytes = AsLong(w)
           /\ OfShort(w) =>
                 /\ ParseAddress(w).bytes \in [1..Short -> Byte]
                 /\ \A i \in 1..Short : ParseAddress(w).bytes[i] = AsLong(w)[Fixed + i]
<1>1. Zeros \in Byte /\ Ones \in Byte
  BY DEF Zeros, Ones, Byte
<1>2. CASE w.version = 4
  <2>1. w.bytes \in [1..Short -> Byte]
    BY <1>2 DEF Spelling
  <2>2. \A i \in 1..Long : i > Fixed => i - Fixed \in 1..Short
    BY SizesTyped
  <2>3. AsLong(w) = [i \in 1..Long |-> IF i < Fixed THEN Zeros ELSE IF i = Fixed THEN Ones
                                      ELSE w.bytes[i - Fixed]]
    BY <1>2 DEF AsLong
  <2>4. \A i \in 1..Long : ~(i < Fixed) /\ i # Fixed => w.bytes[i - Fixed] \in Byte
    BY <2>1, <2>2, SizesTyped
  <2>5. AsLong(w) \in [1..Long -> Byte]
    BY <2>3, <2>4, <1>1
  <2>6. OfShort(w)
    BY <2>3, SizesTyped DEF OfShort
  <2>7. ParseAddress(w) = [version |-> 4, bytes |-> w.bytes, unwrapped |-> FALSE]
    BY <1>2 DEF ParseAddress
  <2>8. \A i \in 1..Short : AsLong(w)[Fixed + i] = w.bytes[i]
    <3>1. \A i \in 1..Short : Fixed + i \in 1..Long /\ ~(Fixed + i < Fixed) /\ Fixed + i # Fixed /\ (Fixed + i) - Fixed = i
      BY SizesTyped
    <3> QED
      BY <3>1, <2>3
  <2> QED
    BY <1>2, <2>1, <2>5, <2>6, <2>7, <2>8
<1>3. CASE w.version = 6
  <2>1. w.bytes \in [1..Long -> Byte] /\ AsLong(w) = w.bytes
    BY <1>3 DEF Spelling, AsLong
  <2>2. Mapped(w.bytes) <=> OfShort(w)
    BY <2>1, SizesTyped DEF Mapped, OfShort
  <2>3. CASE OfShort(w)
    <3>1. ParseAddress(w) = [version |-> 4, bytes |-> SubSeq(w.bytes, Fixed + 1, Long), unwrapped |-> TRUE]
      BY <1>3, <2>2, <2>3 DEF ParseAddress
    <3>2. SubSeq(w.bytes, Fixed + 1, Long) = [i \in 1 .. (Long - (Fixed + 1) + 1) |-> w.bytes[(Fixed + 1) + i - 1]]
      <4>1. w.bytes \in Seq(Byte) /\ Len(w.bytes) = Long
        BY SizesTyped, <2>1
      <4>2. Fixed + 1 \in 1..Long /\ Long \in Nat
        BY SizesTyped
      <4> QED
        BY <4>1, <4>2
    <3>3. SubSeq(w.bytes, Fixed + 1, Long) = [i \in 1..Short |-> w.bytes[Fixed + i]]
      <4>1. Long - (Fixed + 1) + 1 = Short
        BY SizesTyped
      <4>2. \A i \in 1..Short : (Fixed + 1) + i - 1 = Fixed + i
        BY SizesTyped
      <4>3. [i \in 1..Short |-> w.bytes[(Fixed + 1) + i - 1]] = [i \in 1..Short |-> w.bytes[Fixed + i]]
        BY <4>2
      <4> QED
        BY <3>2, <4>1, <4>3
    <3>4. \A i \in 1..Short : w.bytes[Fixed + i] \in Byte
      BY <2>1, SizesTyped
    <3>5. ParseAddress(w).bytes = [i \in 1..Short |-> w.bytes[Fixed + i]]
      BY <3>1, <3>3
    <3>6. ParseAddress(w).bytes \in [1..Short -> Byte]
      BY <3>4, <3>5
    <3>7. \A i \in 1..Short : ParseAddress(w).bytes[i] = AsLong(w)[Fixed + i]
      BY <2>1, <3>5
    <3>8. ParseAddress(w).version = 4 /\ ParseAddress(w).unwrapped
      BY <3>1
    <3> QED
      BY <1>3, <2>1, <2>3, <3>6, <3>7, <3>8
  <2>4. CASE ~OfShort(w)
    <3>1. ParseAddress(w) = [version |-> 6, bytes |-> w.bytes, unwrapped |-> FALSE]
      BY <1>3, <2>2, <2>4 DEF ParseAddress
    <3> QED
      BY <1>3, <2>1, <2>4, <3>1
  <2> QED
    BY <2>3, <2>4
<1>4. w.version = 4 \/ w.version = 6
  BY DEF Spelling
<1> QED
  BY <1>2, <1>3, <1>4

\* The bits beyond the fixed ones, counted in the address or in what follows them.
LEMMA ShiftedSize ==
    ASSUME NEW n \in Nat, NEW m \in Nat, n = ByteBits * Fixed + m
    PROVE  n \div ByteBits = Fixed + (m \div ByteBits) /\ n % ByteBits = m % ByteBits
<1>1. m \div ByteBits \in Nat /\ m % ByteBits \in 0 .. (ByteBits - 1)
      /\ m = ByteBits * (m \div ByteBits) + (m % ByteBits)
  BY SizesTyped, Euclid
<1>2. PICK q \in Nat, r \in 0 .. (ByteBits - 1) :
        m = ByteBits * q + r /\ q = m \div ByteBits /\ r = m % ByteBits
  BY <1>1
<1>3. ByteBits * (Fixed + q) = ByteBits * Fixed + ByteBits * q
  BY SizesTyped
<1>4. ByteBits * Fixed \in Nat /\ ByteBits * q \in Nat
  BY SizesTyped
<1>5. n = ByteBits * (Fixed + q) + r /\ Fixed + q \in Nat
  BY <1>2, <1>3, <1>4, SizesTyped
<1>6. n \div ByteBits = Fixed + q /\ n % ByteBits = r
  BY <1>5, SizesTyped, EuclidUnique
<1> QED
  BY <1>2, <1>6

\* Two addresses of which the fixed bytes agree: it is as good to compare the rest.
LEMMA RestCompared ==
    ASSUME NEW v \in Spelling, NEW w \in Spelling, OfShort(v), OfShort(w),
           NEW n \in Nat, NEW m \in Nat, n = ByteBits * Fixed + m, m <= ByteBits * Short
    PROVE  SharesPrefix(AsLong(v), AsLong(w), n)
              <=> SharesPrefix(ParseAddress(v).bytes, ParseAddress(w).bytes, m)
<1> DEFINE whole == m \div ByteBits
           rest == m % ByteBits
<1>1. whole \in Nat /\ rest \in 0 .. (ByteBits - 1) /\ m = ByteBits * whole + rest
  BY SizesTyped, Euclid
<1>2. whole <= Short /\ (rest # 0 => whole + 1 <= Short)
  BY <1>1, SizesTyped, Bytewise
<1>3. SharesPrefix(ParseAddress(v).bytes, ParseAddress(w).bytes, m) <=>
         /\ \A i \in 1..whole : ParseAddress(v).bytes[i] = ParseAddress(w).bytes[i]
         /\ rest # 0 => Masked(ParseAddress(v).bytes[whole + 1], rest)
                         = Masked(ParseAddress(w).bytes[whole + 1], rest)
  BY DEF SharesPrefix
<1>4. n \div ByteBits = Fixed + whole /\ n % ByteBits = rest
  BY ShiftedSize
<1>5. SharesPrefix(AsLong(v), AsLong(w), n) <=>
         /\ \A i \in 1 .. (Fixed + whole) : AsLong(v)[i] = AsLong(w)[i]
         /\ rest # 0 => Masked(AsLong(v)[Fixed + whole + 1], rest)
                         = Masked(AsLong(w)[Fixed + whole + 1], rest)
  BY <1>4 DEF SharesPrefix
<1> HIDE DEF whole, rest
<1>6. \A i \in 1..Fixed : AsLong(v)[i] = AsLong(w)[i]
  BY DEF OfShort
<1>7. \A i \in 1..Short : /\ ParseAddress(v).bytes[i] = AsLong(v)[Fixed + i]
                          /\ ParseAddress(w).bytes[i] = AsLong(w)[Fixed + i]
  BY ParsedAs
<1>8. (\A i \in 1 .. (Fixed + whole) : AsLong(v)[i] = AsLong(w)[i])
        <=> (\A i \in 1..whole : ParseAddress(v).bytes[i] = ParseAddress(w).bytes[i])
  <2>1. ASSUME \A i \in 1 .. (Fixed + whole) : AsLong(v)[i] = AsLong(w)[i], NEW i \in 1..whole
        PROVE  ParseAddress(v).bytes[i] = ParseAddress(w).bytes[i]
    <3>1. i \in 1..Short /\ Fixed + i \in 1 .. (Fixed + whole)
      BY <1>1, <1>2, SizesTyped
    <3> QED
      BY <3>1, <2>1, <1>7
  <2>2. ASSUME \A i \in 1..whole : ParseAddress(v).bytes[i] = ParseAddress(w).bytes[i],
               NEW i \in 1 .. (Fixed + whole)
        PROVE  AsLong(v)[i] = AsLong(w)[i]
    <3>1. CASE i \in 1..Fixed
      BY <3>1, <1>6
    <3>2. CASE ~(i \in 1..Fixed)
      <4>1. PICK j \in 1..whole : i = Fixed + j
        <5>1. i - Fixed \in 1..whole /\ i = Fixed + (i - Fixed)
          BY <3>2, <1>1, SizesTyped
        <5> QED
          BY <5>1
      <4>2. j \in 1..Short
        BY <1>1, <1>2, SizesTyped
      <4> QED
        BY <4>1, <4>2, <2>2, <1>7
    <3> QED
      BY <3>1, <3>2
  <2> QED
    BY <2>1, <2>2
<1>9. rest # 0 => /\ ParseAddress(v).bytes[whole + 1] = AsLong(v)[Fixed + whole + 1]
                  /\ ParseAddress(w).bytes[whole + 1] = AsLong(w)[Fixed + whole + 1]
  <2>1. rest # 0 => whole + 1 \in 1..Short /\ Fixed + (whole + 1) = Fixed + whole + 1
    BY <1>1, <1>2, SizesTyped
  <2> QED
    BY <2>1, <1>7
<1> QED
  BY <1>3, <1>5, <1>8, <1>9

\* Addresses that agree in the fixed bits are both of IPv4 or neither is.
LEMMA PrefixDecides ==
    ASSUME NEW v \in Spelling, NEW w \in Spelling, NEW n \in Nat, n >= ByteBits * Fixed,
           SharesPrefix(AsLong(v), AsLong(w), n)
    PROVE  OfShort(v) <=> OfShort(w)
<1> DEFINE whole == n \div ByteBits
           rest == n % ByteBits
<1>1. whole \in Nat /\ rest \in 0 .. (ByteBits - 1) /\ n = ByteBits * whole + rest
  BY SizesTyped, Euclid
<1>2. \A i \in 1..whole : AsLong(v)[i] = AsLong(w)[i]
  BY DEF SharesPrefix
<1> HIDE DEF whole, rest
<1>3. whole >= Fixed
  <2>1. whole < Fixed => ByteBits * whole + rest < ByteBits * Fixed + 0
    BY <1>1, SizesTyped, Bytewise
  <2>2. ByteBits * Fixed \in Nat
    BY SizesTyped
  <2> QED
    BY <2>1, <2>2, <1>1, SizesTyped
<1>4. \A i \in 1..Fixed : AsLong(v)[i] = AsLong(w)[i]
  BY <1>1, <1>2, <1>3, SizesTyped
<1> QED
  BY <1>4 DEF OfShort

\* One range lets through its block, however its bytes are compared.
LEMMA BlockMatched ==
    ASSUME NEW source \in Spelling, NEW range, Allowlisted(range)
    PROVE  IpMatchesRange(source, range) <=>
              /\ InBlock(source, range)
              /\ HoldsBoth(range) => ~OfShort(source) /\ ~OfShort(range.network)
<1>1. PICK w \in Spelling, p \in -1 .. (Width(6) + 1) : range = [network |-> w, prefix |-> p]
  BY DEF Allowlisted, RangesOf
<1>2. w.version \in {4, 6} /\ Width(w.version) \in Nat /\ (p = -1 \/ p <= Width(w.version))
  BY <1>1, WidthsTyped, ParsedAs DEF Allowlisted, IsValidIpRange
<1> DEFINE bits == IF p = -1 THEN Width(w.version) ELSE p
           n == Width(6) - Hosts(range)
           left == IF ParseAddress(w).unwrapped THEN bits - ByteBits * Fixed ELSE bits
           Same(count) == SharesPrefix(ParseAddress(source).bytes, ParseAddress(w).bytes, count)
           Agree == SharesPrefix(AsLong(source), AsLong(w), n)
<1>3. bits \in Nat /\ bits <= Width(w.version)
  BY <1>1, <1>2, WidthsTyped
<1>4. n = Width(6) - (Width(w.version) - bits)
  BY <1>1 DEF Hosts
<1>5. /\ n \in Nat /\ n <= ByteBits * Long
      /\ w.version = 4 => n = ByteBits * Fixed + bits
      /\ w.version = 6 => n = bits
  BY <1>2, <1>3, <1>4, WidthsTyped
<1>6. InBlock(source, range) <=> Agree
  <2>1. AsLong(source) \in [1..Long -> Byte] /\ AsLong(w) \in [1..Long -> Byte]
    BY ParsedAs
  <2>2. Agree <=> \A k \in 0 .. (n - 1) : Bit(AsLong(source), k) = Bit(AsLong(w), k)
    BY <1>5, <2>1, SizesTyped, LeadingBits
  <2> QED
    BY <1>1, <2>2 DEF InBlock
<1>7. HoldsBoth(range) <=> n < ByteBits * Fixed
  <2>1. Hosts(range) = Width(w.version) - bits /\ ByteBits * Short = Width(4)
    BY <1>1, WidthsTyped DEF Hosts
  <2> QED
    BY <2>1, <1>2, <1>3, <1>4, WidthsTyped DEF HoldsBoth
<1>8. IpMatchesRange(source, range) <=>
         ParseAddress(w).version = ParseAddress(source).version /\ left >= 0 /\ Same(left)
  <2>1. WrittenWidth(range) = Width(w.version) /\ range.network = w /\ range.prefix = p
    BY <1>1 DEF WrittenWidth
  <2> QED
    BY <2>1, <1>3, <1>2 DEF IpMatchesRange
<1>9. range.network = w
  BY <1>1
<1> HIDE DEF bits, n
<1>10. CASE OfShort(w) /\ n >= ByteBits * Fixed
  <2>1. left = n - ByteBits * Fixed
    BY <1>10, <1>2, <1>3, <1>5, ParsedAs, WidthsTyped
  <2>2. left \in Nat /\ n = ByteBits * Fixed + left /\ left <= ByteBits * Short
    <3>1. ByteBits * Long = ByteBits * Fixed + ByteBits * Short /\ ByteBits * Short \in Nat
      BY WidthsTyped
    <3> QED
      BY <2>1, <3>1, <1>5, <1>10, WidthsTyped
  <2> HIDE DEF left
  <2>3. ASSUME OfShort(source)
        PROVE  Agree <=> Same(left)
    BY <2>2, <2>3, <1>5, <1>10, RestCompared
  <2>4. Agree => OfShort(source)
    BY <1>5, <1>10, PrefixDecides
  <2>5. ParseAddress(w).version = ParseAddress(source).version <=> OfShort(source)
    BY <1>10, ParsedAs
  <2>6. ~HoldsBoth(range)
    BY <1>7, <1>5, <1>10, WidthsTyped
  <2>7. left >= 0
    BY <2>2
  <2> QED
    BY <2>3, <2>4, <2>5, <2>6, <2>7, <1>6, <1>8
<1>11. CASE OfShort(w) /\ ~(n >= ByteBits * Fixed)
  <2>1. w.version = 6 /\ n = bits /\ ParseAddress(w).unwrapped
    BY <1>11, <1>2, <1>3, <1>5, ParsedAs, WidthsTyped
  <2>2. ~(left >= 0)
    BY <2>1, <1>5, <1>11, WidthsTyped
  <2>3. HoldsBoth(range)
    BY <1>7, <1>5, <1>11, WidthsTyped
  <2> QED
    BY <2>2, <2>3, <1>8, <1>9, <1>11
<1>12. CASE ~OfShort(w)
  <2>1. w.version = 6 /\ left = n
    BY <1>12, <1>2, <1>5, ParsedAs
  <2>2. left >= 0
    BY <2>1, <1>5
  <2>3. ParseAddress(w).version = ParseAddress(source).version <=> ~OfShort(source)
    BY <1>12, ParsedAs
  <2>4. ~OfShort(source) => ParseAddress(source).bytes = AsLong(source)
    BY ParsedAs
  <2>5. ParseAddress(w).bytes = AsLong(w)
    BY <1>12, ParsedAs
  <2>6. ~OfShort(source) => (Same(left) <=> Agree)
    BY <2>1, <2>4, <2>5
  <2>7. ~HoldsBoth(range) /\ Agree => ~OfShort(source)
    <3>1. ~HoldsBoth(range) => n >= ByteBits * Fixed
      BY <1>7, <1>5, WidthsTyped
    <3> QED
      BY <3>1, <1>5, <1>12, PrefixDecides
  <2> QED
    BY <2>2, <2>3, <2>6, <2>7, <1>6, <1>8, <1>9, <1>12
<1> QED
  BY <1>10, <1>11, <1>12

LEMMA SourcesStep ==
    RangesInv /\ [SourcesNext]_sourceVars => RangesInv'
<1> SUFFICES ASSUME RangesInv, [SourcesNext]_sourceVars
             PROVE  RangesInv'
  OBVIOUS
<1>1. CASE UNCHANGED sourceVars
  BY <1>1 DEF sourceVars, RangesInv
<1>2. CASE SetRanges({})
  BY <1>2 DEF SetRanges, RangesInv
<1>3. ASSUME NEW written \in Spelling, NEW range \in RangesOf(written), SetRanges({range})
      PROVE  RangesInv'
  <2>1. CASE IsValidIpRange(range)
    <3>1. ranges' = {range} /\ Allowlisted(range)
      BY <1>3, <2>1 DEF SetRanges, Allowlisted
    <3> QED
      BY <3>1 DEF RangesInv
  <2>2. CASE ~IsValidIpRange(range)
    <3>1. UNCHANGED ranges
      BY <1>3, <2>2 DEF SetRanges
    <3> QED
      BY <3>1 DEF RangesInv
  <2> QED
    BY <2>1, <2>2
<1> QED
  BY <1>1, <1>2, <1>3 DEF SourcesNext

\* What an operator could save lets through the addresses of its block and no
\* other, whichever notation source and range are written in, and however wide
\* addresses and bytes are (ipMatchesRange).
THEOREM RangesTrue == SourcesSpec => []RangesAgree
<1>1. SourcesInit => RangesInv
  BY DEF SourcesInit, RangesInv
<1>2. RangesInv => RangesAgree
  <2> SUFFICES ASSUME RangesInv
               PROVE  RangesAgree
    OBVIOUS
  <2>1. ranges # {} => ~IsPostbackSourceAllowed(NoSource)
    BY DEF IsPostbackSourceAllowed
  <2>2. ASSUME NEW source \in Spelling, NEW range \in ranges
        PROVE  IsPostbackSourceAllowed(source) =
                  /\ InBlock(source, range)
                  /\ HoldsBoth(range) => ~OfShort(source) /\ ~OfShort(range.network)
    <3>1. ranges = {range} /\ Allowlisted(range)
      BY <2>2 DEF RangesInv
    <3>2. source # NoSource
      BY NoSourceAssumption
    <3>3. IsPostbackSourceAllowed(source) <=> IpMatchesRange(source, range)
      BY <3>1, <3>2 DEF IsPostbackSourceAllowed
    <3> HIDE DEF IsPostbackSourceAllowed
    <3>4. IsPostbackSourceAllowed(source) \in BOOLEAN
      BY DEF IsPostbackSourceAllowed
    <3> QED
      BY <3>1, <3>3, <3>4, BlockMatched, Zenon
  <2> QED
    BY <2>1, <2>2 DEF RangesAgree
<1> QED
  BY <1>1, <1>2, SourcesStep, PTL DEF SourcesSpec

-----------------------------------------------------------------------------
(* Intake.                                                                 *)

PostbackRow == [event : Event \cup {NoEvent}, state : {"RECEIVED", "REJECTED"}, duplicates : Nat]

Tally == [accepted : Nat, duplicate : Nat]

IntakeTypeOK ==
    /\ archive \in Seq(PostbackRow)
    /\ answers \in [Event -> Tally]
    /\ failures \in Nat
    /\ DOMAIN receiving = Receiver
    /\ \A h \in Receiver :
          receiving[h].op \in {"receiving", "enqueueing", "duplicate"} => receiving[h].event \in Event

\* The unique constraint.
OneRowEach ==
    \A i, j \in DOMAIN archive : archive[i].event = archive[j].event /\ archive[i].event # NoEvent => i = j

\* Whoever enqueues is alone with its row, which nobody has been told of; a
\* duplicate is one of a row that exists.
ReceiversSound ==
    \A h \in Receiver :
        /\ receiving[h].op = "enqueueing" =>
              /\ receiving[h].row \in DOMAIN archive
              /\ archive[receiving[h].row].event = receiving[h].event
              /\ answers[receiving[h].event].accepted = 0
              /\ \A g \in Receiver : receiving[g].op = "enqueueing" /\ receiving[g].row = receiving[h].row => g = h
        /\ receiving[h].op = "duplicate" => Taken(receiving[h].event)

AnswersSound ==
    \A event \in Event :
        /\ answers[event].accepted <= 1
        /\ answers[event].accepted + answers[event].duplicate > 0 => Taken(event)
        /\ \A i \in DOMAIN archive :
              archive[i].event = event => answers[event].duplicate <= archive[i].duplicates

FewStranded == Cardinality(Stranded) <= failures

IntakeInv == IntakeTypeOK /\ OneRowEach /\ ReceiversSound /\ AnswersSound /\ FewStranded

-----------------------------------------------------------------------------
LEMMA ArchiveTyped ==
    ASSUME IntakeTypeOK
    PROVE  /\ Len(archive) \in Nat /\ DOMAIN archive = 1 .. Len(archive)
           /\ \A i \in DOMAIN archive :
                 /\ archive[i] \in PostbackRow
                 /\ archive[i].duplicates \in Nat /\ archive[i].event \in Event \cup {NoEvent}
<1>1. Len(archive) \in Nat /\ DOMAIN archive = 1 .. Len(archive)
      /\ \A i \in DOMAIN archive : archive[i] \in PostbackRow
  BY DEF IntakeTypeOK
<1>2. \A row \in PostbackRow : row.duplicates \in Nat /\ row.event \in Event \cup {NoEvent}
  BY DEF PostbackRow
<1> QED
  BY <1>1, <1>2

LEMMA StrandedFinite ==
    ASSUME IntakeTypeOK
    PROVE  IsFiniteSet(Stranded) /\ Cardinality(Stranded) \in Nat
<1>1. IsFiniteSet(DOMAIN archive)
  <2>1. PICK n \in Nat : DOMAIN archive = 1 .. n
    BY ArchiveTyped
  <2>2. IsFiniteSet(1 .. n)
    BY <2>1, FS_Interval
  <2> QED
    BY <2>1, <2>2
<1>2. Stranded \subseteq DOMAIN archive
  BY DEF Stranded
<1> QED
  BY <1>1, <1>2, FS_Subset, FS_CardinalityType

\* A step strands no more rows than it has failures.
LEMMA StrandedStep ==
    ASSUME IntakeTypeOK, FewStranded,
           \/ failures' = failures /\ Stranded' \subseteq Stranded
           \/ failures' = failures + 1 /\ \E i : Stranded' \subseteq Stranded \cup {i}
    PROVE  FewStranded'
<1>1. IsFiniteSet(Stranded) /\ Cardinality(Stranded) \in Nat /\ failures \in Nat
  BY StrandedFinite DEF IntakeTypeOK
<1>2. CASE failures' = failures /\ Stranded' \subseteq Stranded
  BY <1>1, <1>2, FS_Subset, FS_CardinalityType DEF FewStranded
<1>3. CASE failures' = failures + 1 /\ \E i : Stranded' \subseteq Stranded \cup {i}
  <2>1. PICK i : Stranded' \subseteq Stranded \cup {i}
    BY <1>3
  <2>2. IsFiniteSet(Stranded \cup {i}) /\ Cardinality(Stranded \cup {i}) <= Cardinality(Stranded) + 1
        /\ Cardinality(Stranded \cup {i}) \in Nat
    <3>1. PICK now : now = Stranded
      OBVIOUS
    <3>2. IsFiniteSet(now) /\ Cardinality(now) \in Nat
      BY <1>1, <3>1
    <3>3. IsFiniteSet(now \cup {i}) /\ Cardinality(now \cup {i}) \in {Cardinality(now), Cardinality(now) + 1}
      BY <3>2, FS_AddElement
    <3> QED
      BY <3>1, <3>2, <3>3
  <2>3. Cardinality(Stranded') <= Cardinality(Stranded \cup {i}) /\ Cardinality(Stranded') \in Nat
    <3>1. PICK more : more = Stranded \cup {i}
      OBVIOUS
    <3>2. PICK next : next = Stranded'
      OBVIOUS
    <3>3. IsFiniteSet(more) /\ next \subseteq more
      BY <2>1, <2>2, <3>1, <3>2
    <3>4. IsFiniteSet(next) /\ Cardinality(next) <= Cardinality(more)
      BY <3>3, FS_Subset
    <3> QED
      BY <3>1, <3>2, <3>4, FS_CardinalityType
  <2> QED
    BY <1>1, <1>3, <2>2, <2>3 DEF FewStranded
<1> QED
  BY <1>2, <1>3

\* A receiver that leaves its row leaves it stranded at most.
LEMMA LeavesOneRow ==
    ASSUME IntakeTypeOK, NEW h \in Receiver, archive' = archive, dispatched' = dispatched,
           Receives(h, Listening)
    PROVE  /\ Stranded' \subseteq Stranded \cup {receiving[h].row}
           /\ receiving[h].op # "enqueueing" => Stranded' \subseteq Stranded
<1>1. \A g \in Receiver : g # h => receiving'[g] = receiving[g]
  BY DEF Receives, IntakeTypeOK
<1> QED
  BY <1>1 DEF Stranded

LEMMA IntakeInitInv == IntakeInit => IntakeInv
<1> SUFFICES ASSUME IntakeInit PROVE IntakeInv
  OBVIOUS
<1> USE DEF IntakeInit
<1>1. IntakeTypeOK
  BY DEF IntakeTypeOK, Tally, Listening
<1>2. OneRowEach /\ ReceiversSound /\ AnswersSound
  BY DEF OneRowEach, ReceiversSound, AnswersSound, Listening
<1>3. Stranded = {}
  BY DEF Stranded
<1>4. FewStranded
  BY <1>3, FS_EmptySet DEF FewStranded
<1> QED
  BY <1>1, <1>2, <1>4 DEF IntakeInv

-----------------------------------------------------------------------------
\* A receiver that goes back to listening, where nothing was archived,
\* dispatched or answered.
LEMMA ListensAgain ==
    ASSUME IntakeInv, NEW h \in Receiver, Receives(h, Listening),
           UNCHANGED <<archive, answers, dispatched>>,
           \/ failures' = failures /\ receiving[h].op # "enqueueing"
           \/ failures' = failures + 1
    PROVE  IntakeInv'
<1>1. /\ DOMAIN receiving' = Receiver /\ receiving'[h] = Listening
      /\ \A g \in Receiver : g # h => receiving'[g] = receiving[g]
  BY DEF Receives, IntakeInv, IntakeTypeOK
<1>2. IntakeTypeOK'
  BY <1>1 DEF IntakeInv, IntakeTypeOK, Listening
<1>3. OneRowEach' /\ ReceiversSound' /\ AnswersSound'
  BY <1>1 DEF IntakeInv, OneRowEach, ReceiversSound, AnswersSound, Taken, Listening
<1>4. FewStranded'
  BY LeavesOneRow, StrandedStep DEF IntakeInv
<1> QED
  BY <1>2, <1>3, <1>4 DEF IntakeInv

\* One more row, whose receiver goes on to enqueue it or fails.
LEMMA ArchivedInv ==
    ASSUME IntakeInv, NEW h \in Receiver, NEW row \in PostbackRow,
           row.duplicates = 0, row.event # NoEvent => ~Taken(row.event),
           archive' = Append(archive, row), UNCHANGED <<answers, dispatched>>,
           \/ /\ Receives(h, [op |-> "enqueueing", event |-> row.event, row |-> Len(archive) + 1])
              /\ row.event \in Event /\ failures' = failures
           \/ Receives(h, Listening) /\ receiving[h].op # "enqueueing" /\ failures' = failures + 1
           \/ /\ Receives(h, Listening) /\ receiving[h].op # "enqueueing"
              /\ row.state # "RECEIVED" /\ failures' = failures,
           receiving[h].op = "receiving"
    PROVE  IntakeInv'
<1> DEFINE n == Len(archive) + 1
<1>1. /\ DOMAIN receiving' = Receiver
      /\ \A g \in Receiver : g # h => receiving'[g] = receiving[g]
      /\ \/ receiving'[h] = Listening
         \/ receiving'[h] = [op |-> "enqueueing", event |-> row.event, row |-> n] /\ row.event \in Event
  BY DEF Receives, IntakeInv, IntakeTypeOK
<1>2. /\ archive' \in Seq(PostbackRow)
      /\ Len(archive) \in Nat /\ DOMAIN archive = 1 .. Len(archive)
      /\ DOMAIN archive' = DOMAIN archive \cup {n} /\ n \notin DOMAIN archive
      /\ archive'[n] = row
      /\ \A i \in DOMAIN archive : archive'[i] = archive[i]
  BY DEF IntakeInv, IntakeTypeOK
<1> HIDE DEF n
<1>3. IntakeTypeOK'
  BY <1>1, <1>2 DEF IntakeInv, IntakeTypeOK, Listening
<1>4. OneRowEach'
  BY <1>2 DEF IntakeInv, OneRowEach, Taken
<1>5. row.event \in Event => answers[row.event].accepted = 0 /\ answers[row.event].duplicate = 0
  <2>1. ASSUME row.event \in Event
        PROVE  /\ answers[row.event].accepted \in Nat /\ answers[row.event].duplicate \in Nat
               /\ ~(answers[row.event].accepted + answers[row.event].duplicate > 0)
    <3>1. row.event # NoEvent
      BY <2>1, IntakeAssumption
    <3> QED
      BY <2>1, <3>1 DEF IntakeInv, AnswersSound, IntakeTypeOK, Tally
  <2> QED
    BY <2>1
<1>6. \A event : Taken(event) => Taken(event)'
  BY <1>2 DEF Taken
<1>7. ReceiversSound'
  <2> DEFINE Alone(g) == \A f \in Receiver :
                            receiving[f].op = "enqueueing" /\ receiving[f].row = receiving[g].row => f = g
             Sound(g) == /\ receiving[g].op = "enqueueing" =>
                              /\ receiving[g].row \in DOMAIN archive
                              /\ archive[receiving[g].row].event = receiving[g].event
                              /\ answers[receiving[g].event].accepted = 0
                              /\ Alone(g)
                         /\ receiving[g].op = "duplicate" => Taken(receiving[g].event)
  <2>1. \A g \in Receiver : Sound(g)
    BY DEF IntakeInv, ReceiversSound
  <2>2. ASSUME NEW g \in Receiver, g # h
        PROVE  Sound(g)'
    <3>1. receiving'[g] = receiving[g]
      BY <1>1, <2>2
    <3>2. receiving[g].op = "enqueueing" => Alone(g)'
      BY <1>1, <1>2, <2>1, <3>1 DEF Listening
    <3> QED
      BY <1>2, <1>6, <2>1, <3>1, <3>2
  <2>3. Sound(h)'
    <3>1. CASE receiving'[h] = Listening
      BY <3>1 DEF Listening
    <3>2. CASE receiving'[h] = [op |-> "enqueueing", event |-> row.event, row |-> n] /\ row.event \in Event
      <4>1. Alone(h)'
        BY <1>1, <1>2, <2>1, <3>2
      <4> QED
        BY <1>2, <1>5, <3>2, <4>1
    <3> QED
      BY <1>1, <3>1, <3>2
  <2> QED
    BY <2>2, <2>3 DEF ReceiversSound
<1>8. AnswersSound'
  BY <1>2, <1>5, <1>6 DEF IntakeInv, AnswersSound
<1>9. FewStranded'
  <2>1. Stranded' \subseteq Stranded \cup {n}
    BY <1>1, <1>2 DEF Stranded
  <2>2. failures' = failures + 1 \/ (failures' = failures /\ n \notin Stranded')
    BY <1>1, <1>2 DEF Stranded, Receives, IntakeInv, IntakeTypeOK, n
  <2>3. \/ failures' = failures + 1 /\ \E i : Stranded' \subseteq Stranded \cup {i}
        \/ failures' = failures /\ Stranded' \subseteq Stranded
    BY <2>1, <2>2
  <2> QED
    BY <2>3, StrandedStep DEF IntakeInv
<1> QED
  BY <1>3, <1>4, <1>7, <1>8, <1>9 DEF IntakeInv

LEMMA IntakeNextInv == IntakeInv /\ [IntakeNext]_intakeVars => IntakeInv'
<1> SUFFICES ASSUME IntakeInv, [IntakeNext]_intakeVars PROVE IntakeInv'
  OBVIOUS
<1>t. DOMAIN receiving = Receiver /\ failures \in Nat
  BY DEF IntakeInv, IntakeTypeOK
<1>1. CASE UNCHANGED intakeVars
  <2>1. IntakeTypeOK' /\ OneRowEach' /\ ReceiversSound' /\ AnswersSound'
    BY <1>1 DEF intakeVars, IntakeInv, IntakeTypeOK, OneRowEach, ReceiversSound, AnswersSound, Taken
  <2>2. Stranded' = Stranded
    BY <1>1 DEF intakeVars, Stranded
  <2> QED
    BY <1>1, <2>1, <2>2 DEF intakeVars, IntakeInv, FewStranded
<1>2. ASSUME NEW h \in Receiver, NEW event \in Event,
             Deliver(h, event) \/ (UniqueViolation(h) /\ event = receiving[h].event)
      PROVE  IntakeInv'
  <2>1. /\ UNCHANGED <<archive, dispatched, answers, failures>>
        /\ \A g \in Receiver : g # h => receiving'[g] = receiving[g]
        /\ DOMAIN receiving' = Receiver
        /\ \/ receiving'[h] = [op |-> "receiving", event |-> event]
           \/ receiving'[h] = [op |-> "duplicate", event |-> event] /\ Taken(event)
        /\ receiving[h].op # "enqueueing"
    BY <1>2, <1>t DEF Deliver, UniqueViolation, Receives, Listening
  <2>2. IntakeTypeOK' /\ OneRowEach' /\ AnswersSound'
    BY <2>1 DEF IntakeInv, IntakeTypeOK, OneRowEach, AnswersSound, Taken
  <2>3. ReceiversSound'
    BY <2>1 DEF IntakeInv, ReceiversSound, Taken
  <2>4. Stranded' \subseteq Stranded
    BY <2>1 DEF Stranded
  <2>5. FewStranded'
    BY <2>1, <2>4, StrandedStep DEF IntakeInv
  <2> QED
    BY <2>2, <2>3, <2>5 DEF IntakeInv
<1>3. ASSUME NEW h \in Receiver, Refuse(h)
      PROVE  IntakeInv'
  <2>1. /\ Receives(h, Listening) /\ UNCHANGED <<archive, answers, dispatched, failures>>
        /\ receiving[h].op # "enqueueing"
    BY <1>3 DEF Refuse
  <2> QED
    BY <2>1, ListensAgain
<1>4. ASSUME NEW h \in Receiver, ArchiveUnparseable(h)
      PROVE  IntakeInv'
  <2> DEFINE row == Row(NoEvent, "REJECTED")
  <2>1. row \in PostbackRow /\ row.duplicates = 0 /\ row.event = NoEvent /\ row.state # "RECEIVED"
    BY DEF Row, PostbackRow
  <2>2. /\ archive' = Append(archive, row) /\ Receives(h, Listening)
        /\ UNCHANGED <<answers, dispatched, failures>> /\ receiving[h].op = "receiving"
    BY <1>4 DEF ArchiveUnparseable
  <2> HIDE DEF row
  <2> QED
    BY <2>1, <2>2, ArchivedInv
<1>5. ASSUME NEW h \in Receiver, Create(h)
      PROVE  IntakeInv'
  <2> DEFINE row == Row(receiving[h].event, "RECEIVED")
  <2>1. receiving[h].event \in Event /\ receiving[h].op = "receiving" /\ ~Taken(receiving[h].event)
    BY <1>5 DEF Create, IntakeInv, IntakeTypeOK
  <2>2. row \in PostbackRow /\ row.duplicates = 0 /\ row.event = receiving[h].event
    BY <2>1 DEF Row, PostbackRow
  <2>3. /\ archive' = Append(archive, row) /\ UNCHANGED <<answers, dispatched>>
        /\ \/ /\ Receives(h, [op |-> "enqueueing", event |-> row.event, row |-> Len(archive) + 1])
              /\ failures' = failures
           \/ Receives(h, Listening) /\ failures' = failures + 1
    BY <1>5, <2>2 DEF Create, Fails
  <2> HIDE DEF row
  <2> QED
    BY <2>1, <2>2, <2>3, ArchivedInv
<1>6. ASSUME NEW h \in Receiver, MarkDuplicate(h)
      PROVE  IntakeInv'
  <2> DEFINE e == receiving[h].event
  <2>1. e \in Event /\ Taken(e)
    BY <1>6 DEF MarkDuplicate, IntakeInv, IntakeTypeOK, ReceiversSound
  <2>2. /\ archive' = [i \in DOMAIN archive |->
                         IF archive[i].event = e THEN [archive[i] EXCEPT !.duplicates = @ + 1] ELSE archive[i]]
        /\ answers' = answers \/ answers' = [answers EXCEPT ![e]["duplicate"] = @ + 1]
        /\ receiving[h].op = "duplicate" /\ UNCHANGED <<dispatched, failures>>
        /\ receiving'[h] = Listening /\ DOMAIN receiving' = Receiver
        /\ \A g \in Receiver : g # h => receiving'[g] = receiving[g]
    BY <1>6, <1>t DEF MarkDuplicate, Answers, Receives
  <2>3. /\ DOMAIN archive' = DOMAIN archive
        /\ \A i \in DOMAIN archive :
              /\ archive'[i] \in PostbackRow
              /\ archive'[i].event = archive[i].event /\ archive'[i].state = archive[i].state
              /\ archive'[i].duplicates =
                    IF archive[i].event = e THEN archive[i].duplicates + 1 ELSE archive[i].duplicates
    BY <2>2, ArchiveTyped DEF IntakeInv, PostbackRow
  <2>4. archive' \in Seq(PostbackRow)
    <3>1. archive' = [i \in 1 .. Len(archive) |-> archive'[i]]
      BY <2>2, ArchiveTyped DEF IntakeInv
    <3>2. \A i \in 1 .. Len(archive) : archive'[i] \in PostbackRow
      BY <2>3, ArchiveTyped DEF IntakeInv
    <3>3. Len(archive) \in Nat
      BY ArchiveTyped DEF IntakeInv
    <3> QED
      BY <3>1, <3>2, <3>3
  <2>5. /\ answers' \in [Event -> Tally]
        /\ \A event \in Event :
              /\ answers'[event].accepted = answers[event].accepted
              /\ event # e => answers'[event].duplicate = answers[event].duplicate
              /\ answers'[event].duplicate <= answers[event].duplicate + 1
              /\ answers[event].accepted \in Nat /\ answers[event].duplicate \in Nat
              /\ answers'[event].duplicate \in Nat
    <3>1. \A event \in Event : answers[event].accepted \in Nat /\ answers[event].duplicate \in Nat
      BY DEF IntakeInv, IntakeTypeOK, Tally
    <3>2. CASE answers' = answers
      BY <3>1, <3>2 DEF IntakeInv, IntakeTypeOK
    <3>3. CASE answers' = [answers EXCEPT ![e]["duplicate"] = @ + 1]
      <4> DEFINE told == [answers[e] EXCEPT !.duplicate = @ + 1]
      <4>1. answers[e] \in Tally
        BY <2>1 DEF IntakeInv, IntakeTypeOK
      <4>2. /\ told \in Tally /\ told.accepted = answers[e].accepted
            /\ told.duplicate = answers[e].duplicate + 1
        BY <4>1 DEF Tally
      <4>3. answers' = [answers EXCEPT ![e] = told]
        BY <3>3
      <4> HIDE DEF told
      <4>4. /\ answers' \in [Event -> Tally] /\ answers'[e] = told
            /\ \A event \in Event : event # e => answers'[event] = answers[event]
        BY <2>1, <4>2, <4>3 DEF IntakeInv, IntakeTypeOK
      <4> QED
        BY <2>1, <3>1, <4>2, <4>4
    <3> QED
      BY <2>2, <3>2, <3>3
  <2>6. \A event : Taken(event)' <=> Taken(event)
    BY <2>3 DEF Taken
  <2>7. IntakeTypeOK' /\ OneRowEach'
    BY <2>2, <2>3, <2>4, <2>5 DEF IntakeInv, IntakeTypeOK, OneRowEach, Listening
  <2>8. ReceiversSound'
    <3>1. \A g \in Receiver : receiving[g].op = "enqueueing" => receiving[g].event \in Event
      BY DEF IntakeInv, IntakeTypeOK
    <3>2. \A g \in Receiver : receiving[g].op = "enqueueing" =>
             answers'[receiving[g].event].accepted = answers[receiving[g].event].accepted
      BY <2>5, <3>1
    <3>3. \A g \in Receiver : receiving'[g].op \in {"enqueueing", "duplicate"} =>
             receiving'[g] = receiving[g]
      BY <2>2 DEF Listening
    <3>4. ASSUME NEW g \in Receiver, receiving'[g].op = "enqueueing"
          PROVE  /\ receiving'[g].row \in DOMAIN archive'
                 /\ archive'[receiving'[g].row].event = receiving'[g].event
                 /\ answers'[receiving'[g].event].accepted = 0
                 /\ \A f \in Receiver :
                       receiving'[f].op = "enqueueing" /\ receiving'[f].row = receiving'[g].row => f = g
      BY <2>3, <3>2, <3>3, <3>4 DEF IntakeInv, ReceiversSound
    <3>5. ASSUME NEW g \in Receiver, receiving'[g].op = "duplicate"
          PROVE  \E i \in DOMAIN archive' : archive'[i].event = receiving'[g].event
      BY <2>3, <3>3, <3>5 DEF IntakeInv, ReceiversSound, Taken
    <3> QED
      BY <3>4, <3>5 DEF ReceiversSound, Taken
  <2>9. AnswersSound'
    <3>1. ASSUME NEW event \in Event
          PROVE  /\ answers'[event].accepted <= 1
                 /\ answers'[event].accepted + answers'[event].duplicate > 0 => Taken(event)
                 /\ \A i \in DOMAIN archive :
                       archive[i].event = event => answers'[event].duplicate <= archive'[i].duplicates
      <4>1. \A i \in DOMAIN archive : archive[i].duplicates \in Nat
        BY ArchiveTyped DEF IntakeInv, PostbackRow
      <4> QED
        BY <2>1, <2>3, <2>5, <4>1 DEF IntakeInv, AnswersSound
    <3> QED
      BY <2>3, <2>6, <3>1 DEF AnswersSound
  <2>10. Stranded' \subseteq Stranded
    BY <2>2, <2>3 DEF Stranded, Listening
  <2>11. FewStranded'
    BY <2>2, <2>10, StrandedStep DEF IntakeInv
  <2> QED
    BY <2>7, <2>8, <2>9, <2>11 DEF IntakeInv
<1>7. ASSUME NEW h \in Receiver, EnqueueProcessing(h)
      PROVE  IntakeInv'
  <2> DEFINE e == receiving[h].event
             r == receiving[h].row
  <2>1. /\ e \in Event /\ r \in DOMAIN archive /\ archive[r].event = e /\ answers[e].accepted = 0
        /\ receiving[h].op = "enqueueing"
    BY <1>7 DEF EnqueueProcessing, IntakeInv, IntakeTypeOK, ReceiversSound
  <2>2. /\ archive' = archive
        /\ answers' = answers \/ answers' = [answers EXCEPT ![e]["accepted"] = @ + 1]
        /\ receiving'[h] = Listening /\ DOMAIN receiving' = Receiver
        /\ \A g \in Receiver : g # h => receiving'[g] = receiving[g]
        /\ \/ dispatched' = dispatched \cup {r} /\ failures' = failures
           \/ dispatched' = dispatched /\ failures' = failures + 1
    BY <1>7, <1>t DEF EnqueueProcessing, Answers, Receives, Fails
  <2>3. /\ answers' \in [Event -> Tally]
        /\ \A event \in Event :
              /\ answers'[event].duplicate = answers[event].duplicate
              /\ event # e => answers'[event].accepted = answers[event].accepted
        /\ answers'[e].accepted \in {0, 1}
    <3>1. answers \in [Event -> Tally] /\ answers[e] \in Tally
      BY <2>1 DEF IntakeInv, IntakeTypeOK
    <3>2. CASE answers' = answers
      BY <3>1, <3>2, <2>1
    <3>3. CASE answers' = [answers EXCEPT ![e]["accepted"] = @ + 1]
      <4> DEFINE tally == [answers[e] EXCEPT !.accepted = @ + 1]
      <4>1. tally \in Tally /\ tally.accepted = 1 /\ tally.duplicate = answers[e].duplicate
        BY <3>1, <2>1 DEF Tally
      <4>2. answers' = [answers EXCEPT ![e] = tally]
        BY <3>3
      <4> HIDE DEF tally
      <4>3. /\ answers' \in [Event -> Tally] /\ answers'[e] = tally
            /\ \A event \in Event : event # e => answers'[event] = answers[event]
        BY <2>1, <3>1, <4>1, <4>2
      <4> QED
        BY <2>1, <4>1, <4>3
    <3> QED
      BY <2>2, <3>2, <3>3
  <2>4. \A event : Taken(event)' <=> Taken(event)
    BY <2>2 DEF Taken
  <2>5. Taken(e)
    BY <2>1 DEF Taken
  <2>6. IntakeTypeOK' /\ OneRowEach'
    BY <1>t, <2>2, <2>3 DEF IntakeInv, IntakeTypeOK, OneRowEach, Listening
  <2>7. ReceiversSound'
    <3>1. ASSUME NEW g \in Receiver, g # h, receiving[g].op = "enqueueing"
          PROVE  receiving[g].event # e /\ receiving[g].event \in Event
      <4>1. /\ receiving[g].event \in Event
            /\ receiving[g].row \in DOMAIN archive
            /\ archive[receiving[g].row].event = receiving[g].event
            /\ receiving[g].row # r
        BY <2>1, <3>1 DEF IntakeInv, IntakeTypeOK, ReceiversSound
      <4> QED
        BY <2>1, <4>1, IntakeAssumption DEF IntakeInv, OneRowEach
    <3> QED
      BY <2>2, <2>3, <2>4, <3>1 DEF IntakeInv, ReceiversSound, Listening
  <2>8. AnswersSound'
    BY <2>2, <2>3, <2>4, <2>5 DEF IntakeInv, AnswersSound
  <2>9. Stranded' \subseteq Stranded \cup {r} /\ (dispatched' = dispatched \cup {r} => Stranded' \subseteq Stranded)
    BY <2>2 DEF Stranded, Listening
  <2>10. FewStranded'
    BY <2>2, <2>9, StrandedStep DEF IntakeInv
  <2> QED
    BY <2>6, <2>7, <2>8, <2>10 DEF IntakeInv
<1>8. ASSUME NEW h \in Receiver, Breaks(h)
      PROVE  IntakeInv'
  <2>1. /\ Receives(h, Listening) /\ UNCHANGED <<archive, answers, dispatched>>
        /\ failures' = failures + 1
    BY <1>8 DEF Breaks, Fails
  <2> QED
    BY <2>1, ListensAgain
<1>9. ASSUME NEW h \in Receiver, UniqueViolation(h)
      PROVE  IntakeInv'
  <2>1. receiving[h].event \in Event
    BY <1>9 DEF UniqueViolation, IntakeInv, IntakeTypeOK
  <2> QED
    BY <1>2, <1>9, <2>1
<1> QED
  BY <1>1, <1>2, <1>3, <1>4, <1>5, <1>6, <1>7, <1>8, <1>9 DEF IntakeNext

\* What was acknowledged is archived once, accepted once at most and counted,
\* and no more rows are left without a job than there were failures
\* (PostbackIntakeService).
THEOREM KeepsItsWord == IntakeSpec => []IntakeKeepsItsWord
<1>1. ASSUME IntakeInv PROVE IntakeKeepsItsWord
  <2>1. ASSUME NEW event \in Event
        PROVE  Cardinality(RowsOf(event)) <= 1
    <3>1. \A i, j \in RowsOf(event) : i = j
      BY <1>1, <2>1, IntakeAssumption DEF IntakeInv, OneRowEach, RowsOf
    <3>2. RowsOf(event) = {} \/ \E i : RowsOf(event) = {i}
      BY <3>1
    <3>3. Cardinality(RowsOf(event)) \in {0, 1}
      BY <3>2, FS_EmptySet, FS_Singleton
    <3> QED
      BY <3>3
  <2>2. \A event \in Event : Taken(event) => RowsOf(event) # {}
    BY DEF Taken, RowsOf
  <2> QED
    BY <1>1, <2>1, <2>2 DEF IntakeInv, AnswersSound, FewStranded, IntakeKeepsItsWord, RowsOf
<1> QED
  BY <1>1, IntakeInitInv, IntakeNextInv, PTL DEF IntakeSpec

-----------------------------------------------------------------------------
(* Backups.                                                                *)

DumpRow == [day : Nat, readable : BOOLEAN, read : BOOLEAN, early : BOOLEAN]

\* Objects and receipts are of dumps that were taken.
BackupsTypeOK ==
    /\ day \in Nat
    /\ dumps \in Seq(DumpRow)
    /\ files \in [Tier -> SUBSET DOMAIN dumps]
    /\ bucket \in [Tier -> SUBSET [dump : DOMAIN dumps, whole : BOOLEAN]]
    /\ receipts \in [Tier -> SUBSET DOMAIN dumps]
    /\ dumper.op \in {"reading", "linking"} => dumper.dump \in DOMAIN dumps
    /\ shipper.op \in {"scanning", "comparing"} => shipper.round \in DOMAIN Rounds

\* What was read back and is still there can be read.
FilesRead ==
    /\ \A d \in files["daily"] : dumps[d].read => dumps[d].readable
    /\ \A d \in files["weekly"] : dumps[d].readable
    /\ dumper.op = "linking" => dumps[dumper.dump].readable

\* What is being compared is in the bucket, and was early unless it can be read.
ComparingSound ==
    shipper.op = "comparing" =>
       LET d == shipper.dump
           tier == Rounds[shipper.round].tier IN
       /\ d \in DOMAIN dumps
       /\ \E object \in bucket[tier] : object.dump = d
       /\ dumps[d].readable \/ dumps[d].early

BackupsInv == BackupsTypeOK /\ FilesRead /\ ComparingSound /\ ReceiptsTell

-----------------------------------------------------------------------------
LEMMA RoundsTiers ==
    /\ DOMAIN Rounds = 1 .. 4 /\ Len(Rounds) = 4
    /\ \A r \in DOMAIN Rounds : Rounds[r].tier \in Tier
    /\ \A r \in DOMAIN Rounds : Rounds[r].op = "ship" => r + 1 \in DOMAIN Rounds
  BY DEF Rounds, Tier

LEMMA DumpsTyped ==
    ASSUME BackupsTypeOK
    PROVE  /\ Len(dumps) \in Nat /\ DOMAIN dumps = 1 .. Len(dumps)
           /\ \A d \in DOMAIN dumps : dumps[d] \in DumpRow /\ dumps[d].day \in Nat
<1>1. \A d \in DOMAIN dumps : dumps[d] \in DumpRow
  BY DEF BackupsTypeOK
<1>2. \A row \in DumpRow : row.day \in Nat
  BY DEF DumpRow
<1> QED
  BY <1>1, <1>2 DEF BackupsTypeOK

\* What may become of dumps that were taken: nothing but to be read and shipped.
Kept ==
    /\ DOMAIN dumps \subseteq DOMAIN dumps'
    /\ \A d \in DOMAIN dumps :
          /\ dumps'[d].day = dumps[d].day
          /\ dumps'[d].readable = dumps[d].readable
          /\ dumps[d].early => dumps'[d].early

\* Receipts that were there tell what they told, while objects stay.
LEMMA ReceiptsKept ==
    ASSUME BackupsInv, Kept, day' \in Nat, day <= day',
           NEW tier \in Tier, NEW d \in receipts[tier],
           [dump |-> d, whole |-> TRUE] \in bucket[tier] =>
              [dump |-> d, whole |-> TRUE] \in bucket'[tier] \/ Age(d)' >= RemoteKeep[tier]
    PROVE  /\ [dump |-> d, whole |-> TRUE] \in bucket'[tier] \/ Age(d)' >= RemoteKeep[tier]
           /\ dumps'[d].readable \/ dumps'[d].early
<1>1. d \in DOMAIN dumps
  BY DEF BackupsInv, BackupsTypeOK
<1>2. RemoteKeep[tier] \in Nat
  BY BackupsAssumption DEF RemoteKeep, Tier
<1>3. Age(d)' = day' - dumps[d].day
  BY <1>1 DEF Age, Kept
<1>4. Age(d)' >= Age(d) /\ Age(d) \in Int /\ Age(d)' \in Int
  BY <1>1, <1>3, DumpsTyped DEF Age, BackupsInv, BackupsTypeOK
<1>5. [dump |-> d, whole |-> TRUE] \in bucket[tier] \/ Age(d) >= RemoteKeep[tier]
  BY DEF BackupsInv, ReceiptsTell
<1>6. dumps[d].readable \/ dumps[d].early
  BY DEF BackupsInv, ReceiptsTell
<1>7. dumps'[d].readable \/ dumps'[d].early
  BY <1>1, <1>6 DEF Kept
<1> QED
  BY <1>2, <1>4, <1>5, <1>7

\* So a step that adds no receipt and takes no object away keeps them true.
LEMMA ReceiptsStay ==
    ASSUME BackupsInv, Kept, day' \in Nat, day <= day', receipts' = receipts, bucket' = bucket
    PROVE  ReceiptsTell'
<1>1. ASSUME NEW tier \in Tier, NEW d \in receipts[tier]
      PROVE  /\ [dump |-> d, whole |-> TRUE] \in bucket'[tier] \/ Age(d)' >= RemoteKeep[tier]
             /\ dumps'[d].readable \/ dumps'[d].early
  BY <1>1, ReceiptsKept
<1> QED
  BY <1>1 DEF ReceiptsTell

LEMMA SameDumps == ASSUME dumps' = dumps PROVE Kept
  BY DEF Kept

\* A step of backup.sh, or a new day, which leave the bucket and its shipper be.
LEMMA HostStep ==
    ASSUME BackupsInv, Kept, day' \in Nat, day <= day', UNCHANGED <<bucket, receipts, shipper>>,
           dumps' \in Seq(DumpRow),
           files' \in [Tier -> SUBSET DOMAIN dumps'],
           dumper'.op \in {"reading", "linking"} => dumper'.dump \in DOMAIN dumps',
           FilesRead'
    PROVE  BackupsInv'
<1>1. /\ bucket' \in [Tier -> SUBSET [dump : DOMAIN dumps', whole : BOOLEAN]]
      /\ receipts' \in [Tier -> SUBSET DOMAIN dumps']
  <2>1. [dump : DOMAIN dumps, whole : BOOLEAN] \subseteq [dump : DOMAIN dumps', whole : BOOLEAN]
    BY DEF Kept
  <2> QED
    BY <2>1 DEF BackupsInv, BackupsTypeOK, Kept
<1>2. BackupsTypeOK'
  BY <1>1 DEF BackupsInv, BackupsTypeOK
<1>3. ComparingSound'
  BY DEF BackupsInv, ComparingSound, Kept
<1> QED
  BY <1>2, <1>3, ReceiptsStay DEF BackupsInv

-----------------------------------------------------------------------------
LEMMA BackupsInitInv == BackupsInit => BackupsInv
<1> SUFFICES ASSUME BackupsInit PROVE BackupsInv
  OBVIOUS
<1>1. BackupsTypeOK
  BY DEF BackupsInit, BackupsTypeOK, Asleep
<1>2. FilesRead /\ ComparingSound /\ ReceiptsTell
  BY DEF BackupsInit, FilesRead, ComparingSound, ReceiptsTell, Asleep, Tier
<1> QED
  BY <1>1, <1>2 DEF BackupsInv

LEMMA DumpInv ==
    ASSUME BackupsInv, Dump
    PROVE  BackupsInv'
<1> DEFINE n == Len(dumps) + 1
<1>1. PICK readable \in BOOLEAN : dumps' = Append(dumps, NewDump(readable))
  BY DEF Dump
<1>2. NewDump(readable) \in DumpRow /\ ~NewDump(readable).read
  BY DEF NewDump, DumpRow, BackupsInv, BackupsTypeOK
<1>3. /\ dumps' \in Seq(DumpRow) /\ DOMAIN dumps' = DOMAIN dumps \cup {n}
      /\ dumps'[n] = NewDump(readable) /\ n \notin DOMAIN dumps
      /\ \A d \in DOMAIN dumps : dumps'[d] = dumps[d]
  BY <1>1, <1>2 DEF BackupsInv, BackupsTypeOK
<1>4. Kept
  BY <1>3 DEF Kept
<1>5. /\ files' = [files EXCEPT !["daily"] = @ \cup {n}]
      /\ dumper' = [op |-> "reading", dump |-> n]
      /\ UNCHANGED <<day, bucket, receipts, shipper>>
  BY DEF Dump
<1> HIDE DEF n
<1>6. files' \in [Tier -> SUBSET DOMAIN dumps']
  BY <1>3, <1>5 DEF BackupsInv, BackupsTypeOK
<1>7. FilesRead'
  BY <1>2, <1>3, <1>5 DEF BackupsInv, BackupsTypeOK, FilesRead, Tier
<1> QED
  BY <1>3, <1>4, <1>5, <1>6, <1>7, HostStep DEF BackupsInv, BackupsTypeOK

LEMMA ReadBackInv ==
    ASSUME BackupsInv, ReadBack
    PROVE  BackupsInv'
<1> DEFINE d == dumper.dump
           row == [dumps[d] EXCEPT !.read = TRUE]
<1>1. /\ d \in DOMAIN dumps /\ dumper.op = "reading"
      /\ dumps' = [dumps EXCEPT ![d] = row]
      /\ UNCHANGED <<day, bucket, receipts, shipper>>
  BY DEF ReadBack, BackupsInv, BackupsTypeOK
<1>2. /\ row \in DumpRow /\ row.day = dumps[d].day /\ row.readable = dumps[d].readable
      /\ row.early = dumps[d].early
  BY <1>1, DumpsTyped DEF DumpRow, BackupsInv
<1> HIDE DEF row
<1>3. /\ dumps' \in Seq(DumpRow) /\ DOMAIN dumps' = DOMAIN dumps
      /\ dumps'[d] = row /\ \A e \in DOMAIN dumps : e # d => dumps'[e] = dumps[e]
  BY <1>1, <1>2 DEF BackupsInv, BackupsTypeOK
<1>4. Kept
  BY <1>2, <1>3 DEF Kept
<1>5. CASE dumps[d].readable
  <2>1. dumper' = [dumper EXCEPT !.op = "linking"] /\ files' = files
    BY <1>5 DEF ReadBack
  <2>2. dumper'.dump = d
    BY <2>1
  <2>3. FilesRead'
    BY <1>2, <1>3, <1>5, <2>1, <2>2 DEF BackupsInv, BackupsTypeOK, FilesRead, Tier
  <2> QED
    BY <1>1, <1>3, <1>4, <2>1, <2>2, <2>3, HostStep DEF BackupsInv, BackupsTypeOK
<1>6. CASE ~dumps[d].readable
  <2>1. dumper' = [op |-> "pruning"] /\ files' = [files EXCEPT !["daily"] = @ \ {d}]
    BY <1>6 DEF ReadBack
  <2>2. files' \in [Tier -> SUBSET DOMAIN dumps']
    BY <1>3, <2>1 DEF BackupsInv, BackupsTypeOK
  <2>3. FilesRead'
    BY <1>2, <1>3, <1>6, <2>1 DEF BackupsInv, BackupsTypeOK, FilesRead, Tier
  <2> QED
    BY <1>1, <1>3, <1>4, <2>1, <2>2, <2>3, HostStep DEF BackupsInv, BackupsTypeOK
<1> QED
  BY <1>5, <1>6

\* The other steps of backup.sh, and the day.
LEMMA LinkPruneInv ==
    ASSUME BackupsInv, DumpFails \/ Link \/ Prune \/ DumperStops \/ Dawn
    PROVE  BackupsInv'
<1>1. /\ UNCHANGED <<dumps, bucket, receipts, shipper>>
      /\ day' \in Nat /\ day <= day'
      /\ dumper'.op \notin {"reading", "linking"} \/ dumper' = dumper
  BY DEF DumpFails, Link, Prune, DumperStops, Dawn, Asleep, BackupsInv, BackupsTypeOK
<1>2. /\ files' \in [Tier -> SUBSET DOMAIN dumps]
      /\ files'["daily"] \subseteq files["daily"]
      /\ \A d \in files'["weekly"] : d \in files["weekly"] \/ (dumper.op = "linking" /\ d = dumper.dump)
  <2>1. CASE DumpFails \/ DumperStops \/ Dawn
    BY <2>1 DEF DumpFails, DumperStops, Dawn, BackupsInv, BackupsTypeOK
  <2>2. CASE Link
    BY <2>2 DEF Link, BackupsInv, BackupsTypeOK, Tier
  <2>3. CASE Prune
    <3>1. files' = [tier \in Tier |-> {d \in files[tier] : Age(d) <= Keep[tier]}]
      BY <2>3 DEF Prune
    <3> QED
      BY <3>1 DEF BackupsInv, BackupsTypeOK, Tier
  <2> QED
    BY <2>1, <2>2, <2>3
<1>3. FilesRead'
  BY <1>1, <1>2 DEF BackupsInv, FilesRead
<1> QED
  BY <1>1, <1>2, <1>3, SameDumps, HostStep DEF BackupsInv, BackupsTypeOK

LEMMA ShipInv ==
    ASSUME BackupsInv, Ship
    PROVE  BackupsInv'
<1> DEFINE round == shipper.round
           tier == Rounds[round].tier
<1>1. round \in DOMAIN Rounds /\ tier \in Tier /\ UNCHANGED <<day, files, dumper, receipts>>
  BY RoundsTiers DEF Ship, BackupsInv, BackupsTypeOK
<1>2. PICK d \in Left :
        \/ /\ d \in files[tier]
           /\ \E whole \in BOOLEAN : Uploaded(tier, d, whole)
           /\ dumps' = [dumps EXCEPT ![d].early = @ \/ ~dumps[d].read]
           /\ shipper' = [op |-> "comparing", round |-> round, todo |-> shipper.todo, dump |-> d]
        \/ /\ shipper' = Scanning(round, shipper.todo \ {d})
           /\ UNCHANGED <<bucket, dumps>>
  BY DEF Ship
<1>3. CASE /\ shipper' = Scanning(round, shipper.todo \ {d})
           /\ UNCHANGED <<bucket, dumps>>
  <2>1. BackupsTypeOK' /\ FilesRead' /\ ComparingSound'
    BY <1>1, <1>3 DEF BackupsInv, BackupsTypeOK, FilesRead, ComparingSound, Scanning
  <2> QED
    BY <1>1, <1>3, <2>1, SameDumps, ReceiptsStay DEF BackupsInv, BackupsTypeOK
<1>4. CASE /\ d \in files[tier]
           /\ \E whole \in BOOLEAN : Uploaded(tier, d, whole)
           /\ dumps' = [dumps EXCEPT ![d].early = @ \/ ~dumps[d].read]
           /\ shipper' = [op |-> "comparing", round |-> round, todo |-> shipper.todo, dump |-> d]
  <2> DEFINE row == [dumps[d] EXCEPT !.early = @ \/ ~dumps[d].read]
  <2>1. d \in DOMAIN dumps /\ d \notin receipts[tier]
    BY <1>1, <1>2, <1>4 DEF BackupsInv, BackupsTypeOK, Left
  <2>2. dumps[d] \in DumpRow
    BY <2>1, DumpsTyped DEF BackupsInv
  <2>3. /\ row \in DumpRow /\ row.day = dumps[d].day /\ row.readable = dumps[d].readable
        /\ row.read = dumps[d].read /\ row.early = (dumps[d].early \/ ~dumps[d].read)
    BY <2>2 DEF DumpRow
  <2>4. dumps' = [dumps EXCEPT ![d] = row]
    BY <1>4
  <2> HIDE DEF row
  <2>5. /\ dumps' \in Seq(DumpRow) /\ DOMAIN dumps' = DOMAIN dumps
        /\ dumps'[d] = row /\ \A e \in DOMAIN dumps : e # d => dumps'[e] = dumps[e]
    BY <2>1, <2>3, <2>4 DEF BackupsInv, BackupsTypeOK
  <2>6. Kept
    BY <2>3, <2>5 DEF Kept
  <2>7. PICK whole \in BOOLEAN :
          bucket' = [bucket EXCEPT ![tier] = {o \in @ : o.dump # d} \cup {[dump |-> d, whole |-> whole]}]
    BY <1>4 DEF Uploaded
  <2>8. /\ bucket'[tier] = {o \in bucket[tier] : o.dump # d} \cup {[dump |-> d, whole |-> whole]}
        /\ \A other \in Tier \ {tier} : bucket'[other] = bucket[other]
        /\ bucket' \in [Tier -> SUBSET [dump : DOMAIN dumps', whole : BOOLEAN]]
    BY <1>1, <2>1, <2>5, <2>7 DEF BackupsInv, BackupsTypeOK
  <2>9. BackupsTypeOK'
    BY <1>1, <1>4, <2>5, <2>8 DEF BackupsInv, BackupsTypeOK
  <2>10. FilesRead'
    BY <1>1, <2>3, <2>5 DEF BackupsInv, BackupsTypeOK, FilesRead, Tier
  <2>11. ComparingSound'
    <3>1. dumps[d].read => dumps[d].readable
      BY <1>1, <1>4 DEF BackupsInv, FilesRead, Tier
    <3>2. shipper'.dump = d /\ shipper'.round = round
      BY <1>4
    <3>3. d \in DOMAIN dumps' /\ (\E object \in bucket'[tier] : object.dump = d)
      <4>1. d \in DOMAIN dumps'
        BY <2>1, <2>5
      <4>2. [dump |-> d, whole |-> whole] \in bucket'[tier]
        BY <2>8
      <4>3. [dump |-> d, whole |-> whole].dump = d
        OBVIOUS
      <4> QED
        BY <4>1, <4>2, <4>3
    <3>4. dumps'[d].readable \/ dumps'[d].early
      <4>1. CASE dumps[d].read
        BY <4>1, <2>3, <2>5, <3>1
      <4>2. CASE ~dumps[d].read
        BY <4>2, <2>3, <2>5
      <4> QED
        BY <4>1, <4>2
    <3> QED
      BY <3>2, <3>3, <3>4 DEF ComparingSound
  <2>12. ReceiptsTell'
    <3>1. ASSUME NEW t \in Tier, NEW e \in receipts[t]
          PROVE  /\ [dump |-> e, whole |-> TRUE] \in bucket'[t] \/ Age(e)' >= RemoteKeep[t]
                 /\ dumps'[e].readable \/ dumps'[e].early
      <4>1. t = tier => e # d
        BY <2>1
      <4>2. [dump |-> e, whole |-> TRUE] \in bucket[t] => [dump |-> e, whole |-> TRUE] \in bucket'[t]
        BY <2>8, <4>1
      <4> QED
        BY <1>1, <2>6, <4>2, ReceiptsKept DEF BackupsInv, BackupsTypeOK
    <3> QED
      BY <1>1, <3>1 DEF ReceiptsTell
  <2> QED
    BY <2>9, <2>10, <2>11, <2>12 DEF BackupsInv
<1> QED
  BY <1>2, <1>3, <1>4

LEMMA CompareInv ==
    ASSUME BackupsInv, Compare
    PROVE  BackupsInv'
<1> DEFINE d == shipper.dump
           tier == Rounds[shipper.round].tier
<1>1. /\ shipper.op = "comparing" /\ shipper.round \in DOMAIN Rounds /\ tier \in Tier
      /\ UNCHANGED <<day, dumps, files, dumper, bucket>>
      /\ shipper' = Scanning(shipper.round, shipper.todo \ {d})
  BY RoundsTiers DEF Compare, BackupsInv, BackupsTypeOK
<1>2. /\ d \in DOMAIN dumps /\ (\E object \in bucket[tier] : object.dump = d)
      /\ dumps[d].readable \/ dumps[d].early
  BY <1>1 DEF BackupsInv, ComparingSound
<1>3. \/ receipts' = receipts
      \/ /\ receipts' = [receipts EXCEPT ![tier] = @ \cup {d}]
         /\ [dump |-> d, whole |-> TRUE] \in bucket[tier]
  <2>1. CASE \A object \in bucket[tier] : object.dump = d => Matches(object)
    <3>1. PICK object \in bucket[tier] : object.dump = d
      BY <1>2
    <3>2. object \in [dump : DOMAIN dumps, whole : BOOLEAN]
      BY <1>1 DEF BackupsInv, BackupsTypeOK
    <3>3. object.whole
      BY <2>1, <3>1 DEF Matches
    <3>4. object = [dump |-> d, whole |-> TRUE]
      BY <3>1, <3>2, <3>3
    <3>5. receipts' = [receipts EXCEPT ![tier] = @ \cup {d}]
      BY <2>1 DEF Compare
    <3> QED
      BY <3>4, <3>5
  <2>2. CASE ~(\A object \in bucket[tier] : object.dump = d => Matches(object))
    BY <2>2 DEF Compare
  <2> QED
    BY <2>1, <2>2
<1>4. BackupsTypeOK'
  <2>1. receipts' \in [Tier -> SUBSET DOMAIN dumps]
    BY <1>1, <1>2, <1>3 DEF BackupsInv, BackupsTypeOK
  <2> QED
    BY <1>1, <2>1 DEF BackupsInv, BackupsTypeOK, Scanning
<1>5. FilesRead' /\ ComparingSound'
  BY <1>1 DEF BackupsInv, FilesRead, ComparingSound, Scanning
<1>6. ReceiptsTell'
  <2>1. ASSUME NEW t \in Tier, NEW e \in receipts'[t]
        PROVE  /\ [dump |-> e, whole |-> TRUE] \in bucket[t] \/ Age(e) >= RemoteKeep[t]
               /\ dumps[e].readable \/ dumps[e].early
    <3>1. CASE e \in receipts[t]
      BY <3>1 DEF BackupsInv, ReceiptsTell
    <3>2. CASE e \notin receipts[t]
      <4>1. t = tier /\ e = d /\ [dump |-> d, whole |-> TRUE] \in bucket[tier]
        BY <1>1, <1>3, <3>2 DEF BackupsInv, BackupsTypeOK
      <4> QED
        BY <1>2, <4>1
    <3> QED
      BY <3>1, <3>2
  <2> QED
    BY <1>1, <2>1 DEF ReceiptsTell, Age
<1> QED
  BY <1>4, <1>5, <1>6 DEF BackupsInv

LEMMA PruneTierInv ==
    ASSUME BackupsInv, PruneTier
    PROVE  BackupsInv'
<1> DEFINE tier == Rounds[shipper.round].tier
<1>1. /\ shipper.op = "scanning" /\ shipper.round \in DOMAIN Rounds /\ tier \in Tier
      /\ UNCHANGED <<day, dumps, files, dumper>>
  BY RoundsTiers DEF PruneTier, BackupsInv, BackupsTypeOK
<1>2. /\ shipper' = Asleep \/ (shipper'.op = "scanning" /\ shipper'.round \in DOMAIN Rounds)
  BY <1>1, RoundsTiers DEF PruneTier, Scanning
<1>3. \/ UNCHANGED <<bucket, receipts>>
      \/ /\ bucket' = [bucket EXCEPT ![tier] = {o \in @ : Age(o.dump) < RemoteKeep[tier]}]
         /\ receipts' = [receipts EXCEPT ![tier] = @ \cap files[tier]]
  BY DEF PruneTier
<1>4. /\ bucket' \in [Tier -> SUBSET [dump : DOMAIN dumps, whole : BOOLEAN]]
      /\ receipts' \in [Tier -> SUBSET DOMAIN dumps]
      /\ \A t \in Tier : receipts'[t] \subseteq receipts[t]
      /\ \A t \in Tier : \A o \in bucket[t] : o \in bucket'[t] \/ ~(Age(o.dump) < RemoteKeep[t])
  BY <1>1, <1>3 DEF BackupsInv, BackupsTypeOK
<1>5. BackupsTypeOK'
  BY <1>1, <1>2, <1>4 DEF BackupsInv, BackupsTypeOK, Asleep
<1>6. FilesRead' /\ ComparingSound'
  BY <1>1, <1>2 DEF BackupsInv, FilesRead, ComparingSound, Asleep
<1>7. ReceiptsTell'
  <2>1. ASSUME NEW t \in Tier, NEW e \in receipts'[t]
        PROVE  /\ [dump |-> e, whole |-> TRUE] \in bucket'[t] \/ Age(e) >= RemoteKeep[t]
               /\ dumps[e].readable \/ dumps[e].early
    <3>1. e \in receipts[t] /\ e \in DOMAIN dumps
      BY <1>4 DEF BackupsInv, BackupsTypeOK
    <3>2. Age(e) \in Int /\ RemoteKeep[t] \in Nat
      <4>1. BackupsTypeOK /\ day \in Nat
        BY DEF BackupsInv, BackupsTypeOK
      <4>2. dumps[e].day \in Nat
        BY <3>1, <4>1, DumpsTyped
      <4>3. RemoteKeep[t] \in Nat
        BY BackupsAssumption DEF RemoteKeep, Tier
      <4> QED
        BY <4>1, <4>2, <4>3 DEF Age
    <3>3. /\ [dump |-> e, whole |-> TRUE] \in bucket[t] \/ Age(e) >= RemoteKeep[t]
          /\ dumps[e].readable \/ dumps[e].early
      BY <3>1 DEF BackupsInv, ReceiptsTell
    <3>4. [dump |-> e, whole |-> TRUE] \in bucket[t] =>
             [dump |-> e, whole |-> TRUE] \in bucket'[t] \/ ~(Age(e) < RemoteKeep[t])
      BY <1>4
    <3> QED
      BY <3>2, <3>3, <3>4
  <2> QED
    BY <1>1, <2>1 DEF ReceiptsTell, Age
<1> QED
  BY <1>5, <1>6, <1>7 DEF BackupsInv

\* The shipper's other steps change nothing but where it stands.
LEMMA ShipperInv ==
    ASSUME BackupsInv, RunOnce \/ NextTier \/ ShipperStops
    PROVE  BackupsInv'
<1>1. /\ UNCHANGED <<day, dumps, files, dumper, bucket, receipts>>
      /\ shipper' = Asleep \/ (shipper'.op = "scanning" /\ shipper'.round \in DOMAIN Rounds)
  BY RoundsTiers DEF RunOnce, NextTier, ShipperStops, Scanning, BackupsInv, BackupsTypeOK
<1>2. BackupsTypeOK' /\ FilesRead' /\ ComparingSound'
  BY <1>1 DEF BackupsInv, BackupsTypeOK, FilesRead, ComparingSound, Asleep
<1> QED
  BY <1>1, <1>2, SameDumps, ReceiptsStay DEF BackupsInv, BackupsTypeOK

LEMMA BackupsNextInv == BackupsInv /\ [BackupsNext]_backupVars => BackupsInv'
<1> SUFFICES ASSUME BackupsInv, [BackupsNext]_backupVars PROVE BackupsInv'
  OBVIOUS
<1>1. CASE UNCHANGED backupVars
  <2>1. BackupsTypeOK' /\ FilesRead' /\ ComparingSound'
    BY <1>1 DEF backupVars, BackupsInv, BackupsTypeOK, FilesRead, ComparingSound
  <2> QED
    BY <1>1, <2>1, SameDumps, ReceiptsStay DEF backupVars, BackupsInv, BackupsTypeOK
<1> QED
  BY <1>1, DumpInv, ReadBackInv, LinkPruneInv, ShipInv, CompareInv, PruneTierInv, ShipperInv
     DEF BackupsNext

\* A receipt tells of a true copy within the bucket's window, and of a dump that
\* can be read unless it was shipped unread (backup-remote.sh, ship).
THEOREM ReceiptsTrue == BackupsSpec => []ReceiptsTell
<1>1. BackupsInv => ReceiptsTell
  BY DEF BackupsInv
<1> QED
  BY <1>1, BackupsInitInv, BackupsNextInv, PTL DEF BackupsSpec

-----------------------------------------------------------------------------
(* The administrators' screens.                                            *)

HeldStatuses == {"HELD", "CREDITED", "REJECTED", "REVERSED"}

\* r is a record of the kind s has.
OfKind(s, r) ==
    /\ s \in Payout => r \in [status : PayoutStatuses]
    /\ s \in Held   => r \in [status : HeldStatuses]
    /\ s \in Person => r \in [status : UserStatuses, role : UserRoles]

RecordsSound == DOMAIN records = Subjects /\ \A s \in Subjects : OfKind(s, records[s])

PageSound == page # Closed => page.of \in Subjects /\ OfKind(page.of, page.shown)

DeskInv == RecordsSound /\ PageSound

-----------------------------------------------------------------------------
(* What the screens are, for each kind *)

LEMMA Kinds ==
    ASSUME NEW s \in Subjects
    PROVE  \/ s \in Payout /\ s \notin Held /\ s \notin Person
           \/ s \in Held /\ s \notin Payout /\ s \notin Person
           \/ s \in Person /\ s \notin Payout /\ s \notin Held
  BY DeskAssumption DEF Subjects

LEMMA ButtonsOf ==
    /\ \A s \in Payout : Buttons(s) =
          {Button("status", to, to # "APPROVED") : to \in PayoutStatuses \ {"PENDING_REVIEW"}}
    /\ \A s \in Held : Buttons(s) = {Button("status", to, TRUE) : to \in {"CREDITED", "REJECTED"}}
    /\ \A s \in Person : Buttons(s) =
          {Button("status", to, TRUE) : to \in UserStatuses} \cup {Button("role", to, TRUE) : to \in UserRoles}
  BY DeskAssumption DEF Buttons, PayoutForms, HoldForms, StandingForms, RoleForms

LEMMA OfferedOf ==
    ASSUME NEW shown
    PROVE  /\ \A s \in Payout : Offered(s, shown) = {b \in Buttons(s) : b.to \in ActionsFor(shown.status)}
           /\ \A s \in Held : Offered(s, shown) = IF shown.status = "HELD" THEN Buttons(s) ELSE {}
           /\ \A s \in Person : Offered(s, shown) = ChangesFor(s, shown)
  BY DeskAssumption DEF Offered

LEMMA PermittedOf ==
    ASSUME NEW b
    PROVE  /\ \A s \in Payout : Permitted(s, b) <=>
                 (<<records[s].status, b.to>> \in {<<"PENDING_REVIEW", "APPROVED">>, <<"PENDING_REVIEW", "REJECTED">>,
                                                   <<"APPROVED", "PAID">>, <<"APPROVED", "FAILED">>})
           /\ \A s \in Held : (Permitted(s, b) <=> records[s].status = "HELD")
           /\ \A s \in Person : Permitted(s, b) <=>
                 (records[s][b.field] # b.to /\ (b.field = "status" => records[s].status # "CLOSED"))
  BY DeskAssumption DEF Permitted

\* What a button names is a field of its kind, and a value it may have.
LEMMA PressedKeepsKind ==
    ASSUME NEW s \in Subjects, NEW b \in Buttons(s), NEW r, OfKind(s, r)
    PROVE  OfKind(s, [r EXCEPT ![b.field] = b.to])
<1>1. CASE s \in Payout
  <2>1. b.field = "status" /\ b.to \in PayoutStatuses
    BY <1>1, ButtonsOf DEF Button
  <2>2. r \in [status : PayoutStatuses]
    BY <1>1 DEF OfKind
  <2>3. [r EXCEPT !["status"] = b.to] \in [status : PayoutStatuses]
    BY <2>1, <2>2
  <2> QED
    BY <1>1, <2>1, <2>3, Kinds DEF OfKind
<1>2. CASE s \in Held
  <2>1. b.field = "status" /\ b.to \in HeldStatuses
    BY <1>2, ButtonsOf DEF Button, HeldStatuses
  <2>2. r \in [status : HeldStatuses]
    BY <1>2 DEF OfKind
  <2>3. [r EXCEPT !["status"] = b.to] \in [status : HeldStatuses]
    BY <2>1, <2>2
  <2> QED
    BY <1>2, <2>1, <2>3, Kinds DEF OfKind
<1>3. CASE s \in Person
  <2>1. \/ b.field = "status" /\ b.to \in UserStatuses
        \/ b.field = "role" /\ b.to \in UserRoles
    BY <1>3, ButtonsOf DEF Button
  <2>2. r \in [status : UserStatuses, role : UserRoles]
    BY <1>3 DEF OfKind
  <2>3. [r EXCEPT ![b.field] = b.to] \in [status : UserStatuses, role : UserRoles]
    BY <2>1, <2>2
  <2> QED
    BY <1>3, <2>3, Kinds DEF OfKind
<1> QED
  BY <1>1, <1>2, <1>3 DEF Subjects

-----------------------------------------------------------------------------
LEMMA DeskInitInv == DeskInit => DeskInv
<1> SUFFICES ASSUME DeskInit PROVE DeskInv
  OBVIOUS
<1>1. \A s \in Subjects : OfKind(s, records[s])
  BY Kinds DEF DeskInit, OfKind, PayoutStatuses, HeldStatuses, UserStatuses, UserRoles
<1> QED
  BY <1>1 DEF DeskInit, DeskInv, RecordsSound, PageSound

LEMMA RecordInv ==
    ASSUME RecordsSound, NEW s \in Subjects, NEW b \in Buttons(s), Record(s, b)
    PROVE  RecordsSound'
<1>1. OfKind(s, [records[s] EXCEPT ![b.field] = b.to])
  BY PressedKeepsKind DEF RecordsSound
<1>2. records' = [records EXCEPT ![s] = [records[s] EXCEPT ![b.field] = b.to]]
  BY DEF Record
<1> QED
  BY <1>1, <1>2 DEF RecordsSound, OfKind

LEMMA DeskNextInv == DeskInv /\ [DeskNext]_deskVars => DeskInv'
<1> SUFFICES ASSUME DeskInv, [DeskNext]_deskVars PROVE DeskInv'
  OBVIOUS
<1>1. CASE UNCHANGED deskVars
  BY <1>1 DEF deskVars, DeskInv, RecordsSound, PageSound, OfKind
<1>2. ASSUME NEW s \in Subjects, Open(s)
      PROVE  DeskInv'
  BY <1>2 DEF Open, Shows, DeskInv, RecordsSound, PageSound, OfKind
<1>3. ASSUME page # Closed, NEW b \in Buttons(page.of), NEW text \in BOOLEAN, Press(b, text)
      PROVE  DeskInv'
  <2>1. page.of \in Subjects /\ OfKind(page.of, page.shown)
    BY <1>3 DEF DeskInv, PageSound
  <2>2. RecordsSound'
    <3>1. Record(page.of, b) \/ records' = records
      BY <1>3 DEF Press
    <3> QED
      BY <2>1, <3>1, RecordInv DEF DeskInv, RecordsSound, OfKind
  <2>3. page'.of = page.of /\ page'.shown \in {records'[page.of], page.shown}
    BY <1>3 DEF Press, Shows
  <2> QED
    BY <2>1, <2>2, <2>3 DEF DeskInv, RecordsSound, PageSound, OfKind
<1>4. ASSUME NEW by \in Person, NEW s \in Subjects, NEW b \in Buttons(s), Elsewhere(by, s, b)
      PROVE  DeskInv'
  <2>1. Record(s, b) /\ page' = page
    BY <1>4 DEF Elsewhere
  <2> QED
    BY <2>1, RecordInv DEF DeskInv, PageSound, OfKind
<1>5. ASSUME NEW s \in Held, TakeBack(s)
      PROVE  DeskInv'
  <2>1. records' = [records EXCEPT ![s].status = "REVERSED"] /\ page' = page
    BY <1>5 DEF TakeBack
  <2>2. s \in Subjects /\ s \notin Payout /\ s \notin Person
    BY DeskAssumption DEF Subjects
  <2>3. records[s] \in [status : HeldStatuses]
    BY <2>2 DEF DeskInv, RecordsSound, OfKind
  <2>4. [records[s] EXCEPT !.status = "REVERSED"] \in [status : HeldStatuses]
    BY <2>3 DEF HeldStatuses
  <2> QED
    BY <2>1, <2>2, <2>4 DEF DeskInv, RecordsSound, PageSound, OfKind
<1> QED
  BY <1>1, <1>2, <1>3, <1>4, <1>5 DEF DeskNext

\* Records and pages are always of their kind.
THEOREM DeskInductive == DeskSpec => []DeskInv
  BY DeskInitInv, DeskNextInv, PTL DEF DeskSpec

-----------------------------------------------------------------------------
\* A status admits exactly the buttons the queue offers.
LEMMA ActionsAreTransitions ==
    ASSUME NEW from \in PayoutStatuses, NEW to
    PROVE  to \in ActionsFor(from) <=>
             (<<from, to>> \in {<<"PENDING_REVIEW", "APPROVED">>, <<"PENDING_REVIEW", "REJECTED">>,
                                <<"APPROVED", "PAID">>, <<"APPROVED", "FAILED">>})
  BY DEF ActionsFor, PayoutStatuses

\* A page that is not old offers what the API would do, and nothing else but to
\* reopen an account that is closed.
LEMMA OffersWhatIsPermitted ==
    ASSUME RecordsSound, NEW s \in Subjects, NEW b \in Buttons(s), s # Me
    PROVE  /\ Permitted(s, b) => b \in Offered(s, records[s])
           /\ b \in Offered(s, records[s]) => Permitted(s, b) \/ records[s].status = "CLOSED"
<1>1. CASE s \in Payout
  <2>1. records[s].status \in PayoutStatuses
    BY <1>1 DEF RecordsSound, OfKind
  <2> QED
    BY <1>1, <2>1, OfferedOf, PermittedOf, ActionsAreTransitions
<1>2. CASE s \in Held
  BY <1>2, OfferedOf, PermittedOf
<1>3. CASE s \in Person
  BY <1>3, OfferedOf, PermittedOf DEF ChangesFor, IsSelf
<1> QED
  BY <1>1, <1>2, <1>3 DEF Subjects

\* What is done to a request or a hold was offered for the state it is in.
LEMMA DoneAsShown ==
    ASSUME RecordsSound, NEW s \in Subjects, s \notin Person, NEW shown, OfKind(s, shown),
           NEW b \in Offered(s, shown), Permitted(s, b)
    PROVE  records[s] = shown
<1>1. CASE s \in Payout
  <2>1. records[s] \in [status : PayoutStatuses] /\ shown \in [status : PayoutStatuses]
    BY <1>1 DEF RecordsSound, OfKind
  <2>2. b.to \in ActionsFor(shown.status) /\ b.to \in ActionsFor(records[s].status)
    BY <1>1, <2>1, OfferedOf, PermittedOf, ActionsAreTransitions
  <2>3. records[s].status = shown.status
    BY <2>1, <2>2 DEF ActionsFor, PayoutStatuses
  <2> QED
    BY <2>1, <2>3
<1>2. CASE s \in Held
  <2>1. records[s] \in [status : HeldStatuses] /\ shown \in [status : HeldStatuses]
    BY <1>2 DEF RecordsSound, OfKind
  <2>2. records[s].status = "HELD" /\ shown.status = "HELD"
    BY <1>2, OfferedOf, PermittedOf
  <2> QED
    BY <2>1, <2>2
<1> QED
  BY <1>1, <1>2 DEF Subjects

\* Nothing is offered of oneself.
LEMMA NothingOfOneself ==
    ASSUME NEW shown
    PROVE  Offered(Me, shown) = {}
  BY DeskAssumption, OfferedOf DEF ChangesFor, IsSelf

LEMMA OfferedAreButtons ==
    ASSUME NEW s \in Subjects, NEW shown
    PROVE  Offered(s, shown) \subseteq Buttons(s)
<1>1. ChangesFor(s, shown) \subseteq Buttons(s)
  BY DEF ChangesFor
<1> QED
  BY <1>1, OfferedOf DEF Subjects

\* However old the page: what a button did to a request or a hold it did to the
\* state shown, a conflict tells of an old page or a closed account, a refusal
\* of an administrator who is none, and a fresh page offers all there is
\* (actionsFor, FRAUD_DECISIONS, statusChangesFor).
THEOREM PagesAreTrue == DeskSpec => PagesTellTheTruth
<1> DEFINE Truth ==
      page # Closed =>
          LET s == page.of IN
          /\ \A b \in Offered(s, page.shown), text \in BOOLEAN :
                Press(b, text) =>
                   /\ page'.said = "done" /\ s \notin Person => records[s] = page.shown
                   /\ page'.said = "conflict" => records[s] # page.shown \/ records[s].status = "CLOSED"
                   /\ page'.said = "forbidden" => ~IsActiveAdmin(Me)
          /\ records[s] = page.shown =>
                {b \in Buttons(s) : Answer(Me, s, b, TRUE) = "done"} \subseteq Offered(s, page.shown)
<1>1. ASSUME DeskInv PROVE Truth
  <2> SUFFICES ASSUME page # Closed
               PROVE  LET s == page.of IN
          /\ \A b \in Offered(s, page.shown), text \in BOOLEAN :
                Press(b, text) =>
                   /\ page'.said = "done" /\ s \notin Person => records[s] = page.shown
                   /\ page'.said = "conflict" => records[s] # page.shown \/ records[s].status = "CLOSED"
                   /\ page'.said = "forbidden" => ~IsActiveAdmin(Me)
          /\ records[s] = page.shown =>
                {b \in Buttons(s) : Answer(Me, s, b, TRUE) = "done"} \subseteq Offered(s, page.shown)
    OBVIOUS
  <2> DEFINE s == page.of
  <2>1. s \in Subjects /\ OfKind(s, page.shown) /\ RecordsSound
    BY <1>1 DEF DeskInv, PageSound
  <2>2. ASSUME NEW b \in Offered(s, page.shown), NEW text \in BOOLEAN, Press(b, text)
        PROVE  /\ page'.said = "done" /\ s \notin Person => records[s] = page.shown
               /\ page'.said = "conflict" => records[s] # page.shown \/ records[s].status = "CLOSED"
               /\ page'.said = "forbidden" => ~IsActiveAdmin(Me)
    <3>1. page'.said = Answer(Me, s, b, text)
      BY <2>2 DEF Press, Shows
    <3>2. s # Me /\ b \in Buttons(s)
      BY <2>1, <2>2, NothingOfOneself, OfferedAreButtons
    <3>3. /\ page'.said = "done" => Permitted(s, b)
          /\ page'.said = "conflict" => ~Permitted(s, b)
          /\ page'.said = "forbidden" => ~IsActiveAdmin(Me)
      BY <3>1, <3>2 DEF Answer
    <3> HIDE DEF s
    <3>4. page'.said = "done" /\ s \notin Person => records[s] = page.shown
      BY <2>1, <2>2, <3>3, DoneAsShown
    <3>5. page'.said = "conflict" => records[s] # page.shown \/ records[s].status = "CLOSED"
      BY <2>1, <2>2, <3>2, <3>3, OffersWhatIsPermitted
    <3> QED
      BY <3>3, <3>4, <3>5
  <2>3. ASSUME records[s] = page.shown, NEW b \in Buttons(s), Answer(Me, s, b, TRUE) = "done"
        PROVE  b \in Offered(s, page.shown)
    <3>1. s # Me /\ Permitted(s, b)
      BY <2>3 DEF Answer
    <3> HIDE DEF s
    <3> QED
      BY <2>1, <2>3, <3>1, OffersWhatIsPermitted
  <2> QED
    BY <2>2, <2>3
<1>2. DeskInv /\ [DeskNext]_deskVars => [Truth]_deskVars
  BY <1>1
<1> QED
  BY <1>2, DeskInductive, PTL DEF DeskSpec, PagesTellTheTruth

-----------------------------------------------------------------------------
(* The services side by side                                               *)

\* What the catalog consists of, but for what a behaviour may still spend.
catalogRows == <<offers, runs, health, enabled, waiting, scheduled, sync, pull, clock>>

\* Clicks take of the budget, and of the catalog nothing else.
LEMMA ClicksSpendOnly == ClicksNext => UNCHANGED catalogRows
  BY DEF ClicksNext, catalogRows, catalogVars, RequireOffer, RequireProvider, CountUser, CountAddress,
         Insert, HourPasses

\* What each component sees of a step: one of its own, or none.
LEMMA EachItsOwn ==
    ASSUME [Next]_vars
    PROVE  /\ part' = part
           /\ CatalogNext \/ UNCHANGED catalogRows
           /\ [ThrottlesNext]_throttleVars /\ [SourcesNext]_sourceVars /\ [IntakeNext]_intakeVars
           /\ [BackupsNext]_backupVars /\ [DeskNext]_deskVars
           /\ part # "scoring" => [ClickingNext]_<<catalogVars, clickVars>> /\ UNCHANGED <<recorded, scoring>>
           /\ part = "scoring" =>
                 \/ ScoringNext
                 \/ HourPasses /\ UNCHANGED <<recorded, scoring>>
                 \/ UNCHANGED <<clickVars, recorded, scoring>>
<1>1. CASE UNCHANGED vars
  BY <1>1 DEF vars, catalogVars, catalogRows, scoringVars, clickVars
<1>2. CASE part = "catalog" /\ Catalogs /\ part' = part
  <2>1. CatalogNext \/ UNCHANGED catalogRows
    BY <1>2, ClicksSpendOnly DEF Catalogs, ClickingNext
  <2> QED
    BY <1>2, <2>1 DEF Catalogs
<1>3. CASE part = "scoring" /\ Scorings /\ part' = part
  <2>1. UNCHANGED catalogRows
    BY <1>3 DEF Scorings, HourPasses, catalogVars, catalogRows
  <2> QED
    BY <1>3, <2>1 DEF Scorings
<1>4. CASE /\ part \notin {"catalog", "scoring"} /\ part' = part
           /\ UNCHANGED <<catalogVars, scoringVars>>
           /\ [ThrottlesNext]_throttleVars /\ [SourcesNext]_sourceVars /\ [IntakeNext]_intakeVars
           /\ [BackupsNext]_backupVars /\ [DeskNext]_deskVars
  BY <1>4 DEF catalogVars, catalogRows, scoringVars
<1>5. \/ UNCHANGED vars
      \/ part = "catalog" /\ Catalogs /\ part' = part
      \/ part = "scoring" /\ Scorings /\ part' = part
      \/ /\ part \notin {"catalog", "scoring"} /\ part' = part
         /\ UNCHANGED <<catalogVars, scoringVars>>
         /\ [ThrottlesNext]_throttleVars /\ [SourcesNext]_sourceVars /\ [IntakeNext]_intakeVars
         /\ [BackupsNext]_backupVars /\ [DeskNext]_deskVars
  <2>1. Allowlists => SourcesNext
    BY DEF Allowlists, SourcesNext
  <2> QED
    BY <2>1 DEF Next, Rest
<1> QED
  BY <1>1, <1>2, <1>3, <1>4, <1>5

\* The components that meet no other are each what they are alone.
LEMMA ServicesAlone ==
    Spec => ThrottlesSpec /\ SourcesSpec /\ IntakeSpec /\ BackupsSpec /\ DeskSpec
<1>1. Init => ThrottlesInit /\ SourcesInit /\ IntakeInit /\ BackupsInit /\ DeskInit
  BY DEF Init
<1>2. [Next]_vars => /\ [ThrottlesNext]_throttleVars /\ [SourcesNext]_sourceVars /\ [IntakeNext]_intakeVars
                     /\ [BackupsNext]_backupVars /\ [DeskNext]_deskVars
  BY EachItsOwn
<1> QED
  BY <1>1, <1>2, PTL DEF Spec, ThrottlesSpec, SourcesSpec, IntakeSpec, BackupsSpec, DeskSpec

\* The catalog beside its clicks, which spend of the budget.
LEMMA CatalogAmidClicks ==
    ASSUME CatalogInv, HealthDerived, [Next]_vars
    PROVE  /\ CatalogInv' /\ HealthDerived'
           /\ \A o \in Offer : Undone(o) => Excused(o)
           /\ \A s \in Slot, o \in Offer : TakesOff(s, o) => Earlier(s, o)
<1>1. CASE CatalogNext
  BY <1>1, CatalogNextInv, HealthStep, UndoneExcused, TakenEarlier
<1>2. CASE UNCHANGED catalogRows
  <2>1. offers' = offers /\ health' = health
    BY <1>2 DEF catalogRows
  <2>2. CatalogInv'
    BY <1>2 DEF catalogRows, CatalogInv, Tables, RunsInOrder, OffersSeen, SeenSinceStart, SyncsSound, PullsSound
  <2>3. HealthDerived'
    BY <2>1 DEF HealthDerived
  <2> QED
    BY <2>1, <2>2, <2>3 DEF Undone, TakesOff
<1> QED
  BY <1>1, <1>2, EachItsOwn

\* Clicks that were made before, of which conversions are scored.
ClickMade == [user : Clicker, address : Address \cup {Nowhere},
              offer : Offer \cup {CHOOSE o \in Offer : TRUE}, recent : BOOLEAN]

BesideClicks ==
    /\ ScoringInv
    /\ IF part = "scoring" THEN clicks \in Seq(ClickMade) ELSE ClicksInv

LEMMA BesideClicksInit == Init => BesideClicks
<1> SUFFICES ASSUME Init PROVE BesideClicks
  OBVIOUS
<1>1. part # "scoring" => ClicksInit
  BY DEF Init, ClicksInit
<1>2. ASSUME part = "scoring"
      PROVE  clicks \in Seq(ClickMade)
  <2>1. \A u \in Clicker, a \in Address \cup {Nowhere} : ClickBy(u, a) \in ClickMade
    BY DEF ClickBy, ClickMade
  <2>2. \A x, y \in ClickMade : <<x>> \in Seq(ClickMade) /\ <<x, y>> \in Seq(ClickMade)
    OBVIOUS
  <2>3. \A clicked \in ClickPairs : clicked \in Seq(ClickMade) /\ clicked[1] \in ClickMade
    BY <2>1, <2>2 DEF ClickPairs
  <2>4. \A clicked \in ClickPairs : clicked \o <<clicked[1]>> \in Seq(ClickMade)
    <3>1. \A x \in ClickMade, made \in Seq(ClickMade) : made \o <<x>> \in Seq(ClickMade)
      OBVIOUS
    <3> QED
      BY <2>3, <3>1
  <2>5. clicks \in ClicksMade
    BY <1>2 DEF Init
  <2> QED
    BY <2>1, <2>2, <2>3, <2>4, <2>5 DEF ClicksMade
<1>3. ScoringInv
  BY ScoringInitInv DEF Init
<1> QED
  BY <1>1, <1>2, <1>3, ClicksInitInv DEF BesideClicks

LEMMA BesideClicksStep ==
    ASSUME BesideClicks, [Next]_vars
    PROVE  BesideClicks'
<1>1. CASE part = "scoring"
  <2>1. clicks \in Seq(ClickMade) /\ ScoringInv /\ part' = "scoring"
    BY <1>1, EachItsOwn DEF BesideClicks
  <2>2. CASE ScoringNext
    BY <2>1, <2>2, ScoringNextInv DEF BesideClicks, clickVars
  <2>3. CASE HourPasses /\ UNCHANGED <<recorded, scoring>>
    <3>1. \A click \in ClickMade :
             /\ [click EXCEPT !.recent = FALSE] \in ClickMade
             /\ [click EXCEPT !.recent = FALSE].user = click.user
             /\ [click EXCEPT !.recent = FALSE].address = click.address
             /\ ~[click EXCEPT !.recent = FALSE].recent
      BY DEF ClickMade
    <3>2. ScoringInv' /\ clicks' \in Seq(ClickMade)
      BY <2>1, <2>3, <3>1, HourIsHarmless
    <3> QED
      BY <2>1, <3>2 DEF BesideClicks
  <2>4. CASE UNCHANGED <<clickVars, recorded, scoring>>
    <3>1. clicks' = clicks /\ recorded' = recorded /\ scoring' = scoring /\ recorded' \in Seq(Conversion)
      BY <2>1, <2>4 DEF clickVars, ScoringInv, ScoringTypeOK
    <3>2. ScoringInv'
      BY <2>1, <3>1, PassesNoMore
    <3> QED
      BY <2>1, <3>1, <3>2 DEF BesideClicks
  <2> QED
    BY <1>1, <2>2, <2>3, <2>4, EachItsOwn
<1>2. CASE part # "scoring"
  <2>1. /\ ClicksInv /\ ScoringInv /\ part' # "scoring"
        /\ [ClickingNext]_<<catalogVars, clickVars>> /\ UNCHANGED <<recorded, scoring>>
    BY <1>2, EachItsOwn DEF BesideClicks
  <2>2. [ScoringStep]_<<catalogVars, scoringVars>>
    BY <2>1 DEF ScoringStep, scoringVars, clickVars
  <2>3. ClicksInv' /\ ScoringInv'
    BY <2>1, <2>2, ScoringStepInv
  <2> QED
    BY <2>1, <2>3 DEF BesideClicks
<1> QED
  BY <1>1, <1>2

\* What each service promises holds where they are run side by side, as the
\* instances of Services are: of the catalog beside the clicks on it; of scores
\* beside what is clicked, or of clicks that were made before; and of each of the
\* others, whatever the rest does.  (Clicks made before are as many as they are.)
THEOREM ServicesHold ==
    Spec => /\ []HealthTellsStreak /\ PulledStaysPulled /\ PrunedWasUnseen
            /\ [](part # "scoring" => OvershootIsBounded) /\ []VelocityHolds
            /\ []ThrottlesHold /\ []RangesAgree /\ []IntakeKeepsItsWord
            /\ []ReceiptsTell /\ PagesTellTheTruth
<1>1. Init => CatalogInv /\ HealthDerived
  BY CatalogInitInv, HealthyDerived DEF Init, CatalogInit, HealthDerived
<1>2. CatalogInv /\ HealthDerived /\ [Next]_vars
        => /\ CatalogInv' /\ HealthDerived'
           /\ [\A o \in Offer : Undone(o) => Excused(o)]_catalogVars
           /\ [\A s \in Slot, o \in Offer : TakesOff(s, o) => Earlier(s, o)]_catalogVars
  BY CatalogAmidClicks
<1>3. HealthDerived => HealthTellsStreak
  BY ThresholdsOrdered, CatalogAssumption DEF HealthDerived, HealthTellsStreak, DeriveHealthState
<1>4. BesideClicks => VelocityHolds /\ (part # "scoring" => OvershootIsBounded)
  BY VelocityFollows, CountedFew, ClicksTyped, ClicksAssumption
     DEF BesideClicks, ClicksInv, UserLimited, AddressLimited, OvershootIsBounded
<1>5. BesideClicks /\ [Next]_vars => BesideClicks'
  BY BesideClicksStep
<1>6. Spec => []HealthTellsStreak /\ PulledStaysPulled /\ PrunedWasUnseen
  BY <1>1, <1>2, <1>3, PTL DEF Spec, PulledStaysPulled, PrunedWasUnseen, Undone, Excused, TakesOff, Earlier
<1>7. Spec => []VelocityHolds /\ [](part # "scoring" => OvershootIsBounded)
  BY <1>4, <1>5, BesideClicksInit, PTL DEF Spec
<1> QED
  BY <1>6, <1>7, ServicesAlone, ThrottlesBound, RangesTrue, KeepsItsWord, ReceiptsTrue, PagesAreTrue, PTL
=============================================================================
