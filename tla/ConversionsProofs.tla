-------------------------- MODULE ConversionsProofs --------------------------
(***************************************************************************)
(* For every set of events, workers, administrators and bounds: a postback *)
(* is paid once, a conversion's status and the history of its points       *)
(* agree, and a chargeback is whole, however often jobs run, fail, stall   *)
(* and race one another, reviewers and the sweep.  And every step is one   *)
(* of ConversionLifecycle, or changes neither a status nor where the       *)
(* points of a conversion are.                                             *)
(*                                                                         *)
(* What a handler has read may be stale, but not all of it: what it was    *)
(* granted a lock for still is as it was read, and a row once written      *)
(* keeps its user, its click and its credit.  HandlersSound says which.    *)
(***************************************************************************)
EXTENDS Conversions, RewardLedgerProofs

-----------------------------------------------------------------------------
(* The inductive invariant.                                                *)

Started == [pc : {"attributing", "quarantining", "failing"}, postback : PostbackIds]

Persisting ==
    [pc : {"checking", "locking", "inserting", "updating", "committing", "failing"},
     postback : PostbackIds, status : ConversionStatuses, hold : Holds,
     target : Nat, reverses : Nat]

Reviewing ==
    [pc : {"holding", "moving"}, conversion : Nat, decision : {"CLEAR", "CONFIRM"},
     moves : BOOLEAN]

\* Jobs are left out: they decide when a run happens, never what it may do.
TablesOK ==
    /\ LedgerTypeOK
    /\ opened = Users
    /\ postbacks \in [PostbackIds -> States]
    /\ conversions \in Seq(Conversion)
    /\ workers \in [Workers -> {Idle} \cup Started \cup Persisting]
    /\ reviews \in [Admins -> {Free} \cup Reviewing]
    /\ sweep \in Nat

\* A row acts on an earlier one, so a credit that is being written is untouched.
RowsPointBack == \A i \in RowIds : ledger[i].source < i

\* What a run has planned for its transaction.
Plans(r) ==
    /\ r.status # "REVERSED"
    /\ r.status = "CREDITED" => r.hold = "timed"
    /\ r.pc \in {"checking", "updating"} => r.target # NoConversion
    /\ r.target = NoConversion =>
          /\ r.reverses = NoRow
          /\ r.hold = "timed" => r.status = "CREDITED"
          /\ r.hold = "indefinite" => r.status = "HELD"
    /\ r.target # NoConversion =>
          /\ r.target \in ConversionIds
          /\ conversions[r.target].click = PayloadOf[r.postback].click
          /\ r.hold = "none"
          /\ r.pc # "checking" => r.reverses = conversions[r.target].credit

PlansSound ==
    \A w \in Workers :
        workers[w].pc \in {"checking", "locking", "inserting", "updating", "committing"}
            => Plans(workers[w])

\* A run has inserted its conversion, and nobody else holds the key.
Inserted(w) == workers[w].pc \in {"updating", "committing"}

KeysHeld ==
    \A w \in Workers : Inserted(w) =>
        /\ ~Converted(workers[w].postback)
        /\ \A v \in Workers \ {w} : Inserted(v) => workers[v].postback # workers[w].postback

\* Whoever reviews a conversion is alone with it, and it is held as it was found.
ReviewsSound ==
    \A a \in Admins : reviews[a] # Free =>
        LET c == reviews[a].conversion IN
        /\ c \in ConversionIds
        /\ conversions[c].status = "HELD"
        /\ reviews[a].pc = "moving" => reviews[a].moves = (conversions[c].credit # NoRow)
        /\ \A b \in Admins \ {a} : reviews[b] # Free => reviews[b].conversion # c
        /\ \A w \in Workers : workers[w].pc = "committing" => workers[w].target # c

SweepSound ==
    sweep # NoRow =>
        /\ sweep \in RowIds
        /\ ledger[sweep].type = "CONVERSION_CREDIT"
        /\ ledger[sweep].hold = "timed"

CreditsExist == \A c \in ConversionIds : conversions[c].credit \in {NoRow} \cup RowIds

HandlersSound == PlansSound /\ KeysHeld /\ ReviewsSound /\ SweepSound

IInv ==
    /\ TablesOK
    /\ RowsPointBack
    /\ CreditsExist
    /\ HandlersSound
    /\ PaidOncePerPostback
    /\ CreditFollowsStatus
    /\ ReversalIsWhole
    /\ ProcessedHasConversion

PlanningSteps == {"checking", "locking", "inserting", "updating", "committing"}

-----------------------------------------------------------------------------
(* Initially, and as long as the ledger and the conversions stand still.   *)

LEMMA InitInv == Init => IInv
<1> SUFFICES ASSUME Init PROVE IInv
  OBVIOUS
<1>1. ledger = <<>> /\ conversions = <<>> /\ RowIds = {} /\ ConversionIds = {}
  BY DEF Init, RowIds, ConversionIds
<1>2. LedgerTypeOK
  <2>1. ZeroBalance \in [Columns -> Int32]
    BY BoundsAssumption DEF ZeroBalance, Int32
  <2> QED
    BY <2>1, BoundsAssumption DEF Init, LedgerTypeOK
<1>3. TablesOK
  BY <1>1, <1>2 DEF Init, TablesOK, States, NoRow
<1>4. HandlersSound
  BY DEF Init, HandlersSound, PlansSound, KeysHeld, Inserted, ReviewsSound, SweepSound, Idle, Free
<1>5. CreditRows = {} /\ \A p \in PostbackIds : postbacks[p] # "PROCESSED"
  BY <1>1 DEF CreditRows, Init
<1> QED
  BY <1>1, <1>3, <1>4, <1>5 DEF IInv, RowsPointBack, CreditsExist, PaidOncePerPostback,
     CreditFollowsStatus, ReversalIsWhole, ProcessedHasConversion

\* What is said of rows alone.
Tables ==
    RowsPointBack /\ CreditsExist /\ PaidOncePerPostback /\ CreditFollowsStatus /\ ReversalIsWhole

LEMMA TablesKept ==
    ASSUME IInv, UNCHANGED <<ledger, conversions>>
    PROVE  Tables'
  BY DEF IInv, Tables, RowsPointBack, CreditsExist, PaidOncePerPostback, CreditFollowsStatus,
         CreditStands, ReversalIsWhole, ActedOn, RowIds, ConversionIds, CreditRows

\* No postback is marked processed by a step that converts none.
LEMMA ProcessedKept ==
    ASSUME IInv, conversions' = conversions,
           \A p \in PostbackIds : postbacks'[p] = "PROCESSED" => postbacks[p] = "PROCESSED"
    PROVE  ProcessedHasConversion'
  BY DEF IInv, ProcessedHasConversion, Converted, ConversionIds

-----------------------------------------------------------------------------
(* A run comes to stand at r, and a review at r.                           *)

LEMMA RunMoves ==
    ASSUME IInv, NEW w \in Workers, NEW r \in {Idle} \cup Started \cup Persisting,
           workers' = [workers EXCEPT ![w] = r],
           r.pc \in PlanningSteps => Plans(r),
           r.pc \in {"updating", "committing"} =>
              /\ ~Converted(r.postback)
              /\ \A v \in Workers \ {w} : Inserted(v) => workers[v].postback # r.postback,
           r.pc = "committing" =>
              \A a \in Admins : reviews[a] # Free => reviews[a].conversion # r.target,
           postbacks' \in [PostbackIds -> States],
           \A p \in PostbackIds : postbacks'[p] = "PROCESSED" => postbacks[p] = "PROCESSED",
           UNCHANGED <<ledgerVars, conversions, reviews, sweep>>
    PROVE  IInv'
<1>1. UNCHANGED <<opened, balance, ledger, conversions, reviews, sweep>>
  BY DEF ledgerVars
<1>2. TablesOK'
  BY <1>1 DEF IInv, TablesOK, LedgerTypeOK
<1>3. \A v \in Workers : workers'[v] = IF v = w THEN r ELSE workers[v]
  BY DEF IInv, TablesOK
<1>4. PlansSound'
  BY <1>1, <1>3 DEF IInv, HandlersSound, PlansSound, Plans, PlanningSteps, ConversionIds
<1>5. KeysHeld'
  <2>1. \A p : Converted(p)' = Converted(p)
    BY <1>1 DEF Converted, ConversionIds
  <2> QED
    BY <1>3, <2>1 DEF IInv, HandlersSound, KeysHeld, Inserted
<1>6. ReviewsSound'
  BY <1>1, <1>3 DEF IInv, HandlersSound, ReviewsSound, ConversionIds
<1>7. SweepSound'
  BY <1>1 DEF IInv, HandlersSound, SweepSound, RowIds
<1> QED
  BY <1>1, <1>2, <1>4, <1>5, <1>6, <1>7, TablesKept, ProcessedKept DEF IInv, Tables, HandlersSound

LEMMA ReviewMoves ==
    ASSUME IInv, NEW a \in Admins, NEW r \in {Free} \cup Reviewing,
           reviews' = [reviews EXCEPT ![a] = r],
           r # Free =>
              /\ r.conversion \in ConversionIds
              /\ conversions[r.conversion].status = "HELD"
              /\ r.pc = "moving" => r.moves = (conversions[r.conversion].credit # NoRow)
              /\ \A b \in Admins \ {a} : reviews[b] # Free => reviews[b].conversion # r.conversion
              /\ \A w \in Workers : workers[w].pc = "committing" => workers[w].target # r.conversion,
           UNCHANGED <<ledgerVars, postbacks, workers, conversions, sweep>>
    PROVE  IInv'
<1>1. UNCHANGED <<opened, balance, ledger, postbacks, workers, conversions, sweep>>
  BY DEF ledgerVars
<1>2. TablesOK'
  BY <1>1 DEF IInv, TablesOK, LedgerTypeOK
<1>3. \A b \in Admins : reviews'[b] = IF b = a THEN r ELSE reviews[b]
  BY DEF IInv, TablesOK
<1>4. PlansSound' /\ KeysHeld'
  BY <1>1 DEF IInv, HandlersSound, PlansSound, Plans, KeysHeld, Inserted, Converted, ConversionIds
<1>5. ReviewsSound'
  BY <1>1, <1>3 DEF IInv, HandlersSound, ReviewsSound, ConversionIds
<1>6. SweepSound'
  BY <1>1 DEF IInv, HandlersSound, SweepSound, RowIds
<1> QED
  BY <1>1, <1>2, <1>4, <1>5, <1>6, TablesKept, ProcessedKept DEF IInv, Tables, HandlersSound

-----------------------------------------------------------------------------
(* The steps of a run that write no table but the postback's.              *)

\* An attribution comes to no status that points or a reversal leave.
LEMMA OutcomeTypes ==
    ASSUME NEW p \in PostbackIds, NEW status \in Outcomes(PayloadOf[p])
    PROVE  status \in ConversionStatuses \ {"CREDITED", "REVERSED"}
  BY DEF Outcomes, ResolveStatus, ConversionStatuses

\* What attribution plans for an event that earns.
LEMMA PlanTypes ==
    ASSUME NEW p \in PostbackIds, NEW status \in Outcomes(PayloadOf[p])
    PROVE  LET hold == PlanCredit(status, PayloadOf[p].points, FALSE)
               stored == StoredStatus(status, hold)
           IN  /\ hold \in Holds
               /\ stored \in ConversionStatuses \ {"REVERSED"}
               /\ stored = "CREDITED" => hold = "timed"
               /\ hold = "timed" => stored = "CREDITED"
               /\ hold = "indefinite" => stored = "HELD"
<1>1. status \in ConversionStatuses \ {"CREDITED", "REVERSED"}
  BY OutcomeTypes
<1> QED
  BY <1>1 DEF PlanCredit, StoredStatus, Holds, ConversionStatuses

\* Whoever runs has a postback.
LEMMA RunTypes ==
    ASSUME IInv, NEW w \in Workers, workers[w].pc # "idle"
    PROVE  /\ workers[w] \in Started \cup Persisting
           /\ workers[w].postback \in PostbackIds
           /\ PayloadOf[workers[w].postback].user \in Users
           /\ PayloadOf[workers[w].postback].click \in Nat
           /\ PayloadOf[workers[w].postback].points \in Nat
           /\ workers[w].pc \in PlanningSteps => workers[w] \in Persisting /\ Plans(workers[w])
<1>1. workers[w] \in Started \cup Persisting
  BY DEF IInv, TablesOK, Idle
<1>2. workers[w].postback \in PostbackIds
  BY <1>1 DEF Started, Persisting
<1>3. workers[w].pc \in PlanningSteps => workers[w] \in Persisting /\ Plans(workers[w])
  BY <1>1 DEF IInv, HandlersSound, PlansSound, PlanningSteps, Started
<1> QED
  BY <1>1, <1>2, <1>3, ConversionsAssumption

LEMMA TakeInv ==
    ASSUME IInv, NEW w \in Workers, NEW p \in PostbackIds, Take(w, p)
    PROVE  IInv'
<1> DEFINE r == [pc |-> "attributing", postback |-> p]
<1>1. postbacks' \in [PostbackIds -> States] /\ UNCHANGED <<ledgerVars, postbacks, conversions, reviews, sweep>>
  BY DEF Take, IInv, TablesOK
<1>2. CASE postbacks[p] = "RECEIVED"
  <2>1. r \in Started
    BY DEF Started
  <2> QED
    BY <1>1, <1>2, <2>1, RunMoves DEF Take, PlanningSteps
<1>3. CASE postbacks[p] # "RECEIVED"
  <2>1. workers' = [workers EXCEPT ![w] = Idle]
    BY <1>3 DEF Take, IInv, TablesOK
  <2> QED
    BY <1>1, <2>1, RunMoves DEF PlanningSteps, Idle
<1> QED
  BY <1>2, <1>3

LEMMA AttributeConversionInv ==
    ASSUME IInv, NEW w \in Workers, AttributeConversion(w)
    PROVE  IInv'
<1> DEFINE p == workers[w].postback
<1>1. p \in PostbackIds /\ PayloadOf[p].points \in Nat
  BY RunTypes DEF AttributeConversion
<1>2. PICK status \in Outcomes(PayloadOf[p]) :
        LET hold == PlanCredit(status, PayloadOf[p].points, FALSE) IN
        Persist(w, IF hold = "none" THEN "inserting" ELSE "locking",
                StoredStatus(status, hold), hold, NoConversion, NoRow)
  BY DEF AttributeConversion
<1> DEFINE hold == PlanCredit(status, PayloadOf[p].points, FALSE)
           r == [pc |-> IF hold = "none" THEN "inserting" ELSE "locking", postback |-> p,
                 status |-> StoredStatus(status, hold), hold |-> hold,
                 target |-> NoConversion, reverses |-> NoRow]
<1>3. /\ hold \in Holds
      /\ StoredStatus(status, hold) \in ConversionStatuses \ {"REVERSED"}
      /\ hold = "timed" => StoredStatus(status, hold) = "CREDITED"
      /\ StoredStatus(status, hold) = "CREDITED" => hold = "timed"
      /\ hold = "indefinite" => StoredStatus(status, hold) = "HELD"
  BY <1>1, PlanTypes
<1>4. r \in Persisting /\ Plans(r)
  <2>1. PICK s \in ConversionStatuses \ {"REVERSED"} : s = StoredStatus(status, hold)
    BY <1>3
  <2> HIDE DEF hold
  <2>2. r \in Persisting
    BY <1>1, <1>3, <2>1 DEF Persisting, NoConversion, NoRow
  <2>3. r.status = s /\ r.hold = hold /\ r.target = NoConversion /\ r.reverses = NoRow
        /\ r.pc \in {"inserting", "locking"}
    BY <2>1
  <2> QED
    BY <1>3, <2>1, <2>2, <2>3 DEF Plans
<1>5. r.pc \notin {"updating", "committing"}
  OBVIOUS
<1>6. workers' = [workers EXCEPT ![w] = r] /\ UNCHANGED <<ledgerVars, postbacks, conversions, reviews, sweep>>
  BY <1>2 DEF Persist
<1> QED
  BY <1>4, <1>5, <1>6, RunMoves DEF IInv, TablesOK

LEMMA AttributeReversalInv ==
    ASSUME IInv, NEW w \in Workers, AttributeReversal(w)
    PROVE  IInv'
<1> DEFINE p == workers[w].postback
<1>1. p \in PostbackIds
  BY RunTypes DEF AttributeReversal
<1>2. PICK c \in ReversalCandidates(PayloadOf[p]), status \in Outcomes(PayloadOf[p]) :
        Persist(w, "checking", status, "none", c, NoRow)
  BY DEF AttributeReversal
<1> DEFINE r == [pc |-> "checking", postback |-> p, status |-> status, hold |-> "none",
                 target |-> c, reverses |-> NoRow]
<1>3. c \in ConversionIds /\ c \in Nat \ {0} /\ conversions[c].click = PayloadOf[p].click
  BY DEF ReversalCandidates, ConversionIds, IInv, TablesOK
<1>4. r \in Persisting /\ Plans(r)
  BY <1>1, <1>3, OutcomeTypes DEF Persisting, Plans, NoConversion, NoRow, Holds
<1>5. workers' = [workers EXCEPT ![w] = r] /\ UNCHANGED <<ledgerVars, postbacks, conversions, reviews, sweep>>
  BY <1>2 DEF Persist
<1> QED
  BY <1>4, <1>5, RunMoves DEF IInv, TablesOK

LEMMA CheckReversalInv ==
    ASSUME IInv, NEW w \in Workers, CheckReversal(w)
    PROVE  IInv'
<1> DEFINE old == workers[w]
           credit == conversions[old.target].credit
           r == [pc |-> IF credit = NoRow THEN "inserting" ELSE "locking", postback |-> old.postback,
                 status |-> old.status, hold |-> "none", target |-> old.target, reverses |-> credit]
<1>1. old \in Persisting /\ Plans(old)
  BY RunTypes DEF CheckReversal, PlanningSteps
<1>2. old.target # NoConversion
  BY <1>1 DEF CheckReversal, Plans
<1>3. credit \in Nat
  BY <1>1, <1>2 DEF Plans, IInv, CreditsExist, RowIds, NoRow, TablesOK, LedgerTypeOK
<1>4. r \in Persisting /\ Plans(r)
  BY <1>1, <1>2, <1>3 DEF Persisting, Plans, Holds
<1>5. workers' = [workers EXCEPT ![w] = r] /\ UNCHANGED <<ledgerVars, postbacks, conversions, reviews, sweep>>
  BY DEF CheckReversal, Persist
<1> QED
  BY <1>4, <1>5, RunMoves DEF IInv, TablesOK

LEMMA UnattributableInv ==
    ASSUME IInv, NEW w \in Workers, Unattributable(w)
    PROVE  IInv'
<1> DEFINE r == [workers[w] EXCEPT !.pc = "quarantining"]
<1>1. r \in Started
  BY RunTypes DEF Unattributable, Started, Persisting
<1>2. workers' = [workers EXCEPT ![w] = r] /\ UNCHANGED <<ledgerVars, postbacks, conversions, reviews, sweep>>
  BY DEF Unattributable
<1>3. r.pc = "quarantining"
  BY <1>1, RunTypes DEF Unattributable, Started, Persisting
<1> QED
  BY <1>1, <1>2, <1>3, RunMoves DEF IInv, TablesOK, PlanningSteps

\* A run that ends without a transaction.
LEMMA RunEnds ==
    ASSUME IInv, NEW w \in Workers, workers' = [workers EXCEPT ![w] = Idle],
           postbacks' \in [PostbackIds -> States],
           \A p \in PostbackIds : postbacks'[p] = "PROCESSED" => postbacks[p] = "PROCESSED",
           UNCHANGED <<ledgerVars, conversions, reviews, sweep>>
    PROVE  IInv'
<1>1. Idle.pc = "idle"
  BY DEF Idle
<1> QED
  BY <1>1, RunMoves DEF PlanningSteps

LEMMA QuarantineInv ==
    ASSUME IInv, NEW w \in Workers, Quarantine(w)
    PROVE  IInv'
<1>1. /\ postbacks' \in [PostbackIds -> States]
      /\ \A p \in PostbackIds : postbacks'[p] = "PROCESSED" => postbacks[p] = "PROCESSED"
  BY DEF Quarantine, Mark, IInv, TablesOK, States
<1> QED
  BY <1>1, RunEnds DEF Quarantine

LEMMA LockBalanceInv ==
    ASSUME IInv, NEW w \in Workers, LockBalance(w)
    PROVE  IInv'
<1> DEFINE r == [workers[w] EXCEPT !.pc = "inserting"]
<1>1. workers[w] \in Persisting /\ Plans(workers[w]) /\ workers[w].pc = "locking"
  BY RunTypes DEF LockBalance, PlanningSteps
<1>2. r \in Persisting /\ r.pc = "inserting" /\ Plans(r)
  BY <1>1 DEF Persisting, Plans
<1>3. workers' = [workers EXCEPT ![w] = r] /\ UNCHANGED <<ledgerVars, postbacks, conversions, reviews, sweep>>
  BY DEF LockBalance
<1> QED
  BY <1>2, <1>3, RunMoves DEF IInv, TablesOK

LEMMA InsertInv ==
    ASSUME IInv, NEW w \in Workers, Insert(w)
    PROVE  IInv'
<1> DEFINE pc == IF workers[w].target = NoConversion THEN "committing" ELSE "updating"
           r == [workers[w] EXCEPT !.pc = pc]
<1>1. workers[w] \in Persisting /\ Plans(workers[w]) /\ workers[w].pc = "inserting"
  BY RunTypes DEF Insert, PlanningSteps
<1>2. CASE Converted(workers[w].postback)
  BY <1>2, RunEnds DEF Insert, IInv, TablesOK
<1>3. CASE ~Converted(workers[w].postback)
  <2>1. r \in Persisting /\ r.pc = pc /\ Plans(r) /\ r.postback = workers[w].postback /\ r.target = workers[w].target
    BY <1>1 DEF Persisting, Plans
  <2>2. \A v \in Workers \ {w} : Inserted(v) => workers[v].postback # r.postback
    BY <2>1 DEF Insert, KeyFree, Inserted
  <2>3. r.pc = "committing" => \A a \in Admins : reviews[a] # Free => reviews[a].conversion # r.target
    BY <2>1 DEF IInv, HandlersSound, ReviewsSound, ConversionIds, NoConversion
  <2>4. workers' = [workers EXCEPT ![w] = r] /\ UNCHANGED <<ledgerVars, postbacks, conversions, reviews, sweep>>
    BY <1>3 DEF Insert
  <2> QED
    BY <1>3, <2>1, <2>2, <2>3, <2>4, RunMoves DEF IInv, TablesOK
<1> QED
  BY <1>2, <1>3

LEMMA UpdateOriginalInv ==
    ASSUME IInv, NEW w \in Workers, UpdateOriginal(w)
    PROVE  IInv'
<1> DEFINE r == [workers[w] EXCEPT !.pc = "committing"]
<1>1. workers[w] \in Persisting /\ Plans(workers[w]) /\ workers[w].pc = "updating"
  BY RunTypes DEF UpdateOriginal, PlanningSteps
<1>2. /\ r \in Persisting /\ r.pc = "committing" /\ Plans(r)
      /\ r.postback = workers[w].postback /\ r.target = workers[w].target
  BY <1>1 DEF Persisting, Plans
<1>3. /\ ~Converted(r.postback)
      /\ \A v \in Workers \ {w} : Inserted(v) => workers[v].postback # r.postback
  BY <1>1, <1>2 DEF IInv, HandlersSound, KeysHeld, Inserted
<1>4. \A a \in Admins : reviews[a] # Free => reviews[a].conversion # r.target
  BY <1>2 DEF UpdateOriginal, ConversionFree
<1>5. workers' = [workers EXCEPT ![w] = r] /\ UNCHANGED <<ledgerVars, postbacks, conversions, reviews, sweep>>
  BY DEF UpdateOriginal
<1> QED
  BY <1>2, <1>3, <1>4, <1>5, RunMoves DEF IInv, TablesOK

LEMMA BreakInv ==
    ASSUME IInv, NEW w \in Workers, Break(w)
    PROVE  IInv'
<1> DEFINE r == [workers[w] EXCEPT !.pc = "failing"]
<1>1. workers[w].pc # "idle"
  BY DEF Break, Refused, Deadlocked
<1>2. r \in Started \cup Persisting /\ r.pc = "failing"
  BY <1>1, RunTypes DEF Started, Persisting
<1>3. workers' = [workers EXCEPT ![w] = r] /\ UNCHANGED <<ledgerVars, postbacks, conversions, reviews, sweep>>
  BY DEF Break
<1> QED
  BY <1>2, <1>3, RunMoves DEF IInv, TablesOK, PlanningSteps

LEMMA GiveUpInv ==
    ASSUME IInv, NEW w \in Workers, GiveUp(w)
    PROVE  IInv'
<1>1. /\ postbacks' \in [PostbackIds -> States]
      /\ \A p \in PostbackIds : postbacks'[p] = "PROCESSED" => postbacks[p] = "PROCESSED"
  BY DEF GiveUp, Mark, IInv, TablesOK, States
<1> QED
  BY <1>1, RunEnds DEF GiveUp

LEMMA CrashInv ==
    ASSUME IInv, NEW w \in Workers, Crash(w)
    PROVE  IInv'
  BY RunEnds DEF Crash, IInv, TablesOK

-----------------------------------------------------------------------------
(* The intake, the queue, and the steps of reviews and sweeps that write   *)
(* nothing.                                                                *)

LEMMA ArchiveInv ==
    ASSUME IInv, NEW p \in PostbackIds, Archive(p)
    PROVE  IInv'
<1>1. UNCHANGED <<ledgerVars, opened, balance, ledger, workers, conversions, reviews, sweep>>
  BY DEF Archive, ledgerVars
<1>2. /\ postbacks' \in [PostbackIds -> States]
      /\ \A q \in PostbackIds : postbacks'[q] = "PROCESSED" => postbacks[q] = "PROCESSED"
  BY DEF Archive, IInv, TablesOK, States
<1>3. TablesOK'
  BY <1>1, <1>2 DEF IInv, TablesOK, LedgerTypeOK
<1>4. HandlersSound'
  BY <1>1 DEF IInv, HandlersSound, PlansSound, Plans, KeysHeld, Inserted, Converted, ReviewsSound,
     SweepSound, ConversionIds, RowIds
<1> QED
  BY <1>1, <1>2, <1>3, <1>4, TablesKept, ProcessedKept DEF IInv, Tables

LEMMA StandingStill ==
    ASSUME IInv, UNCHANGED <<ledgerVars, postbacks, workers, conversions, reviews>>,
           sweep' \in Nat, SweepSound'
    PROVE  IInv'
<1>1. UNCHANGED <<opened, balance, ledger>>
  BY DEF ledgerVars
<1>2. TablesOK'
  BY <1>1 DEF IInv, TablesOK, LedgerTypeOK
<1>3. PlansSound' /\ KeysHeld' /\ ReviewsSound'
  BY DEF IInv, HandlersSound, PlansSound, Plans, KeysHeld, Inserted, Converted, ReviewsSound,
     ConversionIds
<1> QED
  BY <1>1, <1>2, <1>3, TablesKept, ProcessedKept DEF IInv, Tables, HandlersSound

\* Steps of the queue, and the ones that leave everything as it is.
LEMMA QueueInv ==
    ASSUME IInv, UNCHANGED <<ledgerVars, postbacks, workers, conversions, reviews, sweep>>
    PROVE  IInv'
<1>1. UNCHANGED <<ledger, sweep>>
  BY DEF ledgerVars
<1>2. SweepSound' /\ sweep' \in Nat
  BY <1>1 DEF IInv, TablesOK, HandlersSound, SweepSound, RowIds
<1> QED
  BY <1>2, StandingStill

LEMMA SweepCheckInv ==
    ASSUME IInv, NEW i \in RowIds, SweepCheck(i)
    PROVE  IInv'
<1>1. UNCHANGED ledger
  BY DEF SweepCheck, ledgerVars
<1>2. SweepSound' /\ sweep' \in Nat
  BY <1>1, RowIdIsPosition DEF SweepCheck, CanMature, SweepSound, RowIds, IInv, TablesOK
<1> QED
  BY <1>2, StandingStill DEF SweepCheck

LEMMA SweepFailsInv ==
    ASSUME IInv, SweepFails
    PROVE  IInv'
<1>1. SweepSound' /\ sweep' \in Nat
  BY DEF SweepFails, SweepSound, NoRow
<1> QED
  BY <1>1, StandingStill DEF SweepFails

LEMMA LockHoldInv ==
    ASSUME IInv, NEW a \in Admins, NEW c \in ConversionIds, NEW decision \in {"CLEAR", "CONFIRM"},
           LockHold(a, c, decision)
    PROVE  IInv'
<1> DEFINE r == [pc |-> "holding", conversion |-> c, decision |-> decision, moves |-> FALSE]
<1>1. r \in Reviewing
  BY DEF Reviewing, ConversionIds, IInv, TablesOK
<1>2. \A b \in Admins \ {a} : reviews[b] # Free => reviews[b].conversion # c
  BY DEF LockHold, ConversionFree
<1>3. \A w \in Workers : workers[w].pc = "committing" => workers[w].target # c
  BY DEF LockHold, ConversionFree
<1> QED
  BY <1>1, <1>2, <1>3, ReviewMoves DEF LockHold

\* Whoever reviews, reviews a conversion that is held; the points of its
\* credit, if it has one, neither matured nor left.
LEMMA ReviewTypes ==
    ASSUME IInv, NEW a \in Admins, reviews[a] # Free
    PROVE  /\ reviews[a] \in Reviewing
           /\ reviews[a].conversion \in ConversionIds
           /\ conversions[reviews[a].conversion] \in Conversion
           /\ conversions[reviews[a].conversion].status = "HELD"
           /\ LET credit == conversions[reviews[a].conversion].credit IN
              credit # NoRow => /\ credit \in RowIds
                                /\ ledger[credit].type = "CONVERSION_CREDIT"
                                /\ ledger[credit].hold = "indefinite"
                                /\ ~ActedOn(credit, {"REWARD_MATURATION", "CHARGEBACK_DEBIT"})
<1>1. reviews[a] \in Reviewing
  BY DEF IInv, TablesOK
<1>2. /\ reviews[a].conversion \in ConversionIds
      /\ conversions[reviews[a].conversion].status = "HELD"
  BY DEF IInv, HandlersSound, ReviewsSound
<1>3. conversions[reviews[a].conversion] \in Conversion
  BY <1>2 DEF IInv, TablesOK, ConversionIds
<1> QED
  BY <1>1, <1>2, <1>3 DEF IInv, CreditsExist, CreditFollowsStatus, CreditStands

LEMMA CheckHoldInv ==
    ASSUME IInv, NEW a \in Admins, CheckHold(a)
    PROVE  IInv'
<1> DEFINE c == reviews[a].conversion
           credit == conversions[c].credit
           moves == credit # NoRow /\ (reviews[a].decision = "CLEAR" => CanMature(credit))
           r == [reviews[a] EXCEPT !.pc = "moving", !.moves = moves]
<1>1. reviews[a] # Free /\ reviews[a] \in Reviewing
  BY ReviewTypes DEF CheckHold, Free
<1>2. moves = (credit # NoRow)
  BY <1>1, ReviewTypes DEF CanMature
<1>3. r \in Reviewing /\ r.conversion = c /\ r.moves = (conversions[r.conversion].credit # NoRow)
  BY <1>1, <1>2 DEF Reviewing
<1>4. /\ c \in ConversionIds
      /\ conversions[c].status = "HELD"
      /\ \A b \in Admins \ {a} : reviews[b] # Free => reviews[b].conversion # c
      /\ \A w \in Workers : workers[w].pc = "committing" => workers[w].target # c
  BY <1>1 DEF IInv, HandlersSound, ReviewsSound
<1>5. reviews' = [reviews EXCEPT ![a] = r] /\ UNCHANGED <<ledgerVars, postbacks, workers, conversions, sweep>>
  BY DEF CheckHold
<1> HIDE DEF r
<1> QED
  BY <1>3, <1>4, <1>5, ReviewMoves

LEMMA RollbackHoldInv ==
    ASSUME IInv, NEW a \in Admins, RollbackHold(a)
    PROVE  IInv'
  BY ReviewMoves DEF RollbackHold

-----------------------------------------------------------------------------
(* What a write does to what is said of the history.                       *)

LEMMA ActedOnWrite ==
    ASSUME LedgerTypeOK, NEW row \in Row, Write(row), NEW i \in Nat, NEW types
    PROVE  /\ ActedOn(i, types) => ActedOn(i, types)'
           /\ row.source # i \/ row.type \notin types => ActedOn(i, types)' = ActedOn(i, types)
           /\ row.source = i /\ row.type \in types => ActedOn(i, types)'
<1>1. ActedOn(i, types) => ActedOn(i, types)'
  BY WriteLedger DEF ActedOn
<1>2. ASSUME row.source # i \/ row.type \notin types, ActedOn(i, types)' PROVE ActedOn(i, types)
  BY <1>2, WriteLedger DEF ActedOn
<1>3. row.source = i /\ row.type \in types => ActedOn(i, types)'
  BY WriteLedger DEF ActedOn
<1> QED
  BY <1>1, <1>2, <1>3 DEF ActedOn

LEMMA StandsKept ==
    ASSUME LedgerTypeOK, NEW row \in Row, Write(row), NEW i \in RowIds, NEW s,
           CreditStands(i, s),
           row.source # i \/ (row.type = "REWARD_MATURATION" /\ s # "HELD")
    PROVE  CreditStands(i, s)'
<1>1. i \in Nat /\ ledger'[i] = ledger[i]
  BY WriteLedger DEF RowIds
<1>2. /\ ActedOn(i, {"REWARD_MATURATION"}) => ActedOn(i, {"REWARD_MATURATION"})'
      /\ ActedOn(i, {"CHARGEBACK_DEBIT"})' = ActedOn(i, {"CHARGEBACK_DEBIT"})
      /\ s = "HELD" => ActedOn(i, {"REWARD_MATURATION", "CHARGEBACK_DEBIT"})'
                         = ActedOn(i, {"REWARD_MATURATION", "CHARGEBACK_DEBIT"})
  BY <1>1, ActedOnWrite
<1> QED
  BY <1>1, <1>2 DEF CreditStands

\* A credit is of one conversion.
LEMMA CreditUnique ==
    ASSUME IInv, NEW c \in ConversionIds, NEW d \in ConversionIds,
           conversions[c].credit # NoRow, conversions[c].credit = conversions[d].credit
    PROVE  c = d
<1>1. conversions[c].credit \in CreditRows
  BY DEF IInv, CreditsExist, CreditFollowsStatus, CreditRows
<1> QED
  BY <1>1 DEF IInv, PaidOncePerPostback

LEMMA PointBackKept ==
    ASSUME LedgerTypeOK, RowsPointBack, NEW row \in Row, Write(row),
           row.source \in RowIds \/ row.source = NoRow
    PROVE  RowsPointBack'
<1>1. row.source < Len(ledger')
  BY WriteLedger DEF RowIds, NoRow
<1> QED
  BY <1>1, WriteLedger DEF RowsPointBack

\* What a conversion's row says of its credit, and its types.
LEMMA ConversionTypes ==
    ASSUME IInv, NEW c \in ConversionIds
    PROVE  /\ conversions[c] \in Conversion
           /\ conversions[c].credit # NoRow =>
                 /\ conversions[c].credit \in RowIds /\ conversions[c].credit \in Nat
                 /\ ledger[conversions[c].credit].type = "CONVERSION_CREDIT"
                 /\ ledger[conversions[c].credit].user = conversions[c].user
                 /\ CreditStands(conversions[c].credit, conversions[c].status)
  BY DEF IInv, TablesOK, ConversionIds, CreditsExist, CreditFollowsStatus, RowIds

\* What a chargeback has taken back stays taken back.
TakenBack(c) ==
    /\ conversions[c].status = "REVERSED"
    /\ conversions[c].credit # NoRow => ActedOn(conversions[c].credit, {"CHARGEBACK_DEBIT"})

LEMMA TakenBackKept ==
    ASSUME IInv, NEW row \in Row, Write(row) \/ UNCHANGED ledger, NEW c \in ConversionIds,
           conversions'[c].credit = conversions[c].credit,
           conversions'[c].status = "REVERSED",
           TakenBack(c)
    PROVE  TakenBack(c)'
<1>1. CASE conversions[c].credit = NoRow
  BY <1>1 DEF TakenBack
<1>2. CASE conversions[c].credit # NoRow
  <2>1. PICK k \in Nat : k = conversions[c].credit
    BY <1>2, ConversionTypes
  <2>2. ActedOn(k, {"CHARGEBACK_DEBIT"})
    BY <1>2, <2>1 DEF TakenBack
  <2>3. ActedOn(k, {"CHARGEBACK_DEBIT"})'
    BY <2>2, ActedOnWrite DEF IInv, TablesOK, ActedOn, RowIds
  <2> QED
    BY <2>1, <2>3 DEF TakenBack, ActedOn
<1> QED
  BY <1>1, <1>2

LEMMA SweepKept ==
    ASSUME IInv, NEW row \in Row, Write(row), sweep' = sweep
    PROVE  SweepSound'
  BY WriteLedger DEF IInv, TablesOK, HandlersSound, SweepSound

\* A write that is no credit leaves the credits as they are.
LEMMA CreditRowsKept ==
    ASSUME LedgerTypeOK, NEW row \in Row, Write(row), row.type # "CONVERSION_CREDIT"
    PROVE  CreditRows' = CreditRows
<1>1. \A j \in RowIds' : j \in CreditRows' <=> j \in CreditRows
  BY WriteLedger DEF CreditRows
<1> QED
  BY <1>1, WriteLedger DEF CreditRows

-----------------------------------------------------------------------------
(* The sweep.                                                              *)

LEMMA SweepMatureInv ==
    ASSUME IInv, SweepMature
    PROVE  IInv'
<1>1. PICK i \in RowIds : i = sweep /\ ledger[i].type = "CONVERSION_CREDIT" /\ ledger[i].hold = "timed"
  BY DEF SweepMature, IInv, HandlersSound, SweepSound
<1>2. PICK row \in Row : row = MaturationRow(i)
  BY MaturationRowType DEF IInv, TablesOK
<1>3. Write(row) /\ row.type = "REWARD_MATURATION" /\ row.source = i
  BY <1>1, <1>2 DEF SweepMature, MaturationRow
<1>4. UNCHANGED <<postbacks, workers, conversions, reviews>> /\ sweep' = NoRow
  BY DEF SweepMature
<1>5. LedgerTypeOK /\ LedgerTypeOK' /\ RowsPointBack'
  BY <1>3, WriteType, PointBackKept DEF IInv, TablesOK
<1>6. TablesOK'
  BY <1>3, <1>4, <1>5 DEF IInv, TablesOK, Write, NoRow
<1>7. HandlersSound'
  BY <1>4 DEF IInv, HandlersSound, PlansSound, Plans, KeysHeld, Inserted, Converted, ReviewsSound,
     SweepSound, ConversionIds
<1>8. CreditsExist'
  BY <1>3, <1>4, <1>5, WriteLedger DEF IInv, CreditsExist, ConversionIds
<1>9. PaidOncePerPostback'
  BY <1>3, <1>4, <1>5, CreditRowsKept DEF IInv, PaidOncePerPostback, ConversionIds
<1>10. CreditFollowsStatus'
  <2> SUFFICES ASSUME NEW c \in ConversionIds, conversions[c].credit # NoRow
               PROVE  /\ ledger'[conversions[c].credit].type = "CONVERSION_CREDIT"
                      /\ ledger'[conversions[c].credit].user = conversions[c].user
                      /\ CreditStands(conversions[c].credit, conversions[c].status)'
    BY <1>4 DEF CreditFollowsStatus, ConversionIds
  <2>1. PICK k \in RowIds, s \in ConversionStatuses :
           k = conversions[c].credit /\ s = conversions[c].status
    BY ConversionTypes DEF Conversion
  <2>2. CreditStands(k, s)
    BY <2>1, ConversionTypes
  <2>3. s = "HELD" => k # i
    BY <1>1, <2>2 DEF CreditStands
  <2>4. CreditStands(k, s)'
    BY <1>3, <1>5, <2>2, <2>3, StandsKept
  <2>5. ledger'[k] = ledger[k]
    BY <1>3, <1>5, WriteLedger
  <2> QED
    BY <1>4, <2>1, <2>4, <2>5, ConversionTypes DEF CreditStands, ActedOn
<1>11. ReversalIsWhole'
  <2>1. \A c \in ConversionIds : TakenBack(c) => TakenBack(c)'
    BY <1>3, <1>4, TakenBackKept DEF TakenBack
  <2> QED
    BY <1>4, <2>1 DEF IInv, ReversalIsWhole, ConversionIds, TakenBack
<1>12. ProcessedHasConversion'
  BY <1>4, ProcessedKept
<1> QED
  BY <1>5, <1>6, <1>7, <1>8, <1>9, <1>10, <1>11, <1>12 DEF IInv

-----------------------------------------------------------------------------
(* A review commits.                                                       *)

\* An update of the status keeps the rest of a conversion's row.
SameBut(new, old) ==
    /\ new.postback = old.postback /\ new.user = old.user /\ new.click = old.click
    /\ new.isReversal = old.isReversal /\ new.reversalOf = old.reversalOf
    /\ new.credit = old.credit

LEMMA StatusSet ==
    ASSUME NEW row \in Conversion, NEW s \in ConversionStatuses
    PROVE  /\ [row EXCEPT !.status = s] \in Conversion
           /\ [row EXCEPT !.status = s].status = s
           /\ SameBut([row EXCEPT !.status = s], row)
  BY DEF Conversion, SameBut

\* What a review that commits does: the status it decides, and the row that moves
\* the points it withheld, if it withheld any.
Resolved(a, c, k, s, row) ==
    /\ c = reviews[a].conversion /\ k = conversions[c].credit
    /\ s = IF reviews[a].decision = "CLEAR" THEN "CREDITED" ELSE "REJECTED"
    /\ reviews[a] # Free /\ reviews[a] \in Reviewing
    /\ conversions[c].status = "HELD"
    /\ reviews[a].moves = (k # NoRow)
    /\ k # NoRow => /\ k \in RowIds
                    /\ ledger[k].type = "CONVERSION_CREDIT"
                    /\ ledger[k].hold = "indefinite"
                    /\ ~ActedOn(k, {"REWARD_MATURATION", "CHARGEBACK_DEBIT"})
    /\ conversions' = [conversions EXCEPT ![c].status = s]
    /\ reviews' = [reviews EXCEPT ![a] = Free]
    /\ UNCHANGED <<opened, postbacks, workers, sweep>>
    /\ ConversionIds' = ConversionIds
    /\ conversions' \in Seq(Conversion)
    /\ conversions'[c].status = s
    /\ \A d \in ConversionIds : d # c => conversions'[d].status = conversions[d].status
    /\ \A d \in ConversionIds : SameBut(conversions'[d], conversions[d])
    /\ k # NoRow => Write(row)
    /\ k = NoRow => UNCHANGED <<balance, ledger>>
    /\ row.source = k
    /\ row.type = IF s = "CREDITED" THEN "REWARD_MATURATION" ELSE "CHARGEBACK_DEBIT"

LEMMA ResolveHoldDoes ==
    ASSUME IInv, NEW a \in Admins, ResolveHold(a)
    PROVE  \E c \in ConversionIds, k \in Nat, s \in {"CREDITED", "REJECTED"}, row \in Row :
              Resolved(a, c, k, s, row)
<1> DEFINE clear == reviews[a].decision = "CLEAR"
<1>1. PICK c \in ConversionIds : c = reviews[a].conversion
  BY ReviewTypes DEF ResolveHold, Free
<1>2. PICK k \in Nat : k = conversions[c].credit
  BY ConversionTypes DEF Conversion
<1>3. PICK s \in {"CREDITED", "REJECTED"} : s = IF clear THEN "CREDITED" ELSE "REJECTED"
  OBVIOUS
<1>4. /\ reviews[a] # Free /\ reviews[a] \in Reviewing
      /\ conversions[c].status = "HELD"
      /\ reviews[a].moves = (k # NoRow)
      /\ k # NoRow => /\ k \in RowIds
                      /\ ledger[k].type = "CONVERSION_CREDIT"
                      /\ ledger[k].hold = "indefinite"
                      /\ ~ActedOn(k, {"REWARD_MATURATION", "CHARGEBACK_DEBIT"})
  <2>1. reviews[a] # Free /\ reviews[a].pc = "moving"
    BY DEF ResolveHold, Free
  <2> QED
    BY <1>1, <1>2, <2>1, ReviewTypes DEF IInv, HandlersSound, ReviewsSound
<1>5. /\ conversions' = [conversions EXCEPT ![c].status = s]
      /\ reviews' = [reviews EXCEPT ![a] = Free]
      /\ UNCHANGED <<opened, postbacks, workers, sweep>>
  BY <1>1, <1>3 DEF ResolveHold, Write, ledgerVars
<1>6. /\ ConversionIds' = ConversionIds
      /\ conversions' \in Seq(Conversion)
      /\ conversions'[c].status = s
      /\ \A d \in ConversionIds : d # c => conversions'[d].status = conversions[d].status
      /\ \A d \in ConversionIds : SameBut(conversions'[d], conversions[d])
  <2>1. PICK new : new = [conversions[c] EXCEPT !.status = s]
    OBVIOUS
  <2>2. new \in Conversion /\ new.status = s /\ SameBut(new, conversions[c])
    <3>1. s \in ConversionStatuses /\ conversions[c] \in Conversion
      BY ConversionTypes DEF ConversionStatuses
    <3> QED
      BY <2>1, <3>1, StatusSet
  <2>3. conversions' = [conversions EXCEPT ![c] = new] /\ conversions \in Seq(Conversion)
    BY <1>5, <2>1 DEF IInv, TablesOK
  <2>4. \A d \in ConversionIds : SameBut(conversions[d], conversions[d])
    BY DEF SameBut
  <2> QED
    BY <2>2, <2>3, <2>4 DEF ConversionIds
<1>7. PICK row \in Row :
         /\ k # NoRow => Write(row)
         /\ k = NoRow => UNCHANGED <<balance, ledger>>
         /\ row.source = k
         /\ row.type = IF clear THEN "REWARD_MATURATION" ELSE "CHARGEBACK_DEBIT"
  <2>1. CASE k # NoRow
    <3>1. (IF clear THEN MaturationRow(k) ELSE ReversalRow(k)) \in Row
      BY <1>4, <2>1, MaturationRowType, ReversalRowType DEF IInv, TablesOK
    <3>2. Write(IF clear THEN MaturationRow(k) ELSE ReversalRow(k))
      BY <1>1, <1>2, <1>4, <2>1 DEF ResolveHold
    <3> QED
      BY <2>1, <3>1, <3>2 DEF MaturationRow, ReversalRow
  <2>2. CASE k = NoRow
    <3>1. UNCHANGED <<balance, ledger>>
      BY <1>4, <2>2 DEF ResolveHold, ledgerVars
    <3>2. PICK u \in Users : u = conversions[c].user
      BY ConversionTypes DEF Conversion
    <3>3. [user |-> u, type |-> IF clear THEN "REWARD_MATURATION" ELSE "CHARGEBACK_DEBIT", amount |-> 0,
           pending |-> 0, available |-> 0, locked |-> 0, source |-> NoRow, hold |-> "none"] \in Row
      BY DEF Row, RowTypes, Holds, NoRow
    <3> QED
      BY <2>2, <3>1, <3>3
  <2> QED
    BY <2>1, <2>2
<1> QED
  BY <1>1, <1>2, <1>3, <1>4, <1>5, <1>6, <1>7 DEF Resolved

LEMMA ResolveHoldInv ==
    ASSUME IInv, NEW a \in Admins, ResolveHold(a)
    PROVE  IInv'
<1> DEFINE clear == reviews[a].decision = "CLEAR"
<1>0. PICK c \in ConversionIds, k \in Nat, s \in {"CREDITED", "REJECTED"}, row \in Row :
         Resolved(a, c, k, s, row)
  BY ResolveHoldDoes
<1>1. c = reviews[a].conversion
  BY <1>0 DEF Resolved
<1>2. k = conversions[c].credit
  BY <1>0 DEF Resolved
<1>3. s = IF clear THEN "CREDITED" ELSE "REJECTED"
  BY <1>0 DEF Resolved
<1>4. /\ reviews[a] # Free /\ reviews[a] \in Reviewing
      /\ conversions[c].status = "HELD"
      /\ reviews[a].moves = (k # NoRow)
      /\ k # NoRow => /\ k \in RowIds
                      /\ ledger[k].type = "CONVERSION_CREDIT"
                      /\ ledger[k].hold = "indefinite"
                      /\ ~ActedOn(k, {"REWARD_MATURATION", "CHARGEBACK_DEBIT"})
  BY <1>0 DEF Resolved
<1>5. /\ conversions' = [conversions EXCEPT ![c].status = s]
      /\ reviews' = [reviews EXCEPT ![a] = Free]
      /\ UNCHANGED <<opened, postbacks, workers, sweep>>
  BY <1>0 DEF Resolved
<1>6. /\ ConversionIds' = ConversionIds
      /\ conversions' \in Seq(Conversion)
      /\ conversions'[c].status = s
      /\ \A d \in ConversionIds : d # c => conversions'[d].status = conversions[d].status
      /\ \A d \in ConversionIds : SameBut(conversions'[d], conversions[d])
  BY <1>0 DEF Resolved
<1>7. \A d \in ConversionIds :
         /\ conversions'[d].postback = conversions[d].postback
         /\ conversions'[d].user = conversions[d].user
         /\ conversions'[d].click = conversions[d].click
         /\ conversions'[d].isReversal = conversions[d].isReversal
         /\ conversions'[d].reversalOf = conversions[d].reversalOf
         /\ conversions'[d].credit = conversions[d].credit
  BY <1>6 DEF SameBut
<1>8. /\ k # NoRow => Write(row)
      /\ k = NoRow => UNCHANGED <<balance, ledger>>
      /\ row.source = k
      /\ row.type = IF clear THEN "REWARD_MATURATION" ELSE "CHARGEBACK_DEBIT"
  BY <1>0 DEF Resolved
<1>9. /\ LedgerTypeOK /\ LedgerTypeOK' /\ RowsPointBack'
      /\ \A j \in RowIds : j \in RowIds' /\ ledger'[j] = ledger[j]
      /\ CreditRows' = CreditRows
  <2>1. CASE k # NoRow
    BY <1>4, <1>8, <2>1, WriteType, PointBackKept, WriteLedger, CreditRowsKept DEF IInv, TablesOK
  <2>2. CASE k = NoRow
    BY <1>5, <1>8, <2>2 DEF IInv, TablesOK, LedgerTypeOK, RowsPointBack, RowIds, CreditRows
  <2> QED
    BY <2>1, <2>2
<1>10. TablesOK'
  BY <1>5, <1>6, <1>9 DEF IInv, TablesOK
<1>11. PlansSound' /\ KeysHeld'
  <2>1. \A p : Converted(p)' = Converted(p)
    BY <1>6, <1>7 DEF Converted
  <2> QED
    BY <1>5, <1>6, <1>7, <2>1 DEF IInv, HandlersSound, PlansSound, Plans, KeysHeld, Inserted
<1>12. ReviewsSound'
  <2>1. \A b \in Admins : reviews'[b] = IF b = a THEN Free ELSE reviews[b]
    BY <1>5 DEF IInv, TablesOK
  <2> QED
    BY <1>1, <1>4, <1>5, <1>6, <1>7, <2>1 DEF IInv, HandlersSound, ReviewsSound
<1>13. SweepSound'
  BY <1>5, <1>9 DEF IInv, HandlersSound, SweepSound
<1>14. CreditsExist' /\ PaidOncePerPostback'
  BY <1>6, <1>7, <1>9 DEF IInv, CreditsExist, PaidOncePerPostback
<1>15. CreditFollowsStatus'
  <2> SUFFICES ASSUME NEW d \in ConversionIds, conversions[d].credit # NoRow
               PROVE  /\ ledger'[conversions[d].credit].type = "CONVERSION_CREDIT"
                      /\ ledger'[conversions[d].credit].user = conversions[d].user
                      /\ CreditStands(conversions[d].credit, conversions[d].status)'
    BY <1>6, <1>7 DEF CreditFollowsStatus
  <2>1. PICK l \in RowIds : l = conversions[d].credit
    BY ConversionTypes
  <2>2. /\ ledger'[l].type = "CONVERSION_CREDIT" /\ ledger'[l].user = conversions[d].user
        /\ ledger'[l] = ledger[l] /\ l \in Nat
    BY <1>9, <2>1, ConversionTypes
  <2>3. CASE d = c
    <3>1. Write(row) /\ k = l /\ l # NoRow
      BY <1>2, <1>8, <2>1, <2>3
    <3>2. /\ clear => ActedOn(l, {"REWARD_MATURATION"})' /\ ~ActedOn(l, {"CHARGEBACK_DEBIT"})'
          /\ ~clear => ActedOn(l, {"CHARGEBACK_DEBIT"})'
      <4>1. ~ActedOn(l, {"CHARGEBACK_DEBIT"})
        BY <1>4, <3>1 DEF ActedOn
      <4> QED
        BY <1>8, <1>9, <2>2, <3>1, <4>1, ActedOnWrite
    <3>3. CreditStands(l, s)'
      BY <1>3, <3>2 DEF CreditStands
    <3> QED
      BY <1>6, <1>7, <2>1, <2>2, <2>3, <3>3 DEF CreditStands, ActedOn
  <2>4. CASE d # c
    <3>1. PICK t \in ConversionStatuses : t = conversions[d].status
      BY ConversionTypes DEF Conversion
    <3>2. CreditStands(l, t)
      BY <2>1, <3>1, ConversionTypes
    <3>3. k # NoRow => k # l
      BY <1>2, <2>1, <2>4, CreditUnique
    <3>4. CreditStands(l, t)'
      <4>1. CASE k # NoRow
        BY <1>8, <1>9, <3>2, <3>3, <4>1, StandsKept
      <4>2. CASE k = NoRow
        BY <1>8, <3>2, <4>2 DEF CreditStands, ActedOn, RowIds
      <4> QED
        BY <4>1, <4>2
    <3> QED
      BY <1>6, <1>7, <2>1, <2>2, <2>4, <3>1, <3>4 DEF CreditStands, ActedOn
  <2> QED
    BY <2>3, <2>4
<1>16. ReversalIsWhole'
  <2>1. Write(row) \/ UNCHANGED ledger
    BY <1>8
  <2>2. \A d \in ConversionIds : TakenBack(d) => TakenBack(d)'
    BY <1>4, <1>6, <1>7, <2>1, TakenBackKept DEF TakenBack
  <2>3. ASSUME NEW r \in ConversionIds, conversions'[r].isReversal
        PROVE  \E o \in 1 .. (r - 1) :
                  /\ o = conversions'[r].reversalOf
                  /\ conversions'[o].click = conversions'[r].click
                  /\ TakenBack(o)'
    <3>1. PICK o \in ConversionIds :
             /\ o = conversions[r].reversalOf /\ o \in 1 .. (r - 1)
             /\ conversions[o].click = conversions[r].click /\ TakenBack(o)
      BY <1>7, <2>3 DEF IInv, ReversalIsWhole, TakenBack, ConversionIds, TablesOK
    <3>2. TakenBack(o)'
      BY <2>2, <3>1
    <3> QED
      BY <1>6, <1>7, <3>1, <3>2
  <2>4. ASSUME NEW d \in ConversionIds, conversions'[d].status = "REVERSED"
        PROVE  \E r \in ConversionIds : conversions'[r].reversalOf = d
    BY <1>3, <1>6, <1>7, <2>4 DEF IInv, ReversalIsWhole
  <2> QED
    BY <1>6, <2>3, <2>4 DEF ReversalIsWhole, TakenBack, ActedOn
<1>17. ProcessedHasConversion'
  BY <1>5, <1>6, <1>7 DEF IInv, ProcessedHasConversion, Converted
<1> QED
  BY <1>9, <1>10, <1>11, <1>12, <1>13, <1>14, <1>15, <1>16, <1>17 DEF IInv, HandlersSound

-----------------------------------------------------------------------------
(* A run commits.                                                          *)

\* Nothing acts on the row that is being written.
LEMMA FreshUntouched ==
    ASSUME LedgerTypeOK, RowsPointBack', LedgerTypeOK', NEW row \in Row, Write(row), NEW types,
           NEW k \in Nat, k = Len(ledger')
    PROVE  ~ActedOn(k, types)'
<1>1. \A j \in RowIds' : j <= k /\ j \in Nat
  BY WriteLedger DEF RowIds
<1>2. \A j \in RowIds' : ledger'[j] \in Row
  BY DEF RowIds, LedgerTypeOK
<1>3. \A j \in RowIds' : ledger'[j].source < j /\ ledger'[j].source \in Nat
  BY <1>2 DEF RowsPointBack, Row
<1> QED
  BY <1>1, <1>3 DEF ActedOn

\* What a commit makes of the conversions: one more, and its target reversed.
LEMMA CommitConversions ==
    ASSUME IInv, NEW w \in Workers, Commit(w), NEW t \in Nat, t = workers[w].target,
           NEW credit \in Nat,
           credit = IF workers[w].hold = "none" THEN NoRow ELSE Len(ledger'),
           NEW n, n = Len(conversions) + 1
    PROVE  /\ n \in Nat \ {0} /\ n \notin ConversionIds
           /\ ConversionIds' = ConversionIds \cup {n}
           /\ conversions' \in Seq(Conversion)
           /\ \A d \in ConversionIds :
                 /\ SameBut(conversions'[d], conversions[d])
                 /\ conversions'[d].status = IF d = t THEN "REVERSED" ELSE conversions[d].status
           /\ conversions'[n] = [postback |-> workers[w].postback,
                                 user |-> PayloadOf[workers[w].postback].user,
                                 click |-> PayloadOf[workers[w].postback].click,
                                 isReversal |-> t # NoConversion, status |-> workers[w].status,
                                 reversalOf |-> t, credit |-> credit]
<1> DEFINE r == workers[w]
           row == [postback |-> r.postback, user |-> PayloadOf[r.postback].user,
                   click |-> PayloadOf[r.postback].click, isReversal |-> t # NoConversion,
                   status |-> r.status, reversalOf |-> t, credit |-> credit]
           kept == [c \in ConversionIds |-> IF c = t THEN [conversions[c] EXCEPT !.status = "REVERSED"]
                                           ELSE conversions[c]]
<1>1. row \in Conversion
  <2>1. r.pc = "committing" /\ r \in Persisting
    BY RunTypes DEF Commit, PlanningSteps
  <2>2. r.status \in ConversionStatuses
    BY <2>1 DEF Persisting
  <2> QED
    BY <2>1, <2>2, RunTypes DEF Conversion
<1>2. \A c \in ConversionIds :
         /\ kept[c] \in Conversion
         /\ SameBut(kept[c], conversions[c])
         /\ kept[c].status = IF c = t THEN "REVERSED" ELSE conversions[c].status
  <2>1. \A c \in ConversionIds : conversions[c] \in Conversion /\ SameBut(conversions[c], conversions[c])
    BY ConversionTypes DEF SameBut
  <2>2. "REVERSED" \in ConversionStatuses
    BY DEF ConversionStatuses
  <2> QED
    BY <2>1, <2>2, StatusSet
<1>3. Len(conversions) \in Nat /\ ConversionIds = 1 .. Len(conversions)
  BY DEF IInv, TablesOK, ConversionIds
<1>4. kept \in Seq(Conversion) /\ Len(kept) = Len(conversions)
  BY <1>2, <1>3
<1>5. conversions' = Append(kept, row)
  BY DEF Commit
<1> HIDE DEF kept, row
<1>6. /\ conversions' \in Seq(Conversion) /\ Len(conversions') = n
      /\ conversions'[n] = row
      /\ \A c \in ConversionIds : conversions'[c] = kept[c]
  BY <1>1, <1>3, <1>4, <1>5
<1>7. n \in Nat \ {0} /\ n \notin ConversionIds /\ ConversionIds' = ConversionIds \cup {n}
  BY <1>3, <1>6 DEF ConversionIds
<1> QED
  BY <1>2, <1>6, <1>7 DEF row

\* And what it makes of the ledger: a credit, the return of one, or nothing.
LEMMA CommitLedger ==
    ASSUME IInv, NEW w \in Workers, Commit(w)
    PROVE  LET r == workers[w]
               payload == PayloadOf[r.postback] IN
           /\ opened' = opened
           /\ \/ r.hold # "none" /\ r.target = NoConversion
                 /\ \E row \in Row : /\ Write(row)
                                     /\ row.type = "CONVERSION_CREDIT" /\ row.user = payload.user
                                     /\ row.hold = r.hold /\ row.source = NoRow
              \/ /\ r.hold = "none" /\ r.target # NoConversion
                 /\ r.reverses = conversions[r.target].credit /\ r.reverses # NoRow
                 /\ \E row \in Row : /\ Write(row)
                                     /\ row.type = "CHARGEBACK_DEBIT" /\ row.source = r.reverses
              \/ /\ r.hold = "none" /\ UNCHANGED <<balance, ledger>>
                 /\ r.target # NoConversion => conversions[r.target].credit = NoRow
<1> DEFINE r == workers[w]
           payload == PayloadOf[r.postback]
<1>1. r.pc = "committing" /\ r \in Persisting /\ Plans(r)
  BY RunTypes DEF Commit, PlanningSteps
<1>2. /\ payload.user \in Users /\ payload.points \in Nat
      /\ r.hold \in Holds /\ r.target \in Nat /\ r.reverses \in Nat
  BY <1>1, RunTypes DEF Commit, Persisting
<1>3. CASE r.hold # "none" /\ Credit(payload.user, payload.points, r.hold)
  <2>1. CreditRow(payload.user, payload.points, r.hold) \in Row
    BY <1>2 DEF CreditRow, Row, RowTypes, NoRow
  <2> QED
    BY <1>1, <1>3, <2>1 DEF Credit, CreditRow, Plans, Write
<1>4. CASE r.reverses # NoRow /\ Write(ReversalRow(r.reverses))
  <2>1. /\ r.hold = "none" /\ r.target # NoConversion /\ r.target \in ConversionIds
        /\ r.reverses = conversions[r.target].credit
    BY <1>1, <1>4 DEF Plans
  <2>2. r.reverses \in RowIds
    BY <1>4, <2>1, ConversionTypes
  <2>3. ReversalRow(r.reverses) \in Row
    BY <2>2, ReversalRowType DEF IInv, TablesOK
  <2> QED
    BY <1>4, <2>1, <2>3 DEF ReversalRow, Write
<1>5. CASE r.hold = "none" /\ r.reverses = NoRow /\ UNCHANGED ledgerVars
  BY <1>1, <1>5 DEF Plans, ledgerVars
<1> QED
  BY <1>3, <1>4, <1>5 DEF Commit

\* What is said of one conversion's credit.
Agrees(c) ==
    conversions[c].credit # NoRow =>
        /\ ledger[conversions[c].credit].type = "CONVERSION_CREDIT"
        /\ ledger[conversions[c].credit].user = conversions[c].user
        /\ CreditStands(conversions[c].credit, conversions[c].status)

LEMMA AgreesNext ==
    ASSUME NEW c, NEW l, NEW s, l = conversions'[c].credit, s = conversions'[c].status,
           ledger'[l].type = "CONVERSION_CREDIT", ledger'[l].user = conversions'[c].user,
           CreditStands(l, s)'
    PROVE  Agrees(c)'
  BY DEF Agrees, CreditStands, ActedOn

LEMMA CommitInv ==
    ASSUME IInv, NEW w \in Workers, Commit(w)
    PROVE  IInv'
<1>1. workers[w].pc = "committing" /\ workers[w] \in Persisting /\ Plans(workers[w])
  BY RunTypes DEF Commit, PlanningSteps
<1>2. PICK t \in Nat, h \in Holds, v \in Nat, p \in PostbackIds, n \in Nat \ {0} :
         /\ t = workers[w].target /\ h = workers[w].hold /\ v = workers[w].reverses
         /\ p = workers[w].postback /\ n = Len(conversions) + 1
  BY <1>1 DEF Persisting, IInv, TablesOK
<1>3. PICK u \in Users, click \in Nat, s \in ConversionStatuses \ {"REVERSED"} :
         u = PayloadOf[p].user /\ click = PayloadOf[p].click /\ s = workers[w].status
  BY <1>1, <1>2, RunTypes DEF Plans, Persisting
<1>4. /\ t = NoConversion =>
            /\ v = NoRow
            /\ h = "timed" => s = "CREDITED"
            /\ h = "indefinite" => s = "HELD"
      /\ t # NoConversion =>
            /\ t \in ConversionIds /\ conversions[t].click = click
            /\ h = "none" /\ v = conversions[t].credit
  BY <1>1, <1>2, <1>3 DEF Plans
<1>5. /\ opened' = opened
      /\ \/ /\ h # "none" /\ t = NoConversion
            /\ \E row \in Row : /\ Write(row) /\ row.type = "CONVERSION_CREDIT" /\ row.user = u
                                /\ row.hold = h /\ row.source = NoRow
         \/ /\ h = "none" /\ t # NoConversion /\ v # NoRow
            /\ \E row \in Row : Write(row) /\ row.type = "CHARGEBACK_DEBIT" /\ row.source = v
         \/ /\ h = "none" /\ UNCHANGED <<balance, ledger>>
            /\ t # NoConversion => v = NoRow
  BY <1>2, <1>3, <1>4, CommitLedger
<1>6. PICK row \in Row :
         \/ /\ h # "none" /\ t = NoConversion /\ Write(row)
            /\ row.type = "CONVERSION_CREDIT" /\ row.user = u
            /\ row.hold = h /\ row.source = NoRow
         \/ /\ h = "none" /\ t # NoConversion /\ v # NoRow /\ Write(row)
            /\ row.type = "CHARGEBACK_DEBIT" /\ row.source = v
         \/ /\ h = "none" /\ UNCHANGED <<balance, ledger>>
            /\ t # NoConversion => v = NoRow
  <2>1. [user |-> u, type |-> "MANUAL_ADJUSTMENT", amount |-> 0, pending |-> 0, available |-> 0,
         locked |-> 0, source |-> NoRow, hold |-> "none"] \in Row
    BY DEF Row, RowTypes, Holds, NoRow
  <2> QED
    BY <1>5, <2>1
<1>7. /\ LedgerTypeOK /\ LedgerTypeOK' /\ RowsPointBack'
      /\ \A j \in RowIds : j \in RowIds' /\ ledger'[j] = ledger[j]
      /\ h # "none" => CreditRows' = CreditRows \cup {Len(ledger')}
      /\ h = "none" => CreditRows' = CreditRows
      /\ h # "none" => Len(ledger') \in RowIds' /\ Len(ledger') \notin RowIds
  <2>a. LedgerTypeOK /\ RowsPointBack
    BY DEF IInv, TablesOK
  <2>1. CASE h # "none"
    <3>1. LedgerTypeOK' /\ RowsPointBack'
      BY <1>6, <2>a, <2>1, WriteType, PointBackKept
    <3>2. \A j \in RowIds' : j \in CreditRows' <=> j \in CreditRows \/ j = Len(ledger')
      BY <1>6, <2>a, <2>1, WriteLedger DEF CreditRows
    <3> QED
      BY <1>6, <2>a, <2>1, <3>1, <3>2, WriteLedger DEF CreditRows
  <2>2. CASE h = "none" /\ Write(row)
    <3>1. /\ row.type # "CONVERSION_CREDIT" /\ row.source \in RowIds
      BY <1>4, <1>6, <2>a, <2>2, ConversionTypes, WriteLedger
    <3> QED
      BY <2>a, <2>2, <3>1, WriteType, PointBackKept, CreditRowsKept, WriteLedger
  <2>3. CASE h = "none" /\ UNCHANGED <<balance, ledger>>
    BY <1>5, <2>a, <2>3 DEF LedgerTypeOK, RowsPointBack, RowIds, CreditRows
  <2> QED
    BY <1>6, <2>1, <2>2, <2>3
<1>8. PICK credit \in Nat : credit = IF h = "none" THEN NoRow ELSE Len(ledger')
  <2>1. NoRow \in Nat /\ Len(ledger') \in Nat
    BY <1>7 DEF LedgerTypeOK, NoRow
  <2> QED
    BY <2>1
<1>9. /\ n \notin ConversionIds
      /\ ConversionIds' = ConversionIds \cup {n}
      /\ conversions' \in Seq(Conversion)
      /\ \A d \in ConversionIds :
            /\ SameBut(conversions'[d], conversions[d])
            /\ conversions'[d].status = IF d = t THEN "REVERSED" ELSE conversions[d].status
      /\ conversions'[n].postback = p /\ conversions'[n].user = u /\ conversions'[n].click = click
      /\ conversions'[n].isReversal = (t # NoConversion) /\ conversions'[n].reversalOf = t
      /\ conversions'[n].status = s /\ conversions'[n].credit = credit
  <2>1. credit = IF workers[w].hold = "none" THEN NoRow ELSE Len(ledger')
    BY <1>2, <1>8
  <2>2. t = workers[w].target /\ n = Len(conversions) + 1
    BY <1>2
  <2>3. /\ n \in Nat \ {0} /\ n \notin ConversionIds
        /\ ConversionIds' = ConversionIds \cup {n}
        /\ conversions' \in Seq(Conversion)
        /\ \A d \in ConversionIds :
              /\ SameBut(conversions'[d], conversions[d])
              /\ conversions'[d].status = IF d = t THEN "REVERSED" ELSE conversions[d].status
        /\ conversions'[n] = [postback |-> workers[w].postback,
                              user |-> PayloadOf[workers[w].postback].user,
                              click |-> PayloadOf[workers[w].postback].click,
                              isReversal |-> t # NoConversion, status |-> workers[w].status,
                              reversalOf |-> t, credit |-> credit]
    BY <2>1, <2>2, CommitConversions
  <2>4. conversions'[n] = [postback |-> p, user |-> u, click |-> click,
                           isReversal |-> t # NoConversion, status |-> s,
                           reversalOf |-> t, credit |-> credit]
    BY <1>2, <1>3, <2>3
  <2> QED
    BY <2>3, <2>4
<1>10. \A d \in ConversionIds :
         /\ conversions'[d].postback = conversions[d].postback
         /\ conversions'[d].user = conversions[d].user
         /\ conversions'[d].click = conversions[d].click
         /\ conversions'[d].isReversal = conversions[d].isReversal
         /\ conversions'[d].reversalOf = conversions[d].reversalOf
         /\ conversions'[d].credit = conversions[d].credit
  BY <1>9 DEF SameBut
<1>11. /\ workers' = [workers EXCEPT ![w] = Idle]
       /\ postbacks' = [postbacks EXCEPT ![p] = "PROCESSED"]
       /\ UNCHANGED <<reviews, sweep>>
  BY <1>2 DEF Commit, Mark
<1>12. \A x \in Workers : workers'[x] = IF x = w THEN Idle ELSE workers[x]
  BY <1>11 DEF IInv, TablesOK
<1>13. ~Converted(p) /\ \A x \in Workers \ {w} : Inserted(x) => workers[x].postback # p
  BY <1>1, <1>2 DEF IInv, HandlersSound, KeysHeld, Inserted
<1>14. TablesOK'
  BY <1>5, <1>7, <1>9, <1>11 DEF IInv, TablesOK, States
<1>15. PlansSound'
  <2>1. \A x \in Workers \ {w} : workers[x].pc \in PlanningSteps => Plans(workers[x])
    BY DEF IInv, HandlersSound, PlansSound, PlanningSteps
  <2> QED
    BY <1>9, <1>10, <1>12, <2>1 DEF PlansSound, Plans, PlanningSteps, Idle
<1>16. KeysHeld'
  <2>1. \A q : Converted(q)' <=> Converted(q) \/ q = p
    BY <1>9, <1>10 DEF Converted
  <2> QED
    BY <1>12, <1>13, <2>1 DEF IInv, HandlersSound, KeysHeld, Inserted, Idle
<1>17. ReviewsSound'
  <2>1. \A a \in Admins : reviews[a] # Free => reviews[a].conversion # t
    BY <1>1, <1>2 DEF IInv, HandlersSound, ReviewsSound
  <2> QED
    BY <1>9, <1>10, <1>11, <1>12, <2>1 DEF IInv, HandlersSound, ReviewsSound, Idle
<1>18. SweepSound'
  BY <1>7, <1>11 DEF IInv, HandlersSound, SweepSound
<1>19. CreditsExist'
  BY <1>7, <1>8, <1>9, <1>10 DEF IInv, CreditsExist
<1>20. PaidOncePerPostback'
  <2>1. \A c, d \in ConversionIds' :
           conversions'[c].postback = conversions'[d].postback => c = d
    BY <1>9, <1>10, <1>13 DEF IInv, PaidOncePerPostback, Converted
  <2>2. \A i \in CreditRows : i \in RowIds /\ i # NoRow
    BY DEF CreditRows, RowIds, NoRow
  <2>3. ASSUME NEW i \in CreditRows
        PROVE  \E c \in ConversionIds' : \A d \in ConversionIds' : conversions'[d].credit = i <=> d = c
    <3>1. PICK c \in ConversionIds : \A d \in ConversionIds : conversions[d].credit = i <=> d = c
      BY DEF IInv, PaidOncePerPostback
    <3>2. credit # i
      BY <1>7, <1>8, <2>2
    <3> QED
      BY <1>9, <1>10, <3>1, <3>2
  <2>4. ASSUME h # "none"
        PROVE  \A d \in ConversionIds' : conversions'[d].credit = Len(ledger') <=> d = n
    BY <1>7, <1>8, <1>9, <1>10, <2>4 DEF IInv, CreditsExist, NoRow, RowIds
  <2> QED
    BY <1>7, <1>9, <2>1, <2>3, <2>4 DEF PaidOncePerPostback
<1>21. CreditFollowsStatus'
  <2>1. ASSUME NEW d \in ConversionIds, conversions[d].credit # NoRow
        PROVE  Agrees(d)'
    <3>1. PICK l \in RowIds, st \in ConversionStatuses :
             l = conversions[d].credit /\ st = conversions[d].status /\ l \in Nat /\ l # NoRow
      BY <2>1, ConversionTypes DEF Conversion
    <3>2. ledger[l].type = "CONVERSION_CREDIT" /\ ledger[l].user = conversions[d].user /\ CreditStands(l, st)
      BY <3>1, ConversionTypes
    <3>3. l = conversions'[d].credit /\ ledger'[l].type = "CONVERSION_CREDIT"
          /\ ledger'[l].user = conversions'[d].user
      BY <1>7, <1>10, <3>1, <3>2
    <3>4. CASE d = t
      <4>1. Write(row) /\ row.type = "CHARGEBACK_DEBIT" /\ row.source = l
        BY <1>4, <1>6, <3>1, <3>4 DEF NoConversion, ConversionIds
      <4>2. ActedOn(l, {"CHARGEBACK_DEBIT"})'
        BY <1>7, <3>1, <4>1, ActedOnWrite
      <4>3. CreditStands(l, "REVERSED")'
        BY <4>2 DEF CreditStands
      <4>4. "REVERSED" = conversions'[d].status
        BY <1>9, <3>4
      <4> QED
        BY <3>3, <4>3, <4>4, AgreesNext
    <3>5. CASE d # t
      <4>1. ASSUME Write(row) PROVE row.source # l
        <5>1. v # NoRow => v # l
          BY <1>4, <3>1, <3>5, CreditUnique
        <5> QED
          BY <1>6, <1>7, <3>1, <4>1, <5>1, WriteLedger
      <4>2. CreditStands(l, st)'
        <5>1. CASE Write(row)
          BY <1>7, <3>2, <4>1, <5>1, StandsKept
        <5>2. CASE UNCHANGED ledger
          BY <3>2, <5>2 DEF CreditStands, ActedOn, RowIds
        <5> QED
          BY <1>6, <5>1, <5>2
      <4>3. st = conversions'[d].status
        BY <1>9, <3>1, <3>5
      <4> QED
        BY <3>3, <4>2, <4>3, AgreesNext
    <3> QED
      BY <3>4, <3>5
  <2>2. ASSUME credit # NoRow
        PROVE  Agrees(n)'
    <3>1. /\ h # "none" /\ credit = Len(ledger') /\ t = NoConversion /\ Write(row)
          /\ row.type = "CONVERSION_CREDIT" /\ row.user = u /\ row.hold = h
      BY <1>6, <1>8, <2>2
    <3>2. ledger'[credit] = row
      BY <1>7, <3>1, WriteLedger
    <3>3. \A types : ~ActedOn(credit, types)'
      BY <1>7, <3>1, FreshUntouched
    <3>4. \/ h = "timed" /\ s = "CREDITED"
          \/ h = "indefinite" /\ s = "HELD"
      BY <1>4, <3>1 DEF Holds
    <3>5. CreditStands(credit, s)'
      BY <3>1, <3>2, <3>3, <3>4 DEF CreditStands
    <3> QED
      BY <1>9, <3>1, <3>2, <3>5, AgreesNext
  <2>3. ASSUME NEW c \in ConversionIds', conversions'[c].credit # NoRow
        PROVE  Agrees(c)'
    BY <1>9, <1>10, <2>1, <2>2, <2>3
  <2> QED
    BY <2>3 DEF CreditFollowsStatus, Agrees, CreditStands, ActedOn
<1>22. ReversalIsWhole'
  <2>1. \A d \in ConversionIds : TakenBack(d) => TakenBack(d)'
    BY <1>6, <1>9, <1>10, TakenBackKept DEF TakenBack
  <2>2. ASSUME t # NoConversion PROVE TakenBack(t)'
    <3>1. CASE v = NoRow
      BY <1>4, <1>9, <1>10, <2>2, <3>1 DEF TakenBack
    <3>2. CASE v # NoRow
      <4>1. ActedOn(v, {"CHARGEBACK_DEBIT"})'
        BY <1>6, <1>7, <2>2, <3>2, ActedOnWrite
      <4> QED
        BY <1>4, <1>9, <1>10, <2>2, <4>1 DEF TakenBack, ActedOn
    <3> QED
      BY <3>1, <3>2
  <2>3. ASSUME NEW r \in ConversionIds', conversions'[r].isReversal
        PROVE  \E o \in 1 .. (r - 1) :
                  /\ o = conversions'[r].reversalOf
                  /\ conversions'[o].click = conversions'[r].click
                  /\ TakenBack(o)'
    <3>1. CASE r = n
      <4>1. t # NoConversion /\ t \in ConversionIds
        BY <1>4, <1>9, <2>3, <3>1
      <4>2. Len(conversions) \in Nat
        BY DEF IInv, TablesOK
      <4>3. t \in 1 .. (n - 1)
        BY <1>2, <4>1, <4>2 DEF ConversionIds
      <4> QED
        BY <1>4, <1>9, <1>10, <2>2, <3>1, <4>1, <4>3
    <3>2. CASE r \in ConversionIds
      <4>1. PICK o \in ConversionIds :
               /\ o = conversions[r].reversalOf /\ o \in 1 .. (r - 1)
               /\ conversions[o].click = conversions[r].click /\ TakenBack(o)
        <5>1. conversions[r].isReversal
          BY <1>10, <2>3, <3>2
        <5>2. PICK o : o = conversions[r].reversalOf
          OBVIOUS
        <5>3. o \in 1 .. (r - 1) /\ conversions[o].click = conversions[r].click /\ TakenBack(o)
          BY <3>2, <5>1, <5>2 DEF IInv, ReversalIsWhole, TakenBack
        <5>4. o \in ConversionIds
          BY <3>2, <5>3 DEF IInv, TablesOK, ConversionIds
        <5> QED
          BY <5>2, <5>3, <5>4
      <4>2. TakenBack(o)'
        BY <2>1, <4>1
      <4>3. /\ conversions'[r].reversalOf = conversions[r].reversalOf
            /\ conversions'[r].click = conversions[r].click
            /\ conversions'[o].click = conversions[o].click
        BY <1>10, <3>2, <4>1
      <4> QED
        BY <4>1, <4>2, <4>3
    <3> QED
      BY <1>9, <3>1, <3>2
  <2>4. ASSUME NEW d \in ConversionIds', conversions'[d].status = "REVERSED"
        PROVE  \E r \in ConversionIds' : conversions'[r].reversalOf = d
    <3>1. CASE d \in ConversionIds /\ conversions[d].status = "REVERSED"
      <4>1. PICK r \in ConversionIds : conversions[r].reversalOf = d
        BY <3>1 DEF IInv, ReversalIsWhole
      <4>2. r \in ConversionIds' /\ conversions'[r].reversalOf = d
        BY <1>9, <1>10, <4>1
      <4> QED
        BY <4>2
    <3>2. CASE ~(d \in ConversionIds /\ conversions[d].status = "REVERSED")
      <4>1. d = t \/ d = n
        BY <1>9, <2>4, <3>2
      <4> QED
        BY <1>3, <1>9, <1>10, <2>4, <4>1
    <3> QED
      BY <3>1, <3>2
  <2>5. ASSUME NEW r \in ConversionIds', conversions'[r].isReversal
        PROVE  /\ conversions'[r].reversalOf \in 1 .. (r - 1)
               /\ conversions'[conversions'[r].reversalOf].click = conversions'[r].click
               /\ TakenBack(conversions[r].reversalOf)'
    BY <2>3, <2>5 DEF TakenBack, ActedOn
  <2> QED
    BY <2>4, <2>5 DEF ReversalIsWhole, TakenBack, ActedOn
<1>23. ProcessedHasConversion'
  BY <1>9, <1>10, <1>11 DEF IInv, TablesOK, ProcessedHasConversion, Converted
<1> QED
  BY <1>7, <1>14, <1>15, <1>16, <1>17, <1>18, <1>19, <1>20, <1>21, <1>22, <1>23
     DEF IInv, HandlersSound

-----------------------------------------------------------------------------
LEMMA NextInv == IInv /\ [Next]_vars => IInv'
<1> SUFFICES ASSUME IInv, [Next]_vars PROVE IInv'
  OBVIOUS
<1>1. ASSUME NEW p \in PostbackIds, Archive(p) PROVE IInv'
  BY <1>1, ArchiveInv
<1>2. ASSUME NEW p \in PostbackIds, Enqueue(p) \/ Stall(p) PROVE IInv'
  BY <1>2, QueueInv DEF Enqueue, Stall
<1>3. ASSUME NEW p \in PostbackIds, NEW w \in Workers, Take(w, p) PROVE IInv'
  BY <1>3, TakeInv
<1>4. ASSUME NEW w \in Workers, Run(w) \/ Crash(w) PROVE IInv'
  BY <1>4, AttributeConversionInv, AttributeReversalInv, UnattributableInv, QuarantineInv,
     CheckReversalInv, LockBalanceInv, InsertInv, UpdateOriginalInv, CommitInv, BreakInv, GiveUpInv,
     CrashInv DEF Run
<1>5. ASSUME NEW a \in Admins, NEW c \in ConversionIds, NEW decision \in {"CLEAR", "CONFIRM"},
             LockHold(a, c, decision)
      PROVE  IInv'
  BY <1>5, LockHoldInv
<1>6. ASSUME NEW a \in Admins, Review(a) PROVE IInv'
  BY <1>6, CheckHoldInv, ResolveHoldInv, RollbackHoldInv DEF Review
<1>7. ASSUME NEW i \in RowIds, SweepCheck(i) PROVE IInv'
  BY <1>7, SweepCheckInv
<1>8. CASE SweepMature \/ SweepFails
  BY <1>8, SweepMatureInv, SweepFailsInv
<1>9. CASE UNCHANGED vars
  BY <1>9, QueueInv DEF vars, pipelineVars
<1> QED
  BY <1>1, <1>2, <1>3, <1>4, <1>5, <1>6, <1>7, <1>8, <1>9 DEF Next

THEOREM Inductive == Spec => []IInv
<1>1. Init => IInv
  BY InitInv
<1>2. IInv /\ [Next]_vars => IInv'
  BY NextInv
<1> QED
  BY <1>1, <1>2, PTL DEF Spec

\* However often a job runs, and beside whatever else, its postback becomes at
\* most one conversion, and no credit is written that is not one conversion's.
THEOREM PaidOnce == Spec => []PaidOncePerPostback
<1>1. IInv => PaidOncePerPostback
  BY DEF IInv
<1> QED
  BY <1>1, Inductive, PTL

\* A conversion's status and what the history says of its points agree, for any
\* number of runs, chargebacks and reviewers of the same conversion.
THEOREM StatusTellsPoints == Spec => []CreditFollowsStatus
<1>1. IInv => CreditFollowsStatus
  BY DEF IInv
<1> QED
  BY <1>1, Inductive, PTL

\* No chargeback is recorded without the conversion and the points it takes
\* back, and none is taken back without a record.
THEOREM ReversalsWhole == Spec => []ReversalIsWhole
<1>1. IInv => ReversalIsWhole
  BY DEF IInv
<1> QED
  BY <1>1, Inductive, PTL

\* What is marked processed became a conversion.
THEOREM ProcessedConverted == Spec => []ProcessedHasConversion
<1>1. IInv => ProcessedHasConversion
  BY DEF IInv
<1> QED
  BY <1>1, Inductive, PTL

-----------------------------------------------------------------------------
\* A run, a reviewer or the sweep writes one row, or none.
LEMMA ResolveHoldWrites ==
    ASSUME IInv, NEW a \in Admins, ResolveHold(a)
    PROVE  (\E row \in Row : Write(row)) \/ UNCHANGED <<balance, ledger>>
<1>1. PICK c \in ConversionIds : c = reviews[a].conversion
  BY ReviewTypes DEF ResolveHold, Free
<1>2. PICK k \in Nat : k = conversions[c].credit
  BY ConversionTypes DEF Conversion
<1>3. CASE reviews[a].moves
  <2>1. k \in RowIds
    <3>1. reviews[a] # Free /\ reviews[a].pc = "moving"
      BY DEF ResolveHold, Free
    <3> QED
      BY <1>1, <1>2, <1>3, <3>1, ReviewTypes DEF IInv, HandlersSound, ReviewsSound
  <2>2. MaturationRow(k) \in Row /\ ReversalRow(k) \in Row
    BY <2>1, MaturationRowType, ReversalRowType DEF IInv, TablesOK
  <2>3. Write(MaturationRow(k)) \/ Write(ReversalRow(k))
    BY <1>1, <1>2, <1>3 DEF ResolveHold
  <2> QED
    BY <2>2, <2>3
<1>4. CASE ~reviews[a].moves
  BY <1>4 DEF ResolveHold, ledgerVars
<1> QED
  BY <1>3, <1>4

LEMMA SweepMatureWrites ==
    ASSUME IInv, SweepMature
    PROVE  \E row \in Row : Write(row)
<1>1. PICK i \in RowIds : i = sweep
  BY DEF SweepMature, IInv, HandlersSound, SweepSound
<1>2. MaturationRow(i) \in Row
  BY MaturationRowType DEF IInv, TablesOK
<1> QED
  BY <1>1, <1>2 DEF SweepMature

\* Each handler, but for the three that commit.
LEMMA OthersStill ==
    ASSUME [Next]_vars,
           \A w \in Workers : ~Commit(w), \A a \in Admins : ~ResolveHold(a), ~SweepMature
    PROVE  UNCHANGED <<balance, ledger, conversions>>
<1>1. ASSUME NEW p \in PostbackIds,
             \/ Archive(p) \/ Enqueue(p) \/ Stall(p)
             \/ \E w \in Workers : Take(w, p)
      PROVE  UNCHANGED <<ledgerVars, conversions>>
  BY <1>1 DEF Archive, Enqueue, Stall, Take
<1>2. ASSUME NEW w \in Workers, Run(w) \/ Crash(w)
      PROVE  UNCHANGED <<ledgerVars, conversions>>
  <2>1. CASE AttributeConversion(w) \/ AttributeReversal(w)
    BY <2>1 DEF AttributeConversion, AttributeReversal, Persist
  <2>2. CASE Unattributable(w) \/ Quarantine(w) \/ CheckReversal(w) \/ LockBalance(w)
    BY <2>2 DEF Unattributable, Quarantine, Finish, CheckReversal, Persist, LockBalance
  <2>3. CASE Insert(w) \/ UpdateOriginal(w)
    BY <2>3 DEF Insert, UpdateOriginal
  <2>4. CASE Break(w) \/ GiveUp(w) \/ Crash(w)
    BY <2>4 DEF Break, GiveUp, Crash
  <2> QED
    BY <1>2, <2>1, <2>2, <2>3, <2>4 DEF Run
<1>3. ASSUME NEW a \in Admins,
             \/ \E c \in ConversionIds, decision \in {"CLEAR", "CONFIRM"} : LockHold(a, c, decision)
             \/ Review(a)
      PROVE  UNCHANGED <<ledgerVars, conversions>>
  BY <1>3 DEF LockHold, Review, CheckHold, RollbackHold
<1>4. ASSUME (\E i \in RowIds : SweepCheck(i)) \/ SweepFails
      PROVE  UNCHANGED <<ledgerVars, conversions>>
  BY <1>4 DEF SweepCheck, SweepFails
<1> QED
  BY <1>1, <1>2, <1>3, <1>4 DEF Next, vars, ledgerVars, pipelineVars

\* Runs that are cut off, run again or race a chargeback, reviewers and the
\* sweep never make a balance differ from its history (reconcile).
THEOREM Reconciled == Spec => []Reconciles
<1>1. Init => Reconciles
  BY InitInv, EmptyReconciles DEF Init, IInv, TablesOK
<1>2. ASSUME IInv, Reconciles, [Next]_vars PROVE Reconciles'
  <2>1. LedgerTypeOK
    BY <1>2 DEF IInv, TablesOK
  <2>2. (\E row \in Row : Write(row)) \/ UNCHANGED <<balance, ledger>>
    BY <1>2, OthersStill, CommitLedger, ResolveHoldWrites, SweepMatureWrites
  <2> QED
    BY <1>2, <2>1, <2>2, WriteReconciles, StillReconciles
<1>3. Init => IInv
  BY InitInv
<1>4. IInv /\ [Next]_vars => IInv'
  BY NextInv
<1> QED
  BY <1>1, <1>2, <1>3, <1>4, PTL DEF Spec
-----------------------------------------------------------------------------
(* The life cycle.  A postback's status and points change with the one     *)
(* conversion it has, or with the credit that conversion earned.           *)

\* A conversion is the conversion of its postback.
Own ==
    \A c \in ConversionIds :
        /\ Converted(conversions[c].postback)
        /\ StatusOf(conversions[c].postback) = conversions[c].status
        /\ PointsOf(conversions[c].postback) = PlaceOf(conversions[c].credit)

LEMMA OfPostback == PaidOncePerPostback => Own
<1> SUFFICES ASSUME PaidOncePerPostback, NEW c \in ConversionIds
             PROVE  /\ Converted(conversions[c].postback)
                    /\ ConversionOf(conversions[c].postback) = c
  BY DEF Own, StatusOf, PointsOf
<1>1. Converted(conversions[c].postback)
  BY DEF Converted
<1>2. \A d \in ConversionIds : conversions[d].postback = conversions[c].postback <=> d = c
  BY DEF PaidOncePerPostback
<1> QED
  BY <1>1, <1>2 DEF ConversionOf

LEMMA OfNone == \A p : ~Converted(p) => StatusOf(p) = "NONE" /\ PointsOf(p) = "none"
  BY DEF StatusOf, PointsOf

LEMMA OwnBoth == IInv /\ IInv' => Own /\ Own'
<1>1. IInv => PaidOncePerPostback
  BY DEF IInv
<1> QED
  BY <1>1, OfPostback, PTL

LEMMA NoneNext ==
    ASSUME NEW p, ~Converted(p)'
    PROVE  StatusOf(p)' = "NONE" /\ PointsOf(p)' = "none"
  BY DEF StatusOf, PointsOf

\* The abstract step, told postback by postback.
LEMMA OneMoves ==
    ASSUME NEW p \in PostbackIds, NEW to, NEW where,
           \A q \in PostbackIds :
               /\ StatusOf(q)' = IF q = p THEN to ELSE StatusOf(q)
               /\ PointsOf(q)' = IF q = p THEN where ELSE PointsOf(q)
    PROVE  /\ [q \in PostbackIds |-> StatusOf(q)]' = [[q \in PostbackIds |-> StatusOf(q)] EXCEPT ![p] = to]
           /\ [q \in PostbackIds |-> PointsOf(q)]' = [[q \in PostbackIds |-> PointsOf(q)] EXCEPT ![p] = where]
<1>1. [q \in PostbackIds |-> StatusOf(q)'] = [[q \in PostbackIds |-> StatusOf(q)] EXCEPT ![p] = to]
  OBVIOUS
<1>2. [q \in PostbackIds |-> PointsOf(q)'] = [[q \in PostbackIds |-> PointsOf(q)] EXCEPT ![p] = where]
  OBVIOUS
<1> QED
  BY <1>1, <1>2

LEMMA LifecycleStill ==
    ASSUME \A p \in PostbackIds : StatusOf(p)' = StatusOf(p) /\ PointsOf(p)' = PointsOf(p)
    PROVE  UNCHANGED Lifecycle!vars
  BY DEF Lifecycle!vars

LEMMA Untouched ==
    ASSUME UNCHANGED <<conversions, ledger>>
    PROVE  UNCHANGED Lifecycle!vars
<1>1. \A p : StatusOf(p)' = StatusOf(p) /\ PointsOf(p)' = PointsOf(p)
  BY DEF StatusOf, PointsOf, Converted, ConversionOf, ConversionIds, PlaceOf, ActedOn, RowIds
<1> QED
  BY <1>1, LifecycleStill

\* A write moves the points of the credit it acts on, and of no other.
LEMMA PlaceKept ==
    ASSUME LedgerTypeOK, NEW row \in Row, Write(row), NEW k \in Nat, k = NoRow \/ row.source # k
    PROVE  PlaceOf(k)' = PlaceOf(k)
<1>1. CASE k = NoRow
  BY <1>1 DEF PlaceOf
<1>2. CASE row.source # k
  <2>1. /\ ActedOn(k, {"CHARGEBACK_DEBIT"})' = ActedOn(k, {"CHARGEBACK_DEBIT"})
        /\ ActedOn(k, {"REWARD_MATURATION"})' = ActedOn(k, {"REWARD_MATURATION"})
    BY <1>2, ActedOnWrite
  <2> QED
    BY <2>1 DEF PlaceOf
<1> QED
  BY <1>1, <1>2

LEMMA PlaceMoved ==
    ASSUME LedgerTypeOK, NEW row \in Row, Write(row), NEW k \in Nat, k # NoRow, row.source = k
    PROVE  /\ row.type = "CHARGEBACK_DEBIT" => PlaceOf(k)' = "taken"
           /\ row.type = "REWARD_MATURATION" =>
                 PlaceOf(k)' = IF PlaceOf(k) = "taken" THEN "taken" ELSE "free"
<1>1. CASE row.type = "CHARGEBACK_DEBIT"
  <2>1. ActedOn(k, {"CHARGEBACK_DEBIT"})'
    BY <1>1, ActedOnWrite
  <2> QED
    BY <1>1, <2>1 DEF PlaceOf
<1>2. CASE row.type = "REWARD_MATURATION"
  <2>1. ActedOn(k, {"CHARGEBACK_DEBIT"})' = ActedOn(k, {"CHARGEBACK_DEBIT"})
    BY <1>2, ActedOnWrite
  <2>2. ActedOn(k, {"REWARD_MATURATION"})'
    BY <1>2, ActedOnWrite
  <2> QED
    BY <1>2, <2>1, <2>2 DEF PlaceOf
<1> QED
  BY <1>1, <1>2

LEMMA StillAnswered ==
    ASSUME UNCHANGED conversions, NEW p
    PROVE  StatusOf(p)' = StatusOf(p)
  BY DEF StatusOf, Converted, ConversionOf, ConversionIds

LEMMA SweepMatureStep ==
    ASSUME IInv, IInv', SweepMature
    PROVE  Lifecycle!Next \/ UNCHANGED Lifecycle!vars
<1>1. PICK i \in RowIds : i = sweep /\ ledger[i].type = "CONVERSION_CREDIT" /\ ledger[i].hold = "timed"
  BY DEF SweepMature, IInv, HandlersSound, SweepSound
<1>2. PICK row \in Row : row = MaturationRow(i)
  BY <1>1, MaturationRowType DEF IInv, TablesOK
<1>3. Write(row) /\ row.type = "REWARD_MATURATION" /\ row.source = i
  BY <1>1, <1>2 DEF SweepMature, MaturationRow
<1>4. UNCHANGED conversions /\ ConversionIds' = ConversionIds /\ LedgerTypeOK /\ i \in Nat \ {NoRow}
  BY DEF SweepMature, ConversionIds, IInv, TablesOK, RowIds, NoRow
<1>5. PICK c \in ConversionIds : \A d \in ConversionIds : conversions[d].credit = i <=> d = c
  BY <1>1 DEF IInv, PaidOncePerPostback, CreditRows
<1>6. PICK p \in PostbackIds : p = conversions[c].postback
  BY ConversionTypes DEF Conversion
<1>7. Own /\ Own'
  BY OwnBoth
<1>8. PointsOf(p) = PlaceOf(i) /\ StatusOf(p) = conversions[c].status
  BY <1>5, <1>6, <1>7 DEF Own
<1>9. PointsOf(p)' = IF PlaceOf(i) = "taken" THEN "taken" ELSE "free"
  <2>1. PlaceOf(i)' = IF PlaceOf(i) = "taken" THEN "taken" ELSE "free"
    BY <1>3, <1>4, PlaceMoved
  <2>2. PointsOf(p)' = PlaceOf(i)'
    BY <1>4, <1>5, <1>6, <1>7 DEF Own, PlaceOf, ActedOn
  <2> QED
    BY <2>1, <2>2
<1>10. ASSUME NEW q \in PostbackIds, q # p PROVE PointsOf(q)' = PointsOf(q)
  <2>1. CASE ~Converted(q)
    <3>1. ~Converted(q)'
      BY <1>4, <2>1 DEF Converted
    <3> QED
      BY <2>1, <3>1, OfNone, NoneNext
  <2>2. CASE Converted(q)
    <3>1. PICK d \in ConversionIds : q = conversions[d].postback
      BY <2>2 DEF Converted
    <3>2. PICK k \in Nat : k = conversions[d].credit
      BY ConversionTypes DEF Conversion
    <3>3. k # i
      BY <1>5, <1>6, <1>10, <3>1, <3>2
    <3>4. PlaceOf(k)' = PlaceOf(k)
      BY <1>3, <1>4, <3>3, PlaceKept
    <3>5. PointsOf(q) = PlaceOf(k)
      BY <1>7, <3>1, <3>2 DEF Own
    <3>6. PointsOf(q)' = PlaceOf(k)'
      BY <1>4, <1>7, <3>1, <3>2 DEF Own, PlaceOf, ActedOn
    <3> QED
      BY <3>4, <3>5, <3>6
  <2> QED
    BY <2>1, <2>2
<1>11. \A q \in PostbackIds : StatusOf(q)' = StatusOf(q)
  BY <1>4, StillAnswered
<1>12. CASE PlaceOf(i) = "waiting"
  <2>1. StatusOf(p) = "CREDITED"
    <3>1. PICK s \in ConversionStatuses : s = conversions[c].status
      BY ConversionTypes DEF Conversion
    <3>2. CreditStands(i, s)
      BY <1>4, <1>5, <3>1, ConversionTypes
    <3>3. ~ActedOn(i, {"CHARGEBACK_DEBIT"})
      BY <1>4, <1>12 DEF PlaceOf
    <3> QED
      BY <1>1, <1>8, <3>1, <3>2, <3>3 DEF CreditStands, ConversionStatuses
  <2>2. /\ [q \in PostbackIds |-> StatusOf(q)]' = [q \in PostbackIds |-> StatusOf(q)]
        /\ [q \in PostbackIds |-> PointsOf(q)]' = [[q \in PostbackIds |-> PointsOf(q)] EXCEPT ![p] = "free"]
    <3>1. [q \in PostbackIds |-> StatusOf(q)'] = [q \in PostbackIds |-> StatusOf(q)]
      BY <1>11
    <3>2. \A q \in PostbackIds : PointsOf(q)' = IF q = p THEN "free" ELSE PointsOf(q)
      BY <1>9, <1>10, <1>12
    <3>3. [q \in PostbackIds |-> PointsOf(q)'] = [[q \in PostbackIds |-> PointsOf(q)] EXCEPT ![p] = "free"]
      BY <3>2
    <3> QED
      BY <3>1, <3>3
  <2>3. Lifecycle!Mature(p)
    BY <1>8, <1>12, <2>1, <2>2 DEF Lifecycle!Mature
  <2> QED
    BY <2>3 DEF Lifecycle!Next
<1>13. CASE PlaceOf(i) # "waiting"
  <2>1. PlaceOf(i) \in {"taken", "free"}
    BY <1>4, <1>13 DEF PlaceOf
  <2>2. \A q \in PostbackIds : PointsOf(q)' = PointsOf(q)
    BY <1>8, <1>9, <1>10, <2>1
  <2> QED
    BY <1>11, <2>2, LifecycleStill
<1> QED
  BY <1>12, <1>13

\* A conversion that no write touches keeps its postback's status and points.
LEMMA OthersKept ==
    ASSUME IInv, IInv', NEW row \in Row, Write(row) \/ UNCHANGED ledger,
           NEW c \in ConversionIds, c \in ConversionIds',
           SameBut(conversions'[c], conversions[c]),
           Write(row) /\ conversions[c].credit # NoRow => row.source # conversions[c].credit,
           NEW q, q = conversions[c].postback
    PROVE  /\ PointsOf(q)' = PointsOf(q)
           /\ StatusOf(q) = conversions[c].status /\ StatusOf(q)' = conversions'[c].status
<1>1. Own /\ Own'
  BY OwnBoth
<1>2. PICK k \in Nat : k = conversions[c].credit /\ k = conversions'[c].credit
  BY ConversionTypes DEF Conversion, SameBut
<1>3. q = conversions[c].postback /\ q = conversions'[c].postback
  BY DEF SameBut
<1>4. PlaceOf(k)' = PlaceOf(k)
  <2>1. CASE Write(row)
    BY <1>2, <2>1, PlaceKept DEF IInv, TablesOK
  <2>2. CASE UNCHANGED ledger
    BY <2>2 DEF PlaceOf, ActedOn, RowIds
  <2> QED
    BY <2>1, <2>2
<1>5. PointsOf(q) = PlaceOf(k) /\ StatusOf(q) = conversions[c].status
  BY <1>1, <1>2, <1>3 DEF Own
<1>6. PointsOf(q)' = PlaceOf(k)' /\ StatusOf(q)' = conversions'[c].status
  BY <1>1, <1>2, <1>3 DEF Own, PlaceOf, ActedOn
<1> QED
  BY <1>3, <1>4, <1>5, <1>6

\* The same for a conversion whose credit the write acts on.
LEMMA ActedOnMoves ==
    ASSUME IInv, IInv', NEW row \in Row, Write(row),
           NEW c \in ConversionIds, c \in ConversionIds',
           SameBut(conversions'[c], conversions[c]),
           conversions[c].credit # NoRow, row.source = conversions[c].credit,
           NEW q, q = conversions[c].postback
    PROVE  /\ PointsOf(q) = PlaceOf(conversions[c].credit)
           /\ row.type = "CHARGEBACK_DEBIT" => PointsOf(q)' = "taken"
           /\ row.type = "REWARD_MATURATION" =>
                 PointsOf(q)' = IF PointsOf(q) = "taken" THEN "taken" ELSE "free"
           /\ StatusOf(q) = conversions[c].status /\ StatusOf(q)' = conversions'[c].status
<1>1. Own /\ Own'
  BY OwnBoth
<1>2. PICK k \in Nat : k = conversions[c].credit /\ k = conversions'[c].credit
  BY ConversionTypes DEF Conversion, SameBut
<1>3. q = conversions[c].postback /\ q = conversions'[c].postback
  BY DEF SameBut
<1>4. /\ row.type = "CHARGEBACK_DEBIT" => PlaceOf(k)' = "taken"
      /\ row.type = "REWARD_MATURATION" =>
            PlaceOf(k)' = IF PlaceOf(k) = "taken" THEN "taken" ELSE "free"
  BY <1>2, PlaceMoved DEF IInv, TablesOK
<1>5. PointsOf(q) = PlaceOf(k) /\ StatusOf(q) = conversions[c].status
  BY <1>1, <1>2, <1>3 DEF Own
<1>6. PointsOf(q)' = PlaceOf(k)' /\ StatusOf(q)' = conversions'[c].status
  BY <1>1, <1>2, <1>3 DEF Own, PlaceOf, ActedOn
<1> QED
  BY <1>2, <1>3, <1>4, <1>5, <1>6

LEMMA ResolveHoldStep ==
    ASSUME IInv, IInv', NEW a \in Admins, ResolveHold(a)
    PROVE  Lifecycle!Next
<1>1. PICK c \in ConversionIds, k \in Nat, s \in {"CREDITED", "REJECTED"}, row \in Row :
         Resolved(a, c, k, s, row)
  BY ResolveHoldDoes
<1>2. PICK p \in PostbackIds : p = conversions[c].postback
  BY ConversionTypes DEF Conversion
<1>3. /\ k = conversions[c].credit /\ conversions[c].status = "HELD" /\ conversions'[c].status = s
      /\ ConversionIds' = ConversionIds
      /\ \A d \in ConversionIds : d # c => conversions'[d].status = conversions[d].status
      /\ \A d \in ConversionIds : SameBut(conversions'[d], conversions[d])
      /\ k # NoRow => Write(row)
      /\ k = NoRow => UNCHANGED ledger
      /\ row.source = k
      /\ row.type = IF s = "CREDITED" THEN "REWARD_MATURATION" ELSE "CHARGEBACK_DEBIT"
      /\ k # NoRow => ~ActedOn(k, {"REWARD_MATURATION", "CHARGEBACK_DEBIT"})
  BY <1>1 DEF Resolved
<1>4. ASSUME NEW q \in PostbackIds, q # p
      PROVE  StatusOf(q)' = StatusOf(q) /\ PointsOf(q)' = PointsOf(q)
  <2>1. CASE ~Converted(q)
    <3>1. ~Converted(q)'
      BY <1>3, <2>1 DEF Converted, SameBut
    <3> QED
      BY <2>1, <3>1, OfNone, NoneNext
  <2>2. CASE Converted(q)
    <3>1. PICK d \in ConversionIds : q = conversions[d].postback
      BY <2>2 DEF Converted
    <3>2. d # c
      BY <1>2, <1>4, <3>1
    <3>3. conversions[d].credit # NoRow => conversions[d].credit # k
      BY <1>3, <3>2, CreditUnique
    <3>4. conversions'[d].status = conversions[d].status
      BY <1>3, <3>2
    <3> QED
      BY <1>3, <3>1, <3>3, <3>4, OthersKept
  <2> QED
    BY <2>1, <2>2
<1> DEFINE where == IF s = "CREDITED" THEN "free" ELSE "taken"
<1>6. /\ StatusOf(p) = "HELD" /\ StatusOf(p)' = s
      /\ PointsOf(p) \in {"none", "waiting"}
      /\ PointsOf(p)' = IF PointsOf(p) = "none" THEN "none" ELSE where
  <2>1. CASE k = NoRow
    <3>1. PointsOf(p)' = PointsOf(p) /\ StatusOf(p) = "HELD" /\ StatusOf(p)' = s
      BY <1>2, <1>3, <2>1, OthersKept
    <3>2. PointsOf(p) = "none"
      BY <1>2, <1>3, <2>1, OwnBoth DEF Own, PlaceOf
    <3> QED
      BY <3>1, <3>2
  <2>2. CASE k # NoRow
    <3>1. PointsOf(p) = PlaceOf(k)
      BY <1>2, <1>3, <2>2, ActedOnMoves
    <3>2. PlaceOf(k) = "waiting"
      BY <1>3, <2>2 DEF PlaceOf, ActedOn
    <3> QED
      BY <1>2, <1>3, <2>2, <3>1, <3>2, ActedOnMoves
  <2> QED
    BY <2>1, <2>2
<1>7. Lifecycle!Decide(p, s, where)
  <2> HIDE DEF where
  <2>1. \A q \in PostbackIds :
           /\ StatusOf(q)' = IF q = p THEN s ELSE StatusOf(q)
           /\ PointsOf(q)' = IF q = p THEN (IF PointsOf(p) = "none" THEN "none" ELSE where)
                                      ELSE PointsOf(q)
    BY <1>4, <1>6
  <2> QED
    BY <1>6, <2>1, OneMoves DEF Lifecycle!Decide
<1> QED
  BY <1>7 DEF Lifecycle!Next, Lifecycle!Clear, Lifecycle!Confirm

\* The postback of a run that commits enters the life cycle; one its chargeback
\* means is reversed; the others stay as they are.
LEMMA CommitMoves ==
    ASSUME IInv, IInv', NEW w \in Workers, Commit(w),
           NEW t \in Nat, t = workers[w].target, NEW h \in Holds, h = workers[w].hold,
           NEW p \in PostbackIds, p = workers[w].postback
    PROVE  /\ StatusOf(p) = "NONE" /\ PointsOf(p) = "none"
           /\ StatusOf(p)' = workers[w].status
           /\ PointsOf(p)' = IF h = "none" THEN "none" ELSE "waiting"
           /\ \A q \in PostbackIds \ {p} :
                 (t = NoConversion \/ q # conversions[t].postback) =>
                    StatusOf(q)' = StatusOf(q) /\ PointsOf(q)' = PointsOf(q)
           /\ t # NoConversion =>
                 /\ t \in ConversionIds /\ h = "none"
                 /\ \E q \in PostbackIds \ {p} :
                       /\ q = conversions[t].postback
                       /\ StatusOf(q) # "NONE" /\ StatusOf(q)' = "REVERSED"
                       /\ PointsOf(q)' = IF PointsOf(q) = "none" THEN "none" ELSE "taken"
<1>1. workers[w].pc = "committing" /\ workers[w] \in Persisting /\ Plans(workers[w])
  BY RunTypes DEF Commit, PlanningSteps
<1>2. ~Converted(p) /\ StatusOf(p) = "NONE" /\ PointsOf(p) = "none"
  BY <1>1, OfNone DEF IInv, HandlersSound, KeysHeld, Inserted
<1>3. PICK credit \in Nat : credit = IF h = "none" THEN NoRow ELSE Len(ledger')
  BY DEF NoRow, IInv, TablesOK, LedgerTypeOK
<1>4. PICK n \in Nat \ {0} :
         /\ n \notin ConversionIds
         /\ ConversionIds' = ConversionIds \cup {n}
         /\ \A d \in ConversionIds :
               /\ SameBut(conversions'[d], conversions[d])
               /\ conversions'[d].status = IF d = t THEN "REVERSED" ELSE conversions[d].status
         /\ conversions'[n].postback = p /\ conversions'[n].status = workers[w].status
         /\ conversions'[n].credit = credit
  <2>1. PICK n : n = Len(conversions) + 1
    OBVIOUS
  <2>2. credit = IF workers[w].hold = "none" THEN NoRow ELSE Len(ledger')
    BY <1>3
  <2>3. /\ n \in Nat \ {0} /\ n \notin ConversionIds
        /\ ConversionIds' = ConversionIds \cup {n}
        /\ \A d \in ConversionIds :
              /\ SameBut(conversions'[d], conversions[d])
              /\ conversions'[d].status = IF d = t THEN "REVERSED" ELSE conversions[d].status
        /\ conversions'[n] = [postback |-> workers[w].postback,
                              user |-> PayloadOf[workers[w].postback].user,
                              click |-> PayloadOf[workers[w].postback].click,
                              isReversal |-> t # NoConversion, status |-> workers[w].status,
                              reversalOf |-> t, credit |-> credit]
    BY <2>1, <2>2, CommitConversions
  <2> QED
    BY <2>3
<1>5. PICK row \in Row, v \in Nat :
         \/ h # "none" /\ t = NoConversion /\ Write(row) /\ row.source = NoRow
         \/ /\ h = "none" /\ t # NoConversion /\ v = conversions[t].credit /\ v # NoRow
            /\ Write(row) /\ row.type = "CHARGEBACK_DEBIT" /\ row.source = v
         \/ /\ h = "none" /\ UNCHANGED ledger
            /\ t # NoConversion => conversions[t].credit = NoRow
  <2>1. workers[w].reverses \in Nat
    BY <1>1 DEF Persisting
  <2>2. [user |-> PayloadOf[p].user, type |-> "MANUAL_ADJUSTMENT", amount |-> 0, pending |-> 0,
         available |-> 0, locked |-> 0, source |-> NoRow, hold |-> "none"] \in Row
    BY <1>1, RunTypes DEF Row, RowTypes, Holds, NoRow
  <2> QED
    BY <2>1, <2>2, CommitLedger
<1>6. Write(row) \/ UNCHANGED ledger
  BY <1>5
<1>7. StatusOf(p)' = workers[w].status /\ PointsOf(p)' = IF h = "none" THEN "none" ELSE "waiting"
  <2>1. n \in ConversionIds'
    BY <1>4
  <2>2. StatusOf(p)' = workers[w].status /\ PointsOf(p)' = PlaceOf(credit)'
    BY <1>4, <2>1, OwnBoth DEF Own, PlaceOf, ActedOn
  <2>3. CASE h = "none"
    BY <1>3, <2>2, <2>3 DEF PlaceOf
  <2>4. CASE h # "none"
    <3>1. Write(row) /\ credit = Len(ledger') /\ credit # NoRow
      BY <1>3, <1>5, <2>4, WriteLedger DEF IInv, TablesOK, NoRow
    <3>2. ~ActedOn(credit, {"CHARGEBACK_DEBIT"})' /\ ~ActedOn(credit, {"REWARD_MATURATION"})'
      BY <3>1, FreshUntouched DEF IInv, TablesOK
    <3> QED
      BY <2>2, <2>4, <3>1, <3>2 DEF PlaceOf
  <2> QED
    BY <2>3, <2>4
<1>8. ASSUME NEW q \in PostbackIds \ {p}, t = NoConversion \/ q # conversions[t].postback
      PROVE  StatusOf(q)' = StatusOf(q) /\ PointsOf(q)' = PointsOf(q)
  <2>1. CASE ~Converted(q)
    <3>1. ~Converted(q)'
      BY <1>4, <2>1 DEF Converted, SameBut
    <3> QED
      BY <2>1, <3>1, OfNone, NoneNext
  <2>2. CASE Converted(q)
    <3>1. PICK d \in ConversionIds : q = conversions[d].postback
      BY <2>2 DEF Converted
    <3>2. d # t /\ conversions'[d].status = conversions[d].status
      BY <1>4, <1>8, <3>1 DEF NoConversion, ConversionIds
    <3>3. Write(row) /\ conversions[d].credit # NoRow => row.source # conversions[d].credit
      <4>1. t # NoConversion => t \in ConversionIds
        BY <1>1 DEF Plans
      <4> QED
        BY <1>5, <3>2, <4>1, CreditUnique DEF Write
    <3> QED
      BY <1>4, <1>6, <3>1, <3>2, <3>3, OthersKept
  <2> QED
    BY <2>1, <2>2
<1>9. ASSUME t # NoConversion
      PROVE  /\ t \in ConversionIds /\ h = "none"
             /\ \E q \in PostbackIds \ {p} :
                   /\ q = conversions[t].postback
                   /\ StatusOf(q) # "NONE" /\ StatusOf(q)' = "REVERSED"
                   /\ PointsOf(q)' = IF PointsOf(q) = "none" THEN "none" ELSE "taken"
  <2>1. t \in ConversionIds /\ h = "none"
    BY <1>1, <1>9 DEF Plans
  <2>2. PICK q \in PostbackIds : q = conversions[t].postback
    BY <2>1, ConversionTypes DEF Conversion
  <2>3. q # p
    BY <1>2, <2>1, <2>2 DEF Converted
  <2>4. conversions[t].status # "NONE" /\ conversions'[t].status = "REVERSED"
    BY <1>4, <2>1, ConversionTypes DEF Conversion, ConversionStatuses
  <2>5. PICK k \in Nat : k = conversions[t].credit
    BY <2>1, ConversionTypes DEF Conversion
  <2>6. CASE k = NoRow
    <3>1. UNCHANGED ledger
      BY <1>5, <1>9, <2>1, <2>5, <2>6
    <3>2. PointsOf(q)' = PointsOf(q) /\ StatusOf(q) # "NONE" /\ StatusOf(q)' = "REVERSED"
      BY <1>4, <2>1, <2>2, <2>4, <2>5, <2>6, <3>1, OthersKept
    <3>3. PointsOf(q) = "none"
      BY <2>1, <2>2, <2>5, <2>6, OwnBoth DEF Own, PlaceOf
    <3> QED
      BY <2>1, <2>2, <2>3, <3>2, <3>3
  <2>7. CASE k # NoRow
    <3>1. Write(row) /\ row.type = "CHARGEBACK_DEBIT" /\ row.source = k
      BY <1>5, <1>9, <2>1, <2>5, <2>7
    <3>2. /\ PointsOf(q) = PlaceOf(k) /\ PointsOf(q)' = "taken"
          /\ StatusOf(q) # "NONE" /\ StatusOf(q)' = "REVERSED"
      BY <1>4, <2>1, <2>2, <2>4, <2>5, <2>7, <3>1, ActedOnMoves
    <3>3. PlaceOf(k) # "none"
      BY <2>7 DEF PlaceOf
    <3> QED
      BY <2>1, <2>2, <2>3, <3>2, <3>3
  <2> QED
    BY <2>6, <2>7
<1> QED
  BY <1>2, <1>7, <1>8, <1>9

LEMMA CommitStep ==
    ASSUME IInv, IInv', NEW w \in Workers, Commit(w)
    PROVE  Lifecycle!Next
<1>1. workers[w].pc = "committing" /\ workers[w] \in Persisting /\ Plans(workers[w])
  BY RunTypes DEF Commit, PlanningSteps
<1>2. PICK t \in Nat, h \in Holds, p \in PostbackIds, s \in ConversionStatuses \ {"REVERSED"} :
         t = workers[w].target /\ h = workers[w].hold /\ p = workers[w].postback
         /\ s = workers[w].status
  BY <1>1 DEF Persisting, Plans
<1>3. /\ s = "CREDITED" => h = "timed"
      /\ t = NoConversion /\ h = "timed" => s = "CREDITED"
      /\ t = NoConversion /\ h = "indefinite" => s = "HELD"
  BY <1>1, <1>2 DEF Plans
<1>4. /\ StatusOf(p) = "NONE" /\ PointsOf(p) = "none" /\ StatusOf(p)' = s
      /\ PointsOf(p)' = IF h = "none" THEN "none" ELSE "waiting"
      /\ \A q \in PostbackIds \ {p} :
            (t = NoConversion \/ q # conversions[t].postback) =>
               StatusOf(q)' = StatusOf(q) /\ PointsOf(q)' = PointsOf(q)
      /\ t # NoConversion =>
            /\ h = "none"
            /\ \E q \in PostbackIds \ {p} :
                  /\ q = conversions[t].postback
                  /\ StatusOf(q) # "NONE" /\ StatusOf(q)' = "REVERSED"
                  /\ PointsOf(q)' = IF PointsOf(q) = "none" THEN "none" ELSE "taken"
  BY <1>2, CommitMoves
<1>5. h = "none" => s \in Lifecycle!Unpaid
  BY <1>2, <1>3 DEF Lifecycle!Unpaid, ConversionStatuses
<1>6. CASE t = NoConversion
  <2> DEFINE where == IF h = "none" THEN "none" ELSE "waiting"
  <2>1. Lifecycle!Enter(p, s, where)
    <3> HIDE DEF where
    <3>1. \A q \in PostbackIds :
             /\ StatusOf(q)' = IF q = p THEN s ELSE StatusOf(q)
             /\ PointsOf(q)' = IF q = p THEN where ELSE PointsOf(q)
      BY <1>4, <1>6 DEF where
    <3> QED
      BY <1>4, <3>1, OneMoves DEF Lifecycle!Enter
  <2>2. CASE h = "none"
    <3>1. Lifecycle!Note(p)
      BY <1>5, <2>1, <2>2 DEF Lifecycle!Note
    <3> QED
      BY <3>1 DEF Lifecycle!Next
  <2>3. CASE h # "none"
    <3>1. s \in {"CREDITED", "HELD"}
      BY <1>2, <1>3, <1>6, <2>3 DEF Holds
    <3>2. Lifecycle!Credit(p)
      BY <2>1, <2>3, <3>1 DEF Lifecycle!Credit
    <3> QED
      BY <3>2 DEF Lifecycle!Next
  <2> QED
    BY <2>2, <2>3
<1>7. CASE t # NoConversion
  <2>1. PICK q \in PostbackIds \ {p} :
           /\ q = conversions[t].postback
           /\ StatusOf(q) # "NONE" /\ StatusOf(q)' = "REVERSED"
           /\ PointsOf(q)' = IF PointsOf(q) = "none" THEN "none" ELSE "taken"
    BY <1>4, <1>7
  <2>2. \A r \in PostbackIds :
           /\ StatusOf(r)' = IF r = q THEN "REVERSED" ELSE IF r = p THEN s ELSE StatusOf(r)
           /\ PointsOf(r)' = IF r = q THEN (IF PointsOf(q) = "none" THEN "none" ELSE "taken")
                                      ELSE PointsOf(r)
    BY <1>4, <1>7, <2>1
  <2>3. [r \in PostbackIds |-> StatusOf(r)'] =
           [[r \in PostbackIds |-> StatusOf(r)] EXCEPT ![p] = s, ![q] = "REVERSED"]
    BY <2>1, <2>2
  <2>4. [r \in PostbackIds |-> PointsOf(r)'] =
           [[r \in PostbackIds |-> PointsOf(r)] EXCEPT ![q] = IF @ = "none" THEN "none" ELSE "taken"]
    BY <2>1, <2>2
  <2>5. Lifecycle!TakeBack(p, q)
    BY <1>4, <1>5, <1>7, <2>1, <2>3, <2>4 DEF Lifecycle!TakeBack
  <2> QED
    BY <2>1, <2>5 DEF Lifecycle!Next
<1> QED
  BY <1>6, <1>7

LEMMA LifecycleStep ==
    ASSUME IInv, IInv', [Next]_vars
    PROVE  [Lifecycle!Next]_(Lifecycle!vars)
<1>1. CASE \E w \in Workers : Commit(w)
  BY <1>1, CommitStep
<1>2. CASE \E a \in Admins : ResolveHold(a)
  BY <1>2, ResolveHoldStep
<1>3. CASE SweepMature
  BY <1>3, SweepMatureStep
<1>4. CASE /\ \A w \in Workers : ~Commit(w)
           /\ \A a \in Admins : ~ResolveHold(a)
           /\ ~SweepMature
  BY <1>4, OthersStill, Untouched
<1> QED
  BY <1>1, <1>2, <1>3, <1>4

LEMMA LifecycleInit == Init => Lifecycle!Init
<1> SUFFICES ASSUME Init PROVE Lifecycle!Init
  OBVIOUS
<1>1. \A p : ~Converted(p)
  BY DEF Init, Converted, ConversionIds
<1> QED
  BY <1>1, OfNone DEF Lifecycle!Init

\* Conversions implements the life cycle its statuses promise: whichever runs,
\* reviewers, chargebacks and sweeps race, a step moves the status and the points
\* of a conversion together, as ConversionLifecycle allows, or moves neither.
THEOREM Implements == Spec => ImplementsLifecycle
<1>1. Init => Lifecycle!Init
  BY LifecycleInit
<1>2. IInv /\ IInv' /\ [Next]_vars => [Lifecycle!Next]_(Lifecycle!vars)
  BY LifecycleStep
<1> QED
  BY <1>1, <1>2, Inductive, PTL DEF Spec, ImplementsLifecycle, Lifecycle!Spec
=============================================================================
