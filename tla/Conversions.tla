---------------------------- MODULE Conversions ----------------------------
(***************************************************************************)
(* From an archived postback to points: the intake archive, the postbacks  *)
(* queue with its retries and stalled jobs, the workers that attribute a   *)
(* postback and persist its conversion, the reviewers who resolve held     *)
(* conversions, and the maturation sweep, all over the reward ledger.      *)
(*                                                                         *)
(* A worker's transaction locks the user's balance, inserts the conversion *)
(* (unique on postback_id), updates the conversion a chargeback takes back *)
(* and commits; each wait is a step.  Which transaction holds which lock   *)
(* follows from where the handlers stand.  What a worker read before its   *)
(* transaction may be stale by then.                                       *)
(*                                                                         *)
(* Payout movements are left to Payouts.  Matching a sub_id to its click,  *)
(* the registry and the rates are abstracted to whether attribution        *)
(* succeeds, which the payload does not determine (windows close, adapters *)
(* and rates change).                                                      *)
(***************************************************************************)
EXTENDS RewardLedger

CONSTANTS
    PostbackIds,     \* (provider, external transaction id) pairs
    PayloadOf,       \* what the provider says of each event
    Workers,         \* slots for job runs, in worker processes of their own
    Admins,
    MaxAttempts,     \* attempts of a job, from defaultJobOptions
    MaxStalled,      \* how often BullMQ gives a stalled job back to the queue
    MaxFaults        \* bound on the infrastructure failures of a behaviour

\* A payload names its click's user and click, the points the payout is worth,
\* the provider's own status, and whether it takes an earlier conversion back.
Reported == {"approved", "pending", "rejected"}

ASSUME ConversionsAssumption ==
    /\ PayloadOf \in [PostbackIds -> [user : Users, click : Nat, points : Nat,
                                      status : Reported, isReversal : BOOLEAN]]
    /\ MaxAttempts \in Nat \ {0} /\ MaxStalled \in Nat /\ MaxFaults \in Nat

VARIABLES
    postbacks,    \* provider_postbacks, the state of each archived event
    jobs,         \* the postbacks queue, one job per row (jobId)
    workers,      \* where each concurrent job run stands
    conversions,  \* conversions; a row's id is its position
    reviews,      \* where each administrator's review transaction stands
    sweep,        \* the credit the maturation sweep has checked, or NoRow
    faults        \* infrastructure failures so far

pipelineVars == <<postbacks, jobs, workers, conversions, reviews, sweep, faults>>
vars == <<ledgerVars, pipelineVars>>

-----------------------------------------------------------------------------
\* The shapes of the rows, and of a job.
States == {"NONE", "RECEIVED", "PROCESSED", "QUARANTINED", "FAILED"}
ConversionStatuses == {"PENDING", "ATTRIBUTED", "CREDITED", "HELD", "REJECTED", "REVERSED"}
FraudActions == {"ALLOW", "HOLD", "REVIEW", "BLOCK"}

Archived(p) == postbacks[p] # "NONE"

NoConversion == 0
ConversionIds == 1 .. Len(conversions)

Conversion ==
    [postback : PostbackIds, user : Users, click : Nat, isReversal : BOOLEAN,
     status : ConversionStatuses, reversalOf : Nat, credit : Nat]

\* A job waits, runs for the worker that holds its lock, or is finished.
Job == [state : {"none", "waiting", "active", "done", "failed"},
        holder : Workers \cup {"nobody"}, failures : Nat, stalls : Nat]
NoJob == [state |-> "none", holder |-> "nobody", failures |-> 0, stalls |-> 0]

Idle == [pc |-> "idle"]
Free == [pc |-> "free"]

-----------------------------------------------------------------------------
(* Decisions.                                                              *)

\* What the provider said, the account and the fraud rules make one status;
\* action is "none" where scoring did not run or failed.
ResolveStatus(reported, isActive, action) ==
    IF reported = "rejected" THEN "REJECTED"
    ELSE IF reported = "pending" THEN "PENDING"
    ELSE IF ~isActive THEN "HELD"
    ELSE IF action = "BLOCK" THEN "REJECTED"
    ELSE IF action \in {"HOLD", "REVIEW"} THEN "HELD"
    ELSE "ATTRIBUTED"

\* The hold of the credit a conversion earns, "none" when it earns none.
PlanCredit(status, points, isReversal) ==
    IF isReversal \/ points = 0 THEN "none"
    ELSE IF status = "ATTRIBUTED" THEN "timed"
    ELSE IF status = "HELD" THEN "indefinite"
    ELSE "none"

StoredStatus(status, hold) == IF hold = "timed" THEN "CREDITED" ELSE status

\* The conversions a chargeback may mean: same click, same payout.
ReversalCandidates(payload) ==
    {c \in ConversionIds :
        /\ conversions[c].click = payload.click
        /\ ~conversions[c].isReversal
        /\ conversions[c].status # "REVERSED"
        /\ PayloadOf[conversions[c].postback].points = payload.points}

\* Statuses an attribution can come to, whatever the account and the score.
Outcomes(payload) ==
    {ResolveStatus(payload.status, isActive, action) :
        isActive \in BOOLEAN,
        action \in IF payload.isReversal THEN {"none"} ELSE FraudActions \cup {"none"}}

-----------------------------------------------------------------------------
(* Locks.                                                                  *)

\* Run w's open transaction holds the balance row of user u.
HoldsBalance(w, u) ==
    /\ workers[w].pc \in {"inserting", "updating", "committing"}
    /\ workers[w].hold # "none" \/ workers[w].reverses # NoRow
    /\ PayloadOf[workers[w].postback].user = u

BalanceFree(u) == \A w \in Workers : ~HoldsBalance(w, u)

\* The row of conversion c is held FOR UPDATE by a review or was updated by a run.
ConversionFree(c) ==
    /\ \A a \in Admins : reviews[a] # Free => reviews[a].conversion # c
    /\ \A w \in Workers : workers[w].pc = "committing" => workers[w].target # c

\* No other open transaction has inserted a conversion for this postback.
KeyFree(p) ==
    \A w \in Workers : workers[w].pc \in {"updating", "committing"} => workers[w].postback # p

\* Two transactions each wait for a row the other one holds: the run for the
\* conversion a reviewer holds, the reviewer for the balance the run holds.
Deadlocked(w, a) ==
    /\ workers[w].pc = "updating"
    /\ reviews[a].pc = "moving"
    /\ reviews[a].conversion = workers[w].target
    /\ HoldsBalance(w, conversions[reviews[a].conversion].user)

-----------------------------------------------------------------------------
(* Intake.                                                                 *)

\* markProcessed, markQuarantined, markFailed: an update of the row, whatever its
\* state was.
Mark(p, state) == postbacks' = [postbacks EXCEPT ![p] = state]

\* archive: the row is durable before the job exists.  A second delivery of the
\* same event hits the unique constraint, counts, and is not enqueued.
Archive(p) ==
    /\ ~Archived(p)
    /\ postbacks' = [postbacks EXCEPT ![p] = "RECEIVED"]
    /\ UNCHANGED <<ledgerVars, jobs, workers, conversions, reviews, sweep, faults>>

\* enqueueProcessing; when it fails the row stays RECEIVED with no job.
Enqueue(p) ==
    /\ Archived(p) /\ jobs[p] = NoJob
    /\ jobs' = [jobs EXCEPT ![p].state = "waiting"]
    /\ UNCHANGED <<ledgerVars, postbacks, workers, conversions, reviews, sweep, faults>>

-----------------------------------------------------------------------------
(* A job run.                                                              *)

\* A finished run reports to the queue, which listens to the lock holder only.
Finish(w, p, state) ==
    jobs' = IF jobs[p].holder = w
            THEN [jobs EXCEPT ![p].state = state, ![p].holder = "nobody"]
            ELSE jobs

\* Mutant of Take: leaving a job whose postback was handled in the queue.
TakeOnlyReceived(w, p) ==
    /\ workers[w] = Idle
    /\ jobs[p].state = "waiting"
    /\ postbacks[p] = "RECEIVED"
    /\ jobs' = [jobs EXCEPT ![p].state = "active", ![p].holder = w]
    /\ workers' = [workers EXCEPT ![w] = [pc |-> "attributing", postback |-> p]]
    /\ UNCHANGED <<ledgerVars, postbacks, conversions, reviews, sweep, faults>>

\* process reads the row; one that is not RECEIVED is skipped.
Take(w, p) ==
    /\ workers[w] = Idle
    /\ jobs[p].state = "waiting"
    /\ IF postbacks[p] = "RECEIVED"
       THEN /\ jobs' = [jobs EXCEPT ![p].state = "active", ![p].holder = w]
            /\ workers' = [workers EXCEPT ![w] = [pc |-> "attributing", postback |-> p]]
       ELSE /\ jobs' = [jobs EXCEPT ![p].state = "done"]
            /\ UNCHANGED workers
    /\ UNCHANGED <<ledgerVars, postbacks, conversions, reviews, sweep, faults>>

\* The run goes on to its transaction, with what it has read and decided.
Persist(w, pc, status, hold, target, reverses) ==
    /\ workers' = [workers EXCEPT ![w] =
          [pc |-> pc, postback |-> workers[w].postback, status |-> status, hold |-> hold,
           target |-> target, reverses |-> reverses]]
    /\ UNCHANGED <<ledgerVars, postbacks, jobs, conversions, reviews, sweep, faults>>

\* attribute, for an event that earns: scored, resolved, planned.
AttributeConversion(w) ==
    LET payload == PayloadOf[workers[w].postback] IN
    /\ workers[w].pc = "attributing"
    /\ ~payload.isReversal
    /\ \E status \in Outcomes(payload) :
          LET hold == PlanCredit(status, payload.points, FALSE) IN
          Persist(w, IF hold = "none" THEN "inserting" ELSE "locking",
                  StoredStatus(status, hold), hold, NoConversion, NoRow)

\* attribute, for a chargeback: exactly one conversion it can mean.
AttributeReversal(w) ==
    LET payload == PayloadOf[workers[w].postback] IN
    /\ workers[w].pc = "attributing"
    /\ payload.isReversal
    /\ \E c \in ReversalCandidates(payload), status \in Outcomes(payload) :
          /\ ReversalCandidates(payload) = {c}
          /\ Persist(w, "checking", status, "none", c, NoRow)

\* No click, a closed window, another provider's click or currency, an unreadable
\* payload, and for a chargeback no candidate or more than one.
Unattributable(w) ==
    /\ workers[w].pc = "attributing"
    /\ workers' = [workers EXCEPT ![w].pc = "quarantining"]
    /\ UNCHANGED <<ledgerVars, postbacks, jobs, conversions, reviews, sweep, faults>>

\* markQuarantined updates the row whatever its state, and the job is done.
Quarantine(w) ==
    LET p == workers[w].postback IN
    /\ workers[w].pc = "quarantining"
    /\ Mark(p, "QUARANTINED")
    /\ Finish(w, p, "done")
    /\ workers' = [workers EXCEPT ![w] = Idle]
    /\ UNCHANGED <<ledgerVars, conversions, reviews, sweep, faults>>

\* reverseRewardFor: the target's credit, if it has one, and reverse's checks,
\* which come before the balance lock.
CheckReversal(w) ==
    LET credit == conversions[workers[w].target].credit IN
    /\ workers[w].pc = "checking"
    /\ credit # NoRow => CanReverse(credit)
    /\ Persist(w, IF credit = NoRow THEN "inserting" ELSE "locking",
               workers[w].status, "none", workers[w].target, credit)

LockBalance(w) ==
    /\ workers[w].pc = "locking"
    /\ BalanceFree(PayloadOf[workers[w].postback].user)
    /\ workers' = [workers EXCEPT ![w].pc = "inserting"]
    /\ UNCHANGED <<ledgerVars, postbacks, jobs, conversions, reviews, sweep, faults>>

\* The insert waits for an uncommitted row with the same key.  One that has
\* committed is a unique violation: everything is rolled back, and the run
\* answers with the winner's conversion.
Converted(p) == \E c \in ConversionIds : conversions[c].postback = p

\* Mutant of Insert: with no unique key on the postback.
InsertUnchecked(w) ==
    /\ workers[w].pc = "inserting"
    /\ workers' = [workers EXCEPT ![w].pc =
          IF workers[w].target = NoConversion THEN "committing" ELSE "updating"]
    /\ UNCHANGED <<ledgerVars, postbacks, jobs, conversions, reviews, sweep, faults>>

\* Mutant of Insert: marking the postback processed outside the transaction.
InsertMarksEarly(w) ==
    /\ workers[w].pc = "inserting"
    /\ KeyFree(workers[w].postback)
    /\ ~Converted(workers[w].postback)
    /\ postbacks' = [postbacks EXCEPT ![workers[w].postback] = "PROCESSED"]
    /\ workers' = [workers EXCEPT ![w].pc =
          IF workers[w].target = NoConversion THEN "committing" ELSE "updating"]
    /\ UNCHANGED <<ledgerVars, jobs, conversions, reviews, sweep, faults>>

Insert(w) ==
    LET p == workers[w].postback IN
    /\ workers[w].pc = "inserting"
    /\ KeyFree(p)
    /\ IF Converted(p)
       THEN /\ Finish(w, p, "done")
            /\ workers' = [workers EXCEPT ![w] = Idle]
       ELSE /\ workers' = [workers EXCEPT ![w].pc =
                  IF workers[w].target = NoConversion THEN "committing" ELSE "updating"]
            /\ UNCHANGED jobs
    /\ UNCHANGED <<ledgerVars, postbacks, conversions, reviews, sweep, faults>>

\* Mutant of UpdateOriginal: not waiting for the row.
UpdateOriginalUnlocked(w) ==
    /\ workers[w].pc = "updating"
    /\ workers' = [workers EXCEPT ![w].pc = "committing"]
    /\ UNCHANGED <<ledgerVars, postbacks, jobs, conversions, reviews, sweep, faults>>

\* UPDATE of the conversion the chargeback takes back waits for its row.
UpdateOriginal(w) ==
    /\ workers[w].pc = "updating"
    /\ ConversionFree(workers[w].target)
    /\ workers' = [workers EXCEPT ![w].pc = "committing"]
    /\ UNCHANGED <<ledgerVars, postbacks, jobs, conversions, reviews, sweep, faults>>

\* Mutant of Commit: leaving the status of the original as it was.
CommitKeepsOriginal(w) ==
    LET r == workers[w]
        payload == PayloadOf[r.postback]
    IN
    /\ r.pc = "committing"
    /\ \/ r.hold # "none" /\ Credit(payload.user, payload.points, r.hold)
       \/ r.reverses # NoRow /\ Write(ReversalRow(r.reverses))
       \/ r.hold = "none" /\ r.reverses = NoRow /\ UNCHANGED ledgerVars
    /\ conversions' = Append(conversions,
          [postback |-> r.postback, user |-> payload.user, click |-> payload.click,
           isReversal |-> r.target # NoConversion, status |-> r.status,
           reversalOf |-> r.target,
           credit |-> IF r.hold = "none" THEN NoRow ELSE Len(ledger')])
    /\ postbacks' = [postbacks EXCEPT ![r.postback] = "PROCESSED"]
    /\ Finish(w, r.postback, "done")
    /\ workers' = [workers EXCEPT ![w] = Idle]
    /\ UNCHANGED <<reviews, sweep, faults>>

\* Points, conversion, the original's status and the postback, all or nothing.
Commit(w) ==
    LET r == workers[w]
        p == r.postback
        payload == PayloadOf[p]
        row ==
            [postback |-> p, user |-> payload.user, click |-> payload.click,
             isReversal |-> r.target # NoConversion, status |-> r.status,
             reversalOf |-> r.target,
             credit |-> IF r.hold = "none" THEN NoRow ELSE Len(ledger')]
    IN
    /\ r.pc = "committing"
    /\ \/ r.hold # "none" /\ Credit(payload.user, payload.points, r.hold)
       \/ r.reverses # NoRow /\ Write(ReversalRow(r.reverses))
       \/ r.hold = "none" /\ r.reverses = NoRow /\ UNCHANGED ledgerVars
    /\ conversions' =
          Append([c \in ConversionIds |->
                    IF c = r.target THEN [conversions[c] EXCEPT !.status = "REVERSED"]
                    ELSE conversions[c]], row)
    /\ Mark(p, "PROCESSED")
    /\ Finish(w, p, "done")
    /\ workers' = [workers EXCEPT ![w] = Idle]
    /\ UNCHANGED <<reviews, sweep, faults>>

\* A run fails: the credit was reversed before, it is the victim of a deadlock,
\* or the infrastructure gave out.  Its transaction is rolled back.
Refused(w) ==
    /\ workers[w].pc = "checking"
    /\ conversions[workers[w].target].credit # NoRow
    /\ ~CanReverse(conversions[workers[w].target].credit)

Break(w) ==
    /\ \/ Refused(w) /\ UNCHANGED faults
       \/ (\E a \in Admins : Deadlocked(w, a)) /\ UNCHANGED faults
       \/ /\ workers[w].pc \notin {"idle", "quarantining", "failing"}
          /\ faults < MaxFaults /\ faults' = faults + 1
    /\ workers' = [workers EXCEPT ![w].pc = "failing"]
    /\ UNCHANGED <<ledgerVars, postbacks, jobs, conversions, reviews, sweep>>

\* markFailed updates the row whatever its state; its own failure is ignored,
\* and one of markQuarantined is not caught.  The error reaches the queue, which
\* retries while attempts are left.
GiveUp(w) ==
    LET p == workers[w].postback IN
    /\ \/ /\ workers[w].pc = "failing"
          /\ Mark(p, "FAILED")
          /\ UNCHANGED faults
       \/ /\ workers[w].pc \in {"quarantining", "failing"}
          /\ faults < MaxFaults /\ faults' = faults + 1
          /\ UNCHANGED postbacks
    /\ jobs' = IF jobs[p].holder # w THEN jobs
               ELSE [jobs EXCEPT ![p] =
                       [state |-> IF @.failures + 1 < MaxAttempts THEN "waiting" ELSE "failed",
                        holder |-> "nobody", failures |-> @.failures + 1, stalls |-> @.stalls]]
    /\ workers' = [workers EXCEPT ![w] = Idle]
    /\ UNCHANGED <<ledgerVars, conversions, reviews, sweep>>

\* The process dies: the database rolls back, the job stays active.
Crash(w) ==
    /\ workers[w] # Idle
    /\ faults < MaxFaults /\ faults' = faults + 1
    /\ workers' = [workers EXCEPT ![w] = Idle]
    /\ UNCHANGED <<ledgerVars, postbacks, jobs, conversions, reviews, sweep>>

\* A job whose lock was not renewed, its worker dead or only slow, goes back to
\* the queue, and fails when it has stalled too often.
Stall(p) ==
    /\ jobs[p].state = "active"
    /\ jobs' = [jobs EXCEPT ![p] =
          [state |-> IF @.stalls < MaxStalled THEN "waiting" ELSE "failed",
           holder |-> "nobody", failures |-> @.failures, stalls |-> @.stalls + 1]]
    /\ UNCHANGED <<ledgerVars, postbacks, workers, conversions, reviews, sweep, faults>>

-----------------------------------------------------------------------------
(* Review of held conversions.                                             *)

\* Mutant of LockHold: reading the row without its lock.
LockHoldUnlocked(a, c, decision) ==
    /\ reviews[a] = Free
    /\ conversions[c].status = "HELD"
    /\ reviews' = [reviews EXCEPT ![a] =
          [pc |-> "holding", conversion |-> c, decision |-> decision, moves |-> FALSE]]
    /\ UNCHANGED <<ledgerVars, postbacks, jobs, workers, conversions, sweep, faults>>

\* resolveHold: SELECT ... FOR UPDATE, and the status must be HELD.
LockHold(a, c, decision) ==
    /\ reviews[a] = Free
    /\ ConversionFree(c)
    /\ conversions[c].status = "HELD"
    /\ reviews' = [reviews EXCEPT ![a] =
          [pc |-> "holding", conversion |-> c, decision |-> decision, moves |-> FALSE]]
    /\ UNCHANGED <<ledgerVars, postbacks, jobs, workers, conversions, sweep, faults>>

\* The credit is looked up; mature passes over one that was acted on, reverse
\* refuses one that was reversed (RollbackHold).
CheckHold(a) ==
    LET credit == conversions[reviews[a].conversion].credit
        clear  == reviews[a].decision = "CLEAR"
    IN
    /\ reviews[a].pc = "holding"
    /\ ~clear /\ credit # NoRow => CanReverse(credit)
    /\ reviews' = [reviews EXCEPT
          ![a].pc = "moving",
          ![a].moves = credit # NoRow /\ (clear => CanMature(credit))]
    /\ UNCHANGED <<ledgerVars, postbacks, jobs, workers, conversions, sweep, faults>>

\* Mutant of ResolveHold: committing only where points move.
ResolveHoldWithPoints(a) ==
    LET c == reviews[a].conversion
        credit == conversions[c].credit
        clear == reviews[a].decision = "CLEAR"
    IN
    /\ reviews[a].pc = "moving"
    /\ reviews[a].moves
    /\ BalanceFree(conversions[c].user)
    /\ Write(IF clear THEN MaturationRow(credit) ELSE ReversalRow(credit))
    /\ conversions' = [conversions EXCEPT ![c].status = IF clear THEN "CREDITED" ELSE "REJECTED"]
    /\ reviews' = [reviews EXCEPT ![a] = Free]
    /\ UNCHANGED <<postbacks, jobs, workers, sweep, faults>>

\* The points move under the balance lock, the status is updated, commit.
ResolveHold(a) ==
    LET c == reviews[a].conversion
        credit == conversions[c].credit
        clear == reviews[a].decision = "CLEAR"
    IN
    /\ reviews[a].pc = "moving"
    /\ \/ /\ reviews[a].moves
          /\ BalanceFree(conversions[c].user)
          /\ Write(IF clear THEN MaturationRow(credit) ELSE ReversalRow(credit))
       \/ ~reviews[a].moves /\ UNCHANGED ledgerVars
    /\ conversions' = [conversions EXCEPT ![c].status = IF clear THEN "CREDITED" ELSE "REJECTED"]
    /\ reviews' = [reviews EXCEPT ![a] = Free]
    /\ UNCHANGED <<postbacks, jobs, workers, sweep, faults>>

\* reverse refused, or the review is the victim of a deadlock or of a fault.
RollbackHold(a) ==
    /\ \/ /\ reviews[a].pc = "holding" /\ reviews[a].decision = "CONFIRM"
          /\ conversions[reviews[a].conversion].credit # NoRow
          /\ ~CanReverse(conversions[reviews[a].conversion].credit)
          /\ UNCHANGED faults
       \/ (\E w \in Workers : Deadlocked(w, a)) /\ UNCHANGED faults
       \/ reviews[a] # Free /\ faults < MaxFaults /\ faults' = faults + 1
    /\ reviews' = [reviews EXCEPT ![a] = Free]
    /\ UNCHANGED <<ledgerVars, postbacks, jobs, workers, conversions, sweep>>

-----------------------------------------------------------------------------
(* The sweep: credits whose hold has elapsed mature, each in a transaction *)
(* of its own.  Time is left out: any timed hold may have elapsed.         *)

SweepCheck(i) ==
    /\ sweep = NoRow
    /\ ledger[i].hold = "timed"
    /\ CanMature(i)
    /\ sweep' = i
    /\ UNCHANGED <<ledgerVars, postbacks, jobs, workers, conversions, reviews, faults>>

SweepMature ==
    /\ sweep # NoRow
    /\ BalanceFree(ledger[sweep].user)
    /\ Write(MaturationRow(sweep))
    /\ sweep' = NoRow
    /\ UNCHANGED <<postbacks, jobs, workers, conversions, reviews, faults>>

\* A failure on one credit is logged; the next sweep finds the credit again.
SweepFails ==
    /\ sweep # NoRow
    /\ faults < MaxFaults /\ faults' = faults + 1
    /\ sweep' = NoRow
    /\ UNCHANGED <<ledgerVars, postbacks, jobs, workers, conversions, reviews>>

-----------------------------------------------------------------------------
Init ==
    /\ opened = Users
    /\ balance = [u \in Users |-> ZeroBalance]
    /\ ledger = <<>>
    /\ postbacks = [p \in PostbackIds |-> "NONE"]
    /\ jobs = [p \in PostbackIds |-> NoJob]
    /\ workers = [w \in Workers |-> Idle]
    /\ conversions = <<>>
    /\ reviews = [a \in Admins |-> Free]
    /\ sweep = NoRow
    /\ faults = 0

\* What a run does on its own once it has a job.
Run(w) ==
    \/ AttributeConversion(w) \/ AttributeReversal(w) \/ Unattributable(w) \/ Quarantine(w)
    \/ CheckReversal(w) \/ LockBalance(w) \/ Insert(w) \/ UpdateOriginal(w) \/ Commit(w)
    \/ Break(w) \/ GiveUp(w)

Review(a) == CheckHold(a) \/ ResolveHold(a) \/ RollbackHold(a)

Next ==
    \/ \E p \in PostbackIds :
          \/ Archive(p)
          \/ Enqueue(p)
          \/ Stall(p)
          \/ \E w \in Workers : Take(w, p)
    \/ \E w \in Workers : Run(w) \/ Crash(w)
    \/ \E a \in Admins :
          \/ \E c \in ConversionIds, decision \in {"CLEAR", "CONFIRM"} : LockHold(a, c, decision)
          \/ Review(a)
    \/ \E i \in RowIds : SweepCheck(i)
    \/ SweepMature \/ SweepFails

Spec == Init /\ [][Next]_vars

\* Workers and reviews run their statements one after the other; a row lock is
\* granted to its waiters in turn, a waiting job is taken by a free worker, and
\* a job whose worker is gone is found stalled.
Orphaned(p) == \A w \in Workers : jobs[p].holder = w => workers[w] = Idle

Fairness ==
    /\ \A w \in Workers : SF_vars(Run(w))
    /\ \A a \in Admins : WF_vars(Review(a))
    /\ \A p \in PostbackIds :
          /\ SF_vars(\E w \in Workers : Take(w, p))
          /\ WF_vars(Orphaned(p) /\ Stall(p))

FairSpec == Spec /\ Fairness

-----------------------------------------------------------------------------
(* Properties.                                                             *)

CreditRows == {i \in RowIds : ledger[i].type = "CONVERSION_CREDIT"}

\* "Partial completion here is a missing or duplicated credit": a postback
\* becomes at most one conversion, however often its job runs and whoever runs
\* it beside, and every credit in the ledger belongs to exactly one conversion.
PaidOncePerPostback ==
    /\ \A c, d \in ConversionIds :
          conversions[c].postback = conversions[d].postback => c = d
    /\ \A i \in CreditRows :
          \E c \in ConversionIds : \A d \in ConversionIds :
              conversions[d].credit = i <=> d = c

\* What the history must say of the credit of a conversion at this status.
CreditStands(credit, status) ==
    /\ status = "HELD" =>
          /\ ledger[credit].hold = "indefinite"
          /\ ~ActedOn(credit, {"REWARD_MATURATION", "CHARGEBACK_DEBIT"})
    /\ status = "CREDITED" =>
          /\ ledger[credit].hold = "timed" \/ ActedOn(credit, {"REWARD_MATURATION"})
          /\ ~ActedOn(credit, {"CHARGEBACK_DEBIT"})
    /\ status \in {"REJECTED", "REVERSED"} => ActedOn(credit, {"CHARGEBACK_DEBIT"})
    /\ status \notin {"PENDING", "ATTRIBUTED"}

\* The status of a conversion and the history of its points agree: a held one's
\* points neither matured nor left, a credited one's were not taken back, and a
\* rejected or reversed one's were.  Whoever decides: a job that runs twice, a
\* chargeback and a reviewer of the same conversion, or the sweep.
CreditFollowsStatus ==
    \A c \in ConversionIds :
        conversions[c].credit # NoRow =>
            /\ ledger[conversions[c].credit].type = "CONVERSION_CREDIT"
            /\ ledger[conversions[c].credit].user = conversions[c].user
            /\ CreditStands(conversions[c].credit, conversions[c].status)

\* "A reversal row can never exist without both its target having been updated
\* and the points having actually moved back", and no conversion is reversed
\* without a reversal row that says so.
ReversalIsWhole ==
    /\ \A r \in ConversionIds : conversions[r].isReversal =>
          LET c == conversions[r].reversalOf IN
          /\ c \in 1 .. (r - 1)
          /\ conversions[c].status = "REVERSED"
          /\ conversions[c].click = conversions[r].click
          /\ conversions[c].credit # NoRow
                => ActedOn(conversions[c].credit, {"CHARGEBACK_DEBIT"})
    /\ \A c \in ConversionIds : conversions[c].status = "REVERSED" =>
          \E r \in ConversionIds : conversions[r].reversalOf = c

\* A postback marked processed became a conversion.
ProcessedHasConversion ==
    \A p \in PostbackIds : postbacks[p] = "PROCESSED" => Converted(p)

\* The one conversion of a postback, and its status.
ConversionOf(p) == CHOOSE c \in ConversionIds : conversions[c].postback = p

StatusOf(p) == IF Converted(p) THEN conversions[ConversionOf(p)].status ELSE "NONE"

\* Where the points of a credit are: what a chargeback or a reviewer took away
\* stays so, whatever matures after.
PlaceOf(credit) ==
    IF credit = NoRow THEN "none"
    ELSE IF ActedOn(credit, {"CHARGEBACK_DEBIT"}) THEN "taken"
    ELSE IF ActedOn(credit, {"REWARD_MATURATION"}) THEN "free"
    ELSE "waiting"

PointsOf(p) == IF Converted(p) THEN PlaceOf(conversions[ConversionOf(p)].credit) ELSE "none"

Lifecycle == INSTANCE ConversionLifecycle WITH
    status <- [p \in PostbackIds |-> StatusOf(p)],
    points <- [p \in PostbackIds |-> PointsOf(p)]

\* Every step moves the status and the points of one conversion together, along
\* the life cycle, or records a chargeback and takes back what it means, or
\* changes neither: no race of runs, reviewers and the sweep revives a
\* conversion that was taken back, or pays one without saying so.
ImplementsLifecycle == Lifecycle!Spec

\* A job that reached the queue comes to an end, and its postback to a decision,
\* whatever else runs and as long as not every attempt meets a failure.
EnqueuedIsDecided ==
    \A p \in PostbackIds :
        jobs[p].state = "waiting"
            ~> postbacks[p] # "RECEIVED" /\ jobs[p].state \in {"done", "failed"}

\* A reviewer who has locked a held conversion lets it go, whatever chargeback
\* of it holds the balance: of two that wait for each other, one is given up.
HoldIsReleased == \A a \in Admins : reviews[a] # Free ~> reviews[a] = Free
=============================================================================
