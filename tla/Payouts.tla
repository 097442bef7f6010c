------------------------------- MODULE Payouts -------------------------------
(***************************************************************************)
(* Withdrawals: PayoutsService and AdminPayoutsService over the reward     *)
(* ledger.  A user's submission locks points and creates the request in    *)
(* one transaction.  Administrators approve, reject, settle and fail       *)
(* requests concurrently; each review is one transaction that takes the    *)
(* request row FOR UPDATE, checks the transition, resolves the points      *)
(* lock, moves the status and writes the audit entry.                      *)
(*                                                                         *)
(* resolveLock looks for an earlier resolution before it locks the         *)
(* balance (see RewardAccounting), so what keeps a lock from being         *)
(* resolved twice is the request's row lock.  The steps of a review are    *)
(* therefore separate actions here, and other administrators, submissions  *)
(* and reward movements interleave with them.                              *)
(***************************************************************************)
EXTENDS RewardLedger

CONSTANTS
    PayoutIds,
    Admins,
    NoAdmin,        \* an unlocked request row
    PointsPerUnit,  \* payouts.pointsPerCurrencyUnit
    MaxExecutions   \* bound on the provider calls per request

ASSUME PayoutAssumption ==
    /\ NoAdmin \notin Admins
    /\ PointsPerUnit \in Nat \ {0}
    /\ MaxExecutions \in Nat

VARIABLES
    payouts,    \* payout_requests
    rowLock,    \* which administrator's transaction holds a request row
    review,     \* where each administrator's request handler stands
    executed,   \* how often the provider was asked to pay a request
    audit       \* admin_audit_log, the entries of each request in order

payoutVars == <<payouts, rowLock, review, executed, audit>>
vars == <<ledgerVars, payoutVars>>

-----------------------------------------------------------------------------
Statuses == {"PENDING_REVIEW", "APPROVED", "PAID", "REJECTED", "FAILED"}

\* Mutant of Transitions: an approved request can still be rejected.
TransitionsLoose ==
    {<<"PENDING_REVIEW", "APPROVED">>, <<"PENDING_REVIEW", "REJECTED">>,
     <<"APPROVED", "PAID">>, <<"APPROVED", "FAILED">>, <<"APPROVED", "REJECTED">>}

\* The moves the state machine permits; every other status is terminal.
Transitions ==
    {<<"PENDING_REVIEW", "APPROVED">>, <<"PENDING_REVIEW", "REJECTED">>,
     <<"APPROVED", "PAID">>, <<"APPROVED", "FAILED">>}

CanTransition(from, to) == <<from, to>> \in Transitions

\* Mutant of LockEffect: a failed payment leaves the points locked.
LockEffectNoRefund(from, to) ==
    IF to = "PAID" THEN "PAYOUT_SETTLE"
    ELSE IF to = "REJECTED" THEN "PAYOUT_REFUND"
    ELSE "none"

\* What a transition does to the lock: the row it appends, or none.
LockEffect(from, to) ==
    IF from = "PENDING_REVIEW" /\ to = "APPROVED" THEN "none"
    ELSE IF to = "PAID" THEN "PAYOUT_SETTLE"
    ELSE IF to \in {"REJECTED", "FAILED"} THEN "PAYOUT_REFUND"
    ELSE "none"

\* Points to minor units of money, rounded down.
ToCashMinor(points) == (points * 100) \div PointsPerUnit

NoPayout == [status |-> "NONE"]
Exists(p) == payouts[p] # NoPayout

Payout == [status : Statuses, user : Users, amount : Nat, cash : Int, lock : Nat]

\* Handlers: none, settle before its provider call, settle holding the
\* provider's reference, a transaction with nothing locked, one that holds the
\* request row, one that has also found the points lock unresolved.
Free  == [pc |-> "free"]
Steps == {"executing", "executed", "open", "locked", "resolving"}
Handler == [pc : Steps, payout : PayoutIds, to : Statuses, before : Statuses]

Entry == [before : Statuses, after : Statuses]

InTransaction(a) == review[a].pc \in {"open", "locked", "resolving"}
HoldsRow(a) == review[a].pc \in {"locked", "resolving"}

-----------------------------------------------------------------------------
(* Submission.  The amount is one configuration allows; the daily cap is   *)
(* counted outside the transaction over a window that slides with the      *)
(* clock, so a submission may pass or fail it at any time and it guards    *)
(* nothing here.  Insufficient points refuse, and leave nothing behind.    *)

Submit(p, u, a) ==
    /\ ~Exists(p)
    /\ Lock(u, a)
    /\ payouts' = [payouts EXCEPT ![p] =
          [status |-> "PENDING_REVIEW", user |-> u, amount |-> a,
           cash |-> ToCashMinor(a), lock |-> Len(ledger')]]
    /\ UNCHANGED <<rowLock, review, executed, audit>>

-----------------------------------------------------------------------------
(* Review.                                                                 *)

\* settle, first half: execute reads the request and asserts the transition.
CheckExecute(a, p) ==
    /\ review[a] = Free
    /\ Exists(p)
    /\ CanTransition(payouts[p].status, "PAID")
    /\ review' = [review EXCEPT ![a] =
          [pc |-> "executing", payout |-> p, to |-> "PAID", before |-> payouts[p].status]]
    /\ UNCHANGED <<ledgerVars, payouts, rowLock, executed, audit>>

\* The provider pays, or records that a human did, and answers a reference.
\* An empty reference is refused and the request stays as it is (Rollback).
Execute(a) ==
    /\ review[a].pc = "executing"
    /\ executed[review[a].payout] < MaxExecutions
    /\ executed' = [executed EXCEPT ![review[a].payout] = @ + 1]
    /\ review' = [review EXCEPT ![a].pc = "executed"]
    /\ UNCHANGED <<ledgerVars, payouts, rowLock, audit>>

\* The review transaction opens; "before" is read on another connection, and
\* not under the row lock.  Only settle moves a request to PAID.
OpenReview(a, p, to) ==
    /\ Exists(p)
    /\ \/ review[a] = Free /\ to \in {"APPROVED", "REJECTED", "FAILED"}
       \/ review[a].pc = "executed" /\ review[a].payout = p /\ to = "PAID"
    /\ review' = [review EXCEPT ![a] =
          [pc |-> "open", payout |-> p, to |-> to, before |-> payouts[p].status]]
    /\ UNCHANGED <<ledgerVars, payouts, rowLock, executed, audit>>

\* Mutant of LockRequest: the status is read without FOR UPDATE.
LockRequestUnlocked(a) ==
    LET p == review[a].payout IN
    /\ review[a].pc = "open"
    /\ CanTransition(payouts[p].status, review[a].to)
    /\ rowLock' = [rowLock EXCEPT ![p] = a]
    /\ review' = [review EXCEPT ![a].pc = "locked"]
    /\ UNCHANGED <<ledgerVars, payouts, executed, audit>>

\* SELECT status ... FOR UPDATE waits for the row; assertTransition decides.
LockRequest(a) ==
    LET p == review[a].payout IN
    /\ review[a].pc = "open"
    /\ rowLock[p] = NoAdmin
    /\ CanTransition(payouts[p].status, review[a].to)
    /\ rowLock' = [rowLock EXCEPT ![p] = a]
    /\ review' = [review EXCEPT ![a].pc = "locked"]
    /\ UNCHANGED <<ledgerVars, payouts, executed, audit>>

Refuse(a) ==
    LET p == review[a].payout IN
    /\ review[a].pc = "open"
    /\ rowLock[p] = NoAdmin
    /\ ~CanTransition(payouts[p].status, review[a].to)
    /\ review' = [review EXCEPT ![a] = Free]
    /\ UNCHANGED <<ledgerVars, payouts, rowLock, executed, audit>>

\* resolveLock finds no settlement or refund of the lock.
CheckLock(a) ==
    LET p == review[a].payout IN
    /\ review[a].pc = "locked"
    /\ LockEffect(payouts[p].status, review[a].to) # "none"
    /\ CanResolve(payouts[p].lock)
    /\ review' = [review EXCEPT ![a].pc = "resolving"]
    /\ UNCHANGED <<ledgerVars, payouts, rowLock, executed, audit>>

\* The points move, the status moves, the audit entry is written, commit.
Commit(a) ==
    LET p  == review[a].payout
        to == review[a].to
    IN
    /\ \/ /\ review[a].pc = "locked"
          /\ LockEffect(payouts[p].status, to) = "none"
          /\ UNCHANGED ledgerVars
       \/ /\ review[a].pc = "resolving"
          /\ Write(ResolutionRow(payouts[p].lock, LockEffect(payouts[p].status, to)))
    /\ payouts' = [payouts EXCEPT ![p].status = to]
    /\ audit' = [audit EXCEPT ![p] = Append(@, [before |-> review[a].before, after |-> to])]
    /\ rowLock' = [rowLock EXCEPT ![p] = NoAdmin]
    /\ review' = [review EXCEPT ![a] = Free]
    /\ UNCHANGED executed

\* Mutant of Rollback: the request row stays locked.
RollbackKeepsRow(a) ==
    /\ review[a] # Free
    /\ review' = [review EXCEPT ![a] = Free]
    /\ UNCHANGED <<ledgerVars, payouts, rowLock, executed, audit>>

\* An error, a refused provider call or a dead process: nothing the handler's
\* transaction wrote survives, and the row lock goes with it.
Rollback(a) ==
    /\ review[a] # Free
    /\ rowLock' = [p \in PayoutIds |-> IF rowLock[p] = a THEN NoAdmin ELSE rowLock[p]]
    /\ review' = [review EXCEPT ![a] = Free]
    /\ UNCHANGED <<ledgerVars, payouts, executed, audit>>

-----------------------------------------------------------------------------
(* The rest of the system moves the same balances: conversions credit, the *)
(* sweep matures, chargebacks take back.  Their own interleavings are the  *)
(* subject of RewardAccounting; here each is one step.                     *)

Earn ==
    /\ \/ \E u \in Users : OpenAccount(u) \/ \E a \in Amounts : Credit(u, a, "timed")
       \/ \E i \in RowIds : CanMature(i) /\ Write(MaturationRow(i))
       \/ \E i \in RowIds : CanReverse(i) /\ Write(ReversalRow(i))
    /\ UNCHANGED payoutVars

Init ==
    /\ LedgerInit
    /\ payouts = [p \in PayoutIds |-> NoPayout]
    /\ rowLock = [p \in PayoutIds |-> NoAdmin]
    /\ review = [a \in Admins |-> Free]
    /\ executed = [p \in PayoutIds |-> 0]
    /\ audit = [p \in PayoutIds |-> <<>>]

\* What the database and the server do on their own once a review began.
Proceed(a) == LockRequest(a) \/ Refuse(a) \/ CheckLock(a) \/ Commit(a) \/ Rollback(a)

Next ==
    \/ Earn
    \/ \E p \in PayoutIds, u \in Users, a \in Amounts : Submit(p, u, a)
    \/ \E a \in Admins, p \in PayoutIds :
          \/ CheckExecute(a, p)
          \/ \E to \in Statuses : OpenReview(a, p, to)
    \/ \E a \in Admins : Execute(a) \/ Proceed(a)

Spec == Init /\ [][Next]_vars

\* A transaction that holds its row goes on or is rolled back (the server runs
\* its statements one after the other), and Postgres grants a row lock to its
\* waiters in turn, so one of a row that is free again and again gets it.
Fairness ==
    \A a \in Admins :
        /\ SF_vars(LockRequest(a) \/ Refuse(a))
        /\ WF_vars(HoldsRow(a) /\ (CheckLock(a) \/ Commit(a) \/ Rollback(a)))

FairSpec == Spec /\ Fairness

-----------------------------------------------------------------------------
(* Properties.                                                             *)

TypeOK ==
    /\ LedgerTypeOK
    /\ payouts \in [PayoutIds -> {NoPayout} \cup Payout]
    /\ rowLock \in [PayoutIds -> Admins \cup {NoAdmin}]
    /\ review \in [Admins -> {Free} \cup Handler]
    /\ executed \in [PayoutIds -> Nat]
    /\ audit \in [PayoutIds -> Seq(Entry)]

Resolving(i) == {j \in RowIds : ledger[j].source = i /\ ledger[j].type \in Resolutions}

\* Row i is resolved by exactly one row, of this type.
ResolvedOnceAs(i, type) == \E j \in RowIds : Resolving(i) = {j} /\ ledger[j].type = type

\* How the history must have dealt with a lock whose request is at status s.
LockStands(i, s) ==
    /\ s \in {"PENDING_REVIEW", "APPROVED"} => Resolving(i) = {}
    /\ s = "PAID" => ResolvedOnceAs(i, "PAYOUT_SETTLE")
    /\ s \in {"REJECTED", "FAILED"} => ResolvedOnceAs(i, "PAYOUT_REFUND")

\* "Across any path from submission to a terminal state, exactly one settle or
\* release happens": a request still under way has its points lock open, a paid
\* one has it settled once and never refunded, a rejected or failed one has it
\* refunded once and never settled.  It holds whatever the administrators do at
\* the same moment, and relates every request to the history of the ledger.
LockFollowsStatus ==
    \A p \in PayoutIds : Exists(p) => LockStands(payouts[p].lock, payouts[p].status)

\* "A lock without a request strands points; a request without a lock allows
\* double-spend": requests and lock rows correspond one to one, for the same
\* user and the same points.
LocksAndRequestsPair ==
    /\ \A p \in PayoutIds : Exists(p) =>
          /\ payouts[p].lock \in RowIds
          /\ ledger[payouts[p].lock].type = "PAYOUT_LOCK"
          /\ ledger[payouts[p].lock].user = payouts[p].user
          /\ ledger[payouts[p].lock].locked = payouts[p].amount
    /\ \A i \in RowIds : ledger[i].type = "PAYOUT_LOCK" =>
          \E p \in PayoutIds :
             /\ Exists(p) /\ payouts[p].lock = i
             /\ \A q \in PayoutIds : Exists(q) /\ payouts[q].lock = i => q = p

\* No request is marked paid before the provider answered a reference for it.
PaidWasExecuted ==
    \A p \in PayoutIds : payouts[p].status = "PAID" => executed[p] > 0

\* "The transition history lives in admin_audit_log": read in order, the entries
\* of a request go through permitted transitions and end at its status, whoever
\* made them at the same moment.  What an entry says of the status BEFORE may be
\* stale (OpenReview) and is left out.
StatusAfter(p, n) == IF n = 0 THEN "PENDING_REVIEW" ELSE audit[p][n].after

AuditTellsStatus ==
    \A p \in PayoutIds : Exists(p) =>
        /\ payouts[p].status = StatusAfter(p, Len(audit[p]))
        /\ \A n \in 1 .. Len(audit[p]) :
              CanTransition(StatusAfter(p, n - 1), StatusAfter(p, n))

\* A user's locked points are exactly those of the requests still under way.
UnderWay(u) ==
    {p \in PayoutIds : /\ payouts[p].status \in {"PENDING_REVIEW", "APPROVED"}
                       /\ payouts[p].user = u}

LockedIsUnderWay ==
    \A u \in Users : balance[u].locked = SumFunction([p \in UnderWay(u) |-> payouts[p].amount])

\* What makes the invariants above inductive: rows act on earlier rows only,
\* a handler works on a request that exists, one that holds the request row is
\* the only one that does and its transition is still permitted, and one that
\* will mark a request paid has the provider's reference.
RowsPointBack == \A j \in RowIds : ledger[j].source < j

HandlersSound ==
    \A a \in Admins : review[a] # Free =>
        LET p  == review[a].payout
            pc == review[a].pc
        IN  /\ Exists(p)
            /\ pc \in {"locked", "resolving"} =>
                  rowLock[p] = a /\ CanTransition(payouts[p].status, review[a].to)
            /\ pc = "resolving" => LockEffect(payouts[p].status, review[a].to) # "none"
            /\ pc \notin {"executing", "executed"} /\ review[a].to = "PAID" => executed[p] > 0
            /\ pc = "executed" => executed[p] > 0

\* Payouts implements the abstract life cycle, status and points together.
FundsOf(p) ==
    IF ~Exists(p) THEN "none"
    ELSE IF ActedOn(payouts[p].lock, {"PAYOUT_SETTLE"}) THEN "spent"
    ELSE IF ActedOn(payouts[p].lock, {"PAYOUT_REFUND"}) THEN "returned"
    ELSE "locked"

Lifecycle == INSTANCE PayoutLifecycle WITH
    status <- [p \in PayoutIds |-> payouts[p].status],
    funds  <- [p \in PayoutIds |-> FundsOf(p)]

\* Every step of Payouts moves one request along the life cycle, its status and
\* its points in the same step, or changes neither.
ImplementsLifecycle == Lifecycle!Spec

\* A review that began comes to an end: no request row stays locked, and no
\* administrator waits for one for ever.
ReviewsEnd ==
    \A a \in Admins : review[a].pc = "open" ~> ~InTransaction(a)
=============================================================================
